------------------------------ MODULE Settings ------------------------------
\* The settings of the page (src/web/lobby.js): the profile kept in the
\* browser's storage, repaired when it is read, and the dialog that edits a
\* draft of it, lets the volume be heard at once and gives a key to an action.
\* The dialog drives the sound of module Sound, and the two run together.
\*
\* The character is left out: it is one more field of the draft.  The two
\* volumes are one level.
EXTENDS Sound

CONSTANTS
    Actions,    \* the actions that have a key, in the order of the defaults
    Default,    \* the default key of each
    KeyName,    \* keys of the keyboard, the reserved ones among them
    Reserved,   \* keys the game itself uses (R, M)
    Loudness    \* the default level

Action == ToSet(Actions)

ASSUME SettingsAssumption ==
    /\ Actions \in Seq(Action)
    /\ Default \in [Action -> KeyName \ Reserved]
    /\ \A a, b \in Action : Default[a] = Default[b] => a = b
    /\ \A i, j \in DOMAIN Actions : Actions[i] = Actions[j] => i = j
    /\ Loudness \in Level

None == "none"

VARIABLES
    profile,        \* the settings in use, the game's keys among them
    draft,          \* the dialog's own copy; a closed one is never read again,
                    \* and is kept equal to the profile
    shown,          \* the dialog is on the screen
    waitingForKey   \* the action whose new key is awaited

settingVars == <<profile, draft, shown, waitingForKey>>
vars == <<soundVars, settingVars>>

-----------------------------------------------------------------------------
\* Profile.copy

Profile == [keys : [Action -> KeyName], audio : Level]

\* The first of the defaults that is still free.
FreeDefault(used) ==
    Default[Actions[CHOOSE i \in DOMAIN Actions :
        /\ Default[Actions[i]] \notin used
        /\ \A j \in 1..(i - 1) : Default[Actions[j]] \in used]]

\* A mutant of Repaired: a key taken twice is given up for the default, and
\* nobody asks whether the default is taken.
RepairedToDefault(raw, used, action) ==
    IF raw \in Reserved \cup used THEN Default[action] ELSE raw

Repaired(raw, used, action) ==
    IF raw \notin Reserved \cup used THEN raw
    ELSE IF Default[action] \in used THEN FreeDefault(used)
    ELSE Default[action]

Before(keys, i) == {keys[Actions[j]] : j \in 1..(i - 1)}

\* The keys are repaired one action after another, each in the light of those before it,
\* so that there is but one result.
CopyKeys(raw) ==
    CHOOSE keys \in [Action -> KeyName] :
        \A i \in DOMAIN Actions :
            keys[Actions[i]] = Repaired(raw[Actions[i]], Before(keys, i), Actions[i])

Copy(value) == [value EXCEPT !.keys = CopyKeys(@)]

\* What the next visit reads, if the settings in use could be saved.
NextVisit == Copy(profile)

-----------------------------------------------------------------------------
\* A page is loaded over whatever an older version, or an earlier visit, left
\* in the storage: reading it again later is starting here again.
Init ==
    /\ \E stored \in Profile : profile = Copy(stored)
    /\ draft = profile
    /\ shown = FALSE /\ waitingForKey = None
    /\ SoundInit(profile.audio)

\* The dialog

openProfile ==
    /\ draft' = Copy(profile)
    /\ waitingForKey' = None
    /\ shown' = TRUE
    /\ UNCHANGED <<profile, soundVars>>

\* A mutant of closeProfile: what was tried out stays.
closeProfileAsTried(audio) ==
    /\ waitingForKey' = None
    /\ shown' = FALSE
    /\ UNCHANGED levels

closeProfile(audio) ==
    /\ waitingForKey' = None
    /\ shown' = FALSE
    /\ applyVolumes(audio)

\* Its button, a click beside it, or Escape while no key is awaited.
Cancel ==
    /\ shown
    /\ draft' = profile
    /\ closeProfile(profile.audio)
    /\ UNCHANGED <<profile, device, muted, voices>>

\* An input event of a slider.
previewVolumes ==
    /\ shown
    /\ \E audio \in Level :
        /\ draft' = [draft EXCEPT !.audio = audio]
        /\ applyVolumes(audio)
    /\ UNCHANGED <<profile, shown, waitingForKey, device, muted, voices>>

\* The storage may be full or forbidden: Profile.save then throws, and what
\* follows it in the handler is not done.
saveProfile ==
    /\ shown
    /\ profile' = draft
    /\ \/ closeProfile(draft.audio)
       \/ UNCHANGED <<shown, waitingForKey, levels>>
    /\ UNCHANGED <<draft, device, muted, voices>>

captureKey ==
    /\ shown
    /\ \E a \in Action : waitingForKey' = a
    /\ UNCHANGED <<profile, draft, shown, soundVars>>

Taken(value) ==
    \E a \in Action \ {waitingForKey} : draft.keys[a] = value

\* A key pressed while one is awaited: a reserved one, or another action's, is
\* refused and the next awaited.
onKey ==
    /\ waitingForKey # None
    /\ \E value \in KeyName \ Reserved :
        /\ ~Taken(value)
        /\ draft' = [draft EXCEPT !.keys[waitingForKey] = value]
    /\ waitingForKey' = None
    /\ UNCHANGED <<profile, shown, soundVars>>

onEscape ==
    /\ waitingForKey # None
    /\ waitingForKey' = None
    /\ UNCHANGED <<profile, draft, shown, soundVars>>

Next ==
    \/ openProfile \/ Cancel \/ previewVolumes \/ saveProfile
    \/ captureKey \/ onKey \/ onEscape
    \/ SoundNext /\ UNCHANGED settingVars

Spec == Init /\ [][Next]_vars

-----------------------------------------------------------------------------
\* From the moment it is decoded one copy of the song plays, however many
\* promises, key presses and clicks ask for it, and never a second over it.
OneSong == songs = IF bgm = "here" THEN 1 ELSE 0

\* The caps hold for what is really heard: no voice sounds that the list has
\* forgotten, so the voices of a kind and all of them stay within their caps.
VoicesCounted ==
    /\ Cardinality(heard) <= TotalCap
    /\ \A k \in Clip : countOf(heard, k) <= Cap[k]

\* While the dialog is closed the mixer plays at the level of the settings in
\* use, whether the dialog was saved, given up or its saving failed, and no
\* key is awaited.
SettingsHold ==
    ~shown => /\ volume = profile.audio
              /\ ready => gain = profile.audio
              /\ waitingForKey = None

\* Two actions never share a key and no action has one of the game's own,
\* whatever an older version stored and however keys were exchanged; and so the
\* next visit, which repairs what it reads, finds what was saved (lobby.js:30).
KeysApart ==
    /\ \A a \in Action : profile.keys[a] \notin Reserved
    /\ \A a, b \in Action : profile.keys[a] = profile.keys[b] => a = b
    /\ NextVisit = profile

=============================================================================
