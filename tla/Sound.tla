------------------------------- MODULE Sound -------------------------------
\* The sound of the page (src/web/audio.js): the audio device that only a key
\* or a click may wake, the clips and the song that arrive when they do, the
\* mute switch and the user's volume, and the list of voices by which a new
\* voice is turned away when too many already sound.
\*
\* Time is the device's own clock, in steps; a voice is kept with the time it
\* has left.  Gain, pan, filters, reverb and the synthetic sweeps (which are
\* not counted) are left out: they change no state a later call reads.
EXTENDS Integers, Sequences, FiniteSets, SequencesExt

CONSTANTS
    Event,      \* the page's sounds that this instance plays
    Cap,        \* how many voices of a kind may sound at once
    TotalCap,   \* how many voices at all
    Level       \* positions of the volume sliders

Layer(key, delay, rate) == [key |-> key, delay |-> delay, rate |-> rate]

\* The recorded layers of each sound.  rate: 1 plays a clip at half its speed,
\* 2 at its own, within the random wobble; delay: 1 where the code gives one.
Boom   == <<Layer("boomBody", 0, 2), Layer("boomCrack", 1, 2)>>
Chain  == <<Layer("chain", 0, 2)>>
Trap   == <<Layer("trap", 0, 2), Layer("trapDown", 1, 2)>>
Breaks == <<Layer("escape", 0, 2)>>
Pop    == <<Layer("popPunch", 0, 2), Layer("popCrack", 1, 2), Layer("boomBody", 1, 1)>>
Death  == <<Layer("death", 0, 2), Layer("boomBody", 0, 1)>>
Item   == <<Layer("item", 0, 2)>>
Crack  == <<Layer("crate", 0, 2)>>
Push   == <<Layer("crate", 0, 1), Layer("step", 0, 1)>>
Step   == <<Layer("step", 0, 2)>>
Warn   == <<Layer("floodLow", 0, 2)>>
Flood  == <<Layer("boomBody", 0, 1), Layer("floodLow", 1, 1)>>
Drown  == <<Layer("drown", 0, 2)>>
Layers == [boom |-> Boom, chain |-> Chain, trap |-> Trap, breaks |-> Breaks,
           pop |-> Pop, death |-> Death, item |-> Item, crack |-> Crack,
           push |-> Push, step |-> Step, warn |-> Warn, flood |-> Flood,
           drown |-> Drown]
Gated == {"boom", "step", "drown"}

Clip == UNION {{Layers[e][i].key : i \in 1..Len(Layers[e])} : e \in Event}

ASSUME SoundAssumption ==
    /\ Event \subseteq DOMAIN Layers
    /\ Cap \in [Clip -> Nat \ {0}]
    /\ TotalCap \in Nat \ {0}

VARIABLES
    ac,         \* the audio device: none yet, suspended or running
    resuming,   \* its resume() has not answered yet
    muted,
    here,       \* clips that have been fetched and decoded
    bgm,        \* the song's file: not asked for, loading, here or lost
    bgmSource,  \* a source of the song is remembered
    songs,      \* sources of the song that have been started
    live,       \* the page's voices, with the time each has left
    heard,      \* voices that really sound or are due to
    gate,       \* sounds whose gate is still shut
    volume,     \* the volume the page was last told
    gain        \* what the mixer's nodes are set to

device == <<ac, resuming, bgm, bgmSource, songs>>
voices == <<here, live, heard, gate>>
levels == <<volume, gain>>
soundVars == <<device, muted, voices, levels>>

ready == ac # "none"

SoundInit(audio) ==
    /\ ac = "none" /\ resuming = FALSE /\ muted = FALSE
    /\ here = {} /\ bgm = "no" /\ bgmSource = FALSE /\ songs = 0
    /\ live = {} /\ heard = {} /\ gate = {}
    /\ volume = audio /\ gain = "default"

-----------------------------------------------------------------------------
\* The device and the song

\* A mutant of startBgm: nothing asks whether the song plays already.
startBgmAgain(asked) ==
    IF ready /\ asked
    THEN songs' = songs + 1 /\ bgmSource' = TRUE
    ELSE UNCHANGED <<songs, bgmSource>>

startBgm(loaded) ==
    IF ready /\ loaded /\ ~bgmSource
    THEN songs' = songs + 1 /\ bgmSource' = TRUE
    ELSE UNCHANGED <<songs, bgmSource>>

\* build: the nodes start at the volume the page was told before they existed.
\* A browser without audio never gets past it; it stays silent and is left out.
Build ==
    /\ ac = "none"
    /\ ac' \in {"suspended", "running"}
    /\ resuming' = (ac' = "suspended")
    /\ bgm' = "loading"
    /\ gain' = volume
    /\ UNCHANGED <<muted, bgmSource, songs, voices, volume>>

\* wake, once the device is there.
Again ==
    /\ ready
    /\ IF ac = "suspended"
       THEN resuming' = TRUE /\ UNCHANGED <<bgmSource, songs>>
       ELSE startBgm(bgm = "here") /\ UNCHANGED resuming
    /\ UNCHANGED <<ac, bgm, muted, voices, levels>>

Wake == Build \/ Again

\* resume() answers: the device runs, or the browser still refuses.
Resumed ==
    /\ resuming
    /\ resuming' = FALSE
    /\ \/ ac' = "running" /\ startBgm(bgm = "here")
       \/ UNCHANGED <<ac, bgmSource, songs>>
    /\ UNCHANGED <<bgm, muted, voices, levels>>

BgmArrives ==
    /\ bgm = "loading"
    /\ \/ bgm' = "here" /\ startBgm(TRUE)
       \/ bgm' = "lost" /\ UNCHANGED <<bgmSource, songs>>
    /\ UNCHANGED <<ac, resuming, muted, voices, levels>>

ClipArrives ==
    /\ ready
    /\ \E k \in Clip \ here : here' = here \cup {k}
    /\ UNCHANGED <<device, muted, live, heard, gate, levels>>

\* Every key handler wakes the device before it toggles.
Toggle ==
    /\ ready
    /\ muted' = ~muted
    /\ UNCHANGED <<device, voices, levels>>

applyVolumes(audio) ==
    /\ volume' = audio
    /\ gain' = IF ready THEN audio ELSE gain

-----------------------------------------------------------------------------
\* The voices

\* Voices are told apart by a number, which the page's array of them has no need of.
Voice(others, key, left) ==
    [n |-> CHOOSE n \in 0 .. Cardinality(others) : \A v \in others : v.n # n,
     key |-> key, left |-> left]

\* Every clip lasts one step at its own speed.
Lasts(layer) == layer.delay + 2 \div layer.rate

reap(list) == {v \in list : v.left > 0}
countOf(list, key) == Cardinality({v \in list : v.key = key})

\* A mutant of play: the list takes the clip's length for the voice's.
playFullSpeed(mix, layer) ==
    LET list == reap(mix.live)
        v(left) == Voice(list \cup mix.heard, layer.key, left)
    IN
    IF countOf(list, layer.key) >= Cap[layer.key] \/ Cardinality(list) >= TotalCap \/ layer.key \notin here
    THEN [mix EXCEPT !.live = list]
    ELSE [live |-> list \cup {v(layer.delay + 1)}, heard |-> mix.heard \cup {v(Lasts(layer))}]

play(mix, layer) ==
    LET list == reap(mix.live)
        v == Voice(list \cup mix.heard, layer.key, Lasts(layer))
    IN
    IF countOf(list, layer.key) >= Cap[layer.key] \/ Cardinality(list) >= TotalCap \/ layer.key \notin here
    THEN [mix EXCEPT !.live = list]
    ELSE [live |-> list \cup {v}, heard |-> mix.heard \cup {v}]

\* A sound has one to three layers, played one after another.
playLayers(mix, layers) ==
    LET first == play(mix, layers[1])
        second == IF Len(layers) < 2 THEN first ELSE play(first, layers[2])
    IN  IF Len(layers) < 3 THEN second ELSE play(second, layers[3])

\* One of the page's sounds; a muted page or one without a device plays none.
Sounds(e) ==
    /\ ready
    /\ e \in Gated => e \notin gate
    /\ gate' = IF e \in Gated THEN gate \cup {e} ELSE gate
    /\ LET mix == [live |-> live, heard |-> heard]
           all == IF muted THEN mix ELSE playLayers(mix, Layers[e])
       IN live' = all.live /\ heard' = all.heard
    /\ UNCHANGED <<here, device, muted, levels>>

Older(list) == {[v EXCEPT !.left = IF @ > 0 THEN @ - 1 ELSE 0] : v \in list}

\* A step of the device's clock.
Tick ==
    /\ ac = "running"
    /\ live' = Older(live)
    /\ heard' = reap(Older(heard))
    /\ gate' = {}
    /\ UNCHANGED <<here, device, muted, levels>>

SoundNext ==
    \/ Wake \/ Resumed \/ BgmArrives \/ ClipArrives \/ Toggle \/ Tick
    \/ \E e \in Event : Sounds(e)

=============================================================================
