------------------------------ MODULE WebProofs ------------------------------
(***************************************************************************)
(* The page: that one copy of the song plays, that the mixer follows the   *)
(* settings in use, that the voices heard stay within their caps, and that *)
(* no two actions share a key, for every set of sounds, keys and levels;   *)
(* that the server goes where the keys say, that no part of the body is    *)
(* ever in a wall, and that the two copies of the rules of movement agree, *)
(* for every board, size and speed; that the floor shows what would be     *)
(* painted now, and that no key of a cache is too coarse, for every board, *)
(* size and cache.                                                         *)
(***************************************************************************)
EXTENDS Settings, Play, Art, FiniteSetTheorems, WellFoundedInduction, SequenceTheorems, TLAPS

\* The song is begun only where it is looked for whether it has begun, and whoever
\* begins it remembers its source; no source is remembered before the song is here, and
\* the song is not asked for before there is a device.
SongInv ==
    /\ songs = IF bgmSource THEN 1 ELSE 0
    /\ bgmSource \in BOOLEAN
    /\ bgm = "here" <=> bgmSource
    /\ bgm # "no" => ready

\* The mixer is where the page was last told to be, also while the dialog tries a level
\* out; what is tried out goes with the dialog.
HoldInv ==
    /\ resuming => ready
    /\ ready => gain = volume
    /\ ~shown => volume = profile.audio /\ waitingForKey = None

-----------------------------------------------------------------------------

\* Before the first key or click there is neither device nor song.
LEMMA SongInit == Init => SongInv
  BY DEF Init, SoundInit, SongInv, ready

\* No promise, key or click begins a second copy of the song.
LEMMA SongStep == SongInv /\ [Next]_vars => SongInv'
<1> SUFFICES ASSUME SongInv, [Next]_vars PROVE SongInv'
  OBVIOUS
<1> USE DEF SongInv, ready
<1>1. CASE Build
  BY <1>1 DEF Build
<1>2. CASE Again
  BY <1>2 DEF Again, startBgm
<1>3. CASE Resumed
  BY <1>3 DEF Resumed, startBgm
<1>4. CASE BgmArrives
  <2>1. ready /\ bgmSource = FALSE /\ songs = 0 /\ UNCHANGED ac
    BY <1>4 DEF BgmArrives
  <2>2. CASE bgm' = "here" /\ startBgm(TRUE)
    BY <2>1, <2>2 DEF startBgm
  <2>3. CASE bgm' = "lost" /\ UNCHANGED <<bgmSource, songs>>
    BY <2>1, <2>3
  <2> QED
    BY <1>4, <2>2, <2>3 DEF BgmArrives
<1>5. CASE UNCHANGED device
  BY <1>5 DEF device
<1>6. CASE ClipArrives \/ Toggle \/ \E e \in Event : Sounds(e)
  BY <1>5, <1>6 DEF ClipArrives, Toggle, Sounds
<1>7. CASE Tick
  BY <1>5, <1>7 DEF Tick
<1>8. CASE openProfile \/ captureKey \/ onKey \/ onEscape
  BY <1>5, <1>8 DEF openProfile, captureKey, onKey, onEscape, soundVars
<1>9. CASE Cancel \/ previewVolumes \/ saveProfile
  BY <1>5, <1>9 DEF Cancel, previewVolumes, saveProfile, device
<1>10. CASE UNCHANGED vars
  BY <1>5, <1>10 DEF vars, soundVars
<1> QED
  BY <1>1, <1>2, <1>3, <1>4, <1>6, <1>7, <1>8, <1>9, <1>10 DEF Next, SoundNext, Wake

\* From the moment it is decoded one copy of the song plays, however many promises, key
\* presses and clicks ask for it (audio.js:242).
THEOREM OneSongAlways == Spec => []OneSong
<1>1. SongInv => OneSong
  BY DEF SongInv, OneSong
<1> QED
  BY SongInit, SongStep, <1>1, PTL DEF Spec

-----------------------------------------------------------------------------

\* A new page plays at the level of its profile.
LEMMA HoldInit == Init => HoldInv
  BY DEF Init, SoundInit, HoldInv, ready

\* Whatever opens, changes or closes the dialog keeps the levels.
LEMMA HoldStep == HoldInv /\ [Next]_vars => HoldInv'
<1> SUFFICES ASSUME HoldInv, [Next]_vars PROVE HoldInv'
  OBVIOUS
<1> USE DEF HoldInv, ready
<1>1. CASE Build /\ UNCHANGED settingVars
  BY <1>1 DEF Build, settingVars
<1>2. CASE Again /\ UNCHANGED settingVars
  BY <1>2 DEF Again, levels, settingVars
<1>3. CASE (Resumed \/ BgmArrives) /\ UNCHANGED settingVars
  BY <1>3 DEF Resumed, BgmArrives, startBgm, levels, settingVars
<1>4. CASE (ClipArrives \/ Toggle \/ Tick \/ \E e \in Event : Sounds(e)) /\ UNCHANGED settingVars
  BY <1>4 DEF ClipArrives, Toggle, Tick, Sounds, device, levels, settingVars
<1>5. CASE openProfile \/ captureKey \/ onKey \/ onEscape
  BY <1>5 DEF openProfile, captureKey, onKey, onEscape, soundVars, device, levels
<1>6. CASE Cancel \/ previewVolumes
  BY <1>6 DEF Cancel, previewVolumes, closeProfile, applyVolumes, device
<1>7. CASE saveProfile
  BY <1>7 DEF saveProfile, closeProfile, applyVolumes, device, levels
<1>8. CASE UNCHANGED vars
  BY <1>8 DEF vars, soundVars, settingVars, device, levels
<1> QED
  BY <1>1, <1>2, <1>3, <1>4, <1>5, <1>6, <1>7, <1>8 DEF Next, SoundNext, Wake

\* While the dialog is closed the mixer plays at the level of the settings in use,
\* whether the dialog was saved, given up or its saving failed (lobby.js:175).
THEOREM SettingsHoldAlways == Spec => []SettingsHold
<1>1. HoldInv => SettingsHold
  BY DEF HoldInv, SettingsHold
<1> QED
  BY HoldInit, HoldStep, <1>1, PTL DEF Spec

-----------------------------------------------------------------------------
(* The voices.                                                               *)

AVoice == [n : Nat, key : Clip, left : Nat]

\* What sounds is what the page has listed and not forgotten, and is within the caps.
Mixed(list, sound) ==
    /\ list \in SUBSET AVoice /\ IsFiniteSet(sound)
    /\ sound = reap(list)
    /\ Cardinality(sound) <= TotalCap
    /\ \A k \in Clip : countOf(sound, k) <= Cap[k]

VoicesInv == Mixed(live, heard)

\* Every sound has one to three layers, each of which lasts a step at least.
LEMMA LayersAre ==
  ASSUME NEW e \in Event
  PROVE  /\ Len(Layers[e]) \in 1 .. 3
         /\ \A i \in 1 .. Len(Layers[e]) : Layers[e][i].key \in Clip /\ Lasts(Layers[e][i]) \in Nat \ {0}
<1> DEFINE Fits(s) == /\ Len(s) \in 1 .. 3
                      /\ \A i \in 1 .. Len(s) : Lasts(s[i]) \in Nat \ {0}
<1>1. /\ Fits(Boom) /\ Fits(Chain) /\ Fits(Trap) /\ Fits(Breaks) /\ Fits(Pop) /\ Fits(Death)
      /\ Fits(Item) /\ Fits(Crack) /\ Fits(Push) /\ Fits(Step) /\ Fits(Warn) /\ Fits(Flood)
      /\ Fits(Drown)
  <2>1. \A k : /\ Lasts(Layer(k, 0, 1)) = 2 /\ Lasts(Layer(k, 0, 2)) = 1
               /\ Lasts(Layer(k, 1, 1)) = 3 /\ Lasts(Layer(k, 1, 2)) = 2
    BY DEF Lasts, Layer
  <2>2. {1, 2, 3} \subseteq Nat \ {0}
    OBVIOUS
  <2>3. Fits(Boom)
    BY <2>1, <2>2 DEF Boom
  <2>4. Fits(Chain)
    BY <2>1, <2>2 DEF Chain
  <2>5. Fits(Trap)
    BY <2>1, <2>2 DEF Trap
  <2>6. Fits(Breaks)
    BY <2>1, <2>2 DEF Breaks
  <2>7. Fits(Pop)
    BY <2>1, <2>2 DEF Pop
  <2>8. Fits(Death)
    BY <2>1, <2>2 DEF Death
  <2>9. Fits(Item) /\ Fits(Crack) /\ Fits(Step) /\ Fits(Warn) /\ Fits(Drown)
    BY <2>1, <2>2 DEF Item, Crack, Step, Warn, Drown
  <2>10. Fits(Push) /\ Fits(Flood)
    BY <2>1, <2>2 DEF Push, Flood
  <2> QED BY <2>3, <2>4, <2>5, <2>6, <2>7, <2>8, <2>9, <2>10
<1>2. e \in DOMAIN Layers
  BY SoundAssumption
<1>3. Fits(Layers[e])
  <2> HIDE DEF Fits
  <2> QED BY <1>1, <1>2 DEF Layers
<1>4. \A i \in 1 .. Len(Layers[e]) : Layers[e][i].key \in Clip
  BY DEF Clip
<1> QED BY <1>3, <1>4

\* One more voice makes the count of its kind, and of all, one more at most.
LEMMA OneMore ==
  ASSUME NEW F, IsFiniteSet(F), NEW v
  PROVE  /\ IsFiniteSet(F \cup {v}) /\ Cardinality(F) \in Nat
         /\ Cardinality(F \cup {v}) <= Cardinality(F) + 1
         /\ \A k : countOf(F, k) \in Nat
         /\ countOf(F \cup {v}, v.key) <= countOf(F, v.key) + 1
         /\ \A k : k # v.key => countOf(F \cup {v}, k) = countOf(F, k)
<1>1. \A T : IsFiniteSet(T) => /\ IsFiniteSet(T \cup {v}) /\ Cardinality(T) \in Nat
                               /\ Cardinality(T \cup {v}) <= Cardinality(T) + 1
  <2> SUFFICES ASSUME NEW T, IsFiniteSet(T)
               PROVE  /\ IsFiniteSet(T \cup {v}) /\ Cardinality(T) \in Nat
                      /\ Cardinality(T \cup {v}) <= Cardinality(T) + 1
    OBVIOUS
  <2>1. Cardinality(T) \in Nat
    BY FS_CardinalityType
  <2>2. CASE v \in T
    <3>1. T \cup {v} = T
      BY <2>2
    <3>2. Cardinality(T) <= Cardinality(T) + 1
      BY <2>1
    <3> QED BY <2>1, <3>1, <3>2, Zenon
  <2>3. CASE v \notin T
    <3>1. IsFiniteSet(T \cup {v}) /\ Cardinality(T \cup {v}) = Cardinality(T) + 1
      BY <2>3, FS_AddElement
    <3> QED BY <2>1, <3>1
  <2> QED BY <2>2, <2>3
<1>2. \A k : IsFiniteSet({w \in F : w.key = k})
  <2> SUFFICES ASSUME NEW k PROVE IsFiniteSet({w \in F : w.key = k})
    OBVIOUS
  <2>1. {w \in F : w.key = k} \subseteq F
    OBVIOUS
  <2> QED BY <2>1, FS_Subset
<1>3. {w \in F \cup {v} : w.key = v.key} = {w \in F : w.key = v.key} \cup {v}
  OBVIOUS
<1>4. \A k : k # v.key => {w \in F \cup {v} : w.key = k} = {w \in F : w.key = k}
  OBVIOUS
<1> QED BY <1>1, <1>2, <1>3, <1>4 DEF countOf

\* There is always a number for one more voice.
LEMMA NumberLeft ==
  ASSUME NEW F \in SUBSET AVoice, IsFiniteSet(F)
  PROVE  \E n \in 0 .. Cardinality(F) : \A w \in F : w.n # n
<1> SUFFICES ASSUME \A n \in 0 .. Cardinality(F) : \E w \in F : w.n = n PROVE FALSE
  OBVIOUS
<1> DEFINE c == Cardinality(F)
           f == [n \in 0 .. c |-> CHOOSE w \in F : w.n = n]
<1>1. \A n \in 0 .. c : f[n] \in F /\ f[n].n = n
  OBVIOUS
<1>2. f \in [0 .. c -> F]
  BY <1>1
<1> HIDE DEF f
<1>3. c \in Nat
  BY FS_CardinalityType
<1>4. IsFiniteSet(0 .. c) /\ Cardinality(0 .. c) = c + 1
  <2> HIDE DEF c
  <2>1. IsFiniteSet(0 .. c) /\ Cardinality(0 .. c) = IF 0 > c THEN 0 ELSE c - 0 + 1
    BY <1>3, FS_Interval
  <2> QED BY <1>3, <2>1
<1>5. c < Cardinality(0 .. c)
  <2> HIDE DEF c
  <2> QED BY <1>3, <1>4
<1>6. PICK x, y \in 0 .. c : x # y /\ f[x] = f[y]
  <2>1. Cardinality(F) < Cardinality(0 .. c)
    BY <1>5
  <2> DEFINE D == 0 .. c
  <2>2. f \in [D -> F] /\ IsFiniteSet(D) /\ Cardinality(F) < Cardinality(D)
    BY <1>2, <1>4, <2>1
  <2> HIDE DEF D
  <2>3. \E x, y \in D : x # y /\ f[x] = f[y]
    BY <2>2, FS_PigeonHole
  <2> QED BY <2>3 DEF D
<1> QED BY <1>1, <1>6

\* A layer is played within the caps, or not at all.
LEMMA PlayMixes ==
  ASSUME NEW mix, Mixed(mix.live, mix.heard), NEW layer, layer.key \in Clip,
         Lasts(layer) \in Nat \ {0}
  PROVE  Mixed(play(mix, layer).live, play(mix, layer).heard)
<1> DEFINE list == reap(mix.live)
           v == Voice(list \cup mix.heard, layer.key, Lasts(layer))
           full == \/ countOf(list, layer.key) >= Cap[layer.key] \/ Cardinality(list) >= TotalCap
                   \/ layer.key \notin here
<1>1. list = mix.heard /\ list \in SUBSET AVoice /\ IsFiniteSet(list) /\ reap(list) = list
  BY DEF Mixed, reap
<1>2. Cardinality(list) <= TotalCap /\ \A k \in Clip : countOf(list, k) <= Cap[k]
  BY <1>1 DEF Mixed
<1>3. CASE full
  <2>1. play(mix, layer) = [mix EXCEPT !.live = list]
    BY <1>3 DEF play
  <2>2. Mixed(list, list)
    BY <1>1, <1>2 DEF Mixed
  <2>3. play(mix, layer).live = list /\ play(mix, layer).heard = mix.heard
    <3> HIDE DEF list
    <3> QED BY <2>1
  <2> QED BY <1>1, <2>2, <2>3
<1>4. CASE ~full
  <2>1. play(mix, layer).live = list \cup {v} /\ play(mix, layer).heard = mix.heard \cup {v}
    BY <1>4 DEF play
  <2>2. v.key = layer.key /\ v.left = Lasts(layer)
    BY DEF Voice
  <2>3. v \in AVoice
    <3> DEFINE all == list \cup mix.heard
               n == CHOOSE n \in 0 .. Cardinality(all) : \A w \in all : w.n # n
    <3>1. all = list
      BY <1>1
    <3>2. all \in SUBSET AVoice /\ IsFiniteSet(all)
      BY <1>1, <3>1
    <3>3. v = [n |-> n, key |-> layer.key, left |-> Lasts(layer)]
      BY DEF Voice
    <3> HIDE DEF all, list, v
    <3>4. \E m \in 0 .. Cardinality(all) : \A w \in all : w.n # m
      BY <3>2, NumberLeft
    <3>5. n \in 0 .. Cardinality(all)
      BY <3>4
    <3>6. Cardinality(all) \in Nat
      BY <3>2, FS_CardinalityType
    <3>7. n \in Nat
      BY <3>5, <3>6
    <3> HIDE DEF n
    <3> QED BY <3>3, <3>7 DEF AVoice
  <2> HIDE DEF v, list
  <2>4. Mixed(list \cup {v}, list \cup {v})
    <3>1. reap(list \cup {v}) = list \cup {v}
      BY <1>1, <2>2 DEF reap
    <3>2. /\ IsFiniteSet(list \cup {v}) /\ Cardinality(list) \in Nat
          /\ Cardinality(list \cup {v}) <= Cardinality(list) + 1
          /\ \A k : countOf(list, k) \in Nat
          /\ countOf(list \cup {v}, v.key) <= countOf(list, v.key) + 1
          /\ \A k : k # v.key => countOf(list \cup {v}, k) = countOf(list, k)
      BY <1>1, OneMore
    <3>3. TotalCap \in Nat /\ Cap[v.key] \in Nat
      BY <2>2, SoundAssumption
    <3>4. ~(Cardinality(list) >= TotalCap) /\ ~(countOf(list, v.key) >= Cap[v.key])
      BY <1>4, <2>2
    <3>5. IsFiniteSet(list \cup {v}) => Cardinality(list \cup {v}) \in Nat
      BY FS_CardinalityType
    <3>6. Cardinality(list \cup {v}) <= TotalCap
      BY <3>2, <3>3, <3>4, <3>5
    <3>7. countOf(list \cup {v}, v.key) \in Nat
      BY <3>2, OneMore
    <3>8. countOf(list \cup {v}, v.key) <= Cap[v.key]
      BY <3>2, <3>3, <3>4, <3>7
    <3>9. \A k \in Clip : countOf(list \cup {v}, k) <= Cap[k]
      BY <1>2, <3>2, <3>8
    <3> QED BY <1>1, <2>3, <3>1, <3>2, <3>6, <3>9 DEF Mixed
  <2> QED BY <1>1, <2>1, <2>4
<1> QED BY <1>3, <1>4
\* So are the layers of a sound.
LEMMA LayersMix ==
  ASSUME NEW mix, Mixed(mix.live, mix.heard), NEW e \in Event
  PROVE  Mixed(playLayers(mix, Layers[e]).live, playLayers(mix, Layers[e]).heard)
<1> DEFINE layers == Layers[e]
           Good(m) == Mixed(m.live, m.heard)
           first == play(mix, layers[1])
           second == IF Len(layers) < 2 THEN first ELSE play(first, layers[2])
           third == IF Len(layers) < 3 THEN second ELSE play(second, layers[3])
<1>1. /\ Len(layers) \in 1 .. 3
      /\ \A i \in 1 .. Len(layers) : layers[i].key \in Clip /\ Lasts(layers[i]) \in Nat \ {0}
  BY LayersAre
<1>2. playLayers(mix, layers) = third
  BY DEF playLayers
<1> HIDE DEF layers
<1>3. \A m : \A i \in 1 .. Len(layers) : Good(m) => Good(play(m, layers[i]))
  BY <1>1, PlayMixes
<1> HIDE DEF Good
<1>4. Good(first)
  <2>1. Good(mix)
    BY DEF Good
  <2> QED BY <1>1, <1>3, <2>1
<1> HIDE DEF first
<1>5. Good(second)
  <2>1. CASE Len(layers) < 2
    BY <1>4, <2>1
  <2>2. CASE ~(Len(layers) < 2)
    <3>1. 2 \in 1 .. Len(layers)
      BY <1>1, <2>2
    <3> QED BY <1>3, <1>4, <2>2, <3>1
  <2> QED BY <2>1, <2>2
<1> HIDE DEF second
<1>6. Good(third)
  <2>1. CASE Len(layers) < 3
    BY <1>5, <2>1
  <2>2. CASE ~(Len(layers) < 3)
    <3>1. 3 \in 1 .. Len(layers)
      BY <1>1, <2>2
    <3> QED BY <1>3, <1>5, <2>2, <3>1
  <2> QED BY <2>1, <2>2
<1> QED BY <1>2, <1>6 DEF Good, layers

Aged(v) == [v EXCEPT !.left = IF @ > 0 THEN @ - 1 ELSE 0]

\* A voice ages in place, and one that has ended stays so.
LEMMA AgedIs ==
  /\ \A v \in AVoice : /\ Aged(v) \in AVoice /\ Aged(v).key = v.key
                       /\ v.left = 0 => Aged(v).left = 0
  /\ \A list : Older(list) = {Aged(v) : v \in list}
<1>1. \A v \in AVoice : /\ Aged(v) \in AVoice /\ Aged(v).key = v.key
                        /\ v.left = 0 => Aged(v).left = 0
  BY DEF Aged, AVoice
<1>2. \A list : Older(list) = {Aged(v) : v \in list}
  BY DEF Aged, Older
<1> QED BY <1>1, <1>2

\* A step of the clock only shortens the voices, of each kind and of all.
LEMMA TickMixes ==
  ASSUME Mixed(live, heard)
  PROVE  Mixed(Older(live), reap(Older(heard)))
<1> DEFINE next == reap(Older(heard))
<1>1. \A v \in AVoice : /\ Aged(v) \in AVoice /\ Aged(v).key = v.key
                        /\ v.left = 0 => Aged(v).left = 0
  BY AgedIs
<1>2. live \in SUBSET AVoice /\ heard \in SUBSET AVoice /\ heard \subseteq live /\ IsFiniteSet(heard)
  BY DEF Mixed, reap
<1>3. Older(live) = {Aged(v) : v \in live} /\ Older(heard) = {Aged(v) : v \in heard}
  BY AgedIs
<1>4. Older(live) \in SUBSET AVoice
  BY <1>1, <1>2, <1>3
<1>5. next = reap(Older(live))
  <2>1. \A v \in live : v \notin heard => v.left = 0
    BY <1>2 DEF Mixed, reap, AVoice
  <2>2. \A w \in Older(live) : w.left > 0 => w \in Older(heard)
    <3> SUFFICES ASSUME NEW v \in live, Aged(v).left > 0 PROVE v \in heard
      BY <1>3
    <3>1. v.left = 0 => Aged(v).left = 0
      BY <1>1, <1>2
    <3>2. ~(0 > 0)
      OBVIOUS
    <3> QED BY <2>1, <3>1, <3>2, Zenon
  <2>3. Older(heard) \subseteq Older(live)
    BY <1>2, <1>3
  <2> QED BY <2>2, <2>3 DEF reap
<1>6. \A F \in SUBSET heard : \A T : T \subseteq {Aged(v) : v \in F} =>
                               IsFiniteSet(T) /\ Cardinality(T) <= Cardinality(F)
  <2> SUFFICES ASSUME NEW F \in SUBSET heard, NEW T, T \subseteq {Aged(v) : v \in F}
               PROVE  IsFiniteSet(T) /\ Cardinality(T) <= Cardinality(F)
    OBVIOUS
  <2> DEFINE image == {Aged(v) : v \in F}
             g == [v \in F |-> Aged(v)]
  <2>1. IsFiniteSet(F) /\ Cardinality(F) \in Nat
    BY <1>2, FS_Subset, FS_CardinalityType
  <2>2. g \in Surjection(F, image)
    BY DEF Surjection
  <2>3. IsFiniteSet(image) /\ Cardinality(image) <= Cardinality(F)
    <3> HIDE DEF g, image
    <3> QED BY <2>1, <2>2, FS_Surjection
  <2>4. T \subseteq image
    OBVIOUS
  <2> HIDE DEF image
  <2>5. /\ IsFiniteSet(T) /\ Cardinality(T) <= Cardinality(image)
    BY <2>3, <2>4, FS_Subset
  <2>6. Cardinality(T) \in Nat /\ Cardinality(image) \in Nat
    BY <2>3, <2>5, FS_CardinalityType
  <2> QED BY <2>1, <2>3, <2>5, <2>6
<1>7. IsFiniteSet(next) /\ Cardinality(next) <= Cardinality(heard)
  <2>1. next \subseteq {Aged(v) : v \in heard}
    BY <1>3 DEF reap
  <2> QED BY <1>6, <2>1
<1>8. \A k : countOf(next, k) <= countOf(heard, k) /\ countOf(next, k) \in Nat
  <2> SUFFICES ASSUME NEW k
               PROVE  countOf(next, k) <= countOf(heard, k) /\ countOf(next, k) \in Nat
    OBVIOUS
  <2> DEFINE F == {v \in heard : v.key = k}
             T == {v \in next : v.key = k}
  <2>1. T \subseteq {Aged(v) : v \in F}
    <3>1. next \subseteq {Aged(v) : v \in heard}
      BY <1>3 DEF reap
    <3> HIDE DEF next
    <3> SUFFICES ASSUME NEW v \in heard, Aged(v).key = k PROVE v.key = k
      BY <3>1
    <3>2. Aged(v).key = v.key
      BY <1>1, <1>2
    <3> QED BY <3>2, Zenon
  <2>2. F \in SUBSET heard
    OBVIOUS
  <2> HIDE DEF F, T
  <2>3. IsFiniteSet(T) /\ Cardinality(T) <= Cardinality(F)
    BY <1>6, <2>1, <2>2
  <2>4. Cardinality(T) \in Nat
    BY <2>3, FS_CardinalityType
  <2> QED BY <2>3, <2>4 DEF countOf, F, T
<1>9. Cardinality(next) \in Nat /\ Cardinality(heard) \in Nat /\ \A k : countOf(heard, k) \in Nat
  <2>1. Cardinality(next) \in Nat /\ Cardinality(heard) \in Nat
    BY <1>2, <1>7, FS_CardinalityType
  <2>2. \A k : countOf(heard, k) \in Nat
    BY <1>2, OneMore
  <2> QED BY <2>1, <2>2
<1> HIDE DEF next
<1>10. Cardinality(next) <= TotalCap
  BY <1>7, <1>9, SoundAssumption DEF Mixed
<1>11. \A k \in Clip : countOf(next, k) <= Cap[k]
  <2> SUFFICES ASSUME NEW k \in Clip PROVE countOf(next, k) <= Cap[k]
    OBVIOUS
  <2>1. countOf(heard, k) <= Cap[k] /\ Cap[k] \in Nat
    BY SoundAssumption DEF Mixed
  <2> QED BY <1>8, <1>9, <2>1
<1>12. Mixed(Older(live), next)
  BY <1>4, <1>5, <1>7, <1>10, <1>11 DEF Mixed
<1> QED BY <1>12 DEF next

\* No voice sounds on the first page.
LEMMA VoicesInit == Init => VoicesInv
<1> SUFFICES ASSUME Init PROVE Mixed(live, heard)
  BY DEF VoicesInv
<1>1. live = {} /\ heard = {}
  BY DEF Init, SoundInit
<1>2. IsFiniteSet({}) /\ Cardinality({}) = 0 /\ reap({}) = {} /\ \A k : countOf({}, k) = 0
  BY FS_EmptySet DEF reap, countOf
<1>3. TotalCap \in Nat /\ \A k \in Clip : Cap[k] \in Nat
  BY SoundAssumption
<1>4. Mixed({}, {})
  BY <1>2, <1>3 DEF Mixed
<1> QED BY <1>1, <1>4

\* Only a sound and the clock touch the voices.
LEMMA VoicesStep == VoicesInv /\ [Next]_vars => VoicesInv'
<1> SUFFICES ASSUME VoicesInv, [Next]_vars PROVE VoicesInv'
  OBVIOUS
<1>1. ASSUME live' = live, heard' = heard PROVE VoicesInv'
  BY <1>1 DEF VoicesInv, Mixed, reap, countOf
<1>2. ASSUME NEW e \in Event, Sounds(e) PROVE VoicesInv'
  <2> DEFINE mix == [live |-> live, heard |-> heard]
             all == IF muted THEN mix ELSE playLayers(mix, Layers[e])
  <2>1. live' = all.live /\ heard' = all.heard
    BY <1>2 DEF Sounds
  <2>2. Mixed(mix.live, mix.heard)
    BY DEF VoicesInv
  <2>3. Mixed(all.live, all.heard)
    <3> HIDE DEF mix
    <3> QED BY <2>2, LayersMix
  <2> HIDE DEF all
  <2> QED BY <2>1, <2>3 DEF VoicesInv, Mixed, reap, countOf
<1>3. ASSUME Tick PROVE VoicesInv'
  <2>1. Mixed(Older(live), reap(Older(heard)))
    BY TickMixes DEF VoicesInv
  <2>2. live' = Older(live) /\ heard' = reap(Older(heard))
    BY <1>3 DEF Tick
  <2> QED BY <2>1, <2>2 DEF VoicesInv, Mixed, reap, countOf
<1>4. CASE SoundNext
  <2>1. CASE Wake \/ Resumed \/ BgmArrives \/ ClipArrives \/ Toggle
    <3>1. live' = live /\ heard' = heard
      BY <2>1 DEF Wake, Build, Again, Resumed, BgmArrives, ClipArrives, Toggle, voices
    <3> QED BY <1>1, <3>1
  <2> QED BY <1>2, <1>3, <1>4, <2>1 DEF SoundNext
<1>5. CASE UNCHANGED vars
  BY <1>1, <1>5 DEF vars, soundVars, voices
<1>6. CASE openProfile \/ Cancel \/ previewVolumes \/ saveProfile \/ captureKey \/ onKey \/ onEscape
  <2>1. live' = live /\ heard' = heard
    BY <1>6 DEF openProfile, Cancel, previewVolumes, saveProfile, captureKey, onKey, onEscape,
                soundVars, voices
  <2> QED BY <1>1, <2>1
<1> QED BY <1>4, <1>5, <1>6 DEF Next

\* What is heard stays within the caps: no voice sounds that the page has forgotten.
THEOREM VoicesAlways == Spec => []VoicesCounted
<1>1. VoicesInv => VoicesCounted
  BY DEF VoicesInv, Mixed, VoicesCounted
<1> QED BY <1>1, VoicesInit, VoicesStep, PTL DEF Spec

-----------------------------------------------------------------------------
(* The keys of the actions.                                                  *)

\* A non-empty set of numbers has a least one.
LEMMA Least ==
  ASSUME NEW F \in SUBSET Nat, F # {}
  PROVE  \E m \in F : \A k \in F : m <= k
<1> DEFINE R == StrictSubsetOrdering(Nat)
           T == {1 .. k : k \in F}
<1>1. IsWellFoundedOn(R, FiniteSubsetsOf(Nat))
  BY FS_StrictSubsetOrderingWellFounded, Zenon
<1>2. \A k \in Nat : 1 .. k \in SUBSET Nat /\ IsFiniteSet(1 .. k)
  BY FS_Interval
<1>3. T \subseteq FiniteSubsetsOf(Nat) /\ T # {}
  BY <1>2 DEF FiniteSubsetsOf
<1>4. PICK x \in T : \A y \in T : <<y, x>> \notin R
  <2> HIDE DEF R, T
  <2> QED BY <1>1, <1>3, WFMin, Zenon
<1>5. PICK m \in F : x = 1 .. m
  OBVIOUS
<1>6. ASSUME NEW k \in F, k < m PROVE FALSE
  <2>1. 1 .. k \in T /\ 1 .. k \in SUBSET Nat /\ 1 .. m \in SUBSET Nat
    OBVIOUS
  <2>2. 1 .. k \subseteq 1 .. m /\ 1 .. k # 1 .. m
    <3>1. m \in 1 .. m /\ m \notin 1 .. k
      BY <1>6
    <3> QED BY <1>6, <3>1
  <2>3. <<1 .. k, 1 .. m>> \in R
    BY <2>1, <2>2 DEF StrictSubsetOrdering
  <2> QED BY <1>4, <1>5, <2>1, <2>3
<1> QED BY <1>6

\* Keys that may be used: no two actions share one, and none is the game's own.
Apart(keys) ==
    /\ keys \in [Action -> KeyName \ Reserved]
    /\ \A a, b \in Action : keys[a] = keys[b] => a = b

\* The keys of the first actions are repaired.
Repairs(keys, raw, n) ==
    \A i \in 1 .. n : keys[Actions[i]] = Repaired(raw[Actions[i]], Before(keys, i), Actions[i])

\* The actions are numbered.
LEMMA ActionsAre ==
  /\ Len(Actions) \in Nat /\ DOMAIN Actions = 1 .. Len(Actions)
  /\ \A i \in 1 .. Len(Actions) : Actions[i] \in Action
  /\ \A a \in Action : \E i \in 1 .. Len(Actions) : a = Actions[i]
  /\ \A i, j \in 1 .. Len(Actions) : Actions[i] = Actions[j] => i = j
<1>1. Actions \in Seq(Action) /\ \A i, j \in DOMAIN Actions : Actions[i] = Actions[j] => i = j
  BY SettingsAssumption
<1>2. Len(Actions) \in Nat /\ DOMAIN Actions = 1 .. Len(Actions)
  BY <1>1
<1>3. \A i \in 1 .. Len(Actions) : Actions[i] \in Action
  BY <1>1
<1>4. \A a \in Action : \E i \in 1 .. Len(Actions) : a = Actions[i]
  BY <1>2 DEF Action, ToSet
<1> QED BY <1>1, <1>2, <1>3, <1>4

\* Before the last of the actions has its key there is a default that nobody has.
LEMMA DefaultLeft ==
  ASSUME NEW keys, NEW i \in 1 .. Len(Actions)
  PROVE  FreeDefault(Before(keys, i)) \in (KeyName \ Reserved) \ Before(keys, i)
<1> DEFINE n == Len(Actions)
           used == Before(keys, i)
           free == {j \in 1 .. n : Default[Actions[j]] \notin used}
<1>1. n \in Nat /\ i \in Nat /\ 1 <= i /\ i <= n
  BY ActionsAre
<1>2. free # {}
  <2> SUFFICES ASSUME free = {} PROVE FALSE
    OBVIOUS
  <2>1. \A j \in 1 .. n : \E k \in 1 .. i - 1 : keys[Actions[k]] = Default[Actions[j]]
    BY DEF Before
  <2> DEFINE g == [j \in 1 .. n |-> CHOOSE k \in 1 .. i - 1 : keys[Actions[k]] = Default[Actions[j]]]
  <2>2. \A j \in 1 .. n : g[j] \in 1 .. i - 1 /\ keys[Actions[g[j]]] = Default[Actions[j]]
    BY <2>1
  <2>3. g \in [1 .. n -> 1 .. i - 1]
    BY <2>2
  <2>4. /\ IsFiniteSet(1 .. n) /\ IsFiniteSet(1 .. i - 1)
        /\ Cardinality(1 .. i - 1) < Cardinality(1 .. n)
    <3>1. 1 \in Int /\ n \in Int /\ i - 1 \in Int
      BY <1>1
    <3>2. IsFiniteSet(1 .. n) /\ Cardinality(1 .. n) = n
      <4> HIDE DEF n
      <4>1. IsFiniteSet(1 .. n) /\ Cardinality(1 .. n) = IF 1 > n THEN 0 ELSE n - 1 + 1
        BY <3>1, FS_Interval
      <4> QED BY <1>1, <4>1
    <3>3. IsFiniteSet(1 .. i - 1) /\ Cardinality(1 .. i - 1) = IF 1 > i - 1 THEN 0 ELSE i - 1 - 1 + 1
      BY <3>1, FS_Interval
    <3> QED BY <1>1, <3>2, <3>3
  <2> HIDE DEF g
  <2>5. PICK x, y \in 1 .. n : x # y /\ g[x] = g[y]
    <3> DEFINE F == 1 .. n
               T == 1 .. i - 1
    <3>1. /\ IsFiniteSet(F) /\ IsFiniteSet(T) /\ Cardinality(T) < Cardinality(F)
          /\ g \in [F -> T]
      BY <2>3, <2>4
    <3> HIDE DEF F, T
    <3>2. \E x, y \in F : x # y /\ g[x] = g[y]
      BY <3>1, FS_PigeonHole
    <3> QED BY <3>2 DEF F
  <2>6. Default[Actions[x]] = Default[Actions[y]]
    BY <2>2, <2>5
  <2>7. Actions[x] = Actions[y]
    BY <2>6, SettingsAssumption, ActionsAre
  <2> QED BY <2>5, <2>7, ActionsAre
<1>3. PICK m \in free : \A k \in free : m <= k
  <2>1. free \in SUBSET Nat
    BY <1>1
  <2> QED BY <1>2, <2>1, Least
<1> DEFINE Q(j) == /\ Default[Actions[j]] \notin used
                   /\ \A k \in 1 .. (j - 1) : Default[Actions[k]] \in used
<1>4. Q(m)
  <2>1. m \in Nat /\ m <= n /\ Default[Actions[m]] \notin used
    BY <1>1
  <2>2. ASSUME NEW k \in 1 .. (m - 1) PROVE Default[Actions[k]] \in used
    <3>1. k \in 1 .. n /\ ~(m <= k)
      BY <1>1, <2>1
    <3> QED BY <1>3, <3>1
  <2> QED BY <2>1, <2>2
<1> DEFINE c == CHOOSE j \in DOMAIN Actions : Q(j)
<1>5. c \in DOMAIN Actions /\ Q(c)
  <2>1. m \in DOMAIN Actions
    BY ActionsAre
  <2> HIDE DEF Q
  <2> QED BY <1>4, <2>1
<1>6. FreeDefault(used) = Default[Actions[c]]
  BY DEF FreeDefault
<1> HIDE DEF c, used
<1>7. Default[Actions[c]] \in KeyName \ Reserved
  BY <1>5, ActionsAre, SettingsAssumption
<1>8. Default[Actions[c]] \notin used
  BY <1>5
<1> QED BY <1>6, <1>7, <1>8 DEF used

\* What a key is repaired to is free and may be used.
LEMMA RepairedIs ==
  ASSUME NEW keys, NEW i \in 1 .. Len(Actions), NEW raw \in KeyName
  PROVE  Repaired(raw, Before(keys, i), Actions[i]) \in (KeyName \ Reserved) \ Before(keys, i)
<1>1. Default[Actions[i]] \in KeyName \ Reserved
  BY ActionsAre, SettingsAssumption
<1> QED BY <1>1, DefaultLeft DEF Repaired

\* The keys can be repaired one after another.
LEMMA RepairsExist ==
  ASSUME NEW raw \in [Action -> KeyName]
  PROVE  \E keys \in [Action -> KeyName] : Repairs(keys, raw, Len(Actions))
<1> DEFINE n == Len(Actions)
           Can(k) == \E keys \in [Action -> KeyName] : Repairs(keys, raw, k)
           bad == {k \in 0 .. n : ~Can(k)}
<1>1. n \in Nat
  BY ActionsAre
<1>2. Can(0)
  BY DEF Repairs
<1> HIDE DEF Can
<1>3. ASSUME NEW k \in 1 .. n, Can(k - 1) PROVE Can(k)
  <2>1. PICK old \in [Action -> KeyName] : Repairs(old, raw, k - 1)
    BY <1>3 DEF Can
  <2> DEFINE r == Repaired(raw[Actions[k]], Before(old, k), Actions[k])
             new == [old EXCEPT ![Actions[k]] = r]
  <2>2. r \in KeyName
    <3>1. raw[Actions[k]] \in KeyName
      BY ActionsAre
    <3> QED BY <3>1, RepairedIs
  <2>3. new \in [Action -> KeyName]
    BY <2>2
  <2>4. \A j \in 1 .. k - 1 : new[Actions[j]] = old[Actions[j]]
    <3>1. \A j \in 1 .. k - 1 : j \in 1 .. n /\ j # k
      BY <1>1
    <3> QED BY <3>1, ActionsAre
  <2>5. \A i \in 1 .. k : Before(new, i) = Before(old, i)
    <3> SUFFICES ASSUME NEW i \in 1 .. k PROVE Before(new, i) = Before(old, i)
      OBVIOUS
    <3>1. \A j \in 1 .. i - 1 : j \in 1 .. k - 1
      BY <1>1
    <3> HIDE DEF new
    <3> QED BY <2>4, <3>1 DEF Before
  <2>6. new[Actions[k]] = r
    BY ActionsAre
  <2> HIDE DEF new, r
  <2>7. Repairs(new, raw, k)
    <3> SUFFICES ASSUME NEW i \in 1 .. k
                 PROVE  new[Actions[i]] = Repaired(raw[Actions[i]], Before(new, i), Actions[i])
      BY DEF Repairs
    <3>1. CASE i = k
      BY <2>5, <2>6, <3>1 DEF r
    <3>2. CASE i # k
      <4>1. i \in 1 .. k - 1
        BY <1>1, <3>2
      <4>2. new[Actions[i]] = old[Actions[i]] /\ Before(new, i) = Before(old, i)
        BY <2>4, <2>5, <4>1
      <4> QED BY <2>1, <4>1, <4>2 DEF Repairs
    <3> QED BY <3>1, <3>2
  <2> QED BY <2>3, <2>7 DEF Can
<1>4. bad = {}
  <2> SUFFICES ASSUME bad # {} PROVE FALSE
    OBVIOUS
  <2>1. bad \in SUBSET Nat
    BY <1>1
  <2>2. PICK m \in bad : \A k \in bad : m <= k
    BY <2>1, Least
  <2>3. m # 0 /\ m \in Nat /\ m <= n /\ ~Can(m)
    BY <1>1, <1>2
  <2>4. m \in 1 .. n /\ m - 1 \in 0 .. n /\ ~(m <= m - 1)
    BY <1>1, <2>3
  <2>5. Can(m - 1)
    BY <2>2, <2>4
  <2> QED BY <1>3, <2>3, <2>4, <2>5
<1>5. Can(n)
  BY <1>1, <1>4
<1> QED BY <1>5 DEF Can

\* Profile.copy returns keys that may be used, of whatever it is given.
LEMMA CopyIs ==
  ASSUME NEW raw \in [Action -> KeyName]
  PROVE  Apart(CopyKeys(raw)) /\ Repairs(CopyKeys(raw), raw, Len(Actions))
<1> DEFINE keys == CopyKeys(raw)
           n == Len(Actions)
<1>1. keys \in [Action -> KeyName] /\ Repairs(keys, raw, n)
  <2>1. DOMAIN Actions = 1 .. n
    BY ActionsAre
  <2>2. \E k \in [Action -> KeyName] : Repairs(k, raw, n)
    BY RepairsExist
  <2>3. keys = CHOOSE k \in [Action -> KeyName] : Repairs(k, raw, n)
    BY <2>1 DEF CopyKeys, Repairs
  <2> HIDE DEF keys
  <2> QED BY <2>2, <2>3
<1> HIDE DEF keys
<1>2. \A i \in 1 .. n : keys[Actions[i]] \in (KeyName \ Reserved) \ Before(keys, i)
  <2> SUFFICES ASSUME NEW i \in 1 .. n
               PROVE  keys[Actions[i]] \in (KeyName \ Reserved) \ Before(keys, i)
    OBVIOUS
  <2>1. raw[Actions[i]] \in KeyName
    BY ActionsAre
  <2> QED BY <1>1, <2>1, RepairedIs DEF Repairs
<1>3. keys \in [Action -> KeyName \ Reserved]
  BY <1>1, <1>2, ActionsAre
<1>4. \A i, j \in 1 .. n : i < j => keys[Actions[i]] # keys[Actions[j]]
  <2> SUFFICES ASSUME NEW i \in 1 .. n, NEW j \in 1 .. n, i < j
               PROVE  keys[Actions[i]] # keys[Actions[j]]
    OBVIOUS
  <2>1. i \in 1 .. (j - 1)
    BY ActionsAre
  <2>2. keys[Actions[i]] \in Before(keys, j)
    BY <2>1 DEF Before
  <2> QED BY <1>2, <2>2
<1>5. ASSUME NEW a \in Action, NEW b \in Action, keys[a] = keys[b] PROVE a = b
  <2>1. PICK i \in 1 .. n : a = Actions[i]
    BY ActionsAre
  <2>2. PICK j \in 1 .. n : b = Actions[j]
    BY ActionsAre
  <2>3. ~(i < j) /\ ~(j < i) /\ i \in Nat /\ j \in Nat
    BY <1>4, <1>5, <2>1, <2>2, ActionsAre
  <2>4. i = j
    BY <2>3
  <2> QED BY <2>1, <2>2, <2>4
<1> QED BY <1>1, <1>3, <1>5 DEF Apart, keys

\* Keys that may be used are left as they are.
LEMMA CopyKeeps ==
  ASSUME NEW raw, Apart(raw)
  PROVE  CopyKeys(raw) = raw
<1> DEFINE keys == CopyKeys(raw)
           n == Len(Actions)
           off == {i \in 1 .. n : keys[Actions[i]] # raw[Actions[i]]}
<1>1. raw \in [Action -> KeyName] /\ n \in Nat
  BY ActionsAre DEF Apart
<1>2. keys \in [Action -> KeyName] /\ Repairs(keys, raw, n)
  BY <1>1, CopyIs DEF Apart
<1> HIDE DEF keys
<1>3. off = {}
  <2> SUFFICES ASSUME off # {} PROVE FALSE
    OBVIOUS
  <2>1. off \in SUBSET Nat
    BY <1>1
  <2>2. PICK m \in off : \A k \in off : m <= k
    BY <2>1, Least
  <2>3. m \in 1 .. n /\ m \in Nat
    BY <1>1
  <2>4. \A j \in 1 .. (m - 1) : j \in 1 .. n /\ j # m /\ keys[Actions[j]] = raw[Actions[j]]
    <3> SUFFICES ASSUME NEW j \in 1 .. (m - 1)
                 PROVE  j \in 1 .. n /\ j # m /\ keys[Actions[j]] = raw[Actions[j]]
      OBVIOUS
    <3>1. j \in 1 .. n /\ ~(m <= j) /\ j # m
      BY <1>1, <2>3
    <3> QED BY <2>2, <3>1
  <2>5. raw[Actions[m]] \notin Before(keys, m)
    <3> SUFFICES ASSUME NEW j \in 1 .. (m - 1), raw[Actions[m]] = keys[Actions[j]] PROVE FALSE
      BY DEF Before
    <3>1. raw[Actions[m]] = raw[Actions[j]] /\ j \in 1 .. n /\ j # m
      BY <2>4
    <3>2. Actions[m] = Actions[j]
      BY <2>3, <3>1, ActionsAre DEF Apart
    <3> QED BY <2>3, <3>1, <3>2, ActionsAre
  <2>6. raw[Actions[m]] \notin Reserved
    BY <2>3, ActionsAre DEF Apart
  <2>7. keys[Actions[m]] = raw[Actions[m]]
    BY <1>2, <2>3, <2>5, <2>6 DEF Repairs, Repaired
  <2> QED BY <2>7
<1>4. \A a \in Action : keys[a] = raw[a]
  BY <1>3, ActionsAre
<1> QED BY <1>1, <1>2, <1>4 DEF keys

\* The settings in use, and the draft, have keys that may be used.
FitInv ==
    /\ profile \in Profile /\ Apart(profile.keys)
    /\ draft \in Profile /\ Apart(draft.keys)
    /\ waitingForKey \in Action \cup {None}

\* A profile that is read, or copied, is fit for use.
LEMMA CopyFit ==
  ASSUME NEW value \in Profile
  PROVE  Copy(value) \in Profile /\ Apart(Copy(value).keys)
<1>1. value.keys \in [Action -> KeyName]
  BY DEF Profile
<1>2. Apart(CopyKeys(value.keys))
  BY <1>1, CopyIs
<1>3. CopyKeys(value.keys) \in [Action -> KeyName]
  BY <1>2 DEF Apart
<1>4. Copy(value) \in Profile /\ Copy(value).keys = CopyKeys(value.keys)
  BY <1>3 DEF Copy, Profile
<1> QED BY <1>2, <1>4

\* A page begins with the keys it has read and repaired.
LEMMA FitInit == Init => FitInv
<1> SUFFICES ASSUME Init PROVE FitInv
  OBVIOUS
<1>1. PICK stored \in Profile : profile = Copy(stored)
  BY DEF Init
<1>2. draft = profile /\ waitingForKey = None
  BY DEF Init
<1>3. profile \in Profile /\ Apart(profile.keys)
  BY <1>1, CopyFit
<1> QED BY <1>2, <1>3 DEF FitInv

\* A key is given to an action only if no other action has it, and only what may be used
\* is saved.
LEMMA FitStep == FitInv /\ [Next]_vars => FitInv'
<1> SUFFICES ASSUME FitInv, [Next]_vars PROVE FitInv'
  OBVIOUS
<1> USE DEF FitInv
<1>1. CASE openProfile
  <2>1. draft' = Copy(profile) /\ profile' = profile /\ waitingForKey' = None
    BY <1>1 DEF openProfile
  <2>2. Copy(profile) \in Profile /\ Apart(Copy(profile).keys)
    BY CopyFit
  <2> QED BY <2>1, <2>2 DEF Apart
<1>2. CASE Cancel
  BY <1>2 DEF Cancel, closeProfile, Apart
<1>3. CASE previewVolumes
  <2>1. PICK audio \in Level : draft' = [draft EXCEPT !.audio = audio]
    BY <1>3 DEF previewVolumes
  <2>2. UNCHANGED <<profile, waitingForKey>>
    BY <1>3 DEF previewVolumes
  <2>3. draft' \in Profile /\ draft'.keys = draft.keys
    BY <2>1 DEF Profile
  <2> QED BY <2>2, <2>3 DEF Apart
<1>4. CASE saveProfile
  <2>1. profile' = draft /\ draft' = draft /\ (waitingForKey' = None \/ waitingForKey' = waitingForKey)
    BY <1>4 DEF saveProfile, closeProfile
  <2> QED BY <2>1 DEF Apart
<1>5. CASE captureKey
  BY <1>5 DEF captureKey, Apart
<1>6. CASE onKey
  <2> DEFINE w == waitingForKey
  <2>1. PICK value \in KeyName \ Reserved :
          ~Taken(value) /\ draft' = [draft EXCEPT !.keys[w] = value]
    BY <1>6 DEF onKey
  <2>2. UNCHANGED profile /\ waitingForKey' = None /\ w \in Action
    BY <1>6 DEF onKey
  <2>3. draft.keys \in [Action -> KeyName]
    BY DEF Profile
  <2>4. /\ draft' \in Profile
        /\ draft'.keys = [draft.keys EXCEPT ![w] = value]
    BY <2>1, <2>2, <2>3 DEF Profile
  <2>5. Apart([draft.keys EXCEPT ![w] = value])
    <3>1. \A a \in Action \ {w} : draft.keys[a] # value
      BY <2>1 DEF Taken
    <3> QED BY <2>2, <3>1 DEF Apart
  <2>6. Apart(draft'.keys)
    BY <2>4, <2>5
  <2> QED BY <2>2, <2>4, <2>6 DEF Apart
<1>7. CASE onEscape
  BY <1>7 DEF onEscape, Apart
<1>8. CASE UNCHANGED settingVars
  BY <1>8 DEF settingVars, Apart
<1>9. CASE UNCHANGED vars
  BY <1>8, <1>9 DEF vars
<1> QED BY <1>1, <1>2, <1>3, <1>4, <1>5, <1>6, <1>7, <1>8, <1>9 DEF Next

\* Two actions never share a key, and what is saved is found again as it was (lobby.js,
\* Profile.copy and the dialog), for any actions, defaults and keys.
THEOREM KeysApartAlways == Spec => []KeysApart
<1>1. FitInv => KeysApart
  <2> SUFFICES ASSUME FitInv PROVE KeysApart
    OBVIOUS
  <2>1. Apart(profile.keys) /\ profile \in Profile
    BY DEF FitInv
  <2>2. CopyKeys(profile.keys) = profile.keys
    BY <2>1, CopyKeeps
  <2>3. NextVisit = profile
    BY <2>1, <2>2 DEF NextVisit, Copy, Profile
  <2>4. \A a \in Action : profile.keys[a] \notin Reserved
    BY <2>1 DEF Apart
  <2> QED BY <2>1, <2>3, <2>4 DEF KeysApart, Apart
<1> QED BY FitInit, FitStep, <1>1, PTL DEF Spec

-----------------------------------------------------------------------------
(* The keys.                                                                 *)

\* Unless the server has dropped it the direction sent last is the one it will use.
KeysInv ==
  /\ sent = InputDir(held)
  /\ held \in SUBSET Key /\ dir \in Dirs /\ up \in Seq(Dirs) /\ open \in BOOLEAN
  /\ ~open => up = <<>>
  /\ open /\ ~missed => SetInput = sent

\* What is held is a direction.
LEMMA InputIs == \A h : InputDir(h) \in Dirs
  BY DEF InputDir, Sign, Dirs

\* Nothing is held at first.
LEMMA KeysInit == InitPlay => KeysInv
<1> SUFFICES ASSUME InitPlay PROVE KeysInv
  OBVIOUS
<1>1. InputDir({}) = Rest /\ Rest \in Dirs
  BY DEF InputDir, Sign, Rest, Dirs
<1>2. <<>> \in Seq(Dirs)
  OBVIOUS
<1>3. sent = Rest /\ dir = Rest /\ held = {} /\ up = <<>> /\ open = FALSE
  BY DEF InitPlay
<1>4. sent = InputDir(held)
  BY <1>1, <1>3
<1>5. held \in SUBSET Key
  BY <1>3
<1>6. open \in BOOLEAN /\ ~open
  BY <1>3
<1> QED BY <1>1, <1>2, <1>3, <1>4, <1>5, <1>6 DEF KeysInv

\* pushInput, for whatever is held then.
LEMMA PushStep ==
  ASSUME KeysInv, NEW h \in SUBSET Key, PushInput(h), UNCHANGED <<server, open, down, page>>
  PROVE  KeysInv'
<1>1. held' = h /\ dir' = dir /\ open' = open
  BY DEF PushInput, server
<1>2. InputDir(h) \in Dirs
  BY InputIs
<1>3. CASE InputDir(h) = sent
  BY <1>1, <1>3 DEF PushInput, KeysInv, SetInput, InputDir
<1>4. CASE InputDir(h) # sent
  <2>1. /\ sent' = InputDir(h) /\ missed' = ~open
        /\ up' = IF open THEN Append(up, sent') ELSE up
    BY <1>4 DEF PushInput
  <2>2. sent' = InputDir(held)'
    BY <1>1, <2>1 DEF InputDir
  <2>3. CASE open
    <3>1. up' = Append(up, sent') /\ up' \in Seq(Dirs) /\ up' # <<>> /\ up'[Len(up')] = sent'
      <4>1. up \in Seq(Dirs) /\ sent' \in Dirs
        BY <1>2, <2>1 DEF KeysInv
      <4>2. Append(up, sent') \in Seq(Dirs) /\ Append(up, sent') # <<>>
            /\ Append(up, sent')[Len(Append(up, sent'))] = sent'
        BY <4>1
      <4> QED BY <2>1, <2>3, <4>2
    <3> QED BY <1>1, <1>2, <2>2, <2>3, <3>1 DEF KeysInv, SetInput
  <2>4. CASE ~open
    BY <1>1, <1>2, <2>1, <2>2, <2>4 DEF KeysInv, SetInput
  <2> QED BY <2>3, <2>4
<1> QED BY <1>3, <1>4

\* A tick takes what has come, and a new seat or a trap forgets it.
LEMMA KeysStep == KeysInv /\ [PlayNext]_playVars => KeysInv'
<1> SUFFICES ASSUME KeysInv, [PlayNext]_playVars PROVE KeysInv'
  OBVIOUS
<1> USE DEF KeysInv, SetInput, InputDir
<1>1. ASSUME NEW k \in Key, KeyDown(k) \/ TouchDown(k) \/ KeyUp(k) PROVE KeysInv'
  <2>1. CASE KeyDown(k) \/ TouchDown(k)
    <3>1. PushInput(held \cup {k}) /\ UNCHANGED <<server, open, down, page>> /\ held \cup {k} \in SUBSET Key
      BY <2>1 DEF KeyDown, TouchDown
    <3> QED BY <3>1, PushStep
  <2>2. CASE KeyUp(k)
    <3>1. PushInput(held \ {k}) /\ UNCHANGED <<server, open, down, page>> /\ held \ {k} \in SUBSET Key
      BY <2>2 DEF KeyUp
    <3> QED BY <3>1, PushStep
  <2> QED BY <1>1, <2>1, <2>2
<1>2. CASE Blur
  BY <1>2, PushStep DEF Blur
<1>3. Rest \in Dirs
  BY DEF Rest, Dirs
<1>4. CASE Connect
  <2>1. /\ dir' = Rest /\ up' = <<>> /\ open' = TRUE /\ held' = held /\ sent' = sent
        /\ missed' = (sent # Rest)
    BY <1>4 DEF Connect, Seated
  <2>2. <<>> \in Seq(Dirs)
    OBVIOUS
  <2>3. ~missed' => sent' = Rest
    BY <2>1
  <2> QED BY <1>3, <2>1, <2>2, <2>3
<1>5. CASE Close
  <2>1. /\ open' = FALSE /\ up' = <<>>
        /\ dir' = dir /\ held' = held /\ sent' = sent
    BY <1>5 DEF Close, server
  <2>2. <<>> \in Seq(Dirs)
    OBVIOUS
  <2> QED BY <2>1, <2>2
<1>6. CASE NewRound
  BY <1>3, <1>6 DEF NewRound, Seated
<1>7. CASE StartPlay
  BY <1>7 DEF StartPlay
<1>8. CASE ServerTick
  <2>1. PICK caught \in BOOLEAN \cup {trapped} :
          /\ dir' = IF caught /\ ~trapped THEN Rest ELSE SetInput
          /\ missed' = (missed \/ (caught /\ ~trapped /\ sent # Rest))
    BY <1>8 DEF ServerTick
  <2>2. UNCHANGED <<open, held, sent>> /\ up' = <<>> /\ open
    BY <1>8 DEF ServerTick
  <2>3. SetInput \in Dirs
    BY DEF SetInput
  <2>4. dir' \in Dirs
    BY <1>3, <2>1, <2>3
  <2>5. ~missed' => dir' = sent
    BY <2>1, <2>2
  <2> QED BY <2>2, <2>4, <2>5
<1>9. CASE PlaceBubble
  BY <1>9 DEF PlaceBubble
<1>10. CASE OnWelcome \/ OnSnapshot
  BY <1>10 DEF OnWelcome, OnSnapshot, server
<1>11. CASE PredictFrame \/ PictureFrame
  BY <1>11 DEF PredictFrame, PictureFrame, server
<1>12. CASE UNCHANGED playVars
  BY <1>12 DEF playVars, server
<1> QED
  BY <1>1, <1>2, <1>4, <1>5, <1>6, <1>7, <1>8, <1>9, <1>10, <1>11, <1>12 DEF PlayNext

\* The server goes where the keys say, once the link is quiet: a direction is sent only
\* when it changes (game.js, pushInput).
THEOREM KeysAlways == PlaySpec => []KeysObeyed
<1>1. KeysInv => KeysObeyed
  BY DEF KeysInv, KeysObeyed, SetInput
<1> QED BY KeysInit, KeysStep, <1>1, PTL DEF PlaySpec

-----------------------------------------------------------------------------
(* Tiles and spans.                                                          *)

\* The tile of a coordinate, and the tiles under a body there.
TileOf(a) == a \div Tile
Span(pos) == TileOf(pos - Half) .. TileOf(pos + Half)

\* Walls, read along an axis.
Far(isX) == IF isX THEN MapW ELSE MapH
Wall(t, o, isX) == IF isX THEN <<t, o>> \in Walls ELSE <<o, t>> \in Walls

\* A body with all its width inside the border, and one that touches no wall.
Inside(pos, isX) == pos \in Tile + Half .. (Far(isX) - 1) * Tile - Half - 1
Clear(pos, other, isX) ==
    /\ Inside(pos, isX) /\ Inside(other, ~isX)
    /\ \A t \in Span(pos), o \in Span(other) : ~Wall(t, o, isX)

\* A body that reaches no tile the other does not.
Within(new, pos) ==
    /\ new \in Int
    /\ TileOf(pos - Half) * Tile <= new - Half
    /\ new + Half < (TileOf(pos + Half) + 1) * Tile

\* The sizes are numbers, and a body is narrower than a tile.
LEMMA Sizes ==
  /\ Tile \in Nat /\ Half \in Nat /\ MapW \in Nat /\ MapH \in Nat
  /\ MoveBase \in Nat /\ MoveStep \in Nat /\ TrapSpeed \in Nat /\ MaxLevel \in Nat
  /\ 0 < Half /\ 2 * Half < Tile /\ TrapSpeed < Tile
  /\ MoveBase + MaxLevel * MoveStep < Tile
BY PlayAssumption

\* Division rounds down.
LEMMA DivIs ==
  ASSUME NEW a \in Nat
  PROVE  /\ TileOf(a) \in Nat
         /\ TileOf(a) * Tile <= a /\ a < TileOf(a) * Tile + Tile
BY Sizes DEF TileOf

\* A tile is not beyond that of a coordinate when it does not begin beyond it.
LEMMA TileLeast ==
  ASSUME NEW a \in Nat, NEW q \in Int
  PROVE  q <= TileOf(a) <=> q * Tile <= a
<1> DEFINE t == TileOf(a)
<1>1. t \in Nat /\ t * Tile <= a /\ a < t * Tile + Tile
  BY DivIs
<1>2. Tile \in Nat /\ Tile > 0
  BY Sizes
<1> HIDE DEF t
<1>3. ASSUME q <= t PROVE q * Tile <= a
  <2>1. t - q \in Nat
    BY <1>1, <1>3
  <2>2. (t - q) * Tile >= 0
    BY <1>2, <2>1
  <2> QED BY <1>1, <1>2, <2>1, <2>2
<1>4. ASSUME q >= t + 1 PROVE q * Tile > a
  <2>1. q - t - 1 \in Nat
    BY <1>1, <1>4
  <2>2. (q - t - 1) * Tile >= 0
    BY <1>2, <2>1
  <2> QED BY <1>1, <1>2, <2>1, <2>2
<1> QED BY <1>1, <1>2, <1>3, <1>4 DEF t

\* C++ and JavaScript round alike where nothing is negative.
LEMMA QuotIs == \A a \in Nat : S!Quot(a, Tile) = TileOf(a)
  BY DEF S!Quot, TileOf

\* What a body inside the border reaches.
LEMMA InsideIs ==
  ASSUME NEW isX \in BOOLEAN, NEW pos, Inside(pos, isX)
  PROVE  /\ pos \in Nat /\ pos - Half \in Nat /\ pos + Half \in Nat /\ Far(isX) \in Nat
         /\ Tile <= pos - Half
         /\ 1 <= TileOf(pos - Half) /\ TileOf(pos - Half) <= TileOf(pos)
         /\ TileOf(pos) <= TileOf(pos + Half) /\ TileOf(pos + Half) <= Far(isX) - 2
         /\ TileOf(pos - Half) \in Nat /\ TileOf(pos) \in Nat /\ TileOf(pos + Half) \in Nat
<1> DEFINE f == Far(isX)
<1>1. f \in Nat
  BY Sizes DEF Far
<1>2. pos \in Int /\ Tile + Half <= pos /\ pos <= (f - 1) * Tile - Half - 1
  <2>1. Tile + Half \in Int /\ (f - 1) * Tile - Half - 1 \in Int
    BY <1>1, Sizes
  <2> QED BY <2>1 DEF Inside
<1> HIDE DEF f
<1>3. pos \in Nat /\ pos - Half \in Nat /\ pos + Half \in Nat /\ Tile <= pos - Half
  BY <1>1, <1>2, Sizes
<1>4. TileOf(pos - Half) \in Nat /\ TileOf(pos) \in Nat /\ TileOf(pos + Half) \in Nat
  BY <1>3, DivIs
<1>5. 1 <= TileOf(pos - Half)
  BY <1>3, TileLeast, Sizes
<1>6. TileOf(pos - Half) <= TileOf(pos)
  <2>1. TileOf(pos - Half) * Tile <= pos - Half
    BY <1>3, DivIs
  <2>2. TileOf(pos - Half) * Tile \in Int
    BY <1>4, Sizes
  <2>3. TileOf(pos - Half) * Tile <= pos
    BY <1>3, <2>1, <2>2, Sizes
  <2> QED BY <1>3, <1>4, <2>3, TileLeast
<1>7. TileOf(pos) <= TileOf(pos + Half)
  <2>1. TileOf(pos) * Tile <= pos
    BY <1>3, DivIs
  <2>2. TileOf(pos) * Tile \in Int
    BY <1>4, Sizes
  <2>3. TileOf(pos) * Tile <= pos + Half
    BY <1>3, <2>1, <2>2, Sizes
  <2> QED BY <1>3, <1>4, <2>3, TileLeast
<1>8. TileOf(pos + Half) <= f - 2
  <2>1. (f - 1) * Tile > pos + Half
    BY <1>1, <1>2, <1>3, Sizes
  <2>2. ~(f - 1 <= TileOf(pos + Half))
    <3>1. f - 1 \in Int /\ (f - 1) * Tile \in Int
      BY <1>1, Sizes
    <3>2. ~((f - 1) * Tile <= pos + Half)
      BY <1>3, <2>1, <3>1
    <3> QED BY <1>3, <3>1, <3>2, TileLeast
  <2> QED BY <1>1, <1>4, <2>2
<1> QED BY <1>1, <1>3, <1>4, <1>5, <1>6, <1>7, <1>8 DEF f

\* A body is clear wherever it reaches only what it reached.
LEMMA WithinClear ==
  ASSUME NEW isX \in BOOLEAN, NEW pos, NEW other, NEW new,
         Clear(pos, other, isX), Within(new, pos)
  PROVE  Clear(new, other, isX)
<1>1. Inside(pos, isX) /\ Inside(other, ~isX)
  BY DEF Clear
<1> DEFINE lo == TileOf(pos - Half)
           hi == TileOf(pos + Half)
           f == Far(isX)
<1>2. lo \in Nat /\ hi \in Nat /\ f \in Nat /\ 1 <= lo /\ hi <= f - 2
  BY <1>1, InsideIs
<1>3. new \in Int /\ lo * Tile <= new - Half /\ new + Half < (hi + 1) * Tile
  BY DEF Within
<1> HIDE DEF lo, hi
<1>4. (lo - 1) * Tile >= 0 /\ (f - 2 - hi) * Tile >= 0
  <2>1. lo - 1 \in Nat /\ f - 2 - hi \in Nat /\ Tile \in Nat
    BY <1>2, Sizes
  <2>2. \A a, b \in Nat : a * b >= 0
    OBVIOUS
  <2> QED BY <2>1, <2>2
<1>5. new - Half \in Nat /\ new + Half \in Nat /\ Inside(new, isX)
  <2> HIDE DEF f
  <2>1. Tile + Half <= new /\ new <= (f - 1) * Tile - Half - 1
    BY <1>2, <1>3, <1>4, Sizes
  <2>2. new - Half \in Nat /\ new + Half \in Nat
    BY <1>3, <2>1, Sizes
  <2>3. Tile + Half \in Int /\ (f - 1) * Tile - Half - 1 \in Int
    BY <1>2, Sizes
  <2>4. new \in Tile + Half .. (f - 1) * Tile - Half - 1
    BY <1>3, <2>1, <2>3
  <2> QED BY <2>2, <2>4 DEF f, Inside
<1>6. lo <= TileOf(new - Half) /\ TileOf(new - Half) \in Nat
  BY <1>2, <1>3, <1>5, TileLeast, DivIs
<1>7. TileOf(new + Half) <= hi /\ TileOf(new + Half) \in Nat
  <2>1. hi + 1 \in Int /\ (hi + 1) * Tile \in Int /\ ~((hi + 1) * Tile <= new + Half)
    BY <1>2, <1>3, <1>5, Sizes
  <2>2. ~(hi + 1 <= TileOf(new + Half))
    BY <1>5, <2>1, TileLeast
  <2>3. TileOf(new + Half) \in Nat
    BY <1>5, DivIs
  <2> QED BY <1>2, <2>1, <2>2, <2>3
<1>8. Span(new) \subseteq Span(pos)
  BY <1>2, <1>6, <1>7 DEF Span, lo, hi
<1> QED BY <1>1, <1>5, <1>8 DEF Clear

\* Both copies take the same tiles for those under a body.
LEMMA SpanIs ==
  ASSUME NEW isX \in BOOLEAN, NEW pos, Inside(pos, isX)
  PROVE  /\ S!BodySpanAxis(pos) = Span(pos)
         /\ P!span(pos).first .. P!span(pos).last = Span(pos)
         /\ TileOf(pos) \in Span(pos)
<1>1. /\ pos - Half \in Nat /\ pos + Half \in Nat
      /\ TileOf(pos - Half) <= TileOf(pos) /\ TileOf(pos) <= TileOf(pos + Half)
      /\ TileOf(pos - Half) \in Nat /\ TileOf(pos) \in Nat /\ TileOf(pos + Half) \in Nat
  BY InsideIs
<1>2. S!Most(pos - Half, 0) = pos - Half /\ P!Big(pos - Half, 0) = pos - Half
  BY <1>1 DEF S!Most, P!Big
<1>3. S!BodySpanAxis(pos) = Span(pos)
  BY <1>1, <1>2, QuotIs DEF S!BodySpanAxis, Span
<1>4. P!span(pos).first .. P!span(pos).last = Span(pos)
  BY <1>2 DEF P!span, Span, TileOf
<1> QED BY <1>1, <1>3, <1>4 DEF Span

\* The board ends in walls on every side.
LEMMA Border ==
  ASSUME NEW x \in 0 .. MapW - 1, NEW y \in 0 .. MapH - 1, <<x, y>> \notin Walls
  PROVE  x # 0 /\ x # MapW - 1 /\ y # 0 /\ y # MapH - 1
<1>1. x \in {0, MapW - 1} \/ y \in {0, MapH - 1} => <<x, y>> \in Walls
  BY PlayAssumption, Zenon
<1> QED BY <1>1

\* A column of the body's rows that is free lies inside the border, and has no wall.
LEMMA FreeIs ==
  ASSUME NEW isX \in BOOLEAN, NEW other, Inside(other, ~isX), NEW t \in Int,
         NEW W, Walls \subseteq W, ~S!AnySolid(W, t, Span(other), isX)
  PROVE  /\ 1 <= t /\ t <= Far(isX) - 2
         /\ \A o \in Span(other) : ~Wall(t, o, isX)
<1> DEFINE m == TileOf(other)
<1>1. m \in Span(other) /\ Far(isX) \in Nat
  BY SpanIs, Sizes DEF Far
<1>2. \A o \in Span(other) : ~Wall(t, o, isX)
  BY DEF S!AnySolid, S!IsSolid, Wall
<1>3. CASE isX = TRUE
  <2>1. ~S!IsSolid(W, t, m)
    BY <1>1, <1>3 DEF S!AnySolid
  <2>2. t \in 0 .. MapW - 1 /\ m \in 0 .. MapH - 1 /\ <<t, m>> \notin Walls
    BY <2>1 DEF S!IsSolid
  <2>3. t # 0 /\ t # MapW - 1
    BY <2>2, Border
  <2>4. Far(isX) = MapW
    BY <1>3 DEF Far
  <2>5. t \in Int /\ 0 <= t /\ t <= MapW - 1
    BY <2>2, Sizes
  <2>6. 1 <= t /\ t <= MapW - 2
    BY <2>3, <2>5, Sizes
  <2> QED BY <1>2, <2>4, <2>6
<1>4. CASE isX = FALSE
  <2>1. ~S!IsSolid(W, m, t)
    BY <1>1, <1>4 DEF S!AnySolid
  <2>2. t \in 0 .. MapH - 1 /\ m \in 0 .. MapW - 1 /\ <<m, t>> \notin Walls
    BY <2>1 DEF S!IsSolid
  <2>3. t # 0 /\ t # MapH - 1
    BY <2>2, Border
  <2> QED BY <1>2, <1>4, <2>2, <2>3, Sizes DEF Far
<1> QED BY <1>3, <1>4

\* A step forward leaves the body clear: it goes no further than its tiles, or than one
\* more that is free.
LEMMA ForthClear ==
  ASSUME NEW isX \in BOOLEAN, NEW pos, NEW other, NEW W, Walls \subseteq W,
         Clear(pos, other, isX), NEW step \in 1 .. Tile - 1
  PROVE  Clear(S!StepAxis(W, pos, other, step, isX), other, isX)
<1> DEFINE edge == pos + step + Half
           into == TileOf(edge)
           new == S!StepAxis(W, pos, other, step, isX)
           lo == TileOf(pos - Half)
           hi == TileOf(pos + Half)
           at == TileOf(pos)
           f == Far(isX)
<1>1. Inside(pos, isX) /\ Inside(other, ~isX)
  BY DEF Clear
<1>2. /\ pos \in Nat /\ pos - Half \in Nat /\ pos + Half \in Nat /\ edge \in Nat /\ f \in Nat
      /\ Tile <= pos - Half /\ 1 <= lo /\ lo <= at /\ at <= hi /\ hi <= f - 2
      /\ lo \in Nat /\ at \in Nat /\ hi \in Nat /\ step \in Nat /\ step > 0 /\ step < Tile
  BY <1>1, InsideIs, Sizes
<1>3. into \in Nat /\ into * Tile <= edge /\ edge < into * Tile + Tile
  BY <1>2, DivIs
<1>4. /\ lo * Tile <= pos - Half
      /\ at * Tile <= pos /\ pos < at * Tile + Tile
      /\ pos + Half < hi * Tile + Tile
  BY <1>2, DivIs
<1>5. new = IF into = at \/ ~S!AnySolid(W, into, Span(other), isX)
            THEN pos + step ELSE into * Tile - Half - 1
  <2>1. S!Quot(edge, Tile) = into /\ S!Quot(pos, Tile) = at /\ S!BodySpanAxis(other) = Span(other)
    BY <1>1, <1>2, QuotIs, SpanIs
  <2> QED BY <1>2, <2>1 DEF S!StepAxis
<1> HIDE DEF into, new, lo, hi, at, f
<1>6. into <= hi + 1
  <2>1. (hi + 2) * Tile = hi * Tile + Tile + Tile
    BY <1>2, Sizes
  <2>2. hi + 2 \in Int /\ (hi + 2) * Tile \in Int /\ ~((hi + 2) * Tile <= edge)
    BY <1>2, <1>4, <2>1, Sizes
  <2>3. ~(hi + 2 <= into)
    BY <1>2, <2>2, TileLeast DEF into
  <2> QED BY <1>2, <1>3, <2>3
<1>7. at <= into
  <2>1. at * Tile <= edge
    BY <1>2, <1>4, Sizes
  <2> QED BY <1>2, <2>1, TileLeast DEF into
<1>8. into <= hi \/ into = hi + 1
  BY <1>2, <1>3, <1>6
<1>9. CASE into = at \/ (into # at /\ into <= hi /\ ~S!AnySolid(W, into, Span(other), isX))
  <2>1. new = pos + step
    BY <1>5, <1>9
  <2>2. into <= hi
    BY <1>2, <1>9
  <2>3. (hi - into) * Tile >= 0
    <3>1. hi - into \in Nat /\ Tile \in Nat
      BY <1>2, <1>3, <2>2, Sizes
    <3> QED BY <3>1
  <2>4. new + Half < (hi + 1) * Tile /\ lo * Tile <= new - Half /\ new \in Int
    BY <1>2, <1>3, <1>4, <2>1, <2>3, Sizes
  <2>5. Within(new, pos)
    BY <2>4 DEF Within, lo, hi
  <2> QED BY <2>5, WithinClear DEF new
<1>10. CASE into # at /\ S!AnySolid(W, into, Span(other), isX)
  <2>1. new = into * Tile - Half - 1
    BY <1>5, <1>10
  <2>2. lo <= into - 1 /\ into - 1 <= hi
    BY <1>2, <1>3, <1>6, <1>7, <1>10
  <2>3. (into - 1 - lo) * Tile >= 0 /\ (hi + 1 - into) * Tile >= 0
    <3>1. into - 1 - lo \in Nat /\ hi + 1 - into \in Nat /\ Tile \in Nat
      BY <1>2, <1>3, <2>2, Sizes
    <3>2. \A a, b \in Nat : a * b >= 0
      OBVIOUS
    <3> QED BY <3>1, <3>2
  <2>4. new + Half < (hi + 1) * Tile /\ lo * Tile <= new - Half /\ new \in Int
    BY <1>2, <1>3, <2>1, <2>3, Sizes
  <2>5. Within(new, pos)
    BY <2>4 DEF Within, lo, hi
  <2> QED BY <2>5, WithinClear DEF new
<1>11. CASE into = hi + 1 /\ ~S!AnySolid(W, into, Span(other), isX)
  <2>1. new = pos + step
    BY <1>5, <1>11
  <2>2. into <= f - 2 /\ \A o \in Span(other) : ~Wall(into, o, isX)
    BY <1>1, <1>3, <1>11, FreeIs DEF f
  <2>3. new - Half \in Nat /\ new + Half = edge /\ lo * Tile <= new - Half
    BY <1>2, <1>4, <2>1, Sizes
  <2>4. lo <= TileOf(new - Half) /\ TileOf(new - Half) \in Nat
    BY <1>2, <2>3, TileLeast, DivIs
  <2>5. Span(new) \subseteq Span(pos) \cup {into}
    BY <1>2, <1>3, <1>11, <2>3, <2>4 DEF Span, lo, hi, into
  <2>6. (f - 2 - into) * Tile >= 0
    <3>1. f - 2 - into \in Nat /\ Tile \in Nat
      BY <1>2, <1>3, <2>2, Sizes
    <3>2. \A a, b \in Nat : a * b >= 0
      OBVIOUS
    <3> QED BY <3>1, <3>2
  <2>7. Tile + Half <= new /\ new <= (f - 1) * Tile - Half - 1 /\ new \in Int
    BY <1>2, <1>3, <2>1, <2>6, Sizes
  <2>8. Inside(new, isX)
    <3>1. Tile + Half \in Int /\ (f - 1) * Tile - Half - 1 \in Int
      BY <1>2, Sizes
    <3> QED BY <2>7, <3>1 DEF Inside, f
  <2>9. \A t \in Span(new), o \in Span(other) : ~Wall(t, o, isX)
    BY <2>2, <2>5 DEF Clear
  <2> QED BY <1>1, <2>8, <2>9 DEF Clear, new
<1> QED BY <1>8, <1>9, <1>10, <1>11

\* And so does a step back.
LEMMA BackClear ==
  ASSUME NEW isX \in BOOLEAN, NEW pos, NEW other, NEW W, Walls \subseteq W,
         Clear(pos, other, isX), NEW step \in Int, step < 0, -step < Tile
  PROVE  Clear(S!StepAxis(W, pos, other, step, isX), other, isX)
<1> DEFINE edge == pos + step - Half
           into == TileOf(edge)
           new == S!StepAxis(W, pos, other, step, isX)
           lo == TileOf(pos - Half)
           hi == TileOf(pos + Half)
           at == TileOf(pos)
           f == Far(isX)
<1>1. Inside(pos, isX) /\ Inside(other, ~isX)
  BY DEF Clear
<1>2. /\ pos \in Nat /\ pos - Half \in Nat /\ pos + Half \in Nat /\ edge \in Nat /\ f \in Nat
      /\ 1 <= lo /\ lo <= at /\ at <= hi /\ hi <= f - 2
      /\ lo \in Nat /\ at \in Nat /\ hi \in Nat
  BY <1>1, InsideIs, Sizes
<1>3. into \in Nat /\ into * Tile <= edge /\ edge < into * Tile + Tile
  BY <1>2, DivIs
<1>4. /\ lo * Tile <= pos - Half
      /\ at * Tile <= pos /\ pos < at * Tile + Tile
      /\ pos + Half < hi * Tile + Tile
  BY <1>2, DivIs
<1>5. new = IF into = at \/ ~S!AnySolid(W, into, Span(other), isX)
            THEN pos + step ELSE (into + 1) * Tile + Half
  <2>1. S!Quot(edge, Tile) = into /\ S!Quot(pos, Tile) = at /\ S!BodySpanAxis(other) = Span(other)
    BY <1>1, <1>2, QuotIs, SpanIs
  <2> QED BY <1>2, <2>1 DEF S!StepAxis
<1> HIDE DEF into, new, lo, hi, at, f
<1>6. lo - 1 <= into
  <2>1. (lo - 1) * Tile = lo * Tile - Tile /\ lo - 1 \in Int
    BY <1>2, Sizes
  <2>2. (lo - 1) * Tile <= edge
    BY <1>2, <1>4, <2>1, Sizes
  <2> QED BY <1>2, <2>1, <2>2, TileLeast DEF into
<1>7. into <= at
  <2>1. (at + 1) * Tile = at * Tile + Tile /\ at + 1 \in Int /\ at * Tile \in Int
    BY <1>2, Sizes
  <2>2. ~((at + 1) * Tile <= edge)
    BY <1>2, <1>4, <2>1, Sizes
  <2>3. ~(at + 1 <= into)
    BY <1>2, <2>1, <2>2, TileLeast DEF into
  <2> QED BY <1>2, <1>3, <2>3
<1>8. lo <= into \/ into = lo - 1
  BY <1>2, <1>3, <1>6
<1>9. CASE into = at \/ (into # at /\ lo <= into /\ ~S!AnySolid(W, into, Span(other), isX))
  <2>1. new = pos + step
    BY <1>5, <1>9
  <2>2. lo <= into
    BY <1>2, <1>9
  <2>3. (into - lo) * Tile >= 0
    <3>1. into - lo \in Nat /\ Tile \in Nat
      BY <1>2, <1>3, <2>2, Sizes
    <3> QED BY <3>1
  <2>4. new + Half < (hi + 1) * Tile /\ lo * Tile <= new - Half /\ new \in Int
    BY <1>2, <1>3, <1>4, <2>1, <2>3, Sizes
  <2>5. Within(new, pos)
    BY <2>4 DEF Within, lo, hi
  <2> QED BY <2>5, WithinClear DEF new
<1>10. CASE into # at /\ S!AnySolid(W, into, Span(other), isX)
  <2>1. new = (into + 1) * Tile + Half
    BY <1>5, <1>10
  <2>2. lo <= into + 1 /\ into + 1 <= hi
    BY <1>2, <1>3, <1>6, <1>7, <1>10
  <2>3. (into + 1 - lo) * Tile >= 0 /\ (hi - 1 - into) * Tile >= 0
    <3>1. into + 1 - lo \in Nat /\ hi - 1 - into \in Nat /\ Tile \in Nat
      BY <1>2, <1>3, <2>2, Sizes
    <3>2. \A a, b \in Nat : a * b >= 0
      OBVIOUS
    <3> QED BY <3>1, <3>2
  <2>4. new + Half < (hi + 1) * Tile /\ lo * Tile <= new - Half /\ new \in Int
    BY <1>2, <1>3, <2>1, <2>3, Sizes
  <2>5. Within(new, pos)
    BY <2>4 DEF Within, lo, hi
  <2> QED BY <2>5, WithinClear DEF new
<1>11. CASE into = lo - 1 /\ ~S!AnySolid(W, into, Span(other), isX)
  <2>1. new = pos + step
    BY <1>5, <1>11
  <2>2. 1 <= into /\ \A o \in Span(other) : ~Wall(into, o, isX)
    BY <1>1, <1>3, <1>11, FreeIs
  <2>3. new + Half \in Nat /\ new - Half = edge /\ new + Half < hi * Tile + Tile
    BY <1>2, <1>4, <2>1, Sizes
  <2>4. TileOf(new + Half) <= hi /\ TileOf(new + Half) \in Nat
    <3>1. (hi + 1) * Tile = hi * Tile + Tile /\ hi + 1 \in Int /\ hi * Tile \in Int
      BY <1>2, Sizes
    <3>2. ~((hi + 1) * Tile <= new + Half)
      BY <2>3, <3>1, Sizes
    <3>3. ~(hi + 1 <= TileOf(new + Half)) /\ TileOf(new + Half) \in Nat
      BY <2>3, <3>1, <3>2, TileLeast, DivIs
    <3> QED BY <1>2, <3>3
  <2>5. Span(new) \subseteq Span(pos) \cup {into}
    BY <1>2, <1>3, <1>11, <2>3, <2>4 DEF Span, lo, hi, into
  <2>6. (into - 1) * Tile >= 0 /\ (f - 2 - hi) * Tile >= 0
    <3>1. into - 1 \in Nat /\ f - 2 - hi \in Nat /\ Tile \in Nat
      BY <1>2, <1>3, <2>2, Sizes
    <3>2. \A a, b \in Nat : a * b >= 0
      OBVIOUS
    <3> QED BY <3>1, <3>2
  <2>7. Tile + Half <= new /\ new <= (f - 1) * Tile - Half - 1 /\ new \in Int
    BY <1>2, <1>3, <1>4, <2>1, <2>6, Sizes
  <2>8. Inside(new, isX)
    <3>1. Tile + Half \in Int /\ (f - 1) * Tile - Half - 1 \in Int
      BY <1>2, Sizes
    <3> QED BY <2>7, <3>1 DEF Inside, f
  <2>9. \A t \in Span(new), o \in Span(other) : ~Wall(t, o, isX)
    BY <2>2, <2>5 DEF Clear
  <2> QED BY <1>1, <2>8, <2>9 DEF Clear, new
<1> QED BY <1>8, <1>9, <1>10, <1>11

\* Standing still is a step too.
LEMMA StepClear ==
  ASSUME NEW isX \in BOOLEAN, NEW pos, NEW other, NEW W, Walls \subseteq W,
         Clear(pos, other, isX), NEW step \in Int, -Tile < step, step < Tile
  PROVE  Clear(S!StepAxis(W, pos, other, step, isX), other, isX)
<1>1. CASE step > 0
  BY <1>1, ForthClear, Sizes
<1>2. CASE step < 0
  BY <1>2, BackClear, Sizes
<1>3. CASE step = 0
  <2>1. pos \in Nat
    BY InsideIs DEF Clear
  <2>2. S!StepAxis(W, pos, other, step, isX) = pos
    BY <1>3, <2>1 DEF S!StepAxis
  <2> QED BY <2>2
<1> QED BY <1>1, <1>2, <1>3

\* Being clear does not depend on the axis one looks along.
LEMMA OtherWay ==
  ASSUME NEW a, NEW b, NEW isX \in BOOLEAN
  PROVE  Clear(a, b, isX) => Clear(b, a, ~isX)
<1>1. Clear(a, b, TRUE) => Clear(b, a, FALSE)
  BY DEF Clear, Wall
<1>2. Clear(a, b, FALSE) => Clear(b, a, TRUE)
  BY DEF Clear, Wall
<1>3. CASE isX = TRUE
  BY <1>1, <1>3
<1>4. CASE isX = FALSE
  BY <1>2, <1>4
<1> QED BY <1>3, <1>4

\* The middle of a tile of the body's leaves it in its tiles, and so does any place on the
\* way there.
LEMMA CentreWithin ==
  ASSUME NEW isX \in BOOLEAN, NEW pos, Inside(pos, isX), NEW new \in Int,
         LET c == TileOf(pos) * Tile + Tile \div 2
         IN  (pos <= new /\ new <= c) \/ (c <= new /\ new <= pos)
  PROVE  Within(new, pos)
<1> DEFINE lo == TileOf(pos - Half)
           hi == TileOf(pos + Half)
           at == TileOf(pos)
           h == Tile \div 2
<1>1. /\ pos \in Nat /\ pos - Half \in Nat /\ pos + Half \in Nat
      /\ lo <= at /\ at <= hi /\ lo \in Nat /\ at \in Nat /\ hi \in Nat
  BY InsideIs
<1>2. /\ lo * Tile <= pos - Half
      /\ pos + Half < hi * Tile + Tile
  BY <1>1, DivIs
<1>3. h \in Nat /\ Half <= h /\ h + Half < Tile
  BY Sizes
<1>4. (at - lo) * Tile >= 0 /\ (hi - at) * Tile >= 0
  <2> HIDE DEF lo, at, hi
  <2>1. at - lo \in Nat /\ hi - at \in Nat /\ Tile \in Nat
    BY <1>1, Sizes
  <2>2. \A a, b \in Nat : a * b >= 0
    OBVIOUS
  <2> QED BY <2>1, <2>2
<1>5. (pos <= new /\ new <= at * Tile + h) \/ (at * Tile + h <= new /\ new <= pos)
  OBVIOUS
<1> HIDE DEF lo, hi, at, h
<1>6. lo * Tile <= new - Half
  BY <1>1, <1>2, <1>3, <1>4, <1>5, Sizes
<1>7. new + Half < (hi + 1) * Tile
  BY <1>1, <1>2, <1>3, <1>4, <1>5, Sizes
<1> QED BY <1>6, <1>7 DEF Within, lo, hi

\* A limited way leads towards its end, and not past it.
LEMMA LimitIs ==
  ASSUME NEW d \in Int, NEW most \in Nat
  PROVE  /\ S!Limit(d, most) \in Int
         /\ (0 <= S!Limit(d, most) /\ S!Limit(d, most) <= d)
            \/ (d <= S!Limit(d, most) /\ S!Limit(d, most) <= 0)
<1> DEFINE m == S!Most(d, -most)
<1>1. m = IF d > -most THEN d ELSE -most
  BY DEF S!Most
<1>2. S!Limit(d, most) = IF m < most THEN m ELSE most
  BY DEF S!Limit, S!Least
<1> HIDE DEF m
<1>3. m \in Int /\ ((m = d /\ -most < d) \/ (m = -most /\ d <= -most))
  BY <1>1
<1>4. (S!Limit(d, most) = m /\ m < most) \/ (S!Limit(d, most) = most /\ most <= m)
  BY <1>2, <1>3
<1> QED BY <1>3, <1>4

\* Lining up with the row leaves the body clear.
LEMMA CenterClear ==
  ASSUME NEW isX \in BOOLEAN, NEW move, NEW side, NEW W,
         Clear(move, side, isX), NEW step, NEW speed \in Nat
  PROVE  Clear(move, S!CenterAxis(W, move, side, step, isX, speed), isX)
<1> DEFINE c == TileOf(side) * Tile + Tile \div 2
           new == S!CenterAxis(W, move, side, step, isX, speed)
           way == S!Limit(c - side, speed)
<1>1. Clear(side, move, ~isX) /\ Inside(side, ~isX) /\ (~isX) \in BOOLEAN
  <2>1. Clear(side, move, ~isX)
    BY OtherWay
  <2>2. Inside(side, ~isX)
    BY DEF Clear
  <2>3. (~isX) \in BOOLEAN
    OBVIOUS
  <2> QED BY <2>1, <2>2, <2>3
<1>2. side \in Nat /\ c \in Int
  <2>1. \A isY \in BOOLEAN : Inside(side, isY) => side \in Nat /\ TileOf(side) \in Nat
    BY InsideIs
  <2>2. side \in Nat /\ TileOf(side) \in Nat
    BY <1>1, <2>1, Zenon
  <2> QED BY <2>2, Sizes
<1>3. new = side \/ new = side + way
  <2>1. S!Quot(side, Tile) = TileOf(side)
    BY <1>2, QuotIs
  <2>2. c - side = S!Quot(side, Tile) * Tile + Tile \div 2 - side
    BY <1>2, <2>1, DivIs, Sizes
  <2>3. way = S!Limit(S!Quot(side, Tile) * Tile + Tile \div 2 - side, speed)
    BY <2>2
  <2> HIDE DEF way, c
  <2> QED BY <2>3 DEF S!CenterAxis
<1> HIDE DEF c, new, way
<1>4. CASE new = side
  BY <1>4 DEF new
<1>5. CASE new = side + way
  <2>1. way \in Int /\ ((0 <= way /\ way <= c - side) \/ (c - side <= way /\ way <= 0))
    BY <1>2, LimitIs DEF way
  <2>2. new \in Int /\ ((side <= new /\ new <= c) \/ (c <= new /\ new <= side))
    BY <1>2, <1>5, <2>1
  <2>3. Within(new, side)
    BY <1>1, <2>2, CentreWithin DEF c
  <2>4. Clear(new, move, ~isX)
    BY <1>1, <2>3, WithinClear
  <2>5. Clear(move, new, ~(~isX))
    BY <1>1, <2>4, OtherWay
  <2> QED BY <2>5 DEF new
<1> QED BY <1>3, <1>4, <1>5

\* Coming out of a neighbour leaves the body clear.
LEMMA ClampClear ==
  ASSUME NEW isX \in BOOLEAN, NEW pos, NEW other, NEW W,
         Clear(pos, other, isX), NEW speed \in Nat
  PROVE  Clear(S!ClampAxis(W, pos, other, isX, speed), other, isX)
<1> DEFINE at == TileOf(pos)
           f == Far(isX)
           lo == IF S!AnySolid(W, at - 1, S!BodySpanAxis(other), isX) THEN at * Tile + Half ELSE 0
           hi == IF S!AnySolid(W, at + 1, S!BodySpanAxis(other), isX)
                 THEN (at + 1) * Tile - Half - 1 ELSE f * Tile - 1
           aim == S!Least(S!Most(pos, lo), hi)
           way == S!Limit(aim - pos, speed)
           new == S!ClampAxis(W, pos, other, isX, speed)
           first == TileOf(pos - Half)
           last == TileOf(pos + Half)
<1>1. Inside(pos, isX)
  BY DEF Clear
<1>2. /\ pos \in Nat /\ pos - Half \in Nat /\ pos + Half \in Nat /\ f \in Nat
      /\ first <= at /\ at <= last /\ last <= f - 2
      /\ first \in Nat /\ at \in Nat /\ last \in Nat
  BY <1>1, InsideIs
<1>3. /\ first * Tile <= pos - Half /\ at * Tile <= pos /\ pos < at * Tile + Tile
      /\ pos + Half < last * Tile + Tile
  BY <1>2, DivIs
<1>4. new = IF lo > hi THEN pos ELSE pos + way
  <2>1. S!Quot(pos, Tile) = at
    BY <1>2, QuotIs
  <2> QED BY <2>1 DEF S!ClampAxis, Far
<1>5. /\ lo \in {0, at * Tile + Half}
      /\ hi \in {(at + 1) * Tile - Half - 1, f * Tile - 1}
  OBVIOUS
<1> HIDE DEF lo, hi, at, f, first, last, new
<1>6. at * Tile \in Nat /\ (at + 1) * Tile = at * Tile + Tile /\ f * Tile \in Nat
  BY <1>2, Sizes
<1>7. (at - first) * Tile >= 0 /\ (last - at) * Tile >= 0 /\ (f - 2 - last) * Tile >= 0
  <2>1. at - first \in Nat /\ last - at \in Nat /\ f - 2 - last \in Nat /\ Tile \in Nat
    BY <1>2, Sizes
  <2>2. \A a, b \in Nat : a * b >= 0
    OBVIOUS
  <2> QED BY <2>1, <2>2
<1>8. lo \in Int /\ hi \in Int
  BY <1>5, <1>6, Sizes
<1>9. aim \in Int /\ (lo <= hi => aim = pos \/ (aim = lo /\ pos <= lo) \/ (aim = hi /\ hi <= pos))
  <2> DEFINE m == S!Most(pos, lo)
  <2>1. m = IF pos > lo THEN pos ELSE lo
    BY DEF S!Most
  <2>2. aim = IF m < hi THEN m ELSE hi
    BY DEF S!Least
  <2> HIDE DEF m, aim
  <2>3. m \in Int /\ ((m = pos /\ lo < pos) \/ (m = lo /\ pos <= lo))
    BY <1>2, <1>8, <2>1
  <2>4. (aim = m /\ m < hi) \/ (aim = hi /\ hi <= m)
    BY <1>8, <2>2, <2>3
  <2> QED BY <1>2, <1>8, <2>3, <2>4
<1>10. aim = lo /\ pos <= lo => lo = at * Tile + Half
  <2>1. lo = 0 => pos = 0 \/ ~(pos <= lo)
    BY <1>2
  <2>2. pos # 0
    BY <1>2, Sizes
  <2> QED BY <1>5, <2>1, <2>2
<1>11. hi <= pos => hi = (at + 1) * Tile - Half - 1
  <2>1. f * Tile - 1 > pos
    BY <1>2, <1>3, <1>6, <1>7, Sizes
  <2> QED BY <1>2, <1>5, <1>6, <2>1
<1> HIDE DEF aim
<1>12. way \in Int /\ ((0 <= way /\ way <= aim - pos) \/ (aim - pos <= way /\ way <= 0))
  <2>1. aim - pos \in Int
    BY <1>2, <1>9
  <2> QED BY <2>1, LimitIs DEF way
<1> HIDE DEF way
<1>13. CASE lo > hi
  BY <1>4, <1>13 DEF new
<1>14. CASE lo <= hi
  <2> HIDE DEF new
  <2>0. new = pos + way
    BY <1>4, <1>8, <1>14
  <2>1. new \in Int
    BY <1>2, <1>12, <2>0
  <2>2. first * Tile <= new - Half
    BY <1>2, <1>3, <1>6, <1>7, <1>8, <1>9, <1>10, <1>11, <1>12, <1>14, <2>0, Sizes
  <2>3. new + Half < (last + 1) * Tile
    BY <1>2, <1>3, <1>6, <1>7, <1>8, <1>9, <1>10, <1>11, <1>12, <1>14, <2>0, Sizes
  <2>4. Within(new, pos)
    BY <2>1, <2>2, <2>3 DEF Within, first, last
  <2> QED BY <2>4, WithinClear DEF new
<1> QED BY <1>8, <1>13, <1>14

-----------------------------------------------------------------------------
(* The two copies of the rules.                                              *)

\* They take the same tiles for solid, along every line of the body's.
LEMMA AcrossSame ==
  ASSUME NEW isX \in BOOLEAN, NEW t \in Int, NEW W, NEW sp, NEW os \in SUBSET Int,
         sp.first .. sp.last = os
  PROVE  P!Across(W, t, sp, isX) <=> S!AnySolid(W, t, os, isX)
<1>1. \A x, y \in Int : P!solid(W, x, y) <=> S!IsSolid(W, x, y)
  BY Sizes DEF P!solid, S!IsSolid
<1>2. CASE isX = TRUE
  <2>1. P!Across(W, t, sp, isX) <=> \E o \in os : P!solid(W, t, o)
    BY <1>2 DEF P!Across
  <2>2. S!AnySolid(W, t, os, isX) <=> \E o \in os : S!IsSolid(W, t, o)
    BY <1>2 DEF S!AnySolid
  <2> QED BY <1>1, <2>1, <2>2
<1>3. CASE isX = FALSE
  <2>1. P!Across(W, t, sp, isX) <=> \E o \in os : P!solid(W, o, t)
    BY <1>3 DEF P!Across
  <2>2. S!AnySolid(W, t, os, isX) <=> \E o \in os : S!IsSolid(W, o, t)
    BY <1>3 DEF S!AnySolid
  <2> QED BY <1>1, <2>1, <2>2
<1> QED BY <1>2, <1>3

\* The tiles under the body, in a form both can use.
LEMMA SpanIsInt ==
  ASSUME NEW isX \in BOOLEAN, NEW other, Inside(other, ~isX)
  PROVE  /\ S!BodySpanAxis(other) = P!span(other).first .. P!span(other).last
         /\ S!BodySpanAxis(other) \in SUBSET Int
<1>1. \A isY \in BOOLEAN : Inside(other, isY) =>
        /\ S!BodySpanAxis(other) = Span(other)
        /\ P!span(other).first .. P!span(other).last = Span(other)
  BY SpanIs
<1>2. (~isX) \in BOOLEAN
  OBVIOUS
<1>3. /\ S!BodySpanAxis(other) = Span(other)
      /\ P!span(other).first .. P!span(other).last = Span(other)
  BY <1>1, <1>2, Zenon
<1>4. Span(other) \in SUBSET Int
  BY DEF Span
<1> QED BY <1>3, <1>4, Zenon

\* They limit a way alike.
LEMMA LimitSame ==
  ASSUME NEW d \in Int, NEW most \in Nat
  PROVE  P!Big(P!Small(d, most), -most) = S!Limit(d, most)
<1> DEFINE m == S!Most(d, -most)
           n == P!Small(d, most)
<1>1. m = IF d > -most THEN d ELSE -most
  BY DEF S!Most
<1>2. S!Limit(d, most) = IF m < most THEN m ELSE most
  BY DEF S!Limit, S!Least
<1>3. n = IF d < most THEN d ELSE most
  BY DEF P!Small
<1>4. P!Big(n, -most) = IF n > -most THEN n ELSE -most
  BY DEF P!Big
<1> HIDE DEF m, n
<1>5. P!Big(n, -most) = S!Limit(d, most)
  <2>1. CASE d <= -most
    BY <1>1, <1>2, <1>3, <1>4, <2>1
  <2>2. CASE -most < d /\ d < most
    BY <1>1, <1>2, <1>3, <1>4, <2>2
  <2>3. CASE most <= d
    BY <1>1, <1>2, <1>3, <1>4, <2>3
  <2> QED BY <2>1, <2>2, <2>3
<1> QED BY <1>5 DEF n

\* They step alike.
LEMMA StepSame ==
  ASSUME NEW isX \in BOOLEAN, NEW pos, NEW other, NEW W,
         Inside(pos, isX), Inside(other, ~isX),
         NEW step \in Int, -Tile < step, step < Tile
  PROVE  P!stepAxis(W, pos, other, step, isX) = S!StepAxis(W, pos, other, step, isX)
<1> DEFINE edge == IF step > 0 THEN pos + step + Half ELSE pos + step - Half
           into == TileOf(edge)
           at == TileOf(pos)
<1>1. pos \in Nat /\ edge \in Nat /\ at \in Nat
  BY InsideIs, Sizes
<1>2. into \in Nat
  BY <1>1, DivIs
<1>3. P!Across(W, into, P!span(other), isX) <=> S!AnySolid(W, into, S!BodySpanAxis(other), isX)
  <2>1. /\ S!BodySpanAxis(other) = P!span(other).first .. P!span(other).last
        /\ S!BodySpanAxis(other) \in SUBSET Int
    BY SpanIsInt
  <2> QED BY <1>2, <2>1, AcrossSame
<1>4. S!Quot(edge, Tile) = into /\ S!Quot(pos, Tile) = at
  BY <1>1, QuotIs
<1>5. (IF step > 0 THEN (pos + step) + Half ELSE (pos + step) - Half) = edge
  BY <1>1, Sizes
<1> DEFINE free == at = into \/ ~S!AnySolid(W, into, S!BodySpanAxis(other), isX)
<1>6. S!StepAxis(W, pos, other, step, isX)
      = IF step = 0 \/ free THEN pos + step
        ELSE IF step > 0 THEN into * Tile - Half - 1 ELSE (into + 1) * Tile + Half
  BY <1>4 DEF S!StepAxis
<1>7. P!stepAxis(W, pos, other, step, isX)
      = CASE step = 0 \/ free -> pos + step
          [] step > 0 /\ ~free -> into * Tile - Half - 1
          [] step < 0 /\ ~free -> (into + 1) * Tile + Half
  BY <1>3, <1>5 DEF P!stepAxis, TileOf
<1> HIDE DEF free, into
<1>8. CASE step = 0 \/ free
  BY <1>6, <1>7, <1>8
<1>9. CASE step > 0 /\ ~free
  BY <1>6, <1>7, <1>9
<1>10. CASE step < 0 /\ ~free
  BY <1>6, <1>7, <1>10
<1> QED BY <1>8, <1>9, <1>10

\* They come out of a neighbour alike.
LEMMA ClampSame ==
  ASSUME NEW isX \in BOOLEAN, NEW pos, NEW other, NEW W,
         Inside(pos, isX), Inside(other, ~isX), NEW speed \in Nat
  PROVE  P!clampAxis(W, pos, other, isX, speed) = S!ClampAxis(W, pos, other, isX, speed)
<1> DEFINE at == TileOf(pos)
           lo == IF S!AnySolid(W, at - 1, S!BodySpanAxis(other), isX) THEN at * Tile + Half ELSE 0
           hi == IF S!AnySolid(W, at + 1, S!BodySpanAxis(other), isX)
                 THEN (at + 1) * Tile - Half - 1 ELSE Far(isX) * Tile - 1
           d == S!Least(S!Most(pos, lo), hi) - pos
<1>1. pos \in Nat /\ at \in Nat /\ Far(isX) \in Nat
  BY InsideIs
<1>2. \A t \in Int : P!Across(W, t, P!span(other), isX) <=> S!AnySolid(W, t, S!BodySpanAxis(other), isX)
  <2>1. /\ S!BodySpanAxis(other) = P!span(other).first .. P!span(other).last
        /\ S!BodySpanAxis(other) \in SUBSET Int
    BY SpanIsInt
  <2> QED BY <2>1, AcrossSame
<1>3. S!Quot(pos, Tile) = at
  BY <1>1, QuotIs
<1>4. S!ClampAxis(W, pos, other, isX, speed) = IF lo > hi THEN pos ELSE pos + S!Limit(d, speed)
  BY <1>3 DEF S!ClampAxis, Far
<1>5. d = P!Small(P!Big(pos, lo), hi) - pos
  BY DEF S!Least, S!Most, P!Small, P!Big
<1>6. /\ lo = IF P!Across(W, at - 1, P!span(other), isX) THEN at * Tile + Half ELSE 0
      /\ hi = IF P!Across(W, at + 1, P!span(other), isX)
              THEN (at + 1) * Tile - Half - 1 ELSE Far(isX) * Tile - 1
  BY <1>1, <1>2
<1>7. lo \in Int /\ hi \in Int
  BY <1>1, Sizes
<1>8. d \in Int
  <2> HIDE DEF lo, hi
  <2> QED BY <1>1, <1>7 DEF S!Least, S!Most
<1>9. P!clampAxis(W, pos, other, isX, speed)
      = IF lo > hi THEN pos ELSE pos + P!Big(P!Small(d, speed), -speed)
  <2> HIDE DEF lo, hi, d
  <2> QED BY <1>5, <1>6 DEF P!clampAxis, TileOf, Far
<1>10. P!Big(P!Small(d, speed), -speed) = S!Limit(d, speed)
  <2> HIDE DEF d
  <2> QED BY <1>8, LimitSame
<1> HIDE DEF lo, hi, d
<1> QED BY <1>4, <1>9, <1>10

\* They line up alike.
LEMMA CenterSame ==
  ASSUME NEW isX \in BOOLEAN, NEW move, NEW side, NEW W,
         Inside(move, isX), Inside(side, ~isX), NEW step, NEW speed \in 0 .. Tile - 1
  PROVE  P!centerAxis(W, move, side, step, isX, speed) = S!CenterAxis(W, move, side, step, isX, speed)
<1> DEFINE edge == IF step > 0 THEN move + speed + Half ELSE move - speed - Half
           ahead == TileOf(edge)
           row == TileOf(side)
           d == row * Tile + Tile \div 2 - side
<1>1. move \in Nat /\ edge \in Nat
  BY InsideIs, Sizes
<1>2. ahead \in Nat
  BY <1>1, DivIs
<1>3. side \in Nat /\ side - Half \in Nat /\ side + Half \in Nat /\ row \in Nat
  <2>1. \A isY \in BOOLEAN : Inside(side, isY) =>
          side \in Nat /\ side - Half \in Nat /\ side + Half \in Nat /\ TileOf(side) \in Nat
    BY InsideIs
  <2>2. (~isX) \in BOOLEAN
    OBVIOUS
  <2> QED BY <2>1, <2>2, Zenon
<1>4. /\ S!Quot(edge, Tile) = ahead /\ S!Quot(side, Tile) = row
      /\ S!Quot(side - Half, Tile) = TileOf(side - Half)
      /\ S!Quot(side + Half, Tile) = TileOf(side + Half)
  BY <1>1, <1>3, QuotIs
<1> DEFINE pull == /\ step # 0
                   /\ S!AnySolid(W, ahead, Span(side), isX)
                   /\ ~S!AnySolid(W, ahead, {row}, isX)
           rows == [first |-> TileOf(side - Half), last |-> TileOf(side + Half)]
           mid == [first |-> row, last |-> row]
<1>5. S!CenterAxis(W, move, side, step, isX, speed) = IF pull THEN side + S!Limit(d, speed) ELSE side
  BY <1>4 DEF S!CenterAxis, Span
<1>6. P!Across(W, ahead, rows, isX) <=> S!AnySolid(W, ahead, Span(side), isX)
  <2>1. rows.first .. rows.last = Span(side) /\ Span(side) \in SUBSET Int
    BY DEF Span
  <2> HIDE DEF rows
  <2> QED BY <1>2, <2>1, AcrossSame
<1>7. P!Across(W, ahead, mid, isX) <=> S!AnySolid(W, ahead, {row}, isX)
  <2>1. mid.first .. mid.last = {row} /\ {row} \in SUBSET Int
    <3>1. mid.first = row /\ mid.last = row
      OBVIOUS
    <3> HIDE DEF row, mid
    <3>2. \A k \in Nat : k .. k = {k}
      OBVIOUS
    <3> QED BY <1>3, <3>1, <3>2
  <2> HIDE DEF mid, row, ahead
  <2>2. \A os \in SUBSET Int : mid.first .. mid.last = os =>
          (P!Across(W, ahead, mid, isX) <=> S!AnySolid(W, ahead, os, isX))
    BY <1>2, AcrossSame
  <2> QED BY <2>1, <2>2
<1>8. P!centerAxis(W, move, side, step, isX, speed)
      = IF pull THEN side + P!Big(P!Small(d, speed), -speed) ELSE side
  BY <1>6, <1>7 DEF P!centerAxis, TileOf
<1>9. P!Big(P!Small(d, speed), -speed) = S!Limit(d, speed)
  <2>1. d \in Int /\ speed \in Nat
    BY <1>3, Sizes
  <2> HIDE DEF d
  <2> QED BY <2>1, LimitSame
<1> HIDE DEF pull, d
<1> QED BY <1>5, <1>8, <1>9

\* No speed takes a body a whole tile.
LEMMA SpeedIs ==
  ASSUME NEW level \in 0 .. MaxLevel, NEW t \in BOOLEAN
  PROVE  S!Speed(level, t) \in 0 .. Tile - 1
<1>1. level \in Nat /\ MaxLevel - level \in Nat /\ MoveStep \in Nat /\ MoveBase \in Nat
  BY Sizes
<1>2. (MaxLevel - level) * MoveStep >= 0 /\ level * MoveStep >= 0
  <2>1. \A a, b \in Nat : a * b >= 0
    OBVIOUS
  <2> QED BY <1>1, <2>1
<1>3. level * MoveStep \in Nat
  BY <1>1
<1>4. MoveBase + level * MoveStep \in 0 .. Tile - 1
  <2>1. MoveBase + level * MoveStep <= MoveBase + MaxLevel * MoveStep
    BY <1>1, <1>2, Sizes
  <2> QED BY <1>1, <1>3, <2>1, Sizes
<1>5. TrapSpeed \in 0 .. Tile - 1
  BY Sizes
<1> QED BY <1>4, <1>5 DEF S!Speed

\* What is proved of a move.
Agreed(at, W, d, level, t) ==
  LET m == S!MovePlayer(W, at, d, level, t)
      p == [P!Setup EXCEPT !.live = TRUE, !.px = at.x, !.py = at.y]
  IN  /\ Clear(m.x, m.y, TRUE)
      /\ Predicted(P!tick(p, W, d.x, d.y, level, t)) = [x |-> m.x, y |-> m.y]
      /\ m = [x |-> m.x, y |-> m.y]

\* A whole move: the body stays out of the walls, and both copies take it to one place.
LEMMA MoveIs ==
  ASSUME NEW at, Clear(at.x, at.y, TRUE), NEW W, Walls \subseteq W,
         NEW d \in Dirs, NEW level \in 0 .. MaxLevel, NEW t \in BOOLEAN
  PROVE  Agreed(at, W, d, level, t)
<1> DEFINE v == S!Speed(level, t)
           diag == IF d.x # 0 /\ d.y # 0 THEN S!Quot(v * 181, 256) ELSE v
           y0 == IF d.y = 0 THEN S!CenterAxis(W, at.x, at.y, d.x * v, TRUE, v) ELSE at.y
           x0 == IF d.x = 0 THEN S!CenterAxis(W, at.y, at.x, d.y * v, FALSE, v) ELSE at.x
           x1 == S!StepAxis(W, x0, y0, d.x * diag, TRUE)
           y1 == S!StepAxis(W, y0, x1, d.y * diag, FALSE)
           y2 == S!ClampAxis(W, y1, x1, FALSE, v)
           x2 == S!ClampAxis(W, x1, y2, TRUE, v)
           m == S!MovePlayer(W, at, d, level, t)
           p == [P!Setup EXCEPT !.live = TRUE, !.px = at.x, !.py = at.y]
           q == P!tick(p, W, d.x, d.y, level, t)
<1>1. d.x \in -1 .. 1 /\ d.y \in -1 .. 1
  BY DEF Dirs
<1>2. v \in 0 .. Tile - 1 /\ v \in Nat
  BY SpeedIs, Sizes
<1>3. diag \in 0 .. Tile - 1 /\ diag = IF d.x # 0 /\ d.y # 0 THEN (v * 181) \div 256 ELSE v
  <2> HIDE DEF v
  <2>1. (v * 181) \div 256 \in 0 .. Tile - 1 /\ v * 181 >= 0
    BY <1>2, Sizes
  <2>2. S!Quot(v * 181, 256) = (v * 181) \div 256
    BY <2>1 DEF S!Quot
  <2> QED BY <1>2, <2>1, <2>2
<1>4. m = [x |-> x2, y |-> y2]
  BY DEF S!MovePlayer
<1>5. d.x * v \in Int /\ d.y * v \in Int
  <2> HIDE DEF v
  <2> QED BY <1>1, <1>2
<1>6. /\ d.x * diag \in Int /\ -Tile < d.x * diag /\ d.x * diag < Tile
      /\ d.y * diag \in Int /\ -Tile < d.y * diag /\ d.y * diag < Tile
  <2> HIDE DEF diag
  <2>1. \A k \in -1 .. 1 : k * diag \in Int /\ -Tile < k * diag /\ k * diag < Tile
    <3> SUFFICES ASSUME NEW k \in -1 .. 1
                 PROVE  k * diag \in Int /\ -Tile < k * diag /\ k * diag < Tile
      OBVIOUS
    <3>1. k = -1 \/ k = 0 \/ k = 1
      OBVIOUS
    <3>2. CASE k = -1
      BY <1>3, <3>2, Sizes
    <3>3. CASE k = 0
      BY <1>3, <3>3, Sizes
    <3>4. CASE k = 1
      BY <1>3, <3>4, Sizes
    <3> QED BY <3>1, <3>2, <3>3, <3>4
  <2> QED BY <1>1, <2>1
<1> HIDE DEF v, diag
<1>7. Clear(x0, y0, TRUE)
  <2>1. CASE d.y = 0 /\ d.x # 0
    <3>1. x0 = at.x /\ y0 = S!CenterAxis(W, at.x, at.y, d.x * v, TRUE, v)
      BY <2>1
    <3> HIDE DEF x0, y0
    <3> QED BY <1>2, <3>1, CenterClear
  <2>2. CASE d.x = 0 /\ d.y # 0
    <3>1. y0 = at.y /\ x0 = S!CenterAxis(W, at.y, at.x, d.y * v, FALSE, v)
      BY <2>2
    <3>2. Clear(at.y, at.x, ~TRUE)
      BY OtherWay
    <3> HIDE DEF x0, y0
    <3>3. Clear(y0, x0, FALSE)
      BY <1>2, <3>1, <3>2, CenterClear
    <3>4. Clear(x0, y0, ~FALSE)
      BY <3>3, OtherWay
    <3> QED BY <3>4
  <2>3. CASE d.x = 0 /\ d.y = 0
    <3>1. d.x * v = 0 /\ d.y * v = 0
      BY <1>2, <2>3
    <3>2. x0 = at.x /\ y0 = at.y
      BY <2>3, <3>1 DEF S!CenterAxis
    <3> QED BY <3>2
  <2>4. CASE d.x # 0 /\ d.y # 0
    BY <2>4
  <2> QED BY <2>1, <2>2, <2>3, <2>4
<1> HIDE DEF x0, y0
<1>8. Clear(x1, y0, TRUE)
  BY <1>6, <1>7, StepClear
<1>9. Clear(y0, x1, FALSE) /\ Clear(y1, x1, FALSE)
  <2>1. Clear(y0, x1, ~TRUE)
    BY <1>8, OtherWay
  <2> HIDE DEF x1
  <2> QED BY <1>6, <2>1, StepClear
<1>10. Clear(y2, x1, FALSE)
  <2> HIDE DEF y1, x1
  <2> QED BY <1>2, <1>9, ClampClear
<1>11. Clear(x1, y2, TRUE) /\ Clear(x2, y2, TRUE)
  <2> HIDE DEF y2, x1
  <2>1. Clear(x1, y2, ~FALSE)
    BY <1>10, OtherWay
  <2> QED BY <1>2, <2>1, ClampClear
<1>12. P!stepAxis(W, x0, y0, d.x * diag, TRUE) = x1
  BY <1>6, <1>7, StepSame DEF Clear
<1>13. P!stepAxis(W, y0, x1, d.y * diag, FALSE) = y1
  <2> HIDE DEF x1
  <2> QED BY <1>6, <1>9, StepSame DEF Clear
<1>14. P!clampAxis(W, y1, x1, FALSE, v) = y2
  <2> HIDE DEF x1, y1
  <2> QED BY <1>2, <1>9, ClampSame DEF Clear
<1>15. P!clampAxis(W, x1, y2, TRUE, v) = x2
  <2> HIDE DEF x1, y2
  <2> QED BY <1>2, <1>11, ClampSame DEF Clear
<1> DEFINE lined == CASE d.x # 0 /\ d.y = 0 -> <<p.px, P!centerAxis(W, p.px, p.py, d.x * v, TRUE, v)>>
                      [] d.y # 0 /\ d.x = 0 -> <<P!centerAxis(W, p.py, p.px, d.y * v, FALSE, v), p.py>>
                      [] OTHER -> <<p.px, p.py>>
<1>16. p.live = TRUE /\ p.px = at.x /\ p.py = at.y
  BY DEF P!Setup
<1>17. lined = <<x0, y0>>
  <2> HIDE DEF p
  <2>1. P!centerAxis(W, at.x, at.y, d.x * v, TRUE, v) = S!CenterAxis(W, at.x, at.y, d.x * v, TRUE, v)
    BY <1>2, CenterSame DEF Clear
  <2>2. P!centerAxis(W, at.y, at.x, d.y * v, FALSE, v) = S!CenterAxis(W, at.y, at.x, d.y * v, FALSE, v)
    <3>1. Inside(at.y, FALSE) /\ Inside(at.x, ~FALSE)
      BY DEF Clear
    <3>2. \A isY \in BOOLEAN : Inside(at.y, isY) /\ Inside(at.x, ~isY) =>
            P!centerAxis(W, at.y, at.x, d.y * v, isY, v) = S!CenterAxis(W, at.y, at.x, d.y * v, isY, v)
      BY <1>2, CenterSame
    <3> QED BY <3>1, <3>2, Zenon
  <2>3. CASE d.y = 0 /\ d.x # 0
    BY <1>16, <2>1, <2>3 DEF x0, y0
  <2>4. CASE d.x = 0 /\ d.y # 0
    BY <1>16, <2>2, <2>4 DEF x0, y0
  <2>5. CASE d.x = 0 /\ d.y = 0
    <3>1. d.x * v = 0 /\ d.y * v = 0
      BY <1>2, <2>5
    <3>2. x0 = at.x /\ y0 = at.y
      BY <2>5, <3>1 DEF S!CenterAxis, x0, y0
    <3> QED BY <1>16, <2>5, <3>2
  <2>6. CASE d.x # 0 /\ d.y # 0
    BY <1>16, <2>6 DEF x0, y0
  <2> QED BY <2>3, <2>4, <2>5, <2>6
<1> HIDE DEF p, x1, y1, y2, x2, lined
<1>18. q = [p EXCEPT !.px = x2, !.py = y2]
  <2>1. (IF t THEN TrapSpeed ELSE MoveBase + level * MoveStep) = v
    BY DEF v, S!Speed
  <2>2. lined[1] = x0 /\ lined[2] = y0
    BY <1>17
  <2>3. (IF d.x # 0 /\ d.y # 0 THEN (v * 181) \div 256 ELSE v) = diag
    BY <1>3
  <2> QED BY <1>12, <1>13, <1>14, <1>15, <1>16, <2>1, <2>2, <2>3 DEF P!tick, lined
<1>19. q.px = x2 /\ q.py = y2
  BY <1>18 DEF p, P!Setup
<1> HIDE DEF q, m
<1>20. Predicted(q) = [x |-> m.x, y |-> m.y]
  BY <1>4, <1>19 DEF Predicted
<1>21. Clear(m.x, m.y, TRUE)
  BY <1>4, <1>11
<1> QED BY <1>4, <1>20, <1>21 DEF Agreed, q, m, p
-----------------------------------------------------------------------------
(* The body.                                                                 *)

\* The body touches no wall.
BodyInv ==
  /\ body = [x |-> body.x, y |-> body.y]
  /\ Clear(body.x, body.y, TRUE)
  /\ trapped \in BOOLEAN

\* The middle of a tile inside the border reaches no other tile.
LEMMA MiddleIs ==
  ASSUME NEW isX \in BOOLEAN, NEW t \in Int, 1 <= t, t <= Far(isX) - 2
  PROVE  LET c == t * Tile + Tile \div 2
         IN  Inside(c, isX) /\ Span(c) = {t}
<1> DEFINE h == Tile \div 2
           c == t * Tile + h
           f == Far(isX)
<1>1. h \in Nat /\ Half <= h /\ h + Half < Tile /\ f \in Nat
  BY Sizes DEF Far
<1> HIDE DEF h, f
<1>2. (t - 1) * Tile >= 0 /\ (f - 2 - t) * Tile >= 0
  <2>1. t - 1 \in Nat /\ f - 2 - t \in Nat /\ Tile \in Nat
    BY <1>1, Sizes DEF f
  <2>2. \A a, b \in Nat : a * b >= 0
    OBVIOUS
  <2> QED BY <2>1, <2>2
<1>3. c \in Nat /\ Tile + Half <= c /\ c <= (f - 1) * Tile - Half - 1
  BY <1>1, <1>2, Sizes
<1>4. Inside(c, isX)
  <2> HIDE DEF c
  <2>1. Tile + Half \in Int /\ (f - 1) * Tile - Half - 1 \in Int
    BY <1>1, Sizes
  <2> QED BY <1>3, <2>1 DEF Inside, f
<1>5. /\ c - Half \in Nat /\ c + Half \in Nat
      /\ t * Tile <= c - Half /\ c + Half < (t + 1) * Tile
  BY <1>1, <1>3, Sizes
<1> HIDE DEF c
<1>6. t <= TileOf(c - Half) /\ TileOf(c - Half) \in Nat
  BY <1>5, TileLeast, DivIs
<1>7. TileOf(c + Half) <= t /\ TileOf(c + Half) \in Nat
  <2>1. t + 1 \in Int /\ ~((t + 1) * Tile <= c + Half)
    BY <1>5, Sizes
  <2>2. ~(t + 1 <= TileOf(c + Half)) /\ TileOf(c + Half) \in Nat
    BY <1>5, <2>1, TileLeast, DivIs
  <2> QED BY <2>2
<1>8. TileOf(c - Half) <= TileOf(c) /\ TileOf(c) <= TileOf(c + Half)
  BY <1>4, InsideIs
<1>9. TileOf(c) \in Nat
  BY <1>4, InsideIs
<1>10. TileOf(c - Half) = t /\ TileOf(c + Half) = t
  BY <1>6, <1>7, <1>8, <1>9
<1>11. Span(c) = t .. t
  BY <1>10 DEF Span
<1>12. t .. t = {t}
  OBVIOUS
<1> QED BY <1>4, <1>11, <1>12 DEF c, h

\* Where the player starts no wall is touched.
LEMMA SpawnClear == Clear(Centre(Spawn).x, Centre(Spawn).y, TRUE)
<1> DEFINE a == Spawn[1]
           b == Spawn[2]
           cx == a * Tile + Tile \div 2
           cy == b * Tile + Tile \div 2
<1>1. Spawn = <<a, b>> /\ a \in 0 .. MapW - 1 /\ b \in 0 .. MapH - 1 /\ <<a, b>> \notin Walls
  BY PlayAssumption
<1>2. a # 0 /\ a # MapW - 1 /\ b # 0 /\ b # MapH - 1
  BY <1>1, Border
<1>3. a \in Int /\ b \in Int /\ 1 <= a /\ a <= MapW - 2 /\ 1 <= b /\ b <= MapH - 2
  <2> HIDE DEF a, b
  <2> QED BY <1>1, <1>2, Sizes
<1>4. Far(TRUE) = MapW /\ Far(FALSE) = MapH
  BY DEF Far
<1> HIDE DEF a, b
<1>5. Inside(cx, TRUE) /\ Span(cx) = {a}
  BY <1>3, <1>4, MiddleIs
<1>6. Inside(cy, FALSE) /\ Span(cy) = {b}
  BY <1>3, <1>4, MiddleIs
<1>7. Centre(Spawn).x = cx /\ Centre(Spawn).y = cy
  BY DEF Centre, a, b
<1> HIDE DEF cx, cy
<1>8. Clear(cx, cy, TRUE)
  BY <1>1, <1>5, <1>6 DEF Clear, Wall
<1> QED BY <1>7, <1>8

\* A player who is seated stands there.
LEMMA SeatedClear == Seated => BodyInv'
<1> SUFFICES ASSUME Seated PROVE BodyInv'
  OBVIOUS
<1>1. body' = Centre(Spawn) /\ trapped' = FALSE
  BY DEF Seated
<1>2. Centre(Spawn) = [x |-> Centre(Spawn).x, y |-> Centre(Spawn).y]
  BY DEF Centre
<1>3. Clear(body'.x, body'.y, TRUE)
  BY <1>1, SpawnClear
<1>4. body' = [x |-> body'.x, y |-> body'.y]
  BY <1>1, <1>2
<1>5. trapped' \in BOOLEAN
  BY <1>1
<1>6. Clear(body.x, body.y, TRUE)'
  BY <1>3 DEF Clear, Inside, Far, Span, TileOf, Wall
<1> QED BY <1>4, <1>5, <1>6 DEF BodyInv

\* The player starts so.
LEMMA BodyInit == InitPlay => BodyInv
<1> SUFFICES ASSUME InitPlay PROVE BodyInv
  OBVIOUS
<1>1. body = Centre(Spawn) /\ trapped = FALSE
  BY DEF InitPlay
<1>2. Centre(Spawn) = [x |-> Centre(Spawn).x, y |-> Centre(Spawn).y]
  BY DEF Centre
<1> QED BY <1>1, <1>2, SpawnClear DEF BodyInv

\* Only a seat and a tick move the body.
LEMMA BodyStep == KeysInv /\ BodyInv /\ [PlayNext]_playVars => BodyInv'
<1> SUFFICES ASSUME KeysInv, BodyInv, [PlayNext]_playVars PROVE BodyInv'
  OBVIOUS
<1>1. CASE UNCHANGED <<body, trapped>>
  BY <1>1 DEF BodyInv, Clear, Inside, Far, Span, TileOf, Wall
<1>2. CASE Seated
  BY <1>2, SeatedClear
<1>3. CASE ServerTick
  <2>1. SetInput \in Dirs
    BY DEF SetInput, KeysInv
  <2>2. PICK caught \in IF playing THEN BOOLEAN ELSE {trapped} : trapped' = caught /\ body' = Moved
    BY <1>3 DEF ServerTick
  <2>3. trapped' \in BOOLEAN
    BY <2>2 DEF BodyInv
  <2> DEFINE m == S!MovePlayer(Walls \cup bubble, body, SetInput, 0, trapped)
  <2>4. Clear(m.x, m.y, TRUE) /\ m = [x |-> m.x, y |-> m.y]
    <3>1. Walls \subseteq Walls \cup bubble /\ 0 \in 0 .. MaxLevel
      BY Sizes
    <3>2. Clear(body.x, body.y, TRUE) /\ trapped \in BOOLEAN
      BY DEF BodyInv
    <3>3. Agreed(body, Walls \cup bubble, SetInput, 0, trapped)
      BY <2>1, <3>1, <3>2, MoveIs
    <3> QED BY <3>3 DEF Agreed
  <2>5. Moved = m \/ Moved = body
    BY DEF Moved
  <2> HIDE DEF m
  <2>6. /\ Clear(Moved.x, Moved.y, TRUE)
        /\ Moved = [x |-> Moved.x, y |-> Moved.y]
    BY <2>4, <2>5 DEF BodyInv
  <2>7. /\ Clear(body'.x, body'.y, TRUE)
        /\ body' = [x |-> body'.x, y |-> body'.y]
    BY <2>2, <2>6
  <2>8. Clear(body.x, body.y, TRUE)'
    BY <2>7 DEF Clear, Inside, Far, Span, TileOf, Wall
  <2> QED BY <2>3, <2>7, <2>8 DEF BodyInv
<1>4. CASE \E k \in Key : KeyDown(k) \/ TouchDown(k) \/ KeyUp(k)
  BY <1>1, <1>4 DEF KeyDown, TouchDown, KeyUp, server
<1>5. CASE Blur \/ Close \/ OnWelcome \/ OnSnapshot \/ PredictFrame \/ PictureFrame \/ StartPlay \/ PlaceBubble
  BY <1>1, <1>5 DEF Blur, Close, OnWelcome, OnSnapshot, PredictFrame, PictureFrame, StartPlay,
                    PlaceBubble, server
<1>6. CASE Connect \/ NewRound
  BY <1>2, <1>6 DEF Connect, NewRound
<1>7. CASE UNCHANGED playVars
  BY <1>1, <1>7 DEF playVars, server
<1> QED BY <1>3, <1>4, <1>5, <1>6, <1>7 DEF PlayNext

\* Both hold all the time.
LEMMA BodyAlways == PlaySpec => [](KeysInv /\ BodyInv)
<1>1. InitPlay => KeysInv /\ BodyInv
  BY KeysInit, BodyInit
<1>2. KeysInv /\ BodyInv /\ [PlayNext]_playVars => (KeysInv /\ BodyInv)'
  BY KeysStep, BodyStep
<1> QED BY <1>1, <1>2, PTL DEF PlaySpec

\* No part of the body is ever inside a wall (Movement.h, StepAxis and the rest), whatever
\* the size of the board and its tiles, the speeds, and the bubbles in the way.
THEOREM WallsAlways == PlaySpec => []OutOfWalls
<1>1. KeysInv /\ BodyInv => OutOfWalls
  <2> SUFFICES ASSUME BodyInv PROVE OutOfWalls
    OBVIOUS
  <2>1. Clear(body.x, body.y, TRUE)
    BY DEF BodyInv
  <2>2. S!BodySpanAxis(body.x) = Span(body.x) /\ S!BodySpanAxis(body.y) = Span(body.y)
    <3>1. Inside(body.x, TRUE) /\ Inside(body.y, FALSE)
      BY <2>1 DEF Clear
    <3> QED BY <3>1, SpanIs
  <2>3. \A t \in Span(body.x), o \in Span(body.y) : <<t, o>> \notin Walls
    BY <2>1 DEF Clear, Wall
  <2> QED BY <2>2, <2>3 DEF OutOfWalls, S!Touched
<1> QED BY <1>1, BodyAlways, PTL

\* The two copies of the rules agree (Movement.h and predict.js), wherever the body gets to.
THEOREM StepsAgree == PlaySpec => []SameStep
<1>1. KeysInv /\ BodyInv => SameStep
  <2> SUFFICES ASSUME KeysInv, BodyInv, NEW level \in 0 .. MaxLevel
               PROVE  Predicted(P!tick(There, Walls \cup bubble, dir.x, dir.y, level, trapped))
                      = S!MovePlayer(Walls \cup bubble, body, dir, level, trapped)
    BY DEF SameStep
  <2>1. /\ Walls \subseteq Walls \cup bubble /\ dir \in Dirs /\ trapped \in BOOLEAN
        /\ Clear(body.x, body.y, TRUE)
    BY DEF KeysInv, BodyInv
  <2> DEFINE W == Walls \cup bubble
             m == S!MovePlayer(W, body, dir, level, trapped)
             p == [P!Setup EXCEPT !.live = TRUE, !.px = body.x, !.py = body.y]
  <2>2. /\ Predicted(P!tick(p, W, dir.x, dir.y, level, trapped)) = [x |-> m.x, y |-> m.y]
        /\ m = [x |-> m.x, y |-> m.y]
    <3>1. Agreed(body, W, dir, level, trapped)
      BY <2>1, MoveIs
    <3> QED BY <3>1 DEF Agreed
  <2>3. There = p
    BY DEF There
  <2> HIDE DEF m
  <2> QED BY <2>2, <2>3 DEF m
<1> QED BY <1>1, BodyAlways, PTL

-----------------------------------------------------------------------------
(* The pictures.                                                             *)

\* What a key stands for: the picture that is painted under it, whenever it is.
DotsOf(key) ==
    IF key[1] = "M" THEN <<<<"mark", key[2]>>, key[4], key[3]>>
    ELSE <<key[2], <<key[1], key[3]>>, key[4]>>

PropOf(key) ==
    IF key[1] = "W"
    THEN <<"wall", key[4], <<key[3], <<"w", key[2]>>, key[5]>>, key[6], Round(42 * key[6], 100)>>
    ELSE <<"crate", IF key[4] THEN <<"bands", key[6]>> ELSE <<"none">>,
           <<key[3], <<"c", key[2]>>, key[5]>>, key[6], Round(34 * key[6], 100)>>

SpriteOf(key) == IF key[1] = "B" THEN <<"fx", key[2], key[3]>> ELSE <<"tile", key[2], key[3]>>

Sheet == {"tile", "prop", "sprite", "bubble", "dot", "glyph"}

PictureOf(sheet, key) ==
    IF sheet = "tile" THEN DotsOf(key)
    ELSE IF sheet = "prop" THEN PropOf(key)
    ELSE IF sheet = "sprite" THEN SpriteOf(key)
    ELSE IF sheet = "bubble" THEN <<"bubble", key[1], key[2], key[3]>>
    ELSE key

\* Every cache holds under a key what the key stands for.
Faithful(a) ==
    /\ DOMAIN a = Sheet
    /\ \A sheet \in Sheet : \A key \in DOMAIN a[sheet] : a[sheet][key] = PictureOf(sheet, key)

\* A picture that is kept, or painted and kept, is the one the key stands for.
LEMMA BakeIs ==
  ASSUME NEW a, Faithful(a), NEW sheet \in Sheet, NEW key, NEW cv, cv = PictureOf(sheet, key)
  PROVE  Faithful(Bake(a, sheet, key, cv).art) /\ Bake(a, sheet, key, cv).cv = cv
<1>1. CASE Kept(a, sheet, key)
  BY <1>1 DEF Bake, Kept, Faithful
<1>2. CASE ~Kept(a, sheet, key)
  <2> DEFINE more == With(a[sheet], key, cv)
             kept == IF Cardinality(DOMAIN more) > CacheMax[sheet] THEN <<>> ELSE more
             new == [a EXCEPT ![sheet] = kept]
  <2>1. Bake(a, sheet, key, cv).art = new /\ Bake(a, sheet, key, cv).cv = cv
    BY <1>2 DEF Bake, Keep
  <2>2. \A k \in DOMAIN more : more[k] = PictureOf(sheet, k)
    BY DEF Faithful, With
  <2>3. \A k \in DOMAIN kept : kept[k] = PictureOf(sheet, k)
    <3> HIDE DEF more
    <3> QED BY <2>2
  <2>4. DOMAIN new = Sheet /\ new[sheet] = kept /\ \A s \in Sheet : s # sheet => new[s] = a[s]
    <3> HIDE DEF kept
    <3> QED BY DEF Faithful
  <2> HIDE DEF new, kept
  <2>5. Faithful(new)
    BY <2>3, <2>4 DEF Faithful
  <2> QED BY <2>1, <2>5
<1> QED BY <1>1, <1>2

\* The dots of a pattern follow from what it is of, its kind, the place and the size of a dot.
LEMMA TileIs ==
  ASSUME NEW a, Faithful(a), NEW what \in {"w", "c", "f"}, NEW kind
  PROVE  Faithful(bakeTile(a, what, kind).art) /\ bakeTile(a, what, kind).cv = <<kind, tonePal(what), dp>>
<1> DEFINE key == <<what, kind, place, dp>>
           cv == <<kind, tonePal(what), dp>>
<1>1. PictureOf("tile", key) = cv
  <2>1. key[1] = what /\ key[2] = kind /\ key[3] = place /\ key[4] = dp /\ what # "M"
    OBVIOUS
  <2> HIDE DEF key
  <2> QED BY <2>1 DEF PictureOf, DotsOf, tonePal
<1>2. bakeTile(a, what, kind) = Bake(a, "tile", key, cv)
  BY DEF bakeTile
<1> HIDE DEF key, cv
<1>3. "tile" \in Sheet
  BY DEF Sheet
<1>4. Faithful(Bake(a, "tile", key, cv).art) /\ Bake(a, "tile", key, cv).cv = cv
  BY <1>1, <1>3, BakeIs
<1> QED BY <1>2, <1>4 DEF cv

\* A mark follows from its place, its side and the size of a dot.
LEMMA MarkIs ==
  ASSUME NEW a, Faithful(a), NEW flip
  PROVE  Faithful(bakeMark2(a, flip).art) /\ bakeMark2(a, flip).cv = <<markPal, flip, dp>>
<1> DEFINE key == <<"M", place, dp, flip>>
           cv == <<markPal, flip, dp>>
           new == [a EXCEPT !.tile = With(@, key, cv)]
<1>1. PictureOf("tile", key) = cv
  <2>1. key[1] = "M" /\ key[2] = place /\ key[3] = dp /\ key[4] = flip
    OBVIOUS
  <2> HIDE DEF key
  <2> QED BY <2>1 DEF PictureOf, DotsOf, markPal
<1>2. bakeMark2(a, flip) = IF Kept(a, "tile", key) THEN [art |-> a, cv |-> a.tile[key]]
                           ELSE [art |-> new, cv |-> cv]
  BY DEF bakeMark2
<1> HIDE DEF key, cv
<1>3. CASE Kept(a, "tile", key)
  <2>1. a.tile[key] = cv
    BY <1>1, <1>3 DEF Kept, Faithful, Sheet
  <2>2. bakeMark2(a, flip) = [art |-> a, cv |-> cv]
    BY <1>2, <1>3, <2>1
  <2> QED BY <2>2 DEF cv
<1>4. CASE ~Kept(a, "tile", key)
  <2> DEFINE f == With(a.tile, key, cv)
  <2>1. DOMAIN a = Sheet /\ \A k \in DOMAIN a.tile : a.tile[k] = PictureOf("tile", k)
    BY DEF Faithful, Sheet
  <2>2. \A k \in DOMAIN f : f[k] = PictureOf("tile", k)
    BY <1>1, <2>1 DEF With
  <2>3. DOMAIN new = Sheet /\ new.tile = f /\ \A s \in Sheet : s # "tile" => new[s] = a[s]
    <3>1. new = [a EXCEPT !["tile"] = f]
      OBVIOUS
    <3> HIDE DEF f, new
    <3> QED BY <2>1, <3>1 DEF Sheet
  <2> HIDE DEF f, new
  <2>4. Faithful(new)
    BY <2>2, <2>3 DEF Faithful
  <2>5. bakeMark2(a, flip) = [art |-> new, cv |-> cv]
    BY <1>2, <1>4
  <2> QED BY <2>4, <2>5 DEF cv
<1> QED BY <1>3, <1>4

\* A wall's picture has the size in its key, and the dots of its pattern are those of the place.
LEMMA WallIs ==
  ASSUME NEW a, Faithful(a), NEW kind, NEW m
  PROVE  /\ Faithful(bakeWall(a, kind, m).art)
         /\ bakeWall(a, kind, m).cv = <<"wall", m, <<kind, tonePal("w"), dp>>, ts, WH>>
<1> DEFINE key == WallKey(kind, m)
           top == bakeTile(a, "w", kind)
           cv == <<"wall", m, top.cv, ts, WH>>
           kept == Kept(a, "prop", key)
<1>1. Faithful(top.art) /\ top.cv = <<kind, tonePal("w"), dp>>
  BY TileIs
<1>2. bakeWall(a, kind, m) = IF kept THEN Bake(a, "prop", key, cv) ELSE Bake(top.art, "prop", key, cv)
  BY DEF bakeWall
<1> HIDE DEF top
<1>3. PictureOf("prop", key) = cv
  <2>1. /\ key[1] = "W" /\ key[2] = place /\ key[3] = kind /\ key[4] = m /\ key[5] = dp
        /\ key[6] = ts
    BY DEF WallKey
  <2> HIDE DEF key
  <2> QED BY <1>1, <2>1 DEF PictureOf, PropOf, WH, tonePal
<1>4. "prop" \in Sheet
  BY DEF Sheet
<1> HIDE DEF key, cv, kept
<1>5. \A b : Faithful(b) => Faithful(Bake(b, "prop", key, cv).art) /\ Bake(b, "prop", key, cv).cv = cv
  BY <1>3, <1>4, BakeIs
<1>6. Faithful(bakeWall(a, kind, m).art) /\ bakeWall(a, kind, m).cv = cv
  <2>1. CASE kept
    BY <1>2, <1>5, <2>1
  <2>2. CASE ~kept
    BY <1>1, <1>2, <1>5, <2>2
  <2> QED BY <2>1, <2>2
<1> QED BY <1>1, <1>6 DEF cv

\* So has a box's, with or without bands.
LEMMA CrateIs ==
  ASSUME NEW a, Faithful(a), NEW kind, NEW box \in BOOLEAN
  PROVE  /\ Faithful(bakeCrate(a, kind, box).art)
         /\ bakeCrate(a, kind, box).cv = <<"crate", paintBands(box), <<kind, tonePal("c"), dp>>, ts, CH>>
<1> DEFINE key == <<"C", place, kind, box, dp, ts>>
           top == bakeTile(a, "c", kind)
           cv == <<"crate", paintBands(box), top.cv, ts, CH>>
           kept == Kept(a, "prop", key)
<1>1. Faithful(top.art) /\ top.cv = <<kind, tonePal("c"), dp>>
  BY TileIs
<1>2. bakeCrate(a, kind, box) = IF kept THEN Bake(a, "prop", key, cv) ELSE Bake(top.art, "prop", key, cv)
  BY DEF bakeCrate
<1> HIDE DEF top
<1>3. PictureOf("prop", key) = cv
  <2>1. /\ key[1] = "C" /\ key[2] = place /\ key[3] = kind /\ key[4] = box /\ key[5] = dp
        /\ key[6] = ts
    OBVIOUS
  <2>2. "C" # "W"
    OBVIOUS
  <2> HIDE DEF key
  <2> QED BY <1>1, <2>1, <2>2 DEF PictureOf, PropOf, CH, tonePal, paintBands
<1>4. "prop" \in Sheet
  BY DEF Sheet
<1> HIDE DEF key, cv, kept
<1>5. \A b : Faithful(b) => Faithful(Bake(b, "prop", key, cv).art) /\ Bake(b, "prop", key, cv).cv = cv
  BY <1>3, <1>4, BakeIs
<1>6. Faithful(bakeCrate(a, kind, box).art) /\ bakeCrate(a, kind, box).cv = cv
  <2>1. CASE kept
    BY <1>2, <1>5, <2>1
  <2>2. CASE ~kept
    BY <1>1, <1>2, <1>5, <2>2
  <2> QED BY <2>1, <2>2
<1> QED BY <1>1, <1>6 DEF cv

\* Sprites follow from the picture's name and their height, or the size of a cell.
LEMMA SpriteIs ==
  ASSUME NEW a, Faithful(a), NEW name, NEW h
  PROVE  /\ Faithful(bakeFromAtlas(a, name, h).art) /\ bakeFromAtlas(a, name, h).cv = <<"fx", name, h>>
         /\ Faithful(bakeTileSprite(a, name).art) /\ bakeTileSprite(a, name).cv = <<"tile", name, ts>>
<1>1. "sprite" \in Sheet
  BY DEF Sheet
<1>2. /\ PictureOf("sprite", <<"B", name, h>>) = <<"fx", name, h>>
      /\ PictureOf("sprite", <<"T", name, ts>>) = <<"tile", name, ts>>
  BY DEF PictureOf, SpriteOf
<1>3. LET r == Bake(a, "sprite", <<"B", name, h>>, <<"fx", name, h>>)
      IN  Faithful(r.art) /\ r.cv = <<"fx", name, h>>
  BY <1>1, <1>2, BakeIs
<1>4. LET r == Bake(a, "sprite", <<"T", name, ts>>, <<"tile", name, ts>>)
      IN  Faithful(r.art) /\ r.cv = <<"tile", name, ts>>
  BY <1>1, <1>2, BakeIs
<1> QED BY <1>3, <1>4 DEF bakeFromAtlas, bakeTileSprite

\* Bubbles, dots and glyphs are kept under all that they are painted from.
LEMMA SmallIs ==
  ASSUME NEW a, Faithful(a), NEW x, NEW y, NEW z
  PROVE  /\ Faithful(Bake(a, "bubble", <<x, y, z>>, <<"bubble", x, y, z>>).art)
         /\ Bake(a, "bubble", <<x, y, z>>, <<"bubble", x, y, z>>).cv = <<"bubble", x, y, z>>
         /\ Faithful(drawDots(a, x).art) /\ drawDots(a, x).cv = <<x, dp>>
         /\ Faithful(bakeGlyph(a, x, y, z).art) /\ bakeGlyph(a, x, y, z).cv = <<x, y, z>>
<1>1. {"bubble", "dot", "glyph"} \subseteq Sheet
  BY DEF Sheet
<1>2. /\ PictureOf("bubble", <<x, y, z>>) = <<"bubble", x, y, z>>
      /\ PictureOf("dot", <<x, dp>>) = <<x, dp>>
      /\ PictureOf("glyph", <<x, y, z>>) = <<x, y, z>>
  BY DEF PictureOf
<1>3. LET r == Bake(a, "bubble", <<x, y, z>>, <<"bubble", x, y, z>>)
      IN  Faithful(r.art) /\ r.cv = <<"bubble", x, y, z>>
  BY <1>1, <1>2, BakeIs
<1>4. LET r == Bake(a, "dot", <<x, dp>>, <<x, dp>>) IN Faithful(r.art) /\ r.cv = <<x, dp>>
  BY <1>1, <1>2, BakeIs
<1>5. LET r == Bake(a, "glyph", <<x, y, z>>, <<x, y, z>>) IN Faithful(r.art) /\ r.cv = <<x, y, z>>
  BY <1>1, <1>2, BakeIs
<1> QED BY <1>3, <1>4, <1>5 DEF drawDots, bakeGlyph

-----------------------------------------------------------------------------
(* One after the other.                                                      *)

\* What is painted in turn: the glyphs of a number, the cells of the floor, or what a frame
\* shows.
Paints(how, a, thing) ==
    IF how[1] = "glyph" THEN bakeGlyph(a, thing, how[2], how[3])
    ELSE IF how[1] = "floor" THEN floorCell(a, thing)
    ELSE draw(a, thing)

Then(how, things, before, i) ==
    [art |-> Paints(how, before.art, things[i]).art,
     cv  |-> Append(before.cv, Paints(how, before.art, things[i]).cv)]

Turns(f, how, a, things, n) ==
    f = [i \in 0 .. n |-> IF i = 0 THEN [art |-> a, cv |-> <<>>] ELSE Then(how, things, f[i - 1], i)]

\* There are caches and pictures after each of the things.
LEMMA TurnsExist ==
  ASSUME NEW how, NEW a, NEW things, NEW n \in Nat
  PROVE  \E f : Turns(f, how, a, things, n)
<1> DEFINE Can(k) == \E f : Turns(f, how, a, things, k)
           bad == {k \in 0 .. n : ~Can(k)}
<1>1. Can(0)
  <2> DEFINE f == [i \in 0 .. 0 |-> [art |-> a, cv |-> <<>>]]
  <2>1. \A i \in 0 .. 0 : i = 0
    OBVIOUS
  <2>2. Turns(f, how, a, things, 0)
    BY <2>1 DEF Turns
  <2> QED BY <2>2
<1>2. ASSUME NEW k \in 1 .. n, Can(k - 1) PROVE Can(k)
  <2>1. PICK old : Turns(old, how, a, things, k - 1)
    BY <1>2
  <2> DEFINE Upto(f, i) == IF i = 0 THEN [art |-> a, cv |-> <<>>] ELSE Then(how, things, f[i - 1], i)
             new == [i \in 0 .. k |-> IF i = k THEN Upto(old, k) ELSE old[i]]
  <2>2. \A i \in 0 .. k - 1 : old[i] = Upto(old, i)
    BY <2>1 DEF Turns
  <2> HIDE DEF Upto
  <2>3. \A i \in 0 .. k - 1 : new[i] = old[i]
    OBVIOUS
  <2>4. new[k] = Upto(old, k)
    OBVIOUS
  <2>5. \A i \in 0 .. k : Upto(new, i) = Upto(old, i)
    <3> SUFFICES ASSUME NEW i \in 0 .. k PROVE Upto(new, i) = Upto(old, i)
      OBVIOUS
    <3> HIDE DEF new
    <3>1. CASE i = 0
      BY <3>1 DEF Upto
    <3>2. CASE i # 0
      <4>1. i - 1 \in 0 .. k - 1
        BY <3>2
      <4>2. new[i - 1] = old[i - 1]
        BY <2>3, <4>1
      <4> QED BY <3>2, <4>2 DEF Upto
    <3> QED BY <3>1, <3>2
  <2>6. \A i \in 0 .. k : new[i] = Upto(new, i)
    <3> SUFFICES ASSUME NEW i \in 0 .. k PROVE new[i] = Upto(new, i)
      OBVIOUS
    <3> HIDE DEF new
    <3>1. i = k \/ i \in 0 .. k - 1
      OBVIOUS
    <3> QED BY <2>2, <2>3, <2>4, <2>5, <3>1
  <2>7. new = [i \in 0 .. k |-> new[i]]
    OBVIOUS
  <2>8. new = [i \in 0 .. k |-> Upto(new, i)]
    <3> HIDE DEF new
    <3> QED BY <2>6, <2>7
  <2> HIDE DEF new
  <2>9. Turns(new, how, a, things, k)
    BY <2>8 DEF Turns, Upto
  <2> QED BY <2>9
<1> HIDE DEF Can
<1>3. bad = {}
  <2> SUFFICES ASSUME bad # {} PROVE FALSE
    OBVIOUS
  <2>1. bad \in SUBSET Nat
    OBVIOUS
  <2>2. PICK m \in bad : \A k \in bad : m <= k
    BY <2>1, Least
  <2>3. m # 0 /\ m \in Nat /\ m <= n /\ ~Can(m)
    BY <1>1
  <2>4. m \in 1 .. n /\ m - 1 \in 0 .. n /\ ~(m <= m - 1)
    BY <2>3
  <2>5. Can(m - 1)
    BY <2>2, <2>4
  <2> QED BY <1>2, <2>3, <2>4, <2>5
<1>4. Can(n)
  BY <1>3
<1> QED BY <1>4 DEF Can

\* One more in a row.
LEMMA OneMoreInRow ==
  ASSUME NEW g, NEW k \in Nat \ {0}
  PROVE  Append([i \in 1 .. (k - 1) |-> g[i]], g[k]) = [i \in 1 .. k |-> g[i]]
<1> DEFINE T == {g[i] : i \in 1 .. k}
           s == [i \in 1 .. (k - 1) |-> g[i]]
           t == [i \in 1 .. k |-> g[i]]
<1>1. s \in Seq(T) /\ Len(s) = k - 1 /\ t \in Seq(T) /\ Len(t) = k
  <2>1. k - 1 \in Nat /\ \A i \in 1 .. (k - 1) : g[i] \in T
    OBVIOUS
  <2>2. \A i \in 1 .. k : g[i] \in T
    OBVIOUS
  <2> HIDE DEF T
  <2> QED BY <2>1, <2>2
<1>2. g[k] \in T
  OBVIOUS
<1>3. \A i \in 1 .. (k - 1) : s[i] = g[i]
  OBVIOUS
<1>4. \A i \in 1 .. k : t[i] = g[i]
  OBVIOUS
<1> HIDE DEF T, s, t
<1>5. Append(s, g[k]) \in Seq(T) /\ Len(Append(s, g[k])) = k
  BY <1>1, <1>2
<1>6. \A i \in 1 .. k : Append(s, g[k])[i] = t[i]
  <2> SUFFICES ASSUME NEW i \in 1 .. k PROVE Append(s, g[k])[i] = t[i]
    OBVIOUS
  <2>1. CASE i = k
    BY <1>1, <1>2, <1>4, <2>1
  <2>2. CASE i # k
    <3>1. i \in 1 .. (k - 1)
      BY <2>2
    <3>2. Append(s, g[k])[i] = s[i]
      BY <1>1, <1>2, <3>1
    <3> QED BY <1>3, <1>4, <3>1, <3>2
  <2> QED BY <2>1, <2>2
<1>7. Append(s, g[k]) = t
  BY <1>1, <1>5, <1>6, SeqEqual
<1> QED BY <1>7 DEF s, t

\* If each thing leaves the caches right and looks as it would from empty ones, so do all.
LEMMA TurnsAre ==
  ASSUME NEW how, NEW a, NEW things, NEW n \in Nat, Faithful(a),
         \A b : Faithful(b) => \A i \in 1 .. n :
                    /\ Faithful(Paints(how, b, things[i]).art)
                    /\ Paints(how, b, things[i]).cv = Paints(how, Caches, things[i]).cv,
         NEW f, Turns(f, how, a, things, n)
  PROVE  Faithful(f[n].art) /\ f[n].cv = [i \in 1 .. n |-> Paints(how, Caches, things[i]).cv]
<1> DEFINE g == [i \in 1 .. n |-> Paints(how, Caches, things[i]).cv]
           Good(k) == Faithful(f[k].art) /\ f[k].cv = [i \in 1 .. k |-> g[i]]
           bad == {k \in 0 .. n : ~Good(k)}
<1>1. f[0] = [art |-> a, cv |-> <<>>] /\ \A i \in 1 .. n : f[i] = Then(how, things, f[i - 1], i)
  BY DEF Turns
<1>2. Good(0)
  <2>1. [i \in 1 .. 0 |-> g[i]] = <<>>
    <3> HIDE DEF g
    <3> QED OBVIOUS
  <2> HIDE DEF g
  <2> QED BY <1>1, <2>1
<1>3. ASSUME NEW k \in 1 .. n, Good(k - 1) PROVE Good(k)
  <2> DEFINE b == f[k - 1].art
             d == Paints(how, b, things[k])
  <2>1. Faithful(b) /\ f[k - 1].cv = [i \in 1 .. (k - 1) |-> g[i]]
    BY <1>3
  <2>2. Faithful(d.art) /\ d.cv = g[k]
    BY <2>1
  <2>3. f[k] = [art |-> d.art, cv |-> Append(f[k - 1].cv, d.cv)]
    BY <1>1 DEF Then
  <2> HIDE DEF d, g
  <2>4. f[k].art = d.art /\ f[k].cv = Append(f[k - 1].cv, g[k])
    BY <2>2, <2>3
  <2>5. Append([i \in 1 .. (k - 1) |-> g[i]], g[k]) = [i \in 1 .. k |-> g[i]]
    BY OneMoreInRow
  <2>6. f[k].cv = [i \in 1 .. k |-> g[i]]
    BY <2>1, <2>4, <2>5, Zenon
  <2> QED BY <2>2, <2>4, <2>6
<1> HIDE DEF Good
<1>4. bad = {}
  <2> SUFFICES ASSUME bad # {} PROVE FALSE
    OBVIOUS
  <2>1. bad \in SUBSET Nat
    OBVIOUS
  <2>2. PICK m \in bad : \A k \in bad : m <= k
    BY <2>1, Least
  <2>3. m # 0 /\ m \in Nat /\ m <= n /\ ~Good(m)
    BY <1>2
  <2>4. m \in 1 .. n /\ m - 1 \in 0 .. n /\ ~(m <= m - 1)
    BY <2>3
  <2>5. Good(m - 1)
    BY <2>2, <2>4
  <2> QED BY <1>3, <2>3, <2>4, <2>5
<1>5. Good(n)
  BY <1>4
<1>6. Faithful(f[n].art) /\ f[n].cv = [i \in 1 .. n |-> g[i]]
  BY <1>5 DEF Good
<1> QED BY <1>6

\* There is nothing wrong in empty caches.
LEMMA EmptyRight == Faithful(Caches)
  BY DEF Faithful, Caches, Sheet

\* The glyphs of a text.
LEMMA TextIs ==
  ASSUME NEW a, Faithful(a), NEW text, Len(text) \in Nat, NEW height, NEW color
  PROVE  /\ Faithful(dotText(a, text, height, color).art)
         /\ dotText(a, text, height, color).cv =
              [i \in 1 .. Len(text) |-> <<text[i], AtLeast(1, Round(height, 7)), color>>]
<1> DEFINE n == Len(text)
           dots == AtLeast(1, Round(height, 7))
           how == <<"glyph", dots, color>>
           Done(f) == f = [i \in 0 .. Len(text) |->
                IF i = 0 THEN [art |-> a, cv |-> <<>>]
                ELSE [art |-> bakeGlyph(f[i - 1].art, text[i], dots, color).art,
                      cv |-> Append(f[i - 1].cv, bakeGlyph(f[i - 1].art, text[i], dots, color).cv)]]
           f == CHOOSE f : Done(f)
<1>1. dotText(a, text, height, color) = f[n]
  BY DEF dotText, InTurn
<1>2. \A b, x : Paints(how, b, x) = bakeGlyph(b, x, dots, color)
  BY DEF Paints
<1> HIDE DEF how, dots
<1>3. \A h : Done(h) <=> Turns(h, how, a, text, n)
  BY <1>2 DEF Turns, Then
<1> HIDE DEF Done
<1>4. \E h : Turns(h, how, a, text, n)
  BY TurnsExist
<1>5. Turns(f, how, a, text, n)
  BY <1>3, <1>4
<1> HIDE DEF f
<1>6. \A b : Faithful(b) => \A i \in 1 .. n :
               /\ Faithful(Paints(how, b, text[i]).art)
               /\ Paints(how, b, text[i]).cv = <<text[i], dots, color>>
  <2> SUFFICES ASSUME NEW b, Faithful(b), NEW i \in 1 .. n
               PROVE  /\ Faithful(Paints(how, b, text[i]).art)
                      /\ Paints(how, b, text[i]).cv = <<text[i], dots, color>>
    OBVIOUS
  <2> DEFINE x == text[i]
             r == bakeGlyph(b, x, dots, color)
  <2>1. Faithful(r.art) /\ r.cv = <<x, dots, color>>
    <3> HIDE DEF x
    <3> QED BY SmallIs
  <2>2. Paints(how, b, x) = r
    BY <1>2
  <2> HIDE DEF r
  <2> QED BY <2>1, <2>2
<1>7. \A i \in 1 .. n : Paints(how, Caches, text[i]).cv = <<text[i], dots, color>>
  BY <1>6, EmptyRight
<1>8. Faithful(f[n].art) /\ f[n].cv = [i \in 1 .. n |-> Paints(how, Caches, text[i]).cv]
  <2>1. \A b : Faithful(b) => \A i \in 1 .. n :
                    /\ Faithful(Paints(how, b, text[i]).art)
                    /\ Paints(how, b, text[i]).cv = Paints(how, Caches, text[i]).cv
    <3> SUFFICES ASSUME NEW b, Faithful(b), NEW i \in 1 .. n
                 PROVE  /\ Faithful(Paints(how, b, text[i]).art)
                        /\ Paints(how, b, text[i]).cv = Paints(how, Caches, text[i]).cv
      OBVIOUS
    <3> HIDE DEF n
    <3>1. Faithful(Paints(how, b, text[i]).art) /\ Paints(how, b, text[i]).cv = <<text[i], dots, color>>
      BY <1>6
    <3>2. Paints(how, Caches, text[i]).cv = <<text[i], dots, color>>
      BY <1>7
    <3> QED BY <3>1, <3>2, Zenon
  <2>2. n \in Nat
    OBVIOUS
  <2> HIDE DEF n
  <2> QED BY <1>5, <2>1, <2>2, TurnsAre
<1>9. f[n].cv = [i \in 1 .. n |-> <<text[i], dots, color>>]
  BY <1>7, <1>8
<1> QED BY <1>1, <1>8, <1>9 DEF dots

-----------------------------------------------------------------------------
(* The things of a frame.                                                    *)

\* What is painted leaves the caches right, and looks as painted from other right caches.
Steady(r, s) == Faithful(r.art) /\ r.cv = s.cv

\* A wall, with its half of a mark if it has one.
LEMMA DrawWallIs ==
  ASSUME NEW a, Faithful(a), NEW b, Faithful(b), NEW c
  PROVE  Steady(drawWall(a, c), drawWall(b, c))
<1> DEFINE m == <<isWall(c - 1), isWall(c + 1)>>
           wall == <<"wall", m, <<Hash(c), tonePal("w"), dp>>, ts, WH>>
           mark == <<markPal, Flip(c), dp>>
           want == IF MarkOn(c) THEN <<wall, stampMark(mark, c)>> ELSE wall
<1>1. ASSUME NEW x, Faithful(x) PROVE Faithful(drawWall(x, c).art) /\ drawWall(x, c).cv = want
  <2> DEFINE w == bakeWall(x, Hash(c), m)
             k == bakeMark2(w.art, Flip(c))
  <2>1. drawWall(x, c) = IF MarkOn(c) THEN [art |-> k.art, cv |-> <<w.cv, stampMark(k.cv, c)>>] ELSE w
    BY DEF drawWall
  <2>2. Faithful(w.art) /\ w.cv = wall
    <3> HIDE DEF m
    <3> QED BY <1>1, WallIs
  <2> HIDE DEF w
  <2>3. Faithful(k.art) /\ k.cv = mark
    BY <2>2, MarkIs
  <2> HIDE DEF k, wall, mark
  <2>4. CASE MarkOn(c)
    BY <2>1, <2>2, <2>3, <2>4
  <2>5. CASE ~MarkOn(c)
    BY <2>1, <2>2, <2>5
  <2> QED BY <2>4, <2>5
<1> HIDE DEF want
<1>2. Faithful(drawWall(a, c).art) /\ drawWall(a, c).cv = want
  BY <1>1
<1>3. drawWall(b, c).cv = want
  BY <1>1
<1> QED BY <1>2, <1>3 DEF Steady

\* A box, at rest or on its way.
LEMMA DrawCrateIs ==
  ASSUME NEW a, Faithful(a), NEW b, Faithful(b), NEW kind
  PROVE  \A box \in BOOLEAN : Steady(bakeCrate(a, kind, box), bakeCrate(b, kind, box))
<1> SUFFICES ASSUME NEW box \in BOOLEAN PROVE Steady(bakeCrate(a, kind, box), bakeCrate(b, kind, box))
  OBVIOUS
<1> DEFINE want == <<"crate", paintBands(box), <<kind, tonePal("c"), dp>>, ts, CH>>
<1>1. Faithful(bakeCrate(a, kind, box).art) /\ bakeCrate(a, kind, box).cv = want
  BY CrateIs
<1>2. bakeCrate(b, kind, box).cv = want
  BY CrateIs
<1> HIDE DEF want
<1> QED BY <1>1, <1>2 DEF Steady

\* Nothing is painted the same way from all caches.
LEMMA NothingIs ==
  ASSUME NEW a, Faithful(a), NEW b
  PROVE  Steady(Nothing(a), Nothing(b))
  BY DEF Steady, Nothing

\* A picture tile.
LEMMA TileSpriteIs ==
  ASSUME NEW a, Faithful(a), NEW b, Faithful(b), NEW name
  PROVE  Steady(bakeTileSprite(a, name), bakeTileSprite(b, name))
<1>1. Faithful(bakeTileSprite(a, name).art) /\ bakeTileSprite(a, name).cv = <<"tile", name, ts>>
  BY SpriteIs
<1>2. bakeTileSprite(b, name).cv = <<"tile", name, ts>>
  BY SpriteIs
<1> QED BY <1>1, <1>2 DEF Steady

\* What stands on a cell.
LEMMA DrawPropIs ==
  ASSUME NEW a, Faithful(a), NEW b, Faithful(b), NEW c
  PROVE  Steady(drawProp(a, c), drawProp(b, c))
<1>1. \A name : Steady(bakeTileSprite(a, name), bakeTileSprite(b, name))
  BY TileSpriteIs
<1>2. Steady(Nothing(a), Nothing(b)) /\ Steady(drawWall(a, c), drawWall(b, c))
  BY NothingIs, DrawWallIs
<1>3. \A box \in BOOLEAN : Steady(bakeCrate(a, Hash(c), box), bakeCrate(b, Hash(c), box))
  BY DrawCrateIs
<1>4. Steady(bakeCrate(a, Hash(c), tile[c] = BOX), bakeCrate(b, Hash(c), tile[c] = BOX))
  <2>1. (tile[c] = BOX) \in BOOLEAN
    OBVIOUS
  <2> QED BY <1>3, <2>1, Zenon
<1>5. CASE tile[c] = EMPTY
  <2>1. drawProp(a, c) = Nothing(a) /\ drawProp(b, c) = Nothing(b)
    BY <1>5 DEF drawProp
  <2> QED BY <1>2, <2>1
<1>6. CASE tile[c] # EMPTY /\ look[c] = RIVER /\ pictured
  <2>1. /\ drawProp(a, c) = bakeTileSprite(a, <<place, "water", Bank(c)>>)
        /\ drawProp(b, c) = bakeTileSprite(b, <<place, "water", Bank(c)>>)
    BY <1>6 DEF drawProp
  <2> QED BY <1>1, <2>1
<1>7. CASE tile[c] # EMPTY /\ ~(look[c] = RIVER /\ pictured) /\ pictured /\ c \in cover
  <2>1. CASE c - 1 \notin cover
    <3>1. /\ drawProp(a, c) = bakeTileSprite(a, <<place, "big", "0">>)
          /\ drawProp(b, c) = bakeTileSprite(b, <<place, "big", "0">>)
      BY <1>7, <2>1 DEF drawProp
    <3> QED BY <1>1, <3>1
  <2>2. CASE c - 1 \in cover
    <3>1. drawProp(a, c) = Nothing(a) /\ drawProp(b, c) = Nothing(b)
      BY <1>7, <2>2 DEF drawProp
    <3> QED BY <1>2, <3>1
  <2> QED BY <2>1, <2>2
<1>8. CASE tile[c] # EMPTY /\ ~(look[c] = RIVER /\ pictured) /\ pictured /\ c \notin cover
  <2> DEFINE name == <<place, ToString(tile[c]), ToString(Hash(c))>>
  <2>1. drawProp(a, c) = bakeTileSprite(a, name) /\ drawProp(b, c) = bakeTileSprite(b, name)
    BY <1>8 DEF drawProp
  <2> HIDE DEF name
  <2> QED BY <1>1, <2>1
<1>9. CASE tile[c] # EMPTY /\ ~pictured
  <2>1. CASE tile[c] \in {BLOCK, BOX}
    <3>1. /\ drawProp(a, c) = bakeCrate(a, Hash(c), tile[c] = BOX)
          /\ drawProp(b, c) = bakeCrate(b, Hash(c), tile[c] = BOX)
      BY <1>9, <2>1, Zenon DEF drawProp
    <3> QED BY <1>4, <3>1, Zenon
  <2>2. CASE tile[c] \notin {BLOCK, BOX}
    <3>1. drawProp(a, c) = drawWall(a, c) /\ drawProp(b, c) = drawWall(b, c)
      BY <1>9, <2>2 DEF drawProp
    <3> QED BY <1>2, <3>1
  <2> QED BY <2>1, <2>2
<1> QED BY <1>5, <1>6, <1>7, <1>8, <1>9

\* A bubble.
LEMMA DrawBubbleIs ==
  ASSUME NEW a, Faithful(a), NEW b, Faithful(b), NEW x
  PROVE  Steady(drawBubble(a, x), drawBubble(b, x))
<1> DEFINE size == Round(88 * ts, 100)
           dot == AtLeast(1, Round(80 * ts, 1400)) + (IF x.near /\ x.beat THEN 1 ELSE 0)
           name == IF x.near = x.beat THEN (IF x.near THEN "balloon_hot" ELSE "balloon0")
                   ELSE "balloon2"
           key == <<x.near, dot, x.hex>>
           cv == <<"bubble", x.near, dot, x.hex>>
<1>1. \A y : drawBubble(y, x) = IF fx = Both THEN bakeFromAtlas(y, name, size)
                                ELSE Bake(y, "bubble", key, cv)
  BY DEF drawBubble
<1>2. \A y : Faithful(y) => Faithful(Bake(y, "bubble", key, cv).art) /\ Bake(y, "bubble", key, cv).cv = cv
  BY SmallIs
<1> HIDE DEF key, cv, size, name
<1>3. \A y : Faithful(y) => /\ Faithful(bakeFromAtlas(y, name, size).art)
                         /\ bakeFromAtlas(y, name, size).cv = <<"fx", name, size>>
  BY SpriteIs
<1>4. CASE fx = Both
  <2>1. /\ drawBubble(a, x) = bakeFromAtlas(a, name, size)
        /\ drawBubble(b, x) = bakeFromAtlas(b, name, size)
    BY <1>1, <1>4
  <2> QED BY <1>3, <2>1 DEF Steady
<1>5. CASE fx # Both
  <2>1. drawBubble(a, x) = Bake(a, "bubble", key, cv) /\ drawBubble(b, x) = Bake(b, "bubble", key, cv)
    BY <1>1, <1>5
  <2> QED BY <1>2, <2>1 DEF Steady
<1> QED BY <1>4, <1>5

\* An item.
LEMMA DrawItemIs ==
  ASSUME NEW a, Faithful(a), NEW b, Faithful(b), NEW kind
  PROVE  Steady(drawItem(a, kind), drawItem(b, kind))
<1>1. \A y : Faithful(y) => Faithful(drawDots(y, "star").art) /\ drawDots(y, "star").cv = <<"star", dp>>
  BY SmallIs
<1>2. CASE kind = 4
  <2>1. drawItem(a, kind) = drawDots(a, "star") /\ drawItem(b, kind) = drawDots(b, "star")
    BY <1>2 DEF drawItem
  <2> QED BY <1>1, <2>1 DEF Steady
<1>3. CASE kind # 4
  <2>1. drawItem(a, kind) = drawStatIcon(a, kind) /\ drawItem(b, kind) = drawStatIcon(b, kind)
    BY <1>3 DEF drawItem
  <2> QED BY <2>1 DEF Steady, drawStatIcon
<1> QED BY <1>2, <1>3

\* A number, and its shadow.
LEMMA BigNumIs ==
  ASSUME NEW a, Faithful(a), NEW b, Faithful(b), NEW i \in DOMAIN Numbers
  PROVE  Steady(bigNum(a, Numbers[i]), bigNum(b, Numbers[i]))
<1> DEFINE n == Numbers[i]
           height == Round(78 * n.size, 100)
           glyphs(color) == [j \in 1 .. Len(n.text) |-> <<n.text[j], AtLeast(1, Round(height, 7)), color>>]
<1>1. Len(n.text) \in Nat
  <2>1. n \in [text : Seq(Nat), size : Nat]
    <3> DEFINE T == [text : Seq(Nat), size : Nat]
    <3>1. Numbers \in Seq(T)
      BY ArtAssumption
    <3> HIDE DEF T
    <3>2. DOMAIN Numbers = 1 .. Len(Numbers) /\ \A j \in 1 .. Len(Numbers) : Numbers[j] \in T
      BY <3>1
    <3> QED BY <3>2 DEF T
  <2> HIDE DEF n
  <2> QED BY <2>1
<1>2. ASSUME NEW y, Faithful(y)
      PROVE  Faithful(bigNum(y, n).art) /\ bigNum(y, n).cv = <<glyphs("shadow"), glyphs("white")>>
  <2> DEFINE shadow == dotText(y, n.text, height, "shadow")
             number == dotText(shadow.art, n.text, height, "white")
  <2>1. bigNum(y, n).art = number.art /\ bigNum(y, n).cv = <<shadow.cv, number.cv>>
    BY DEF bigNum
  <2> HIDE DEF n, height
  <2>2. Faithful(shadow.art) /\ shadow.cv = glyphs("shadow")
    BY <1>1, <1>2, TextIs
  <2> HIDE DEF shadow
  <2>3. Faithful(number.art) /\ number.cv = glyphs("white")
    BY <1>1, <2>2, TextIs
  <2> HIDE DEF number, glyphs
  <2> QED BY <2>1, <2>2, <2>3
<1> HIDE DEF n, glyphs
<1>3. Faithful(bigNum(a, n).art) /\ bigNum(a, n).cv = <<glyphs("shadow"), glyphs("white")>>
  BY <1>2
<1>4. bigNum(b, n).cv = <<glyphs("shadow"), glyphs("white")>>
  BY <1>2
<1> QED BY <1>3, <1>4 DEF Steady, n

\* What a frame shows.
Thing == UNION {{<<"prop", c>> : c \in Cell}, {<<"slide", c>> : c \in Cell},
                {<<"bubble", b>> : b \in Bubbles}, {<<"item", k>> : k \in Items},
                {<<"number", Numbers[i]>> : i \in DOMAIN Numbers}}

\* None of it depends on what the caches hold.
LEMMA DrawIs ==
  ASSUME NEW a, Faithful(a), NEW b, Faithful(b), NEW item \in Thing
  PROVE  Steady(draw(a, item), draw(b, item))
<1>1. CASE \E c \in Cell : item = <<"prop", c>>
  <2>1. PICK c \in Cell : item = <<"prop", c>>
    BY <1>1
  <2>2. draw(a, item) = drawProp(a, c) /\ draw(b, item) = drawProp(b, c)
    BY <2>1 DEF draw
  <2> QED BY <2>2, DrawPropIs
<1>2. CASE \E c \in Cell : item = <<"slide", c>>
  <2>1. PICK c \in Cell : item = <<"slide", c>>
    BY <1>2
  <2>2. draw(a, item) = drawCrate(a, c) /\ draw(b, item) = drawCrate(b, c)
    BY <2>1 DEF draw
  <2>3. \A box \in BOOLEAN : Steady(bakeCrate(a, Hash(c), box), bakeCrate(b, Hash(c), box))
    BY DrawCrateIs
  <2>4. Steady(drawCrate(a, c), drawCrate(b, c))
    <3>1. TRUE \in BOOLEAN
      OBVIOUS
    <3> QED BY <2>3, <3>1, Zenon DEF drawCrate
  <2> QED BY <2>2, <2>4
<1>3. CASE \E x \in Bubbles : item = <<"bubble", x>>
  <2>1. PICK x \in Bubbles : item = <<"bubble", x>>
    BY <1>3
  <2>2. draw(a, item) = drawBubble(a, x) /\ draw(b, item) = drawBubble(b, x)
    BY <2>1 DEF draw
  <2> QED BY <2>2, DrawBubbleIs
<1>4. CASE \E k \in Items : item = <<"item", k>>
  <2>1. PICK k \in Items : item = <<"item", k>>
    BY <1>4
  <2>2. draw(a, item) = drawItem(a, k) /\ draw(b, item) = drawItem(b, k)
    BY <2>1 DEF draw
  <2> QED BY <2>2, DrawItemIs
<1>5. CASE \E i \in DOMAIN Numbers : item = <<"number", Numbers[i]>>
  <2>1. PICK i \in DOMAIN Numbers : item = <<"number", Numbers[i]>>
    BY <1>5
  <2>2. draw(a, item) = bigNum(a, Numbers[i]) /\ draw(b, item) = bigNum(b, Numbers[i])
    BY <2>1 DEF draw
  <2> QED BY <2>2, BigNumIs
<1> QED BY <1>1, <1>2, <1>3, <1>4, <1>5 DEF Thing

\* Many things leave the caches right.
LEMMA ThingsAre ==
  ASSUME NEW a, Faithful(a), NEW items \in Seq(Thing)
  PROVE  Faithful(paintSorted(a, items).art)
<1> DEFINE n == Len(items)
           how == <<"frame">>
           Done(f) == f = [i \in 0 .. Len(items) |->
                IF i = 0 THEN [art |-> a, cv |-> <<>>]
                ELSE [art |-> draw(f[i - 1].art, items[i]).art,
                      cv |-> Append(f[i - 1].cv, draw(f[i - 1].art, items[i]).cv)]]
           f == CHOOSE f : Done(f)
<1>1. paintSorted(a, items) = f[n]
  BY DEF paintSorted, InTurn
<1>2. \A b, x : Paints(how, b, x) = draw(b, x)
  BY DEF Paints
<1>3. n \in Nat /\ \A i \in 1 .. n : items[i] \in Thing
  OBVIOUS
<1> HIDE DEF how
<1>4. \A h : Done(h) <=> Turns(h, how, a, items, n)
  BY <1>2 DEF Turns, Then
<1> HIDE DEF Done, n
<1>5. \E h : Turns(h, how, a, items, n)
  BY <1>3, TurnsExist
<1>6. Turns(f, how, a, items, n)
  BY <1>4, <1>5
<1> HIDE DEF f
<1>7. \A b : Faithful(b) => \A i \in 1 .. n :
                /\ Faithful(Paints(how, b, items[i]).art)
                /\ Paints(how, b, items[i]).cv = Paints(how, Caches, items[i]).cv
  <2> SUFFICES ASSUME NEW b, Faithful(b), NEW i \in 1 .. n
               PROVE  /\ Faithful(Paints(how, b, items[i]).art)
                      /\ Paints(how, b, items[i]).cv = Paints(how, Caches, items[i]).cv
    OBVIOUS
  <2>1. Steady(draw(b, items[i]), draw(Caches, items[i]))
    BY <1>3, DrawIs, EmptyRight
  <2> QED BY <1>2, <2>1 DEF Steady
<1>8. Faithful(f[n].art)
  BY <1>3, <1>6, <1>7, TurnsAre
<1> QED BY <1>1, <1>8

\* A finite set can be put in a row.
LEMMA RowOfSet ==
  ASSUME NEW F, IsFiniteSet(F)
  PROVE  SetToSeq(F) \in Seq(F)
<1> DEFINE n == Cardinality(F)
<1>1. n \in Nat
  BY FS_CardinalityType
<1>2. \E f : f \in Bijection(1 .. n, F)
  <2>1. PICK m \in Nat : ExistsBijection(1 .. m, F)
    BY FS_NatBijection
  <2>2. m = n
    BY <2>1, FS_CountingElements
  <2> QED BY <2>1, <2>2 DEF ExistsBijection
<1>3. \E f \in [1 .. n -> F] : IsInjective(f)
  BY <1>2 DEF Bijection, Injection, IsInjective
<1>4. SetToSeq(F) \in [1 .. n -> F]
  <2> HIDE DEF n
  <2>1. SetToSeq(F) = CHOOSE f \in [1 .. n -> F] : IsInjective(f)
    BY DEF SetToSeq, n
  <2> QED BY <1>3, <2>1
<1> HIDE DEF n
<1> QED BY <1>1, <1>4

-----------------------------------------------------------------------------
(* The floor.                                                                *)

\* What is painted of a cell, and of the row.
FloorPic(c) ==
    IF pictured
    THEN <<<<"tile", <<place, IF look[c] = BRIDGE THEN "bridge" ELSE "floor", ToString(Hash(c))>>, ts>>,
           Shadow(c)>>
    ELSE <<<<Hash(c), tonePal("f"), dp>>, isLane(c), isLane(c - 1), isLane(c + 1), ts, px, Shadow(c)>>

FloorPicture == [i \in 1 .. Width |-> FloorPic(Cells[i])]

\* A cell of the floor.
LEMMA FloorCellIs ==
  ASSUME NEW a, Faithful(a), NEW c
  PROVE  Faithful(floorCell(a, c).art) /\ floorCell(a, c).cv = FloorPic(c)
<1> DEFINE dots == bakeTile(a, "f", Hash(c))
           name == <<place, IF look[c] = BRIDGE THEN "bridge" ELSE "floor", ToString(Hash(c))>>
           picture == bakeTileSprite(a, name)
           lanes == <<isLane(c), isLane(c - 1), isLane(c + 1)>>
<1>1. Faithful(dots.art) /\ dots.cv = <<Hash(c), tonePal("f"), dp>>
  BY TileIs
<1>2. Faithful(picture.art) /\ picture.cv = <<"tile", name, ts>>
  <2> HIDE DEF name
  <2> QED BY SpriteIs
<1>3. floorCell(a, c) = IF pictured
       THEN [art |-> picture.art, cv |-> <<picture.cv, Shadow(c)>>]
       ELSE [art |-> dots.art,
             cv  |-> <<dots.cv, isLane(c), isLane(c - 1), isLane(c + 1), ts, px, Shadow(c)>>]
  BY DEF floorCell
<1> HIDE DEF dots, picture
<1>4. CASE pictured
  BY <1>2, <1>3, <1>4 DEF FloorPic
<1>5. CASE ~pictured
  BY <1>1, <1>3, <1>5 DEF FloorPic
<1> QED BY <1>4, <1>5

\* The floor, from whatever caches it is painted.
LEMMA FloorIs ==
  ASSUME NEW a, Faithful(a)
  PROVE  Faithful(buildFloor(a).art) /\ buildFloor(a).cv = FloorPicture
<1> DEFINE n == Len(Cells)
           how == <<"floor">>
           Done(f) == f = [i \in 0 .. Len(Cells) |->
                IF i = 0 THEN [art |-> a, cv |-> <<>>]
                ELSE [art |-> floorCell(f[i - 1].art, Cells[i]).art,
                      cv |-> Append(f[i - 1].cv, floorCell(f[i - 1].art, Cells[i]).cv)]]
           f == CHOOSE f : Done(f)
<1>1. buildFloor(a) = f[n]
  BY DEF buildFloor, InTurn
<1>2. \A b, x : Paints(how, b, x) = floorCell(b, x)
  BY DEF Paints
<1>3. n = Width /\ n \in Nat
  BY ArtAssumption DEF Cells
<1> HIDE DEF how
<1>4. \A h : Done(h) <=> Turns(h, how, a, Cells, n)
  BY <1>2 DEF Turns, Then
<1> HIDE DEF Done, n
<1>5. \E h : Turns(h, how, a, Cells, n)
  BY <1>3, TurnsExist
<1>6. Turns(f, how, a, Cells, n)
  BY <1>4, <1>5
<1> HIDE DEF f
<1>7. \A b : Faithful(b) => \A i \in 1 .. n :
                /\ Faithful(Paints(how, b, Cells[i]).art)
                /\ Paints(how, b, Cells[i]).cv = FloorPic(Cells[i])
  <2> SUFFICES ASSUME NEW b, Faithful(b), NEW i \in 1 .. n
               PROVE  /\ Faithful(Paints(how, b, Cells[i]).art)
                      /\ Paints(how, b, Cells[i]).cv = FloorPic(Cells[i])
    OBVIOUS
  <2>1. Faithful(floorCell(b, Cells[i]).art) /\ floorCell(b, Cells[i]).cv = FloorPic(Cells[i])
    BY FloorCellIs
  <2> QED BY <1>2, <2>1
<1>8. \A i \in 1 .. n : Paints(how, Caches, Cells[i]).cv = FloorPic(Cells[i])
  BY <1>7, EmptyRight
<1>9. \A b : Faithful(b) => \A i \in 1 .. n :
                /\ Faithful(Paints(how, b, Cells[i]).art)
                /\ Paints(how, b, Cells[i]).cv = Paints(how, Caches, Cells[i]).cv
  <2> SUFFICES ASSUME NEW b, Faithful(b), NEW i \in 1 .. n
               PROVE  /\ Faithful(Paints(how, b, Cells[i]).art)
                      /\ Paints(how, b, Cells[i]).cv = Paints(how, Caches, Cells[i]).cv
    OBVIOUS
  <2>1. Faithful(Paints(how, b, Cells[i]).art) /\ Paints(how, b, Cells[i]).cv = FloorPic(Cells[i])
    BY <1>7
  <2>2. Paints(how, Caches, Cells[i]).cv = FloorPic(Cells[i])
    BY <1>8
  <2> QED BY <2>1, <2>2, Zenon
<1>10. Faithful(f[n].art) /\ f[n].cv = [i \in 1 .. n |-> Paints(how, Caches, Cells[i]).cv]
  BY <1>3, <1>6, <1>9, TurnsAre
<1>11. f[n].cv = [i \in 1 .. n |-> FloorPic(Cells[i])]
  BY <1>8, <1>10
<1> QED BY <1>1, <1>3, <1>10, <1>11 DEF FloorPicture

\* The caches are right, and so is the floor as long as it is not dirty.
ArtInv ==
    /\ Faithful(art)
    /\ ~floorDirty => floor = FloorPicture

\* The page begins with a dirty floor and empty caches.
LEMMA ArtInit == InitArt => ArtInv
  BY EmptyRight DEF InitArt, ArtInv

\* Lying items, the things of the board and the boxes on their way are things to be shown.
LEMMA ThingsInRow ==
  /\ Lying \in Seq(Thing) /\ Props \in Seq(Thing) /\ Figures \in Seq(Thing)
  /\ \A moving \in SUBSET Cell : Slides(moving) \in Seq(Thing)
  /\ \A b \in Bubbles : <<<<"bubble", b>>>> \in Seq(Thing)
<1>1. \A F \in SUBSET Thing : IsFiniteSet(F) => SetToSeq(F) \in Seq(Thing)
  <2> SUFFICES ASSUME NEW F \in SUBSET Thing, IsFiniteSet(F) PROVE SetToSeq(F) \in Seq(Thing)
    OBVIOUS
  <2>1. SetToSeq(F) \in Seq(F)
    BY RowOfSet
  <2> QED BY <2>1
<1>2. Lying \in Seq(Thing)
  <2> DEFINE F == {<<"item", k>> : k \in Items}
  <2>1. F \in SUBSET Thing
    BY DEF Thing
  <2>2. IsFiniteSet(Items)
    <3>1. \A m \in Nat : IsFiniteSet(1 .. m)
      BY FS_Interval
    <3> QED BY <3>1, FS_Subset, ArtAssumption
  <2>3. IsFiniteSet(F)
    <3> DEFINE g == [k \in Items |-> <<"item", k>>]
    <3>1. g \in Surjection(Items, F)
      BY DEF Surjection
    <3> HIDE DEF g, F
    <3> QED BY <2>2, <3>1, FS_Surjection
  <2> HIDE DEF F
  <2>4. SetToSeq(F) \in Seq(Thing)
    BY <1>1, <2>1, <2>3
  <2> QED BY <2>4 DEF Lying, F
<1>3. Props \in Seq(Thing)
  <2>1. Width \in Nat
    BY ArtAssumption
  <2>2. \A i \in 1 .. Width : <<"prop", Cells[i]>> \in Thing
    <3>1. \A i \in 1 .. Width : Cells[i] \in Cell
      BY <2>1 DEF Cells, Cell
    <3> QED BY <3>1 DEF Thing
  <2> QED BY <2>1, <2>2 DEF Props
<1>4. Figures \in Seq(Thing)
  <2>1. DOMAIN Numbers = 1 .. Len(Numbers) /\ Len(Numbers) \in Nat
    BY ArtAssumption
  <2>2. \A i \in DOMAIN Numbers : <<"number", Numbers[i]>> \in Thing
    BY DEF Thing
  <2> QED BY <2>1, <2>2 DEF Figures
<1>5. ASSUME NEW moving \in SUBSET Cell PROVE Slides(moving) \in Seq(Thing)
  <2> DEFINE F == {<<"slide", c>> : c \in moving}
  <2>1. F \in SUBSET Thing
    BY DEF Thing
  <2>2. IsFiniteSet(moving)
    <3>1. IsFiniteSet(Cell)
      BY FS_Interval, ArtAssumption DEF Cell
    <3> QED BY <3>1, FS_Subset
  <2>3. IsFiniteSet(F)
    <3> DEFINE g == [c \in moving |-> <<"slide", c>>]
    <3>1. g \in Surjection(moving, F)
      BY DEF Surjection
    <3> HIDE DEF g, F
    <3> QED BY <2>2, <3>1, FS_Surjection
  <2> HIDE DEF F
  <2>4. SetToSeq(F) \in Seq(Thing)
    BY <1>1, <2>1, <2>3
  <2> QED BY <2>4 DEF Slides, F
<1>6. \A b \in Bubbles : <<<<"bubble", b>>>> \in Seq(Thing)
  <2>1. \A b \in Bubbles : <<"bubble", b>> \in Thing
    BY DEF Thing
  <2>2. \A x \in Thing : <<x>> \in Seq(Thing)
    OBVIOUS
  <2> QED BY <2>1, <2>2, Zenon
<1> QED BY <1>2, <1>3, <1>4, <1>5, <1>6

\* The floor's picture follows from the board, the size and whether there are pictures.
LEMMA FloorSame ==
  ASSUME UNCHANGED <<ts, place, tile, look, lane, cover>>, hasTiles' <=> hasTiles
  PROVE  FloorPicture' = FloorPicture
<1>1. (pictured' <=> pictured) /\ dp' = dp /\ px' = px
  BY DEF pictured, dp, px
<1>2. \A c : isLane(c)' = isLane(c) /\ Shadow(c)' = Shadow(c)
  BY DEF isLane, Shadow
<1>3. \A c : FloorPic(c)' = FloorPic(c)
  <2> SUFFICES ASSUME NEW c PROVE FloorPic(c)' = FloorPic(c)
    OBVIOUS
  <2>1. CASE pictured
    BY <1>1, <1>2, <2>1 DEF FloorPic
  <2>2. CASE ~pictured
    BY <1>1, <1>2, <2>2 DEF FloorPic, tonePal
  <2> QED BY <2>1, <2>2
<1> QED BY <1>3 DEF FloorPicture

\* A frame leaves the caches right and the floor clean.
LEMMA FrameKeeps == ArtInv /\ Frame => ArtInv'
<1> SUFFICES ASSUME ArtInv, Frame PROVE ArtInv'
  OBVIOUS
<1> DEFINE sheet == buildFloor(art)
           after == IF floorDirty THEN sheet.art ELSE art
           still == paintSorted(after, Lying \o Props)
<1>1. Faithful(sheet.art) /\ sheet.cv = FloorPicture
  BY FloorIs DEF ArtInv
<1>2. floor' = IF floorDirty THEN sheet.cv ELSE floor
  BY DEF Frame
<1>3. PICK b \in Bubbles, moving \in SUBSET {c \in Cell : tile[c] = BOX} :
        art' = paintSorted(still.art, Slides(moving) \o <<<<"bubble", b>>>> \o Figures).art
  BY DEF Frame
<1> HIDE DEF sheet
<1>4. Faithful(after)
  BY <1>1 DEF ArtInv
<1> HIDE DEF after
<1>5. Faithful(still.art)
  <2>1. Lying \o Props \in Seq(Thing)
    BY ThingsInRow
  <2> QED BY <1>4, <2>1, ThingsAre
<1> HIDE DEF still
<1>6. Faithful(art')
  <2>1. Slides(moving) \o <<<<"bubble", b>>>> \o Figures \in Seq(Thing)
    <3>1. moving \in SUBSET Cell
      BY <1>3
    <3>2. Slides(moving) \in Seq(Thing) /\ <<<<"bubble", b>>>> \in Seq(Thing) /\ Figures \in Seq(Thing)
      BY <1>3, <3>1, ThingsInRow
    <3> DEFINE u == Slides(moving)
               v == <<<<"bubble", b>>>>
               w == Figures
    <3> HIDE DEF u, v, w
    <3>3. u \in Seq(Thing) /\ v \in Seq(Thing) /\ w \in Seq(Thing) => u \o v \o w \in Seq(Thing)
      OBVIOUS
    <3> QED BY <3>2, <3>3 DEF u, v, w
  <2> QED BY <1>3, <1>5, <2>1, ThingsAre
<1>7. FloorPicture' = FloorPicture
  BY FloorSame DEF Frame, boardVars, sheetVars, hasTiles
<1>8. floor' = FloorPicture
  BY <1>1, <1>2 DEF ArtInv
<1>9. Faithful(art)'
  BY <1>6 DEF Faithful, PictureOf, DotsOf, PropOf, SpriteOf
<1> QED BY <1>7, <1>8, <1>9 DEF ArtInv

\* Whatever the floor's picture follows from marks the floor dirty when it changes.
LEMMA ArtStep == ArtInv /\ [ArtNext]_artVars => ArtInv'
<1> SUFFICES ASSUME ArtInv, [ArtNext]_artVars PROVE ArtInv'
  OBVIOUS
<1>1. ASSUME NEW a, art' = a, Faithful(a) PROVE Faithful(art)'
  BY <1>1 DEF Faithful, PictureOf, DotsOf, PropOf, SpriteOf
<1>2. Faithful(art) /\ Faithful([art EXCEPT !.sprite = <<>>])
  BY DEF ArtInv, Faithful, Sheet
<1>3. CASE resize \/ Welcomed \/ OnMapRow \/ OnLandmarks \/ BlockGone
  <2>1. art' = art /\ floorDirty' = TRUE
    BY <1>3 DEF resize, Welcomed, OnMapRow, OnLandmarks, BlockGone, sheetVars
  <2> QED BY <1>1, <1>2, <2>1 DEF ArtInv
<1>4. CASE TilesArrive
  <2>1. PICK half \in Both \ tiles : tiles' = tiles \cup {half}
    BY <1>4 DEF TilesArrive
  <2>2. UNCHANGED <<ts, place, tile, look, lane, cover, floor>>
    BY <1>4 DEF TilesArrive, boardVars
  <2>3. CASE tiles' = Both
    <3>1. art' = [art EXCEPT !.sprite = <<>>] /\ floorDirty' = TRUE
      BY <1>4, <2>3 DEF TilesArrive
    <3> QED BY <1>1, <1>2, <3>1 DEF ArtInv
  <2>4. CASE tiles' # Both
    <3>1. art' = art /\ floorDirty' = floorDirty
      BY <1>4, <2>4 DEF TilesArrive
    <3>2. hasTiles' <=> hasTiles
      BY <2>1, <2>4 DEF hasTiles
    <3>3. FloorPicture' = FloorPicture
      BY <2>2, <3>2, FloorSame
    <3> QED BY <1>1, <1>2, <2>2, <3>1, <3>3 DEF ArtInv
  <2> QED BY <2>3, <2>4
<1>5. CASE FxArrive
  <2>1. UNCHANGED <<ts, place, tile, look, lane, cover, tiles, floor, floorDirty>>
    BY <1>5 DEF FxArrive, boardVars
  <2>2. art' = art \/ art' = [art EXCEPT !.sprite = <<>>]
    BY <1>5 DEF FxArrive
  <2>3. Faithful(art)'
    BY <1>1, <1>2, <2>2
  <2>4. FloorPicture' = FloorPicture
    BY <2>1, FloorSame DEF hasTiles
  <2> QED BY <2>1, <2>3, <2>4 DEF ArtInv
<1>6. CASE UNCHANGED artVars
  <2>1. UNCHANGED <<ts, place, tile, look, lane, cover, tiles, floor, floorDirty, art>>
    BY <1>6 DEF artVars, boardVars, sheetVars
  <2>2. Faithful(art)'
    BY <1>1, <1>2, <2>1
  <2>3. FloorPicture' = FloorPicture
    BY <2>1, FloorSame DEF hasTiles
  <2> QED BY <2>1, <2>2, <2>3 DEF ArtInv
<1> QED BY <1>3, <1>4, <1>5, <1>6, FrameKeeps DEF ArtNext

\* While it is not marked dirty, the floor shows what would be painted now (game.js,
\* floorDirty), whatever came in whatever order.
THEOREM FloorAlways == ArtSpec => []FloorTrue
<1>1. ArtInv => FloorTrue
  <2>1. buildFloor(Caches).cv = FloorPicture
    BY EmptyRight, FloorIs
  <2> QED BY <2>1 DEF ArtInv, FloorTrue
<1> QED BY <1>1, ArtInit, ArtStep, PTL DEF ArtSpec

\* No key of the caches is too coarse (art.js, the bakers): what is taken from a cache is
\* what would be painted.
THEOREM PicturesAlways == ArtSpec => []PicturesTrue
<1>1. ArtInv => PicturesTrue
  <2> SUFFICES ASSUME ArtInv,
                      NEW item \in Range(Lying \o Props \o Slides({c \in Cell : tile[c] = BOX}) \o Figures)
                                   \cup {<<"bubble", b>> : b \in Bubbles}
               PROVE  draw(art, item).cv = draw(Caches, item).cv
    BY DEF PicturesTrue
  <2>1. item \in Thing
    <3> DEFINE u == Lying \o Props
               v == Slides({c \in Cell : tile[c] = BOX})
               w == Figures
    <3>1. {c \in Cell : tile[c] = BOX} \in SUBSET Cell
      OBVIOUS
    <3>2. u \in Seq(Thing) /\ v \in Seq(Thing) /\ w \in Seq(Thing)
      BY <3>1, ThingsInRow
    <3>3. CASE item \in Range(u \o v \o w)
      <4> HIDE DEF u, v, w
      <4>1. u \o v \o w \in Seq(Thing)
        BY <3>2
      <4> QED BY <3>3, <4>1 DEF Range
    <3>4. CASE item \in {<<"bubble", b>> : b \in Bubbles}
      BY <3>4 DEF Thing
    <3> QED BY <3>3, <3>4
  <2>2. Steady(draw(art, item), draw(Caches, item))
    BY <2>1, DrawIs, EmptyRight DEF ArtInv
  <2> QED BY <2>2 DEF Steady
<1> QED BY <1>1, ArtInit, ArtStep, PTL DEF ArtSpec

=============================================================================
