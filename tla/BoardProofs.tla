------------------------------ MODULE BoardProofs ------------------------------
(***************************************************************************)
(* That the tiles agree with the bubbles and the slides, that a chain goes   *)
(* off step by step, and that the browser's copy agrees with the board, for  *)
(* any map, any number of players, bubbles and slides, and any times.        *)
(***************************************************************************)
EXTENDS Board, FiniteSetTheorems, TLAPS

\* What is on a cell.
Tile == {"empty", "wall", "block", "box", "bubble"}

\* What a browser can see on a cell.
Plainly == {"empty", "wall", "block", "box"}

\* The types, and that the slides can be counted.
TypeInv ==
  /\ TypeOK
  /\ clock \in [Index -> Int]
  /\ IsFiniteSet(slide)

\* A dealt map has no bubbles.
LEMMA DealtType == Dealt \in [Cell -> Plainly]
  BY DEF Dealt, Plainly

\* What InitGame deals is typed.
LEMMA TypeInit == Init => TypeInv
<1> SUFFICES ASSUME Init PROVE TypeInv
  OBVIOUS
<1>1. tile \in [Cell -> Tile] /\ seen \in [Cell -> Plainly]
  BY DealtType DEF Init, Tile, Plainly
<1>2. blast \in [Cell -> 0 .. BlastTicks]
  BY BoardAssumption DEF Init
<1>3. next \in 1 .. MaxBubble + 1
  BY BoardAssumption DEF Init
<1> QED
  BY <1>1, <1>2, <1>3, FS_EmptySet DEF Init, TypeInv, TypeOK, Tile, Plainly

\* A bubble keeps its place.
LEMMA CatchType ==
  ASSUME NEW b \in Bubble, NEW k
  PROVE  /\ Catch(b, k) \in Bubble /\ Catch(b, k).at = b.at
         /\ b.chain => Catch(b, k) = b
         /\ ~b.chain => Catch(b, k).chain = TRUE /\ Catch(b, k).fuse = ChainStep
<1>1. CASE b.chain
  BY <1>1 DEF Catch
<1>2. CASE ~b.chain
  <2> DEFINE o == [used |-> TRUE, owner |-> b.owner, at |-> b.at, fuse |-> ChainStep,
                   range |-> b.range, chain |-> TRUE]
  <2>1. b.owner \in Owner /\ b.at \in Cell /\ b.range = Reach /\ b.used = TRUE
    BY DEF Bubble
  <2>2. Catch(b, k) = o
    BY <1>2, <2>1 DEF Catch, Bubble
  <2>3. o \in Bubble
    BY <2>1, BoardAssumption DEF Bubble
  <2> QED
    BY <1>2, <2>2, <2>3
<1> QED
  BY <1>1, <1>2

\* A bubble whose fuse burns stays what it is otherwise.
LEMMA Burnt ==
  ASSUME NEW b \in Bubble
  PROVE  LET o == [b EXCEPT !.fuse = @ - 1] IN
           o \in Bubble /\ o.at = b.at /\ o.fuse = b.fuse - 1 /\ o.chain = b.chain
<1>1. ASSUME NEW x \in Int
      PROVE  LET o == [b EXCEPT !.fuse = x] IN
               o \in Bubble /\ o.at = b.at /\ o.fuse = x /\ o.chain = b.chain
  BY DEF Bubble
<1>2. b.fuse - 1 \in Int
  BY DEF Bubble
<1> QED
  BY <1>1, <1>2

\* An entry of bubbles[] is used or empty.
LEMMA UsedEntries ==
  ASSUME NEW f \in [Index -> Bubble \cup {NoBubble}], NEW k \in Index
  PROVE  IF f[k].used THEN f[k] \in Bubble ELSE f[k] = NoBubble
<1>1. \A b \in Bubble : b.used = TRUE
  BY DEF Bubble
<1>2. NoBubble.used = FALSE
  BY DEF NoBubble
<1> QED
  BY <1>1, <1>2, Zenon

\* An empty entry of bubbles[] is not used, a bubble is, and lies on a cell.
LEMMA NoBubbleFree == NoBubble.used = FALSE /\ \A b \in Bubble : b.used = TRUE /\ b.at \in Cell
<1>1. NoBubble.used = FALSE
  BY DEF NoBubble
<1>2. \A b \in Bubble : b.used = TRUE /\ b.at \in Cell
  BY DEF Bubble
<1> QED
  BY <1>1, <1>2

\* So it is for the entries of bubbles[] as they are.
LEMMA UsedBubble ==
  ASSUME TypeOK
  PROVE  /\ \A k \in Used : k \in Index /\ bubble[k] \in Bubble
         /\ \A k \in Index : k \notin Used => bubble[k] = NoBubble
  BY UsedEntries DEF Used, TypeOK

\* One tick of a slide.
LEMMA SlideOn ==
  ASSUME NEW s \in Slide, s.left # 1
  PROVE  LET t == [s EXCEPT !.left = @ - 1] IN
           t \in Slide /\ t.from = s.from /\ t.to = s.to /\ t.left = s.left - 1
  BY BoardAssumption DEF Slide

\* A new bubble is one.
LEMMA PlaceType == ASSUME TypeInv, NEW o \in Owner, NEW c \in Cell, PlaceBubble(o, c) PROVE TypeInv'
<1>1. PICK k \in Index \ Used :
        /\ bubble' = [bubble EXCEPT ![k] =
            [used |-> TRUE, owner |-> o, at |-> c, fuse |-> FuseTicks, range |-> Reach, chain |-> FALSE]]
        /\ clock' = [clock EXCEPT ![k] = 0]
  BY DEF PlaceBubble
<1> DEFINE b == [used |-> TRUE, owner |-> o, at |-> c, fuse |-> FuseTicks, range |-> Reach, chain |-> FALSE]
<1>2. b \in Bubble
  BY BoardAssumption DEF Bubble
<1>3. bubble' = [bubble EXCEPT ![k] = b]
  BY <1>1
<1> HIDE DEF b
<1>4. bubble' \in [Index -> Bubble \cup {NoBubble}]
  BY <1>2, <1>3 DEF TypeInv, TypeOK
<1>5. clock' \in [Index -> Int]
  BY <1>1 DEF TypeInv
<1>6. tile' \in [Cell -> {"empty", "wall", "block", "box", "bubble"}]
  BY DEF TypeInv, TypeOK, PlaceBubble
<1> QED
  BY <1>4, <1>5, <1>6 DEF TypeInv, TypeOK, PlaceBubble, clientVars

\* An explosion stays within the map.
LEMMA ExplodeType ==
  ASSUME TypeInv, NEW i \in Used, Explode(i)
  PROVE  /\ tile' \in [Cell -> Tile] /\ item' \subseteq Cell /\ blast' \in [Cell -> 0 .. BlastTicks]
         /\ bubble' \in [Index -> Bubble \cup {NoBubble}]
         /\ seen' \in [Cell -> Plainly] /\ seenItem' \subseteq Cell
<1> USE DEF TypeInv, Tile, Plainly
<1> DEFINE b == bubble[i]
           hit == Covered(b)
           broken == {c \in hit : tile[c] \in Breakable}
<1>0. b \in Bubble /\ b.at \in Cell
  BY UsedBubble DEF Bubble
<1>1. hit \subseteq Cell
  BY <1>0 DEF Covered
<1>2. /\ tile' = [c \in Cell |-> IF c = b.at \/ c \in broken THEN "empty" ELSE tile[c]]
      /\ blast' = [c \in Cell |-> IF c \in hit THEN BlastTicks ELSE blast[c]]
      /\ \E drops \in SUBSET broken :
           /\ item' = (item \ hit) \cup drops
           /\ seenItem' = OnDrop(OnItemGone(seenItem, item \cap hit), drops)
      /\ bubble' = [k \in Index |->
          IF k = i THEN NoBubble
          ELSE IF k \in Used /\ bubble[k].at \in hit THEN Catch(bubble[k], k)
          ELSE bubble[k]]
      /\ seen' = OnBlock(broken)
  BY DEF Explode
<1> HIDE DEF hit, b
<1>3. tile' \in [Cell -> Tile]
  BY <1>2 DEF TypeOK
<1>4. blast' \in [Cell -> 0 .. BlastTicks]
  BY <1>2, BoardAssumption DEF TypeOK
<1>5. item' \subseteq Cell /\ seenItem' \subseteq Cell
  BY <1>1, <1>2 DEF TypeOK, OnDrop, OnItemGone
<1>6. seen' \in [Cell -> Plainly]
  BY <1>2 DEF TypeOK, OnBlock
<1>7. bubble' \in [Index -> Bubble \cup {NoBubble}]
  <2>1. ASSUME NEW k \in Index, k \in Used PROVE Catch(bubble[k], k) \in Bubble
    BY <2>1, UsedBubble, CatchType
  <2> QED
    BY <1>2, <2>1 DEF TypeOK
<1> QED
  BY <1>3, <1>4, <1>5, <1>6, <1>7

\* The slides after a tick.
LEMMA SlidesOn ==
  ASSUME TypeInv, StepSlidingBoxes
  PROVE  /\ slide' \subseteq Slide /\ IsFiniteSet(slide')
         /\ Cardinality(slide') <= Cardinality(slide)
         /\ \A t \in slide' : \E s \in slide : s.left # 1 /\ t = [s EXCEPT !.left = @ - 1]
         /\ \A s \in slide : s.left # 1 => [s EXCEPT !.left = @ - 1] \in slide'
<1> DEFINE on == {s \in slide : s.left # 1}
<1>1. slide' = {[s EXCEPT !.left = @ - 1] : s \in on}
  BY DEF StepSlidingBoxes
<1>2. on \subseteq slide /\ IsFiniteSet(on) /\ Cardinality(on) <= Cardinality(slide)
  BY FS_Subset DEF TypeInv
<1>3. IsFiniteSet(slide') /\ Cardinality(slide') <= Cardinality(on)
  <2> DEFINE f == [s \in on |-> [s EXCEPT !.left = @ - 1]]
  <2>1. f \in Surjection(on, slide')
    BY <1>1 DEF Surjection
  <2> QED
    BY <1>2, <2>1, FS_Surjection
<1>4. slide' \subseteq Slide
  BY <1>1, SlideOn DEF TypeInv, TypeOK
<1>5. Cardinality(slide) \in Nat /\ Cardinality(on) \in Nat /\ Cardinality(slide') \in Nat
  BY <1>2, <1>3, FS_CardinalityType DEF TypeInv
<1> QED
  BY <1>1, <1>2, <1>3, <1>4, <1>5

\* What UpdateBubble does: an explosion, or nothing to the board.
LEMMA UpdateCases ==
  ASSUME UpdateBubble
  PROVE  /\ pc = "explode" /\ next \in Index /\ next' = next + 1
         /\ UNCHANGED <<slide, pc, gliding, missed>>
         /\ \/ /\ next \in Used /\ bubble[next].fuse <= 0 /\ Explode(next)
               /\ clock' = [k \in Index |->
                    IF k = next \/ (bubble'[k] # bubble[k] /\ ~bubble[k].chain) THEN 0 ELSE clock[k]]
            \/ /\ ~(next \in Used /\ bubble[next].fuse <= 0)
               /\ UNCHANGED <<tile, blast, item, bubble, seen, seenItem, clock>>
  BY DEF UpdateBubble

\* Every step keeps the types.
LEMMA TypeStep == TypeInv /\ [Next]_vars => TypeInv'
<1> SUFFICES ASSUME TypeInv, [Next]_vars PROVE TypeInv'
  OBVIOUS
<1>1. ASSUME NEW o \in Owner, NEW c \in Cell, PlaceBubble(o, c) PROVE TypeInv'
  BY <1>1, PlaceType
<1>2. CASE Restart
  <2>1. tile' \in [Cell -> Tile] /\ seen' \in [Cell -> Plainly]
    BY <1>2, DealtType DEF Restart, Tile, Plainly
  <2>2. blast' \in [Cell -> 0 .. BlastTicks]
    BY <1>2, BoardAssumption DEF Restart
  <2> QED
    BY <1>2, <2>1, <2>2, FS_EmptySet DEF Restart, TypeInv, TypeOK, Tile, Plainly
<1>3. CASE Enter
  <2>1. seen' \in [Cell -> Plainly]
    BY <1>3 DEF Enter, Plain, Plainly, TypeInv, TypeOK
  <2>2. missed' \subseteq Cell
    BY <1>3 DEF Enter, TypeInv, TypeOK, Slide
  <2> QED
    BY <1>3, <2>1, <2>2 DEF Enter, TypeInv, TypeOK, Plainly, boardVars
<1>4. CASE BurnFuses
  <2>1. ASSUME NEW k \in Used PROVE [bubble[k] EXCEPT !.fuse = @ - 1] \in Bubble
    BY <2>1, UsedBubble, Burnt DEF TypeInv
  <2>2. bubble' \in [Index -> Bubble \cup {NoBubble}]
    BY <1>4, <2>1 DEF BurnFuses, TypeInv, TypeOK
  <2>3. clock' \in [Index -> Int]
    BY <1>4 DEF BurnFuses, TypeInv
  <2> QED
    BY <1>4, <2>2, <2>3 DEF BurnFuses, TypeInv, TypeOK, clientVars
<1>5. CASE UpdateBubble
  <2>1. next' \in 1 .. MaxBubble + 1
    BY <1>5, UpdateCases, BoardAssumption DEF Index
  <2>2. CASE next \in Used /\ Explode(next) /\ clock' = [k \in Index |->
           IF k = next \/ (bubble'[k] # bubble[k] /\ ~bubble[k].chain) THEN 0 ELSE clock[k]]
    <3>1. clock' \in [Index -> Int]
      BY <2>2 DEF TypeInv
    <3> QED
      BY <1>5, <2>1, <2>2, <3>1, ExplodeType, UpdateCases DEF TypeInv, TypeOK, Tile, Plainly
  <2>3. CASE UNCHANGED <<tile, blast, item, bubble, seen, seenItem, clock>>
    BY <1>5, <2>1, <2>3, UpdateCases DEF TypeInv, TypeOK
  <2> QED
    BY <1>5, <2>2, <2>3, UpdateCases
<1>6. CASE StepSlidingBoxes
  <2>1. tile' \in [Cell -> Tile]
    BY <1>6 DEF StepSlidingBoxes, TypeInv, TypeOK, Tile
  <2>2. missed' \subseteq Cell
    BY <1>6 DEF StepSlidingBoxes, TypeInv, TypeOK, Slide
  <2>3. next' \in 1 .. MaxBubble + 1 /\ pc' = "players"
    BY <1>6, BoardAssumption DEF StepSlidingBoxes
  <2>4. UNCHANGED <<item, blast, bubble, clientVars, clock>>
    BY <1>6 DEF StepSlidingBoxes
  <2> QED
    BY <1>6, <2>1, <2>2, <2>3, <2>4, SlidesOn DEF TypeInv, TypeOK, Tile, clientVars
<1>7. ASSUME NEW b \in Cell, NEW d \in Dir, TryPushBox(b, d) PROVE TypeInv'
  <2> DEFINE n == Ahead(b, d, 1)
             s == [from |-> b, to |-> n, left |-> SlideTicks]
             g == [from |-> b, to |-> n]
  <2>1. /\ n \in Cell /\ tile' = [tile EXCEPT ![n] = "box"] /\ slide' = slide \cup {s}
        /\ seen' = [seen EXCEPT ![n] = "box"] /\ gliding' = gliding \cup {g}
        /\ UNCHANGED <<item, blast, bubble, pc, next, seenItem, ghostVars>>
    BY <1>7 DEF TryPushBox, OnPush
  <2> HIDE DEF n
  <2>2. s \in Slide /\ g \in [from : Cell, to : Cell]
    BY <2>1, BoardAssumption DEF Slide
  <2> HIDE DEF s, g
  <2>3. IsFiniteSet(slide')
    BY <2>1, FS_AddElement DEF TypeInv
  <2> QED
    BY <2>1, <2>2, <2>3 DEF TypeInv, TypeOK, ghostVars
<1>8. ASSUME NEW c \in Cell, PickUpItem(c) \/ DropItem(c) PROVE TypeInv'
  BY <1>8 DEF PickUpItem, DropItem, TypeInv, TypeOK, OnItem, OnDrop, ghostVars
<1>9. CASE FadeBlasts
  <2>1. blast' \in [Cell -> 0 .. BlastTicks]
    BY <1>9, BoardAssumption DEF FadeBlasts, TypeInv, TypeOK
  <2> QED
    BY <1>9, <2>1 DEF FadeBlasts, TypeInv, TypeOK, clientVars
<1>10. ASSUME NEW g \in gliding, EndSlide(g) PROVE TypeInv'
  BY <1>10 DEF EndSlide, TypeInv, TypeOK, boardVars, ghostVars
<1>11. CASE UNCHANGED vars
  BY <1>11 DEF vars, boardVars, clientVars, ghostVars, TypeInv, TypeOK
<1> QED
  BY <1>1, <1>2, <1>3, <1>4, <1>5, <1>6, <1>7, <1>8, <1>9, <1>10, <1>11 DEF Next

-----------------------------------------------------------------------------
(* Tiles and arrays.                                                       *)

\* TilesInv without the counting: the used bubbles and the bubble tiles are one to one.
OneToOne ==
  /\ \A k \in Used : tile[bubble[k].at] = "bubble"
  /\ \A j, k \in Used : bubble[j].at = bubble[k].at => j = k
  /\ \A c \in Cell : tile[c] = "bubble" => \E k \in Used : bubble[k].at = c

Apart ==
  /\ \A s, t \in slide : s # t => {s.from, s.to} \cap {t.from, t.to} = {}
  /\ Cardinality(slide) <= MaxSlide

\* One to one is one bubble for every bubble tile.
LEMMA TilesFollow == TypeInv /\ OneToOne /\ Apart => TilesInv
<1> SUFFICES ASSUME TypeInv, OneToOne, Apart, NEW c \in Cell, tile[c] = "bubble"
             PROVE  Cardinality({k \in Used : bubble[k].at = c}) = 1
  BY DEF TypeInv, OneToOne, Apart, TilesInv
<1>1. PICK k \in Used : bubble[k].at = c
  BY DEF OneToOne
<1>2. {j \in Used : bubble[j].at = c} = {k}
  BY <1>1 DEF OneToOne
<1> QED
  BY <1>2, FS_Singleton

\* A dealt map has no bubbles and no slides.
LEMMA TilesInit == Init => OneToOne /\ Apart
<1>1. ASSUME Init PROVE Used = {}
  BY <1>1, NoBubbleFree DEF Init, Used
<1>2. ASSUME Init, NEW c \in Cell PROVE tile[c] # "bubble"
  BY <1>2 DEF Init, Dealt
<1> QED
  BY <1>1, <1>2, FS_EmptySet, BoardAssumption DEF Init, OneToOne, Apart

\* An explosion takes one bubble and its tile, and no other bubble or bubble tile.
LEMMA ExplodeTiles ==
  ASSUME TypeInv, OneToOne, NEW i \in Used, Explode(i)
  PROVE  OneToOne'
<1> DEFINE b == bubble[i]
           hit == Covered(b)
           broken == {c \in hit : tile[c] \in Breakable}
<1>1. /\ tile' = [c \in Cell |-> IF c = b.at \/ c \in broken THEN "empty" ELSE tile[c]]
      /\ bubble' = [k \in Index |->
          IF k = i THEN NoBubble
          ELSE IF k \in Used /\ bubble[k].at \in hit THEN Catch(bubble[k], k)
          ELSE bubble[k]]
  BY DEF Explode
<1>2. \A c \in broken : tile[c] # "bubble"
  BY DEF Breakable
<1> HIDE DEF hit, broken
<1>3. \A k \in Used : k \in Index /\ bubble[k] \in Bubble /\ bubble[k].at \in Cell
  BY UsedBubble, NoBubbleFree DEF TypeInv
<1>4. ASSUME NEW k \in Index
      PROVE  /\ k \in Used' <=> k \in Used /\ k # i
             /\ k \in Used' => bubble'[k].at = bubble[k].at
  <2>1. CASE k = i
    BY <1>1, <2>1, NoBubbleFree DEF Used
  <2>2. CASE k # i /\ k \in Used
    <3>1. Catch(bubble[k], k) \in Bubble /\ Catch(bubble[k], k).at = bubble[k].at
      BY <1>3, <2>2, CatchType
    <3>2. bubble'[k] \in Bubble /\ bubble'[k].at = bubble[k].at
      BY <1>1, <1>3, <2>2, <3>1
    <3> QED
      BY <2>2, <3>2, NoBubbleFree DEF Used
  <2>3. CASE k # i /\ k \notin Used
    BY <1>1, <2>3 DEF Used
  <2> QED
    BY <2>1, <2>2, <2>3
<1>5. \A c \in Cell : tile'[c] = "bubble" <=> tile[c] = "bubble" /\ c # b.at
  BY <1>1, <1>2
<1>6. Used \subseteq Index /\ Used' \subseteq Index
  BY DEF Used
<1> HIDE DEF b
<1>7. \A k \in Used' : tile'[bubble'[k].at] = "bubble"
  BY <1>3, <1>4, <1>5, <1>6 DEF OneToOne, b
<1>8. \A j, k \in Used' : bubble'[j].at = bubble'[k].at => j = k
  BY <1>4, <1>6 DEF OneToOne
<1>9. ASSUME NEW c \in Cell, tile'[c] = "bubble" PROVE \E k \in Used' : bubble'[k].at = c
  <2>1. PICK k \in Used : bubble[k].at = c
    BY <1>5, <1>9 DEF OneToOne
  <2>2. k # i
    BY <1>5, <1>9, <2>1 DEF b
  <2> QED
    BY <1>3, <1>4, <2>1, <2>2
<1> QED
  BY <1>7, <1>8, <1>9 DEF OneToOne

\* A bubble is placed on a cell that no bubble has.
LEMMA PlaceTiles ==
  ASSUME TypeInv, OneToOne, NEW o \in Owner, NEW c \in Cell, PlaceBubble(o, c)
  PROVE  OneToOne'
<1> DEFINE b == [used |-> TRUE, owner |-> o, at |-> c, fuse |-> FuseTicks, range |-> Reach, chain |-> FALSE]
<1>1. PICK k \in Index \ Used : bubble' = [bubble EXCEPT ![k] = b]
  BY DEF PlaceBubble
<1>2. tile[c] = "empty" /\ tile' = [tile EXCEPT ![c] = "bubble"]
  BY DEF PlaceBubble, MayPlace
<1>3. b \in Bubble /\ b.at = c
  BY BoardAssumption DEF Bubble
<1> HIDE DEF b
<1>4. bubble' = [j \in Index |-> IF j = k THEN b ELSE bubble[j]]
  BY <1>1 DEF TypeInv, TypeOK
<1>5. \A j \in Used : j \in Index /\ bubble[j].at \in Cell /\ tile[bubble[j].at] = "bubble"
  BY UsedBubble, NoBubbleFree DEF TypeInv, OneToOne
<1>6. Used' = Used \cup {k}
  BY <1>1, <1>3, <1>4, NoBubbleFree DEF Used
<1>7. \A d \in Cell : tile'[d] = "bubble" <=> tile[d] = "bubble" \/ d = c
  BY <1>2 DEF TypeInv, TypeOK
<1>8. \A j \in Used : bubble'[j] = bubble[j] /\ bubble[j].at # c
  BY <1>1, <1>2, <1>4, <1>5
<1>9. bubble'[k].at = c
  BY <1>3, <1>4
<1>10. \A j \in Used' : tile'[bubble'[j].at] = "bubble"
  BY <1>5, <1>6, <1>7, <1>8, <1>9
<1>11. \A i, j \in Used' : bubble'[i].at = bubble'[j].at => i = j
  BY <1>6, <1>8, <1>9 DEF OneToOne
<1>12. \A d \in Cell : tile'[d] = "bubble" => \E j \in Used' : bubble'[j].at = d
  BY <1>6, <1>7, <1>8, <1>9 DEF OneToOne
<1> QED
  BY <1>10, <1>11, <1>12 DEF OneToOne

\* A step that changes neither the bubbles nor a bubble's tile.
LEMMA OtherTiles ==
  ASSUME TypeInv, OneToOne,
         \A k \in Index : bubble'[k].used = bubble[k].used /\ bubble'[k].at = bubble[k].at,
         \A c \in Cell : tile'[c] = "bubble" <=> tile[c] = "bubble"
  PROVE  OneToOne'
<1>1. Used' = Used /\ \A k \in Used : k \in Index /\ bubble[k].at \in Cell
  BY UsedBubble, NoBubbleFree DEF Used, TypeInv
<1> QED
  BY <1>1 DEF OneToOne

\* Every step keeps bubbles and bubble tiles one to one.
LEMMA TilesStep == TypeInv /\ OneToOne /\ [Next]_vars => OneToOne'
<1> SUFFICES ASSUME TypeInv, OneToOne, [Next]_vars PROVE OneToOne'
  OBVIOUS
<1>1. ASSUME NEW o \in Owner, NEW c \in Cell, PlaceBubble(o, c) PROVE OneToOne'
  BY <1>1, PlaceTiles
<1>2. CASE Restart
  <2>1. Used' = {}
    BY <1>2, NoBubbleFree DEF Restart, Used
  <2>2. \A c \in Cell : tile'[c] # "bubble"
    BY <1>2 DEF Restart, Dealt
  <2> QED
    BY <2>1, <2>2 DEF OneToOne
<1>3. CASE BurnFuses
  <2>1. ASSUME NEW k \in Index PROVE bubble'[k].used = bubble[k].used /\ bubble'[k].at = bubble[k].at
    <3>1. CASE k \in Used
      <4>1. bubble'[k] = [bubble[k] EXCEPT !.fuse = @ - 1]
        BY <1>3, <3>1 DEF BurnFuses
      <4>2. bubble'[k] \in Bubble /\ bubble'[k].at = bubble[k].at /\ bubble[k] \in Bubble
        BY <3>1, <4>1, UsedBubble, Burnt DEF TypeInv
      <4> QED
        BY <4>2, NoBubbleFree
    <3>2. CASE k \notin Used
      BY <1>3, <3>2 DEF BurnFuses
    <3> QED
      BY <3>1, <3>2
  <2> QED
    BY <1>3, <2>1, OtherTiles DEF BurnFuses
<1>4. CASE UpdateBubble
  <2>1. CASE next \in Used /\ Explode(next)
    BY <2>1, ExplodeTiles
  <2>2. CASE UNCHANGED <<tile, bubble>>
    BY <2>2, OtherTiles
  <2> QED
    BY <1>4, <2>1, <2>2, UpdateCases
<1>5. CASE StepSlidingBoxes
  <2>1. bubble' = bubble /\ \A c \in Cell : tile'[c] = "bubble" <=> tile[c] = "bubble"
    BY <1>5 DEF StepSlidingBoxes
  <2> QED
    BY <2>1, OtherTiles
<1>6. ASSUME NEW b \in Cell, NEW d \in Dir, TryPushBox(b, d) PROVE OneToOne'
  <2>1. bubble' = bubble /\ \A c \in Cell : tile'[c] = "bubble" <=> tile[c] = "bubble"
    BY <1>6 DEF TryPushBox, TypeInv, TypeOK
  <2> QED
    BY <2>1, OtherTiles
<1>7. CASE UNCHANGED <<tile, bubble>>
  BY <1>7, OtherTiles
<1>8. Enter \/ (\E c \in Cell : PickUpItem(c) \/ DropItem(c)) \/ FadeBlasts
        \/ (\E g \in gliding : EndSlide(g)) \/ UNCHANGED vars
      => UNCHANGED <<tile, bubble>>
  BY DEF Enter, PickUpItem, DropItem, FadeBlasts, EndSlide, vars, boardVars
<1> QED
  BY <1>1, <1>2, <1>3, <1>4, <1>5, <1>6, <1>7, <1>8 DEF Next

\* Only a box that does not slide is pushed, to a cell no box is leaving; slides that go on
\* keep their cells.
LEMMA ApartStep == TypeInv /\ Apart /\ [Next]_vars => Apart'
<1> SUFFICES ASSUME TypeInv, Apart, [Next]_vars PROVE Apart'
  OBVIOUS
<1>1. CASE Restart
  BY <1>1, FS_EmptySet, BoardAssumption DEF Restart, Apart
<1>2. CASE StepSlidingBoxes
  <2>1. ASSUME NEW s \in slide', NEW t \in slide', s # t
        PROVE  {s.from, s.to} \cap {t.from, t.to} = {}
    <3>1. PICK x \in slide : x.left # 1 /\ s = [x EXCEPT !.left = @ - 1]
      BY <1>2, SlidesOn
    <3>2. PICK y \in slide : y.left # 1 /\ t = [y EXCEPT !.left = @ - 1]
      BY <1>2, SlidesOn
    <3>3. x # y /\ x \in Slide /\ y \in Slide
      BY <2>1, <3>1, <3>2 DEF TypeInv, TypeOK
    <3>4. s.from = x.from /\ s.to = x.to /\ t.from = y.from /\ t.to = y.to
      BY <3>1, <3>2, <3>3, SlideOn
    <3> QED
      BY <3>3, <3>4 DEF Apart
  <2>2. Cardinality(slide') <= MaxSlide
    <3>1. Cardinality(slide) \in Nat /\ Cardinality(slide') \in Nat
      BY <1>2, SlidesOn, FS_CardinalityType DEF TypeInv
    <3> QED
      BY <1>2, <3>1, SlidesOn, BoardAssumption DEF Apart
  <2> QED
    BY <2>1, <2>2 DEF Apart
<1>3. ASSUME NEW b \in Cell, NEW d \in Dir, TryPushBox(b, d) PROVE Apart'
  <2> DEFINE n == Ahead(b, d, 1)
             s == [from |-> b, to |-> n, left |-> SlideTicks]
  <2>1. /\ ~IsSliding(b) /\ ~IsSliding(n) /\ Cardinality(slide) < MaxSlide
        /\ slide' = slide \cup {s}
    BY <1>3 DEF TryPushBox
  <2> HIDE DEF n
  <2>2. s.from = b /\ s.to = n
    OBVIOUS
  <2> HIDE DEF s
  <2>3. \A t \in slide : {s.from, s.to} \cap {t.from, t.to} = {}
    BY <2>1, <2>2 DEF IsSliding
  <2>4. Cardinality(slide') <= MaxSlide
    <3>1. Cardinality(slide') = (IF s \in slide THEN Cardinality(slide) ELSE Cardinality(slide) + 1)
      BY <2>1, FS_AddElement DEF TypeInv
    <3>2. Cardinality(slide) \in Nat
      BY FS_CardinalityType DEF TypeInv
    <3> QED
      BY <2>1, <3>1, <3>2, BoardAssumption
  <2> QED
    BY <2>1, <2>3, <2>4 DEF Apart
<1>4. CASE UNCHANGED slide
  BY <1>4 DEF Apart
<1>5. \/ Restart \/ StepSlidingBoxes \/ UNCHANGED slide
      \/ \E b \in Cell, d \in Dir : TryPushBox(b, d)
  <2>1. UpdateBubble => UNCHANGED slide
    BY UpdateCases
  <2> QED
    BY <2>1 DEF Next, PlaceBubble, Enter, BurnFuses, PickUpItem, DropItem, FadeBlasts, EndSlide,
                vars, boardVars
<1> QED
  BY <1>1, <1>2, <1>3, <1>4, <1>5

\* Tiles and arrays always tell the same story (Bubble.h:37-88, 90-210; Game.h:646-778,
\* each of which changes both).
THEOREM TilesAlways == Spec => []TilesInv
<1> DEFINE Inv == TypeInv /\ OneToOne /\ Apart
<1>1. Init => Inv
  BY TypeInit, TilesInit
<1>2. Inv /\ [Next]_vars => Inv'
  BY TypeStep, TilesStep, ApartStep
<1>3. Inv => TilesInv
  BY TilesFollow
<1> QED
  BY <1>1, <1>2, <1>3, PTL DEF Spec

-----------------------------------------------------------------------------
(* The rhythm of a chain.                                                  *)

\* What is left of a fuse is its length less what has burnt; in the middle of
\* UpdateBubbles it may be over only for the bubbles the loop has not come to.
InTime(b, n) == b.fuse = (IF b.chain THEN ChainStep ELSE FuseTicks) - n

RhythmInv ==
  /\ \A k \in Used : InTime(bubble[k], clock[k])
  /\ \A k \in Used : pc # "explode" \/ k < next => bubble[k].fuse > 0
  /\ pc # "explode" => next = 1

\* The rhythm between the steps of the loop is the one asked for.
LEMMA RhythmFollows == RhythmInv => ChainRhythm
  BY DEF RhythmInv, ChainRhythm, InTime

\* There is no fuse at first.
LEMMA RhythmInit == Init => RhythmInv
<1>1. ASSUME Init PROVE Used = {}
  BY <1>1, NoBubbleFree DEF Init, Used
<1> QED
  BY <1>1 DEF Init, RhythmInv

\* Whoever is caught has its whole step before it, wherever it stands in the array.
LEMMA ExplodeRhythm ==
  ASSUME TypeInv, RhythmInv, UpdateBubble, next \in Used, Explode(next),
         clock' = [k \in Index |->
           IF k = next \/ (bubble'[k] # bubble[k] /\ ~bubble[k].chain) THEN 0 ELSE clock[k]]
  PROVE  RhythmInv'
<1> DEFINE hit == Covered(bubble[next])
<1>1. bubble' = [k \in Index |->
          IF k = next THEN NoBubble
          ELSE IF k \in Used /\ bubble[k].at \in hit THEN Catch(bubble[k], k)
          ELSE bubble[k]]
  BY DEF Explode
<1> HIDE DEF hit
<1>2. pc' = "explode" /\ next' = next + 1 /\ pc = "explode" /\ next \in Int
  BY UpdateCases DEF TypeInv, TypeOK
<1>3. ASSUME NEW k \in Index, bubble'[k].used
      PROVE  /\ k # next /\ k \in Used
             /\ \/ bubble'[k] = bubble[k] /\ clock'[k] = clock[k]
                \/ bubble'[k].fuse = ChainStep /\ bubble'[k].chain = TRUE /\ clock'[k] = 0
  <2>1. k # next
    BY <1>1, <1>3, NoBubbleFree
  <2>2. k \in Used
    BY <1>1, <1>3, <2>1 DEF Used
  <2>3. bubble[k] \in Bubble
    BY <2>2, UsedBubble DEF TypeInv
  <2>4. CASE bubble'[k] = bubble[k]
    BY <2>1, <2>2, <2>4
  <2>5. CASE bubble'[k] # bubble[k]
    <3>1. bubble'[k] = Catch(bubble[k], k)
      BY <1>1, <2>1, <2>2, <2>5
    <3>2. ~bubble[k].chain
      BY <2>3, <2>5, <3>1, CatchType
    <3>3. clock'[k] = 0
      BY <2>5, <3>2
    <3>4. Catch(bubble[k], k).chain = TRUE /\ Catch(bubble[k], k).fuse = ChainStep
      BY <2>3, <3>2, CatchType
    <3> QED
      BY <2>1, <2>2, <3>1, <3>3, <3>4
  <2> QED
    BY <2>4, <2>5
<1>4. Used' \subseteq Index /\ Index \subseteq Int /\ ChainStep \in Nat \ {0}
  BY BoardAssumption DEF Used, Index
<1>5. ASSUME NEW k \in Used' PROVE InTime(bubble'[k], clock'[k]) /\ (k < next' => bubble'[k].fuse > 0)
  <2>1. k \in Index /\ bubble'[k].used
    BY <1>5 DEF Used
  <2>2. k # next /\ k \in Used
    BY <1>3, <2>1
  <2>3. CASE bubble'[k] = bubble[k] /\ clock'[k] = clock[k]
    BY <1>2, <1>4, <2>1, <2>2, <2>3 DEF RhythmInv
  <2>4. CASE bubble'[k].fuse = ChainStep /\ bubble'[k].chain = TRUE /\ clock'[k] = 0
    BY <1>4, <2>4 DEF InTime
  <2> QED
    BY <1>3, <2>1, <2>3, <2>4
<1> QED
  BY <1>2, <1>5 DEF RhythmInv

\* Every step keeps the rhythm.
LEMMA RhythmStep == TypeInv /\ RhythmInv /\ [Next]_vars => RhythmInv'
<1> SUFFICES ASSUME TypeInv, RhythmInv, [Next]_vars PROVE RhythmInv'
  OBVIOUS
<1>1. ASSUME NEW o \in Owner, NEW c \in Cell, PlaceBubble(o, c) PROVE RhythmInv'
  <2> DEFINE b == [used |-> TRUE, owner |-> o, at |-> c, fuse |-> FuseTicks, range |-> Reach, chain |-> FALSE]
  <2>1. PICK k \in Index \ Used : bubble' = [bubble EXCEPT ![k] = b] /\ clock' = [clock EXCEPT ![k] = 0]
    BY <1>1 DEF PlaceBubble
  <2>2. b.fuse = FuseTicks /\ b.chain = FALSE /\ FuseTicks \in Nat \ {0}
    BY BoardAssumption
  <2> HIDE DEF b
  <2>3. bubble'[k] = b /\ clock'[k] = 0
    BY <2>1 DEF TypeInv, TypeOK
  <2>4. \A j \in Index : j # k => bubble'[j] = bubble[j] /\ clock'[j] = clock[j]
    BY <2>1 DEF TypeInv, TypeOK
  <2>5. Used' \subseteq Index /\ \A j \in Used' : j # k => j \in Used
    BY <2>4 DEF Used
  <2>6. InTime(b, 0) /\ b.fuse > 0
    BY <2>2 DEF InTime
  <2>7. UNCHANGED <<pc, next>>
    BY <1>1 DEF PlaceBubble
  <2>8. ASSUME NEW j \in Used'
        PROVE  InTime(bubble'[j], clock'[j]) /\ (pc # "explode" \/ j < next => bubble'[j].fuse > 0)
    BY <2>3, <2>4, <2>5, <2>6, <2>8 DEF RhythmInv
  <2> QED
    BY <2>7, <2>8 DEF RhythmInv
<1>2. CASE Restart
  <2>1. Used' = {}
    BY <1>2, NoBubbleFree DEF Restart, Used
  <2> QED
    BY <1>2, <2>1 DEF Restart, RhythmInv
<1>3. CASE BurnFuses
  <2>1. pc' = "explode" /\ next' = next /\ next = 1
    BY <1>3 DEF BurnFuses, RhythmInv
  <2>2. \A k \in Index : k \notin Used => k \notin Used'
    BY <1>3 DEF BurnFuses, Used
  <2>3. Used' \subseteq Used /\ \A k \in Used' : ~(k < 1)
    BY <2>2, BoardAssumption DEF Used, Index
  <2>4. ASSUME NEW k \in Used PROVE InTime(bubble'[k], clock'[k])
    <3>1. k \in Index /\ bubble[k] \in Bubble /\ InTime(bubble[k], clock[k])
      BY UsedBubble DEF TypeInv, RhythmInv
    <3>2. bubble'[k] = [bubble[k] EXCEPT !.fuse = @ - 1] /\ clock'[k] = clock[k] + 1
      BY <1>3, <3>1 DEF BurnFuses
    <3>3. bubble'[k].fuse = bubble[k].fuse - 1 /\ bubble'[k].chain = bubble[k].chain
      BY <3>1, <3>2, Burnt
    <3>4. clock[k] \in Int /\ FuseTicks \in Int /\ ChainStep \in Int
      BY <3>1, BoardAssumption DEF TypeInv
    <3> QED
      BY <3>1, <3>2, <3>3, <3>4 DEF InTime
  <2> QED
    BY <2>1, <2>3, <2>4 DEF RhythmInv
<1>4. CASE UpdateBubble
  <2>1. CASE next \in Used /\ Explode(next) /\ clock' = [k \in Index |->
           IF k = next \/ (bubble'[k] # bubble[k] /\ ~bubble[k].chain) THEN 0 ELSE clock[k]]
    BY <1>4, <2>1, ExplodeRhythm
  <2>2. CASE ~(next \in Used /\ bubble[next].fuse <= 0) /\ UNCHANGED <<bubble, clock>>
    <3>1. pc' = "explode" /\ pc = "explode" /\ next' = next + 1 /\ next \in Int
      BY <1>4, UpdateCases DEF TypeInv, TypeOK
    <3>2. Used' = Used
      BY <2>2 DEF Used
    <3>3. ASSUME NEW k \in Used, k < next' PROVE bubble[k].fuse > 0
      <4>1. k \in Int
        BY BoardAssumption DEF Used, Index
      <4>2. bubble[k].fuse \in Int
        BY UsedBubble DEF TypeInv, Bubble
      <4> QED
        BY <2>2, <3>1, <3>3, <4>1, <4>2 DEF RhythmInv
    <3> QED
      BY <2>2, <3>1, <3>2, <3>3 DEF RhythmInv
  <2> QED
    BY <1>4, <2>1, <2>2, UpdateCases
<1>5. CASE StepSlidingBoxes
  <2>1. pc' = "players" /\ next' = 1 /\ UNCHANGED <<bubble, clock>> /\ next \notin Index
    BY <1>5 DEF StepSlidingBoxes
  <2>2. Used' = Used
    BY <2>1 DEF Used
  <2>3. \A k \in Used : k < next
    BY <2>1, BoardAssumption DEF Index, Used, TypeInv, TypeOK
  <2> QED
    BY <2>1, <2>2, <2>3 DEF RhythmInv
<1>6. CASE UNCHANGED <<bubble, clock, next, pc>>
  BY <1>6 DEF RhythmInv, Used
<1>7. CASE FadeBlasts
  BY <1>7 DEF FadeBlasts, RhythmInv, Used
<1>8. ASSUME NEW c \in Cell, NEW d \in Dir, TryPushBox(c, d) PROVE RhythmInv'
  <2>1. UNCHANGED <<bubble, clock, next, pc>>
    BY <1>8 DEF TryPushBox, ghostVars
  <2> QED
    BY <1>6, <2>1
<1>9. ASSUME NEW c \in Cell, PickUpItem(c) \/ DropItem(c) PROVE RhythmInv'
  <2>1. UNCHANGED <<bubble, clock, next, pc>>
    BY <1>9 DEF PickUpItem, DropItem, ghostVars
  <2> QED
    BY <1>6, <2>1
<1>10. ASSUME Enter \/ (\E g \in gliding : EndSlide(g)) \/ UNCHANGED vars PROVE RhythmInv'
  <2>1. UNCHANGED <<bubble, clock, next, pc>>
    BY <1>10 DEF Enter, EndSlide, vars, boardVars, ghostVars
  <2> QED
    BY <1>6, <2>1
<1> QED
  BY <1>1, <1>2, <1>3, <1>4, <1>5, <1>7, <1>8, <1>9, <1>10 DEF Next

\* A bubble a blast has reached goes off ChainStep ticks later, any other when its own
\* fuse is out, wherever it stands in the array (Bubble.h:178-193, 219-235).
THEOREM RhythmAlways == Spec => []ChainRhythm
<1>1. Init => TypeInv /\ RhythmInv
  BY TypeInit, RhythmInit
<1>2. TypeInv /\ RhythmInv /\ [Next]_vars => TypeInv' /\ RhythmInv'
  BY TypeStep, RhythmStep
<1> QED
  BY <1>1, <1>2, RhythmFollows, PTL DEF Spec

-----------------------------------------------------------------------------
(* The browser's copy.                                                     *)

Glide(s) == [from |-> s.from, to |-> s.to]
Left(c) == \E s \in slide : s.from = c /\ Glide(s) \notin gliding
Agrees(c) == seen[c] = Plain(tile[c]) \/ (seen[c] = "empty" /\ tile[c] = "box" /\ Left(c))

\* BoardsAgree, and what makes it last: a slide the browser has ended early has emptied
\* its cell for the browser, and one it has not ended is still on at the server, or its
\* cell is known to be in doubt.
AgreeInv ==
  /\ seenItem = item
  /\ \A c \in Cell \ missed : Agrees(c)
  /\ \A s \in slide : Glide(s) \in gliding \/ s.from \in missed \/ seen[s.from] # "box"
  /\ \A g \in gliding : g.from \in missed \/ \E s \in slide : Glide(s) = g

\* The invariant says more than what is asked for.
LEMMA AgreeFollows == AgreeInv => BoardsAgree
  BY DEF AgreeInv, BoardsAgree, Agrees, Left, Glide

\* A browser that has just got the whole board agrees with it.
LEMMA AgreeStart ==
  ASSUME item' = seenItem', \A c \in Cell : seen'[c] = Plain(tile'[c]),
         gliding' = {}, \A s \in slide' : s.from \in missed'
  PROVE  AgreeInv'
  BY DEF AgreeInv, Agrees, Left, Glide

\* Both are dealt the same map.
LEMMA DealtPlain == \A c \in Cell : Plain(Dealt[c]) = Dealt[c]
  BY DEF Plain, Dealt

\* Both start from the same map.
LEMMA AgreeInit == Init => AgreeInv
  BY DealtPlain DEF Init, AgreeInv, Agrees

\* Steps that leave the slides alone, and change a cell the same way for both or not at all.
LEMMA AgreeSame ==
  ASSUME TypeInv, AgreeInv, UNCHANGED <<slide, gliding, missed>>, seenItem' = item',
         \A c \in Cell : \/ seen'[c] = seen[c] /\ (tile'[c] = tile[c] \/ c \in missed)
                         \/ seen'[c] = Plain(tile'[c]) /\ seen'[c] # "box"
  PROVE  AgreeInv'
<1>1. \A s \in slide : s.from \in Cell
  BY DEF TypeInv, TypeOK, Slide
<1>2. ASSUME NEW c \in Cell, c \notin missed PROVE Agrees(c)'
  BY <1>2 DEF AgreeInv, Agrees, Left
<1>3. \A s \in slide : Glide(s) \in gliding \/ s.from \in missed \/ seen'[s.from] # "box"
  BY <1>1 DEF AgreeInv
<1> QED
  BY <1>2, <1>3 DEF AgreeInv

\* A tick of the slides: where the browser has ended one early it has an empty cell now
\* as the server has, where it has not the cell is in doubt.
LEMMA AgreeSlide ==
  ASSUME TypeInv, AgreeInv, StepSlidingBoxes
  PROVE  AgreeInv'
<1> DEFINE done == {s \in slide : s.left = 1}
<1>1. /\ \A c \in Cell : tile'[c] = IF \E s \in done : s.from = c /\ tile[c] = "box" THEN "empty" ELSE tile[c]
      /\ missed' = missed \cup {s.from : s \in {d \in done : [from |-> d.from, to |-> d.to] \in gliding}}
      /\ UNCHANGED <<item, seen, seenItem, gliding>>
  BY DEF StepSlidingBoxes, clientVars
<1>2. /\ missed \subseteq missed'
      /\ \A s \in done : Glide(s) \in gliding => s.from \in missed'
  BY <1>1 DEF Glide
<1>3. \A s \in slide : s \in Slide /\ s.from \in Cell
  BY DEF TypeInv, TypeOK, Slide
<1>4. ASSUME NEW s \in slide, s.left # 1
      PROVE  \E t \in slide' : t.from = s.from /\ Glide(t) = Glide(s)
  BY <1>3, <1>4, SlidesOn, SlideOn DEF Glide
<1>5. ASSUME NEW t \in slide' PROVE \E s \in slide : t.from = s.from /\ Glide(t) = Glide(s)
  <2>1. PICK s \in slide : s.left # 1 /\ t = [s EXCEPT !.left = @ - 1]
    BY SlidesOn
  <2> QED
    BY <1>3, <2>1, SlideOn DEF Glide
<1>6. ASSUME NEW c \in Cell, c \notin missed' PROVE Agrees(c)'
  <2>1. Agrees(c) /\ c \notin missed
    BY <1>2, <1>6 DEF AgreeInv
  <2>2. CASE \E s \in done : s.from = c /\ tile[c] = "box"
    <3>1. PICK s \in done : s.from = c /\ tile[c] = "box"
      BY <2>2
    <3>2. seen[c] # "box"
      BY <1>2, <1>6, <2>1, <3>1 DEF AgreeInv
    <3>3. seen[c] = "empty" /\ tile'[c] = "empty"
      BY <1>1, <2>1, <3>1, <3>2 DEF Agrees, Plain
    <3> QED
      BY <1>1, <3>3 DEF Agrees, Plain
  <2>3. CASE ~(\E s \in done : s.from = c /\ tile[c] = "box")
    <3>1. tile'[c] = tile[c] /\ seen'[c] = seen[c]
      BY <1>1, <2>3
    <3>2. tile[c] = "box" /\ Left(c) => Left(c)'
      BY <1>1, <1>4, <2>3 DEF Left
    <3> QED
      BY <2>1, <3>1, <3>2 DEF Agrees
  <2> QED
    BY <2>2, <2>3
<1>7. \A t \in slide' : Glide(t) \in gliding' \/ t.from \in missed' \/ seen'[t.from] # "box"
  BY <1>1, <1>2, <1>5 DEF AgreeInv
<1>8. ASSUME NEW g \in gliding PROVE g.from \in missed' \/ \E t \in slide' : Glide(t) = g
  <2>1. CASE g.from \in missed
    BY <1>2, <2>1
  <2>2. ASSUME NEW s \in slide, Glide(s) = g PROVE g.from \in missed' \/ \E t \in slide' : Glide(t) = g
    <3>1. s.from = g.from
      BY <2>2 DEF Glide
    <3> QED
      BY <1>2, <1>4, <2>2, <3>1
  <2> QED
    BY <2>1, <2>2 DEF AgreeInv
<1> QED
  BY <1>1, <1>6, <1>7, <1>8 DEF AgreeInv

\* A push: both see the box on its new cell at once.
LEMMA AgreePush ==
  ASSUME TypeInv, AgreeInv, NEW b \in Cell, NEW d \in Dir, TryPushBox(b, d)
  PROVE  AgreeInv'
<1> DEFINE n == Ahead(b, d, 1)
           s == [from |-> b, to |-> n, left |-> SlideTicks]
           g == [from |-> b, to |-> n]
<1>1. /\ ~IsSliding(b) /\ ~IsSliding(n) /\ n \in Cell
      /\ tile' = [tile EXCEPT ![n] = "box"] /\ slide' = slide \cup {s}
      /\ seen' = [seen EXCEPT ![n] = "box"] /\ gliding' = gliding \cup {g}
      /\ UNCHANGED <<item, seenItem, missed>>
  BY DEF TryPushBox, OnPush, ghostVars
<1>2. s.from = b /\ Glide(s) = g /\ g.from = b
  BY DEF Glide
<1> HIDE DEF n, s, g
<1>3. \A t \in slide : t.from # n /\ t.from # b /\ Glide(t).from = t.from
  BY <1>1 DEF IsSliding, Glide
<1>4. \A c \in Cell : Left(c) => Left(c)'
  BY <1>1, <1>2, <1>3 DEF Left
<1>5. ASSUME NEW c \in Cell, c \notin missed PROVE Agrees(c)'
  <2>1. CASE c = n
    BY <1>1, <2>1 DEF Agrees, Plain, TypeInv, TypeOK
  <2>2. CASE c # n
    BY <1>1, <1>4, <1>5, <2>2 DEF Agrees, AgreeInv, TypeInv, TypeOK
  <2> QED
    BY <2>1, <2>2
<1>6. \A t \in slide' : Glide(t) \in gliding' \/ t.from \in missed' \/ seen'[t.from] # "box"
  <2>1. \A t \in slide : seen'[t.from] = seen[t.from]
    BY <1>1, <1>3 DEF TypeInv, TypeOK, Slide
  <2> QED
    BY <1>1, <1>2, <2>1 DEF AgreeInv
<1>7. \A h \in gliding' : h.from \in missed' \/ \E t \in slide' : Glide(t) = h
  BY <1>1, <1>2 DEF AgreeInv
<1> QED
  BY <1>1, <1>5, <1>6, <1>7 DEF AgreeInv

\* The browser ends a slide: of a cell that is not in doubt it is one that is still on.
LEMMA AgreeEnd ==
  ASSUME TypeInv, AgreeInv, NEW g \in gliding, EndSlide(g)
  PROVE  AgreeInv'
<1>1. /\ g.from \in Cell /\ gliding' = gliding \ {g}
      /\ seen' = [seen EXCEPT ![g.from] = IF @ = "box" THEN "empty" ELSE @]
      /\ UNCHANGED <<tile, item, slide, seenItem, missed>>
  BY DEF EndSlide, TypeInv, TypeOK, boardVars, ghostVars
<1>2. \A c \in Cell : Left(c) => Left(c)'
  BY <1>1 DEF Left
<1>3. /\ seen'[g.from] = IF seen[g.from] = "box" THEN "empty" ELSE seen[g.from]
      /\ \A c \in Cell : c # g.from => seen'[c] = seen[c]
  BY <1>1 DEF TypeInv, TypeOK
<1>4. ASSUME NEW c \in Cell, c \notin missed PROVE Agrees(c)'
  <2>1. CASE seen'[c] = seen[c]
    BY <1>1, <1>2, <1>4, <2>1 DEF Agrees, AgreeInv
  <2>2. CASE seen'[c] # seen[c]
    <3>1. c = g.from /\ seen[c] = "box" /\ seen'[c] = "empty"
      BY <1>3, <2>2
    <3>2. tile[c] = "box"
      BY <1>4, <3>1 DEF Agrees, AgreeInv, Plain
    <3>3. PICK s \in slide : Glide(s) = g
      BY <1>4, <3>1 DEF AgreeInv
    <3>4. s.from = c
      BY <3>1, <3>3 DEF Glide
    <3>5. Left(c)'
      BY <1>1, <3>3, <3>4 DEF Left
    <3> QED
      BY <1>1, <3>1, <3>2, <3>5 DEF Agrees
  <2> QED
    BY <2>1, <2>2
<1>5. ASSUME NEW s \in slide PROVE Glide(s) \in gliding' \/ s.from \in missed \/ seen'[s.from] # "box"
  <2>1. CASE Glide(s) = g
    <3>1. s.from = g.from
      BY <2>1 DEF Glide
    <3> QED
      BY <1>3, <3>1
  <2>2. CASE Glide(s) # g
    <3>1. s.from \in Cell
      BY DEF TypeInv, TypeOK, Slide
    <3> QED
      BY <1>1, <1>3, <2>2, <3>1 DEF AgreeInv
  <2> QED
    BY <2>1, <2>2
<1>6. \A h \in gliding' : h.from \in missed \/ \E s \in slide : Glide(s) = h
  BY <1>1 DEF AgreeInv
<1> QED
  BY <1>1, <1>4, <1>5, <1>6 DEF AgreeInv

\* An explosion: a broken cell is empty for both, and the bubble's cell was already for
\* the browser.
LEMMA AgreeExplode ==
  ASSUME TypeInv, OneToOne, AgreeInv, UpdateBubble, next \in Used, Explode(next)
  PROVE  AgreeInv'
<1> DEFINE b == bubble[next]
           hit == Covered(b)
           broken == {c \in hit : tile[c] \in Breakable}
<1>1. /\ tile' = [c \in Cell |-> IF c = b.at \/ c \in broken THEN "empty" ELSE tile[c]]
      /\ \E drops \in SUBSET broken :
           /\ item' = (item \ hit) \cup drops
           /\ seenItem' = OnDrop(OnItemGone(seenItem, item \cap hit), drops)
      /\ seen' = OnBlock(broken)
  BY DEF Explode
<1>2. b.at \in Cell /\ tile[b.at] = "bubble"
  BY UsedBubble, NoBubbleFree DEF TypeInv, OneToOne
<1>3. UNCHANGED <<slide, gliding, missed>>
  BY UpdateCases
<1> HIDE DEF b, hit, broken
<1>4. seenItem' = item'
  BY <1>1 DEF AgreeInv, OnDrop, OnItemGone
<1>5. ASSUME NEW c \in Cell
      PROVE  \/ seen'[c] = seen[c] /\ (tile'[c] = tile[c] \/ c \in missed)
             \/ seen'[c] = Plain(tile'[c]) /\ seen'[c] # "box"
  <2>1. CASE c \in broken
    BY <1>1, <2>1 DEF OnBlock, Plain
  <2>2. CASE c \notin broken /\ c = b.at
    <3>1. seen'[c] = seen[c] /\ tile'[c] = "empty"
      BY <1>1, <2>2 DEF OnBlock
    <3>2. c \in missed \/ seen[c] = "empty"
      BY <1>2, <2>2 DEF AgreeInv, Agrees, Plain
    <3> QED
      BY <3>1, <3>2 DEF Plain
  <2>3. CASE c \notin broken /\ c # b.at
    BY <1>1, <2>3 DEF OnBlock
  <2> QED
    BY <2>1, <2>2, <2>3
<1> QED
  BY <1>3, <1>4, <1>5, AgreeSame

\* Every step keeps the copy in agreement.
LEMMA AgreeStep == TypeInv /\ OneToOne /\ AgreeInv /\ [Next]_vars => AgreeInv'
<1> SUFFICES ASSUME TypeInv, OneToOne, AgreeInv, [Next]_vars PROVE AgreeInv'
  OBVIOUS
<1>1. ASSUME NEW o \in Owner, NEW c \in Cell, PlaceBubble(o, c) PROVE AgreeInv'
  <2>1. /\ tile[c] = "empty" /\ tile' = [tile EXCEPT ![c] = "bubble"]
        /\ UNCHANGED <<slide, gliding, missed, seen, item, seenItem>>
    BY <1>1 DEF PlaceBubble, MayPlace, clientVars
  <2>2. c \in missed \/ seen[c] = "empty"
    BY <2>1 DEF AgreeInv, Agrees, Plain
  <2>3. tile'[c] = "bubble" /\ \A d \in Cell : d # c => tile'[d] = tile[d]
    BY <2>1 DEF TypeInv, TypeOK
  <2>4. ASSUME NEW d \in Cell
        PROVE  \/ seen'[d] = seen[d] /\ (tile'[d] = tile[d] \/ d \in missed)
               \/ seen'[d] = Plain(tile'[d]) /\ seen'[d] # "box"
    BY <2>1, <2>2, <2>3 DEF Plain
  <2> QED
    BY <2>1, <2>4, AgreeSame DEF AgreeInv
<1>2. CASE Restart
  BY <1>2, DealtPlain, AgreeStart DEF Restart
<1>3. CASE Enter
  <2>1. item' = seenItem' /\ gliding' = {} /\ \A s \in slide' : s.from \in missed'
    BY <1>3 DEF Enter, boardVars
  <2>2. \A c \in Cell : seen'[c] = Plain(tile'[c])
    BY <1>3 DEF Enter, boardVars
  <2> QED
    BY <2>1, <2>2, AgreeStart
<1>4. CASE UpdateBubble
  <2>1. CASE next \in Used /\ Explode(next)
    BY <1>4, <2>1, AgreeExplode
  <2>2. CASE UNCHANGED <<tile, blast, item, bubble, seen, seenItem, clock>>
    BY <1>4, <2>2, UpdateCases, AgreeSame DEF AgreeInv
  <2> QED
    BY <1>4, <2>1, <2>2, UpdateCases
<1>5. CASE StepSlidingBoxes
  BY <1>5, AgreeSlide
<1>6. ASSUME NEW b \in Cell, NEW d \in Dir, TryPushBox(b, d) PROVE AgreeInv'
  BY <1>6, AgreePush
<1>7. ASSUME NEW c \in Cell, PickUpItem(c) \/ DropItem(c) PROVE AgreeInv'
  <2>1. UNCHANGED <<tile, seen, slide, gliding, missed>>
    BY <1>7 DEF PickUpItem, DropItem, ghostVars
  <2>2. seenItem' = item'
    BY <1>7 DEF PickUpItem, DropItem, AgreeInv, OnItem, OnDrop
  <2> QED
    BY <2>1, <2>2, AgreeSame
<1>8. CASE FadeBlasts
  <2>1. /\ missed' = {c \in missed : \/ seen[c] # Plain(tile[c])
                             \/ IsSliding(c) \/ \E g \in gliding : g.from = c}
        /\ UNCHANGED <<tile, item, slide, seen, seenItem, gliding>>
    BY <1>8 DEF FadeBlasts, clientVars
  <2>2. ASSUME NEW c \in Cell, c \notin missed' PROVE Agrees(c)'
    BY <2>1, <2>2 DEF AgreeInv, Agrees, Left
  <2>3. \A s \in slide : s.from \in missed => s.from \in missed'
    BY <2>1 DEF IsSliding
  <2>4. \A g \in gliding : g.from \in missed => g.from \in missed'
    BY <2>1
  <2> QED
    BY <2>1, <2>2, <2>3, <2>4 DEF AgreeInv
<1>9. ASSUME NEW g \in gliding, EndSlide(g) PROVE AgreeInv'
  BY <1>9, AgreeEnd
<1>10. ASSUME BurnFuses \/ UNCHANGED vars PROVE AgreeInv'
  <2>1. UNCHANGED <<tile, item, slide, seen, seenItem, gliding, missed>>
    BY <1>10 DEF BurnFuses, vars, boardVars, clientVars, ghostVars
  <2> QED
    BY <2>1, AgreeSame DEF AgreeInv
<1> QED
  BY <1>1, <1>2, <1>3, <1>4, <1>5, <1>6, <1>7, <1>8, <1>9, <1>10 DEF Next

\* The browser, who is told of changes only and ends slides by its own clock, has the
\* board of the server, but for the cells a box is leaving and those known to be in doubt
\* (game.js:2441-2478, 494-504).
THEOREM AgreeAlways == Spec => []BoardsAgree
<1> DEFINE Inv == TypeInv /\ OneToOne /\ AgreeInv
<1>1. Init => Inv
  BY TypeInit, TilesInit, AgreeInit
<1>2. Inv /\ [Next]_vars => Inv'
  BY TypeStep, TilesStep, AgreeStep
<1>3. Inv => BoardsAgree
  BY AgreeFollows
<1> QED
  BY <1>1, <1>2, <1>3, PTL DEF Spec

===============================================================================
