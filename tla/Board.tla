-------------------------------- MODULE Board --------------------------------
(***************************************************************************)
(* Bubbles, blasts, boxes and items on the tiles, and the copy of the      *)
(* tiles a browser keeps.                                                  *)
(*                                                                         *)
(* The tick thread owns the board.  A tick handles the jobs (PlaceBubble), *)
(* then PlayTick burns the fuses, explodes the bubbles that are due in the *)
(* order of their array, moves the boxes, lets the players push, pick up   *)
(* and drop things, and fades the blasts.  Where the players are is left   *)
(* open: a step that needs somebody on a cell may be taken if the cell is  *)
(* one that can be stood on.  Cells are the inside of the map; the ring of *)
(* walls around it is whatever is not a cell.                              *)
(*                                                                         *)
(* A browser gets the tiles once, with WELCOME, and from then on only the  *)
(* events that change them.  They arrive in order and the board does not   *)
(* wait for the browser, so that they are applied to the copy at once; the *)
(* clock with which it ends a slide is its own.  No event is dropped (the  *)
(* cap per tick is not modelled).                                          *)
(***************************************************************************)
EXTENDS Integers, FiniteSets

CONSTANTS
  Width, Height,           \* MAP_W, MAP_H without the border
  Walls, Blocks, Boxes,    \* what Generate puts on the cells
  Owner,                   \* seats
  Limit,                   \* BUBBLE_BASE_COUNT + bubble_lv, the same for all
  Reach,                   \* BLAST_BASE_RANGE + power_lv, the same for all
  MaxBubble,               \* MAX_BUBBLE
  MaxSlide,                \* MAX_SLIDING_BOX
  FuseTicks,               \* BUBBLE_FUSE_TICKS
  ChainStep,               \* CHAIN_STEP_TICKS
  BlastTicks,              \* BLAST_DURATION_TICKS
  SlideTicks,              \* PUSH_SLIDE_TICKS
  MaxItem                  \* bound of the model: things drop up to here

Cell == (1 .. Width) \X (1 .. Height)
Index == 1 .. MaxBubble
Dir == {<<1, 0>>, <<-1, 0>>, <<0, 1>>, <<0, -1>>}
Ahead(c, d, k) == <<c[1] + k * d[1], c[2] + k * d[2]>>

ASSUME BoardAssumption ==
  /\ Walls \subseteq Cell /\ Blocks \subseteq Cell /\ Boxes \subseteq Cell
  /\ Walls \cap Blocks = {} /\ Walls \cap Boxes = {} /\ Blocks \cap Boxes = {}
  /\ IsFiniteSet(Owner)
  /\ Limit \in Nat \ {0} /\ Reach \in Nat \ {0}
  /\ MaxBubble \in Nat /\ MaxBubble >= Cardinality(Owner) * Limit
  /\ MaxSlide \in Nat /\ SlideTicks \in Nat \ {0} /\ BlastTicks \in Nat \ {0}
  /\ ChainStep \in Nat \ {0} /\ FuseTicks \in Nat \ {0} /\ MaxItem \in Nat

VARIABLES
  tile,      \* map.tile
  item,      \* the cells where item[][] is not ITEM_NONE
  blast,     \* blast[][], the ticks a cell stays covered
  bubble,    \* bubbles[]
  slide,     \* the entries of slides[] that are used
  pc,        \* where in the tick the tick thread is
  next,      \* the bubble UpdateBubbles looks at next
  seen,      \* the browser's G.tiles
  seenItem,  \* the cells where the browser's G.items has something
  gliding,   \* the browser's slides
  clock,     \* history: ticks since a bubble was placed, or first caught
  missed     \* history: the cells of which the browser may have a wrong idea: a box
             \* was leaving them when it came, or left them sooner than it thought

boardVars  == <<tile, item, blast, bubble, slide>>
clientVars == <<seen, seenItem, gliding>>
ghostVars  == <<clock, missed>>
vars == <<boardVars, pc, next, clientVars, ghostVars>>

Breakable == {"block", "box"}
Standable == {"empty", "bubble"}   \* whoever placed a bubble stands on it
NoBubble == [used |-> FALSE]
Bubble == [used : {TRUE}, owner : Owner, at : Cell, fuse : Int,
           range : {Reach}, chain : BOOLEAN]
Slide == [from : Cell, to : Cell, left : 1 .. SlideTicks]

Used == {k \in Index : bubble[k].used}
CountBubbles(o) == Cardinality({k \in Used : bubble[k].owner = o})
IsSliding(c) == \E s \in slide : c \in {s.from, s.to}

Dealt == [c \in Cell |-> IF c \in Walls THEN "wall" ELSE IF c \in Blocks THEN "block"
                         ELSE IF c \in Boxes THEN "box" ELSE "empty"]

Init ==
  /\ tile = Dealt /\ item = {} /\ blast = [c \in Cell |-> 0]
  /\ bubble = [k \in Index |-> NoBubble] /\ slide = {}
  /\ pc = "jobs" /\ next = 1
  /\ seen = Dealt /\ seenItem = {} /\ gliding = {}
  /\ clock = [k \in Index |-> 0] /\ missed = {}

-----------------------------------------------------------------------------
(* What an event does to the browser's copy.                               *)

OnBlock(cs) == [c \in Cell |-> IF c \in cs THEN "empty" ELSE seen[c]]
OnItemGone(items, cs) == items \ cs
OnDrop(items, cs) == items \cup cs
OnItem(c) == seenItem \ {c}

\* EVT.PUSH: the cell ahead holds the box at once, the cell it leaves until the
\* slide is over.
OnPush(b, n) ==
  /\ seen' = [seen EXCEPT ![n] = "box"]
  /\ gliding' = gliding \cup {[from |-> b, to |-> n]}

-----------------------------------------------------------------------------
(* Jobs.                                                                   *)

MayPlace(o, c) == tile[c] = "empty" /\ CountBubbles(o) < Limit

\* The first free entry; the range is fixed here.
PlaceBubble(o, c) ==
  /\ pc = "jobs"
  /\ MayPlace(o, c)
  /\ \E k \in Index \ Used :
       /\ \A j \in Index \ Used : k <= j
       /\ bubble' = [bubble EXCEPT ![k] =
            [used |-> TRUE, owner |-> o, at |-> c, fuse |-> FuseTicks, range |-> Reach, chain |-> FALSE]]
       /\ clock' = [clock EXCEPT ![k] = 0]
  /\ tile' = [tile EXCEPT ![c] = "bubble"]
  /\ UNCHANGED <<item, blast, slide, pc, next, clientVars, missed>>

\* A mutant of Restart: the browser keeps the slides of the old map.
RestartGlides ==
  /\ pc = "jobs"
  /\ tile' = Dealt /\ item' = {} /\ blast' = [c \in Cell |-> 0]
  /\ bubble' = [k \in Index |-> NoBubble] /\ slide' = {}
  /\ seen' = Dealt /\ seenItem' = {}
  /\ clock' = [k \in Index |-> 0] /\ missed' = {}
  /\ UNCHANGED <<pc, next, gliding>>

\* InitGame deals a new map, and WELCOME makes the browser start afresh.
Restart ==
  /\ pc = "jobs"
  /\ tile' = Dealt /\ item' = {} /\ blast' = [c \in Cell |-> 0]
  /\ bubble' = [k \in Index |-> NoBubble] /\ slide' = {}
  /\ seen' = Dealt /\ seenItem' = {} /\ gliding' = {}
  /\ clock' = [k \in Index |-> 0] /\ missed' = {}
  /\ UNCHANGED <<pc, next>>

Plain(t) == IF t = "bubble" THEN "empty" ELSE t

\* A browser comes in the middle of a round, or comes back: it is sent WELCOME and the
\* rows of the board as it is, but nothing of the slides that are under way.
Enter ==
  /\ pc = "jobs"
  /\ seen' = [c \in Cell |-> Plain(tile[c])] /\ seenItem' = item /\ gliding' = {}
  /\ missed' = {s.from : s \in slide}
  /\ UNCHANGED <<boardVars, pc, next, clock>>

-----------------------------------------------------------------------------
(* PlayTick.                                                               *)

\* UpdateBubbles first burns all the fuses ...
BurnFuses ==
  /\ pc = "jobs"
  /\ bubble' = [k \in Index |-> IF k \in Used THEN [bubble[k] EXCEPT !.fuse = @ - 1]
                                ELSE bubble[k]]
  /\ clock' = [k \in Index |-> IF k \in Used THEN clock[k] + 1 ELSE 0]
  /\ pc' = "explode"
  /\ UNCHANGED <<tile, item, blast, slide, next, clientVars, missed>>

\* The cells one bubble covers: along each direction up to its range, over
\* empty cells; the first that is not empty is the last covered, a wall is not.
Covered(b) ==
  {b.at} \cup
  {c \in Cell :
     /\ tile[c] # "wall"
     /\ \E d \in Dir, k \in 1 .. b.range :
          /\ c = Ahead(b.at, d, k)
          /\ \A j \in 1 .. k - 1 :
               Ahead(b.at, d, j) \in Cell /\ tile[Ahead(b.at, d, j)] = "empty"}

\* A mutant of Catch: a bubble further back in the array burns once more in
\* the same tick, as it would in a single loop.
CatchOneLoop(o, k) ==
  IF o.chain THEN o
  ELSE [o EXCEPT !.fuse = ChainStep - (IF k > next THEN 1 ELSE 0), !.chain = TRUE]

\* What a blast does to bubble k: it shortens or prolongs its fuse, once.  Of the
\* place in the chain only chain > 0 is kept; the number is for show.
Catch(o, k) ==
  IF o.chain THEN o
  ELSE [o EXCEPT !.fuse = ChainStep, !.chain = TRUE]

\* Explode: open the cell, cover (which sweeps items away), break, catch.
Explode(i) ==
  LET b == bubble[i]
      hit == Covered(b)
      broken == {c \in hit : tile[c] \in Breakable}
  IN /\ tile' = [c \in Cell |-> IF c = b.at \/ c \in broken THEN "empty" ELSE tile[c]]
     /\ blast' = [c \in Cell |-> IF c \in hit THEN BlastTicks ELSE blast[c]]
     /\ \E drops \in SUBSET broken :
          /\ item' = (item \ hit) \cup drops
          /\ drops = {} \/ Cardinality(item') <= MaxItem
          /\ seenItem' = OnDrop(OnItemGone(seenItem, item \cap hit), drops)
     /\ bubble' = [k \in Index |->
          IF k = i THEN NoBubble
          ELSE IF k \in Used /\ bubble[k].at \in hit THEN Catch(bubble[k], k)
          ELSE bubble[k]]
     /\ seen' = OnBlock(broken)

\* ... and then explodes those that are due, in the order of the array.
UpdateBubble ==
  /\ pc = "explode"
  /\ next \in Index
  /\ IF next \in Used /\ bubble[next].fuse <= 0
     THEN /\ Explode(next)
          /\ clock' = [k \in Index |->
               IF k = next \/ (bubble'[k] # bubble[k] /\ ~bubble[k].chain) THEN 0 ELSE clock[k]]
     ELSE UNCHANGED <<tile, blast, item, bubble, seen, seenItem, clock>>
  /\ next' = next + 1
  /\ UNCHANGED <<slide, pc, gliding, missed>>

\* A mutant of StepSlidingBoxes: it empties the cell whatever is on it.
StepSlidingBoxesBlind ==
  /\ pc = "explode" /\ next \notin Index
  /\ LET done == {s \in slide : s.left = 1} IN
       /\ slide' = {[s EXCEPT !.left = @ - 1] : s \in slide \ done}
       /\ tile' = [c \in Cell |-> IF \E s \in done : s.from = c THEN "empty" ELSE tile[c]]
       /\ missed' = missed \cup {s.from : s \in {d \in done : [from |-> d.from, to |-> d.to] \in gliding}}
  /\ pc' = "players" /\ next' = 1
  /\ UNCHANGED <<item, blast, bubble, clientVars, clock>>

\* A slide that is over empties the cell it left, if the box is still there.
StepSlidingBoxes ==
  /\ pc = "explode" /\ next \notin Index
  /\ LET done == {s \in slide : s.left = 1} IN
       /\ slide' = {[s EXCEPT !.left = @ - 1] : s \in slide \ done}
       /\ tile' = [c \in Cell |->
            IF \E s \in done : s.from = c /\ tile[c] = "box" THEN "empty" ELSE tile[c]]
       /\ missed' = missed \cup {s.from : s \in {d \in done : [from |-> d.from, to |-> d.to] \in gliding}}
  /\ pc' = "players" /\ next' = 1
  /\ UNCHANGED <<item, blast, bubble, clientVars, clock>>

\* Somebody beside box b has leaned on it long enough, and nobody is in the
\* way.  The box blocks both cells until the slide is over.
TryPushBox(b, d) ==
  LET n == Ahead(b, d, 1) IN
  /\ pc = "players"
  /\ Ahead(b, d, -1) \in Cell /\ tile[Ahead(b, d, -1)] \in Standable
  /\ tile[b] = "box" /\ ~IsSliding(b)
  /\ n \in Cell /\ tile[n] = "empty" /\ ~IsSliding(n)
  /\ Cardinality(slide) < MaxSlide
  /\ tile' = [tile EXCEPT ![n] = "box"]
  /\ slide' = slide \cup {[from |-> b, to |-> n, left |-> SlideTicks]}
  /\ OnPush(b, n)
  /\ UNCHANGED <<item, blast, bubble, pc, next, seenItem, ghostVars>>

PickUpItem(c) ==
  /\ pc = "players"
  /\ c \in item /\ tile[c] \in Standable
  /\ item' = item \ {c} /\ seenItem' = OnItem(c)
  /\ UNCHANGED <<tile, blast, bubble, slide, pc, next, seen, gliding, ghostVars>>

\* DropItemNear: loot of a dead player or the last supply, on a free cell.
DropItem(c) ==
  /\ pc = "players"
  /\ tile[c] = "empty" /\ c \notin item
  /\ Cardinality(item) < MaxItem
  /\ item' = item \cup {c} /\ seenItem' = OnDrop(seenItem, {c})
  /\ UNCHANGED <<tile, blast, bubble, slide, pc, next, seen, gliding, ghostVars>>

FadeBlasts ==
  /\ pc = "players"
  /\ blast' = [c \in Cell |-> IF blast[c] > 0 THEN blast[c] - 1 ELSE 0]
  /\ pc' = "jobs"
  /\ missed' = {c \in missed : \/ seen[c] # Plain(tile[c])
                             \/ IsSliding(c) \/ \E g \in gliding : g.from = c}
  /\ UNCHANGED <<tile, item, bubble, slide, next, clientVars, clock>>

-----------------------------------------------------------------------------
(* The browser.                                                            *)

\* frame() finds that a slide is over by its clock.
EndSlide(g) ==
  /\ gliding' = gliding \ {g}
  /\ seen' = [seen EXCEPT ![g.from] = IF @ = "box" THEN "empty" ELSE @]
  /\ UNCHANGED <<boardVars, pc, next, seenItem, ghostVars>>

Next ==
  \/ \E o \in Owner, c \in Cell : PlaceBubble(o, c)
  \/ Restart \/ Enter
  \/ BurnFuses \/ UpdateBubble \/ StepSlidingBoxes
  \/ \E b \in Cell, d \in Dir : TryPushBox(b, d)
  \/ \E c \in Cell : PickUpItem(c) \/ DropItem(c)
  \/ FadeBlasts
  \/ \E g \in gliding : EndSlide(g)

Spec == Init /\ [][Next]_vars

-----------------------------------------------------------------------------

TypeOK ==
  /\ tile \in [Cell -> {"empty", "wall", "block", "box", "bubble"}]
  /\ item \subseteq Cell
  /\ blast \in [Cell -> 0 .. BlastTicks]
  /\ bubble \in [Index -> Bubble \cup {NoBubble}]
  /\ slide \subseteq Slide
  /\ pc \in {"jobs", "explode", "players"} /\ next \in 1 .. MaxBubble + 1
  /\ seen \in [Cell -> {"empty", "wall", "block", "box"}]
  /\ seenItem \subseteq Cell /\ gliding \subseteq [from : Cell, to : Cell]
  /\ missed \subseteq Cell

\* Tiles and arrays tell the same story, though each is changed in its own
\* places: a bubble tile is the tile of one bubble, whatever is pushed, broken or
\* placed around it, and no two boxes on the move share a cell.
TilesInv ==
  /\ TypeOK
  /\ \A k \in Used : tile[bubble[k].at] = "bubble"
  /\ \A c \in Cell : tile[c] = "bubble" => Cardinality({k \in Used : bubble[k].at = c}) = 1
  /\ \A s, t \in slide : s # t => {s.from, s.to} \cap {t.from, t.to} = {}
  /\ Cardinality(slide) <= MaxSlide

\* A chain goes off step by step whatever the order of the array: a bubble a
\* blast has reached explodes ChainStep ticks after it, no sooner and no later,
\* any other when its own fuse is out; and since it is caught only once, no
\* chain keeps a bubble alive for ever.
ChainRhythm ==
  \A k \in Used :
    /\ bubble[k].fuse = (IF bubble[k].chain THEN ChainStep ELSE FuseTicks) - clock[k]
    /\ pc # "explode" => bubble[k].fuse > 0

\* The browser, who only hears of changes, has the board of the server, the
\* items on it included: the cell a box is leaving is the only one he may see empty
\* too early.  (Two cells are known to go wrong: if a slide ends on the server first,
\* a box pushed into that cell at once is taken for the one that left; and who comes
\* during a slide keeps a box on the cell it left.)
BoardsAgree ==
  /\ seenItem = item
  /\ \A c \in Cell \ missed :
       \/ seen[c] = Plain(tile[c])
       \/ /\ seen[c] = "empty" /\ tile[c] = "box"
          /\ \E s \in slide : s.from = c /\ [from |-> s.from, to |-> s.to] \notin gliding

=============================================================================
