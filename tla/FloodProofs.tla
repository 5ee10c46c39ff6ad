------------------------------ MODULE FloodProofs ------------------------------
(*****************************************************************************)
(* That the water kills exactly Escape ticks after one got wet, that what is *)
(* left of the map hangs together, that a round comes to its end, and that   *)
(* the screen and the table of a page are true of it: for any size of the    *)
(* map, any schedule of the stages, any step of the ring and any number of   *)
(* players.                                                                  *)
(*****************************************************************************)
EXTENDS Page, FiniteSetTheorems, SequenceTheorems, TLAPS

\* EscapeTime is not inductive by itself: that the clock is at 0 only for those who are
\* dry follows from nobody having been wet for longer than Escape ticks; and what a tick
\* does depends on the phase.
EscapeInv ==
  /\ phase \in {"COUNTDOWN", "PLAYING", "OVER"}
  /\ alive \subseteq Player
  /\ floodTicks \in [Player -> Nat]
  /\ wetFor \in [Player -> Nat]
  /\ \A p \in alive : wetFor[p] <= Escape
  /\ EscapeTime

-----------------------------------------------------------------------------

\* Nobody is wet when the server starts.
LEMMA EscapeInit == Init => EscapeInv
  BY FloodAssumption DEF Init, ServerInit, EscapeInv, EscapeTime, Nothing

\* One tick of the water for one living player.
LEMMA SoakedOnce ==
  ASSUME EscapeInv, NEW inside \in SUBSET alive, NEW p \in alive,
         p \in inside => floodTicks[p] # 1
  PROVE  LET w == IF p \in inside THEN wetFor[p] + 1 ELSE 0
         IN  /\ Soaked(p, inside) \in Nat
             /\ w \in Nat /\ w <= Escape
             /\ Soaked(p, inside) = IF w = 0 THEN 0 ELSE Escape + 1 - w
<1>1. /\ p \in Player /\ floodTicks[p] \in Nat /\ wetFor[p] \in Nat
      /\ wetFor[p] <= Escape
      /\ floodTicks[p] = IF wetFor[p] = 0 THEN 0 ELSE Escape + 1 - wetFor[p]
  BY DEF EscapeInv, EscapeTime
<1>2. Escape \in Nat \ {0}
  BY FloodAssumption
<1>3. CASE p \notin inside
  BY <1>1, <1>2, <1>3 DEF Soaked
<1>4. CASE p \in inside
  BY <1>1, <1>2, <1>4 DEF Soaked
<1> QED
  BY <1>3, <1>4

\* A tick of the round.
LEMMA EscapePlay ==
  ASSUME EscapeInv, NEW pop \in SUBSET Pops, NEW I \in SUBSET (alive \ {q[1] : q \in pop}),
         PlayTick(pop, I), phase' \in {"COUNTDOWN", "PLAYING", "OVER"}
  PROVE  EscapeInv'
<1> DEFINE fought == {q[1] : q \in pop}
<1>1. I \in SUBSET alive /\ alive \subseteq Player
  BY DEF EscapeInv
<1>2. /\ alive' = alive \ (fought \cup Drowned(I))
      /\ floodTicks' = [p \in Player |-> IF p \in alive' THEN Soaked(p, I) ELSE 0]
      /\ wetFor' = [p \in Player |-> IF p \in I \ Drowned(I) THEN wetFor[p] + 1 ELSE 0]
  BY DEF PlayTick
<1>3. alive' \subseteq alive
  BY <1>2
<1>4. ASSUME NEW p \in alive'
      PROVE  LET w == IF p \in I THEN wetFor[p] + 1 ELSE 0
             IN  /\ Soaked(p, I) \in Nat /\ w \in Nat /\ w <= Escape
                 /\ Soaked(p, I) = IF w = 0 THEN 0 ELSE Escape + 1 - w
  <2>1. p \in alive /\ p \notin Drowned(I)
    BY <1>2
  <2>2. p \in I => floodTicks[p] # 1
    BY <2>1 DEF Drowned
  <2> QED
    BY <1>1, <2>1, <2>2, SoakedOnce
<1>5. \A p \in alive' : (p \in I \ Drowned(I)) <=> p \in I
  BY <1>2
<1>6. floodTicks' \in [Player -> Nat]
  BY <1>2, <1>4
<1>7. wetFor' \in [Player -> Nat]
  BY <1>2 DEF EscapeInv
<1>8. \A p \in alive' : /\ floodTicks'[p] = Soaked(p, I)
                        /\ wetFor'[p] = IF p \in I THEN wetFor[p] + 1 ELSE 0
  BY <1>1, <1>2, <1>3, <1>5
<1>9. \A p \in alive' : wetFor'[p] <= Escape
  BY <1>4, <1>8
<1>10. EscapeTime'
  BY <1>4, <1>8 DEF EscapeTime
<1> QED
  BY <1>1, <1>3, <1>6, <1>7, <1>9, <1>10 DEF EscapeInv

\* What a tick of the server makes of the clocks.
LEMMA EscapeTick == EscapeInv /\ ServerTick => EscapeInv'
<1> SUFFICES ASSUME EscapeInv, ServerTick PROVE EscapeInv'
  OBVIOUS
<1>1. CASE StartPlay
  BY <1>1 DEF StartPlay, historyVars, EscapeInv, EscapeTime
<1>2. CASE Play
  <2>1. PICK pop \in {{}} \cup {{q} : q \in Pops} :
        \E I \in Insides(alive \ {q[1] : q \in pop}, sector', ring') :
          /\ PlayTick(pop, I)
          /\ phase' = IF Cardinality(alive') <= 1 THEN "OVER" ELSE "PLAYING"
    BY <1>2 DEF Play
  <2>2. PICK I \in Insides(alive \ {q[1] : q \in pop}, sector', ring') :
          /\ PlayTick(pop, I)
          /\ phase' = IF Cardinality(alive') <= 1 THEN "OVER" ELSE "PLAYING"
    BY <2>1
  <2>3. I \in SUBSET (alive \ {q[1] : q \in pop})
    BY DEF Insides
  <2>4. pop \in SUBSET Pops
    OBVIOUS
  <2> QED
    BY <2>2, <2>3, <2>4, EscapePlay
<1>3. CASE NextRound
  BY <1>3, FloodAssumption DEF NextRound, RestartGame, EscapeInv, EscapeTime, Nothing
<1> QED
  BY <1>1, <1>2, <1>3 DEF ServerTick

\* Nothing but a tick of the server touches the clocks.
LEMMA EscapeStep == EscapeInv /\ [Next]_vars => EscapeInv'
<1> SUFFICES ASSUME EscapeInv, [Next]_vars PROVE EscapeInv'
  OBVIOUS
<1>1. CASE Tick
  BY <1>1, EscapeTick DEF Tick
<1>2. CASE UNCHANGED serverVars
  BY <1>2 DEF serverVars, historyVars, EscapeInv, EscapeTime
<1>3. CASE Arrive
  BY <1>2, <1>3 DEF Arrive, Connect
<1>4. CASE Leave
  BY <1>2, <1>4 DEF Leave, Close
<1>5. CASE Receive
  BY <1>2, <1>5 DEF Receive
<1>6. CASE SpecShift \/ Frame \/ UNCHANGED vars
  BY <1>2, <1>6 DEF SpecShift, Frame, vars
<1> QED
  BY <1>1, <1>3, <1>4, <1>5, <1>6 DEF Next

\* "Nobody dies at once" (Flood.h:7): for every map and every schedule of the flood, who
\* stands in the water has exactly the time that is left of Escape ticks, and the whole
\* of it again when he has been out of it.
THEOREM EscapeAlways == Spec => []EscapeTime
<1>1. EscapeInv => EscapeTime
  BY DEF EscapeInv
<1> QED
  BY EscapeInit, EscapeStep, <1>1, PTL DEF Spec

-----------------------------------------------------------------------------
(* The stages of the flood.                                                 *)

Last == Len(Count)
From == CHOOSE from \in [0 .. Last -> 0 .. 8] :
          /\ from[0] = 0 /\ from[Last] = 8
          /\ \A s \in Stage : from[s] = from[s - 1] + Count[s]
Outer == Sector \ {Middle}

\* FloodStageRange: where a stage begins in flood_order (Flood.h:108-113).
LEMMA FromFacts ==
  /\ Last \in Nat /\ Stage = 1 .. Last
  /\ From \in [0 .. Last -> 0 .. 8] /\ From[0] = 0 /\ From[Last] = 8
  /\ \A s \in Stage : From[s] = From[s - 1] + Count[s]
  /\ Last \in Stage
<1>1. Last \in Nat /\ Stage = 1 .. Last
  BY FloodAssumption DEF Last, Stage
<1>2. \E from \in [0 .. Last -> 0 .. 8] :
          /\ from[0] = 0 /\ from[Last] = 8
          /\ \A s \in Stage : from[s] = from[s - 1] + Count[s]
  BY FloodAssumption DEF Last
<1>3. /\ From \in [0 .. Last -> 0 .. 8] /\ From[0] = 0 /\ From[Last] = 8
      /\ \A s \in Stage : From[s] = From[s - 1] + Count[s]
  BY <1>2 DEF From
<1>4. Last # 0
  BY <1>3
<1> QED
  BY <1>1, <1>3, <1>4

\* What is known of the schedule (GameConstants.h:281-291, copied by InitGame).
LEMMA Schedule ==
  \A s \in Stage : /\ s \in Nat /\ Warn[s] \in Nat /\ Fill[s] \in Nat
                  /\ 0 < Warn[s] /\ Warn[s] < Fill[s]
                  /\ \A q \in Stage : s < q => Warn[s] < Warn[q] /\ Fill[s] < Fill[q]
  BY FloodAssumption, FromFacts

\* The last stage to be warned of is the last to fill.
LEMMA LastFillFacts ==
  /\ LastFill \in Nat \ {0} /\ LastFill = Fill[Last]
  /\ \A s \in Stage : Fill[s] <= LastFill /\ Warn[s] < LastFill
<1>1. \A s \in Stage : Fill[s] \in Nat /\ Warn[s] \in Nat /\ Warn[s] < Fill[s] /\ 0 < Warn[s]
  BY Schedule
<1>2. ASSUME NEW s \in Stage PROVE Fill[s] <= Fill[Last]
  <2>1. s = Last \/ s < Last
    BY FromFacts
  <2> QED
    BY <1>1, <2>1, FromFacts, Schedule
<1> DEFINE m == CHOOSE s \in Stage : \A q \in Stage : Fill[q] <= Fill[s]
<1>3. m \in Stage /\ \A q \in Stage : Fill[q] <= Fill[m]
  BY <1>2, FromFacts
<1>4. LastFill = Fill[m]
  BY DEF LastFill
<1> HIDE DEF m
<1>5. Fill[m] = Fill[Last]
  BY <1>1, <1>2, <1>3, FromFacts
<1> QED
  BY <1>1, <1>2, <1>4, <1>5, FromFacts

\* flood_order as far as it has come.
StageInv ==
  /\ tick \in Nat
  /\ flooding \in Seq(SUBSET Outer) /\ Len(flooding) <= Last
  /\ \A s \in Stage : s <= Len(flooding) <=> Warn[s] <= tick
  /\ \A s \in 1 .. Len(flooding) :
       \/ flooding[s] \subseteq Corners
       \/ \A c \in Corners : \E q \in 1 .. s : c \in flooding[q]
  /\ Cardinality(Taken) = From[Len(flooding)]

\* A sector is under water from the time on when its stage fills.
SectorInv ==
  /\ sector \in [Sector -> {"open", "warning", "flooded"}]
  /\ \A q \in Sector :
       sector[q] = "flooded" <=> \E s \in 1 .. Len(flooding) : q \in flooding[s] /\ Fill[s] <= tick

FlowInv == StageInv /\ SectorInv

\* No sector but the middle stays, and it does.
LEMMA OuterFacts ==
  /\ IsFiniteSet(Outer) /\ Cardinality(Outer) = 8
  /\ Outer = Corners \cup {1, 3, 5, 7} /\ Sector = Outer \cup {Middle} /\ Middle \notin Outer
<1>1. IsFiniteSet(Sector) /\ Cardinality(Sector) = 9
  <2>1. \A b \in Nat : IsFiniteSet(0 .. b) /\ Cardinality(0 .. b) = b + 1
    BY FS_Interval
  <2> DEFINE n == 8
  <2>2. n \in Nat /\ n + 1 = 9 /\ Sector = 0 .. n
    BY DEF Sector
  <2> HIDE DEF n
  <2>3. IsFiniteSet(0 .. n) /\ Cardinality(0 .. n) = n + 1
    BY <2>1, <2>2
  <2> QED
    BY <2>2, <2>3
<1>2. Middle \in Sector
  BY DEF Sector, Middle
<1>3. IsFiniteSet(Outer) /\ Cardinality(Outer) = 8
  BY <1>1, <1>2, FS_RemoveElement DEF Outer
<1>4. Outer = Corners \cup {1, 3, 5, 7}
  BY DEF Outer, Sector, Corners, Middle
<1> QED
  BY <1>2, <1>3, <1>4 DEF Outer

\* Nobody is flooded before the round, and no sector is in the order.
BeforeFlood == tick = 0 /\ flooding = <<>> /\ sector = Dry

\* In a new round no sector is warned of and none is under water (Game.h:263-329).
LEMMA FlowDry == BeforeFlood => FlowInv
<1> SUFFICES ASSUME tick = 0, flooding = <<>>, sector = Dry PROVE FlowInv
  BY DEF BeforeFlood
<1>1. Len(<<>>) = 0 /\ <<>> \in Seq(SUBSET Outer)
  OBVIOUS
<1>2. Taken = {}
  BY <1>1 DEF Taken
<1>3. Cardinality(Taken) = From[Len(flooding)]
  BY <1>1, <1>2, FromFacts, FS_EmptySet
<1>4. \A s \in Stage : ~(s <= Len(flooding)) /\ ~(Warn[s] <= tick)
  BY <1>1, FromFacts, FloodAssumption
<1>5. StageInv
  BY <1>1, <1>3, <1>4, FromFacts DEF StageInv
<1>6. SectorInv
  BY <1>1 DEF SectorInv, Dry
<1> QED
  BY <1>5, <1>6 DEF FlowInv

\* The sectors that were warned of are outer ones.
LEMMA TakenFacts ==
  ASSUME StageInv
  PROVE  /\ Taken \in SUBSET Outer /\ IsFiniteSet(Taken)
         /\ \A q : q \in Taken <=> \E s \in 1 .. Len(flooding) : q \in flooding[s]
<1>1. /\ DOMAIN flooding = 1 .. Len(flooding)
      /\ \A s \in 1 .. Len(flooding) : flooding[s] \in SUBSET Outer
  BY DEF StageInv
<1>2. \A q : q \in Taken <=> \E s \in 1 .. Len(flooding) : q \in flooding[s]
  BY <1>1 DEF Taken
<1>3. Taken \in SUBSET Outer
  BY <1>1, <1>2
<1> QED
  BY <1>2, <1>3, OuterFacts, FS_Subset

\* One tick of the schedule: at most the next stage is warned of, and at most one fills.
LEMMA FlowTick ==
  ASSUME FlowInv, tick' = tick + 1, SectorStates(tick')
  PROVE  FlowInv'
<1> DEFINE t == tick + 1
           L == Len(flooding)
<1>1. /\ t \in Nat /\ tick' = t /\ L \in Nat /\ L <= Last /\ tick \in Nat
      /\ flooding \in Seq(SUBSET Outer) /\ DOMAIN flooding = 1 .. L
      /\ \A s \in 1 .. L : flooding[s] \in SUBSET Outer
  BY DEF FlowInv, StageInv
<1>2. \A s \in Stage : s \in Nat /\ Warn[s] \in Nat /\ Fill[s] \in Nat /\ Warn[s] < Fill[s]
  BY FromFacts, FloodAssumption
<1>3. \A q : q \in Flooded(t) <=> \E s \in 1 .. L : q \in flooding[s] /\ Fill[s] = t
  BY <1>1 DEF Flooded
<1>4. \A q : q \in Taken <=> \E s \in 1 .. L : q \in flooding[s]
  BY TakenFacts DEF FlowInv
<1>5. CASE \E s \in Stage : Warn[s] = t
  <2> DEFINE new == CHOOSE s \in Stage : Warn[s] = t
  <2>1. new \in Stage /\ Warn[new] = t
    BY <1>5
  <2>2. PICK S \in SUBSET Sector :
          /\ Order(S, new)
          /\ flooding' = Append(flooding, S)
          /\ sector' = [q \in Sector |-> IF q \in Flooded(t) THEN "flooded"
                                         ELSE IF q \in S THEN "warning" ELSE sector[q]]
    BY <1>1, <1>5 DEF SectorStates
  <2> HIDE DEF new
  <2>3. new = L + 1
    <3>1. ~(new <= L)
      BY <1>1, <2>1 DEF FlowInv, StageInv
    <3>2. L + 1 \in Stage
      BY <1>1, <2>1, <3>1, FromFacts
    <3>3. ~(L + 1 < new)
      <4> SUFFICES ASSUME L + 1 < new PROVE FALSE
        OBVIOUS
      <4>1. Warn[L + 1] < Warn[new]
        BY <2>1, <3>2, FloodAssumption
      <4>2. Warn[L + 1] <= tick
        BY <1>1, <1>2, <2>1, <3>2, <4>1
      <4> QED
        BY <1>1, <3>2, <4>2 DEF FlowInv, StageInv
    <3> QED
      BY <1>1, <1>2, <2>1, <3>1, <3>3
  <2>4. /\ S \subseteq Outer /\ S \cap Taken = {} /\ Cardinality(S) = Count[new]
        /\ Corners \subseteq Taken \cup S \/ S \subseteq Corners
    BY <2>2 DEF Order, Outer
  <2>5. /\ flooding' \in Seq(SUBSET Outer) /\ Len(flooding') = L + 1
        /\ DOMAIN flooding' = 1 .. L + 1
        /\ flooding'[L + 1] = S /\ \A s \in 1 .. L : flooding'[s] = flooding[s]
    BY <1>1, <2>2, <2>4
  <2>6. Len(flooding') <= Last
    BY <2>1, <2>3, <2>5, FromFacts
  <2>7. \A s \in Stage : s <= Len(flooding') <=> Warn[s] <= tick'
    <3> TAKE s \in Stage
    <3>1. CASE s <= L
      BY <1>1, <1>2, <2>5, <3>1 DEF FlowInv, StageInv
    <3>2. CASE s = L + 1
      BY <1>1, <1>2, <2>1, <2>3, <2>5, <3>2
    <3>3. CASE s > L + 1
      <4>1. Warn[new] < Warn[s]
        BY <2>1, <2>3, <3>3, FloodAssumption
      <4> QED
        BY <1>1, <1>2, <2>1, <2>5, <3>3, <4>1
    <3> QED
      BY <1>1, <1>2, <3>1, <3>2, <3>3
  <2>8. ASSUME NEW s \in 1 .. Len(flooding')
        PROVE  \/ flooding'[s] \subseteq Corners
               \/ \A c \in Corners : \E q \in 1 .. s : c \in flooding'[q]
    <3>1. CASE s \in 1 .. L
      BY <1>1, <2>5, <3>1 DEF FlowInv, StageInv
    <3>2. CASE s = L + 1
      <4>1. CASE S \subseteq Corners
        BY <2>5, <3>2, <4>1
      <4>2. CASE Corners \subseteq Taken \cup S
        <5>1. ASSUME NEW c \in Corners PROVE \E q \in 1 .. s : c \in flooding'[q]
          <6>1. CASE c \in S
            BY <1>1, <2>5, <3>2, <6>1
          <6>2. CASE c \in Taken
            BY <1>1, <1>4, <2>5, <3>2, <6>2
          <6> QED
            BY <4>2, <6>1, <6>2
        <5> QED
          BY <5>1
      <4> QED
        BY <2>4, <4>1, <4>2
    <3> QED
      BY <1>1, <2>5, <3>1, <3>2
  <2>9. Taken' = Taken \cup S
    <3>1. \A q : q \in Taken' <=> \E s \in 1 .. L + 1 : q \in flooding'[s]
      BY <2>5 DEF Taken
    <3>2. \A q : q \in Taken' <=> q \in Taken \/ q \in S
      BY <1>1, <1>4, <2>5, <3>1
    <3> QED
      BY <3>2
  <2>10. Cardinality(Taken') = From[Len(flooding')]
    <3>1. IsFiniteSet(S) /\ IsFiniteSet(Taken)
      BY <2>4, TakenFacts, OuterFacts, FS_Subset DEF FlowInv
    <3>2. Cardinality(Taken \cup S) = Cardinality(Taken) + Cardinality(S) - Cardinality(Taken \cap S)
      BY <3>1, FS_Union
    <3>3. Cardinality(Taken \cap S) = 0
      <4>1. Taken \cap S = {}
        BY <2>4
      <4> QED
        BY <4>1, FS_EmptySet
    <3>4. From[L + 1] = From[L] + Count[new]
      BY <1>1, <2>1, <2>3, FromFacts
    <3>5. Cardinality(Taken) = From[L]
      BY DEF FlowInv, StageInv
    <3>6. Cardinality(S) \in Nat /\ Cardinality(Taken) \in Nat
      BY <3>1, FS_CardinalityType
    <3> QED
      BY <2>4, <2>5, <2>9, <3>2, <3>3, <3>4, <3>5, <3>6
  <2>11. StageInv'
    BY <1>1, <2>5, <2>6, <2>7, <2>8, <2>10 DEF StageInv
  <2>12. SectorInv'
    <3>1. \A q \in Sector : sector'[q] = IF q \in Flooded(t) THEN "flooded"
                                         ELSE IF q \in S THEN "warning" ELSE sector[q]
      BY <2>2
    <3>2. sector' \in [Sector -> {"open", "warning", "flooded"}]
      BY <2>2 DEF FlowInv, SectorInv
    <3>3. ASSUME NEW q \in Sector
          PROVE  sector'[q] = "flooded" <=> \E s \in 1 .. Len(flooding') : q \in flooding'[s] /\ Fill[s] <= tick'
      <4>1. Fill[L + 1] > t
        BY <1>2, <2>1, <2>3
      <4>2. (\E s \in 1 .. L + 1 : q \in flooding'[s] /\ Fill[s] <= t)
              <=> \E s \in 1 .. L : q \in flooding[s] /\ Fill[s] <= t
        BY <1>1, <1>2, <2>1, <2>3, <2>5, <4>1
      <4>3. (\E s \in 1 .. L : q \in flooding[s] /\ Fill[s] <= t)
              <=> q \in Flooded(t) \/ sector[q] = "flooded"
        <5>1. \A s \in 1 .. L : Fill[s] \in Nat
          BY <1>1, <1>2, FromFacts
        <5> QED
          BY <1>1, <1>3, <5>1 DEF FlowInv, SectorInv
      <4>4. sector[q] = "flooded" => q \notin S
        BY <1>4, <2>4 DEF FlowInv, SectorInv
      <4> QED
        BY <1>1, <2>5, <3>1, <4>2, <4>3, <4>4
    <3> QED
      BY <3>2, <3>3 DEF SectorInv
  <2> QED
    BY <2>11, <2>12 DEF FlowInv
<1>6. CASE ~\E s \in Stage : Warn[s] = t
  <2>1. /\ flooding' = flooding
        /\ sector' = [q \in Sector |-> IF q \in Flooded(t) THEN "flooded" ELSE sector[q]]
    BY <1>1, <1>6 DEF SectorStates
  <2>2. \A s \in Stage : Warn[s] <= t <=> Warn[s] <= tick
    BY <1>1, <1>2, <1>6
  <2>3. Taken' = Taken
    BY <2>1 DEF Taken
  <2>4. StageInv'
    BY <1>1, <2>1, <2>2, <2>3 DEF FlowInv, StageInv
  <2>5. SectorInv'
    <3>1. sector' \in [Sector -> {"open", "warning", "flooded"}]
      BY <2>1 DEF FlowInv, SectorInv
    <3>2. \A s \in 1 .. L : Fill[s] \in Nat
      BY <1>1, <1>2, FromFacts
    <3>3. ASSUME NEW q \in Sector
          PROVE  sector'[q] = "flooded" <=> \E s \in 1 .. L : q \in flooding[s] /\ Fill[s] <= t
      BY <1>1, <1>3, <2>1, <3>2 DEF FlowInv, SectorInv
    <3> QED
      BY <1>1, <2>1, <3>1, <3>3 DEF SectorInv
  <2> QED
    BY <2>4, <2>5 DEF FlowInv
<1> QED
  BY <1>5, <1>6

\* What the server's tick does to the water.
LEMMA FlowStep == FlowInv /\ [Next]_vars => FlowInv'
<1> SUFFICES ASSUME FlowInv, [Next]_vars PROVE FlowInv'
  OBVIOUS
<1>1. ASSUME tick' = tick, flooding' = flooding, sector' = sector PROVE FlowInv'
  BY <1>1 DEF FlowInv, StageInv, SectorInv, Taken
<1>2. CASE UNCHANGED serverVars
  BY <1>1, <1>2 DEF serverVars, floodVars
<1>3. CASE Tick
  <2>1. CASE StartPlay
    BY <1>1, <2>1 DEF StartPlay, floodVars
  <2>2. CASE Play
    <3>1. tick' = tick + 1 /\ SectorStates(tick')
      BY <2>2 DEF Play, Rise
    <3> QED
      BY <3>1, FlowTick
  <2>3. CASE NextRound
    <3>1. BeforeFlood'
      BY <2>3 DEF NextRound, RestartGame, BeforeFlood, Dry
    <3>2. BeforeFlood' => FlowInv'
      BY FlowDry, PTL
    <3> QED
      BY <3>1, <3>2
  <2> QED
    BY <1>3, <2>1, <2>2, <2>3 DEF Tick, ServerTick
<1>4. CASE Arrive \/ Leave \/ Receive \/ SpecShift \/ Frame \/ UNCHANGED vars
  BY <1>2, <1>4 DEF Arrive, Connect, Leave, Close, Receive, SpecShift, Frame, vars
<1> QED
  BY <1>3, <1>4 DEF Next

\* The corners go first: an edge is under water only when they are.
LEMMA FlowConnects == FlowInv => LandConnected
<1> SUFFICES ASSUME FlowInv PROVE LandConnected
  OBVIOUS
<1> DEFINE left == {s \in Sector : sector[s] # "flooded"}
           Edge == {1, 3, 5, 7}
<1>1. \A s \in 1 .. Len(flooding) : flooding[s] \in SUBSET Outer /\ s \in Stage /\ Fill[s] \in Nat
  <2>1. flooding \in Seq(SUBSET Outer) /\ Len(flooding) \in Nat /\ Len(flooding) <= Last
    BY DEF FlowInv, StageInv
  <2>2. \A s \in 1 .. Len(flooding) : s \in Stage
    BY <2>1, FromFacts
  <2> QED
    BY <2>1, <2>2, Schedule
<1>2. Middle \in left
  BY <1>1, OuterFacts DEF FlowInv, SectorInv
<1>3. ASSUME NEW e \in Edge, sector[e] = "flooded", NEW c \in Corners
      PROVE  sector[c] = "flooded"
  <2>1. e \in Sector /\ c \in Sector /\ e \notin Corners
    BY DEF Sector, Corners
  <2>2. PICK s \in 1 .. Len(flooding) : e \in flooding[s] /\ Fill[s] <= tick
    BY <1>3, <2>1 DEF FlowInv, SectorInv
  <2>3. PICK q \in 1 .. s : c \in flooding[q]
    BY <2>1, <2>2 DEF FlowInv, StageInv
  <2>4. q \in 1 .. Len(flooding) /\ q <= s /\ s \in Stage /\ q \in Stage
    BY <1>1, <2>2, <2>3 DEF FlowInv, StageInv
  <2>5. Fill[q] <= Fill[s] /\ Fill[q] \in Nat /\ Fill[s] \in Nat
    <3>1. q < s \/ q = s
      BY <2>4, Schedule
    <3> QED
      BY <2>4, <3>1, Schedule
  <2>6. Fill[q] <= tick
    BY <2>2, <2>5 DEF FlowInv, StageInv
  <2> QED
    BY <2>1, <2>3, <2>4, <2>6 DEF FlowInv, SectorInv
<1>4. \A e \in Edge : Adjacent(e, Middle)
  BY DEF Adjacent, Middle
<1>5. \A c \in Corners : \E e \in Edge : Adjacent(c, e) /\ Adjacent(e, Middle)
  BY DEF Adjacent, Middle, Corners
<1>6. \A e \in Edge : e \in Sector
  BY DEF Sector
<1>7. ASSUME NEW s \in left \ {Middle}
      PROVE  Adjacent(s, Middle) \/ \E e \in left : Adjacent(s, e) /\ Adjacent(e, Middle)
  <2>1. s \in Edge \/ s \in Corners
    BY OuterFacts
  <2>2. CASE s \in Corners
    <3>1. PICK e \in Edge : Adjacent(s, e) /\ Adjacent(e, Middle)
      BY <1>5, <2>2
    <3>2. e \in left
      BY <1>3, <1>6, <2>2
    <3> QED
      BY <3>1, <3>2
  <2> QED
    BY <1>4, <2>1, <2>2
<1> QED
  BY <1>2, <1>7 DEF LandConnected

\* The server starts dry (Game.h:263-329).
LEMMA FlowInit == Init => FlowInv
  BY FlowDry DEF Init, ServerInit, BeforeFlood

\* "What is left is always connected" (Game.h:281-329): with any schedule of the stages,
\* whatever the order within the corners and within the edges.
THEOREM ConnectedAlways == Spec => []LandConnected
  BY FlowInit, FlowStep, FlowConnects, PTL DEF Spec

-----------------------------------------------------------------------------
(* The end of a round.                                                      *)

Lesser == IF SectorW < SectorH THEN SectorW ELSE SectorH
Lines == (Lesser + 1) \div 2

RingType == [on : BOOLEAN, x0 : Int, y0 : Int, x1 : Int, y1 : Int]

\* There is a dry tile in it.
HasLand(r) == r.x0 <= r.x1 /\ r.y0 <= r.y1

\* k lines of the middle sector are gone on each side.
Closed(r, k) ==
  /\ k \in Nat
  /\ r.x0 = SectorW + k /\ r.x1 = 2 * SectorW - 1 - k
  /\ r.y0 = SectorH + k /\ r.y1 = 2 * SectorH - 1 - k

\* The ring comes with the last stage at the latest, and takes a line every RingStep
\* ticks; what has no land left never has any again.
RingInv ==
  /\ ring \in RingType /\ ringNext \in Int
  /\ tick >= LastFill => ring.on
  /\ ring.on => tick < ringNext /\ \A q \in Outer : sector[q] = "flooded"
  /\ ring.on /\ HasLand(ring) =>
       \E k \in Nat : Closed(ring, k) /\ ringNext <= LastFill + RingStep * (k + 1)

\* Once there is no land, all who live have been in the water ever since.
AllWet ==
  /\ phase = "PLAYING" /\ tick > 0 => alive # {}
  /\ tick >= LastDry => \A p \in alive : wetFor[p] >= tick - LastDry + 1
  /\ phase = "COUNTDOWN" => tick = 0

EndInv == FlowInv /\ RingInv /\ EscapeInv /\ AllWet

\* The numbers of the ring, and when the last land is gone at the latest.
LEMMA Sizes ==
  /\ SectorW \in Nat \ {0} /\ SectorH \in Nat \ {0}
  /\ RingStep \in Nat \ {0} /\ Escape \in Nat \ {0}
  /\ Lesser \in Nat \ {0} /\ Lesser <= SectorW /\ Lesser <= SectorH
  /\ Lesser = SectorW \/ Lesser = SectorH
  /\ Lines \in Nat \ {0} /\ 2 * Lines >= Lesser
  /\ LastDry = LastFill + RingStep * Lines /\ LastDry \in Nat \ {0}
<1>1. /\ SectorW \in Nat \ {0} /\ SectorH \in Nat \ {0}
      /\ RingStep \in Nat \ {0} /\ Escape \in Nat \ {0}
  BY FloodAssumption
<1>2. /\ Lesser \in Nat \ {0} /\ Lesser <= SectorW /\ Lesser <= SectorH
      /\ Lesser = SectorW \/ Lesser = SectorH
  BY <1>1 DEF Lesser
<1>3. Lines \in Nat \ {0} /\ 2 * Lines >= Lesser
  BY <1>2 DEF Lines
<1>4. LastDry = LastFill + RingStep * Lines
  BY DEF LastDry, Lines, Lesser
<1>5. RingStep * Lines \in Nat
  BY <1>1, <1>3
<1> QED
  BY <1>1, <1>2, <1>3, <1>4, <1>5, LastFillFacts

\* More lines take more time.
LEMMA MoreLines ==
  ASSUME NEW a \in Nat, NEW b \in Nat, a <= b
  PROVE  /\ RingStep * a \in Nat /\ RingStep * a <= RingStep * b
         /\ RingStep * (a + 1) = RingStep * a + RingStep
  BY Sizes

\* When every stage has filled, all but the middle is under water.
OuterWet == tick >= LastFill => \A q \in Sector \ {Middle} : sector[q] = "flooded"

\* The counts of the stages sum up to the eight outer sectors.
LEMMA OuterFlooded == FlowInv => OuterWet
<1> SUFFICES ASSUME FlowInv, tick >= LastFill
             PROVE  \A q \in Sector \ {Middle} : sector[q] = "flooded"
  BY DEF OuterWet
<1>1. Len(flooding) = Last
  <2>1. Warn[Last] <= tick
    BY FromFacts, LastFillFacts, Schedule DEF FlowInv, StageInv
  <2> QED
    BY <2>1, FromFacts DEF FlowInv, StageInv
<1>2. Taken = Outer
  <2>1. Cardinality(Taken) = 8
    BY <1>1, FromFacts DEF FlowInv, StageInv
  <2> QED
    BY <2>1, TakenFacts, OuterFacts, FS_Subset DEF FlowInv
<1>3. ASSUME NEW q \in Outer PROVE sector[q] = "flooded"
  <2>1. PICK s \in 1 .. Len(flooding) : q \in flooding[s]
    BY <1>2, <1>3, TakenFacts DEF FlowInv
  <2>2. Fill[s] <= tick
    BY <1>1, <2>1, FromFacts, LastFillFacts, Schedule DEF FlowInv, StageInv
  <2>3. q \in Sector
    BY OuterFacts
  <2> QED
    BY <2>1, <2>2, <2>3 DEF FlowInv, SectorInv
<1> QED
  BY <1>3 DEF Outer

\* What UpdateRing takes of a ring (Flood.h:89-98).
LEMMA ShrunkFacts ==
  ASSUME NEW r \in RingType
  PROVE  /\ Shrunk(r) \in RingType /\ Shrunk(r).on = r.on
         /\ ~HasLand(r) => ~HasLand(Shrunk(r))
         /\ \A k \in Nat : Closed(r, k) /\ HasLand(r) => Closed(Shrunk(r), k + 1)
<1> DEFINE x == IF r.x0 <= r.x1 THEN 1 ELSE 0
           y == IF r.y0 <= r.y1 THEN 1 ELSE 0
           s == Shrunk(r)
<1>1. /\ s \in RingType /\ s.on = r.on
      /\ s.x0 = r.x0 + x /\ s.x1 = r.x1 - x /\ s.y0 = r.y0 + y /\ s.y1 = r.y1 - y
  <2> DEFINE a == r.x0 + x
             b == r.x1 - x
             c == r.y0 + y
             d == r.y1 - y
  <2>1. a \in Int /\ b \in Int /\ c \in Int /\ d \in Int
    BY DEF RingType
  <2>2. s = [r EXCEPT !.x0 = a, !.x1 = b, !.y0 = c, !.y1 = d]
    BY DEF Shrunk
  <2> HIDE DEF a, b, c, d, s
  <2>3. s \in RingType
    BY <2>1, <2>2 DEF RingType
  <2>4. s.on = r.on
    BY <2>1, <2>2, Zenon DEF RingType
  <2>5. s.x0 = a /\ s.x1 = b
    BY <2>1, <2>2 DEF RingType
  <2>6. s.y0 = c /\ s.y1 = d
    BY <2>1, <2>2 DEF RingType
  <2> QED
    BY <2>3, <2>4, <2>5, <2>6 DEF a, b, c, d
<1>2. r.x0 \in Int /\ r.x1 \in Int /\ r.y0 \in Int /\ r.y1 \in Int /\ r.on \in BOOLEAN
  BY DEF RingType
<1> HIDE DEF s
<1>4. ASSUME ~HasLand(r) PROVE ~HasLand(s)
  BY <1>1, <1>2, <1>4 DEF HasLand
<1>5. ASSUME NEW k \in Nat, Closed(r, k), HasLand(r) PROVE Closed(s, k + 1)
  BY <1>1, <1>2, <1>5, Sizes DEF HasLand, Closed
<1> QED
  BY <1>1, <1>4, <1>5 DEF s

\* With land in the ring not all of its lines are gone.
LEMMA LandLeft ==
  ASSUME NEW k \in Nat, Closed(ring, k), HasLand(ring)
  PROVE  k + 1 <= Lines
  BY Sizes DEF Closed, HasLand, Lines

\* A tile is dry only while the ring is not there or has land in it.
AllWater == tick >= LastDry => \A c \in Tile : IsUnderWater(c, sector, ring)

\* The lines of the middle are gone after Lines steps of the ring.
LEMMA NoLand == FlowInv /\ RingInv => AllWater
<1> SUFFICES ASSUME FlowInv, RingInv, tick >= LastDry, NEW c \in Tile
             PROVE  IsUnderWater(c, sector, ring)
  BY DEF AllWater
<1>1. tick >= LastFill /\ LastDry \in Nat /\ LastFill \in Nat /\ tick \in Nat
  <2>1. RingStep * Lines \in Nat
    BY Sizes
  <2> QED
    BY <2>1, Sizes, LastFillFacts DEF FlowInv, StageInv
<1>2. ring.on /\ tick < ringNext /\ ring \in RingType /\ ringNext \in Int
  BY <1>1 DEF RingInv
<1>3. ~HasLand(ring)
  <2> SUFFICES ASSUME HasLand(ring) PROVE FALSE
    OBVIOUS
  <2>1. PICK k \in Nat : Closed(ring, k) /\ ringNext <= LastFill + RingStep * (k + 1)
    BY <1>2 DEF RingInv
  <2>2. k + 1 <= Lines
    BY <2>1, LandLeft
  <2>3. RingStep * (k + 1) <= RingStep * Lines /\ RingStep * (k + 1) \in Nat /\ RingStep * Lines \in Nat
    BY <2>2, Sizes, MoreLines
  <2> QED
    BY <1>1, <1>2, <2>1, <2>3, Sizes
<1>4. c[1] \in Nat /\ c[2] \in Nat
  BY Sizes DEF Tile
<1> QED
  BY <1>2, <1>3, <1>4 DEF IsUnderWater, HasLand, RingType

\* No sector falls dry.
LEMMA StaysFlooded ==
  ASSUME FlowInv, SectorStates(tick'), NEW q \in Sector, sector[q] = "flooded"
  PROVE  sector'[q] = "flooded"
<1>1. q \in Taken
  BY TakenFacts DEF FlowInv, SectorInv
<1>2. CASE \E s \in Stage : Warn[s] = tick'
  BY <1>1, <1>2 DEF SectorStates, Order
<1>3. CASE ~\E s \in Stage : Warn[s] = tick'
  BY <1>3 DEF SectorStates
<1> QED
  BY <1>2, <1>3

\* One tick of the ring, after the stages (Flood.h:53-106).
LEMMA RingTick ==
  ASSUME FlowInv, FlowInv', RingInv, tick' = tick + 1, SectorStates(tick'), UpdateRing(tick')
  PROVE  RingInv'
<1> DEFINE due == \A q \in Sector \ {Middle} : sector'[q] = "flooded"
           t == tick + 1
<1>1. /\ tick \in Nat /\ t \in Nat /\ tick' = t /\ LastFill \in Nat /\ RingStep \in Nat
      /\ ring \in RingType /\ ringNext \in Int /\ ring.on \in BOOLEAN
  BY Sizes, LastFillFacts DEF FlowInv, StageInv, RingInv, RingType
<1>2. t >= LastFill => due
  <2>1. FlowInv' => OuterWet'
    BY OuterFlooded, PTL
  <2> QED
    BY <1>1, <2>1 DEF OuterWet
<1>3. CASE ~due
  <2>1. ring' = ring /\ ringNext' = ringNext /\ ~(t >= LastFill)
    BY <1>1, <1>2, <1>3 DEF UpdateRing
  <2>2. ~ring.on
    BY <1>3, StaysFlooded DEF RingInv, Outer
  <2> QED
    BY <1>1, <1>3, <2>1, <2>2 DEF RingInv
<1>4. CASE due /\ ring.on /\ t < ringNext
  <2>1. ring' = ring /\ ringNext' = ringNext
    BY <1>1, <1>4 DEF UpdateRing
  <2> QED
    BY <1>1, <1>4, <2>1 DEF RingInv, Outer
<1>5. CASE due /\ ~ring.on
  <2>1. ring' = MiddleRing /\ ringNext' = t + RingStep
    BY <1>1, <1>5 DEF UpdateRing
  <2>2. tick < LastFill
    BY <1>1, <1>5 DEF RingInv
  <2>3. Closed(MiddleRing, 0) /\ MiddleRing \in RingType /\ MiddleRing.on
    BY Sizes DEF Closed, MiddleRing, RingType
  <2>4. RingStep * (0 + 1) = RingStep
    BY Sizes
  <2>5. t + RingStep <= LastFill + RingStep * (0 + 1) /\ t < t + RingStep
    BY <1>1, <2>2, <2>4, Sizes
  <2> QED
    BY <1>1, <1>5, <2>1, <2>3, <2>5 DEF RingInv, Outer
<1>6. CASE due /\ ring.on /\ ~(t < ringNext)
  <2>1. ring' = Shrunk(ring) /\ ringNext' = t + RingStep
    BY <1>1, <1>6 DEF UpdateRing
  <2>2. t = ringNext
    BY <1>1, <1>6 DEF RingInv
  <2>3. ring' \in RingType /\ ring'.on /\ t < ringNext' /\ ringNext' \in Int
    BY <1>1, <1>6, <2>1, ShrunkFacts, Sizes
  <2>4. ASSUME HasLand(ring')
        PROVE  \E k \in Nat : Closed(ring', k) /\ ringNext' <= LastFill + RingStep * (k + 1)
    <3>1. HasLand(ring)
      BY <1>1, <2>1, <2>4, ShrunkFacts
    <3>2. PICK k \in Nat : Closed(ring, k) /\ ringNext <= LastFill + RingStep * (k + 1)
      BY <1>6, <3>1 DEF RingInv
    <3>3. Closed(ring', k + 1)
      BY <1>1, <2>1, <3>1, <3>2, ShrunkFacts
    <3>4. RingStep * ((k + 1) + 1) = RingStep * (k + 1) + RingStep /\ RingStep * (k + 1) \in Nat
      BY MoreLines
    <3>5. ringNext' <= LastFill + RingStep * ((k + 1) + 1)
      BY <1>1, <2>1, <2>2, <3>2, <3>4
    <3> QED
      BY <3>3, <3>5
  <2>5. HasLand(ring)' <=> HasLand(ring')
    BY DEF HasLand
  <2> QED
    BY <1>1, <1>6, <2>3, <2>4, <2>5 DEF RingInv, Outer
<1> QED
  BY <1>3, <1>4, <1>5, <1>6

\* One tick of a round: when there is no land all who live are in the water.
LEMMA WetTick ==
  ASSUME EndInv, FlowInv', RingInv', EscapeInv', Play
  PROVE  AllWet'
<1>1. /\ tick' = tick + 1 /\ tick \in Nat /\ LastDry \in Nat
      /\ alive \subseteq Player /\ wetFor \in [Player -> Nat]
  BY Sizes DEF Play, Rise, EndInv, FlowInv, StageInv, EscapeInv
<1>2. PICK pop \in {{}} \cup {{q} : q \in Pops} :
      \E I \in Insides(alive \ {q[1] : q \in pop}, sector', ring') :
        /\ PlayTick(pop, I)
        /\ phase' = IF Cardinality(alive') <= 1 THEN "OVER" ELSE "PLAYING"
  BY DEF Play
<1> DEFINE S == alive \ {q[1] : q \in pop}
<1>3. PICK I \in Insides(S, sector', ring') :
        /\ PlayTick(pop, I)
        /\ phase' = IF Cardinality(alive') <= 1 THEN "OVER" ELSE "PLAYING"
  BY <1>2
<1>4. phase' = "PLAYING" => alive' # {}
  BY <1>3, FS_EmptySet
<1>5. tick' >= LastDry => I = S
  <2>1. FlowInv' /\ RingInv' => AllWater'
    BY NoLand, PTL
  <2>2. tick' >= LastDry => \A c \in Tile : IsUnderWater(c, sector', ring')
    BY <2>1 DEF AllWater, IsUnderWater
  <2> QED
    BY <2>2 DEF Insides
<1>6. ASSUME tick' >= LastDry, NEW p \in alive'
      PROVE  wetFor'[p] >= tick' - LastDry + 1
  <2>1. /\ alive' = alive \ ({q[1] : q \in pop} \cup Drowned(I))
        /\ wetFor' = [q \in Player |-> IF q \in I \ Drowned(I) THEN wetFor[q] + 1 ELSE 0]
    BY <1>3 DEF PlayTick
  <2>2. p \in I \ Drowned(I) /\ p \in Player /\ p \in alive
    BY <1>1, <1>5, <1>6, <2>1
  <2>3. wetFor'[p] = wetFor[p] + 1 /\ wetFor[p] \in Nat
    BY <1>1, <2>1, <2>2
  <2>4. CASE tick >= LastDry
    BY <1>1, <2>2, <2>3, <2>4 DEF EndInv, AllWet
  <2>5. CASE tick < LastDry
    BY <1>1, <1>6, <2>3, <2>5
  <2> QED
    BY <1>1, <2>4, <2>5
<1>7. phase' # "COUNTDOWN"
  BY <1>3
<1> QED
  BY <1>4, <1>6, <1>7 DEF AllWet

\* A new round is dry.
Beginning ==
  /\ phase = "COUNTDOWN" /\ tick = 0
  /\ flooding = <<>> /\ sector = Dry /\ ring = Off /\ ringNext = 0
  /\ alive = Player /\ wetFor = Nothing /\ floodTicks = Nothing

\* No water, and all the time there is.
LEMMA EndBegins == Beginning => EndInv
<1> SUFFICES ASSUME Beginning PROVE EndInv
  OBVIOUS
<1>1. FlowInv
  BY FlowDry DEF Beginning, BeforeFlood
<1>2. Off \in RingType /\ Off.on = FALSE
  BY DEF Off, RingType
<1>3. RingInv
  BY <1>2, LastFillFacts DEF Beginning, RingInv
<1>4. EscapeInv
  BY Sizes DEF Beginning, EscapeInv, EscapeTime, Nothing
<1>5. AllWet
  BY Sizes DEF Beginning, AllWet
<1> QED
  BY <1>1, <1>3, <1>4, <1>5 DEF EndInv

\* The tick of the server rises, the ring closes, and nothing else moves them.
LEMMA EndStep == EndInv /\ [Next]_vars => EndInv'
<1> SUFFICES ASSUME EndInv, [Next]_vars PROVE EndInv'
  OBVIOUS
<1>1. FlowInv' /\ EscapeInv'
  BY FlowStep, EscapeStep DEF EndInv
<1>2. ASSUME UNCHANGED <<tick, sector, ring, ringNext, alive, wetFor, phase>> PROVE RingInv' /\ AllWet'
  BY <1>2 DEF EndInv, RingInv, AllWet, HasLand, Closed
<1>3. CASE UNCHANGED serverVars
  BY <1>1, <1>2, <1>3 DEF serverVars, floodVars, historyVars, EndInv
<1>4. CASE Tick
  <2>1. CASE StartPlay
    <3>1. /\ phase = "COUNTDOWN" /\ UNCHANGED <<tick, sector, ring, ringNext, alive, wetFor>> /\ tick = 0
      BY <2>1 DEF StartPlay, floodVars, historyVars, EndInv, AllWet
    <3>2. AllWet'
      BY <2>1, <3>1, Sizes DEF StartPlay, AllWet
    <3>3. RingInv'
      BY <3>1 DEF EndInv, RingInv, HasLand, Closed
    <3> QED
      BY <1>1, <3>2, <3>3 DEF EndInv
  <2>2. CASE Play
    <3>1. tick' = tick + 1 /\ SectorStates(tick') /\ UpdateRing(tick')
      BY <2>2 DEF Play, Rise
    <3>2. RingInv'
      BY <1>1, <3>1, RingTick DEF EndInv
    <3>3. AllWet'
      BY <1>1, <2>2, <3>2, WetTick
    <3> QED
      BY <1>1, <3>2, <3>3 DEF EndInv
  <2>3. CASE NextRound
    <3>1. Beginning'
      BY <2>3 DEF NextRound, RestartGame, Beginning, Dry, Off, Nothing
    <3>2. Beginning' => EndInv'
      BY EndBegins, PTL
    <3> QED
      BY <3>1, <3>2
  <2> QED
    BY <1>4, <2>1, <2>2, <2>3 DEF Tick, ServerTick
<1>5. CASE Arrive \/ Leave \/ Receive \/ SpecShift \/ Frame \/ UNCHANGED vars
  BY <1>3, <1>5 DEF Arrive, Connect, Leave, Close, Receive, SpecShift, Frame, vars
<1> QED
  BY <1>4, <1>5 DEF Next

\* Whoever lives when there is no land has been wet since, and not for longer than
\* Escape ticks.
LEMMA EndFollows == EndInv => RoundEnds
<1> SUFFICES ASSUME EndInv, phase = "PLAYING" PROVE tick < LastDry + Escape
  BY DEF RoundEnds
<1>1. tick \in Nat /\ LastDry \in Nat \ {0} /\ Escape \in Nat \ {0}
  BY Sizes DEF EndInv, FlowInv, StageInv
<1>2. CASE tick = 0 \/ tick < LastDry
  BY <1>1, <1>2
<1>3. CASE tick > 0 /\ tick >= LastDry
  <2>1. PICK p \in alive : TRUE
    BY <1>3 DEF EndInv, AllWet
  <2>2. wetFor[p] >= tick - LastDry + 1 /\ wetFor[p] <= Escape /\ wetFor[p] \in Nat
    BY <1>3, <2>1 DEF EndInv, AllWet, EscapeInv
  <2> QED
    BY <1>1, <2>2
<1> QED
  BY <1>1, <1>2, <1>3

\* The server starts with a round that has not begun.
LEMMA EndInit == Init => EndInv
  BY EndBegins DEF Init, ServerInit, Beginning

\* Without the ring "the round would not end" (Flood.h:55): Escape ticks after the last
\* land is gone at the latest it is over, although nobody ever meets anybody, for any
\* schedule, sizes of a sector and steps of the ring.
THEOREM RoundEndsAlways == Spec => []RoundEnds
  BY EndInit, EndStep, EndFollows, PTL DEF Spec

-----------------------------------------------------------------------------
(* What the page has been told, and what is on the way to it.                *)

Phases == {"COUNTDOWN", "PLAYING", "OVER"}
States == {"open", "warning", "flooded"}

Message ==
  [type : {"WELCOME"}]
  \cup [type : {"SNAPSHOT"}, phase : Phases, tick : Nat, alive : SUBSET Player,
        wet : SUBSET Player, sectors : [Sector -> States], ring : RingType]
  \cup [type : {"DEATH"}, who : Player] \cup [type : {"POP"}, who : Player, by : Player]
  \cup [type : {"FLOOD", "FLOOD_WARN"}, of : SUBSET Sector]

Elements(s) == {s[i] : i \in DOMAIN s}
Mail == Elements(link)

\* The state of the server as a snapshot tells it, and the page keeps it.
SnapshotNow == [type |-> "SNAPSHOT", phase |-> phase, tick |-> tick, alive |-> alive,
                wet |-> {p \in Player : floodTicks[p] > 0}, sectors |-> sector, ring |-> ring]

\* A message that is on the way says what is the case now: the next tick is not played
\* before it is read.
TrueNow(m) ==
  /\ m.type = "SNAPSHOT" => m = SnapshotNow
  /\ m.type \in {"DEATH", "POP"} => m.who \notin alive /\ fell[m.who] = tick
  /\ m.type = "FLOOD" => \A s \in m.of : sector[s] = "flooded"
  /\ m.type = "FLOOD_WARN" => \A s \in m.of : sector[s] = "warning"

\* The messages come in this order: a welcome, the snapshot, a pop, and the others, of
\* which one at most floods.
Before(m, n) ==
  /\ n.type # "WELCOME"
  /\ n.type = "SNAPSHOT" => m.type = "WELCOME"
  /\ n.type = "POP" => m.type = "SNAPSHOT"
  /\ n.type = "FLOOD" => m.type # "FLOOD"
Rising(s) == \A i, j \in DOMAIN s : i < j => Before(s[i], s[j])

LinkInv == link \in Seq(Message) /\ Rising(link) /\ \A m \in Mail : TrueNow(m)

Welcomed == \E m \in Mail : m.type = "WELCOME"
Pending == \E m \in Mail : m.type = "SNAPSHOT"

\* A new round, and one that is over.
ServerInv ==
  /\ fell \in [Player -> Nat] /\ popped \in [Player -> Nat] /\ open \in BOOLEAN
  /\ phase = "COUNTDOWN" => /\ sector = Dry /\ alive = Player /\ floodTicks = Nothing
                            /\ popped = Nothing
  /\ phase = "OVER" => Cardinality(alive) <= 1

\* What the page has heard last is what the server has now; whoever has seen the countdown
\* hears everything, and a welcome tells him of a new round.
HeardInv ==
  /\ ~open => ~watched /\ link = <<>>
  /\ G \in [phase : Phases \cup {"WAITING"}, tick : Nat, known : BOOLEAN, alive : SUBSET Player,
            sectors : [Sector -> States], ring : RingType]
  /\ open /\ told /\ ~Pending /\ ~Welcomed => G = Told(SnapshotNow)
  /\ open /\ watched => told \/ Pending
  /\ open /\ watched /\ Welcomed => phase = "COUNTDOWN" /\ Pending
  /\ open /\ watched /\ phase = "COUNTDOWN" /\ Pending => G.phase # "COUNTDOWN"

\* A clock that runs is that of a sector that is warned of, and the other way round.
ClockInv ==
  /\ floodAt \in SUBSET Sector
  /\ open /\ ~Welcomed =>
       \A s \in floodAt : sector[s] = "warning" \/ \E m \in Mail : m.type = "FLOOD" /\ s \in m.of
  /\ open /\ watched =>
       \A s \in Sector : sector[s] = "warning" =>
         s \in floodAt \/ \E m \in Mail : m.type = "FLOOD_WARN" /\ s \in m.of

\* The tick in which the page's player got wet; before the snapshot is read it is the
\* one of the tick before.
GotWet(left) == drownFrom \in Nat /\ tick = drownFrom + (Escape - left)
GaugeInv ==
  open /\ watched =>
    LET left == floodTicks[Me] IN
    IF Pending
    THEN left > 0 => IF left = Escape THEN drownFrom = -1 ELSE GotWet(left)
    ELSE IF left = 0 THEN drownFrom = -1 ELSE GotWet(left)

\* What is drawn is of the last snapshot, and who is watched lives.
DrawnInv ==
  /\ spec \in [at : Nat, id : Int]
  /\ drawn => FoamKey(foam) = FoamKey(G)
  /\ drawn /\ Watching /\ AliveList # {} => spec.id \in AliveList

\* The table has everybody, with his kills and his tick, or what is missing is coming.
Coming(p) == \E m \in Mail : m.type \in {"DEATH", "POP"} /\ m.who = p
Popper(p) == \E m \in Mail : m.type = "POP" /\ m.by = p
TableInv ==
  /\ roster \in SUBSET Player /\ died \in [Player -> Int] /\ kills \in [Player -> Nat]
  /\ open /\ watched /\ phase # "COUNTDOWN" => roster = Player \/ (Pending /\ alive = Player)
  /\ open /\ watched /\ ~(phase = "COUNTDOWN" /\ Pending) =>
       \A p \in Player :
         /\ popped[p] = kills[p] + (IF Popper(p) THEN 1 ELSE 0)
         /\ p \in alive => died[p] = -1
         /\ p \notin alive => \/ died[p] = fell[p]
                              \/ died[p] = -1 /\ fell[p] = tick /\ Coming(p)

PageInv == LinkInv /\ ServerInv /\ HeardInv /\ ClockInv /\ GaugeInv /\ DrawnInv /\ TableInv

-----------------------------------------------------------------------------
(* The link.                                                                *)

\* What is in two sequences, one behind the other, and in what order.
LEMMA Joined ==
  ASSUME NEW s \in Seq(Message), NEW t \in Seq(Message)
  PROVE  /\ s \o t \in Seq(Message) /\ Elements(s \o t) = Elements(s) \cup Elements(t)
         /\ Rising(s) /\ Rising(t) /\ (\A m \in Elements(s), n \in Elements(t) : Before(m, n))
              => Rising(s \o t)
<1> DEFINE a == Len(s)
           b == Len(t)
           u == s \o t
<1>1. /\ u \in Seq(Message) /\ a \in Nat /\ b \in Nat /\ DOMAIN s = 1 .. a /\ DOMAIN t = 1 .. b
      /\ Len(u) = a + b /\ DOMAIN u = 1 .. a + b
      /\ \A i \in 1 .. a + b : u[i] = IF i <= a THEN s[i] ELSE t[i - a]
  BY ConcatProperties
<1> HIDE DEF a, b, u
<1>2. \A i \in 1 .. a + b : \/ i \in 1 .. a /\ u[i] = s[i]
                            \/ i - a \in 1 .. b /\ i > a /\ u[i] = t[i - a]
  BY <1>1
<1>3. ASSUME NEW i \in 1 .. a PROVE i \in 1 .. a + b /\ u[i] = s[i]
  BY <1>1
<1>4. ASSUME NEW i \in 1 .. b PROVE i + a \in 1 .. a + b /\ u[i + a] = t[i]
  <2>1. i + a \in 1 .. a + b /\ ~(i + a <= a) /\ i + a - a = i
    BY <1>1
  <2> QED BY <1>1, <2>1
<1>5. Elements(u) = Elements(s) \cup Elements(t)
  <2>1. ASSUME NEW m \in Elements(u) PROVE m \in Elements(s) \cup Elements(t)
    BY <1>1, <1>2 DEF Elements
  <2>2. ASSUME NEW m \in Elements(s) PROVE m \in Elements(u)
    BY <1>1, <1>3 DEF Elements
  <2>3. ASSUME NEW m \in Elements(t) PROVE m \in Elements(u)
    BY <1>1, <1>4 DEF Elements
  <2> QED BY <2>1, <2>2, <2>3
<1>6. ASSUME Rising(s), Rising(t), \A m \in Elements(s), n \in Elements(t) : Before(m, n)
      PROVE  Rising(u)
  <2> SUFFICES ASSUME NEW i \in 1 .. a + b, NEW j \in 1 .. a + b, i < j PROVE Before(u[i], u[j])
    BY <1>1 DEF Rising
  <2>1. CASE i \in 1 .. a /\ j \in 1 .. a
    BY <1>1, <1>3, <1>6, <2>1 DEF Rising
  <2>2. CASE i \in 1 .. a /\ j \notin 1 .. a
    <3>1. j - a \in 1 .. b /\ u[j] = t[j - a] /\ u[i] = s[i]
      BY <1>2, <1>3, <2>2
    <3>2. s[i] \in Elements(s) /\ t[j - a] \in Elements(t)
      BY <1>1, <2>2, <3>1 DEF Elements
    <3> QED BY <1>6, <3>1, <3>2
  <2>3. CASE i \notin 1 .. a
    <3>1. j \notin 1 .. a
      BY <1>1, <2>3
    <3>2. /\ i - a \in 1 .. b /\ u[i] = t[i - a]
          /\ j - a \in 1 .. b /\ u[j] = t[j - a] /\ i - a < j - a
      BY <1>1, <1>2, <2>3, <3>1
    <3> QED BY <1>1, <1>6, <3>2 DEF Rising
  <2> QED BY <2>1, <2>2, <2>3
<1> QED BY <1>1, <1>5, <1>6 DEF u

\* Nothing, and one message.
LEMMA Single ==
  /\ <<>> \in Seq(Message) /\ Elements(<<>>) = {} /\ Rising(<<>>)
  /\ \A m \in Message : <<m>> \in Seq(Message) /\ Elements(<<m>>) = {m} /\ Rising(<<m>>)
<1>1. <<>> \in Seq(Message) /\ DOMAIN <<>> = {}
  OBVIOUS
<1>2. ASSUME NEW m \in Message PROVE <<m>> \in Seq(Message) /\ DOMAIN <<m>> = {1} /\ <<m>>[1] = m
  BY <1>2
<1>3. ASSUME NEW m \in Message PROVE Elements(<<m>>) = {m} /\ Rising(<<m>>)
  <2>1. ~(1 < 1)
    OBVIOUS
  <2>2. DOMAIN <<m>> = {1} /\ <<m>>[1] = m
    BY <1>2
  <2>3. \A i, j \in DOMAIN <<m>> : i = 1 /\ j = 1
    BY <2>2
  <2> QED BY <2>1, <2>2, <2>3 DEF Elements, Rising
<1> QED BY <1>1, <1>2, <1>3 DEF Elements, Rising

\* The page takes the first message; the others stay as they are.
LEMMA Taking ==
  ASSUME LinkInv, Receive
  PROVE  LET m == Head(link) IN
         /\ m \in Message /\ TrueNow(m) /\ Mail = {m} \cup Mail' /\ \A n \in Mail' : Before(m, n)
         /\ UNCHANGED <<serverVars, open>> /\ LinkInv'
<1> DEFINE a == Len(link)
           m == Head(link)
<1>1. link # <<>> /\ link' = Tail(link) /\ UNCHANGED <<serverVars, open>> /\ link \in Seq(Message)
  BY DEF Receive, LinkInv
<1>2. /\ a \in Nat \ {0} /\ DOMAIN link = 1 .. a /\ m = link[1] /\ m \in Message
      /\ link' \in Seq(Message) /\ DOMAIN link' = 1 .. a - 1
      /\ \A i \in 1 .. a - 1 : link'[i] = link[i + 1]
  <2>1. Len(Tail(link)) = a - 1 /\ a \in Nat \ {0} /\ Tail(link) \in Seq(Message)
        /\ m = link[1] /\ m \in Message
    BY <1>1, HeadTailProperties
  <2>2. \A i \in 1 .. a - 1 : Tail(link)[i] = link[i + 1]
    BY <1>1, <2>1, HeadTailProperties
  <2> QED BY <1>1, <2>1, <2>2
<1> HIDE DEF a, m
<1>3. Mail = {m} \cup Mail'
  <2>1. ASSUME NEW n \in Mail PROVE n \in {m} \cup Mail'
    <3>1. PICK i \in 1 .. a : n = link[i]
      BY <1>2 DEF Mail, Elements
    <3>2. CASE i = 1
      BY <1>2, <3>1, <3>2
    <3>3. CASE i # 1
      <4>1. i - 1 \in 1 .. a - 1 /\ (i - 1) + 1 = i
        BY <1>2, <3>3
      <4>2. link'[i - 1] = n
        BY <1>2, <3>1, <4>1
      <4> QED BY <1>2, <4>1, <4>2 DEF Mail, Elements
    <3> QED BY <3>2, <3>3
  <2>2. ASSUME NEW n \in Mail' PROVE n \in Mail
    <3>1. PICK i \in 1 .. a - 1 : n = link'[i]
      BY <1>2 DEF Mail, Elements
    <3>2. i + 1 \in 1 .. a /\ n = link[i + 1]
      BY <1>2, <3>1
    <3> QED BY <1>2, <3>2 DEF Mail, Elements
  <2>3. m \in Mail
    BY <1>2 DEF Mail, Elements
  <2> QED BY <2>1, <2>2, <2>3
<1>4. \A n \in Mail' : Before(m, n)
  <2> TAKE n \in Mail'
  <2>1. PICK i \in 1 .. a - 1 : n = link'[i]
    BY <1>2 DEF Mail, Elements
  <2>2. 1 \in 1 .. a /\ i + 1 \in 1 .. a /\ 1 < i + 1 /\ n = link[i + 1]
    BY <1>2, <2>1
  <2> QED BY <1>2, <2>2 DEF LinkInv, Rising
<1>5. Rising(link')
  <2> SUFFICES ASSUME NEW i \in 1 .. a - 1, NEW j \in 1 .. a - 1, i < j
               PROVE  Before(link'[i], link'[j])
    BY <1>2 DEF Rising
  <2>1. i + 1 \in 1 .. a /\ j + 1 \in 1 .. a /\ i + 1 < j + 1
    BY <1>2
  <2> QED BY <1>2, <2>1 DEF LinkInv, Rising
<1>6. \A n \in Mail : TrueNow(n)
  BY DEF LinkInv
<1>7. \A n : TrueNow(n) => TrueNow(n)'
  BY <1>1 DEF TrueNow, SnapshotNow, serverVars, floodVars, historyVars
<1>8. LinkInv'
  <2>1. \A n \in Mail' : TrueNow(n)
    BY <1>3, <1>6
  <2>2. \A n \in Mail' : TrueNow(n)'
    BY <1>7, <2>1
  <2>3. Rising(link)'
    BY <1>5 DEF Rising
  <2> QED BY <1>2, <2>2, <2>3 DEF LinkInv
<1> QED BY <1>1, <1>2, <1>3, <1>4, <1>6, <1>8 DEF m

-----------------------------------------------------------------------------
(* The ranks of an order.                                                   *)

\* Who of D is before p in an order, or has a smaller number.
Under(R, D, p) == {q \in D : <<q, p>> \in R}
Below(D, p) == {q \in D : q < p}

\* R is a strict order of all of D.
IsOrder(R, D) ==
  /\ \A p \in D : <<p, p>> \notin R
  /\ \A p, q, r \in D : <<p, q>> \in R /\ <<q, r>> \in R => <<p, r>> \in R
  /\ \A p, q \in D : p = q \/ <<p, q>> \in R \/ <<q, p>> \in R

\* Every rank of it is taken, by one alone.
Ranked(R, D) ==
  /\ Cardinality(D) \in Nat
  /\ \A p \in D : IsFiniteSet(Under(R, D, p)) /\ Cardinality(Under(R, D, p)) \in 0 .. Cardinality(D) - 1
  /\ \A p, q \in D : <<p, q>> \in R => Cardinality(Under(R, D, p)) < Cardinality(Under(R, D, q))
  /\ \A k \in 0 .. Cardinality(D) - 1 : \E p \in D : Cardinality(Under(R, D, p)) = k

\* In a finite set that is ordered every rank is taken, by one alone.
LEMMA Ranks == ASSUME NEW D, IsFiniteSet(D), NEW R, IsOrder(R, D) PROVE Ranked(R, D)
<1> DEFINE n == Cardinality(D)
           rank == [p \in D |-> Cardinality(Under(R, D, p))]
<1>1. n \in Nat
  BY FS_CardinalityType
<1>2. ASSUME NEW p \in D
      PROVE  IsFiniteSet(Under(R, D, p)) /\ Cardinality(Under(R, D, p)) \in 0 .. n - 1
  <2>1. Under(R, D, p) \in SUBSET (D \ {p})
    BY DEF Under, IsOrder
  <2>2. IsFiniteSet(D \ {p}) /\ Cardinality(D \ {p}) = n - 1
    BY FS_RemoveElement
  <2>3. IsFiniteSet(Under(R, D, p)) /\ Cardinality(Under(R, D, p)) <= n - 1
    BY <2>1, <2>2, FS_Subset
  <2>4. Cardinality(Under(R, D, p)) \in Nat
    BY <2>3, FS_CardinalityType
  <2> QED BY <1>1, <2>3, <2>4
<1>3. ASSUME NEW p \in D, NEW q \in D, <<p, q>> \in R
      PROVE  Cardinality(Under(R, D, p)) < Cardinality(Under(R, D, q))
  <2>1. Under(R, D, p) \in SUBSET Under(R, D, q) /\ p \in Under(R, D, q) /\ p \notin Under(R, D, p)
    BY <1>3 DEF Under, IsOrder
  <2>2. Cardinality(Under(R, D, p)) <= Cardinality(Under(R, D, q)) /\ Cardinality(Under(R, D, p)) # Cardinality(Under(R, D, q))
    BY <1>2, <2>1, FS_Subset
  <2>3. Cardinality(Under(R, D, p)) \in Nat /\ Cardinality(Under(R, D, q)) \in Nat
    BY <1>1, <1>2
  <2> QED BY <2>2, <2>3
<1>4. rank \in Injection(D, 0 .. n - 1)
  <2>1. rank \in [D -> 0 .. n - 1]
    BY <1>2
  <2>2. ASSUME NEW p \in D, NEW q \in D, rank[p] = rank[q] PROVE p = q
    <3> DEFINE a == Cardinality(Under(R, D, p))
               b == Cardinality(Under(R, D, q))
    <3>1. a = b /\ a \in Int /\ b \in Int
      BY <1>1, <1>2, <2>2
    <3>2. (<<p, q>> \in R => a < b) /\ (<<q, p>> \in R => b < a)
      BY <1>3
    <3> HIDE DEF a, b
    <3>3. <<p, q>> \notin R /\ <<q, p>> \notin R
      BY <3>1, <3>2
    <3> QED BY <3>3 DEF IsOrder
  <2> QED BY <2>1, <2>2 DEF Injection, IsInjective
<1>5. rank \in Surjection(D, 0 .. n - 1)
  <2>1. 0 \in Int /\ n - 1 \in Int /\ (IF 0 > n - 1 THEN 0 ELSE (n - 1) - 0 + 1) = n
    BY <1>1
  <2>2. IsFiniteSet(0 .. n - 1) /\ Cardinality(0 .. n - 1) = n
    BY <2>1, FS_Interval
  <2> HIDE DEF rank
  <2> QED BY <1>4, <2>2, FS_Injection
<1>6. ASSUME NEW k \in 0 .. n - 1 PROVE \E p \in D : Cardinality(Under(R, D, p)) = k
  <2>1. \E p \in D : rank[p] = k
    BY <1>5 DEF Surjection
  <2>2. PICK p \in D : rank[p] = k
    BY <2>1
  <2> QED BY <2>2
<1> QED BY <1>1, <1>2, <1>3, <1>6 DEF Ranked

\* The ranks of players, who are numbers.
LEMMA PlayerRanks ==
  ASSUME NEW D \in SUBSET Player
  PROVE  /\ IsFiniteSet(D) /\ Cardinality(D) \in Nat
         /\ \A p \in D : IsFiniteSet(Below(D, p)) /\ Cardinality(Below(D, p)) \in 0 .. Cardinality(D) - 1
         /\ \A p, q \in D : p < q => Cardinality(Below(D, p)) < Cardinality(Below(D, q))
         /\ \A k \in 0 .. Cardinality(D) - 1 : \E p \in D : Cardinality(Below(D, p)) = k
<1> DEFINE R == {x \in D \X D : x[1] < x[2]}
<1>1. D \subseteq Nat /\ IsFiniteSet(D)
  BY FloodAssumption, FS_Subset
<1>2. \A p, q \in D : <<p, q>> \in R <=> p < q
  OBVIOUS
<1>3. \A p \in D : Below(D, p) = Under(R, D, p)
  BY <1>2 DEF Below, Under
<1> HIDE DEF R
<1>4. IsOrder(R, D)
  BY <1>1, <1>2 DEF IsOrder
<1>5. Ranked(R, D)
  BY <1>1, <1>4, Ranks
<1>6. /\ \A p \in D : IsFiniteSet(Below(D, p)) /\ Cardinality(Below(D, p)) \in 0 .. Cardinality(D) - 1
      /\ \A p, q \in D : p < q => Cardinality(Below(D, p)) < Cardinality(Below(D, q))
      /\ \A k \in 0 .. Cardinality(D) - 1 : \E p \in D : Cardinality(Below(D, p)) = k
  BY <1>2, <1>3, <1>5 DEF Ranked
<1> QED BY <1>1, <1>5, <1>6 DEF Ranked

-----------------------------------------------------------------------------
(* What a tick sends.                                                       *)

Death(p) == [type |-> "DEATH", who |-> p]

\* A death of each that dies.
LEMMA DeathsAre ==
  ASSUME NEW D \in SUBSET Player
  PROVE  /\ Deaths(D) \in Seq(Message) /\ Elements(Deaths(D)) = {Death(p) : p \in D}
         /\ Rising(Deaths(D))
<1> DEFINE n == Cardinality(D)
           upto(p) == {q \in D : q <= p}
           nth(k) == CHOOSE p \in D : Cardinality(upto(p)) = k
           s == Deaths(D)
<1>1. /\ D \subseteq Nat /\ IsFiniteSet(D) /\ n \in Nat
      /\ \A p \in D : IsFiniteSet(Below(D, p)) /\ Cardinality(Below(D, p)) \in 0 .. n - 1
      /\ \A p, q \in D : p < q => Cardinality(Below(D, p)) < Cardinality(Below(D, q))
      /\ \A k \in 0 .. n - 1 : \E p \in D : Cardinality(Below(D, p)) = k
  BY PlayerRanks, FloodAssumption
<1>2. ASSUME NEW p \in D PROVE Cardinality(upto(p)) = Cardinality(Below(D, p)) + 1
  <2>1. upto(p) = Below(D, p) \cup {p} /\ p \notin Below(D, p)
    <3>1. \A q \in D : q <= p <=> q < p \/ q = p
      BY <1>1
    <3>2. ~(p < p)
      BY <1>1
    <3> QED BY <3>1, <3>2 DEF Below
  <2> HIDE DEF upto
  <2> QED BY <1>1, <2>1, FS_AddElement
<1>3. s = [k \in 1 .. n |-> Death(nth(k))]
  BY DEF Deaths, Death
<1>4. ASSUME NEW k \in 1 .. n PROVE nth(k) \in D
  <2>1. k - 1 \in 0 .. n - 1 /\ (k - 1) + 1 = k
    BY <1>1
  <2>2. PICK p \in D : Cardinality(Below(D, p)) = k - 1
    BY <1>1, <2>1
  <2>3. Cardinality(upto(p)) = k
    BY <1>2, <2>1, <2>2
  <2> QED BY <2>3
<1>5. ASSUME NEW p \in D PROVE \E k \in 1 .. n : nth(k) = p
  <2> DEFINE k == Cardinality(upto(p))
  <2>1. k \in 1 .. n
    BY <1>1, <1>2
  <2>2. \A q \in D : Cardinality(upto(q)) = k => q = p
    <3> TAKE q \in D
    <3> HAVE Cardinality(upto(q)) = k
    <3>1. Cardinality(Below(D, q)) = Cardinality(Below(D, p))
      BY <1>1, <1>2
    <3>2. ~(q < p) /\ ~(p < q)
      BY <1>1, <3>1
    <3> QED BY <1>1, <3>2
  <2>3. nth(k) = p
    BY <2>2
  <2> QED BY <2>1, <2>3
<1> HIDE DEF nth
<1>6. \A p \in D : Death(p) \in Message
  BY DEF Death, Message
<1> HIDE DEF s
<1>7. s \in Seq(Message) /\ DOMAIN s = 1 .. n
  <2>1. \A k \in 1 .. n : Death(nth(k)) \in Message
    BY <1>4, <1>6
  <2> QED BY <1>1, <1>3, <2>1
<1>8. Elements(s) = {Death(p) : p \in D}
  <2>1. \A k \in 1 .. n : s[k] = Death(nth(k))
    BY <1>3
  <2> QED BY <1>4, <1>5, <1>7, <2>1 DEF Elements
<1>9. Rising(s)
  <2>1. \A k \in 1 .. n : s[k].type = "DEATH"
    BY <1>3 DEF Death
  <2> QED BY <1>7, <2>1 DEF Rising, Before
<1> QED BY <1>7, <1>8, <1>9 DEF s

PopOf(q) == [type |-> "POP", who |-> q[1], by |-> q[2]]
FloodOf(S) == [type |-> "FLOOD", of |-> S]
WarnOf(S) == [type |-> "FLOOD_WARN", of |-> S]

\* What may follow what.
LEMMA Follows ==
  ASSUME NEW m, NEW n
  PROVE  /\ n.type \in {"DEATH", "FLOOD_WARN"} => Before(m, n)
         /\ n.type = "FLOOD" /\ m.type # "FLOOD" => Before(m, n)
         /\ n.type = "POP" /\ m.type = "SNAPSHOT" => Before(m, n)
  BY DEF Before

\* A pop, and the death that goes with it.
LEMMA PoppingIs ==
  ASSUME NEW pop, pop \in {{}} \cup {{q} : q \in Pops}, alive \subseteq Player
  PROVE  /\ Popping(pop) \in Seq(Message) /\ Rising(Popping(pop))
         /\ Elements(Popping(pop)) = {PopOf(q) : q \in pop} \cup {Death(q[1]) : q \in pop}
<1>1. CASE pop = {}
  BY <1>1, Single DEF Popping
<1>2. ASSUME NEW q \in Pops, pop = {q}
      PROVE  /\ Popping(pop) \in Seq(Message) /\ Rising(Popping(pop))
             /\ Elements(Popping(pop)) = {PopOf(r) : r \in pop} \cup {Death(r[1]) : r \in pop}
  <2> DEFINE s == <<PopOf(q)>>
             t == Deaths({q[1]})
  <2>1. q[1] \in Player /\ q[2] \in Player
    BY DEF Pops
  <2>2. Popping(pop) = s \o t
    <3>1. (CHOOSE r \in {q} : TRUE) = q /\ {q} # {}
      OBVIOUS
    <3> QED BY <1>2, <3>1 DEF Popping, PopOf
  <2>3. PopOf(q) \in Message
    BY <2>1 DEF PopOf, Message
  <2>4. s \in Seq(Message) /\ Elements(s) = {PopOf(q)} /\ Rising(s)
    BY <2>3, Single
  <2>5. t \in Seq(Message) /\ Elements(t) = {Death(q[1])} /\ Rising(t)
    <3>1. {q[1]} \in SUBSET Player /\ {Death(p) : p \in {q[1]}} = {Death(q[1])}
      BY <2>1
    <3> QED BY <3>1, DeathsAre
  <2> HIDE DEF s, t
  <2>6. \A m \in Elements(s), n \in Elements(t) : Before(m, n)
    <3>1. Death(q[1]).type = "DEATH"
      BY DEF Death
    <3> QED BY <2>5, <3>1, Follows
  <2>7. /\ s \o t \in Seq(Message) /\ Rising(s \o t)
        /\ Elements(s \o t) = {PopOf(q)} \cup {Death(q[1])}
    BY <2>4, <2>5, <2>6, Joined
  <2> QED BY <1>2, <2>2, <2>7
<1> QED BY <1>1, <1>2

\* The stage that fills, and the one that is warned of.
StageMail ==
  (IF Flooded(tick') = {} THEN {} ELSE {FloodOf(Flooded(tick'))})
  \cup (IF Warned = {} THEN {} ELSE {WarnOf(Warned)})

\* They are sent in this order, and not at all when there is none.
LEMMA StagesAre ==
  ASSUME Flooded(tick') \in SUBSET Sector, Warned \in SUBSET Sector
  PROVE  Stages \in Seq(Message) /\ Rising(Stages) /\ Elements(Stages) = StageMail
<1> DEFINE f == Flooded(tick')
           w == Warned
           s == IF f = {} THEN <<>> ELSE <<FloodOf(f)>>
           t == IF w = {} THEN <<>> ELSE <<WarnOf(w)>>
<1>1. Stages = s \o t
  BY DEF Stages, FloodOf, WarnOf
<1>2. FloodOf(f) \in Message /\ WarnOf(w) \in Message
  BY DEF FloodOf, WarnOf, Message
<1>3. s \in Seq(Message) /\ Rising(s) /\ Elements(s) = IF f = {} THEN {} ELSE {FloodOf(f)}
  BY <1>2, Single
<1>4. t \in Seq(Message) /\ Rising(t) /\ Elements(t) = IF w = {} THEN {} ELSE {WarnOf(w)}
  BY <1>2, Single
<1>5. \A m \in Elements(s), n \in Elements(t) : Before(m, n)
  <2>1. WarnOf(w).type = "FLOOD_WARN"
    BY DEF WarnOf
  <2>2. \A n \in Elements(t) : n = WarnOf(w)
    BY <1>4
  <2> HIDE DEF t
  <2> QED BY <2>1, <2>2, Follows
<1> HIDE DEF s, t
<1>6. s \o t \in Seq(Message) /\ Rising(s \o t) /\ Elements(s \o t) = Elements(s) \cup Elements(t)
  BY <1>3, <1>4, <1>5, Joined
<1> QED BY <1>1, <1>3, <1>4, <1>6 DEF StageMail

\* A tick of a round: the snapshot, and then what has happened.
LEMMA SentIs ==
  ASSUME NEW pop, pop \in {{}} \cup {{q} : q \in Pops}, NEW D \in SUBSET Player, alive \subseteq Player,
         open, Snapshot \in Message, Flooded(tick') \in SUBSET Sector, Warned \in SUBSET Sector
  PROVE  /\ Sent(pop, D) \in Seq(Message) /\ Rising(Sent(pop, D))
         /\ Elements(Sent(pop, D)) = {Snapshot} \cup {PopOf(q) : q \in pop} \cup {Death(q[1]) : q \in pop}
                                       \cup StageMail \cup {Death(p) : p \in D}
<1> DEFINE a == <<Snapshot>>
           b == Popping(pop)
           c == Stages
           d == Deaths(D)
<1>1. Sent(pop, D) = ((a \o b) \o c) \o d
  BY DEF Sent
<1>2. /\ a \in Seq(Message) /\ Rising(a) /\ Elements(a) = {Snapshot}
      /\ b \in Seq(Message) /\ Rising(b)
      /\ Elements(b) = {PopOf(q) : q \in pop} \cup {Death(q[1]) : q \in pop}
      /\ c \in Seq(Message) /\ Rising(c) /\ Elements(c) = StageMail
      /\ d \in Seq(Message) /\ Rising(d) /\ Elements(d) = {Death(p) : p \in D}
  BY Single, PoppingIs, StagesAre, DeathsAre
<1>3. /\ Snapshot.type = "SNAPSHOT"
      /\ \A m \in Elements(b) : m.type \in {"POP", "DEATH"}
      /\ \A m \in Elements(c) : m.type \in {"FLOOD", "FLOOD_WARN"}
      /\ \A m \in Elements(d) : m.type = "DEATH"
  BY <1>2 DEF Snapshot, PopOf, Death, StageMail, FloodOf, WarnOf
<1> HIDE DEF a, b, c, d
<1>4. \A m \in Elements(a), n \in Elements(b) : Before(m, n)
  BY <1>2, <1>3, Follows
<1>5. /\ a \o b \in Seq(Message) /\ Rising(a \o b) /\ Elements(a \o b) = Elements(a) \cup Elements(b)
  BY <1>2, <1>4, Joined
<1>6. \A m \in Elements(a \o b), n \in Elements(c) : Before(m, n)
  BY <1>2, <1>3, <1>5, Follows
<1>7. /\ (a \o b) \o c \in Seq(Message) /\ Rising((a \o b) \o c)
      /\ Elements((a \o b) \o c) = Elements(a \o b) \cup Elements(c)
  BY <1>2, <1>5, <1>6, Joined
<1>8. \A m \in Elements((a \o b) \o c), n \in Elements(d) : Before(m, n)
  BY <1>3, Follows
<1>9. /\ ((a \o b) \o c) \o d \in Seq(Message) /\ Rising(((a \o b) \o c) \o d)
      /\ Elements(((a \o b) \o c) \o d) = Elements((a \o b) \o c) \cup Elements(d)
  BY <1>2, <1>7, <1>8, Joined
<1> QED BY <1>1, <1>2, <1>5, <1>7, <1>9

\* A snapshot is of the state after the tick.
LEMMA SnapshotIs == EndInv' => Snapshot = SnapshotNow' /\ Snapshot \in Message
<1> SUFFICES ASSUME EndInv' PROVE Snapshot = SnapshotNow' /\ Snapshot \in Message
  OBVIOUS
<1>1. Snapshot = SnapshotNow'
  BY DEF Snapshot, SnapshotNow
<1>2. /\ phase' \in Phases /\ tick' \in Nat /\ alive' \in SUBSET Player
      /\ sector' \in [Sector -> States] /\ ring' \in RingType
  BY DEF EndInv, EscapeInv, FlowInv, StageInv, SectorInv, RingInv, Phases, States
<1>3. {p \in Player : floodTicks'[p] > 0} \in SUBSET Player
  OBVIOUS
<1> QED BY <1>1, <1>2, <1>3 DEF Snapshot, Message

-----------------------------------------------------------------------------
(* The page reads.                                                          *)

\* What is still to come tells what has been read, and the other way round.
LEMMA TakingOrder ==
  ASSUME LinkInv, Receive
  PROVE  LET m == Head(link) IN
         /\ ~Welcomed'
         /\ m.type # "WELCOME" => ~Welcomed /\ ~Pending'
         /\ m.type = "WELCOME" => Welcomed /\ (Pending <=> Pending')
         /\ m.type = "SNAPSHOT" => Pending
         /\ m.type \notin {"WELCOME", "SNAPSHOT"} => ~Pending
<1> DEFINE m == Head(link)
<1>1. Mail = {m} \cup Mail' /\ \A n \in Mail' : Before(m, n)
  BY Taking
<1> HIDE DEF m
<1>2. /\ \A n \in Mail' : n.type # "WELCOME"
      /\ \A n \in Mail' : n.type = "SNAPSHOT" => m.type = "WELCOME"
  BY <1>1 DEF Before
<1>3. Welcomed' <=> \E n \in Mail' : n.type = "WELCOME"
  BY DEF Welcomed
<1>4. Pending' <=> \E n \in Mail' : n.type = "SNAPSHOT"
  BY DEF Pending
<1> QED BY <1>1, <1>2, <1>3, <1>4 DEF Welcomed, Pending, m

\* onWelcome: whoever has seen the round before hears of a new one.
LEMMA WelcomeStep ==
  ASSUME EndInv, PageInv, Receive, Head(link).type = "WELCOME"
  PROVE  PageInv'
<1> DEFINE m == Head(link)
<1>1. /\ UNCHANGED <<serverVars, open>> /\ LinkInv' /\ Mail = {m} \cup Mail' /\ ~Welcomed'
      /\ Welcomed /\ (Pending <=> Pending')
  BY Taking, TakingOrder DEF PageInv
<1>2. OnWelcome
  BY DEF Receive
<1> HIDE DEF m
<1>3. UNCHANGED <<phase, tick, sector, ring, alive, floodTicks, fell, popped, open>>
  BY <1>1 DEF serverVars, floodVars, historyVars
<1>4. UNCHANGED <<roster, died, kills, spec, watched>> /\ told' = FALSE /\ drawn' = FALSE
      /\ floodAt' = {} /\ drownFrom' = -1
  BY <1>2 DEF OnWelcome, statVars
<1>5. ServerInv'
  BY <1>3 DEF PageInv, ServerInv
<1>6. open /\ watched => phase = "COUNTDOWN" /\ Pending /\ G.phase # "COUNTDOWN"
  BY <1>1 DEF PageInv, HeardInv
<1>7. open /\ watched => sector = Dry /\ floodTicks = Nothing
  BY <1>6 DEF PageInv, ServerInv
<1>8. HeardInv'
  <2>1. /\ G' \in [phase : Phases \cup {"WAITING"}, tick : Nat, known : BOOLEAN, alive : SUBSET Player,
                   sectors : [Sector -> States], ring : RingType]
        /\ G'.phase = G.phase
    <3>1. Dry \in [Sector -> States]
      BY DEF Dry, States
    <3>2. [G.ring EXCEPT !.on = FALSE] \in RingType
      BY DEF PageInv, HeardInv, RingType
    <3> QED BY <1>2, <3>1, <3>2 DEF OnWelcome, PageInv, HeardInv
  <2>2. ~open => ~watched /\ link' = <<>>
    BY DEF PageInv, HeardInv, Receive
  <2> QED BY <1>1, <1>3, <1>4, <1>6, <2>1, <2>2 DEF HeardInv
<1>9. ClockInv'
  <2>1. open /\ watched => \A s \in Sector : sector[s] # "warning"
    BY <1>7 DEF Dry
  <2> QED BY <1>3, <1>4, <2>1 DEF ClockInv
<1>10. GaugeInv'
  <2>1. open /\ watched => floodTicks[Me] = 0
    BY <1>7, PageAssumption DEF Nothing
  <2> QED BY <1>1, <1>3, <1>4, <1>6, <2>1 DEF GaugeInv
<1>11. DrawnInv'
  BY <1>4 DEF PageInv, DrawnInv
<1>12. TableInv'
  BY <1>1, <1>3, <1>4, <1>6 DEF PageInv, TableInv
<1> QED BY <1>1, <1>5, <1>8, <1>9, <1>10, <1>11, <1>12 DEF PageInv

\* onSnapshot: the page has everything but what follows.
LEMMA SnapshotStep ==
  ASSUME EndInv, PageInv, Receive, Head(link).type = "SNAPSHOT"
  PROVE  PageInv'
<1> DEFINE m == Head(link)
           counts == G.phase # "COUNTDOWN" /\ m.phase = "COUNTDOWN"
<1>1. /\ UNCHANGED <<serverVars, open>> /\ LinkInv' /\ Mail = {m} \cup Mail' /\ ~Welcomed'
      /\ ~Welcomed /\ Pending /\ ~Pending' /\ m = SnapshotNow /\ m \in Message
  BY Taking, TakingOrder DEF PageInv, TrueNow
<1>2. OnSnapshot(m)
  BY DEF Receive
<1>3. m.type = "SNAPSHOT"
  OBVIOUS
<1>4. open
  BY DEF PageInv, HeardInv, Receive
<1> HIDE DEF m
<1>5. UNCHANGED <<phase, tick, sector, ring, alive, floodTicks, fell, popped, open>>
  BY <1>1 DEF serverVars, floodVars, historyVars
<1>6. /\ m.phase = phase /\ m.tick = tick /\ m.alive = alive /\ m.sectors = sector /\ m.ring = ring
      /\ m.wet = {p \in Player : floodTicks[p] > 0}
  BY <1>1 DEF SnapshotNow
<1>7. /\ G' = Told(m) /\ drownFrom' = Drowning(m.wet)
      /\ roster' = IF counts THEN {}
                   ELSE IF G.phase # "OVER" /\ m.phase = "OVER"
                   THEN (roster \cup m.alive) \cup {p \in Player : died[p] # -1 \/ kills[p] > 0}
                   ELSE roster \cup m.alive
      /\ died' = (IF counts THEN NotYet ELSE died)
      /\ kills' = (IF counts THEN Nothing ELSE kills)
      /\ told' = TRUE /\ watched' = (watched \/ counts) /\ drawn' = FALSE
      /\ UNCHANGED <<floodAt, spec, foam>>
  BY <1>2 DEF OnSnapshot
<1>8. ServerInv'
  BY <1>5 DEF PageInv, ServerInv
<1>9. counts => sector = Dry /\ alive = Player /\ floodTicks = Nothing /\ popped = Nothing /\ phase = "COUNTDOWN"
  BY <1>6 DEF PageInv, ServerInv
<1>10. G'.tick = tick
  BY <1>6, <1>7 DEF Told
<1>11. watched /\ phase = "COUNTDOWN" => counts
  BY <1>1, <1>4, <1>6 DEF PageInv, HeardInv
<1> HIDE DEF counts
<1>12. HeardInv'
  <2>1. Told(SnapshotNow)' = G'
    BY <1>5, <1>6, <1>7 DEF Told, SnapshotNow
  <2>2. /\ phase \in Phases /\ tick \in Nat /\ alive \in SUBSET Player
        /\ sector \in [Sector -> States] /\ ring \in RingType
    BY DEF EndInv, EscapeInv, FlowInv, StageInv, SectorInv, RingInv, Phases, States
  <2>3. G' \in [phase : Phases \cup {"WAITING"}, tick : Nat, known : BOOLEAN, alive : SUBSET Player,
                sectors : [Sector -> States], ring : RingType]
    BY <1>6, <1>7, <2>2 DEF Told
  <2> QED BY <1>1, <1>4, <1>5, <1>7, <2>1, <2>3 DEF HeardInv
<1>13. ClockInv'
  <2>1. ASSUME NEW s \in floodAt PROVE sector[s] = "warning" \/ \E n \in Mail' : n.type = "FLOOD" /\ s \in n.of
    BY <1>1, <1>3, <1>4 DEF PageInv, ClockInv
  <2>2. ASSUME watched', NEW s \in Sector, sector[s] = "warning"
        PROVE  s \in floodAt \/ \E n \in Mail' : n.type = "FLOOD_WARN" /\ s \in n.of
    <3>1. CASE counts
      BY <1>9, <2>2, <3>1 DEF Dry
    <3>2. CASE watched
      BY <1>1, <1>3, <1>4, <2>2, <3>2 DEF PageInv, ClockInv
    <3> QED BY <1>7, <2>2, <3>1, <3>2
  <2>3. floodAt \in SUBSET Sector
    BY DEF PageInv, ClockInv
  <2> QED BY <1>5, <1>7, <2>1, <2>2, <2>3 DEF ClockInv
<1>14. GaugeInv'
  <2> DEFINE left == floodTicks[Me]
  <2>1. left \in Nat /\ tick \in Nat /\ Escape \in Nat \ {0}
    BY PageAssumption, Sizes DEF EndInv, EscapeInv, FlowInv, StageInv
  <2>2. Me \in m.wet <=> left > 0
    BY <1>6, PageAssumption
  <2>3. CASE left = 0
    <3>1. drownFrom' = -1
      BY <1>7, <2>2, <2>3 DEF Drowning
    <3> QED BY <1>1, <1>5, <2>3, <3>1 DEF GaugeInv
  <2>4. CASE left > 0
    <3>1. ASSUME watched' PROVE drownFrom' \in Nat /\ tick = drownFrom' + (Escape - left)
      <4>1. watched
        <5>1. floodTicks = Nothing => left = 0
          BY PageAssumption DEF Nothing
        <5>2. ~(left = 0)
          BY <2>4
        <5> QED BY <1>7, <1>9, <3>1, <5>1, <5>2
      <4>2. IF left = Escape THEN drownFrom = -1 ELSE GotWet(left)
        BY <1>1, <1>4, <2>4, <4>1 DEF PageInv, GaugeInv
      <4>3. drownFrom' = IF drownFrom = -1 THEN tick ELSE drownFrom
        BY <1>7, <1>10, <2>2, <2>4 DEF Drowning
      <4> QED BY <2>1, <4>2, <4>3 DEF GotWet
    <3>2. GotWet(floodTicks[Me])' <=> drownFrom' \in Nat /\ tick = drownFrom' + (Escape - left)
      BY <1>5 DEF GotWet
    <3>3. floodTicks'[Me] # 0
      BY <1>5, <2>4
    <3>4. GaugeInv' <=> (open' /\ watched' => GotWet(floodTicks[Me])')
      BY <1>1, <3>3 DEF GaugeInv
    <3> QED BY <3>1, <3>2, <3>4
  <2> QED BY <2>1, <2>3, <2>4
<1>15. DrawnInv'
  BY <1>7 DEF PageInv, DrawnInv
<1>16. TableInv'
  <2>1. alive \in SUBSET Player
    BY DEF EndInv, EscapeInv
  <2>2. roster' \in SUBSET Player /\ died' \in [Player -> Int] /\ kills' \in [Player -> Nat]
    <3>1. NotYet \in [Player -> Int] /\ Nothing \in [Player -> Nat]
      BY DEF NotYet, Nothing
    <3>2. died' \in [Player -> Int] /\ kills' \in [Player -> Nat]
      BY <1>7, <3>1 DEF PageInv, TableInv
    <3>3. roster \in SUBSET Player
      BY DEF PageInv, TableInv
    <3>4. roster' \subseteq Player
      BY <1>6, <1>7, <2>1, <3>3
    <3> QED BY <3>2, <3>4
  <2>3. ASSUME watched', phase # "COUNTDOWN" PROVE roster' = Player
    <3>1. ~counts /\ watched
      BY <1>7, <1>9, <2>3
    <3>2. roster = Player \/ alive = Player
      BY <1>4, <2>3, <3>1 DEF PageInv, TableInv
    <3>3. Player \subseteq roster'
      BY <1>6, <1>7, <3>1, <3>2
    <3> QED BY <2>2, <3>3
  <2>4. ASSUME watched', NEW p \in Player
        PROVE  /\ popped[p] = kills'[p] + (IF Popper(p)' THEN 1 ELSE 0)
               /\ p \in alive => died'[p] = -1
               /\ p \notin alive => \/ died'[p] = fell[p]
                                    \/ died'[p] = -1 /\ fell[p] = tick /\ Coming(p)'
    <3>1. CASE counts
      <4>1. alive = Player /\ popped[p] = 0 /\ kills'[p] = 0 /\ died'[p] = -1
        BY <1>7, <1>9, <3>1 DEF Nothing, NotYet
      <4>2. \A n \in Mail' : n.type # "POP"
        <5> SUFFICES ASSUME NEW n \in Mail', n.type = "POP" PROVE FALSE
          OBVIOUS
        <5>1. n \in Message /\ TrueNow(n)
          <6>1. n \in Mail
            BY <1>1
          <6>2. \A x \in Mail : x \in Message
            BY DEF PageInv, LinkInv, Mail, Elements
          <6> QED BY <6>1, <6>2 DEF PageInv, LinkInv
        <5>2. n.who \in Player
          BY <5>1 DEF Message
        <5> QED BY <4>1, <5>1, <5>2 DEF TrueNow
      <4>3. ~Popper(p)'
        BY <4>2 DEF Popper
      <4> QED BY <4>1, <4>3
    <3>2. CASE ~counts
      <4>1. watched /\ phase # "COUNTDOWN"
        BY <1>7, <1>11, <2>4, <3>2
      <4>2. Popper(p)' <=> Popper(p)
        <5>1. Popper(p)' <=> \E n \in Mail' : n.type = "POP" /\ n.by = p
          BY DEF Popper
        <5> QED BY <1>1, <1>3, <5>1 DEF Popper
      <4>3. Coming(p)' <=> Coming(p)
        <5>1. Coming(p)' <=> \E n \in Mail' : n.type \in {"DEATH", "POP"} /\ n.who = p
          BY DEF Coming
        <5> QED BY <1>1, <1>3, <5>1 DEF Coming
      <4> QED BY <1>4, <1>7, <3>2, <4>1, <4>2, <4>3 DEF PageInv, TableInv
    <3> QED BY <3>1, <3>2
  <2> QED BY <1>1, <1>5, <2>2, <2>3, <2>4 DEF TableInv
<1> QED BY <1>1, <1>8, <1>12, <1>13, <1>14, <1>15, <1>16 DEF PageInv

\* What no event changes.
LEMMA EventStays ==
  ASSUME EndInv, PageInv, Receive, Head(link).type \notin {"WELCOME", "SNAPSHOT"}
  PROVE  /\ ServerInv' /\ LinkInv' /\ HeardInv' /\ GaugeInv' /\ DrawnInv'
         /\ open /\ ~Welcomed /\ ~Welcomed' /\ ~Pending /\ ~Pending'
         /\ open /\ watched => G.tick = tick
         /\ UNCHANGED <<phase, tick, sector, alive, fell, popped, open, roster, watched>>
<1> DEFINE m == Head(link)
<1>1. /\ UNCHANGED <<serverVars, open>> /\ LinkInv' /\ ~Welcomed' /\ ~Welcomed /\ ~Pending /\ ~Pending'
  BY Taking, TakingOrder DEF PageInv
<1>2. UNCHANGED <<G, drownFrom, roster, spec, foam, drawn, told, watched>>
  BY DEF Receive, OnDeath, OnPop, OnFlood, statVars, seenVars
<1>3. open
  BY DEF PageInv, HeardInv, Receive
<1>4. UNCHANGED <<phase, tick, sector, ring, alive, floodTicks, fell, popped, open>>
  BY <1>1 DEF serverVars, floodVars, historyVars
<1>5. ServerInv'
  BY <1>4 DEF PageInv, ServerInv
<1>6. HeardInv'
  <2>1. Told(SnapshotNow)' = Told(SnapshotNow)
    BY <1>4 DEF Told, SnapshotNow
  <2>2. G = Told(SnapshotNow) => G' = Told(SnapshotNow)'
    BY <1>2, <2>1
  <2> QED BY <1>1, <1>2, <1>3, <1>4, <2>2 DEF PageInv, HeardInv
<1>7. GaugeInv'
  BY <1>1, <1>2, <1>3, <1>4 DEF PageInv, GaugeInv, GotWet
<1>8. DrawnInv'
  BY <1>2 DEF PageInv, DrawnInv, FoamKey, Watching, AliveList
<1>9. watched => G.tick = tick
  <2>1. watched => G = Told(SnapshotNow)
    BY <1>1, <1>3 DEF PageInv, HeardInv
  <2>2. Told(SnapshotNow).tick = tick
    BY DEF Told, SnapshotNow
  <2> QED BY <2>1, <2>2
<1> QED BY <1>1, <1>2, <1>3, <1>4, <1>5, <1>6, <1>7, <1>8, <1>9

\* The water of an event of the water.
LEMMA ClockStep ==
  ASSUME EndInv, PageInv, Receive, Head(link).type \notin {"WELCOME", "SNAPSHOT"}
  PROVE  ClockInv'
<1> DEFINE m == Head(link)
<1>1. /\ m \in Message /\ TrueNow(m) /\ Mail = {m} \cup Mail' /\ \A n \in Mail' : Before(m, n)
      /\ open /\ ~Welcomed /\ UNCHANGED <<sector, open, watched>>
  BY Taking, EventStays DEF PageInv
<1>2. m.type \in {"DEATH", "POP", "FLOOD", "FLOOD_WARN"}
  BY <1>1 DEF Message
<1>3. floodAt' = IF m.type = "FLOOD" THEN floodAt \ m.of
                 ELSE IF m.type = "FLOOD_WARN" THEN floodAt \cup m.of ELSE floodAt
  BY <1>2 DEF Receive, OnDeath, OnPop, OnFlood
<1>4. m.type \in {"FLOOD", "FLOOD_WARN"} => m.of \in SUBSET Sector
  BY <1>1, <1>2 DEF Message
<1> HIDE DEF m
<1>5. /\ floodAt \in SUBSET Sector
      /\ \A s \in floodAt : sector[s] = "warning" \/ \E n \in Mail : n.type = "FLOOD" /\ s \in n.of
      /\ watched => \A s \in Sector : sector[s] = "warning" =>
                      s \in floodAt \/ \E n \in Mail : n.type = "FLOOD_WARN" /\ s \in n.of
  BY <1>1 DEF PageInv, ClockInv
<1>6. floodAt' \in SUBSET Sector
  BY <1>3, <1>4, <1>5
<1>7. ASSUME NEW s \in floodAt'
      PROVE  sector[s] = "warning" \/ \E n \in Mail' : n.type = "FLOOD" /\ s \in n.of
  <2>1. CASE s \in floodAt
    <3>1. m.type = "FLOOD" => s \notin m.of
      BY <1>3, <1>7
    <3> QED BY <1>1, <1>5, <2>1, <3>1
  <2>2. CASE m.type = "FLOOD_WARN" /\ s \in m.of
    BY <1>1, <2>2 DEF TrueNow
  <2> QED BY <1>3, <1>7, <2>1, <2>2
<1>8. ASSUME watched, NEW s \in Sector, sector[s] = "warning"
      PROVE  s \in floodAt' \/ \E n \in Mail' : n.type = "FLOOD_WARN" /\ s \in n.of
  <2>1. m.type = "FLOOD" => s \notin m.of
    BY <1>1, <1>8 DEF TrueNow
  <2> QED BY <1>1, <1>3, <1>5, <1>8, <2>1
<1> QED BY <1>1, <1>6, <1>7, <1>8 DEF ClockInv

\* The table of a death, or a pop (markDead, Hooks.event).
LEMMA TableStep ==
  ASSUME EndInv, PageInv, Receive, Head(link).type \notin {"WELCOME", "SNAPSHOT"}
  PROVE  TableInv'
<1> DEFINE m == Head(link)
<1>1. /\ m \in Message /\ TrueNow(m) /\ Mail = {m} \cup Mail' /\ \A n \in Mail' : Before(m, n)
      /\ open /\ ~Welcomed /\ ~Pending /\ ~Pending' /\ (watched => G.tick = tick)
      /\ UNCHANGED <<phase, tick, alive, fell, popped, open, roster, watched>>
  BY Taking, EventStays DEF PageInv
<1>2. m.type \in {"DEATH", "POP", "FLOOD", "FLOOD_WARN"}
  BY <1>1 DEF Message
<1>3. /\ died' = IF m.type \in {"DEATH", "POP"} THEN MarkDead(m.who) ELSE died
      /\ kills' = IF m.type = "POP" THEN [kills EXCEPT ![m.by] = @ + 1] ELSE kills
  BY <1>2 DEF Receive, OnDeath, OnPop, OnFlood, statVars
<1>4. /\ m.type \in {"DEATH", "POP"} => m.who \in Player /\ m.who \notin alive /\ fell[m.who] = tick
      /\ m.type = "POP" => m.by \in Player
  BY <1>1 DEF Message, TrueNow
<1>5. m.type = "POP" => \A n \in Mail' : n.type # "POP"
  BY <1>1 DEF Before
<1> HIDE DEF m
<1>6. /\ roster \in SUBSET Player /\ died \in [Player -> Int] /\ kills \in [Player -> Nat]
      /\ watched /\ phase # "COUNTDOWN" => roster = Player
      /\ watched =>
           \A p \in Player :
             /\ popped[p] = kills[p] + (IF Popper(p) THEN 1 ELSE 0)
             /\ p \in alive => died[p] = -1
             /\ p \notin alive => \/ died[p] = fell[p]
                                  \/ died[p] = -1 /\ fell[p] = tick /\ Coming(p)
  BY <1>1 DEF PageInv, TableInv
<1>7. G.tick \in Nat
  BY DEF PageInv, HeardInv
<1>8. died' \in [Player -> Int] /\ kills' \in [Player -> Nat]
  <2>1. kills' \in [Player -> Nat]
    <3>1. m.type = "POP" => kills[m.by] + 1 \in Nat
      BY <1>4, <1>6
    <3> QED BY <1>3, <1>4, <1>6, <3>1
  <2> QED BY <1>3, <1>4, <1>6, <1>7, <2>1 DEF MarkDead
<1>9. ASSUME watched, NEW p \in Player
      PROVE  /\ popped[p] = kills'[p] + (IF Popper(p)' THEN 1 ELSE 0)
             /\ p \in alive => died'[p] = -1
             /\ p \notin alive => \/ died'[p] = fell[p]
                                  \/ died'[p] = -1 /\ fell[p] = tick /\ Coming(p)'
  <2>1. Popper(p)' <=> \E n \in Mail' : n.type = "POP" /\ n.by = p
    BY DEF Popper
  <2>2. Coming(p)' <=> \E n \in Mail' : n.type \in {"DEATH", "POP"} /\ n.who = p
    BY DEF Coming
  <2>3. popped[p] = kills'[p] + (IF Popper(p)' THEN 1 ELSE 0)
    <3>1. CASE m.type = "POP" /\ m.by = p
      <4>1. Popper(p) /\ ~Popper(p)'
        BY <1>1, <1>5, <2>1, <3>1 DEF Popper
      <4>2. kills'[p] = kills[p] + 1
        BY <1>3, <1>6, <3>1
      <4> QED BY <1>6, <1>9, <4>1, <4>2
    <3>2. CASE ~(m.type = "POP" /\ m.by = p)
      <4>1. Popper(p) <=> Popper(p)'
        BY <1>1, <2>1, <3>2 DEF Popper
      <4>2. kills'[p] = kills[p]
        BY <1>3, <1>6, <3>2
      <4> QED BY <1>6, <1>9, <4>1, <4>2
    <3> QED BY <3>1, <3>2
  <2>4. CASE m.type \in {"DEATH", "POP"} /\ m.who = p
    <3>1. died'[p] = IF died[p] # -1 THEN died[p] ELSE tick
      BY <1>1, <1>3, <1>6, <1>9, <2>4 DEF MarkDead
    <3>2. p \notin alive /\ fell[p] = tick
      BY <1>4, <2>4
    <3> QED BY <1>6, <1>9, <2>3, <3>1, <3>2
  <2>5. CASE ~(m.type \in {"DEATH", "POP"} /\ m.who = p)
    <3>1. died'[p] = died[p]
      BY <1>3, <1>6, <2>5 DEF MarkDead
    <3>2. Coming(p) <=> Coming(p)'
      BY <1>1, <2>2, <2>5 DEF Coming
    <3> QED BY <1>6, <1>9, <2>3, <3>1, <3>2
  <2> QED BY <2>4, <2>5
<1>10. roster' \in SUBSET Player /\ (watched' /\ phase' # "COUNTDOWN" => roster' = Player)
  BY <1>1, <1>6
<1> QED BY <1>1, <1>8, <1>9, <1>10 DEF TableInv

\* A message.
LEMMA ReceiveStep == EndInv /\ PageInv /\ Receive => PageInv'
<1> SUFFICES ASSUME EndInv, PageInv, Receive PROVE PageInv'
  OBVIOUS
<1>1. CASE Head(link).type \notin {"WELCOME", "SNAPSHOT"}
  BY <1>1, EventStays, ClockStep, TableStep DEF PageInv
<1> QED BY <1>1, WelcomeStep, SnapshotStep

-----------------------------------------------------------------------------
(* The page draws, comes and goes.                                          *)

\* Everyone of the list has a place in it, and every place is somebody's.
LEMMA NthIs ==
  ASSUME HeardInv
  PROVE  /\ Cardinality(AliveList) \in Nat
         /\ AliveList # {} => Cardinality(AliveList) > 0
         /\ \A p \in AliveList : Rank(p) \in Nat
         /\ \A k \in 0 .. Cardinality(AliveList) - 1 : Nth(k) \in AliveList
<1>1. AliveList \in SUBSET Player
  BY DEF HeardInv, AliveList
<1>2. /\ IsFiniteSet(AliveList) /\ Cardinality(AliveList) \in Nat
      /\ \A p \in AliveList : Cardinality(Below(AliveList, p)) \in 0 .. Cardinality(AliveList) - 1
      /\ \A k \in 0 .. Cardinality(AliveList) - 1 : \E p \in AliveList : Cardinality(Below(AliveList, p)) = k
  BY <1>1, PlayerRanks
<1>3. \A p : Rank(p) = Cardinality(Below(AliveList, p))
  BY DEF Rank, Below
<1>4. AliveList # {} => Cardinality(AliveList) > 0
  BY <1>2, FS_EmptySet
<1>5. ASSUME NEW k \in 0 .. Cardinality(AliveList) - 1 PROVE Nth(k) \in AliveList
  <2>1. \E p \in AliveList : Rank(p) = k
    BY <1>2, <1>3
  <2> QED BY <2>1 DEF Nth
<1>6. \A p \in AliveList : Rank(p) \in Nat
  BY <1>2, <1>3
<1> QED BY <1>2, <1>4, <1>5, <1>6

\* Nothing but what is watched and drawn changes.
LEMMA LookStays ==
  ASSUME PageInv, UNCHANGED <<serverVars, linkVars, G, floodAt, drownFrom, statVars, seenVars>>
  PROVE  LinkInv' /\ ServerInv' /\ HeardInv' /\ ClockInv' /\ GaugeInv' /\ TableInv'
<1>1. UNCHANGED <<phase, tick, sector, ring, alive, floodTicks, fell, popped, open, link, G, floodAt,
                  drownFrom, roster, died, kills, told, watched>>
  BY DEF serverVars, floodVars, historyVars, linkVars, statVars, seenVars
<1>2. Mail' = Mail /\ (Welcomed <=> Welcomed') /\ (Pending <=> Pending') /\ SnapshotNow' = SnapshotNow
  BY <1>1 DEF Mail, Welcomed, Pending, SnapshotNow
<1>3. LinkInv'
  BY <1>1, <1>2 DEF PageInv, LinkInv, TrueNow, Rising
<1>4. ServerInv'
  BY <1>1 DEF PageInv, ServerInv
<1>5. HeardInv'
  BY <1>1, <1>2 DEF PageInv, HeardInv, Told
<1>6. ClockInv'
  BY <1>1, <1>2 DEF PageInv, ClockInv
<1>7. GaugeInv'
  BY <1>1, <1>2 DEF PageInv, GaugeInv, GotWet
<1>8. TableInv'
  BY <1>1, <1>2 DEF PageInv, TableInv, Popper, Coming
<1> QED BY <1>3, <1>4, <1>5, <1>6, <1>7, <1>8

\* The camera goes from one of those who live to another, and the foam is made anew.
LEMMA LookStep ==
  ASSUME PageInv, SpecShift \/ Frame
  PROVE  PageInv'
<1>1. LinkInv' /\ ServerInv' /\ HeardInv' /\ ClockInv' /\ GaugeInv' /\ TableInv'
  BY LookStays DEF SpecShift, Frame
<1>2. HeardInv /\ spec \in [at : Nat, id : Int]
  BY DEF PageInv, DrawnInv
<1> DEFINE n == Cardinality(AliveList)
<1>3. /\ n \in Nat /\ (AliveList # {} => n > 0) /\ \A p \in AliveList : Rank(p) \in Nat
      /\ \A k \in 0 .. n - 1 : Nth(k) \in AliveList /\ Nth(k) \in Int
  <2>1. AliveList \subseteq Player /\ Player \subseteq Nat
    BY <1>2, FloodAssumption DEF AliveList, HeardInv
  <2>2. \A p \in AliveList : p \in Int
    BY <2>1
  <2> QED BY <1>2, <2>2, NthIs
<1> HIDE DEF n
<1>4. CASE SpecShift
  <2>1. PICK step \in {-1, 1} : spec' = [at |-> (spec.at + step + n) % n, id |-> Nth((spec.at + step + n) % n)]
    BY <1>4 DEF SpecShift, n
  <2>2. (spec.at + step + n) % n \in 0 .. n - 1
    BY <1>2, <1>3, <1>4 DEF SpecShift
  <2>3. spec' \in [at : Nat, id : Int] /\ spec'.id \in AliveList
    BY <1>3, <2>1, <2>2
  <2>4. UNCHANGED <<G, foam, drawn>>
    BY <1>4 DEF SpecShift
  <2>5. DrawnInv'
    BY <2>3, <2>4 DEF PageInv, DrawnInv, FoamKey, Watching, AliveList
  <2> QED BY <1>1, <2>5 DEF PageInv
<1>5. CASE Frame
  <2>1. foam' = Foam /\ spec' = Followed /\ drawn' = TRUE /\ G' = G
    BY <1>5 DEF Frame
  <2>2. FoamKey(foam') = FoamKey(G)
    BY <2>1 DEF Foam, FoamKey
  <2>3. spec' \in [at : Nat, id : Int] /\ (Watching /\ AliveList # {} => spec'.id \in AliveList)
    <3>1. CASE ~Watching \/ AliveList = {}
      BY <1>2, <2>1, <3>1 DEF Followed
    <3>2. CASE ~(~Watching \/ AliveList = {}) /\ spec.id \in AliveList
      <4>1. spec' = [spec EXCEPT !.at = Rank(spec.id)] /\ Rank(spec.id) \in Nat
        BY <1>3, <2>1, <3>2 DEF Followed
      <4> QED BY <1>2, <3>2, <4>1
    <3>3. CASE ~(~Watching \/ AliveList = {}) /\ spec.id \notin AliveList
      <4> DEFINE k == IF spec.at < n - 1 THEN spec.at ELSE n - 1
      <4>1. spec' = [at |-> k, id |-> Nth(k)]
        BY <2>1, <3>3 DEF Followed, n
      <4>2. k \in 0 .. n - 1
        BY <1>2, <1>3, <3>3
      <4> HIDE DEF k
      <4> QED BY <1>3, <4>1, <4>2
    <3> QED BY <3>1, <3>2, <3>3
  <2>4. DrawnInv'
    BY <2>1, <2>2, <2>3 DEF DrawnInv, FoamKey, Watching, AliveList
  <2> QED BY <1>1, <2>4 DEF PageInv
<1> QED BY <1>4, <1>5

\* Somebody comes, who hears nothing before he is welcome.
LEMMA ArriveStep == ASSUME PageInv, Arrive PROVE PageInv'
<1> DEFINE w == [type |-> "WELCOME"]
<1>1. /\ ~open /\ open' /\ open' = TRUE /\ link' = <<w>>
      /\ UNCHANGED <<phase, tick, sector, ring, alive, floodTicks, fell, popped, G, floodAt,
                  drownFrom, roster, died, kills, spec, foam, drawn, told, watched>>
  BY DEF Arrive, Connect, serverVars, floodVars, historyVars, pageVars, statVars, seenVars
<1>2. link' \in Seq(Message) /\ Mail' = {w} /\ Rising(link')
  <2>1. w \in Message
    BY DEF Message
  <2>2. Mail' = Elements(link')
    BY DEF Mail, Elements
  <2> QED BY <1>1, <2>1, <2>2, Single
<1>3. Welcomed' /\ ~Pending' /\ ~watched'
  <2>1. Welcomed' <=> \E m \in Mail' : m.type = "WELCOME"
    BY DEF Welcomed
  <2>2. Pending' <=> \E m \in Mail' : m.type = "SNAPSHOT"
    BY DEF Pending
  <2> QED BY <1>1, <1>2, <2>1, <2>2 DEF PageInv, HeardInv
<1>4. LinkInv'
  <2>1. TrueNow(w)'
    BY DEF TrueNow
  <2>2. Rising(link)'
    BY <1>2 DEF Rising, Before
  <2> QED BY <1>2, <2>1, <2>2 DEF LinkInv
<1>5. ServerInv'
  BY <1>1 DEF PageInv, ServerInv
<1>6. HeardInv'
  BY <1>1, <1>3 DEF PageInv, HeardInv
<1>7. ClockInv' /\ GaugeInv'
  BY <1>1, <1>3 DEF PageInv, ClockInv, GaugeInv
<1>8. DrawnInv'
  BY <1>1 DEF PageInv, DrawnInv, FoamKey, Watching, AliveList
<1>9. TableInv'
  BY <1>1, <1>3 DEF PageInv, TableInv
<1> QED BY <1>4, <1>5, <1>6, <1>7, <1>8, <1>9 DEF PageInv

\* Somebody goes, and has no longer seen the round.
LEMMA LeaveStep == ASSUME PageInv, Leave PROVE PageInv'
<1>1. /\ open' = FALSE /\ link' = <<>> /\ watched' = FALSE
      /\ UNCHANGED <<phase, tick, sector, ring, alive, floodTicks, fell, popped, G, floodAt,
                  drownFrom, roster, died, kills, spec, foam, drawn>>
  BY DEF Leave, Close, serverVars, floodVars, historyVars, statVars
<1>2. link' \in Seq(Message) /\ Mail' = {} /\ Rising(link)'
  <2>1. Rising(link)' /\ Mail' = Elements(link')
    BY <1>1 DEF Rising, Mail, Elements
  <2> QED BY <1>1, <2>1, Single
<1>3. LinkInv'
  BY <1>2 DEF LinkInv
<1>4. ServerInv'
  BY <1>1 DEF PageInv, ServerInv
<1>5. HeardInv'
  BY <1>1 DEF PageInv, HeardInv
<1>6. ClockInv' /\ GaugeInv'
  BY <1>1 DEF PageInv, ClockInv, GaugeInv
<1>7. DrawnInv'
  BY <1>1 DEF PageInv, DrawnInv, FoamKey, Watching, AliveList
<1>8. TableInv'
  BY <1>1 DEF PageInv, TableInv
<1> QED BY <1>3, <1>4, <1>5, <1>6, <1>7, <1>8 DEF PageInv

-----------------------------------------------------------------------------
(* A tick.                                                                  *)

\* What a tick says of the sectors is what it does to them.
LEMMA WaterTick ==
  ASSUME FlowInv, SectorStates(tick')
  PROVE  /\ Flooded(tick') \in SUBSET Sector /\ Warned \in SUBSET Sector
         /\ \A q \in Flooded(tick') : sector'[q] = "flooded"
         /\ \A q \in Warned : sector'[q] = "warning"
         /\ \A q \in Sector : sector'[q] = "warning" => sector[q] = "warning" \/ q \in Warned
         /\ \A q \in Sector : sector[q] = "warning" => sector'[q] = "warning" \/ q \in Flooded(tick')
<1> DEFINE t == tick'
           f == Flooded(t)
<1>1. /\ flooding \in Seq(SUBSET Outer) /\ Len(flooding) \in Nat /\ DOMAIN flooding = 1 .. Len(flooding)
      /\ Taken \in SUBSET Outer /\ Outer \subseteq Sector
      /\ \A q : q \in Taken <=> \E s \in 1 .. Len(flooding) : q \in flooding[s]
  BY TakenFacts, OuterFacts DEF FlowInv, StageInv
<1>2. f \in SUBSET Sector /\ f \subseteq Taken
  BY <1>1 DEF Flooded
<1> HIDE DEF t, f
<1>3. CASE \E s \in Stage : Warn[s] = t
  <2>1. PICK S \in SUBSET Sector :
          /\ S \cap Taken = {} /\ flooding' = Append(flooding, S)
          /\ sector' = [q \in Sector |-> IF q \in f THEN "flooded"
                                         ELSE IF q \in S THEN "warning" ELSE sector[q]]
    <3>1. \E S \in {Q \in SUBSET Sector : Order(Q, CHOOSE s \in Stage : Warn[s] = t)} :
            /\ flooding' = Append(flooding, S)
            /\ sector' = [q \in Sector |-> IF q \in f THEN "flooded"
                                           ELSE IF q \in S THEN "warning" ELSE sector[q]]
      BY <1>3 DEF SectorStates, t, f
    <3>2. \A Q, s : Order(Q, s) => Q \cap Taken = {}
      BY DEF Order
    <3> QED BY <3>1, <3>2
  <2>2. Warned = S
    <3>1. Len(flooding') = Len(flooding) + 1 /\ flooding'[Len(flooding) + 1] = S
      BY <1>1, <2>1, AppendProperties
    <3>2. flooding' # flooding
      BY <1>1, <3>1
    <3> QED BY <3>1, <3>2 DEF Warned
  <2> QED BY <1>2, <2>1, <2>2 DEF t, f
<1>4. CASE ~\E s \in Stage : Warn[s] = t
  <2>1. flooding' = flooding /\ sector' = [q \in Sector |-> IF q \in f THEN "flooded" ELSE sector[q]]
    BY <1>4 DEF SectorStates, t, f
  <2>2. Warned = {}
    BY <2>1 DEF Warned
  <2> QED BY <1>2, <2>1, <2>2 DEF t, f
<1> QED BY <1>3, <1>4

\* What the page has got when the next tick is played: all of the last one.
AllHeard ==
  /\ link = <<>> /\ Mail = {} /\ ~Welcomed /\ ~Pending
  /\ watched => G = Told(SnapshotNow)
  /\ \A s \in floodAt : sector[s] = "warning"
  /\ watched => \A s \in Sector : sector[s] = "warning" => s \in floodAt
  /\ watched => IF floodTicks[Me] = 0 THEN drownFrom = -1 ELSE GotWet(floodTicks[Me])
  /\ watched => /\ phase # "COUNTDOWN" => roster = Player
                /\ \A p \in Player : /\ popped[p] = kills[p]
                                     /\ died[p] = IF p \in alive THEN -1 ELSE fell[p]

\* Nothing is on the way to it.
LEMMA HeardAll == ASSUME PageInv, open, link = <<>> PROVE AllHeard
<1>1. Mail = {}
  BY DEF Mail, Elements
<1>2. ~Welcomed /\ ~Pending /\ \A p : ~Popper(p) /\ ~Coming(p)
  BY <1>1 DEF Welcomed, Pending, Popper, Coming
<1>3. watched => G = Told(SnapshotNow)
  BY <1>2 DEF PageInv, HeardInv
<1>4. /\ \A s \in floodAt : sector[s] = "warning"
      /\ watched => \A s \in Sector : sector[s] = "warning" => s \in floodAt
  BY <1>1, <1>2 DEF PageInv, ClockInv
<1>5. watched => IF floodTicks[Me] = 0 THEN drownFrom = -1 ELSE GotWet(floodTicks[Me])
  BY <1>2 DEF PageInv, GaugeInv
<1>6. watched => /\ phase # "COUNTDOWN" => roster = Player
                 /\ \A p \in Player : popped[p] = kills[p] /\ died[p] = IF p \in alive THEN -1 ELSE fell[p]
  <2>1. ASSUME watched, NEW p \in Player PROVE popped[p] = kills[p] /\ died[p] = IF p \in alive THEN -1 ELSE fell[p]
    BY <1>2, <2>1 DEF PageInv, TableInv
  <2> QED BY <1>2, <2>1 DEF PageInv, TableInv
<1> QED BY <1>1, <1>2, <1>3, <1>4, <1>5, <1>6 DEF AllHeard

\* What a tick leaves on the page.
PageStays ==
  UNCHANGED <<open, G, floodAt, drownFrom, roster, died, kills, spec, foam, drawn, told, watched>>

\* Nobody hears of a tick whose page is not there.
LEMMA UnheardStep ==
  ASSUME PageInv, ServerInv', PageStays, ~open, link' = <<>>
  PROVE  PageInv'
<1>1. ~watched
  BY DEF PageInv, HeardInv
<1>2. link' \in Seq(Message) /\ Mail' = {} /\ Rising(link)'
  <2>1. Rising(link)' /\ Mail' = Elements(link')
    BY DEF Rising, Mail, Elements
  <2> QED BY <2>1, Single
<1>3. LinkInv'
  BY <1>2 DEF LinkInv
<1>4. HeardInv'
  BY <1>1 DEF PageInv, HeardInv, PageStays
<1>5. ClockInv' /\ GaugeInv'
  BY <1>1 DEF PageInv, ClockInv, GaugeInv, PageStays
<1>6. DrawnInv'
  BY DEF PageInv, DrawnInv, FoamKey, Watching, AliveList, PageStays
<1>7. TableInv'
  BY <1>1 DEF PageInv, TableInv, PageStays
<1> QED BY <1>3, <1>4, <1>5, <1>6, <1>7 DEF PageInv

\* The snapshot is the first of what is sent, and true of the state after the tick.
LEMMA SentHeard ==
  ASSUME PageInv, EndInv', PageStays, open, link = <<>>,
         Snapshot \in Mail', ~Welcomed', phase' # "COUNTDOWN"
  PROVE  HeardInv' /\ Pending' /\ DrawnInv'
<1>1. Pending'
  <2>1. Pending' <=> \E m \in Mail' : m.type = "SNAPSHOT"
    BY DEF Pending
  <2> QED BY <2>1 DEF Snapshot
<1>2. HeardInv'
  BY <1>1 DEF PageInv, HeardInv, PageStays
<1>3. DrawnInv'
  BY DEF PageInv, DrawnInv, FoamKey, Watching, AliveList, PageStays
<1> QED BY <1>1, <1>2, <1>3

\* StartPlay: the first snapshot of the play.
LEMMA StartHeard ==
  ASSUME EndInv, EndInv', PageInv, StartPlay, PageStays, open => link = <<>>
  PROVE  PageInv'
<1>1. /\ phase = "COUNTDOWN" /\ phase' = "PLAYING" /\ tick = 0 /\ link' = Sent({}, {})
      /\ UNCHANGED <<tick, flooding, sector, ring, alive, floodTicks, fell, popped>>
  BY DEF StartPlay, floodVars, historyVars, EndInv, AllWet
<1>2. sector = Dry /\ alive = Player /\ floodTicks = Nothing /\ popped = Nothing
  BY <1>1 DEF PageInv, ServerInv
<1>3. ServerInv'
  BY <1>1 DEF PageInv, ServerInv, PageStays
<1>4. CASE ~open
  BY <1>1, <1>3, <1>4, UnheardStep DEF Sent
<1>5. CASE open
  <2>1. AllHeard
    BY <1>5, HeardAll
  <2>2. Snapshot = SnapshotNow' /\ Snapshot \in Message
    BY SnapshotIs
  <2>3. Flooded(tick') = {} /\ Warned = {}
    <3>1. \A s \in DOMAIN flooding : Fill[s] # 0
      <4>1. flooding \in Seq(SUBSET Outer) /\ Len(flooding) <= Last /\ DOMAIN flooding = 1 .. Len(flooding)
        BY DEF EndInv, FlowInv, StageInv
      <4>2. \A s \in Stage : Fill[s] # 0
        BY FloodAssumption
      <4> QED BY <4>1, <4>2, FromFacts
    <3> QED BY <1>1, <3>1 DEF Flooded, Warned
  <2>4. link' \in Seq(Message) /\ Rising(link)' /\ Mail' = {Snapshot}
    <3>1. /\ Sent({}, {}) \in Seq(Message) /\ Rising(Sent({}, {}))
          /\ Elements(Sent({}, {})) = {Snapshot} \cup {PopOf(q) : q \in {}} \cup {Death(q[1]) : q \in {}}
                                        \cup StageMail \cup {Death(p) : p \in {}}
      BY <1>2, <1>5, <2>2, <2>3, SentIs
    <3>2. StageMail = {}
      BY <2>3 DEF StageMail
    <3>3. Elements(Sent({}, {})) = {Snapshot}
      BY <3>1, <3>2
    <3>4. Mail' = Elements(link') /\ (Rising(link)' <=> Rising(link'))
      BY DEF Mail, Elements, Rising, Before
    <3> QED BY <1>1, <3>1, <3>3, <3>4
  <2>5. Snapshot.type = "SNAPSHOT"
    BY DEF Snapshot
  <2>6. LinkInv'
    <3>1. \A m \in Mail' : TrueNow(m)'
      BY <2>2, <2>4, <2>5 DEF TrueNow
    <3> QED BY <2>4, <3>1 DEF LinkInv
  <2>7. ~Welcomed' /\ \A p : ~Popper(p)' /\ ~Coming(p)'
    BY <2>4, <2>5 DEF Welcomed, Popper, Coming
  <2>8. HeardInv' /\ Pending' /\ DrawnInv'
    BY <1>1, <1>5, <2>4, <2>7, SentHeard
  <2>9. ClockInv'
    BY <1>1, <1>2, <2>1 DEF AllHeard, PageInv, ClockInv, PageStays, Dry
  <2>10. GaugeInv'
    <3>1. floodTicks'[Me] = 0
      BY <1>1, <1>2, PageAssumption DEF Nothing
    <3> QED BY <2>8, <3>1 DEF GaugeInv
  <2>11. TableInv'
    BY <1>1, <1>2, <2>1, <2>7, <2>8 DEF AllHeard, PageInv, TableInv, PageStays
  <2> QED BY <1>3, <2>6, <2>8, <2>9, <2>10, <2>11 DEF PageInv
<1> QED BY <1>4, <1>5

\* NextRound: a welcome, and the first snapshot of the countdown.
LEMMA RoundHeard ==
  ASSUME EndInv, EndInv', PageInv, NextRound, PageStays, open => link = <<>>
  PROVE  PageInv'
<1> DEFINE w == [type |-> "WELCOME"]
<1>1. /\ phase = "OVER" /\ phase' = "COUNTDOWN" /\ sector' = Dry /\ alive' = Player
      /\ floodTicks' = Nothing /\ fell' = Nothing /\ popped' = Nothing
      /\ link' = IF open THEN <<w, Snapshot>> ELSE <<>>
  BY DEF NextRound, RestartGame
<1>2. Nothing \in [Player -> Nat]
  BY DEF Nothing
<1>3. ServerInv'
  BY <1>1, <1>2 DEF PageInv, ServerInv, PageStays
<1>4. CASE ~open
  BY <1>1, <1>3, <1>4, UnheardStep
<1>5. CASE open
  <2>1. AllHeard
    BY <1>5, HeardAll
  <2>2. Snapshot = SnapshotNow' /\ Snapshot \in Message /\ Snapshot.type = "SNAPSHOT"
    BY SnapshotIs DEF Snapshot
  <2>3. w \in Message /\ w.type = "WELCOME"
    BY DEF Message
  <2> HIDE DEF w
  <2>4. link' \in Seq(Message) /\ Rising(link)' /\ Mail' = {w, Snapshot}
    <3>1. /\ <<w>> \in Seq(Message) /\ Rising(<<w>>) /\ Elements(<<w>>) = {w}
          /\ <<Snapshot>> \in Seq(Message) /\ Rising(<<Snapshot>>) /\ Elements(<<Snapshot>>) = {Snapshot}
      BY <2>2, <2>3, Single
    <3>2. Before(w, Snapshot)
      BY <2>2, <2>3 DEF Before
    <3>3. /\ <<w>> \o <<Snapshot>> \in Seq(Message) /\ Rising(<<w>> \o <<Snapshot>>)
          /\ Elements(<<w>> \o <<Snapshot>>) = {w} \cup {Snapshot}
      <4>1. \A m \in Elements(<<w>>), n \in Elements(<<Snapshot>>) : Before(m, n)
        BY <3>1, <3>2
      <4> QED BY <3>1, <4>1, Joined
    <3>4. link' = <<w>> \o <<Snapshot>>
      BY <1>1, <1>5
    <3>5. Mail' = Elements(link') /\ (Rising(link)' <=> Rising(link'))
      BY DEF Mail, Elements, Rising, Before
    <3> QED BY <3>3, <3>4, <3>5
  <2>5. LinkInv'
    <3>1. \A m \in Mail' : TrueNow(m)'
      BY <2>2, <2>3, <2>4 DEF TrueNow
    <3> QED BY <2>4, <3>1 DEF LinkInv
  <2>6. Welcomed' /\ Pending'
    BY <2>2, <2>3, <2>4 DEF Welcomed, Pending
  <2>7. HeardInv'
    <3>1. watched => G.phase = "OVER"
      BY <1>1, <2>1 DEF AllHeard, Told, SnapshotNow
    <3> QED BY <1>1, <1>5, <2>6, <3>1 DEF PageInv, HeardInv, PageStays
  <2>8. ClockInv'
    <3>1. \A s \in Sector : sector'[s] # "warning"
      BY <1>1 DEF Dry
    <3> QED BY <2>6, <3>1 DEF PageInv, ClockInv, PageStays
  <2>9. GaugeInv'
    <3>1. floodTicks'[Me] = 0
      BY <1>1, PageAssumption DEF Nothing
    <3> QED BY <2>6, <3>1 DEF GaugeInv
  <2>10. DrawnInv'
    BY DEF PageInv, DrawnInv, FoamKey, Watching, AliveList, PageStays
  <2>11. TableInv'
    BY <1>1, <2>6 DEF PageInv, TableInv, PageStays
  <2> QED BY <1>3, <2>5, <2>7, <2>8, <2>9, <2>10, <2>11 DEF PageInv
<1> QED BY <1>4, <1>5

\* A tick of the play.
Played(pop, I) ==
  /\ phase = "PLAYING" /\ Rise
  /\ pop \in {{}} \cup {{q} : q \in Pops} /\ I \in SUBSET (alive \ {q[1] : q \in pop})
  /\ PlayTick(pop, I)
  /\ phase' = (IF Cardinality(alive') <= 1 THEN "OVER" ELSE "PLAYING")
  /\ link' = Sent(pop, Drowned(I))

\* Who dies in it, and who has popped whom.
LEMMA PlayedFacts ==
  ASSUME EndInv, PageInv, NEW pop, NEW I, Played(pop, I), UNCHANGED open
  PROVE  /\ pop = {} \/ \E q \in Pops : pop = {q}
         /\ Drowned(I) \in SUBSET I /\ I \in SUBSET alive /\ alive \in SUBSET Player
         /\ alive' \in SUBSET alive
         /\ \A p : p \in alive \ alive' <=> p \in Drowned(I) \/ \E q \in pop : p = q[1]
         /\ \A p \in Player : popped'[p] = popped[p] + (IF \E q \in pop : q[2] = p THEN 1 ELSE 0)
         /\ tick \in Nat /\ tick' = tick + 1
         /\ fell' = [p \in Player |-> IF p \in alive \ alive' THEN tick' ELSE fell[p]]
         /\ ServerInv'
<1>1. pop = {} \/ \E q \in Pops : pop = {q}
  BY DEF Played
<1>2. Drowned(I) \in SUBSET I /\ I \in SUBSET alive /\ alive \in SUBSET Player
  BY DEF Drowned, Played, EndInv, EscapeInv
<1>3. \A q \in pop : q[1] \in alive /\ q[2] \in alive
  BY <1>1 DEF Pops
<1>4. /\ alive' = alive \ ({q[1] : q \in pop} \cup Drowned(I))
      /\ fell' = [p \in Player |-> IF p \in alive \ alive' THEN tick' ELSE fell[p]]
      /\ popped' = [p \in Player |-> popped[p] + Cardinality({q \in pop : q[2] = p})]
  BY DEF Played, PlayTick
<1>5. \A p : p \in alive \ alive' <=> p \in Drowned(I) \/ \E q \in pop : p = q[1]
  BY <1>2, <1>3, <1>4
<1>6. ASSUME NEW p \in Player
      PROVE  Cardinality({q \in pop : q[2] = p}) = IF \E q \in pop : q[2] = p THEN 1 ELSE 0
  <2>1. CASE \E q \in pop : q[2] = p
    <3>1. PICK q \in pop : q[2] = p
      BY <2>1
    <3>2. {r \in pop : r[2] = p} = {q}
      BY <1>1, <3>1
    <3> QED BY <2>1, <3>2, FS_Singleton
  <2>2. CASE ~\E q \in pop : q[2] = p
    <3>1. {r \in pop : r[2] = p} = {}
      BY <2>2
    <3> QED BY <2>2, <3>1, FS_EmptySet
  <2> QED BY <2>1, <2>2
<1>7. \A p \in Player : popped'[p] = popped[p] + (IF \E q \in pop : q[2] = p THEN 1 ELSE 0)
  BY <1>4, <1>6
<1>8. tick \in Nat /\ tick' = tick + 1 /\ tick' \in Nat
  BY DEF Played, Rise, EndInv, FlowInv, StageInv
<1>9. ServerInv'
  <2>1. fell \in [Player -> Nat] /\ popped \in [Player -> Nat] /\ open \in BOOLEAN
    BY DEF PageInv, ServerInv
  <2>2. fell' \in [Player -> Nat]
    BY <1>4, <1>8, <2>1
  <2>3. popped' \in [Player -> Nat]
    <3>1. \A p \in Player : popped[p] + (IF \E q \in pop : q[2] = p THEN 1 ELSE 0) \in Nat
      BY <2>1
    <3>2. \A p \in Player : popped[p] + Cardinality({q \in pop : q[2] = p}) \in Nat
      BY <1>6, <3>1
    <3> QED BY <1>4, <3>2
  <2>4. phase' \in {"OVER", "PLAYING"} /\ (phase' = "OVER" => Cardinality(alive') <= 1)
    BY DEF Played
  <2> QED BY <2>1, <2>2, <2>3, <2>4 DEF ServerInv
<1> QED BY <1>1, <1>2, <1>4, <1>5, <1>7, <1>8, <1>9

\* What is sent of it.
LEMMA PlayedMail ==
  ASSUME EndInv, EndInv', PageInv, NEW pop, NEW I, Played(pop, I), UNCHANGED open, open
  PROVE  /\ link' \in Seq(Message) /\ Rising(link)'
         /\ Mail' = {Snapshot} \cup {PopOf(q) : q \in pop} \cup {Death(q[1]) : q \in pop}
                      \cup StageMail \cup {Death(p) : p \in Drowned(I)}
<1>1. pop \in {{}} \cup {{q} : q \in Pops} /\ link' = Sent(pop, Drowned(I)) /\ SectorStates(tick')
  BY DEF Played, Rise
<1>2. Drowned(I) \in SUBSET Player /\ alive \subseteq Player
  BY PlayedFacts
<1>3. Flooded(tick') \in SUBSET Sector /\ Warned \in SUBSET Sector
  BY <1>1, WaterTick DEF EndInv
<1>4. Snapshot \in Message
  BY SnapshotIs
<1>5. /\ Sent(pop, Drowned(I)) \in Seq(Message) /\ Rising(Sent(pop, Drowned(I)))
      /\ Elements(Sent(pop, Drowned(I))) =
           {Snapshot} \cup {PopOf(q) : q \in pop} \cup {Death(q[1]) : q \in pop}
             \cup StageMail \cup {Death(p) : p \in Drowned(I)}
  BY <1>1, <1>2, <1>3, <1>4, SentIs
<1>6. Mail' = Elements(link') /\ (Rising(link)' <=> Rising(link'))
  BY DEF Mail, Elements, Rising, Before
<1> QED BY <1>1, <1>5, <1>6

\* All of it is true.
LEMMA PlayedTrue ==
  ASSUME EndInv, EndInv', PageInv, NEW pop, NEW I, Played(pop, I), UNCHANGED open, open
  PROVE  LinkInv'
<1>1. /\ link' \in Seq(Message) /\ Rising(link)'
      /\ Mail' = {Snapshot} \cup {PopOf(q) : q \in pop} \cup {Death(q[1]) : q \in pop}
                   \cup StageMail \cup {Death(p) : p \in Drowned(I)}
  BY PlayedMail
<1>2. /\ \A p : p \in alive \ alive' <=> p \in Drowned(I) \/ \E q \in pop : p = q[1]
      /\ fell' = [p \in Player |-> IF p \in alive \ alive' THEN tick' ELSE fell[p]]
      /\ alive \in SUBSET Player
  BY PlayedFacts
<1>3. /\ \A s \in Flooded(tick') : sector'[s] = "flooded"
      /\ \A s \in Warned : sector'[s] = "warning"
  BY WaterTick DEF Played, Rise, EndInv
<1>4. ASSUME NEW m \in Mail' PROVE TrueNow(m)'
  <2>1. CASE m = Snapshot
    <3>1. Snapshot = SnapshotNow' /\ Snapshot.type = "SNAPSHOT"
      BY SnapshotIs DEF Snapshot
    <3> QED BY <2>1, <3>1 DEF TrueNow
  <2>2. ASSUME NEW p \in alive \ alive', m.type \in {"DEATH", "POP"}, m.who = p PROVE TrueNow(m)'
    <3>1. p \notin alive' /\ fell'[p] = tick'
      BY <1>2
    <3> QED BY <2>2, <3>1 DEF TrueNow
  <2>3. CASE m \in {PopOf(q) : q \in pop} \cup {Death(q[1]) : q \in pop}
    <3>1. PICK q \in pop : m = PopOf(q) \/ m = Death(q[1])
      BY <2>3
    <3>2. q[1] \in alive \ alive'
      BY <1>2
    <3>3. m.type \in {"DEATH", "POP"} /\ m.who = q[1]
      BY <3>1 DEF PopOf, Death
    <3> QED BY <2>2, <3>2, <3>3
  <2>4. CASE m \in {Death(p) : p \in Drowned(I)}
    <3>1. PICK p \in Drowned(I) : m = Death(p)
      BY <2>4
    <3>2. p \in alive \ alive' /\ m.type = "DEATH" /\ m.who = p
      BY <1>2, <3>1 DEF Death
    <3> QED BY <2>2, <3>2
  <2>5. CASE m \in StageMail
    <3>1. m = FloodOf(Flooded(tick')) \/ m = WarnOf(Warned)
      BY <2>5 DEF StageMail
    <3> QED BY <1>3, <3>1 DEF FloodOf, WarnOf, TrueNow
  <2> QED BY <1>1, <2>1, <2>3, <2>4, <2>5
<1> QED BY <1>1, <1>4 DEF LinkInv

\* Play: a tick of the round.
LEMMA PlayHeard ==
  ASSUME EndInv, EndInv', PageInv, NEW pop, NEW I, Played(pop, I), PageStays, open => link = <<>>
  PROVE  PageInv'
<1>1. /\ pop = {} \/ \E q \in Pops : pop = {q}
      /\ Drowned(I) \in SUBSET I /\ I \in SUBSET alive /\ alive \in SUBSET Player
      /\ alive' \in SUBSET alive
      /\ \A p : p \in alive \ alive' <=> p \in Drowned(I) \/ \E q \in pop : p = q[1]
      /\ \A p \in Player : popped'[p] = popped[p] + (IF \E q \in pop : q[2] = p THEN 1 ELSE 0)
      /\ tick \in Nat /\ tick' = tick + 1
      /\ fell' = [p \in Player |-> IF p \in alive \ alive' THEN tick' ELSE fell[p]]
      /\ ServerInv'
  BY PlayedFacts DEF PageStays
<1>2. phase = "PLAYING" /\ phase' # "COUNTDOWN" /\ link' = Sent(pop, Drowned(I)) /\ SectorStates(tick')
  BY DEF Played, Rise
<1>3. CASE ~open
  BY <1>1, <1>2, <1>3, UnheardStep DEF Sent
<1>4. CASE open
  <2>1. AllHeard
    BY <1>4, HeardAll
  <2>2. /\ link' \in Seq(Message) /\ Rising(link)'
        /\ Mail' = {Snapshot} \cup {PopOf(q) : q \in pop} \cup {Death(q[1]) : q \in pop}
                     \cup StageMail \cup {Death(p) : p \in Drowned(I)}
        /\ LinkInv'
    BY <1>4, PlayedMail, PlayedTrue DEF PageStays
  <2>3. /\ Flooded(tick') \in SUBSET Sector /\ Warned \in SUBSET Sector
        /\ \A s \in Flooded(tick') : sector'[s] = "flooded"
        /\ \A s \in Warned : sector'[s] = "warning"
        /\ \A s \in Sector : sector'[s] = "warning" => sector[s] = "warning" \/ s \in Warned
        /\ \A s \in Sector : sector[s] = "warning" => sector'[s] = "warning" \/ s \in Flooded(tick')
    BY <1>2, WaterTick DEF EndInv
  <2>4. Snapshot.type = "SNAPSHOT"
    BY DEF Snapshot
  <2>5. ~Welcomed'
    <3>1. \A m \in Mail' : m.type # "WELCOME"
      BY <2>2, <2>4 DEF PopOf, Death, StageMail, FloodOf, WarnOf
    <3> QED BY <3>1 DEF Welcomed
  <2>6. HeardInv' /\ Pending' /\ DrawnInv'
    BY <1>2, <1>4, <2>1, <2>2, <2>5, SentHeard DEF AllHeard
  <2>7. ClockInv'
    <3>1. floodAt' = floodAt /\ floodAt \in SUBSET Sector /\ watched' = watched
      BY DEF PageInv, ClockInv, PageStays
    <3>2. ASSUME NEW s \in floodAt
          PROVE  sector'[s] = "warning" \/ \E m \in Mail' : m.type = "FLOOD" /\ s \in m.of
      <4>1. CASE s \in Flooded(tick')
        <5>1. FloodOf(Flooded(tick')) \in Mail'
          BY <2>2, <4>1 DEF StageMail
        <5> QED BY <4>1, <5>1 DEF FloodOf
      <4>2. CASE s \notin Flooded(tick')
        BY <2>1, <2>3, <3>1, <4>2 DEF AllHeard
      <4> QED BY <4>1, <4>2
    <3>3. ASSUME watched, NEW s \in Sector, sector'[s] = "warning"
          PROVE  s \in floodAt \/ \E m \in Mail' : m.type = "FLOOD_WARN" /\ s \in m.of
      <4>1. CASE s \in Warned
        <5>1. WarnOf(Warned) \in Mail'
          BY <2>2, <4>1 DEF StageMail
        <5> QED BY <4>1, <5>1 DEF WarnOf
      <4>2. CASE s \notin Warned
        BY <2>1, <2>3, <3>3, <4>2 DEF AllHeard
      <4> QED BY <4>1, <4>2
    <3> QED BY <3>1, <3>2, <3>3 DEF ClockInv
  <2>8. GaugeInv'
    <3> DEFINE left == floodTicks'[Me]
               was == floodTicks[Me]
    <3>1. /\ Me \in Player /\ Escape \in Nat \ {0} /\ left \in Nat /\ was \in Nat
          /\ Me \in alive => was <= Escape
      <4>1. Me \in Player /\ Escape \in Nat \ {0}
        BY PageAssumption, Sizes
      <4>2. left \in Nat /\ was \in Nat
        BY <4>1 DEF EndInv, EscapeInv
      <4>3. Me \in alive => was <= Escape
        <5>1. wetFor[Me] \in Nat /\ (Me \in alive => was = IF wetFor[Me] = 0 THEN 0 ELSE Escape + 1 - wetFor[Me])
          BY <4>1 DEF EndInv, EscapeInv, EscapeTime
        <5> QED BY <4>1, <5>1
      <4> QED BY <4>1, <4>2, <4>3
    <3>2. left = IF Me \in alive' THEN Soaked(Me, I) ELSE 0
      BY <3>1 DEF Played, PlayTick
    <3>3. ASSUME watched, left > 0 PROVE IF left = Escape THEN drownFrom = -1 ELSE GotWet(was) /\ left = was - 1
      <4>1. Me \in alive /\ left = IF was = 0 THEN Escape ELSE was - 1
        BY <1>1, <3>1, <3>2, <3>3 DEF Soaked
      <4>2. IF was = 0 THEN drownFrom = -1 ELSE GotWet(was)
        BY <2>1, <3>3 DEF AllHeard
      <4> HIDE DEF left, was
      <4> QED BY <3>1, <4>1, <4>2
    <3>4. GotWet(floodTicks[Me])' <=> drownFrom' \in Nat /\ tick' = drownFrom' + (Escape - left)
      BY DEF GotWet
    <3>5. ASSUME GotWet(was), left = was - 1 PROVE GotWet(floodTicks[Me])'
      <4>1. drownFrom \in Nat /\ tick = drownFrom + (Escape - was) /\ drownFrom' = drownFrom
        BY <3>5 DEF GotWet, PageStays
      <4> HIDE DEF left, was
      <4>2. tick' = drownFrom + (Escape - left)
        BY <1>1, <3>1, <3>5, <4>1
      <4> QED BY <3>4, <4>1, <4>2
    <3>6. watched /\ left > 0 => IF left = Escape THEN drownFrom' = -1 ELSE GotWet(floodTicks[Me])'
      BY <3>3, <3>5 DEF PageStays
    <3>7. watched' = watched
      BY DEF PageStays
    <3> QED BY <2>6, <3>6, <3>7 DEF GaugeInv
  <2>9. TableInv'
    <3>1. /\ roster \in SUBSET Player /\ died \in [Player -> Int] /\ kills \in [Player -> Nat]
          /\ UNCHANGED <<roster, died, kills, watched, open>>
      BY DEF PageInv, TableInv, PageStays
    <3>2. watched => roster = Player
      BY <1>2, <2>1 DEF AllHeard
    <3>3. ASSUME watched, NEW p \in Player
          PROVE  /\ popped'[p] = kills[p] + (IF Popper(p)' THEN 1 ELSE 0)
                 /\ p \in alive' => died[p] = -1
                 /\ p \notin alive' => \/ died[p] = fell'[p]
                                       \/ died[p] = -1 /\ fell'[p] = tick' /\ Coming(p)'
      <4>1. popped[p] = kills[p] /\ died[p] = IF p \in alive THEN -1 ELSE fell[p]
        BY <2>1, <3>3 DEF AllHeard
      <4>2. Popper(p)' <=> \E q \in pop : q[2] = p
        <5>1. Popper(p)' <=> \E m \in Mail' : m.type = "POP" /\ m.by = p
          BY DEF Popper
        <5>2. ASSUME NEW m \in Mail', m.type = "POP" PROVE \E q \in pop : m = PopOf(q)
          BY <2>2, <2>4, <5>2 DEF Death, StageMail, FloodOf, WarnOf
        <5>3. \A q \in pop : PopOf(q) \in Mail'
          BY <2>2
        <5>4. \A q : PopOf(q).type = "POP" /\ PopOf(q).by = q[2]
          BY DEF PopOf
        <5> QED BY <5>1, <5>2, <5>3, <5>4
      <4>3. p \in alive \ alive' => Coming(p)'
        <5>1. Coming(p)' <=> \E m \in Mail' : m.type \in {"DEATH", "POP"} /\ m.who = p
          BY DEF Coming
        <5>2. p \in alive \ alive' => Death(p) \in Mail'
          BY <1>1, <2>2
        <5>3. Death(p).type = "DEATH" /\ Death(p).who = p
          BY DEF Death
        <5> QED BY <5>1, <5>2, <5>3
      <4>4. popped'[p] = kills[p] + (IF Popper(p)' THEN 1 ELSE 0)
        BY <1>1, <4>1, <4>2
      <4>5. CASE p \in alive \ alive'
        BY <1>1, <4>1, <4>3, <4>4, <4>5
      <4>6. CASE p \notin alive \ alive'
        <5>1. fell'[p] = fell[p]
          BY <1>1, <4>6
        <5>2. p \in alive' <=> p \in alive
          BY <1>1, <4>6
        <5> QED BY <4>1, <4>4, <5>1, <5>2
      <4> QED BY <4>5, <4>6
    <3> QED BY <1>2, <3>1, <3>2, <3>3 DEF TableInv
  <2> QED BY <1>1, <2>2, <2>6, <2>7, <2>8, <2>9 DEF PageInv
<1> QED BY <1>3, <1>4

\* A tick of the server.
LEMMA TickStep == ASSUME EndInv, EndInv', PageInv, Tick PROVE PageInv'
<1>1. PageStays /\ (open => link = <<>>)
  BY DEF Tick, ServerTick, pageVars, statVars, seenVars, PageStays
<1>2. CASE Play
  <2>1. PICK pop \in {{}} \cup {{q} : q \in Pops} :
        \E I \in Insides(alive \ {q[1] : q \in pop}, sector', ring') :
          /\ PlayTick(pop, I) /\ phase' = (IF Cardinality(alive') <= 1 THEN "OVER" ELSE "PLAYING")
          /\ link' = Sent(pop, Drowned(I))
    BY <1>2 DEF Play
  <2>2. PICK I \in Insides(alive \ {q[1] : q \in pop}, sector', ring') :
          /\ PlayTick(pop, I) /\ phase' = (IF Cardinality(alive') <= 1 THEN "OVER" ELSE "PLAYING")
          /\ link' = Sent(pop, Drowned(I))
    BY <2>1
  <2>3. I \in SUBSET (alive \ {q[1] : q \in pop})
    BY DEF Insides
  <2>4. Played(pop, I)
    BY <1>2, <2>2, <2>3 DEF Play, Played
  <2> QED BY <1>1, <2>4, PlayHeard
<1>3. CASE StartPlay
  BY <1>1, <1>3, StartHeard
<1>4. CASE NextRound
  BY <1>1, <1>4, RoundHeard
<1> QED BY <1>2, <1>3, <1>4 DEF Tick, ServerTick

\* The page of a server that starts.
LEMMA PageInit == Init => PageInv
<1> SUFFICES ASSUME Init PROVE PageInv
  OBVIOUS
<1>1. /\ phase = "COUNTDOWN" /\ tick = 0 /\ sector = Dry /\ alive = Player /\ floodTicks = Nothing
      /\ fell = Nothing /\ popped = Nothing /\ open = FALSE /\ link = <<>>
      /\ G = NoG /\ floodAt = {} /\ drownFrom = -1 /\ roster = {} /\ died = NotYet /\ kills = Nothing
      /\ spec = [at |-> 0, id |-> -1] /\ drawn = FALSE /\ told = FALSE /\ watched = FALSE
  BY DEF Init, ServerInit
<1>2. Nothing \in [Player -> Nat] /\ NotYet \in [Player -> Int] /\ Dry \in [Sector -> States] /\ Off \in RingType
  BY DEF Nothing, NotYet, Dry, States, Off, RingType
<1>3. LinkInv
  BY <1>1, Single DEF LinkInv, Mail
<1>4. ServerInv
  BY <1>1, <1>2 DEF ServerInv
<1>5. HeardInv
  BY <1>1, <1>2 DEF HeardInv, NoG
<1>6. ClockInv /\ GaugeInv
  BY <1>1 DEF ClockInv, GaugeInv
<1>7. DrawnInv
  BY <1>1 DEF DrawnInv
<1>8. TableInv
  BY <1>1, <1>2 DEF TableInv
<1> QED BY <1>3, <1>4, <1>5, <1>6, <1>7, <1>8 DEF PageInv

\* Every step keeps what the page has heard in order.
LEMMA PageStep == EndInv /\ PageInv /\ [Next]_vars => EndInv' /\ PageInv'
<1> SUFFICES ASSUME EndInv, PageInv, [Next]_vars PROVE EndInv' /\ PageInv'
  OBVIOUS
<1>1. EndInv'
  BY EndStep
<1>2. CASE UNCHANGED vars
  <2>1. LinkInv' /\ ServerInv' /\ HeardInv' /\ ClockInv' /\ GaugeInv' /\ TableInv'
    BY <1>2, LookStays DEF vars, pageVars
  <2>2. DrawnInv'
    BY <1>2 DEF vars, pageVars, PageInv, DrawnInv, FoamKey, Watching, AliveList
  <2> QED BY <1>1, <2>1, <2>2 DEF PageInv
<1> QED BY <1>1, <1>2, TickStep, ArriveStep, LeaveStep, ReceiveStep, LookStep DEF Next

-----------------------------------------------------------------------------
(* The geometry of the water.                                               *)

\* Three sectors side by side.
LEMMA ThirdIs ==
  ASSUME NEW w \in Nat \ {0}, NEW x \in 0 .. 3 * w - 1
  PROVE  /\ x \div w \in 0 .. 2
         /\ \A a \in 0 .. 2 : x \div w = a <=> x \in a * w .. a * w + w - 1
<1> DEFINE q == x \div w
<1>1. q \in Int /\ w * q <= x /\ x < w * q + w
  OBVIOUS
<1> HIDE DEF q
<1>2. q >= 0
  <2>1. q <= -1 => w * q <= -w
    BY <1>1
  <2> QED BY <1>1, <2>1
<1>3. q <= 2
  <2>1. q >= 3 => w * q >= w * 3
    BY <1>1
  <2> QED BY <1>1, <2>1
<1>4. q = 0 \/ q = 1 \/ q = 2
  BY <1>1, <1>2, <1>3
<1>5. ASSUME NEW a \in 0 .. 2 PROVE q = a <=> x \in a * w .. a * w + w - 1
  <2>1. a = 0 \/ a = 1 \/ a = 2
    OBVIOUS
  <2>2. CASE q = 0
    BY <1>1, <2>1, <2>2
  <2>3. CASE q = 1
    BY <1>1, <2>1, <2>3
  <2>4. CASE q = 2
    BY <1>1, <2>1, <2>4
  <2> QED BY <1>4, <2>2, <2>3, <2>4
<1> QED BY <1>4, <1>5 DEF q

\* A sector of the map is a rectangle of the canvas.
LEMMA SectorRect ==
  ASSUME NEW s \in Sector
  PROVE  Rect((s % 3) * SectorW, (s \div 3) * SectorH, SectorW, SectorH) = {c \in Tile : SectorOf(c) = s}
<1> DEFINE a == s % 3
           b == s \div 3
<1>1. a \in 0 .. 2 /\ b \in 0 .. 2 /\ s = 3 * b + a
  BY DEF Sector
<1>2. SectorW \in Nat \ {0} /\ SectorH \in Nat \ {0}
  BY Sizes
<1> HIDE DEF a, b
<1>3. ASSUME NEW c \in Tile
      PROVE  SectorOf(c) = s <=> /\ c[1] \in a * SectorW .. a * SectorW + SectorW - 1
                                 /\ c[2] \in b * SectorH .. b * SectorH + SectorH - 1
  <2> DEFINE x == c[1] \div SectorW
             y == c[2] \div SectorH
  <2>1. c[1] \in 0 .. 3 * SectorW - 1 /\ c[2] \in 0 .. 3 * SectorH - 1
    BY DEF Tile
  <2>2. /\ x \in 0 .. 2 /\ y \in 0 .. 2
        /\ x = a <=> c[1] \in a * SectorW .. a * SectorW + SectorW - 1
        /\ y = b <=> c[2] \in b * SectorH .. b * SectorH + SectorH - 1
    BY <1>1, <1>2, <2>1, ThirdIs
  <2>3. SectorOf(c) = y * 3 + x
    BY DEF SectorOf
  <2> HIDE DEF x, y
  <2>4. SectorOf(c) = s <=> x = a /\ y = b
    BY <1>1, <2>2, <2>3
  <2> QED BY <2>2, <2>4
<1>4. Rect(a * SectorW, b * SectorH, SectorW, SectorH)
        = {c \in Tile : /\ c[1] \in a * SectorW .. a * SectorW + SectorW - 1
                        /\ c[2] \in b * SectorH .. b * SectorH + SectorH - 1}
  BY <1>2 DEF Rect
<1> QED BY <1>3, <1>4 DEF a, b

\* The four pieces are what is outside the ring, and the whole map is when it is closed.
LEMMA RingRect ==
  ASSUME RingInv, ring.on
  PROVE  RingWater(ring) = {c \in Tile : c[1] < ring.x0 \/ c[1] > ring.x1 \/ c[2] < ring.y0 \/ c[2] > ring.y1}
<1> DEFINE x0 == ring.x0
           x1 == ring.x1
           y0 == ring.y0
           y1 == ring.y1
           W == 3 * SectorW
           H == 3 * SectorH
<1>1. x0 \in Int /\ x1 \in Int /\ y0 \in Int /\ y1 \in Int
  BY DEF RingInv, RingType
<1>2. \A c \in Tile : c[1] \in 0 .. W - 1 /\ c[2] \in 0 .. H - 1
  BY DEF Tile
<1>3. SectorW \in Nat \ {0} /\ SectorH \in Nat \ {0}
  BY Sizes
<1>4. CASE x0 > x1 \/ y0 > y1
  <2>1. RingWater(ring) = Tile
    BY <1>4 DEF RingWater
  <2> HIDE DEF x0, x1, y0, y1, W, H
  <2>2. \A c \in Tile : c[1] < x0 \/ c[1] > x1 \/ c[2] < y0 \/ c[2] > y1
    BY <1>1, <1>2, <1>4
  <2> QED BY <2>1, <2>2 DEF x0, x1, y0, y1
<1>5. CASE ~(x0 > x1 \/ y0 > y1)
  <2>1. HasLand(ring)
    BY <1>1, <1>5 DEF HasLand
  <2>2. PICK k \in Nat : Closed(ring, k)
    BY <2>1 DEF RingInv
  <2>3. 0 <= x0 /\ x0 <= x1 /\ x1 < W /\ 0 <= y0 /\ y0 <= y1 /\ y1 < H /\ W \in Nat /\ H \in Nat
    BY <1>1, <1>3, <1>5, <2>2 DEF Closed
  <2>4. RingWater(ring) = Rect(0, 0, W, y0) \cup Rect(0, y1 + 1, W, H - (y1 + 1))
                            \cup Rect(0, y0, x0, (y1 + 1) - y0) \cup Rect(x1 + 1, y0, W - (x1 + 1), (y1 + 1) - y0)
    BY <1>5 DEF RingWater
  <2> HIDE DEF x0, x1, y0, y1, W, H
  <2>5. ASSUME NEW c \in Tile
        PROVE  /\ c \in Rect(0, 0, W, y0) <=> c[2] < y0
               /\ c \in Rect(0, y1 + 1, W, H - (y1 + 1)) <=> c[2] > y1
               /\ c \in Rect(0, y0, x0, (y1 + 1) - y0) <=> c[2] >= y0 /\ c[2] <= y1 /\ c[1] < x0
               /\ c \in Rect(x1 + 1, y0, W - (x1 + 1), (y1 + 1) - y0) <=> c[2] >= y0 /\ c[2] <= y1 /\ c[1] > x1
    <3>1. c[1] \in 0 .. W - 1 /\ c[2] \in 0 .. H - 1
      BY <1>2
    <3> QED BY <1>1, <2>3, <3>1 DEF Rect
  <2>6. \A x, y, w, h : Rect(x, y, w, h) \subseteq Tile
    BY DEF Rect
  <2>7. ASSUME NEW c \in Tile
        PROVE  c \in RingWater(ring) <=> c[1] < x0 \/ c[1] > x1 \/ c[2] < y0 \/ c[2] > y1
    <3>1. c[1] \in Int /\ c[2] \in Int
      BY <1>2
    <3>2. c[2] < y0 \/ c[2] > y1 \/ (c[2] >= y0 /\ c[2] <= y1)
      BY <1>1, <3>1
    <3> QED BY <2>4, <2>5, <3>2
  <2>8. RingWater(ring) \subseteq Tile
    BY <2>4, <2>6
  <2> QED BY <2>7, <2>8 DEF x0, x1, y0, y1
<1> QED BY <1>4, <1>5

-----------------------------------------------------------------------------
(* The screen and the table.                                                *)

\* With everything received the page has what the server has.
LEMMA HeardNow ==
  ASSUME EndInv, PageInv, open, link = <<>>, told \/ watched
  PROVE  /\ AllHeard
         /\ G.phase = phase /\ G.tick = tick /\ G.known = TRUE /\ G.alive = alive
         /\ G.sectors = sector /\ G.ring = ring
<1>1. AllHeard
  BY HeardAll
<1>2. G = Told(SnapshotNow)
  BY <1>1 DEF AllHeard, PageInv, HeardInv
<1> QED BY <1>1, <1>2 DEF Told, SnapshotNow

\* The water that is painted, and that the foam goes around.
LEMMA WaterFollows == EndInv /\ PageInv => WaterSame
<1> SUFFICES ASSUME EndInv, PageInv, UpToDate, drawn
             PROVE  LET wet == {c \in Tile : IsUnderWater(c, sector, ring)}
                    IN  Water = wet /\ Foamed = wet /\ \A s \in Sector : MapSector(s) = sector[s]
  BY DEF WaterSame
<1>1. G.sectors = sector /\ G.ring = ring
  BY HeardNow DEF UpToDate
<1>2. RingInv
  BY DEF EndInv
<1> DEFINE wet == {c \in Tile : IsUnderWater(c, sector, ring)}
           full == {q \in Sector : sector[q] = "flooded"}
           rects == {Rect((s % 3) * SectorW, (s \div 3) * SectorH, SectorW, SectorH) : s \in full}
           rings == IF ring.on THEN {RingWater(ring)} ELSE {}
<1>3. Water = UNION (rects \cup rings)
  BY <1>1 DEF Water
<1>4. ASSUME NEW c \in Tile PROVE c \in UNION rects <=> sector[SectorOf(c)] = "flooded"
  <2>1. SectorOf(c) \in Sector
    <3>1. c[1] \in 0 .. 3 * SectorW - 1 /\ c[2] \in 0 .. 3 * SectorH - 1
      BY DEF Tile
    <3>2. c[1] \div SectorW \in 0 .. 2 /\ c[2] \div SectorH \in 0 .. 2
      BY <3>1, Sizes, ThirdIs
    <3> DEFINE x == c[1] \div SectorW
               y == c[2] \div SectorH
    <3>3. SectorOf(c) = y * 3 + x
      BY DEF SectorOf
    <3> HIDE DEF x, y
    <3>4. x \in 0 .. 2 /\ y \in 0 .. 2
      BY <3>2 DEF x, y
    <3> QED BY <3>3, <3>4 DEF Sector
  <2>2. rects = {{d \in Tile : SectorOf(d) = s} : s \in full}
    <3>1. \A s \in full : Rect((s % 3) * SectorW, (s \div 3) * SectorH, SectorW, SectorH)
                            = {d \in Tile : SectorOf(d) = s}
      BY SectorRect
    <3> QED BY <3>1
  <2> HIDE DEF rects
  <2>3. c \in UNION rects <=> \E s \in full : SectorOf(c) = s
    BY <2>2
  <2> QED BY <2>1, <2>3
<1>5. UNION rects \subseteq Tile
  <2>1. \A x, y, w, h : Rect(x, y, w, h) \subseteq Tile
    BY DEF Rect
  <2> QED BY <2>1
<1>6. ASSUME NEW c \in Tile
      PROVE  c \in UNION rings <=> ring.on /\ (c[1] < ring.x0 \/ c[1] > ring.x1 \/ c[2] < ring.y0 \/ c[2] > ring.y1)
  <2>1. CASE ring.on
    BY <1>2, <2>1, RingRect
  <2>2. CASE ~ring.on
    BY <2>2
  <2> QED BY <2>1, <2>2
<1>7. UNION rings \subseteq Tile
  <2>1. CASE ring.on
    BY <1>2, <2>1, RingRect
  <2>2. CASE ~ring.on
    BY <2>2
  <2> QED BY <2>1, <2>2
<1> HIDE DEF rects, rings
<1>8. Water = wet
  <2>1. \A c \in Tile : c \in Water <=> IsUnderWater(c, sector, ring)
    BY <1>3, <1>4, <1>6 DEF IsUnderWater
  <2>2. Water \subseteq Tile
    BY <1>3, <1>5, <1>7
  <2> QED BY <2>1, <2>2
<1>9. Foamed = wet
  <2>1. FoamKey(foam) = FoamKey(G)
    BY DEF PageInv, DrawnInv
  <2>2. foam.sectors = sector /\ (IF foam.ring.on THEN foam.ring ELSE Off) = (IF ring.on THEN ring ELSE Off)
    BY <1>1, <2>1 DEF FoamKey
  <2>3. ~Off.on
    BY DEF Off
  <2>4. (foam.ring.on <=> ring.on) /\ (ring.on => foam.ring = ring)
    BY <2>2, <2>3
  <2>5. \A c : IsUnderWater(c, foam.sectors, foam.ring) <=> IsUnderWater(c, sector, ring)
    BY <2>2, <2>4 DEF IsUnderWater
  <2> QED BY <2>5 DEF Foamed
<1> QED BY <1>1, <1>8, <1>9 DEF MapSector

\* Its clocks, the bar over the player's head, and whom he watches.
LEMMA ScreenFollows == EndInv /\ PageInv => ScreenTrue
<1> SUFFICES ASSUME EndInv, PageInv PROVE ScreenTrue
  OBVIOUS
<1>1. ASSUME UpToDate
      PROVE  /\ AllHeard /\ G.tick = tick /\ G.known = TRUE /\ G.alive = alive /\ G.sectors = sector
             /\ floodAt \in SUBSET Sector
  BY <1>1, HeardNow DEF UpToDate, PageInv, ClockInv
<1>2. ClocksRight
  <2> SUFFICES ASSUME UpToDate
               PROVE  /\ floodAt \subseteq Pulsing
                      /\ watched /\ Me \in alive => \A s \in Sector : Beeps(s) <=> sector[s] = "warning"
    BY DEF ClocksRight
  <2>1. floodAt \subseteq Pulsing
    BY <1>1 DEF AllHeard, Pulsing
  <2>2. ASSUME watched, Me \in alive, NEW s \in Sector PROVE Beeps(s) <=> sector[s] = "warning"
    BY <1>1, <2>2 DEF AllHeard, Pulsing, Hurrying, Beeps
  <2> QED BY <2>1, <2>2
<1>3. GaugeTrue
  <2> SUFFICES ASSUME UpToDate, watched, Me \in alive
               PROVE  DrownLeft = floodTicks[Me] /\ (floodTicks[Me] > 0 => ~\E s \in Sector : Counts(s))
    BY DEF GaugeTrue
  <2> DEFINE left == floodTicks[Me]
  <2>1. left \in Nat /\ tick \in Nat /\ Escape \in Nat \ {0}
    BY PageAssumption, Sizes DEF EndInv, EscapeInv, FlowInv, StageInv
  <2>2. IF left = 0 THEN drownFrom = -1 ELSE drownFrom \in Nat /\ tick = drownFrom + (Escape - left)
    BY <1>1 DEF AllHeard, GotWet
  <2>3. G.tick = tick
    BY <1>1
  <2> HIDE DEF left
  <2>4. DrownLeft = left
    BY <2>1, <2>2, <2>3 DEF DrownLeft
  <2>5. left > 0 => drownFrom # -1
    BY <2>1, <2>2
  <2> QED BY <2>4, <2>5 DEF left, Counts
<1>4. WatchesAlive
  BY <1>1 DEF WatchesAlive, Focus, Dots, AliveList, PageInv, DrawnInv
<1> QED BY <1>2, <1>3, <1>4, WaterFollows DEF ScreenTrue

\* The places of those who died, in the order of their deaths.
LEMMA PlacesAre ==
  ASSUME EndInv, PageInv, Seen, phase = "OVER"
  PROVE  PlacesRight /\ \A p \in Player : p \in alive => Place(p) = 1
<1> DEFINE D == Player \ alive
           R == {x \in D \X D : fell[x[1]] < fell[x[2]] \/ (fell[x[1]] = fell[x[2]] /\ x[1] < x[2])}
           n == Cardinality(Player)
           d == Cardinality(D)
           rank(p) == Cardinality(Under(R, D, p))
<1>1. open /\ watched /\ link = <<>>
  BY DEF Seen
<1>2. /\ AllHeard /\ G.alive = alive
      /\ roster = Player /\ \A p \in Player : died[p] = IF p \in alive THEN -1 ELSE fell[p]
  BY <1>1, HeardNow DEF AllHeard
<1>3. /\ IsFiniteSet(Player) /\ Player \subseteq Nat /\ alive \in SUBSET Player /\ IsFiniteSet(alive)
      /\ Cardinality(alive) \in Nat /\ Cardinality(alive) <= 1 /\ fell \in [Player -> Nat]
      /\ IsFiniteSet(D) /\ Me \in Player
  <2>1. IsFiniteSet(Player) /\ Player \subseteq Nat /\ Me \in Player
    BY FloodAssumption, PageAssumption
  <2>2. alive \in SUBSET Player
    BY DEF EndInv, EscapeInv
  <2>3. IsFiniteSet(alive) /\ IsFiniteSet(D)
    BY <2>1, <2>2, FS_Subset
  <2>4. Cardinality(alive) <= 1 /\ fell \in [Player -> Nat]
    BY DEF PageInv, ServerInv
  <2> QED BY <2>1, <2>2, <2>3, <2>4, FS_CardinalityType
<1>4. Listed = Player
  BY <1>2, <1>3 DEF Listed, Entries
<1>5. n \in Nat /\ d \in Nat /\ n = d + Cardinality(alive)
  <2>1. Player = D \cup alive /\ D \cap alive = {}
    BY <1>3
  <2>2. n \in Nat /\ d \in Nat
    BY <1>3, FS_CardinalityType
  <2>3. Cardinality(D \cup alive) = Cardinality(D) + Cardinality(alive) - Cardinality(D \cap alive)
    BY <1>3, FS_Union
  <2>4. Cardinality({}) = 0
    BY FS_EmptySet
  <2>5. Cardinality(D \cap alive) = 0 /\ n = Cardinality(D \cup alive)
    BY <2>1, <2>4
  <2>6. Cardinality(alive) \in Nat
    BY <1>3
  <2> HIDE DEF D, n
  <2>7. n = d + Cardinality(alive) - 0
    BY <2>3, <2>5
  <2> HIDE DEF d
  <2> QED BY <2>2, <2>6, <2>7
<1>6. \A p, q \in D : <<p, q>> \in R <=> fell[p] < fell[q] \/ (fell[p] = fell[q] /\ p < q)
  OBVIOUS
<1>7. \A p \in D : fell[p] \in Nat /\ p \in Nat
  BY <1>3
<1>8. ASSUME NEW p \in D PROVE Place(p) = n - rank(p)
  <2>1. died[p] # -1 /\ died[p] = fell[p]
    BY <1>2, <1>7
  <2>2. \A q \in Player : (died[q] # -1 <=> q \in D) /\ (q \in D => died[q] = fell[q])
    BY <1>2, <1>7
  <2> HIDE DEF D
  <2>3. {q \in Player : /\ died[q] # -1
                        /\ \/ died[q] < died[p]
                           \/ died[q] = died[p] /\ q < p} = Under(R, D, p)
    <3>1. D \subseteq Player
      BY DEF D
    <3> HIDE DEF R
    <3> QED BY <1>6, <2>1, <2>2, <3>1 DEF Under
  <2> HIDE DEF R
  <2> QED BY <1>4, <2>1, <2>3 DEF Place
<1>9. ASSUME NEW p \in alive PROVE Place(p) = 1
  BY <1>2, <1>3 DEF Place
<1>10. D \subseteq Player /\ \A p \in Player : p \in D <=> p \notin alive
  OBVIOUS
<1> HIDE DEF R, D
<1>11. IsOrder(R, D)
  BY <1>6, <1>7 DEF IsOrder
<1>12. Ranked(R, D)
  BY <1>3, <1>11, Ranks
<1>13. /\ \A p \in D : rank(p) \in 0 .. d - 1
       /\ \A p, q \in D : <<p, q>> \in R => rank(p) < rank(q)
       /\ \A k \in 0 .. d - 1 : \E p \in D : rank(p) = k
  BY <1>12 DEF Ranked
<1>14. Cardinality(alive) = 0 => alive = {}
  BY <1>3, FS_EmptySet
<1>15. alive = {} => Cardinality(alive) = 0
  BY FS_EmptySet
<1> HIDE DEF rank, n, d
<1>16. n > 0
  <2>1. Player # {} => n # 0
    BY <1>3, FS_EmptySet DEF n
  <2> QED BY <1>3, <1>5, <2>1
<1>17. {Place(p) : p \in Player} = 1 .. n
  <2>1. ASSUME NEW p \in Player PROVE Place(p) \in 1 .. n
    <3>1. CASE p \in alive
      BY <1>5, <1>9, <1>16, <3>1
    <3>2. CASE p \notin alive
      BY <1>3, <1>5, <1>8, <1>10, <1>13, <3>2
    <3> QED BY <3>1, <3>2
  <2>2. ASSUME NEW k \in 1 .. n PROVE \E p \in Player : Place(p) = k
    <3>1. CASE n - k \in 0 .. d - 1
      <4>1. PICK p \in D : rank(p) = n - k
        BY <1>13, <3>1
      <4>2. Place(p) = k /\ p \in Player
        BY <1>5, <1>8, <1>10, <4>1
      <4> QED BY <4>2
    <3>2. CASE n - k \notin 0 .. d - 1
      <4>1. Cardinality(alive) = 1 /\ k = 1
        BY <1>3, <1>5, <3>2
      <4>2. PICK p \in alive : TRUE
        BY <1>15, <4>1
      <4> QED BY <1>3, <1>9, <4>1, <4>2
    <3> QED BY <3>1, <3>2
  <2> QED BY <2>1, <2>2
<1>18. ASSUME NEW p \in Player, NEW q \in Player, p \notin alive, q \in alive \/ fell[p] < fell[q]
       PROVE  Place(p) > Place(q)
  <2>1. p \in D /\ Place(p) = n - rank(p) /\ rank(p) \in 0 .. d - 1
    BY <1>8, <1>10, <1>13, <1>18
  <2>2. CASE q \in alive
    <3>1. Cardinality(alive) = 1 /\ Place(q) = 1
      BY <1>3, <1>9, <1>14, <2>2
    <3> QED BY <1>5, <2>1, <3>1
  <2>3. CASE q \notin alive
    <3>1. q \in D /\ Place(q) = n - rank(q) /\ rank(q) \in 0 .. d - 1 /\ <<p, q>> \in R
      BY <1>6, <1>8, <1>10, <1>13, <1>18, <2>1, <2>3
    <3>2. rank(p) < rank(q)
      BY <1>13, <2>1, <3>1
    <3> QED BY <1>5, <2>1, <3>1, <3>2
  <2> QED BY <2>2, <2>3
<1> QED BY <1>3, <1>4, <1>9, <1>17, <1>18 DEF PlacesRight, n

\* The rows, and who reads that he has won.
LEMMA TableFollows == EndInv /\ PageInv => TableTrue
<1> SUFFICES ASSUME EndInv, PageInv PROVE TableTrue
  OBVIOUS
<1>1. PlacesRight
  <2>1. CASE Seen /\ phase = "OVER"
    BY <2>1, PlacesAre
  <2>2. CASE ~(Seen /\ phase = "OVER")
    BY <2>2 DEF PlacesRight
  <2> QED BY <2>1, <2>2
<1>2. RowsRight
  <2> SUFFICES ASSUME Seen, NEW p \in Player
               PROVE  kills[p] = popped[p] /\ (p \notin alive => Row(p).ticks = fell[p])
    BY DEF RowsRight
  <2>1. kills[p] = popped[p] /\ died[p] = IF p \in alive THEN -1 ELSE fell[p]
    BY HeardNow DEF Seen, AllHeard
  <2>2. fell[p] \in Nat
    BY DEF PageInv, ServerInv
  <2>3. Row(p).ticks = IF died[p] = -1 THEN G.tick ELSE died[p]
    BY DEF Row
  <2>4. fell[p] # -1
    BY <2>2
  <2> QED BY <2>1, <2>3, <2>4
<1>3. HeadlineRight
  <2> SUFFICES ASSUME Seen, Overlay = "results", alive # {} PROVE Headline = "won" <=> Me \in alive
    BY DEF HeadlineRight
  <2>1. phase = "OVER"
    <3>1. G.phase = phase
      BY HeardNow DEF Seen
    <3>2. phase \in {"COUNTDOWN", "PLAYING", "OVER"}
      BY DEF EndInv, EscapeInv
    <3> QED BY <3>1, <3>2 DEF Overlay
  <2>2. \A p \in Player : p \in alive => Place(p) = 1
    BY <2>1, PlacesAre
  <2>3. alive \in SUBSET Player /\ Me \in Player
    BY PageAssumption DEF EndInv, EscapeInv
  <2>4. PICK a \in alive : TRUE
    OBVIOUS
  <2>5. Me \notin alive => Place(Me) > Place(a)
    BY <1>1, <2>1, <2>3, <2>4 DEF PlacesRight
  <2>6. Place(Me) = 1 <=> Me \in alive
    <3>1. Place(a) = 1
      BY <2>2, <2>3, <2>4
    <3>2. ~(1 > 1)
      OBVIOUS
    <3> QED BY <2>2, <2>3, <2>5, <3>1, <3>2
  <2> QED BY <2>6 DEF Headline
<1> QED BY <1>1, <1>2, <1>3 DEF TableTrue

\* "The server counts with the same ticks" (game.js:1350): whenever a page has received
\* and drawn all that was sent, the water it paints is the water that drowns, its clocks
\* run for the sectors that are about to be flooded, its gauge shows the server's number
\* and a dead player watches one who lives: for any map, schedule and number of players.
THEOREM ScreenAlways == Spec => []ScreenTrue
  BY EndInit, PageInit, PageStep, ScreenFollows, PTL DEF Spec

\* The table of a round that was seen from its countdown on has every player in his place,
\* with his kills and the tick of his death, and who reads that he has won is the one who
\* is left (game.js:187-196).
THEOREM TableAlways == Spec => []TableTrue
  BY EndInit, PageInit, PageStep, TableFollows, PTL DEF Spec

=============================================================================
