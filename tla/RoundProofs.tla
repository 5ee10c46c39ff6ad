----------------------------- MODULE RoundProofs ------------------------------
(*****************************************************************************)
(* That seats, spawns, viewers and the sessions in the room agree, that      *)
(* everybody knows his seat, and that a round is fair: for any number of     *)
(* sessions, seats, bots and spawns, any clocks of the phases and any jobs.  *)
(*                                                                           *)
(* RoundInv is the inductive invariant: players[] and Session::slot are      *)
(* inverse to each other (SlotInv), every taken seat has a spawn of its own  *)
(* and all are counted (CountInv), where the tick thread is says what it has *)
(* in hand (StepInv), everybody in the room is in exactly one of four places *)
(* (PlaceInv), before a round all who sit are alive (AliveInv), and whoever  *)
(* does not know his seat is about to be told (ToldInv).                     *)
(*****************************************************************************)
EXTENDS Round, FiniteSetTheorems, WellFoundedInduction, TLAPS

\* A non-empty set of numbers has a least one.
LEMMA Least ==
  ASSUME NEW S \in SUBSET Nat, S # {}
  PROVE  \E m \in S : \A k \in S : m <= k
<1> DEFINE R == StrictSubsetOrdering(Nat)
           T == {1 .. k : k \in S}
<1>1. IsWellFoundedOn(R, FiniteSubsetsOf(Nat))
  BY FS_StrictSubsetOrderingWellFounded, Zenon
<1>2. \A k \in Nat : 1 .. k \in SUBSET Nat /\ IsFiniteSet(1 .. k)
  BY FS_Interval
<1>3. T \subseteq FiniteSubsetsOf(Nat) /\ T # {}
  BY <1>2 DEF FiniteSubsetsOf
<1>4. PICK x \in T : \A y \in T : <<y, x>> \notin R
  <2> HIDE DEF R, T
  <2> QED BY <1>1, <1>3, WFMin, Zenon
<1>5. PICK m \in S : x = 1 .. m
  OBVIOUS
<1>6. ASSUME NEW k \in S, k < m PROVE FALSE
  <2>1. 1 .. k \in T /\ 1 .. k \in SUBSET Nat /\ 1 .. m \in SUBSET Nat
    OBVIOUS
  <2>2. 1 .. k \subseteq 1 .. m /\ 1 .. k # 1 .. m
    <3>1. m \in 1 .. m /\ m \notin 1 .. k
      BY <1>6
    <3> QED BY <1>6, <3>1
  <2>3. <<1 .. k, 1 .. m>> \in R
    BY <2>1, <2>2 DEF StrictSubsetOrdering
  <2> QED BY <1>4, <1>5, <2>1, <2>3
<1> QED BY <1>6

\* The choice of the code, the first that fits, is one that fits.
LEMMA FirstIn ==
  ASSUME NEW S \in SUBSET Nat, S # {}
  PROVE  First(S) \in S
  BY Least DEF First

\* The seats are numbers, and none of them stands for no seat.
LEMMA SlotFacts == Slot \in SUBSET Nat /\ NoSeat \notin Slot /\ IsFiniteSet(Slot) /\ Cardinality(Slot) = Capacity
<1>1. Capacity \in Nat /\ Capacity >= 2
  BY RoundAssumption
<1>2. IsFiniteSet(0 .. Capacity - 1) /\ Cardinality(0 .. Capacity - 1) = Capacity
  BY <1>1, FS_Interval
<1> QED
  BY <1>1, <1>2 DEF Slot, NoSeat

-----------------------------------------------------------------------------
(* The seats.                                                              *)

PlayerType == [s : Session \cup {NoSession}, is_bot : BOOLEAN, alive : BOOLEAN, spawn : Spawn]
Taken == {x \in Slot : Occupied(players[x])}

\* players[] and Session::slot are inverse to each other.
SlotInv ==
  /\ players \in [Slot -> PlayerType]
  /\ slot \in [Session -> Slot \cup {NoSeat}]
  /\ \A x \in Slot : players[x].s # NoSession => slot[players[x].s] = x
  /\ \A s \in Session : slot[s] # NoSeat => players[slot[s]].s = s
  /\ \A x \in Slot : players[x].is_bot => players[x].s = NoSession

\* Every taken seat has a spawn of its own, and they are counted.
CountInv ==
  /\ player_count = Cardinality(Taken)
  /\ spawn_used = {players[x].spawn : x \in Taken}
  /\ \A x, y \in Taken : players[x].spawn = players[y].spawn => x = y

\* There are no more taken seats than seats.
LEMMA TakenFinite == IsFiniteSet(Taken) /\ Cardinality(Taken) \in 0 .. Capacity
  BY SlotFacts, FS_Subset, FS_CardinalityType, RoundAssumption DEF Taken

\* A seat is taken or free.
LEMMA TakenFree == Slot \ FreeSeats = Taken /\ FreeSeats = Slot \ Taken
  BY DEF Taken, FreeSeats

\* Two taken seats do not share a spawn: there are as many spawns as seats taken.
LEMMA SpawnCount == CountInv => Cardinality(spawn_used) = player_count /\ IsFiniteSet(spawn_used)
<1> SUFFICES ASSUME CountInv PROVE Cardinality(spawn_used) = player_count /\ IsFiniteSet(spawn_used)
  OBVIOUS
<1> DEFINE f == [x \in Taken |-> players[x].spawn]
<1>1. f \in Surjection(Taken, spawn_used)
  BY DEF CountInv, Surjection
<1>2. f \in Injection(Taken, spawn_used)
  BY DEF CountInv, Injection, IsInjective
<1> QED
  BY <1>1, <1>2, TakenFinite, FS_Surjection DEF CountInv

\* There is room as long as not everybody sits: spawns are more than seats.
LEMMA RoomLeft == CountInv /\ player_count < Capacity => ~NoRoom
<1> SUFFICES ASSUME CountInv, player_count < Capacity PROVE ~NoRoom
  OBVIOUS
<1>1. FreeSeats # {}
  <2> SUFFICES ASSUME FreeSeats = {} PROVE FALSE
    OBVIOUS
  <2>1. Taken = Slot
    BY TakenFree DEF Taken
  <2> QED
    BY <2>1, SlotFacts, RoundAssumption DEF CountInv
<1>2. Spawn \ spawn_used # {}
  <2> SUFFICES ASSUME Spawn \subseteq spawn_used PROVE FALSE
    OBVIOUS
  <2>1. Cardinality(Spawn) <= Cardinality(spawn_used)
    BY SpawnCount, FS_Subset
  <2>2. Cardinality(Spawn) \in Nat /\ Cardinality(Spawn) > Capacity /\ Capacity \in Nat
    BY RoundAssumption, FS_CardinalityType
  <2> QED
    BY <2>1, <2>2, SpawnCount, TakenFinite DEF CountInv
<1> QED
  BY <1>1, <1>2 DEF NoRoom

\* A free seat is taken at a free spawn.
LEMMA CountTaken ==
  ASSUME CountInv, NEW x \in Slot \ Taken, NEW sp,
         \A y \in Slot \ {x} : players'[y] = players[y],
         Occupied(players'[x]), players'[x].spawn = sp, sp \notin spawn_used,
         spawn_used' = spawn_used \cup {sp}, player_count' = player_count + 1
  PROVE  CountInv'
<1>1. Taken' = Taken \cup {x}
  BY DEF Taken
<1>2. Cardinality(Taken') = Cardinality(Taken) + 1
  BY <1>1, TakenFinite, FS_AddElement
<1>3. \A y \in Taken : players'[y] = players[y]
  BY DEF Taken
<1>4. \A y \in Taken : players[y].spawn # sp
  BY DEF CountInv
<1>5. spawn_used' = {players'[y].spawn : y \in Taken'}
  BY <1>1, <1>3 DEF CountInv
<1>6. \A y, z \in Taken' : players'[y].spawn = players'[z].spawn => y = z
  BY <1>1, <1>3, <1>4 DEF CountInv
<1> QED
  BY <1>2, <1>5, <1>6 DEF CountInv

\* A seat becomes free, and its spawn.
LEMMA CountFreed ==
  ASSUME CountInv, NEW x \in Taken,
         \A y \in Slot \ {x} : players'[y] = players[y], ~Occupied(players'[x]),
         spawn_used' = spawn_used \ {players[x].spawn}, player_count' = player_count - 1
  PROVE  CountInv'
<1>1. Taken' = Taken \ {x}
  BY DEF Taken
<1>2. Cardinality(Taken') = Cardinality(Taken) - 1
  BY <1>1, TakenFinite, FS_RemoveElement
<1>3. \A y \in Taken' : players'[y] = players[y]
  BY <1>1 DEF Taken
<1>4. spawn_used' = {players'[y].spawn : y \in Taken'}
  BY <1>1, <1>3 DEF CountInv
<1>5. \A y, z \in Taken' : players'[y].spawn = players'[z].spawn => y = z
  BY <1>1, <1>3 DEF CountInv
<1> QED
  BY <1>2, <1>4, <1>5 DEF CountInv

\* What AddPlayer makes of the seats.
LEMMA AddSeat ==
  ASSUME SlotInv, CountInv, ~NoRoom, NEW s, NEW bot \in BOOLEAN,
         IF bot THEN s = NoSession ELSE s \in Session /\ slot[s] = NoSeat,
         AddPlayer(s, bot)
  PROVE  /\ SlotInv' /\ CountInv'
         /\ First(FreeSeats) \in Slot \ Taken
         /\ \A y \in Slot \ {First(FreeSeats)} : players'[y] = players[y]
         /\ players'[First(FreeSeats)].s = s
         /\ players'[First(FreeSeats)].alive = (phase \in {"WAITING", "COUNTDOWN"})
         /\ slot' = IF bot THEN slot ELSE [slot EXCEPT ![s] = First(FreeSeats)]
         /\ player_count' = player_count + 1
<1> DEFINE x == First(FreeSeats)
           al == phase \in {"WAITING", "COUNTDOWN"}
           sp == CHOOSE z \in Spawn \ spawn_used : TRUE
           p == [s |-> s, is_bot |-> bot, alive |-> al, spawn |-> sp]
<1>1. /\ players' = [players EXCEPT ![x] = p]
      /\ spawn_used' = spawn_used \cup {sp}
      /\ slot' = IF bot THEN slot ELSE [slot EXCEPT ![s] = x]
      /\ player_count' = player_count + 1
  BY DEF AddPlayer
<1>2. sp \in Spawn \ spawn_used
  BY DEF NoRoom
<1>3. x \in Slot \ Taken
  <2>1. FreeSeats # {} /\ FreeSeats \in SUBSET Nat
    BY SlotFacts DEF NoRoom, FreeSeats
  <2> QED
    BY <2>1, FirstIn, TakenFree
<1>4. al \in BOOLEAN
  OBVIOUS
<1> HIDE DEF x, al, sp
<1>5. p \in PlayerType
  BY <1>2, <1>4 DEF PlayerType
<1>6. p.s = s /\ p.spawn = sp /\ p.alive = al /\ p.is_bot = bot
  OBVIOUS
<1> HIDE DEF p
<1>7. players'[x] = p /\ players' \in [Slot -> PlayerType] /\ \A y \in Slot \ {x} : players'[y] = players[y]
  BY <1>1, <1>3, <1>5 DEF SlotInv
<1>8. NoSession \notin Session
  BY RoundAssumption
<1>9. Occupied(p)
  <2>1. CASE bot
    BY <1>6, <2>1, Zenon DEF Occupied
  <2>2. CASE ~bot
    BY <1>6, <1>8, <2>2 DEF Occupied
  <2> QED
    BY <2>1, <2>2
<1>10. CountInv'
  BY <1>1, <1>2, <1>3, <1>6, <1>7, <1>9, CountTaken
<1>11. players[x].s = NoSession
  BY <1>3 DEF Taken, Occupied
<1>12. SlotInv'
  <2>1. CASE bot
    <3>1. slot' = slot /\ s = NoSession
      BY <1>1, <2>1
    <3>2. \A y \in Slot : players'[y].s = players[y].s
      BY <1>6, <1>7, <1>11, <3>1
    <3>3. \A y \in Slot : players'[y].is_bot => players'[y].s = NoSession
      BY <1>6, <1>7, <3>1 DEF SlotInv
    <3>4. \A q \in Session : slot[q] # NoSeat => slot[q] \in Slot
      BY DEF SlotInv
    <3> QED
      BY <1>7, <3>1, <3>2, <3>3, <3>4 DEF SlotInv
  <2>2. CASE ~bot
    <3>1. slot' = [slot EXCEPT ![s] = x] /\ s \in Session /\ slot[s] = NoSeat
      BY <1>1, <2>2
    <3>2. slot' \in [Session -> Slot \cup {NoSeat}] /\ slot'[s] = x
      BY <1>3, <3>1 DEF SlotInv
    <3>3. \A q \in Session : q # s => slot'[q] = slot[q]
      BY <3>1 DEF SlotInv
    <3>4. \A y \in Slot : players'[y].is_bot => players'[y].s = NoSession
      BY <1>6, <1>7, <2>2 DEF SlotInv
    <3>5. ASSUME NEW y \in Slot, players'[y].s # NoSession PROVE slot'[players'[y].s] = y
      <4>1. CASE y = x
        BY <1>6, <1>7, <3>2, <4>1
      <4>2. CASE y # x
        <5>1. players'[y] = players[y] /\ players[y].s \in Session /\ slot[players[y].s] = y
          BY <1>7, <3>5, <4>2 DEF SlotInv, PlayerType
        <5>2. players[y].s # s
          BY <3>1, <5>1, SlotFacts
        <5> QED
          BY <3>3, <5>1, <5>2
      <4> QED
        BY <4>1, <4>2
    <3>6. ASSUME NEW q \in Session, slot'[q] # NoSeat PROVE players'[slot'[q]].s = q
      <4>1. CASE q = s
        BY <1>6, <1>7, <3>2, <4>1
      <4>2. CASE q # s
        <5>1. slot'[q] = slot[q] /\ slot[q] \in Slot /\ players[slot[q]].s = q
          BY <3>3, <3>6, <4>2 DEF SlotInv
        <5>2. slot[q] # x
          BY <1>8, <1>11, <5>1
        <5> QED
          BY <1>7, <5>1, <5>2
      <4> QED
        BY <4>1, <4>2
    <3> QED
      BY <1>7, <3>2, <3>4, <3>5, <3>6 DEF SlotInv
  <2> QED
    BY <2>1, <2>2
<1> QED
  BY <1>1, <1>3, <1>6, <1>7, <1>10, <1>12 DEF x, al

\* What is left of a seat without its session or its bot.
LEMMA EmptyRecord ==
  ASSUME NEW p \in PlayerType
  PROVE  /\ [p EXCEPT !.s = NoSession] \in PlayerType
         /\ [p EXCEPT !.s = NoSession].s = NoSession
         /\ [p EXCEPT !.s = NoSession].is_bot = p.is_bot
         /\ [[p EXCEPT !.is_bot = FALSE] EXCEPT !.alive = FALSE] \in PlayerType
         /\ [[p EXCEPT !.is_bot = FALSE] EXCEPT !.alive = FALSE].s = p.s
         /\ [[p EXCEPT !.is_bot = FALSE] EXCEPT !.alive = FALSE].is_bot = FALSE
         /\ Empty(p) \in PlayerType /\ Empty(p).s = NoSession /\ Empty(p).is_bot = FALSE
  BY DEF PlayerType, Empty

\* DropOneBot frees the seat of a bot.
LEMMA DropSeat ==
  ASSUME SlotInv, CountInv, Bots # {}, DropOneBot
  PROVE  /\ SlotInv' /\ CountInv' /\ slot' = slot /\ player_count' = player_count - 1
         /\ \E x \in Taken : /\ ~Occupied(players'[x])
                            /\ \A y \in Slot \ {x} : players'[y] = players[y]
<1> DEFINE dead == {y \in Bots : ~players[y].alive}
           x == First(IF dead # {} THEN dead ELSE Bots)
<1>1. /\ players' = [players EXCEPT ![x].is_bot = FALSE, ![x].alive = FALSE]
      /\ spawn_used' = spawn_used \ {players[x].spawn}
      /\ player_count' = player_count - 1 /\ slot' = slot
  BY DEF DropOneBot
<1>2. x \in Bots
  <2> DEFINE S == IF dead # {} THEN dead ELSE Bots
  <2>1. S # {} /\ S \subseteq Bots /\ S \in SUBSET Nat
    BY SlotFacts DEF Bots
  <2> HIDE DEF S
  <2>2. First(S) \in S
    BY <2>1, FirstIn
  <2> QED
    BY <2>1, <2>2 DEF S
<1> HIDE DEF x
<1>3. x \in Slot /\ players[x] \in PlayerType /\ players[x].is_bot /\ players[x].s = NoSession
  BY <1>2 DEF Bots, SlotInv
<1>4. x \in Taken
  BY <1>3 DEF Taken, Occupied
<1> DEFINE p == [[players[x] EXCEPT !.is_bot = FALSE] EXCEPT !.alive = FALSE]
<1>5. players' = [players EXCEPT ![x] = p]
  BY <1>1, <1>3 DEF SlotInv
<1>6. p \in PlayerType /\ p.s = NoSession /\ p.is_bot = FALSE
  BY <1>3, EmptyRecord
<1> HIDE DEF p
<1>7. /\ players'[x] = p /\ players' \in [Slot -> PlayerType]
      /\ \A y \in Slot \ {x} : players'[y] = players[y]
  BY <1>3, <1>5, <1>6 DEF SlotInv
<1>8. ~Occupied(players'[x])
  BY <1>6, <1>7, Zenon DEF Occupied
<1>9. CountInv'
  BY <1>1, <1>4, <1>7, <1>8, CountFreed
<1>10. \A y \in Slot : players'[y].s = players[y].s
  BY <1>3, <1>6, <1>7
<1>11. \A y \in Slot : players'[y].is_bot => players'[y].s = NoSession
  BY <1>3, <1>6, <1>7 DEF SlotInv
<1>12. \A q \in Session : slot[q] # NoSeat => slot[q] \in Slot
  BY DEF SlotInv
<1>13. SlotInv'
  BY <1>1, <1>7, <1>10, <1>11, <1>12 DEF SlotInv
<1> QED
  BY <1>1, <1>4, <1>7, <1>8, <1>9, <1>13

\* The seat of a session, if it has one, is the one it was told.
LEMMA SeatOf ==
  ASSUME SlotInv, NEW s \in Session
  PROVE  /\ SeatsOf(s) = IF slot[s] = NoSeat THEN {} ELSE {slot[s]}
         /\ slot[s] # NoSeat => slot[s] \in Slot /\ First(SeatsOf(s)) = slot[s]
<1>1. s # NoSession
  BY RoundAssumption
<1>2. SeatsOf(s) = IF slot[s] = NoSeat THEN {} ELSE {slot[s]}
  BY <1>1, SlotFacts DEF SlotInv, SeatsOf
<1>3. ASSUME slot[s] # NoSeat PROVE slot[s] \in Slot /\ First(SeatsOf(s)) = slot[s]
  <2>1. slot[s] \in Slot /\ SeatsOf(s) = {slot[s]}
    BY <1>2, <1>3 DEF SlotInv
  <2>2. SeatsOf(s) \in SUBSET Nat /\ SeatsOf(s) # {}
    BY <2>1, SlotFacts
  <2> QED
    BY <2>1, <2>2, FirstIn
<1> QED
  BY <1>2, <1>3

\* What Leave makes of the seats.
LEMMA LeaveSeat ==
  ASSUME SlotInv, CountInv, NEW s \in Session, Leave(s)
  PROVE  /\ SlotInv' /\ CountInv' /\ slot' = [slot EXCEPT ![s] = NoSeat]
         /\ \/ players' = players
            \/ \E x \in Taken : /\ ~Occupied(players'[x])
                               /\ \A y \in Slot \ {x} : players'[y] = players[y]
<1>1. slot' = [slot EXCEPT ![s] = NoSeat]
  BY DEF Leave
<1>2. slot' \in [Session -> Slot \cup {NoSeat}] /\ slot'[s] = NoSeat
      /\ \A q \in Session : q # s => slot'[q] = slot[q]
  BY <1>1 DEF SlotInv
<1>3. s # NoSession
  BY RoundAssumption
<1>4. CASE slot[s] = NoSeat
  <2>1. \A x \in Slot : players[x].s # s
    BY <1>3, <1>4, SlotFacts DEF SlotInv
  <2>2. UNCHANGED <<players, spawn_used, player_count>>
    BY <2>1 DEF Leave
  <2>3. SlotInv'
    BY <1>2, <2>1, <2>2 DEF SlotInv, PlayerType
  <2>4. CountInv'
    BY <2>2 DEF CountInv, Taken
  <2> QED
    BY <1>1, <2>2, <2>3, <2>4
<1>5. CASE slot[s] # NoSeat
  <2> DEFINE x == slot[s]
             p == [players[x] EXCEPT !.s = NoSession]
  <2>1. x \in Slot /\ players[x].s = s /\ players[x] \in PlayerType /\ First(SeatsOf(s)) = x
    BY <1>5, SeatOf DEF SlotInv
  <2>2. RemovePlayer(x)
    BY <2>1 DEF Leave, SeatsOf
  <2> HIDE DEF x
  <2>3. /\ players' = [players EXCEPT ![x] = p]
        /\ spawn_used' = spawn_used \ {players[x].spawn} /\ player_count' = player_count - 1
    BY <2>1, <2>2 DEF RemovePlayer, SlotInv
  <2>4. p \in PlayerType /\ p.s = NoSession /\ p.is_bot = players[x].is_bot
    BY <2>1, EmptyRecord
  <2> HIDE DEF p
  <2>5. /\ players'[x] = p /\ players' \in [Slot -> PlayerType]
        /\ \A y \in Slot \ {x} : players'[y] = players[y]
    BY <2>1, <2>3, <2>4 DEF SlotInv
  <2>6. ~players[x].is_bot /\ x \in Taken
    BY <1>3, <2>1 DEF SlotInv, Taken, Occupied
  <2>7. ~Occupied(players'[x])
    BY <2>4, <2>5, <2>6, Zenon DEF Occupied
  <2>8. CountInv'
    BY <2>3, <2>5, <2>6, <2>7, CountFreed
  <2>9. \A y \in Slot : players'[y].is_bot => players'[y].s = NoSession
    BY <2>4, <2>5 DEF SlotInv
  <2>10. ASSUME NEW y \in Slot, players'[y].s # NoSession PROVE slot'[players'[y].s] = y
    <3>1. y # x /\ players'[y] = players[y] /\ players[y].s \in Session /\ slot[players[y].s] = y
      BY <2>4, <2>5, <2>10 DEF SlotInv, PlayerType
    <3>2. players[y].s # s
      BY <3>1 DEF x
    <3> QED
      BY <1>2, <3>1, <3>2
  <2>11. ASSUME NEW q \in Session, slot'[q] # NoSeat PROVE players'[slot'[q]].s = q
    <3>1. q # s /\ slot'[q] = slot[q] /\ slot[q] \in Slot /\ players[slot[q]].s = q
      BY <1>2, <2>11 DEF SlotInv
    <3>2. slot[q] # x
      BY <2>1, <3>1
    <3> QED
      BY <2>5, <3>1, <3>2
  <2>12. SlotInv'
    BY <1>2, <2>5, <2>9, <2>10, <2>11 DEF SlotInv
  <2> QED
    BY <1>1, <2>5, <2>6, <2>7, <2>8, <2>12
<1> QED
  BY <1>4, <1>5

-----------------------------------------------------------------------------
(* RestartGame.                                                            *)

\* The place of a seat in the order of the seats.
Rank(x) == Cardinality({y \in Humans : y <= x})

\* Two seats have different places.
LEMMA RankOnce == \A x, y \in Humans : Rank(x) = Rank(y) => x = y
<1>1. IsFiniteSet(Humans) /\ Humans \subseteq Nat
  BY SlotFacts, FS_Subset DEF Humans
<1>2. \A x \in Humans : IsFiniteSet({y \in Humans : y <= x})
  BY <1>1, FS_Subset
<1>3. ASSUME NEW x \in Humans, NEW y \in Humans, x < y PROVE Rank(x) # Rank(y)
  <2>1. {z \in Humans : z <= x} \in SUBSET {z \in Humans : z <= y}
    <3>1. x \in Nat /\ y \in Nat /\ \A z \in Humans : z \in Nat
      BY <1>1
    <3>2. \A z \in Humans : z <= x => z <= y
      BY <1>3, <3>1
    <3> QED
      BY <3>2
  <2>2. y \in {z \in Humans : z <= y} /\ y \notin {z \in Humans : z <= x}
    BY <1>1, <1>3
  <2> QED
    BY <1>2, <2>1, <2>2, FS_Subset DEF Rank
<1> QED
  BY <1>1, <1>3

\* A place in the order is one of as many as there are seated.
LEMMA RankRange == \A x \in Humans : Rank(x) \in 1 .. Cardinality(Humans)
<1> TAKE x \in Humans
<1>1. IsFiniteSet(Humans) /\ Humans \subseteq Nat /\ Cardinality(Humans) \in Nat
  BY SlotFacts, FS_Subset, FS_CardinalityType DEF Humans
<1>2. IsFiniteSet({y \in Humans : y <= x}) /\ Rank(x) <= Cardinality(Humans) /\ Rank(x) \in Nat
  BY <1>1, FS_Subset, FS_CardinalityType DEF Rank
<1>3. x \in {y \in Humans : y <= x}
  BY <1>1
<1>4. Rank(x) # 0
  BY <1>2, <1>3, FS_EmptySet DEF Rank
<1> QED
  BY <1>1, <1>2, <1>4

\* Each place in the order is that of somebody (Game.h:588-596).
LEMMA RankOnto ==
  \A k \in 1 .. Cardinality(Humans) : \E x \in Humans : Rank(x) = k
<1>1. IsFiniteSet(Humans) /\ Humans \subseteq Nat /\ Cardinality(Humans) \in Nat
  BY SlotFacts, FS_Subset, FS_CardinalityType DEF Humans
<1> DEFINE N == 1 .. Cardinality(Humans)
           f == [x \in Humans |-> Rank(x)]
<1>5. f \in Injection(Humans, N)
  BY RankOnce, RankRange DEF Injection, IsInjective
<1>6. IsFiniteSet(N) /\ Cardinality(N) = Cardinality(Humans)
  BY <1>1, FS_Interval
<1> HIDE DEF N
<1>7. f \in Surjection(Humans, N)
  BY <1>5, <1>6, FS_Injection
<1> QED
  BY <1>7 DEF Surjection, N

\* RestartGame takes every seated session once, in the order of the seats.
LEMMA SeatedAll ==
  ASSUME SlotInv
  PROVE  /\ Seated \in Seq(Session) /\ Len(Seated) = Cardinality(Humans)
         /\ Cardinality(Humans) \in 0 .. Capacity
         /\ \A j, k \in DOMAIN Seated : Seated[j] = Seated[k] => j = k
         /\ \A s \in Session : (\E k \in DOMAIN Seated : Seated[k] = s) <=> slot[s] # NoSeat
<1> DEFINE m == Cardinality(Humans)
           nth(k) == CHOOSE x \in Humans : Cardinality({y \in Humans : y <= x}) = k
<1>1. Seated = [k \in 1 .. m |-> players[nth(k)].s]
  BY DEF Seated
<1>2. m \in 0 .. Capacity
  BY SlotFacts, FS_Subset, FS_CardinalityType, RoundAssumption DEF Humans
<1>3. \A k \in 1 .. m : nth(k) \in Humans /\ Rank(nth(k)) = k
  BY RankOnto DEF Rank
<1>4. \A x \in Humans : x \in Slot /\ players[x].s \in Session /\ slot[players[x].s] = x
  BY DEF Humans, SlotInv, PlayerType
<1>5. \A x \in Humans : Rank(x) \in 1 .. m /\ nth(Rank(x)) = x
  <2> TAKE x \in Humans
  <2>6. nth(Rank(x)) \in Humans /\ Rank(nth(Rank(x))) = Rank(x)
    BY <1>3, RankRange
  <2> QED
    BY <2>6, RankRange, RankOnce
<1> HIDE DEF m, nth
<1>6. DOMAIN Seated = 1 .. m /\ \A k \in 1 .. m : Seated[k] = players[nth(k)].s
  BY <1>1
<1>7. Seated \in Seq(Session) /\ Len(Seated) = m
  BY <1>1, <1>2, <1>3, <1>4
<1>8. \A j, k \in 1 .. m : Seated[j] = Seated[k] => j = k
  <2>1. \A k \in 1 .. m : Rank(slot[Seated[k]]) = k
    BY <1>3, <1>4, <1>6
  <2> QED
    BY <2>1
<1>9. ASSUME NEW s \in Session PROVE (\E k \in 1 .. m : Seated[k] = s) <=> slot[s] # NoSeat
  <2>1. ASSUME NEW k \in 1 .. m, Seated[k] = s PROVE slot[s] # NoSeat
    BY <1>3, <1>4, <1>6, <2>1, SlotFacts
  <2>2. ASSUME slot[s] # NoSeat PROVE \E k \in 1 .. m : Seated[k] = s
    <3>1. slot[s] \in Slot /\ players[slot[s]].s = s /\ s # NoSession
      BY <2>2, RoundAssumption DEF SlotInv
    <3>2. slot[s] \in Humans
      BY <3>1 DEF Humans
    <3> QED
      BY <1>5, <1>6, <3>1, <3>2
  <2> QED
    BY <2>1, <2>2
<1> QED
  BY <1>2, <1>6, <1>7, <1>8, <1>9 DEF m

\* InitGame leaves no seat, no spawn and no Session::slot taken (Game.h:586-607).
LEMMA RestartSeats ==
  ASSUME SlotInv, NEW then, RestartGame(then)
  PROVE  /\ SlotInv' /\ CountInv' /\ player_count' = 0 /\ Taken' = {}
         /\ \A s \in Session : slot'[s] = NoSeat
<1>1. /\ slot' = [s \in Session |-> IF \E x \in Humans : players[x].s = s THEN NoSeat ELSE slot[s]]
      /\ players' = [x \in Slot |-> Empty(players[x])]
      /\ spawn_used' = {} /\ player_count' = 0
  BY DEF RestartGame
<1>2. \A x \in Slot : players'[x] \in PlayerType /\ players'[x].s = NoSession /\ players'[x].is_bot = FALSE
  BY <1>1, EmptyRecord DEF SlotInv
<1>3. players' \in [Slot -> PlayerType]
  BY <1>1, <1>2
<1>4. ASSUME NEW s \in Session PROVE slot'[s] = NoSeat
  <2>1. ASSUME slot[s] # NoSeat PROVE \E x \in Humans : players[x].s = s
    BY <2>1, RoundAssumption DEF SlotInv, Humans
  <2> QED
    BY <1>1, <2>1
<1>5. slot' \in [Session -> Slot \cup {NoSeat}]
  BY <1>1, <1>4
<1>6. Taken' = {}
  BY <1>2, Zenon DEF Taken, Occupied
<1>7. SlotInv'
  BY <1>2, <1>3, <1>4, <1>5 DEF SlotInv
<1>8. CountInv'
  BY <1>1, <1>6, FS_EmptySet DEF CountInv
<1> QED
  BY <1>1, <1>4, <1>6, <1>7, <1>8

-----------------------------------------------------------------------------
(* Sequences without repetition.                                           *)

Once(q) == \A x, y \in DOMAIN q : q[x] = q[y] => x = y
In(q, s) == \E x \in DOMAIN q : q[x] = s

\* The last viewer takes the place of the one who goes: nobody else is lost
\* or there twice (main.cpp:49-57).
LEMMA SwapOnce ==
  ASSUME NEW q \in Seq(Session), NEW x \in DOMAIN q, Once(q)
  PROVE  /\ SwapOut(q, x) \in Seq(Session) /\ Len(SwapOut(q, x)) = Len(q) - 1
         /\ Once(SwapOut(q, x))
         /\ \A s : In(SwapOut(q, x), s) <=> s # q[x] /\ In(q, s)
<1>1. SwapOut(q, x) \in Seq(Session) /\ Len(SwapOut(q, x)) = Len(q) - 1
  BY DEF SwapOut
<1>2. Once(SwapOut(q, x))
  BY DEF SwapOut, Once
<1>3. \A s : In(SwapOut(q, x), s) <=> s # q[x] /\ In(q, s)
  BY DEF SwapOut, Once, In
<1> QED
  BY <1>1, <1>2, <1>3

\* Taking the first of a sequence takes him and nobody else.
LEMMA TailOnce ==
  ASSUME NEW q \in Seq(Session), q # <<>>, Once(q)
  PROVE  /\ Tail(q) \in Seq(Session) /\ Len(Tail(q)) = Len(q) - 1 /\ Len(q) \in Nat \ {0}
         /\ Head(q) \in Session /\ In(q, Head(q)) /\ Once(Tail(q))
         /\ \A s : In(Tail(q), s) <=> s # Head(q) /\ In(q, s)
<1>1. /\ Tail(q) \in Seq(Session) /\ Len(Tail(q)) = Len(q) - 1 /\ Len(q) \in Nat \ {0}
      /\ Head(q) \in Session /\ Head(q) = q[1] /\ DOMAIN q = 1 .. Len(q)
  OBVIOUS
<1>2. DOMAIN Tail(q) = 1 .. Len(q) - 1 /\ \A x \in 1 .. Len(q) - 1 : Tail(q)[x] = q[x + 1]
  BY <1>1
<1>3. Once(Tail(q))
  BY <1>1, <1>2 DEF Once
<1>4. In(q, Head(q))
  BY <1>1 DEF In
<1>5. ASSUME NEW s PROVE In(Tail(q), s) <=> s # Head(q) /\ In(q, s)
  <2>1. ASSUME In(Tail(q), s) PROVE s # Head(q) /\ In(q, s)
    BY <1>1, <1>2, <2>1 DEF In, Once
  <2>2. ASSUME s # Head(q), In(q, s) PROVE In(Tail(q), s)
    <3>1. PICK x \in 1 .. Len(q) : q[x] = s /\ x # 1
      BY <1>1, <2>2 DEF In
    <3>2. x - 1 \in 1 .. Len(q) - 1 /\ Tail(q)[x - 1] = s
      BY <1>1, <1>2, <3>1
    <3> QED
      BY <1>2, <3>2 DEF In
  <2> QED
    BY <2>1, <2>2
<1> QED
  BY <1>1, <1>3, <1>4, <1>5

\* A newcomer at the end is the only change.
LEMMA AppendOnce ==
  ASSUME NEW q \in Seq(Session), NEW c \in Session, Once(q), ~In(q, c)
  PROVE  /\ Append(q, c) \in Seq(Session) /\ Len(Append(q, c)) = Len(q) + 1
         /\ Once(Append(q, c))
         /\ \A s : In(Append(q, c), s) <=> s = c \/ In(q, s)
<1> DEFINE r == Append(q, c)
<1>1. /\ r \in Seq(Session) /\ Len(r) = Len(q) + 1 /\ Len(q) \in Nat
      /\ DOMAIN q = 1 .. Len(q) /\ DOMAIN r = 1 .. Len(q) + 1
      /\ r[Len(q) + 1] = c /\ \A x \in 1 .. Len(q) : r[x] = q[x]
  OBVIOUS
<1> HIDE DEF r
<1>2. \A x \in DOMAIN r : x \in DOMAIN q \/ x = Len(q) + 1
  BY <1>1
<1>3. Once(r)
  BY <1>1, <1>2 DEF Once, In
<1>4. \A s : In(r, s) <=> s = c \/ In(q, s)
  BY <1>1, <1>2 DEF In
<1> QED
  BY <1>1, <1>3, <1>4 DEF r

\* Who is in a sequence without repetition is in it once.
LEMMA TimesOnce ==
  ASSUME NEW q \in Seq(Session), Once(q), NEW s
  PROVE  Times(q, s) = IF In(q, s) THEN 1 ELSE 0
<1>1. CASE In(q, s)
  <2>1. PICK x \in DOMAIN q : q[x] = s
    BY <1>1 DEF In
  <2>2. {y \in DOMAIN q : q[y] = s} = {x}
    BY <2>1 DEF Once
  <2> QED
    BY <1>1, <2>2, FS_Singleton DEF Times
<1>2. CASE ~In(q, s)
  <2>1. {y \in DOMAIN q : q[y] = s} = {}
    BY <1>2 DEF In
  <2> QED
    BY <1>2, <2>1, FS_EmptySet DEF Times
<1> QED
  BY <1>1, <1>2

-----------------------------------------------------------------------------
(* The inductive invariant.                                                *)

\* Where the tick thread is: people are kept only while RestartGame seats them, for all of
\* whom there is a seat; and everybody will be told of the new map.
StepInv ==
  /\ phase \in Phase /\ phase_ticks \in Nat /\ winner \in Slot \cup {-1} /\ map_changed \in BOOLEAN
  /\ viewers \in Seq(Session) /\ i \in 1 .. Len(viewers) + 1
  /\ pc \in {"lives", "enter", "restart", "reseat", "packets", "bots", "seat"}
  /\ cur \in Session \cup {NoSession} /\ keep \in Seq(Session) /\ n \in 0 .. Capacity
  /\ back \in {"none", "lives", "packets", "seat"}
  /\ room \subseteq Session /\ told \in [Session -> Slot \cup {NoSeat, Untold}]
  /\ pc \in {"enter", "restart"} => cur \in Session
  /\ pc # "reseat" => keep = <<>>
  /\ pc = "reseat" => /\ player_count + Len(keep) = n /\ phase = "WAITING" /\ map_changed
                      /\ back \in {"lives", "packets", "seat"}
  /\ pc = "seat" => map_changed
  /\ pc # "seat" => i = 1

\* In the room is whoever is in one of four places, and nobody is in two.
Exactly(in, a, b, c, d) ==
  /\ in <=> a \/ b \/ c \/ d
  /\ ~(a /\ b) /\ ~(a /\ c) /\ ~(a /\ d) /\ ~(b /\ c) /\ ~(b /\ d) /\ ~(c /\ d)

PlaceInv ==
  /\ Once(viewers) /\ Once(keep)
  /\ \A s \in Session :
       Exactly(s \in room, slot[s] # NoSeat, In(viewers, s), In(keep, s), pc = "enter" /\ cur = s)

\* Before a round starts all who sit are alive.
AliveInv == phase \in {"WAITING", "COUNTDOWN"} => \A x \in Taken : players[x].alive

\* Whoever does not know his seat is just being given one, or the whole board will be sent.
ToldInv ==
  ~map_changed => \A s \in room : told[s] = slot[s] \/ (pc \in {"enter", "restart"} /\ cur = s)

RoundInv == SlotInv /\ CountInv /\ StepInv /\ PlaceInv /\ AliveInv /\ ToldInv

\* Nobody is in the empty sequence.
LEMMA EmptySeq == <<>> \in Seq(Session) /\ Len(<<>>) = 0 /\ Once(<<>>) /\ \A s : ~In(<<>>, s)
  BY DEF Once, In

\* A server that starts has an empty board and an empty room (Game.h:331-347).
LEMMA RoundInit == Init => RoundInv
<1> SUFFICES ASSUME Init PROVE RoundInv
  OBVIOUS
<1>1. PICK sp \in Spawn : players = [x \in Slot |-> [s |-> NoSession, is_bot |-> FALSE,
                                                    alive |-> FALSE, spawn |-> sp]]
  BY DEF Init
<1> DEFINE p == [s |-> NoSession, is_bot |-> FALSE, alive |-> FALSE, spawn |-> sp]
<1>2. p \in PlayerType /\ p.s = NoSession /\ p.is_bot = FALSE
  BY DEF PlayerType
<1>3. \A x \in Slot : players[x] = p
  BY <1>1
<1> HIDE DEF p
<1>4. players \in [Slot -> PlayerType]
  BY <1>1, <1>2, <1>3
<1>5. Taken = {}
  BY <1>2, <1>3, Zenon DEF Taken, Occupied
<1>6. SlotInv
  BY <1>2, <1>3, <1>4 DEF Init, SlotInv
<1>7. CountInv
  BY <1>5, FS_EmptySet DEF Init, CountInv
<1>8. StepInv
  BY EmptySeq, RoundAssumption DEF Init, StepInv, Phase
<1>9. PlaceInv
  BY EmptySeq DEF Init, PlaceInv, Exactly
<1>10. AliveInv /\ ToldInv
  BY <1>5 DEF Init, AliveInv, ToldInv
<1> QED
  BY <1>6, <1>7, <1>8, <1>9, <1>10 DEF RoundInv

\* The two properties of the runs follow from the inductive invariant.
LEMMA RoundFollows == RoundInv => BoardInv /\ EverybodyTold
<1> SUFFICES ASSUME RoundInv PROVE BoardInv /\ EverybodyTold
  OBVIOUS
<1>1. TypeOK
  <2>1. player_count \in 0 .. Capacity /\ spawn_used \subseteq Spawn
    BY TakenFinite DEF RoundInv, CountInv, SlotInv, PlayerType, Taken
  <2> QED
    BY <2>1 DEF RoundInv, SlotInv, StepInv, PlayerType, TypeOK
<1>2. OnePlace
  <2> SUFFICES ASSUME NEW s \in Session
               PROVE  Cardinality(SeatsOf(s)) + Times(viewers, s) + Times(keep, s)
                        + (IF pc = "enter" /\ cur = s THEN 1 ELSE 0)
                        = IF s \in room THEN 1 ELSE 0
    BY DEF OnePlace
  <2>1. Cardinality(SeatsOf(s)) = IF slot[s] # NoSeat THEN 1 ELSE 0
    <3>1. SeatsOf(s) = IF slot[s] = NoSeat THEN {} ELSE {slot[s]}
      BY SeatOf DEF RoundInv
    <3>2. \A x : Cardinality({x}) = 1
      BY FS_Singleton
    <3>3. Cardinality({}) = 0
      BY FS_EmptySet
    <3> QED
      BY <3>1, <3>2, <3>3
  <2>2. Times(viewers, s) = IF In(viewers, s) THEN 1 ELSE 0
    BY TimesOnce DEF RoundInv, StepInv, PlaceInv
  <2>3. Times(keep, s) = IF In(keep, s) THEN 1 ELSE 0
    BY TimesOnce DEF RoundInv, StepInv, PlaceInv
  <2>4. Exactly(s \in room, slot[s] # NoSeat, In(viewers, s), In(keep, s), pc = "enter" /\ cur = s)
    BY DEF RoundInv, PlaceInv
  <2> QED
    BY <2>1, <2>2, <2>3, <2>4 DEF Exactly
<1>3. SeatsAgree
  <2>1. \A s \in Session : SeatsOf(s) = IF slot[s] = NoSeat THEN {} ELSE {slot[s]}
    BY SeatOf DEF RoundInv
  <2> QED
    BY <2>1, SpawnCount, TakenFree DEF RoundInv, CountInv, SlotInv, SeatsAgree
<1>4. EverybodyTold
  BY DEF RoundInv, ToldInv, EverybodyTold
<1> QED
  BY <1>1, <1>2, <1>3, <1>4 DEF BoardInv

\* Steps that leave the seats alone.
LEMMA SameSeats ==
  ASSUME SlotInv, CountInv, UNCHANGED seatVars
  PROVE  SlotInv' /\ CountInv' /\ Taken' = Taken
  BY DEF seatVars, SlotInv, CountInv, Taken

\* RestartGame lets everybody stand up, and keeps them.
LEMMA RestartStep ==
  ASSUME RoundInv, pc \in {"lives", "packets", "bots", "restart"},
         NEW then \in {"lives", "packets", "seat"}, RestartGame(then),
         cur' \in Session \cup {NoSession}, UNCHANGED <<viewers, i, room>>
  PROVE  RoundInv'
<1>1. /\ keep' = Seated /\ n' = Len(Seated) /\ back' = then /\ winner' = -1 /\ map_changed' = TRUE
      /\ phase' = "WAITING" /\ phase_ticks' = 0 /\ told' = [s \in Session |-> Untold] /\ pc' = "reseat"
  BY DEF RestartGame, EnterPhase
<1>2. /\ SlotInv' /\ CountInv' /\ player_count' = 0 /\ Taken' = {}
      /\ \A s \in Session : slot'[s] = NoSeat
  BY RestartSeats DEF RoundInv
<1>3. /\ Seated \in Seq(Session) /\ Len(Seated) \in 0 .. Capacity /\ Once(Seated)
      /\ \A s \in Session : In(Seated, s) <=> slot[s] # NoSeat
  BY SeatedAll DEF RoundInv, Once, In
<1>4. told' \in [Session -> Slot \cup {NoSeat, Untold}]
  BY <1>1
<1>5. StepInv'
  BY <1>1, <1>2, <1>3, <1>4 DEF RoundInv, StepInv, Phase
<1>6. PlaceInv'
  <2>1. keep = <<>> /\ pc # "enter"
    BY DEF RoundInv, StepInv
  <2>2. Once(viewers') /\ Once(keep')
    BY <1>1, <1>3 DEF RoundInv, PlaceInv
  <2>3. ASSUME NEW s \in Session
        PROVE  Exactly(s \in room', slot'[s] # NoSeat, In(viewers', s), In(keep', s), pc' = "enter" /\ cur' = s)
    <3>1. Exactly(s \in room, slot[s] # NoSeat, In(viewers, s), In(keep, s), pc = "enter" /\ cur = s)
      BY DEF RoundInv, PlaceInv
    <3>2. ~In(keep, s)
      BY <2>1, EmptySeq
    <3> QED
      BY <1>1, <1>2, <1>3, <2>1, <3>1, <3>2 DEF Exactly
  <2> QED
    BY <2>2, <2>3 DEF PlaceInv
<1>7. AliveInv' /\ ToldInv'
  BY <1>1, <1>2 DEF AliveInv, ToldInv
<1> QED
  BY <1>2, <1>5, <1>6, <1>7 DEF RoundInv

\* A session comes in; a bot may have had to make room.
LEMMA EnterStep ==
  ASSUME RoundInv, NEW s \in Session, Enter(s)
  PROVE  RoundInv'
<1>1. /\ pc = "lives" /\ s \notin room /\ room' = room \cup {s} /\ pc' = "enter" /\ cur' = s
      /\ UNCHANGED <<phaseVars, map_changed, viewers, keep, n, back, i, told>>
  BY DEF Enter
<1>2. SlotInv' /\ CountInv' /\ slot' = slot /\ \A x \in Taken' : x \in Taken /\ players'[x] = players[x]
  <2>1. CASE NoRoom /\ Bots # {}
    <3>1. DropOneBot
      BY <2>1 DEF Enter
    <3> QED
      BY <2>1, <3>1, DropSeat DEF RoundInv, Taken
  <2>2. CASE UNCHANGED seatVars
    BY <2>2, SameSeats DEF RoundInv, seatVars
  <2> QED
    BY <2>1, <2>2 DEF Enter
<1>3. StepInv'
  BY <1>1 DEF RoundInv, StepInv, phaseVars
<1>4. PlaceInv'
  <2>1. ASSUME NEW q \in Session
        PROVE  Exactly(q \in room', slot'[q] # NoSeat, In(viewers', q), In(keep', q), pc' = "enter" /\ cur' = q)
    <3>1. Exactly(q \in room, slot[q] # NoSeat, In(viewers, q), In(keep, q), pc = "enter" /\ cur = q)
      BY DEF RoundInv, PlaceInv
    <3> QED
      BY <1>1, <1>2, <3>1 DEF Exactly
  <2> QED
    BY <1>1, <2>1 DEF RoundInv, PlaceInv
<1>5. AliveInv'
  BY <1>1, <1>2 DEF RoundInv, AliveInv, phaseVars
<1>6. ToldInv'
  BY <1>1, <1>2 DEF RoundInv, ToldInv
<1> QED
  BY <1>2, <1>3, <1>4, <1>5, <1>6 DEF RoundInv

\* He sits down.
LEMMA EnterSeatStep == RoundInv /\ EnterSeat => RoundInv'
<1> SUFFICES ASSUME RoundInv, EnterSeat PROVE RoundInv'
  OBVIOUS
<1> DEFINE x == First(FreeSeats)
<1>1. /\ pc = "enter" /\ ~NoRoom /\ AddPlayer(cur, FALSE) /\ cur \in Session
      /\ \/ pc' = "restart" /\ UNCHANGED <<told, cur>>
         \/ /\ pc' = "lives" /\ cur' = NoSession
            /\ IF map_changed THEN UNCHANGED told ELSE Welcome(cur, x)
      /\ UNCHANGED <<phaseVars, map_changed, viewers, keep, n, back, i, room>>
  BY DEF EnterSeat, RoundInv, StepInv
<1>2. /\ Exactly(cur \in room, slot[cur] # NoSeat, In(viewers, cur), In(keep, cur), pc = "enter" /\ cur = cur)
      /\ slot[cur] = NoSeat
  BY <1>1 DEF RoundInv, PlaceInv, Exactly
<1>3. /\ SlotInv' /\ CountInv' /\ x \in Slot \ Taken
      /\ \A y \in Slot \ {x} : players'[y] = players[y]
      /\ players'[x].alive = (phase \in {"WAITING", "COUNTDOWN"})
      /\ slot' = [slot EXCEPT ![cur] = x]
  BY <1>1, <1>2, AddSeat DEF RoundInv
<1> HIDE DEF x
<1>4. /\ slot'[cur] = x /\ x # NoSeat /\ \A q \in Session : q # cur => slot'[q] = slot[q]
  BY <1>1, <1>3, SlotFacts DEF RoundInv, SlotInv
<1>5. told' = told \/ told' = [told EXCEPT ![cur] = x]
  BY <1>1 DEF Welcome
<1>6. told' \in [Session -> Slot \cup {NoSeat, Untold}]
  BY <1>1, <1>3, <1>5 DEF RoundInv, StepInv
<1>7. StepInv'
  BY <1>1, <1>6 DEF RoundInv, StepInv, phaseVars
<1>8. PlaceInv'
  <2>1. ASSUME NEW q \in Session
        PROVE  Exactly(q \in room', slot'[q] # NoSeat, In(viewers', q), In(keep', q), pc' = "enter" /\ cur' = q)
    <3>1. Exactly(q \in room, slot[q] # NoSeat, In(viewers, q), In(keep, q), pc = "enter" /\ cur = q)
      BY DEF RoundInv, PlaceInv
    <3> QED
      BY <1>1, <1>4, <3>1 DEF Exactly
  <2> QED
    BY <1>1, <2>1 DEF RoundInv, PlaceInv
<1>9. AliveInv'
  <2>1. phase' = phase /\ Taken' \subseteq Taken \cup {x}
    BY <1>1, <1>3 DEF Taken, phaseVars
  <2>2. \A y \in Taken : y # x => players'[y] = players[y]
    BY <1>3 DEF Taken
  <2> QED
    BY <1>3, <2>1, <2>2 DEF RoundInv, AliveInv
<1>10. ToldInv'
  <2> SUFFICES ASSUME ~map_changed, NEW q \in room
               PROVE  told'[q] = slot'[q] \/ (pc' \in {"enter", "restart"} /\ cur' = q)
    BY <1>1 DEF ToldInv
  <2>1. q \in Session
    BY DEF RoundInv, StepInv
  <2>2. CASE q = cur
    BY <1>1, <1>4, <2>1, <2>2 DEF Welcome, RoundInv, StepInv
  <2>3. CASE q # cur
    BY <1>4, <1>5, <2>1, <2>3 DEF RoundInv, ToldInv, StepInv
  <2> QED
    BY <2>2, <2>3
<1> QED
  BY <1>3, <1>7, <1>8, <1>9, <1>10 DEF RoundInv

\* He watches.
LEMMA EnterViewStep == RoundInv /\ EnterView => RoundInv'
<1> SUFFICES ASSUME RoundInv, EnterView PROVE RoundInv'
  OBVIOUS
<1>1. /\ pc = "enter" /\ viewers' = Append(viewers, cur) /\ told' = [told EXCEPT ![cur] = NoSeat]
      /\ pc' = "lives" /\ cur' = NoSession /\ cur \in Session
      /\ UNCHANGED <<seatVars, phaseVars, map_changed, keep, n, back, i, room>>
  BY DEF EnterView, Welcome, RoundInv, StepInv
<1>2. SlotInv' /\ CountInv' /\ Taken' = Taken /\ players' = players /\ slot' = slot
  BY <1>1, SameSeats DEF RoundInv, seatVars
<1>3. slot[cur] = NoSeat /\ ~In(viewers, cur) /\ Once(viewers)
  BY <1>1 DEF RoundInv, PlaceInv, Exactly
<1>4. /\ viewers' \in Seq(Session) /\ Len(viewers') = Len(viewers) + 1 /\ Once(viewers')
      /\ \A s : In(viewers', s) <=> s = cur \/ In(viewers, s)
  BY <1>1, <1>3, AppendOnce DEF RoundInv, StepInv
<1>5. told' \in [Session -> Slot \cup {NoSeat, Untold}]
  BY <1>1 DEF RoundInv, StepInv
<1>6. StepInv'
  BY <1>1, <1>2, <1>4, <1>5 DEF RoundInv, StepInv, phaseVars
<1>7. PlaceInv'
  <2>1. ASSUME NEW q \in Session
        PROVE  Exactly(q \in room', slot'[q] # NoSeat, In(viewers', q), In(keep', q), pc' = "enter" /\ cur' = q)
    <3>1. Exactly(q \in room, slot[q] # NoSeat, In(viewers, q), In(keep, q), pc = "enter" /\ cur = q)
      BY DEF RoundInv, PlaceInv
    <3> QED
      BY <1>1, <1>2, <1>4, <3>1 DEF Exactly
  <2> QED
    BY <1>1, <1>4, <2>1 DEF RoundInv, PlaceInv
<1>8. AliveInv'
  BY <1>1, <1>2 DEF RoundInv, AliveInv, phaseVars
<1>9. ToldInv'
  BY <1>1, <1>2, <1>3 DEF RoundInv, ToldInv, StepInv
<1> QED
  BY <1>2, <1>6, <1>7, <1>8, <1>9 DEF RoundInv

\* One of those RestartGame keeps sits down: there is a seat for him.
LEMMA ReseatStep == RoundInv /\ Reseat => RoundInv'
<1> SUFFICES ASSUME RoundInv, Reseat PROVE RoundInv'
  OBVIOUS
<1> DEFINE x == First(FreeSeats)
           h == Head(keep)
<1>1. /\ pc = "reseat" /\ keep # <<>> /\ keep' = Tail(keep)
      /\ UNCHANGED <<phaseVars, map_changed, viewers, pc, cur, n, back, i, room, told>>
      /\ player_count + Len(keep) = n /\ n \in 0 .. Capacity /\ phase = "WAITING" /\ map_changed
  BY DEF Reseat, RoundInv, StepInv
<1>2. /\ keep' \in Seq(Session) /\ Len(keep') = Len(keep) - 1 /\ Len(keep) \in Nat \ {0}
      /\ h \in Session /\ In(keep, h) /\ Once(keep')
      /\ \A s : In(keep', s) <=> s # h /\ In(keep, s)
  BY <1>1, TailOnce DEF RoundInv, StepInv, PlaceInv
<1>3. ~NoRoom
  <2>1. player_count \in Nat /\ Capacity \in Nat
    BY TakenFinite, RoundAssumption DEF RoundInv, CountInv
  <2> QED
    BY <1>1, <1>2, <2>1, RoomLeft DEF RoundInv
<1>4. slot[h] = NoSeat
  BY <1>2 DEF RoundInv, PlaceInv, Exactly
<1>5. AddPlayer(h, FALSE)
  BY <1>1, <1>3 DEF Reseat
<1> HIDE DEF h
<1>6. /\ SlotInv' /\ CountInv' /\ x \in Slot \ Taken
      /\ \A y \in Slot \ {x} : players'[y] = players[y]
      /\ players'[x].alive = (phase \in {"WAITING", "COUNTDOWN"})
      /\ slot' = [slot EXCEPT ![h] = x] /\ player_count' = player_count + 1
  BY <1>2, <1>3, <1>4, <1>5, AddSeat DEF RoundInv
<1> HIDE DEF x
<1>7. /\ slot'[h] = x /\ x # NoSeat /\ \A q \in Session : q # h => slot'[q] = slot[q]
  BY <1>2, <1>6, SlotFacts DEF RoundInv, SlotInv
<1>8. StepInv'
  <2>1. player_count' + Len(keep') = n'
    <3>1. player_count \in Nat
      BY TakenFinite DEF RoundInv, CountInv
    <3> QED
      BY <1>1, <1>2, <1>6, <3>1
  <2> QED
    BY <1>1, <1>2, <2>1 DEF RoundInv, StepInv, phaseVars
<1>9. PlaceInv'
  <2>1. ASSUME NEW q \in Session
        PROVE  Exactly(q \in room', slot'[q] # NoSeat, In(viewers', q), In(keep', q), pc' = "enter" /\ cur' = q)
    <3>1. Exactly(q \in room, slot[q] # NoSeat, In(viewers, q), In(keep, q), pc = "enter" /\ cur = q)
      BY DEF RoundInv, PlaceInv
    <3> QED
      BY <1>1, <1>2, <1>7, <3>1 DEF Exactly
  <2> QED
    BY <1>1, <1>2, <2>1 DEF RoundInv, PlaceInv
<1>10. AliveInv'
  <2>1. phase' = phase /\ Taken' \subseteq Taken \cup {x}
    BY <1>1, <1>6 DEF Taken, phaseVars
  <2>2. \A y \in Taken : y # x => players'[y] = players[y]
    BY <1>6 DEF Taken
  <2> QED
    BY <1>6, <2>1, <2>2 DEF RoundInv, AliveInv
<1>11. ToldInv'
  BY <1>1 DEF ToldInv
<1> QED
  BY <1>6, <1>8, <1>9, <1>10, <1>11 DEF RoundInv

\* Steps that change neither seats nor viewers, nor who is where.
LEMMA QuietStep ==
  ASSUME RoundInv, UNCHANGED <<seatVars, map_changed, viewers, keep, room, told>>,
         StepInv', pc # "enter" /\ pc' # "enter", pc = "restart" => pc' = "restart" /\ cur' = cur,
         phase' \in {"WAITING", "COUNTDOWN"} => phase \in {"WAITING", "COUNTDOWN"}
  PROVE  RoundInv'
<1>1. SlotInv' /\ CountInv' /\ Taken' = Taken /\ players' = players /\ slot' = slot
  BY SameSeats DEF RoundInv, seatVars
<1>2. PlaceInv'
  <2>1. ASSUME NEW q \in Session
        PROVE  Exactly(q \in room', slot'[q] # NoSeat, In(viewers', q), In(keep', q), pc' = "enter" /\ cur' = q)
    <3>1. Exactly(q \in room, slot[q] # NoSeat, In(viewers, q), In(keep, q), pc = "enter" /\ cur = q)
      BY DEF RoundInv, PlaceInv
    <3> QED
      BY <1>1, <3>1 DEF Exactly
  <2> QED
    BY <2>1 DEF RoundInv, PlaceInv
<1>3. AliveInv'
  BY <1>1 DEF RoundInv, AliveInv
<1>4. ToldInv'
  BY <1>1 DEF RoundInv, ToldInv
<1> QED
  BY <1>1, <1>2, <1>3, <1>4 DEF RoundInv

\* When all sit again the next round may begin to count down (Game.h:613-614).
LEMMA RestartEndStep == RoundInv /\ RestartEnd => RoundInv'
<1> SUFFICES ASSUME RoundInv, RestartEnd PROVE RoundInv'
  OBVIOUS
<1>1. /\ pc = "reseat" /\ keep = <<>> /\ phase' \in {"WAITING", "COUNTDOWN"} /\ phase_ticks' = 0
      /\ pc' = back /\ back' = "none" /\ n' = 0
      /\ back \in {"lives", "packets", "seat"} /\ map_changed /\ phase = "WAITING"
      /\ UNCHANGED <<seatVars, winner, map_changed, viewers, cur, keep, i, room, told>>
  BY DEF RestartEnd, EnterPhase, RoundInv, StepInv
<1>2. StepInv'
  BY <1>1, RoundAssumption DEF RoundInv, StepInv, Phase
<1> QED
  BY <1>1, <1>2, QuietStep

\* The ticks that kill nobody.
LEMMA TickStep ==
  ASSUME RoundInv, Ready, GoOn, UNCHANGED <<seatVars, map_changed, viewers, stepVars, room, told>>,
         phase' \in Phase, phase_ticks' \in Nat, winner' \in Slot \cup {-1},
         phase' \in {"WAITING", "COUNTDOWN"} => phase \in {"WAITING", "COUNTDOWN"}
  PROVE  RoundInv'
<1>1. pc \in {"lives", "packets", "bots"} /\ pc' = IF map_changed THEN "seat" ELSE "lives"
  BY DEF Ready, GoOn
<1>2. StepInv'
  BY <1>1 DEF RoundInv, StepInv, stepVars
<1> QED
  BY <1>1, <1>2, QuietStep DEF stepVars

\* Waiting and counting down change only the phase (GameTick.h:78-92).
LEMMA QuietTicks == RoundInv /\ (WaitingTick \/ CountdownTick) => RoundInv'
<1>1. ASSUME RoundInv, WaitingTick PROVE RoundInv'
  <2>1. /\ Ready /\ GoOn /\ UNCHANGED <<seatVars, map_changed, viewers, stepVars, room, told>>
        /\ phase = "WAITING" /\ phase' \in {"WAITING", "COUNTDOWN"} /\ phase_ticks' \in {0, phase_ticks}
        /\ winner' = winner
    BY <1>1 DEF WaitingTick, EnterPhase
  <2>2. phase' \in Phase /\ phase_ticks' \in Nat /\ winner' \in Slot \cup {-1}
    BY <1>1, <2>1 DEF RoundInv, StepInv, Phase
  <2> QED
    BY <1>1, <2>1, <2>2, TickStep
<1>2. ASSUME RoundInv, CountdownTick PROVE RoundInv'
  <2>1. /\ Ready /\ GoOn /\ UNCHANGED <<seatVars, map_changed, viewers, stepVars, room, told>>
        /\ phase = "COUNTDOWN" /\ phase' \in {"WAITING", "COUNTDOWN", "PLAYING"}
        /\ phase_ticks' \in {0, phase_ticks + 1} /\ winner' = winner
    BY <1>2 DEF CountdownTick, EnterPhase
  <2>2. phase' \in Phase /\ phase_ticks' \in Nat /\ winner' \in Slot \cup {-1}
    BY <1>2, <2>1 DEF RoundInv, StepInv, Phase
  <2> QED
    BY <1>2, <2>1, <2>2, TickStep
<1> QED
  BY <1>1, <1>2

\* The end of the pause deals a new board (GameTick.h:116-121).
LEMMA OverStep == RoundInv /\ OverTick => RoundInv'
<1> SUFFICES ASSUME RoundInv, OverTick PROVE RoundInv'
  OBVIOUS
<1>1. Ready /\ phase = "OVER" /\ pc \in {"lives", "packets", "bots"} /\ UNCHANGED <<viewers, cur, i, room>>
  BY DEF OverTick, Ready
<1>2. CASE RestartGame("seat")
  BY <1>1, <1>2, RestartStep DEF RoundInv, StepInv
<1>3. CASE /\ phase_ticks' = phase_ticks + 1 /\ GoOn
           /\ UNCHANGED <<seatVars, phase, winner, map_changed, keep, n, back, told>>
  <2>1. phase' \in Phase /\ phase_ticks' \in Nat /\ winner' \in Slot \cup {-1}
    BY <1>3 DEF RoundInv, StepInv
  <2>2. UNCHANGED <<seatVars, map_changed, viewers, stepVars, room, told>>
    BY <1>1, <1>3 DEF stepVars
  <2> QED
    BY <1>1, <1>3, <2>1, <2>2, TickStep
<1> QED
  BY <1>2, <1>3 DEF OverTick

\* A session goes.
LEMMA LeaveStep ==
  ASSUME RoundInv, NEW s \in Session, Leave(s)
  PROVE  RoundInv'
<1>1. /\ pc = "lives" /\ s \in room /\ room' = room \ {s} /\ told' = [told EXCEPT ![s] = Untold]
      /\ viewers' = IF \E x \in DOMAIN viewers : viewers[x] = s
                    THEN SwapOut(viewers, First({x \in DOMAIN viewers : viewers[x] = s}))
                    ELSE viewers
      /\ UNCHANGED <<phaseVars, map_changed, pc, stepVars>> /\ keep = <<>>
  BY DEF Leave, RoundInv, StepInv
<1>2. /\ SlotInv' /\ CountInv' /\ slot' = [slot EXCEPT ![s] = NoSeat]
      /\ \/ players' = players
         \/ \E x \in Taken : /\ ~Occupied(players'[x])
                            /\ \A y \in Slot \ {x} : players'[y] = players[y]
  BY LeaveSeat DEF RoundInv
<1>3. \A x \in Taken' : x \in Taken /\ players'[x] = players[x]
  BY <1>2 DEF Taken
<1>4. slot'[s] = NoSeat /\ \A q \in Session : q # s => slot'[q] = slot[q]
  BY <1>2 DEF RoundInv, SlotInv
<1>5. /\ viewers' \in Seq(Session) /\ Once(viewers')
      /\ \A q : In(viewers', q) <=> q # s /\ In(viewers, q)
  <2>1. viewers \in Seq(Session) /\ Once(viewers) /\ DOMAIN viewers \in SUBSET Nat
    BY DEF RoundInv, StepInv, PlaceInv
  <2>2. CASE In(viewers, s)
    <3> DEFINE S == {x \in DOMAIN viewers : viewers[x] = s}
    <3>1. S # {} /\ S \in SUBSET Nat
      BY <2>1, <2>2 DEF In
    <3>2. First(S) \in S
      BY <3>1, FirstIn
    <3>3. viewers' = SwapOut(viewers, First(S)) /\ viewers[First(S)] = s /\ First(S) \in DOMAIN viewers
      BY <1>1, <2>2, <3>2 DEF In
    <3> HIDE DEF S
    <3> QED
      BY <2>1, <3>3, SwapOnce
  <2>3. CASE ~In(viewers, s)
    BY <1>1, <2>1, <2>3 DEF In
  <2> QED
    BY <2>2, <2>3
<1>6. told' \in [Session -> Slot \cup {NoSeat, Untold}] /\ \A q \in Session : q # s => told'[q] = told[q]
  BY <1>1 DEF RoundInv, StepInv
<1>7. StepInv'
  BY <1>1, <1>5, <1>6 DEF RoundInv, StepInv, phaseVars, stepVars
<1>8. PlaceInv'
  <2>1. ASSUME NEW q \in Session
        PROVE  Exactly(q \in room', slot'[q] # NoSeat, In(viewers', q), In(keep', q), pc' = "enter" /\ cur' = q)
    <3>1. Exactly(q \in room, slot[q] # NoSeat, In(viewers, q), In(keep, q), pc = "enter" /\ cur = q)
      BY DEF RoundInv, PlaceInv
    <3>2. ~In(keep, q) /\ ~In(keep', q)
      BY <1>1, EmptySeq DEF stepVars
    <3> QED
      BY <1>1, <1>4, <1>5, <3>1, <3>2 DEF Exactly
  <2>2. Once(keep')
    BY <1>1, EmptySeq DEF stepVars
  <2> QED
    BY <1>5, <2>1, <2>2 DEF PlaceInv
<1>9. AliveInv'
  BY <1>1, <1>3 DEF RoundInv, AliveInv, phaseVars
<1>10. ToldInv'
  <2>1. \A q \in room : q \in Session
    BY DEF RoundInv, StepInv
  <2> QED
    BY <1>1, <1>4, <1>6, <2>1 DEF RoundInv, ToldInv
<1> QED
  BY <1>2, <1>7, <1>8, <1>9, <1>10 DEF RoundInv

\* A bot comes.
LEMMA FillStep == RoundInv /\ FillBots => RoundInv'
<1> SUFFICES ASSUME RoundInv, FillBots PROVE RoundInv'
  OBVIOUS
<1> DEFINE x == First(FreeSeats)
<1>1. /\ pc \in {"lives", "packets", "bots"} /\ ~NoRoom /\ AddPlayer(NoSession, TRUE) /\ pc' = "bots"
      /\ UNCHANGED <<phaseVars, map_changed, viewers, stepVars, room, told>>
  BY DEF FillBots, FillDue
<1>2. /\ SlotInv' /\ CountInv' /\ x \in Slot \ Taken
      /\ \A y \in Slot \ {x} : players'[y] = players[y]
      /\ players'[x].alive = (phase \in {"WAITING", "COUNTDOWN"}) /\ slot' = slot
  BY <1>1, AddSeat DEF RoundInv
<1> HIDE DEF x
<1>3. StepInv'
  BY <1>1 DEF RoundInv, StepInv, phaseVars, stepVars
<1>4. PlaceInv'
  <2>1. ASSUME NEW q \in Session
        PROVE  Exactly(q \in room', slot'[q] # NoSeat, In(viewers', q), In(keep', q), pc' = "enter" /\ cur' = q)
    <3>1. Exactly(q \in room, slot[q] # NoSeat, In(viewers, q), In(keep, q), pc = "enter" /\ cur = q)
      BY DEF RoundInv, PlaceInv
    <3> QED
      BY <1>1, <1>2, <3>1 DEF Exactly, stepVars
  <2> QED
    BY <1>1, <2>1 DEF RoundInv, PlaceInv, stepVars
<1>5. AliveInv'
  <2>1. phase' = phase /\ Taken' \subseteq Taken \cup {x}
    BY <1>1, <1>2 DEF Taken, phaseVars
  <2>2. \A y \in Taken : y # x => players'[y] = players[y]
    BY <1>2 DEF Taken
  <2> QED
    BY <1>2, <2>1, <2>2 DEF RoundInv, AliveInv
<1>6. ToldInv'
  BY <1>1, <1>2 DEF RoundInv, ToldInv, stepVars
<1> QED
  BY <1>2, <1>3, <1>4, <1>5, <1>6 DEF RoundInv

\* A tick of a round: some die, who keep their seats.
LEMMA Killed ==
  ASSUME SlotInv, CountInv, NEW dead \in SUBSET Slot,
         players' = [x \in Slot |-> IF x \in dead THEN [players[x] EXCEPT !.alive = FALSE]
                                   ELSE players[x]],
         UNCHANGED <<slot, spawn_used, player_count>>
  PROVE  /\ SlotInv' /\ CountInv' /\ Taken' = Taken
         /\ \A x \in Slot : players'[x].alive = (players[x].alive /\ x \notin dead)
<1>1. ASSUME NEW p \in PlayerType
      PROVE  LET k == [p EXCEPT !.alive = FALSE] IN
               /\ k \in PlayerType /\ k.s = p.s /\ k.is_bot = p.is_bot /\ k.spawn = p.spawn /\ k.alive = FALSE
  BY DEF PlayerType
<1>2. ASSUME NEW x \in Slot
      PROVE  /\ players'[x] \in PlayerType /\ players'[x].s = players[x].s
             /\ players'[x].is_bot = players[x].is_bot /\ players'[x].spawn = players[x].spawn
             /\ players[x].alive \in BOOLEAN
             /\ players'[x].alive = IF x \in dead THEN FALSE ELSE players[x].alive
  <2>1. players[x] \in PlayerType
    BY DEF SlotInv
  <2>2. players'[x] = IF x \in dead THEN [players[x] EXCEPT !.alive = FALSE] ELSE players[x]
    OBVIOUS
  <2>3. players[x].alive \in BOOLEAN
    BY <2>1 DEF PlayerType
  <2> QED
    BY <1>1, <2>1, <2>2, <2>3
<1>3. players' \in [Slot -> PlayerType]
  BY <1>2
<1>4. Taken' = Taken
  BY <1>2, Zenon DEF Taken, Occupied
<1>5. SlotInv'
  <2>1. \A q \in Session : slot[q] # NoSeat => slot[q] \in Slot
    BY DEF SlotInv
  <2> QED
    BY <1>2, <1>3, <2>1 DEF SlotInv
<1>6. CountInv'
  <2>1. \A x \in Taken : players'[x].spawn = players[x].spawn
    BY <1>2 DEF Taken
  <2>2. spawn_used' = {players'[x].spawn : x \in Taken'}
    BY <1>4, <2>1 DEF CountInv
  <2>3. \A x, y \in Taken' : players'[x].spawn = players'[y].spawn => x = y
    BY <1>4, <2>1 DEF CountInv
  <2>4. player_count' = Cardinality(Taken')
    BY <1>4 DEF CountInv
  <2> QED
    BY <2>2, <2>3, <2>4 DEF CountInv
<1>7. \A x \in Slot : players'[x].alive = (players[x].alive /\ x \notin dead)
  <2> TAKE x \in Slot
  <2>1. CASE x \in dead
    BY <1>2, <2>1, Zenon
  <2>2. CASE x \notin dead
    BY <1>2, <2>2, Zenon
  <2> QED
    BY <2>1, <2>2
<1> QED
  BY <1>4, <1>5, <1>6, <1>7

\* A tick of a round keeps the invariant, whoever dies (GameTick.h:94-114).
LEMMA PlayingStep == RoundInv /\ PlayingTick => RoundInv'
<1> SUFFICES ASSUME RoundInv, PlayingTick PROVE RoundInv'
  OBVIOUS
<1>1. /\ pc \in {"lives", "packets", "bots"} /\ phase = "PLAYING"
      /\ pc' = IF map_changed THEN "seat" ELSE "lives"
      /\ UNCHANGED <<slot, spawn_used, player_count, map_changed, viewers, stepVars, room, told>>
  BY DEF PlayingTick, Ready, GoOn
<1>2. PICK dead \in SUBSET Alive :
        /\ players' = [x \in Slot |-> IF x \in dead THEN [players[x] EXCEPT !.alive = FALSE]
                                      ELSE players[x]]
        /\ IF ~Enough \/ Cardinality(Alive \ dead) <= 1
           THEN /\ EnterPhase("OVER")
                /\ winner' = IF Enough /\ Alive \ dead # {} THEN First(Alive \ dead) ELSE -1
           ELSE phase' = phase /\ phase_ticks' = phase_ticks + 1 /\ UNCHANGED winner
  BY DEF PlayingTick
<1>3. phase' \in {"PLAYING", "OVER"} /\ phase_ticks' \in {0, phase_ticks + 1}
  BY <1>1, <1>2 DEF EnterPhase
<1>4. winner' \in Slot \cup {-1}
  <2>1. Alive \ dead \in SUBSET Nat /\ Alive \subseteq Slot
    BY SlotFacts DEF Alive
  <2>2. Alive \ dead # {} => First(Alive \ dead) \in Slot
    BY <2>1, FirstIn
  <2> QED
    BY <1>2, <2>2 DEF RoundInv, StepInv
<1>5. SlotInv' /\ CountInv' /\ Taken' = Taken
  <2>1. dead \in SUBSET Slot
    BY DEF Alive
  <2> QED
    BY <1>1, <1>2, <2>1, Killed DEF RoundInv
<1>6. StepInv'
  BY <1>1, <1>3, <1>4 DEF RoundInv, StepInv, stepVars, Phase
<1>7. PlaceInv'
  <2>1. ASSUME NEW q \in Session
        PROVE  Exactly(q \in room', slot'[q] # NoSeat, In(viewers', q), In(keep', q), pc' = "enter" /\ cur' = q)
    <3>1. Exactly(q \in room, slot[q] # NoSeat, In(viewers, q), In(keep, q), pc = "enter" /\ cur = q)
      BY DEF RoundInv, PlaceInv
    <3> QED
      BY <1>1, <3>1 DEF Exactly, stepVars
  <2> QED
    BY <1>1, <2>1 DEF RoundInv, PlaceInv, stepVars
<1>8. AliveInv'
  BY <1>3 DEF AliveInv
<1>9. ToldInv'
  BY <1>1 DEF RoundInv, ToldInv, stepVars
<1> QED
  BY <1>5, <1>6, <1>7, <1>8, <1>9 DEF RoundInv

\* One turn of SeatViewers.
LEMMA SeatViewerStep == RoundInv /\ SeatViewer => RoundInv'
<1> SUFFICES ASSUME RoundInv, SeatViewer PROVE RoundInv'
  OBVIOUS
<1>1. /\ pc = "seat" /\ i <= Len(viewers) /\ map_changed /\ i \in 1 .. Len(viewers) + 1
      /\ UNCHANGED <<phaseVars, map_changed, pc, cur, keep, n, back, room, told>>
      /\ viewers \in Seq(Session) /\ Once(viewers)
  BY DEF SeatViewer, RoundInv, StepInv, PlaceInv
<1>2. CASE NoRoom
  <2>1. i' = i + 1 /\ UNCHANGED <<seatVars, viewers>>
    BY <1>2 DEF SeatViewer
  <2>2. StepInv'
    BY <1>1, <2>1 DEF RoundInv, StepInv, phaseVars
  <2> QED
    BY <1>1, <2>1, <2>2, QuietStep DEF phaseVars
<1>3. CASE ~NoRoom
  <2> DEFINE x == First(FreeSeats)
             s == viewers[i]
  <2>1. /\ AddPlayer(s, FALSE) /\ viewers' = SwapOut(viewers, i) /\ i' = i
        /\ s \in Session /\ i \in DOMAIN viewers
    <3>1. AddPlayer(s, FALSE) /\ viewers' = SwapOut(viewers, i) /\ i' = i
      BY <1>3 DEF SeatViewer
    <3>2. i \in 1 .. Len(viewers) /\ DOMAIN viewers = 1 .. Len(viewers)
      BY <1>1
    <3>3. viewers[i] \in Session
      BY <1>1, <3>2
    <3> QED
      BY <3>1, <3>2, <3>3
  <2>2. /\ viewers' \in Seq(Session) /\ Len(viewers') = Len(viewers) - 1 /\ Once(viewers')
        /\ \A q : In(viewers', q) <=> q # s /\ In(viewers, q)
    BY <1>1, <2>1, SwapOnce
  <2>3. In(viewers, s)
    BY <2>1 DEF In
  <2>4. slot[s] = NoSeat
    BY <2>1, <2>3 DEF RoundInv, PlaceInv, Exactly
  <2> HIDE DEF s
  <2>5. /\ SlotInv' /\ CountInv' /\ x \in Slot \ Taken
        /\ \A y \in Slot \ {x} : players'[y] = players[y]
        /\ players'[x].alive = (phase \in {"WAITING", "COUNTDOWN"})
        /\ slot' = [slot EXCEPT ![s] = x]
    BY <1>3, <2>1, <2>4, AddSeat DEF RoundInv
  <2> HIDE DEF x
  <2>6. slot'[s] = x /\ x # NoSeat /\ \A q \in Session : q # s => slot'[q] = slot[q]
    BY <2>1, <2>5, SlotFacts DEF RoundInv, SlotInv
  <2>7. StepInv'
    BY <1>1, <2>1, <2>2 DEF RoundInv, StepInv, phaseVars
  <2>8. PlaceInv'
    <3>1. ASSUME NEW q \in Session
          PROVE  Exactly(q \in room', slot'[q] # NoSeat, In(viewers', q), In(keep', q), pc' = "enter" /\ cur' = q)
      <4>1. Exactly(q \in room, slot[q] # NoSeat, In(viewers, q), In(keep, q), pc = "enter" /\ cur = q)
        BY DEF RoundInv, PlaceInv
      <4> QED
        BY <1>1, <2>2, <2>3, <2>6, <4>1 DEF Exactly
    <3> QED
      BY <1>1, <2>2, <3>1 DEF RoundInv, PlaceInv
  <2>9. AliveInv'
    <3>1. phase' = phase /\ Taken' \subseteq Taken \cup {x}
      BY <1>1, <2>5 DEF Taken, phaseVars
    <3>2. \A y \in Taken : y # x => players'[y] = players[y]
      BY <2>5 DEF Taken
    <3> QED
      BY <2>5, <3>1, <3>2 DEF RoundInv, AliveInv
  <2>10. ToldInv'
    BY <1>1 DEF ToldInv
  <2> QED
    BY <2>5, <2>7, <2>8, <2>9, <2>10 DEF RoundInv
<1> QED
  BY <1>2, <1>3

\* A WELCOME for everybody: whoever is in the room sits or watches now.
LEMMA WelcomeStep == RoundInv /\ WelcomeAll => RoundInv'
<1> SUFFICES ASSUME RoundInv, WelcomeAll PROVE RoundInv'
  OBVIOUS
<1>1. /\ pc = "seat" /\ map_changed' = FALSE /\ pc' = "lives" /\ i' = 1
      /\ told' = [s \in Session |->
           IF \E x \in Humans : players[x].s = s THEN First({x \in Humans : players[x].s = s})
           ELSE IF \E x \in DOMAIN viewers : viewers[x] = s THEN NoSeat
           ELSE told[s]]
      /\ UNCHANGED <<seatVars, phaseVars, viewers, cur, keep, n, back, room>> /\ keep = <<>>
  BY DEF WelcomeAll, RoundInv, StepInv
<1>2. SlotInv' /\ CountInv' /\ Taken' = Taken /\ players' = players /\ slot' = slot
  BY <1>1, SameSeats DEF RoundInv, seatVars
<1>3. ASSUME NEW s \in Session
      PROVE  /\ {x \in Humans : players[x].s = s} = SeatsOf(s)
             /\ (\E x \in Humans : players[x].s = s) <=> slot[s] # NoSeat
  <2>1. {x \in Humans : players[x].s = s} = SeatsOf(s)
    BY RoundAssumption DEF Humans, SeatsOf
  <2> QED
    BY <2>1, SeatOf DEF RoundInv
<1>4. ASSUME NEW s \in Session
      PROVE  /\ told'[s] \in Slot \cup {NoSeat, Untold}
             /\ s \in room => told'[s] = slot[s]
  <2>1. CASE slot[s] # NoSeat
    BY <1>1, <1>3, <2>1, SeatOf DEF RoundInv
  <2>2. CASE slot[s] = NoSeat /\ In(viewers, s)
    BY <1>1, <1>3, <2>2 DEF In
  <2>3. CASE slot[s] = NoSeat /\ ~In(viewers, s)
    <3>1. told'[s] = told[s]
      BY <1>1, <1>3, <2>3 DEF In
    <3>2. s \notin room
      BY <1>1, <2>3, EmptySeq DEF RoundInv, PlaceInv, Exactly
    <3> QED
      BY <3>1, <3>2 DEF RoundInv, StepInv
  <2> QED
    BY <2>1, <2>2, <2>3
<1>5. told' \in [Session -> Slot \cup {NoSeat, Untold}]
  BY <1>1, <1>4
<1>6. StepInv'
  <2>1. viewers' = viewers /\ viewers \in Seq(Session) /\ 1 \in 1 .. Len(viewers) + 1
    BY <1>1 DEF RoundInv, StepInv
  <2>2. /\ phase' = phase /\ phase_ticks' = phase_ticks /\ winner' = winner
        /\ cur' = cur /\ keep' = keep /\ n' = n /\ back' = back /\ room' = room
        /\ map_changed' \in BOOLEAN /\ i' \in 1 .. Len(viewers') + 1
    BY <1>1, <2>1 DEF phaseVars
  <2> QED
    BY <1>1, <1>5, <2>1, <2>2 DEF RoundInv, StepInv
<1>7. PlaceInv'
  <2>1. ASSUME NEW q \in Session
        PROVE  Exactly(q \in room', slot'[q] # NoSeat, In(viewers', q), In(keep', q), pc' = "enter" /\ cur' = q)
    <3>1. Exactly(q \in room, slot[q] # NoSeat, In(viewers, q), In(keep, q), pc = "enter" /\ cur = q)
      BY DEF RoundInv, PlaceInv
    <3> QED
      BY <1>1, <1>2, <3>1 DEF Exactly
  <2> QED
    BY <1>1, <2>1 DEF RoundInv, PlaceInv
<1>8. AliveInv'
  BY <1>1, <1>2 DEF RoundInv, AliveInv, phaseVars
<1>9. ToldInv'
  BY <1>1, <1>2, <1>4 DEF RoundInv, StepInv, ToldInv
<1> QED
  BY <1>2, <1>6, <1>7, <1>8, <1>9 DEF RoundInv

\* Every step of the tick thread keeps the invariant.
LEMMA RoundStep == RoundInv /\ [Next]_vars => RoundInv'
<1> SUFFICES ASSUME RoundInv, [Next]_vars PROVE RoundInv'
  OBVIOUS
<1>1. ASSUME NEW s \in Session, Enter(s) PROVE RoundInv'
  BY <1>1, EnterStep
<1>2. ASSUME NEW s \in Session, Leave(s) PROVE RoundInv'
  BY <1>2, LeaveStep
<1>3. CASE Restart
  <2>1. /\ pc \in {"lives", "packets", "bots", "restart"} /\ RestartGame("packets")
        /\ UNCHANGED <<viewers, cur, i, room>>
    BY <1>3 DEF Restart
  <2> QED
    BY <2>1, RestartStep DEF RoundInv, StepInv
<1>4. CASE EnterRestart
  <2>1. /\ pc \in {"lives", "packets", "bots", "restart"} /\ RestartGame("lives")
        /\ UNCHANGED <<viewers, i, room>> /\ cur' = NoSession
    BY <1>4 DEF EnterRestart
  <2> QED
    BY <2>1, RestartStep
<1>5. CASE UNCHANGED vars
  <2>1. UNCHANGED <<phaseVars, stepVars, pc, seatVars, map_changed, viewers, room, told>>
    BY <1>5 DEF vars
  <2>2. SlotInv' /\ CountInv' /\ Taken' = Taken /\ players' = players /\ slot' = slot
    BY <2>1, SameSeats DEF RoundInv, seatVars
  <2>3. /\ phase' = phase /\ phase_ticks' = phase_ticks /\ winner' = winner /\ cur' = cur
        /\ keep' = keep /\ n' = n /\ back' = back /\ i' = i /\ pc' = pc
        /\ player_count' = player_count /\ map_changed' = map_changed /\ viewers' = viewers
        /\ room' = room /\ told' = told
    BY <2>1 DEF phaseVars, stepVars, seatVars
  <2>4. AliveInv' /\ ToldInv'
    BY <2>2, <2>3 DEF RoundInv, AliveInv, ToldInv
  <2>6. StepInv'
    BY <2>3 DEF RoundInv, StepInv
  <2>5. PlaceInv'
    <3>1. ASSUME NEW q \in Session
          PROVE  Exactly(q \in room', slot'[q] # NoSeat, In(viewers', q), In(keep', q), pc' = "enter" /\ cur' = q)
      BY <2>2, <2>3 DEF RoundInv, PlaceInv
    <3> QED
      BY <2>3, <3>1 DEF RoundInv, PlaceInv
  <2> QED
    BY <2>2, <2>4, <2>5, <2>6 DEF RoundInv
<1> QED
  BY <1>1, <1>2, <1>3, <1>4, <1>5, EnterSeatStep, EnterViewStep, ReseatStep, RestartEndStep,
     FillStep, QuietTicks, PlayingStep, OverStep, SeatViewerStep, WelcomeStep DEF Next, Tick

\* Everybody in the room is in one place, and Session::slot, spawn_used and
\* player_count say what the seats say, after every job, turn of a loop and tick
\* (Game.h:395-508, 586-614; main.cpp:49-71, 428-478).
THEOREM BoardAlways == Spec => []BoardInv
  BY RoundInit, RoundStep, RoundFollows, PTL DEF Spec

\* Between two ticks everybody in the room knows the map he is on and his seat on
\* it (main.cpp:451-472, 690-709).
THEOREM ToldAlways == Spec => []EverybodyTold
  BY RoundInit, RoundStep, RoundFollows, PTL DEF Spec

-----------------------------------------------------------------------------
(* A fair round.                                                           *)

NobodyComesToLife == phase = "PLAYING" /\ phase' = "PLAYING" => Alive' \subseteq Alive
StartsFair ==
  phase # "PLAYING" /\ phase' = "PLAYING" =>
    Alive' = Slot \ FreeSeats' /\ Cardinality(Alive') >= ROUND_MIN_PLAYERS

\* Who sits down during a round sits down dead.
LEMMA LateSeat ==
  ASSUME RoundInv, phase = "PLAYING", ~NoRoom, NEW s, NEW bot \in BOOLEAN,
         IF bot THEN s = NoSession ELSE s \in Session /\ slot[s] = NoSeat,
         AddPlayer(s, bot)
  PROVE  Alive' \subseteq Alive
<1> DEFINE x == First(FreeSeats)
<1>1. /\ \A y \in Slot \ {x} : players'[y] = players[y]
      /\ players'[x].alive = (phase \in {"WAITING", "COUNTDOWN"})
  BY AddSeat DEF RoundInv
<1> HIDE DEF x
<1>2. players'[x].alive = FALSE
  <2>1. (phase \in {"WAITING", "COUNTDOWN"}) = FALSE
    OBVIOUS
  <2> QED
    BY <1>1, <2>1, Zenon
<1>3. ASSUME NEW y \in Alive' PROVE y \in Alive
  <2>1. y \in Slot /\ Occupied(players'[y]) /\ players'[y].alive
    BY DEF Alive
  <2>2. y # x
    BY <1>2, <2>1, Zenon
  <2> QED
    BY <1>1, <2>1, <2>2 DEF Alive
<1> QED
  BY <1>3

\* A seat that becomes free is not alive, whatever its flag says.
LEMMA FreedSeat ==
  ASSUME NEW x \in Taken, ~Occupied(players'[x]),
         \A y \in Slot \ {x} : players'[y] = players[y]
  PROVE  Alive' \subseteq Alive
  BY DEF Alive

\* In a round no step brings anybody to life, neither a seat given away in it
\* nor one taken back (Game.h:395-508).
LEMMA NoRevival == RoundInv /\ [Next]_vars => NobodyComesToLife
<1> SUFFICES ASSUME RoundInv, [Next]_vars, phase = "PLAYING", phase' = "PLAYING"
             PROVE  Alive' \subseteq Alive
  BY DEF NobodyComesToLife
<1>1. ASSUME players' = players PROVE Alive' \subseteq Alive
  BY <1>1 DEF Alive
<1>2. ASSUME NEW s \in Session, Enter(s) PROVE Alive' \subseteq Alive
  <2>1. CASE NoRoom /\ Bots # {}
    <3>1. DropOneBot
      BY <1>2, <2>1 DEF Enter
    <3> QED
      BY <2>1, <3>1, DropSeat, FreedSeat DEF RoundInv
  <2>2. CASE UNCHANGED seatVars
    BY <1>1, <2>2 DEF seatVars
  <2> QED
    BY <1>2, <2>1, <2>2 DEF Enter
<1>3. ASSUME NEW s \in Session, Leave(s) PROVE Alive' \subseteq Alive
  BY <1>1, <1>3, LeaveSeat, FreedSeat DEF RoundInv
<1>4. CASE Restart \/ EnterRestart
  BY <1>4 DEF Restart, EnterRestart, RestartGame, EnterPhase
<1>5. CASE EnterSeat
  <2>1. pc = "enter" /\ ~NoRoom /\ AddPlayer(cur, FALSE) /\ cur \in Session
    BY <1>5 DEF EnterSeat, RoundInv, StepInv
  <2>2. slot[cur] = NoSeat
    BY <2>1 DEF RoundInv, PlaceInv, Exactly
  <2> QED
    BY <2>1, <2>2, LateSeat
<1>6. CASE Reseat
  BY <1>6 DEF Reseat, RoundInv, StepInv
<1>7. CASE FillBots
  BY <1>7 DEF FillBots, FillDue
<1>8. CASE EnterView \/ RestartEnd \/ WaitingTick \/ CountdownTick \/ WelcomeAll
  BY <1>1, <1>8 DEF EnterView, RestartEnd, WaitingTick, CountdownTick, WelcomeAll, seatVars
<1>9. CASE PlayingTick
  <2>1. PICK dead \in SUBSET Alive :
          players' = [x \in Slot |-> IF x \in dead THEN [players[x] EXCEPT !.alive = FALSE]
                                     ELSE players[x]]
    BY <1>9 DEF PlayingTick
  <2>2. dead \in SUBSET Slot /\ UNCHANGED <<slot, spawn_used, player_count>>
    BY <1>9 DEF PlayingTick, Alive
  <2>3. Taken' = Taken /\ \A x \in Slot : players'[x].alive = (players[x].alive /\ x \notin dead)
    BY <2>1, <2>2, Killed DEF RoundInv
  <2> QED
    BY <2>3 DEF Alive, Taken
<1>10. CASE OverTick
  BY <1>10 DEF OverTick
<1>11. CASE SeatViewer
  <2>1. /\ pc = "seat" /\ i <= Len(viewers) /\ viewers \in Seq(Session) /\ i \in 1 .. Len(viewers) + 1
    BY <1>11 DEF SeatViewer, RoundInv, StepInv
  <2>2. CASE NoRoom
    BY <1>1, <1>11, <2>2 DEF SeatViewer, seatVars
  <2>3. CASE ~NoRoom
    <3> DEFINE s == viewers[i]
    <3>1. AddPlayer(s, FALSE)
      BY <1>11, <2>3 DEF SeatViewer
    <3>2. s \in Session /\ In(viewers, s)
      BY <2>1 DEF In
    <3> HIDE DEF s
    <3>3. slot[s] = NoSeat
      BY <3>2 DEF RoundInv, PlaceInv, Exactly
    <3> QED
      BY <2>3, <3>1, <3>2, <3>3, LateSeat
  <2> QED
    BY <2>2, <2>3
<1>12. CASE UNCHANGED vars
  BY <1>1, <1>12 DEF vars, seatVars
<1> QED
  BY <1>2, <1>3, <1>4, <1>5, <1>6, <1>7, <1>8, <1>9, <1>10, <1>11, <1>12 DEF Next, Tick

\* Only the countdown starts a round, with all who sit alive (GameTick.h:85-92).
LEMMA FairBeginning == RoundInv /\ [Next]_vars => StartsFair
<1> SUFFICES ASSUME RoundInv, [Next]_vars, phase # "PLAYING", phase' = "PLAYING"
             PROVE  Alive' = Slot \ FreeSeats' /\ Cardinality(Alive') >= ROUND_MIN_PLAYERS
  BY DEF StartsFair
<1>1. CASE CountdownTick
  <2>1. phase = "COUNTDOWN" /\ Enough /\ UNCHANGED seatVars
    BY <1>1 DEF CountdownTick, EnterPhase
  <2>2. Alive = Taken
    BY <2>1 DEF RoundInv, AliveInv, Alive, Taken
  <2>3. Alive' = Alive /\ FreeSeats' = FreeSeats
    BY <2>1 DEF seatVars, Alive, FreeSeats
  <2>4. Cardinality(Taken) >= ROUND_MIN_PLAYERS
    BY <2>1 DEF RoundInv, CountInv, Enough
  <2> QED
    BY <2>2, <2>3, <2>4, TakenFree
<1>2. ASSUME NEW s \in Session, Enter(s) \/ Leave(s) PROVE phase' = phase
  BY <1>2 DEF Enter, Leave, phaseVars
<1>3. ASSUME EnterSeat \/ EnterView \/ Reseat \/ FillBots \/ SeatViewer \/ WelcomeAll PROVE phase' = phase
  BY <1>3 DEF EnterSeat, EnterView, Reseat, FillBots, SeatViewer, WelcomeAll, phaseVars
<1>4. ASSUME Restart \/ EnterRestart \/ RestartEnd \/ WaitingTick \/ OverTick
      PROVE  phase' \in {phase, "WAITING", "COUNTDOWN"}
  BY <1>4 DEF Restart, EnterRestart, RestartEnd, WaitingTick, OverTick, RestartGame, EnterPhase
<1>5. ~PlayingTick
  BY DEF PlayingTick
<1>6. phase' # phase
  OBVIOUS
<1> QED
  BY <1>1, <1>2, <1>3, <1>4, <1>5, <1>6 DEF Next, Tick, vars, phaseVars

\* A round starts with at least two on the board, all of them alive, and nobody
\* comes to life in it (Game.h:395-508; GameTick.h:85-114).
THEOREM FairPlayAlways == Spec => FairPlay
<1>1. RoundInv /\ [Next]_vars => [NobodyComesToLife]_vars
  BY NoRevival
<1>2. RoundInv /\ [Next]_vars => [StartsFair]_vars
  BY FairBeginning
<1>3. NobodyRevives <=> [][NobodyComesToLife]_vars
  BY PTL DEF NobodyRevives, NobodyComesToLife
<1>4. FairStart <=> [][StartsFair]_vars
  BY PTL DEF FairStart, StartsFair
<1> QED
  BY <1>1, <1>2, <1>3, <1>4, RoundInit, RoundStep, PTL DEF Spec, FairPlay

===============================================================================
