-------------------------------- MODULE Round --------------------------------
(***************************************************************************)
(* Who sits on the board, who watches, and how rounds follow each other:   *)
(* the seats of Game.h, the viewers and HandleJob of main.cpp, and the     *)
(* phases of GameTick.h.  Only the tick thread touches any of it.  A tick  *)
(* handles Enter and Leave jobs, then packets, then fills up with bots and *)
(* plays; each job, each turn of a loop and each GameTick is one step.     *)
(* What happens on the board in a tick is abstracted to who dies in it.    *)
(***************************************************************************)
EXTENDS Integers, Sequences, FiniteSets

CONSTANTS
  Session,         \* connections
  NoSession,       \* nullptr
  Capacity,        \* g_room_capacity
  BotTarget,       \* g_bot_target
  Spawn,           \* the spawn points of the map
  CountdownTicks,  \* ROUND_COUNTDOWN_TICKS
  OverTicks,       \* ROUND_OVER_TICKS
  PlayLimit        \* by this tick of a round the water has drowned everybody

ASSUME RoundAssumption ==
  /\ NoSession \notin Session
  /\ Capacity \in Nat /\ Capacity >= 2
  /\ BotTarget \in 0 .. Capacity
  /\ IsFiniteSet(Spawn) /\ Cardinality(Spawn) > Capacity
  /\ CountdownTicks \in Nat \ {0} /\ OverTicks \in Nat \ {0}
  /\ PlayLimit \in Nat \ {0}

VARIABLES
  players,       \* g_game.players: [s, is_bot, alive, spawn]
  slot,          \* Session::slot
  spawn_used, player_count,
  phase, phase_ticks, winner, map_changed,
  viewers,       \* g_viewers
  pc,            \* where the tick thread is
  cur,           \* Enter: the session in hand
  keep, n, back, \* RestartGame: who is still to be seated, how many there
                 \* were, and what comes after it
  i,             \* SeatViewers: its index
  room,          \* sessions whose Enter was handled and whose Leave was not
  told           \* the seat in the last WELCOME for the present map

seatVars == <<players, slot, spawn_used, player_count>>
phaseVars == <<phase, phase_ticks, winner>>
stepVars == <<cur, keep, n, back, i>>
vars == <<seatVars, phaseVars, map_changed, viewers, pc, stepVars, room, told>>

Slot == 0 .. Capacity - 1
NoSeat == -1   \* 0xFF in a WELCOME
Untold == -2
Phase == {"WAITING", "COUNTDOWN", "PLAYING", "OVER"}
ROUND_MIN_PLAYERS == 2

Empty(p) == [p EXCEPT !.s = NoSession, !.is_bot = FALSE]
Occupied(p) == p.s # NoSession \/ p.is_bot

Init ==
  /\ \E sp \in Spawn :
       players = [x \in Slot |-> [s |-> NoSession, is_bot |-> FALSE,
                                  alive |-> FALSE, spawn |-> sp]]
  /\ slot = [s \in Session |-> NoSeat]
  /\ spawn_used = {} /\ player_count = 0
  /\ phase = "WAITING" /\ phase_ticks = 0 /\ winner = -1 /\ map_changed = TRUE
  /\ viewers = <<>>
  /\ pc = "lives" /\ cur = NoSession
  /\ keep = <<>> /\ n = 0 /\ back = "none" /\ i = 1
  /\ room = {} /\ told = [s \in Session |-> Untold]

-----------------------------------------------------------------------------
(* The seats (Game.h).                                                     *)

Humans == {x \in Slot : players[x].s # NoSession}
Bots == {x \in Slot : players[x].is_bot}
Alive == {x \in Slot : Occupied(players[x]) /\ players[x].alive}
FreeSeats == {x \in Slot : ~Occupied(players[x])}
First(S) == CHOOSE x \in S : \A y \in S : x <= y

NoRoom == FreeSeats = {} \/ Spawn \ spawn_used = {}

\* A mutant of AddPlayer: it does not tell the session its seat (the bug of 9/2).
AddPlayerSilent(s, bot) ==
  \E sp \in {CHOOSE x \in Spawn \ spawn_used : TRUE} :
    /\ players' = [players EXCEPT ![First(FreeSeats)] =
         [s |-> s, is_bot |-> bot, alive |-> phase \in {"WAITING", "COUNTDOWN"},
          spawn |-> sp]]
    /\ spawn_used' = spawn_used \cup {sp}
    /\ UNCHANGED slot
    /\ player_count' = player_count + 1

\* The lowest free seat, at the spawn farthest from the taken ones: some
\* function of those.  Whoever comes during a round watches it.
AddPlayer(s, bot) ==
  \E sp \in {CHOOSE x \in Spawn \ spawn_used : TRUE} :
    /\ players' = [players EXCEPT ![First(FreeSeats)] =
         [s |-> s, is_bot |-> bot, alive |-> phase \in {"WAITING", "COUNTDOWN"},
          spawn |-> sp]]
    /\ spawn_used' = spawn_used \cup {sp}
    /\ slot' = IF bot THEN slot ELSE [slot EXCEPT ![s] = First(FreeSeats)]
    /\ player_count' = player_count + 1

\* A dead bot first, or else any.
DropOneBot ==
  LET dead == {x \in Bots : ~players[x].alive}
      pick == First(IF dead # {} THEN dead ELSE Bots) IN
    /\ players' = [players EXCEPT ![pick].is_bot = FALSE, ![pick].alive = FALSE]
    /\ spawn_used' = spawn_used \ {players[pick].spawn}
    /\ player_count' = player_count - 1
    /\ UNCHANGED slot

\* The seat of s is free again; its alive flag is left as it was.
RemovePlayer(x) ==
  /\ players' = [players EXCEPT ![x].s = NoSession]
  /\ spawn_used' = spawn_used \ {players[x].spawn}
  /\ player_count' = player_count - 1

EnterPhase(p) == phase' = p /\ phase_ticks' = 0

\* The sessions on the board, in the order of their seats.
Seated ==
  LET nth(k) == CHOOSE x \in Humans : Cardinality({y \in Humans : y <= x}) = k IN
    [k \in 1 .. Cardinality(Humans) |-> players[nth(k)].s]

\* Mutant of RestartGame: nobody is told that the map is new.
RestartGameSilent(then) ==
  /\ keep' = Seated /\ n' = Len(Seated) /\ back' = then
  /\ slot' = [s \in Session |-> IF \E x \in Humans : players[x].s = s
                                THEN NoSeat ELSE slot[s]]
  /\ players' = [x \in Slot |-> Empty(players[x])]
  /\ spawn_used' = {} /\ player_count' = 0
  /\ winner' = -1
  /\ EnterPhase("WAITING")
  /\ told' = [s \in Session |-> Untold]
  /\ pc' = "reseat"
  /\ UNCHANGED map_changed

\* Mutant of RestartGame: the old phase stays while people sit down again.
RestartGamePhase(then) ==
  /\ keep' = Seated /\ n' = Len(Seated) /\ back' = then
  /\ slot' = [s \in Session |-> IF \E x \in Humans : players[x].s = s
                                THEN NoSeat ELSE slot[s]]
  /\ players' = [x \in Slot |-> Empty(players[x])]
  /\ spawn_used' = {} /\ player_count' = 0
  /\ winner' = -1 /\ map_changed' = TRUE
  /\ UNCHANGED <<phase, phase_ticks>>
  /\ told' = [s \in Session |-> Untold]
  /\ pc' = "reseat"

\* RestartGame as far as InitGame: everybody stands up, the board is dealt
\* anew, the bots are gone.
RestartGame(then) ==
  /\ keep' = Seated /\ n' = Len(Seated) /\ back' = then
  /\ slot' = [s \in Session |-> IF \E x \in Humans : players[x].s = s
                                THEN NoSeat ELSE slot[s]]
  /\ players' = [x \in Slot |-> Empty(players[x])]
  /\ spawn_used' = {} /\ player_count' = 0
  /\ winner' = -1 /\ map_changed' = TRUE
  /\ EnterPhase("WAITING")
  /\ told' = [s \in Session |-> Untold]
  /\ pc' = "reseat"

\* The loop of RestartGame: those who were seated sit down again ...
Reseat ==
  /\ pc = "reseat" /\ keep # <<>>
  /\ IF NoRoom THEN UNCHANGED seatVars ELSE AddPlayer(Head(keep), FALSE)
  /\ keep' = Tail(keep)
  /\ UNCHANGED <<phaseVars, map_changed, viewers, pc, cur, n, back, i, room, told>>

\* ... and the next round begins to count down if they are enough.
RestartEnd ==
  /\ pc = "reseat" /\ keep = <<>>
  /\ EnterPhase(IF n >= ROUND_MIN_PLAYERS THEN "COUNTDOWN" ELSE "WAITING")
  /\ pc' = back /\ back' = "none" /\ n' = 0
  /\ UNCHANGED <<seatVars, winner, map_changed, viewers, cur, keep, i, room, told>>

-----------------------------------------------------------------------------
(* The jobs (main.cpp, HandleJob).                                         *)

\* SendWelcome, unless the whole board is about to be sent anyway.
Welcome(s, x) == told' = [told EXCEPT ![s] = x]

\* Enter: a seat if there is one, after a bot has made room if need be.
Enter(s) ==
  /\ pc = "lives" /\ s \notin room
  /\ room' = room \cup {s}
  /\ pc' = "enter" /\ cur' = s
  /\ IF NoRoom /\ Bots # {} THEN DropOneBot ELSE UNCHANGED seatVars
  /\ UNCHANGED <<phaseVars, map_changed, viewers, keep, n, back, i, told>>

\* A single human who meets a round of bots gets a new one.
EnterSeat ==
  /\ pc = "enter" /\ ~NoRoom
  /\ AddPlayer(cur, FALSE)
  /\ IF Humans = {} /\ phase # "WAITING"
     THEN pc' = "restart" /\ UNCHANGED <<told, cur>>
     ELSE /\ pc' = "lives" /\ cur' = NoSession
          /\ IF map_changed THEN UNCHANGED told
             ELSE Welcome(cur, First(FreeSeats))
  /\ UNCHANGED <<phaseVars, map_changed, viewers, keep, n, back, i, room>>

EnterRestart ==
  /\ pc = "restart"
  /\ RestartGame("lives")
  /\ cur' = NoSession
  /\ UNCHANGED <<viewers, i, room>>

\* No seat, and no bot to take one from: he watches.
EnterView ==
  /\ pc = "enter" /\ NoRoom
  /\ viewers' = Append(viewers, cur)
  /\ Welcome(cur, NoSeat)
  /\ pc' = "lives" /\ cur' = NoSession
  /\ UNCHANGED <<seatVars, phaseVars, map_changed, keep, n, back, i, room>>

\* Entry x of a sequence goes; the last one takes its place.
SwapOut(q, x) ==
  [y \in 1 .. Len(q) - 1 |-> IF y = x THEN q[Len(q)] ELSE q[y]]

\* Leave: off the board and out of the viewers.
Leave(s) ==
  /\ pc = "lives" /\ s \in room
  /\ room' = room \ {s}
  /\ slot' = [slot EXCEPT ![s] = NoSeat]
  /\ IF \E x \in Slot : players[x].s = s
     THEN RemovePlayer(First({x \in Slot : players[x].s = s}))
     ELSE UNCHANGED <<players, spawn_used, player_count>>
  /\ viewers' = IF \E x \in DOMAIN viewers : viewers[x] = s
                THEN SwapOut(viewers, First({x \in DOMAIN viewers : viewers[x] = s}))
                ELSE viewers
  /\ told' = [told EXCEPT ![s] = Untold]
  /\ UNCHANGED <<phaseVars, map_changed, pc, stepVars>>

\* PKT_RESTART, from anybody, even from one who has just left.
Restart ==
  /\ pc \in {"lives", "packets"}
  /\ RestartGame("packets")
  /\ UNCHANGED <<viewers, cur, i, room>>

-----------------------------------------------------------------------------
(* The rest of the tick (main.cpp, TickThread, and GameTick.h).            *)

Lesser(a, b) == IF a < b THEN a ELSE b

\* Bots are wanted while the room waits: BotTarget of them besides the humans.
FillDue ==
  /\ BotTarget > 0 /\ phase = "WAITING"
  /\ player_count < Lesser(Cardinality(Humans) + BotTarget, Capacity)
  /\ ~NoRoom

FillBots ==
  /\ pc \in {"lives", "packets", "bots"} /\ FillDue
  /\ AddPlayer(NoSession, TRUE)
  /\ pc' = "bots"
  /\ UNCHANGED <<phaseVars, map_changed, viewers, stepVars, room, told>>

\* All jobs and bots are done: one GameTick, and then perhaps SeatViewers.
Ready == pc \in {"lives", "packets", "bots"} /\ ~FillDue
GoOn == pc' = (IF map_changed THEN "seat" ELSE "lives")

Enough == player_count >= ROUND_MIN_PLAYERS

WaitingTick ==
  /\ Ready /\ phase = "WAITING"
  /\ IF Enough THEN EnterPhase("COUNTDOWN") ELSE UNCHANGED <<phase, phase_ticks>>
  /\ GoOn
  /\ UNCHANGED <<seatVars, winner, map_changed, viewers, stepVars, room, told>>

CountdownTick ==
  /\ Ready /\ phase = "COUNTDOWN"
  /\ IF ~Enough THEN EnterPhase("WAITING")
     ELSE IF phase_ticks + 1 >= CountdownTicks THEN EnterPhase("PLAYING")
     ELSE phase' = phase /\ phase_ticks' = phase_ticks + 1
  /\ GoOn
  /\ UNCHANGED <<seatVars, winner, map_changed, viewers, stepVars, room, told>>

\* PlayTick kills some; a round with one or none left is over.
PlayingTick ==
  /\ Ready /\ phase = "PLAYING"
  /\ \E dead \in SUBSET Alive :
       /\ phase_ticks + 1 >= PlayLimit => dead = Alive
       /\ players' = [x \in Slot |-> IF x \in dead THEN [players[x] EXCEPT !.alive = FALSE]
                                     ELSE players[x]]
       /\ IF ~Enough \/ Cardinality(Alive \ dead) <= 1
          THEN /\ EnterPhase("OVER")
               /\ winner' = IF Enough /\ Alive \ dead # {} THEN First(Alive \ dead) ELSE -1
          ELSE phase' = phase /\ phase_ticks' = phase_ticks + 1 /\ UNCHANGED winner
  /\ GoOn
  /\ UNCHANGED <<slot, spawn_used, player_count, map_changed, viewers, stepVars, room, told>>

\* Mutant of OverTick: the next round never comes.
OverTickStays ==
  /\ Ready /\ phase = "OVER"
  /\ phase_ticks' = OverTicks /\ GoOn
  /\ UNCHANGED <<seatVars, phase, winner, map_changed, keep, n, back, told>>
  /\ UNCHANGED <<viewers, cur, i, room>>

OverTick ==
  /\ Ready /\ phase = "OVER"
  /\ IF phase_ticks + 1 >= OverTicks
     THEN RestartGame("seat")
     ELSE /\ phase_ticks' = phase_ticks + 1 /\ GoOn
          /\ UNCHANGED <<seatVars, phase, winner, map_changed, keep, n, back, told>>
  /\ UNCHANGED <<viewers, cur, i, room>>

\* SeatViewers: one turn of its loop ...
SeatViewer ==
  /\ pc = "seat" /\ i <= Len(viewers)
  /\ IF NoRoom
     THEN i' = i + 1 /\ UNCHANGED <<seatVars, viewers>>
     ELSE AddPlayer(viewers[i], FALSE) /\ viewers' = SwapOut(viewers, i) /\ i' = i
  /\ UNCHANGED <<phaseVars, map_changed, pc, cur, keep, n, back, room, told>>

\* ... and after it a WELCOME for everybody on the board or watching.
WelcomeAll ==
  /\ pc = "seat" /\ i > Len(viewers)
  /\ map_changed' = FALSE
  /\ told' = [s \in Session |->
       IF \E x \in Humans : players[x].s = s THEN First({x \in Humans : players[x].s = s})
       ELSE IF \E x \in DOMAIN viewers : viewers[x] = s THEN NoSeat
       ELSE told[s]]
  /\ pc' = "lives" /\ i' = 1
  /\ UNCHANGED <<seatVars, phaseVars, viewers, cur, keep, n, back, room>>

Tick ==
  \/ EnterSeat \/ EnterRestart \/ EnterView \/ Reseat \/ RestartEnd
  \/ FillBots \/ WaitingTick \/ CountdownTick \/ PlayingTick \/ OverTick
  \/ SeatViewer \/ WelcomeAll

Next ==
  \/ \E s \in Session : Enter(s) \/ Leave(s)
  \/ Restart
  \/ Tick

Spec == Init /\ [][Next]_vars

\* The tick thread never waits for anything but its clock.
FairSpec == Spec /\ WF_vars(Tick)

-----------------------------------------------------------------------------
TypeOK ==
  /\ players \in [Slot -> [s : Session \cup {NoSession}, is_bot : BOOLEAN,
                           alive : BOOLEAN, spawn : Spawn]]
  /\ slot \in [Session -> Slot \cup {NoSeat}]
  /\ spawn_used \subseteq Spawn /\ player_count \in 0 .. Capacity
  /\ phase \in Phase /\ phase_ticks \in Nat
  /\ winner \in Slot \cup {-1} /\ map_changed \in BOOLEAN
  /\ viewers \in Seq(Session) /\ i \in 1 .. Len(viewers) + 1
  /\ pc \in {"lives", "enter", "restart", "reseat", "packets", "bots", "seat"}
  /\ cur \in Session \cup {NoSession}
  /\ keep \in Seq(Session) /\ n \in 0 .. Capacity
  /\ back \in {"none", "lives", "packets", "seat"}
  /\ room \subseteq Session
  /\ told \in [Session -> Slot \cup {NoSeat, Untold}]

Times(q, s) == Cardinality({x \in DOMAIN q : q[x] = s})
SeatsOf(s) == {x \in Slot : players[x].s = s}

\* Everybody in the room is in one place: on one seat, among the viewers, or
\* in the hands of Enter or RestartGame.
OnePlace ==
  \A s \in Session :
    Cardinality(SeatsOf(s)) + Times(viewers, s) + Times(keep, s)
      + (IF pc = "enter" /\ cur = s THEN 1 ELSE 0)
      = IF s \in room THEN 1 ELSE 0

\* Session::slot, spawn_used and player_count, each written in several places,
\* say what the seats say.  AOI asks Session::slot where a client is looking.
SeatsAgree ==
  /\ \A s \in Session : SeatsOf(s) = IF slot[s] = NoSeat THEN {} ELSE {slot[s]}
  /\ player_count = Cardinality(Slot \ FreeSeats)
  /\ spawn_used = {players[x].spawn : x \in Slot \ FreeSeats}
  /\ Cardinality(spawn_used) = player_count
  /\ \A x \in Slot : players[x].is_bot => players[x].s = NoSession

BoardInv == TypeOK /\ OnePlace /\ SeatsAgree

\* Between two ticks everybody in the room knows the map he is on and the seat
\* he has there, however often the board was dealt anew in between.
EverybodyTold ==
  pc = "lives" /\ ~map_changed => \A s \in room : told[s] = slot[s]

NobodyRevives ==
  [][phase = "PLAYING" /\ phase' = "PLAYING" => Alive' \subseteq Alive]_vars

FairStart ==
  [][phase # "PLAYING" /\ phase' = "PLAYING" =>
       Alive' = Slot \ FreeSeats' /\ Cardinality(Alive') >= ROUND_MIN_PLAYERS]_vars

\* A round starts with all on the board alive, and at least two of them, and from
\* then on nobody comes to life in it: he would have to play with empty hands, or
\* revive by leaving and coming back.
FairPlay == FairStart /\ NobodyRevives

\* Jobs that could go on stopping a round from starting do come to an end.
JobsEnd == <>[][room' = room /\ (pc' = "reseat" => phase = "OVER" \/ pc = "reseat")]_vars

\* Then, with at least one bot, everybody on a seat gets to play, whenever he
\* came: the round he may only watch ends, and the next one starts.
EverybodyPlays ==
  JobsEnd => \A s \in Session :
    (slot[s] # NoSeat) ~> (s \notin room \/ (phase = "PLAYING" /\ slot[s] \in Alive))

=============================================================================
