-------------------------------- MODULE Flood --------------------------------
(***************************************************************************)
(* The water that ends a round (Server/src/Flood.h, called by PlayTick),    *)
(* and what the server tells a page of such a round.                         *)
(*                                                                         *)
(* The map is three by three sectors.  They are flooded in stages, each     *)
(* after a warning, until only the middle one is dry; from then on the dry  *)
(* rectangle in it shrinks until nothing is left.  Whoever stays in the      *)
(* water has Escape ticks to get out.  Where the players go is left open,   *)
(* and so is who touches whom while he is trapped; a tick pops at most one.  *)
(*                                                                         *)
(* The server sends the snapshot of a tick and then its events, in order.    *)
(* The events of one stage, and the notes that change no page but make a      *)
(* sound (DROWN, RING), are one message, and none.                            *)
(***************************************************************************)
EXTENDS Integers, Sequences, FiniteSets

CONSTANTS
  Player,          \* those who play, numbered as their seats are
  Fighter,         \* bound: those whom the others may pop
  SectorW, SectorH,
  Warn, Fill,      \* flood_warn, flood_fill: the ticks of each stage
  Count,           \* FLOOD_COUNT: how many sectors a stage floods
  RingStep,        \* ring_step
  Escape           \* FLOOD_ESCAPE_TICKS

Stage == DOMAIN Count
Sector == 0 .. 8
Middle == 4
Corners == {0, 2, 6, 8}
Tile == (0 .. 3 * SectorW - 1) \X (0 .. 3 * SectorH - 1)

ASSUME FloodAssumption ==
  /\ IsFiniteSet(Player) /\ Player \subseteq Nat /\ Fighter \subseteq Player
  /\ SectorW \in Nat \ {0} /\ SectorH \in Nat \ {0}
  /\ Warn \in [Stage -> Nat] /\ Fill \in [Stage -> Nat]
  /\ \A s \in Stage : 0 < Warn[s] /\ Warn[s] < Fill[s]
  /\ \A s, q \in Stage : s < q => Warn[s] < Warn[q] /\ Fill[s] < Fill[q]
  /\ Count \in Seq(Nat)
  /\ \E from \in [0 .. Len(Count) -> 0 .. 8] :  \* together, all but the middle
       /\ from[0] = 0 /\ from[Len(Count)] = 8
       /\ \A s \in Stage : from[s] = from[s - 1] + Count[s]
  /\ RingStep \in Nat \ {0} /\ Escape \in Nat \ {0}

VARIABLES
  phase, tick,     \* the server's round
  flooding,        \* flood_order, as far as it has come: the sectors of each stage
  sector,          \* sector_state
  ring, ringNext,  \* ring_x0 .. ring_y1 and ring_on, ring_next
  alive, floodTicks,
  open, link,      \* a page's connection, and what is on the way to it
  wetFor, fell,    \* history: ticks in the water without a break; tick of the death
  popped           \* history: how many each has popped in this round

floodVars == <<flooding, sector, ring, ringNext>>
historyVars == <<wetFor, fell, popped>>
serverVars == <<phase, tick, floodVars, alive, floodTicks, historyVars>>
linkVars == <<open, link>>

Off == [on |-> FALSE, x0 |-> 0, y0 |-> 0, x1 |-> 0, y1 |-> 0]
Dry == [s \in Sector |-> "open"]
Nothing == [p \in Player |-> 0]

SectorOf(t) == (t[2] \div SectorH) * 3 + t[1] \div SectorW

ServerInit ==
  /\ phase = "COUNTDOWN" /\ tick = 0
  /\ flooding = <<>> /\ sector = Dry /\ ring = Off /\ ringNext = 0
  /\ alive = Player /\ floodTicks = Nothing
  /\ wetFor = Nothing /\ fell = Nothing /\ popped = Nothing
  /\ open = FALSE /\ link = <<>>

-----------------------------------------------------------------------------
(* The water.                                                              *)

\* IsUnderWater, for sector states f and a ring r.
IsUnderWater(t, f, r) ==
  \/ f[SectorOf(t)] = "flooded"
  \/ r.on /\ (t[1] < r.x0 \/ t[1] > r.x1 \/ t[2] < r.y0 \/ t[2] > r.y1)

Taken == UNION {flooding[s] : s \in DOMAIN flooding}

\* A mutant of Order: the eight outer sectors are shuffled together.
OrderAll(S, s) == S \cap (Taken \cup {Middle}) = {} /\ Cardinality(S) = Count[s]

\* flood_order: the corners in any order, then the edges, never the middle.
Order(S, s) ==
  /\ S \cap (Taken \cup {Middle}) = {} /\ Cardinality(S) = Count[s]
  /\ Corners \subseteq Taken \cup S \/ S \subseteq Corners

\* The stages that are warned of at tick t, and those that fill.
Flooded(t) == UNION {flooding[s] : s \in {q \in DOMAIN flooding : Fill[q] = t}}

SectorStates(t) ==
  /\ IF \E s \in Stage : Warn[s] = t
     THEN \E S \in {Q \in SUBSET Sector : Order(Q, CHOOSE s \in Stage : Warn[s] = t)} :
            /\ flooding' = Append(flooding, S)
            /\ sector' = [q \in Sector |-> IF q \in Flooded(t) THEN "flooded"
                                           ELSE IF q \in S THEN "warning" ELSE sector[q]]
     ELSE /\ sector' = [q \in Sector |-> IF q \in Flooded(t) THEN "flooded" ELSE sector[q]]
          /\ UNCHANGED flooding

MiddleRing == [on |-> TRUE, x0 |-> SectorW, y0 |-> SectorH,
               x1 |-> 2 * SectorW - 1, y1 |-> 2 * SectorH - 1]

\* A mutant of Shrunk: the last bit of dry land stays (as it did once).
ShrunkKeeps(r) ==
  LET x == IF r.x0 < r.x1 THEN 1 ELSE 0
      y == IF r.y0 < r.y1 THEN 1 ELSE 0
  IN  [r EXCEPT !.x0 = @ + x, !.x1 = @ - x, !.y0 = @ + y, !.y1 = @ - y]

\* One line less on each side, unless there is nothing left to take.
Shrunk(r) ==
  LET x == IF r.x0 <= r.x1 THEN 1 ELSE 0
      y == IF r.y0 <= r.y1 THEN 1 ELSE 0
  IN  [r EXCEPT !.x0 = @ + x, !.x1 = @ - x, !.y0 = @ + y, !.y1 = @ - y]

\* UpdateRing, once every outer sector is flooded.
UpdateRing(t) ==
  LET due == \A q \in Sector \ {Middle} : sector'[q] = "flooded" IN
  IF ~due \/ (ring.on /\ t < ringNext)
  THEN UNCHANGED <<ring, ringNext>>
  ELSE /\ ring' = IF ring.on THEN Shrunk(ring) ELSE MiddleRing
       /\ ringNext' = t + RingStep

\* A mutant of Soaked: who comes out of the water keeps the rest of his time.
SoakedKeeps(p, inside) ==
  IF p \notin inside THEN floodTicks[p]
  ELSE IF floodTicks[p] = 0 THEN Escape ELSE floodTicks[p] - 1

\* What the last loop of UpdateFlood makes of flood_ticks.
Soaked(p, inside) ==
  IF p \notin inside THEN 0
  ELSE IF floodTicks[p] = 0 THEN Escape ELSE floodTicks[p] - 1

\* Who of S may stand in the water: nobody if there is none, all if there is nothing else.
Insides(S, f, r) ==
  {I \in SUBSET S : /\ I = {} \/ \E c \in Tile : IsUnderWater(c, f, r)
                    /\ I = S \/ \E c \in Tile : ~IsUnderWater(c, f, r)}

-----------------------------------------------------------------------------
(* What is sent.                                                            *)

Snapshot == [type |-> "SNAPSHOT", phase |-> phase', tick |-> tick', alive |-> alive',
             wet |-> {p \in Player : floodTicks'[p] > 0}, sectors |-> sector', ring |-> ring']

\* KillPlayer, in the order of the seats.
Deaths(D) == [k \in 1 .. Cardinality(D) |->
                [type |-> "DEATH", who |-> CHOOSE p \in D : Cardinality({q \in D : q <= p}) = k]]

\* PopTrappedPlayers: who is popped, and by whom; he dies of it.
Popping(pop) ==
  IF pop = {} THEN <<>>
  ELSE LET q == CHOOSE r \in pop : TRUE
       IN  <<[type |-> "POP", who |-> q[1], by |-> q[2]]>> \o Deaths({q[1]})

\* The warned and the filled sectors of this tick, stage by stage.
Warned == IF flooding' = flooding THEN {} ELSE flooding'[Len(flooding')]
Stages ==
  (IF Flooded(tick') = {} THEN <<>> ELSE <<[type |-> "FLOOD", of |-> Flooded(tick')]>>)
  \o (IF Warned = {} THEN <<>> ELSE <<[type |-> "FLOOD_WARN", of |-> Warned]>>)

\* SendSnapshot, then FlushEvents: in the order in which PlayTick has pushed them.
Sent(pop, drowned) ==
  IF open THEN <<Snapshot>> \o Popping(pop) \o Stages \o Deaths(drowned) ELSE <<>>

\* Whom a touch may pop this tick, and who does it: somebody alive (who is not trapped).
Pops == {q \in (alive \cap Fighter) \X alive : q[1] # q[2]}

\* PlayTick: the water rises; the pair pop has touched, those inside stand in the water.
Rise == tick' = tick + 1 /\ SectorStates(tick') /\ UpdateRing(tick')

Drowned(inside) == {p \in inside : floodTicks[p] = 1}

PlayTick(pop, inside) ==
  LET fought == {q[1] : q \in pop}
      drowned == Drowned(inside)
  IN  /\ alive' = alive \ (fought \cup drowned)
      /\ floodTicks' = [p \in Player |-> IF p \in alive' THEN Soaked(p, inside) ELSE 0]
      /\ wetFor' = [p \in Player |-> IF p \in inside \ drowned THEN wetFor[p] + 1 ELSE 0]
      /\ fell' = [p \in Player |-> IF p \in alive \ alive' THEN tick' ELSE fell[p]]
      /\ popped' = [p \in Player |-> popped[p] + Cardinality({q \in pop : q[2] = p})]

\* RestartGame deals a new round, which counts down.
RestartGame ==
  /\ phase' = "COUNTDOWN" /\ tick' = 0
  /\ flooding' = <<>> /\ sector' = Dry /\ ring' = Off /\ ringNext' = 0
  /\ alive' = Player /\ floodTicks' = Nothing
  /\ wetFor' = Nothing /\ fell' = Nothing /\ popped' = Nothing

\* GameTick.  A round that is over is followed by another at once.
StartPlay ==
  /\ phase = "COUNTDOWN" /\ phase' = "PLAYING"
  /\ UNCHANGED <<tick, floodVars, alive, floodTicks, historyVars>>
  /\ link' = Sent({}, {})

Play ==
  /\ phase = "PLAYING"
  /\ Rise
  /\ \E pop \in {{}} \cup {{q} : q \in Pops} :
     \E inside \in Insides(alive \ {q[1] : q \in pop}, sector', ring') :
       /\ PlayTick(pop, inside)
       /\ phase' = IF Cardinality(alive') <= 1 THEN "OVER" ELSE "PLAYING"
       /\ link' = Sent(pop, Drowned(inside))

NextRound ==
  /\ phase = "OVER"
  /\ RestartGame
  /\ link' = IF open THEN <<[type |-> "WELCOME"], Snapshot>> ELSE <<>>

ServerTick == (StartPlay \/ Play \/ NextRound) /\ UNCHANGED open

Connect ==
  /\ ~open /\ open' = TRUE
  /\ link' = <<[type |-> "WELCOME"]>>
  /\ UNCHANGED serverVars

\* What is on the way is lost with the connection.
Close ==
  /\ open /\ open' = FALSE /\ link' = <<>>
  /\ UNCHANGED serverVars

-----------------------------------------------------------------------------
(* Properties                                                              *)

\* "What is left is always connected" (Game.h:287): from every dry sector there is a
\* dry way to the middle, whatever the order of the flood.
Adjacent(s, q) == LET dx == (s % 3) - (q % 3)
                      dy == (s \div 3) - (q \div 3)
                  IN  dx * dx + dy * dy = 1
LandConnected ==
  LET left == {s \in Sector : sector[s] # "flooded"} IN
  /\ Middle \in left
  /\ \A s \in left \ {Middle} :
       Adjacent(s, Middle) \/ \E e \in left : Adjacent(s, e) /\ Adjacent(e, Middle)

\* "Nobody dies at once" (Flood.h:7): the water kills exactly Escape ticks after one
\* got wet, and who was out of it in between has the whole time again.
EscapeTime ==
  \A p \in alive : floodTicks[p] = IF wetFor[p] = 0 THEN 0 ELSE Escape + 1 - wetFor[p]

\* A round comes to its end even if nobody ever meets anybody: when no dry tile is left
\* nobody has more than Escape ticks (Flood.h:55, "without this the round would not end").
LastFill == Fill[CHOOSE s \in Stage : \A q \in Stage : Fill[q] <= Fill[s]]
LastDry == LastFill + RingStep * (((IF SectorW < SectorH THEN SectorW ELSE SectorH) + 1) \div 2)
RoundEnds == phase = "PLAYING" => tick < LastDry + Escape
=============================================================================
