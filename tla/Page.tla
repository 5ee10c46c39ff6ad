--------------------------------- MODULE Page ---------------------------------
(***************************************************************************)
(* What a page makes of a round that ends in the water (web/game.js,         *)
(* web/net.js): the water and the warnings it draws, whom it watches when its *)
(* own player is dead, what it writes on the screen, and the table it shows   *)
(* in the end.                                                                *)
(*                                                                         *)
(* The page handles the messages one by one; here it has done so, and has    *)
(* drawn a frame, when the next tick is played.  One that has lost its       *)
(* connection is back by then; one that was never there may come at any       *)
(* time.  Its player has a seat.  Of the screen only what it says is kept:    *)
(* layout, wording, animation, and what is in other modules (the board, the   *)
(* bodies, the sounds) are left out.                                          *)
(***************************************************************************)
EXTENDS Flood

CONSTANT Me        \* G.myId

ASSUME PageAssumption == Me \in Player

VARIABLES
  G,               \* what the last snapshot said
  floodAt,         \* the sectors whose time of flooding the page knows
  drownFrom,       \* of its own player: the tick he got wet in (-1: he is not)
  roster,          \* who took part
  died, kills,     \* roundStats: diedTick (-1: not yet) and kills
  spec,            \* specAt and specId: whom a dead player watches
  foam,            \* the water foamSegs was made for (its foamKey says which)
  drawn,           \* a frame shows what has been received
  told, watched    \* history: a snapshot has come since the welcome; the page has
                   \* seen the round from its countdown on

statVars == <<roster, died, kills>>
seenVars == <<told, watched>>
pageVars == <<G, floodAt, drownFrom, statVars, spec, foam, drawn, seenVars>>
vars == <<serverVars, linkVars, pageVars>>

NoG == [phase |-> "WAITING", tick |-> 0, known |-> FALSE, alive |-> {},
        sectors |-> Dry, ring |-> Off]
NoFoam == [sectors |-> [s \in Sector |-> "unknown"], ring |-> Off]
NotYet == [p \in Player |-> -1]

Init ==
  /\ ServerInit
  /\ G = NoG /\ floodAt = {} /\ drownFrom = -1
  /\ roster = {} /\ died = NotYet /\ kills = Nothing
  /\ spec = [at |-> 0, id |-> -1]
  /\ foam = NoFoam /\ drawn = FALSE
  /\ told = FALSE /\ watched = FALSE

-----------------------------------------------------------------------------
(* The messages.                                                            *)

\* onWelcome and Hooks.welcome: players, water and warnings are gone; resize()
\* forgets the foam.
OnWelcome ==
  /\ G' = [G EXCEPT !.known = FALSE, !.sectors = Dry, !.ring.on = FALSE]
  /\ floodAt' = {} /\ drownFrom' = -1
  /\ foam' = NoFoam /\ drawn' = FALSE
  /\ told' = FALSE
  /\ UNCHANGED <<statVars, spec, watched>>

\* onSnapshot: phase, water and who is alive; the page's own player is among the
\* players it lists.
Told(s) == [phase |-> s.phase, tick |-> s.tick, known |-> TRUE, alive |-> s.alive,
            sectors |-> s.sectors, ring |-> s.ring]

\* The tick is noted in which the flag is seen first; the page counts on by itself.
Drowning(wet) == IF Me \notin wet THEN -1 ELSE IF drownFrom = -1 THEN G'.tick ELSE drownFrom

\* Hooks.snapshot: the clock of who is drowning; noteRoster, and then, when the countdown
\* begins, resetStats; finishStats when the round is over.
OnSnapshot(s) ==
  LET counts == G.phase # "COUNTDOWN" /\ s.phase = "COUNTDOWN"
      listed == roster \cup s.alive
  IN  /\ G' = Told(s)
      /\ drownFrom' = Drowning(s.wet)
      /\ roster' = IF counts THEN {}
                   ELSE IF G.phase # "OVER" /\ s.phase = "OVER"
                   THEN listed \cup {p \in Player : died[p] # -1 \/ kills[p] > 0}
                   ELSE listed
      /\ died' = IF counts THEN NotYet ELSE died
      /\ kills' = IF counts THEN Nothing ELSE kills
      /\ told' = TRUE /\ watched' = (watched \/ counts)
      /\ drawn' = FALSE
      /\ UNCHANGED <<floodAt, spec, foam>>

\* A mutant of MarkDead: only deaths of a running round count.
MarkDeadPlaying(p) ==
  IF died[p] # -1 \/ G.phase # "PLAYING" THEN died ELSE [died EXCEPT ![p] = G.tick]

MarkDead(p) == IF died[p] # -1 THEN died ELSE [died EXCEPT ![p] = G.tick]

OnDeath(p) ==
  /\ died' = MarkDead(p)
  /\ UNCHANGED <<G, floodAt, drownFrom, roster, kills, spec, foam, drawn, seenVars>>

OnPop(p, by) ==
  /\ died' = MarkDead(p)
  /\ kills' = [kills EXCEPT ![by] = @ + 1]
  /\ UNCHANGED <<G, floodAt, drownFrom, roster, spec, foam, drawn, seenVars>>

\* FLOOD_WARN starts the clock of a sector, FLOOD stops it.
OnFlood(known) ==
  /\ floodAt' = known
  /\ UNCHANGED <<G, drownFrom, statVars, spec, foam, drawn, seenVars>>

Receive ==
  /\ link # <<>>
  /\ LET m == Head(link) IN
       \/ m.type = "WELCOME" /\ OnWelcome
       \/ m.type = "SNAPSHOT" /\ OnSnapshot(m)
       \/ m.type = "DEATH" /\ OnDeath(m.who)
       \/ m.type = "POP" /\ OnPop(m.who, m.by)
       \/ m.type = "FLOOD_WARN" /\ OnFlood(floodAt \cup m.of)
       \/ m.type = "FLOOD" /\ OnFlood(floodAt \ m.of)
  /\ link' = Tail(link)
  /\ UNCHANGED <<serverVars, open>>

-----------------------------------------------------------------------------
(* Watching.                                                                *)

\* A page whose player is dead, or not heard of yet, watches.
Watching == ~G.known \/ Me \notin G.alive

\* aliveList: the dead are sent all players, so that all who live are on it.
AliveList == IF G.known THEN G.alive ELSE {}
Rank(p) == Cardinality({q \in AliveList : q < p})
Nth(k) == CHOOSE p \in AliveList : Rank(p) = k

\* An arrow key, or its button: the next of the list, round and round.
SpecShift ==
  /\ Watching /\ AliveList # {}
  /\ \E step \in {-1, 1} :
       LET n == Cardinality(AliveList)
           k == (spec.at + step + n) % n
       IN  spec' = [at |-> k, id |-> Nth(k)]
  /\ UNCHANGED <<serverVars, linkVars, G, floodAt, drownFrom, statVars, foam, drawn, seenVars>>

\* updateCamera: when who is watched is gone, whoever has come to his place.
Followed ==
  IF ~Watching \/ AliveList = {} THEN spec
  ELSE IF spec.id \in AliveList THEN [spec EXCEPT !.at = Rank(spec.id)]
  ELSE LET last == Cardinality(AliveList) - 1
           k == IF spec.at < last THEN spec.at ELSE last
       IN  [at |-> k, id |-> Nth(k)]

-----------------------------------------------------------------------------
(* The picture.                                                             *)

\* rebuildFoam: the lines of foam are made anew when the key has changed.
FoamKey(f) == <<f.sectors, IF f.ring.on THEN f.ring ELSE Off>>
Foam == IF FoamKey(foam) = FoamKey(G) THEN foam ELSE [sectors |-> G.sectors, ring |-> G.ring]
Foamed == {c \in Tile : IsUnderWater(c, foam.sectors, foam.ring)}

\* A rectangle of the canvas; one of negative height or width lies on the other side.
Rect(x, y, w, h) ==
  {c \in Tile : /\ IF w >= 0 THEN c[1] \in x .. x + w - 1 ELSE c[1] \in x + w .. x - 1
                /\ IF h >= 0 THEN c[2] \in y .. y + h - 1 ELSE c[2] \in y + h .. y - 1}

\* A mutant of RingWater: the size of the screen, which shows one sector, is taken for
\* that of the map (as it once was).
RingWaterScreen(r) ==
  LET x1 == r.x1 + 1
      y1 == r.y1 + 1
  IN  IF r.x0 > r.x1 \/ r.y0 > r.y1 THEN Tile
      ELSE Rect(0, 0, SectorW, r.y0) \cup Rect(0, y1, SectorW, SectorH - y1)
             \cup Rect(0, r.y0, r.x0, y1 - r.y0)
             \cup Rect(x1, r.y0, SectorW - x1, y1 - r.y0)

\* drawWorld: the four pieces around the dry rectangle, or the whole map.
RingWater(r) ==
  LET x1 == r.x1 + 1
      y1 == r.y1 + 1
      W == 3 * SectorW
      H == 3 * SectorH
  IN  IF r.x0 > r.x1 \/ r.y0 > r.y1 THEN Tile
      ELSE Rect(0, 0, W, r.y0) \cup Rect(0, y1, W, H - y1)
             \cup Rect(0, r.y0, r.x0, y1 - r.y0) \cup Rect(x1, r.y0, W - x1, y1 - r.y0)

Water == UNION ({Rect((s % 3) * SectorW, (s \div 3) * SectorH, SectorW, SectorH) :
                   s \in {q \in Sector : G.sectors[q] = "flooded"}}
                \cup IF G.ring.on THEN {RingWater(G.ring)} ELSE {})

\* The warned sectors, whose rim pulses; those that do so by the clock, faster and
\* faster (the others, whose time is not known, at a middle speed).
Pulsing == {s \in Sector : G.sectors[s] = "warning"}
Hurrying == Pulsing \cap floodAt

\* A living player in such a sector hears its beat (tickWarnSound) and has the seconds
\* that are left above his head, if he is not in the water anyway (drawPlayer).
Beeps(s) == s \in Hurrying /\ G.known /\ Me \in G.alive
Counts(s) == Beeps(s) /\ drownFrom = -1

\* drownLeft: the time one has left in the water is not sent; the page counts it.
DrownLeft == IF drownFrom = -1 THEN 0
             ELSE IF Escape < G.tick - drownFrom THEN 0 ELSE Escape - (G.tick - drownFrom)

\* frame: the foam, the camera, and the water over everything.
Frame ==
  /\ ~drawn
  /\ foam' = Foam
  /\ spec' = Followed
  /\ drawn' = TRUE
  /\ UNCHANGED <<serverVars, linkVars, G, floodAt, drownFrom, statVars, seenVars>>

-----------------------------------------------------------------------------
(* What the screen says (drawHUD, drawResults).                              *)

\* drawHUD asks for the entry of its own player in every frame, and so makes one.
Entries == {p \in Player : died[p] # -1 \/ kills[p] > 0} \cup {Me}
Listed == roster \cup Entries

\* The slots of the upper band: alive, dead, or never heard of.
Slot(p) == IF p \in G.alive THEN "alive" ELSE IF p \in Entries THEN "dead" ELSE "unknown"

\* Whose items are shown, and whose dot on the small map has a ring.
Focus == IF Watching THEN spec.id ELSE Me

\* The small map: its sectors, and the players that have a dot on it.
MapSector(s) == G.sectors[s]
Dots == AliveList

\* The panel over the board, and the notice of a lost connection over that.
Overlay ==
  CASE G.phase = "COUNTDOWN" -> "count"
    [] G.phase = "WAITING"   -> "wait"
    [] G.phase = "OVER"      -> "results"
    [] OTHER                 -> IF Watching THEN "watch" ELSE "none"
Notice == ~open

\* statRows: the places, counted anew whenever the table is drawn.
Place(p) ==
  IF died[p] = -1 THEN 1
  ELSE Cardinality(Listed)
       - Cardinality({q \in Listed : /\ died[q] # -1
                                     /\ \/ died[q] < died[p]
                                        \/ died[q] = died[p] /\ q < p})

\* A row of the table, and what drawResults writes above it.
Row(p) == [place |-> Place(p), kills |-> kills[p], alive |-> p \in G.alive,
           ticks |-> IF died[p] = -1 THEN G.tick ELSE died[p]]
Headline == IF Place(Me) = 1 THEN "won" ELSE "placed"

-----------------------------------------------------------------------------

\* A tick, when the page has done with the one before.
Tick ==
  /\ IF open THEN link = <<>> /\ drawn ELSE G = NoG
  /\ ServerTick
  /\ UNCHANGED pageVars

Arrive == Connect /\ UNCHANGED pageVars

\* onclose: the page keeps what it has.  Bound: the countdown is one snapshot here,
\* and ninety there: it is not lost as a whole.
Leave ==
  /\ phase = "COUNTDOWN" => link = <<>>
  /\ Close
  /\ told' = FALSE /\ watched' = FALSE
  /\ UNCHANGED <<G, floodAt, drownFrom, statVars, spec, foam, drawn>>

Next == Tick \/ Arrive \/ Leave \/ Receive \/ SpecShift \/ Frame

Spec == Init /\ [][Next]_vars

-----------------------------------------------------------------------------
(* Properties                                                              *)

UpToDate == told /\ open /\ link = <<>>

\* The water one sees is the water that drowns: with everything received, the tiles
\* painted as water, and those the foam goes around, are those of IsUnderWater, also
\* when the ring has nothing left inside (drawWorld, rebuildFoam, Flood.h:41).
WaterSame ==
  UpToDate /\ drawn =>
    LET wet == {c \in Tile : IsUnderWater(c, sector, ring)}
    IN  Water = wet /\ Foamed = wet /\ \A s \in Sector : MapSector(s) = sector[s]

\* No clock runs for a sector that is not about to be flooded, although it comes with
\* one event and goes with another; and who has seen the round from its countdown on
\* is warned by it wherever he stands (game.js:657, Flood.h:137).
ClocksRight ==
  UpToDate =>
    /\ floodAt \subseteq Pulsing
    /\ watched /\ Me \in alive =>
         \A s \in Sector : Beeps(s) <=> sector[s] = "warning"

\* "The server counts with the same ticks, so that the value is the same" (game.js:1350):
\* the bar over one's head shows what the server has left for him, and no other number
\* is over it.
GaugeTrue ==
  UpToDate /\ watched /\ Me \in alive =>
    /\ DrownLeft = floodTicks[Me]
    /\ floodTicks[Me] > 0 => ~\E s \in Sector : Counts(s)

\* A dead player never looks at an empty board while somebody plays: who is watched is
\* alive and on the small map, and his items, too, are those that are shown
\* (game.js:433-446).
WatchesAlive ==
  UpToDate /\ drawn /\ Watching /\ alive # {} => Focus \in Dots /\ Dots = alive

\* The screen is true: the water, the warnings, the time that is left and whom one watches.
ScreenTrue == WaterSame /\ ClocksRight /\ GaugeTrue /\ WatchesAlive

Seen == watched /\ open /\ link = <<>>

\* The table of a round one has seen from its countdown on: all who played are in it,
\* the survivor is first, and who died later is before who died earlier, although the
\* last deaths come after the snapshot that ends the round (game.js:187-196).
PlacesRight ==
  Seen /\ phase = "OVER" =>
    /\ Listed = Player
    /\ {Place(p) : p \in Player} = 1 .. Cardinality(Player)
    /\ \A p, q \in Player : p \notin alive /\ (q \in alive \/ fell[p] < fell[q]) => Place(p) > Place(q)

\* Nobody's kill is lost or counted twice, and who has died has died in the tick he did.
RowsRight ==
  Seen => \A p \in Player : /\ kills[p] = popped[p]
                            /\ p \notin alive => Row(p).ticks = fell[p]

\* Who reads that he has won is the one who is left (in a draw somebody dead reads it).
HeadlineRight ==
  Seen /\ Overlay = "results" /\ alive # {} => (Headline = "won" <=> Me \in alive)

\* The table is true: its places, its rows and what is written above it.
TableTrue == PlacesRight /\ RowsRight /\ HeadlineRight
=============================================================================
