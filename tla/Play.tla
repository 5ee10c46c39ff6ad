-------------------------------- MODULE Play --------------------------------
(***************************************************************************)
(* One player at the keyboard: the keys held (web/game.js), the moves sent,  *)
(* the server that moves the body (module Movement), the snapshots that come *)
(* back, and the prediction that moves the picture meanwhile (module         *)
(* Predict).                                                                *)
(*                                                                         *)
(* A direction is sent only when it changes (pushInput), so that the server  *)
(* and the page must remember the same one; and the two copies of the rules  *)
(* of movement must give the same answer.                                   *)
(***************************************************************************)
EXTENDS Integers, Sequences

CONSTANTS Tile, Half, MapW, MapH, MoveBase, MoveStep, TrapSpeed, MaxLevel,
          Walls,                  \* the tiles nobody can pass
          Spawn,                  \* the tile the player starts on
          Spots,                  \* bound: the tiles a bubble is put on
          Left, Right, Up, Down,  \* the keys of a direction: arrow, letter, touch
          Touch,                  \* those that are buttons on the screen
          UpMax, DownMax,         \* bounds: packets on the way up, and down
          LeadMax                 \* bound: predicted ticks between two server ticks

S == INSTANCE Movement
P == INSTANCE Predict

\* A body is narrower than a tile, no speed is a tile a tick (GameConstants.h), and the board
\* has walls all around (GameMap.h, Generate).
ASSUME PlayAssumption == /\ {Tile, Half, MapW, MapH, MoveBase, MoveStep, TrapSpeed, MaxLevel} \subseteq Nat
                         /\ 0 < Half /\ 2 * Half < Tile
                         /\ MoveBase + MaxLevel * MoveStep < Tile /\ TrapSpeed < Tile
                         /\ \A x \in 0 .. MapW - 1, y \in 0 .. MapH - 1 :
                              x \in {0, MapW - 1} \/ y \in {0, MapH - 1} => <<x, y>> \in Walls
                         /\ Spawn \in ((0 .. MapW - 1) \X (0 .. MapH - 1)) \ Walls
                         /\ Spots \cap Walls = {}
                         /\ Touch \subseteq Left \cup Right \cup Up \cup Down

Key == Left \cup Right \cup Up \cup Down
Rest == [x |-> 0, y |-> 0]
Dirs == [x : -1 .. 1, y : -1 .. 1]
Centre(t) == [x |-> t[1] * Tile + Tile \div 2, y |-> t[2] * Tile + Tile \div 2]

VARIABLES
    body, dir, trapped,  \* the server's Player: place, dir_x and dir_y, trap_ticks > 0
    playing,             \* ROUND_PLAYING on the server
    bubble,              \* the tiles the server keeps as TILE_BUBBLE
    open,                \* the WebSocket, and the seat that goes with it
    up, down,            \* packets on the way
    held, sent,          \* the keys held; sentX, sentY
    pred,                \* the prediction
    me, phase,           \* what the last snapshot said of the player, and of the round
    missed,              \* history: the server has dropped the direction sent last
    lead                 \* history: ticks predicted since the server's last

server == <<body, dir, trapped, playing, bubble>>
page == <<pred, me, phase, lead>>
playVars == <<server, open, up, down, held, sent, page, missed>>

Unknown == [known |-> FALSE, trapped |-> FALSE]
Welcome == [type |-> "welcome"]

InitPlay ==
    /\ body = Centre(Spawn) /\ dir = Rest /\ trapped = FALSE
    /\ playing = FALSE /\ bubble = {}
    /\ open = FALSE /\ up = <<>> /\ down = <<>>
    /\ held = {} /\ sent = Rest
    /\ pred = P!Setup /\ me = Unknown /\ phase = FALSE
    /\ missed = FALSE /\ lead = 0

(***************************************************************************)
(* The keyboard.                                                            *)
(***************************************************************************)
Sign(minus, plus, h) == (IF h \cap plus # {} THEN 1 ELSE 0) - (IF h \cap minus # {} THEN 1 ELSE 0)
InputDir(h) == [x |-> Sign(Left, Right, h), y |-> Sign(Up, Down, h)]

\* A mutant of PushInput: only a new horizontal direction is told.
PushInputX(h) ==
    /\ held' = h
    /\ IF InputDir(h).x = sent.x
       THEN UNCHANGED <<sent, up, missed>>
       ELSE /\ Len(up) < UpMax
            /\ sent' = InputDir(h)
            /\ up' = IF open THEN Append(up, sent') ELSE up
            /\ missed' = ~open

\* pushInput: the direction is sent when it is not the one sent last; while
\* the socket is closed sendMove drops it, and it is remembered as sent.
PushInput(h) ==
    /\ held' = h
    /\ IF InputDir(h) = sent
       THEN UNCHANGED <<sent, up, missed>>
       ELSE /\ Len(up) < UpMax
            /\ sent' = InputDir(h)
            /\ up' = IF open THEN Append(up, sent') ELSE up
            /\ missed' = ~open

KeyDown(k) ==
    /\ k \notin held \cup Touch
    /\ PushInput(held \cup {k}) /\ UNCHANGED <<server, open, down, page>>

\* Whoever sees no player of his own is watching, and the buttons left and right turn
\* his eyes to somebody else: they are not held then.
watching == ~me.known
TouchDown(k) ==
    /\ k \in Touch \ held /\ ~(watching /\ k \in Left \cup Right)
    /\ PushInput(held \cup {k}) /\ UNCHANGED <<server, open, down, page>>

\* A key comes up, or the finger leaves its button: pointerup, pointercancel and
\* lostpointercapture do the same.
KeyUp(k) == k \in held /\ PushInput(held \ {k}) /\ UNCHANGED <<server, open, down, page>>
\* The window loses the focus: no key-up will come.
Blur == held # {} /\ PushInput({}) /\ UNCHANGED <<server, open, down, page>>

(***************************************************************************)
(* The server.                                                              *)
(***************************************************************************)
\* AddPlayer: the player is seated, and stands still.
Seated ==
    /\ body' = Centre(Spawn) /\ dir' = Rest /\ trapped' = FALSE
    /\ playing' = FALSE /\ bubble' = {}

Connect ==
    /\ ~open
    /\ open' = TRUE
    /\ Seated
    /\ down' = <<Welcome>> /\ up' = <<>>
    /\ missed' = (sent # Rest)
    /\ UNCHANGED <<held, sent, page>>

\* onclose; another connection is tried two seconds later.
Close ==
    /\ open
    /\ open' = FALSE /\ up' = <<>> /\ down' = <<>>
    /\ UNCHANGED <<server, held, sent, page, missed>>

\* RestartGame: everybody is seated anew and the board dealt again.
NewRound ==
    /\ open /\ Len(down) < DownMax
    /\ Seated
    /\ down' = Append(down, Welcome)
    /\ missed' = (missed \/ (up = <<>> /\ sent # Rest))
    /\ UNCHANGED <<open, up, held, sent, page>>

StartPlay == open /\ ~playing /\ playing' = TRUE
             /\ UNCHANGED <<body, dir, trapped, bubble, open, up, down, held, sent, page, missed>>

\* SetInput: the last move received before the tick counts.
SetInput == IF up = <<>> THEN dir ELSE up[Len(up)]

Moved == IF playing
         THEN S!MovePlayer(Walls \cup bubble, body, SetInput, 0, trapped)
         ELSE body

\* A tick: the moves are handled, the body is moved, a blast may trap it, or it
\* comes free; then everybody is sent a snapshot.
ServerTick ==
    /\ open /\ Len(down) < DownMax
    /\ \E caught \in IF playing THEN BOOLEAN ELSE {trapped} :
          /\ trapped' = caught
          /\ body' = Moved
          /\ dir' = IF caught /\ ~trapped THEN Rest ELSE SetInput
          /\ missed' = (missed \/ (caught /\ ~trapped /\ sent # Rest))
          /\ down' = Append(down, [type |-> "snapshot", at |-> body', trapped |-> caught, playing |-> playing])
    /\ up' = <<>> /\ lead' = 0
    /\ UNCHANGED <<playing, bubble, open, held, sent, pred, me, phase>>

\* Somebody's bubble comes to lie on a free tile, under this body too, or bursts.
PlaceBubble ==
    /\ playing
    /\ \E t \in Spots : bubble' = IF bubble = {} THEN {t} ELSE {}
    /\ UNCHANGED <<body, dir, trapped, playing, open, up, down, held, sent, page, missed>>

(***************************************************************************)
(* The page.                                                                *)
(***************************************************************************)
OnWelcome ==
    /\ down # <<>> /\ down[1] = Welcome
    /\ pred' = P!Setup /\ me' = Unknown
    /\ down' = Tail(down)
    /\ UNCHANGED <<server, open, up, held, sent, phase, missed, lead>>

OnSnapshot ==
    /\ down # <<>> /\ down[1].type = "snapshot"
    /\ LET s == down[1]
       IN  /\ me' = [known |-> TRUE, trapped |-> s.trapped]
           /\ phase' = s.playing
           /\ pred' = IF s.playing THEN P!reconcile(pred, s.at.x, s.at.y) ELSE P!stop(pred)
    /\ down' = Tail(down)
    /\ UNCHANGED <<server, open, up, held, sent, missed, lead>>

\* stepPrediction: the page moves as the server would with the keys held now.
StepPrediction ==
    IF me.known /\ phase
    THEN P!tick(pred, Walls, InputDir(held).x, InputDir(held).y, 0, me.trapped)
    ELSE P!stop(pred)

\* frame: the ticks that are due are predicted, then there is a picture.
PredictFrame ==
    /\ lead < LeadMax
    /\ lead' = lead + 1
    /\ pred' = P!viewed(StepPrediction)
    /\ UNCHANGED <<server, open, up, down, held, sent, me, phase, missed>>

PictureFrame ==
    /\ pred' = P!viewed(pred)
    /\ UNCHANGED <<server, open, up, down, held, sent, me, phase, missed, lead>>

PlayNext ==
    \/ \E k \in Key : KeyDown(k) \/ TouchDown(k) \/ KeyUp(k)
    \/ Blur
    \/ Connect \/ Close \/ NewRound \/ StartPlay \/ ServerTick \/ PlaceBubble
    \/ OnWelcome \/ OnSnapshot \/ PredictFrame \/ PictureFrame

PlaySpec == InitPlay /\ [][PlayNext]_playVars

\* While the socket is open snapshots keep coming (the server's clock), what has been
\* received is handled, and the browser keeps drawing.
Fairness == /\ []<>(open => down # <<>>)
            /\ WF_playVars(OnWelcome) /\ WF_playVars(OnSnapshot) /\ WF_playVars(PictureFrame)

FairSpec == PlaySpec /\ Fairness

(***************************************************************************)
(* Properties.                                                              *)
(***************************************************************************)
Predicted(p) == [x |-> p.px, y |-> p.py]
There == [P!Setup EXCEPT !.live = TRUE, !.px = body.x, !.py = body.y]

\* The two copies of the rules agree: wherever the body gets to, on every board that
\* comes up and with whatever is pressed, the page's tick takes it where the server's
\* MovePlayer does (predict.js:20, "who changes this must change that too").
SameStep ==
    \A level \in 0 .. MaxLevel :
       Predicted(P!tick(There, Walls \cup bubble, dir.x, dir.y, level, trapped))
       = S!MovePlayer(Walls \cup bubble, body, dir, level, trapped)

\* No part of the body is ever inside a wall, whatever bubbles push it about
\* and however it turns (Movement.h:185, "half of him stuck in the wall").
OutOfWalls == S!Touched(body) \cap Walls = {}

\* The server goes where the keys say: once the link is quiet its direction is
\* that of the keys held now, unless it has dropped the one sent last (a new
\* seat, a trap, a closed socket), since a key still held is not sent again.
KeysObeyed == open /\ up = <<>> /\ ~missed => dir = InputDir(held)

\* With the hands off the keys, the picture comes to rest where the server has
\* the body, and nothing of an error is left in it.
Settles ==
    <>[](open /\ playing /\ held = {})
       => <>[](pred.live /\ Predicted(pred) = body /\ pred.errX = 0 /\ pred.errY = 0)
=============================================================================
