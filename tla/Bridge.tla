------------------------------- MODULE Bridge -------------------------------
(***************************************************************************)
(* The web bridge (web/bridge.js) and the lobby pages that use it          *)
(* (web/lobby.js).  A page asks the bridge for a room; the bridge spawns a  *)
(* game server of its own for it, answers when that server listens, relays  *)
(* the page's WebSocket to it, and stops it when nobody has used it for a   *)
(* while or when the bridge itself is told to stop.                         *)
(*                                                                         *)
(* The bridge is one thread: every callback is one action.  What happens    *)
(* between callbacks is the hard part: a request is read after it has been  *)
(* let in, a process dies before its exit is reported, both ends of a relay *)
(* close, and the last request may come in while the bridge shuts down.     *)
(*                                                                         *)
(* A room is named by the request that made it: room codes are drawn at     *)
(* random from 32^6 and never repeat here.                                  *)
(***************************************************************************)
EXTENDS Naturals, Sequences, FiniteSets

CONSTANTS ReqCount,   \* requests to make a room; each makes at most one
          Page,       \* lobby pages
          ConnCount,  \* WebSockets at one time
          RoomMax,    \* ROOM_MAX
          PortCount,  \* room ports are 0 .. PortCount-1 (9100 .. 9199)
          Main,       \* the public room: the server on GAME_PORT
          Lobby       \* where a page is before it enters a room

ASSUME BridgeAssumption == /\ RoomMax \in Nat \ {0}
                           /\ PortCount \in Nat \ {0}
                           /\ ReqCount \in Nat /\ ConnCount \in Nat
                           /\ {Main, Lobby} \cap (1 .. ReqCount) = {}

VARIABLES
    mode,      \* "up", "closing" (server.close called) or "exited"
    rooms,     \* the map of rooms
    pc,        \* request: "none", "sent", "reading", "waiting", "done"
    sent,      \* request: the statuses answered, in order; any refusal is 503
    proc,      \* room's process: "none", "up", "listening", "failed",
               \* "dead" and "fallen" (had listened) until its exit is reported, "reaped"
    killed,    \* room.stopped: it is out of the map and its process has been told to die
    stale,     \* now - room.lastUsed > ROOM_IDLE_MS
    clients,   \* room.clients
    port,      \* room.port
    nextRoomPort,
    started,   \* page: the room it has entered, or Lobby
    busy,      \* page: the room buttons are disabled
    asks,      \* pending fetches: <<page, room, kind, answer>>
    conn       \* WebSocket: page, room, alive, and the close events still to come

bridgeVars == <<mode, rooms, pc, sent, proc, killed, stale, clients, port, nextRoomPort>>
vars == <<bridgeVars, started, busy, asks, conn>>

Req == 1 .. ReqCount                    \* in the order in which they are made
Conn == 1 .. ConnCount                  \* the first free one is used
Ports == 0 .. PortCount - 1
NoConn == [page |-> "none", room |-> Main, alive |-> FALSE, toClose |-> {}]

Init ==
    /\ mode = "up" /\ rooms = {}
    /\ pc = [q \in Req |-> "none"]
    /\ sent = [q \in Req |-> <<>>]
    /\ proc = [q \in Req |-> "none"]
    /\ killed = [q \in Req |-> FALSE]
    /\ stale = [q \in Req |-> FALSE]
    /\ clients = [q \in Req |-> 0]
    /\ port = [q \in Req |-> 0]
    /\ nextRoomPort = 0
    /\ started = [p \in Page |-> Lobby]
    /\ busy = [p \in Page |-> FALSE]
    /\ asks = {}
    /\ conn = [c \in Conn |-> NoConn]

-----------------------------------------------------------------------------
(* Rooms                                                                    *)

Running(q) == proc[q] \in {"up", "listening"}

\* stopRoom, for all rooms of Q at once: out of the map, and kill().
StopRooms(Q) ==
    LET S == {q \in Q : ~killed[q]} IN
    /\ rooms' = rooms \ S
    /\ killed' = [q \in Req |-> killed[q] \/ q \in S]

\* takeRoomPort: from nextRoomPort on, the first that no room of the map has.
FreePorts == {n \in Ports : \A q \in rooms : port[q] # n}
Distance(n) == (n - nextRoomPort + PortCount) % PortCount
TakenPort == CHOOSE n \in FreePorts : \A m \in FreePorts : Distance(n) <= Distance(m)

\* answer: only the first one goes out.
Answer(q, s) ==
    IF pc[q] = "waiting"
    THEN /\ pc' = [pc EXCEPT ![q] = "done"]
         /\ sent' = [sent EXCEPT ![q] = Append(@, s)]
    ELSE UNCHANGED <<pc, sent>>

Refuse(q) == /\ pc' = [pc EXCEPT ![q] = "done"]
             /\ sent' = [sent EXCEPT ![q] = Append(@, 503)]

\* createRoom up to readJson: the limit is looked at before the body is read.
CreateRoom(q) ==
    /\ mode = "up" /\ pc[q] = "sent"
    /\ \/ Cardinality(rooms) >= RoomMax /\ Refuse(q)
       \/ Cardinality(rooms) < RoomMax /\ pc' = [pc EXCEPT ![q] = "reading"] /\ UNCHANGED sent
       \/ Refuse(q)                           \* no executable
    /\ UNCHANGED <<mode, rooms, proc, killed, stale, clients, port, nextRoomPort,
                   started, busy, asks, conn>>

\* The body has come: refused (bad JSON, a size or a number of bots out of range), or
\* too long and cut off without an answer, or a room is made and its process started.
ReadBody(q) ==
    /\ mode # "exited" /\ pc[q] = "reading"
    /\ \/ /\ \/ Refuse(q)
             \/ FreePorts = {} /\ Refuse(q)
             \/ pc' = [pc EXCEPT ![q] = "done"] /\ UNCHANGED sent       \* req.destroy()
          /\ UNCHANGED <<rooms, proc, port, nextRoomPort>>
       \/ /\ FreePorts # {}
          /\ port' = [port EXCEPT ![q] = TakenPort]
          /\ nextRoomPort' = (TakenPort + 1) % PortCount
          /\ \E s \in {"up", "failed"} : proc' = [proc EXCEPT ![q] = s]
          /\ rooms' = rooms \cup {q}
          /\ pc' = [pc EXCEPT ![q] = "waiting"]
          /\ UNCHANGED sent
    /\ UNCHANGED <<mode, killed, stale, clients, started, busy, asks, conn>>

\* The room's server has printed its "listening" line, in however many pieces;
\* any later output finds it again.
RoomReady(q) ==
    /\ mode # "exited" /\ proc[q] \in {"listening", "fallen"}
    /\ Answer(q, 201)
    /\ UNCHANGED <<mode, rooms, proc, killed, stale, clients, port, nextRoomPort,
                   started, busy, asks, conn>>

\* The ten seconds are over; the timer is cleared by an answer.
RoomTimeout(q) ==
    /\ mode # "exited" /\ pc[q] = "waiting"
    /\ StopRooms({q})
    /\ Answer(q, 503)
    /\ UNCHANGED <<mode, proc, stale, clients, port, nextRoomPort, started, busy, asks, conn>>

\* The process could not be started.
RoomError(q) ==
    /\ mode # "exited" /\ proc[q] = "failed"
    /\ proc' = [proc EXCEPT ![q] = "reaped"]
    /\ StopRooms({q})
    /\ Answer(q, 503)
    /\ UNCHANGED <<mode, stale, clients, port, nextRoomPort, started, busy, asks, conn>>

\* The exit of the process is reported.  Nothing else is undone here.
RoomExit(q) ==
    /\ mode # "exited" /\ proc[q] \in {"dead", "fallen"}
    /\ proc' = [proc EXCEPT ![q] = "reaped"]
    /\ rooms' = rooms \ {q}
    /\ Answer(q, 503)
    /\ UNCHANGED <<mode, killed, stale, clients, port, nextRoomPort,
                   started, busy, asks, conn>>

\* Every 30 seconds: rooms without clients that were last used ten minutes ago.
Sweep ==
    /\ mode # "exited"
    /\ \E q \in rooms : clients[q] = 0 /\ stale[q]
    /\ StopRooms({q \in rooms : clients[q] = 0 /\ stale[q]})
    /\ UNCHANGED <<mode, pc, sent, proc, stale, clients, port, nextRoomPort,
                   started, busy, asks, conn>>

\* POST /api/shutdown, SIGINT or SIGTERM: rooms are stopped, nothing new is accepted.
Shutdown ==
    /\ mode = "up"
    /\ mode' = "closing"
    /\ StopRooms(rooms)
    /\ UNCHANGED <<pc, sent, proc, stale, clients, port, nextRoomPort, started, busy, asks, conn>>

\* A mutant of Exit: without the exit handler.
ExitKeeps ==
    /\ mode = "closing"
    /\ \A q \in Req : pc[q] \notin {"reading", "waiting"}
    /\ \A c \in Conn : ~conn[c].alive
    /\ mode' = "exited"
    /\ UNCHANGED <<rooms, killed, pc, sent, proc, stale, clients, port, nextRoomPort,
                   started, busy, asks, conn>>

\* server.close calls back when no connection is left; the exit handler stops the
\* rooms that came up in the meantime.
Exit ==
    /\ mode = "closing"
    /\ \A q \in Req : pc[q] \notin {"reading", "waiting"}
    /\ \A c \in Conn : ~conn[c].alive
    /\ mode' = "exited"
    /\ StopRooms(rooms)
    /\ UNCHANGED <<pc, sent, proc, stale, clients, port, nextRoomPort, started, busy, asks, conn>>

-----------------------------------------------------------------------------
(* The game servers of the rooms, and time                                  *)

\* It binds its port, unless another server still has it.
Listen(q) ==
    /\ proc[q] = "up" /\ ~killed[q]
    /\ \A r \in Req \ {q} : proc[r] = "listening" => port[r] # port[q]
    /\ proc' = [proc EXCEPT ![q] = "listening"]
    /\ UNCHANGED <<mode, rooms, pc, sent, killed, stale, clients, port, nextRoomPort,
                   started, busy, asks, conn>>

\* It is killed, or stops by itself (a port in use, a crash).
Die(q) ==
    /\ Running(q)
    /\ proc' = [proc EXCEPT ![q] = IF @ = "up" THEN "dead" ELSE "fallen"]
    /\ UNCHANGED <<mode, rooms, pc, sent, killed, stale, clients, port, nextRoomPort,
                   started, busy, asks, conn>>

\* Ten minutes pass since the room was last used (with clients in it nobody looks).
Age(q) ==
    /\ q \in rooms /\ clients[q] = 0 /\ ~stale[q]
    /\ stale' = [stale EXCEPT ![q] = TRUE]
    /\ UNCHANGED <<mode, rooms, pc, sent, proc, killed, clients, port, nextRoomPort,
                   started, busy, asks, conn>>

-----------------------------------------------------------------------------
(* WebSockets: one browser connection, one connection to a game server       *)

Attached(q) == {c \in Conn : conn[c].alive /\ conn[c].room = q}

\* A mutant of Touch: the room is not counted as used.
TouchUncounted(q, n) ==
    /\ UNCHANGED clients
    /\ IF q = Main THEN UNCHANGED stale ELSE stale' = [stale EXCEPT ![q] = FALSE]

Touch(q, n) == IF q = Main THEN UNCHANGED <<clients, stale>>
               ELSE /\ clients' = [clients EXCEPT ![q] = n]
                    /\ stale' = [stale EXCEPT ![q] = FALSE]

\* upgrade and attach: a code nobody knows is refused; the page tries again later.
Attach(p, c) ==
    LET q == started[p] IN
    /\ mode = "up"
    /\ q # Lobby /\ q \in rooms \cup {Main}
    /\ conn[c].toClose = {} /\ \A d \in 1 .. c - 1 : conn[d].toClose # {}
    /\ \A d \in Conn : conn[d].page = p => "ws" \notin conn[d].toClose
    /\ conn' = [conn EXCEPT ![c] = [page |-> p, room |-> q, alive |-> TRUE,
                                   toClose |-> {"ws", "game"}]]
    /\ Touch(q, IF q = Main THEN 0 ELSE clients[q] + 1)
    /\ UNCHANGED <<mode, rooms, pc, sent, proc, killed, port, nextRoomPort,
                   started, busy, asks>>

\* Mutants of CloseConn: every event counts; and no event does.
CloseConnTwice(c, rest) ==
    /\ conn' = [conn EXCEPT ![c] = IF rest = {} THEN NoConn
                                  ELSE [@ EXCEPT !.alive = FALSE, !.toClose = rest]]
    /\ Touch(conn[c].room,
             IF conn[c].room = Main \/ clients[conn[c].room] = 0
             THEN 0 ELSE clients[conn[c].room] - 1)
CloseConnLeaks(c, rest) ==
    /\ conn' = [conn EXCEPT ![c] = IF rest = {} THEN NoConn
                                  ELSE [@ EXCEPT !.alive = FALSE, !.toClose = rest]]
    /\ UNCHANGED <<clients, stale>>

\* close(): the first one undoes the attachment and destroys both ends, so that the
\* other end closes as well.
CloseConn(c, rest) ==
    /\ conn' = [conn EXCEPT ![c] = IF rest = {} THEN NoConn
                                  ELSE [@ EXCEPT !.alive = FALSE, !.toClose = rest]]
    /\ IF conn[c].alive
       THEN Touch(conn[c].room,
                  IF conn[c].room = Main \/ clients[conn[c].room] = 0
                  THEN 0 ELSE clients[conn[c].room] - 1)
       ELSE UNCHANGED <<clients, stale>>

\* The "close" event of one end: the browser's or the game server's.
EndCloses(c) ==
    /\ mode # "exited"
    /\ \E e \in conn[c].toClose : CloseConn(c, conn[c].toClose \ {e})
    /\ UNCHANGED <<mode, rooms, pc, sent, proc, killed, port, nextRoomPort,
                   started, busy, asks>>

\* A frame that says close, an error, or a packet size that cannot be: close() is
\* called while the "close" events of both ends are still to come.
CloseCalled(c) ==
    /\ mode # "exited" /\ conn[c].alive
    /\ CloseConn(c, conn[c].toClose)
    /\ UNCHANGED <<mode, rooms, pc, sent, proc, killed, port, nextRoomPort,
                   started, busy, asks>>

-----------------------------------------------------------------------------
(* Lobby pages                                                              *)

\* enterGame: the first one counts.
EnterGame(p, q) ==
    started' = [started EXCEPT ![p] = IF @ = Lobby THEN q ELSE @]

\* The public game: no request, no code.
StartGame(p) ==
    /\ started[p] = Lobby /\ ~busy[p]
    /\ EnterGame(p, Main)
    /\ UNCHANGED <<bridgeVars, busy, asks, conn>>

\* The button that makes a room; it is disabled while a request is under way.
ClickCreate(p, q) ==
    /\ started[p] = Lobby /\ ~busy[p] /\ pc[q] = "none"
    /\ \A r \in 1 .. q - 1 : pc[r] # "none"
    /\ busy' = [busy EXCEPT ![p] = TRUE]
    /\ pc' = [pc EXCEPT ![q] = "sent"]
    /\ asks' = asks \cup {<<p, q, "create", "none">>}
    /\ UNCHANGED <<mode, rooms, sent, proc, killed, stale, clients, port, nextRoomPort,
                   started, conn>>

\* Joining by a code one has been told.  The Enter key asks whether or not the
\* buttons are disabled.  Bound: one look-up at a time.
JoinRoom(p, q) ==
    /\ started[p] = Lobby /\ sent[q] = <<201>>
    /\ \A a \in asks : a[3] = "create"
    /\ busy' = [busy EXCEPT ![p] = TRUE]
    /\ asks' = asks \cup {<<p, q, "join", "none">>}
    /\ UNCHANGED <<bridgeVars, started, conn>>

\* GET /api/rooms/<code>.
LookUp(a) ==
    /\ mode = "up" /\ a \in asks /\ a[3] = "join" /\ a[4] = "none"
    /\ asks' = (asks \ {a})
                 \cup {[a EXCEPT ![4] = IF a[2] \in rooms THEN "found" ELSE "missing"]}
    /\ UNCHANGED <<bridgeVars, started, busy, conn>>

Succeeded(a) == IF a[3] = "join" THEN a[4] = "found" ELSE sent[a[2]] = <<201>>
Failed(a) ==
    \/ a[4] = "missing"
    \/ /\ a[3] = "create" /\ pc[a[2]] = "done"
       /\ sent[a[2]] = <<>> \/ (sent[a[2]] # <<>> /\ Head(sent[a[2]]) # 201)
    \/ mode # "up" /\ a[4] = "none" /\ (a[3] = "join" \/ pc[a[2]] = "sent")  \* refused

\* The answer reaches the page.
Answered(a) ==
    LET p == a[1] IN
    /\ a \in asks
    /\ \/ Succeeded(a) /\ EnterGame(p, a[2]) /\ UNCHANGED busy
       \/ Failed(a) /\ busy' = [busy EXCEPT ![p] = FALSE] /\ UNCHANGED started
    /\ asks' = asks \ {a}
    /\ UNCHANGED <<bridgeVars, conn>>

-----------------------------------------------------------------------------
Next ==
    \/ \E q \in Req : \/ CreateRoom(q) \/ ReadBody(q) \/ RoomReady(q) \/ RoomTimeout(q)
                      \/ RoomError(q) \/ RoomExit(q) \/ Listen(q) \/ Die(q) \/ Age(q)
    \/ Sweep \/ Shutdown \/ Exit
    \/ \E p \in Page : \/ StartGame(p)
                       \/ \E q \in Req : ClickCreate(p, q) \/ JoinRoom(p, q)
                       \/ \E c \in Conn : Attach(p, c)
    \/ \E c \in Conn : EndCloses(c) \/ CloseCalled(c)
    \/ \E a \in asks : LookUp(a) \/ Answered(a)

Spec == Init /\ [][Next]_vars

\* The sweep's timer fires, time passes, and a process that has been killed ends.
Fairness ==
    /\ WF_vars(Sweep)
    /\ \A q \in Req : /\ WF_vars(Age(q))
                      /\ WF_vars(killed[q] /\ Die(q))

FairSpec == Spec /\ Fairness

-----------------------------------------------------------------------------
(* Properties                                                               *)

\* What the bridge counts and hands out: the clients of a room are its open relays
\* (whichever end closes first, and however often close is called), two rooms of the
\* map never share a port, and no request is answered twice, in whatever order the
\* ready line, the time-out, the error and the exit come (bridge.js:96-103, 154-186,
\* 306-327).
BridgeInv ==
    /\ mode \in {"up", "closing", "exited"} /\ rooms \subseteq Req
    /\ nextRoomPort \in Ports /\ port \in [Req -> Ports]
    /\ \A q \in Req : clients[q] = Cardinality(Attached(q))
    /\ \A q, r \in rooms : q # r => port[q] # port[r]
    /\ \A q \in Req : Len(sent[q]) <= 1

\* A room's process that runs and has not been told to die can still be found by the
\* sweep and by the shutdown: it is in the map, and once the bridge has exited there
\* is none, not even of a request that was read after the shutdown began
\* (bridge.js:105-110, 183-186, 451-463).
NoOrphans ==
    \A q \in Req : Running(q) /\ ~killed[q] => q \in rooms /\ mode # "exited"

\* As long as the bridge is up, no room is stopped under somebody who plays in it:
\* neither by the sweep nor by a late time-out or error (bridge.js:160-163, 190-195).
NobodyKicked ==
    [][\A c \in Conn : LET q == conn[c].room IN
         conn[c].alive /\ q # Main /\ mode' = "up" => killed'[q] = killed[q]]_vars

\* A room nobody is in, also one that was made and never entered, is entered or goes
\* away together with its process (README.md:170-171, bridge.js:190-195).
IdleRoomsEnd ==
    \A q \in Req : (q \in rooms) ~> (Attached(q) # {} \/ (q \notin rooms /\ ~Running(q)))
=============================================================================
