------------------------------ MODULE BridgeProofs ------------------------------
(***************************************************************************)
(* What the bridge promises, for any number of requests, ports, pages and   *)
(* sockets: the map of rooms, the counts of clients and the answers are in  *)
(* order, no game server outlives the bridge or drops out of its sight, and *)
(* no room is stopped under somebody who plays in it.                       *)
(***************************************************************************)
EXTENDS Bridge, FiniteSetTheorems, WellFoundedInduction, TLAPS

\* A non-empty set of numbers has a least one.
LEMMA Least ==
  ASSUME NEW S \in SUBSET Nat, S # {}
  PROVE  \E m \in S : \A n \in S : m <= n
<1> DEFINE R == StrictSubsetOrdering(Nat)
           T == {1 .. n : n \in S}
<1>1. IsWellFoundedOn(R, FiniteSubsetsOf(Nat))
  BY FS_StrictSubsetOrderingWellFounded, Zenon
<1>2. \A n \in Nat : 1 .. n \in SUBSET Nat /\ IsFiniteSet(1 .. n)
  BY FS_Interval
<1>3. T \subseteq FiniteSubsetsOf(Nat) /\ T # {}
  BY <1>2 DEF FiniteSubsetsOf
<1>4. PICK x \in T : \A y \in T : <<y, x>> \notin R
  <2> HIDE DEF R, T
  <2> QED BY <1>1, <1>3, WFMin, Zenon
<1>5. PICK m \in S : x = 1 .. m
  OBVIOUS
<1>6. ASSUME NEW n \in S, n < m PROVE FALSE
  <2>1. 1 .. n \in T /\ 1 .. n \in SUBSET Nat /\ 1 .. m \in SUBSET Nat
    OBVIOUS
  <2>2. 1 .. n \subseteq 1 .. m /\ 1 .. n # 1 .. m
    <3>1. m \in 1 .. m /\ m \notin 1 .. n
      BY <1>6
    <3> QED BY <1>6, <3>1
  <2>3. <<1 .. n, 1 .. m>> \in R
    BY <2>1, <2>2 DEF StrictSubsetOrdering
  <2> QED BY <1>4, <1>5, <2>1, <2>3
<1> QED BY <1>6

\* The ports of the map: takeRoomPort hands out one that no room has.
PortInv ==
  /\ mode \in {"up", "closing", "exited"} /\ rooms \subseteq Req
  /\ nextRoomPort \in Ports /\ port \in [Req -> Ports]
  /\ \A q, r \in rooms : q # r => port[q] # port[r]

\* takeRoomPort finds a port that no room of the map has, however the free ones lie
\* around nextRoomPort.
LEMMA TakenIsFree ==
  ASSUME PortInv, FreePorts # {}
  PROVE  TakenPort \in FreePorts
<1> DEFINE D == {Distance(n) : n \in FreePorts}
<1>1. PortCount \in Nat \ {0} /\ nextRoomPort \in Ports /\ FreePorts \subseteq Ports
  BY BridgeAssumption DEF PortInv, FreePorts
<1>2. \A n \in Ports : Distance(n) \in Nat
  BY <1>1 DEF Ports, Distance
<1>3. D \in SUBSET Nat /\ D # {}
  BY <1>1, <1>2
<1>4. PICK d \in D : \A e \in D : d <= e
  <2> HIDE DEF D
  <2> QED BY <1>3, Least
<1>5. \E n \in FreePorts : \A m \in FreePorts : Distance(n) <= Distance(m)
  BY <1>4
<1> QED BY <1>5 DEF TakenPort

\* Nobody has a port at first.
LEMMA PortInit == Init => PortInv
  BY BridgeAssumption DEF Init, PortInv, Ports

\* Only a new room takes a port, and a room that ends gives up its own.
LEMMA PortStep == PortInv /\ [Next]_vars => PortInv'
<1> SUFFICES ASSUME PortInv, [Next]_vars PROVE PortInv'
  OBVIOUS
<1>1. ASSUME rooms' \subseteq rooms, UNCHANGED <<port, nextRoomPort>>,
             mode' \in {"up", "closing", "exited"}
      PROVE  PortInv'
  BY <1>1 DEF PortInv
<1>2. \A Q : StopRooms(Q) => rooms' \subseteq rooms
  BY DEF StopRooms
<1>3. ASSUME NEW q \in Req, ReadBody(q) PROVE PortInv'
  <2>1. CASE UNCHANGED <<rooms, port, nextRoomPort>>
    BY <1>1, <1>3, <2>1 DEF ReadBody, PortInv
  <2>2. CASE /\ FreePorts # {}
             /\ port' = [port EXCEPT ![q] = TakenPort]
             /\ nextRoomPort' = (TakenPort + 1) % PortCount
             /\ rooms' = rooms \cup {q}
    <3>1. TakenPort \in Ports /\ \A r \in rooms : port[r] # TakenPort
      BY <2>2, TakenIsFree DEF FreePorts
    <3>2. nextRoomPort' \in Ports
      BY <2>2, <3>1, BridgeAssumption DEF Ports
    <3>3. port' \in [Req -> Ports] /\ rooms' \subseteq Req
      BY <2>2, <3>1 DEF PortInv
    <3>4. ASSUME NEW r \in rooms', NEW s \in rooms', r # s PROVE port'[r] # port'[s]
      BY <2>2, <3>1, <3>4 DEF PortInv
    <3> QED
      BY <1>3, <3>2, <3>3, <3>4 DEF ReadBody, PortInv
  <2> QED
    BY <1>3, <2>1, <2>2 DEF ReadBody
<1>4. ASSUME NEW q \in Req, CreateRoom(q) \/ RoomReady(q) \/ RoomTimeout(q) \/ RoomError(q)
                 \/ RoomExit(q) \/ Listen(q) \/ Die(q) \/ Age(q)
      PROVE  PortInv'
  BY <1>1, <1>2, <1>4 DEF CreateRoom, RoomReady, RoomTimeout, RoomError, RoomExit, Listen, Die,
                          Age, PortInv
<1>5. CASE Sweep \/ Shutdown \/ Exit
  BY <1>1, <1>2, <1>5 DEF Sweep, Shutdown, Exit, PortInv
<1>6. ASSUME NEW p \in Page, StartGame(p) \/ (\E q \in Req : ClickCreate(p, q) \/ JoinRoom(p, q))
                 \/ \E c \in Conn : Attach(p, c)
      PROVE  PortInv'
  BY <1>1, <1>6 DEF StartGame, ClickCreate, JoinRoom, Attach, bridgeVars, PortInv
<1>7. ASSUME NEW c \in Conn, EndCloses(c) \/ CloseCalled(c) PROVE PortInv'
  BY <1>1, <1>7 DEF EndCloses, CloseCalled, PortInv
<1>8. ASSUME NEW a \in asks, LookUp(a) \/ Answered(a) PROVE PortInv'
  BY <1>1, <1>8 DEF LookUp, Answered, bridgeVars, PortInv
<1>9. CASE UNCHANGED vars
  BY <1>1, <1>9 DEF vars, bridgeVars, PortInv
<1> QED
  BY <1>3, <1>4, <1>5, <1>6, <1>7, <1>8, <1>9 DEF Next

-----------------------------------------------------------------------------
(* Answers.                                                                 *)

\* Each request is answered once at most, and one that got its room has had a server
\* that listened.
AnswerInv ==
  /\ pc \in [Req -> {"none", "sent", "reading", "waiting", "done"}]
  /\ proc \in [Req -> {"none", "up", "listening", "failed", "dead", "fallen", "reaped"}]
  /\ sent \in [Req -> {<<>>, <<201>>, <<503>>}]
  /\ \A q \in Req : pc[q] # "done" => sent[q] = <<>>
  /\ \A q \in Req : sent[q] = <<201>> => proc[q] \in {"listening", "fallen", "reaped"}

\* Nobody has been answered at first.
LEMMA AnswerInit == Init => AnswerInv
  BY DEF Init, AnswerInv

\* A room is refused, or its answer goes out, to a request that has not been answered.
LEMMA AnswerOnce ==
  ASSUME AnswerInv, NEW q \in Req, NEW s \in {201, 503},
         \/ pc[q] # "done" /\ Refuse(q) /\ s = 503
         \/ Answer(q, s)
  PROVE  /\ pc' \in [Req -> {"none", "sent", "reading", "waiting", "done"}]
         /\ sent' \in [Req -> {<<>>, <<201>>, <<503>>}]
         /\ \A r \in Req : pc'[r] # "done" => sent'[r] = <<>>
         /\ \A r \in Req : sent'[r] = <<201>> => sent[r] = <<201>> \/ (r = q /\ s = 201 /\ Answer(q, s))
         /\ \A r \in Req : sent[r] = <<201>> => sent'[r] = <<201>>
<1>1. Append(<<>>, 201) = <<201>> /\ Append(<<>>, 503) = <<503>> /\ <<201>> # <<503>>
      /\ <<201>> # <<>>
  OBVIOUS
<1>2. ASSUME pc[q] # "done", pc' = [pc EXCEPT ![q] = "done"], sent' = [sent EXCEPT ![q] = Append(@, s)]
      PROVE  /\ pc' \in [Req -> {"none", "sent", "reading", "waiting", "done"}]
             /\ sent' \in [Req -> {<<>>, <<201>>, <<503>>}]
             /\ \A r \in Req : pc'[r] # "done" => sent'[r] = <<>>
             /\ \A r \in Req : r # q => sent'[r] = sent[r]
             /\ sent[q] = <<>> /\ sent'[q] = <<s>>
  <2>1. sent[q] = <<>>
    BY <1>2 DEF AnswerInv
  <2>2. sent' = [sent EXCEPT ![q] = <<s>>] /\ <<s>> \in {<<>>, <<201>>, <<503>>}
    BY <1>2, <2>1
  <2> QED
    BY <1>2, <2>1, <2>2 DEF AnswerInv
<1>3. CASE pc[q] # "done" /\ Refuse(q) /\ s = 503
  BY <1>1, <1>2, <1>3 DEF Refuse
<1>4. CASE Answer(q, s) /\ pc[q] = "waiting"
  BY <1>1, <1>2, <1>4 DEF Answer
<1>5. CASE Answer(q, s) /\ pc[q] # "waiting"
  BY <1>5 DEF Answer, AnswerInv
<1> QED
  BY <1>3, <1>4, <1>5

\* What has once been answered stays so.
Settled == \A q \in Req : sent[q] = <<201>> => sent'[q] = <<201>>

\* The ways to the answer (ready, error, exit, time-out, no port) exclude each other.
LEMMA AnswerStep == AnswerInv /\ [Next]_vars => AnswerInv' /\ Settled
<1> SUFFICES ASSUME AnswerInv, [Next]_vars PROVE AnswerInv' /\ Settled
  OBVIOUS
<1> DEFINE OK == AnswerInv' /\ Settled
<1>1. ASSUME UNCHANGED <<pc, sent, proc>> PROVE OK
  BY <1>1 DEF AnswerInv, Settled
<1>2. ASSUME NEW q \in Req, CreateRoom(q) PROVE OK
  <2>1. CASE Refuse(q)
    BY <1>2, <2>1, AnswerOnce DEF CreateRoom, AnswerInv, Settled
  <2>2. CASE pc' = [pc EXCEPT ![q] = "reading"] /\ UNCHANGED sent
    BY <1>2, <2>2 DEF CreateRoom, AnswerInv, Settled
  <2> QED
    BY <1>2, <2>1, <2>2 DEF CreateRoom
<1>3. ASSUME NEW q \in Req, ReadBody(q) PROVE OK
  <2>1. CASE Refuse(q) /\ UNCHANGED proc
    BY <1>3, <2>1, AnswerOnce DEF ReadBody, AnswerInv, Settled
  <2>2. CASE pc' = [pc EXCEPT ![q] = "done"] /\ UNCHANGED <<sent, proc>>
    BY <1>3, <2>2 DEF ReadBody, AnswerInv, Settled
  <2>3. CASE /\ \E s \in {"up", "failed"} : proc' = [proc EXCEPT ![q] = s]
             /\ pc' = [pc EXCEPT ![q] = "waiting"] /\ UNCHANGED sent
    <3>1. sent[q] = <<>> /\ <<>> # <<201>>
      BY <1>3 DEF ReadBody, AnswerInv
    <3> QED
      BY <2>3, <3>1 DEF AnswerInv, Settled
  <2> QED
    BY <1>3, <2>1, <2>2, <2>3 DEF ReadBody
<1>4. ASSUME NEW q \in Req, RoomReady(q) PROVE OK
  BY <1>4, AnswerOnce DEF RoomReady, AnswerInv, Settled
<1>5. ASSUME NEW q \in Req, RoomTimeout(q) PROVE OK
  BY <1>5, AnswerOnce DEF RoomTimeout, AnswerInv, Settled
<1>6. ASSUME NEW q \in Req, RoomError(q) \/ RoomExit(q) PROVE OK
  <2>1. proc' = [proc EXCEPT ![q] = "reaped"] /\ Answer(q, 503)
    BY <1>6 DEF RoomError, RoomExit
  <2>2. \A r \in Req : sent'[r] = <<201>> => sent[r] = <<201>>
    BY <2>1, AnswerOnce
  <2> QED
    BY <2>1, <2>2, AnswerOnce DEF AnswerInv, Settled
<1>7. ASSUME NEW q \in Req, Listen(q) \/ Die(q) PROVE OK
  BY <1>7 DEF Listen, Die, Running, AnswerInv, Settled
<1>8. ASSUME NEW q \in Req, Age(q) PROVE OK
  BY <1>1, <1>8 DEF Age
<1>9. ASSUME Sweep \/ Shutdown \/ Exit PROVE OK
  BY <1>1, <1>9 DEF Sweep, Shutdown, Exit
<1>10. ASSUME NEW p \in Page, NEW q \in Req, ClickCreate(p, q) PROVE OK
  BY <1>10 DEF ClickCreate, AnswerInv, Settled
<1>11. ASSUME NEW p \in Page, StartGame(p) \/ (\E q \in Req : JoinRoom(p, q))
                 \/ \E c \in Conn : Attach(p, c)
      PROVE  OK
  BY <1>1, <1>11 DEF StartGame, JoinRoom, Attach, bridgeVars
<1>12. ASSUME NEW c \in Conn, EndCloses(c) \/ CloseCalled(c) PROVE OK
  BY <1>1, <1>12 DEF EndCloses, CloseCalled
<1>13. ASSUME NEW a \in asks, LookUp(a) \/ Answered(a) PROVE OK
  BY <1>1, <1>13 DEF LookUp, Answered, bridgeVars
<1>14. ASSUME UNCHANGED vars PROVE OK
  BY <1>1, <1>14 DEF vars, bridgeVars
<1>15. ASSUME NEW p \in Page, StartGame(p) \/ (\E q \in Req : ClickCreate(p, q) \/ JoinRoom(p, q))
                 \/ \E c \in Conn : Attach(p, c)
      PROVE  OK
  BY <1>10, <1>11, <1>15
<1>16. ASSUME NEW q \in Req,
              \/ CreateRoom(q) \/ ReadBody(q) \/ RoomReady(q) \/ RoomTimeout(q)
              \/ RoomError(q) \/ RoomExit(q) \/ Listen(q) \/ Die(q) \/ Age(q)
       PROVE  OK
  <2> HIDE DEF OK
  <2> QED
    BY <1>2, <1>3, <1>4, <1>5, <1>6, <1>7, <1>8, <1>16
<1> HIDE DEF OK
<1>17. OK
  BY <1>9, <1>12, <1>13, <1>14, <1>15, <1>16 DEF Next
<1> QED
  BY <1>17 DEF OK

-----------------------------------------------------------------------------
(* Relays.                                                                  *)

\* The clients of a room are its open relays; an open relay has a close event to come.
RelayInv ==
  /\ clients \in [Req -> Nat]
  /\ conn \in [Conn -> [page : Page \cup {"none"}, room : Req \cup {Main}, alive : BOOLEAN,
                       toClose : SUBSET {"ws", "game"}]]
  /\ \A c \in Conn : conn[c].alive => conn[c].toClose # {}
  /\ \A q \in Req : clients[q] = Cardinality(Attached(q))

\* There is no relay at first.
LEMMA RelayInit == Init => RelayInv
<1> SUFFICES ASSUME Init PROVE RelayInv
  OBVIOUS
<1>1. \A q \in Req : Attached(q) = {}
  BY DEF Init, Attached, NoConn
<1> QED
  BY <1>1, FS_EmptySet DEF Init, RelayInv, NoConn

\* A room has finitely many relays, so that they can be counted.
LEMMA AttachedFinite == \A q : IsFiniteSet(Attached(q))
<1>1. IsFiniteSet(Conn)
  BY BridgeAssumption, FS_Interval DEF Conn
<1> QED
  BY <1>1, FS_Subset DEF Attached

\* The relays of room q after a step.
After(q) == {d \in Conn : conn'[d].alive /\ conn'[d].room = q}

ConnType == [page : Page \cup {"none"}, room : Req \cup {Main}, alive : BOOLEAN,
             toClose : SUBSET {"ws", "game"}]

\* Counting the clients of one room anew.
LEMMA TouchCounts ==
  ASSUME clients \in [Req -> Nat], NEW r \in Req \cup {Main}, NEW n \in Nat, Touch(r, n)
  PROVE  /\ clients' \in [Req -> Nat]
         /\ \A q \in Req : clients'[q] = IF q = r THEN n ELSE clients[q]
<1>1. Main \notin Req
  BY BridgeAssumption DEF Req
<1>2. CASE r = Main
  BY <1>1, <1>2 DEF Touch
<1>3. CASE r \in Req
  BY <1>1, <1>3 DEF Touch
<1> QED
  BY <1>2, <1>3

\* A relay opens.
LEMMA RelayOpens ==
  ASSUME PortInv, RelayInv, NEW p \in Page, NEW c \in Conn, Attach(p, c)
  PROVE  RelayInv'
<1> DEFINE r == started[p]
           new == [page |-> p, room |-> r, alive |-> TRUE, toClose |-> {"ws", "game"}]
<1>1. /\ r \in Req \cup {Main} /\ ~conn[c].alive
      /\ conn' = [conn EXCEPT ![c] = new]
      /\ Touch(r, IF r = Main THEN 0 ELSE clients[r] + 1)
  <2>1. r \in rooms \cup {Main} /\ conn[c].toClose = {}
    BY DEF Attach
  <2> QED
    BY <2>1 DEF Attach, PortInv, RelayInv
<1>2. /\ conn' \in [Conn -> ConnType]
      /\ \A d \in Conn : conn'[d].alive => conn'[d].toClose # {}
      /\ conn'[c].alive /\ conn'[c].room = r /\ \A d \in Conn \ {c} : conn'[d] = conn[d]
  <2>1. new \in ConnType /\ new.toClose # {} /\ new.alive /\ new.room = r
    BY <1>1 DEF ConnType
  <2> HIDE DEF new
  <2> QED
    BY <1>1, <2>1 DEF RelayInv, ConnType
<1>3. c \notin Attached(r) /\ After(r) = Attached(r) \cup {c}
  BY <1>1, <1>2 DEF Attached, After
<1>4. \A q : q # r => After(q) = Attached(q)
  BY <1>1, <1>2 DEF Attached, After
<1>5. /\ \A q \in Req : clients'[q] = IF q = r THEN clients[q] + 1 ELSE clients[q]
      /\ clients' \in [Req -> Nat]
  <2> DEFINE n == IF r = Main THEN 0 ELSE clients[r] + 1
  <2>1. n \in Nat /\ clients \in [Req -> Nat] /\ (r \in Req => n = clients[r] + 1)
    BY <1>1, BridgeAssumption DEF RelayInv, Req
  <2> HIDE DEF n, r
  <2> QED
    BY <1>1, <2>1, TouchCounts DEF n
<1>6. ASSUME NEW q \in Req PROVE clients'[q] = Cardinality(After(q))
  <2>1. Cardinality(Attached(r) \cup {c}) = Cardinality(Attached(r)) + 1
    BY <1>3, AttachedFinite, FS_AddElement
  <2> QED
    BY <1>3, <1>4, <1>5, <2>1 DEF RelayInv
<1> QED
  BY <1>2, <1>5, <1>6 DEF RelayInv, ConnType, Attached, After

\* One end of a relay closes, or both are torn down: only the first time counts.
LEMMA RelayCloses ==
  ASSUME RelayInv, NEW c \in Conn, NEW rest \in SUBSET conn[c].toClose, CloseConn(c, rest)
  PROVE  RelayInv'
<1> DEFINE r == conn[c].room
           new == IF rest = {} THEN NoConn ELSE [conn[c] EXCEPT !.alive = FALSE, !.toClose = rest]
<1>1. conn[c] \in ConnType /\ conn' = [conn EXCEPT ![c] = new]
  BY DEF RelayInv, CloseConn, ConnType
<1>2. /\ conn' \in [Conn -> ConnType]
      /\ \A d \in Conn : conn'[d].alive => conn'[d].toClose # {}
      /\ ~conn'[c].alive /\ \A d \in Conn \ {c} : conn'[d] = conn[d]
  <2>1. new \in ConnType /\ new.alive = FALSE
    BY <1>1 DEF ConnType, NoConn
  <2> HIDE DEF new
  <2> QED
    BY <1>1, <2>1 DEF RelayInv, ConnType
<1>3. \A q : After(q) = Attached(q) \ {c}
  BY <1>2 DEF Attached, After
<1>5. CASE ~conn[c].alive
  <2>1. clients' = clients
    BY <1>5 DEF CloseConn
  <2>2. \A q : Attached(q) \ {c} = Attached(q)
    BY <1>5 DEF Attached
  <2>3. \A q \in Req : clients'[q] = Cardinality(After(q))
    BY <1>3, <2>1, <2>2 DEF RelayInv
  <2> QED
    BY <1>2, <2>1, <2>3 DEF RelayInv, ConnType, Attached, After
<1>6. CASE conn[c].alive
  <2>1. \A q : c \in Attached(q) <=> q = r
    BY <1>6 DEF Attached
  <2>2. r \in Req => clients[r] # 0
    BY <2>1, AttachedFinite, FS_EmptySet DEF RelayInv
  <2>3. r \in Req \cup {Main} /\ Main \notin Req
    BY <1>1, BridgeAssumption DEF ConnType, Req
  <2>4. /\ \A q \in Req : clients'[q] = IF q = r THEN clients[q] - 1 ELSE clients[q]
        /\ clients' \in [Req -> Nat]
    <3> DEFINE n == IF r = Main \/ clients[r] = 0 THEN 0 ELSE clients[r] - 1
    <3>1. clients \in [Req -> Nat] /\ Touch(r, n)
      BY <1>6 DEF CloseConn, RelayInv
    <3>2. n \in Nat /\ (r \in Req => n = clients[r] - 1)
      BY <2>2, <2>3, <3>1
    <3> HIDE DEF n, r
    <3> QED
      BY <2>3, <3>1, <3>2, TouchCounts
  <2>5. ASSUME NEW q \in Req PROVE clients'[q] = Cardinality(After(q))
    <3>1. Cardinality(Attached(q) \ {c})
            = IF c \in Attached(q) THEN Cardinality(Attached(q)) - 1 ELSE Cardinality(Attached(q))
      BY AttachedFinite, FS_RemoveElement
    <3> QED
      BY <1>3, <2>1, <2>4, <3>1 DEF RelayInv
  <2> QED
    BY <1>2, <2>4, <2>5 DEF RelayInv, ConnType, Attached, After
<1> QED
  BY <1>5, <1>6

\* Every step keeps the counts.
LEMMA RelayStep == PortInv /\ RelayInv /\ [Next]_vars => RelayInv'
<1> SUFFICES ASSUME PortInv, RelayInv, [Next]_vars PROVE RelayInv'
  OBVIOUS
<1>1. ASSUME UNCHANGED <<clients, conn>> PROVE RelayInv'
  BY <1>1 DEF RelayInv, Attached
<1>2. ASSUME NEW q \in Req,
             \/ CreateRoom(q) \/ ReadBody(q) \/ RoomReady(q) \/ RoomTimeout(q)
             \/ RoomError(q) \/ RoomExit(q) \/ Listen(q) \/ Die(q) \/ Age(q)
      PROVE  RelayInv'
  BY <1>1, <1>2 DEF CreateRoom, ReadBody, RoomReady, RoomTimeout, RoomError, RoomExit,
                    Listen, Die, Age
<1>3. CASE Sweep \/ Shutdown \/ Exit
  BY <1>1, <1>3 DEF Sweep, Shutdown, Exit
<1>4. ASSUME NEW p \in Page, StartGame(p) \/ (\E q \in Req : ClickCreate(p, q) \/ JoinRoom(p, q))
                 \/ \E c \in Conn : Attach(p, c)
      PROVE  RelayInv'
  BY <1>1, <1>4, RelayOpens DEF StartGame, ClickCreate, JoinRoom, bridgeVars
<1>5. ASSUME NEW c \in Conn, EndCloses(c) \/ CloseCalled(c) PROVE RelayInv'
  <2>1. PICK rest \in SUBSET conn[c].toClose : CloseConn(c, rest)
    BY <1>5 DEF EndCloses, CloseCalled
  <2> QED
    BY <2>1, RelayCloses
<1>6. ASSUME NEW a \in asks, LookUp(a) \/ Answered(a) PROVE RelayInv'
  BY <1>1, <1>6 DEF LookUp, Answered, bridgeVars
<1>7. CASE UNCHANGED vars
  BY <1>1, <1>7 DEF vars, bridgeVars
<1> QED
  BY <1>2, <1>3, <1>4, <1>5, <1>6, <1>7 DEF Next

\* The tables of the bridge always agree: no two rooms of the map have the same port,
\* the clients of a room are the relays that are open, each counted down once however
\* many ends close, and no request is answered twice (bridge.js:96-103, 154-186, 306-327).
THEOREM BridgeAlways == Spec => []BridgeInv
<1> DEFINE Inv == PortInv /\ AnswerInv /\ RelayInv
<1>1. Init => Inv
  BY PortInit, AnswerInit, RelayInit
<1>2. Inv /\ [Next]_vars => Inv'
  BY PortStep, AnswerStep, RelayStep
<1>3. Inv => BridgeInv
  <2> SUFFICES ASSUME Inv PROVE BridgeInv
    OBVIOUS
  <2>1. ASSUME NEW q \in Req PROVE Len(sent[q]) <= 1
    <3>1. sent[q] = <<>> \/ sent[q] = <<201>> \/ sent[q] = <<503>>
      BY DEF AnswerInv
    <3>2. Len(<<>>) = 0 /\ Len(<<201>>) = 1 /\ Len(<<503>>) = 1
      OBVIOUS
    <3> DEFINE n == Len(sent[q])
    <3>3. n = 0 \/ n = 1
      BY <3>1, <3>2, Zenon
    <3> HIDE DEF n
    <3>4. n <= 1
      BY <3>3
    <3> QED
      BY <3>4 DEF n
  <2> QED
    BY <2>1 DEF PortInv, RelayInv, BridgeInv
<1> QED
  BY <1>1, <1>2, <1>3, PTL DEF Spec

-----------------------------------------------------------------------------
(* Who plays in a room.                                                     *)

\* Whoever looks for a room, has entered it or plays in it knows it from the answer to
\* the one who asked for it, and so it has got through its start.
KnownInv ==
  /\ \A a \in asks : /\ DOMAIN a = 1 .. 4 /\ a = [k \in 1 .. 4 |-> a[k]]
                     /\ a[1] \in Page /\ a[2] \in Req
                     /\ a[3] = "join" => sent[a[2]] = <<201>>
  /\ \A p \in Page : started[p] \in Req \cup {Main, Lobby}
  /\ \A p \in Page : started[p] \in Req => sent[started[p]] = <<201>>
  /\ \A c \in Conn : conn[c].alive /\ conn[c].room \in Req => sent[conn[c].room] = <<201>>
  /\ started = [p \in Page |-> started[p]]

\* Nobody knows a room at first.
LEMMA KnownInit == Init => KnownInv
<1>1. Lobby \notin Req
  BY BridgeAssumption DEF Req
<1> QED
  BY <1>1 DEF Init, KnownInv, NoConn

\* The number of a room is passed on only from somebody who has it.
LEMMA KnownStep == RelayInv /\ KnownInv /\ Settled /\ [Next]_vars => KnownInv'
<1> SUFFICES ASSUME RelayInv, KnownInv, Settled, [Next]_vars PROVE KnownInv'
  OBVIOUS
<1>1. ASSUME UNCHANGED <<asks, started, conn>> PROVE KnownInv'
  BY <1>1 DEF KnownInv, Settled
<1>2. ASSUME NEW q \in Req,
             \/ CreateRoom(q) \/ ReadBody(q) \/ RoomReady(q) \/ RoomTimeout(q)
             \/ RoomError(q) \/ RoomExit(q) \/ Listen(q) \/ Die(q) \/ Age(q)
      PROVE  KnownInv'
  BY <1>1, <1>2 DEF CreateRoom, ReadBody, RoomReady, RoomTimeout, RoomError, RoomExit,
                    Listen, Die, Age
<1>3. CASE Sweep \/ Shutdown \/ Exit
  BY <1>1, <1>3 DEF Sweep, Shutdown, Exit
<1>4. ASSUME NEW p \in Page, StartGame(p) PROVE KnownInv'
  <2>1. UNCHANGED <<sent, asks, conn>> /\ EnterGame(p, Main) /\ Main \notin Req
    BY <1>4, BridgeAssumption DEF StartGame, bridgeVars, Req
  <2> QED
    BY <2>1 DEF EnterGame, KnownInv
<1>5. ASSUME NEW p \in Page, NEW q \in Req, ClickCreate(p, q) PROVE KnownInv'
  <2>1. UNCHANGED <<sent, started, conn>> /\ asks' = asks \cup {<<p, q, "create", "none">>}
    BY <1>5 DEF ClickCreate
  <2> QED
    BY <2>1 DEF KnownInv
<1>6. ASSUME NEW p \in Page, NEW q \in Req, JoinRoom(p, q) PROVE KnownInv'
  <2>1. /\ UNCHANGED <<sent, started, conn>> /\ asks' = asks \cup {<<p, q, "join", "none">>}
        /\ sent[q] = <<201>>
    BY <1>6 DEF JoinRoom, bridgeVars
  <2> QED
    BY <2>1 DEF KnownInv
<1>7. ASSUME NEW p \in Page, NEW c \in Conn, Attach(p, c) PROVE KnownInv'
  <2>1. /\ UNCHANGED <<sent, started, asks>>
        /\ conn' = [conn EXCEPT ![c] = [page |-> p, room |-> started[p], alive |-> TRUE,
                                        toClose |-> {"ws", "game"}]]
    BY <1>7 DEF Attach
  <2>2. conn'[c].room = started[p] /\ \A d \in Conn \ {c} : conn'[d] = conn[d]
    BY <2>1 DEF RelayInv
  <2>3. ASSUME NEW d \in Conn, conn'[d].alive, conn'[d].room \in Req
        PROVE  sent[conn'[d].room] = <<201>>
    BY <2>2, <2>3 DEF KnownInv
  <2> QED
    BY <2>1, <2>3 DEF KnownInv
<1>8. ASSUME NEW c \in Conn, EndCloses(c) \/ CloseCalled(c) PROVE KnownInv'
  <2>1. PICK rest \in SUBSET conn[c].toClose : CloseConn(c, rest)
    BY <1>8 DEF EndCloses, CloseCalled
  <2>2. UNCHANGED <<sent, started, asks>>
    BY <1>8 DEF EndCloses, CloseCalled
  <2>3. ~conn'[c].alive /\ \A d \in Conn \ {c} : conn'[d] = conn[d]
    <3> DEFINE new == IF rest = {} THEN NoConn
                      ELSE [conn[c] EXCEPT !.alive = FALSE, !.toClose = rest]
    <3>1. conn[c] \in ConnType /\ conn' = [conn EXCEPT ![c] = new]
      BY <2>1 DEF RelayInv, CloseConn, ConnType
    <3>2. new.alive = FALSE
      BY <3>1 DEF ConnType, NoConn
    <3> HIDE DEF new
    <3> QED
      BY <3>1, <3>2 DEF RelayInv
  <2> QED
    BY <2>2, <2>3 DEF KnownInv
<1>9. ASSUME NEW a \in asks, LookUp(a) PROVE KnownInv'
  <2>1. UNCHANGED <<sent, started, conn>>
    BY <1>9 DEF LookUp, bridgeVars
  <2>2. PICK x \in {"found", "missing"} : asks' = (asks \ {a}) \cup {[a EXCEPT ![4] = x]}
    BY <1>9 DEF LookUp
  <2> DEFINE b == [a EXCEPT ![4] = x]
  <2>3. DOMAIN a = 1 .. 4 /\ a = [k \in 1 .. 4 |-> a[k]]
    BY DEF KnownInv
  <2>4. /\ DOMAIN b = 1 .. 4 /\ b = [k \in 1 .. 4 |-> b[k]]
        /\ b[1] = a[1] /\ b[2] = a[2] /\ b[3] = a[3]
    BY <2>3
  <2>5. /\ a[1] \in Page /\ a[2] \in Req /\ (a[3] = "join" => sent[a[2]] = <<201>>)
    BY DEF KnownInv
  <2>6. asks' = (asks \ {a}) \cup {b}
    BY <2>2
  <2> HIDE DEF b
  <2> QED
    BY <2>1, <2>4, <2>5, <2>6 DEF KnownInv
<1>10. ASSUME NEW a \in asks, Answered(a) PROVE KnownInv'
  <2>1. UNCHANGED <<sent, conn>> /\ asks' \subseteq asks
    BY <1>10 DEF Answered, bridgeVars
  <2>2. a[1] \in Page /\ a[2] \in Req
    BY DEF KnownInv
  <2>3. CASE UNCHANGED started
    BY <2>1, <2>3 DEF KnownInv
  <2>4. CASE Succeeded(a) /\ EnterGame(a[1], a[2])
    <3>1. sent[a[2]] = <<201>>
      BY <2>4 DEF Succeeded, KnownInv
    <3> QED
      BY <2>1, <2>2, <2>4, <3>1 DEF EnterGame, KnownInv
  <2> QED
    BY <1>10, <2>3, <2>4 DEF Answered
<1>11. CASE UNCHANGED vars
  BY <1>1, <1>11 DEF vars, bridgeVars
<1>12. ASSUME NEW p \in Page, StartGame(p) \/ (\E q \in Req : ClickCreate(p, q) \/ JoinRoom(p, q))
                 \/ \E c \in Conn : Attach(p, c)
      PROVE  KnownInv'
  BY <1>4, <1>5, <1>6, <1>7, <1>12
<1> QED
  BY <1>2, <1>3, <1>8, <1>9, <1>10, <1>11, <1>12 DEF Next

\* NoOrphans, and that the tables it reads have an entry for every request.
OrphanInv ==
  /\ proc \in [Req -> {"none", "up", "listening", "failed", "dead", "fallen", "reaped"}]
  /\ killed \in [Req -> BOOLEAN]
  /\ NoOrphans

-----------------------------------------------------------------------------

\* No process runs at first.
LEMMA OrphanInit == Init => OrphanInv
  BY DEF Init, OrphanInv, NoOrphans, Running

\* Whoever is taken out of the map is killed.
LEMMA StopKills ==
  ASSUME OrphanInv, NEW Q, StopRooms(Q), UNCHANGED proc,
         mode' # "exited" \/ Q = rooms
  PROVE  OrphanInv'
<1>1. killed' \in [Req -> BOOLEAN]
  <2>1. killed' = [q \in Req |-> killed[q] \/ q \in {r \in Q : ~killed[r]}]
    BY DEF StopRooms
  <2>2. ASSUME NEW q \in Req PROVE (killed[q] \/ q \in {r \in Q : ~killed[r]}) \in BOOLEAN
    BY Zenon DEF OrphanInv
  <2> QED
    BY <2>1, <2>2, Zenon
<1>2. ASSUME NEW q \in Req, Running(q)', ~killed'[q]
      PROVE  q \in rooms' /\ mode' # "exited"
  <2>1. killed'[q] = (killed[q] \/ q \in {r \in Q : ~killed[r]})
    BY Zenon DEF StopRooms
  <2>2. ~killed[q] /\ q \notin Q
    BY <1>2, <2>1, Zenon
  <2>3. Running(q)
    BY <1>2 DEF Running
  <2>4. q \in rooms /\ mode # "exited"
    BY <2>2, <2>3 DEF OrphanInv, NoOrphans
  <2>5. q \in rooms'
    BY <2>2, <2>4, Zenon DEF StopRooms
  <2>6. mode' # "exited"
    BY <2>2, <2>4
  <2> QED
    BY <2>5, <2>6
<1> QED
  BY <1>1, <1>2 DEF OrphanInv, NoOrphans

\* Steps that stop nobody: a process that has just become running, or still is, is in the
\* map, and nobody who runs is taken out of it.
LEMMA NobodyStopped ==
  ASSUME OrphanInv, UNCHANGED <<mode, killed>>,
         proc' \in [Req -> {"none", "up", "listening", "failed", "dead", "fallen", "reaped"}],
         \A q \in Req : Running(q)' => /\ Running(q) \/ (q \in rooms' /\ mode # "exited")
                                       /\ q \in rooms => q \in rooms'
  PROVE  OrphanInv'
  BY Zenon DEF OrphanInv, NoOrphans

\* Every step leaves those who run in the map or killed.
LEMMA OrphanStep == OrphanInv /\ [Next]_vars => OrphanInv'
<1> SUFFICES ASSUME OrphanInv, [Next]_vars PROVE OrphanInv'
  OBVIOUS
<1>1. ASSUME UNCHANGED <<mode, killed, proc, rooms>> PROVE OrphanInv'
  BY <1>1 DEF OrphanInv, NoOrphans, Running
<1>2. CASE UNCHANGED vars
  BY <1>1, <1>2 DEF vars, bridgeVars
<1>3. ASSUME NEW q \in Req, CreateRoom(q) \/ RoomReady(q) \/ Age(q) PROVE OrphanInv'
  BY <1>1, <1>3 DEF CreateRoom, RoomReady, Age
<1>4. ASSUME NEW q \in Req, ReadBody(q) PROVE OrphanInv'
  <2>1. CASE UNCHANGED <<rooms, proc>>
    BY <1>1, <1>4, <2>1 DEF ReadBody
  <2>2. CASE /\ \E s \in {"up", "failed"} : proc' = [proc EXCEPT ![q] = s]
             /\ rooms' = rooms \cup {q}
    <3>1. PICK s \in {"up", "failed"} : proc' = [proc EXCEPT ![q] = s]
      BY <2>2
    <3>2. proc' \in [Req -> {"none", "up", "listening", "failed", "dead", "fallen", "reaped"}]
      BY <3>1 DEF OrphanInv
    <3>3. \A r \in Req : Running(r)' => Running(r) \/ r = q
      BY <3>1 DEF OrphanInv, Running
    <3>4. mode # "exited" /\ UNCHANGED <<mode, killed>>
      BY <1>4 DEF ReadBody
    <3> QED
      BY <2>2, <3>2, <3>3, <3>4, NobodyStopped
  <2> QED
    BY <1>4, <2>1, <2>2 DEF ReadBody
<1>5. ASSUME NEW q \in Req, RoomTimeout(q) PROVE OrphanInv'
  BY <1>5, StopKills DEF RoomTimeout
<1>6. ASSUME NEW q \in Req, RoomError(q) PROVE OrphanInv'
  <2>1. /\ proc' = [proc EXCEPT ![q] = "reaped"] /\ StopRooms({q})
        /\ mode # "exited" /\ UNCHANGED mode
    BY <1>6 DEF RoomError
  <2>2. proc' \in [Req -> {"none", "up", "listening", "failed", "dead", "fallen", "reaped"}]
    BY <2>1 DEF OrphanInv
  <2>3. killed' \in [Req -> BOOLEAN]
    <3>1. \A r \in Req : (killed[r] \/ r \in {x \in {q} : ~killed[x]}) \in BOOLEAN
      BY Zenon DEF OrphanInv
    <3> QED
      BY <2>1, <3>1, Zenon DEF StopRooms
  <2>4. ASSUME NEW r \in Req, Running(r)', ~killed'[r] PROVE r \in rooms' /\ mode' # "exited"
    <3>1. r # q /\ Running(r)
      BY <2>1, <2>4 DEF Running, OrphanInv
    <3>2. killed'[r] = (killed[r] \/ r \in {x \in {q} : ~killed[x]})
      BY <2>1, Zenon DEF StopRooms
    <3>3. ~killed[r]
      BY <2>4, <3>2, Zenon
    <3>4. r \in rooms /\ mode # "exited"
      BY <3>1, <3>3 DEF OrphanInv, NoOrphans
    <3> QED
      BY <2>1, <3>1, <3>4, Zenon DEF StopRooms
  <2> QED
    BY <2>2, <2>3, <2>4 DEF OrphanInv, NoOrphans
<1>7. ASSUME NEW q \in Req, RoomExit(q) PROVE OrphanInv'
  <2>1. /\ proc' = [proc EXCEPT ![q] = "reaped"] /\ rooms' = rooms \ {q}
        /\ UNCHANGED <<mode, killed>>
    BY <1>7 DEF RoomExit
  <2>2. proc' \in [Req -> {"none", "up", "listening", "failed", "dead", "fallen", "reaped"}]
    BY <2>1 DEF OrphanInv
  <2>3. \A r \in Req : Running(r)' => Running(r) /\ r # q
    BY <2>1 DEF OrphanInv, Running
  <2> QED
    BY <2>1, <2>2, <2>3, NobodyStopped
<1>8. ASSUME NEW q \in Req, Listen(q) \/ Die(q) PROVE OrphanInv'
  <2>1. /\ UNCHANGED <<mode, killed, rooms>>
        /\ \E s \in {"listening", "dead", "fallen"} : proc' = [proc EXCEPT ![q] = s]
        /\ Running(q)
    BY <1>8 DEF Listen, Die, Running
  <2>2. proc' \in [Req -> {"none", "up", "listening", "failed", "dead", "fallen", "reaped"}]
    BY <2>1 DEF OrphanInv
  <2>3. \A r \in Req : Running(r)' => Running(r)
    BY <2>1 DEF OrphanInv, Running
  <2> QED
    BY <2>1, <2>2, <2>3, NobodyStopped
<1>9. CASE Sweep
  BY <1>9, StopKills DEF Sweep
<1>10. CASE Shutdown
  BY <1>10, StopKills DEF Shutdown
<1>11. CASE Exit
  BY <1>11, StopKills DEF Exit
<1>12. ASSUME NEW p \in Page, StartGame(p) \/ \E q \in Req : ClickCreate(p, q) \/ JoinRoom(p, q)
       PROVE  OrphanInv'
  BY <1>1, <1>12 DEF StartGame, ClickCreate, JoinRoom, bridgeVars
<1>13. ASSUME NEW c \in Conn, EndCloses(c) \/ CloseCalled(c) \/ \E p \in Page : Attach(p, c)
       PROVE  OrphanInv'
  BY <1>1, <1>13 DEF EndCloses, CloseCalled, Attach
<1>14. ASSUME NEW a \in asks, LookUp(a) \/ Answered(a) PROVE OrphanInv'
  BY <1>1, <1>14 DEF LookUp, Answered, bridgeVars
<1> QED
  BY <1>2, <1>3, <1>4, <1>5, <1>6, <1>7, <1>8, <1>9, <1>10, <1>11, <1>12, <1>13, <1>14
  DEF Next

\* No game server outlives the bridge, and one that runs and was not told to die is always
\* in the map, where the sweep and the shutdown find it: not even the room of a request
\* that was still being read when the bridge was told to stop (bridge.js:105, 183, 451).
THEOREM NoOrphansAlways == Spec => []NoOrphans
<1>1. OrphanInv => NoOrphans
  BY DEF OrphanInv
<1> QED
  BY <1>1, OrphanInit, OrphanStep, PTL DEF Spec


-----------------------------------------------------------------------------

\* No step kills the server of a room somebody plays in, except on the way out.
Kept == \A c \in Conn : LET q == conn[c].room IN
          conn[c].alive /\ q # Main /\ mode' = "up" => killed'[q] = killed[q]

\* A room somebody plays in was answered, so that it is not waiting any more and neither
\* the time-out nor the error stops it, and it has a client, so that the sweep does not.
LEMMA KeptStep ==
  ASSUME OrphanInv, AnswerInv, RelayInv, KnownInv, [Next]_vars
  PROVE  Kept
<1> SUFFICES ASSUME NEW c \in Conn, conn[c].alive, conn[c].room # Main, mode' = "up"
             PROVE  killed'[conn[c].room] = killed[conn[c].room]
  BY DEF Kept
<1> DEFINE r == conn[c].room
<1>1. r \in Req /\ sent[r] = <<201>>
  BY DEF RelayInv, KnownInv
<1>2. pc[r] = "done" /\ proc[r] # "failed"
  BY <1>1 DEF AnswerInv
<1>3. clients[r] # 0
  <2>1. c \in Attached(r)
    BY DEF Attached
  <2> QED
    BY <1>1, <2>1, AttachedFinite, FS_EmptySet DEF RelayInv
<1>4. ASSUME NEW Q, StopRooms(Q), r \notin Q PROVE killed'[r] = killed[r]
  <2>1. killed'[r] = (killed[r] \/ r \in {q \in Q : ~killed[q]})
    BY <1>1, <1>4, Zenon DEF StopRooms
  <2>2. r \notin {q \in Q : ~killed[q]} /\ killed[r] \in BOOLEAN
    BY <1>1, <1>4 DEF OrphanInv
  <2> QED
    BY <2>1, <2>2, Zenon
<1> HIDE DEF r
<1>5. ASSUME NEW q \in Req, RoomTimeout(q) \/ RoomError(q) PROVE killed'[r] = killed[r]
  <2>1. r \notin {q} /\ StopRooms({q})
    BY <1>2, <1>5 DEF RoomTimeout, RoomError
  <2> QED
    BY <2>1, <1>4
<1>6. ASSUME Sweep PROVE killed'[r] = killed[r]
  <2> DEFINE Q == {q \in rooms : clients[q] = 0 /\ stale[q]}
  <2>1. StopRooms(Q)
    BY <1>6 DEF Sweep
  <2>2. r \notin Q
    BY <1>3 DEF r
  <2> HIDE DEF Q
  <2> QED
    BY <2>1, <2>2, <1>4
<1>7. ASSUME Shutdown \/ Exit PROVE killed'[r] = killed[r]
  BY <1>7 DEF Shutdown, Exit
<1>8. ASSUME NEW q \in Req,
             \/ CreateRoom(q) \/ ReadBody(q) \/ RoomReady(q)
             \/ RoomExit(q) \/ Listen(q) \/ Die(q) \/ Age(q)
      PROVE  killed'[r] = killed[r]
  BY <1>8 DEF CreateRoom, ReadBody, RoomReady, RoomExit, Listen, Die, Age
<1>9. ASSUME NEW p \in Page, StartGame(p) \/ (\E q \in Req : ClickCreate(p, q) \/ JoinRoom(p, q))
                 \/ \E d \in Conn : Attach(p, d)
      PROVE  killed'[r] = killed[r]
  BY <1>9 DEF StartGame, ClickCreate, JoinRoom, Attach, bridgeVars
<1>10. ASSUME NEW d \in Conn, EndCloses(d) \/ CloseCalled(d) PROVE killed'[r] = killed[r]
  BY <1>10 DEF EndCloses, CloseCalled
<1>11. ASSUME NEW a \in asks, LookUp(a) \/ Answered(a) PROVE killed'[r] = killed[r]
  BY <1>11 DEF LookUp, Answered, bridgeVars
<1>12. ASSUME UNCHANGED vars PROVE killed'[r] = killed[r]
  BY <1>12 DEF vars, bridgeVars
<1>13. killed'[r] = killed[r]
  BY <1>5, <1>6, <1>7, <1>8, <1>9, <1>10, <1>11, <1>12 DEF Next, r
<1> QED
  BY <1>13 DEF r

\* As long as the bridge is up no room is stopped under somebody who plays in it, by
\* whatever comes late: a sweep, a time-out, an error of the process
\* (bridge.js:160-163, 190-195).
THEOREM NobodyKickedAlways == Spec => NobodyKicked
<1> DEFINE Inv == OrphanInv /\ PortInv /\ AnswerInv /\ RelayInv /\ KnownInv
<1>1. Init => Inv
  BY OrphanInit, PortInit, AnswerInit, RelayInit, KnownInit
<1>2. Inv /\ [Next]_vars => Inv'
  BY OrphanStep, PortStep, AnswerStep, RelayStep, KnownStep
<1>3. Inv /\ [Next]_vars => [Kept]_vars
  BY KeptStep
<1>4. NobodyKicked <=> [][Kept]_vars
  BY PTL DEF NobodyKicked, Kept
<1> QED
  BY <1>1, <1>2, <1>3, <1>4, PTL DEF Spec

===============================================================================
