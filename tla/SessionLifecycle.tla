-------------------------- MODULE SessionLifecycle --------------------------
(***************************************************************************)
(* The life of a connection in Server.exe: who holds a Session, who may    *)
(* close it, and when its memory goes away.                                *)
(*                                                                         *)
(* Three kinds of threads share every Session:                             *)
(*   "main"   accepts, lists, associates and primes it (main.cpp);         *)
(*   Worker   take I/O completions from the port (WorkerThread);           *)
(*   "tick"   seats it, and sends snapshots and events (TickThread).       *)
(* They meet in the session list (a lock), the job queue (a lock), the     *)
(* reference count and the closing flag (interlocked operations).          *)
(*                                                                         *)
(* Every interlocked operation and every locked section is one step;       *)
(* anything may happen between two steps.  A Session value is a heap       *)
(* address: once freed it may be allocated again.  Bytes, packets and the  *)
(* game are abstracted: a packet job is just its session, and what a       *)
(* handler does to the game is left to the modules of the game.            *)
(***************************************************************************)
EXTENDS Integers, Sequences, FiniteSets

CONSTANTS
  Session,      \* addresses a Session object can have
  NoSession,    \* nullptr
  Worker,       \* the worker threads (WORKER_COUNT)
  MaxSession,   \* MAX_SESSION, entries of g_sessions and of g_viewers
  MaxLife,      \* MAX_LIFE, entries of one g_life_buf
  MaxJob,       \* MAX_JOB, entries of one g_job_buf
  SendCap,      \* SEND_BUFFER_SIZE, in packets
  MaxSeat,      \* g_room_capacity: seats on the board
  EarlyClose,   \* may a send close a session main has not announced yet?
  Deadline      \* may the time-outs of the shutdown path expire?

ASSUME ConstantsAssumption ==
  /\ NoSession \notin Session
  /\ {"main", "tick"} \cap Worker = {}
  /\ MaxSession \in Nat \ {0}
  /\ MaxLife \in Nat
  /\ MaxJob \in Nat
  /\ SendCap \in Nat \ {0}
  /\ MaxSeat \in Nat
  /\ EarlyClose \in BOOLEAN
  /\ Deadline \in BOOLEAN

\* The program starts WORKER_COUNT threads, and memory holds finitely many Sessions.
ASSUME FiniteAssumption == IsFiniteSet(Worker) /\ IsFiniteSet(Session)

Thread == {"main", "tick"} \cup Worker

VARIABLES
  alloc,     \* the sessions that are new'ed and not deleted
  ref,       \* Session::ref_count
  closing,   \* Session::closing
  sending,   \* Session::sending
  queued,    \* packets in Session::send_buf
  recvIO,    \* the recv order of a session: "none" or "posted"
  sendIO,    \* its send order: "none", "posted" or "lost"
  assoc,     \* sockets bound to the completion port
  shut,      \* sockets on which shutdown() was called
  list,      \* g_sessions, the order of the entries left out
  life,      \* g_life_buf[g_write]: jobs [type, s] the workers are filling
  pkts,      \* g_job_buf[g_write]: the session of each packet job
  lives,     \* the life jobs the tick thread took and has not finished
  jobs,      \* the packet jobs the tick thread took and has not finished
  seated,    \* the sessions in g_game.players[].s
  viewers,   \* g_viewers[0 .. g_viewer_count - 1]
  pc, cur, ret,   \* per thread: next step, session in hand, caller's step
  targets,   \* sessions the tick thread still has to send to
  mode,      \* which loop of the tick thread is sending
  leftovers, \* targets[] of CloseAllSessions
  running    \* g_tick_running

memVars    == <<alloc, ref>>
sockVars   == <<recvIO, sendIO, assoc, shut>>
sendVars   == <<sending, queued>>
queueVars  == <<life, pkts, lives, jobs>>
boardVars  == <<seated, viewers>>
tickVars   == <<targets, mode>>
mainVars   == <<leftovers, running>>
threadVars == <<pc, cur, ret>>
vars == <<memVars, closing, sendVars, sockVars, list, queueVars, boardVars,
          threadVars, tickVars, mainVars>>

JobType == {"Enter", "Leave"}
LifeJob == [type : JobType, s : Session]

Init ==
  /\ alloc = {}
  /\ ref = [s \in Session |-> 0]
  /\ closing = [s \in Session |-> FALSE]
  /\ sending = [s \in Session |-> FALSE]
  /\ queued = [s \in Session |-> 0]
  /\ recvIO = [s \in Session |-> "none"]
  /\ sendIO = [s \in Session |-> "none"]
  /\ assoc = {} /\ shut = {} /\ list = {}
  /\ life = <<>> /\ pkts = <<>> /\ lives = <<>> /\ jobs = <<>>
  /\ seated = {} /\ viewers = {}
  /\ pc = [t \in Thread |-> IF t = "main" THEN "accept"
                            ELSE IF t = "tick" THEN "swap" ELSE "idle"]
  /\ cur = [t \in Thread |-> NoSession]
  /\ ret = [t \in Thread |-> "none"]
  /\ targets = {} /\ mode = "none" /\ leftovers = {} /\ running = TRUE

-----------------------------------------------------------------------------
(* References, jumps and calls.                                            *)

AddRef(s) == ref' = [ref EXCEPT ![s] = @ + 1]

\* The last one to let go closes the socket and deletes the session.
Release(s) ==
  /\ ref' = [ref EXCEPT ![s] = @ - 1]
  /\ alloc' = IF ref[s] = 1 THEN alloc \ {s} ELSE alloc

At(t, l) == pc[t] = l
Goto(t, l) == pc' = [pc EXCEPT ![t] = l]
Take(t, s) == cur' = [cur EXCEPT ![t] = s]
Drop(t) == cur' = [cur EXCEPT ![t] = NoSession]

\* CloseSession(cur[t]), to go on at step l afterwards.
CallClose(t, l) ==
  /\ pc' = [pc EXCEPT ![t] = "exchange"]
  /\ ret' = [ret EXCEPT ![t] = l]

Return(t) ==
  /\ pc' = [pc EXCEPT ![t] = ret[t]]
  /\ ret' = [ret EXCEPT ![t] = "none"]

\* Mutants of PushLife: the job takes no reference; the last entry is wasted;
\* packets share the buffer.
PushLifeNoRef(type, s) ==
  IF Len(life) < MaxLife
  THEN life' = Append(life, [type |-> type, s |-> s]) /\ UNCHANGED ref
  ELSE UNCHANGED <<life, ref>>
PushLifeShort(type, s) ==
  IF Len(life) + 1 < MaxLife
  THEN life' = Append(life, [type |-> type, s |-> s]) /\ AddRef(s)
  ELSE UNCHANGED <<life, ref>>

PushLifeShared(type, s) ==
  IF Len(life) + Len(pkts) < MaxJob
  THEN life' = Append(life, [type |-> type, s |-> s]) /\ AddRef(s)
  ELSE UNCHANGED <<life, ref>>

\* PushJob of an Enter or a Leave: a full buffer drops it without a word.
PushLife(type, s) ==
  IF Len(life) < MaxLife
  THEN life' = Append(life, [type |-> type, s |-> s]) /\ AddRef(s)
  ELSE UNCHANGED <<life, ref>>

\* main has listed the session but not queued its Enter yet.
InSetup(s) == cur["main"] = s /\ pc["main"] \in {"associate", "enter"}

-----------------------------------------------------------------------------
(* CloseSession, on any thread.                                            *)

CloseExchange(t) ==
  /\ At(t, "exchange")
  /\ IF closing[cur[t]]
     THEN Return(t) /\ UNCHANGED closing
     ELSE /\ closing' = [closing EXCEPT ![cur[t]] = TRUE]
          /\ Goto(t, "leave")
          /\ UNCHANGED ret
  /\ UNCHANGED <<memVars, sendVars, sockVars, list, queueVars, boardVars,
                 cur, tickVars, mainVars>>

CloseLeave(t) ==
  /\ At(t, "leave")
  /\ PushLife("Leave", cur[t])
  /\ Goto(t, "unlist")
  /\ UNCHANGED <<alloc, closing, sendVars, sockVars, list, pkts, lives, jobs,
                 boardVars, cur, ret, tickVars, mainVars>>

CloseUnlist(t) ==
  /\ At(t, "unlist")
  /\ list' = list \ {cur[t]}
  /\ Goto(t, "shutdown")
  /\ UNCHANGED <<memVars, closing, sendVars, sockVars, queueVars, boardVars,
                 cur, ret, tickVars, mainVars>>

\* Mutant of CloseShutdown: the socket stays up.
CloseShutdownNot(t) ==
  /\ At(t, "shutdown")
  /\ Goto(t, "unref")
  /\ UNCHANGED <<memVars, closing, sendVars, sockVars, list, queueVars,
                 boardVars, cur, ret, tickVars, mainVars>>

CloseShutdown(t) ==
  /\ At(t, "shutdown")
  /\ shut' = shut \cup {cur[t]}
  /\ Goto(t, "unref")
  /\ UNCHANGED <<memVars, closing, sendVars, recvIO, sendIO, assoc, list,
                 queueVars, boardVars, cur, ret, tickVars, mainVars>>

CloseUnref(t) ==
  /\ At(t, "unref")
  /\ Release(cur[t])
  /\ Return(t)
  /\ UNCHANGED <<closing, sendVars, sockVars, list, queueVars, boardVars,
                 cur, tickVars, mainVars>>

CloseSession(t) ==
  \/ CloseExchange(t) \/ CloseLeave(t) \/ CloseUnlist(t)
  \/ CloseShutdown(t) \/ CloseUnref(t)

-----------------------------------------------------------------------------
(* PostRecv, on main (the first order) and on the workers.                 *)

AfterRecv(t) == IF t = "main" THEN "mainref" ELSE "ioref"

RecvRef(t) ==
  /\ At(t, "recvref")
  /\ AddRef(cur[t])
  /\ Goto(t, "wsarecv")
  /\ UNCHANGED <<alloc, closing, sendVars, sockVars, list, queueVars,
                 boardVars, cur, ret, tickVars, mainVars>>

RecvPosted(t) ==
  /\ At(t, "wsarecv")
  /\ cur[t] \notin shut
  /\ recvIO' = [recvIO EXCEPT ![cur[t]] = "posted"]
  /\ Goto(t, AfterRecv(t))
  /\ UNCHANGED <<memVars, closing, sendVars, sendIO, assoc, shut, list,
                 queueVars, boardVars, cur, ret, tickVars, mainVars>>

\* Mutants of RecvFailed: the reference is kept; the caller goes on.
RecvFailedKeep(t) ==
  /\ At(t, "wsarecv")
  /\ CallClose(t, AfterRecv(t))
  /\ UNCHANGED <<memVars, closing, sendVars, sockVars, list, queueVars,
                 boardVars, cur, tickVars, mainVars>>
RecvFailedIgnored(t) ==
  /\ At(t, "wsarecv")
  /\ Release(cur[t])
  /\ Goto(t, AfterRecv(t))
  /\ UNCHANGED <<closing, sendVars, sockVars, list, queueVars, boardVars,
                 cur, ret, tickVars, mainVars>>

\* WSARecv fails on the spot: give the reference back, then CloseSession.
RecvFailed(t) ==
  /\ At(t, "wsarecv")
  /\ Release(cur[t])
  /\ CallClose(t, AfterRecv(t))
  /\ UNCHANGED <<closing, sendVars, sockVars, list, queueVars, boardVars,
                 cur, tickVars, mainVars>>

PostRecv(t) == RecvRef(t) \/ RecvPosted(t) \/ RecvFailed(t)

-----------------------------------------------------------------------------
(* StartSend, on the tick thread (from SendPacket) and on the workers.     *)

AfterSend(t) == IF t = "tick" THEN "sent" ELSE "ioref"

SendRef(t) ==
  /\ At(t, "sendref")
  /\ AddRef(cur[t])
  /\ Goto(t, "wsasend")
  /\ UNCHANGED <<alloc, closing, sendVars, sockVars, list, queueVars,
                 boardVars, cur, ret, tickVars, mainVars>>

SendPosted(t) ==
  /\ At(t, "wsasend")
  /\ cur[t] \notin shut
  /\ sendIO' = [sendIO EXCEPT ![cur[t]] = "posted"]
  /\ Goto(t, AfterSend(t))
  /\ UNCHANGED <<memVars, closing, sendVars, recvIO, assoc, shut, list,
                 queueVars, boardVars, cur, ret, tickVars, mainVars>>

\* WSASend fails on the spot: CloseSession first, the reference goes last.
SendFailed(t) ==
  /\ At(t, "wsasend")
  /\ EarlyClose \/ ~InSetup(cur[t])
  /\ CallClose(t, "senddrop")
  /\ UNCHANGED <<memVars, closing, sendVars, sockVars, list, queueVars,
                 boardVars, cur, tickVars, mainVars>>

SendDrop(t) ==
  /\ At(t, "senddrop")
  /\ Release(cur[t])
  /\ Goto(t, AfterSend(t))
  /\ UNCHANGED <<closing, sendVars, sockVars, list, queueVars, boardVars,
                 cur, ret, tickVars, mainVars>>

StartSend(t) == SendRef(t) \/ SendPosted(t) \/ SendFailed(t) \/ SendDrop(t)

-----------------------------------------------------------------------------
(* main: the accept loop.                                                  *)

\* new Session with two references, the list's and main's own.
Accept(s) ==
  /\ At("main", "accept")
  /\ s \notin alloc
  /\ alloc' = alloc \cup {s}
  /\ ref' = [ref EXCEPT ![s] = 2]
  /\ closing' = [closing EXCEPT ![s] = FALSE]
  /\ sending' = [sending EXCEPT ![s] = FALSE]
  /\ queued' = [queued EXCEPT ![s] = 0]
  /\ recvIO' = [recvIO EXCEPT ![s] = "none"]
  /\ sendIO' = [sendIO EXCEPT ![s] = "none"]
  /\ assoc' = assoc \ {s} /\ shut' = shut \ {s}
  /\ Take("main", s)
  /\ Goto("main", "add")
  /\ UNCHANGED <<list, queueVars, boardVars, ret, tickVars, mainVars>>

AddSession ==
  /\ At("main", "add")
  /\ Cardinality(list) < MaxSession
  /\ list' = list \cup {cur["main"]}
  /\ Goto("main", "associate")
  /\ UNCHANGED <<memVars, closing, sendVars, sockVars, queueVars, boardVars,
                 cur, ret, tickVars, mainVars>>

\* No entry is free: nobody else can see the session, both references go.
ListFull ==
  /\ At("main", "add")
  /\ Cardinality(list) = MaxSession
  /\ ref' = [ref EXCEPT ![cur["main"]] = 0]
  /\ alloc' = alloc \ {cur["main"]}
  /\ Drop("main")
  /\ Goto("main", "accept")
  /\ UNCHANGED <<closing, sendVars, sockVars, list, queueVars, boardVars,
                 ret, tickVars, mainVars>>

Associate ==
  /\ At("main", "associate")
  /\ \/ assoc' = assoc \cup {cur["main"]} /\ Goto("main", "enter") /\ UNCHANGED ret
     \/ CallClose("main", "mainref") /\ UNCHANGED assoc
  /\ UNCHANGED <<memVars, closing, sendVars, recvIO, sendIO, shut, list,
                 queueVars, boardVars, cur, tickVars, mainVars>>

\* The result of PushJob is not looked at.
PushEnter ==
  /\ At("main", "enter")
  /\ PushLife("Enter", cur["main"])
  /\ Goto("main", "recvref")
  /\ UNCHANGED <<alloc, closing, sendVars, sockVars, list, pkts, lives, jobs,
                 boardVars, cur, ret, tickVars, mainVars>>

MainRelease ==
  /\ At("main", "mainref")
  /\ Release(cur["main"])
  /\ Drop("main")
  /\ Goto("main", "accept")
  /\ UNCHANGED <<closing, sendVars, sockVars, list, queueVars, boardVars,
                 ret, tickVars, mainVars>>

-----------------------------------------------------------------------------
(* main: the shutdown path, once a signal has closed the listen socket.    *)

\* Mutant of CollectAll: the tick thread is stopped first.
CollectAllStop ==
  /\ At("main", "accept")
  /\ leftovers' = list
  /\ ref' = [s \in Session |-> IF s \in list THEN ref[s] + 1 ELSE ref[s]]
  /\ running' = FALSE
  /\ Goto("main", "closenext")
  /\ UNCHANGED <<alloc, closing, sendVars, sockVars, list, queueVars,
                 boardVars, cur, ret, tickVars>>

\* CloseAllSessions: hold every listed session, under the list's lock ...
CollectAll ==
  /\ At("main", "accept")
  /\ leftovers' = list
  /\ ref' = [s \in Session |-> IF s \in list THEN ref[s] + 1 ELSE ref[s]]
  /\ Goto("main", "closenext")
  /\ UNCHANGED <<alloc, closing, sendVars, sockVars, list, queueVars,
                 boardVars, cur, ret, tickVars, running>>

\* ... and close them one by one outside it.
CloseNext(s) ==
  /\ At("main", "closenext")
  /\ s \in leftovers
  /\ leftovers' = leftovers \ {s}
  /\ Take("main", s)
  /\ CallClose("main", "closeref")
  /\ UNCHANGED <<memVars, closing, sendVars, sockVars, list, queueVars,
                 boardVars, tickVars, running>>

CloseRef ==
  /\ At("main", "closeref")
  /\ Release(cur["main"])
  /\ Drop("main")
  /\ Goto("main", "closenext")
  /\ UNCHANGED <<closing, sendVars, sockVars, list, queueVars, boardVars,
                 ret, tickVars, mainVars>>

\* Wait for g_live_sessions = 0 (or two seconds), then stop the tick thread.
Drain ==
  /\ At("main", "closenext")
  /\ leftovers = {}
  /\ alloc = {} \/ Deadline
  /\ running' = FALSE
  /\ Goto("main", "join")
  /\ UNCHANGED <<memVars, closing, sendVars, sockVars, list, queueVars,
                 boardVars, cur, ret, tickVars, leftovers>>

\* The tick thread has returned: one exit completion for every worker.
Join ==
  /\ At("main", "join")
  /\ At("tick", "stopped") \/ Deadline
  /\ Goto("main", "exits")
  /\ UNCHANGED <<memVars, closing, sendVars, sockVars, list, queueVars,
                 boardVars, cur, ret, tickVars, mainVars>>

Exit ==
  /\ At("main", "exits")
  /\ Deadline \/ \A w \in Worker : At(w, "stopped")
  /\ Goto("main", "stopped")
  /\ UNCHANGED <<memVars, closing, sendVars, sockVars, list, queueVars,
                 boardVars, cur, ret, tickVars, mainVars>>

Main ==
  \/ \E s \in Session : Accept(s) \/ CloseNext(s)
  \/ AddSession \/ ListFull \/ Associate \/ PushEnter \/ MainRelease
  \/ CollectAll \/ CloseRef \/ Drain \/ Join \/ Exit
  \/ PostRecv("main") \/ CloseSession("main")

-----------------------------------------------------------------------------
(* The workers.                                                            *)

\* A recv completes: with data, or (0 bytes, or an error) as the end.
TakeRecv(w, s) ==
  /\ At(w, "idle")
  /\ recvIO[s] = "posted"
  /\ recvIO' = [recvIO EXCEPT ![s] = "none"]
  /\ Take(w, s)
  /\ \/ s \notin shut /\ Goto(w, "process") /\ UNCHANGED ret
     \/ CallClose(w, "ioref")
  /\ UNCHANGED <<memVars, closing, sendVars, sendIO, assoc, shut, list,
                 queueVars, boardVars, tickVars, mainVars>>

\* Mutant of ProcessPacket: the bound of the job buffer is off by one.
ProcessPacketOver(w) ==
  /\ At(w, "process")
  /\ IF Len(pkts) <= MaxJob
     THEN /\ pkts' = Append(pkts, cur[w])
          /\ AddRef(cur[w])
          /\ Goto(w, IF closing[cur[w]] THEN "repost" ELSE "process")
          /\ UNCHANGED ret
     ELSE CallClose(w, "repost") /\ UNCHANGED <<pkts, ref>>
  /\ UNCHANGED <<alloc, closing, sendVars, sockVars, list, life, lives, jobs,
                 boardVars, cur, tickVars, mainVars>>

\* ProcessPackets: one complete packet becomes a job; a full buffer closes.
ProcessPacket(w) ==
  /\ At(w, "process")
  /\ IF Len(pkts) < MaxJob
     THEN /\ pkts' = Append(pkts, cur[w])
          /\ AddRef(cur[w])
          /\ Goto(w, IF closing[cur[w]] THEN "repost" ELSE "process")
          /\ UNCHANGED ret
     ELSE CallClose(w, "repost") /\ UNCHANGED <<pkts, ref>>
  /\ UNCHANGED <<alloc, closing, sendVars, sockVars, list, life, lives, jobs,
                 boardVars, cur, tickVars, mainVars>>

\* No complete packet is left, or the size in a header is absurd.
ProcessEnd(w) ==
  /\ At(w, "process")
  /\ \/ Goto(w, "repost") /\ UNCHANGED ret
     \/ CallClose(w, "repost")
  /\ UNCHANGED <<memVars, closing, sendVars, sockVars, list, queueVars,
                 boardVars, cur, tickVars, mainVars>>

Repost(w) ==
  /\ At(w, "repost")
  /\ Goto(w, IF closing[cur[w]] THEN "ioref" ELSE "recvref")
  /\ UNCHANGED <<memVars, closing, sendVars, sockVars, list, queueVars,
                 boardVars, cur, ret, tickVars, mainVars>>

\* A send completes.  Only a socket bound to the port gets that far.
TakeSend(w, s) ==
  /\ At(w, "idle")
  /\ sendIO[s] = "posted"
  /\ s \in assoc
  /\ sendIO' = [sendIO EXCEPT ![s] = "none"]
  /\ Take(w, s)
  /\ \/ Goto(w, "onsent") /\ UNCHANGED ret
     \/ (EarlyClose \/ ~InSetup(s)) /\ CallClose(w, "ioref")
  /\ UNCHANGED <<memVars, closing, sendVars, recvIO, assoc, shut, list,
                 queueVars, boardVars, tickVars, mainVars>>

\* Under send_lock: n packets left; if none remain the flag comes down.
OnSent(w) ==
  /\ At(w, "onsent")
  /\ \E n \in 1 .. queued[cur[w]] :
       /\ queued' = [queued EXCEPT ![cur[w]] = @ - n]
       /\ IF n < queued[cur[w]]
          THEN Goto(w, "more") /\ UNCHANGED sending
          ELSE /\ sending' = [sending EXCEPT ![cur[w]] = FALSE]
               /\ Goto(w, "ioref")
  /\ UNCHANGED <<memVars, closing, sockVars, list, queueVars, boardVars,
                 cur, ret, tickVars, mainVars>>

SendMore(w) ==
  /\ At(w, "more")
  /\ Goto(w, IF closing[cur[w]] THEN "ioref" ELSE "sendref")
  /\ UNCHANGED <<memVars, closing, sendVars, sockVars, list, queueVars,
                 boardVars, cur, ret, tickVars, mainVars>>

IoRelease(w) ==
  /\ At(w, "ioref")
  /\ Release(cur[w])
  /\ Drop(w)
  /\ Goto(w, "idle")
  /\ UNCHANGED <<closing, sendVars, sockVars, list, queueVars, boardVars,
                 ret, tickVars, mainVars>>

WorkerExit(w) ==
  /\ At(w, "idle")
  /\ At("main", "exits")
  /\ Goto(w, "stopped")
  /\ UNCHANGED <<memVars, closing, sendVars, sockVars, list, queueVars,
                 boardVars, cur, ret, tickVars, mainVars>>

WorkerStep(w) ==
  \/ \E s \in Session : TakeRecv(w, s) \/ TakeSend(w, s)
  \/ ProcessPacket(w) \/ ProcessEnd(w) \/ Repost(w)
  \/ OnSent(w) \/ SendMore(w) \/ IoRelease(w) \/ WorkerExit(w)
  \/ PostRecv(w) \/ StartSend(w) \/ CloseSession(w)

\* A send started before the socket was bound may complete unheard.
CompletionLost(s) ==
  /\ sendIO[s] = "posted"
  /\ s \notin assoc
  /\ sendIO' = [sendIO EXCEPT ![s] = "lost"]
  /\ UNCHANGED <<memVars, closing, sendVars, recvIO, assoc, shut, list,
                 queueVars, boardVars, threadVars, tickVars, mainVars>>

-----------------------------------------------------------------------------
(* The tick thread.  mode says which loop is sending: "welcome" to one     *)
(* newcomer, "echo" (Broadcast), "redeal" (a new map, to everyone on the   *)
(* board) or "aoi" (snapshots and events).  "echo" and "aoi" took their    *)
(* targets from the list with a reference each; the others hold none.      *)

Swap ==
  /\ At("tick", "swap")
  /\ IF running
     THEN /\ lives' = life /\ jobs' = pkts
          /\ life' = <<>> /\ pkts' = <<>>
          /\ Goto("tick", "life")
     ELSE Goto("tick", "stopped") /\ UNCHANGED queueVars
  /\ UNCHANGED <<memVars, closing, sendVars, sockVars, list, boardVars,
                 cur, ret, tickVars, mainVars>>

\* AddPlayer, or AddViewer when the room is full; then SendWelcome, unless
\* a new map is due this tick anyway.
HandleEnter ==
  /\ At("tick", "life")
  /\ lives # <<>> /\ Head(lives).type = "Enter"
  /\ LET s == Head(lives).s IN
       /\ IF Cardinality(seated) < MaxSeat
          THEN seated' = seated \cup {s} /\ UNCHANGED viewers
          ELSE /\ viewers' = IF Cardinality(viewers) < MaxSession
                             THEN viewers \cup {s} ELSE viewers
               /\ UNCHANGED seated
       /\ \/ /\ Take("tick", s) /\ mode' = "welcome"
             /\ Goto("tick", "sendpacket")
          \/ Goto("tick", "liferef") /\ UNCHANGED <<cur, mode>>
  /\ UNCHANGED <<memVars, closing, sendVars, sockVars, list, queueVars,
                 ret, targets, mainVars>>

HandleLeave ==
  /\ At("tick", "life")
  /\ lives # <<>> /\ Head(lives).type = "Leave"
  /\ seated' = seated \ {Head(lives).s}
  /\ viewers' = viewers \ {Head(lives).s}
  /\ Goto("tick", "liferef")
  /\ UNCHANGED <<memVars, closing, sendVars, sockVars, list, queueVars,
                 cur, ret, tickVars, mainVars>>

LifeRef ==
  /\ At("tick", "liferef")
  /\ Release(Head(lives).s)
  /\ lives' = Tail(lives)
  /\ Goto("tick", "life")
  /\ UNCHANGED <<closing, sendVars, sockVars, list, life, pkts, jobs,
                 boardVars, cur, ret, tickVars, mainVars>>

\* Take references on some of the listed sessions, under the list's lock.
Collect(some, m) ==
  /\ targets' = some
  /\ ref' = [s \in Session |-> IF s \in some THEN ref[s] + 1 ELSE ref[s]]
  /\ mode' = m
  /\ Goto("tick", "next")

Open == {s \in list : ~closing[s]}

\* HandleJob of a packet: a move or a bubble, a bad packet, or an echo.
HandlePacket ==
  /\ At("tick", "life")
  /\ lives = <<>> /\ jobs # <<>>
  /\ \/ /\ Goto("tick", "jobref")
        /\ UNCHANGED <<ref, cur, ret, tickVars>>
     \/ /\ Take("tick", Head(jobs)) /\ CallClose("tick", "jobref")
        /\ UNCHANGED <<ref, tickVars>>
     \/ Collect(Open, "echo") /\ UNCHANGED <<cur, ret>>
  /\ UNCHANGED <<alloc, closing, sendVars, sockVars, list, queueVars,
                 boardVars, mainVars>>

JobRef ==
  /\ At("tick", "jobref")
  /\ Release(Head(jobs))
  /\ jobs' = Tail(jobs)
  /\ Drop("tick")
  /\ Goto("tick", "life")
  /\ UNCHANGED <<closing, sendVars, sockVars, list, life, pkts, lives,
                 boardVars, ret, tickVars, mainVars>>

\* GameTick: nothing new, or a new map - SeatViewers, then welcome everyone.
Game ==
  /\ At("tick", "life")
  /\ lives = <<>> /\ jobs = <<>>
  /\ \/ Goto("tick", "collect") /\ UNCHANGED <<boardVars, tickVars>>
     \/ \E up \in SUBSET viewers :
          /\ Cardinality(seated) + Cardinality(up) <= MaxSeat
          /\ up = viewers \/ Cardinality(seated) + Cardinality(up) = MaxSeat
          /\ seated' = seated \cup up
          /\ viewers' = viewers \ up
          /\ targets' = seated \cup viewers
          /\ mode' = "redeal"
          /\ Goto("tick", "next")
  /\ UNCHANGED <<memVars, closing, sendVars, sockVars, list, queueVars,
                 cur, ret, mainVars>>

\* SendSnapshot and FlushEvents: some watchers of one sector or one event.
CollectTargets ==
  /\ At("tick", "collect")
  /\ \E some \in SUBSET Open : some # {} /\ Collect(some, "aoi")
  /\ UNCHANGED <<alloc, closing, sendVars, sockVars, list, queueVars,
                 boardVars, cur, ret, mainVars>>

TickEnd ==
  /\ At("tick", "collect")
  /\ Goto("tick", "swap")
  /\ UNCHANGED <<memVars, closing, sendVars, sockVars, list, queueVars,
                 boardVars, cur, ret, tickVars, mainVars>>

NextTarget ==
  /\ At("tick", "next")
  /\ IF targets = {}
     THEN /\ Goto("tick", IF mode = "echo" THEN "jobref" ELSE "collect")
          /\ mode' = "none"
          /\ UNCHANGED <<cur, targets>>
     ELSE \E s \in targets :
            /\ targets' = targets \ {s}
            /\ Take("tick", s)
            /\ Goto("tick", "sendpacket")
            /\ UNCHANGED mode
  /\ UNCHANGED <<memVars, closing, sendVars, sockVars, list, queueVars,
                 boardVars, ret, mainVars>>

\* SendPacket looks at the closing flag first, without the lock.
SendCheck ==
  /\ At("tick", "sendpacket")
  /\ Goto("tick", IF closing[cur["tick"]] THEN "sent" ELSE "push")
  /\ UNCHANGED <<memVars, closing, sendVars, sockVars, list, queueVars,
                 boardVars, cur, ret, tickVars, mainVars>>

\* Under send_lock: queue the packet, and raise the flag if it is down.
SendPush ==
  /\ At("tick", "push")
  /\ LET s == cur["tick"] IN
       /\ queued[s] < SendCap
       /\ queued' = [queued EXCEPT ![s] = @ + 1]
       /\ sending' = [sending EXCEPT ![s] = TRUE]
       /\ Goto("tick", IF sending[s] THEN "sent" ELSE "sendref")
  /\ UNCHANGED <<memVars, closing, sockVars, list, queueVars, boardVars,
                 cur, ret, tickVars, mainVars>>

\* The peer does not read: the packet does not fit, give it up.
SendFull ==
  /\ At("tick", "push")
  /\ queued[cur["tick"]] = SendCap
  /\ EarlyClose \/ ~InSetup(cur["tick"])
  /\ CallClose("tick", "sent")
  /\ UNCHANGED <<memVars, closing, sendVars, sockVars, list, queueVars,
                 boardVars, cur, tickVars, mainVars>>

\* SendPacket is over; Broadcast and SendTargets let their target go.
Sent ==
  /\ At("tick", "sent")
  /\ IF mode \in {"echo", "aoi"}
     THEN Release(cur["tick"]) ELSE UNCHANGED memVars
  /\ Drop("tick")
  /\ Goto("tick", IF mode = "welcome" THEN "liferef" ELSE "next")
  /\ mode' = IF mode = "welcome" THEN "none" ELSE mode
  /\ UNCHANGED <<closing, sendVars, sockVars, list, queueVars, boardVars,
                 ret, targets, mainVars>>

Tick ==
  \/ Swap \/ HandleEnter \/ HandleLeave \/ LifeRef \/ HandlePacket \/ JobRef
  \/ Game \/ CollectTargets \/ TickEnd \/ NextTarget
  \/ SendCheck \/ SendPush \/ SendFull \/ Sent
  \/ StartSend("tick") \/ CloseSession("tick")

-----------------------------------------------------------------------------
\* main has returned: the process is gone.
Terminated == At("main", "stopped") /\ UNCHANGED vars

Next ==
  \/ /\ ~At("main", "stopped")
     /\ \/ Main \/ Tick
        \/ \E w \in Worker : WorkerStep(w)
        \/ \E s \in Session : CompletionLost(s)
  \/ Terminated

Spec == Init /\ [][Next]_vars

-----------------------------------------------------------------------------
(* Fairness: every thread keeps running, a tick's sends are finitely many, *)
(* a chunk of bytes holds finitely many packets, and the port hands the    *)
(* completions of a shut-down socket out in order, so none waits forever.  *)

Fairness ==
  /\ WF_vars(Tick) /\ SF_vars(TickEnd)
  /\ \A w \in Worker : WF_vars(WorkerStep(w) /\ pc[w] # "idle")
                     /\ SF_vars(ProcessEnd(w))
                     /\ WF_vars(WorkerExit(w))
  /\ \A s \in Session : SF_vars(s \in shut /\ \E w \in Worker : TakeRecv(w, s))
                      /\ SF_vars(s \in shut /\ \E w \in Worker : TakeSend(w, s))
                      /\ WF_vars(s \in shut /\ CompletionLost(s))
  /\ WF_vars(Main /\ pc["main"] # "accept")

FairSpec == Spec /\ Fairness

-----------------------------------------------------------------------------
(* Properties.                                                             *)

Label == {"none", "exchange", "leave", "unlist", "shutdown", "unref",
          "recvref", "wsarecv", "sendref", "wsasend", "senddrop",
          "accept", "add", "associate", "enter", "mainref",
          "closenext", "closeref", "join", "exits", "stopped",
          "idle", "process", "repost", "onsent", "more", "ioref",
          "swap", "life", "liferef", "jobref", "collect", "next",
          "sendpacket", "push", "sent"}

TypeOK ==
  /\ alloc \subseteq Session
  /\ ref \in [Session -> Int]
  /\ closing \in [Session -> BOOLEAN]
  /\ sending \in [Session -> BOOLEAN]
  /\ queued \in [Session -> 0 .. SendCap]
  /\ recvIO \in [Session -> {"none", "posted"}]
  /\ sendIO \in [Session -> {"none", "posted", "lost"}]
  /\ assoc \subseteq Session /\ shut \subseteq Session /\ list \subseteq Session
  /\ life \in Seq(LifeJob) /\ Len(life) <= MaxLife
  /\ lives \in Seq(LifeJob) /\ Len(lives) <= MaxLife
  /\ pkts \in Seq(Session) /\ Len(pkts) <= MaxJob
  /\ jobs \in Seq(Session) /\ Len(jobs) <= MaxJob
  /\ seated \subseteq Session /\ viewers \subseteq Session
  /\ pc \in [Thread -> Label]
  /\ cur \in [Thread -> Session \cup {NoSession}]
  /\ ret \in [Thread -> Label]
  /\ targets \subseteq Session /\ leftovers \subseteq Session
  /\ mode \in {"none", "welcome", "echo", "redeal", "aoi"}
  /\ running \in BOOLEAN

\* Steps in which a thread has no session in hand, and those of SendPacket.
FreeSteps == {"none", "accept", "closenext", "join", "exits", "stopped", "idle",
              "swap", "life", "liferef", "jobref", "collect", "next"}
CloseSteps == {"leave", "unlist", "shutdown", "unref"}
SendSteps == {"next", "sendpacket", "push", "sent", "sendref", "wsasend",
              "senddrop", "exchange"} \cup CloseSteps

\* Where the threads stand: a step that touches a session has one in hand, and
\* the tick thread finishes the job at the head of its batch before the next.
StepsOK ==
  /\ \A t \in Thread : pc[t] \notin FreeSteps => cur[t] \in Session
  /\ mode # "none" => pc["tick"] \in SendSteps
  /\ ret["tick"] # "none" <=> pc["tick"] \in {"exchange"} \cup CloseSteps
  /\ ret["tick"] \in {"none", "sent", "senddrop", "jobref"}
  /\ pc["tick"] = "liferef" \/ mode = "welcome" => lives # <<>>
  /\ pc["tick"] = "jobref" \/ mode = "echo" => jobs # <<>>
  /\ ret["tick"] = "jobref" => jobs # <<>> /\ mode = "none"

\* Every variable has its type, no buffer outgrows its array, and the threads
\* stand where they should: the fact every other proof starts from.
TypeInv == TypeOK /\ StepsOK

Has(t, s, labels) == cur[t] = s /\ pc[t] \in labels
Count(b) == IF b THEN 1 ELSE 0
Times(q, s) == Cardinality({i \in DOMAIN q : q[i] = s})
LifeTimes(q, s) == Cardinality({i \in DOMAIN q : q[i].s = s})

\* Whoever holds a reference on s, each place of the code once.
Holders(s) ==
  Count(\/ s \in list \/ Has("main", s, {"add"})
        \/ \E t \in Thread : Has(t, s, {"shutdown", "unref"}))
  + Count(cur["main"] = s) + Count(s \in leftovers)
  + LifeTimes(life, s) + LifeTimes(lives, s) + Times(pkts, s) + Times(jobs, s)
  + Count(recvIO[s] # "none") + Count(sendIO[s] # "none")
  + Cardinality({w \in Worker : cur[w] = s})
  + Cardinality({t \in Thread : Has(t, s, {"wsarecv", "wsasend", "senddrop"})
                                \/ (cur[t] = s /\ ret[t] = "senddrop")})
  + Count(mode \in {"echo", "aoi"} /\ s \in targets)
  + Count(mode \in {"echo", "aoi"} /\ cur["tick"] = s)

\* Every reference is counted once and given back once (the "[Ref]" line at
\* the end of main): ref_count is the number of holders, on every interleaving.
RefsBalance == \A s \in Session : ref[s] = Holders(s)

\* No thread ever reaches a deleted Session: not through the session it has
\* in hand, nor the list, nor the pointers the tick thread keeps in
\* g_game.players, g_viewers and its welcome loop without any reference.
NoUseAfterFree ==
  /\ \A t \in Thread : cur[t] # NoSession => cur[t] \in alloc
  /\ list \cup seated \cup viewers \cup targets \cup leftovers \subseteq alloc

LeaveQueued(s) ==
  \E q \in {life, lives} : \E i \in DOMAIN q : q[i] = [type |-> "Leave", s |-> s]

\* Nobody is left on the board as a ghost: a session on the board is still
\* listed and open, or its Leave is on the way to the tick thread.
NoGhost ==
  \A s \in seated \cup viewers :
     \/ s \in list /\ ~closing[s]
     \/ \E t \in Thread : Has(t, s, {"leave"})
     \/ LeaveQueued(s)

EnterQueued(s) ==
  \E q \in {life, lives} : \E i \in DOMAIN q : q[i] = [type |-> "Enter", s |-> s]

AboutToClose(s) == \E t \in Thread : Has(t, s, {"exchange"})

\* A session has at most one Enter and one Leave waiting at a time, the Enter
\* first, however many threads close it.
LifeOnce ==
  \A q \in {lives \o life} : \A i, j \in DOMAIN q :
     i < j /\ q[i].s = q[j].s => q[i].type = "Enter" /\ q[j].type = "Leave"

\* An open session that main has announced waits in the queue or is on the board.
NobodyForgotten ==
  \A s \in list : \/ closing[s] \/ AboutToClose(s) \/ InSetup(s) \/ EnterQueued(s)
                 \/ s \in seated \cup viewers

\* Whoever is accepted enters the board once and leaves it once: no Enter or Leave
\* is crowded out of the queue by packets (they have a buffer of their own), and
\* nobody is accepted and forgotten.
ComesAndGoes == LifeOnce /\ NobodyForgotten

RecvOwners(s) ==
  Count(recvIO[s] = "posted")
  + Cardinality({t \in Thread : Has(t, s, {"recvref", "wsarecv", "process", "repost"})
                                \/ (cur[t] = s /\ ret[t] = "repost")})

\* recv_buf and recv_io: once announced, an open session has an owner that will
\* post the next order, or somebody is about to close it.
RecvOwned ==
  \A s \in alloc :
    /\ RecvOwners(s) <= 1
    /\ s \in list /\ ~closing[s] /\ ~InSetup(s) => RecvOwners(s) = 1 \/ AboutToClose(s)

SendOwners(s) ==
  Count(sendIO[s] # "none")
  + Cardinality({t \in Thread : Has(t, s, {"sendref", "wsasend", "onsent", "more"})})

\* send_io: the tick thread and any worker may start a send; an open session with
\* packets left has one under way, or somebody is about to close it.
SendOwned ==
  \A s \in alloc :
    /\ SendOwners(s) <= 1
    /\ SendOwners(s) = 1 => sending[s]
    /\ queued[s] > 0 /\ ~closing[s] => SendOwners(s) = 1 \/ AboutToClose(s)

\* Each OVERLAPPED and its buffer have one owner at a time - the order in the
\* kernel or one thread - and no open session goes deaf or dumb: nobody's next
\* order is forgotten and no queued packet is stranded.
BuffersOwned == RecvOwned /\ SendOwned

\* A closed session is deleted in the end: closing stops new orders, shutdown
\* ends the posted ones, and every holder lets go - unless the system lost
\* the completion of a send that was started before the socket was bound.
ClosedIsFreed ==
  \A s \in Session : closing[s] /\ s \in alloc ~> s \notin alloc \/ sendIO[s] = "lost"

\* After a signal main gets all the way out: sessions first, then the tick
\* thread, then the workers - in this order nobody waits for a thread that
\* has already gone.
ShutdownEnds ==
  At("main", "closenext") ~> At("main", "stopped") \/ \E s \in Session : sendIO[s] = "lost"

=============================================================================
