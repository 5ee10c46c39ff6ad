----------------------- MODULE SessionLifecycleProofs -----------------------
(***************************************************************************)
(* Proofs about SessionLifecycle, for every set of addresses and workers   *)
(* and every capacity.                                                     *)
(***************************************************************************)
EXTENDS SessionLifecycle, SequenceTheorems, FiniteSetTheorems, FunctionTheorems, TLAPS

USE ConstantsAssumption

\* Taking the first job of a batch and dropping it keeps the batch a batch.
LEMMA HeadTail ==
  ASSUME NEW S, NEW q \in Seq(S), q # <<>>
  PROVE  /\ Head(q) \in S
         /\ Tail(q) \in Seq(S)
         /\ Len(Tail(q)) = Len(q) - 1
  BY HeadTailProperties

\* Queueing one more job keeps a batch a batch.
LEMMA Appended ==
  ASSUME NEW S, NEW q \in Seq(S), NEW x \in S
  PROVE  /\ Append(q, x) \in Seq(S)
         /\ Len(Append(q, x)) = Len(q) + 1
  BY AppendProperties

\* A thread that moves on to a step of the program, calls or returns.
LEMMA Moves ==
  ASSUME TypeInv, NEW t \in Thread
  PROVE  /\ \A l \in Label : Goto(t, l) =>
              /\ pc' \in [Thread -> Label] /\ pc'[t] = l
              /\ \A u \in Thread \ {t} : pc'[u] = pc[u]
         /\ Return(t) =>
              /\ pc' \in [Thread -> Label] /\ pc'[t] = ret[t]
              /\ \A u \in Thread \ {t} : pc'[u] = pc[u] /\ ret'[u] = ret[u]
              /\ ret' \in [Thread -> Label] /\ ret'[t] = "none"
         /\ \A l \in Label : CallClose(t, l) =>
              /\ pc' \in [Thread -> Label] /\ pc'[t] = "exchange"
              /\ \A u \in Thread \ {t} : pc'[u] = pc[u] /\ ret'[u] = ret[u]
              /\ ret' \in [Thread -> Label] /\ ret'[t] = l
<1>1. "exchange" \in Label /\ "none" \in Label
  BY DEF Label
<1>2. pc \in [Thread -> Label] /\ ret \in [Thread -> Label]
  BY DEF TypeInv, TypeOK
<1> QED BY <1>1, <1>2 DEF Goto, Return, CallClose

\* What a thread takes in hand or lets go of, and the references it moves.
LEMMA Holds ==
  ASSUME TypeInv, NEW t \in Thread
  PROVE  /\ \A s \in Session : Take(t, s) =>
              /\ cur' \in [Thread -> Session \cup {NoSession}] /\ cur'[t] = s
              /\ \A u \in Thread \ {t} : cur'[u] = cur[u]
         /\ Drop(t) =>
              /\ cur' \in [Thread -> Session \cup {NoSession}]
              /\ \A u \in Thread \ {t} : cur'[u] = cur[u]
         /\ \A s : AddRef(s) => ref' \in [Session -> Int]
         /\ \A s : Release(s) => ref' \in [Session -> Int] /\ alloc' \subseteq Session
<1>1. cur \in [Thread -> Session \cup {NoSession}] /\ ref \in [Session -> Int]
      /\ alloc \subseteq Session
  BY DEF TypeInv, TypeOK
<1> QED BY <1>1 DEF Take, Drop, AddRef, Release

\* PushJob of an Enter or a Leave.
LEMMA Queued ==
  ASSUME TypeInv, NEW type \in JobType, NEW s \in Session, PushLife(type, s)
  PROVE  /\ life' \in Seq(LifeJob) /\ Len(life') <= MaxLife
         /\ ref' \in [Session -> Int]
<1>1. life \in Seq(LifeJob) /\ Len(life) <= MaxLife /\ ref \in [Session -> Int]
  BY DEF TypeInv, TypeOK
<1>2. [type |-> type, s |-> s] \in LifeJob
  BY DEF LifeJob
<1>3. CASE Len(life) < MaxLife
  <2>1. life' = Append(life, [type |-> type, s |-> s]) /\ AddRef(s)
    BY <1>3 DEF PushLife
  <2>2. Len(life) \in Nat
    BY <1>1, LenProperties
  <2>3. life' \in Seq(LifeJob) /\ Len(life') = Len(life) + 1
    BY <1>1, <1>2, <2>1, Appended
  <2> QED BY <1>1, <1>3, <2>1, <2>2, <2>3 DEF AddRef
<1>4. CASE ~(Len(life) < MaxLife)
  BY <1>1, <1>4 DEF PushLife
<1> QED BY <1>3, <1>4

\* A step of main or a worker disturbs nothing StepsOK says of the tick thread.
LEMMA NotTick ==
  ASSUME TypeInv, NEW t \in Thread \ {"tick"},
         \A u \in Thread \ {t} : pc'[u] = pc[u] /\ ret'[u] = ret[u] /\ cur'[u] = cur[u],
         pc'[t] \in FreeSteps \/ cur'[t] \in Session,
         UNCHANGED <<mode, lives, jobs>>
  PROVE  StepsOK'
<1>1. StepsOK /\ "tick" \in Thread \ {t}
  BY DEF TypeInv, Thread
<1>2. /\ pc'["tick"] = pc["tick"] /\ ret'["tick"] = ret["tick"]
      /\ mode' = mode /\ lives' = lives /\ jobs' = jobs
  BY <1>1
<1>3. \A u \in Thread : pc'[u] \notin FreeSteps => cur'[u] \in Session
  BY <1>1 DEF StepsOK
<1> QED BY <1>1, <1>2, <1>3 DEF StepsOK

\* At the start every thread stands at its first step and nothing is queued.
LEMMA TypeInit == Init => TypeInv
  BY DEF Init, TypeInv, TypeOK, StepsOK, Thread, Label, FreeSteps, SendSteps,
         CloseSteps, LifeJob, JobType

\* CloseSession keeps the types, whichever thread runs it.
LEMMA TypeClose ==
  ASSUME TypeInv, NEW t \in Thread, CloseSession(t)
  PROVE  TypeInv'
<1> USE DEF memVars, sockVars, sendVars, queueVars, boardVars, tickVars,
            mainVars
<1>1. CASE CloseExchange(t)
  <2>1. /\ pc' \in [Thread -> Label] /\ ret' \in [Thread -> Label]
        /\ \A u \in Thread \ {t} : pc'[u] = pc[u] /\ ret'[u] = ret[u]
        /\ \/ pc'[t] = ret[t] /\ ret'[t] = "none"
           \/ pc'[t] = "leave" /\ ret'[t] = ret[t]
    BY <1>1, Moves, Holds DEF CloseExchange, Label, TypeInv, TypeOK
  <2>2. TypeOK'
    BY <1>1, <2>1, Holds DEF CloseExchange, TypeInv, TypeOK
  <2>3. StepsOK'
    BY <1>1, <2>1, Holds DEF CloseExchange, TypeInv, TypeOK, StepsOK, At,
           Thread, FreeSteps, SendSteps, CloseSteps
  <2> QED BY <2>2, <2>3 DEF TypeInv
<1>2. CASE CloseLeave(t)
  <2>1. /\ pc' \in [Thread -> Label] /\ pc'[t] = "unlist"
        /\ \A u \in Thread \ {t} : pc'[u] = pc[u]
    BY <1>2, Moves, Holds DEF CloseLeave, Label
  <2>2. cur[t] \in Session /\ "Leave" \in JobType
    BY <1>2 DEF CloseLeave, TypeInv, StepsOK, FreeSteps, At, JobType
  <2>3. TypeOK'
    BY <1>2, <2>1, <2>2, Holds, Queued DEF CloseLeave, TypeInv, TypeOK
  <2>4. StepsOK'
    BY <1>2, <2>1, <2>2, Holds DEF CloseLeave, TypeInv, TypeOK, StepsOK, At,
           Thread, FreeSteps, SendSteps, CloseSteps
  <2> QED BY <2>3, <2>4 DEF TypeInv
<1>3. CASE CloseUnlist(t)
  <2>1. /\ pc' \in [Thread -> Label] /\ pc'[t] = "shutdown"
        /\ \A u \in Thread \ {t} : pc'[u] = pc[u]
    BY <1>3, Moves, Holds DEF CloseUnlist, Label
  <2>2. TypeOK'
    BY <1>3, <2>1, Holds DEF CloseUnlist, TypeInv, TypeOK
  <2>3. StepsOK'
    BY <1>3, <2>1, Holds DEF CloseUnlist, TypeInv, TypeOK, StepsOK, At,
           Thread, FreeSteps, SendSteps, CloseSteps
  <2> QED BY <2>2, <2>3 DEF TypeInv
<1>4. CASE CloseShutdown(t)
  <2>1. /\ pc' \in [Thread -> Label] /\ pc'[t] = "unref"
        /\ \A u \in Thread \ {t} : pc'[u] = pc[u]
    BY <1>4, Moves, Holds DEF CloseShutdown, Label
  <2>2. cur[t] \in Session
    BY <1>4 DEF CloseShutdown, TypeInv, StepsOK, FreeSteps, At
  <2>3. TypeOK'
    BY <1>4, <2>1, <2>2, Holds DEF CloseShutdown, TypeInv, TypeOK
  <2>4. StepsOK'
    BY <1>4, <2>1, <2>2, Holds DEF CloseShutdown, TypeInv, TypeOK, StepsOK, At,
           Thread, FreeSteps, SendSteps, CloseSteps
  <2> QED BY <2>3, <2>4 DEF TypeInv
<1>5. CASE CloseUnref(t)
  <2>1. /\ pc' \in [Thread -> Label] /\ ret' \in [Thread -> Label]
        /\ \A u \in Thread \ {t} : pc'[u] = pc[u] /\ ret'[u] = ret[u]
        /\ pc'[t] = ret[t] /\ ret'[t] = "none"
    BY <1>5, Moves, Holds DEF CloseUnref, Label
  <2>2. TypeOK'
    BY <1>5, <2>1, Holds DEF CloseUnref, TypeInv, TypeOK
  <2>3. StepsOK'
    BY <1>5, <2>1, Holds DEF CloseUnref, TypeInv, TypeOK, StepsOK, At,
           Thread, FreeSteps, SendSteps, CloseSteps
  <2> QED BY <2>2, <2>3 DEF TypeInv
<1> QED BY <1>1, <1>2, <1>3, <1>4, <1>5 DEF CloseSession

\* PostRecv, on main and on the workers.
LEMMA TypeRecv ==
  ASSUME TypeInv, NEW t \in Thread \ {"tick"}, PostRecv(t)
  PROVE  TypeInv'
<1> USE DEF memVars, sockVars, sendVars, queueVars, boardVars, tickVars,
            mainVars
<1>1. CASE RecvRef(t)
  <2>1. /\ pc' \in [Thread -> Label] /\ pc'[t] = "wsarecv"
        /\ \A u \in Thread \ {t} : pc'[u] = pc[u]
    BY <1>1, Moves, Holds DEF RecvRef, Label
  <2>2. TypeOK'
    BY <1>1, <2>1, Holds DEF RecvRef, TypeInv, TypeOK
  <2>3. StepsOK'
    BY <1>1, <2>1, Holds DEF RecvRef, TypeInv, TypeOK, StepsOK, At,
           Thread, FreeSteps, SendSteps, CloseSteps
  <2> QED BY <2>2, <2>3 DEF TypeInv
<1>2. CASE RecvPosted(t)
  <2>1. /\ pc' \in [Thread -> Label] /\ pc'[t] \in {"mainref", "ioref"}
        /\ \A u \in Thread \ {t} : pc'[u] = pc[u]
    BY <1>2, Moves, Holds DEF RecvPosted, Label, AfterRecv
  <2>2. TypeOK'
    BY <1>2, <2>1, Holds DEF RecvPosted, TypeInv, TypeOK
  <2>3. StepsOK'
    BY <1>2, <2>1, Holds DEF RecvPosted, TypeInv, TypeOK, StepsOK, At,
           Thread, FreeSteps, SendSteps, CloseSteps
  <2> QED BY <2>2, <2>3 DEF TypeInv
<1>3. CASE RecvFailed(t)
  <2>1. /\ pc' \in [Thread -> Label] /\ ret' \in [Thread -> Label]
        /\ \A u \in Thread \ {t} : pc'[u] = pc[u] /\ ret'[u] = ret[u]
        /\ pc'[t] = "exchange"
    BY <1>3, Moves, Holds DEF RecvFailed, Label, AfterRecv
  <2>2. TypeOK'
    BY <1>3, <2>1, Holds DEF RecvFailed, TypeInv, TypeOK
  <2>3. StepsOK'
    BY <1>3, <2>1, Holds DEF RecvFailed, TypeInv, TypeOK, StepsOK, At,
           Thread, FreeSteps, SendSteps, CloseSteps
  <2> QED BY <2>2, <2>3 DEF TypeInv
<1> QED BY <1>1, <1>2, <1>3 DEF PostRecv

\* StartSend, on the tick thread and on the workers.
LEMMA TypeSend ==
  ASSUME TypeInv, NEW t \in Thread, StartSend(t)
  PROVE  TypeInv'
<1> USE DEF memVars, sockVars, sendVars, queueVars, boardVars, tickVars,
            mainVars
<1>1. CASE SendRef(t)
  <2>1. /\ pc' \in [Thread -> Label] /\ pc'[t] = "wsasend"
        /\ \A u \in Thread \ {t} : pc'[u] = pc[u]
    BY <1>1, Moves, Holds DEF SendRef, Label
  <2>2. TypeOK'
    BY <1>1, <2>1, Holds DEF SendRef, TypeInv, TypeOK
  <2>3. StepsOK'
    BY <1>1, <2>1, Holds DEF SendRef, TypeInv, TypeOK, StepsOK, At,
           Thread, FreeSteps, SendSteps, CloseSteps
  <2> QED BY <2>2, <2>3 DEF TypeInv
<1>2. CASE SendPosted(t)
  <2>1. /\ pc' \in [Thread -> Label] /\ pc'[t] \in {"sent", "ioref"}
        /\ \A u \in Thread \ {t} : pc'[u] = pc[u]
        /\ t = "tick" => pc'[t] = "sent"
    BY <1>2, Moves, Holds DEF SendPosted, Label, AfterSend
  <2>2. TypeOK'
    BY <1>2, <2>1, Holds DEF SendPosted, TypeInv, TypeOK
  <2>3. StepsOK'
    BY <1>2, <2>1, Holds DEF SendPosted, TypeInv, TypeOK, StepsOK, At,
           Thread, FreeSteps, SendSteps, CloseSteps
  <2> QED BY <2>2, <2>3 DEF TypeInv
<1>3. CASE SendFailed(t)
  <2>1. /\ pc' \in [Thread -> Label] /\ ret' \in [Thread -> Label]
        /\ \A u \in Thread \ {t} : pc'[u] = pc[u] /\ ret'[u] = ret[u]
        /\ pc'[t] = "exchange" /\ ret'[t] = "senddrop"
    BY <1>3, Moves, Holds DEF SendFailed, Label
  <2>2. TypeOK'
    BY <1>3, <2>1, Holds DEF SendFailed, TypeInv, TypeOK
  <2>3. StepsOK'
    BY <1>3, <2>1, Holds DEF SendFailed, TypeInv, TypeOK, StepsOK, At,
           Thread, FreeSteps, SendSteps, CloseSteps
  <2> QED BY <2>2, <2>3 DEF TypeInv
<1>4. CASE SendDrop(t)
  <2>1. /\ pc' \in [Thread -> Label] /\ pc'[t] \in {"sent", "ioref"}
        /\ \A u \in Thread \ {t} : pc'[u] = pc[u]
        /\ t = "tick" => pc'[t] = "sent"
    BY <1>4, Moves, Holds DEF SendDrop, Label, AfterSend
  <2>2. TypeOK'
    BY <1>4, <2>1, Holds DEF SendDrop, TypeInv, TypeOK
  <2>3. StepsOK'
    BY <1>4, <2>1, Holds DEF SendDrop, TypeInv, TypeOK, StepsOK, At,
           Thread, FreeSteps, SendSteps, CloseSteps
  <2> QED BY <2>2, <2>3 DEF TypeInv
<1> QED BY <1>1, <1>2, <1>3, <1>4 DEF StartSend

\* The accept loop and the shutdown path.
LEMMA TypeMain ==
  ASSUME TypeInv, Main
  PROVE  TypeInv'
<1> USE DEF memVars, sockVars, sendVars, queueVars, boardVars, tickVars,
            mainVars
<1>0. "main" \in Thread /\ "main" # "tick"
  BY DEF Thread
<1>1. CASE AddSession
  <2>1. /\ pc' \in [Thread -> Label] /\ pc'["main"] = "associate"
        /\ \A u \in Thread \ {"main"} : pc'[u] = pc[u]
    BY <1>1, <1>0, Moves, Holds DEF AddSession, Label
  <2>2. cur["main"] \in Session
    BY <1>1, <1>0 DEF AddSession, TypeInv, StepsOK, FreeSteps, At
  <2>3. TypeOK'
    BY <1>1, <2>1, <2>2, <1>0, Holds DEF AddSession, TypeInv, TypeOK
  <2>4. StepsOK'
    BY <1>1, <2>1, <2>2, <1>0, Holds DEF AddSession, TypeInv, TypeOK, StepsOK, At,
           Thread, FreeSteps, SendSteps, CloseSteps
  <2> QED BY <2>3, <2>4 DEF TypeInv
<1>2. CASE ListFull
  <2>1. /\ pc' \in [Thread -> Label] /\ pc'["main"] = "accept"
        /\ \A u \in Thread \ {"main"} : pc'[u] = pc[u]
    BY <1>2, <1>0, Moves, Holds DEF ListFull, Label
  <2>2. ref' \in [Session -> Int]
    <3>1. ref \in [Session -> Int]
      BY DEF TypeInv, TypeOK
    <3>2. ref' = [ref EXCEPT ![cur["main"]] = 0]
      BY <1>2 DEF ListFull
    <3>3. \A x \in Session : ref[x] \in Int /\ 0 \in Int
      BY <3>1
    <3>4. ref' = [x \in Session |-> IF x = cur["main"] THEN 0 ELSE ref[x]]
      BY <3>1, <3>2, Zenon
    <3> QED BY <3>3, <3>4
  <2>3. TypeOK'
    BY <1>2, <2>1, <2>2, <1>0, Holds DEF ListFull, TypeInv, TypeOK
  <2>4. StepsOK'
    BY <1>2, <2>1, <2>2, <1>0, Holds, NotTick DEF ListFull, FreeSteps, At
  <2> QED BY <2>3, <2>4 DEF TypeInv
<1>3. CASE Associate
  <2>0. pc \in [Thread -> Label] /\ ret \in [Thread -> Label]
    BY DEF TypeInv, TypeOK
  <2>1. /\ pc' \in [Thread -> Label] /\ ret' \in [Thread -> Label]
        /\ \A u \in Thread \ {"main"} : pc'[u] = pc[u] /\ ret'[u] = ret[u]
    <3>1. CASE Goto("main", "enter") /\ UNCHANGED ret
      BY <1>0, <2>0, <3>1, Moves DEF Label
    <3>2. CASE CallClose("main", "mainref")
      BY <1>0, <3>2, Moves DEF Label
    <3> QED BY <1>3, <3>1, <3>2 DEF Associate
  <2>2. cur["main"] \in Session
    BY <1>3, <1>0 DEF Associate, TypeInv, StepsOK, FreeSteps, At
  <2>3. TypeOK'
    BY <1>3, <2>1, <2>2 DEF Associate, TypeInv, TypeOK
  <2>4. StepsOK'
    BY <1>3, <1>0, <2>1, <2>2, NotTick DEF Associate
  <2> QED BY <2>3, <2>4 DEF TypeInv
<1>4. CASE PushEnter
  <2>1. /\ pc' \in [Thread -> Label] /\ pc'["main"] = "recvref"
        /\ \A u \in Thread \ {"main"} : pc'[u] = pc[u]
    BY <1>4, <1>0, Moves, Holds DEF PushEnter, Label
  <2>2. cur["main"] \in Session /\ "Enter" \in JobType
    BY <1>4, <1>0 DEF PushEnter, TypeInv, StepsOK, FreeSteps, At, JobType
  <2>3. TypeOK'
    BY <1>4, <2>1, <2>2, <1>0, Holds, Queued DEF PushEnter, TypeInv, TypeOK
  <2>4. StepsOK'
    BY <1>4, <2>1, <2>2, <1>0, Holds DEF PushEnter, TypeInv, TypeOK, StepsOK, At,
           Thread, FreeSteps, SendSteps, CloseSteps
  <2> QED BY <2>3, <2>4 DEF TypeInv
<1>5. CASE MainRelease
  <2>1. /\ pc' \in [Thread -> Label] /\ pc'["main"] = "accept"
        /\ \A u \in Thread \ {"main"} : pc'[u] = pc[u]
    BY <1>5, <1>0, Moves, Holds DEF MainRelease, Label
  <2>2. TypeOK'
    BY <1>5, <2>1, <1>0, Holds DEF MainRelease, TypeInv, TypeOK
  <2>3. StepsOK'
    BY <1>5, <2>1, <1>0, Holds, NotTick DEF MainRelease, FreeSteps, At
  <2> QED BY <2>2, <2>3 DEF TypeInv
<1>6. CASE CollectAll
  <2>1. /\ pc' \in [Thread -> Label] /\ pc'["main"] = "closenext"
        /\ \A u \in Thread \ {"main"} : pc'[u] = pc[u]
    BY <1>6, <1>0, Moves, Holds DEF CollectAll, Label
  <2>2. ref' \in [Session -> Int]
    BY <1>6 DEF CollectAll, TypeInv, TypeOK
  <2>3. TypeOK'
    BY <1>6, <2>1, <2>2, <1>0, Holds DEF CollectAll, TypeInv, TypeOK
  <2>4. StepsOK'
    BY <1>6, <2>1, <2>2, <1>0, Holds DEF CollectAll, TypeInv, TypeOK, StepsOK, At,
           Thread, FreeSteps, SendSteps, CloseSteps
  <2> QED BY <2>3, <2>4 DEF TypeInv
<1>7. CASE CloseRef
  <2>1. /\ pc' \in [Thread -> Label] /\ pc'["main"] = "closenext"
        /\ \A u \in Thread \ {"main"} : pc'[u] = pc[u]
    BY <1>7, <1>0, Moves, Holds DEF CloseRef, Label
  <2>2. TypeOK'
    BY <1>7, <2>1, <1>0, Holds DEF CloseRef, TypeInv, TypeOK
  <2>3. StepsOK'
    BY <1>7, <2>1, <1>0, Holds, NotTick DEF CloseRef, FreeSteps, At
  <2> QED BY <2>2, <2>3 DEF TypeInv
<1>8. CASE Drain
  <2>1. /\ pc' \in [Thread -> Label] /\ pc'["main"] = "join"
        /\ \A u \in Thread \ {"main"} : pc'[u] = pc[u]
    BY <1>8, <1>0, Moves, Holds DEF Drain, Label
  <2>2. TypeOK'
    BY <1>8, <2>1, <1>0, Holds DEF Drain, TypeInv, TypeOK
  <2>3. StepsOK'
    BY <1>8, <2>1, <1>0, Holds DEF Drain, TypeInv, TypeOK, StepsOK, At,
           Thread, FreeSteps, SendSteps, CloseSteps
  <2> QED BY <2>2, <2>3 DEF TypeInv
<1>9. CASE Join
  <2>1. /\ pc' \in [Thread -> Label] /\ pc'["main"] = "exits"
        /\ \A u \in Thread \ {"main"} : pc'[u] = pc[u]
    BY <1>9, <1>0, Moves, Holds DEF Join, Label
  <2>2. TypeOK'
    BY <1>9, <2>1, <1>0, Holds DEF Join, TypeInv, TypeOK
  <2>3. StepsOK'
    BY <1>9, <2>1, <1>0, Holds DEF Join, TypeInv, TypeOK, StepsOK, At,
           Thread, FreeSteps, SendSteps, CloseSteps
  <2> QED BY <2>2, <2>3 DEF TypeInv
<1>10. CASE Exit
  <2>1. /\ pc' \in [Thread -> Label] /\ pc'["main"] = "stopped"
        /\ \A u \in Thread \ {"main"} : pc'[u] = pc[u]
    BY <1>10, <1>0, Moves, Holds DEF Exit, Label
  <2>2. TypeOK'
    BY <1>10, <2>1, <1>0, Holds DEF Exit, TypeInv, TypeOK
  <2>3. StepsOK'
    BY <1>10, <2>1, <1>0, Holds DEF Exit, TypeInv, TypeOK, StepsOK, At,
           Thread, FreeSteps, SendSteps, CloseSteps
  <2> QED BY <2>2, <2>3 DEF TypeInv
<1>11. ASSUME NEW s \in Session, Accept(s) PROVE TypeInv'
  <2>1. /\ pc' \in [Thread -> Label] /\ pc'["main"] = "add"
        /\ \A u \in Thread \ {"main"} : pc'[u] = pc[u]
    BY <1>11, <1>0, Moves, Holds DEF Accept, Label
  <2>2. cur'["main"] = s
    BY <1>11, <1>0, <1>0, Holds DEF Accept
  <2>3. TypeOK'
    BY <1>11, <2>1, <2>2, <1>0, Holds DEF Accept, TypeInv, TypeOK
  <2>4. StepsOK'
    BY <1>11, <2>1, <2>2, <1>0, Holds, NotTick DEF Accept, FreeSteps, At
  <2> QED BY <2>3, <2>4 DEF TypeInv
<1>12. ASSUME NEW s \in Session, CloseNext(s) PROVE TypeInv'
  <2>1. /\ pc' \in [Thread -> Label] /\ ret' \in [Thread -> Label]
        /\ \A u \in Thread \ {"main"} : pc'[u] = pc[u] /\ ret'[u] = ret[u]
        /\ pc'["main"] = "exchange"
    BY <1>12, <1>0, Moves, Holds DEF CloseNext, Label
  <2>2. TypeOK'
    BY <1>12, <2>1, <1>0, Holds DEF CloseNext, TypeInv, TypeOK
  <2>3. StepsOK'
    BY <1>12, <2>1, <1>0, Holds DEF CloseNext, TypeInv, TypeOK, StepsOK, At,
           Thread, FreeSteps, SendSteps, CloseSteps
  <2> QED BY <2>2, <2>3 DEF TypeInv
<1> QED BY <1>0, <1>1, <1>2, <1>3, <1>4, <1>5, <1>6, <1>7, <1>8, <1>9, <1>10, <1>11, <1>12,
          TypeRecv, TypeClose DEF Main

\* A worker and its completion.
LEMMA TypeWorker ==
  ASSUME TypeInv, NEW w \in Worker, WorkerStep(w)
  PROVE  TypeInv'
<1> USE DEF memVars, sockVars, sendVars, queueVars, boardVars, tickVars,
            mainVars
<1>0. w \in Thread /\ w # "tick"
  BY DEF Thread
<1>1. ASSUME NEW s \in Session, TakeRecv(w, s) PROVE TypeInv'
  <2>0. pc \in [Thread -> Label] /\ ret \in [Thread -> Label]
    BY DEF TypeInv, TypeOK
  <2>1. /\ pc' \in [Thread -> Label] /\ ret' \in [Thread -> Label]
        /\ \A u \in Thread \ {w} : pc'[u] = pc[u] /\ ret'[u] = ret[u]
    <3>1. CASE Goto(w, "process") /\ UNCHANGED ret
      BY <1>0, <2>0, <3>1, Moves DEF Label
    <3>2. CASE CallClose(w, "ioref")
      BY <1>0, <3>2, Moves DEF Label
    <3> QED BY <1>1, <3>1, <3>2 DEF TakeRecv
  <2>2. /\ cur' \in [Thread -> Session \cup {NoSession}] /\ cur'[w] = s
        /\ \A u \in Thread \ {w} : cur'[u] = cur[u]
    BY <1>1, <1>0, Holds DEF TakeRecv
  <2>3. TypeOK'
    BY <1>1, <2>1, <2>2 DEF TakeRecv, TypeInv, TypeOK
  <2>4. StepsOK'
    BY <1>1, <1>0, <2>1, <2>2, NotTick DEF TakeRecv
  <2> QED BY <2>3, <2>4 DEF TypeInv
<1>2. ASSUME NEW s \in Session, TakeSend(w, s) PROVE TypeInv'
  <2>0. pc \in [Thread -> Label] /\ ret \in [Thread -> Label]
    BY DEF TypeInv, TypeOK
  <2>1. /\ pc' \in [Thread -> Label] /\ ret' \in [Thread -> Label]
        /\ \A u \in Thread \ {w} : pc'[u] = pc[u] /\ ret'[u] = ret[u]
    <3>1. CASE Goto(w, "onsent") /\ UNCHANGED ret
      BY <1>0, <2>0, <3>1, Moves DEF Label
    <3>2. CASE CallClose(w, "ioref")
      BY <1>0, <3>2, Moves DEF Label
    <3> QED BY <1>2, <3>1, <3>2 DEF TakeSend
  <2>2. /\ cur' \in [Thread -> Session \cup {NoSession}] /\ cur'[w] = s
        /\ \A u \in Thread \ {w} : cur'[u] = cur[u]
    BY <1>2, <1>0, Holds DEF TakeSend
  <2>3. TypeOK'
    BY <1>2, <2>1, <2>2 DEF TakeSend, TypeInv, TypeOK
  <2>4. StepsOK'
    BY <1>2, <1>0, <2>1, <2>2, NotTick DEF TakeSend
  <2> QED BY <2>3, <2>4 DEF TypeInv
<1>3. CASE ProcessPacket(w)
  <2>1. /\ pc' \in [Thread -> Label] /\ ret' \in [Thread -> Label]
        /\ \A u \in Thread \ {w} : pc'[u] = pc[u] /\ ret'[u] = ret[u]
        /\ pc'[w] \in {"process", "repost", "exchange"}
    BY <1>3, <1>0, Moves, Holds DEF ProcessPacket, Label, TypeInv, TypeOK
  <2>2. pkts' \in Seq(Session) /\ Len(pkts') <= MaxJob /\ ref' \in [Session -> Int]
    <3>1. cur[w] \in Session
      BY <1>3, <1>0 DEF ProcessPacket, TypeInv, StepsOK, FreeSteps, At
    <3>2. pkts \in Seq(Session) /\ Len(pkts) <= MaxJob /\ ref \in [Session -> Int]
      BY DEF TypeInv, TypeOK
    <3>3. Len(pkts) \in Nat
      BY <3>2, LenProperties
    <3>4. CASE Len(pkts) < MaxJob
      <4>1. pkts' = Append(pkts, cur[w]) /\ AddRef(cur[w])
        BY <1>3, <3>4 DEF ProcessPacket
      <4>2. pkts' \in Seq(Session) /\ Len(pkts') = Len(pkts) + 1
        BY <3>1, <3>2, <4>1, Appended
      <4> QED BY <3>2, <3>3, <3>4, <4>1, <4>2 DEF AddRef
    <3>5. CASE ~(Len(pkts) < MaxJob)
      BY <1>3, <3>2, <3>5 DEF ProcessPacket
    <3> QED BY <3>4, <3>5
  <2>3. TypeOK'
    BY <1>3, <2>1, <2>2, <1>0, Holds DEF ProcessPacket, TypeInv, TypeOK
  <2>4. StepsOK'
    BY <1>3, <2>1, <2>2, <1>0, Holds DEF ProcessPacket, TypeInv, TypeOK, StepsOK, At,
           Thread, FreeSteps, SendSteps, CloseSteps
  <2> QED BY <2>3, <2>4 DEF TypeInv
<1>4. CASE ProcessEnd(w)
  <2>0. pc \in [Thread -> Label] /\ ret \in [Thread -> Label]
    BY DEF TypeInv, TypeOK
  <2>1. /\ pc' \in [Thread -> Label] /\ ret' \in [Thread -> Label]
        /\ \A u \in Thread \ {w} : pc'[u] = pc[u] /\ ret'[u] = ret[u]
    <3>1. CASE Goto(w, "repost") /\ UNCHANGED ret
      BY <1>0, <2>0, <3>1, Moves DEF Label
    <3>2. CASE CallClose(w, "repost")
      BY <1>0, <3>2, Moves DEF Label
    <3> QED BY <1>4, <3>1, <3>2 DEF ProcessEnd
  <2>2. cur[w] \in Session
    BY <1>4, <1>0 DEF ProcessEnd, TypeInv, StepsOK, FreeSteps, At
  <2>3. TypeOK'
    BY <1>4, <2>1 DEF ProcessEnd, TypeInv, TypeOK
  <2>4. StepsOK'
    BY <1>4, <1>0, <2>1, <2>2, NotTick DEF ProcessEnd
  <2> QED BY <2>3, <2>4 DEF TypeInv
<1>5. CASE Repost(w)
  <2>1. /\ pc' \in [Thread -> Label] /\ pc'[w] \in {"ioref", "recvref"}
        /\ \A u \in Thread \ {w} : pc'[u] = pc[u]
    BY <1>5, <1>0, Moves, Holds DEF Repost, Label
  <2>2. TypeOK'
    BY <1>5, <2>1, <1>0, Holds DEF Repost, TypeInv, TypeOK
  <2>3. StepsOK'
    BY <1>5, <2>1, <1>0, Holds DEF Repost, TypeInv, TypeOK, StepsOK, At,
           Thread, FreeSteps, SendSteps, CloseSteps
  <2> QED BY <2>2, <2>3 DEF TypeInv
<1>6. CASE OnSent(w)
  <2>0. cur[w] \in Session /\ queued \in [Session -> 0 .. SendCap]
    BY <1>6, <1>0 DEF OnSent, TypeInv, TypeOK, StepsOK, FreeSteps, At
  <2>1. /\ pc' \in [Thread -> Label] /\ pc'[w] \in {"more", "ioref"}
        /\ \A u \in Thread \ {w} : pc'[u] = pc[u]
    BY <1>6, <1>0, Moves DEF OnSent, Label
  <2>2. queued' \in [Session -> 0 .. SendCap]
    <3>1. PICK n \in 1 .. queued[cur[w]] : queued' = [queued EXCEPT ![cur[w]] = @ - n]
      BY <1>6 DEF OnSent
    <3>2. queued[cur[w]] - n \in 0 .. SendCap
      BY <2>0
    <3> QED BY <2>0, <3>1, <3>2
  <2>3. TypeOK'
    <3>1. sending' \in [Session -> BOOLEAN]
      <4>1. \/ sending' = sending
            \/ sending' = [sending EXCEPT ![cur[w]] = FALSE]
        BY <1>6 DEF OnSent
      <4>2. sending \in [Session -> BOOLEAN]
        BY DEF TypeInv, TypeOK
      <4> QED BY <4>1, <4>2, Zenon
    <3> QED BY <1>6, <2>1, <2>2, <3>1 DEF OnSent, TypeInv, TypeOK
  <2>4. StepsOK'
    BY <1>6, <1>0, <2>0, <2>1, NotTick DEF OnSent
  <2> QED BY <2>3, <2>4 DEF TypeInv
<1>7. CASE SendMore(w)
  <2>1. /\ pc' \in [Thread -> Label] /\ pc'[w] \in {"ioref", "sendref"}
        /\ \A u \in Thread \ {w} : pc'[u] = pc[u]
    BY <1>7, <1>0, Moves, Holds DEF SendMore, Label
  <2>2. TypeOK'
    BY <1>7, <2>1, <1>0, Holds DEF SendMore, TypeInv, TypeOK
  <2>3. StepsOK'
    BY <1>7, <2>1, <1>0, Holds DEF SendMore, TypeInv, TypeOK, StepsOK, At,
           Thread, FreeSteps, SendSteps, CloseSteps
  <2> QED BY <2>2, <2>3 DEF TypeInv
<1>8. CASE IoRelease(w)
  <2>1. /\ pc' \in [Thread -> Label] /\ pc'[w] = "idle"
        /\ \A u \in Thread \ {w} : pc'[u] = pc[u]
    BY <1>8, <1>0, Moves, Holds DEF IoRelease, Label
  <2>2. TypeOK'
    BY <1>8, <2>1, <1>0, Holds DEF IoRelease, TypeInv, TypeOK
  <2>3. StepsOK'
    BY <1>8, <2>1, <1>0, Holds DEF IoRelease, TypeInv, TypeOK, StepsOK, At,
           Thread, FreeSteps, SendSteps, CloseSteps
  <2> QED BY <2>2, <2>3 DEF TypeInv
<1>9. CASE WorkerExit(w)
  <2>1. /\ pc' \in [Thread -> Label] /\ pc'[w] = "stopped"
        /\ \A u \in Thread \ {w} : pc'[u] = pc[u]
    BY <1>9, <1>0, Moves, Holds DEF WorkerExit, Label
  <2>2. TypeOK'
    BY <1>9, <2>1, <1>0, Holds DEF WorkerExit, TypeInv, TypeOK
  <2>3. StepsOK'
    BY <1>9, <2>1, <1>0, Holds DEF WorkerExit, TypeInv, TypeOK, StepsOK, At,
           Thread, FreeSteps, SendSteps, CloseSteps
  <2> QED BY <2>2, <2>3 DEF TypeInv
<1> QED BY <1>0, <1>1, <1>2, <1>3, <1>4, <1>5, <1>6, <1>7, <1>8, <1>9,
          TypeRecv, TypeSend, TypeClose DEF WorkerStep

\* The tick thread.
LEMMA TypeTick ==
  ASSUME TypeInv, Tick
  PROVE  TypeInv'
<1> USE DEF memVars, sockVars, sendVars, queueVars, boardVars, tickVars,
            mainVars
<1>0. "tick" \in Thread
  BY DEF Thread
<1>1. CASE Swap
  <2>0. /\ <<>> \in Seq(LifeJob) /\ <<>> \in Seq(Session)
        /\ Len(<<>>) = 0
    BY EmptySeq
  <2>1. /\ pc' \in [Thread -> Label] /\ pc'["tick"] \in {"life", "stopped"}
        /\ \A u \in Thread \ {"tick"} : pc'[u] = pc[u]
    BY <1>1, <1>0, Moves DEF Swap, Label
  <2>2. /\ life' \in Seq(LifeJob) /\ Len(life') <= MaxLife
        /\ lives' \in Seq(LifeJob) /\ Len(lives') <= MaxLife
        /\ pkts' \in Seq(Session) /\ Len(pkts') <= MaxJob
        /\ jobs' \in Seq(Session) /\ Len(jobs') <= MaxJob
    <3>1. CASE running
      <4>1. /\ lives' = life /\ jobs' = pkts
            /\ life' = <<>> /\ pkts' = <<>>
        BY <1>1, <3>1 DEF Swap
      <4> QED BY <2>0, <4>1 DEF TypeInv, TypeOK
    <3>2. CASE ~running
      BY <1>1, <3>2 DEF Swap, TypeInv, TypeOK
    <3> QED BY <3>1, <3>2
  <2>3. TypeOK'
    BY <1>1, <2>1, <2>2 DEF Swap, TypeInv, TypeOK
  <2>4. StepsOK'
    <3>1. /\ mode = "none" /\ ret["tick"] = "none"
          /\ cur' = cur /\ mode' = mode /\ ret' = ret
      BY <1>1, <1>0 DEF Swap, TypeInv, StepsOK, At, SendSteps, CloseSteps
    <3>2. \A u \in Thread : pc'[u] \notin FreeSteps => cur'[u] \in Session
      BY <2>1, <3>1 DEF TypeInv, StepsOK, FreeSteps
    <3> QED BY <2>1, <3>1, <3>2 DEF StepsOK, CloseSteps
  <2> QED BY <2>3, <2>4 DEF TypeInv
<1>2. CASE HandleEnter
  <2>0. /\ seated \subseteq Session /\ viewers \subseteq Session
        /\ mode = "none" /\ ret["tick"] = "none"
        /\ cur \in [Thread -> Session \cup {NoSession}]
    BY <1>2, <1>0 DEF HandleEnter, TypeInv, TypeOK, StepsOK, At, SendSteps, CloseSteps
  <2>1. /\ pc' \in [Thread -> Label] /\ pc'["tick"] \in {"sendpacket", "liferef"}
        /\ \A u \in Thread \ {"tick"} : pc'[u] = pc[u]
    BY <1>2, <1>0, Moves DEF HandleEnter, Label
  <2>2. Head(lives).s \in Session /\ lives # <<>>
    <3>1. Head(lives) \in LifeJob
      BY <1>2, HeadTail DEF HandleEnter, TypeInv, TypeOK
    <3> QED BY <1>2, <3>1 DEF HandleEnter, LifeJob
  <2>3. seated' \subseteq Session /\ viewers' \subseteq Session
    BY <1>2, <2>0, <2>2 DEF HandleEnter
  <2>4. /\ cur' \in [Thread -> Session \cup {NoSession}]
        /\ \A u \in Thread \ {"tick"} : cur'[u] = cur[u]
        /\ \/ /\ cur'["tick"] \in Session /\ mode' = "welcome"
              /\ pc'["tick"] = "sendpacket"
           \/ pc'["tick"] = "liferef" /\ mode' = "none"
    <3>1. CASE /\ Take("tick", Head(lives).s) /\ mode' = "welcome"
               /\ Goto("tick", "sendpacket")
      BY <1>0, <2>2, <3>1, Holds, Moves DEF Label
    <3>2. CASE Goto("tick", "liferef") /\ UNCHANGED <<cur, mode>>
      BY <1>0, <2>0, <3>2, Moves DEF Label
    <3> QED BY <1>2, <3>1, <3>2 DEF HandleEnter
  <2>5. TypeOK'
    BY <1>2, <2>1, <2>3, <2>4 DEF HandleEnter, TypeInv, TypeOK
  <2>6. StepsOK'
    <3>1. ret' = ret /\ lives' = lives /\ jobs' = jobs
      BY <1>2 DEF HandleEnter
    <3>2. \A u \in Thread : pc'[u] \notin FreeSteps => cur'[u] \in Session
      BY <2>1, <2>4 DEF TypeInv, StepsOK, FreeSteps
    <3> QED BY <2>0, <2>1, <2>2, <2>4, <3>1, <3>2 DEF StepsOK, SendSteps, CloseSteps
  <2> QED BY <2>5, <2>6 DEF TypeInv
<1>3. CASE HandleLeave
  <2>1. /\ pc' \in [Thread -> Label] /\ pc'["tick"] = "liferef"
        /\ \A u \in Thread \ {"tick"} : pc'[u] = pc[u]
    BY <1>3, <1>0, Moves, Holds DEF HandleLeave, Label
  <2>2. TypeOK'
    BY <1>3, <2>1, <1>0, Holds DEF HandleLeave, TypeInv, TypeOK
  <2>3. StepsOK'
    BY <1>3, <2>1, <1>0, Holds DEF HandleLeave, TypeInv, TypeOK, StepsOK, At,
           Thread, FreeSteps, SendSteps, CloseSteps
  <2> QED BY <2>2, <2>3 DEF TypeInv
<1>4. CASE LifeRef
  <2>1. /\ pc' \in [Thread -> Label] /\ pc'["tick"] = "life"
        /\ \A u \in Thread \ {"tick"} : pc'[u] = pc[u]
    BY <1>4, <1>0, Moves, Holds DEF LifeRef, Label
  <2>2. lives' \in Seq(LifeJob) /\ Len(lives') <= MaxLife
    <3>1. lives \in Seq(LifeJob) /\ lives # <<>> /\ Len(lives) <= MaxLife
      BY <1>4 DEF LifeRef, TypeInv, TypeOK, StepsOK, At
    <3>2. Len(lives) \in Nat
      BY <3>1, LenProperties
    <3>3. Tail(lives) \in Seq(LifeJob) /\ Len(Tail(lives)) = Len(lives) - 1
      BY <3>1, HeadTail
    <3> QED BY <1>4, <3>1, <3>2, <3>3 DEF LifeRef
  <2>3. TypeOK'
    BY <1>4, <2>1, <2>2, <1>0, Holds DEF LifeRef, TypeInv, TypeOK
  <2>4. StepsOK'
    BY <1>4, <2>1, <2>2, <1>0, Holds DEF LifeRef, TypeInv, TypeOK, StepsOK, At,
           Thread, FreeSteps, SendSteps, CloseSteps
  <2> QED BY <2>3, <2>4 DEF TypeInv
<1>5. CASE HandlePacket
  <2>0. /\ mode = "none" /\ ret["tick"] = "none" /\ jobs # <<>>
        /\ pc \in [Thread -> Label] /\ ret \in [Thread -> Label]
        /\ cur \in [Thread -> Session \cup {NoSession}]
        /\ ref \in [Session -> Int] /\ list \subseteq Session /\ targets \subseteq Session
    BY <1>5, <1>0 DEF HandlePacket, TypeInv, TypeOK, StepsOK, At, SendSteps, CloseSteps
  <2>1. Head(jobs) \in Session
    BY <1>5, HeadTail DEF HandlePacket, TypeInv, TypeOK
  <2>2. /\ pc' \in [Thread -> Label] /\ ret' \in [Thread -> Label]
        /\ cur' \in [Thread -> Session \cup {NoSession}]
        /\ ref' \in [Session -> Int] /\ targets' \subseteq Session
        /\ mode' \in {"none", "echo"}
        /\ \A u \in Thread \ {"tick"} : pc'[u] = pc[u] /\ cur'[u] = cur[u]
        /\ \/ pc'["tick"] = "jobref" /\ ret'["tick"] = "none" /\ mode' = "none"
           \/ /\ pc'["tick"] = "exchange" /\ ret'["tick"] = "jobref"
              /\ mode' = "none" /\ cur'["tick"] \in Session
           \/ pc'["tick"] = "next" /\ ret'["tick"] = "none" /\ mode' = "echo"
    <3>1. CASE Goto("tick", "jobref") /\ UNCHANGED <<ref, cur, ret, targets, mode>>
      BY <1>0, <2>0, <3>1, Moves DEF Label
    <3>2. CASE /\ Take("tick", Head(jobs)) /\ CallClose("tick", "jobref")
               /\ UNCHANGED <<ref, targets, mode>>
      BY <1>0, <2>0, <2>1, <3>2, Moves, Holds DEF Label
    <3>3. CASE Collect(Open, "echo") /\ UNCHANGED <<cur, ret>>
      <4>1. Goto("tick", "next") /\ mode' = "echo"
        BY <3>3 DEF Collect
      <4>2. ref' \in [Session -> Int] /\ targets' \subseteq Session
        BY <2>0, <3>3 DEF Collect, Open
      <4> QED BY <1>0, <2>0, <3>3, <4>1, <4>2, Moves DEF Label
    <3> QED BY <1>5, <3>1, <3>2, <3>3 DEF HandlePacket
  <2>3. TypeOK'
    BY <1>5, <2>2 DEF HandlePacket, TypeInv, TypeOK
  <2>4. StepsOK'
    <3>1. lives' = lives /\ jobs' = jobs
      BY <1>5 DEF HandlePacket
    <3>2. \A u \in Thread : pc'[u] \notin FreeSteps => cur'[u] \in Session
      BY <2>2 DEF TypeInv, StepsOK, FreeSteps
    <3> QED BY <2>0, <2>2, <3>1, <3>2 DEF StepsOK, SendSteps, CloseSteps
  <2> QED BY <2>3, <2>4 DEF TypeInv
<1>6. CASE JobRef
  <2>1. /\ pc' \in [Thread -> Label] /\ pc'["tick"] = "life"
        /\ \A u \in Thread \ {"tick"} : pc'[u] = pc[u]
    BY <1>6, <1>0, Moves, Holds DEF JobRef, Label
  <2>2. jobs' \in Seq(Session) /\ Len(jobs') <= MaxJob
    <3>1. jobs \in Seq(Session) /\ jobs # <<>> /\ Len(jobs) <= MaxJob
      BY <1>6 DEF JobRef, TypeInv, TypeOK, StepsOK, At
    <3>2. Len(jobs) \in Nat
      BY <3>1, LenProperties
    <3>3. Tail(jobs) \in Seq(Session) /\ Len(Tail(jobs)) = Len(jobs) - 1
      BY <3>1, HeadTail
    <3> QED BY <1>6, <3>1, <3>2, <3>3 DEF JobRef
  <2>3. TypeOK'
    BY <1>6, <2>1, <2>2, <1>0, Holds DEF JobRef, TypeInv, TypeOK
  <2>4. StepsOK'
    BY <1>6, <2>1, <2>2, <1>0, Holds DEF JobRef, TypeInv, TypeOK, StepsOK, At,
           Thread, FreeSteps, SendSteps, CloseSteps
  <2> QED BY <2>3, <2>4 DEF TypeInv
<1>7. CASE Game
  <2>1. /\ pc' \in [Thread -> Label] /\ pc'["tick"] \in {"collect", "next"}
        /\ \A u \in Thread \ {"tick"} : pc'[u] = pc[u]
        /\ pc'["tick"] = "collect" => UNCHANGED mode
    BY <1>7, <1>0, Moves, Holds DEF Game, Label
  <2>2. TypeOK'
    BY <1>7, <2>1, <1>0, Holds DEF Game, TypeInv, TypeOK
  <2>3. StepsOK'
    BY <1>7, <2>1, <1>0, Holds DEF Game, TypeInv, TypeOK, StepsOK, At,
           Thread, FreeSteps, SendSteps, CloseSteps
  <2> QED BY <2>2, <2>3 DEF TypeInv
<1>8. CASE CollectTargets
  <2>1. /\ pc' \in [Thread -> Label] /\ pc'["tick"] = "next"
        /\ \A u \in Thread \ {"tick"} : pc'[u] = pc[u]
    BY <1>8, <1>0, Moves, Holds DEF CollectTargets, Label, Collect
  <2>2. ref' \in [Session -> Int] /\ targets' \subseteq Session /\ mode' = "aoi"
    BY <1>8 DEF CollectTargets, Collect, Open, TypeInv, TypeOK
  <2>3. TypeOK'
    BY <1>8, <2>1, <2>2, <1>0, Holds DEF CollectTargets, TypeInv, TypeOK
  <2>4. StepsOK'
    BY <1>8, <2>1, <2>2, <1>0, Holds DEF CollectTargets, TypeInv, TypeOK, StepsOK, At,
           Thread, FreeSteps, SendSteps, CloseSteps
  <2> QED BY <2>3, <2>4 DEF TypeInv
<1>9. CASE TickEnd
  <2>1. /\ pc' \in [Thread -> Label] /\ pc'["tick"] = "swap"
        /\ \A u \in Thread \ {"tick"} : pc'[u] = pc[u]
    BY <1>9, <1>0, Moves, Holds DEF TickEnd, Label
  <2>2. TypeOK'
    BY <1>9, <2>1, <1>0, Holds DEF TickEnd, TypeInv, TypeOK
  <2>3. StepsOK'
    BY <1>9, <2>1, <1>0, Holds DEF TickEnd, TypeInv, TypeOK, StepsOK, At,
           Thread, FreeSteps, SendSteps, CloseSteps
  <2> QED BY <2>2, <2>3 DEF TypeInv
<1>10. CASE NextTarget
  <2>0. /\ pc \in [Thread -> Label] /\ targets \subseteq Session
        /\ cur \in [Thread -> Session \cup {NoSession}]
        /\ ret["tick"] = "none"
        /\ mode = "echo" => jobs # <<>>
        /\ mode = "welcome" => lives # <<>>
        /\ mode \in {"none", "welcome", "echo", "redeal", "aoi"}
    BY <1>10, <1>0 DEF NextTarget, TypeInv, TypeOK, StepsOK, At, CloseSteps
  <2>1. /\ pc' \in [Thread -> Label] /\ targets' \subseteq Session
        /\ cur' \in [Thread -> Session \cup {NoSession}]
        /\ mode' \in {"none", "welcome", "echo", "redeal", "aoi"}
        /\ \A u \in Thread \ {"tick"} : pc'[u] = pc[u] /\ cur'[u] = cur[u]
        /\ \/ pc'["tick"] = "jobref" /\ mode = "echo" /\ mode' = "none"
           \/ pc'["tick"] = "collect" /\ mode' = "none"
           \/ pc'["tick"] = "sendpacket" /\ cur'["tick"] \in Session /\ mode' = mode
    <3>1. CASE targets = {}
      <4>1. /\ \/ Goto("tick", "jobref") /\ mode = "echo"
               \/ Goto("tick", "collect")
            /\ mode' = "none" /\ cur' = cur /\ targets' = targets
        BY <1>10, <3>1 DEF NextTarget
      <4> QED BY <1>0, <2>0, <4>1, Moves DEF Label
    <3>2. CASE targets # {}
      <4>1. PICK s \in targets : /\ targets' = targets \ {s}
                                 /\ Take("tick", s)
                                 /\ Goto("tick", "sendpacket")
                                 /\ mode' = mode
        BY <1>10, <3>2 DEF NextTarget
      <4> QED BY <1>0, <2>0, <4>1, Moves, Holds DEF Label
    <3> QED BY <3>1, <3>2
  <2>2. TypeOK'
    BY <1>10, <2>1 DEF NextTarget, TypeInv, TypeOK
  <2>3. StepsOK'
    <3>1. ret' = ret /\ lives' = lives /\ jobs' = jobs
      BY <1>10 DEF NextTarget
    <3>2. \A u \in Thread : pc'[u] \notin FreeSteps => cur'[u] \in Session
      BY <2>1 DEF TypeInv, StepsOK, FreeSteps
    <3> QED BY <2>0, <2>1, <3>1, <3>2 DEF StepsOK, SendSteps, CloseSteps
  <2> QED BY <2>2, <2>3 DEF TypeInv
<1>11. CASE SendCheck
  <2>1. /\ pc' \in [Thread -> Label] /\ pc'["tick"] \in {"sent", "push"}
        /\ \A u \in Thread \ {"tick"} : pc'[u] = pc[u]
    BY <1>11, <1>0, Moves, Holds DEF SendCheck, Label
  <2>2. TypeOK'
    BY <1>11, <2>1, <1>0, Holds DEF SendCheck, TypeInv, TypeOK
  <2>3. StepsOK'
    BY <1>11, <2>1, <1>0, Holds DEF SendCheck, TypeInv, TypeOK, StepsOK, At,
           Thread, FreeSteps, SendSteps, CloseSteps
  <2> QED BY <2>2, <2>3 DEF TypeInv
<1>12. CASE SendPush
  <2>0. cur["tick"] \in Session /\ queued \in [Session -> 0 .. SendCap]
    BY <1>12, <1>0 DEF SendPush, TypeInv, TypeOK, StepsOK, FreeSteps, At
  <2>1. /\ pc' \in [Thread -> Label] /\ pc'["tick"] \in {"sent", "sendref"}
        /\ \A u \in Thread \ {"tick"} : pc'[u] = pc[u]
    BY <1>12, <1>0, Moves DEF SendPush, Label
  <2>2. queued' \in [Session -> 0 .. SendCap]
    <3>1. queued[cur["tick"]] + 1 \in 0 .. SendCap
      BY <1>12, <2>0 DEF SendPush
    <3> QED BY <1>12, <2>0, <3>1 DEF SendPush
  <2>3. TypeOK'
    BY <1>12, <2>0, <2>1, <2>2 DEF SendPush, TypeInv, TypeOK
  <2>4. StepsOK'
    BY <1>12, <2>0, <2>1, <1>0 DEF SendPush, TypeInv, TypeOK, StepsOK, At,
           Thread, FreeSteps, SendSteps, CloseSteps
  <2> QED BY <2>3, <2>4 DEF TypeInv
<1>13. CASE SendFull
  <2>1. /\ pc' \in [Thread -> Label] /\ ret' \in [Thread -> Label]
        /\ \A u \in Thread \ {"tick"} : pc'[u] = pc[u] /\ ret'[u] = ret[u]
        /\ pc'["tick"] = "exchange" /\ ret'["tick"] = "sent"
    BY <1>13, <1>0, Moves, Holds DEF SendFull, Label
  <2>2. TypeOK'
    BY <1>13, <2>1, <1>0, Holds DEF SendFull, TypeInv, TypeOK
  <2>3. StepsOK'
    BY <1>13, <2>1, <1>0, Holds DEF SendFull, TypeInv, TypeOK, StepsOK, At,
           Thread, FreeSteps, SendSteps, CloseSteps
  <2> QED BY <2>2, <2>3 DEF TypeInv
<1>14. CASE Sent
  <2>0. /\ cur["tick"] \in Session /\ ret["tick"] = "none"
        /\ mode = "echo" => jobs # <<>>
        /\ mode = "welcome" => lives # <<>>
    BY <1>14, <1>0 DEF Sent, TypeInv, StepsOK, At, FreeSteps, CloseSteps
  <2>1. /\ pc' \in [Thread -> Label]
        /\ \A u \in Thread \ {"tick"} : pc'[u] = pc[u]
        /\ \/ pc'["tick"] = "liferef" /\ mode = "welcome" /\ mode' = "none"
           \/ pc'["tick"] = "next" /\ mode # "welcome" /\ mode' = mode
    BY <1>14, <1>0, Moves DEF Sent, Label
  <2>2. /\ cur' \in [Thread -> Session \cup {NoSession}]
        /\ \A u \in Thread \ {"tick"} : cur'[u] = cur[u]
        /\ ref' \in [Session -> Int] /\ alloc' \subseteq Session
    <3>1. CASE UNCHANGED memVars
      BY <1>14, <1>0, <3>1, Holds DEF Sent, TypeInv, TypeOK
    <3>2. CASE Release(cur["tick"])
      BY <1>14, <1>0, <2>0, <3>2, Holds DEF Sent
    <3> QED BY <1>14, <3>1, <3>2 DEF Sent
  <2>3. TypeOK'
    BY <1>14, <2>1, <2>2 DEF Sent, TypeInv, TypeOK
  <2>4. StepsOK'
    <3>1. ret' = ret /\ lives' = lives /\ jobs' = jobs
      BY <1>14 DEF Sent
    <3>2. \A u \in Thread : pc'[u] \notin FreeSteps => cur'[u] \in Session
      BY <2>1, <2>2 DEF TypeInv, StepsOK, FreeSteps
    <3> QED BY <2>0, <2>1, <2>2, <3>1, <3>2 DEF StepsOK, SendSteps, CloseSteps
  <2> QED BY <2>3, <2>4 DEF TypeInv
<1> QED BY <1>0, <1>1, <1>2, <1>3, <1>4, <1>5, <1>6, <1>7, <1>8, <1>9, <1>10, <1>11, <1>12, <1>13, <1>14,
          TypeSend, TypeClose DEF Tick

\* Every step of every thread keeps the types and the steps in order.
LEMMA TypeStep == TypeInv /\ [Next]_vars => TypeInv'
<1> SUFFICES ASSUME TypeInv, [Next]_vars PROVE TypeInv'
  OBVIOUS
<1>1. CASE Main
  BY <1>1, TypeMain
<1>2. CASE Tick
  BY <1>2, TypeTick
<1>3. ASSUME NEW w \in Worker, WorkerStep(w) PROVE TypeInv'
  BY <1>3, TypeWorker
<1>4. ASSUME NEW s \in Session, CompletionLost(s) PROVE TypeInv'
  <2> USE DEF memVars, sockVars, sendVars, queueVars, boardVars, tickVars,
              mainVars, threadVars
  <2>1. TypeOK'
    BY <1>4 DEF CompletionLost, TypeInv, TypeOK
  <2>2. StepsOK'
    BY <1>4 DEF CompletionLost, TypeInv, StepsOK
  <2> QED BY <2>1, <2>2 DEF TypeInv
<1>5. CASE UNCHANGED vars
  BY <1>5 DEF vars, memVars, sockVars, sendVars, queueVars, boardVars, tickVars,
              mainVars, threadVars, TypeInv, TypeOK, StepsOK
<1> QED BY <1>1, <1>2, <1>3, <1>4, <1>5 DEF Next, Terminated

\* Every reachable state is well typed, no job buffer outgrows its array, and
\* each thread that works on a session has one in hand - for any number of
\* workers, addresses and any capacity.
THEOREM TypeCorrect == Spec => []TypeInv
  BY TypeInit, TypeStep, PTL DEF Spec

-----------------------------------------------------------------------------
(* The inductive invariant, Inv below.  Where each thread may be (PlaceInv) *)
(* and what the tick thread is at (TickInv); the list and CloseSession      *)
(* (ListInv); a session main has not announced yet (SetupInv); the owners   *)
(* of the orders (OwnInv); the counts (RefInv); the line of Enters and      *)
(* Leaves (QueueInv).                                                       *)

\* From here on a proof that needs the assumption on the constants cites it.
HIDE ConstantsAssumption

\* The steps of CloseSession, and those of main, of a worker and of the tick thread.
Closing == {"exchange"} \cup CloseSteps
MainSteps == {"accept", "add", "associate", "enter", "recvref", "wsarecv", "mainref",
              "closenext", "closeref", "join", "exits", "stopped"} \cup Closing
WorkSteps == {"idle", "process", "repost", "recvref", "wsarecv", "onsent", "more",
              "sendref", "wsasend", "senddrop", "ioref", "stopped"} \cup Closing
PacketSteps == {"next", "sendpacket", "push", "sent", "sendref", "wsasend", "senddrop"}
TickSteps == {"swap", "life", "liferef", "jobref", "collect", "stopped"}
             \cup PacketSteps \cup Closing

\* Where thread t may be, with what in hand, and where it returns to.
PlaceOf(t, p, c, r) ==
  /\ t = "main" => p \in MainSteps /\ r \in {"none", "mainref", "closeref"}
  /\ t = "tick" => p \in TickSteps
  /\ t \in Worker => p \in WorkSteps /\ r \in {"none", "ioref", "repost", "senddrop"}
  /\ r # "none" <=> p \in Closing
  /\ p \in FreeSteps \ {"jobref"} => c = NoSession

\* main holds the sessions of CloseAllSessions only while it closes them.
PlaceInv ==
  /\ \A t \in Thread : PlaceOf(t, pc[t], cur[t], ret[t])
  /\ leftovers # {} => pc["main"] \in {"closenext", "closeref"} \/ ret["main"] = "closeref"

\* Everybody in the room.
Board == seated \cup viewers

\* What is left of a batch, and whom the tick thread is sending to, go with its step.
TickInv ==
  /\ pc["tick"] \in PacketSteps \/ ret["tick"] \in {"sent", "senddrop"} => mode # "none"
  /\ pc["tick"] = "next" => mode # "welcome"
  /\ mode \in {"none", "welcome"} => targets = {}
  /\ mode = "none" /\ cur["tick"] # NoSession => jobs # <<>> /\ cur["tick"] = Head(jobs)
  /\ mode = "welcome" => Head(lives).type = "Enter"
  /\ mode = "welcome" /\ cur["tick"] # NoSession => cur["tick"] = Head(lives).s
  /\ mode \in {"redeal", "aoi"} \/ pc["tick"] \in {"swap", "collect", "stopped"}
        => lives = <<>> /\ jobs = <<>>
  /\ mode = "redeal" => targets \cup ({cur["tick"]} \ {NoSession}) \subseteq Board
  /\ pc["tick"] = "liferef" =>
        (Head(lives).s \in Board => Head(lives).type = "Enter")

\* A session is listed until the one thread that won the exchange takes it off.
ListInv ==
  /\ \A s \in alloc : closing[s] \/ s \in list \/ Has("main", s, {"add"})
  /\ \A t \in Thread : pc[t] \in {"leave", "unlist"} => cur[t] \in list
  /\ \A t \in Thread : pc[t] \in {"shutdown", "unref"} => cur[t] \notin list
  /\ \A t \in Thread : pc[t] \in CloseSteps => closing[cur[t]]
  /\ \A t, u \in Thread : pc[t] \in CloseSteps /\ pc[u] \in CloseSteps /\ cur[t] = cur[u] => t = u
  /\ Cardinality(list) <= MaxSession

\* The steps at which a thread owns the receive buffer, or the send order.
RecvSteps == {"recvref", "wsarecv", "process", "repost"}
OwnSteps == {"sendref", "wsasend", "onsent", "more"}
RecvHand(t) == pc[t] \in RecvSteps \/ ret[t] = "repost"
SendHand(t) == pc[t] \in OwnSteps

\* Nobody but main knows it, or has seen it.
Untouched(s) ==
  /\ ~closing[s] /\ recvIO[s] = "none"
  /\ \A t \in Thread : cur[t] = s => pc[t] # "exchange" /\ ~RecvHand(t)
  /\ \A i \in DOMAIN life : life[i].s # s
  /\ \A i \in DOMAIN lives : lives[i].s # s
  /\ \A i \in DOMAIN pkts : pkts[i] # s
  /\ \A i \in DOMAIN jobs : jobs[i] # s
  /\ s \notin Board

\* Not even listed yet.
Unseen(s) ==
  /\ ref[s] = 2 /\ sendIO[s] = "none" /\ s \notin list \cup targets
  /\ \A t \in Thread \ {"main"} : cur[t] # s

\* The three steps of main between new Session and the Enter.
SetupInv ==
  /\ pc["main"] \in {"add", "associate", "enter"} => Untouched(cur["main"])
  /\ pc["main"] = "add" => Unseen(cur["main"])
  /\ pc["main"] \in {"associate", "enter"} => cur["main"] \in list

\* recv_buf belongs to the receive order or to one thread.
RecvOwn ==
  /\ \A t, u \in Thread : RecvHand(t) /\ RecvHand(u) /\ cur[t] = cur[u] => t = u
  /\ \A t \in Thread : RecvHand(t) => recvIO[cur[t]] = "none"

\* So does the send order, and as long as somebody owns it the flag is up.
SendOwn ==
  /\ \A t, u \in Thread : SendHand(t) /\ SendHand(u) /\ cur[t] = cur[u] => t = u
  /\ \A t \in Thread : SendHand(t) => sendIO[cur[t]] = "none" /\ sending[cur[t]]
  /\ \A s \in Session : sendIO[s] # "none" => sending[s]

OwnInv == RecvOwn /\ SendOwn

\* A count of 0 and a deleted session are the same.
RefInv ==
  /\ RefsBalance
  /\ \A s \in Session : s \in alloc <=> ref[s] # 0

\* Whose Enter or Leave waits, in the batch of the tick thread or in the buffer.
Waits(q, type, s) == \E i \in DOMAIN q : q[i] = [type |-> type, s |-> s]
Leaves(s) == Waits(lives, "Leave", s) \/ Waits(life, "Leave", s)
Enters(s) == Waits(lives, "Enter", s) \/ Waits(life, "Enter", s)
\* It is open, or its Leave is about to be queued, or waits.
Kept(s) ==
     \/ s \in list /\ ~closing[s]
     \/ \E t \in Thread : pc[t] = "leave" /\ cur[t] = s
     \/ Leaves(s)
\* How two jobs of a session follow one another.
EnterFirst(a, b) == a.s = b.s => a.type = "Enter" /\ b.type = "Leave"

\* The jobs of a session are in order, a Leave says the truth, and whoever is in the
\* room, or waits for it, will be told to leave it.
QueueInv ==
  /\ \A i, j \in DOMAIN lives : i < j => EnterFirst(lives[i], lives[j])
  /\ \A i, j \in DOMAIN life : i < j => EnterFirst(life[i], life[j])
  /\ \A i \in DOMAIN lives, j \in DOMAIN life : EnterFirst(lives[i], life[j])
  /\ \A s \in Session : Leaves(s) => closing[s]
  /\ \A t \in Thread : pc[t] = "leave" => ~Leaves(cur[t])
  /\ \A s \in Session : s \in Board \/ Enters(s) => Kept(s)

Inv == TypeInv /\ PlaceInv /\ TickInv /\ ListInv /\ SetupInv /\ OwnInv /\ RefInv /\ QueueInv

\* One thread moves to step p, with c in hand and r to return to; the others stay.
Moved(t, p, c, r) ==
  /\ pc'[t] = p /\ cur'[t] = c /\ ret'[t] = r
  /\ \A u \in Thread \ {t} : pc'[u] = pc[u] /\ cur'[u] = cur[u] /\ ret'[u] = ret[u]

\* The threads of the server.
LEMMA Threads ==
  /\ "main" \in Thread /\ "tick" \in Thread /\ "main" # "tick"
  /\ \A w \in Worker : w \in Thread /\ w # "main" /\ w # "tick"
  /\ \A t \in Thread : t = "main" \/ t = "tick" \/ t \in Worker
<1>1. "main" \notin Worker /\ "tick" \notin Worker
  <2>1. \A x \in {"main", "tick"} : x \notin {"main", "tick"} \cap Worker
    BY ConstantsAssumption
  <2> QED BY <2>1
<1> QED BY <1>1 DEF Thread

\* How the jumps of the model move a thread.
LEMMA Jumps ==
  ASSUME TypeInv, NEW t \in Thread
  PROVE  /\ \A l : Goto(t, l) /\ UNCHANGED <<cur, ret>> => Moved(t, l, cur[t], ret[t])
         /\ \A l, s : Goto(t, l) /\ Take(t, s) /\ UNCHANGED ret => Moved(t, l, s, ret[t])
         /\ \A l : Goto(t, l) /\ Drop(t) /\ UNCHANGED ret => Moved(t, l, NoSession, ret[t])
         /\ \A l : CallClose(t, l) /\ UNCHANGED cur => Moved(t, "exchange", cur[t], l)
         /\ \A l, s : CallClose(t, l) /\ Take(t, s) => Moved(t, "exchange", s, l)
         /\ Return(t) /\ UNCHANGED cur => Moved(t, ret[t], cur[t], "none")
<1>1. /\ pc \in [Thread -> Label] /\ ret \in [Thread -> Label]
      /\ cur \in [Thread -> Session \cup {NoSession}]
  BY DEF TypeInv, TypeOK
<1> QED BY <1>1 DEF Goto, Take, Drop, CallClose, Return, Moved

\* The steps of CloseSession.
LEMMA CloseMoves ==
  ASSUME TypeInv, NEW t \in Thread
  PROVE  /\ CloseExchange(t) =>
              /\ pc[t] = "exchange"
              /\ \/ closing[cur[t]] /\ closing' = closing /\ Moved(t, ret[t], cur[t], "none")
                 \/ /\ ~closing[cur[t]] /\ closing' = [closing EXCEPT ![cur[t]] = TRUE]
                    /\ Moved(t, "leave", cur[t], ret[t])
         /\ CloseLeave(t) => pc[t] = "leave" /\ Moved(t, "unlist", cur[t], ret[t])
         /\ CloseUnlist(t) => pc[t] = "unlist" /\ Moved(t, "shutdown", cur[t], ret[t])
         /\ CloseShutdown(t) => pc[t] = "shutdown" /\ Moved(t, "unref", cur[t], ret[t])
         /\ CloseUnref(t) => pc[t] = "unref" /\ Moved(t, ret[t], cur[t], "none")
  BY Jumps DEF CloseExchange, CloseLeave, CloseUnlist, CloseShutdown, CloseUnref, At

\* The steps of PostRecv.
LEMMA RecvMoves ==
  ASSUME TypeInv, NEW t \in Thread
  PROVE  /\ RecvRef(t) => pc[t] = "recvref" /\ Moved(t, "wsarecv", cur[t], ret[t])
         /\ RecvPosted(t) => pc[t] = "wsarecv" /\ Moved(t, AfterRecv(t), cur[t], ret[t])
         /\ RecvFailed(t) => pc[t] = "wsarecv" /\ Moved(t, "exchange", cur[t], AfterRecv(t))
  BY Jumps DEF RecvRef, RecvPosted, RecvFailed, At

\* The steps of StartSend.
LEMMA SendMoves ==
  ASSUME TypeInv, NEW t \in Thread
  PROVE  /\ SendRef(t) => pc[t] = "sendref" /\ Moved(t, "wsasend", cur[t], ret[t])
         /\ SendPosted(t) => pc[t] = "wsasend" /\ Moved(t, AfterSend(t), cur[t], ret[t])
         /\ SendFailed(t) => pc[t] = "wsasend" /\ Moved(t, "exchange", cur[t], "senddrop")
         /\ SendDrop(t) => pc[t] = "senddrop" /\ Moved(t, AfterSend(t), cur[t], ret[t])
  BY Jumps DEF SendRef, SendPosted, SendFailed, SendDrop, At

\* The steps of main alone.
LEMMA MainMoves ==
  ASSUME TypeInv
  PROVE  /\ \A s \in Session : Accept(s) =>
              pc["main"] = "accept" /\ Moved("main", "add", s, ret["main"])
         /\ AddSession => pc["main"] = "add" /\ Moved("main", "associate", cur["main"], ret["main"])
         /\ ListFull => pc["main"] = "add" /\ Moved("main", "accept", NoSession, ret["main"])
         /\ Associate => /\ pc["main"] = "associate"
                         /\ \/ Moved("main", "enter", cur["main"], ret["main"])
                            \/ Moved("main", "exchange", cur["main"], "mainref")
         /\ PushEnter => pc["main"] = "enter" /\ Moved("main", "recvref", cur["main"], ret["main"])
         /\ MainRelease => pc["main"] = "mainref" /\ Moved("main", "accept", NoSession, ret["main"])
         /\ CollectAll =>
              pc["main"] = "accept" /\ Moved("main", "closenext", cur["main"], ret["main"])
         /\ \A s \in Session : CloseNext(s) =>
              pc["main"] = "closenext" /\ Moved("main", "exchange", s, "closeref")
         /\ CloseRef => pc["main"] = "closeref" /\ Moved("main", "closenext", NoSession, ret["main"])
         /\ Drain => pc["main"] = "closenext" /\ Moved("main", "join", cur["main"], ret["main"])
         /\ Join => pc["main"] = "join" /\ Moved("main", "exits", cur["main"], ret["main"])
         /\ Exit => pc["main"] = "exits" /\ Moved("main", "stopped", cur["main"], ret["main"])
  BY Threads, Jumps
  DEF Accept, AddSession, ListFull, Associate, PushEnter, MainRelease, CollectAll, CloseNext,
      CloseRef, Drain, Join, Exit, At

\* The steps of a worker alone.
LEMMA WorkerMoves ==
  ASSUME TypeInv, NEW w \in Worker
  PROVE  /\ \A s \in Session : TakeRecv(w, s) =>
              /\ pc[w] = "idle"
              /\ Moved(w, "process", s, ret[w]) \/ Moved(w, "exchange", s, "ioref")
         /\ ProcessPacket(w) =>
              /\ pc[w] = "process"
              /\ \/ Moved(w, "repost", cur[w], ret[w]) \/ Moved(w, "process", cur[w], ret[w])
                 \/ Moved(w, "exchange", cur[w], "repost")
         /\ ProcessEnd(w) =>
              /\ pc[w] = "process"
              /\ Moved(w, "repost", cur[w], ret[w]) \/ Moved(w, "exchange", cur[w], "repost")
         /\ Repost(w) =>
              /\ pc[w] = "repost"
              /\ Moved(w, IF closing[cur[w]] THEN "ioref" ELSE "recvref", cur[w], ret[w])
         /\ \A s \in Session : TakeSend(w, s) =>
              /\ pc[w] = "idle"
              /\ Moved(w, "onsent", s, ret[w]) \/ Moved(w, "exchange", s, "ioref")
         /\ OnSent(w) =>
              /\ pc[w] = "onsent"
              /\ Moved(w, "more", cur[w], ret[w]) \/ Moved(w, "ioref", cur[w], ret[w])
         /\ SendMore(w) =>
              /\ pc[w] = "more"
              /\ Moved(w, IF closing[cur[w]] THEN "ioref" ELSE "sendref", cur[w], ret[w])
         /\ IoRelease(w) => pc[w] = "ioref" /\ Moved(w, "idle", NoSession, ret[w])
         /\ WorkerExit(w) => pc[w] = "idle" /\ Moved(w, "stopped", cur[w], ret[w])
  BY Threads, Jumps
  DEF TakeRecv, ProcessPacket, ProcessEnd, Repost, TakeSend, OnSent, SendMore, IoRelease,
      WorkerExit, At

\* The steps of the tick thread alone.
LEMMA TickMoves ==
  ASSUME TypeInv
  PROVE  /\ Swap => /\ pc["tick"] = "swap"
                    /\ Moved("tick", IF running THEN "life" ELSE "stopped", cur["tick"], ret["tick"])
         /\ HandleEnter =>
              /\ pc["tick"] = "life"
              /\ \/ /\ Moved("tick", "sendpacket", Head(lives).s, ret["tick"])
                    /\ mode' = "welcome"
                 \/ Moved("tick", "liferef", cur["tick"], ret["tick"]) /\ mode' = mode
         /\ HandleLeave => pc["tick"] = "life" /\ Moved("tick", "liferef", cur["tick"], ret["tick"])
         /\ LifeRef => pc["tick"] = "liferef" /\ Moved("tick", "life", cur["tick"], ret["tick"])
         /\ HandlePacket =>
              /\ pc["tick"] = "life"
              /\ \/ /\ Moved("tick", "jobref", cur["tick"], ret["tick"])
                    /\ UNCHANGED <<ref, mode, targets>>
                 \/ /\ Moved("tick", "exchange", Head(jobs), "jobref")
                    /\ UNCHANGED <<ref, mode, targets>>
                 \/ /\ Moved("tick", "next", cur["tick"], ret["tick"])
                    /\ Collect(Open, "echo")
         /\ JobRef => pc["tick"] = "jobref" /\ Moved("tick", "life", NoSession, ret["tick"])
         /\ Game => /\ pc["tick"] = "life"
                    /\ \/ /\ Moved("tick", "collect", cur["tick"], ret["tick"])
                          /\ UNCHANGED <<boardVars, tickVars>>
                       \/ /\ Moved("tick", "next", cur["tick"], ret["tick"])
                          /\ seated' \cup viewers' = seated \cup viewers
                          /\ targets' = seated \cup viewers /\ mode' = "redeal"
         /\ CollectTargets =>
              pc["tick"] = "collect" /\ Moved("tick", "next", cur["tick"], ret["tick"])
         /\ TickEnd => pc["tick"] = "collect" /\ Moved("tick", "swap", cur["tick"], ret["tick"])
         /\ NextTarget =>
              /\ pc["tick"] = "next"
              /\ \/ /\ targets = {} /\ targets' = targets /\ mode' = "none"
                    /\ Moved("tick", IF mode = "echo" THEN "jobref" ELSE "collect",
                             cur["tick"], ret["tick"])
                 \/ \E s \in targets :
                      /\ targets' = targets \ {s} /\ mode' = mode
                      /\ Moved("tick", "sendpacket", s, ret["tick"])
         /\ SendCheck =>
              /\ pc["tick"] = "sendpacket"
              /\ Moved("tick", IF closing[cur["tick"]] THEN "sent" ELSE "push",
                       cur["tick"], ret["tick"])
         /\ SendPush =>
              /\ pc["tick"] = "push"
              /\ Moved("tick", IF sending[cur["tick"]] THEN "sent" ELSE "sendref",
                       cur["tick"], ret["tick"])
         /\ SendFull => pc["tick"] = "push" /\ Moved("tick", "exchange", cur["tick"], "sent")
         /\ Sent => /\ pc["tick"] = "sent"
                    /\ Moved("tick", IF mode = "welcome" THEN "liferef" ELSE "next",
                             NoSession, ret["tick"])
                    /\ mode' = IF mode = "welcome" THEN "none" ELSE mode
  BY Threads, Jumps
  DEF Swap, HandleEnter, HandleLeave, LifeRef, HandlePacket, JobRef, Game, CollectTargets,
      TickEnd, NextTarget, SendCheck, SendPush, SendFull, Sent, Collect, At, boardVars, tickVars

\* What each part of the program leaves alone.
LEMMA Frames ==
  ASSUME NEW t \in Thread
  PROVE  /\ CloseSession(t) => UNCHANGED <<sending, queued, recvIO, sendIO, assoc, pkts, lives,
                                           jobs, seated, viewers, targets, mode, leftovers>>
         /\ PostRecv(t) => UNCHANGED <<closing, sending, queued, sendIO, list, life, pkts, lives,
                                       jobs, seated, viewers, targets, mode, leftovers>>
         /\ StartSend(t) => UNCHANGED <<closing, sending, queued, recvIO, list, life, pkts, lives,
                                        jobs, seated, viewers, targets, mode, leftovers>>
<1> USE DEF memVars, sockVars, sendVars, queueVars, boardVars, tickVars, mainVars
<1>1. CloseSession(t) => UNCHANGED <<sending, queued, recvIO, sendIO, assoc, pkts, lives,
                                     jobs, seated, viewers, targets, mode, leftovers>>
  BY DEF CloseSession, CloseExchange, CloseLeave, CloseUnlist, CloseShutdown, CloseUnref
<1>2. PostRecv(t) => UNCHANGED <<closing, sending, queued, sendIO, list, life, pkts, lives,
                                 jobs, seated, viewers, targets, mode, leftovers>>
  BY DEF PostRecv, RecvRef, RecvPosted, RecvFailed
<1>3. StartSend(t) => UNCHANGED <<closing, sending, queued, recvIO, list, life, pkts, lives,
                                  jobs, seated, viewers, targets, mode, leftovers>>
  BY DEF StartSend, SendRef, SendPosted, SendFailed, SendDrop
<1> QED BY <1>1, <1>2, <1>3

\* The steps of a worker that are its own, and those of the tick thread and of main.
WorkerOwn(w) ==
  \/ \E s \in Session : TakeRecv(w, s) \/ TakeSend(w, s)
  \/ ProcessPacket(w) \/ ProcessEnd(w) \/ Repost(w)
  \/ OnSent(w) \/ SendMore(w) \/ IoRelease(w) \/ WorkerExit(w)

TickOwn ==
  \/ Swap \/ HandleEnter \/ HandleLeave \/ LifeRef \/ HandlePacket \/ JobRef
  \/ Game \/ CollectTargets \/ TickEnd \/ NextTarget
  \/ SendCheck \/ SendPush \/ SendFull \/ Sent

MainOwn ==
  \/ \E s \in Session : Accept(s) \/ CloseNext(s)
  \/ AddSession \/ ListFull \/ Associate \/ PushEnter \/ MainRelease
  \/ CollectAll \/ CloseRef \/ Drain \/ Join \/ Exit

\* What the steps of a thread on its own leave alone.
LEMMA OwnFrames ==
  /\ \A w \in Worker : WorkerOwn(w) =>
       UNCHANGED <<closing, list, life, lives, jobs, seated, viewers, targets, mode, leftovers>>
  /\ TickOwn => UNCHANGED <<closing, recvIO, sendIO, list, leftovers>>
  /\ MainOwn => UNCHANGED <<pkts, lives, jobs, seated, viewers, targets, mode>>
<1> USE DEF memVars, sockVars, sendVars, queueVars, boardVars, tickVars, mainVars
<1>1. \A w \in Worker : WorkerOwn(w) =>
        UNCHANGED <<closing, list, life, lives, jobs, seated, viewers, targets, mode, leftovers>>
  BY DEF WorkerOwn, TakeRecv, TakeSend, ProcessPacket, ProcessEnd, Repost, OnSent, SendMore,
         IoRelease, WorkerExit
<1>2. TickOwn => UNCHANGED <<closing, recvIO, sendIO, list, leftovers>>
  BY DEF TickOwn, Swap, HandleEnter, HandleLeave, LifeRef, HandlePacket, JobRef, Game,
         CollectTargets, TickEnd, NextTarget, SendCheck, SendPush, SendFull, Sent
<1>3. MainOwn => UNCHANGED <<pkts, lives, jobs, seated, viewers, targets, mode>>
  BY DEF MainOwn, Accept, CloseNext, AddSession, ListFull, Associate, PushEnter, MainRelease,
         CollectAll, CloseRef, Drain, Join, Exit
<1> QED BY <1>1, <1>2, <1>3

\* Every step is a step of one thread, alone or in a part they share, or loses a completion.
LEMMA Steps ==
  ASSUME [Next]_vars
  PROVE  \/ \E t \in Thread : CloseSession(t)
         \/ \E t \in Thread \ {"tick"} : PostRecv(t)
         \/ \E t \in Thread \ {"main"} : StartSend(t)
         \/ MainOwn \/ TickOwn
         \/ \E w \in Worker : WorkerOwn(w)
         \/ \E s \in Session : CompletionLost(s)
         \/ UNCHANGED vars
  BY Threads DEF Next, Terminated, Main, Tick, WorkerStep, MainOwn, TickOwn, WorkerOwn

\* The places of the threads, after one of them moved.
LEMMA PlaceKept ==
  ASSUME PlaceInv, NEW t \in Thread, NEW p, NEW c, NEW r, Moved(t, p, c, r), PlaceOf(t, p, c, r),
         \/ leftovers' = {}
         \/ leftovers' = leftovers /\ t # "main"
         \/ t = "main" /\ (p \in {"closenext", "closeref"} \/ r = "closeref")
  PROVE  PlaceInv'
<1>1. \A u \in Thread : PlaceOf(u, pc'[u], cur'[u], ret'[u])
  BY DEF PlaceInv, Moved
<1>2. leftovers' # {} => pc'["main"] \in {"closenext", "closeref"} \/ ret'["main"] = "closeref"
  BY Threads DEF PlaceInv, Moved
<1> QED BY <1>1, <1>2 DEF PlaceInv, PlaceOf

\* A thread that comes back from CloseSession is where it may be.
LEMMA PlaceReturn ==
  ASSUME TypeInv, PlaceInv, NEW t \in Thread, pc[t] \in Closing
  PROVE  PlaceOf(t, ret[t], cur[t], "none")
<1>1. PlaceOf(t, pc[t], cur[t], ret[t]) /\ pc[t] \notin FreeSteps
  BY DEF PlaceInv, Closing, CloseSteps, FreeSteps
<1>2. t = "tick" => ret[t] \in {"sent", "senddrop", "jobref"}
  BY <1>1 DEF TypeInv, StepsOK, PlaceOf
<1>3. /\ t = "main" => ret[t] \in {"mainref", "closeref"}
      /\ t \in Worker => ret[t] \in {"ioref", "repost", "senddrop"}
  BY <1>1 DEF PlaceOf
<1>4. CASE t = "main"
  BY <1>3, <1>4, Threads DEF PlaceOf, MainSteps, Closing, CloseSteps, FreeSteps
<1>5. CASE t = "tick"
  BY <1>2, <1>5, Threads DEF PlaceOf, TickSteps, PacketSteps, Closing, CloseSteps, FreeSteps
<1>6. CASE t \in Worker
  BY <1>3, <1>6, Threads DEF PlaceOf, WorkSteps, Closing, CloseSteps, FreeSteps
<1> QED BY <1>4, <1>5, <1>6, Threads

\* The threads stay where they may be.
LEMMA PlaceStep ==
  ASSUME TypeInv, PlaceInv, [Next]_vars
  PROVE  PlaceInv'
<1>0. \A t \in Thread : PlaceOf(t, pc[t], cur[t], ret[t])
  BY DEF PlaceInv
<1>1. ASSUME NEW t \in Thread, CloseSession(t) PROVE PlaceInv'
  <2>1. leftovers' = leftovers /\ (t = "main" /\ leftovers # {} => ret[t] = "closeref")
    BY <1>1, Frames, CloseMoves DEF PlaceInv, CloseSession
  <2>2. pc[t] \in Closing
    BY <1>1, CloseMoves DEF CloseSession, Closing, CloseSteps
  <2>3. CASE CloseExchange(t) \/ CloseUnref(t)
    <3>1. Moved(t, ret[t], cur[t], "none") => PlaceInv'
      BY <2>1, <2>2, PlaceReturn, PlaceKept
    <3>2. Moved(t, "leave", cur[t], ret[t]) => PlaceInv'
      <4>1. PlaceOf(t, "leave", cur[t], ret[t])
        BY <1>0, <2>2 DEF PlaceOf, MainSteps, WorkSteps, TickSteps, Closing, CloseSteps, FreeSteps
      <4> QED BY <2>1, <4>1, PlaceKept
    <3> QED BY <2>3, <3>1, <3>2, CloseMoves
  <2>4. CASE CloseLeave(t) \/ CloseUnlist(t) \/ CloseShutdown(t)
    <3>1. \A p \in {"unlist", "shutdown", "unref"} : PlaceOf(t, p, cur[t], ret[t])
      BY <1>0, <2>2 DEF PlaceOf, MainSteps, WorkSteps, TickSteps, Closing, CloseSteps, FreeSteps
    <3>2. \A p \in {"unlist", "shutdown", "unref"} : Moved(t, p, cur[t], ret[t]) => PlaceInv'
      BY <2>1, <3>1, PlaceKept
    <3> QED BY <2>4, <3>2, CloseMoves
  <2> QED BY <1>1, <2>3, <2>4 DEF CloseSession
<1>2. ASSUME NEW t \in Thread \ {"tick"}, PostRecv(t) PROVE PlaceInv'
  <2>1. leftovers' = leftovers /\ (t = "main" => leftovers = {})
    BY <1>0, <1>2, Frames, RecvMoves, Threads DEF PlaceInv, PostRecv, PlaceOf, Closing, CloseSteps
  <2>2. /\ RecvRef(t) => PlaceOf(t, "wsarecv", cur[t], ret[t])
        /\ RecvPosted(t) => PlaceOf(t, AfterRecv(t), cur[t], ret[t])
        /\ RecvFailed(t) => PlaceOf(t, "exchange", cur[t], AfterRecv(t))
    BY <1>0, Threads, RecvMoves
    DEF PlaceOf, AfterRecv, MainSteps, WorkSteps, Closing, CloseSteps, FreeSteps
  <2> QED BY <1>2, <2>1, <2>2, RecvMoves, PlaceKept DEF PostRecv
<1>3. ASSUME NEW t \in Thread \ {"main"}, StartSend(t) PROVE PlaceInv'
  <2>1. leftovers' = leftovers
    BY <1>3, Frames
  <2>2. /\ SendRef(t) => PlaceOf(t, "wsasend", cur[t], ret[t])
        /\ SendPosted(t) \/ SendDrop(t) => PlaceOf(t, AfterSend(t), cur[t], ret[t])
        /\ SendFailed(t) => PlaceOf(t, "exchange", cur[t], "senddrop")
    BY <1>0, Threads, SendMoves
    DEF PlaceOf, AfterSend, TickSteps, PacketSteps, WorkSteps, Closing, CloseSteps, FreeSteps
  <2> QED BY <1>3, <2>1, <2>2, SendMoves, PlaceKept DEF StartSend
<1>4. CASE MainOwn
  <2> USE DEF PlaceOf, MainSteps, Closing, CloseSteps, FreeSteps
  <2>1. PlaceOf("main", pc["main"], cur["main"], ret["main"])
    BY <1>0, Threads
  <2>2. /\ leftovers # {} => pc["main"] \in {"closenext", "closeref"} \/ ret["main"] = "closeref"
        /\ \A p, c, r : /\ Moved("main", p, c, r) /\ PlaceOf("main", p, c, r)
                        /\ leftovers' = {} \/ p \in {"closenext", "closeref"} \/ r = "closeref"
                        => PlaceInv'
    BY PlaceKept, Threads DEF PlaceInv
  <2>3. ASSUME NEW s \in Session, Accept(s) \/ CloseNext(s) PROVE PlaceInv'
    BY <2>1, <2>2, <2>3, MainMoves, Threads DEF Accept, CloseNext, mainVars
  <2>4. CASE AddSession \/ ListFull \/ Associate \/ PushEnter \/ MainRelease
    BY <2>1, <2>2, <2>4, MainMoves, Threads
    DEF AddSession, ListFull, Associate, PushEnter, MainRelease, mainVars
  <2>5. CASE CollectAll \/ CloseRef \/ Drain \/ Join \/ Exit
    BY <2>1, <2>2, <2>5, MainMoves, Threads DEF CollectAll, CloseRef, Drain, Join, Exit, mainVars
  <2> QED BY <1>4, <2>3, <2>4, <2>5 DEF MainOwn
<1>5. CASE TickOwn
  <2> USE DEF PlaceOf, TickSteps, PacketSteps, Closing, CloseSteps, FreeSteps
  <2>1. PlaceOf("tick", pc["tick"], cur["tick"], ret["tick"])
    BY <1>0, Threads
  <2>2. \A p, c, r : Moved("tick", p, c, r) /\ PlaceOf("tick", p, c, r) => PlaceInv'
    BY <1>5, PlaceKept, Threads, OwnFrames
  <2>3. CASE Swap \/ HandleEnter \/ HandleLeave \/ LifeRef \/ HandlePacket
    BY <2>1, <2>2, <2>3, TickMoves, Threads
  <2>4. CASE JobRef \/ Game \/ CollectTargets \/ TickEnd \/ NextTarget
    BY <2>1, <2>2, <2>4, TickMoves, Threads
  <2>5. CASE SendCheck \/ SendPush \/ SendFull \/ Sent
    BY <2>1, <2>2, <2>5, TickMoves, Threads
  <2> QED BY <1>5, <2>3, <2>4, <2>5 DEF TickOwn
<1>6. ASSUME NEW w \in Worker, WorkerOwn(w) PROVE PlaceInv'
  <2> USE DEF PlaceOf, WorkSteps, Closing, CloseSteps, FreeSteps
  <2>1. PlaceOf(w, pc[w], cur[w], ret[w])
    BY <1>0, Threads
  <2>2. \A p, c, r : Moved(w, p, c, r) /\ PlaceOf(w, p, c, r) => PlaceInv'
    BY <1>6, PlaceKept, Threads, OwnFrames
  <2>3. ASSUME NEW s \in Session, TakeRecv(w, s) \/ TakeSend(w, s) PROVE PlaceInv'
    BY <2>1, <2>2, <2>3, WorkerMoves, Threads
  <2>4. CASE ProcessPacket(w) \/ ProcessEnd(w) \/ Repost(w)
    BY <2>1, <2>2, <2>4, WorkerMoves, Threads
  <2>5. CASE OnSent(w) \/ SendMore(w) \/ IoRelease(w) \/ WorkerExit(w)
    BY <2>1, <2>2, <2>5, WorkerMoves, Threads
  <2> QED BY <1>6, <2>3, <2>4, <2>5 DEF WorkerOwn
<1>7. ASSUME NEW s \in Session, CompletionLost(s) PROVE PlaceInv'
  BY <1>7 DEF CompletionLost, threadVars, mainVars, PlaceInv
<1>8. CASE UNCHANGED vars
  BY <1>8 DEF vars, threadVars, mainVars, PlaceInv
<1> QED BY <1>1, <1>2, <1>3, <1>4, <1>5, <1>6, <1>7, <1>8, Steps

-----------------------------------------------------------------------------
(* Counting the holders.                                                   *)

\* Two subsets of a finite set that differ in one element at most.
LEMMA OneElement ==
  ASSUME NEW T, IsFiniteSet(T), NEW A \in SUBSET T, NEW B \in SUBSET T, NEW x \in T,
         \A y \in T \ {x} : y \in A <=> y \in B
  PROVE  /\ Cardinality(A) \in Nat /\ Cardinality(B) \in Nat
         /\ Cardinality(B) - Count(x \in B) = Cardinality(A) - Count(x \in A)
<1>1. IsFiniteSet(A) /\ IsFiniteSet(B)
  BY FS_Subset
<1>2. A \ {x} = B \ {x}
  OBVIOUS
<1>3. /\ Cardinality(A) \in Nat /\ Cardinality(B) \in Nat
      /\ Cardinality(A \ {x}) = IF x \in A THEN Cardinality(A) - 1 ELSE Cardinality(A)
      /\ Cardinality(B \ {x}) = IF x \in B THEN Cardinality(B) - 1 ELSE Cardinality(B)
  BY <1>1, FS_CardinalityType, FS_RemoveElement
<1> QED BY <1>2, <1>3 DEF Count

\* The same set of places, one further on, and the first place.
LEMMA Shifted ==
  ASSUME NEW n \in Nat, NEW I \in SUBSET (1 .. n + 1), NEW J \in SUBSET (1 .. n),
         \A i \in 1 .. n : i \in J <=> i + 1 \in I
  PROVE  Cardinality(I) = Cardinality(J) + Count(1 \in I)
<1> DEFINE K == I \ {1}
           f == [i \in J |-> i + 1]
<1>1. IsFiniteSet(1 .. n + 1) /\ IsFiniteSet(1 .. n)
  <2>1. \A b \in Nat : IsFiniteSet(1 .. b)
    BY FS_Interval
  <2> QED BY <2>1
<1>2. IsFiniteSet(I) /\ IsFiniteSet(J)
  BY <1>1, FS_Subset
<1>3. f \in Bijection(J, K)
  <2>1. \A i \in J : i \in Int /\ i + 1 \in K
    OBVIOUS
  <2>2. \A k \in K : k - 1 \in J /\ (k - 1) + 1 = k
    <3> TAKE k \in K
    <3>1. k \in Int /\ 2 <= k /\ k <= n + 1
      OBVIOUS
    <3>2. k - 1 \in 1 .. n /\ (k - 1) + 1 = k
      BY <3>1
    <3> QED BY <3>2
  <2>3. f \in [J -> K]
    BY <2>1
  <2>4. \A i, j \in J : f[i] = f[j] => i = j
    BY <2>1
  <2>5. \A k \in K : \E i \in J : f[i] = k
    BY <2>2
  <2> QED BY <2>3, <2>4, <2>5, Fun_IsBij
<1>4. Cardinality(K) = Cardinality(J)
  <2>1. ExistsBijection(J, K)
    BY <1>3 DEF ExistsBijection
  <2> QED BY <1>2, <2>1, FS_Bijection
<1>5. /\ Cardinality(I) \in Nat
      /\ Cardinality(K) = IF 1 \in I THEN Cardinality(I) - 1 ELSE Cardinality(I)
  BY <1>2, FS_CardinalityType, FS_RemoveElement
<1> QED BY <1>4, <1>5 DEF Count

\* The places of a sequence, whichever are asked for, are a finite set.
LEMMA Places ==
  ASSUME NEW S, NEW q \in Seq(S), NEW I \in SUBSET DOMAIN q
  PROVE  /\ Cardinality(I) \in Nat /\ (Cardinality(I) = 0 <=> I = {})
<1>1. Len(q) \in Nat /\ DOMAIN q = 1 .. Len(q)
  BY LenProperties
<1>2. \A b \in Nat : IsFiniteSet(1 .. b)
  BY FS_Interval
<1>3. IsFiniteSet(I)
  BY <1>1, <1>2, FS_Subset
<1> QED BY <1>3, FS_CardinalityType, FS_EmptySet

\* How often a session is in a batch of packet jobs.
LEMMA TimesCount ==
  ASSUME NEW q \in Seq(Session), NEW s
  PROVE  /\ Times(q, s) \in Nat
         /\ Times(q, s) = 0 => \A i \in DOMAIN q : q[i] # s
         /\ \A x \in Session : Times(Append(q, x), s) = Times(q, s) + Count(x = s)
         /\ q # <<>> => Times(q, s) = Times(Tail(q), s) + Count(Head(q) = s)
<1> DEFINE I == {i \in DOMAIN q : q[i] = s}
<1>1. Times(q, s) = Cardinality(I) /\ Cardinality(I) \in Nat /\ (Cardinality(I) = 0 <=> I = {})
  BY Places DEF Times
<1>2. Len(q) \in Nat /\ DOMAIN q = 1 .. Len(q) /\ \A b \in Nat : IsFiniteSet(1 .. b)
  BY LenProperties, FS_Interval
<1>3. ASSUME NEW x \in Session PROVE Times(Append(q, x), s) = Times(q, s) + Count(x = s)
  <2> DEFINE J == {i \in DOMAIN Append(q, x) : Append(q, x)[i] = s}
             T == 1 .. Len(q) + 1
             e == Len(q) + 1
  <2>1. /\ DOMAIN Append(q, x) = 1 .. Len(q) + 1
        /\ \A i \in 1 .. Len(q) : Append(q, x)[i] = q[i]
        /\ Append(q, x)[Len(q) + 1] = x
    BY AppendProperties, <1>2
  <2>2. IsFiniteSet(T) /\ e \in T /\ e \notin I /\ (e \in J <=> x = s)
    BY <1>2, <2>1
  <2>3. I \in SUBSET T /\ J \in SUBSET T /\ \A y \in T \ {e} : y \in I <=> y \in J
    BY <1>2, <2>1
  <2>4. Cardinality(J) \in Nat /\ Cardinality(J) - Count(e \in J) = Cardinality(I) - Count(e \in I)
    <3> HIDE DEF I, J, T, e
    <3> QED BY <2>2, <2>3, OneElement
  <2>5. Count(e \in I) = 0 /\ Count(e \in J) = Count(x = s) /\ Count(x = s) \in Nat
    BY <2>2 DEF Count
  <2>6. Times(Append(q, x), s) = Cardinality(J)
    BY DEF Times
  <2> HIDE DEF I, J, T, e
  <2> QED BY <1>1, <2>4, <2>5, <2>6
<1>4. ASSUME q # <<>> PROVE Times(q, s) = Times(Tail(q), s) + Count(Head(q) = s)
  <2> DEFINE J == {i \in DOMAIN Tail(q) : Tail(q)[i] = s}
             n == Len(q) - 1
  <2>1. /\ n \in Nat /\ DOMAIN Tail(q) = 1 .. n /\ DOMAIN q = 1 .. n + 1
        /\ \A i \in 1 .. n : Tail(q)[i] = q[i + 1]
        /\ Head(q) = q[1]
    BY <1>2, <1>4, HeadTailProperties, LenProperties
  <2>2. /\ I \in SUBSET (1 .. n + 1) /\ J \in SUBSET (1 .. n)
        /\ \A i \in 1 .. n : i \in J <=> i + 1 \in I
        /\ 1 \in I <=> Head(q) = s
    BY <2>1
  <2>3. Cardinality(I) = Cardinality(J) + Count(1 \in I)
    <3> HIDE DEF I, J, n
    <3> QED BY <2>1, <2>2, Shifted
  <2>4. Times(Tail(q), s) = Cardinality(J) /\ Count(1 \in I) = Count(Head(q) = s)
    BY <2>2 DEF Times, Count
  <2> HIDE DEF I, J, n
  <2> QED BY <1>1, <2>3, <2>4
<1> QED BY <1>1, <1>3, <1>4

\* How often a session is in a batch of Enter and Leave jobs.
LEMMA LifeTimesCount ==
  ASSUME NEW q \in Seq(LifeJob), NEW s
  PROVE  /\ LifeTimes(q, s) \in Nat
         /\ LifeTimes(q, s) = 0 => \A i \in DOMAIN q : q[i].s # s
         /\ \A x \in LifeJob : LifeTimes(Append(q, x), s) = LifeTimes(q, s) + Count(x.s = s)
         /\ q # <<>> => LifeTimes(q, s) = LifeTimes(Tail(q), s) + Count(Head(q).s = s)
<1> DEFINE I == {i \in DOMAIN q : q[i].s = s}
<1>1. LifeTimes(q, s) = Cardinality(I) /\ Cardinality(I) \in Nat /\ (Cardinality(I) = 0 <=> I = {})
  BY Places DEF LifeTimes
<1>2. Len(q) \in Nat /\ DOMAIN q = 1 .. Len(q) /\ \A b \in Nat : IsFiniteSet(1 .. b)
  BY LenProperties, FS_Interval
<1>3. ASSUME NEW x \in LifeJob PROVE LifeTimes(Append(q, x), s) = LifeTimes(q, s) + Count(x.s = s)
  <2> DEFINE J == {i \in DOMAIN Append(q, x) : Append(q, x)[i].s = s}
             T == 1 .. Len(q) + 1
             e == Len(q) + 1
  <2>1. /\ DOMAIN Append(q, x) = 1 .. Len(q) + 1
        /\ \A i \in 1 .. Len(q) : Append(q, x)[i] = q[i]
        /\ Append(q, x)[Len(q) + 1] = x
    BY AppendProperties, <1>2
  <2>2. IsFiniteSet(T) /\ e \in T /\ e \notin I /\ (e \in J <=> x.s = s)
    BY <1>2, <2>1
  <2>3. I \in SUBSET T /\ J \in SUBSET T /\ \A y \in T \ {e} : y \in I <=> y \in J
    BY <1>2, <2>1
  <2>4. Cardinality(J) \in Nat /\ Cardinality(J) - Count(e \in J) = Cardinality(I) - Count(e \in I)
    <3> HIDE DEF I, J, T, e
    <3> QED BY <2>2, <2>3, OneElement
  <2>5. Count(e \in I) = 0 /\ Count(e \in J) = Count(x.s = s) /\ Count(x.s = s) \in Nat
    BY <2>2 DEF Count
  <2>6. LifeTimes(Append(q, x), s) = Cardinality(J)
    BY DEF LifeTimes
  <2> HIDE DEF I, J, T, e
  <2> QED BY <1>1, <2>4, <2>5, <2>6
<1>4. ASSUME q # <<>> PROVE LifeTimes(q, s) = LifeTimes(Tail(q), s) + Count(Head(q).s = s)
  <2> DEFINE J == {i \in DOMAIN Tail(q) : Tail(q)[i].s = s}
             n == Len(q) - 1
  <2>1. /\ n \in Nat /\ DOMAIN Tail(q) = 1 .. n /\ DOMAIN q = 1 .. n + 1
        /\ \A i \in 1 .. n : Tail(q)[i] = q[i + 1]
        /\ Head(q) = q[1]
    BY <1>2, <1>4, HeadTailProperties, LenProperties
  <2>2. /\ I \in SUBSET (1 .. n + 1) /\ J \in SUBSET (1 .. n)
        /\ \A i \in 1 .. n : i \in J <=> i + 1 \in I
        /\ 1 \in I <=> Head(q).s = s
    BY <2>1
  <2>3. Cardinality(I) = Cardinality(J) + Count(1 \in I)
    <3> HIDE DEF I, J, n
    <3> QED BY <2>1, <2>2, Shifted
  <2>4. LifeTimes(Tail(q), s) = Cardinality(J) /\ Count(1 \in I) = Count(Head(q).s = s)
    BY <2>2 DEF LifeTimes, Count
  <2> HIDE DEF I, J, n
  <2> QED BY <1>1, <2>3, <2>4
<1> QED BY <1>1, <1>3, <1>4

\* A thread on its way through WSARecv or WSASend keeps the reference of the order.
Handed(t, s) == \/ Has(t, s, {"wsarecv", "wsasend", "senddrop"})
                \/ cur[t] = s /\ ret[t] = "senddrop"

\* The reference of the list: it moves from main to the list to the thread that closes.
Listed(s) ==
  \/ s \in list \/ Has("main", s, {"add"})
  \/ \E t \in Thread : Has(t, s, {"shutdown", "unref"})

\* The loops of the tick thread that hold a reference on each target.
Sends == mode \in {"echo", "aoi"}

\* Who works on a session, and who has the reference of an order in hand.
Working(s) == {w \in Worker : cur[w] = s}
Ordering(s) == {t \in Thread : Handed(t, s)}

\* The references outside the threads' hands.
Stored(s) ==
  Count(s \in leftovers)
  + LifeTimes(life, s) + LifeTimes(lives, s) + Times(pkts, s) + Times(jobs, s)
  + Count(recvIO[s] # "none") + Count(sendIO[s] # "none")
  + Count(Sends /\ s \in targets)

\* The references thread t has.
Carried(t, s) ==
  Count(t # "tick" /\ cur[t] = s) + Count(Handed(t, s))
  + Count(t = "tick" /\ Sends /\ cur["tick"] = s)

\* What Holders adds up, part by part.
LEMMA HoldersSum ==
  ASSUME NEW s \in Session
  PROVE  Holders(s) = Count(Listed(s)) + Count(cur["main"] = s) + Count(s \in leftovers)
           + LifeTimes(life, s) + LifeTimes(lives, s) + Times(pkts, s) + Times(jobs, s)
           + Count(recvIO[s] # "none") + Count(sendIO[s] # "none")
           + Cardinality(Working(s)) + Cardinality(Ordering(s))
           + Count(Sends /\ s \in targets) + Count(Sends /\ cur["tick"] = s)
  BY DEF Holders, Listed, Working, Ordering, Handed, Sends

\* The threads are finitely many.
LEMMA FiniteThreads == IsFiniteSet(Thread) /\ IsFiniteSet(Worker)
<1>1. IsFiniteSet({"main"}) /\ IsFiniteSet({"tick"}) /\ Thread = Worker \cup {"main"} \cup {"tick"}
  BY FS_Singleton DEF Thread
<1> QED BY <1>1, FS_Union, FiniteAssumption

\* No part is negative; who holds nothing is held nowhere.
LEMMA Parts ==
  ASSUME TypeInv, NEW s \in Session
  PROVE  /\ LifeTimes(life, s) \in Nat /\ LifeTimes(lives, s) \in Nat
         /\ Times(pkts, s) \in Nat /\ Times(jobs, s) \in Nat
         /\ Cardinality(Working(s)) \in Nat /\ Cardinality(Ordering(s)) \in Nat
         /\ \A b \in BOOLEAN : Count(b) \in {0, 1} /\ (Count(b) = 0 <=> ~b)
         /\ Cardinality(Working(s)) = 0 => \A w \in Worker : cur[w] # s
         /\ Cardinality(Ordering(s)) = 0 => \A t \in Thread : ~Handed(t, s)
<1>1. /\ life \in Seq(LifeJob) /\ lives \in Seq(LifeJob)
      /\ pkts \in Seq(Session) /\ jobs \in Seq(Session)
  BY DEF TypeInv, TypeOK
<1>2. IsFiniteSet(Working(s)) /\ IsFiniteSet(Ordering(s))
  <2>1. Working(s) \subseteq Worker /\ Ordering(s) \subseteq Thread
    BY DEF Working, Ordering
  <2> QED BY <2>1, FiniteThreads, FS_Subset
<1>3. /\ Cardinality(Working(s)) \in Nat /\ (Cardinality(Working(s)) = 0 <=> Working(s) = {})
      /\ Cardinality(Ordering(s)) \in Nat /\ (Cardinality(Ordering(s)) = 0 <=> Ordering(s) = {})
  BY <1>2, FS_CardinalityType, FS_EmptySet
<1>4. \A b \in BOOLEAN : Count(b) \in {0, 1} /\ (Count(b) = 0 <=> ~b)
  BY DEF Count
<1> QED BY <1>1, <1>3, <1>4, TimesCount, LifeTimesCount DEF Working, Ordering

\* A session nobody holds is nowhere to be found.
LEMMA Unheld ==
  ASSUME TypeInv, NEW s \in Session
  PROVE  /\ Holders(s) \in Nat
         /\ Holders(s) = 0 =>
              /\ ~Listed(s) /\ cur["main"] # s /\ s \notin leftovers
              /\ \A i \in DOMAIN life : life[i].s # s
              /\ \A i \in DOMAIN lives : lives[i].s # s
              /\ \A i \in DOMAIN pkts : pkts[i] # s
              /\ \A i \in DOMAIN jobs : jobs[i] # s
              /\ recvIO[s] = "none" /\ sendIO[s] = "none"
              /\ \A w \in Worker : cur[w] # s
              /\ \A t \in Thread : ~Handed(t, s)
              /\ Sends => s \notin targets /\ cur["tick"] # s
<1> DEFINE b1 == Listed(s)
           b2 == cur["main"] = s
           b3 == s \in leftovers
           b4 == recvIO[s] # "none"
           b5 == sendIO[s] # "none"
           b6 == Sends /\ s \in targets
           b7 == Sends /\ cur["tick"] = s
           n1 == Count(b1)
           n2 == Count(b2)
           n3 == Count(b3)
           n4 == Count(b4)
           n5 == Count(b5)
           n6 == Count(b6)
           n7 == Count(b7)
           l1 == LifeTimes(life, s)
           l2 == LifeTimes(lives, s)
           l3 == Times(pkts, s)
           l4 == Times(jobs, s)
           w1 == Cardinality(Working(s))
           w2 == Cardinality(Ordering(s))
<1>1. Holders(s) = n1 + n2 + n3 + l1 + l2 + l3 + l4 + n4 + n5 + w1 + w2 + n6 + n7
  BY HoldersSum
<1>2. /\ b1 \in BOOLEAN /\ b2 \in BOOLEAN /\ b3 \in BOOLEAN /\ b4 \in BOOLEAN
      /\ b5 \in BOOLEAN /\ b6 \in BOOLEAN /\ b7 \in BOOLEAN
  BY DEF Listed, Sends, Has
<1>3. /\ n1 \in Nat /\ (n1 = 0 => ~b1)
      /\ n2 \in Nat /\ (n2 = 0 => ~b2)
      /\ n3 \in Nat /\ (n3 = 0 => ~b3)
      /\ n4 \in Nat /\ (n4 = 0 => ~b4)
      /\ n5 \in Nat /\ (n5 = 0 => ~b5)
      /\ n6 \in Nat /\ (n6 = 0 => ~b6)
      /\ n7 \in Nat /\ (n7 = 0 => ~b7)
  <2> HIDE DEF b1, b2, b3, b4, b5, b6, b7
  <2> QED BY <1>2, Parts
<1>4. l1 \in Nat /\ l2 \in Nat /\ l3 \in Nat /\ l4 \in Nat /\ w1 \in Nat /\ w2 \in Nat
  BY Parts
<1>5. /\ Holders(s) \in Nat
      /\ Holders(s) = 0 =>
           /\ ~b1 /\ ~b2 /\ ~b3 /\ ~b4 /\ ~b5 /\ ~b6 /\ ~b7
           /\ l1 = 0 /\ l2 = 0 /\ l3 = 0 /\ l4 = 0 /\ w1 = 0 /\ w2 = 0
  <2> HIDE DEF b1, b2, b3, b4, b5, b6, b7, n1, n2, n3, n4, n5, n6, n7, l1, l2, l3, l4, w1, w2
  <2>1. Holders(s) \in Nat
    BY <1>1, <1>3, <1>4
  <2>2. ASSUME Holders(s) = 0
        PROVE  /\ n1 = 0 /\ n2 = 0 /\ n3 = 0 /\ n4 = 0 /\ n5 = 0 /\ n6 = 0 /\ n7 = 0
               /\ l1 = 0 /\ l2 = 0 /\ l3 = 0 /\ l4 = 0 /\ w1 = 0 /\ w2 = 0
    BY <1>1, <1>3, <1>4, <2>2
  <2> QED BY <1>3, <2>1, <2>2
<1>6. /\ l1 = 0 => \A i \in DOMAIN life : life[i].s # s
      /\ l2 = 0 => \A i \in DOMAIN lives : lives[i].s # s
      /\ l3 = 0 => \A i \in DOMAIN pkts : pkts[i] # s
      /\ l4 = 0 => \A i \in DOMAIN jobs : jobs[i] # s
  BY TimesCount, LifeTimesCount DEF TypeInv, TypeOK
<1>7. /\ w1 = 0 => \A w \in Worker : cur[w] # s
      /\ w2 = 0 => \A t \in Thread : ~Handed(t, s)
  BY Parts
<1> QED BY <1>5, <1>6, <1>7

\* The same sum, by what is stored and what the threads carry.
Summed(s) ==
  /\ Count(Listed(s)) \in Nat /\ Stored(s) \in Nat
  /\ Count(cur["main"] = s) \in Nat /\ Count(Sends /\ cur["tick"] = s) \in Nat
  /\ Holders(s) = Count(Listed(s)) + Stored(s)
       + (Count(cur["main"] = s) + Cardinality(Working(s)) + Cardinality(Ordering(s))
          + Count(Sends /\ cur["tick"] = s))

\* So for every session.
AllSummed == \A s \in Session : Summed(s)

\* The holders of every session are summed that way.
LEMMA HoldersSplit == TypeInv => AllSummed
<1> SUFFICES ASSUME TypeInv, NEW s \in Session PROVE Summed(s)
  BY DEF AllSummed
<1>1. \A b : Count(b) \in Nat
  BY DEF Count
<1> QED BY <1>1, HoldersSum, Parts DEF Summed, Stored

\* The holders of s, before and after a step of thread t, differ in what t carries, what is
\* stored, and the reference of the list.
LEMMA Balance ==
  ASSUME TypeInv, TypeInv', NEW t \in Thread, NEW s \in Session,
         \A u \in Thread \ {t} : pc'[u] = pc[u] /\ cur'[u] = cur[u] /\ ret'[u] = ret[u],
         t = "tick" \/ mode' = mode
  PROVE  Holders(s)' - Count(Listed(s))' - Stored(s)' - Carried(t, s)'
           = Holders(s) - Count(Listed(s)) - Stored(s) - Carried(t, s)
<1> DEFINE W == Working(s)
           V == Working(s)'
           O == Ordering(s)
           P == Ordering(s)'
<1>1. /\ W \in SUBSET Worker /\ V \in SUBSET Worker
      /\ \A u \in Worker \ {t} : u \in W <=> u \in V
      /\ (t \in W <=> t \in Worker /\ cur[t] = s) /\ (t \in V <=> t \in Worker /\ cur'[t] = s)
  BY Threads DEF Working
<1>2. /\ O \in SUBSET Thread /\ P \in SUBSET Thread
      /\ \A u \in Thread \ {t} : u \in O <=> u \in P
      /\ (t \in O <=> Handed(t, s)) /\ (t \in P <=> Handed(t, s)')
  BY DEF Ordering, Handed, Has
<1>3. /\ Cardinality(W) \in Nat /\ Cardinality(V) \in Nat
      /\ Cardinality(V) - Count(t \in V) = Cardinality(W) - Count(t \in W)
  <2> HIDE DEF W, V
  <2>1. CASE t \in Worker
    BY <1>1, <2>1, OneElement, FiniteThreads
  <2>2. CASE t \notin Worker
    <3>1. W = V /\ t \notin V
      BY <1>1, <2>2
    <3> QED BY <3>1, <1>1, FS_Subset, FS_CardinalityType, FiniteThreads DEF Count
  <2> QED BY <2>1, <2>2
<1>4. /\ Cardinality(O) \in Nat /\ Cardinality(P) \in Nat
      /\ Cardinality(P) - Count(t \in P) = Cardinality(O) - Count(t \in O)
  <2> HIDE DEF O, P
  <2> QED BY <1>2, OneElement, FiniteThreads
<1>5. Summed(s) /\ Summed(s)'
  <2>1. TypeInv' => AllSummed'
    BY HoldersSplit, PTL
  <2> QED BY <2>1, HoldersSplit DEF AllSummed
<1> DEFINE m == Count(cur["main"] = s)
           k == Count(Sends /\ cur["tick"] = s)
<1>6. /\ Carried(t, s) = (IF t = "main" THEN m ELSE IF t = "tick" THEN k ELSE 0)
                          + Count(t \in W) + Count(t \in O)
      /\ Carried(t, s)' = (IF t = "main" THEN m' ELSE IF t = "tick" THEN k' ELSE 0)
                          + Count(t \in V) + Count(t \in P)
  <2>1. /\ Count(t \in W) = Count(t \in Worker /\ cur[t] = s)
        /\ Count(t \in V) = Count(t \in Worker /\ cur'[t] = s)
        /\ Count(t \in O) = Count(Handed(t, s)) /\ Count(t \in P) = Count(Handed(t, s)')
    BY <1>1, <1>2 DEF Count
  <2>2. \A b : Count(b) \in Nat /\ (~b => Count(b) = 0)
    BY DEF Count
  <2> HIDE DEF W, V, O, P
  <2>3. CASE t = "main"
    BY <2>1, <2>2, <2>3, Threads DEF Carried
  <2>4. CASE t = "tick"
    BY <2>1, <2>2, <2>4, Threads DEF Carried
  <2>5. CASE t \in Worker
    <3>1. /\ Count(t # "tick" /\ cur[t] = s) = Count(t \in W)
          /\ Count(t # "tick" /\ cur'[t] = s) = Count(t \in V)
          /\ Count(t = "tick" /\ Sends /\ cur["tick"] = s) = 0
          /\ (Count(t = "tick" /\ Sends /\ cur["tick"] = s) = 0)'
      BY <2>1, <2>5, Threads DEF Count
    <3>2. t # "main" /\ t # "tick"
      BY <2>5, Threads
    <3> HIDE DEF m, k
    <3> QED BY <2>1, <2>2, <3>1, <3>2 DEF Carried
  <2> QED BY <2>3, <2>4, <2>5, Threads
<1>7. /\ t # "main" => m' = m
      /\ t # "tick" => k' = k
  BY Threads DEF Sends, Count
<1>8. /\ Count(t \in W) \in Nat /\ Count(t \in V) \in Nat /\ Count(t \in O) \in Nat
      /\ Count(t \in P) \in Nat
  BY DEF Count
<1>9. /\ Holders(s) = Count(Listed(s)) + Stored(s) + (m + Cardinality(W) + Cardinality(O) + k)
      /\ Holders(s)' = Count(Listed(s))' + Stored(s)'
                        + (m' + Cardinality(V) + Cardinality(P) + k')
      /\ Count(Listed(s)) \in Nat /\ Count(Listed(s))' \in Nat
      /\ Stored(s) \in Nat /\ Stored(s)' \in Nat
      /\ m \in Nat /\ m' \in Nat /\ k \in Nat /\ k' \in Nat
  BY <1>5 DEF Summed
<1> HIDE DEF W, V, O, P, m, k
<1> QED BY <1>3, <1>4, <1>6, <1>7, <1>8, <1>9

-----------------------------------------------------------------------------
(* What follows from the invariant in any one state.                       *)

\* Whatever somebody may still reach is not deleted.
LEMMA InUse ==
  ASSUME TypeInv, TickInv, ListInv, RefInv, QueueInv
  PROVE  NoUseAfterFree
<1>1. \A s \in Session : Holders(s) # 0 => s \in alloc
  BY DEF RefInv, RefsBalance
<1>2. list \cup leftovers \subseteq alloc
  BY <1>1, Unheld DEF Listed, TypeInv, TypeOK
<1>3. ASSUME NEW i \in DOMAIN life PROVE life[i].s \in alloc
  <2>1. life[i] \in LifeJob
    BY <1>3, LenProperties, ElementOfSeq DEF TypeInv, TypeOK
  <2>2. life[i].s \in Session
    BY <2>1 DEF LifeJob
  <2> QED BY <1>1, <2>2, Unheld
<1>4. ASSUME NEW i \in DOMAIN lives PROVE lives[i].s \in alloc
  <2>1. lives[i] \in LifeJob
    BY <1>4, LenProperties, ElementOfSeq DEF TypeInv, TypeOK
  <2>2. lives[i].s \in Session
    BY <2>1 DEF LifeJob
  <2> QED BY <1>1, <2>2, Unheld
<1>5. Board \subseteq alloc
  <2> SUFFICES ASSUME NEW s \in Board PROVE s \in alloc
    OBVIOUS
  <2>1. s \in Session
    BY DEF Board, TypeInv, TypeOK
  <2>2. Kept(s)
    BY <2>1 DEF QueueInv
  <2>3. CASE Leaves(s)
    BY <1>3, <1>4, <2>3 DEF Leaves, Waits
  <2>4. CASE \E t \in Thread : pc[t] = "leave" /\ cur[t] = s
    BY <1>2, <2>4 DEF ListInv
  <2> QED BY <1>2, <2>2, <2>3, <2>4 DEF Kept
<1>6. targets \subseteq alloc
  <2>1. CASE mode \in {"none", "welcome"}
    BY <2>1 DEF TickInv
  <2>2. CASE mode = "redeal"
    BY <1>5, <2>2 DEF TickInv
  <2>3. CASE mode \in {"echo", "aoi"}
    BY <1>1, <2>3, Unheld DEF Sends, TypeInv, TypeOK
  <2> QED BY <2>1, <2>2, <2>3 DEF TypeInv, TypeOK
<1>7. ASSUME NEW t \in Thread, cur[t] # NoSession PROVE cur[t] \in alloc
  <2>0. cur[t] \in Session
    BY <1>7 DEF TypeInv, TypeOK
  <2>1. CASE t # "tick"
    BY <1>1, <2>0, <2>1, Unheld, Threads
  <2>2. CASE t = "tick" /\ mode = "none"
    <3>1. jobs # <<>> /\ cur[t] = Head(jobs)
      BY <1>7, <2>2 DEF TickInv
    <3>2. 1 \in DOMAIN jobs /\ jobs[1] = cur[t]
      BY <3>1, HeadTailProperties, LenProperties DEF TypeInv, TypeOK
    <3> QED BY <1>1, <2>0, <3>2, Unheld
  <2>3. CASE t = "tick" /\ mode = "welcome"
    <3>1. lives # <<>> /\ cur[t] = Head(lives).s
      BY <1>7, <2>3 DEF TickInv, TypeInv, StepsOK
    <3>2. 1 \in DOMAIN lives /\ lives[1].s = cur[t]
      BY <3>1, HeadTailProperties, LenProperties DEF TypeInv, TypeOK
    <3> QED BY <1>4, <3>2
  <2>4. CASE t = "tick" /\ mode = "redeal"
    BY <1>5, <1>7, <2>4 DEF TickInv
  <2>5. CASE t = "tick" /\ mode \in {"echo", "aoi"}
    BY <1>1, <2>0, <2>5, Unheld DEF Sends
  <2> QED BY <2>1, <2>2, <2>3, <2>4, <2>5 DEF TypeInv, TypeOK
<1> QED BY <1>2, <1>5, <1>6, <1>7 DEF NoUseAfterFree, Board

-----------------------------------------------------------------------------
(* The reference of the list.                                              *)

\* main or one closing thread alone decides about the list entry there.
Away == CloseSteps \cup {"add", "associate", "enter"}

\* Nobody but main sets a session up, and only CloseSession goes on into CloseSteps.
LEMMA GoesAway ==
  ASSUME TypeInv
  PROVE  /\ \A t \in Thread \ {"tick"} : PostRecv(t) =>
              alloc' \subseteq alloc /\ \E p, c, r : Moved(t, p, c, r) /\ p \notin Away
         /\ \A t \in Thread \ {"main"} : StartSend(t) =>
              alloc' \subseteq alloc /\ \E p, c, r : Moved(t, p, c, r) /\ p \notin Away
         /\ \A w \in Worker : WorkerOwn(w) =>
              alloc' \subseteq alloc /\ \E p, c, r : Moved(w, p, c, r) /\ p \notin Away
         /\ TickOwn =>
              alloc' \subseteq alloc /\ \E p, c, r : Moved("tick", p, c, r) /\ p \notin Away
<1> USE DEF Away, CloseSteps, memVars
<1>1. ASSUME NEW t \in Thread \ {"tick"}, PostRecv(t)
      PROVE  alloc' \subseteq alloc /\ \E p, c, r : Moved(t, p, c, r) /\ p \notin Away
  <2>1. alloc' \subseteq alloc
    BY <1>1 DEF PostRecv, RecvRef, RecvPosted, RecvFailed, Release
  <2>2. AfterRecv(t) \notin Away
    BY DEF AfterRecv
  <2> QED BY <1>1, <2>1, <2>2, RecvMoves DEF PostRecv
<1>2. ASSUME NEW t \in Thread \ {"main"}, StartSend(t)
      PROVE  alloc' \subseteq alloc /\ \E p, c, r : Moved(t, p, c, r) /\ p \notin Away
  <2>1. alloc' \subseteq alloc
    BY <1>2 DEF StartSend, SendRef, SendPosted, SendFailed, SendDrop, Release
  <2>2. AfterSend(t) \notin Away
    BY DEF AfterSend
  <2> QED BY <1>2, <2>1, <2>2, SendMoves DEF StartSend
<1>3. ASSUME NEW w \in Worker, WorkerOwn(w)
      PROVE  alloc' \subseteq alloc /\ \E p, c, r : Moved(w, p, c, r) /\ p \notin Away
  <2>1. alloc' \subseteq alloc
    BY <1>3 DEF WorkerOwn, TakeRecv, TakeSend, ProcessPacket, ProcessEnd, Repost, OnSent, SendMore,
                IoRelease, WorkerExit, Release
  <2>2. \E p, c, r : Moved(w, p, c, r) /\ p \notin Away
    BY <1>3, WorkerMoves DEF WorkerOwn
  <2> QED BY <2>1, <2>2
<1>4. ASSUME TickOwn
      PROVE  alloc' \subseteq alloc /\ \E p, c, r : Moved("tick", p, c, r) /\ p \notin Away
  <2>1. alloc' \subseteq alloc
    BY <1>4 DEF TickOwn, Swap, HandleEnter, HandleLeave, LifeRef, HandlePacket, JobRef, Game,
                CollectTargets, TickEnd, NextTarget, SendCheck, SendPush, SendFull, Sent, Release
  <2>2. \E p, c, r : Moved("tick", p, c, r) /\ p \notin Away
    BY <1>4, TickMoves DEF TickOwn
  <2> QED BY <2>1, <2>2
<1> QED BY <1>1, <1>2, <1>3, <1>4

\* A thread that comes back from CloseSession is elsewhere.
LEMMA ReturnsAway ==
  ASSUME TypeInv, PlaceInv, NEW t \in Thread, pc[t] \in Closing
  PROVE  ret[t] \notin Away /\ ret[t] # "exchange"
<1>1. PlaceOf(t, pc[t], cur[t], ret[t]) /\ PlaceOf(t, ret[t], cur[t], "none")
  BY PlaceReturn DEF PlaceInv
<1>2. t = "tick" => ret[t] \in {"sent", "senddrop", "jobref"}
  BY <1>1 DEF TypeInv, StepsOK, PlaceOf
<1> QED BY <1>1, <1>2, Threads DEF PlaceOf, Away, Closing, CloseSteps

\* Every other step leaves the list and those who close alone.
LEMMA ListKept ==
  ASSUME ListInv, NEW t \in Thread, NEW p, NEW c, NEW r, Moved(t, p, c, r), p \notin Away,
         ~(t = "main" /\ pc["main"] = "add"),
         list' = list, closing' = closing, alloc' \subseteq alloc
  PROVE  ListInv'
<1>1. \A u \in Thread : pc'[u] \in CloseSteps => pc'[u] = pc[u] /\ cur'[u] = cur[u]
  BY DEF Moved, Away
<1>2. \A s \in alloc' : closing'[s] \/ s \in list' \/ Has("main", s, {"add"})'
  BY Threads DEF ListInv, Has, Moved
<1> QED BY <1>1, <1>2 DEF ListInv, CloseSteps

\* CloseSession takes a session off the list once.
LEMMA ListClose ==
  ASSUME TypeInv, PlaceInv, TickInv, ListInv, SetupInv, RefInv, QueueInv,
         NEW t \in Thread, CloseSession(t)
  PROVE  ListInv'
<1> DEFINE s == cur[t]
<1>0. pc[t] \in Closing /\ s \in Session /\ s \in alloc /\ ret[t] \notin Away
  <2>1. pc[t] \in Closing
    BY CloseMoves DEF CloseSession, Closing, CloseSteps
  <2>2. s \in Session
    BY <2>1 DEF TypeInv, StepsOK, Closing, CloseSteps, FreeSteps
  <2> QED BY <2>1, <2>2, InUse, ReturnsAway, ConstantsAssumption DEF NoUseAfterFree
<1>1. CASE CloseExchange(t)
  <2>1. list' = list /\ alloc' = alloc
    BY <1>1 DEF CloseExchange, memVars
  <2>2. CASE closing' = closing /\ Moved(t, ret[t], cur[t], "none")
    BY <1>0, <1>1, <2>1, <2>2, CloseMoves, ListKept
  <2>3. CASE /\ ~closing[s] /\ closing' = [closing EXCEPT ![s] = TRUE]
             /\ Moved(t, "leave", s, ret[t])
    <3>1. s \in list
      <4>1. ~Has("main", s, {"add"})
        BY <1>0, Threads, CloseMoves, <1>1 DEF SetupInv, Unseen, Has
      <4> QED BY <1>0, <2>3, <4>1 DEF ListInv
    <3>2. \A u \in Thread \ {t} : pc[u] \in CloseSteps => cur[u] # s
      BY <2>3 DEF ListInv
    <3>3. \A x \in Session : closing'[x] <=> (closing[x] \/ x = s)
      BY <1>0, <2>3 DEF TypeInv, TypeOK
    <3>4. \A x \in alloc' : closing'[x] \/ x \in list' \/ Has("main", x, {"add"})'
      BY <1>0, <1>1, <2>1, <2>3, <3>3, CloseMoves, Threads DEF ListInv, Has, Moved, TypeInv, TypeOK
    <3>5. \A u \in Thread : pc'[u] \in CloseSteps => closing'[cur'[u]]
      <4>1. \A u \in Thread : pc[u] \in CloseSteps => cur[u] \in Session /\ closing[cur[u]]
        BY DEF ListInv, TypeInv, StepsOK, CloseSteps, FreeSteps
      <4> QED BY <1>0, <2>3, <3>3, <4>1 DEF Moved
    <3> QED BY <2>1, <2>3, <3>1, <3>2, <3>4, <3>5 DEF ListInv, Moved, CloseSteps
  <2> QED BY <1>1, <2>2, <2>3, CloseMoves
<1>2. CASE CloseLeave(t) \/ CloseShutdown(t)
  <2>1. list' = list /\ alloc' = alloc /\ closing' = closing
    BY <1>2 DEF CloseLeave, CloseShutdown, memVars
  <2>2. CASE pc[t] = "leave" /\ Moved(t, "unlist", s, ret[t])
    BY <2>1, <2>2, Threads DEF ListInv, Moved, CloseSteps, Has
  <2>3. CASE pc[t] = "shutdown" /\ Moved(t, "unref", s, ret[t])
    BY <2>1, <2>3, Threads DEF ListInv, Moved, CloseSteps, Has
  <2> QED BY <1>2, <2>2, <2>3, CloseMoves
<1>3. CASE CloseUnlist(t)
  <2>1. list' = list \ {s} /\ alloc' = alloc /\ closing' = closing
    BY <1>3 DEF CloseUnlist, memVars
  <2>2. pc[t] = "unlist" /\ Moved(t, "shutdown", s, ret[t])
    BY <1>3, CloseMoves
  <2>3. Cardinality(list') <= MaxSession
    <3>1. IsFiniteSet(list) /\ list' \subseteq list
      BY <2>1, FS_Subset, FiniteAssumption DEF TypeInv, TypeOK
    <3>2. Cardinality(list') \in Nat /\ Cardinality(list) \in Nat /\ Cardinality(list') <= Cardinality(list)
      BY <3>1, FS_Subset, FS_CardinalityType
    <3> QED BY <3>2, ConstantsAssumption DEF ListInv
  <2>4. \A x \in alloc' : closing'[x] \/ x \in list' \/ Has("main", x, {"add"})'
    BY <2>1, <2>2, Threads DEF ListInv, Has, Moved, CloseSteps
  <2> QED BY <2>1, <2>2, <2>3, <2>4 DEF ListInv, Moved, CloseSteps
<1>4. CASE CloseUnref(t)
  <2>1. list' = list /\ alloc' \subseteq alloc /\ closing' = closing
    BY <1>4 DEF CloseUnref, Release
  <2> QED BY <1>0, <1>4, <2>1, CloseMoves, ListKept
<1> QED BY <1>1, <1>2, <1>3, <1>4 DEF CloseSession

\* The accept loop puts a session on the list, and nobody else knows it before.
LEMMA ListMain ==
  ASSUME TypeInv, PlaceInv, TickInv, ListInv, SetupInv, RefInv, QueueInv, MainOwn
  PROVE  ListInv'
<1> USE Threads
<1>0. \A u \in Thread : pc[u] \in CloseSteps => cur[u] \in alloc
  BY InUse, ConstantsAssumption DEF NoUseAfterFree, TypeInv, StepsOK, FreeSteps, CloseSteps
<1>1. ASSUME NEW s \in Session, Accept(s) PROVE ListInv'
  <2>1. /\ s \notin alloc /\ alloc' = alloc \cup {s} /\ list' = list
        /\ closing' = [closing EXCEPT ![s] = FALSE]
    BY <1>1 DEF Accept
  <2>2. pc["main"] = "accept" /\ Moved("main", "add", s, ret["main"])
    BY <1>1, MainMoves
  <2>3. \A x \in Session \ {s} : closing'[x] = closing[x]
    BY <2>1 DEF TypeInv, TypeOK
  <2>4. \A x \in alloc' : closing'[x] \/ x \in list' \/ Has("main", x, {"add"})'
    BY <2>1, <2>2, <2>3 DEF ListInv, Has, Moved, TypeInv, TypeOK
  <2>5. \A u \in Thread : pc'[u] \in CloseSteps =>
          pc'[u] = pc[u] /\ cur'[u] = cur[u] /\ cur[u] # s /\ cur[u] \in Session
    BY <1>0, <2>1, <2>2 DEF Moved, CloseSteps, TypeInv, TypeOK
  <2> QED BY <2>1, <2>3, <2>4, <2>5 DEF ListInv, CloseSteps
<1>2. CASE AddSession
  <2>1. /\ list' = list \cup {cur["main"]} /\ Cardinality(list) < MaxSession
        /\ alloc' = alloc /\ closing' = closing
    BY <1>2 DEF AddSession, memVars
  <2>2. pc["main"] = "add" /\ Moved("main", "associate", cur["main"], ret["main"])
    BY <1>2, MainMoves
  <2>3. Cardinality(list') <= MaxSession
    <3>1. IsFiniteSet(list)
      BY FS_Subset, FiniteAssumption DEF TypeInv, TypeOK
    <3>2. Cardinality(list') = IF cur["main"] \in list THEN Cardinality(list) ELSE Cardinality(list) + 1
      BY <2>1, <3>1, FS_AddElement
    <3>3. Cardinality(list) \in Nat
      BY <3>1, FS_CardinalityType
    <3> QED BY <2>1, <3>2, <3>3, ConstantsAssumption
  <2>4. \A u \in Thread : pc'[u] \in CloseSteps =>
          pc'[u] = pc[u] /\ cur'[u] = cur[u] /\ cur[u] # cur["main"]
    BY <2>2 DEF Moved, CloseSteps, SetupInv, Unseen
  <2>5. \A x \in alloc' : closing'[x] \/ x \in list' \/ Has("main", x, {"add"})'
    BY <2>1, <2>2 DEF ListInv, Has
  <2> QED BY <2>1, <2>3, <2>4, <2>5 DEF ListInv, CloseSteps
<1>3. CASE ListFull
  <2>1. list' = list /\ alloc' = alloc \ {cur["main"]} /\ closing' = closing
    BY <1>3 DEF ListFull
  <2>2. pc["main"] = "add" /\ Moved("main", "accept", NoSession, ret["main"])
    BY <1>3, MainMoves
  <2>3. \A u \in Thread : pc'[u] \in CloseSteps => pc'[u] = pc[u] /\ cur'[u] = cur[u]
    BY <2>2 DEF Moved, CloseSteps
  <2>4. \A x \in alloc' : closing'[x] \/ x \in list' \/ Has("main", x, {"add"})'
    BY <2>1, <2>2 DEF ListInv, Has
  <2> QED BY <2>1, <2>3, <2>4 DEF ListInv, CloseSteps
<1>4. ASSUME NEW s \in Session, CloseNext(s) PROVE ListInv'
  BY <1>4, MainMoves, ListKept DEF CloseNext, memVars, Away, CloseSteps
<1>5. CASE Associate
  <2>1. list' = list /\ alloc' = alloc /\ closing' = closing
    BY <1>5 DEF Associate, memVars
  <2>2. pc["main"] = "associate" /\ \E p, c, r : Moved("main", p, c, r) /\ p \in {"enter", "exchange"}
    BY <1>5, MainMoves
  <2>3. \A u \in Thread : pc'[u] \in CloseSteps => pc'[u] = pc[u] /\ cur'[u] = cur[u]
    BY <2>2 DEF Moved, CloseSteps
  <2>4. \A x \in alloc' : closing'[x] \/ x \in list' \/ Has("main", x, {"add"})'
    BY <2>1, <2>2 DEF ListInv, Has
  <2> QED BY <2>1, <2>3, <2>4 DEF ListInv, CloseSteps
<1>6. CASE PushEnter \/ MainRelease \/ CollectAll \/ CloseRef
  <2>1. list' = list /\ alloc' \subseteq alloc /\ closing' = closing
    BY <1>6 DEF PushEnter, MainRelease, CollectAll, CloseRef, Release
  <2>2. pc["main"] # "add" /\ \E p, c, r : Moved("main", p, c, r) /\ p \notin Away
    BY <1>6, MainMoves DEF Away, CloseSteps
  <2> QED BY <2>1, <2>2, ListKept
<1>7. CASE Drain \/ Join \/ Exit
  <2>1. list' = list /\ alloc' = alloc /\ closing' = closing
    BY <1>7 DEF Drain, Join, Exit, memVars
  <2>2. pc["main"] # "add" /\ \E p, c, r : Moved("main", p, c, r) /\ p \notin Away
    BY <1>7, MainMoves DEF Away, CloseSteps
  <2> QED BY <2>1, <2>2, ListKept
<1> QED BY <1>1, <1>2, <1>3, <1>4, <1>5, <1>6, <1>7 DEF MainOwn

\* Who is listed and who closes, after any step.
LEMMA ListStep ==
  ASSUME TypeInv, PlaceInv, TickInv, ListInv, SetupInv, RefInv, QueueInv, [Next]_vars
  PROVE  ListInv'
<1>0. \A t \in Thread : pc[t] = "add" => t = "main" /\ ~PostRecv(t)
  BY Threads, RecvMoves DEF PlaceInv, PlaceOf, WorkSteps, TickSteps, PacketSteps, Closing, CloseSteps, PostRecv
<1>1. ASSUME NEW t \in Thread \ {"tick"}, PostRecv(t) PROVE ListInv'
  BY <1>0, <1>1, GoesAway, Frames, ListKept
<1>2. ASSUME NEW t \in Thread \ {"main"}, StartSend(t) PROVE ListInv'
  BY <1>2, GoesAway, Frames, ListKept
<1>3. CASE TickOwn
  BY <1>3, GoesAway, OwnFrames, ListKept, Threads
<1>4. ASSUME NEW w \in Worker, WorkerOwn(w) PROVE ListInv'
  BY <1>4, GoesAway, OwnFrames, ListKept, Threads
<1>5. ASSUME NEW s \in Session, CompletionLost(s) PROVE ListInv'
  BY <1>5 DEF CompletionLost, threadVars, memVars, ListInv, Has
<1>6. CASE UNCHANGED vars
  BY <1>6 DEF vars, threadVars, memVars, ListInv, Has
<1> QED BY <1>1, <1>2, <1>3, <1>4, <1>5, <1>6, Steps, ListClose, ListMain

-----------------------------------------------------------------------------
(* The batch the tick thread works on.                                     *)

\* The steps of the other threads leave the tick thread's own state alone.
LEMMA TickKept ==
  ASSUME TickInv, UNCHANGED <<lives, jobs, seated, viewers, targets, mode>>,
         pc'["tick"] = pc["tick"], cur'["tick"] = cur["tick"], ret'["tick"] = ret["tick"]
  PROVE  TickInv'
BY DEF TickInv, Board

\* The tick thread keeps its batch, its targets and the session in hand in step.
LEMMA TickStep ==
  ASSUME TypeInv, PlaceInv, TickInv, [Next]_vars
  PROVE  TickInv'
<1> USE Threads
<1>0. \A u \in Thread \ {"tick"} : \A p, c, r : Moved(u, p, c, r) =>
        pc'["tick"] = pc["tick"] /\ cur'["tick"] = cur["tick"] /\ ret'["tick"] = ret["tick"]
  BY DEF Moved
<1>1. ASSUME NEW t \in Thread, CloseSession(t) PROVE TickInv'
  <2>1. UNCHANGED <<lives, jobs, seated, viewers, targets, mode>>
    BY <1>1, Frames
  <2>2. \E p, r : Moved(t, p, cur[t], r)
    BY <1>1, CloseMoves DEF CloseSession
  <2>3. CASE t # "tick"
    BY <1>0, <2>1, <2>2, <2>3, TickKept
  <2>4. CASE t = "tick"
    <3>1. /\ ret["tick"] \in {"sent", "senddrop", "jobref"}
          /\ ret["tick"] = "jobref" => mode = "none"
      BY <1>1, <2>4, CloseMoves DEF TypeInv, StepsOK, CloseSession, CloseSteps
    <3>2. \/ Moved("tick", ret["tick"], cur["tick"], "none")
          \/ \E p \in CloseSteps : Moved("tick", p, cur["tick"], ret["tick"])
      BY <1>1, <2>4, CloseMoves DEF CloseSession, CloseSteps
    <3> QED BY <2>1, <3>1, <3>2 DEF TickInv, Moved, PacketSteps, CloseSteps, Board
  <2> QED BY <2>3, <2>4
<1>2. ASSUME NEW t \in Thread \ {"tick"}, PostRecv(t) PROVE TickInv'
  <2>1. \E p, r : Moved(t, p, cur[t], r)
    BY <1>2, RecvMoves DEF PostRecv
  <2> QED BY <1>0, <1>2, <2>1, Frames, TickKept
<1>3. ASSUME NEW t \in Thread \ {"main"}, StartSend(t) PROVE TickInv'
  <2>1. UNCHANGED <<lives, jobs, seated, viewers, targets, mode>>
    BY <1>3, Frames
  <2>2. \E p, r : Moved(t, p, cur[t], r)
    BY <1>3, SendMoves DEF StartSend
  <2>3. CASE t # "tick"
    BY <1>0, <2>1, <2>2, <2>3, TickKept
  <2>4. CASE t = "tick"
    <3>1. pc["tick"] \in PacketSteps
      BY <1>3, <2>4, SendMoves DEF StartSend, PacketSteps
    <3>2. \/ \E p \in {"wsasend", "sent"} : Moved("tick", p, cur["tick"], ret["tick"])
          \/ Moved("tick", "exchange", cur["tick"], "senddrop")
      BY <1>3, <2>4, SendMoves DEF StartSend, AfterSend
    <3> QED BY <2>1, <3>1, <3>2 DEF TickInv, Moved, PacketSteps, Board
  <2> QED BY <2>3, <2>4
<1>4. CASE MainOwn
  <2>1. \E p, c, r : Moved("main", p, c, r)
    BY <1>4, MainMoves DEF MainOwn
  <2> QED BY <1>0, <1>4, <2>1, OwnFrames, TickKept
<1>5. ASSUME NEW w \in Worker, WorkerOwn(w) PROVE TickInv'
  <2>1. \E p, c, r : Moved(w, p, c, r)
    BY <1>5, WorkerMoves DEF WorkerOwn
  <2> QED BY <1>0, <1>5, <2>1, OwnFrames, TickKept
<1>6. CASE TickOwn
  <2>1. /\ pc["tick"] \in {"swap", "life", "liferef", "collect", "next"} => cur["tick"] = NoSession
        /\ pc["tick"] \in {"swap", "life", "liferef", "jobref", "collect"} =>
             mode = "none" /\ targets = {} /\ ret["tick"] = "none"
        /\ pc["tick"] \in PacketSteps => ret["tick"] = "none"
    BY DEF PlaceInv, PlaceOf, FreeSteps, TickInv, TypeInv, StepsOK, SendSteps, CloseSteps,
           PacketSteps, Closing
  <2>2. mode \in {"none", "welcome", "echo", "redeal", "aoi"}
    BY DEF TypeInv, TypeOK
  <2> USE DEF TickInv, PacketSteps, Moved, queueVars, boardVars, tickVars
  <2>3. CASE Swap
    <3>1. lives = <<>> /\ jobs = <<>> /\ pc["tick"] = "swap"
      BY <2>3, TickMoves
    <3>2. UNCHANGED <<seated, viewers, targets, mode>>
      BY <2>3 DEF Swap
    <3>3. \/ Moved("tick", "life", NoSession, "none")
          \/ Moved("tick", "stopped", NoSession, "none") /\ UNCHANGED <<lives, jobs>>
      BY <2>1, <2>3, <3>1, TickMoves DEF Swap
    <3> QED BY <2>1, <3>1, <3>2, <3>3
  <2>4. CASE HandleEnter
    <3>1. UNCHANGED <<lives, jobs, targets>> /\ Head(lives).type = "Enter" /\ pc["tick"] = "life"
      BY <2>4, TickMoves DEF HandleEnter
    <3>2. \/ Moved("tick", "sendpacket", Head(lives).s, "none") /\ mode' = "welcome"
          \/ Moved("tick", "liferef", NoSession, "none") /\ mode' = "none"
      BY <2>1, <2>4, <3>1, TickMoves
    <3> QED BY <2>1, <3>1, <3>2
  <2>5. CASE HandleLeave
    <3>1. UNCHANGED <<lives, jobs, targets, mode>> /\ Head(lives).s \notin Board'
      BY <2>5 DEF HandleLeave, Board
    <3>2. pc["tick"] = "life" /\ Moved("tick", "liferef", NoSession, "none")
      BY <2>1, <2>5, TickMoves
    <3> QED BY <2>1, <3>1, <3>2
  <2>6. CASE LifeRef
    <3>1. pc["tick"] = "liferef" /\ Moved("tick", "life", NoSession, "none")
      BY <2>1, <2>6, TickMoves
    <3>2. UNCHANGED <<targets, mode>>
      BY <2>6 DEF LifeRef
    <3> QED BY <2>1, <3>1, <3>2
  <2>7. CASE HandlePacket
    <3>1. lives' = lives /\ jobs' = jobs /\ pc["tick"] = "life" /\ jobs # <<>>
      BY <2>7, TickMoves DEF HandlePacket
    <3>2. \/ Moved("tick", "jobref", NoSession, "none") /\ UNCHANGED <<mode, targets>>
          \/ Moved("tick", "exchange", Head(jobs), "jobref") /\ UNCHANGED <<mode, targets>>
          \/ Moved("tick", "next", NoSession, "none") /\ mode' = "echo"
      BY <2>1, <2>7, <3>1, TickMoves DEF Collect
    <3> QED BY <2>1, <3>1, <3>2
  <2>8. CASE JobRef
    <3>1. pc["tick"] = "jobref" /\ Moved("tick", "life", NoSession, "none")
      BY <2>1, <2>8, TickMoves
    <3>2. UNCHANGED <<targets, mode>>
      BY <2>8 DEF JobRef
    <3> QED BY <2>1, <3>1, <3>2
  <2>9. CASE Game
    <3>1. pc["tick"] = "life" /\ lives' = lives /\ jobs' = jobs /\ lives = <<>> /\ jobs = <<>>
      BY <2>9, TickMoves DEF Game
    <3>2. \/ /\ Moved("tick", "collect", NoSession, "none")
             /\ UNCHANGED <<mode, targets>>
          \/ /\ Moved("tick", "next", NoSession, "none")
             /\ Board' = Board /\ targets' = Board /\ mode' = "redeal"
      BY <2>1, <2>9, <3>1, TickMoves DEF Board
    <3> QED BY <2>1, <3>1, <3>2
  <2>10. CASE CollectTargets \/ TickEnd
    <3>1. UNCHANGED <<lives, jobs>> /\ pc["tick"] = "collect"
      BY <2>10, TickMoves DEF CollectTargets, TickEnd
    <3>2. \/ Moved("tick", "next", NoSession, "none") /\ mode' = "aoi"
          \/ Moved("tick", "swap", NoSession, "none") /\ UNCHANGED <<mode, targets>>
      BY <2>1, <2>10, <3>1, TickMoves DEF CollectTargets, TickEnd, Collect
    <3> QED BY <2>1, <3>1, <3>2
  <2>11. CASE NextTarget
    <3>1. UNCHANGED <<lives, jobs, seated, viewers>> /\ pc["tick"] = "next"
      BY <2>11, TickMoves DEF NextTarget
    <3>2. /\ Moved("tick", IF mode = "echo" THEN "jobref" ELSE "collect", NoSession, "none")
          /\ mode' = "none" /\ targets' = {}
          => TickInv'
      BY <2>1, <2>2, <3>1
    <3>3. \A s \in targets : /\ Moved("tick", "sendpacket", s, "none")
                             /\ mode' = mode /\ targets' = targets \ {s}
                             => TickInv'
      BY <2>1, <2>2, <3>1 DEF Board
    <3> QED BY <2>1, <2>11, <3>1, <3>2, <3>3, TickMoves
  <2>12. CASE SendCheck \/ SendPush \/ SendFull
    <3>1. UNCHANGED <<lives, jobs, seated, viewers, targets, mode>> /\ pc["tick"] \in PacketSteps
      BY <2>12, TickMoves DEF SendCheck, SendPush, SendFull
    <3>2. \/ \E p \in {"sent", "push", "sendref"} : Moved("tick", p, cur["tick"], "none")
          \/ Moved("tick", "exchange", cur["tick"], "sent")
      BY <2>1, <2>12, <3>1, TickMoves
    <3>3. pc["tick"] \in {"sendpacket", "push"}
      BY <2>12, TickMoves
    <3> QED BY <3>1, <3>2, <3>3 DEF Board
  <2>13. CASE Sent
    <3>1. UNCHANGED <<lives, jobs, seated, viewers, targets>> /\ pc["tick"] = "sent"
      BY <2>13, TickMoves DEF Sent
    <3>2. \/ /\ mode = "welcome" /\ mode' = "none" /\ Moved("tick", "liferef", NoSession, "none")
          \/ /\ mode # "welcome" /\ mode' = mode /\ Moved("tick", "next", NoSession, "none")
      BY <2>1, <2>13, <3>1, TickMoves
    <3> QED BY <2>2, <3>1, <3>2 DEF Board
  <2> QED BY <1>6, <2>3, <2>4, <2>5, <2>6, <2>7, <2>8, <2>9, <2>10, <2>11, <2>12, <2>13 DEF TickOwn
<1>7. ASSUME NEW s \in Session, CompletionLost(s) PROVE TickInv'
  BY <1>7, TickKept DEF CompletionLost, threadVars, queueVars, boardVars, tickVars
<1>8. CASE UNCHANGED vars
  BY <1>8, TickKept DEF vars, threadVars, queueVars, boardVars, tickVars
<1> QED BY <1>1, <1>2, <1>3, <1>4, <1>5, <1>6, <1>7, <1>8, Steps

-----------------------------------------------------------------------------
(* A session main is still setting up.                                     *)

\* The entries of a sequence after an Append or a Tail.
LEMMA Entries ==
  ASSUME NEW S, NEW q \in Seq(S)
  PROVE  /\ \A i \in DOMAIN q : q[i] \in S
         /\ \A x \in S : \A i \in DOMAIN Append(q, x) :
              Append(q, x)[i] = x \/ (i \in DOMAIN q /\ Append(q, x)[i] = q[i])
         /\ q # <<>> =>
              /\ Head(q) = q[1] /\ 1 \in DOMAIN q /\ Head(q) \in S /\ Tail(q) \in Seq(S)
              /\ \A i \in DOMAIN Tail(q) : i + 1 \in DOMAIN q /\ Tail(q)[i] = q[i + 1]
<1>1. Len(q) \in Nat /\ DOMAIN q = 1 .. Len(q) /\ \A i \in DOMAIN q : q[i] \in S
  BY LenProperties, ElementOfSeq
<1>2. ASSUME NEW x \in S, NEW i \in DOMAIN Append(q, x)
      PROVE  Append(q, x)[i] = x \/ (i \in DOMAIN q /\ Append(q, x)[i] = q[i])
  BY <1>1, AppendProperties
<1>3. ASSUME q # <<>>
      PROVE  /\ Head(q) = q[1] /\ 1 \in DOMAIN q /\ Head(q) \in S /\ Tail(q) \in Seq(S)
             /\ \A i \in DOMAIN Tail(q) : i + 1 \in DOMAIN q /\ Tail(q)[i] = q[i + 1]
  BY <1>1, <1>3, HeadTailProperties, LenProperties
<1> QED BY <1>1, <1>2, <1>3

\* main has s in hand, and has not queued its Enter yet.
Fresh(s) ==
  /\ cur["main"] = s /\ pc["main"] \in {"add", "associate", "enter"} /\ Untouched(s)
  /\ pc["main"] = "add" => Unseen(s)

\* What no other thread is doing to a fresh session.
LEMMA FreshAlone ==
  ASSUME TypeInv, ListInv, NEW s \in Session, Fresh(s)
  PROVE  /\ \A t \in Thread : cur[t] = s => pc[t] \notin Closing \cup RecvSteps /\ ret[t] # "repost"
         /\ lives # <<>> => Head(lives).s # s
         /\ jobs # <<>> => Head(jobs) # s
         /\ ~InSetup(s) => /\ pc["main"] = "add" /\ sendIO[s] = "none" /\ s \notin list \cup targets
                           /\ \A t \in Thread \ {"main"} : cur[t] # s
<1>1. \A t \in Thread : cur[t] = s => pc[t] \notin Closing \cup RecvSteps /\ ret[t] # "repost"
  BY DEF Fresh, Untouched, RecvHand, ListInv, Closing
<1>2. /\ lives # <<>> => Head(lives).s # s
      /\ jobs # <<>> => Head(jobs) # s
  BY Entries DEF Fresh, Untouched, TypeInv, TypeOK
<1> QED BY <1>1, <1>2 DEF Fresh, Unseen, InSetup

\* It stays untouched when a thread moves that does not come to close it or to receive for it.
LEMMA UntouchedKept ==
  ASSUME NEW s \in Session, Fresh(s), NEW t \in Thread, NEW p, NEW c, NEW r, Moved(t, p, c, r),
         c = s => p \notin {"exchange"} \cup RecvSteps /\ r # "repost",
         ~closing'[s], recvIO'[s] = "none",
         \A i \in DOMAIN life' : life'[i].s # s,
         \A i \in DOMAIN lives' : lives'[i].s # s,
         \A i \in DOMAIN pkts' : pkts'[i] # s,
         \A i \in DOMAIN jobs' : jobs'[i] # s,
         s \notin Board'
  PROVE  Untouched(s)'
<1>1. \A u \in Thread : cur'[u] = s =>
        pc'[u] # "exchange" /\ ~(pc'[u] \in RecvSteps \/ ret'[u] = "repost")
  BY DEF Moved, Fresh, Untouched, RecvHand
<1> QED BY <1>1 DEF Untouched, RecvHand

\* The other threads leave a fresh session untouched.
LEMMA UntouchedStep ==
  ASSUME TypeInv, PlaceInv, ListInv, EarlyClose = FALSE, NEW s \in Session, Fresh(s), [Next]_vars,
         ~MainOwn, ~PostRecv("main"), ~CloseSession("main")
  PROVE  Untouched(s)'
<1> USE Threads
<1>0. /\ ~closing[s] /\ recvIO[s] = "none" /\ s \notin Board
      /\ \A i \in DOMAIN life : life[i].s # s
      /\ \A i \in DOMAIN lives : lives[i].s # s
      /\ \A i \in DOMAIN pkts : pkts[i] # s
      /\ \A i \in DOMAIN jobs : jobs[i] # s
      /\ life \in Seq(LifeJob) /\ lives \in Seq(LifeJob)
      /\ pkts \in Seq(Session) /\ jobs \in Seq(Session)
  BY DEF Fresh, Untouched, TypeInv, TypeOK
<1>1. ASSUME NEW t \in Thread \ {"main"}, CloseSession(t) PROVE Untouched(s)'
  <2>1. UNCHANGED <<recvIO, pkts, lives, jobs, seated, viewers>>
    BY <1>1, Frames
  <2>2. cur[t] # s /\ cur[t] \in Session
    <3>1. pc[t] \in Closing
      BY <1>1, CloseMoves DEF CloseSession, Closing, CloseSteps
    <3> QED BY <3>1, FreshAlone DEF TypeInv, StepsOK, Closing, CloseSteps, FreeSteps
  <2>3. closing'[s] = closing[s]
    <3>1. \/ closing' = closing \/ closing' = [closing EXCEPT ![cur[t]] = TRUE]
      BY <1>1 DEF CloseSession, CloseExchange, CloseLeave, CloseUnlist, CloseShutdown, CloseUnref
    <3> QED BY <2>2, <3>1 DEF TypeInv, TypeOK
  <2>4. \A i \in DOMAIN life' : life'[i].s # s
    <3>1. \/ life' = life \/ life' = Append(life, [type |-> "Leave", s |-> cur[t]])
      BY <1>1 DEF CloseSession, CloseExchange, CloseLeave, CloseUnlist, CloseShutdown, CloseUnref,
                  PushLife, queueVars
    <3>2. [type |-> "Leave", s |-> cur[t]] \in LifeJob
      BY <2>2 DEF LifeJob, JobType
    <3>3. ASSUME NEW q \in Seq(LifeJob), NEW x \in LifeJob, x.s # s, \A i \in DOMAIN q : q[i].s # s
          PROVE  \A i \in DOMAIN Append(q, x) : Append(q, x)[i].s # s
      BY <3>3, Entries
    <3> QED BY <1>0, <2>2, <3>1, <3>2, <3>3
  <2>5. \E p, r : Moved(t, p, cur[t], r)
    BY <1>1, CloseMoves DEF CloseSession
  <2> QED BY <1>0, <2>1, <2>2, <2>3, <2>4, <2>5, UntouchedKept DEF Board
<1>2. ASSUME NEW t \in Thread \ {"main", "tick"}, PostRecv(t) PROVE Untouched(s)'
  <2>1. UNCHANGED <<closing, life, pkts, lives, jobs, seated, viewers>>
    BY <1>2, Frames
  <2>2. cur[t] # s
    BY <1>2, RecvMoves, FreshAlone DEF PostRecv, RecvSteps
  <2>3. recvIO'[s] = recvIO[s]
    BY <1>2, <2>2 DEF PostRecv, RecvRef, RecvPosted, RecvFailed, sockVars, TypeInv, TypeOK
  <2>4. \E p, r : Moved(t, p, cur[t], r)
    BY <1>2, RecvMoves DEF PostRecv
  <2> QED BY <1>0, <2>1, <2>2, <2>3, <2>4, UntouchedKept DEF Board
<1>3. ASSUME NEW t \in Thread \ {"main"}, StartSend(t) PROVE Untouched(s)'
  <2>1. UNCHANGED <<closing, recvIO, life, pkts, lives, jobs, seated, viewers>>
    BY <1>3, Frames
  <2>2. CASE SendFailed(t)
    <3>1. cur[t] # s /\ Moved(t, "exchange", cur[t], "senddrop")
      BY <2>2, SendMoves, FreshAlone DEF SendFailed
    <3> QED BY <1>0, <2>1, <3>1, UntouchedKept DEF Board
  <2>3. CASE ~SendFailed(t)
    <3>1. /\ \E p \in {"wsasend", "sent", "ioref"} : Moved(t, p, cur[t], ret[t])
          /\ cur[t] = s => ret[t] # "repost"
      BY <1>3, <2>3, SendMoves, FreshAlone DEF StartSend, AfterSend
    <3> QED BY <1>0, <2>1, <3>1, UntouchedKept DEF Board, RecvSteps
  <2> QED BY <2>2, <2>3
<1>4. CASE TickOwn
  <2>1. UNCHANGED <<closing, recvIO>>
    BY <1>4, OwnFrames
  <2>2. /\ \A i \in DOMAIN life' : life'[i].s # s
        /\ \A i \in DOMAIN lives' : lives'[i].s # s
        /\ \A i \in DOMAIN pkts' : pkts'[i] # s
        /\ \A i \in DOMAIN jobs' : jobs'[i] # s
    <3>1. \/ life' = life /\ lives' = lives /\ pkts' = pkts /\ jobs' = jobs
          \/ life' = <<>> /\ lives' = life /\ pkts' = <<>> /\ jobs' = pkts
          \/ life' = life /\ lives' = Tail(lives) /\ lives # <<>> /\ pkts' = pkts /\ jobs' = jobs
          \/ life' = life /\ lives' = lives /\ pkts' = pkts /\ jobs' = Tail(jobs) /\ jobs # <<>>
      BY <1>4, TickMoves DEF TickOwn, Swap, HandleEnter, HandleLeave, LifeRef, HandlePacket, JobRef, Game,
         CollectTargets, TickEnd, NextTarget, SendCheck, SendPush, SendFull, Sent, queueVars,
         TypeInv, StepsOK
    <3>2. DOMAIN <<>> = {}
      OBVIOUS
    <3>3. lives # <<>> => \A i \in DOMAIN Tail(lives) : Tail(lives)[i].s # s
      BY <1>0, Entries
    <3>4. jobs # <<>> => \A i \in DOMAIN Tail(jobs) : Tail(jobs)[i] # s
      BY <1>0, Entries
    <3> QED BY <1>0, <3>1, <3>2, <3>3, <3>4
  <2>3. s \notin Board'
    <3>1. CASE HandleEnter
      BY <1>0, <3>1, FreshAlone DEF HandleEnter, Board
    <3>2. CASE ~HandleEnter
      <4>1. Board' \subseteq Board
        BY <1>4, <3>2, TickMoves DEF TickOwn, Swap, HandleLeave, LifeRef, HandlePacket, JobRef,
           Game, CollectTargets, TickEnd, NextTarget, SendCheck, SendPush, SendFull, Sent, boardVars,
           Board
      <4> QED BY <1>0, <4>1
    <3> QED BY <3>1, <3>2
  <2>4. \E p, c, r : /\ Moved("tick", p, c, r)
                     /\ c = s => p \notin {"exchange"} \cup RecvSteps /\ r # "repost"
    <3>1. ret["tick"] # "repost"
      BY DEF TypeInv, StepsOK
    <3>2. CASE HandlePacket
      BY <3>1, <3>2, TickMoves, FreshAlone DEF RecvSteps, HandlePacket
    <3>3. CASE SendFull
      BY <3>3, TickMoves, FreshAlone DEF SendFull
    <3>4. CASE ~HandlePacket /\ ~SendFull
      BY <1>4, <3>1, <3>4, TickMoves DEF TickOwn, RecvSteps
    <3> QED BY <3>2, <3>3, <3>4
  <2> QED BY <1>0, <2>1, <2>2, <2>3, <2>4, UntouchedKept
<1>5. ASSUME NEW w \in Worker, WorkerOwn(w) PROVE Untouched(s)'
  <2>1. UNCHANGED <<closing, life, lives, jobs, seated, viewers>>
    BY <1>5, OwnFrames
  <2>2. recvIO'[s] = "none"
    BY <1>0, <1>5 DEF WorkerOwn, TakeRecv, ProcessPacket, ProcessEnd, Repost, TakeSend, OnSent,
       SendMore, IoRelease, WorkerExit, sockVars, TypeInv, TypeOK
  <2>3. \A i \in DOMAIN pkts' : pkts'[i] # s
    <3>1. CASE ~ProcessPacket(w)
      BY <1>0, <1>5, <3>1 DEF WorkerOwn, TakeRecv, ProcessPacket, ProcessEnd, Repost, TakeSend, OnSent,
         SendMore, IoRelease, WorkerExit, queueVars
    <3>2. CASE ProcessPacket(w)
      <4>1. cur[w] # s /\ cur[w] \in Session
        BY <3>2, WorkerMoves, FreshAlone DEF RecvSteps, TypeInv, StepsOK, FreeSteps
      <4>2. pkts' = pkts \/ pkts' = Append(pkts, cur[w])
        BY <3>2 DEF ProcessPacket
      <4>3. \A i \in DOMAIN Append(pkts, cur[w]) : Append(pkts, cur[w])[i] # s
        BY <1>0, <4>1, Entries
      <4> QED BY <1>0, <4>2, <4>3
    <3> QED BY <3>1, <3>2
  <2>4. \E p, c, r : /\ Moved(w, p, c, r)
                     /\ c = s => p \notin {"exchange"} \cup RecvSteps /\ r # "repost"
    <3>1. ASSUME NEW x \in Session, TakeRecv(w, x)
          PROVE  \E p, c, r : Moved(w, p, c, r) /\ c # s
      <4>1. x # s
        BY <1>0, <3>1 DEF TakeRecv
      <4> QED BY <3>1, <4>1, WorkerMoves
    <3>2. ASSUME NEW x \in Session, TakeSend(w, x)
          PROVE  \E p, c, r : /\ Moved(w, p, c, r)
                              /\ c = s => p \notin {"exchange"} \cup RecvSteps /\ r # "repost"
      <4>1. ret[w] # "repost"
        BY <3>2, WorkerMoves DEF PlaceInv, PlaceOf, Closing, CloseSteps
      <4>2. x = s => ~(EarlyClose \/ ~InSetup(x))
        BY <3>2, FreshAlone DEF TakeSend
      <4>3. Moved(w, "onsent", x, ret[w]) \/ (Moved(w, "exchange", x, "ioref") /\ x # s)
        BY <3>2, <4>2, Jumps DEF TakeSend
      <4> QED BY <4>1, <4>3 DEF RecvSteps
    <3>3. CASE ProcessPacket(w) \/ ProcessEnd(w) \/ Repost(w)
      <4>1. cur[w] # s
        BY <3>3, WorkerMoves, FreshAlone DEF RecvSteps
      <4> QED BY <3>3, <4>1, WorkerMoves
    <3>4. CASE OnSent(w) \/ SendMore(w)
      <4>1. cur[w] = s => ret[w] # "repost"
        BY FreshAlone
      <4> QED BY <3>4, <4>1, WorkerMoves DEF RecvSteps
    <3>5. CASE IoRelease(w) \/ WorkerExit(w)
      <4>1. cur[w] = s => ret[w] # "repost"
        BY FreshAlone
      <4> QED BY <3>5, <4>1, WorkerMoves, ConstantsAssumption DEF RecvSteps
    <3> QED BY <1>5, <3>1, <3>2, <3>3, <3>4, <3>5 DEF WorkerOwn
  <2> QED BY <1>0, <2>1, <2>2, <2>3, <2>4, UntouchedKept DEF Board
<1>6. ASSUME NEW x \in Session, CompletionLost(x) PROVE Untouched(s)'
  BY <1>6 DEF CompletionLost, threadVars, queueVars, boardVars, Fresh, Untouched, RecvHand, Board
<1>7. CASE UNCHANGED vars
  BY <1>7 DEF vars, threadVars, queueVars, boardVars, sockVars, Fresh, Untouched, RecvHand, Board
<1> QED BY <1>1, <1>2, <1>3, <1>4, <1>5, <1>6, <1>7, Steps

\* Before main lists it, the other threads do not even see it.
LEMMA UnseenStep ==
  ASSUME TypeInv, ListInv, NEW s \in Session, Fresh(s), pc["main"] = "add", [Next]_vars,
         ~MainOwn, ~PostRecv("main"), ~CloseSession("main")
  PROVE  Unseen(s)'
<1> USE Threads
<1>0. /\ ref[s] = 2 /\ sendIO[s] = "none" /\ s \notin list \cup targets \cup Board
      /\ \A t \in Thread \ {"main"} : cur[t] # s
      /\ lives # <<>> => Head(lives).s # s /\ Head(lives).s \in Session
      /\ jobs # <<>> => Head(jobs) # s /\ Head(jobs) \in Session
      /\ s # NoSession
  <2>1. /\ lives # <<>> => Head(lives).s \in Session
        /\ jobs # <<>> => Head(jobs) \in Session
    <3>1. /\ lives # <<>> => Head(lives) \in LifeJob
          /\ jobs # <<>> => Head(jobs) \in Session
      BY Entries DEF TypeInv, TypeOK
    <3> QED BY <3>1 DEF LifeJob
  <2> QED BY <2>1, FreshAlone, ConstantsAssumption DEF Fresh, Unseen, Untouched
<1>1. /\ \A x \in Session : AddRef(x) /\ x # s => ref'[s] = 2
      /\ \A x \in Session : Release(x) /\ x # s => ref'[s] = 2
      /\ \A some \in SUBSET Session : \A m : Collect(some, m) /\ s \notin some =>
           ref'[s] = 2 /\ s \notin targets'
  BY <1>0 DEF AddRef, Release, Collect, TypeInv, TypeOK
<1>2. ASSUME NEW t \in Thread, NEW p, NEW c, NEW r, Moved(t, p, c, r), c # s
      PROVE  \A u \in Thread \ {"main"} : cur'[u] # s
  BY <1>0, <1>2 DEF Moved
<1>3. ASSUME NEW t \in Thread \ {"main"}, CloseSession(t) PROVE Unseen(s)'
  <2>1. UNCHANGED <<sendIO, targets>> /\ cur[t] # s /\ \E p, r : Moved(t, p, cur[t], r)
    BY <1>0, <1>3, Frames, CloseMoves DEF CloseSession
  <2>2. cur[t] \in Session
    BY <1>3, CloseMoves DEF CloseSession, TypeInv, StepsOK, FreeSteps
  <2>3. s \notin list' /\ ref'[s] = 2
    BY <1>0, <1>1, <1>3, <2>1, <2>2
    DEF CloseSession, CloseExchange, CloseLeave, CloseUnlist, CloseShutdown, CloseUnref, PushLife, memVars
  <2> QED BY <1>0, <1>2, <2>1, <2>3 DEF Unseen
<1>4. ASSUME NEW t \in Thread \ {"main", "tick"}, PostRecv(t) PROVE Unseen(s)'
  <2>1. UNCHANGED <<sendIO, list, targets>> /\ cur[t] # s /\ \E p, r : Moved(t, p, cur[t], r)
    BY <1>0, <1>4, Frames, RecvMoves DEF PostRecv
  <2>2. cur[t] \in Session
    BY <1>4, RecvMoves DEF PostRecv, TypeInv, StepsOK, FreeSteps
  <2>3. ref'[s] = 2
    BY <1>0, <1>1, <1>4, <2>1, <2>2 DEF PostRecv, RecvRef, RecvPosted, RecvFailed, memVars
  <2> QED BY <1>0, <1>2, <2>1, <2>3 DEF Unseen
<1>5. ASSUME NEW t \in Thread \ {"main"}, StartSend(t) PROVE Unseen(s)'
  <2>1. UNCHANGED <<list, targets>> /\ cur[t] # s /\ \E p, r : Moved(t, p, cur[t], r)
    BY <1>0, <1>5, Frames, SendMoves DEF StartSend
  <2>2. cur[t] \in Session
    BY <1>5, SendMoves DEF StartSend, TypeInv, StepsOK, FreeSteps
  <2>3. ref'[s] = 2 /\ sendIO'[s] = "none"
    BY <1>0, <1>1, <1>5, <2>1, <2>2
    DEF StartSend, SendRef, SendPosted, SendFailed, SendDrop, memVars, sockVars, TypeInv, TypeOK
  <2> QED BY <1>0, <1>2, <2>1, <2>3 DEF Unseen
<1>6. CASE TickOwn
  <2>1. UNCHANGED <<sendIO, list>>
    BY <1>6, OwnFrames
  <2>2. cur["tick"] # s /\ (pc["tick"] = "sent" => cur["tick"] \in Session) /\ Open \in SUBSET Session /\ s \notin Open
    BY <1>0 DEF TypeInv, TypeOK, StepsOK, FreeSteps, Open
  <2>3. ref'[s] = 2 /\ s \notin targets'
    <3>1. CASE Swap \/ HandleEnter \/ HandleLeave \/ TickEnd \/ NextTarget \/ SendCheck \/ SendPush \/ SendFull
      BY <1>0, <3>1 DEF Swap, HandleEnter, HandleLeave, TickEnd, NextTarget, SendCheck, SendPush,
         SendFull, memVars, tickVars
    <3>2. CASE LifeRef \/ JobRef
      <4>1. /\ LifeRef => lives # <<>>
            /\ JobRef => jobs # <<>>
        BY TickMoves DEF TypeInv, StepsOK
      <4> QED BY <1>0, <1>1, <3>2, <4>1 DEF LifeRef, JobRef, tickVars
    <3>3. CASE HandlePacket \/ CollectTargets
      <4>1. \/ UNCHANGED <<ref, targets>>
            \/ \E some \in SUBSET Open, m \in {"echo", "aoi"} : Collect(some, m)
        BY <3>3 DEF HandlePacket, CollectTargets, tickVars
      <4> QED BY <1>0, <1>1, <2>2, <4>1
    <3>4. CASE Game
      BY <1>0, <3>4, TickMoves DEF Game, memVars, tickVars, Board
    <3>5. CASE Sent
      <4>1. targets' = targets /\ (Release(cur["tick"]) \/ ref' = ref)
        BY <3>5 DEF Sent, memVars
      <4>2. pc["tick"] = "sent"
        BY <3>5, TickMoves
      <4> QED BY <1>0, <1>1, <2>2, <4>1, <4>2
    <3> QED BY <1>6, <3>1, <3>2, <3>3, <3>4, <3>5 DEF TickOwn
  <2>4. \E p, c, r : Moved("tick", p, c, r) /\ c # s
    <3>1. CASE HandleEnter \/ HandlePacket \/ NextTarget
      BY <1>0, <2>2, <3>1, TickMoves DEF HandleEnter, HandlePacket, NextTarget
    <3>2. CASE ~(HandleEnter \/ HandlePacket \/ NextTarget)
      BY <1>0, <1>6, <2>2, <3>2, TickMoves DEF TickOwn
    <3> QED BY <3>1, <3>2
  <2> QED BY <1>0, <1>2, <2>1, <2>3, <2>4 DEF Unseen
<1>7. ASSUME NEW w \in Worker, WorkerOwn(w) PROVE Unseen(s)'
  <2>1. UNCHANGED <<list, targets>> /\ cur[w] # s
    BY <1>0, <1>7, OwnFrames
  <2>2. ASSUME NEW x \in Session, TakeRecv(w, x) \/ TakeSend(w, x) PROVE Unseen(s)'
    <3>1. x # s
      BY <1>0, <2>2, FreshAlone DEF TakeRecv, TakeSend, Fresh, Untouched
    <3>2. ref'[s] = 2 /\ sendIO'[s] = "none"
      BY <1>0, <2>2, <3>1 DEF TakeRecv, TakeSend, memVars, TypeInv, TypeOK
    <3> QED BY <1>0, <1>2, <2>1, <2>2, <3>1, <3>2, WorkerMoves DEF Unseen
  <2>3. CASE ProcessPacket(w) \/ ProcessEnd(w) \/ Repost(w)
    <3>1. cur[w] \in Session
      BY <2>3, WorkerMoves DEF TypeInv, StepsOK, FreeSteps
    <3>2. ref'[s] = 2 /\ sendIO' = sendIO
      BY <1>0, <1>1, <2>1, <2>3, <3>1 DEF ProcessPacket, ProcessEnd, Repost, memVars, sockVars
    <3> QED BY <1>0, <1>2, <2>1, <2>3, <3>2, WorkerMoves DEF Unseen
  <2>4. CASE OnSent(w) \/ SendMore(w) \/ WorkerExit(w)
    <3>1. ref'[s] = 2 /\ sendIO' = sendIO
      BY <1>0, <2>4 DEF OnSent, SendMore, WorkerExit, memVars, sockVars
    <3> QED BY <1>0, <1>2, <2>1, <2>4, <3>1, WorkerMoves DEF Unseen
  <2>5. CASE IoRelease(w)
    <3>1. cur[w] \in Session
      BY <2>5, WorkerMoves DEF TypeInv, StepsOK, FreeSteps
    <3>2. ref'[s] = 2 /\ sendIO' = sendIO
      BY <1>0, <1>1, <2>1, <2>5, <3>1 DEF IoRelease, sockVars
    <3> QED BY <1>0, <1>2, <2>1, <2>5, <3>2, WorkerMoves DEF Unseen
  <2> QED BY <1>7, <2>2, <2>3, <2>4, <2>5 DEF WorkerOwn
<1>8. ASSUME NEW x \in Session, CompletionLost(x) PROVE Unseen(s)'
  BY <1>0, <1>8 DEF CompletionLost, threadVars, memVars, tickVars, Unseen, TypeInv, TypeOK
<1>9. CASE UNCHANGED vars
  BY <1>0, <1>9 DEF vars, threadVars, memVars, sockVars, tickVars, Unseen
<1> QED BY <1>3, <1>4, <1>5, <1>6, <1>7, <1>8, <1>9, Steps

\* main sets up one session at a time, and it stays main's alone until its Enter is queued.
LEMMA SetupStep ==
  ASSUME TypeInv, PlaceInv, TickInv, ListInv, SetupInv, RefInv, QueueInv, EarlyClose = FALSE,
         [Next]_vars
  PROVE  SetupInv'
<1> USE Threads
<1> SUFFICES ASSUME NEW s, s = cur["main"] PROVE SetupInv'
  OBVIOUS
<1>1. ASSUME ~MainOwn, ~PostRecv("main"), ~CloseSession("main"),
             pc'["main"] = pc["main"], cur'["main"] = s
      PROVE  SetupInv'
  <2> SUFFICES ASSUME pc["main"] \in {"add", "associate", "enter"} PROVE SetupInv'
    BY <1>1 DEF SetupInv
  <2>1. s \in Session /\ Fresh(s)
    BY DEF SetupInv, Fresh, TypeInv, StepsOK, FreeSteps
  <2>2. Untouched(s)' /\ (pc["main"] = "add" => Unseen(s)')
    BY <1>1, <2>1, UntouchedStep, UnseenStep
  <2>3. pc["main"] \in {"associate", "enter"} => s \in list'
    <3>1. \A t \in Thread : CloseUnlist(t) => list' = list \ {cur[t]} /\ cur[t] # s
      BY <2>1, FreshAlone, CloseMoves DEF CloseUnlist, Closing, CloseSteps
    <3>2. list' = list \/ \E t \in Thread : CloseUnlist(t)
      BY <1>1, Steps, Frames, OwnFrames
      DEF CloseSession, CloseExchange, CloseLeave, CloseShutdown, CloseUnref, CompletionLost, vars
    <3> QED BY <3>1, <3>2 DEF SetupInv
  <2> QED BY <1>1, <2>2, <2>3 DEF SetupInv, Untouched, Unseen
<1>2. ASSUME pc'["main"] \notin {"add", "associate", "enter"} PROVE SetupInv'
  BY <1>2 DEF SetupInv
<1>3. CASE MainOwn
  <2>1. ASSUME NEW x \in Session, Accept(x) PROVE SetupInv'
    <3>1. /\ x \notin alloc /\ Moved("main", "add", x, ret["main"]) /\ pc["main"] = "accept"
      BY <2>1, MainMoves DEF Accept
    <3>2. /\ UNCHANGED <<list, life, pkts, lives, jobs, seated, viewers, targets>>
          /\ ~closing'[x] /\ recvIO'[x] = "none" /\ sendIO'[x] = "none" /\ ref'[x] = 2
      BY <2>1 DEF Accept, queueVars, boardVars, tickVars, TypeInv, TypeOK
    <3>3. /\ x \notin list \cup targets \cup Board
          /\ \A t \in Thread : cur[t] # x
      BY <3>1, InUse, ConstantsAssumption DEF NoUseAfterFree, Board
    <3>4. /\ \A i \in DOMAIN life : life[i].s # x
          /\ \A i \in DOMAIN lives : lives[i].s # x
          /\ \A i \in DOMAIN pkts : pkts[i] # x
          /\ \A i \in DOMAIN jobs : jobs[i] # x
      <4>1. Holders(x) = 0
        BY <3>1 DEF RefInv, RefsBalance
      <4> QED BY <4>1, Unheld
    <3>5. ret["main"] # "repost"
      BY DEF PlaceInv, PlaceOf
    <3>6. Board' = Board
      BY <3>2 DEF Board
    <3>7. \A t \in Thread : cur'[t] = x => t = "main"
      BY <3>1, <3>3 DEF Moved
    <3>8. Untouched(x)'
      BY <3>1, <3>2, <3>3, <3>4, <3>5, <3>6, <3>7 DEF Moved, Untouched, RecvHand, RecvSteps
    <3>9. Unseen(x)'
      BY <3>2, <3>3, <3>7 DEF Unseen
    <3> QED BY <3>1, <3>8, <3>9 DEF Moved, SetupInv, Untouched, Unseen
  <2>2. CASE AddSession
    <3>1. pc["main"] = "add" /\ Moved("main", "associate", s, ret["main"]) /\ list' = list \cup {s}
      BY <2>2, MainMoves DEF AddSession
    <3>2. UNCHANGED <<closing, recvIO, life, pkts, lives, jobs, seated, viewers>> /\ s \in Session
      BY <2>2, <3>1 DEF AddSession, sockVars, queueVars, boardVars, TypeInv, StepsOK, FreeSteps
    <3>3. Fresh(s) /\ ret["main"] # "repost"
      BY <3>1 DEF SetupInv, Fresh, PlaceInv, PlaceOf
    <3>4. Untouched(s)'
      <4>1. Untouched(s) /\ Board' = Board
        BY <3>2, <3>3 DEF Fresh, Board
      <4> QED BY <3>1, <3>2, <3>3, <4>1, UntouchedKept DEF RecvSteps, Untouched
    <3> QED BY <3>1, <3>4 DEF Moved, SetupInv, Untouched
  <2>3. CASE Associate
    <3>1. pc["main"] = "associate"
      BY <2>3, MainMoves
    <3>2. UNCHANGED <<closing, recvIO, list, life, pkts, lives, jobs, seated, viewers>> /\ s \in Session
      BY <2>3, <3>1 DEF Associate, queueVars, boardVars, TypeInv, StepsOK, FreeSteps
    <3>3. Fresh(s) /\ ret["main"] # "repost" /\ s \in list
      BY <3>1 DEF SetupInv, Fresh, PlaceInv, PlaceOf
    <3>4. CASE Moved("main", "enter", s, ret["main"])
      <4>1. Untouched(s)'
        <5>1. Untouched(s) /\ Board' = Board
          BY <3>2, <3>3 DEF Fresh, Board
        <5> QED BY <3>2, <3>3, <3>4, <5>1, UntouchedKept DEF RecvSteps, Untouched
      <4> QED BY <3>2, <3>3, <3>4, <4>1 DEF Moved, SetupInv, Untouched
    <3>5. CASE Moved("main", "exchange", s, "mainref")
      BY <3>5, <1>2 DEF Moved
    <3> QED BY <2>3, <3>4, <3>5, MainMoves
  <2>4. ASSUME NEW x \in Session, CloseNext(x) PROVE SetupInv'
    BY <1>2, <2>4, MainMoves DEF Moved
  <2>5. CASE ListFull \/ PushEnter \/ MainRelease \/ CollectAll \/ CloseRef \/ Drain \/ Join \/ Exit
    BY <1>2, <2>5, MainMoves DEF Moved
  <2> QED BY <1>3, <2>1, <2>2, <2>3, <2>4, <2>5 DEF MainOwn
<1>4. CASE PostRecv("main")
  BY <1>2, <1>4, RecvMoves DEF PostRecv, AfterRecv, Moved
<1>5. CASE CloseSession("main")
  <2>1. pc["main"] \in Closing
    BY <1>5, CloseMoves DEF CloseSession, Closing, CloseSteps
  <2>2. ret["main"] \notin {"add", "associate", "enter"}
    BY <2>1 DEF PlaceInv, PlaceOf
  <2> QED BY <1>2, <1>5, <2>2, CloseMoves DEF CloseSession, Moved
<1>6. CASE ~MainOwn /\ ~PostRecv("main") /\ ~CloseSession("main")
  <2>1. pc'["main"] = pc["main"] /\ cur'["main"] = s
    <3>1. \/ \E t \in Thread \ {"main"} : \E p, c, r : Moved(t, p, c, r)
          \/ UNCHANGED threadVars
      <4>1. ASSUME NEW t \in Thread, CloseSession(t) \/ PostRecv(t) \/ StartSend(t)
            PROVE  \E p, c, r : Moved(t, p, c, r)
        BY <4>1, CloseMoves, RecvMoves, SendMoves DEF CloseSession, PostRecv, StartSend
      <4>2. TickOwn => \E p, c, r : Moved("tick", p, c, r)
        BY TickMoves DEF TickOwn
      <4>3. \A w \in Worker : WorkerOwn(w) => \E p, c, r : Moved(w, p, c, r)
        BY WorkerMoves DEF WorkerOwn
      <4>4. \A x \in Session : CompletionLost(x) => UNCHANGED threadVars
        BY DEF CompletionLost
      <4>5. UNCHANGED vars => UNCHANGED threadVars
        BY DEF vars
      <4> QED BY <1>6, <4>1, <4>2, <4>3, <4>4, <4>5, Steps
    <3> QED BY <3>1 DEF Moved, threadVars
  <2> QED BY <1>1, <1>6, <2>1
<1> QED BY <1>3, <1>4, <1>5, <1>6

-----------------------------------------------------------------------------
(* One owner for each order and its buffer.                                *)

\* When one thread moves, the others must keep what they own, and it must own what it takes.
LEMMA RecvKept ==
  ASSUME RecvOwn, NEW t \in Thread, NEW p, NEW c, NEW r, Moved(t, p, c, r),
         p \in RecvSteps \/ r = "repost" =>
           /\ recvIO'[c] = "none"
           /\ \A u \in Thread \ {t} : RecvHand(u) => cur[u] # c,
         \A u \in Thread \ {t} : RecvHand(u) => recvIO'[cur[u]] = "none"
  PROVE  RecvOwn'
<1>1. /\ RecvHand(t)' <=> p \in RecvSteps \/ r = "repost"
      /\ \A u \in Thread \ {t} : (RecvHand(u)' <=> RecvHand(u)) /\ cur'[u] = cur[u]
      /\ cur'[t] = c
  BY DEF Moved, RecvHand
<1>2. \A u, v \in Thread : RecvHand(u)' /\ RecvHand(v)' /\ cur'[u] = cur'[v] => u = v
  BY <1>1 DEF RecvOwn
<1>3. \A u \in Thread : RecvHand(u)' => recvIO'[cur'[u]] = "none"
  BY <1>1
<1> QED BY <1>2, <1>3 DEF RecvOwn

\* Nor does the send order get a second owner, and the flag stays up.
LEMMA SendKept ==
  ASSUME SendOwn, NEW t \in Thread, NEW p, NEW c, NEW r, Moved(t, p, c, r),
         p \in OwnSteps =>
           /\ sendIO'[c] = "none" /\ sending'[c]
           /\ \A u \in Thread \ {t} : SendHand(u) => cur[u] # c,
         \A u \in Thread \ {t} : SendHand(u) => sendIO'[cur[u]] = "none" /\ sending'[cur[u]],
         \A s \in Session : sendIO'[s] # "none" => sending'[s]
  PROVE  SendOwn'
<1>1. /\ SendHand(t)' <=> p \in OwnSteps
      /\ \A u \in Thread \ {t} : (SendHand(u)' <=> SendHand(u)) /\ cur'[u] = cur[u]
      /\ cur'[t] = c
  BY DEF Moved, SendHand
<1>2. \A u, v \in Thread : SendHand(u)' /\ SendHand(v)' /\ cur'[u] = cur'[v] => u = v
  BY <1>1 DEF SendOwn
<1>3. \A u \in Thread : SendHand(u)' => sendIO'[cur'[u]] = "none" /\ sending'[cur'[u]]
  BY <1>1
<1> QED BY <1>2, <1>3 DEF SendOwn

\* A thread that takes nothing new, while the orders stay as they are.
LEMMA RecvStays ==
  ASSUME RecvOwn, NEW t \in Thread, NEW p, NEW c, NEW r, Moved(t, p, c, r), recvIO' = recvIO,
         p \in RecvSteps \/ r = "repost" => RecvHand(t) /\ c = cur[t]
  PROVE  RecvOwn'
BY RecvKept DEF RecvOwn

\* A thread that takes no send order, while the orders and the flags stay as they are.
LEMMA SendStays ==
  ASSUME SendOwn, NEW t \in Thread, NEW p, NEW c, NEW r, Moved(t, p, c, r),
         UNCHANGED <<sendIO, sending>>, p \in OwnSteps => SendHand(t) /\ c = cur[t]
  PROVE  SendOwn'
BY SendKept DEF SendOwn

\* The receive order of a session and recv_buf have one owner.
LEMMA RecvStep ==
  ASSUME TypeInv, PlaceInv, SetupInv, RecvOwn, [Next]_vars
  PROVE  RecvOwn'
<1> USE Threads
<1>0. \A t \in Thread : pc[t] \notin Closing => ret[t] # "repost"
  BY DEF PlaceInv, PlaceOf
<1>1. ASSUME NEW t \in Thread, CloseSession(t) PROVE RecvOwn'
  <2>1. recvIO' = recvIO /\ pc[t] \in Closing
    BY <1>1, Frames, CloseMoves DEF CloseSession, Closing, CloseSteps
  <2>2. ret[t] \in RecvSteps => ret[t] = "repost"
    BY <2>1 DEF PlaceInv, PlaceOf, TypeInv, StepsOK, RecvSteps, Closing
  <2>3. \/ Moved(t, ret[t], cur[t], "none")
        \/ \E p \in CloseSteps : Moved(t, p, cur[t], ret[t])
    BY <1>1, CloseMoves DEF CloseSession, CloseSteps
  <2> QED BY <2>1, <2>2, <2>3, RecvStays DEF RecvHand, RecvSteps, CloseSteps
<1>2. ASSUME NEW t \in Thread \ {"tick"}, PostRecv(t) PROVE RecvOwn'
  <2>1. RecvHand(t) /\ cur[t] \in Session /\ ret[t] # "repost"
    BY <1>0, <1>2, RecvMoves
    DEF PostRecv, RecvHand, RecvSteps, TypeInv, StepsOK, FreeSteps, Closing, CloseSteps
  <2>2. AfterRecv(t) \in {"mainref", "ioref"}
    BY DEF AfterRecv
  <2>3. CASE RecvPosted(t)
    <3>1. \A u \in Thread \ {t} : RecvHand(u) => recvIO'[cur[u]] = "none"
      BY <2>1, <2>3 DEF RecvOwn, RecvPosted, TypeInv, TypeOK
    <3> QED BY <2>1, <2>2, <2>3, <3>1, RecvMoves, RecvKept DEF RecvSteps
  <2>4. CASE RecvRef(t) \/ RecvFailed(t)
    <3>1. recvIO' = recvIO
      BY <2>4 DEF RecvRef, RecvFailed, sockVars
    <3> QED BY <2>1, <2>2, <2>4, <3>1, RecvMoves, RecvStays DEF RecvSteps
  <2> QED BY <1>2, <2>3, <2>4 DEF PostRecv
<1>3. ASSUME NEW t \in Thread \ {"main"}, StartSend(t) PROVE RecvOwn'
  <2>1. recvIO' = recvIO /\ ret[t] # "repost"
    BY <1>0, <1>3, Frames, SendMoves DEF StartSend, Closing, CloseSteps
  <2>2. \E p \in {"wsasend", "sent", "ioref", "exchange"} : \E r : Moved(t, p, cur[t], r) /\ r # "repost"
    BY <1>3, <2>1, SendMoves DEF StartSend, AfterSend
  <2> QED BY <2>1, <2>2, RecvStays DEF RecvSteps
<1>4. CASE MainOwn
  <2>1. ret["main"] # "repost"
    BY DEF PlaceInv, PlaceOf
  <2>2. ASSUME NEW s \in Session, Accept(s) PROVE RecvOwn'
    <3>1. \A u \in Thread : RecvHand(u) => recvIO'[cur[u]] = "none"
      BY <2>2 DEF Accept, RecvOwn, TypeInv, TypeOK
    <3> QED BY <2>1, <2>2, <3>1, MainMoves, RecvKept DEF RecvSteps
  <2>3. CASE PushEnter
    <3>1. /\ Moved("main", "recvref", cur["main"], ret["main"]) /\ recvIO' = recvIO
          /\ pc["main"] = "enter"
      BY <2>3, MainMoves DEF PushEnter, sockVars
    <3>2. Untouched(cur["main"])
      BY <3>1 DEF SetupInv
    <3> QED BY <3>1, <3>2, RecvKept DEF Untouched, RecvOwn
  <2>4. ASSUME NEW s \in Session, CloseNext(s) PROVE RecvOwn'
    <3>1. recvIO' = recvIO
      BY <2>4 DEF CloseNext, sockVars
    <3> QED BY <2>4, <3>1, MainMoves, RecvStays DEF RecvSteps
  <2>5. CASE AddSession \/ ListFull \/ Associate \/ MainRelease
    <3>1. recvIO' = recvIO
      BY <2>5 DEF AddSession, ListFull, Associate, MainRelease, sockVars
    <3> QED BY <2>1, <2>5, <3>1, MainMoves, RecvStays DEF RecvSteps
  <2>6. CASE CollectAll \/ CloseRef \/ Drain \/ Join \/ Exit
    <3>1. recvIO' = recvIO
      BY <2>6 DEF CollectAll, CloseRef, Drain, Join, Exit, sockVars
    <3> QED BY <2>1, <2>6, <3>1, MainMoves, RecvStays DEF RecvSteps
  <2> QED BY <1>4, <2>2, <2>3, <2>4, <2>5, <2>6 DEF MainOwn
<1>5. CASE TickOwn
  <2>1. recvIO' = recvIO /\ ret["tick"] # "repost"
    BY <1>5, OwnFrames DEF TypeInv, StepsOK
  <2>2. \E p, c, r : Moved("tick", p, c, r) /\ p \notin RecvSteps /\ r # "repost"
    BY <1>5, <2>1, TickMoves DEF TickOwn, RecvSteps
  <2> QED BY <2>1, <2>2, RecvStays
<1>6. ASSUME NEW w \in Worker, WorkerOwn(w) PROVE RecvOwn'
  <2>1. pc[w] \notin Closing /\ ret[w] # "repost"
    <3>1. pc[w] \in {"idle", "process", "repost", "onsent", "more", "ioref"}
      BY <1>6, WorkerMoves DEF WorkerOwn
    <3> QED BY <1>0, <3>1 DEF Closing, CloseSteps
  <2>2. ASSUME NEW s \in Session, TakeRecv(w, s) PROVE RecvOwn'
    <3>1. /\ recvIO'[s] = "none"
          /\ \A u \in Thread : RecvHand(u) => recvIO'[cur[u]] = "none" /\ cur[u] # s
      BY <2>2 DEF TakeRecv, RecvOwn, TypeInv, TypeOK
    <3> QED BY <2>2, <3>1, WorkerMoves, RecvKept
  <2>3. ASSUME NEW s \in Session, TakeSend(w, s) PROVE RecvOwn'
    <3>1. recvIO' = recvIO
      BY <2>3 DEF TakeSend
    <3> QED BY <2>1, <2>3, <3>1, WorkerMoves, RecvStays DEF RecvSteps
  <2>4. CASE ProcessPacket(w) \/ ProcessEnd(w) \/ Repost(w)
    <3>1. recvIO' = recvIO /\ RecvHand(w)
      BY <2>4, WorkerMoves DEF ProcessPacket, ProcessEnd, Repost, sockVars, RecvHand, RecvSteps
    <3>2. \E p, r : Moved(w, p, cur[w], r)
      BY <2>4, WorkerMoves
    <3> QED BY <3>1, <3>2, RecvStays
  <2>5. CASE OnSent(w) \/ SendMore(w) \/ IoRelease(w) \/ WorkerExit(w)
    <3>1. recvIO' = recvIO
      BY <2>5 DEF OnSent, SendMore, IoRelease, WorkerExit, sockVars
    <3>2. \E p \in {"more", "ioref", "sendref", "idle", "stopped"} : \E c : Moved(w, p, c, ret[w])
      BY <2>5, WorkerMoves
    <3> QED BY <2>1, <3>1, <3>2, RecvStays DEF RecvSteps
  <2> QED BY <1>6, <2>2, <2>3, <2>4, <2>5 DEF WorkerOwn
<1>7. ASSUME NEW s \in Session, CompletionLost(s) PROVE RecvOwn'
  BY <1>7 DEF CompletionLost, threadVars, RecvOwn, RecvHand
<1>8. CASE UNCHANGED vars
  BY <1>8 DEF vars, threadVars, sockVars, RecvOwn, RecvHand
<1> QED BY <1>1, <1>2, <1>3, <1>4, <1>5, <1>6, <1>7, <1>8, Steps

\* The send order of a session and send_buf have one owner, and while they do the flag is up.
LEMMA SendStep ==
  ASSUME TypeInv, PlaceInv, TickInv, ListInv, RefInv, QueueInv, SendOwn, [Next]_vars
  PROVE  SendOwn'
<1> USE Threads
<1>0. \A t \in Thread : SendHand(t) => cur[t] \in Session /\ cur[t] \in alloc
  BY InUse, ConstantsAssumption DEF NoUseAfterFree, SendHand, OwnSteps, TypeInv, StepsOK, FreeSteps
<1>1. ASSUME NEW t \in Thread, CloseSession(t) PROVE SendOwn'
  <2>1. UNCHANGED <<sendIO, sending>> /\ pc[t] \in Closing
    BY <1>1, Frames, CloseMoves DEF CloseSession, Closing, CloseSteps
  <2>2. ret[t] \notin OwnSteps
    BY <2>1 DEF PlaceInv, PlaceOf, TypeInv, StepsOK, OwnSteps
  <2>3. \/ Moved(t, ret[t], cur[t], "none")
        \/ \E p \in CloseSteps : Moved(t, p, cur[t], ret[t])
    BY <1>1, CloseMoves DEF CloseSession, CloseSteps
  <2> QED BY <2>1, <2>2, <2>3, SendStays DEF OwnSteps, CloseSteps
<1>2. ASSUME NEW t \in Thread \ {"tick"}, PostRecv(t) PROVE SendOwn'
  <2>1. \E p \in {"wsarecv", "mainref", "ioref", "exchange"} : \E r : Moved(t, p, cur[t], r)
    BY <1>2, RecvMoves DEF PostRecv, AfterRecv
  <2> QED BY <1>2, <2>1, Frames, SendStays DEF OwnSteps
<1>3. ASSUME NEW t \in Thread \ {"main"}, StartSend(t) PROVE SendOwn'
  <2>0. sending' = sending
    BY <1>3, Frames
  <2>1. CASE SendRef(t)
    <3>1. sendIO' = sendIO /\ SendHand(t)
      BY <2>1, SendMoves DEF SendRef, sockVars, SendHand, OwnSteps
    <3> QED BY <2>0, <2>1, <3>1, SendMoves, SendStays
  <2>2. CASE SendPosted(t)
    <3>1. SendHand(t) /\ AfterSend(t) \notin OwnSteps
      BY <2>2, SendMoves DEF SendHand, OwnSteps, AfterSend
    <3>2. /\ \A u \in Thread \ {t} : SendHand(u) => sendIO'[cur[u]] = "none" /\ sending'[cur[u]]
          /\ \A s \in Session : sendIO'[s] # "none" => sending'[s]
      BY <1>0, <2>0, <2>2, <3>1 DEF SendOwn, SendPosted, TypeInv, TypeOK
    <3> QED BY <2>2, <3>1, <3>2, SendMoves, SendKept
  <2>3. CASE SendFailed(t) \/ SendDrop(t)
    <3>1. sendIO' = sendIO /\ AfterSend(t) \notin OwnSteps /\ "exchange" \notin OwnSteps
      BY <2>3 DEF SendFailed, SendDrop, sockVars, OwnSteps, AfterSend
    <3> QED BY <2>0, <2>3, <3>1, SendMoves, SendStays
  <2> QED BY <1>3, <2>1, <2>2, <2>3 DEF StartSend
<1>4. CASE MainOwn
  <2> USE DEF OwnSteps
  <2>2. ASSUME NEW s \in Session, Accept(s) PROVE SendOwn'
    <3>1. \A u \in Thread : SendHand(u) => cur[u] # s
      BY <1>0, <2>2 DEF Accept
    <3>2. /\ \A u \in Thread : SendHand(u) => sendIO'[cur[u]] = "none" /\ sending'[cur[u]]
          /\ \A x \in Session : sendIO'[x] # "none" => sending'[x]
      BY <1>0, <2>2, <3>1 DEF Accept, SendOwn, TypeInv, TypeOK
    <3> QED BY <2>2, <3>2, MainMoves, SendKept
  <2>4. ASSUME NEW s \in Session, CloseNext(s) PROVE SendOwn'
    <3>1. UNCHANGED <<sendIO, sending>>
      BY <2>4 DEF CloseNext, sockVars, sendVars
    <3> QED BY <2>4, <3>1, MainMoves, SendStays
  <2>5. CASE AddSession \/ ListFull \/ Associate \/ PushEnter \/ MainRelease
    <3>1. UNCHANGED <<sendIO, sending>>
      BY <2>5 DEF AddSession, ListFull, Associate, PushEnter, MainRelease, sockVars, sendVars
    <3> QED BY <2>5, <3>1, MainMoves, SendStays
  <2>6. CASE CollectAll \/ CloseRef \/ Drain \/ Join \/ Exit
    <3>1. UNCHANGED <<sendIO, sending>>
      BY <2>6 DEF CollectAll, CloseRef, Drain, Join, Exit, sockVars, sendVars
    <3> QED BY <2>6, <3>1, MainMoves, SendStays
  <2> QED BY <1>4, <2>2, <2>4, <2>5, <2>6 DEF MainOwn
<1>5. CASE TickOwn
  <2>1. sendIO' = sendIO
    BY <1>5, OwnFrames
  <2>2. CASE SendPush
    <3> DEFINE s == cur["tick"]
    <3>1. s \in Session /\ sending' = [sending EXCEPT ![s] = TRUE]
      BY <2>2, TickMoves DEF SendPush, TypeInv, StepsOK, FreeSteps
    <3>2. \A x \in Session : sending'[x] <=> (sending[x] \/ x = s)
      BY <3>1 DEF TypeInv, TypeOK
    <3>3. /\ \A u \in Thread : SendHand(u) => sendIO'[cur[u]] = "none" /\ sending'[cur[u]]
          /\ \A x \in Session : sendIO'[x] # "none" => sending'[x]
      BY <1>0, <2>1, <3>2 DEF SendOwn
    <3>4. ~sending[s] => sendIO'[s] = "none" /\ \A u \in Thread : SendHand(u) => cur[u] # s
      BY <2>1, <3>1 DEF SendOwn
    <3> QED BY <2>2, <3>1, <3>2, <3>3, <3>4, TickMoves, SendKept DEF OwnSteps
  <2>3. CASE ~SendPush
    <3>1. sending' = sending
      BY <1>5, <2>3 DEF TickOwn, Swap, HandleEnter, HandleLeave, LifeRef, HandlePacket, JobRef, Game,
         CollectTargets, TickEnd, NextTarget, SendCheck, SendFull, Sent, sendVars
    <3>2. \E p, c, r : Moved("tick", p, c, r) /\ p \notin OwnSteps
      BY <1>5, <2>3, TickMoves DEF TickOwn, OwnSteps
    <3> QED BY <2>1, <3>1, <3>2, SendStays
  <2> QED BY <2>2, <2>3
<1>6. ASSUME NEW w \in Worker, WorkerOwn(w) PROVE SendOwn'
  <2>2. ASSUME NEW s \in Session, TakeSend(w, s) PROVE SendOwn'
    <3>1. sendIO' = [sendIO EXCEPT ![s] = "none"] /\ sending' = sending /\ sendIO[s] = "posted"
      BY <2>2 DEF TakeSend, sendVars
    <3>2. /\ \A u \in Thread : SendHand(u) => /\ sendIO'[cur[u]] = "none" /\ sending'[cur[u]]
                                              /\ cur[u] # s
          /\ \A x \in Session : sendIO'[x] # "none" => sending'[x]
          /\ sendIO'[s] = "none" /\ sending'[s]
      BY <1>0, <3>1 DEF SendOwn, TypeInv, TypeOK
    <3> QED BY <2>2, <3>2, WorkerMoves, SendKept DEF OwnSteps
  <2>3. CASE OnSent(w)
    <3> DEFINE s == cur[w]
    <3>1. SendHand(w) /\ sendIO' = sendIO
      BY <2>3, WorkerMoves DEF OnSent, sockVars, SendHand, OwnSteps
    <3>2. \/ Moved(w, "more", s, ret[w]) /\ sending' = sending
          \/ Moved(w, "ioref", s, ret[w]) /\ sending' = [sending EXCEPT ![s] = FALSE]
      BY <2>3, Jumps DEF OnSent
    <3>3. CASE Moved(w, "ioref", s, ret[w]) /\ sending' = [sending EXCEPT ![s] = FALSE]
      <4>1. \A u \in Thread \ {w} : SendHand(u) => cur[u] # s
        BY <3>1 DEF SendOwn
      <4>2. \A x \in Session : x # s => sending'[x] = sending[x]
        BY <3>3 DEF TypeInv, TypeOK
      <4>3. sendIO[s] = "none"
        BY <3>1 DEF SendOwn
      <4>4. \A u \in Thread \ {w} : SendHand(u) => sendIO'[cur[u]] = "none" /\ sending'[cur[u]]
        BY <1>0, <3>1, <4>1, <4>2 DEF SendOwn
      <4>5. \A x \in Session : sendIO'[x] # "none" => sending'[x]
        BY <3>1, <4>2, <4>3 DEF SendOwn
      <4> QED BY <3>3, <4>4, <4>5, SendKept DEF OwnSteps
    <3> QED BY <3>1, <3>2, <3>3, SendStays
  <2>4. CASE SendMore(w)
    <3>1. UNCHANGED <<sendIO, sending>> /\ SendHand(w)
      BY <2>4, WorkerMoves DEF SendMore, sockVars, sendVars, SendHand, OwnSteps
    <3> QED BY <2>4, <3>1, WorkerMoves, SendStays
  <2>5. ASSUME NEW s \in Session, TakeRecv(w, s) PROVE SendOwn'
    <3>1. UNCHANGED <<sendIO, sending>>
      BY <2>5 DEF TakeRecv, sendVars
    <3> QED BY <2>5, <3>1, WorkerMoves, SendStays DEF OwnSteps
  <2>6. CASE ProcessPacket(w) \/ ProcessEnd(w) \/ Repost(w) \/ IoRelease(w) \/ WorkerExit(w)
    <3>1. UNCHANGED <<sendIO, sending>>
      BY <2>6 DEF ProcessPacket, ProcessEnd, Repost, IoRelease, WorkerExit, sockVars, sendVars
    <3>2. \E p, c, r : Moved(w, p, c, r) /\ p \notin OwnSteps
      BY <2>6, WorkerMoves DEF OwnSteps
    <3> QED BY <3>1, <3>2, SendStays
  <2> QED BY <1>6, <2>2, <2>3, <2>4, <2>5, <2>6 DEF WorkerOwn
<1>7. ASSUME NEW s \in Session, CompletionLost(s) PROVE SendOwn'
  <2>1. UNCHANGED <<pc, cur, ret, sending>> /\ sendIO[s] = "posted"
        /\ sendIO' = [sendIO EXCEPT ![s] = "lost"]
    BY <1>7 DEF CompletionLost, threadVars, sendVars
  <2> QED BY <1>0, <2>1 DEF SendOwn, SendHand, TypeInv, TypeOK
<1>8. CASE UNCHANGED vars
  BY <1>8 DEF vars, threadVars, sockVars, sendVars, SendOwn, SendHand
<1> QED BY <1>1, <1>2, <1>3, <1>4, <1>5, <1>6, <1>7, <1>8, Steps

-----------------------------------------------------------------------------
(* The reference count.                                                    *)

\* Where references are stored, without the lists of targets and with them.
Rest == <<leftovers, life, lives, pkts, jobs, recvIO, sendIO>>
Held == <<leftovers, life, lives, pkts, jobs, recvIO, sendIO, targets, mode>>

\* What is stored changes by what enters or leaves one of the stores.
LEMMA StoredSteps ==
  ASSUME TypeInv, TypeInv', NEW s \in Session
  PROVE  /\ Stored(s) \in Int /\ Stored(s)' \in Int
         /\ UNCHANGED Held => Stored(s)' = Stored(s)
         /\ UNCHANGED Rest =>
              Stored(s)' - Stored(s) = Count(Sends' /\ s \in targets') - Count(Sends /\ s \in targets)
         /\ UNCHANGED <<life, lives, pkts, jobs, recvIO, sendIO, targets, mode>> =>
              Stored(s)' - Stored(s) = Count(s \in leftovers') - Count(s \in leftovers)
         /\ \A x \in LifeJob :
              life' = Append(life, x)
              /\ UNCHANGED <<leftovers, lives, pkts, jobs, recvIO, sendIO, targets, mode>> =>
              Stored(s)' = Stored(s) + Count(x.s = s)
         /\ \A x \in Session :
              pkts' = Append(pkts, x)
              /\ UNCHANGED <<leftovers, life, lives, jobs, recvIO, sendIO, targets, mode>> =>
              Stored(s)' = Stored(s) + Count(x = s)
         /\ lives # <<>> /\ lives' = Tail(lives)
              /\ UNCHANGED <<leftovers, life, pkts, jobs, recvIO, sendIO, targets, mode>> =>
              Stored(s)' = Stored(s) - Count(Head(lives).s = s)
         /\ jobs # <<>> /\ jobs' = Tail(jobs)
              /\ UNCHANGED <<leftovers, life, lives, pkts, recvIO, sendIO, targets, mode>> =>
              Stored(s)' = Stored(s) - Count(Head(jobs) = s)
         /\ UNCHANGED <<leftovers, life, lives, pkts, jobs, sendIO, targets, mode>> =>
              Stored(s)' - Stored(s) = Count(recvIO'[s] # "none") - Count(recvIO[s] # "none")
         /\ UNCHANGED <<leftovers, life, lives, pkts, jobs, recvIO, targets, mode>> =>
              Stored(s)' - Stored(s) = Count(sendIO'[s] # "none") - Count(sendIO[s] # "none")
         /\ lives = <<>> /\ jobs = <<>> /\ life' = <<>> /\ pkts' = <<>> /\ lives' = life /\ jobs' = pkts
              /\ UNCHANGED <<leftovers, recvIO, sendIO, targets, mode>> =>
              Stored(s)' = Stored(s)
<1> DEFINE a == Count(s \in leftovers)
           b == LifeTimes(life, s)
           c == LifeTimes(lives, s)
           d == Times(pkts, s)
           e == Times(jobs, s)
           f == Count(recvIO[s] # "none")
           g == Count(sendIO[s] # "none")
           h == Count(Sends /\ s \in targets)
<1>1. /\ Stored(s) = a + b + c + d + e + f + g + h
      /\ Stored(s)' = a' + b' + c' + d' + e' + f' + g' + h'
  BY DEF Stored
<1>2. /\ life \in Seq(LifeJob) /\ lives \in Seq(LifeJob)
      /\ pkts \in Seq(Session) /\ jobs \in Seq(Session)
      /\ life' \in Seq(LifeJob) /\ lives' \in Seq(LifeJob)
      /\ pkts' \in Seq(Session) /\ jobs' \in Seq(Session)
  BY DEF TypeInv, TypeOK
<1>3. /\ a \in Int /\ b \in Int /\ c \in Int /\ d \in Int /\ e \in Int /\ f \in Int /\ g \in Int
      /\ h \in Int /\ a' \in Int /\ b' \in Int /\ c' \in Int /\ d' \in Int /\ e' \in Int
      /\ f' \in Int /\ g' \in Int /\ h' \in Int
  <2>1. /\ b \in Int /\ c \in Int /\ d \in Int /\ e \in Int
        /\ b' \in Int /\ c' \in Int /\ d' \in Int /\ e' \in Int
    BY <1>2, TimesCount, LifeTimesCount
  <2>2. \A x : Count(x) \in Int
    BY DEF Count
  <2> QED BY <2>1, <2>2
<1>4. /\ leftovers' = leftovers => a' = a
      /\ life' = life => b' = b
      /\ lives' = lives => c' = c
      /\ pkts' = pkts => d' = d
      /\ jobs' = jobs => e' = e
      /\ recvIO' = recvIO => f' = f
      /\ sendIO' = sendIO => g' = g
      /\ targets' = targets /\ mode' = mode => h' = h
  BY DEF Sends
<1>5. /\ a' = Count(s \in leftovers') /\ f' = Count(recvIO'[s] # "none")
      /\ g' = Count(sendIO'[s] # "none") /\ h' = Count(Sends' /\ s \in targets')
  OBVIOUS
<1>6. /\ \A x \in LifeJob : life' = Append(life, x) => b' = b + Count(x.s = s)
      /\ \A x \in Session : pkts' = Append(pkts, x) => d' = d + Count(x = s)
      /\ lives # <<>> /\ lives' = Tail(lives) => c = c' + Count(Head(lives).s = s)
      /\ jobs # <<>> /\ jobs' = Tail(jobs) => e = e' + Count(Head(jobs) = s)
      /\ lives = <<>> /\ lives' = life => c = 0 /\ c' = b
      /\ jobs = <<>> /\ jobs' = pkts => e = 0 /\ e' = d
      /\ life' = <<>> => b' = 0
      /\ pkts' = <<>> => d' = 0
  <2>2. /\ \A x \in LifeJob : LifeTimes(Append(life, x), s) = b + Count(x.s = s)
        /\ lives # <<>> => c = LifeTimes(Tail(lives), s) + Count(Head(lives).s = s)
    BY <1>2, LifeTimesCount
  <2>3. /\ \A x \in Session : Times(Append(pkts, x), s) = d + Count(x = s)
        /\ jobs # <<>> => e = Times(Tail(jobs), s) + Count(Head(jobs) = s)
    BY <1>2, TimesCount
  <2>1. LifeTimes(<<>>, s) = 0 /\ Times(<<>>, s) = 0
    <3>1. DOMAIN <<>> = {}
      OBVIOUS
    <3>2. /\ {i \in DOMAIN <<>> : <<>>[i] = s} = {}
          /\ {i \in DOMAIN <<>> : <<>>[i].s = s} = {}
      BY <3>1
    <3> QED BY <3>2, FS_EmptySet DEF LifeTimes, Times
  <2>4. /\ b' = LifeTimes(life', s) /\ c' = LifeTimes(lives', s)
        /\ d' = Times(pkts', s) /\ e' = Times(jobs', s)
    OBVIOUS
  <2> QED BY <2>1, <2>2, <2>3, <2>4
<1>7. /\ \A x : Count(x.s = s) \in Int /\ Count(x = s) \in Int
      /\ Count(Head(lives).s = s) \in Int /\ Count(Head(jobs) = s) \in Int
  BY DEF Count
<1>8. /\ a = Count(s \in leftovers) /\ f = Count(recvIO[s] # "none")
      /\ g = Count(sendIO[s] # "none") /\ h = Count(Sends /\ s \in targets)
  OBVIOUS
<1> HIDE DEF a, b, c, d, e, f, g, h
<1> USE DEF Rest, Held
<1>9. /\ Stored(s) \in Int /\ Stored(s)' \in Int
      /\ UNCHANGED Held => Stored(s)' = Stored(s)
  <2>1. Stored(s) \in Int /\ Stored(s)' \in Int
    BY <1>1, <1>3
  <2>2. ASSUME UNCHANGED Held PROVE Stored(s)' = Stored(s)
    <3>1. a' = a /\ b' = b /\ c' = c /\ d' = d /\ e' = e /\ f' = f /\ g' = g /\ h' = h
      BY <1>4, <2>2
    <3> QED BY <1>1, <3>1
  <2> QED BY <2>1, <2>2
<1>10. ASSUME UNCHANGED Rest PROVE Stored(s)' - Stored(s) = h' - h
  <2>1. a' = a /\ b' = b /\ c' = c /\ d' = d /\ e' = e /\ f' = f /\ g' = g
    BY <1>4, <1>10
  <2> QED BY <1>1, <1>3, <2>1
<1>11. ASSUME UNCHANGED <<life, lives, pkts, jobs, recvIO, sendIO, targets, mode>>
       PROVE  Stored(s)' - Stored(s) = a' - a
  <2>1. b' = b /\ c' = c /\ d' = d /\ e' = e /\ f' = f /\ g' = g /\ h' = h
    BY <1>4, <1>11
  <2> QED BY <1>1, <1>3, <2>1
<1>12. ASSUME NEW x \in LifeJob, life' = Append(life, x),
              UNCHANGED <<leftovers, lives, pkts, jobs, recvIO, sendIO, targets, mode>>
       PROVE  Stored(s)' = Stored(s) + Count(x.s = s)
  <2>1. Count(x.s = s) \in Int
    BY DEF Count
  <2> DEFINE k == Count(x.s = s)
  <2>2. k \in Int /\ b' = b + k
    BY <1>6, <1>12, <2>1
  <2> HIDE DEF k
  <2>3. Stored(s)' = Stored(s) + k
    BY <1>1, <1>3, <1>4, <1>12, <2>2
  <2> QED BY <2>3 DEF k
<1>13. ASSUME NEW x \in Session, pkts' = Append(pkts, x),
              UNCHANGED <<leftovers, life, lives, jobs, recvIO, sendIO, targets, mode>>
       PROVE  Stored(s)' = Stored(s) + Count(x = s)
  <2>1. Count(x = s) \in Int
    BY DEF Count
  <2> DEFINE k == Count(x = s)
  <2>2. k \in Int /\ d' = d + k
    BY <1>6, <1>13, <2>1
  <2> HIDE DEF k
  <2>3. Stored(s)' = Stored(s) + k
    BY <1>1, <1>3, <1>4, <1>13, <2>2
  <2> QED BY <2>3 DEF k
<1>14. ASSUME lives # <<>>, lives' = Tail(lives),
              UNCHANGED <<leftovers, life, pkts, jobs, recvIO, sendIO, targets, mode>>
       PROVE  Stored(s)' = Stored(s) - Count(Head(lives).s = s)
  <2>1. Count(Head(lives).s = s) \in Int
    BY DEF Count
  <2> DEFINE k == Count(Head(lives).s = s)
  <2>2. k \in Int /\ c = c' + k
    BY <1>6, <1>14, <2>1
  <2> HIDE DEF k
  <2>3. Stored(s)' = Stored(s) - k
    <3>1. a' = a /\ b' = b /\ d' = d /\ e' = e /\ f' = f /\ g' = g /\ h' = h
      BY <1>4, <1>14
    <3> QED BY <1>1, <1>3, <2>2, <3>1
  <2> QED BY <2>3 DEF k
<1>15. ASSUME jobs # <<>>, jobs' = Tail(jobs),
              UNCHANGED <<leftovers, life, lives, pkts, recvIO, sendIO, targets, mode>>
       PROVE  Stored(s)' = Stored(s) - Count(Head(jobs) = s)
  <2>1. Count(Head(jobs) = s) \in Int
    BY DEF Count
  <2> DEFINE k == Count(Head(jobs) = s)
  <2>2. k \in Int /\ e = e' + k
    BY <1>6, <1>15, <2>1
  <2> HIDE DEF k
  <2>3. Stored(s)' = Stored(s) - k
    <3>1. a' = a /\ b' = b /\ c' = c /\ d' = d /\ f' = f /\ g' = g /\ h' = h
      BY <1>4, <1>15
    <3> QED BY <1>1, <1>3, <2>2, <3>1
  <2> QED BY <2>3 DEF k
<1>16. /\ UNCHANGED <<leftovers, life, lives, pkts, jobs, sendIO, targets, mode>> =>
            Stored(s)' - Stored(s) = f' - f
       /\ UNCHANGED <<leftovers, life, lives, pkts, jobs, recvIO, targets, mode>> =>
            Stored(s)' - Stored(s) = g' - g
  BY <1>1, <1>3, <1>4
<1>17. ASSUME lives = <<>>, jobs = <<>>, life' = <<>>, pkts' = <<>>, lives' = life, jobs' = pkts,
              UNCHANGED <<leftovers, recvIO, sendIO, targets, mode>>
       PROVE  Stored(s)' = Stored(s)
  BY <1>1, <1>3, <1>4, <1>6, <1>17
<1> QED BY <1>5, <1>8, <1>9, <1>10, <1>11, <1>12, <1>13, <1>14, <1>15, <1>16, <1>17

\* What thread t carries of the session in its hand, at step p with r to return to.
Weight(t, p, r, sends) ==
  Count(t # "tick") + Count(p \in {"wsarecv", "wsasend", "senddrop"} \/ r = "senddrop")
  + Count(t = "tick" /\ sends)

\* The count of s changes by what the list, the stores and thread t get of it.
Even(t, p, c, r, s) ==
  ref'[s] - ref[s] =
    (Count(Listed(s))' - Count(Listed(s))) + (Stored(s)' - Stored(s))
    + ((IF c = s THEN Weight(t, p, r, Sends') ELSE 0)
       - (IF cur[t] = s THEN Weight(t, pc[t], ret[t], Sends) ELSE 0))

\* Two quantities that change by the same amounts.
LEMMA Difference ==
  ASSUME NEW h \in Int, NEW i \in Int, NEW l \in Int, NEW m \in Int, NEW v \in Int,
         NEW w \in Int, NEW j \in Int, NEW k \in Int, NEW n \in Int,
         i - m - w - k = h - l - v - j,
         n - h = (m - l) + (w - v) + (k - j)
  PROVE  n = i
OBVIOUS

\* No number of holders is negative.
HoldersWhole == \A s \in Session : Holders(s) \in Nat

\* A session has a number of holders.
LEMMA HoldersNat == TypeInv => HoldersWhole
  BY Unheld DEF HoldersWhole

\* If that holds of every session, the counts stay the numbers of holders.
LEMMA RefBalanced ==
  ASSUME TypeInv, TypeInv', RefsBalance, NEW t \in Thread, NEW p, NEW c, NEW r, Moved(t, p, c, r),
         t = "tick" \/ mode' = mode,
         \A s \in Session : Even(t, p, c, r, s)
  PROVE  RefsBalance'
<1> SUFFICES ASSUME NEW s \in Session PROVE ref'[s] = Holders(s)'
  BY DEF RefsBalance
<1>1. Holders(s)' - Count(Listed(s))' - Stored(s)' - Carried(t, s)'
           = Holders(s) - Count(Listed(s)) - Stored(s) - Carried(t, s)
  BY Balance DEF Moved
<1>2. /\ Carried(t, s) = IF cur[t] = s THEN Weight(t, pc[t], ret[t], Sends) ELSE 0
      /\ Carried(t, s)' = IF c = s THEN Weight(t, p, r, Sends') ELSE 0
  <2>1. Carried(t, s) = IF cur[t] = s THEN Weight(t, pc[t], ret[t], Sends) ELSE 0
    BY DEF Carried, Weight, Handed, Has, Count
  <2>2. Carried(t, s)' = IF cur'[t] = s THEN Weight(t, pc'[t], ret'[t], Sends') ELSE 0
    BY DEF Carried, Weight, Handed, Has, Count
  <2> QED BY <2>1, <2>2 DEF Moved
<1>3. /\ Stored(s) \in Int /\ Stored(s)' \in Int /\ Holders(s) \in Int /\ Holders(s)' \in Int
      /\ Count(Listed(s)) \in Int /\ Count(Listed(s))' \in Int
      /\ Carried(t, s) \in Int /\ Carried(t, s)' \in Int
  <2>1. Summed(s) /\ Summed(s)'
    <3>1. TypeInv' => AllSummed'
      BY HoldersSplit, PTL
    <3> QED BY <3>1, HoldersSplit DEF AllSummed
  <2>2. Carried(t, s) \in Int /\ Carried(t, s)' \in Int
    BY DEF Carried, Count
  <2>3. Holders(s) \in Int /\ Holders(s)' \in Int
    <3>1. TypeInv' => HoldersWhole'
      BY HoldersNat, PTL
    <3> QED BY <3>1, HoldersNat DEF HoldersWhole
  <2> QED BY <2>1, <2>2, <2>3 DEF Summed
<1>4. ref[s] = Holders(s) /\ ref[s] \in Int /\ ref'[s] \in Int
  BY DEF RefsBalance, TypeInv, TypeOK
<1>5. ref'[s] - ref[s] = (Count(Listed(s))' - Count(Listed(s))) + (Stored(s)' - Stored(s))
                         + (Carried(t, s)' - Carried(t, s))
  BY <1>2 DEF Even
<1> DEFINE h1 == Holders(s)'
           h0 == Holders(s)
           l1 == Count(Listed(s))'
           l0 == Count(Listed(s))
           w1 == Stored(s)'
           w0 == Stored(s)
           k1 == Carried(t, s)'
           k0 == Carried(t, s)
           n == ref'[s]
<1>6. /\ h1 - l1 - w1 - k1 = h0 - l0 - w0 - k0
      /\ n - h0 = (l1 - l0) + (w1 - w0) + (k1 - k0)
  BY <1>1, <1>4, <1>5
<1>7. /\ h1 \in Int /\ h0 \in Int /\ l1 \in Int /\ l0 \in Int /\ w1 \in Int /\ w0 \in Int
      /\ k1 \in Int /\ k0 \in Int /\ n \in Int
  BY <1>3, <1>4
<1>8. n = h1
  <2> HIDE DEF h1, h0, l1, l0, w1, w0, k1, k0, n
  <2> QED BY <1>6, <1>7, Difference
<1> QED BY <1>8

\* What happens to the memory when references are taken or given back.
LEMMA RefMoved ==
  ASSUME TypeInv, TypeInv', RefInv, NEW t \in Thread, NEW p, NEW c, NEW r, Moved(t, p, c, r),
         t = "tick" \/ mode' = mode,
         \/ ref' = ref /\ alloc' = alloc
         \/ \E x \in alloc : Release(x)
         \/ \E x \in alloc : AddRef(x) /\ alloc' = alloc
         \/ /\ \E some \in SUBSET alloc :
                 ref' = [s \in Session |-> IF s \in some THEN ref[s] + 1 ELSE ref[s]]
            /\ alloc' = alloc,
         \A s \in Session : Even(t, p, c, r, s)
  PROVE  RefInv'
<1>1. RefsBalance'
  BY RefBalanced DEF RefInv
<1>2. \A s \in Session : ref[s] \in Nat /\ (s \in alloc <=> ref[s] # 0)
  BY Unheld DEF RefInv, RefsBalance
<1>3. ref \in [Session -> Int] /\ alloc \subseteq Session
  BY DEF TypeInv, TypeOK
<1>4. CASE ref' = ref /\ alloc' = alloc
  BY <1>1, <1>2, <1>4 DEF RefInv
<1>5. ASSUME NEW x \in alloc, Release(x) PROVE RefInv'
  <2>1. \A s \in Session : ref'[s] = IF s = x THEN ref[x] - 1 ELSE ref[s]
    BY <1>3, <1>5 DEF Release
  <2>2. \A s \in Session : s \in alloc' <=> s \in alloc /\ (s = x => ref[x] # 1)
    BY <1>5 DEF Release
  <2> QED BY <1>1, <1>2, <1>3, <2>1, <2>2 DEF RefInv
<1>6. ASSUME NEW x \in alloc, AddRef(x), alloc' = alloc PROVE RefInv'
  <2>1. \A s \in Session : ref'[s] = IF s = x THEN ref[x] + 1 ELSE ref[s]
    BY <1>3, <1>6 DEF AddRef
  <2> QED BY <1>1, <1>2, <1>3, <1>6, <2>1 DEF RefInv
<1>7. ASSUME NEW some \in SUBSET alloc, alloc' = alloc,
             ref' = [s \in Session |-> IF s \in some THEN ref[s] + 1 ELSE ref[s]]
      PROVE  RefInv'
  BY <1>1, <1>2, <1>7 DEF RefInv
<1> QED BY <1>4, <1>5, <1>6, <1>7

\* Whether a thread has the reference of an order in hand.
Hand(p, r) == p \in {"wsarecv", "wsasend", "senddrop"} \/ r = "senddrop"

\* The weight of what a thread has in hand.
LEMMA Weights ==
  ASSUME NEW t, NEW p, NEW r, NEW m
  PROVE  /\ Weight(t, p, r, m) \in Int
         /\ t # "tick" => Weight(t, p, r, m) = IF Hand(p, r) THEN 2 ELSE 1
         /\ t = "tick" /\ ~m => Weight(t, p, r, m) = IF Hand(p, r) THEN 1 ELSE 0
         /\ t = "tick" /\ m => Weight(t, p, r, m) = IF Hand(p, r) THEN 2 ELSE 1
BY DEF Weight, Hand, Count

\* The list's reference does not move when the list and those steps do not.
LEMMA ListedSame ==
  ASSUME NEW t \in Thread, NEW p, NEW c, NEW r, Moved(t, p, c, r), list' = list,
         {pc[t], p} \cap {"add", "shutdown", "unref"} = {}, NEW s
  PROVE  Count(Listed(s))' = Count(Listed(s))
<1>1. /\ pc[t] \notin {"add", "shutdown", "unref"} /\ p \notin {"add", "shutdown", "unref"}
      /\ \A u \in Thread : \A l \in {"add", "shutdown", "unref"} :
           (pc'[u] = l <=> pc[u] = l) /\ (pc[u] = l => cur'[u] = cur[u])
  BY DEF Moved
<1>2. Has("main", s, {"add"})' <=> Has("main", s, {"add"})
  BY <1>1, Threads DEF Has
<1>3. \A u \in Thread : Has(u, s, {"shutdown", "unref"})' <=> Has(u, s, {"shutdown", "unref"})
  BY <1>1 DEF Has
<1>4. Listed(s)' <=> Listed(s)
  BY <1>2, <1>3 DEF Listed
<1> QED BY <1>4 DEF Count

\* A thread that keeps its session in hand: the count moves with what is stored and carried.
LEMMA EvenShift ==
  ASSUME TypeInv, TypeInv', NEW t \in Thread, NEW p, NEW r, Moved(t, p, cur[t], r), mode' = mode,
         list' = list, {pc[t], p} \cap {"add", "shutdown", "unref"} = {},
         NEW s \in Session,
         s # cur[t] => ref'[s] = ref[s] /\ Stored(s)' = Stored(s),
         s = cur[t] => ref'[s] - ref[s] = (Stored(s)' - Stored(s))
           + (IF Hand(p, r) THEN 1 ELSE 0) - (IF Hand(pc[t], ret[t]) THEN 1 ELSE 0)
  PROVE  Even(t, p, cur[t], r, s)
<1>1. Weight(t, p, r, Sends') - Weight(t, pc[t], ret[t], Sends)
        = (IF Hand(p, r) THEN 1 ELSE 0) - (IF Hand(pc[t], ret[t]) THEN 1 ELSE 0)
  BY Weights DEF Sends
<1>2. Weight(t, p, r, Sends') \in Int /\ Weight(t, pc[t], ret[t], Sends) \in Int
  BY Weights
<1>3. Stored(s) \in Int /\ Stored(s)' \in Int
  BY StoredSteps
<1>4. ref[s] \in Int /\ ref'[s] \in Int
  BY DEF TypeInv, TypeOK
<1>5. Count(Listed(s))' - Count(Listed(s)) = 0
  BY ListedSame DEF Count
<1> DEFINE w1 == Weight(t, p, r, Sends')
           w0 == Weight(t, pc[t], ret[t], Sends)
           h1 == IF Hand(p, r) THEN 1 ELSE 0
           h0 == IF Hand(pc[t], ret[t]) THEN 1 ELSE 0
<1>6. /\ w1 - w0 = h1 - h0 /\ w1 \in Int /\ w0 \in Int /\ h1 \in Int /\ h0 \in Int
      /\ s = cur[t] => ref'[s] - ref[s] = (Stored(s)' - Stored(s)) + h1 - h0
  BY <1>1, <1>2
<1>7. s = cur[t] => ref'[s] - ref[s] = (Stored(s)' - Stored(s)) + (w1 - w0)
  <2> HIDE DEF w1, w0, h1, h0
  <2> QED BY <1>3, <1>4, <1>6
<1> QED BY <1>2, <1>3, <1>4, <1>5, <1>7 DEF Even

\* A thread that takes up x or puts it down.
LEMMA EvenHand ==
  ASSUME TypeInv, TypeInv', NEW t \in Thread, NEW p, NEW c, NEW r, Moved(t, p, c, r),
         list' = list, {pc[t], p} \cap {"add", "shutdown", "unref"} = {},
         NEW s \in Session,
         ref'[s] - ref[s] = (Stored(s)' - Stored(s))
           + (IF c = s THEN Weight(t, p, r, Sends') ELSE 0)
           - (IF cur[t] = s THEN Weight(t, pc[t], ret[t], Sends) ELSE 0)
  PROVE  Even(t, p, c, r, s)
<1>1. /\ Stored(s) \in Int /\ Stored(s)' \in Int
      /\ Weight(t, p, r, Sends') \in Int /\ Weight(t, pc[t], ret[t], Sends) \in Int
  BY StoredSteps, Weights
<1>2. ref[s] \in Int /\ ref'[s] \in Int
  BY DEF TypeInv, TypeOK
<1>3. Count(Listed(s))' - Count(Listed(s)) = 0
  BY ListedSame DEF Count
<1> QED BY <1>1, <1>2, <1>3 DEF Even

\* The references that are taken and given back, one by one.
LEMMA RefCounts ==
  ASSUME TypeInv, NEW s \in Session
  PROVE  /\ ref' = ref => ref'[s] = ref[s] + 0
         /\ \A x \in Session : AddRef(x) => ref'[s] = ref[s] + (IF s = x THEN 1 ELSE 0)
         /\ \A x \in Session : Release(x) => ref'[s] = ref[s] + (IF s = x THEN -1 ELSE 0)
BY DEF AddRef, Release, TypeInv, TypeOK

\* Whoever has a session in hand, or in the queue, may touch it.
LEMMA InHand ==
  ASSUME Inv
  PROVE  /\ \A t \in Thread : cur[t] \in Session => cur[t] \in alloc
         /\ \A t \in Thread : pc[t] \notin FreeSteps => cur[t] \in Session
         /\ lives # <<>> => Head(lives).s \in alloc /\ Head(lives) \in LifeJob
         /\ jobs # <<>> => Head(jobs) \in alloc
<1>1. \A t \in Thread : cur[t] \in Session => cur[t] \in alloc
  BY InUse, ConstantsAssumption DEF NoUseAfterFree, Inv
<1>2. \A s \in Session : Holders(s) # 0 => s \in alloc
  BY DEF Inv, RefInv, RefsBalance
<1>3. ASSUME lives # <<>> PROVE Head(lives).s \in alloc /\ Head(lives) \in LifeJob
  <2>1. Head(lives) \in LifeJob /\ 1 \in DOMAIN lives /\ lives[1] = Head(lives)
    BY <1>3, Entries DEF Inv, TypeInv, TypeOK
  <2>2. Head(lives).s \in Session
    BY <2>1 DEF LifeJob
  <2> QED BY <1>2, <2>1, <2>2, Unheld DEF Inv
<1>4. ASSUME jobs # <<>> PROVE Head(jobs) \in alloc
  <2>1. Head(jobs) \in Session /\ \E i \in DOMAIN jobs : jobs[i] = Head(jobs)
    BY <1>4, Entries DEF Inv, TypeInv, TypeOK
  <2> QED BY <1>2, <2>1, Unheld DEF Inv
<1> QED BY <1>1, <1>3, <1>4 DEF Inv, TypeInv, StepsOK

\* PushJob of an Enter or a Leave, by the thread that has the session in hand.
LEMMA RefPush ==
  ASSUME Inv, TypeInv', NEW t \in Thread, NEW p, Moved(t, p, cur[t], ret[t]),
         NEW type \in JobType, PushLife(type, cur[t]), cur[t] \in Session, alloc' = alloc,
         list' = list, {pc[t], p} \cap {"add", "shutdown", "unref"} = {},
         ~Hand(p, "none") /\ ~Hand(pc[t], "none"),
         UNCHANGED <<leftovers, lives, pkts, jobs, recvIO, sendIO, targets, mode>>
  PROVE  RefInv'
<1> USE DEF Inv
<1> DEFINE x == [type |-> type, s |-> cur[t]]
<1>0. x \in LifeJob /\ x.s = cur[t]
  BY DEF LifeJob
<1>1. CASE life' = life /\ ref' = ref
  <2>1. ASSUME NEW s \in Session PROVE Even(t, p, cur[t], ret[t], s)
    <3>1. ref'[s] = ref[s] /\ Stored(s)' = Stored(s) /\ ref[s] \in Int /\ Stored(s) \in Int
      BY <1>1, RefCounts, StoredSteps DEF Held, TypeInv, TypeOK
    <3>2. Hand(p, ret[t]) <=> Hand(pc[t], ret[t])
      BY DEF Hand
    <3> QED BY <3>1, <3>2, EvenShift
  <2> QED BY <1>1, <2>1, RefMoved
<1>2. CASE life' = Append(life, x) /\ AddRef(cur[t])
  <2>1. ASSUME NEW s \in Session PROVE Even(t, p, cur[t], ret[t], s)
    <3>1. ref'[s] = ref[s] + (IF s = cur[t] THEN 1 ELSE 0)
      BY <1>2, RefCounts
    <3>2. Stored(s)' = Stored(s) + Count(x.s = s)
      BY <1>0, <1>2, StoredSteps
    <3>3. Stored(s)' = Stored(s) + (IF s = cur[t] THEN 1 ELSE 0)
      BY <1>0, <3>2 DEF Count
    <3>4. Hand(p, ret[t]) <=> Hand(pc[t], ret[t])
      BY DEF Hand
    <3>5. ref[s] \in Int /\ Stored(s) \in Int
      BY StoredSteps DEF TypeInv, TypeOK
    <3> QED BY <3>1, <3>3, <3>4, <3>5, EvenShift
  <2>2. cur[t] \in alloc
    BY InHand
  <2> QED BY <1>2, <2>1, <2>2, RefMoved
<1> QED BY <1>1, <1>2 DEF PushLife

\* A thread that keeps x in hand: what it takes, gives back or hands over.
LEMMA RefShift ==
  ASSUME Inv, TypeInv', NEW t \in Thread, NEW p, NEW r, Moved(t, p, cur[t], r),
         NEW x \in Session, x = cur[t], mode' = mode, list' = list,
         {pc[t], p} \cap {"add", "shutdown", "unref"} = {},
         \A s \in Session : s # x => Stored(s)' = Stored(s)
  PROVE  /\ UNCHANGED memVars /\ Stored(x)' = Stored(x) /\ (Hand(p, r) <=> Hand(pc[t], ret[t]))
              => RefInv'
         /\ UNCHANGED memVars /\ Stored(x)' = Stored(x) + 1 /\ ~Hand(p, r) /\ Hand(pc[t], ret[t])
              => RefInv'
         /\ AddRef(x) /\ alloc' = alloc /\ Stored(x)' = Stored(x) + 1
              /\ (Hand(p, r) <=> Hand(pc[t], ret[t])) => RefInv'
         /\ AddRef(x) /\ alloc' = alloc /\ Stored(x)' = Stored(x) /\ Hand(p, r)
              /\ ~Hand(pc[t], ret[t]) => RefInv'
         /\ Release(x) /\ Stored(x)' = Stored(x) /\ ~Hand(p, r) /\ Hand(pc[t], ret[t]) => RefInv'
<1>0. TypeInv /\ RefInv /\ x \in alloc
  BY InHand DEF Inv
<1>1. \A s \in Session : Stored(s) \in Int /\ Stored(s)' \in Int
  BY <1>0, StoredSteps
<1>2. \A s \in Session : ref[s] \in Int /\ ref'[s] \in Int
  BY DEF Inv, TypeInv, TypeOK
<1>3. ASSUME UNCHANGED memVars, Stored(x)' = Stored(x), Hand(p, r) <=> Hand(pc[t], ret[t])
      PROVE  RefInv'
  <2>1. \A s \in Session : Even(t, p, cur[t], r, s)
    BY <1>0, <1>1, <1>2, <1>3, EvenShift DEF memVars
  <2> QED BY <1>0, <1>3, <2>1, RefMoved DEF memVars
<1>4. ASSUME UNCHANGED memVars, Stored(x)' = Stored(x) + 1, ~Hand(p, r), Hand(pc[t], ret[t])
      PROVE  RefInv'
  <2>1. \A s \in Session : Even(t, p, cur[t], r, s)
    BY <1>0, <1>1, <1>2, <1>4, EvenShift DEF memVars
  <2> QED BY <1>0, <1>4, <2>1, RefMoved DEF memVars
<1>5. ASSUME AddRef(x) PROVE \A s \in Session : ref'[s] = IF s = x THEN ref[s] + 1 ELSE ref[s]
  BY <1>5 DEF AddRef, Inv, TypeInv, TypeOK
<1>6. ASSUME Release(x) PROVE \A s \in Session : ref'[s] = IF s = x THEN ref[s] - 1 ELSE ref[s]
  BY <1>6 DEF Release, Inv, TypeInv, TypeOK
<1>7. ASSUME AddRef(x), alloc' = alloc, Stored(x)' = Stored(x) + 1,
             Hand(p, r) <=> Hand(pc[t], ret[t])
      PROVE  RefInv'
  <2>1. \A s \in Session : Even(t, p, cur[t], r, s)
    BY <1>0, <1>1, <1>2, <1>5, <1>7, EvenShift
  <2> QED BY <1>0, <1>7, <2>1, RefMoved
<1>8. ASSUME AddRef(x), alloc' = alloc, Stored(x)' = Stored(x), Hand(p, r), ~Hand(pc[t], ret[t])
      PROVE  RefInv'
  <2>1. \A s \in Session : Even(t, p, cur[t], r, s)
    BY <1>0, <1>1, <1>2, <1>5, <1>8, EvenShift
  <2> QED BY <1>0, <1>8, <2>1, RefMoved
<1>9. ASSUME Release(x), Stored(x)' = Stored(x), ~Hand(p, r), Hand(pc[t], ret[t])
      PROVE  RefInv'
  <2>1. \A s \in Session : Even(t, p, cur[t], r, s)
    BY <1>0, <1>1, <1>2, <1>6, <1>9, EvenShift
  <2> QED BY <1>0, <1>9, <2>1, RefMoved
<1> QED BY <1>3, <1>4, <1>7, <1>8, <1>9

\* A thread that puts x down, and one that takes x up from a store.
LEMMA RefHand ==
  ASSUME Inv, TypeInv', NEW t \in Thread, NEW p, NEW c, NEW r, Moved(t, p, c, r),
         NEW x \in Session, mode' = mode, list' = list,
         {pc[t], p} \cap {"add", "shutdown", "unref"} = {}
  PROVE  /\ /\ c = NoSession /\ x = cur[t] /\ Release(x) /\ Weight(t, pc[t], ret[t], Sends) = 1
            /\ \A s \in Session : Stored(s)' = Stored(s)
            => RefInv'
         /\ /\ cur[t] = NoSession /\ x = c /\ UNCHANGED memVars /\ Weight(t, p, r, Sends) = 1
            /\ \A s \in Session : Stored(s)' = Stored(s) - (IF s = x THEN 1 ELSE 0)
            => RefInv'
<1>0. TypeInv /\ RefInv /\ Sends' = Sends /\ x # NoSession
  BY ConstantsAssumption DEF Inv, Sends
<1>1. \A s \in Session : Stored(s) \in Int /\ Stored(s)' \in Int
  BY <1>0, StoredSteps
<1>2. \A s \in Session : ref[s] \in Int /\ ref'[s] \in Int
  BY DEF Inv, TypeInv, TypeOK
<1>3. ASSUME c = NoSession, x = cur[t], Release(x), Weight(t, pc[t], ret[t], Sends) = 1,
             \A s \in Session : Stored(s)' = Stored(s)
      PROVE  RefInv'
  <2>1. \A s \in Session : ref'[s] = IF s = x THEN ref[s] - 1 ELSE ref[s]
    BY <1>3 DEF Release, Inv, TypeInv, TypeOK
  <2>2. \A s \in Session : Even(t, p, c, r, s)
    <3> SUFFICES ASSUME NEW s \in Session PROVE Even(t, p, c, r, s)
      OBVIOUS
    <3>1. ref'[s] - ref[s] = (Stored(s)' - Stored(s)) + (IF c = s THEN Weight(t, p, r, Sends') ELSE 0)
           - (IF cur[t] = s THEN Weight(t, pc[t], ret[t], Sends) ELSE 0)
      <4>1. c # s
        BY <1>3, ConstantsAssumption
      <4> QED BY <1>1, <1>2, <1>3, <2>1, <4>1
    <3> QED BY <1>0, <3>1, EvenHand
  <2>3. x \in alloc
    BY <1>3, InHand
  <2> QED BY <1>0, <1>3, <2>2, <2>3, RefMoved
<1>4. ASSUME cur[t] = NoSession, x = c, UNCHANGED memVars, Weight(t, p, r, Sends) = 1,
             \A s \in Session : Stored(s)' = Stored(s) - (IF s = x THEN 1 ELSE 0)
      PROVE  RefInv'
  <2>2. \A s \in Session : Even(t, p, c, r, s)
    <3> SUFFICES ASSUME NEW s \in Session PROVE Even(t, p, c, r, s)
      OBVIOUS
    <3>1. ref'[s] - ref[s] = (Stored(s)' - Stored(s)) + (IF c = s THEN Weight(t, p, r, Sends') ELSE 0)
           - (IF cur[t] = s THEN Weight(t, pc[t], ret[t], Sends) ELSE 0)
      <4>1. cur[t] # s
        BY <1>4, ConstantsAssumption
      <4> QED BY <1>0, <1>1, <1>2, <1>4, <4>1 DEF memVars
    <3> QED BY <1>0, <3>1, EvenHand
  <2> QED BY <1>0, <1>4, <2>2, RefMoved DEF memVars
<1> QED BY <1>3, <1>4

\* Nothing is stored, taken or given back.
LEMMA RefStays ==
  ASSUME Inv, TypeInv', NEW t \in Thread, NEW p, NEW r, Moved(t, p, cur[t], r),
         UNCHANGED <<alloc, ref>>, UNCHANGED Held, list' = list,
         {pc[t], p} \cap {"add", "shutdown", "unref"} = {}, Hand(p, r) <=> Hand(pc[t], ret[t])
  PROVE  RefInv'
<1>0. TypeInv /\ RefInv /\ mode' = mode
  BY DEF Inv, Held
<1>1. \A s \in Session : Stored(s) \in Int /\ Stored(s)' = Stored(s)
  BY <1>0, StoredSteps
<1>2. \A s \in Session : ref[s] \in Int
  BY DEF Inv, TypeInv, TypeOK
<1>3. \A s \in Session : Even(t, p, cur[t], r, s)
  BY <1>0, <1>1, <1>2, EvenShift
<1> QED BY <1>0, <1>3, RefMoved

\* CloseSession: its Leave takes a reference, and the list's goes back in the end.
LEMMA RefClose ==
  ASSUME Inv, TypeInv', NEW t \in Thread, CloseSession(t)
  PROVE  RefInv'
<1> USE Threads
<1>0. /\ pc[t] \in Closing /\ cur[t] \in Session /\ cur[t] \in alloc
      /\ UNCHANGED <<recvIO, sendIO, pkts, lives, jobs, targets, mode, leftovers>>
      /\ TypeInv /\ PlaceInv /\ ListInv /\ SetupInv /\ RefInv
  <2>1. pc[t] \in Closing
    BY CloseMoves DEF CloseSession, Closing, CloseSteps, Inv
  <2> QED BY <2>1, Frames, InHand DEF Closing, CloseSteps, FreeSteps, Inv
<1>1. ret[t] \in {"mainref", "closeref", "ioref", "repost", "senddrop", "sent", "jobref"}
  <2>1. PlaceOf(t, pc[t], cur[t], ret[t])
    BY <1>0 DEF PlaceInv
  <2> QED BY <1>0, <2>1 DEF PlaceOf, TypeInv, StepsOK
<1>2. CASE CloseExchange(t)
  <2>1. UNCHANGED <<alloc, ref>> /\ UNCHANGED Held /\ list' = list /\ pc[t] = "exchange"
    BY <1>0, <1>2, CloseMoves DEF CloseExchange, memVars, queueVars, Held
  <2>2. \/ Moved(t, ret[t], cur[t], "none") \/ Moved(t, "leave", cur[t], ret[t])
    BY <1>0, <1>2, CloseMoves
  <2>3. /\ Hand(ret[t], "none") <=> Hand(pc[t], ret[t])
        /\ Hand("leave", ret[t]) <=> Hand(pc[t], ret[t])
        /\ {pc[t], ret[t]} \cap {"add", "shutdown", "unref"} = {}
        /\ {pc[t], "leave"} \cap {"add", "shutdown", "unref"} = {}
    BY <1>1, <2>1 DEF Hand
  <2> QED BY <2>1, <2>2, <2>3, RefStays
<1>3. CASE CloseLeave(t)
  <2>1. PushLife("Leave", cur[t]) /\ alloc' = alloc /\ list' = list
    BY <1>3 DEF CloseLeave
  <2>2. pc[t] = "leave" /\ Moved(t, "unlist", cur[t], ret[t])
    BY <1>0, <1>3, CloseMoves
  <2>3. {pc[t], "unlist"} \cap {"add", "shutdown", "unref"} = {} /\ "Leave" \in JobType
        /\ ~Hand("unlist", "none") /\ ~Hand(pc[t], "none")
    BY <2>2 DEF Hand, JobType
  <2> QED BY <1>0, <2>1, <2>2, <2>3, RefPush
<1>4. CASE CloseUnlist(t) \/ CloseShutdown(t)
  <2>1. UNCHANGED <<alloc, ref>> /\ UNCHANGED Held
    BY <1>0, <1>4 DEF CloseUnlist, CloseShutdown, memVars, queueVars, Held
  <2>2. \/ pc[t] = "unlist" /\ Moved(t, "shutdown", cur[t], ret[t]) /\ list' = list \ {cur[t]}
        \/ pc[t] = "shutdown" /\ Moved(t, "unref", cur[t], ret[t]) /\ list' = list
    BY <1>0, <1>4, CloseMoves DEF CloseUnlist, CloseShutdown
  <2>3. \A s \in Session : Count(Listed(s))' = Count(Listed(s))
    <3> SUFFICES ASSUME NEW s \in Session PROVE Count(Listed(s))' = Count(Listed(s))
      OBVIOUS
    <3>1. Has("main", s, {"add"})' <=> Has("main", s, {"add"})
      BY <2>2 DEF Moved, Has
    <3>2. \A u \in Thread \ {t} : Has(u, s, {"shutdown", "unref"})' <=> Has(u, s, {"shutdown", "unref"})
      BY <2>2 DEF Moved, Has
    <3>3. s \in list' \/ Has(t, s, {"shutdown", "unref"})' <=>
          s \in list \/ Has(t, s, {"shutdown", "unref"})
      BY <1>0, <2>2 DEF Moved, Has, ListInv
    <3>4. Listed(s)' <=> Listed(s)
      BY <3>1, <3>2, <3>3 DEF Listed
    <3> QED BY <3>4 DEF Count
  <2>4. \A s \in Session : Stored(s)' = Stored(s) /\ Stored(s) \in Int
    BY <1>0, <2>1, StoredSteps
  <2>5. \A p, q, m : p \in {"unlist", "shutdown"} /\ q \in {"shutdown", "unref"} =>
          Weight(t, p, ret[t], m) = Weight(t, q, ret[t], m) /\ Weight(t, p, ret[t], m) \in Int
    BY DEF Weight, Count
  <2>6. ASSUME NEW q \in {"shutdown", "unref"}, Moved(t, q, cur[t], ret[t]),
               pc[t] \in {"unlist", "shutdown"}
        PROVE  RefInv'
    <3>1. \A s \in Session : Even(t, q, cur[t], ret[t], s)
      <4> SUFFICES ASSUME NEW s \in Session PROVE Even(t, q, cur[t], ret[t], s)
        OBVIOUS
      <4>1. Count(Listed(s))' - Count(Listed(s)) = 0 /\ Stored(s)' - Stored(s) = 0
        BY <2>3, <2>4 DEF Count
      <4>2. Weight(t, q, ret[t], Sends') = Weight(t, pc[t], ret[t], Sends)
            /\ Weight(t, q, ret[t], Sends') \in Int
        BY <1>0, <2>5, <2>6 DEF Sends
      <4>3. ref'[s] - ref[s] = 0
        BY <1>0, <2>1 DEF TypeInv, TypeOK
      <4> QED BY <4>1, <4>2, <4>3 DEF Even
    <3> QED BY <1>0, <2>1, <2>6, <3>1, RefMoved
  <2> QED BY <2>2, <2>6
<1>5. CASE CloseUnref(t)
  <2>1. Release(cur[t]) /\ list' = list /\ UNCHANGED Held
    BY <1>0, <1>5 DEF CloseUnref, queueVars, Held
  <2>2. pc[t] = "unref" /\ Moved(t, ret[t], cur[t], "none")
    BY <1>0, <1>5, CloseMoves
  <2>3. \A s \in Session : Count(Listed(s))' - Count(Listed(s)) = (IF s = cur[t] THEN -1 ELSE 0)
    <3> SUFFICES ASSUME NEW s \in Session
                 PROVE  Count(Listed(s))' - Count(Listed(s)) = (IF s = cur[t] THEN -1 ELSE 0)
      OBVIOUS
    <3>1. /\ pc'["main"] = "add" <=> pc["main"] = "add"
          /\ cur'["main"] = cur["main"]
      BY <1>1, <2>2 DEF Moved
    <3>2. \A u \in Thread \ {t} : Has(u, s, {"shutdown", "unref"})' <=> Has(u, s, {"shutdown", "unref"})
      BY <2>2 DEF Moved, Has
    <3>3. ~Has(t, s, {"shutdown", "unref"})'
      BY <1>1, <2>2 DEF Moved, Has
    <3>4. CASE s = cur[t]
      <4>1. Listed(s)
        BY <2>2, <3>4 DEF Listed, Has
      <4>2. ~Has("main", s, {"add"})
        BY <1>0, <2>2, <3>4 DEF SetupInv, Untouched, ListInv, CloseSteps, Has
      <4>3. ~Listed(s)'
        BY <1>0, <2>1, <2>2, <3>1, <3>2, <3>3, <3>4, <4>2 DEF ListInv, Listed, Has, CloseSteps
      <4> QED BY <3>4, <4>1, <4>3 DEF Count
    <3>5. CASE s # cur[t]
      <4>1. Listed(s)' <=> Listed(s)
        BY <2>1, <2>2, <3>1, <3>2, <3>3, <3>5 DEF Listed, Has
      <4> QED BY <3>5, <4>1 DEF Count
    <3> QED BY <3>4, <3>5
  <2>4. \A s \in Session : Stored(s)' = Stored(s) /\ Stored(s) \in Int
    BY <1>0, <2>1, StoredSteps
  <2>5. Weight(t, ret[t], "none", Sends') = Weight(t, pc[t], ret[t], Sends)
        /\ Weight(t, pc[t], ret[t], Sends) \in Int
    BY <1>0, <1>1, <2>2 DEF Weight, Count, Sends
  <2>6. \A s \in Session : Even(t, ret[t], cur[t], "none", s)
    <3> SUFFICES ASSUME NEW s \in Session PROVE Even(t, ret[t], cur[t], "none", s)
      OBVIOUS
    <3>1. ref'[s] - ref[s] = (IF s = cur[t] THEN -1 ELSE 0)
      BY <1>0, <2>1 DEF Release, TypeInv, TypeOK
    <3>2. Stored(s)' - Stored(s) = 0
      BY <2>4
    <3> QED BY <2>3, <2>5, <3>1, <3>2 DEF Even
  <2> QED BY <1>0, <2>1, <2>2, <2>6, RefMoved
<1> QED BY <1>2, <1>3, <1>4, <1>5 DEF CloseSession

\* PostRecv: the order's reference goes from the thread into the order, or back.
LEMMA RefRecv ==
  ASSUME Inv, TypeInv', NEW t \in Thread \ {"tick"}, PostRecv(t)
  PROVE  RefInv'
<1> USE Threads
<1>0. /\ TypeInv /\ cur[t] \in Session /\ cur[t] \in alloc /\ ret[t] = "none"
      /\ pc[t] \in {"recvref", "wsarecv"}
      /\ UNCHANGED <<sendIO, list, life, pkts, lives, jobs, targets, mode, leftovers>>
  <2>1. TypeInv /\ pc[t] \in {"recvref", "wsarecv"}
    BY RecvMoves DEF PostRecv, Inv
  <2> QED BY <2>1, Frames, InHand DEF Closing, CloseSteps, FreeSteps, Inv, PlaceInv, PlaceOf
<1>1. AfterRecv(t) \in {"mainref", "ioref"}
  BY DEF AfterRecv
<1>2. PICK x \in Session : x = cur[t]
  BY <1>0
<1>3. CASE RecvRef(t)
  <2>1. AddRef(x) /\ alloc' = alloc /\ UNCHANGED Held
    BY <1>0, <1>2, <1>3 DEF RecvRef, sockVars, Held
  <2>2. pc[t] = "recvref" /\ Moved(t, "wsarecv", cur[t], ret[t])
    BY <1>0, <1>3, RecvMoves
  <2>3. Hand("wsarecv", ret[t]) /\ ~Hand(pc[t], ret[t])
        /\ {pc[t], "wsarecv"} \cap {"add", "shutdown", "unref"} = {}
    BY <1>0, <2>2 DEF Hand
  <2>4. \A s \in Session : Stored(s)' = Stored(s)
    BY <1>0, <2>1, StoredSteps
  <2> QED BY <1>0, <1>2, <2>1, <2>2, <2>3, <2>4, RefShift
<1>4. CASE RecvPosted(t)
  <2>1. UNCHANGED memVars /\ recvIO' = [recvIO EXCEPT ![x] = "posted"]
    BY <1>2, <1>4 DEF RecvPosted
  <2>2. pc[t] = "wsarecv" /\ Moved(t, AfterRecv(t), cur[t], ret[t])
    BY <1>0, <1>4, RecvMoves
  <2>3. ~Hand(AfterRecv(t), ret[t]) /\ Hand(pc[t], ret[t])
        /\ {pc[t], AfterRecv(t)} \cap {"add", "shutdown", "unref"} = {}
    BY <1>0, <1>1, <2>2 DEF Hand
  <2>4. recvIO[x] = "none"
    BY <1>2, <2>2 DEF Inv, OwnInv, RecvOwn, RecvHand, RecvSteps
  <2>5. \A s \in Session : Stored(s)' - Stored(s) = (IF s = x THEN 1 ELSE 0)
    <3>1. \A s \in Session : Stored(s)' - Stored(s) =
                               Count(recvIO'[s] # "none") - Count(recvIO[s] # "none")
      BY <1>0, StoredSteps
    <3>2. \A s \in Session : recvIO'[s] = IF s = x THEN "posted" ELSE recvIO[s]
      BY <1>0, <2>1 DEF TypeInv, TypeOK
    <3> QED BY <2>4, <3>1, <3>2 DEF Count
  <2>6. \A s \in Session : Stored(s) \in Int /\ Stored(s)' \in Int
    BY <1>0, StoredSteps
  <2>7. Stored(x)' = Stored(x) + 1 /\ \A s \in Session : s # x => Stored(s)' = Stored(s)
    BY <2>5, <2>6
  <2> QED BY <1>0, <1>2, <2>1, <2>2, <2>3, <2>7, RefShift
<1>5. CASE RecvFailed(t)
  <2>1. Release(x) /\ UNCHANGED Held
    BY <1>0, <1>2, <1>5 DEF RecvFailed, sockVars, Held
  <2>2. pc[t] = "wsarecv" /\ Moved(t, "exchange", cur[t], AfterRecv(t))
    BY <1>0, <1>5, RecvMoves
  <2>3. ~Hand("exchange", AfterRecv(t)) /\ Hand(pc[t], ret[t])
        /\ {pc[t], "exchange"} \cap {"add", "shutdown", "unref"} = {}
    BY <1>0, <1>1, <2>2 DEF Hand
  <2>4. \A s \in Session : Stored(s)' = Stored(s)
    BY <1>0, <2>1, StoredSteps
  <2> QED BY <1>0, <1>2, <2>1, <2>2, <2>3, <2>4, RefShift
<1> QED BY <1>3, <1>4, <1>5 DEF PostRecv

\* StartSend: likewise, but a failure closes first and gives the reference back last.
LEMMA RefSend ==
  ASSUME Inv, TypeInv', NEW t \in Thread \ {"main"}, StartSend(t)
  PROVE  RefInv'
<1> USE Threads
<1>0. /\ TypeInv /\ cur[t] \in Session /\ cur[t] \in alloc /\ ret[t] = "none"
      /\ pc[t] \in {"sendref", "wsasend", "senddrop"}
      /\ UNCHANGED <<recvIO, list, life, pkts, lives, jobs, targets, mode, leftovers>>
  <2>1. TypeInv /\ pc[t] \in {"sendref", "wsasend", "senddrop"}
    BY SendMoves DEF StartSend, Inv
  <2> QED BY <2>1, Frames, InHand DEF Closing, CloseSteps, FreeSteps, Inv, PlaceInv, PlaceOf
<1>1. AfterSend(t) \in {"sent", "ioref"}
  BY DEF AfterSend
<1>2. PICK x \in Session : x = cur[t]
  BY <1>0
<1>3. CASE SendRef(t)
  <2>1. AddRef(x) /\ alloc' = alloc /\ UNCHANGED Held
    BY <1>0, <1>2, <1>3 DEF SendRef, sockVars, Held
  <2>2. pc[t] = "sendref" /\ Moved(t, "wsasend", cur[t], ret[t])
    BY <1>0, <1>3, SendMoves
  <2>3. Hand("wsasend", ret[t]) /\ ~Hand(pc[t], ret[t])
        /\ {pc[t], "wsasend"} \cap {"add", "shutdown", "unref"} = {}
    BY <1>0, <2>2 DEF Hand
  <2>4. \A s \in Session : Stored(s)' = Stored(s)
    BY <1>0, <2>1, StoredSteps
  <2> QED BY <1>0, <1>2, <2>1, <2>2, <2>3, <2>4, RefShift
<1>4. CASE SendPosted(t)
  <2>1. UNCHANGED memVars /\ sendIO' = [sendIO EXCEPT ![x] = "posted"]
    BY <1>2, <1>4 DEF SendPosted
  <2>2. pc[t] = "wsasend" /\ Moved(t, AfterSend(t), cur[t], ret[t])
    BY <1>0, <1>4, SendMoves
  <2>3. ~Hand(AfterSend(t), ret[t]) /\ Hand(pc[t], ret[t])
        /\ {pc[t], AfterSend(t)} \cap {"add", "shutdown", "unref"} = {}
    BY <1>0, <1>1, <2>2 DEF Hand
  <2>4. sendIO[x] = "none"
    BY <1>2, <2>2 DEF Inv, OwnInv, SendOwn, SendHand, OwnSteps
  <2>5. \A s \in Session : Stored(s)' - Stored(s) = (IF s = x THEN 1 ELSE 0)
    <3>1. \A s \in Session : Stored(s)' - Stored(s) =
                               Count(sendIO'[s] # "none") - Count(sendIO[s] # "none")
      BY <1>0, StoredSteps
    <3>2. \A s \in Session : sendIO'[s] = IF s = x THEN "posted" ELSE sendIO[s]
      BY <1>0, <2>1 DEF TypeInv, TypeOK
    <3> QED BY <2>4, <3>1, <3>2 DEF Count
  <2>6. \A s \in Session : Stored(s) \in Int /\ Stored(s)' \in Int
    BY <1>0, StoredSteps
  <2>7. Stored(x)' = Stored(x) + 1 /\ \A s \in Session : s # x => Stored(s)' = Stored(s)
    BY <2>5, <2>6
  <2> QED BY <1>0, <1>2, <2>1, <2>2, <2>3, <2>7, RefShift
<1>5. CASE SendFailed(t)
  <2>1. UNCHANGED <<alloc, ref>> /\ UNCHANGED Held
    BY <1>0, <1>5 DEF SendFailed, memVars, sockVars, Held
  <2>2. pc[t] = "wsasend" /\ Moved(t, "exchange", cur[t], "senddrop")
    BY <1>0, <1>5, SendMoves
  <2>3. (Hand("exchange", "senddrop") <=> Hand(pc[t], ret[t]))
        /\ {pc[t], "exchange"} \cap {"add", "shutdown", "unref"} = {}
    BY <2>2 DEF Hand
  <2> QED BY <1>0, <2>1, <2>2, <2>3, RefStays
<1>6. CASE SendDrop(t)
  <2>1. Release(x) /\ UNCHANGED Held
    BY <1>0, <1>2, <1>6 DEF SendDrop, sockVars, Held
  <2>2. pc[t] = "senddrop" /\ Moved(t, AfterSend(t), cur[t], ret[t])
    BY <1>0, <1>6, SendMoves
  <2>3. ~Hand(AfterSend(t), ret[t]) /\ Hand(pc[t], ret[t])
        /\ {pc[t], AfterSend(t)} \cap {"add", "shutdown", "unref"} = {}
    BY <1>0, <1>1, <2>2 DEF Hand
  <2>4. \A s \in Session : Stored(s)' = Stored(s)
    BY <1>0, <2>1, StoredSteps
  <2> QED BY <1>0, <1>2, <2>1, <2>2, <2>3, <2>4, RefShift
<1> QED BY <1>3, <1>4, <1>5, <1>6 DEF StartSend

\* A worker takes over the reference of the order that completed, and lets it go at the end.
LEMMA RefWorker ==
  ASSUME Inv, TypeInv', NEW w \in Worker, WorkerOwn(w)
  PROVE  RefInv'
<1> USE Threads
<1>0. /\ TypeInv /\ ret[w] = "none" /\ pc[w] \notin {"add", "shutdown", "unref"}
      /\ pc[w] = "idle" => cur[w] = NoSession
      /\ pc[w] # "idle" => cur[w] \in Session
      /\ UNCHANGED <<list, life, lives, jobs, targets, mode, leftovers>>
  <2>1. pc[w] \in {"idle", "process", "repost", "onsent", "more", "ioref"} /\ TypeInv
    BY WorkerMoves DEF WorkerOwn, Inv
  <2>2. UNCHANGED <<list, life, lives, jobs, targets, mode, leftovers>>
    BY OwnFrames
  <2>3. PlaceOf(w, pc[w], cur[w], ret[w])
    BY DEF Inv, PlaceInv
  <2>4. ret[w] = "none" /\ (pc[w] = "idle" => cur[w] = NoSession)
    BY <2>1, <2>3 DEF PlaceOf, FreeSteps, Closing, CloseSteps
  <2>5. pc[w] # "idle" => cur[w] \in Session
    BY <2>1, InHand DEF FreeSteps
  <2> QED BY <2>1, <2>2, <2>4, <2>5
<1>1. \A s \in Session : Stored(s) \in Int /\ Stored(s)' \in Int
  BY <1>0, StoredSteps
<1>2. ASSUME NEW x \in Session, TakeRecv(w, x) \/ TakeSend(w, x) PROVE RefInv'
  <2>1. UNCHANGED memVars /\ pkts' = pkts /\ pc[w] = "idle"
    BY <1>0, <1>2, WorkerMoves DEF TakeRecv, TakeSend, queueVars
  <2>2. PICK p, r : Moved(w, p, x, r) /\ p \in {"process", "onsent", "exchange"} /\ r \in {"none", "ioref"}
    BY <1>0, <1>2, WorkerMoves
  <2>3. Weight(w, p, r, Sends) = 1 /\ {pc[w], p} \cap {"add", "shutdown", "unref"} = {}
    BY <2>1, <2>2, Weights DEF Hand
  <2>4. \A s \in Session : Stored(s)' - Stored(s) = (IF s = x THEN -1 ELSE 0)
    <3>1. CASE TakeRecv(w, x)
      <4>1. recvIO[x] = "posted" /\ recvIO' = [recvIO EXCEPT ![x] = "none"] /\ sendIO' = sendIO
        BY <3>1 DEF TakeRecv
      <4>2. \A s \in Session : recvIO'[s] = IF s = x THEN "none" ELSE recvIO[s]
        BY <1>0, <4>1 DEF TypeInv, TypeOK
      <4>3. \A s \in Session : Stored(s)' - Stored(s) =
                                 Count(recvIO'[s] # "none") - Count(recvIO[s] # "none")
        BY <1>0, <2>1, <4>1, StoredSteps
      <4> QED BY <4>1, <4>2, <4>3 DEF Count
    <3>2. CASE TakeSend(w, x)
      <4>1. sendIO[x] = "posted" /\ sendIO' = [sendIO EXCEPT ![x] = "none"] /\ recvIO' = recvIO
        BY <3>2 DEF TakeSend
      <4>2. \A s \in Session : sendIO'[s] = IF s = x THEN "none" ELSE sendIO[s]
        BY <1>0, <4>1 DEF TypeInv, TypeOK
      <4>3. \A s \in Session : Stored(s)' - Stored(s) =
                                 Count(sendIO'[s] # "none") - Count(sendIO[s] # "none")
        BY <1>0, <2>1, <4>1, StoredSteps
      <4> QED BY <4>1, <4>2, <4>3 DEF Count
    <3> QED BY <1>2, <3>1, <3>2
  <2>5. \A s \in Session : Stored(s)' = Stored(s) - (IF s = x THEN 1 ELSE 0)
    BY <1>1, <2>4
  <2> QED BY <1>0, <2>1, <2>2, <2>3, <2>5, RefHand
<1>3. CASE ProcessPacket(w)
  <2>1. PICK x \in Session : x = cur[w]
    BY <1>0, <1>3, WorkerMoves
  <2>2. PICK p, r : Moved(w, p, cur[w], r) /\ p \in {"repost", "process", "exchange"}
                    /\ r \in {"none", "repost"} /\ pc[w] = "process"
    BY <1>0, <1>3, WorkerMoves
  <2>3. (Hand(p, r) <=> Hand(pc[w], ret[w])) /\ {pc[w], p} \cap {"add", "shutdown", "unref"} = {}
    BY <1>0, <2>2 DEF Hand
  <2>4. alloc' = alloc /\ UNCHANGED <<recvIO, sendIO>>
    BY <1>3 DEF ProcessPacket, sockVars
  <2>5. CASE pkts' = pkts /\ ref' = ref
    <3>1. UNCHANGED Held
      BY <1>0, <2>4, <2>5 DEF Held
    <3> QED BY <1>0, <2>2, <2>3, <2>4, <2>5, <3>1, RefStays
  <2>6. CASE pkts' = Append(pkts, cur[w]) /\ AddRef(cur[w])
    <3>1. \A s \in Session : Stored(s)' = Stored(s) + Count(x = s)
      BY <1>0, <2>1, <2>4, <2>6, StoredSteps
    <3>2. Stored(x)' = Stored(x) + 1 /\ \A s \in Session : s # x => Stored(s)' = Stored(s)
      BY <1>1, <3>1 DEF Count
    <3> QED BY <1>0, <2>1, <2>2, <2>3, <2>4, <2>6, <3>2, RefShift
  <2> QED BY <1>3, <2>5, <2>6 DEF ProcessPacket
<1>4. CASE ProcessEnd(w) \/ Repost(w) \/ OnSent(w) \/ SendMore(w) \/ WorkerExit(w)
  <2>1. UNCHANGED <<alloc, ref>> /\ UNCHANGED Held
    BY <1>0, <1>4 DEF ProcessEnd, Repost, OnSent, SendMore, WorkerExit, memVars, sockVars, queueVars, Held
  <2>2. PICK p, r : Moved(w, p, cur[w], r) /\ r \in {"none", "repost"}
                    /\ p \in {"repost", "exchange", "ioref", "recvref", "more", "sendref", "stopped"}
    BY <1>0, <1>4, WorkerMoves
  <2>3. pc[w] \in {"process", "repost", "onsent", "more", "idle"}
    BY <1>0, <1>4, WorkerMoves
  <2>4. (Hand(p, r) <=> Hand(pc[w], ret[w])) /\ {pc[w], p} \cap {"add", "shutdown", "unref"} = {}
    BY <1>0, <2>2, <2>3 DEF Hand
  <2> QED BY <1>0, <2>1, <2>2, <2>4, RefStays
<1>5. CASE IoRelease(w)
  <2>1. Release(cur[w]) /\ UNCHANGED Held
    BY <1>0, <1>5 DEF IoRelease, sockVars, queueVars, Held
  <2>2. Moved(w, "idle", NoSession, ret[w]) /\ pc[w] = "ioref"
    BY <1>0, <1>5, WorkerMoves
  <2>3. Weight(w, pc[w], ret[w], Sends) = 1 /\ {pc[w], "idle"} \cap {"add", "shutdown", "unref"} = {}
    BY <1>0, <2>2, Weights DEF Hand
  <2>4. PICK x \in Session : x = cur[w]
    BY <1>0, <2>2
  <2>5. \A s \in Session : Stored(s)' = Stored(s)
    BY <1>0, <2>1, StoredSteps
  <2> QED BY <1>0, <2>1, <2>2, <2>3, <2>4, <2>5, RefHand
<1> QED BY <1>2, <1>3, <1>4, <1>5 DEF WorkerOwn

\* The tick thread without a reference on what it has in hand: only the stores matter.
LEMMA RefLoose ==
  ASSUME Inv, TypeInv', NEW p, NEW c, NEW r, Moved("tick", p, c, r), list' = list,
         {pc["tick"], p} \cap {"add", "shutdown", "unref"} = {},
         ~Hand(pc["tick"], ret["tick"]), ~Hand(p, r),
         cur["tick"] # NoSession => ~Sends, c # NoSession => ~Sends',
         \/ ref' = ref /\ alloc' = alloc
         \/ \E x \in alloc : Release(x)
         \/ /\ \E some \in SUBSET alloc :
                 ref' = [s \in Session |-> IF s \in some THEN ref[s] + 1 ELSE ref[s]]
            /\ alloc' = alloc,
         \A s \in Session : ref'[s] - ref[s] = Stored(s)' - Stored(s)
  PROVE  RefInv'
<1> USE Threads
<1>0. TypeInv /\ RefInv
  BY DEF Inv
<1>1. \A s \in Session : Even("tick", p, c, r, s)
  <2> SUFFICES ASSUME NEW s \in Session PROVE Even("tick", p, c, r, s)
    OBVIOUS
  <2>1. /\ (IF c = s THEN Weight("tick", p, r, Sends') ELSE 0) = 0
        /\ (IF cur["tick"] = s THEN Weight("tick", pc["tick"], ret["tick"], Sends) ELSE 0) = 0
    BY Weights, ConstantsAssumption
  <2>2. Stored(s) \in Int /\ Stored(s)' \in Int
    BY <1>0, StoredSteps
  <2>3. ref'[s] - ref[s] = (Stored(s)' - Stored(s)) + 0 - 0
    BY <2>2
  <2> QED BY <1>0, <2>1, <2>3, EvenHand
<1> QED BY <1>0, <1>1, RefMoved

\* The tick thread: the batch it takes brings its references, and Broadcast, SendSnapshot and
\* FlushEvents take one on each target and let it go after the send.
LEMMA RefTick ==
  ASSUME Inv, TypeInv', TickOwn
  PROVE  RefInv'
<1> USE Threads
<1>0. /\ TypeInv /\ TickInv /\ RefInv /\ UNCHANGED <<recvIO, sendIO, list, leftovers>>
      /\ ret["tick"] = "none" /\ ~Hand(pc["tick"], ret["tick"])
      /\ pc["tick"] \notin {"add", "shutdown", "unref"}
      /\ pc["tick"] \in {"swap", "life", "liferef", "collect", "next"} => cur["tick"] = NoSession
      /\ pc["tick"] \in {"swap", "life", "liferef", "jobref", "collect"} => mode = "none"
      /\ mode = "none" => targets = {}
  <2>1. TypeInv /\ TickInv /\ RefInv /\ PlaceInv
    BY DEF Inv
  <2>2. UNCHANGED <<recvIO, sendIO, list, leftovers>>
    BY OwnFrames
  <2>3. pc["tick"] \in {"swap", "life", "liferef", "jobref", "collect", "next", "sendpacket", "push", "sent"}
    BY <2>1, TickMoves DEF TickOwn
  <2>4. PlaceOf("tick", pc["tick"], cur["tick"], ret["tick"])
    BY <2>1 DEF PlaceInv
  <2>5. ret["tick"] = "none"
    BY <2>3, <2>4 DEF PlaceOf, Closing, CloseSteps
  <2>6. pc["tick"] \in {"swap", "life", "liferef", "collect", "next"} => cur["tick"] = NoSession
    BY <2>4 DEF PlaceOf, FreeSteps
  <2>7. pc["tick"] \in {"swap", "life", "liferef", "jobref", "collect"} => mode = "none"
    BY <2>1 DEF TypeInv, StepsOK, SendSteps, CloseSteps
  <2>8. ~Hand(pc["tick"], ret["tick"])
    BY <2>3, <2>5 DEF Hand
  <2> QED BY <2>1, <2>2, <2>3, <2>5, <2>6, <2>7, <2>8 DEF TickInv
<1>1. \A s \in Session : ref[s] \in Int /\ ref'[s] \in Int /\ Stored(s) \in Int /\ Stored(s)' \in Int
  <2>1. \A s \in Session : Stored(s) \in Int /\ Stored(s)' \in Int
    BY <1>0, StoredSteps
  <2> QED BY <2>1 DEF Inv, TypeInv, TypeOK
<1>2. CASE Swap
  <2>1. ref' = ref /\ alloc' = alloc /\ mode' = mode /\ targets' = targets /\ mode = "none"
    BY <1>0, <1>2, TickMoves DEF Swap, memVars, tickVars
  <2>2. PICK p \in {"life", "stopped"} : Moved("tick", p, NoSession, "none") /\ pc["tick"] = "swap"
    BY <1>0, <1>2, TickMoves
  <2>3. \A s \in Session : Stored(s)' = Stored(s)
    <3>1. CASE UNCHANGED queueVars
      BY <1>0, <2>1, <3>1, StoredSteps DEF queueVars, Held
    <3>2. CASE lives' = life /\ jobs' = pkts /\ life' = <<>> /\ pkts' = <<>>
      <4>1. lives = <<>> /\ jobs = <<>>
        BY <1>0, <2>2 DEF TickInv
      <4> QED BY <1>0, <2>1, <3>2, <4>1, StoredSteps
    <3> QED BY <1>2, <3>1, <3>2 DEF Swap
  <2>4. ~Hand(p, "none") /\ {pc["tick"], p} \cap {"add", "shutdown", "unref"} = {}
    BY <1>0, <2>2 DEF Hand
  <2>5. \A s \in Session : ref'[s] - ref[s] = Stored(s)' - Stored(s)
    BY <1>1, <2>1, <2>3
  <2> QED BY <1>0, <2>1, <2>2, <2>4, <2>5, RefLoose
<1>3. CASE HandleEnter \/ HandleLeave
  <2>1. ref' = ref /\ alloc' = alloc /\ targets' = targets /\ UNCHANGED queueVars /\ mode = "none"
        /\ pc["tick"] = "life"
    BY <1>0, <1>3, TickMoves DEF HandleEnter, HandleLeave, memVars, tickVars
  <2>2. PICK p, c : p \in {"sendpacket", "liferef"} /\ Moved("tick", p, c, "none")
    BY <1>0, <1>3, TickMoves
  <2>3. ~Sends /\ ~Sends'
    BY <1>3, <2>1 DEF HandleEnter, HandleLeave, Sends, tickVars
  <2>4. \A s \in Session : Stored(s)' - Stored(s) = Count(Sends' /\ s \in targets') - Count(Sends /\ s \in targets)
    BY <1>0, <2>1, StoredSteps DEF Rest, queueVars
  <2>5. \A s \in Session : ref'[s] - ref[s] = Stored(s)' - Stored(s)
    BY <1>1, <2>1, <2>3, <2>4 DEF Count
  <2>6. ~Hand(p, "none") /\ {pc["tick"], p} \cap {"add", "shutdown", "unref"} = {}
    BY <1>0, <2>2 DEF Hand
  <2> QED BY <1>0, <2>1, <2>2, <2>3, <2>5, <2>6, RefLoose
<1>4. CASE LifeRef
  <2>1. /\ pc["tick"] = "liferef" /\ lives # <<>> /\ lives' = Tail(lives) /\ Release(Head(lives).s)
        /\ UNCHANGED <<life, pkts, jobs, targets, mode>> /\ mode = "none"
    BY <1>0, <1>4, TickMoves DEF LifeRef, tickVars, TypeInv, StepsOK
  <2>2. Moved("tick", "life", NoSession, "none")
    BY <1>0, <1>4, <2>1, TickMoves
  <2>3. PICK x \in alloc : x = Head(lives).s /\ x \in Session
    BY <2>1, InHand DEF LifeJob
  <2>4. \A s \in Session : ref'[s] - ref[s] = Stored(s)' - Stored(s)
    <3>1. \A s \in Session : Stored(s)' = Stored(s) - Count(Head(lives).s = s)
      BY <1>0, <2>1, StoredSteps
    <3>2. \A s \in Session : ref'[s] = ref[s] + (IF s = x THEN -1 ELSE 0)
      BY <1>0, <2>1, <2>3, RefCounts
    <3>3. \A s \in Session : Stored(s)' = Stored(s) - (IF s = x THEN 1 ELSE 0)
      BY <2>3, <3>1 DEF Count
    <3> QED BY <1>1, <3>2, <3>3
  <2>5. ~Hand("life", "none") /\ {pc["tick"], "life"} \cap {"add", "shutdown", "unref"} = {}
    BY <2>1 DEF Hand
  <2>6. \E y \in alloc : Release(y)
    BY <2>1, <2>3
  <2> QED BY <1>0, <2>1, <2>2, <2>4, <2>5, <2>6, RefLoose
<1>5. CASE JobRef
  <2>1. /\ pc["tick"] = "jobref" /\ jobs # <<>> /\ jobs' = Tail(jobs) /\ Release(Head(jobs))
        /\ UNCHANGED <<life, pkts, lives, targets, mode>> /\ mode = "none"
    BY <1>0, <1>5, TickMoves DEF JobRef, tickVars, TypeInv, StepsOK
  <2>2. Moved("tick", "life", NoSession, "none")
    BY <1>0, <1>5, <2>1, TickMoves
  <2>3. PICK x \in alloc : x = Head(jobs) /\ x \in Session
    BY <2>1, InHand DEF Inv, TypeInv, TypeOK
  <2>4. \A s \in Session : ref'[s] - ref[s] = Stored(s)' - Stored(s)
    <3>1. \A s \in Session : Stored(s)' = Stored(s) - Count(Head(jobs) = s)
      BY <1>0, <2>1, StoredSteps
    <3>2. \A s \in Session : ref'[s] = ref[s] + (IF s = x THEN -1 ELSE 0)
      BY <1>0, <2>1, <2>3, RefCounts
    <3>3. \A s \in Session : Stored(s)' = Stored(s) - (IF s = x THEN 1 ELSE 0)
      BY <2>3, <3>1 DEF Count
    <3> QED BY <1>1, <3>2, <3>3
  <2>5. ~Hand("life", "none") /\ {pc["tick"], "life"} \cap {"add", "shutdown", "unref"} = {}
        /\ ~Sends
    BY <2>1 DEF Hand, Sends
  <2>6. \E y \in alloc : Release(y)
    BY <2>1, <2>3
  <2> QED BY <1>0, <2>1, <2>2, <2>4, <2>5, <2>6, RefLoose
<1>6. ASSUME NEW some \in SUBSET Open, NEW m \in {"echo", "aoi"}, Collect(some, m), UNCHANGED queueVars,
             alloc' = alloc, Moved("tick", "next", NoSession, "none"),
             pc["tick"] \in {"life", "collect"}
      PROVE  RefInv'
  <2>1. some \in SUBSET alloc /\ mode = "none"
    <3>1. NoUseAfterFree
      BY InUse DEF Inv
    <3> QED BY <1>0, <1>6, <3>1 DEF Open, NoUseAfterFree
  <2>2. /\ ref' = [s \in Session |-> IF s \in some THEN ref[s] + 1 ELSE ref[s]]
        /\ targets' = some /\ ~Sends /\ Sends'
    BY <1>6, <2>1 DEF Collect, Sends
  <2>3. \A s \in Session : Stored(s)' - Stored(s) = Count(Sends' /\ s \in targets') - Count(Sends /\ s \in targets)
    BY <1>0, <1>6, StoredSteps DEF Rest, queueVars
  <2>4. \A s \in Session : ref'[s] - ref[s] = Stored(s)' - Stored(s)
    BY <1>1, <2>2, <2>3 DEF Count
  <2>5. ~Hand("next", "none") /\ {pc["tick"], "next"} \cap {"add", "shutdown", "unref"} = {}
    BY <1>0 DEF Hand
  <2> QED BY <1>0, <1>6, <2>1, <2>2, <2>4, <2>5, RefLoose
<1>7. CASE HandlePacket
  <2>1. alloc' = alloc /\ UNCHANGED queueVars /\ pc["tick"] = "life" /\ mode = "none"
    BY <1>0, <1>7, TickMoves DEF HandlePacket
  <2>2. CASE Moved("tick", "next", NoSession, "none") /\ Collect(Open, "echo")
    BY <1>6, <2>1, <2>2
  <2>3. ASSUME NEW p \in {"jobref", "exchange"}, NEW c, NEW r \in {"none", "jobref"},
               Moved("tick", p, c, r), UNCHANGED <<ref, mode, targets>>
        PROVE  RefInv'
    <3>1. ~Sends /\ ~Sends' /\ ~Hand(p, r) /\ {pc["tick"], p} \cap {"add", "shutdown", "unref"} = {}
      BY <1>0, <2>1, <2>3 DEF Sends, Hand
    <3>2. \A s \in Session : ref'[s] - ref[s] = Stored(s)' - Stored(s)
      <4>1. \A s \in Session : Stored(s)' = Stored(s)
        BY <1>0, <2>1, <2>3, StoredSteps DEF queueVars, Held
      <4> QED BY <1>1, <2>3, <4>1
    <3> QED BY <1>0, <2>1, <2>3, <3>1, <3>2, RefLoose
  <2> QED BY <1>0, <1>7, <2>1, <2>2, <2>3, TickMoves
<1>8. CASE Game \/ TickEnd
  <2>1. UNCHANGED <<alloc, ref>> /\ UNCHANGED queueVars /\ mode = "none"
    BY <1>0, <1>8, TickMoves DEF Game, TickEnd, memVars
  <2>2. PICK p \in {"collect", "next", "swap"} : Moved("tick", p, NoSession, "none")
    BY <1>0, <1>8, TickMoves
  <2>3. ~Sends /\ ~Sends'
    BY <1>8, <2>1 DEF Game, TickEnd, Sends, tickVars
  <2>4. \A s \in Session : Stored(s)' - Stored(s) = Count(Sends' /\ s \in targets') - Count(Sends /\ s \in targets)
    BY <1>0, <2>1, StoredSteps DEF Rest, queueVars
  <2>5. \A s \in Session : ref'[s] - ref[s] = Stored(s)' - Stored(s)
    BY <1>1, <2>1, <2>3, <2>4 DEF Count
  <2>6. ~Hand(p, "none") /\ {pc["tick"], p} \cap {"add", "shutdown", "unref"} = {}
    BY <1>0, <2>2 DEF Hand
  <2> QED BY <1>0, <2>1, <2>2, <2>3, <2>5, <2>6, RefLoose
<1>9. CASE CollectTargets
  <2>1. alloc' = alloc /\ UNCHANGED queueVars /\ pc["tick"] = "collect"
        /\ Moved("tick", "next", NoSession, "none")
    BY <1>0, <1>9, TickMoves DEF CollectTargets
  <2> QED BY <1>6, <1>9, <2>1 DEF CollectTargets
<1>10. CASE NextTarget
  <2>1. UNCHANGED <<alloc, ref>> /\ UNCHANGED queueVars /\ pc["tick"] = "next"
    BY <1>10, TickMoves DEF NextTarget, At, memVars
  <2>2. \A s \in Session : Stored(s)' - Stored(s) = Count(Sends' /\ s \in targets') - Count(Sends /\ s \in targets)
    BY <1>0, <2>1, StoredSteps DEF Rest, queueVars
  <2>3. CASE targets = {} /\ targets' = targets /\ mode' = "none"
    <3>1. PICK p \in {"jobref", "collect"} : Moved("tick", p, NoSession, "none")
      BY <1>0, <1>10, <2>1, <2>3, TickMoves
    <3>2. \A s \in Session : ref'[s] - ref[s] = Stored(s)' - Stored(s)
      BY <1>1, <2>1, <2>2, <2>3 DEF Count
    <3>3. ~Hand(p, "none") /\ {pc["tick"], p} \cap {"add", "shutdown", "unref"} = {} /\ ~Sends'
      BY <1>0, <2>3, <3>1 DEF Hand, Sends
    <3> QED BY <1>0, <2>1, <3>1, <3>2, <3>3, RefLoose
  <2>4. ASSUME NEW x \in targets, targets' = targets \ {x}, mode' = mode,
               Moved("tick", "sendpacket", x, "none")
        PROVE  RefInv'
    <3>1. x \in Session /\ ~Hand("sendpacket", "none") /\ Sends' = Sends
          /\ {pc["tick"], "sendpacket"} \cap {"add", "shutdown", "unref"} = {}
      BY <1>0, <2>4 DEF Hand, Sends, TypeInv, TypeOK
    <3>2. CASE Sends
      <4>1. \A s \in Session : Stored(s)' = Stored(s) - (IF s = x THEN 1 ELSE 0)
        BY <1>1, <2>2, <2>4, <3>1, <3>2 DEF Count
      <4>2. Weight("tick", "sendpacket", "none", Sends) = 1
        BY <3>1, <3>2, Weights
      <4> QED BY <1>0, <2>1, <2>4, <3>1, <4>1, <4>2, RefHand DEF memVars
    <3>3. CASE ~Sends
      <4>1. \A s \in Session : ref'[s] - ref[s] = Stored(s)' - Stored(s)
        BY <1>1, <2>1, <2>2, <3>1, <3>3 DEF Count
      <4> QED BY <1>0, <2>1, <2>4, <3>1, <3>3, <4>1, RefLoose
    <3> QED BY <3>2, <3>3
  <2> QED BY <1>0, <1>10, <2>3, <2>4, TickMoves
<1>11. CASE SendCheck \/ SendPush \/ SendFull
  <2>1. UNCHANGED <<alloc, ref>> /\ UNCHANGED Held
    BY <1>0, <1>11 DEF SendCheck, SendPush, SendFull, memVars, queueVars, tickVars, Held
  <2>2. PICK p \in {"sent", "push", "sendref", "exchange"}, r \in {"none", "sent"} :
          Moved("tick", p, cur["tick"], r)
    BY <1>0, <1>11, TickMoves
  <2>3. (Hand(p, r) <=> Hand(pc["tick"], ret["tick"]))
        /\ {pc["tick"], p} \cap {"add", "shutdown", "unref"} = {}
    BY <1>0, <2>2 DEF Hand
  <2> QED BY <1>0, <2>1, <2>2, <2>3, RefStays
<1>12. CASE Sent
  <2>1. UNCHANGED queueVars /\ targets' = targets /\ pc["tick"] = "sent"
    BY <1>0, <1>12, TickMoves DEF Sent
  <2>2. PICK p \in {"liferef", "next"} : Moved("tick", p, NoSession, "none")
    BY <1>0, <1>12, TickMoves
  <2>3. ~Hand(p, "none") /\ {pc["tick"], p} \cap {"add", "shutdown", "unref"} = {}
    BY <1>0, <2>2 DEF Hand
  <2>4. CASE Sends
    <3>1. Release(cur["tick"]) /\ mode' = mode
      BY <1>12, <2>4 DEF Sent, Sends
    <3>2. PICK x \in Session : x = cur["tick"]
      BY <2>1, InHand DEF FreeSteps
    <3>3. Weight("tick", pc["tick"], ret["tick"], Sends) = 1
      BY <1>0, <2>4, Weights
    <3>4. \A s \in Session : Stored(s)' = Stored(s)
      BY <1>0, <2>1, <3>1, StoredSteps DEF queueVars, Held
    <3> QED BY <1>0, <2>2, <2>3, <3>1, <3>2, <3>3, <3>4, RefHand
  <2>5. CASE ~Sends
    <3>1. UNCHANGED <<alloc, ref>> /\ ~Sends'
      BY <1>12, <2>5 DEF Sent, Sends, memVars
    <3>2. \A s \in Session : Stored(s)' - Stored(s) = Count(Sends' /\ s \in targets') - Count(Sends /\ s \in targets)
      BY <1>0, <2>1, StoredSteps DEF Rest, queueVars
    <3>3. \A s \in Session : ref'[s] - ref[s] = Stored(s)' - Stored(s)
      BY <1>1, <2>5, <3>1, <3>2 DEF Count
    <3> QED BY <1>0, <2>2, <2>3, <2>5, <3>1, <3>3, RefLoose
  <2> QED BY <2>4, <2>5
<1> QED BY <1>2, <1>3, <1>4, <1>5, <1>7, <1>8, <1>9, <1>10, <1>11, <1>12 DEF TickOwn

\* A main thread that gives its session back, or hands the reference of the list over.
LEMMA RefMain ==
  ASSUME Inv, TypeInv', MainOwn
  PROVE  RefInv'
<1> USE Threads
<1>0. /\ TypeInv /\ RefInv /\ RefsBalance /\ UNCHANGED <<pkts, lives, jobs, targets, mode>>
      /\ Sends' = Sends
      /\ \A p, r : Weight("main", p, r, Sends) = IF Hand(p, r) THEN 2 ELSE 1
  <2>1. UNCHANGED <<pkts, lives, jobs, targets, mode>>
    BY OwnFrames
  <2> QED BY <2>1, Weights DEF Inv, RefInv, Sends
<1>1. /\ \A s \in Session : ref[s] \in Int /\ ref'[s] \in Int /\ Stored(s) \in Int /\ Stored(s)' \in Int
      /\ \A s \in Session : s \in alloc <=> ref[s] # 0
      /\ ref \in [Session -> Int]
  <2>1. \A s \in Session : Stored(s) \in Int /\ Stored(s)' \in Int
    BY <1>0, StoredSteps
  <2> QED BY <2>1 DEF Inv, RefInv, TypeInv, TypeOK
<1>2. ASSUME NEW x \in Session, Accept(x) PROVE RefInv'
  <2>1. /\ x \notin alloc /\ alloc' = alloc \cup {x} /\ list' = list
        /\ ref' = [ref EXCEPT ![x] = 2]
        /\ recvIO' = [recvIO EXCEPT ![x] = "none"] /\ sendIO' = [sendIO EXCEPT ![x] = "none"]
        /\ UNCHANGED <<life, leftovers>>
    BY <1>2 DEF Accept, queueVars, mainVars
  <2>2. pc["main"] = "accept" /\ Moved("main", "add", x, ret["main"])
    BY <1>0, <1>2, MainMoves
  <2>3. cur["main"] = NoSession /\ ret["main"] = "none"
    BY <2>2 DEF Inv, PlaceInv, PlaceOf, FreeSteps, Closing, CloseSteps
  <2>4. ref[x] = 0 /\ Holders(x) = 0
    BY <1>0, <1>1, <2>1 DEF RefsBalance
  <2>5. recvIO[x] = "none" /\ sendIO[x] = "none" /\ ~Listed(x)
    BY <1>0, <2>4, Unheld
  <2>6. recvIO' = recvIO /\ sendIO' = sendIO
    BY <1>0, <2>1, <2>5 DEF TypeInv, TypeOK
  <2>7. \A s \in Session : Stored(s)' = Stored(s)
    BY <1>0, <2>1, <2>6, StoredSteps DEF Held
  <2>8. ASSUME NEW s \in Session PROVE Even("main", "add", x, ret["main"], s)
    <3>1. CASE s = x
      <4>1. Listed(s)'
        BY <2>2, <3>1 DEF Listed, Has, Moved
      <4>2. Count(Listed(s))' = 1 /\ Count(Listed(s)) = 0
        BY <2>5, <3>1, <4>1 DEF Count
      <4>3. ref'[s] = 2 /\ ref[s] = 0
        BY <1>1, <2>1, <2>4, <3>1
      <4>4. Weight("main", "add", ret["main"], Sends') = 1 /\ cur["main"] # s
        BY <1>0, <2>3, ConstantsAssumption DEF Hand
      <4> QED BY <1>1, <2>7, <3>1, <4>2, <4>3, <4>4 DEF Even
    <3>2. CASE s # x
      <4>1. Listed(s)' <=> Listed(s)
        <5>1. ~Has("main", s, {"add"})' /\ ~Has("main", s, {"add"})
          BY <2>2, <3>2 DEF Has, Moved
        <5>2. \A u \in Thread : Has(u, s, {"shutdown", "unref"})' <=> Has(u, s, {"shutdown", "unref"})
          BY <2>2 DEF Has, Moved
        <5> QED BY <2>1, <5>1, <5>2 DEF Listed
      <4>2. Count(Listed(s))' - Count(Listed(s)) = 0
        BY <4>1 DEF Count
      <4>3. ref'[s] = ref[s]
        BY <1>1, <2>1, <3>2
      <4>4. cur["main"] # s
        BY <2>3, ConstantsAssumption
      <4> QED BY <1>1, <2>7, <3>2, <4>2, <4>3, <4>4 DEF Even
    <3> QED BY <3>1, <3>2
  <2>9. RefsBalance'
    BY <1>0, <2>2, <2>8, RefBalanced
  <2>10. \A s \in Session : s \in alloc' <=> ref'[s] # 0
    BY <1>1, <2>1
  <2> QED BY <2>9, <2>10 DEF RefInv
<1>3. CASE AddSession
  <2>1. /\ list' = list \cup {cur["main"]} /\ UNCHANGED <<alloc, ref>> /\ UNCHANGED Held
    BY <1>0, <1>3 DEF AddSession, memVars, sockVars, queueVars, mainVars, Held
  <2>2. pc["main"] = "add" /\ Moved("main", "associate", cur["main"], ret["main"])
    BY <1>0, <1>3, MainMoves
  <2>3. \A s \in Session : Stored(s)' = Stored(s)
    BY <1>0, <2>1, StoredSteps
  <2>4. ASSUME NEW s \in Session PROVE Even("main", "associate", cur["main"], ret["main"], s)
    <3>1. \A u \in Thread : Has(u, s, {"shutdown", "unref"})' <=> Has(u, s, {"shutdown", "unref"})
      BY <2>2 DEF Has, Moved
    <3>2. ~Has("main", s, {"add"})' /\ (Has("main", s, {"add"}) <=> s = cur["main"])
      BY <2>2 DEF Has, Moved
    <3>3. Listed(s)' <=> Listed(s)
      BY <2>1, <3>1, <3>2 DEF Listed
    <3>4. Count(Listed(s))' - Count(Listed(s)) = 0
      BY <3>3 DEF Count
    <3>5. /\ Weight("main", "associate", ret["main"], Sends') = Weight("main", pc["main"], ret["main"], Sends)
          /\ Weight("main", pc["main"], ret["main"], Sends) \in Int
      BY <1>0, <2>2 DEF Hand
    <3> QED BY <1>1, <2>1, <2>3, <3>4, <3>5 DEF Even
  <2> QED BY <1>0, <2>1, <2>2, <2>4, RefMoved
<1>4. CASE ListFull
  <2>1. /\ ref' = [ref EXCEPT ![cur["main"]] = 0] /\ alloc' = alloc \ {cur["main"]}
        /\ list' = list /\ UNCHANGED Held
    BY <1>0, <1>4 DEF ListFull, sockVars, queueVars, mainVars, Held
  <2>2. pc["main"] = "add" /\ Moved("main", "accept", NoSession, ret["main"])
    BY <1>0, <1>4, MainMoves
  <2>3. PICK x \in Session : x = cur["main"]
    BY <2>2, InHand DEF FreeSteps
  <2>4. ref[x] = 2 /\ x \notin list /\ \A t \in Thread \ {"main"} : cur[t] # x
    BY <2>2, <2>3 DEF Inv, SetupInv, Unseen
  <2>5. ret["main"] = "none"
    BY <2>2 DEF Inv, PlaceInv, PlaceOf, Closing, CloseSteps
  <2>6. \A s \in Session : Stored(s)' = Stored(s)
    BY <1>0, <2>1, StoredSteps
  <2>7. ASSUME NEW s \in Session PROVE Even("main", "accept", NoSession, ret["main"], s)
    <3>0. s # NoSession /\ Weight("main", pc["main"], ret["main"], Sends) = 1
      BY <1>0, <2>2, <2>5, ConstantsAssumption DEF Hand
    <3>1. ~Has("main", s, {"add"})' /\ (Has("main", s, {"add"}) <=> s = x)
      BY <2>2, <2>3 DEF Has, Moved
    <3>2. \A u \in Thread : Has(u, s, {"shutdown", "unref"})' <=> Has(u, s, {"shutdown", "unref"})
      BY <2>2 DEF Has, Moved
    <3>3. CASE s = x
      <4>1. ~Listed(s)'
        BY <2>1, <2>2, <2>3, <2>4, <3>1, <3>2, <3>3 DEF Listed, Has
      <4>2. Listed(s)
        BY <3>1, <3>3 DEF Listed
      <4>3. Count(Listed(s))' = 0 /\ Count(Listed(s)) = 1
        BY <4>1, <4>2 DEF Count
      <4>4. ref'[s] = 0 /\ ref[s] = 2
        BY <1>1, <2>1, <2>3, <2>4, <3>3
      <4> QED BY <1>1, <2>3, <2>6, <3>0, <3>3, <4>3, <4>4 DEF Even
    <3>4. CASE s # x
      <4>1. Listed(s)' <=> Listed(s)
        BY <2>1, <3>1, <3>2, <3>4 DEF Listed
      <4>2. Count(Listed(s))' - Count(Listed(s)) = 0
        BY <4>1 DEF Count
      <4>3. ref'[s] = ref[s] /\ cur["main"] # s
        BY <1>1, <2>1, <2>3, <3>4
      <4> QED BY <1>1, <2>6, <3>0, <4>2, <4>3 DEF Even
    <3> QED BY <3>3, <3>4
  <2>8. RefsBalance'
    BY <1>0, <2>2, <2>7, RefBalanced
  <2>9. \A s \in Session : s \in alloc' <=> ref'[s] # 0
    BY <1>1, <2>1, <2>3
  <2> QED BY <2>8, <2>9 DEF RefInv
<1>5. CASE Associate
  <2>1. UNCHANGED <<alloc, ref>> /\ UNCHANGED Held /\ list' = list
    BY <1>0, <1>5 DEF Associate, memVars, sockVars, queueVars, mainVars, Held
  <2>2. PICK p \in {"enter", "exchange"}, r \in {ret["main"], "mainref"} : Moved("main", p, cur["main"], r)
    BY <1>0, <1>5, MainMoves
  <2>3. pc["main"] = "associate" /\ ret["main"] = "none"
    BY <1>0, <1>5, MainMoves DEF Inv, PlaceInv, PlaceOf, Closing, CloseSteps
  <2>4. (Hand(p, r) <=> Hand(pc["main"], ret["main"])) /\ {pc["main"], p} \cap {"add", "shutdown", "unref"} = {}
    BY <2>3 DEF Hand
  <2> QED BY <1>0, <2>1, <2>2, <2>4, RefStays
<1>6. CASE PushEnter
  <2>1. /\ PushLife("Enter", cur["main"]) /\ alloc' = alloc /\ list' = list
        /\ UNCHANGED <<leftovers, recvIO, sendIO>>
    BY <1>6 DEF PushEnter, sockVars, mainVars
  <2>2. pc["main"] = "enter" /\ Moved("main", "recvref", cur["main"], ret["main"])
    BY <1>0, <1>6, MainMoves
  <2>3. cur["main"] \in Session /\ "Enter" \in JobType
    BY <2>2, InHand DEF FreeSteps, JobType
  <2>4. ~Hand("recvref", "none") /\ ~Hand(pc["main"], "none")
        /\ {pc["main"], "recvref"} \cap {"add", "shutdown", "unref"} = {}
    BY <2>2 DEF Hand
  <2> QED BY <1>0, <2>1, <2>2, <2>3, <2>4, RefPush
<1>7. CASE MainRelease \/ CloseRef
  <2>1. Release(cur["main"]) /\ list' = list /\ UNCHANGED Held
    BY <1>0, <1>7 DEF MainRelease, CloseRef, sockVars, queueVars, mainVars, Held
  <2>2. PICK p \in {"accept", "closenext"} : Moved("main", p, NoSession, ret["main"])
    BY <1>0, <1>7, MainMoves
  <2>3. pc["main"] \in {"mainref", "closeref"} /\ ret["main"] = "none"
    BY <1>0, <1>7, MainMoves DEF Inv, PlaceInv, PlaceOf, Closing, CloseSteps
  <2>4. PICK x \in Session : x = cur["main"]
    BY <2>3, InHand DEF FreeSteps
  <2>5. \A s \in Session : Stored(s)' = Stored(s)
    BY <1>0, <2>1, StoredSteps
  <2>6. Weight("main", pc["main"], ret["main"], Sends) = 1
        /\ {pc["main"], p} \cap {"add", "shutdown", "unref"} = {}
    BY <1>0, <2>3 DEF Hand
  <2> QED BY <1>0, <2>1, <2>2, <2>4, <2>5, <2>6, RefHand
<1>8. CASE CollectAll
  <2>1. /\ leftovers' = list /\ ref' = [s \in Session |-> IF s \in list THEN ref[s] + 1 ELSE ref[s]]
        /\ alloc' = alloc /\ list' = list
        /\ UNCHANGED <<life, lives, pkts, jobs, recvIO, sendIO, targets, mode>>
    BY <1>0, <1>8 DEF CollectAll, sockVars, queueVars
  <2>2. pc["main"] = "accept" /\ Moved("main", "closenext", cur["main"], ret["main"])
    BY <1>0, <1>8, MainMoves
  <2>3. cur["main"] = NoSession /\ ret["main"] = "none" /\ leftovers = {}
    BY <2>2 DEF Inv, PlaceInv, PlaceOf, FreeSteps, Closing, CloseSteps
  <2>4. \A s \in Session : Stored(s)' - Stored(s) = Count(s \in list) - Count(s \in leftovers)
    BY <1>0, <2>1, StoredSteps
  <2>5. {pc["main"], "closenext"} \cap {"add", "shutdown", "unref"} = {}
    BY <2>2
  <2>6. ASSUME NEW s \in Session PROVE Even("main", "closenext", cur["main"], ret["main"], s)
    <3>1. Stored(s)' - Stored(s) = IF s \in list THEN 1 ELSE 0
      BY <2>3, <2>4 DEF Count
    <3>2. ref'[s] - ref[s] = IF s \in list THEN 1 ELSE 0
      BY <1>1, <2>1
    <3>3. cur["main"] # s
      BY <2>3, ConstantsAssumption
    <3>4. ref'[s] - ref[s] = (Stored(s)' - Stored(s))
           + (IF cur["main"] = s THEN Weight("main", "closenext", ret["main"], Sends') ELSE 0)
           - (IF cur["main"] = s THEN Weight("main", pc["main"], ret["main"], Sends) ELSE 0)
      BY <1>1, <3>1, <3>2, <3>3
    <3> QED BY <1>0, <2>1, <2>2, <2>5, <3>4, EvenHand
  <2>7. list \in SUBSET alloc
    BY InUse DEF Inv, NoUseAfterFree
  <2> QED BY <1>0, <2>1, <2>2, <2>6, <2>7, RefMoved
<1>9. ASSUME NEW x \in Session, CloseNext(x) PROVE RefInv'
  <2>1. /\ x \in leftovers /\ leftovers' = leftovers \ {x} /\ list' = list /\ UNCHANGED memVars
        /\ UNCHANGED <<life, lives, pkts, jobs, recvIO, sendIO, targets, mode>>
    BY <1>0, <1>9 DEF CloseNext, sockVars, queueVars
  <2>2. pc["main"] = "closenext" /\ Moved("main", "exchange", x, "closeref")
    BY <1>0, <1>9, MainMoves
  <2>3. cur["main"] = NoSession
    BY <2>2 DEF Inv, PlaceInv, PlaceOf, FreeSteps
  <2>4. \A s \in Session : Stored(s)' - Stored(s) = Count(s \in leftovers') - Count(s \in leftovers)
    BY <1>0, <2>1, StoredSteps
  <2>5. \A s \in Session : Stored(s)' = Stored(s) - (IF s = x THEN 1 ELSE 0)
    BY <1>1, <2>1, <2>4 DEF Count
  <2>6. Weight("main", "exchange", "closeref", Sends) = 1
        /\ {pc["main"], "exchange"} \cap {"add", "shutdown", "unref"} = {}
    BY <1>0, <2>2 DEF Hand
  <2> QED BY <1>0, <2>1, <2>2, <2>3, <2>5, <2>6, RefHand
<1>10. CASE Drain \/ Join \/ Exit
  <2>1. UNCHANGED <<alloc, ref>> /\ UNCHANGED Held /\ list' = list
    BY <1>0, <1>10 DEF Drain, Join, Exit, memVars, sockVars, queueVars, mainVars, Held
  <2>2. PICK p \in {"join", "exits", "stopped"} : Moved("main", p, cur["main"], ret["main"])
    BY <1>0, <1>10, MainMoves
  <2>3. pc["main"] \in {"closenext", "join", "exits"}
    BY <1>0, <1>10, MainMoves
  <2>4. (Hand(p, ret["main"]) <=> Hand(pc["main"], ret["main"]))
        /\ {pc["main"], p} \cap {"add", "shutdown", "unref"} = {}
    BY <2>3 DEF Hand
  <2> QED BY <1>0, <2>1, <2>2, <2>4, RefStays
<1> QED BY <1>2, <1>3, <1>4, <1>5, <1>6, <1>7, <1>8, <1>9, <1>10 DEF MainOwn

\* A completion that gets lost leaves the order, and its reference, where it was.
LEMMA RefLost ==
  ASSUME Inv, TypeInv', NEW x \in Session, CompletionLost(x)
  PROVE  RefInv'
<1> USE Threads
<1>0. /\ TypeInv /\ RefInv /\ sendIO[x] = "posted" /\ sendIO' = [sendIO EXCEPT ![x] = "lost"]
      /\ UNCHANGED <<alloc, ref>> /\ list' = list /\ UNCHANGED threadVars
      /\ UNCHANGED <<life, lives, pkts, jobs, recvIO, targets, mode, leftovers>>
  BY DEF CompletionLost, memVars, queueVars, tickVars, mainVars, Inv
<1>1. Moved("main", pc["main"], cur["main"], ret["main"])
  BY <1>0 DEF Moved, threadVars
<1>2. \A s \in Session : Stored(s)' - Stored(s) = 0
  <2>1. \A s \in Session : Stored(s)' - Stored(s) =
                             Count(sendIO'[s] # "none") - Count(sendIO[s] # "none")
    BY <1>0, StoredSteps
  <2>2. \A s \in Session : sendIO'[s] # "none" <=> sendIO[s] # "none"
    BY <1>0 DEF TypeInv, TypeOK
  <2> QED BY <2>1, <2>2 DEF Count
<1>3. ASSUME NEW s \in Session PROVE Even("main", pc["main"], cur["main"], ret["main"], s)
  <2>1. Listed(s)' <=> Listed(s)
    BY <1>0 DEF Listed, Has, threadVars
  <2>2. Count(Listed(s))' - Count(Listed(s)) = 0
    BY <2>1 DEF Count
  <2>3. /\ Weight("main", pc["main"], ret["main"], Sends') = Weight("main", pc["main"], ret["main"], Sends)
        /\ Weight("main", pc["main"], ret["main"], Sends) \in Int
    BY <1>0, Weights DEF Sends
  <2>4. ref'[s] - ref[s] = 0
    BY <1>0 DEF TypeInv, TypeOK
  <2> QED BY <1>2, <2>2, <2>3, <2>4 DEF Even
<1> QED BY <1>0, <1>1, <1>3, RefMoved

\* The counts are right after any step.
LEMMA RefStep ==
  ASSUME Inv, TypeInv', [Next]_vars
  PROVE  RefInv'
<1>1. CASE UNCHANGED vars
  <2>1. /\ TypeInv /\ RefInv /\ UNCHANGED threadVars /\ list' = list /\ mode' = mode
        /\ UNCHANGED <<alloc, ref>> /\ UNCHANGED Held
    BY <1>1 DEF Inv, vars, memVars, sockVars, queueVars, tickVars, mainVars, Held
  <2>2. Moved("main", pc["main"], cur["main"], ret["main"])
    BY <2>1 DEF Moved, threadVars
  <2>3. ASSUME NEW s \in Session PROVE Even("main", pc["main"], cur["main"], ret["main"], s)
    <3>1. Listed(s)' <=> Listed(s)
      BY <2>1 DEF Listed, Has, threadVars
    <3>2. Count(Listed(s))' - Count(Listed(s)) = 0
      BY <3>1 DEF Count
    <3>3. /\ Weight("main", pc["main"], ret["main"], Sends') = Weight("main", pc["main"], ret["main"], Sends)
          /\ Weight("main", pc["main"], ret["main"], Sends) \in Int
      BY <2>1, Weights DEF Sends
    <3>4. ref'[s] - ref[s] = 0 /\ Stored(s)' - Stored(s) = 0
      <4>1. Stored(s) \in Int /\ Stored(s)' = Stored(s)
        BY <2>1, StoredSteps
      <4> QED BY <2>1, <4>1 DEF TypeInv, TypeOK
    <3> QED BY <3>2, <3>3, <3>4 DEF Even
  <2> QED BY <2>1, <2>2, <2>3, Threads, RefMoved
<1> QED BY <1>1, Steps, RefClose, RefRecv, RefSend, RefMain, RefTick, RefWorker, RefLost

-----------------------------------------------------------------------------
(* The queue of Enters and Leaves.                                         *)

\* PushJob drops no Leave: whoever is about to queue one finds an entry free.
RoomToLeave == \A t \in Thread : pc[t] = "leave" => Len(life) < MaxLife

\* The buffer is as large as an Enter and a Leave of every session there is.
Roomy == MaxLife >= 2 * Cardinality(Session)

\* A batch of distinct jobs in which one job of s is missing leaves room for it.
LEMMA RoomLeft ==
  ASSUME TypeInv, Roomy, NEW s \in Session, NEW type \in JobType, ~Waits(life, type, s),
         \A i, j \in DOMAIN life : i < j => EnterFirst(life[i], life[j])
  PROVE  Len(life) < MaxLife
<1> DEFINE E == {i \in DOMAIN life : life[i].type = "Enter"}
           L == {i \in DOMAIN life : life[i].type = "Leave"}
           f == [i \in E |-> life[i].s]
           g == [i \in L |-> life[i].s]
           N == Cardinality(Session)
<1>1. /\ Len(life) \in Nat /\ DOMAIN life = 1 .. Len(life) /\ life \in Seq(LifeJob)
      /\ \A i \in DOMAIN life : life[i] \in LifeJob
  BY LenProperties, ElementOfSeq DEF TypeInv, TypeOK
<1>2. \A i \in DOMAIN life : /\ life[i].s \in Session /\ life[i].type \in {"Enter", "Leave"}
                             /\ life[i] = [type |-> life[i].type, s |-> life[i].s]
  BY <1>1 DEF LifeJob, JobType
<1>3. \A i, j \in DOMAIN life : life[i].s = life[j].s /\ life[i].type = life[j].type => i = j
  <2> SUFFICES ASSUME NEW i \in DOMAIN life, NEW j \in DOMAIN life, life[i].s = life[j].s,
                      life[i].type = life[j].type, i # j
               PROVE  FALSE
    OBVIOUS
  <2>1. CASE i < j
    BY <2>1 DEF EnterFirst
  <2>2. CASE j < i
    BY <2>2 DEF EnterFirst
  <2> QED BY <1>1, <2>1, <2>2
<1>4. /\ IsFiniteSet(Session) /\ IsFiniteSet(Session \ {s}) /\ N \in Nat
      /\ Cardinality(Session \ {s}) = N - 1
  <2>1. IsFiniteSet(Session)
    BY FiniteAssumption
  <2> QED BY <2>1, FS_CardinalityType, FS_RemoveElement
<1>5. ASSUME NEW I \in SUBSET DOMAIN life, NEW T, IsFiniteSet(T),
             \A i \in I : life[i].s \in T,
             \A i, j \in I : life[i].type = life[j].type
      PROVE  IsFiniteSet(I) /\ Cardinality(I) \in Nat /\ Cardinality(I) <= Cardinality(T)
             /\ Cardinality(T) \in Nat
  <2> DEFINE h == [i \in I |-> life[i].s]
  <2>1. h \in Injection(I, T)
    <3>1. h \in [I -> T]
      BY <1>5
    <3>2. \A i, j \in I : h[i] = h[j] => i = j
      BY <1>3, <1>5
    <3> QED BY <3>1, <3>2 DEF Injection, IsInjective
  <2> QED BY <1>5, <2>1, FS_Injection, FS_CardinalityType
<1>6. /\ IsFiniteSet(E) /\ IsFiniteSet(L) /\ Cardinality(E) \in Nat /\ Cardinality(L) \in Nat
      /\ Cardinality(E) <= N /\ Cardinality(L) <= N
  BY <1>2, <1>4, <1>5
<1>7. Cardinality(E) <= N - 1 \/ Cardinality(L) <= N - 1
  <2>1. CASE type = "Enter"
    <3>1. \A i \in E : life[i].s \in Session \ {s}
      BY <1>2, <2>1 DEF Waits
    <3>2. Cardinality(E) <= Cardinality(Session \ {s})
      BY <1>4, <1>5, <3>1
    <3> QED BY <1>4, <3>2
  <2>2. CASE type = "Leave"
    <3>1. \A i \in L : life[i].s \in Session \ {s}
      BY <1>2, <2>2 DEF Waits
    <3>2. Cardinality(L) <= Cardinality(Session \ {s})
      BY <1>4, <1>5, <3>1
    <3> QED BY <1>4, <3>2
  <2> QED BY <2>1, <2>2 DEF JobType
<1>8. DOMAIN life = E \cup L /\ E \cap L = {}
  BY <1>2
<1>9. Cardinality(DOMAIN life) = Len(life)
  <2>1. \A n \in Nat : Cardinality(1 .. n) = n
    <3>1. \A n \in Nat : Cardinality(1 .. n) = IF 1 > n THEN 0 ELSE n - 1 + 1
      BY FS_Interval
    <3> QED BY <3>1
  <2> QED BY <1>1, <2>1
<1>10. Cardinality(E \cup L) = Cardinality(E) + Cardinality(L)
  <2>1. Cardinality(E \cap L) = 0
    BY <1>8, FS_EmptySet
  <2> HIDE DEF E, L
  <2>2. Cardinality(E \cup L) = Cardinality(E) + Cardinality(L) - Cardinality(E \cap L)
    BY <1>6, FS_Union
  <2> QED BY <1>6, <2>1, <2>2
<1>11. Len(life) = Cardinality(E) + Cardinality(L)
  BY <1>8, <1>9, <1>10
<1>12. MaxLife \in Nat /\ MaxLife >= 2 * N
  BY ConstantsAssumption DEF Roomy
<1> QED
  <2> HIDE DEF E, L, N
  <2> QED BY <1>1, <1>4, <1>6, <1>7, <1>11, <1>12

\* What waits after a job was added or the first one taken away.
LEMMA WaitsChange ==
  ASSUME NEW q \in Seq(LifeJob), NEW type, NEW s
  PROVE  /\ \A x \in LifeJob :
              Waits(Append(q, x), type, s) <=> Waits(q, type, s) \/ x = [type |-> type, s |-> s]
         /\ q # <<>> =>
              (Waits(q, type, s) <=> Waits(Tail(q), type, s) \/ Head(q) = [type |-> type, s |-> s])
         /\ ~Waits(<<>>, type, s)
<1>1. Len(q) \in Nat /\ DOMAIN q = 1 .. Len(q)
  BY LenProperties
<1>2. ASSUME NEW x \in LifeJob
      PROVE  Waits(Append(q, x), type, s) <=> Waits(q, type, s) \/ x = [type |-> type, s |-> s]
  <2>1. /\ DOMAIN Append(q, x) = 1 .. Len(q) + 1
        /\ \A i \in 1 .. Len(q) : Append(q, x)[i] = q[i]
        /\ Append(q, x)[Len(q) + 1] = x
    BY <1>1, AppendProperties
  <2> QED BY <1>1, <2>1 DEF Waits
<1>3. ASSUME q # <<>>
      PROVE  Waits(q, type, s) <=> Waits(Tail(q), type, s) \/ Head(q) = [type |-> type, s |-> s]
  <2>1. /\ Len(q) \in Nat \ {0} /\ DOMAIN Tail(q) = 1 .. Len(q) - 1 /\ Head(q) = q[1]
        /\ \A i \in 1 .. Len(q) - 1 : Tail(q)[i] = q[i + 1]
    BY <1>1, <1>3, HeadTailProperties, LenProperties, EmptySeq
  <2>2. \A i \in 1 .. Len(q) : i = 1 \/ (i - 1 \in 1 .. Len(q) - 1 /\ Tail(q)[i - 1] = q[i])
    BY <2>1
  <2> DEFINE x == [type |-> type, s |-> s]
  <2>3. ASSUME Waits(q, type, s) PROVE Waits(Tail(q), type, s) \/ Head(q) = x
    <3>1. PICK i \in 1 .. Len(q) : q[i] = x
      BY <1>1, <2>3 DEF Waits
    <3> QED BY <2>1, <2>2, <3>1 DEF Waits
  <2>4. ASSUME Waits(Tail(q), type, s) \/ Head(q) = x PROVE Waits(q, type, s)
    <3>1. CASE Head(q) = x
      <4>1. 1 \in DOMAIN q
        BY <1>1, <2>1
      <4> QED BY <2>1, <3>1, <4>1 DEF Waits
    <3>2. ASSUME NEW i \in DOMAIN Tail(q), Tail(q)[i] = x PROVE Waits(q, type, s)
      <4>1. i + 1 \in DOMAIN q /\ q[i + 1] = x
        BY <1>1, <2>1, <3>2
      <4> QED BY <4>1 DEF Waits
    <3> QED BY <2>4, <3>1, <3>2 DEF Waits
  <2> QED BY <2>3, <2>4
<1>4. DOMAIN <<>> = {}
  OBVIOUS
<1> QED BY <1>2, <1>3, <1>4 DEF Waits

\* A session waits to enter before it waits to leave, in one queue after another.
Lined(a, b) ==
  /\ \A i, j \in DOMAIN a : i < j => EnterFirst(a[i], a[j])
  /\ \A i, j \in DOMAIN b : i < j => EnterFirst(b[i], b[j])
  /\ \A i \in DOMAIN a, j \in DOMAIN b : EnterFirst(a[i], b[j])

\* A job at the end of the line keeps it a line, if all jobs before it may stand there.
LEMMA LinedAppend ==
  ASSUME NEW a \in Seq(LifeJob), NEW b \in Seq(LifeJob), Lined(a, b), NEW x \in LifeJob,
         \A i \in DOMAIN a : EnterFirst(a[i], x),
         \A i \in DOMAIN b : EnterFirst(b[i], x)
  PROVE  Lined(a, Append(b, x))
<1>1. Len(b) \in Nat /\ DOMAIN b = 1 .. Len(b)
  BY LenProperties
<1>2. /\ DOMAIN Append(b, x) = 1 .. Len(b) + 1
      /\ \A i \in 1 .. Len(b) : Append(b, x)[i] = b[i]
      /\ Append(b, x)[Len(b) + 1] = x
  BY <1>1, AppendProperties
<1>3. ASSUME NEW i \in 1 .. Len(b) + 1, NEW j \in 1 .. Len(b) + 1, i < j
      PROVE  EnterFirst(Append(b, x)[i], Append(b, x)[j])
  <2>1. i \in 1 .. Len(b)
    BY <1>1, <1>3
  <2>2. CASE j \in 1 .. Len(b)
    BY <1>1, <1>2, <1>3, <2>1, <2>2 DEF Lined
  <2>3. CASE j = Len(b) + 1
    BY <1>1, <1>2, <2>1, <2>3
  <2> QED BY <1>1, <2>2, <2>3
<1>4. ASSUME NEW i \in DOMAIN a, NEW j \in 1 .. Len(b) + 1 PROVE EnterFirst(a[i], Append(b, x)[j])
  <2>1. CASE j \in 1 .. Len(b)
    BY <1>1, <1>2, <2>1 DEF Lined
  <2>2. CASE j = Len(b) + 1
    BY <1>2, <2>2
  <2> QED BY <1>1, <2>1, <2>2
<1> QED BY <1>2, <1>3, <1>4 DEF Lined

\* The line without its first job; no Enter of a session stands behind its Leave.
LEMMA LinedTail ==
  ASSUME NEW a \in Seq(LifeJob), NEW b \in Seq(LifeJob), Lined(a, b), a # <<>>
  PROVE  /\ Lined(Tail(a), b)
         /\ Head(a).type = "Leave" => ~Waits(Tail(a), "Enter", Head(a).s) /\ ~Waits(b, "Enter", Head(a).s)
<1>1. /\ Len(a) \in Nat \ {0} /\ DOMAIN Tail(a) = 1 .. Len(a) - 1 /\ Head(a) = a[1]
      /\ DOMAIN a = 1 .. Len(a) /\ \A i \in 1 .. Len(a) - 1 : Tail(a)[i] = a[i + 1]
  BY HeadTailProperties, LenProperties, EmptySeq
<1>2. \A i \in DOMAIN Tail(a) : i + 1 \in DOMAIN a /\ Tail(a)[i] = a[i + 1] /\ i \in Nat
  BY <1>1
<1>3. \A i, j \in DOMAIN Tail(a) : i < j => EnterFirst(Tail(a)[i], Tail(a)[j])
  <2> SUFFICES ASSUME NEW i \in DOMAIN Tail(a), NEW j \in DOMAIN Tail(a), i < j
               PROVE  EnterFirst(Tail(a)[i], Tail(a)[j])
    OBVIOUS
  <2>1. i + 1 < j + 1
    BY <1>2
  <2> QED BY <1>2, <2>1 DEF Lined
<1>4. \A i \in DOMAIN Tail(a), j \in DOMAIN b : EnterFirst(Tail(a)[i], b[j])
  BY <1>2 DEF Lined
<1>5. ASSUME Head(a).type = "Leave"
      PROVE  ~Waits(Tail(a), "Enter", Head(a).s) /\ ~Waits(b, "Enter", Head(a).s)
  <2>1. 1 \in DOMAIN a /\ \A i \in DOMAIN Tail(a) : 1 < i + 1
    BY <1>1
  <2>2. \A i \in DOMAIN Tail(a) : EnterFirst(Head(a), Tail(a)[i])
    BY <1>1, <1>2, <2>1 DEF Lined
  <2>3. \A j \in DOMAIN b : EnterFirst(Head(a), b[j])
    BY <1>1, <2>1 DEF Lined
  <2> QED BY <1>5, <2>2, <2>3 DEF Waits, EnterFirst
<1> QED BY <1>3, <1>4, <1>5 DEF Lined

\* The line when the tick thread takes the batch over.
LEMMA LinedSwap ==
  ASSUME NEW b, Lined(<<>>, b)
  PROVE  Lined(b, <<>>)
<1>1. DOMAIN <<>> = {}
  OBVIOUS
<1> QED BY <1>1 DEF Lined

\* A step that neither queues, nor starts to close, nor empties the list, keeps the queue's facts.
LEMMA QueueKept ==
  ASSUME QueueInv, NEW t \in Thread, NEW p, NEW c, NEW r, Moved(t, p, c, r),
         pc[t] # "leave", p # "leave", UNCHANGED <<life, lives, closing>>,
         \A s \in Session : s \in Board' => s \in Board \/ Enters(s),
         \A s \in Session : s \in list /\ ~closing[s] => s \in list'
  PROVE  QueueInv'
<1>1. \A s \in Session : (Leaves(s)' <=> Leaves(s)) /\ (Enters(s)' <=> Enters(s))
  BY DEF Leaves, Enters, Waits
<1>2. \A u \in Thread : pc'[u] = "leave" <=> pc[u] = "leave"
  BY DEF Moved
<1>3. \A u \in Thread : pc[u] = "leave" => cur'[u] = cur[u]
  BY DEF Moved
<1>4. ASSUME NEW s \in Session, s \in Board' \/ Enters(s)' PROVE Kept(s)'
  <2>1. Kept(s)
    BY <1>1, <1>4 DEF QueueInv
  <2> QED BY <1>1, <1>2, <1>3, <2>1 DEF Kept
<1>5. \A u \in Thread : pc'[u] = "leave" => ~Leaves(cur[u])' /\ cur'[u] = cur[u]
  BY <1>2, <1>3 DEF QueueInv, Leaves, Waits
<1>6. \A u \in Thread : pc'[u] = "leave" => ~Leaves(cur[u])'
  BY <1>5
<1> QED BY <1>1, <1>3, <1>4, <1>5 DEF QueueInv, Leaves, Waits

\* CloseSession queues one Leave, and finds room for it.
LEMMA QueueClose ==
  ASSUME Inv, RoomToLeave, NEW t \in Thread, CloseSession(t)
  PROVE  QueueInv'
<1> USE Threads
<1>0. /\ pc[t] \in Closing /\ cur[t] \in Session /\ ret[t] # "leave" /\ Board' = Board /\ lives' = lives
      /\ TypeInv /\ PlaceInv /\ ListInv /\ SetupInv /\ QueueInv /\ life \in Seq(LifeJob) /\ lives \in Seq(LifeJob)
  <2>1. pc[t] \in Closing
    BY CloseMoves DEF CloseSession, Closing, CloseSteps, Inv
  <2>2. ret[t] # "leave"
    <3>1. PlaceOf(t, pc[t], cur[t], ret[t])
      BY DEF Inv, PlaceInv
    <3> QED BY <2>1, <3>1 DEF PlaceOf, TypeInv, StepsOK, Inv
  <2>3. Board' = Board /\ lives' = lives
    BY Frames DEF Board
  <2> QED BY <2>1, <2>2, <2>3, InHand DEF Closing, CloseSteps, FreeSteps, Inv, TypeInv, TypeOK
<1> DEFINE x == cur[t]
<1>1. CASE CloseExchange(t)
  <2>1. UNCHANGED <<life, lives, list>>
    BY <1>1 DEF CloseExchange, queueVars
  <2>2. CASE closing' = closing /\ Moved(t, ret[t], x, "none")
    <3>1. pc[t] # "leave"
      BY <1>0, <1>1, CloseMoves
    <3> QED BY <1>0, <2>1, <2>2, <3>1, QueueKept
  <2>3. CASE ~closing[x] /\ closing' = [closing EXCEPT ![x] = TRUE] /\ Moved(t, "leave", x, ret[t])
    <3>0. pc[t] = "exchange"
      BY <1>0, <1>1, CloseMoves
    <3>1. \A s \in Session : (Leaves(s)' <=> Leaves(s)) /\ (Enters(s)' <=> Enters(s))
      BY <2>1 DEF Leaves, Enters, Waits
    <3>2. \A s \in Session : closing'[s] <=> closing[s] \/ s = x
      BY <1>0, <2>3 DEF TypeInv, TypeOK
    <3>3. ~Leaves(x)
      BY <1>0, <2>3 DEF QueueInv
    <3>4. \A u \in Thread : pc'[u] = "leave" => ~Leaves(cur'[u]) /\ cur'[u] \in Session
      <4>1. \A u \in Thread : pc[u] = "leave" => cur[u] \in Session
        BY <1>0 DEF TypeInv, StepsOK, FreeSteps
      <4> QED BY <1>0, <2>3, <3>3, <4>1 DEF QueueInv, Moved
    <3>5. ASSUME NEW s \in Session, s \in Board' \/ Enters(s)' PROVE Kept(s)'
      <4>1. Kept(s)
        BY <1>0, <3>1, <3>5 DEF QueueInv
      <4>2. CASE s = x
        BY <2>3, <4>2 DEF Kept, Moved
      <4>3. CASE s # x
        BY <2>1, <2>3, <3>0, <3>1, <3>2, <4>1, <4>3 DEF Kept, Moved
      <4> QED BY <4>2, <4>3
    <3>6. \A s \in Session : Leaves(s)' => closing'[s]
      BY <1>0, <3>1, <3>2 DEF QueueInv
    <3>7. \A u \in Thread : pc'[u] = "leave" => ~Leaves(cur[u])'
      BY <2>1, <2>3, <3>4 DEF Moved, Leaves, Waits
    <3> QED BY <1>0, <2>1, <2>3, <3>4, <3>5, <3>6 DEF QueueInv, Leaves, Waits
  <2> QED BY <1>0, <1>1, <2>2, <2>3, CloseMoves
<1>2. CASE CloseLeave(t)
  <2>1. PushLife("Leave", x) /\ UNCHANGED <<closing, list>>
    BY <1>2 DEF CloseLeave
  <2>2. pc[t] = "leave" /\ Moved(t, "unlist", x, ret[t])
    BY <1>0, <1>2, CloseMoves
  <2>3. closing[x] /\ ~Leaves(x) /\ \A u \in Thread \ {t} : pc[u] = "leave" => cur[u] # x
    BY <1>0, <2>2 DEF ListInv, QueueInv, CloseSteps
  <2> DEFINE y == [type |-> "Leave", s |-> x]
  <2>4. y \in LifeJob
    BY <1>0 DEF LifeJob, JobType
  <2>5. life' = Append(life, y)
    <3>1. Len(life) < MaxLife
      BY <2>2 DEF RoomToLeave
    <3> QED BY <2>1, <3>1 DEF PushLife
  <2>6. Lined(lives', life')
    <3>1. Lined(lives, life)
      BY <1>0 DEF QueueInv, Lined
    <3>2. ASSUME NEW q \in Seq(LifeJob), ~Waits(q, "Leave", x), NEW i \in DOMAIN q PROVE EnterFirst(q[i], y)
      <4>1. q[i] \in LifeJob
        BY Entries
      <4>2. q[i] = [type |-> q[i].type, s |-> q[i].s] /\ q[i].type \in {"Enter", "Leave"}
        BY <4>1 DEF LifeJob, JobType
      <4> QED BY <3>2, <4>2 DEF Waits, EnterFirst
    <3>3. Lined(lives, Append(life, y))
      BY <1>0, <2>3, <2>4, <3>1, <3>2, LinedAppend DEF Leaves
    <3> QED BY <1>0, <2>5, <3>3
  <2>7. /\ \A s \in Session : Leaves(s)' <=> Leaves(s) \/ s = x
        /\ \A s \in Session : Enters(s)' <=> Enters(s)
    <3>1. \A type, s : Waits(life', type, s) <=> Waits(life, type, s) \/ y = [type |-> type, s |-> s]
      BY <1>0, <2>4, <2>5, WaitsChange
    <3>2. \A type, s : Waits(lives', type, s) <=> Waits(lives, type, s)
      BY <1>0
    <3>3. \A s : /\ y = [type |-> "Leave", s |-> s] <=> s = x
                 /\ y # [type |-> "Enter", s |-> s]
      OBVIOUS
    <3> QED BY <3>1, <3>2, <3>3 DEF Leaves, Enters, Waits
  <2>8. \A s \in Session : Leaves(s)' => closing'[s]
    BY <1>0, <2>1, <2>3, <2>7 DEF QueueInv
  <2>9. \A u \in Thread : pc'[u] = "leave" => pc[u] = "leave" /\ cur'[u] = cur[u] /\ cur[u] # x /\ cur[u] \in Session
    BY <1>0, <2>2, <2>3 DEF Moved, TypeInv, StepsOK, FreeSteps
  <2>10. ASSUME NEW s \in Session, s \in Board' \/ Enters(s)' PROVE Kept(s)'
    <3>1. Kept(s)
      BY <1>0, <2>7, <2>10 DEF QueueInv
    <3>2. CASE s = x
      BY <2>7, <3>2 DEF Kept
    <3>3. CASE s # x
      BY <2>1, <2>2, <2>7, <3>1, <3>3 DEF Kept, Moved
    <3> QED BY <3>2, <3>3
  <2>11. \A u \in Thread : pc'[u] = "leave" => ~(Waits(lives', "Leave", cur'[u]) \/ Waits(life', "Leave", cur'[u]))
    <3>1. \A s \in Session : Waits(lives', "Leave", s) \/ Waits(life', "Leave", s) <=> Leaves(s) \/ s = x
      BY <2>7 DEF Leaves, Waits
    <3> QED BY <1>0, <2>9, <3>1 DEF QueueInv
  <2> QED BY <2>6, <2>8, <2>10, <2>11 DEF QueueInv, Lined, Leaves, Waits
<1>3. CASE CloseUnlist(t)
  <2>1. list' = list \ {x} /\ UNCHANGED <<life, lives, closing>>
    BY <1>3 DEF CloseUnlist, queueVars
  <2>2. pc[t] = "unlist" /\ Moved(t, "shutdown", x, ret[t])
    BY <1>0, <1>3, CloseMoves
  <2>3. closing[x]
    BY <1>0, <2>2 DEF ListInv, CloseSteps
  <2> QED BY <1>0, <2>1, <2>2, <2>3, QueueKept
<1>4. CASE CloseShutdown(t)
  <2>1. UNCHANGED <<life, lives, closing, list>>
    BY <1>4 DEF CloseShutdown, queueVars
  <2>2. pc[t] = "shutdown" /\ Moved(t, "unref", x, ret[t])
    BY <1>0, <1>4, CloseMoves
  <2> QED BY <1>0, <2>1, <2>2, QueueKept
<1>5. CASE CloseUnref(t)
  <2>1. UNCHANGED <<life, lives, closing, list>>
    BY <1>5 DEF CloseUnref, queueVars
  <2>2. pc[t] = "unref" /\ Moved(t, ret[t], x, "none")
    BY <1>0, <1>5, CloseMoves
  <2> QED BY <1>0, <2>1, <2>2, QueueKept
<1> QED BY <1>1, <1>2, <1>3, <1>4, <1>5 DEF CloseSession

\* main queues an Enter for a session nobody has seen before.
LEMMA QueueMain ==
  ASSUME Inv, MainOwn
  PROVE  QueueInv'
<1> USE Threads
<1>0. /\ TypeInv /\ ListInv /\ RefInv /\ SetupInv /\ QueueInv /\ NoUseAfterFree
      /\ life \in Seq(LifeJob) /\ lives \in Seq(LifeJob)
      /\ lives' = lives /\ Board' = Board
  BY InUse, OwnFrames DEF Inv, Board, TypeInv, TypeOK
<1>1. ASSUME NEW x \in Session, Accept(x) PROVE QueueInv'
  <2>1. /\ x \notin alloc /\ closing' = [closing EXCEPT ![x] = FALSE] /\ list' = list /\ life' = life
    BY <1>1 DEF Accept, queueVars
  <2>2. pc["main"] = "accept" /\ Moved("main", "add", x, ret["main"])
    BY <1>0, <1>1, MainMoves
  <2>3. Holders(x) = 0
    BY <1>0, <2>1 DEF RefInv, RefsBalance
  <2>4. ~Leaves(x) /\ ~Enters(x) /\ x \notin Board /\ x \notin list
    <3>1. /\ \A i \in DOMAIN life : life[i].s # x
          /\ \A i \in DOMAIN lives : lives[i].s # x
      BY <1>0, <2>3, Unheld
    <3> QED BY <1>0, <2>1, <3>1 DEF Leaves, Enters, Waits, NoUseAfterFree, Board
  <2>5. \A s \in Session : (Leaves(s)' <=> Leaves(s)) /\ (Enters(s)' <=> Enters(s))
    BY <1>0, <2>1 DEF Leaves, Enters, Waits
  <2>6. \A s \in Session : s # x => closing'[s] = closing[s]
    BY <1>0, <2>1 DEF TypeInv, TypeOK
  <2>7. \A s \in Session : Leaves(s)' => closing'[s]
    BY <1>0, <2>4, <2>5, <2>6 DEF QueueInv
  <2>8. \A u \in Thread : pc'[u] = "leave" => pc[u] = "leave" /\ cur'[u] = cur[u]
    BY <2>2 DEF Moved
  <2>9. \A u \in Thread : pc[u] = "leave" => pc'[u] = "leave" /\ cur'[u] = cur[u]
    BY <2>2 DEF Moved
  <2>10. ASSUME NEW s \in Session, s \in Board' \/ Enters(s)' PROVE Kept(s)'
    <3>1. s # x /\ Kept(s)
      BY <1>0, <2>4, <2>5, <2>10 DEF QueueInv
    <3> QED BY <2>1, <2>5, <2>6, <2>9, <3>1 DEF Kept
  <2>11. \A u \in Thread : pc'[u] = "leave" => ~(Waits(lives', "Leave", cur'[u]) \/ Waits(life', "Leave", cur'[u]))
    BY <1>0, <2>1, <2>8 DEF QueueInv, Leaves
  <2> QED BY <1>0, <2>1, <2>7, <2>10, <2>11 DEF QueueInv, Leaves, Waits
<1>2. CASE PushEnter
  <2> DEFINE x == cur["main"]
             y == [type |-> "Enter", s |-> x]
  <2>1. PushLife("Enter", x) /\ UNCHANGED <<closing, list>>
    BY <1>2 DEF PushEnter
  <2>2. pc["main"] = "enter" /\ Moved("main", "recvref", x, ret["main"])
    BY <1>0, <1>2, MainMoves
  <2>3. x \in Session /\ x \in list /\ Untouched(x)
    BY <1>0, <2>2 DEF SetupInv, TypeInv, StepsOK, FreeSteps
  <2>4. y \in LifeJob
    BY <2>3 DEF LifeJob, JobType
  <2>12. CASE life' = life
    BY <1>0, <2>1, <2>2, <2>12, QueueKept
  <2>5. CASE life' = Append(life, y)
    <3>6. Lined(lives', life')
      <4>1. Lined(lives, life)
        BY <1>0 DEF QueueInv, Lined
      <4>2. /\ \A i \in DOMAIN life : EnterFirst(life[i], y)
            /\ \A i \in DOMAIN lives : EnterFirst(lives[i], y)
        BY <2>3 DEF Untouched, EnterFirst
      <4>3. Lined(lives, Append(life, y))
        BY <1>0, <2>4, <4>1, <4>2, LinedAppend
      <4> QED BY <1>0, <2>5, <4>3
    <3>7. /\ \A s \in Session : Leaves(s)' <=> Leaves(s)
          /\ \A s \in Session : Enters(s)' <=> Enters(s) \/ s = x
      <4>1. \A type, s : Waits(life', type, s) <=> Waits(life, type, s) \/ y = [type |-> type, s |-> s]
        BY <1>0, <2>4, <2>5, WaitsChange
      <4>2. \A type, s : Waits(lives', type, s) <=> Waits(lives, type, s)
        BY <1>0
      <4>3. \A s : /\ y = [type |-> "Enter", s |-> s] <=> s = x
                   /\ y # [type |-> "Leave", s |-> s]
        OBVIOUS
      <4> QED BY <4>1, <4>2, <4>3 DEF Leaves, Enters, Waits
    <3>8. \A s \in Session : Leaves(s)' => closing'[s]
      BY <1>0, <2>1, <3>7 DEF QueueInv
    <3>9. \A u \in Thread : /\ pc'[u] = "leave" => pc[u] = "leave" /\ cur'[u] = cur[u] /\ cur[u] \in Session
                            /\ pc[u] = "leave" => pc'[u] = "leave" /\ cur'[u] = cur[u]
      BY <1>0, <2>2 DEF Moved, TypeInv, StepsOK, FreeSteps
    <3>10. ASSUME NEW s \in Session, s \in Board' \/ Enters(s)' PROVE Kept(s)'
      <4>1. CASE s = x
        BY <2>1, <2>3, <4>1 DEF Kept, Untouched
      <4>2. CASE s # x
        <5>1. Kept(s)
          BY <1>0, <3>7, <3>10, <4>2 DEF QueueInv
        <5> QED BY <2>1, <3>7, <3>9, <5>1 DEF Kept
      <4> QED BY <4>1, <4>2
    <3>11. \A u \in Thread : pc'[u] = "leave" => ~(Waits(lives', "Leave", cur'[u]) \/ Waits(life', "Leave", cur'[u]))
      <4>1. \A s \in Session : Waits(lives', "Leave", s) \/ Waits(life', "Leave", s) <=> Leaves(s)
        BY <3>7 DEF Leaves, Waits
      <4> QED BY <1>0, <3>9, <4>1 DEF QueueInv
    <3> QED BY <3>6, <3>8, <3>10, <3>11 DEF QueueInv, Lined, Leaves, Waits
  <2> QED BY <2>1, <2>5, <2>12 DEF PushLife
<1>3. CASE \/ AddSession \/ ListFull \/ Associate \/ MainRelease \/ CollectAll \/ CloseRef
           \/ Drain \/ Join \/ Exit \/ \E x \in Session : CloseNext(x)
  <2>1. UNCHANGED <<life, closing>> /\ list \subseteq list'
    BY <1>3 DEF AddSession, ListFull, Associate, MainRelease, CollectAll, CloseRef, Drain, Join,
       Exit, CloseNext, queueVars
  <2>2. \E p, c, r : Moved("main", p, c, r) /\ p # "leave" /\ pc["main"] # "leave"
    BY <1>0, <1>3, MainMoves
  <2> QED BY <1>0, <2>1, <2>2, QueueKept
<1> QED BY <1>1, <1>2, <1>3 DEF MainOwn

\* The tick thread takes the batch over, and finishes its jobs in their order.
LEMMA QueueTick ==
  ASSUME Inv, TickOwn
  PROVE  QueueInv'
<1> USE Threads
<1>0. /\ TypeInv /\ TickInv /\ QueueInv /\ life \in Seq(LifeJob) /\ lives \in Seq(LifeJob)
      /\ UNCHANGED <<closing, list>> /\ Lined(lives, life)
      /\ Cardinality({}) = 0
  BY OwnFrames, FS_EmptySet DEF Inv, TypeInv, TypeOK, QueueInv, Lined
<1>1. \E p, c, r : Moved("tick", p, c, r) /\ p # "leave" /\ pc["tick"] # "leave"
  BY <1>0, TickMoves DEF TickOwn
<1>2. \A u \in Thread : /\ pc'[u] = "leave" <=> pc[u] = "leave"
                        /\ pc[u] = "leave" => cur'[u] = cur[u] /\ cur[u] \in Session
  BY <1>0, <1>1 DEF Moved, TypeInv, StepsOK, FreeSteps
<1>3. ASSUME Lined(lives', life'), Board' = Board,
             \A s \in Session : Leaves(s)' <=> Leaves(s) \/ FALSE,
             \A s \in Session : Enters(s)' => Enters(s)
      PROVE  QueueInv'
  <2>1. \A s \in Session : Leaves(s)' => closing'[s]
    BY <1>0, <1>3 DEF QueueInv
  <2>2. ASSUME NEW s \in Session, s \in Board' \/ Enters(s)' PROVE Kept(s)'
    <3>1. Kept(s)
      BY <1>0, <1>3, <2>2 DEF QueueInv
    <3> QED BY <1>0, <1>2, <1>3, <3>1 DEF Kept
  <2>3. \A u \in Thread : pc'[u] = "leave" => ~(Waits(lives', "Leave", cur'[u]) \/ Waits(life', "Leave", cur'[u]))
    <3>1. \A s \in Session : Waits(lives', "Leave", s) \/ Waits(life', "Leave", s) <=> Leaves(s)
      BY <1>3 DEF Leaves, Waits
    <3> QED BY <1>0, <1>2, <3>1 DEF QueueInv
  <2> QED BY <1>3, <2>1, <2>2, <2>3 DEF QueueInv, Lined, Leaves, Waits
<1>4. CASE Swap
  <2>0. Board' = Board
    BY <1>4 DEF Swap, boardVars, Board
  <2>1. CASE UNCHANGED queueVars
    BY <1>0, <1>1, <2>0, <2>1, QueueKept DEF queueVars
  <2>2. CASE lives' = life /\ life' = <<>>
    <3>1. lives = <<>>
      BY <1>0, <1>4, TickMoves DEF TickInv
    <3>2. Lined(lives', life')
      BY <1>0, <2>2, <3>1, LinedSwap
    <3>3. \A type, s : ~Waits(<<>>, type, s)
      BY WaitsChange, EmptySeq
    <3>4. \A s \in Session : (Leaves(s)' <=> Leaves(s)) /\ (Enters(s)' <=> Enters(s))
      <4>1. \A type, s : /\ Waits(lives', type, s) <=> Waits(life, type, s)
                         /\ ~Waits(life', type, s) /\ ~Waits(lives, type, s)
        BY <2>2, <3>1, <3>3
      <4> QED BY <4>1 DEF Leaves, Enters, Waits
    <3> QED BY <1>3, <2>0, <3>2, <3>4
  <2> QED BY <1>4, <2>1, <2>2 DEF Swap
<1>5. CASE LifeRef
  <2>0. Board' = Board /\ life' = life /\ lives' = Tail(lives) /\ pc["tick"] = "liferef"
    BY <1>0, <1>5, TickMoves DEF LifeRef, boardVars, Board
  <2>1. lives # <<>>
    BY <1>0, <2>0 DEF TypeInv, StepsOK
  <2>2. Lined(lives', life') /\ (Head(lives).type = "Leave" =>
          ~Waits(lives', "Enter", Head(lives).s) /\ ~Waits(life', "Enter", Head(lives).s))
    BY <1>0, <2>0, <2>1, LinedTail
  <2>3. \A type, s : Waits(lives, type, s) <=> Waits(lives', type, s) \/ Head(lives) = [type |-> type, s |-> s]
    BY <1>0, <2>0, <2>1, WaitsChange
  <2>9. Head(lives) \in LifeJob
    BY <1>0, <2>1, Entries
  <2>10. PICK x \in Session : x = Head(lives).s
    BY <2>9 DEF LifeJob
  <2>4. Head(lives) = [type |-> Head(lives).type, s |-> x] /\ Head(lives).type \in {"Enter", "Leave"}
    BY <2>9, <2>10 DEF LifeJob, JobType
  <2>5. \A s \in Session : (Leaves(s)' => Leaves(s)) /\ (Enters(s)' => Enters(s))
    BY <2>0, <2>3 DEF Leaves, Enters, Waits
  <2>6. \A s \in Session : Leaves(s) => Leaves(s)' \/ (s = x /\ Head(lives).type = "Leave")
    BY <2>0, <2>3, <2>4 DEF Leaves, Waits
  <2>7. CASE Head(lives).type = "Enter"
    BY <1>3, <2>0, <2>2, <2>5, <2>6, <2>7
  <2>8. CASE Head(lives).type = "Leave"
    <3>1. x \notin Board'
      BY <1>0, <2>0, <2>8, <2>10 DEF TickInv
    <3>2. ~Enters(x)'
      <4>1. ~Waits(lives', "Enter", x) /\ ~Waits(life', "Enter", x)
        BY <2>2, <2>8, <2>10
      <4> QED BY <4>1 DEF Enters, Waits
    <3>3. \A s \in Session : Leaves(s)' => closing'[s]
      BY <1>0, <2>5 DEF QueueInv
    <3>4. ASSUME NEW s \in Session, s \in Board' \/ Enters(s)' PROVE Kept(s)'
      <4>1. Kept(s) /\ s # x
        BY <1>0, <2>0, <2>5, <3>1, <3>2, <3>4 DEF QueueInv
      <4> QED BY <1>0, <1>2, <2>6, <4>1 DEF Kept
    <3>5. \A u \in Thread : pc'[u] = "leave" => ~(Waits(lives', "Leave", cur'[u]) \/ Waits(life', "Leave", cur'[u]))
      <4>1. \A s \in Session : Waits(lives', "Leave", s) \/ Waits(life', "Leave", s) => Leaves(s)
        BY <2>5 DEF Leaves, Waits
      <4> QED BY <1>0, <1>2, <4>1 DEF QueueInv
    <3> QED BY <2>2, <3>3, <3>4, <3>5 DEF QueueInv, Lined, Leaves, Waits
  <2> QED BY <2>4, <2>7, <2>8
<1>6. CASE HandleEnter
  <2>1. UNCHANGED <<life, lives>> /\ lives # <<>> /\ Head(lives).type = "Enter"
        /\ Board' \subseteq Board \cup {Head(lives).s}
    BY <1>6 DEF HandleEnter, queueVars, Board
  <2>2. Enters(Head(lives).s)
    <3>1. Head(lives) \in LifeJob /\ lives[1] = Head(lives) /\ 1 \in DOMAIN lives
      BY <1>0, <2>1, Entries
    <3>2. lives[1] = [type |-> "Enter", s |-> Head(lives).s]
      BY <2>1, <3>1 DEF LifeJob
    <3> QED BY <3>1, <3>2 DEF Enters, Waits
  <2> QED BY <1>0, <1>1, <2>1, <2>2, QueueKept
<1>7. CASE \/ HandleLeave \/ HandlePacket \/ JobRef \/ Game \/ CollectTargets \/ TickEnd \/ NextTarget
           \/ SendCheck \/ SendPush \/ SendFull \/ Sent
  <2>1. UNCHANGED <<life, lives>>
    BY <1>7 DEF HandleLeave, HandlePacket, JobRef, Game, CollectTargets, TickEnd, NextTarget,
       SendCheck, SendPush, SendFull, Sent, queueVars
  <2>2. Board' \subseteq Board
    BY <1>0, <1>7, TickMoves DEF HandleLeave, HandlePacket, JobRef, Game, CollectTargets, TickEnd,
       NextTarget, SendCheck, SendPush, SendFull, Sent, boardVars, Board
  <2> QED BY <1>0, <1>1, <2>1, <2>2, QueueKept
<1> QED BY <1>4, <1>5, <1>6, <1>7 DEF TickOwn

\* The queue is in order, and nobody is on the board as a ghost, after any step.
LEMMA QueueStep ==
  ASSUME Inv, RoomToLeave, [Next]_vars
  PROVE  QueueInv'
<1> USE Threads
<1>0. TypeInv /\ QueueInv /\ PlaceInv
  BY DEF Inv
<1>1. ASSUME NEW t \in Thread \ {"tick"}, PostRecv(t) PROVE QueueInv'
  <2>1. UNCHANGED <<life, lives, closing, list>> /\ Board' = Board
    BY <1>1, Frames DEF Board
  <2>2. \E p, c, r : Moved(t, p, c, r) /\ p # "leave" /\ pc[t] # "leave"
    BY <1>0, <1>1, RecvMoves DEF PostRecv, AfterRecv
  <2> QED BY <1>0, <2>1, <2>2, QueueKept
<1>2. ASSUME NEW t \in Thread \ {"main"}, StartSend(t) PROVE QueueInv'
  <2>1. UNCHANGED <<life, lives, closing, list>> /\ Board' = Board
    BY <1>2, Frames DEF Board
  <2>2. \E p, c, r : Moved(t, p, c, r) /\ p # "leave" /\ pc[t] # "leave"
    BY <1>0, <1>2, SendMoves DEF StartSend, AfterSend
  <2> QED BY <1>0, <2>1, <2>2, QueueKept
<1>3. ASSUME NEW w \in Worker, WorkerOwn(w) PROVE QueueInv'
  <2>1. UNCHANGED <<life, lives, closing, list>> /\ Board' = Board
    BY <1>3, OwnFrames DEF Board
  <2>2. \E p, c, r : Moved(w, p, c, r) /\ p # "leave" /\ pc[w] # "leave"
    BY <1>0, <1>3, WorkerMoves DEF WorkerOwn
  <2> QED BY <1>0, <2>1, <2>2, QueueKept
<1>4. CASE UNCHANGED vars \/ \E x \in Session : CompletionLost(x)
  <2>1. UNCHANGED <<life, lives, closing, list>> /\ Board' = Board /\ UNCHANGED threadVars
    BY <1>4 DEF vars, CompletionLost, queueVars, boardVars, Board
  <2> QED BY <1>0, <2>1 DEF QueueInv, Leaves, Enters, Waits, Kept, threadVars
<1> QED BY <1>1, <1>2, <1>3, <1>4, Steps, QueueClose, QueueMain, QueueTick

-----------------------------------------------------------------------------
(* The invariant, and what it says.                                        *)

\* Nobody waits in an empty batch.
LEMMA NoTimes ==
  ASSUME NEW s
  PROVE  LifeTimes(<<>>, s) = 0 /\ Times(<<>>, s) = 0
<1>1. DOMAIN <<>> = {}
  OBVIOUS
<1>2. /\ {i \in DOMAIN <<>> : <<>>[i] = s} = {}
      /\ {i \in DOMAIN <<>> : <<>>[i].s = s} = {}
  BY <1>1
<1> QED BY <1>2, FS_EmptySet DEF LifeTimes, Times

\* Nothing is accepted yet.
LEMMA InitInv == Init => Inv
<1> SUFFICES ASSUME Init PROVE Inv
  OBVIOUS
<1> USE Threads
<1>1. TypeInv
  BY TypeInit
<1>2. /\ \A t \in Thread : /\ pc[t] = IF t = "main" THEN "accept" ELSE IF t = "tick" THEN "swap" ELSE "idle"
                           /\ cur[t] = NoSession /\ ret[t] = "none"
      /\ alloc = {} /\ list = {} /\ leftovers = {} /\ targets = {} /\ Board = {} /\ mode = "none"
      /\ life = <<>> /\ lives = <<>> /\ jobs = <<>> /\ pkts = <<>>
      /\ \A s \in Session : ref[s] = 0 /\ recvIO[s] = "none" /\ sendIO[s] = "none" /\ ~closing[s]
  BY DEF Init, Board
<1>3. PlaceInv
  <2>1. \A t \in Thread : PlaceOf(t, pc[t], cur[t], ret[t])
    BY <1>2 DEF PlaceOf, MainSteps, WorkSteps, TickSteps, Closing, CloseSteps, FreeSteps
  <2> QED BY <1>2, <2>1 DEF PlaceInv
<1>4. TickInv
  BY <1>2 DEF TickInv, PacketSteps
<1>5. ListInv
  <2>1. Cardinality(list) <= MaxSession
    BY <1>2, FS_EmptySet, ConstantsAssumption
  <2> QED BY <1>2, <2>1 DEF ListInv, CloseSteps
<1>6. SetupInv
  BY <1>2 DEF SetupInv
<1>7. OwnInv
  BY <1>2 DEF OwnInv, RecvOwn, SendOwn, RecvHand, SendHand, RecvSteps, OwnSteps
<1>8. DOMAIN <<>> = {} /\ Cardinality({}) = 0
  BY FS_EmptySet
<1>9. RefInv
  <2>1. ASSUME NEW s \in Session PROVE Holders(s) = 0
    <3>1. /\ ~Listed(s) /\ Working(s) = {} /\ Ordering(s) = {}
          /\ cur["main"] # s /\ cur["tick"] # s
      BY <1>2, ConstantsAssumption DEF Listed, Has, Working, Ordering, Handed
    <3>2. /\ LifeTimes(life, s) = 0 /\ LifeTimes(lives, s) = 0
          /\ Times(pkts, s) = 0 /\ Times(jobs, s) = 0
      BY <1>2, NoTimes
    <3>3. /\ Count(Listed(s)) = 0 /\ Count(cur["main"] = s) = 0 /\ Count(s \in leftovers) = 0
          /\ Count(recvIO[s] # "none") = 0 /\ Count(sendIO[s] # "none") = 0
          /\ Count(Sends /\ s \in targets) = 0 /\ Count(Sends /\ cur["tick"] = s) = 0
      BY <1>2, <3>1 DEF Count
    <3>4. Cardinality(Working(s)) = 0 /\ Cardinality(Ordering(s)) = 0
      BY <1>8, <3>1
    <3> QED BY <3>2, <3>3, <3>4, HoldersSum
  <2> QED BY <1>2, <2>1 DEF RefInv, RefsBalance
<1>10. QueueInv
  BY <1>2, <1>8 DEF QueueInv, Leaves, Enters, Waits
<1> QED BY <1>1, <1>3, <1>4, <1>5, <1>6, <1>7, <1>9, <1>10 DEF Inv

\* Every step keeps it, as long as no Leave is dropped and no session closed too early.
LEMMA InvStep ==
  ASSUME EarlyClose = FALSE, Inv, RoomToLeave, [Next]_vars
  PROVE  Inv'
<1>1. TypeInv'
  BY TypeStep DEF Inv
<1>2. PlaceInv'
  BY PlaceStep DEF Inv
<1>3. TickInv'
  BY TickStep DEF Inv
<1>4. ListInv'
  BY ListStep DEF Inv
<1>5. SetupInv'
  BY SetupStep DEF Inv
<1>6. OwnInv'
  <2>1. RecvOwn'
    BY RecvStep DEF Inv, OwnInv
  <2>2. SendOwn'
    BY SendStep DEF Inv, OwnInv
  <2> QED BY <2>1, <2>2 DEF OwnInv
<1>7. RefInv'
  BY <1>1, RefStep
<1>8. QueueInv'
  BY QueueStep
<1> QED BY <1>1, <1>2, <1>3, <1>4, <1>5, <1>6, <1>7, <1>8 DEF Inv

\* A buffer that has an entry for an Enter and a Leave of every session never drops one.
LEMMA RoomyLeaves == ASSUME Roomy, Inv PROVE RoomToLeave
<1> SUFFICES ASSUME NEW t \in Thread, pc[t] = "leave" PROVE Len(life) < MaxLife
  BY DEF RoomToLeave
<1>1. cur[t] \in Session /\ ~Waits(life, "Leave", cur[t]) /\ TypeInv
  BY InHand DEF FreeSteps, Inv, QueueInv, Leaves
<1>2. \A i, j \in DOMAIN life : i < j => EnterFirst(life[i], life[j])
  BY DEF Inv, QueueInv
<1> QED BY <1>1, <1>2, RoomLeft DEF JobType

\* What the invariant says in the words of the runs.
LEMMA InvSays == Inv => RefsBalance /\ NoUseAfterFree /\ NoGhost
<1> SUFFICES ASSUME Inv PROVE RefsBalance /\ NoUseAfterFree /\ NoGhost
  OBVIOUS
<1>1. NoGhost
  <2> SUFFICES ASSUME NEW s \in seated \cup viewers
               PROVE  \/ s \in list /\ ~closing[s]
                      \/ \E t \in Thread : Has(t, s, {"leave"})
                      \/ LeaveQueued(s)
    BY DEF NoGhost
  <2>1. Kept(s)
    BY DEF Inv, QueueInv, Board, TypeInv, TypeOK
  <2> QED BY <2>1 DEF Kept, Leaves, Waits, LeaveQueued, Has
<1> QED BY <1>1, InUse DEF Inv, RefInv

-----------------------------------------------------------------------------
(* Nobody goes deaf or dumb.                                               *)

\* A thread with this step and return has the receive order, or is about to close.
Hears(p, r) == p \in RecvSteps \cup {"exchange"} \/ r = "repost"
Listens(s) ==
  closing[s] \/ recvIO[s] # "none" \/ \E t \in Thread : cur[t] = s /\ Hears(pc[t], ret[t])

\* Likewise for the send order; without the flag there is nothing to send.
Speaks(p) == p \in OwnSteps \cup {"exchange"}
Talks(s) ==
  \/ ~sending[s] \/ closing[s] \/ sendIO[s] # "none"
  \/ \E t \in Thread : cur[t] = s /\ Speaks(pc[t])

\* An announced session is listened to; while packets are queued the flag is up, and
\* while it is up somebody will send them.
HearInv == \A s \in list : InSetup(s) \/ Listens(s)
TalkInv == \A s \in Session : Talks(s) /\ (queued[s] > 0 => sending[s])

\* Whoever has the receive order hands it on, or closes.
LEMMA ListensKept ==
  ASSUME NEW s, Listens(s), NEW t \in Thread, NEW p, NEW c, NEW r, Moved(t, p, c, r),
         closing[s] => closing'[s],
         recvIO[s] # "none" => recvIO'[s] # "none" \/ (c = s /\ Hears(p, r)),
         cur[t] = s /\ Hears(pc[t], ret[t]) =>
           closing'[s] \/ recvIO'[s] # "none" \/ (c = s /\ Hears(p, r))
  PROVE  Listens(s)'
<1>1. CASE closing'[s] \/ recvIO'[s] # "none"
  BY <1>1 DEF Listens
<1>2. CASE c = s /\ Hears(p, r)
  <2>1. cur'[t] = s /\ Hears(pc'[t], ret'[t])
    BY <1>2 DEF Moved
  <2> QED BY <2>1 DEF Listens
<1>3. ASSUME NEW u \in Thread \ {t}, cur[u] = s, Hears(pc[u], ret[u]) PROVE Listens(s)'
  <2>1. cur'[u] = s /\ Hears(pc'[u], ret'[u])
    BY <1>3 DEF Moved
  <2> QED BY <2>1 DEF Listens
<1> QED BY <1>1, <1>2, <1>3 DEF Listens

\* Whoever has the send order hands it on, puts the flag down, or closes.
LEMMA TalksKept ==
  ASSUME NEW s, Talks(s), NEW t \in Thread, NEW p, NEW c, NEW r, Moved(t, p, c, r),
         closing[s] => closing'[s],
         ~sending[s] => ~sending'[s] \/ (c = s /\ Speaks(p)),
         sendIO[s] # "none" => sendIO'[s] # "none" \/ (c = s /\ Speaks(p)),
         cur[t] = s /\ Speaks(pc[t]) =>
           closing'[s] \/ ~sending'[s] \/ sendIO'[s] # "none" \/ (c = s /\ Speaks(p))
  PROVE  Talks(s)'
<1>1. CASE closing'[s] \/ ~sending'[s] \/ sendIO'[s] # "none"
  BY <1>1 DEF Talks
<1>2. CASE c = s /\ Speaks(p)
  <2>1. cur'[t] = s /\ Speaks(pc'[t])
    BY <1>2 DEF Moved
  <2> QED BY <2>1 DEF Talks
<1>3. ASSUME NEW u \in Thread \ {t}, cur[u] = s, Speaks(pc[u]) PROVE Talks(s)'
  <2>1. cur'[u] = s /\ Speaks(pc'[u])
    BY <1>3 DEF Moved
  <2> QED BY <2>1 DEF Talks
<1> QED BY <1>1, <1>2, <1>3 DEF Talks

\* A step of another thread than main, or of main outside the set-up, and a list that only shrinks.
LEMMA HearKept ==
  ASSUME HearInv, NEW t \in Thread, NEW p, NEW c, NEW r, Moved(t, p, c, r), list' \subseteq list,
         t = "main" => pc[t] \notin {"associate", "enter"},
         \A s \in list : Listens(s) => Listens(s)'
  PROVE  HearInv'
<1> SUFFICES ASSUME NEW s \in list' PROVE InSetup(s)' \/ Listens(s)'
  BY DEF HearInv
<1>1. InSetup(s) \/ Listens(s)
  BY DEF HearInv
<1>2. CASE InSetup(s)
  <2>1. t # "main" /\ cur'["main"] = s /\ pc'["main"] = pc["main"]
    BY <1>2, Threads DEF InSetup, Moved
  <2> QED BY <1>2, <2>1 DEF InSetup
<1> QED BY <1>1, <1>2

\* The receive order of an announced session is not forgotten by any step.
LEMMA HearStep ==
  ASSUME Inv, HearInv, [Next]_vars
  PROVE  HearInv'
<1> USE Threads
<1>0. /\ TypeInv /\ list \subseteq Session
      /\ \A t \in Thread : ret[t] = "repost" => pc[t] \in Closing
      /\ \A t \in Thread : pc[t] \notin FreeSteps => cur[t] \in Session
  BY InHand DEF Inv, PlaceInv, PlaceOf, TypeInv, TypeOK
<1>1. ASSUME NEW t \in Thread, CloseSession(t) PROVE HearInv'
  <2>1. recvIO' = recvIO /\ list' \subseteq list /\ pc[t] \in Closing /\ cur[t] \in Session
    BY <1>0, <1>1, Frames, CloseMoves
    DEF CloseSession, Closing, CloseSteps, FreeSteps, CloseExchange, CloseLeave, CloseUnlist,
        CloseShutdown, CloseUnref
  <2>2. closing \in [Session -> BOOLEAN]
    BY <1>0 DEF TypeInv, TypeOK
  <2>3. \A s \in Session : closing[s] => closing'[s]
    BY <1>0, <1>1, <2>1, <2>2, CloseMoves DEF CloseSession, CloseLeave, CloseUnlist, CloseShutdown, CloseUnref
  <2>4. ASSUME NEW s \in list, Listens(s) PROVE Listens(s)'
    <3>1. CASE CloseExchange(t)
      <4>1. closing'[cur[t]]
        BY <1>0, <2>1, <2>2, <3>1, CloseMoves
      <4>2. \E p, r : Moved(t, p, cur[t], r)
        BY <1>0, <3>1, CloseMoves
      <4> QED BY <1>0, <2>1, <2>3, <2>4, <4>1, <4>2, ListensKept
    <3>2. CASE CloseLeave(t) \/ CloseUnlist(t) \/ CloseShutdown(t)
      <4>1. pc[t] \in CloseSteps /\ \E p : Moved(t, p, cur[t], ret[t])
        BY <1>0, <3>2, CloseMoves DEF CloseSteps
      <4>2. \A p : Hears(pc[t], ret[t]) => Hears(p, ret[t])
        BY <4>1 DEF Hears, RecvSteps, CloseSteps
      <4> QED BY <1>0, <2>1, <2>3, <2>4, <4>1, <4>2, ListensKept
    <3>3. CASE CloseUnref(t)
      <4>1. pc[t] = "unref" /\ Moved(t, ret[t], cur[t], "none")
        BY <1>0, <3>3, CloseMoves
      <4>2. Hears(pc[t], ret[t]) => Hears(ret[t], "none")
        BY <4>1 DEF Hears, RecvSteps
      <4> QED BY <1>0, <2>1, <2>3, <2>4, <4>1, <4>2, ListensKept
    <3> QED BY <1>1, <3>1, <3>2, <3>3 DEF CloseSession
  <2>5. \E p, c, r : Moved(t, p, c, r)
    BY <1>0, <1>1, CloseMoves DEF CloseSession
  <2> QED BY <2>1, <2>4, <2>5, HearKept DEF Closing, CloseSteps
<1>2. ASSUME NEW t \in Thread \ {"tick"}, PostRecv(t) PROVE HearInv'
  <2>1. UNCHANGED <<closing, list>>
    BY <1>2, Frames
  <2>2. pc[t] \in {"recvref", "wsarecv"} /\ cur[t] \in Session
    BY <1>0, <1>2, RecvMoves DEF PostRecv, FreeSteps
  <2>3. \/ recvIO' = recvIO /\ \E p, r : Moved(t, p, cur[t], r) /\ Hears(p, r)
        \/ /\ recvIO' = [recvIO EXCEPT ![cur[t]] = "posted"]
           /\ \E p, r : Moved(t, p, cur[t], r)
    BY <1>0, <1>2, RecvMoves DEF PostRecv, RecvRef, RecvPosted, RecvFailed, sockVars, Hears, RecvSteps
  <2>4. ASSUME NEW s \in list, Listens(s) PROVE Listens(s)'
    <3>1. CASE recvIO' = recvIO /\ \E p, r : Moved(t, p, cur[t], r) /\ Hears(p, r)
      BY <2>1, <2>4, <3>1, ListensKept
    <3>2. CASE /\ recvIO' = [recvIO EXCEPT ![cur[t]] = "posted"]
               /\ \E p, r : Moved(t, p, cur[t], r)
      <4>1. recvIO'[cur[t]] # "none" /\ (recvIO[s] # "none" => recvIO'[s] # "none")
        BY <1>0, <2>2, <3>2 DEF TypeInv, TypeOK
      <4> QED BY <2>1, <2>4, <3>2, <4>1, ListensKept
    <3> QED BY <2>3, <3>1, <3>2
  <2> QED BY <2>1, <2>2, <2>3, <2>4, HearKept
<1>3. ASSUME NEW t \in Thread \ {"main"}, StartSend(t) PROVE HearInv'
  <2>1. UNCHANGED <<closing, list, recvIO>>
    BY <1>3, Frames
  <2>2. ~Hears(pc[t], ret[t]) /\ \E p, r : Moved(t, p, cur[t], r)
    BY <1>0, <1>3, SendMoves DEF StartSend, Hears, RecvSteps, Closing, CloseSteps
  <2> QED BY <2>1, <2>2, ListensKept, HearKept
<1>4. ASSUME NEW w \in Worker, WorkerOwn(w) PROVE HearInv'
  <2>1. UNCHANGED <<closing, list>>
    BY <1>4, OwnFrames
  <2>2. \E p, c, r : Moved(w, p, c, r)
    BY <1>0, <1>4, WorkerMoves DEF WorkerOwn
  <2>3. ASSUME NEW s \in list, Listens(s) PROVE Listens(s)'
    <3>1. ASSUME NEW x \in Session, TakeRecv(w, x) PROVE Listens(s)'
      <4>1. pc[w] = "idle" /\ recvIO' = [recvIO EXCEPT ![x] = "none"]
        BY <3>1 DEF TakeRecv, At
      <4>2. \E p, r : Moved(w, p, x, r) /\ Hears(p, r)
        BY <1>0, <3>1, WorkerMoves DEF Hears, RecvSteps
      <4>3. ~Hears(pc[w], ret[w])
        BY <1>0, <4>1 DEF Hears, RecvSteps, Closing, CloseSteps
      <4>4. s # x => recvIO'[s] = recvIO[s]
        BY <1>0, <4>1 DEF TypeInv, TypeOK
      <4> QED BY <2>1, <2>3, <4>2, <4>3, <4>4, ListensKept
    <3>2. CASE ProcessPacket(w) \/ ProcessEnd(w) \/ Repost(w)
      <4>1. recvIO' = recvIO
        BY <3>2 DEF ProcessPacket, ProcessEnd, Repost, sockVars
      <4>2. \E p, r : Moved(w, p, cur[w], r) /\ (Hears(p, r) \/ closing[cur[w]])
        BY <1>0, <3>2, WorkerMoves DEF Hears, RecvSteps
      <4> QED BY <2>1, <2>3, <4>1, <4>2, ListensKept
    <3>3. CASE \/ OnSent(w) \/ SendMore(w) \/ IoRelease(w) \/ WorkerExit(w)
               \/ \E x \in Session : TakeSend(w, x)
      <4>1. recvIO' = recvIO /\ pc[w] \in {"onsent", "more", "ioref", "idle"}
        BY <3>3 DEF OnSent, SendMore, IoRelease, WorkerExit, TakeSend, sockVars, At
      <4>2. ~Hears(pc[w], ret[w])
        BY <1>0, <4>1 DEF Hears, RecvSteps, Closing, CloseSteps
      <4> QED BY <2>1, <2>2, <2>3, <4>1, <4>2, ListensKept
    <3> QED BY <1>4, <3>1, <3>2, <3>3 DEF WorkerOwn
  <2> QED BY <2>1, <2>2, <2>3, HearKept
<1>5. CASE TickOwn
  <2>1. UNCHANGED <<closing, list, recvIO>>
    BY <1>5, OwnFrames
  <2>2. ~Hears(pc["tick"], ret["tick"]) /\ \E p, c, r : Moved("tick", p, c, r)
    BY <1>0, <1>5, TickMoves DEF TickOwn, Hears, RecvSteps, Closing, CloseSteps
  <2> QED BY <2>1, <2>2, ListensKept, HearKept
<1>6. CASE MainOwn
  <2>1. ~Hears(pc["main"], ret["main"]) /\ \E p, c, r : Moved("main", p, c, r)
    BY <1>0, <1>6, MainMoves DEF MainOwn, Hears, RecvSteps, Closing, CloseSteps
  <2>2. ASSUME NEW x \in Session, Accept(x) PROVE HearInv'
    <3>1. /\ closing' = [closing EXCEPT ![x] = FALSE] /\ recvIO' = [recvIO EXCEPT ![x] = "none"]
          /\ list' = list /\ x \notin alloc /\ pc["main"] = "accept"
      BY <2>2 DEF Accept, At
    <3>2. x \notin list
      BY <3>1, InUse DEF Inv, NoUseAfterFree
    <3>3. \A s \in list : closing'[s] = closing[s] /\ recvIO'[s] = recvIO[s]
      BY <1>0, <3>1, <3>2 DEF TypeInv, TypeOK
    <3> QED BY <2>1, <3>1, <3>3, ListensKept, HearKept
  <2>3. CASE AddSession
    <3>1. /\ list' = list \cup {cur["main"]} /\ UNCHANGED <<closing, recvIO>>
          /\ Moved("main", "associate", cur["main"], ret["main"]) /\ pc["main"] = "add"
      BY <1>0, <2>3, MainMoves DEF AddSession, sockVars
    <3>2. ASSUME NEW s \in list' PROVE InSetup(s)' \/ Listens(s)'
      <4>1. CASE s = cur["main"]
        BY <3>1, <4>1 DEF InSetup, Moved
      <4>2. CASE s \in list
        <5>1. Listens(s)
          BY <3>1, <4>2 DEF HearInv, InSetup
        <5> QED BY <2>1, <3>1, <5>1, ListensKept
      <4> QED BY <3>1, <4>1, <4>2
    <3> QED BY <3>2 DEF HearInv
  <2>4. CASE Associate \/ PushEnter
    <3>1. UNCHANGED <<list, closing, recvIO>> /\ pc["main"] \in {"associate", "enter"}
      BY <2>4 DEF Associate, PushEnter, sockVars, At
    <3>2. \E p, r : Moved("main", p, cur["main"], r) /\ (p = "enter" \/ Hears(p, r))
      BY <1>0, <2>4, MainMoves DEF Hears, RecvSteps
    <3>3. ASSUME NEW s \in list PROVE InSetup(s)' \/ Listens(s)'
      <4>1. CASE s = cur["main"]
        <5>1. PICK p, r : Moved("main", p, cur["main"], r) /\ (p = "enter" \/ Hears(p, r))
          BY <3>2
        <5>2. cur'["main"] = s /\ pc'["main"] = p /\ ret'["main"] = r
          BY <4>1, <5>1 DEF Moved
        <5>3. CASE p = "enter"
          BY <5>2, <5>3 DEF InSetup
        <5>4. CASE Hears(p, r)
          BY <5>2, <5>4 DEF Listens
        <5> QED BY <5>1, <5>3, <5>4
      <4>2. CASE s # cur["main"]
        <5>1. Listens(s)
          BY <4>2 DEF HearInv, InSetup
        <5> QED BY <2>1, <3>1, <3>2, <5>1, ListensKept
      <4> QED BY <4>1, <4>2
    <3> QED BY <3>1, <3>3 DEF HearInv
  <2>5. CASE \/ ListFull \/ MainRelease \/ CollectAll \/ CloseRef \/ Drain \/ Join \/ Exit
             \/ \E x \in Session : CloseNext(x)
    <3>1. UNCHANGED <<list, closing, recvIO>> /\ pc["main"] \notin {"associate", "enter"}
      BY <2>5 DEF ListFull, MainRelease, CollectAll, CloseRef, Drain, Join, Exit, CloseNext, sockVars, At
    <3> QED BY <2>1, <3>1, ListensKept, HearKept
  <2> QED BY <1>6, <2>2, <2>3, <2>4, <2>5 DEF MainOwn
<1>7. CASE UNCHANGED vars \/ \E x \in Session : CompletionLost(x)
  BY <1>7 DEF vars, CompletionLost, threadVars, sockVars, HearInv, Listens, InSetup
<1> QED BY <1>1, <1>2, <1>3, <1>4, <1>5, <1>6, <1>7, Steps

\* The packets of a session are not stranded by any step.
LEMMA TalkStep ==
  ASSUME Inv, TalkInv, [Next]_vars
  PROVE  TalkInv'
<1> USE Threads
<1>0. /\ TypeInv /\ closing \in [Session -> BOOLEAN] /\ sending \in [Session -> BOOLEAN]
      /\ queued \in [Session -> 0 .. SendCap] /\ SendCap \in Nat
      /\ sendIO \in [Session -> {"none", "posted", "lost"}]
      /\ \A t \in Thread : pc[t] \notin FreeSteps => cur[t] \in Session
  BY InHand, ConstantsAssumption DEF Inv, TypeInv, TypeOK
<1>1. ASSUME UNCHANGED <<sending, queued>>, \A s \in Session : Talks(s)' PROVE TalkInv'
  BY <1>1 DEF TalkInv
<1>2. ASSUME NEW t \in Thread, CloseSession(t) PROVE TalkInv'
  <2>1. UNCHANGED <<sending, queued, sendIO>>
    BY <1>2, Frames
  <2>2. pc[t] \in Closing /\ cur[t] \in Session
    BY <1>0, <1>2, CloseMoves DEF CloseSession, Closing, CloseSteps, FreeSteps
  <2>3. \E p, r : Moved(t, p, cur[t], r)
    BY <1>0, <1>2, CloseMoves DEF CloseSession
  <2>4. \A s \in Session : closing[s] => closing'[s]
    BY <1>0, <1>2, <2>2, CloseMoves DEF CloseSession, CloseLeave, CloseUnlist, CloseShutdown, CloseUnref
  <2>5. Speaks(pc[t]) => closing'[cur[t]]
    BY <1>0, <1>2, <2>2, CloseMoves DEF CloseSession, Speaks, OwnSteps
  <2> QED BY <1>1, <2>1, <2>3, <2>4, <2>5, TalksKept DEF TalkInv
<1>3. ASSUME NEW t \in Thread \ {"tick"}, PostRecv(t) PROVE TalkInv'
  <2>1. UNCHANGED <<closing, sending, queued, sendIO>>
    BY <1>3, Frames
  <2>2. ~Speaks(pc[t]) /\ \E p, c, r : Moved(t, p, c, r)
    BY <1>0, <1>3, RecvMoves DEF PostRecv, Speaks, OwnSteps
  <2> QED BY <1>1, <2>1, <2>2, TalksKept DEF TalkInv
<1>4. ASSUME NEW t \in Thread \ {"main"}, StartSend(t) PROVE TalkInv'
  <2>1. UNCHANGED <<closing, sending, queued>> /\ cur[t] \in Session
    BY <1>0, <1>4, Frames, SendMoves DEF StartSend, FreeSteps
  <2>2. CASE SendRef(t) \/ SendFailed(t) \/ SendDrop(t)
    <3>1. sendIO' = sendIO
      BY <2>2 DEF SendRef, SendFailed, SendDrop, sockVars
    <3>2. \E p, r : Moved(t, p, cur[t], r) /\ (Speaks(p) \/ ~Speaks(pc[t]))
      BY <1>0, <2>2, SendMoves DEF Speaks, OwnSteps
    <3> QED BY <1>1, <2>1, <3>1, <3>2, TalksKept DEF TalkInv
  <2>3. CASE SendPosted(t)
    <3>1. sendIO' = [sendIO EXCEPT ![cur[t]] = "posted"] /\ \E p, r : Moved(t, p, cur[t], r)
      BY <1>0, <2>3, SendMoves DEF SendPosted
    <3>2. sendIO'[cur[t]] # "none" /\ \A s \in Session : sendIO[s] # "none" => sendIO'[s] # "none"
      BY <1>0, <2>1, <3>1
    <3> QED BY <1>1, <2>1, <3>1, <3>2, TalksKept DEF TalkInv
  <2> QED BY <1>4, <2>2, <2>3 DEF StartSend
<1>5. ASSUME NEW w \in Worker, WorkerOwn(w) PROVE TalkInv'
  <2>1. closing' = closing
    BY <1>5, OwnFrames
  <2>2. ASSUME NEW x \in Session, TakeSend(w, x) PROVE TalkInv'
    <3>1. /\ pc[w] = "idle" /\ sendIO' = [sendIO EXCEPT ![x] = "none"]
          /\ UNCHANGED <<sending, queued>>
      BY <2>2 DEF TakeSend, At, sendVars
    <3>2. ~Speaks(pc[w]) /\ \E p, r : Moved(w, p, x, r) /\ Speaks(p)
      BY <1>0, <2>2, <3>1, WorkerMoves DEF Speaks, OwnSteps
    <3>3. \A s \in Session : s # x => sendIO'[s] = sendIO[s]
      BY <1>0, <3>1
    <3> QED BY <1>1, <2>1, <3>1, <3>2, <3>3, TalksKept DEF TalkInv
  <2>3. CASE OnSent(w)
    <3>1. pc[w] = "onsent" /\ cur[w] \in Session /\ sendIO' = sendIO
      BY <1>0, <2>3 DEF OnSent, At, sockVars, FreeSteps
    <3>2. PICK n \in 1 .. queued[cur[w]] :
            /\ queued' = [queued EXCEPT ![cur[w]] = @ - n]
            /\ IF n < queued[cur[w]]
               THEN Goto(w, "more") /\ UNCHANGED sending
               ELSE sending' = [sending EXCEPT ![cur[w]] = FALSE] /\ Goto(w, "ioref")
      BY <2>3 DEF OnSent
    <3>3. UNCHANGED <<cur, ret>>
      BY <2>3 DEF OnSent
    <3>4. queued[cur[w]] \in Nat /\ queued[cur[w]] > 0 /\ sending[cur[w]] /\ n \in Nat
      <4>1. queued[cur[w]] \in Nat /\ n \in Nat /\ queued[cur[w]] > 0
        BY <1>0, <3>1, <3>2
      <4> QED BY <3>1, <4>1 DEF TalkInv
    <3>5. CASE n < queued[cur[w]]
      <4>1. sending' = sending /\ Moved(w, "more", cur[w], ret[w])
        BY <1>0, <3>2, <3>3, <3>5, Jumps
      <4>2. \A s \in Session : queued'[s] > 0 => sending'[s]
        <5>1. \A s \in Session : s # cur[w] => queued'[s] = queued[s]
          BY <1>0, <3>2
        <5> QED BY <3>4, <4>1, <5>1 DEF TalkInv
      <4>3. \A s \in Session : Talks(s)'
        BY <2>1, <3>1, <4>1, TalksKept DEF TalkInv, Speaks, OwnSteps
      <4> QED BY <4>2, <4>3 DEF TalkInv
    <3>6. CASE ~(n < queued[cur[w]])
      <4>1. sending' = [sending EXCEPT ![cur[w]] = FALSE] /\ Moved(w, "ioref", cur[w], ret[w])
        BY <1>0, <3>2, <3>3, <3>6, Jumps
      <4>2. ~sending'[cur[w]] /\ queued'[cur[w]] = 0
        <5>1. n = queued[cur[w]]
          BY <3>2, <3>4, <3>6
        <5>2. ~sending'[cur[w]]
          BY <1>0, <3>1, <4>1
        <5> QED BY <1>0, <3>1, <3>2, <3>4, <5>1, <5>2
      <4>3. \A s \in Session : s # cur[w] => queued'[s] = queued[s] /\ sending'[s] = sending[s]
        BY <1>0, <3>2, <4>1
      <4>4. \A s \in Session : queued'[s] > 0 => sending'[s]
        BY <3>4, <4>2, <4>3 DEF TalkInv
      <4>5. \A s \in Session : Talks(s)'
        BY <2>1, <3>1, <4>1, <4>2, <4>3, TalksKept DEF TalkInv
      <4> QED BY <4>4, <4>5 DEF TalkInv
    <3> QED BY <3>5, <3>6
  <2>4. CASE SendMore(w)
    <3>1. UNCHANGED <<sending, queued, sendIO>>
      BY <2>4 DEF SendMore, sendVars, sockVars
    <3>2. \E p : Moved(w, p, cur[w], ret[w]) /\ (Speaks(p) \/ closing[cur[w]])
      BY <1>0, <2>4, WorkerMoves DEF Speaks, OwnSteps
    <3> QED BY <1>1, <2>1, <3>1, <3>2, TalksKept DEF TalkInv
  <2>5. CASE \/ ProcessPacket(w) \/ ProcessEnd(w) \/ Repost(w) \/ IoRelease(w) \/ WorkerExit(w)
             \/ \E x \in Session : TakeRecv(w, x)
    <3>1. UNCHANGED <<sending, queued, sendIO>>
      BY <2>5 DEF ProcessPacket, ProcessEnd, Repost, IoRelease, WorkerExit, TakeRecv, sendVars, sockVars
    <3>2. ~Speaks(pc[w]) /\ \E p, c, r : Moved(w, p, c, r)
      BY <1>0, <2>5, WorkerMoves DEF Speaks, OwnSteps
    <3> QED BY <1>1, <2>1, <3>1, <3>2, TalksKept DEF TalkInv
  <2> QED BY <1>5, <2>2, <2>3, <2>4, <2>5 DEF WorkerOwn
<1>6. CASE TickOwn
  <2>1. UNCHANGED <<closing, sendIO>>
    BY <1>6, OwnFrames
  <2>2. ~Speaks(pc["tick"]) /\ \E p, c, r : Moved("tick", p, c, r)
    BY <1>0, <1>6, TickMoves DEF TickOwn, Speaks, OwnSteps
  <2>3. CASE SendPush
    <3> DEFINE x == cur["tick"]
    <3>1. /\ pc["tick"] = "push" /\ queued' = [queued EXCEPT ![x] = @ + 1]
          /\ sending' = [sending EXCEPT ![x] = TRUE]
          /\ Moved("tick", IF sending[x] THEN "sent" ELSE "sendref", x, ret["tick"])
      BY <1>0, <2>3, TickMoves DEF SendPush
    <3>2. x \in Session
      BY <1>0, <3>1 DEF FreeSteps
    <3>3. /\ sending'[x]
          /\ \A s \in Session : s # x => queued'[s] = queued[s] /\ sending'[s] = sending[s]
      BY <1>0, <3>1, <3>2
    <3>4. \A s \in Session : queued'[s] > 0 => sending'[s]
      BY <3>3 DEF TalkInv
    <3>5. ASSUME NEW s \in Session PROVE Talks(s)'
      <4>1. CASE s = x /\ ~sending[s]
        BY <2>1, <2>2, <3>1, <4>1, TalksKept DEF TalkInv, Speaks, OwnSteps
      <4>2. CASE s # x \/ sending[s]
        BY <2>1, <2>2, <3>1, <3>3, <4>2, TalksKept DEF TalkInv
      <4> QED BY <4>1, <4>2
    <3> QED BY <3>4, <3>5 DEF TalkInv
  <2>4. CASE \/ Swap \/ HandleEnter \/ HandleLeave \/ LifeRef \/ HandlePacket \/ JobRef \/ Game
             \/ CollectTargets \/ TickEnd \/ NextTarget \/ SendCheck \/ SendFull \/ Sent
    <3>1. UNCHANGED <<sending, queued>>
      BY <2>4 DEF Swap, HandleEnter, HandleLeave, LifeRef, HandlePacket, JobRef, Game,
         CollectTargets, TickEnd, NextTarget, SendCheck, SendFull, Sent, sendVars
    <3> QED BY <1>1, <2>1, <2>2, <3>1, TalksKept DEF TalkInv
  <2> QED BY <1>6, <2>3, <2>4 DEF TickOwn
<1>7. CASE MainOwn
  <2>1. ~Speaks(pc["main"]) /\ \E p, c, r : Moved("main", p, c, r)
    BY <1>0, <1>7, MainMoves DEF MainOwn, Speaks, OwnSteps
  <2>2. ASSUME NEW x \in Session, Accept(x) PROVE TalkInv'
    <3>1. /\ closing' = [closing EXCEPT ![x] = FALSE] /\ sending' = [sending EXCEPT ![x] = FALSE]
          /\ queued' = [queued EXCEPT ![x] = 0] /\ sendIO' = [sendIO EXCEPT ![x] = "none"]
      BY <2>2 DEF Accept
    <3>2. /\ ~sending'[x] /\ queued'[x] = 0
          /\ \A s \in Session : s # x => /\ closing'[s] = closing[s] /\ sending'[s] = sending[s]
                                         /\ queued'[s] = queued[s] /\ sendIO'[s] = sendIO[s]
      BY <1>0, <3>1
    <3>3. \A s \in Session : queued'[s] > 0 => sending'[s]
      BY <3>2 DEF TalkInv
    <3>4. ASSUME NEW s \in Session PROVE Talks(s)'
      <4>1. CASE s = x
        BY <3>2, <4>1 DEF Talks
      <4>2. CASE s # x
        BY <2>1, <3>2, <4>2, TalksKept DEF TalkInv
      <4> QED BY <4>1, <4>2
    <3> QED BY <3>3, <3>4 DEF TalkInv
  <2>3. CASE \/ AddSession \/ ListFull \/ Associate \/ PushEnter \/ MainRelease \/ CollectAll
             \/ CloseRef \/ Drain \/ Join \/ Exit \/ \E x \in Session : CloseNext(x)
    <3>1. UNCHANGED <<closing, sending, queued, sendIO>>
      BY <2>3 DEF AddSession, ListFull, Associate, PushEnter, MainRelease, CollectAll, CloseRef,
         Drain, Join, Exit, CloseNext, sendVars, sockVars
    <3> QED BY <1>1, <2>1, <3>1, TalksKept DEF TalkInv
  <2> QED BY <1>7, <2>2, <2>3 DEF MainOwn
<1>8. ASSUME NEW x \in Session, CompletionLost(x) PROVE TalkInv'
  <2>1. /\ sendIO' = [sendIO EXCEPT ![x] = "lost"]
        /\ UNCHANGED <<closing, sending, queued, pc, cur>>
    BY <1>8 DEF CompletionLost, threadVars, sendVars
  <2>2. \A s \in Session : sendIO[s] # "none" => sendIO'[s] # "none"
    BY <1>0, <2>1
  <2> QED BY <2>1, <2>2 DEF TalkInv, Talks
<1>9. CASE UNCHANGED vars
  BY <1>9 DEF vars, threadVars, sockVars, sendVars, TalkInv, Talks
<1> QED BY <1>2, <1>3, <1>4, <1>5, <1>6, <1>7, <1>8, <1>9, Steps

\* A set that has at most one element.
LEMMA OneAtMost ==
  ASSUME NEW S, \A x, y \in S : x = y
  PROVE  /\ Cardinality(S) \in {0, 1}
         /\ S # {} => Cardinality(S) = 1
         /\ S = {} => Cardinality(S) = 0
<1>1. CASE S = {}
  BY <1>1, FS_EmptySet
<1>2. CASE S # {}
  <2>1. PICK x \in S : TRUE
    BY <1>2
  <2>2. S = {x}
    BY <2>1
  <2> QED BY <2>2, FS_Singleton
<1> QED BY <1>1, <1>2

\* What that says in the words of the run.
LEMMA OwnersSay == Inv /\ HearInv /\ TalkInv => BuffersOwned
<1> SUFFICES ASSUME Inv, HearInv, TalkInv PROVE BuffersOwned
  OBVIOUS
<1>0. /\ alloc \subseteq Session /\ RecvOwn /\ SendOwn
      /\ \A s \in Session : recvIO[s] \in {"none", "posted"}
  BY DEF Inv, TypeInv, TypeOK, OwnInv
<1>1. ASSUME NEW s \in Session
      PROVE  /\ RecvOwners(s) <= 1
             /\ s \in list /\ ~closing[s] /\ ~InSetup(s) => RecvOwners(s) = 1 \/ AboutToClose(s)
  <2> DEFINE T == {t \in Thread : \/ Has(t, s, {"recvref", "wsarecv", "process", "repost"})
                                  \/ (cur[t] = s /\ ret[t] = "repost")}
  <2>1. \A t : t \in T <=> t \in Thread /\ cur[t] = s /\ RecvHand(t)
    BY DEF RecvHand, RecvSteps, Has
  <2>2. (\A t, u \in T : t = u) /\ (T # {} => recvIO[s] = "none")
    BY <1>0, <2>1 DEF RecvOwn
  <2>3. /\ Cardinality(T) \in {0, 1}
        /\ T # {} => Cardinality(T) = 1
        /\ T = {} => Cardinality(T) = 0
    BY <2>2, OneAtMost
  <2>4. RecvOwners(s) = Count(recvIO[s] = "posted") + Cardinality(T)
    BY DEF RecvOwners
  <2> HIDE DEF T
  <2>5. RecvOwners(s) <= 1 /\ (recvIO[s] # "none" \/ T # {} => RecvOwners(s) = 1)
    BY <1>0, <2>2, <2>3, <2>4 DEF Count
  <2>6. ASSUME s \in list, ~closing[s], ~InSetup(s), ~AboutToClose(s) PROVE RecvOwners(s) = 1
    <3>1. Listens(s)
      BY <2>6 DEF HearInv
    <3>2. recvIO[s] # "none" \/ \E t \in Thread : cur[t] = s /\ RecvHand(t)
      BY <2>6, <3>1 DEF Listens, Hears, RecvHand, AboutToClose, Has
    <3> QED BY <2>1, <2>5, <3>2
  <2> QED BY <2>5, <2>6
<1>2. ASSUME NEW s \in Session
      PROVE  /\ SendOwners(s) <= 1
             /\ SendOwners(s) = 1 => sending[s]
             /\ queued[s] > 0 /\ ~closing[s] => SendOwners(s) = 1 \/ AboutToClose(s)
  <2> DEFINE T == {t \in Thread : Has(t, s, {"sendref", "wsasend", "onsent", "more"})}
  <2>1. \A t : t \in T <=> t \in Thread /\ cur[t] = s /\ SendHand(t)
    BY DEF SendHand, OwnSteps, Has
  <2>2. (\A t, u \in T : t = u) /\ (T # {} => sendIO[s] = "none" /\ sending[s])
        /\ (sendIO[s] # "none" => sending[s])
    BY <1>0, <2>1 DEF SendOwn
  <2>3. /\ Cardinality(T) \in {0, 1}
        /\ T # {} => Cardinality(T) = 1
        /\ T = {} => Cardinality(T) = 0
    BY <2>2, OneAtMost
  <2>4. SendOwners(s) = Count(sendIO[s] # "none") + Cardinality(T)
    BY DEF SendOwners
  <2> HIDE DEF T
  <2>5. /\ SendOwners(s) <= 1 /\ (SendOwners(s) = 1 => sending[s])
        /\ (sendIO[s] # "none" \/ T # {} => SendOwners(s) = 1)
    BY <2>2, <2>3, <2>4 DEF Count
  <2>6. ASSUME queued[s] > 0, ~closing[s], ~AboutToClose(s) PROVE SendOwners(s) = 1
    <3>1. Talks(s) /\ sending[s]
      BY <2>6 DEF TalkInv
    <3>2. sendIO[s] # "none" \/ \E t \in Thread : cur[t] = s /\ SendHand(t)
      BY <2>6, <3>1 DEF Talks, Speaks, SendHand, AboutToClose, Has
    <3> QED BY <2>1, <2>5, <3>2
  <2> QED BY <2>5, <2>6
<1> QED BY <1>0, <1>1, <1>2 DEF BuffersOwned, RecvOwned, SendOwned

-----------------------------------------------------------------------------
(* Nobody is accepted and forgotten.                                       *)

\* Whether one of the first n jobs of the line q is the Enter, or the Leave, of s.
First(q, n, type, s) == \E i \in 1 .. n : q[i] = [type |-> type, s |-> s]

\* With b in the room: who else is in it when the k-th job has its turn; and each
\* Enter finds the room, viewers included, not full.
Before(b, q, k) ==
  {x \in Session : /\ x \in b \/ First(q, k - 1, "Enter", x)
                   /\ ~First(q, k - 1, "Leave", x)
                   /\ x # q[k].s}
Admits(b, q) ==
  \A k \in 1 .. Len(q) : q[k].type = "Enter" => Cardinality(Before(b, q, k)) < MaxSession

\* Two batches of jobs in a row: the one being handled, the one being filled.
Line == lives \o life
AdmitInv == Admits(Board, Line)

\* Between an Enter and the end of its job the newcomer is in the room.
PlacedInv ==
  pc["tick"] = "liferef" \/ mode = "welcome" =>
    (Head(lives).type = "Enter" => Head(lives).s \in Board)

\* A thread at this step will announce, or close, the session it has in hand.
Tends(t, p) == p = "exchange" \/ (t = "main" /\ p \in {"associate", "enter"})
Known(s) ==
  \/ closing[s] \/ Enters(s) \/ s \in Board
  \/ \E t \in Thread : cur[t] = s /\ Tends(t, pc[t])
SeenInv == \A s \in list : Known(s)

\* Two batches in a row are a batch; what is added to the second is added to the row, what
\* is taken from the first is taken from the row.
LEMMA Row ==
  ASSUME NEW a \in Seq(LifeJob), NEW b \in Seq(LifeJob)
  PROVE  /\ a \o b \in Seq(LifeJob)
         /\ \A x \in LifeJob : a \o Append(b, x) = Append(a \o b, x)
         /\ a # <<>> => /\ a \o b # <<>> /\ Tail(a) \o b = Tail(a \o b) /\ Head(a \o b) = Head(a)
<1>1. /\ a \o b \in Seq(LifeJob) /\ Len(a \o b) = Len(a) + Len(b)
      /\ \A i \in 1 .. Len(a) + Len(b) : (a \o b)[i] = IF i <= Len(a) THEN a[i] ELSE b[i - Len(a)]
  BY ConcatProperties
<1>2. /\ Len(a) \in Nat /\ DOMAIN a = 1 .. Len(a) /\ Len(b) \in Nat /\ DOMAIN b = 1 .. Len(b)
      /\ DOMAIN (a \o b) = 1 .. Len(a) + Len(b)
  BY <1>1, LenProperties
<1>3. ASSUME NEW x \in LifeJob PROVE a \o Append(b, x) = Append(a \o b, x)
  <2>1. /\ <<x>> \in Seq(LifeJob) /\ Append(b, x) = b \o <<x>> /\ Append(a \o b, x) = (a \o b) \o <<x>>
    BY <1>1, AppendIsConcat
  <2>2. a \o (b \o <<x>>) = (a \o b) \o <<x>>
    BY <2>1, ConcatAssociative
  <2> QED BY <2>1, <2>2
<1>4. ASSUME a # <<>>
      PROVE  a \o b # <<>> /\ Tail(a) \o b = Tail(a \o b) /\ Head(a \o b) = Head(a)
  <2>1. Len(a) # 0 /\ Head(a) = a[1] /\ Tail(a) \in Seq(LifeJob) /\ Len(Tail(a)) = Len(a) - 1
        /\ \A i \in 1 .. Len(a) - 1 : Tail(a)[i] = a[i + 1]
    BY <1>4, HeadTailProperties, EmptySeq, LenProperties
  <2>2. a \o b # <<>>
    BY <1>1, <1>2, <2>1, EmptySeq
  <2>3. /\ Head(a \o b) = (a \o b)[1] /\ Tail(a \o b) \in Seq(LifeJob)
        /\ Len(Tail(a \o b)) = Len(a \o b) - 1
        /\ \A i \in 1 .. Len(a \o b) - 1 : Tail(a \o b)[i] = (a \o b)[i + 1]
    BY <1>1, <2>2, HeadTailProperties
  <2>4. /\ Tail(a) \o b \in Seq(LifeJob) /\ Len(Tail(a) \o b) = Len(a) - 1 + Len(b)
        /\ \A i \in 1 .. Len(a) - 1 + Len(b) :
             (Tail(a) \o b)[i] = IF i <= Len(a) - 1 THEN Tail(a)[i] ELSE b[i - (Len(a) - 1)]
    BY <2>1, ConcatProperties
  <2>5. ASSUME NEW i \in 1 .. Len(a) - 1 + Len(b) PROVE (Tail(a) \o b)[i] = Tail(a \o b)[i]
    <3>1. Tail(a \o b)[i] = (a \o b)[i + 1] /\ i + 1 \in 1 .. Len(a) + Len(b)
      BY <1>1, <1>2, <2>3
    <3>2. CASE i <= Len(a) - 1
      BY <1>1, <1>2, <2>1, <2>4, <3>1, <3>2
    <3>3. CASE ~(i <= Len(a) - 1)
      <4>1. i - (Len(a) - 1) = (i + 1) - Len(a) /\ ~(i + 1 <= Len(a))
        BY <1>2, <3>3
      <4> QED BY <1>1, <2>4, <3>1, <3>3, <4>1
    <3> QED BY <3>2, <3>3
  <2>6. Tail(a) \o b = Tail(a \o b)
    <3>1. Len(Tail(a) \o b) = Len(Tail(a \o b)) /\ Len(Tail(a) \o b) = Len(a) - 1 + Len(b)
      BY <1>1, <1>2, <2>3, <2>4
    <3> QED BY <2>3, <2>4, <2>5, <3>1, SeqEqual
  <2>7. Head(a \o b) = Head(a)
    BY <1>1, <1>2, <2>1, <2>3
  <2> QED BY <2>2, <2>6, <2>7
<1> QED BY <1>1, <1>3, <1>4

\* A job is in the row if and only if it is in one of the two batches.
LEMMA RowEntries ==
  ASSUME NEW a \in Seq(LifeJob), NEW b \in Seq(LifeJob)
  PROVE  /\ \A i \in DOMAIN (a \o b) : \/ \E j \in DOMAIN a : (a \o b)[i] = a[j]
                                       \/ \E j \in DOMAIN b : (a \o b)[i] = b[j]
         /\ \A j \in DOMAIN a : \E i \in DOMAIN (a \o b) : (a \o b)[i] = a[j]
         /\ \A j \in DOMAIN b : \E i \in DOMAIN (a \o b) : (a \o b)[i] = b[j]
<1>1. /\ a \o b \in Seq(LifeJob) /\ Len(a \o b) = Len(a) + Len(b)
      /\ \A i \in 1 .. Len(a) + Len(b) : (a \o b)[i] = IF i <= Len(a) THEN a[i] ELSE b[i - Len(a)]
  BY ConcatProperties
<1>2. /\ Len(a) \in Nat /\ DOMAIN a = 1 .. Len(a) /\ Len(b) \in Nat /\ DOMAIN b = 1 .. Len(b)
      /\ DOMAIN (a \o b) = 1 .. Len(a) + Len(b)
  BY <1>1, LenProperties
<1>3. ASSUME NEW i \in DOMAIN (a \o b)
      PROVE  \/ \E j \in DOMAIN a : (a \o b)[i] = a[j]
             \/ \E j \in DOMAIN b : (a \o b)[i] = b[j]
  <2>1. CASE i <= Len(a)
    BY <1>1, <1>2, <2>1
  <2>2. CASE ~(i <= Len(a))
    <3>1. i - Len(a) \in DOMAIN b
      BY <1>2, <2>2
    <3> QED BY <1>1, <1>2, <2>2, <3>1
  <2> QED BY <2>1, <2>2
<1>4. ASSUME NEW j \in DOMAIN a PROVE \E i \in DOMAIN (a \o b) : (a \o b)[i] = a[j]
  <2>1. j \in DOMAIN (a \o b) /\ (a \o b)[j] = a[j]
    BY <1>1, <1>2
  <2> QED BY <2>1
<1>5. ASSUME NEW j \in DOMAIN b PROVE \E i \in DOMAIN (a \o b) : (a \o b)[i] = b[j]
  <2>1. Len(a) + j \in 1 .. Len(a) + Len(b) /\ (Len(a) + j) - Len(a) = j /\ ~(Len(a) + j <= Len(a))
    BY <1>2
  <2>2. (a \o b)[Len(a) + j] = b[j]
    BY <1>1, <2>1
  <2> QED BY <1>2, <2>1, <2>2
<1> QED BY <1>3, <1>4, <1>5

\* Fewer in the room, no more in the way.
LEMMA Fewer ==
  ASSUME NEW A, NEW B, A \subseteq B, B \subseteq Session, Cardinality(B) < MaxSession
  PROVE  Cardinality(A) < MaxSession
<1>1. IsFiniteSet(B)
  BY FiniteAssumption, FS_Subset
<1>2. Cardinality(A) <= Cardinality(B) /\ Cardinality(A) \in Nat /\ Cardinality(B) \in Nat
  BY <1>1, FS_Subset, FS_CardinalityType
<1> QED BY <1>2, ConstantsAssumption

\* The room may empty.
LEMMA AdmitsLess ==
  ASSUME NEW b, NEW c, NEW q, Admits(b, q), c \subseteq b
  PROVE  Admits(c, q)
<1> SUFFICES ASSUME NEW k \in 1 .. Len(q), q[k].type = "Enter"
             PROVE  Cardinality(Before(c, q, k)) < MaxSession
  BY DEF Admits
<1>1. Before(c, q, k) \subseteq Before(b, q, k) /\ Before(b, q, k) \subseteq Session
  BY DEF Before
<1> QED BY <1>1, Fewer DEF Admits

\* The first of the line takes the place it has waited for.
LEMMA AdmitsIn ==
  ASSUME NEW b, NEW q \in Seq(LifeJob), q # <<>>, Head(q).type = "Enter", Admits(b, q)
  PROVE  Admits(b \cup {Head(q).s}, q)
<1> SUFFICES ASSUME NEW k \in 1 .. Len(q), q[k].type = "Enter"
             PROVE  Cardinality(Before(b \cup {Head(q).s}, q, k)) < MaxSession
  BY DEF Admits
<1>1. q[1] = [type |-> "Enter", s |-> Head(q).s] /\ Len(q) \in Nat
  <2>1. q[1] = Head(q) /\ q[1] \in LifeJob /\ Len(q) \in Nat
    BY Entries, LenProperties
  <2> QED BY <2>1 DEF LifeJob
<1>2. Before(b \cup {Head(q).s}, q, k) \subseteq Before(b, q, k)
  <2> SUFFICES ASSUME NEW x \in Before(b \cup {Head(q).s}, q, k) PROVE x \in Before(b, q, k)
    OBVIOUS
  <2>1. CASE x = Head(q).s
    <3>1. k # 1
      BY <1>1, <2>1 DEF Before
    <3>2. 1 \in 1 .. k - 1
      BY <1>1, <3>1
    <3>3. First(q, k - 1, "Enter", x)
      BY <1>1, <2>1, <3>2 DEF First
    <3> QED BY <3>3 DEF Before
  <2>2. CASE x # Head(q).s
    BY <2>2 DEF Before
  <2> QED BY <2>1, <2>2
<1>3. Before(b, q, k) \subseteq Session
  BY DEF Before
<1> QED BY <1>2, <1>3, Fewer DEF Admits

\* One more in the line, behind all others.
LEMMA AdmitsAppend ==
  ASSUME NEW b, NEW q \in Seq(LifeJob), NEW x \in LifeJob, Admits(b, q),
         x.type = "Enter" =>
           Cardinality({z \in Session : /\ z \in b \/ First(q, Len(q), "Enter", z)
                                        /\ ~First(q, Len(q), "Leave", z)
                                        /\ z # x.s}) < MaxSession
  PROVE  Admits(b, Append(q, x))
<1> DEFINE r == Append(q, x)
<1>1. /\ Len(q) \in Nat /\ Len(r) = Len(q) + 1 /\ r[Len(q) + 1] = x
      /\ \A i \in 1 .. Len(q) : r[i] = q[i]
  BY LenProperties, AppendProperties
<1> HIDE DEF r
<1>2. \A n \in 0 .. Len(q) : \A type, s : First(r, n, type, s) <=> First(q, n, type, s)
  BY <1>1 DEF First
<1>3. ASSUME NEW k \in 1 .. Len(q), r[k].type = "Enter" PROVE Cardinality(Before(b, r, k)) < MaxSession
  <2>1. k - 1 \in 0 .. Len(q) /\ r[k] = q[k]
    BY <1>1
  <2>2. Before(b, r, k) = Before(b, q, k)
    BY <1>2, <2>1 DEF Before
  <2> QED BY <1>3, <2>1, <2>2 DEF Admits
<1>4. ASSUME r[Len(q) + 1].type = "Enter" PROVE Cardinality(Before(b, r, Len(q) + 1)) < MaxSession
  <2>1. (Len(q) + 1) - 1 = Len(q) /\ Len(q) \in 0 .. Len(q)
    BY <1>1
  <2>2. Before(b, r, Len(q) + 1) = {z \in Session : /\ z \in b \/ First(q, Len(q), "Enter", z)
                                                    /\ ~First(q, Len(q), "Leave", z)
                                                    /\ z # x.s}
    BY <1>1, <1>2, <2>1 DEF Before
  <2> QED BY <1>1, <1>4, <2>2
<1>5. \A k \in 1 .. Len(r) : k \in 1 .. Len(q) \/ k = Len(q) + 1
  BY <1>1
<1>6. Admits(b, r)
  BY <1>3, <1>4, <1>5 DEF Admits
<1> QED BY <1>6 DEF r

\* The first of the line is done: it is in the room, or out of it for good.
LEMMA AdmitsTail ==
  ASSUME NEW b, NEW q \in Seq(LifeJob), q # <<>>, Admits(b, q),
         Head(q).type = "Leave" => /\ Head(q).s \notin b
                                   /\ \A i \in DOMAIN Tail(q) : Tail(q)[i] # [type |-> "Enter", s |-> Head(q).s]
  PROVE  Admits(b, Tail(q))
<1> DEFINE r == Tail(q)
<1>1. /\ Len(q) \in Nat \ {0} /\ Len(r) = Len(q) - 1 /\ Head(q) = q[1]
      /\ \A i \in 1 .. Len(q) - 1 : r[i] = q[i + 1]
      /\ DOMAIN r = 1 .. Len(q) - 1
  BY LenProperties, HeadTailProperties, EmptySeq
<1>2. Head(q).type = "Leave" => Head(q).s \notin b /\ \A i \in 1 .. Len(q) - 1 : r[i] # [type |-> "Enter", s |-> Head(q).s]
  BY <1>1
<1> HIDE DEF r
<1>3. ASSUME NEW k \in 1 .. Len(r), r[k].type = "Enter" PROVE Cardinality(Before(b, r, k)) < MaxSession
  <2>1. k + 1 \in 1 .. Len(q) /\ r[k] = q[k + 1] /\ (k + 1) - 1 = k /\ k \in Nat
    BY <1>1
  <2>2. ASSUME NEW x \in Before(b, r, k) PROVE x \in Before(b, q, k + 1)
    <3>1. \A type, s : First(r, k - 1, type, s) => First(q, k, type, s)
      <4> SUFFICES ASSUME NEW type, NEW s, NEW i \in 1 .. k - 1, r[i] = [type |-> type, s |-> s]
                   PROVE  First(q, k, type, s)
        BY DEF First
      <4>1. i + 1 \in 1 .. k /\ q[i + 1] = r[i]
        BY <1>1, <2>1
      <4> QED BY <4>1 DEF First
    <3>2. ~First(q, k, "Leave", x)
      <4> SUFFICES ASSUME NEW i \in 1 .. k, q[i] = [type |-> "Leave", s |-> x] PROVE FALSE
        BY DEF First
      <4>1. CASE i = 1
        <5>1. Head(q).type = "Leave" /\ Head(q).s = x
          BY <1>1, <4>1
        <5>2. PICK j \in 1 .. k - 1 : r[j] = [type |-> "Enter", s |-> x]
          BY <1>2, <5>1 DEF Before, First
        <5>3. j \in 1 .. Len(q) - 1
          BY <1>1, <2>1
        <5> QED BY <1>2, <5>1, <5>2, <5>3
      <4>2. CASE i # 1
        <5>1. i - 1 \in 1 .. k - 1 /\ i - 1 \in 1 .. Len(q) - 1 /\ (i - 1) + 1 = i
          BY <1>1, <2>1, <4>2
        <5>2. r[i - 1] = q[i]
          BY <1>1, <5>1
        <5> QED BY <5>1, <5>2 DEF Before, First
      <4> QED BY <4>1, <4>2
    <3> QED BY <2>1, <3>1, <3>2 DEF Before
  <2>3. Before(b, q, k + 1) \subseteq Session /\ Cardinality(Before(b, q, k + 1)) < MaxSession
    BY <1>3, <2>1 DEF Before, Admits
  <2> QED BY <2>2, <2>3, Fewer
<1>4. Admits(b, r)
  BY <1>3 DEF Admits
<1> QED BY <1>4 DEF r

\* Whoever is in the room, or has an Enter in the line, and no Leave, is still on the list.
LEMMA StillListed ==
  ASSUME Inv, NEW z \in Session, z \in Board \/ Enters(z), ~Leaves(z)
  PROVE  z \in list
<1>1. Kept(z)
  BY DEF Inv, QueueInv
<1> QED BY <1>1 DEF Kept, Inv, ListInv

\* What waits is somewhere in the row of batches.
LEMMA InLine ==
  ASSUME TypeInv, NEW s
  PROVE  /\ First(Line, Len(Line), "Enter", s) <=> Enters(s)
         /\ First(Line, Len(Line), "Leave", s) <=> Leaves(s)
<1>1. life \in Seq(LifeJob) /\ lives \in Seq(LifeJob) /\ Line \in Seq(LifeJob)
  BY Row DEF TypeInv, TypeOK, Line
<1>2. DOMAIN Line = 1 .. Len(Line)
  BY <1>1, LenProperties
<1>3. /\ \A i \in DOMAIN Line : \/ \E j \in DOMAIN lives : Line[i] = lives[j]
                              \/ \E j \in DOMAIN life : Line[i] = life[j]
      /\ \A j \in DOMAIN lives : \E i \in DOMAIN Line : Line[i] = lives[j]
      /\ \A j \in DOMAIN life : \E i \in DOMAIN Line : Line[i] = life[j]
  BY <1>1, RowEntries DEF Line
<1>4. ASSUME NEW type
      PROVE  First(Line, Len(Line), type, s) <=> Waits(lives, type, s) \/ Waits(life, type, s)
  BY <1>2, <1>3 DEF First, Waits
<1> QED BY <1>4 DEF Enters, Leaves

\* Every Enter in the line will find the room not full: those before it were on the list
\* together with it.
LEMMA AdmitStep ==
  ASSUME Inv, AdmitInv, [Next]_vars
  PROVE  AdmitInv'
<1> USE Threads
<1>0. /\ TypeInv /\ life \in Seq(LifeJob) /\ lives \in Seq(LifeJob) /\ Line \in Seq(LifeJob)
      /\ \A t \in Thread : pc[t] \notin FreeSteps => cur[t] \in Session
  BY InHand, Row DEF Inv, TypeInv, TypeOK, Line
<1>1. ASSUME UNCHANGED <<life, lives>>, Board' \subseteq Board PROVE AdmitInv'
  <2>1. Line' = Line
    BY <1>1 DEF Line
  <2> QED BY <1>1, <2>1, AdmitsLess DEF AdmitInv
<1>2. ASSUME NEW t \in Thread, CloseSession(t) PROVE AdmitInv'
  <2>1. lives' = lives /\ Board' = Board
    BY <1>2, Frames DEF Board
  <2>2. CASE life' = life
    BY <1>1, <2>1, <2>2
  <2>3. CASE CloseLeave(t) /\ life' # life
    <3> DEFINE y == [type |-> "Leave", s |-> cur[t]]
    <3>1. life' = Append(life, y)
      BY <2>3 DEF CloseLeave, PushLife
    <3>2. y \in LifeJob
      BY <1>0, <2>3, CloseMoves DEF FreeSteps, LifeJob, JobType
    <3>3. Line' = Append(Line, y)
      BY <1>0, <2>1, <3>1, <3>2, Row DEF Line
    <3> QED BY <1>0, <2>1, <3>2, <3>3, AdmitsAppend DEF AdmitInv
  <2>4. CloseExchange(t) \/ CloseUnlist(t) \/ CloseShutdown(t) \/ CloseUnref(t) => life' = life
    BY DEF CloseExchange, CloseUnlist, CloseShutdown, CloseUnref, queueVars
  <2> QED BY <1>2, <2>2, <2>3, <2>4 DEF CloseSession
<1>3. ASSUME NEW t \in Thread, PostRecv(t) \/ StartSend(t) PROVE AdmitInv'
  BY <1>1, <1>3, Frames DEF Board
<1>4. ASSUME NEW w \in Worker, WorkerOwn(w) PROVE AdmitInv'
  BY <1>1, <1>4, OwnFrames DEF Board
<1>5. CASE PushEnter
  <2> DEFINE x == cur["main"]
             y == [type |-> "Enter", s |-> x]
             B == {z \in Session : /\ z \in Board \/ First(Line, Len(Line), "Enter", z)
                                   /\ ~First(Line, Len(Line), "Leave", z)
                                   /\ z # y.s}
  <2>1. pc["main"] = "enter" /\ lives' = lives /\ Board' = Board /\ PushLife("Enter", x)
    BY <1>5 DEF PushEnter, At, boardVars, Board
  <2>2. x \in Session /\ x \in list /\ y \in LifeJob
    BY <1>0, <2>1 DEF FreeSteps, Inv, SetupInv, LifeJob, JobType
  <2>3. CASE life' = life
    BY <1>1, <2>1, <2>3
  <2>4. CASE life' = Append(life, y)
    <3>1. Line' = Append(Line, y)
      BY <1>0, <2>1, <2>2, <2>4, Row DEF Line
    <3>2. B \subseteq list \ {x}
      BY <1>0, InLine, StillListed
    <3>3. Cardinality(list \ {x}) < MaxSession
      <4>1. list \subseteq Session /\ Cardinality(list) <= MaxSession /\ IsFiniteSet(list)
        BY FiniteAssumption, FS_Subset DEF Inv, TypeInv, TypeOK, ListInv
      <4>2. Cardinality(list \ {x}) = Cardinality(list) - 1 /\ Cardinality(list) \in Nat
        BY <2>2, <4>1, FS_RemoveElement, FS_CardinalityType
      <4> QED BY <4>1, <4>2, ConstantsAssumption
    <3>4. Cardinality(B) < MaxSession
      <4>1. list \ {x} \subseteq Session
        BY DEF Inv, TypeInv, TypeOK
      <4> HIDE DEF B
      <4> QED BY <3>2, <3>3, <4>1, Fewer
    <3> QED BY <1>0, <2>1, <2>2, <3>1, <3>4, AdmitsAppend DEF AdmitInv
  <2> QED BY <2>1, <2>3, <2>4 DEF PushLife
<1>6. CASE \/ AddSession \/ ListFull \/ Associate \/ MainRelease \/ CollectAll \/ CloseRef
           \/ Drain \/ Join \/ Exit \/ \E x \in Session : Accept(x) \/ CloseNext(x)
  <2>1. UNCHANGED <<life, lives>> /\ Board' = Board
    BY <1>6 DEF Accept, AddSession, ListFull, Associate, MainRelease, CollectAll, CloseRef, Drain,
       Join, Exit, CloseNext, queueVars, boardVars, Board
  <2> QED BY <1>1, <2>1
<1>7. CASE Swap
  <2>1. Board' = Board /\ lives = <<>>
    BY <1>0, <1>7, TickMoves DEF Swap, boardVars, Board, Inv, TickInv
  <2>2. Line' = Line
    <3>1. CASE UNCHANGED queueVars
      BY <3>1 DEF queueVars, Line
    <3>2. CASE lives' = life /\ life' = <<>>
      BY <1>0, <2>1, <3>2, ConcatEmptySeq DEF Line
    <3> QED BY <1>7, <3>1, <3>2 DEF Swap
  <2> QED BY <2>1, <2>2 DEF AdmitInv
<1>8. CASE HandleEnter
  <2>1. /\ UNCHANGED <<life, lives>> /\ lives # <<>> /\ Head(lives).type = "Enter"
        /\ Board' \subseteq Board \cup {Head(lives).s}
    BY <1>8 DEF HandleEnter, queueVars, Board
  <2>2. Line # <<>> /\ Head(Line) = Head(lives) /\ Line' = Line
    BY <1>0, <2>1, Row DEF Line
  <2>3. Admits(Board \cup {Head(Line).s}, Line)
    BY <1>0, <2>1, <2>2, AdmitsIn DEF AdmitInv
  <2> QED BY <2>1, <2>2, <2>3, AdmitsLess DEF AdmitInv
<1>9. CASE LifeRef
  <2>1. /\ Board' = Board /\ life' = life /\ lives' = Tail(lives) /\ pc["tick"] = "liferef"
        /\ lives # <<>>
    BY <1>0, <1>9, TickMoves DEF LifeRef, boardVars, Board, TypeInv, StepsOK
  <2>2. Line # <<>> /\ Head(Line) = Head(lives) /\ Line' = Tail(Line)
    BY <1>0, <2>1, Row DEF Line
  <2>3. ASSUME Head(lives).type = "Leave"
        PROVE  /\ Head(lives).s \notin Board
               /\ \A i \in DOMAIN Line' : Line'[i] # [type |-> "Enter", s |-> Head(lives).s]
    <3>1. Head(lives).s \notin Board
      BY <2>1, <2>3 DEF Inv, TickInv
    <3>2. ~Waits(lives', "Enter", Head(lives).s) /\ ~Waits(life', "Enter", Head(lives).s)
      <4>1. Lined(lives, life)
        BY DEF Inv, QueueInv, Lined
      <4> QED BY <1>0, <2>1, <2>3, <4>1, LinedTail
    <3>3. lives' \in Seq(LifeJob) /\ life' \in Seq(LifeJob)
      BY <1>0, <2>1, Entries
    <3>4. \A i \in DOMAIN Line' : \/ \E j \in DOMAIN lives' : Line'[i] = lives'[j]
                                  \/ \E j \in DOMAIN life' : Line'[i] = life'[j]
      BY <3>3, RowEntries DEF Line
    <3> QED BY <3>1, <3>2, <3>4 DEF Waits
  <2> QED BY <1>0, <2>1, <2>2, <2>3, AdmitsTail DEF AdmitInv
<1>10. CASE \/ HandleLeave \/ HandlePacket \/ JobRef \/ Game \/ CollectTargets \/ TickEnd \/ NextTarget
            \/ SendCheck \/ SendPush \/ SendFull \/ Sent
  <2>1. UNCHANGED <<life, lives>>
    BY <1>10 DEF HandleLeave, HandlePacket, JobRef, Game, CollectTargets, TickEnd, NextTarget,
       SendCheck, SendPush, SendFull, Sent, queueVars
  <2>2. Board' \subseteq Board
    BY <1>0, <1>10, TickMoves DEF HandleLeave, HandlePacket, JobRef, Game, CollectTargets, TickEnd,
       NextTarget, SendCheck, SendPush, SendFull, Sent, boardVars, Board
  <2> QED BY <1>1, <2>1, <2>2
<1>11. CASE UNCHANGED vars \/ \E x \in Session : CompletionLost(x)
  BY <1>1, <1>11 DEF vars, CompletionLost, queueVars, boardVars, Board
<1> QED BY <1>2, <1>3, <1>4, <1>5, <1>6, <1>7, <1>8, <1>9, <1>10, <1>11, Steps DEF MainOwn, TickOwn

\* The Enter whose turn it is takes a seat, or a viewer's place: one is free.
LEMMA Placed ==
  ASSUME Inv, AdmitInv, HandleEnter
  PROVE  Head(lives).s \in Board'
<1> DEFINE s == Head(lives).s
<1>1. /\ lives # <<>> /\ Head(lives).type = "Enter" /\ lives \in Seq(LifeJob) /\ life \in Seq(LifeJob)
      /\ Board \subseteq Session /\ viewers \subseteq Board /\ seated \subseteq Board
  BY DEF HandleEnter, Inv, TypeInv, TypeOK, Board
<1>2. Line # <<>> /\ Line \in Seq(LifeJob) /\ Head(Line) = Head(lives)
  BY <1>1, Row DEF Line
<1>3. Len(Line) \in Nat /\ 1 \in 1 .. Len(Line) /\ Line[1] = Head(lives)
  BY <1>2, Entries, LenProperties
<1>4. Cardinality(Before(Board, Line, 1)) < MaxSession
  BY <1>1, <1>3 DEF AdmitInv, Admits
<1>5. CASE s \in Board
  BY <1>5 DEF HandleEnter, Board
<1>6. CASE s \notin Board
  <2>1. viewers \subseteq Before(Board, Line, 1) /\ Before(Board, Line, 1) \subseteq Session
    <3>1. \A type, x : ~First(Line, 1 - 1, type, x)
      BY DEF First
    <3> QED BY <1>1, <1>3, <1>6, <3>1 DEF Before
  <2>2. Cardinality(viewers) < MaxSession
    BY <1>4, <2>1, Fewer
  <2> QED BY <2>2 DEF HandleEnter, Board
<1> QED BY <1>5, <1>6

\* So until its job is done the newcomer is in the room.
LEMMA PlacedStep ==
  ASSUME Inv, AdmitInv, PlacedInv, [Next]_vars
  PROVE  PlacedInv'
<1> USE Threads
<1>0. /\ TypeInv /\ PlaceInv /\ TickInv
      /\ pc["tick"] = "liferef" \/ mode = "welcome" => lives # <<>>
      /\ pc["tick"] \in Closing => ret["tick"] # "liferef"
  BY DEF Inv, TypeInv, StepsOK
<1>1. ASSUME UNCHANGED <<lives, mode>>, Board' = Board, pc'["tick"] = "liferef" => pc["tick"] = "liferef"
      PROVE  PlacedInv'
  BY <1>1 DEF PlacedInv
<1>2. ASSUME NEW t \in Thread, CloseSession(t) PROVE PlacedInv'
  <2>1. \/ Moved(t, ret[t], cur[t], "none")
        \/ \E p \in CloseSteps : Moved(t, p, cur[t], ret[t])
    BY <1>0, <1>2, CloseMoves DEF CloseSession, CloseSteps
  <2>2. pc[t] \in Closing
    BY <1>0, <1>2, CloseMoves DEF CloseSession, Closing, CloseSteps
  <2>3. pc'["tick"] = "liferef" => pc["tick"] = "liferef"
    BY <1>0, <2>1, <2>2 DEF Moved, CloseSteps
  <2> QED BY <1>1, <1>2, <2>3, Frames DEF Board
<1>3. ASSUME NEW t \in Thread, PostRecv(t) \/ StartSend(t) PROVE PlacedInv'
  <2>1. pc'["tick"] = "liferef" => pc["tick"] = "liferef"
    BY <1>0, <1>3, RecvMoves, SendMoves DEF PostRecv, StartSend, Moved, AfterRecv, AfterSend
  <2> QED BY <1>1, <1>3, <2>1, Frames DEF Board
<1>4. ASSUME NEW w \in Worker, WorkerOwn(w) PROVE PlacedInv'
  <2>1. pc'["tick"] = pc["tick"]
    BY <1>0, <1>4, WorkerMoves DEF WorkerOwn, Moved
  <2> QED BY <1>1, <1>4, <2>1, OwnFrames DEF Board
<1>5. CASE MainOwn
  <2>1. pc'["tick"] = pc["tick"]
    BY <1>0, <1>5, MainMoves DEF MainOwn, Moved
  <2> QED BY <1>1, <1>5, <2>1, OwnFrames DEF Board
<1>6. CASE HandleEnter
  BY <1>6, Placed DEF HandleEnter, queueVars, PlacedInv
<1>7. CASE HandleLeave
  <2>1. mode # "welcome" /\ UNCHANGED <<lives, mode>> /\ Head(lives).type = "Leave"
    BY <1>0, <1>7, TickMoves DEF HandleLeave, queueVars, tickVars, TypeInv, TickInv
  <2> QED BY <2>1 DEF PlacedInv
<1>8. CASE Swap \/ LifeRef
  <2>1. pc'["tick"] # "liferef" /\ mode' = mode /\ mode # "welcome"
    <3>1. mode = "none"
      BY <1>0, <1>8, TickMoves DEF TypeInv, StepsOK, SendSteps, CloseSteps
    <3> QED BY <1>0, <1>8, <3>1, TickMoves DEF Swap, LifeRef, tickVars, Moved
  <2> QED BY <2>1 DEF PlacedInv
<1>9. CASE Game
  <2>1. Board' = Board /\ lives' = lives /\ pc'["tick"] # "liferef" /\ (mode' = "welcome" => mode = "welcome")
    BY <1>0, <1>9, TickMoves DEF Game, queueVars, boardVars, tickVars, Board, Moved
  <2> QED BY <2>1 DEF PlacedInv
<1>10. CASE \/ HandlePacket \/ JobRef \/ CollectTargets \/ TickEnd \/ NextTarget
            \/ SendCheck \/ SendPush \/ SendFull \/ Sent
  <2>1. Board' = Board /\ lives' = lives /\ (mode' = "welcome" => mode = "welcome")
    BY <1>10 DEF HandlePacket, JobRef, CollectTargets, TickEnd, NextTarget, SendCheck, SendPush,
       SendFull, Sent, queueVars, boardVars, tickVars, Board, Collect
  <2>2. pc'["tick"] = "liferef" => mode = "welcome"
    BY <1>0, <1>10, TickMoves DEF Moved
  <2> QED BY <2>1, <2>2 DEF PlacedInv
<1>11. CASE UNCHANGED vars \/ \E x \in Session : CompletionLost(x)
  BY <1>1, <1>11 DEF vars, CompletionLost, queueVars, boardVars, threadVars, tickVars, Board
<1> QED BY <1>2, <1>3, <1>4, <1>5, <1>6, <1>7, <1>8, <1>9, <1>10, <1>11, Steps DEF TickOwn

\* A session that somebody knows of stays known, if the thread that moves hands it on.
LEMMA KnownKept ==
  ASSUME NEW s, Known(s), NEW t \in Thread, NEW p, NEW c, NEW r, Moved(t, p, c, r),
         closing[s] => closing'[s],
         Enters(s) => Enters(s)' \/ s \in Board' \/ closing'[s],
         s \in Board => s \in Board' \/ closing'[s],
         cur[t] = s /\ Tends(t, pc[t]) =>
           closing'[s] \/ Enters(s)' \/ (c = s /\ Tends(t, p))
  PROVE  Known(s)'
<1>1. CASE closing'[s] \/ Enters(s)' \/ s \in Board'
  BY <1>1 DEF Known
<1>2. CASE c = s /\ Tends(t, p)
  <2>1. cur'[t] = s /\ Tends(t, pc'[t])
    BY <1>2 DEF Moved
  <2> QED BY <2>1 DEF Known
<1>3. ASSUME NEW u \in Thread \ {t}, cur[u] = s, Tends(u, pc[u]) PROVE Known(s)'
  <2>1. cur'[u] = s /\ Tends(u, pc'[u])
    BY <1>3 DEF Moved
  <2> QED BY <2>1 DEF Known
<1> QED BY <1>1, <1>2, <1>3 DEF Known

\* main finds an entry for the Enter it announces a session with.
RoomToEnter == pc["main"] = "enter" => Len(life) < MaxLife

\* Every listed session stays known: closed, waiting, in the room, or in good hands.
LEMMA SeenStep ==
  ASSUME Inv, AdmitInv, PlacedInv, SeenInv, RoomToEnter, [Next]_vars
  PROVE  SeenInv'
<1> USE Threads
<1>0. /\ TypeInv /\ life \in Seq(LifeJob) /\ lives \in Seq(LifeJob) /\ list \subseteq Session
      /\ closing \in [Session -> BOOLEAN]
      /\ \A t \in Thread : pc[t] \notin FreeSteps => cur[t] \in Session
  BY InHand DEF Inv, TypeInv, TypeOK
<1>1. ASSUME UNCHANGED <<life, lives, closing, list>>, Board' = Board, NEW t \in Thread, NEW p, NEW c, NEW r,
             Moved(t, p, c, r), Tends(t, pc[t]) => c = cur[t] /\ Tends(t, p)
      PROVE  SeenInv'
  <2>1. \A s \in Session : Enters(s)' <=> Enters(s)
    BY <1>1 DEF Enters, Waits
  <2> QED BY <1>0, <1>1, <2>1, KnownKept DEF SeenInv
<1>2. ASSUME NEW t \in Thread, CloseSession(t) PROVE SeenInv'
  <2>1. lives' = lives /\ Board' = Board /\ list' \subseteq list /\ pc[t] \in Closing /\ cur[t] \in Session
        /\ \E p, r : Moved(t, p, cur[t], r)
    BY <1>0, <1>2, Frames, CloseMoves
    DEF CloseSession, Closing, CloseSteps, FreeSteps, CloseExchange, CloseLeave, CloseUnlist,
        CloseShutdown, CloseUnref, Board
  <2>2. \A s \in Session : closing[s] => closing'[s]
    BY <1>0, <1>2, <2>1, CloseMoves DEF CloseSession, CloseLeave, CloseUnlist, CloseShutdown, CloseUnref
  <2>3. pc[t] = "exchange" => closing'[cur[t]]
    BY <1>0, <1>2, <2>1, CloseMoves DEF CloseSession
  <2>4. \A s \in Session : Enters(s) => Enters(s)'
    <3>1. CASE life' = life
      BY <2>1, <3>1 DEF Enters, Waits
    <3>2. CASE CloseLeave(t) /\ life' # life
      <4> DEFINE y == [type |-> "Leave", s |-> cur[t]]
      <4>1. life' = Append(life, y) /\ y \in LifeJob
        BY <2>1, <3>2 DEF CloseLeave, PushLife, LifeJob, JobType
      <4>2. \A s : Waits(life', "Enter", s) <=> Waits(life, "Enter", s) \/ y = [type |-> "Enter", s |-> s]
        BY <1>0, <4>1, WaitsChange
      <4>3. \A s : Waits(lives', "Enter", s) <=> Waits(lives, "Enter", s)
        BY <2>1
      <4> QED BY <4>2, <4>3 DEF Enters, Waits
    <3>3. CloseExchange(t) \/ CloseUnlist(t) \/ CloseShutdown(t) \/ CloseUnref(t) => life' = life
      BY DEF CloseExchange, CloseUnlist, CloseShutdown, CloseUnref, queueVars
    <3> QED BY <1>2, <3>1, <3>2, <3>3 DEF CloseSession
  <2>5. Tends(t, pc[t]) => closing'[cur[t]]
    BY <2>1, <2>3 DEF Tends, Closing, CloseSteps
  <2> QED BY <1>0, <2>1, <2>2, <2>4, <2>5, KnownKept DEF SeenInv
<1>3. ASSUME NEW t \in Thread \ {"tick"}, PostRecv(t) PROVE SeenInv'
  <2>1. ~Tends(t, pc[t]) /\ \E p, c, r : Moved(t, p, c, r)
    BY <1>0, <1>3, RecvMoves DEF PostRecv, Tends
  <2> QED BY <1>1, <1>3, <2>1, Frames DEF Board
<1>4. ASSUME NEW t \in Thread \ {"main"}, StartSend(t) PROVE SeenInv'
  <2>1. ~Tends(t, pc[t]) /\ \E p, c, r : Moved(t, p, c, r)
    BY <1>0, <1>4, SendMoves DEF StartSend, Tends
  <2> QED BY <1>1, <1>4, <2>1, Frames DEF Board
<1>5. ASSUME NEW w \in Worker, WorkerOwn(w) PROVE SeenInv'
  <2>1. ~Tends(w, pc[w]) /\ \E p, c, r : Moved(w, p, c, r)
    BY <1>0, <1>5, WorkerMoves DEF WorkerOwn, Tends
  <2> QED BY <1>1, <1>5, <2>1, OwnFrames DEF Board
<1>6. CASE MainOwn
  <2>0. lives' = lives /\ Board' = Board
    BY <1>6, OwnFrames DEF Board
  <2>1. ASSUME NEW x \in Session, Accept(x) PROVE SeenInv'
    <3>1. /\ closing' = [closing EXCEPT ![x] = FALSE] /\ list' = list /\ life' = life
          /\ x \notin alloc /\ pc["main"] = "accept"
      BY <2>1 DEF Accept, At, queueVars
    <3>2. x \notin list
      BY <3>1, InUse DEF Inv, NoUseAfterFree
    <3>3. \A s \in list : closing'[s] = closing[s]
      BY <1>0, <3>1, <3>2
    <3>4. \A s \in Session : Enters(s)' <=> Enters(s)
      BY <2>0, <3>1 DEF Enters, Waits
    <3>5. ~Tends("main", pc["main"]) /\ \E p, c, r : Moved("main", p, c, r)
      BY <1>0, <2>1, <3>1, MainMoves DEF Tends
    <3> QED BY <1>0, <2>0, <3>1, <3>3, <3>4, <3>5, KnownKept DEF SeenInv
  <2>2. CASE AddSession
    <3>1. /\ list' = list \cup {cur["main"]} /\ UNCHANGED <<closing, life>>
          /\ Moved("main", "associate", cur["main"], ret["main"]) /\ pc["main"] = "add"
      BY <1>0, <2>2, MainMoves DEF AddSession, queueVars
    <3>2. \A s \in Session : Enters(s)' <=> Enters(s)
      BY <2>0, <3>1 DEF Enters, Waits
    <3>3. ~Tends("main", pc["main"]) /\ Tends("main", "associate")
      BY <3>1 DEF Tends
    <3>4. ASSUME NEW s, s = cur["main"] PROVE Known(s)'
      <4>1. cur'["main"] = s /\ Tends("main", pc'["main"])
        BY <3>1, <3>3, <3>4 DEF Moved
      <4> QED BY <4>1 DEF Known
    <3>5. ASSUME NEW s \in list PROVE Known(s)'
      <4>1. s \in Session /\ Known(s) /\ (Enters(s)' <=> Enters(s))
        BY <1>0, <3>2 DEF SeenInv
      <4>2. closing'[s] = closing[s] /\ Board' = Board
        BY <2>0, <3>1
      <4>3. ~Tends("main", pc["main"]) /\ "main" \in Thread
        BY <1>0, <3>3
      <4> QED BY <3>1, <4>1, <4>2, <4>3, KnownKept
    <3> QED BY <3>1, <3>4, <3>5 DEF SeenInv
  <2>3. CASE Associate
    <3>1. UNCHANGED <<life, lives, closing, list>>
      BY <2>3 DEF Associate, queueVars
    <3>2. \E p, r : Moved("main", p, cur["main"], r) /\ Tends("main", p)
      BY <1>0, <2>3, MainMoves DEF Tends
    <3> QED BY <1>1, <2>0, <3>1, <3>2
  <2>4. CASE PushEnter
    <3> DEFINE x == cur["main"]
               y == [type |-> "Enter", s |-> x]
    <3>1. /\ UNCHANGED <<closing, list>> /\ PushLife("Enter", x) /\ pc["main"] = "enter"
          /\ Moved("main", "recvref", x, ret["main"])
      BY <1>0, <2>4, MainMoves DEF PushEnter
    <3>2. life' = Append(life, y)
      BY <3>1 DEF PushLife, RoomToEnter
    <3>3. x \in Session /\ y \in LifeJob
      BY <1>0, <3>1 DEF FreeSteps, LifeJob, JobType
    <3>4. \A s \in Session : Enters(s)' <=> Enters(s) \/ s = x
      <4>1. \A type, s : Waits(life', type, s) <=> Waits(life, type, s) \/ y = [type |-> type, s |-> s]
        BY <1>0, <3>2, <3>3, WaitsChange
      <4>2. \A type, s : Waits(lives', type, s) <=> Waits(lives, type, s)
        BY <2>0
      <4>3. \A s : /\ y = [type |-> "Enter", s |-> s] <=> s = x
                   /\ y # [type |-> "Leave", s |-> s]
        OBVIOUS
      <4> QED BY <4>1, <4>2, <4>3 DEF Enters, Waits
    <3> QED BY <1>0, <2>0, <3>1, <3>4, KnownKept DEF SeenInv
  <2>5. CASE \/ ListFull \/ MainRelease \/ CollectAll \/ CloseRef \/ Drain \/ Join \/ Exit
             \/ \E x \in Session : CloseNext(x)
    <3>1. UNCHANGED <<life, closing, list>>
      BY <2>5 DEF ListFull, MainRelease, CollectAll, CloseRef, Drain, Join, Exit, CloseNext, queueVars
    <3>2. ~Tends("main", pc["main"]) /\ \E p, c, r : Moved("main", p, c, r)
      BY <1>0, <2>5, MainMoves DEF Tends
    <3> QED BY <1>1, <2>0, <3>1, <3>2
  <2> QED BY <1>6, <2>1, <2>2, <2>3, <2>4, <2>5 DEF MainOwn
<1>7. CASE TickOwn
  <2>0. UNCHANGED <<closing, list>>
    BY <1>7, OwnFrames
  <2>1. ~Tends("tick", pc["tick"]) /\ \E p, c, r : Moved("tick", p, c, r)
    BY <1>0, <1>7, TickMoves DEF TickOwn, Tends
  <2>2. ASSUME \A s \in list : Enters(s) => Enters(s)' \/ s \in Board' \/ closing[s],
               \A s \in list : s \in Board => s \in Board' \/ closing[s]
        PROVE  SeenInv'
    BY <2>0, <2>1, <2>2, KnownKept DEF SeenInv
  <2>3. CASE Swap
    <3>1. Board' = Board /\ lives = <<>>
      BY <1>0, <2>3, TickMoves DEF Swap, boardVars, Board, Inv, TickInv
    <3>2. \A s : ~Waits(<<>>, "Enter", s)
      BY WaitsChange, EmptySeq
    <3>3. \A s \in list : Enters(s) => Enters(s)'
      <4>1. CASE UNCHANGED queueVars
        BY <4>1 DEF queueVars, Enters, Waits
      <4>2. CASE lives' = life
        <5>1. \A s : (Waits(lives', "Enter", s) <=> Waits(life, "Enter", s)) /\ ~Waits(lives, "Enter", s)
          BY <3>1, <3>2, <4>2
        <5> QED BY <5>1 DEF Enters, Waits
      <4> QED BY <2>3, <4>1, <4>2 DEF Swap
    <3> QED BY <2>2, <3>1, <3>3
  <2>4. CASE LifeRef
    <3>1. Board' = Board /\ life' = life /\ lives' = Tail(lives) /\ pc["tick"] = "liferef" /\ lives # <<>>
      BY <1>0, <2>4, TickMoves DEF LifeRef, boardVars, Board, TypeInv, StepsOK
    <3>2. \A s : Waits(lives, "Enter", s) <=> Waits(lives', "Enter", s) \/ Head(lives) = [type |-> "Enter", s |-> s]
      BY <1>0, <3>1, WaitsChange
    <3>3. \A s : Head(lives) = [type |-> "Enter", s |-> s] => s \in Board
      BY <3>1 DEF PlacedInv
    <3>4. \A s \in list : Enters(s) => Enters(s)' \/ s \in Board'
      BY <3>1, <3>2, <3>3 DEF Enters, Waits
    <3> QED BY <2>2, <3>1, <3>4
  <2>5. CASE HandleLeave
    <3>1. /\ UNCHANGED <<life, lives>> /\ lives # <<>> /\ Head(lives).type = "Leave"
          /\ Board' = Board \ {Head(lives).s}
      BY <2>5 DEF HandleLeave, queueVars, Board
    <3>2. \A s \in Session : s = Head(lives).s => closing[s]
      <4>1. Head(lives) \in LifeJob /\ lives[1] = Head(lives) /\ 1 \in DOMAIN lives
        BY <1>0, <3>1, Entries
      <4>2. lives[1] = [type |-> "Leave", s |-> Head(lives).s]
        BY <3>1, <4>1 DEF LifeJob
      <4> QED BY <4>1, <4>2 DEF Leaves, Waits, Inv, QueueInv
    <3>3. \A s \in list : Enters(s) => Enters(s)'
      BY <3>1 DEF Enters, Waits
    <3> QED BY <1>0, <2>2, <3>1, <3>2, <3>3
  <2>6. CASE \/ HandleEnter \/ HandlePacket \/ JobRef \/ Game \/ CollectTargets \/ TickEnd
             \/ NextTarget \/ SendCheck \/ SendPush \/ SendFull \/ Sent
    <3>1. UNCHANGED <<life, lives>>
      BY <2>6 DEF HandleEnter, HandlePacket, JobRef, Game, CollectTargets, TickEnd, NextTarget,
         SendCheck, SendPush, SendFull, Sent, queueVars
    <3>2. Board \subseteq Board'
      BY <1>0, <2>6, TickMoves DEF HandleEnter, HandlePacket, JobRef, Game, CollectTargets, TickEnd,
         NextTarget, SendCheck, SendPush, SendFull, Sent, boardVars, Board
    <3>3. \A s \in list : Enters(s) => Enters(s)'
      BY <3>1 DEF Enters, Waits
    <3> QED BY <2>2, <3>2, <3>3
  <2> QED BY <1>7, <2>3, <2>4, <2>5, <2>6 DEF TickOwn
<1>8. CASE UNCHANGED vars \/ \E x \in Session : CompletionLost(x)
  <2>1. UNCHANGED <<life, lives, closing, list, pc, cur>> /\ Board' = Board
    BY <1>8 DEF vars, CompletionLost, queueVars, boardVars, threadVars, Board
  <2> QED BY <2>1 DEF SeenInv, Known, Enters, Waits
<1> QED BY <1>2, <1>3, <1>4, <1>5, <1>6, <1>7, <1>8, Steps

\* What that says in the words of the run.
LEMMA ComesSay == Inv /\ SeenInv => ComesAndGoes
<1> SUFFICES ASSUME Inv, SeenInv PROVE ComesAndGoes
  OBVIOUS
<1>1. TypeInv /\ QueueInv /\ life \in Seq(LifeJob) /\ lives \in Seq(LifeJob)
  BY DEF Inv, TypeInv, TypeOK
<1>2. LifeOnce
  <2> SUFFICES ASSUME NEW i \in DOMAIN (lives \o life), NEW j \in DOMAIN (lives \o life), i < j
               PROVE  EnterFirst((lives \o life)[i], (lives \o life)[j])
    BY DEF LifeOnce, EnterFirst
  <2>1. /\ Len(lives) \in Nat /\ DOMAIN lives = 1 .. Len(lives)
        /\ Len(life) \in Nat /\ DOMAIN life = 1 .. Len(life)
        /\ DOMAIN (lives \o life) = 1 .. Len(lives) + Len(life)
        /\ \A n \in 1 .. Len(lives) + Len(life) :
             (lives \o life)[n] = IF n <= Len(lives) THEN lives[n] ELSE life[n - Len(lives)]
    BY <1>1, LenProperties, ConcatProperties
  <2>2. CASE j <= Len(lives)
    <3>1. i \in DOMAIN lives /\ j \in DOMAIN lives /\ i <= Len(lives)
      BY <2>1, <2>2
    <3> QED BY <1>1, <2>1, <2>2, <3>1 DEF QueueInv
  <2>3. CASE i <= Len(lives) /\ ~(j <= Len(lives))
    <3>1. i \in DOMAIN lives /\ j - Len(lives) \in DOMAIN life
      BY <2>1, <2>3
    <3> QED BY <1>1, <2>1, <2>3, <3>1 DEF QueueInv
  <2>4. CASE ~(i <= Len(lives))
    <3>1. /\ i - Len(lives) \in DOMAIN life /\ j - Len(lives) \in DOMAIN life
          /\ i - Len(lives) < j - Len(lives) /\ ~(j <= Len(lives))
      BY <2>1, <2>4
    <3> QED BY <1>1, <2>1, <2>4, <3>1 DEF QueueInv
  <2> QED BY <2>1, <2>2, <2>3, <2>4
<1>3. NobodyForgotten
  <2> SUFFICES ASSUME NEW s \in list
               PROVE  \/ closing[s] \/ AboutToClose(s) \/ InSetup(s) \/ EnterQueued(s)
                      \/ s \in seated \cup viewers
    BY DEF NobodyForgotten
  <2>1. Known(s)
    BY DEF SeenInv
  <2>2. Enters(s) => EnterQueued(s)
    BY DEF Enters, Waits, EnterQueued
  <2>3. ASSUME NEW t \in Thread, cur[t] = s, Tends(t, pc[t]) PROVE AboutToClose(s) \/ InSetup(s)
    BY <2>3 DEF Tends, AboutToClose, InSetup, Has
  <2> QED BY <2>1, <2>2, <2>3 DEF Known, Board
<1> QED BY <1>2, <1>3 DEF ComesAndGoes

-----------------------------------------------------------------------------
(* The theorems.  InvSays, OwnersSay and ComesSay have the properties of   *)
(* the runs follow from what every step keeps.                             *)

\* Before anybody is accepted nobody can be forgotten.
LEMMA InitRest == Init => HearInv /\ TalkInv /\ AdmitInv /\ PlacedInv /\ SeenInv
<1> SUFFICES ASSUME Init PROVE HearInv /\ TalkInv /\ AdmitInv /\ PlacedInv /\ SeenInv
  OBVIOUS
<1>1. /\ list = {} /\ lives = <<>> /\ life = <<>> /\ mode = "none" /\ pc["tick"] = "swap"
      /\ \A s \in Session : ~sending[s] /\ queued[s] = 0
  BY Threads DEF Init
<1>2. HearInv /\ SeenInv /\ PlacedInv
  BY <1>1 DEF HearInv, SeenInv, PlacedInv
<1>3. TalkInv
  BY <1>1 DEF TalkInv, Talks
<1>4. AdmitInv
  <2>1. <<>> \o <<>> = <<>> /\ Len(<<>>) = 0 /\ 1 .. 0 = {}
    OBVIOUS
  <2>2. 1 .. Len(Line) = {}
    BY <1>1, <2>1 DEF Line
  <2> QED BY <2>2 DEF AdmitInv, Admits
<1> QED BY <1>2, <1>3, <1>4

\* A session main is about to announce has no Enter in the buffer, so there is room for it.
LEMMA RoomyEnters == ASSUME Roomy, Inv PROVE RoomToEnter
<1> SUFFICES ASSUME pc["main"] = "enter" PROVE Len(life) < MaxLife
  BY DEF RoomToEnter
<1>1. cur["main"] \in Session /\ Untouched(cur["main"]) /\ TypeInv
  BY Threads, InHand DEF FreeSteps, Inv, SetupInv
<1>2. ~Waits(life, "Enter", cur["main"])
  BY <1>1 DEF Untouched, Waits
<1>3. \A i, j \in DOMAIN life : i < j => EnterFirst(life[i], life[j])
  BY DEF Inv, QueueInv
<1> QED BY <1>1, <1>2, <1>3, RoomLeft DEF JobType

\* When the buffer of life jobs is as large as an Enter and a Leave of every Session
\* there is (1024 entries are that for 512 of them), PushJob never drops either.
THEOREM RoomyAlways ==
  EarlyClose = FALSE /\ Roomy => (Spec => [](RoomToLeave /\ RoomToEnter))
<1> SUFFICES ASSUME EarlyClose = FALSE, Roomy PROVE Spec => [](RoomToLeave /\ RoomToEnter)
  OBVIOUS
<1>1. Inv /\ [Next]_vars => Inv'
  BY InvStep, RoomyLeaves
<1>2. Inv => RoomToLeave /\ RoomToEnter
  BY RoomyLeaves, RoomyEnters
<1> QED BY <1>1, <1>2, InitInv, PTL DEF Spec

\* The inductive invariant, as long as no Leave is dropped and no session is closed
\* before main has announced it.
LEMMA InvAlways == EarlyClose = FALSE => (Spec /\ []RoomToLeave => []Inv)
<1> SUFFICES ASSUME EarlyClose = FALSE PROVE Spec /\ []RoomToLeave => []Inv
  OBVIOUS
<1>1. Inv /\ RoomToLeave /\ [Next]_vars => Inv'
  BY InvStep
<1> QED BY <1>1, InitInv, PTL DEF Spec

\* The reference count of a session is at all times the number of its holders: the list,
\* the threads that work on it, the queues and lists it is in, and its posted orders.
THEOREM CountsAlways == EarlyClose = FALSE => (Spec /\ []RoomToLeave => []RefsBalance)
<1>1. Inv => RefsBalance
  BY InvSays
<1> QED BY <1>1, InvAlways, PTL

\* No thread, queue, list, posted order or player of the room has a session that is deleted.
THEOREM InUseAlways == EarlyClose = FALSE => (Spec /\ []RoomToLeave => []NoUseAfterFree)
<1>1. Inv => NoUseAfterFree
  BY InvSays
<1> QED BY <1>1, InvAlways, PTL

\* Whoever sits in the room or watches it is open, or its Leave is on the way.
THEOREM GhostAlways == EarlyClose = FALSE => (Spec /\ []RoomToLeave => []NoGhost)
<1>1. Inv => NoGhost
  BY InvSays
<1> QED BY <1>1, InvAlways, PTL

\* Each buffer has one owner at most, and an open session always has somebody who will
\* post its next receive order and send what is queued for it.
THEOREM OwnedAlways == EarlyClose = FALSE => (Spec /\ []RoomToLeave => []BuffersOwned)
<1>1. Inv /\ HearInv /\ TalkInv /\ [Next]_vars => HearInv' /\ TalkInv'
  BY HearStep, TalkStep
<1>2. Inv /\ HearInv /\ TalkInv => BuffersOwned
  BY OwnersSay
<1> QED BY <1>1, <1>2, InvAlways, InitRest, PTL DEF Spec

\* The room hears of each session once, first its Enter and then its Leave, and every
\* accepted session that is not closed is in the room or will be.
THEOREM ComesAlways ==
  EarlyClose = FALSE => (Spec /\ []RoomToLeave /\ []RoomToEnter => []ComesAndGoes)
<1>1. Inv /\ AdmitInv /\ PlacedInv /\ SeenInv /\ RoomToEnter /\ [Next]_vars
        => AdmitInv' /\ PlacedInv' /\ SeenInv'
  BY AdmitStep, PlacedStep, SeenStep
<1>2. Inv /\ SeenInv => ComesAndGoes
  BY ComesSay
<1> QED BY <1>1, <1>2, InvAlways, InitRest, PTL DEF Spec

\* All five without a hypothesis on the behaviour, when the buffer is as large as that.
COROLLARY RoomyHolds ==
  EarlyClose = FALSE /\ Roomy =>
    (Spec => [](RefsBalance /\ NoUseAfterFree /\ NoGhost /\ BuffersOwned /\ ComesAndGoes))
<1> SUFFICES ASSUME EarlyClose = FALSE, Roomy
             PROVE  Spec => [](RefsBalance /\ NoUseAfterFree /\ NoGhost /\ BuffersOwned /\ ComesAndGoes)
  OBVIOUS
<1> QED BY RoomyAlways, CountsAlways, InUseAlways, GhostAlways, OwnedAlways, ComesAlways, PTL

=============================================================================
