------------------------------ MODULE JobQueue ------------------------------
(***************************************************************************)
(* The double job buffer of JobQueue.h.  main and the workers push under   *)
(* g_job_lock; the tick thread swaps both pairs of buffers in one locked   *)
(* section and then works through what it got WITHOUT the lock, lives      *)
(* first, while the others fill the other pair.  One action per locked     *)
(* section and per job handled.                                            *)
(***************************************************************************)
EXTENDS Integers, Sequences

CONSTANTS
  Session,  \* the sessions that push jobs
  Data,     \* what tells the packets of a session apart
  MaxLife,  \* MAX_LIFE
  MaxJob    \* MAX_JOB

ASSUME QueueAssumption == MaxLife \in Nat \ {0} /\ MaxJob \in Nat \ {0}

VARIABLES
  g_life_buf, g_life_count,  \* per buffer: the life jobs, and how many
  g_job_buf, g_job_count,    \* per buffer: the packet jobs, and how many
  g_write,                   \* the buffer that is being filled
  batch, lcount, count,      \* tick: which buffer it took, and how much of it
  li, ji,                    \* tick: lives and packets of it handled so far
  stage,                     \* of a session: "new", "open", "gone"
  met,                       \* sessions whose Enter was handled or dropped
  accepted, handled         \* the job just accepted, the job just handled

bufVars == <<g_life_buf, g_life_count, g_job_buf, g_job_count, g_write>>
tickVars == <<batch, lcount, count, li, ji>>
jobsVars == <<bufVars, tickVars, stage, met, accepted, handled>>

LifeJob == [type : {"Enter", "Leave"}, s : Session]
PacketJob == [type : {"Packet"}, s : Session, data : Data]
NoJob == [type |-> "none"]

\* The arrays are zero before they are first filled.
InitJobQueue ==
  /\ g_life_buf = [b \in 0 .. 1 |-> [i \in 1 .. MaxLife |-> NoJob]]
  /\ g_job_buf = [b \in 0 .. 1 |-> [i \in 1 .. MaxJob |-> NoJob]]
  /\ g_life_count = [b \in 0 .. 1 |-> 0]
  /\ g_job_count = [b \in 0 .. 1 |-> 0]
  /\ g_write = 0
  /\ batch = 1 /\ lcount = 0 /\ count = 0 /\ li = 0 /\ ji = 0
  /\ stage = [s \in Session |-> "new"]
  /\ met = {}
  /\ accepted = <<>> /\ handled = <<>>

-----------------------------------------------------------------------------
\* PushJob of an Enter or a Leave; TRUE with room, or the job is dropped.
PushLife(job) ==
  LET m == g_life_count[g_write] IN
    /\ UNCHANGED <<g_job_buf, g_job_count, g_write>>
    /\ handled' = <<>>
    /\ IF m >= MaxLife
       THEN accepted' = <<>> /\ UNCHANGED <<g_life_buf, g_life_count>>
       ELSE /\ g_life_buf' = [g_life_buf EXCEPT ![g_write][m + 1] = job]
            /\ g_life_count' = [g_life_count EXCEPT ![g_write] = m + 1]
            /\ accepted' = <<job>>

\* main announces a session it has listed; PostRecv comes only afterwards.
PushEnter(s) ==
  /\ stage[s] = "new"
  /\ PushLife([type |-> "Enter", s |-> s])
  /\ stage' = [stage EXCEPT ![s] = "open"]
  /\ met' = IF accepted' = <<>> THEN met \cup {s} ELSE met
  /\ UNCHANGED tickVars

\* CloseSession, by whoever sets the closing flag first.
PushLeave(s) ==
  /\ stage[s] = "open"
  /\ PushLife([type |-> "Leave", s |-> s])
  /\ stage' = [stage EXCEPT ![s] = "gone"]
  /\ UNCHANGED <<tickVars, met>>

\* A worker has cut a packet; with the buffer full it gets FALSE instead.  It
\* looks at the closing flag only after the push: a packet of a session that
\* another thread has closed meanwhile is queued all the same.
PushPacket(s, d) ==
  LET n == g_job_count[g_write]
      job == [type |-> "Packet", s |-> s, data |-> d] IN
    /\ stage[s] # "new"
    /\ n < MaxJob
    /\ g_job_buf' = [g_job_buf EXCEPT ![g_write][n + 1] = job]
    /\ g_job_count' = [g_job_count EXCEPT ![g_write] = n + 1]
    /\ accepted' = <<job>> /\ handled' = <<>>
    /\ UNCHANGED <<g_life_buf, g_life_count, g_write, tickVars, stage, met>>

\* Mutant of SwapJobs: the counts of the buffer taken are not reset.
SwapJobsFull ==
  /\ li = lcount /\ ji = count
  /\ batch' = g_write
  /\ lcount' = g_life_count[g_write] /\ count' = g_job_count[g_write]
  /\ li' = 0 /\ ji' = 0
  /\ g_write' = 1 - g_write
  /\ accepted' = <<>> /\ handled' = <<>>
  /\ UNCHANGED <<g_life_buf, g_job_buf, g_life_count, g_job_count, stage, met>>

\* SwapJobs: take both buffers in one locked section and leave the others.
SwapJobs ==
  /\ li = lcount /\ ji = count
  /\ batch' = g_write
  /\ lcount' = g_life_count[g_write] /\ count' = g_job_count[g_write]
  /\ li' = 0 /\ ji' = 0
  /\ g_write' = 1 - g_write
  /\ g_life_count' = [g_life_count EXCEPT ![g_write] = 0]
  /\ g_job_count' = [g_job_count EXCEPT ![g_write] = 0]
  /\ accepted' = <<>> /\ handled' = <<>>
  /\ UNCHANGED <<g_life_buf, g_job_buf, stage, met>>

\* The tick thread handles the next Enter or Leave of its batch ...
HandleLife ==
  /\ li < lcount
  /\ LET job == g_life_buf[batch][li + 1] IN
       /\ handled' = <<job>>
       /\ met' = IF job.type = "Enter" THEN met \cup {job.s} ELSE met
  /\ li' = li + 1
  /\ accepted' = <<>>
  /\ UNCHANGED <<bufVars, batch, lcount, count, ji, stage>>

\* ... and, when there is none left, the next packet.
HandlePacket ==
  /\ li = lcount /\ ji < count
  /\ handled' = <<g_job_buf[batch][ji + 1]>>
  /\ ji' = ji + 1
  /\ accepted' = <<>>
  /\ UNCHANGED <<bufVars, batch, lcount, count, li, stage, met>>

Tick == SwapJobs \/ HandleLife \/ HandlePacket

JobNext ==
  \/ \E s \in Session : \/ PushEnter(s) \/ PushLeave(s)
                        \/ \E d \in Data : PushPacket(s, d)
  \/ Tick

JobSpec == InitJobQueue /\ [][JobNext]_jobsVars

-----------------------------------------------------------------------------
\* What the tick thread has yet to handle, in the order it will.
Lives ==
  SubSeq(g_life_buf[batch], li + 1, lcount)
  \o SubSeq(g_life_buf[g_write], 1, g_life_count[g_write])
Packets ==
  SubSeq(g_job_buf[batch], ji + 1, count)
  \o SubSeq(g_job_buf[g_write], 1, g_job_count[g_write])

\* The job of a step - there is one at most - if it is of the kind.
LifeOnly(jobs) == IF \E i \in DOMAIN jobs : jobs[i].type # "Packet" THEN jobs ELSE <<>>
PacketsOnly(jobs) == IF \E i \in DOMAIN jobs : jobs[i].type = "Packet" THEN jobs ELSE <<>>

LifeQueue == INSTANCE Fifo
  WITH queue <- Lives, handed <- LifeOnly(accepted), arrived <- LifeOnly(handled)
PacketQueue == INSTANCE Fifo
  WITH queue <- Packets, handed <- PacketsOnly(accepted), arrived <- PacketsOnly(handled)

\* Nobody's packet is handled before his Enter ("입장이 그 사람 패킷보다
\* 먼저여야 한다"): it would find no seat and be thrown away.
EnterFirst ==
  [][\A i \in DOMAIN handled' :
        handled'[i].type = "Packet" => handled'[i].s \in met]_jobsVars

\* Every job that was accepted is handled once and in order within its kind, though
\* the tick thread reads its batch without the lock, and an Enter comes before the
\* packets of its session although they wait in different buffers.
JobsImplement == LifeQueue!Spec /\ PacketQueue!Spec /\ EnterFirst

=============================================================================
