------------------------------ MODULE SendRing ------------------------------
(***************************************************************************)
(* The send path of one session: the ring of SendBuffer.h, filled by       *)
(* SendPacket (tick thread) and drained by StartSend and the completion    *)
(* branch of WorkerThread.  The kernel sends straight from the ring: it    *)
(* reads the ordered cells at some time before the completion, while       *)
(* SendPacket goes on pushing.  Each locked section is one step.           *)
(***************************************************************************)
EXTENDS Integers, Sequences

CONSTANTS
  Byte,      \* the values a byte can have
  Size,      \* SEND_BUFFER_SIZE
  MaxPacket  \* MAX_PACKET_SIZE

ASSUME RingAssumption ==
  /\ Byte # {}
  /\ Size \in Nat \ {0}
  /\ MaxPacket \in 1 .. Size

VARIABLES
  buf, head, tail, size,   \* struct SendBuffer
  sending,                 \* Session::sending
  closing,                 \* Session::closing
  checked,                 \* SendPacket has found closing = 0
  at, len,                 \* wsabuf of the order: first cell and length
  order,                   \* "none", "due", "peeked", "posted", "read", "done"
  done,                    \* bytes the kernel has sent for the order
  handed, arrived          \* what SendPacket was given, what the peer got

ringVars == <<buf, head, tail, size>>
orderVars == <<at, len, order, done>>
vars == <<ringVars, sending, closing, checked, orderVars, handed, arrived>>

Cell == 0 .. Size - 1
Packet == UNION {[1 .. n -> Byte] : n \in 1 .. MaxPacket}
Lower(a, b) == IF a < b THEN a ELSE b

\* The buffer starts with whatever its memory held.
Init ==
  /\ buf \in [Cell -> Byte]
  /\ head = 0 /\ tail = 0 /\ size = 0
  /\ sending = FALSE /\ closing = FALSE /\ checked = FALSE
  /\ at = 0 /\ len = 0 /\ order = "none" /\ done = 0
  /\ handed = <<>> /\ arrived = <<>>

Free == Size - size
PeekSize == Lower(size, Size - head)

\* memcpy of data to the cells from tail on, in two pieces if it must wrap.
Written(data) ==
  LET first == Lower(Len(data), Size - tail) IN
    [c \in Cell |->
       IF c >= tail /\ c < tail + first THEN data[c - tail + 1]
       ELSE IF c < Len(data) - first THEN data[first + c + 1]
       ELSE buf[c]]

-----------------------------------------------------------------------------
\* SendPacket looks at the closing flag before it takes the lock.
Check ==
  /\ ~checked /\ ~closing
  /\ checked' = TRUE
  /\ handed' = <<>> /\ arrived' = <<>>
  /\ UNCHANGED <<ringVars, sending, closing, orderVars>>

\* SendPacket, under the lock: push, and if nobody is sending, start.
Push(data) ==
  /\ checked /\ checked' = FALSE
  /\ Len(data) <= Free
  /\ buf' = Written(data)
  /\ tail' = (tail + Len(data)) % Size
  /\ size' = size + Len(data)
  /\ sending' = TRUE
  /\ order' = IF sending THEN order ELSE "due"
  /\ handed' = data /\ arrived' = <<>>
  /\ UNCHANGED <<head, closing, at, len, done>>

\* SendPacket without room: the peer does not read.
PushFails(data) ==
  /\ checked /\ checked' = FALSE
  /\ Len(data) > Free
  /\ closing' = TRUE
  /\ handed' = <<>> /\ arrived' = <<>>
  /\ UNCHANGED <<ringVars, sending, orderVars>>

\* Anybody else who calls CloseSession.
Close ==
  /\ ~closing
  /\ closing' = TRUE
  /\ handed' = <<>> /\ arrived' = <<>>
  /\ UNCHANGED <<ringVars, sending, checked, orderVars>>

\* StartSend looks at the ring under the lock ...
Peek ==
  /\ order = "due"
  /\ at' = head /\ len' = PeekSize
  /\ order' = "peeked"
  /\ done' = 0
  /\ handed' = <<>> /\ arrived' = <<>>
  /\ UNCHANGED <<ringVars, sending, closing, checked>>

\* ... and calls WSASend outside it.  On a failure it closes the session.
WSASend ==
  /\ order = "peeked"
  /\ \/ order' = "posted" /\ UNCHANGED closing
     \/ order' = "none" /\ closing' = TRUE
  /\ handed' = <<>> /\ arrived' = <<>>
  /\ UNCHANGED <<ringVars, sending, checked, at, len, done>>

\* The kernel sends n of the ordered bytes, as the ring has them by now.
KernelReads(n) ==
  /\ order = "posted"
  /\ arrived' = [i \in 1 .. n |-> buf[at + i - 1]]
  /\ handed' = <<>>
  /\ done' = n /\ order' = "read"
  /\ UNCHANGED <<ringVars, sending, closing, checked, at, len>>

\* Mutants of OnSent: all that was ordered counts as sent; head does not wrap.
OnSentAll ==
  /\ order = "read"
  /\ head' = (head + len) % Size
  /\ size' = size - len
  /\ sending' = (size' > 0)
  /\ order' = IF size' > 0 THEN "done" ELSE "none"
  /\ done' = 0
  /\ handed' = <<>> /\ arrived' = <<>>
  /\ UNCHANGED <<buf, tail, closing, checked, at, len>>
OnSentUnwrapped ==
  /\ order = "read"
  /\ head' = IF head + done > Size THEN head + done - Size ELSE head + done
  /\ size' = size - done
  /\ sending' = (size' > 0)
  /\ order' = IF size' > 0 THEN "done" ELSE "none"
  /\ done' = 0
  /\ handed' = <<>> /\ arrived' = <<>>
  /\ UNCHANGED <<buf, tail, closing, checked, at, len>>

\* The completion: under the lock, take the sent bytes off the ring.
OnSent ==
  /\ order = "read"
  /\ head' = (head + done) % Size
  /\ size' = size - done
  /\ sending' = (size' > 0)
  /\ order' = IF size' > 0 THEN "done" ELSE "none"
  /\ done' = 0
  /\ handed' = <<>> /\ arrived' = <<>>
  /\ UNCHANGED <<buf, tail, closing, checked, at, len>>

\* More to send: the worker starts the next order, unless it is closing.
More ==
  /\ order = "done"
  /\ order' = IF closing THEN "none" ELSE "due"
  /\ handed' = <<>> /\ arrived' = <<>>
  /\ UNCHANGED <<ringVars, sending, closing, checked, at, len, done>>

Worker == Peek \/ WSASend \/ OnSent \/ More
Kernel == \E n \in 1 .. len : KernelReads(n)

Next ==
  \/ Check \/ Close
  \/ \E data \in Packet : Push(data) \/ PushFails(data)
  \/ Worker \/ Kernel

Spec == Init /\ [][Next]_vars

-----------------------------------------------------------------------------
TypeOK ==
  /\ buf \in [Cell -> Byte]
  /\ head \in Cell /\ tail \in Cell /\ size \in 0 .. Size
  /\ sending \in BOOLEAN /\ closing \in BOOLEAN /\ checked \in BOOLEAN
  /\ at \in Cell /\ len \in 0 .. Size
  /\ order \in {"none", "due", "peeked", "posted", "read", "done"}
  /\ done \in 0 .. Size

\* The three counters of the ring agree.
Cursors == tail = (head + size) % Size

\* An order covers filled cells in one piece, starts at head, and nothing is
\* taken off the ring before it completes.
OrderOK ==
  /\ order \in {"peeked", "posted", "read"} => at = head /\ len \in 1 .. PeekSize
  /\ order = "read" => done \in 1 .. len
  /\ order # "read" => done = 0
  /\ order \in {"due", "done"} => size > 0
  /\ order # "none" => sending
  /\ order = "none" /\ ~closing => size = 0 /\ ~sending

\* The ring is well formed and the order in flight lies inside what it holds:
\* WSASend is never given an empty or a wrapping range (PeekSize).
RingInv == TypeOK /\ Cursors /\ OrderOK

\* The ring as a queue of the bytes that have not reached the peer.
Waiting == [i \in 1 .. size - done |-> buf[(head + done + i - 1) % Size]]

Bytes == INSTANCE Fifo WITH queue <- Waiting

\* The peer gets the bytes of the accepted packets once and in order, whatever
\* part of an order each completion covers.
Implements == Bytes!Spec

=============================================================================
