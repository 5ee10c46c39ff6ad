----------------------------- MODULE QueueProofs -----------------------------
(***************************************************************************)
(* The two buffers of the server that threads share, for every size.  The  *)
(* send ring stays well formed, whatever part of an order each completion   *)
(* covers, and is a queue of bytes; the double job buffer, that the tick     *)
(* thread reads without the lock, is a queue of lives and one of packets,   *)
(* and an Enter overtakes the packets of its session.                       *)
(***************************************************************************)
EXTENDS SendRing, JobQueue, SequenceTheorems, TLAPS

\* Sums of two positions are reduced by one turn at most.
LEMMA ModLess == ASSUME NEW S \in Nat \ {0}, NEW a \in 0 .. S - 1 PROVE a % S = a
  BY SMT

\* One turn past the seam.
LEMMA ModMore == ASSUME NEW S \in Nat \ {0}, NEW a \in S .. 2 * S - 1 PROVE a % S = a - S
  BY SMT

\* Two steps along the ring are one.
LEMMA ModStep ==
  ASSUME NEW S \in Nat \ {0}, NEW a \in 0 .. S - 1, NEW b \in 0 .. S, NEW c \in 0 .. S,
         b + c <= S
  PROVE  /\ (a + b) % S \in 0 .. S - 1
         /\ (((a + b) % S) + c) % S = (a + (b + c)) % S
<1>1. CASE a + b < S
  <2>1. (a + b) % S = a + b
    BY <1>1, ModLess
  <2> QED
    BY <1>1, <2>1
<1>2. CASE a + b >= S
  <2>1. (a + b) % S = a + b - S
    BY <1>2, ModMore
  <2>2. a + b - S + c \in 0 .. S - 1
    BY <1>2
  <2>3. (a + b - S + c) % S = a + b - S + c
    BY <2>2, ModLess
  <2>4. (a + (b + c)) % S = a + (b + c) - S
    <3>1. a + (b + c) \in S .. 2 * S - 1
      BY <1>2
    <3> QED
      BY <3>1, ModMore
  <2> QED
    BY <1>2, <2>1, <2>3, <2>4
<1> QED
  BY <1>1, <1>2

\* A packet has a byte at least, and the ring is no shorter.
LEMMA PacketLen == ASSUME NEW data \in Packet
                   PROVE  Len(data) \in 1 .. Size /\ data \in [1 .. Len(data) -> Byte]
  BY RingAssumption DEF Packet

\* A piece taken from what is left.
LEMMA Less == \A a \in Nat : \A b \in 0 .. a : a - b \in 0 .. a
  OBVIOUS

-----------------------------------------------------------------------------

\* The ring starts empty, with nobody's order in flight.
LEMMA RingInit == Init => RingInv
<1> SUFFICES ASSUME Init PROVE RingInv
  OBVIOUS
<1>1. 0 % Size = 0
  BY RingAssumption, ModLess
<1> QED
  BY <1>1, RingAssumption DEF Init, RingInv, TypeOK, Cursors, OrderOK, Cell

\* Push: the bytes fit, and tail goes round.
LEMMA RingPush == ASSUME RingInv, NEW data \in Packet, Push(data) PROVE RingInv'
<1> DEFINE n == Len(data)
<1>1. /\ n \in 1 .. Size /\ data \in [1 .. n -> Byte]
  BY PacketLen
<1>2. /\ buf \in [Cell -> Byte] /\ head \in Cell /\ tail \in Cell /\ size \in 0 .. Size
      /\ at \in Cell /\ len \in 0 .. Size /\ done \in 0 .. Size
      /\ order \in {"none", "due", "peeked", "posted", "read", "done"}
      /\ sending \in BOOLEAN /\ closing \in BOOLEAN
      /\ tail = (head + size) % Size
  BY DEF RingInv, TypeOK, Cursors
<1>3. Size \in Nat \ {0}
  BY RingAssumption
<1>4. size + n \in 1 .. Size /\ size' = size + n
  BY <1>1, <1>2, <1>3 DEF Push, Free
<1>5. tail' = (head' + size') % Size /\ tail' \in Cell
  <2>1. (((head + size) % Size) + n) % Size = (head + (size + n)) % Size
    <3>1. head \in 0 .. Size - 1 /\ n \in 0 .. Size /\ size + n <= Size
      BY <1>1, <1>2, <1>3, <1>4 DEF Cell
    <3>2. size \in 0 .. Size
      BY <1>2
    <3> HIDE DEF n
    <3> QED
      BY <1>3, <3>1, <3>2, ModStep
  <2>2. (head + (size + n)) % Size \in 0 .. Size - 1
    <3>1. head \in 0 .. Size - 1 /\ size + n \in 0 .. Size /\ 0 \in 0 .. Size
      BY <1>2, <1>3, <1>4 DEF Cell
    <3>2. (size + n) + 0 <= Size
      BY <1>3, <1>4
    <3> QED
      BY <1>3, <3>1, <3>2, ModStep
  <2>3. tail' = (tail + n) % Size /\ head' = head
    BY DEF Push
  <2> QED
    BY <1>2, <1>4, <2>1, <2>2, <2>3 DEF Cell
<1>6. buf' \in [Cell -> Byte]
  <2> DEFINE first == Lower(n, Size - tail)
  <2>1. first \in 0 .. n /\ tail \in 0 .. Size - 1
    BY <1>1, <1>2, <1>3 DEF Lower, Cell
  <2>2. ASSUME NEW c \in Cell
        PROVE  (IF c >= tail /\ c < tail + first THEN data[c - tail + 1]
                ELSE IF c < n - first THEN data[first + c + 1] ELSE buf[c]) \in Byte
    <3>1. c \in 0 .. Size - 1
      BY DEF Cell
    <3>2. CASE c >= tail /\ c < tail + first
      <4>1. c - tail + 1 \in 1 .. n
        BY <1>1, <1>3, <2>1, <3>1, <3>2
      <4> QED
        BY <1>1, <3>2, <4>1
    <3>3. CASE ~(c >= tail /\ c < tail + first) /\ c < n - first
      <4>1. first + c + 1 \in 1 .. n
        BY <1>1, <1>3, <2>1, <3>1, <3>3
      <4> QED
        BY <1>1, <3>3, <4>1
    <3>4. CASE ~(c >= tail /\ c < tail + first) /\ ~(c < n - first)
      BY <1>2, <3>4
    <3> QED
      BY <3>2, <3>3, <3>4
  <2>3. buf' = [c \in Cell |-> IF c >= tail /\ c < tail + first THEN data[c - tail + 1]
                               ELSE IF c < n - first THEN data[first + c + 1] ELSE buf[c]]
    BY DEF Push, Written
  <2> QED
    BY <2>2, <2>3
<1>7. TypeOK'
  <2>1. head' \in Cell /\ tail' \in Cell /\ size' \in 0 .. Size
        /\ at' \in Cell /\ len' \in 0 .. Size /\ done' \in 0 .. Size
        /\ order' \in {"none", "due", "peeked", "posted", "read", "done"}
    BY <1>2, <1>3, <1>4, <1>5 DEF Push
  <2>2. sending' \in BOOLEAN /\ closing' \in BOOLEAN /\ checked' \in BOOLEAN
    BY <1>2, Zenon DEF Push
  <2> QED
    BY <1>6, <2>1, <2>2, Zenon DEF TypeOK
<1>8. OrderOK'
  BY <1>2, <1>3, <1>4 DEF Push, RingInv, OrderOK, PeekSize, Lower, Cell
<1> QED
  BY <1>5, <1>7, <1>8 DEF RingInv, Cursors

\* Peek: the order ends where the ring does.
LEMMA RingPeek == RingInv /\ Peek => RingInv'
<1> SUFFICES ASSUME RingInv, Peek PROVE RingInv'
  OBVIOUS
<1>1. /\ head \in 0 .. Size - 1 /\ size \in 1 .. Size
      /\ Size \in Nat \ {0}
  BY RingAssumption DEF RingInv, TypeOK, OrderOK, Peek, Cell
<1>2. PeekSize \in 1 .. Size
  BY <1>1 DEF PeekSize, Lower
<1>3. TypeOK' /\ Cursors'
  <2>1. at' \in Cell /\ len' \in 0 .. Size /\ done' \in 0 .. Size
        /\ order' \in {"none", "due", "peeked", "posted", "read", "done"}
    BY <1>1, <1>2 DEF Peek, Cell
  <2>2. UNCHANGED <<buf, head, tail, size, sending, closing, checked>>
    BY Zenon DEF Peek, ringVars
  <2> QED
    BY <2>1, <2>2, Zenon DEF RingInv, TypeOK, Cursors
<1>4. OrderOK'
  BY <1>1, <1>2 DEF RingInv, OrderOK, PeekSize, Peek, ringVars
<1> QED
  BY <1>3, <1>4 DEF RingInv

\* The kernel reads the order straight from the ring and moves no cursor.
LEMMA RingReads == ASSUME RingInv, NEW n \in 1 .. len, KernelReads(n) PROVE RingInv'
<1>1. len \in 0 .. Size /\ Size \in Nat
  BY RingAssumption DEF RingInv, TypeOK
<1> QED
  BY <1>1 DEF RingInv, TypeOK, Cursors, OrderOK, KernelReads, ringVars, PeekSize

\* OnSent: head follows, by as much as was sent.
LEMMA RingSent == RingInv /\ OnSent => RingInv'
<1> SUFFICES ASSUME RingInv, OnSent PROVE RingInv'
  OBVIOUS
<1>1. /\ head \in 0 .. Size - 1 /\ size \in 0 .. Size
      /\ done \in 1 .. len /\ len \in 1 .. PeekSize /\ tail = (head + size) % Size
      /\ Size \in Nat \ {0}
  BY RingAssumption DEF RingInv, TypeOK, Cursors, OrderOK, OnSent, Cell
<1>2. done \in 1 .. size
  BY <1>1 DEF PeekSize, Lower
<1>3. size' \in 0 .. Size /\ size' = size - done
  BY <1>1, <1>2 DEF OnSent
<1>4. /\ (head + done) % Size \in 0 .. Size - 1
      /\ (((head + done) % Size) + size') % Size = (head + (done + size')) % Size
  <2> DEFINE left == size'
  <2>1. done \in 0 .. Size /\ left \in 0 .. Size /\ done + left <= Size
    BY <1>1, <1>2, <1>3
  <2> HIDE DEF left
  <2>2. /\ (head + done) % Size \in 0 .. Size - 1
        /\ (((head + done) % Size) + left) % Size = (head + (done + left)) % Size
    BY <1>1, <2>1, ModStep
  <2> QED
    BY <2>2 DEF left
<1>5. done + size' = size
  BY <1>1, <1>2, <1>3
<1>6. tail' = (head' + size') % Size /\ head' \in Cell
  BY <1>1, <1>4, <1>5 DEF OnSent, Cell
<1>7. TypeOK'
  <2>1. size' \in 0 .. Size /\ head' \in Cell /\ done' \in 0 .. Size
        /\ order' \in {"none", "due", "peeked", "posted", "read", "done"}
    BY <1>1, <1>3, <1>6 DEF OnSent
  <2>2. sending' \in BOOLEAN
    <3>1. (size' > 0) \in BOOLEAN
      BY <1>3
    <3> QED
      BY <3>1, Zenon DEF OnSent
  <2>3. UNCHANGED <<buf, tail, closing, checked, at, len>>
    BY Zenon DEF OnSent
  <2> QED
    BY <2>1, <2>2, <2>3, Zenon DEF RingInv, TypeOK
<1>8. OrderOK'
  <2>1. CASE size' > 0
    <3>1. sending' /\ order' = "done" /\ done' = 0
      BY <2>1, Zenon DEF OnSent
    <3> QED
      BY <2>1, <3>1 DEF OrderOK
  <2>2. CASE ~(size' > 0)
    <3>1. ~sending' /\ order' = "none" /\ done' = 0
      BY <2>2, Zenon DEF OnSent
    <3>2. size' = 0
      BY <1>3, <2>2
    <3> QED
      BY <3>1, <3>2 DEF OrderOK
  <2> QED
    BY <2>1, <2>2
<1> QED
  BY <1>6, <1>7, <1>8 DEF RingInv, Cursors

\* The steps that leave the ring alone.
LEMMA RingRest ==
  RingInv /\ (Check \/ Close \/ WSASend \/ More \/ \E data \in Packet : PushFails(data))
  => RingInv'
<1>0. ASSUME RingInv, UNCHANGED <<ringVars, at, len, done>>
      PROVE  /\ Cursors' /\ (PeekSize' = PeekSize)
             /\ buf' \in [Cell -> Byte] /\ head' \in Cell /\ tail' \in Cell
             /\ size' \in 0 .. Size /\ at' \in Cell /\ len' \in 0 .. Size
             /\ done' \in 0 .. Size
  BY <1>0 DEF RingInv, TypeOK, Cursors, PeekSize, ringVars
<1>1. ASSUME RingInv, Check \/ Close \/ (\E data \in Packet : PushFails(data))
      PROVE  RingInv'
  <2>1. UNCHANGED <<ringVars, at, len, done>> /\ UNCHANGED <<size, order, sending>>
    BY <1>1, Zenon DEF Check, Close, PushFails, orderVars, ringVars
  <2>2. checked' \in BOOLEAN /\ closing' \in BOOLEAN /\ (closing => closing')
    BY <1>1, Zenon DEF Check, Close, PushFails, RingInv, TypeOK
  <2>3. sending' \in BOOLEAN
        /\ order' \in {"none", "due", "peeked", "posted", "read", "done"}
    BY <1>1, <2>1, Zenon DEF RingInv, TypeOK
  <2>4. TypeOK' /\ Cursors'
    BY <1>0, <1>1, <2>1, <2>2, <2>3, Zenon DEF TypeOK
  <2>5. OrderOK'
    <3>1. (order = "none" /\ ~closing') => (order = "none" /\ ~closing)
      BY <2>2, Zenon
    <3>2. PeekSize' = PeekSize /\ UNCHANGED <<order, at, head, len, done, size, sending>>
      BY <1>0, <1>1, <2>1, Zenon DEF ringVars
    <3> QED
      BY <1>1, <3>1, <3>2, Zenon DEF RingInv, OrderOK
  <2> QED
    BY <2>4, <2>5 DEF RingInv
<1>2. ASSUME RingInv, WSASend PROVE RingInv'
  <2>1. UNCHANGED <<ringVars, at, len, done, head, size, sending>> /\ order = "peeked"
        /\ (order' = "posted" \/ (order' = "none" /\ closing'))
    BY <1>2, Zenon DEF WSASend, ringVars
  <2>2. checked' \in BOOLEAN /\ closing' \in BOOLEAN /\ sending' \in BOOLEAN /\ sending'
    <3>1. checked \in BOOLEAN /\ closing \in BOOLEAN /\ sending \in BOOLEAN
      BY <1>2, Zenon DEF RingInv, TypeOK
    <3>2. sending
      BY <1>2, <2>1 DEF RingInv, OrderOK
    <3>3. checked' = checked /\ sending' = sending /\ (closing' = closing \/ closing' = TRUE)
      BY <1>2, Zenon DEF WSASend
    <3>4. checked' \in BOOLEAN /\ sending' \in BOOLEAN /\ sending'
      BY <3>1, <3>2, <3>3, Zenon
    <3>5. closing' \in BOOLEAN
      BY <3>1, <3>3, Zenon
    <3> QED
      BY <3>4, <3>5
  <2>3. at' = head' /\ len' \in 1 .. PeekSize' /\ done' = 0
    BY <1>0, <1>2, <2>1 DEF RingInv, OrderOK
  <2>4. order' \in {"none", "due", "peeked", "posted", "read", "done"}
    BY <2>1
  <2>5. TypeOK' /\ Cursors'
    BY <1>0, <1>2, <2>1, <2>2, <2>4, Zenon DEF TypeOK
  <2>6. OrderOK'
    BY <2>1, <2>2, <2>3 DEF OrderOK
  <2> QED
    BY <2>5, <2>6 DEF RingInv
<1>3. ASSUME RingInv, More PROVE RingInv'
  <2>1. UNCHANGED <<ringVars, at, len, done, size, sending>> /\ order = "done"
        /\ (order' = "due" \/ (order' = "none" /\ closing'))
    BY <1>3, Zenon DEF More, ringVars
  <2>2. checked' \in BOOLEAN /\ closing' \in BOOLEAN /\ sending' \in BOOLEAN /\ sending'
    <3>1. checked \in BOOLEAN /\ closing \in BOOLEAN /\ sending \in BOOLEAN
      BY <1>3, Zenon DEF RingInv, TypeOK
    <3>2. sending
      BY <1>3, <2>1 DEF RingInv, OrderOK
    <3>3. checked' = checked /\ sending' = sending /\ (closing' = closing \/ closing' = TRUE)
      BY <1>3, Zenon DEF More
    <3>4. checked' \in BOOLEAN /\ sending' \in BOOLEAN /\ sending'
      BY <3>1, <3>2, <3>3, Zenon
    <3>5. closing' \in BOOLEAN
      BY <3>1, <3>3, Zenon
    <3> QED
      BY <3>4, <3>5
  <2>3. size' > 0 /\ done' = 0
    BY <1>3, <2>1 DEF RingInv, OrderOK
  <2>4. order' \in {"none", "due", "peeked", "posted", "read", "done"}
    BY <2>1
  <2>5. TypeOK' /\ Cursors'
    BY <1>0, <1>3, <2>1, <2>2, <2>4, Zenon DEF TypeOK
  <2>6. OrderOK'
    BY <2>1, <2>2, <2>3 DEF OrderOK
  <2> QED
    BY <2>5, <2>6 DEF RingInv
<1> QED
  BY <1>1, <1>2, <1>3

\* Nor does any step: a push, an order, its completion or its failure.
LEMMA RingStep == RingInv /\ [Next]_vars => RingInv'
<1> SUFFICES ASSUME RingInv, [Next]_vars PROVE RingInv'
  OBVIOUS
<1>1. CASE UNCHANGED vars
  BY <1>1 DEF vars, ringVars, orderVars, RingInv, TypeOK, Cursors, OrderOK, PeekSize
<1>2. CASE \E data \in Packet : Push(data)
  BY <1>2, RingPush
<1>3. CASE Kernel
  BY <1>3, RingReads DEF Kernel
<1> QED
  BY <1>1, <1>2, <1>3, RingPeek, RingSent, RingRest DEF Next, Worker

\* The ring is well formed and the order in flight lies inside what it holds, in one
\* piece: the kernel, which sends straight from the ring, never reads a cell that is not
\* filled, and SendPacket never overwrites one that is (SendBuffer.h, Network.h:43).
THEOREM RingAlways == Spec => []RingInv
  BY RingInit, RingStep, PTL DEF Spec

-----------------------------------------------------------------------------
(* The ring is a queue of bytes.                                           *)

\* A position counted from head goes round once at most.
LEMMA Round ==
  ASSUME NEW S \in Nat \ {0}, NEW a \in 0 .. 2 * S - 1
  PROVE  a % S = (IF a < S THEN a ELSE a - S) /\ a % S \in 0 .. S - 1
<1>1. CASE a < S
  <2>1. a \in 0 .. S - 1
    BY <1>1
  <2>2. a % S = a
    BY <2>1, ModLess
  <2> QED BY <1>1, <2>1, <2>2
<1>2. CASE ~(a < S)
  <2>1. a \in S .. 2 * S - 1 /\ a - S \in 0 .. S - 1
    BY <1>2
  <2>2. a % S = a - S
    BY <2>1, ModMore
  <2> QED BY <1>2, <2>1, <2>2
<1> QED BY <1>1, <1>2

\* The sum of a place and a distance within the ring is at most one turn and a place.
LEMMA Reach == \A S \in Nat \ {0} : \A h \in 0 .. S - 1 : \A m \in 0 .. S :
                  h + m \in 0 .. 2 * S - 1
  BY SMT

\* Where the j-th of n bytes behind z filled cells goes: first piece or second.
LEMMA Where ==
  ASSUME NEW S \in Nat \ {0}, NEW h \in 0 .. S - 1, NEW z \in 0 .. S, NEW n \in 1 .. S,
         n + z <= S, NEW t \in 0 .. S - 1, t = (IF h + z < S THEN h + z ELSE h + z - S),
         NEW f \in Int, f = (IF n < S - t THEN n ELSE S - t),
         NEW j \in 1 .. n, NEW c \in 0 .. S - 1,
         c = (IF h + z + j - 1 < S THEN h + z + j - 1 ELSE h + z + j - 1 - S)
  PROVE  /\ (c >= t /\ c < t + f) => c - t + 1 = j
         /\ ~(c >= t /\ c < t + f) => (f + c + 1 = j /\ c < n - f)
<1>1. CASE h + z < S
  BY <1>1, SMT
<1>2. CASE ~(h + z < S)
  BY <1>2, SMT
<1> QED BY <1>1, <1>2

\* A filled cell is in neither piece.
LEMMA NotThere ==
  ASSUME NEW S \in Nat \ {0}, NEW h \in 0 .. S - 1, NEW z \in 0 .. S, NEW n \in 1 .. S,
         n + z <= S, NEW t \in 0 .. S - 1, t = (IF h + z < S THEN h + z ELSE h + z - S),
         NEW f \in Int, f = (IF n < S - t THEN n ELSE S - t),
         NEW m \in 0 .. z - 1, NEW c \in 0 .. S - 1,
         c = (IF h + m < S THEN h + m ELSE h + m - S)
  PROVE  ~(c >= t /\ c < t + f) /\ ~(c < n - f)
<1>1. CASE h + z < S
  BY <1>1, SMT
<1>2. CASE ~(h + z < S)
  BY <1>2, SMT
<1> QED BY <1>1, <1>2

\* What is sent of the order in flight is part of what the ring holds.
LEMMA DoneIn ==
  ASSUME RingInv
  PROVE  /\ Size \in Nat \ {0} /\ head \in 0 .. Size - 1 /\ size \in 0 .. Size
         /\ done \in 0 .. size /\ size - done \in 0 .. Size
         /\ tail = (head + size) % Size
         /\ order = "read" => done > 0
<1>1. /\ Size \in Nat \ {0} /\ head \in 0 .. Size - 1 /\ size \in 0 .. Size /\ done \in 0 .. Size
      /\ len \in 0 .. Size
  BY RingAssumption DEF RingInv, TypeOK, Cell
<1>2. order = "read" => done \in 1 .. size
  BY <1>1 DEF RingInv, OrderOK, PeekSize, Lower
<1>3. order # "read" => done = 0
  BY DEF RingInv, OrderOK
<1> QED BY <1>1, <1>2, <1>3 DEF RingInv, Cursors

\* The bytes that wait lie behind each other, around the seam if need be.
WaitingShape ==
  /\ Waiting \in Seq(Byte) /\ Len(Waiting) = size - done
  /\ \A i \in 1 .. size - done : Waiting[i] = buf[(head + done + i - 1) % Size]

\* In a well-formed ring they do.
LEMMA WaitingSeq == RingInv => WaitingShape
<1> SUFFICES ASSUME RingInv PROVE WaitingShape
  OBVIOUS
<1> DEFINE k == size - done
<1>1. ASSUME NEW i \in 1 .. k PROVE (head + done + i - 1) % Size \in Cell
  <2>1. /\ Size \in Nat \ {0} /\ head \in 0 .. Size - 1 /\ done + i - 1 \in 0 .. Size
        /\ head + done + i - 1 = head + (done + i - 1)
    BY DoneIn
  <2>2. head + done + i - 1 \in 0 .. 2 * Size - 1
    BY <2>1, Reach
  <2> QED BY <2>1, <2>2, Round DEF Cell
<1>2. k \in Nat /\ buf \in [Cell -> Byte]
  BY DoneIn DEF RingInv, TypeOK
<1>3. \A i \in 1 .. k : buf[(head + done + i - 1) % Size] \in Byte
  BY <1>1, <1>2
<1>4. Waiting = [i \in 1 .. k |-> buf[(head + done + i - 1) % Size]]
  BY DEF Waiting
<1>5. Waiting \in [1 .. k -> Byte]
  <2> HIDE DEF k
  <2> QED BY <1>3, <1>4
<1>6. Waiting \in Seq(Byte) /\ Len(Waiting) = k
  <2> HIDE DEF k
  <2> QED BY <1>2, <1>5
<1>7. \A i \in 1 .. k : Waiting[i] = buf[(head + done + i - 1) % Size]
  BY <1>4
<1> QED BY <1>6, <1>7 DEF WaitingShape

\* And in the next state.
LEMMA PrimedShape == RingInv' => WaitingShape'
  BY WaitingSeq, PTL

\* memcpy in two pieces: the n-th byte of a packet that fits goes n places behind tail,
\* and nothing the ring holds is touched.
LEMMA WrittenWhere ==
  ASSUME RingInv, NEW data \in Packet, Len(data) <= Free
  PROVE  /\ \A j \in 1 .. Len(data) :
              Written(data)[(head + size + j - 1) % Size] = data[j]
         /\ \A m \in 0 .. size - 1 :
              Written(data)[(head + m) % Size] = buf[(head + m) % Size]
<1> DEFINE n == Len(data)
           first == Lower(n, Size - tail)
<1>0. Size \in Nat \ {0} /\ head \in 0 .. Size - 1 /\ size \in 0 .. Size
  BY DoneIn
<1>1. n \in 1 .. Size /\ n + size <= Size
  BY PacketLen, <1>0 DEF Free
<1>2. tail \in 0 .. Size - 1
      /\ tail = (IF head + size < Size THEN head + size ELSE head + size - Size)
  <2> DEFINE a == head + size
  <2>1. a \in 0 .. 2 * Size - 1 /\ tail = a % Size
    BY <1>0, Reach, DoneIn
  <2> HIDE DEF a
  <2>2. a % Size = (IF a < Size THEN a ELSE a - Size) /\ a % Size \in 0 .. Size - 1
    BY <1>0, <2>1, Round
  <2>3. tail \in 0 .. Size - 1 /\ tail = (IF a < Size THEN a ELSE a - Size)
    BY <2>1, <2>2, Zenon
  <2> QED BY <1>0, <2>3 DEF a
<1>3. first = (IF n < Size - tail THEN n ELSE Size - tail) /\ first \in Int
  BY <1>0, <1>1, <1>2 DEF Lower
<1>4. \A c \in Cell : Written(data)[c] =
        IF c >= tail /\ c < tail + first THEN data[c - tail + 1]
        ELSE IF c < n - first THEN data[first + c + 1] ELSE buf[c]
  BY DEF Written
<1> HIDE DEF n, first
<1>5. ASSUME NEW j \in 1 .. n
      PROVE  Written(data)[(head + size + j - 1) % Size] = data[j]
  <2> DEFINE p == head + size + j - 1
             c == p % Size
  <2>1. p \in 0 .. 2 * Size - 1
    <3>1. size + j - 1 \in 0 .. Size /\ p = head + (size + j - 1)
      BY <1>0, <1>1
    <3> QED BY <1>0, <3>1, Reach
  <2>2. c \in 0 .. Size - 1 /\ c = (IF p < Size THEN p ELSE p - Size)
    <3> HIDE DEF p
    <3> QED BY <2>1, <1>0, Round
  <2>3. c \in Cell
    BY <2>2 DEF Cell
  <2>4. /\ (c >= tail /\ c < tail + first) => c - tail + 1 = j
        /\ ~(c >= tail /\ c < tail + first) => (first + c + 1 = j /\ c < n - first)
    <3> HIDE DEF c
    <3> QED BY <1>0, <1>1, <1>2, <1>3, <2>2, Where
  <2>5. Written(data)[c] = data[j]
    <3> HIDE DEF c
    <3> QED BY <1>4, <2>3, <2>4, Zenon
  <2> QED BY <2>5
<1>6. ASSUME NEW m \in 0 .. size - 1
      PROVE  Written(data)[(head + m) % Size] = buf[(head + m) % Size]
  <2> DEFINE p == head + m
             c == p % Size
  <2>1. p \in 0 .. 2 * Size - 1
    <3>1. m \in 0 .. Size
      BY <1>0
    <3> QED BY <1>0, <3>1, Reach
  <2>2. c \in 0 .. Size - 1 /\ c = (IF p < Size THEN p ELSE p - Size)
    <3> HIDE DEF p
    <3> QED BY <2>1, <1>0, Round
  <2>3. c \in Cell
    BY <2>2 DEF Cell
  <2>4. ~(c >= tail /\ c < tail + first) /\ ~(c < n - first)
    <3> HIDE DEF c
    <3> QED BY <1>0, <1>1, <1>2, <1>3, <2>2, NotThere
  <2>5. Written(data)[c] = buf[c]
    <3> HIDE DEF c
    <3> QED BY <1>4, <2>3, <2>4, Zenon
  <2> QED BY <2>5
<1> QED BY <1>5, <1>6 DEF n

\* A push hands the packet in behind all that waits, also while an order is under way.
LEMMA PushPuts ==
  ASSUME RingInv, RingInv', NEW data \in Packet, Push(data)
  PROVE  Bytes!Put
<1> DEFINE k == size - done
           n == Len(data)
<1>1. /\ buf' = Written(data) /\ size' = size + n /\ head' = head /\ done' = done
      /\ handed' = data /\ arrived' = <<>> /\ n <= Free
  BY DEF Push
<1>2. data \in Seq(Byte) /\ n \in 1 .. Size /\ data # <<>>
  BY PacketLen
<1>3. /\ Waiting \in Seq(Byte) /\ Len(Waiting) = k /\ k \in Nat
      /\ \A i \in 1 .. k : Waiting[i] = buf[(head + done + i - 1) % Size]
  BY WaitingSeq, DoneIn DEF WaitingShape
<1>4. /\ Waiting' \in Seq(Byte) /\ Len(Waiting') = k + n
      /\ \A i \in 1 .. k + n : Waiting'[i] = Written(data)[(head + done + i - 1) % Size]
  <2>1. /\ Waiting' \in Seq(Byte) /\ Len(Waiting') = size' - done'
        /\ \A i \in 1 .. size' - done' : Waiting'[i] = buf'[(head' + done' + i - 1) % Size]
    BY PrimedShape DEF WaitingShape
  <2>2. size' - done' = k + n
    BY <1>1, <1>2, DoneIn
  <2> QED BY <1>1, <2>1, <2>2
<1>5. ASSUME NEW i \in 1 .. k + n PROVE Waiting'[i] = (Waiting \o data)[i]
  <2>0. i \in Int
    BY <1>2, <1>3
  <2>1. (Waiting \o data)[i] = IF i <= k THEN Waiting[i] ELSE data[i - k]
    BY <1>2, <1>3, ConcatProperties
  <2>2. CASE i <= k
    <3>1. done + i - 1 \in 0 .. size - 1 /\ head + (done + i - 1) = head + done + i - 1
      <4>1. done \in 0 .. size /\ size \in Int /\ head \in Int /\ i \in 1 .. size - done
        BY <1>2, <1>3, <2>2, DoneIn
      <4> QED BY <4>1
    <3>2. Written(data)[(head + done + i - 1) % Size] = buf[(head + done + i - 1) % Size]
      BY <1>1, <3>1, WrittenWhere
    <3> QED BY <1>3, <1>4, <2>1, <2>2, <3>2
  <2>3. CASE ~(i <= k)
    <3>1. i - k \in 1 .. n /\ head + size + (i - k) - 1 = head + done + i - 1
      <4>1. done \in Int /\ size \in Int /\ head \in Int /\ n \in Int /\ k \in Int
        BY <1>2, <1>3, DoneIn
      <4>2. i - k \in 1 .. n
        <5> HIDE DEF k, n
        <5> QED BY <2>3, <4>1
      <4> QED BY <4>1, <4>2
    <3>2. Written(data)[(head + done + i - 1) % Size] = data[i - k]
      BY <1>1, <3>1, WrittenWhere
    <3> QED BY <1>4, <2>1, <2>3, <3>2
  <2> QED BY <2>2, <2>3
<1>6. Waiting' = Waiting \o data
  <2>1. Waiting \o data \in Seq(Byte) /\ Len(Waiting \o data) = k + n
    BY <1>2, <1>3, ConcatProperties
  <2> QED BY <1>4, <1>5, <2>1, SeqEqual
<1> QED BY <1>1, <1>2, <1>6 DEF Bytes!Put

\* A completion takes from the front of what waits as many bytes as it covers.
LEMMA ReadGets ==
  ASSUME RingInv, RingInv', NEW n \in 1 .. len, KernelReads(n)
  PROVE  Bytes!Get
<1> DEFINE k == size - done
<1>1. /\ UNCHANGED <<buf, head, size>> /\ done' = n /\ done = 0 /\ handed' = <<>>
      /\ arrived' = [i \in 1 .. n |-> buf[at + i - 1]] /\ at = head
      /\ n \in 1 .. PeekSize
  <2>1. order = "posted" /\ done = 0 /\ at = head /\ len \in 1 .. PeekSize
    BY DEF KernelReads, RingInv, OrderOK
  <2>2. PeekSize \in Int
    BY DoneIn DEF PeekSize, Lower
  <2> QED BY <2>1, <2>2 DEF KernelReads, ringVars
<1>2. n \in 1 .. size /\ head + n <= Size
  BY <1>1, DoneIn DEF PeekSize, Lower
<1>3. \A i \in 1 .. n : (head + done + i - 1) % Size = at + i - 1
  <2> TAKE i \in 1 .. n
  <2>1. head + done + i - 1 \in 0 .. Size - 1
    BY <1>1, <1>2, DoneIn
  <2> QED BY <1>1, <2>1, DoneIn, ModLess
<1>4. /\ Waiting \in Seq(Byte) /\ Len(Waiting) = k /\ k = size
      /\ \A i \in 1 .. k : Waiting[i] = buf[(head + done + i - 1) % Size]
  BY <1>1, WaitingSeq, DoneIn DEF WaitingShape
<1>5. /\ Waiting' \in Seq(Byte) /\ Len(Waiting') = k - n
      /\ \A i \in 1 .. k - n : Waiting'[i] = buf[(head + n + i - 1) % Size]
  <2>1. /\ Waiting' \in Seq(Byte) /\ Len(Waiting') = size' - done'
        /\ \A i \in 1 .. size' - done' : Waiting'[i] = buf'[(head' + done' + i - 1) % Size]
    BY PrimedShape DEF WaitingShape
  <2> QED BY <1>1, <1>4, <2>1
<1>6. arrived' \in Seq(Byte) /\ Len(arrived') = n /\ arrived' # <<>>
      /\ \A i \in 1 .. n : arrived'[i] = Waiting[i]
  <2>1. ASSUME NEW i \in 1 .. n PROVE arrived'[i] = Waiting[i] /\ Waiting[i] \in Byte
    <3>1. i \in 1 .. k
      BY <1>2, <1>4, DoneIn
    <3>2. arrived'[i] = buf[at + i - 1]
      BY <1>1
    <3>3. Waiting[i] = buf[at + i - 1]
      BY <1>3, <1>4, <3>1
    <3> QED BY <1>4, <3>1, <3>2, <3>3, ElementOfSeq
  <2>2. n \in Nat \ {0}
    BY <1>2, DoneIn
  <2>3. arrived' \in [1 .. n -> Byte]
    <3>1. \A i \in 1 .. n : buf[at + i - 1] \in Byte
      BY <1>1, <2>1
    <3> QED BY <1>1, <3>1, Zenon
  <2>4. arrived' \in Seq(Byte) /\ Len(arrived') = n
    BY <2>2, <2>3
  <2>5. arrived' # <<>>
    BY <2>2, <2>4, EmptySeq
  <2> QED BY <2>1, <2>4, <2>5
<1>7. ASSUME NEW i \in 1 .. k PROVE Waiting[i] = (arrived' \o Waiting')[i]
  <2>0. k \in Nat /\ n \in 1 .. k
    BY <1>2, <1>4, DoneIn
  <2>1. (arrived' \o Waiting')[i] = IF i <= n THEN arrived'[i] ELSE Waiting'[i - n]
    <3> DEFINE u == arrived'
               w == Waiting'
    <3>1. u \in Seq(Byte) /\ w \in Seq(Byte) /\ Len(u) = n /\ Len(w) = k - n
      BY <1>5, <1>6
    <3> HIDE DEF u, w, k
    <3>2. i \in 1 .. Len(u) + Len(w)
      BY <2>0, <3>1
    <3>3. (u \o w)[i] = IF i <= Len(u) THEN u[i] ELSE w[i - Len(u)]
      BY <3>1, <3>2, ConcatProperties
    <3>4. (u \o w)[i] = IF i <= n THEN u[i] ELSE w[i - n]
      BY <3>1, <3>3
    <3> QED BY <3>4 DEF u, w
  <2>2. CASE i <= n
    <3>1. i \in 1 .. n
      BY <2>0, <2>2
    <3> QED BY <1>6, <2>1, <2>2, <3>1
  <2>3. CASE ~(i <= n)
    <3>1. i - n \in 1 .. k - n /\ head + n + (i - n) - 1 = head + done + i - 1
      <4>1. done = 0 /\ head \in Int
        BY <1>1, DoneIn
      <4> HIDE DEF k
      <4> QED BY <2>0, <2>3, <4>1
    <3> QED BY <1>4, <1>5, <2>1, <2>3, <3>1
  <2> QED BY <2>2, <2>3
<1>8. Waiting = arrived' \o Waiting'
  <2>1. arrived' \o Waiting' \in Seq(Byte) /\ Len(arrived' \o Waiting') = k
    <3>0. n \in Int /\ k \in Int
      BY <1>2, <1>4, DoneIn
    <3>1. arrived' \o Waiting' \in Seq(Byte) /\ Len(arrived' \o Waiting') = n + (k - n)
      BY <1>5, <1>6, ConcatProperties
    <3> HIDE DEF k
    <3> QED BY <3>0, <3>1
  <2> QED BY <1>4, <1>7, <2>1, SeqEqual
<1> QED BY <1>1, <1>6, <1>8 DEF Bytes!Get

\* Taking the sent bytes off the ring takes nothing from what waits: they had arrived.
LEMMA SentRests ==
  ASSUME RingInv, RingInv', OnSent
  PROVE  Bytes!Rest
<1> DEFINE k == size - done
<1>1. /\ head' = (head + done) % Size /\ size' = size - done /\ done' = 0 /\ buf' = buf
      /\ handed' = <<>> /\ arrived' = <<>>
  BY DEF OnSent
<1>2. /\ Waiting \in Seq(Byte) /\ Len(Waiting) = k /\ k \in 0 .. Size
      /\ \A i \in 1 .. k : Waiting[i] = buf[(head + done + i - 1) % Size]
  BY WaitingSeq, DoneIn DEF WaitingShape
<1>3. /\ Waiting' \in Seq(Byte) /\ Len(Waiting') = size' - done'
      /\ \A i \in 1 .. size' - done' : Waiting'[i] = buf'[(head' + done' + i - 1) % Size]
  BY PrimedShape DEF WaitingShape
<1>4. size' - done' = k
  BY <1>1, <1>2
<1>5. ASSUME NEW i \in 1 .. k PROVE (head' + done' + i - 1) % Size = (head + done + i - 1) % Size
  <2>1. done \in 0 .. Size /\ i - 1 \in 0 .. Size /\ done + (i - 1) <= Size
    BY <1>2, DoneIn
  <2>2. (((head + done) % Size) + (i - 1)) % Size = (head + (done + (i - 1))) % Size
    BY <2>1, DoneIn, ModStep
  <2>3. /\ head' \in 0 .. Size - 1
        /\ head' + done' + i - 1 = head' + (i - 1)
        /\ head + done + i - 1 = head + (done + (i - 1))
    <3>0. Size \in Nat \ {0} /\ head \in 0 .. Size - 1 /\ done \in 0 .. Size /\ i \in Int
      BY <1>2, <2>1, DoneIn
    <3>1. (head + done) % Size \in 0 .. Size - 1
      <4>1. head + done \in 0 .. 2 * Size - 1
        BY <3>0, Reach
      <4> QED BY <3>0, <4>1, Round
    <3>2. head' \in 0 .. Size - 1 /\ done' = 0
      BY <1>1, <3>1
    <3> QED BY <3>0, <3>2
  <2>4. (head' + done' + i - 1) % Size = (head' + (i - 1)) % Size
    BY <2>3
  <2>5. (head + done + i - 1) % Size = (head + (done + (i - 1))) % Size
    BY <2>3
  <2>6. (head' + (i - 1)) % Size = (head + (done + (i - 1))) % Size
    BY <1>1, <2>2, Zenon
  <2> QED BY <2>4, <2>5, <2>6, Zenon
<1>6. Waiting' = Waiting
  <2>1. \A i \in 1 .. k : Waiting'[i] = Waiting[i]
    <3>1. \A i \in 1 .. k : Waiting'[i] = buf[(head' + done' + i - 1) % Size]
      BY <1>1, <1>3, <1>4
    <3> HIDE DEF k
    <3> QED BY <1>2, <1>5, <3>1
  <2>2. Waiting' \in Seq(Byte) /\ Len(Waiting') = k
    BY <1>3, <1>4
  <2> HIDE DEF k
  <2> QED BY <1>2, <2>1, <2>2, SeqEqual
<1> QED BY <1>1, <1>6 DEF Bytes!Rest

\* The other steps neither hand in nor take out.
LEMMA OthersRest ==
  ASSUME RingInv,
         Check \/ Close \/ Peek \/ WSASend \/ More \/ \E data \in Packet : PushFails(data)
  PROVE  Bytes!Rest
<1>1. UNCHANGED <<buf, head, size, done>> /\ handed' = <<>> /\ arrived' = <<>>
  <2>1. Peek => done' = done
    BY DEF Peek, RingInv, OrderOK
  <2> QED BY <2>1 DEF Check, Close, Peek, WSASend, More, PushFails, ringVars, orderVars
<1> QED BY <1>1 DEF Bytes!Rest, Waiting

\* Every step of the ring is a step of the queue, or none.
LEMMA RingSteps == ASSUME RingInv, RingInv', [Next]_vars PROVE [Bytes!Next]_(Bytes!vars)
<1>1. CASE UNCHANGED vars
  BY <1>1 DEF vars, ringVars, orderVars, Waiting, Bytes!vars
<1>2. ASSUME NEW data \in Packet, Push(data) PROVE Bytes!Next
  BY <1>2, PushPuts DEF Bytes!Next
<1>3. CASE Kernel
  BY <1>3, ReadGets DEF Kernel, Bytes!Next
<1>4. CASE OnSent
  BY <1>4, SentRests DEF Bytes!Next
<1>5. CASE Check \/ Close \/ Peek \/ WSASend \/ More \/ \E data \in Packet : PushFails(data)
  BY <1>5, OthersRest DEF Bytes!Next
<1> QED BY <1>1, <1>2, <1>3, <1>4, <1>5 DEF Next, Worker

\* The peer gets the bytes of the accepted packets once and in order, for every size of the
\* ring and of the packets, whatever part of an order each completion covers (SendBuffer.h,
\* Network.h:43-78, main.cpp:560-640).
THEOREM RingImplements == Spec => Implements
<1>1. Init => Bytes!Init
  <2> SUFFICES ASSUME Init PROVE Bytes!Init
    OBVIOUS
  <2>1. RingInv /\ size - done = 0 /\ handed = <<>> /\ arrived = <<>>
    BY RingInit DEF Init
  <2>2. Waiting = <<>>
    BY <2>1, WaitingSeq, EmptySeq DEF WaitingShape
  <2> QED BY <2>1, <2>2 DEF Bytes!Init
<1>2. RingInv /\ RingInv' /\ [Next]_vars => [Bytes!Next]_(Bytes!vars)
  BY RingSteps
<1> QED BY RingAlways, <1>1, <1>2, PTL DEF Spec, Implements, Bytes!Spec

-----------------------------------------------------------------------------
(* Pieces of a buffer.                                                     *)

\* A piece of a buffer is a sequence of what lies there.
LEMMA PieceIs ==
  ASSUME NEW V, NEW M \in Nat, NEW f \in [1 .. M -> V], NEW a \in 1 .. M + 1, NEW b \in 0 .. M
  PROVE  /\ SubSeq(f, a, b) \in Seq(V)
         /\ Len(SubSeq(f, a, b)) = IF a <= b THEN b - a + 1 ELSE 0
         /\ \A i \in 1 .. b - a + 1 : SubSeq(f, a, b)[i] = f[a + i - 1]
<1>1. a \in Int /\ b \in Int /\ \A i \in a .. b : f[i] \in V
  OBVIOUS
<1> QED BY <1>1, SubSeqProperties

\* A piece with nothing in it.
LEMMA PieceNone == ASSUME NEW f, NEW a \in Int, NEW b \in Int, b < a
                   PROVE  SubSeq(f, a, b) = <<>>
  BY SubSeqEmpty

\* The first of a piece and the others.
LEMMA PieceFirst ==
  ASSUME NEW V, NEW M \in Nat, NEW f \in [1 .. M -> V], NEW a \in 1 .. M, NEW b \in a .. M
  PROVE  SubSeq(f, a, b) = <<f[a]>> \o SubSeq(f, a + 1, b)
<1> DEFINE s == SubSeq(f, a, b)
           t == SubSeq(f, a + 1, b)
           u == <<f[a]>>
<1>1. a + 1 \in 1 .. M + 1 /\ a \in 1 .. M + 1 /\ b \in 0 .. M
  OBVIOUS
<1>2. s \in Seq(V) /\ Len(s) = b - a + 1 /\ \A i \in 1 .. b - a + 1 : s[i] = f[a + i - 1]
  BY <1>1, PieceIs
<1>3. t \in Seq(V) /\ Len(t) = b - a /\ \A i \in 1 .. b - a : t[i] = f[a + i]
  <2>1. /\ t \in Seq(V) /\ Len(t) = IF a + 1 <= b THEN b - (a + 1) + 1 ELSE 0
        /\ \A i \in 1 .. b - (a + 1) + 1 : t[i] = f[a + 1 + i - 1]
    BY <1>1, PieceIs
  <2>2. (IF a + 1 <= b THEN b - (a + 1) + 1 ELSE 0) = b - a /\ b - (a + 1) + 1 = b - a
    OBVIOUS
  <2>3. \A i \in 1 .. b - a : a + 1 + i - 1 = a + i
    OBVIOUS
  <2> HIDE DEF t
  <2> QED BY <2>1, <2>2, <2>3
<1>4. u \in Seq(V) /\ Len(u) = 1 /\ u[1] = f[a]
  <2>1. f[a] \in V
    OBVIOUS
  <2> QED BY <2>1
<1> HIDE DEF s, t, u
<1>5. /\ u \o t \in Seq(V) /\ Len(u \o t) = 1 + (b - a)
      /\ \A i \in 1 .. 1 + (b - a) : (u \o t)[i] = IF i <= 1 THEN u[i] ELSE t[i - 1]
  <2>1. /\ u \o t \in Seq(V) /\ Len(u \o t) = Len(u) + Len(t)
        /\ \A i \in 1 .. Len(u) + Len(t) : (u \o t)[i] = IF i <= Len(u) THEN u[i] ELSE t[i - Len(u)]
    BY <1>3, <1>4, ConcatProperties
  <2>2. Len(u) = 1 /\ Len(t) = b - a
    BY <1>3, <1>4
  <2> QED BY <2>1, <2>2
<1>6. ASSUME NEW i \in 1 .. b - a + 1 PROVE s[i] = (u \o t)[i]
  <2>1. i \in 1 .. 1 + (b - a) /\ i \in Int
    OBVIOUS
  <2>2. CASE i <= 1
    <3>1. i = 1 /\ a + i - 1 = a
      BY <2>1, <2>2
    <3> QED BY <1>2, <1>4, <1>5, <2>1, <2>2, <3>1
  <2>3. CASE ~(i <= 1)
    <3>1. i - 1 \in 1 .. b - a /\ a + (i - 1) = a + i - 1
      BY <2>1, <2>3
    <3>2. t[i - 1] = f[a + i - 1]
      BY <1>3, <3>1
    <3> QED BY <1>2, <1>5, <2>1, <2>3, <3>2
  <2> QED BY <2>2, <2>3
<1>7. b - a + 1 = 1 + (b - a)
  OBVIOUS
<1>8. s = u \o t
  BY <1>2, <1>5, <1>6, <1>7, SeqEqual
<1> QED BY <1>8 DEF s, t, u

\* What is written behind a piece makes it longer by that.
LEMMA PieceMore ==
  ASSUME NEW V, NEW M \in Nat, NEW f \in [1 .. M -> V], NEW b \in 0 .. M - 1, NEW v \in V
  PROVE  LET g == [f EXCEPT ![b + 1] = v] IN
         g \in [1 .. M -> V] /\ SubSeq(g, 1, b + 1) = SubSeq(f, 1, b) \o <<v>>
<1> DEFINE g == [f EXCEPT ![b + 1] = v]
           s == SubSeq(f, 1, b)
           t == SubSeq(g, 1, b + 1)
           u == <<v>>
<1>1. g \in [1 .. M -> V] /\ g[b + 1] = v /\ \A i \in 1 .. b : g[i] = f[i]
  OBVIOUS
<1> HIDE DEF g
<1>2. 1 \in 1 .. M + 1 /\ b \in 0 .. M /\ b + 1 \in 0 .. M
  OBVIOUS
<1>3. s \in Seq(V) /\ Len(s) = b /\ \A i \in 1 .. b : s[i] = f[i]
  <2>1. /\ s \in Seq(V) /\ Len(s) = IF 1 <= b THEN b - 1 + 1 ELSE 0
        /\ \A i \in 1 .. b - 1 + 1 : s[i] = f[1 + i - 1]
    BY <1>2, PieceIs
  <2>2. (IF 1 <= b THEN b - 1 + 1 ELSE 0) = b /\ b - 1 + 1 = b /\ \A i \in 1 .. b : 1 + i - 1 = i
    OBVIOUS
  <2> HIDE DEF s
  <2> QED BY <2>1, <2>2
<1>4. t \in Seq(V) /\ Len(t) = b + 1 /\ \A i \in 1 .. b + 1 : t[i] = g[i]
  <2>1. /\ t \in Seq(V) /\ Len(t) = IF 1 <= b + 1 THEN (b + 1) - 1 + 1 ELSE 0
        /\ \A i \in 1 .. (b + 1) - 1 + 1 : t[i] = g[1 + i - 1]
    BY <1>1, <1>2, PieceIs
  <2>2. (IF 1 <= b + 1 THEN (b + 1) - 1 + 1 ELSE 0) = b + 1 /\ (b + 1) - 1 + 1 = b + 1
        /\ \A i \in 1 .. b + 1 : 1 + i - 1 = i
    OBVIOUS
  <2> HIDE DEF t
  <2> QED BY <2>1, <2>2
<1>5. u \in Seq(V) /\ Len(u) = 1 /\ u[1] = v
  OBVIOUS
<1> HIDE DEF s, t, u
<1>6. /\ s \o u \in Seq(V) /\ Len(s \o u) = b + 1
      /\ \A i \in 1 .. b + 1 : (s \o u)[i] = IF i <= b THEN s[i] ELSE u[i - b]
  <2>1. /\ s \o u \in Seq(V) /\ Len(s \o u) = Len(s) + Len(u)
        /\ \A i \in 1 .. Len(s) + Len(u) : (s \o u)[i] = IF i <= Len(s) THEN s[i] ELSE u[i - Len(s)]
    BY <1>3, <1>5, ConcatProperties
  <2>2. Len(s) = b /\ Len(u) = 1
    BY <1>3, <1>5
  <2> QED BY <2>1, <2>2
<1>7. ASSUME NEW i \in 1 .. b + 1 PROVE t[i] = (s \o u)[i]
  <2>1. CASE i <= b
    <3>1. i \in 1 .. b
      BY <2>1
    <3> QED BY <1>1, <1>3, <1>4, <1>6, <2>1, <3>1
  <2>2. CASE ~(i <= b)
    <3>1. i = b + 1 /\ i - b = 1
      BY <2>2
    <3> QED BY <1>1, <1>4, <1>5, <1>6, <2>2, <3>1
  <2> QED BY <2>1, <2>2
<1>8. t = s \o u
  BY <1>4, <1>6, <1>7, SeqEqual
<1> QED BY <1>1, <1>8 DEF s, t, u, g

-----------------------------------------------------------------------------
(* The double job buffer.                                                  *)

LifeSlot == LifeJob \cup {NoJob}
JobSlot == PacketJob \cup {NoJob}

\* The buffers, and how much of them is filled: what is being filled and what the tick
\* thread has taken are never the same buffer, and the one it took counts as empty.
BuffersOK ==
  /\ g_life_buf \in [0 .. 1 -> [1 .. MaxLife -> LifeSlot]]
  /\ g_job_buf \in [0 .. 1 -> [1 .. MaxJob -> JobSlot]]
  /\ g_life_count \in [0 .. 1 -> 0 .. MaxLife]
  /\ g_job_count \in [0 .. 1 -> 0 .. MaxJob]
  /\ g_write \in 0 .. 1 /\ batch = 1 - g_write
  /\ g_life_count[batch] = 0 /\ g_job_count[batch] = 0
  /\ lcount \in 0 .. MaxLife /\ li \in 0 .. lcount
  /\ count \in 0 .. MaxJob /\ ji \in 0 .. count
  /\ stage \in [Session -> {"new", "open", "gone"}]

\* What counts as filled is filled, with jobs of that kind.
FilledOK ==
  /\ \A i \in 1 .. g_life_count[g_write] : g_life_buf[g_write][i] \in LifeJob
  /\ \A i \in 1 .. g_job_count[g_write] : g_job_buf[g_write][i] \in PacketJob
  /\ \A i \in li + 1 .. lcount : g_life_buf[batch][i] \in LifeJob
  /\ \A i \in ji + 1 .. count : g_job_buf[batch][i] \in PacketJob

\* The Enter of s has been handled, or dropped, or is still to come in this batch.
Enter(s) == [type |-> "Enter", s |-> s]
Known(s) == s \in met \/ \E i \in li + 1 .. lcount : g_life_buf[batch][i] = Enter(s)

\* An Enter lies no later than the packets of its session: both are pushed in that order,
\* both pairs of buffers are swapped together, and lives are handled first.
EnterBefore ==
  /\ \A s \in Session : stage[s] # "new" =>
       Known(s) \/ \E i \in 1 .. g_life_count[g_write] : g_life_buf[g_write][i] = Enter(s)
  /\ \A i \in 1 .. g_job_count[g_write] : stage[g_job_buf[g_write][i].s] # "new"
  /\ \A i \in ji + 1 .. count : Known(g_job_buf[batch][i].s)

QueueInv == BuffersOK /\ FilledOK /\ EnterBefore

\* What is left of a batch and what has been pushed since, as sequences of jobs.
LEMMA LivesAre ==
  ASSUME BuffersOK
  PROVE  /\ SubSeq(g_life_buf[batch], li + 1, lcount) \in Seq(LifeSlot)
         /\ SubSeq(g_life_buf[g_write], 1, g_life_count[g_write]) \in Seq(LifeSlot)
         /\ SubSeq(g_job_buf[batch], ji + 1, count) \in Seq(JobSlot)
         /\ SubSeq(g_job_buf[g_write], 1, g_job_count[g_write]) \in Seq(JobSlot)
<1>1. MaxLife \in Nat /\ MaxJob \in Nat
  BY QueueAssumption
<1>2. batch \in 0 .. 1 /\ g_write \in 0 .. 1
  BY DEF BuffersOK
<1>3. /\ g_life_buf[batch] \in [1 .. MaxLife -> LifeSlot]
      /\ g_life_buf[g_write] \in [1 .. MaxLife -> LifeSlot]
      /\ g_job_buf[batch] \in [1 .. MaxJob -> JobSlot]
      /\ g_job_buf[g_write] \in [1 .. MaxJob -> JobSlot]
      /\ g_life_count[g_write] \in 0 .. MaxLife /\ g_job_count[g_write] \in 0 .. MaxJob
  BY <1>2 DEF BuffersOK
<1>4. /\ li + 1 \in 1 .. MaxLife + 1 /\ lcount \in 0 .. MaxLife
      /\ ji + 1 \in 1 .. MaxJob + 1 /\ count \in 0 .. MaxJob
      /\ 1 \in 1 .. MaxLife + 1 /\ 1 \in 1 .. MaxJob + 1
  BY <1>1 DEF BuffersOK
<1> QED BY <1>1, <1>3, <1>4, PieceIs

\* At first nothing is there.
LEMMA QueueInit == InitJobQueue => QueueInv /\ Lives = <<>> /\ Packets = <<>>
<1> SUFFICES ASSUME InitJobQueue PROVE QueueInv /\ Lives = <<>> /\ Packets = <<>>
  OBVIOUS
<1>1. MaxLife \in Nat \ {0} /\ MaxJob \in Nat \ {0}
  BY QueueAssumption
<1>2. BuffersOK
  <2>1. [i \in 1 .. MaxLife |-> NoJob] \in [1 .. MaxLife -> LifeSlot]
    BY DEF LifeSlot
  <2>2. [i \in 1 .. MaxJob |-> NoJob] \in [1 .. MaxJob -> JobSlot]
    BY DEF JobSlot
  <2>3. g_life_buf \in [0 .. 1 -> [1 .. MaxLife -> LifeSlot]]
        /\ g_job_buf \in [0 .. 1 -> [1 .. MaxJob -> JobSlot]]
    BY <2>1, <2>2 DEF InitJobQueue
  <2>4. g_write = 0 /\ batch = 1 /\ lcount = 0 /\ li = 0 /\ count = 0 /\ ji = 0
    BY DEF InitJobQueue
  <2>5. /\ g_life_count \in [0 .. 1 -> 0 .. MaxLife] /\ g_life_count[batch] = 0
        /\ g_job_count \in [0 .. 1 -> 0 .. MaxJob] /\ g_job_count[batch] = 0
    BY <1>1, <2>4 DEF InitJobQueue
  <2>6. stage \in [Session -> {"new", "open", "gone"}]
    BY DEF InitJobQueue
  <2> QED BY <1>1, <2>3, <2>4, <2>5, <2>6 DEF BuffersOK
<1>3. g_life_count[g_write] = 0 /\ g_job_count[g_write] = 0 /\ li = 0 /\ lcount = 0
      /\ ji = 0 /\ count = 0
  BY DEF InitJobQueue
<1>4. FilledOK /\ EnterBefore
  <2>1. \A s \in Session : stage[s] = "new"
    BY DEF InitJobQueue
  <2> QED BY <1>3, <2>1 DEF FilledOK, EnterBefore
<1>5. \A f : SubSeq(f, 1, 0) = <<>> /\ SubSeq(f, 0 + 1, 0) = <<>>
  BY PieceNone
<1>6. <<>> \o <<>> = <<>>
  OBVIOUS
<1> QED BY <1>2, <1>3, <1>4, <1>5, <1>6 DEF QueueInv, Lives, Packets

\* An accepted Enter or Leave goes behind all that wait; without room nothing changes.
LEMMA LifePushed ==
  ASSUME QueueInv, NEW job \in LifeJob, PushLife(job), UNCHANGED tickVars
  PROVE  \/ /\ accepted' = <<>> /\ UNCHANGED <<g_life_buf, g_life_count, Lives>>
         \/ LET m == g_life_count[g_write] IN
            /\ accepted' = <<job>> /\ m \in 0 .. MaxLife - 1
            /\ g_life_count' = [g_life_count EXCEPT ![g_write] = m + 1]
            /\ g_life_buf' \in [0 .. 1 -> [1 .. MaxLife -> LifeSlot]]
            /\ g_life_buf'[batch] = g_life_buf[batch]
            /\ g_life_buf'[g_write] = [g_life_buf[g_write] EXCEPT ![m + 1] = job]
            /\ Lives' = Lives \o <<job>>
<1> DEFINE m == g_life_count[g_write]
<1>1. MaxLife \in Nat \ {0} /\ m \in 0 .. MaxLife /\ g_write \in 0 .. 1 /\ batch \in 0 .. 1
      /\ batch # g_write /\ BuffersOK
  BY QueueAssumption DEF QueueInv, BuffersOK
<1>2. UNCHANGED <<g_write, batch, li, lcount>>
  BY DEF PushLife, tickVars
<1>3. CASE m >= MaxLife
  <2>1. accepted' = <<>> /\ UNCHANGED <<g_life_buf, g_life_count>>
    BY <1>3 DEF PushLife
  <2> QED BY <1>2, <2>1 DEF Lives
<1>4. CASE ~(m >= MaxLife)
  <2> DEFINE w == g_life_buf[g_write]
             b == g_life_buf[batch]
             h == [w EXCEPT ![m + 1] = job]
  <2>1. /\ accepted' = <<job>>
        /\ g_life_buf' = [g_life_buf EXCEPT ![g_write][m + 1] = job]
        /\ g_life_count' = [g_life_count EXCEPT ![g_write] = m + 1]
    BY <1>4 DEF PushLife
  <2>2. m \in 0 .. MaxLife - 1 /\ w \in [1 .. MaxLife -> LifeSlot] /\ job \in LifeSlot
    BY <1>1, <1>4 DEF BuffersOK, LifeSlot
  <2>3. h \in [1 .. MaxLife -> LifeSlot] /\ SubSeq(h, 1, m + 1) = SubSeq(w, 1, m) \o <<job>>
    <3> HIDE DEF w, m
    <3> QED BY <1>1, <2>2, PieceMore
  <2>4. g_life_buf' = [g_life_buf EXCEPT ![g_write] = h]
    BY <1>1, <2>1 DEF BuffersOK
  <2> HIDE DEF h
  <2>5. /\ g_life_buf' \in [0 .. 1 -> [1 .. MaxLife -> LifeSlot]]
        /\ g_life_buf'[batch] = b /\ g_life_buf'[g_write] = h
    BY <1>1, <2>3, <2>4 DEF BuffersOK
  <2>6. g_life_count'[g_write] = m + 1
    BY <1>1, <2>1 DEF BuffersOK
  <2>7. Lives' = SubSeq(b, li + 1, lcount) \o (SubSeq(w, 1, m) \o <<job>>)
    <3>1. Lives' = SubSeq(g_life_buf'[batch'], li' + 1, lcount')
                   \o SubSeq(g_life_buf'[g_write'], 1, g_life_count'[g_write'])
      BY DEF Lives
    <3> QED BY <1>2, <2>3, <2>5, <2>6, <3>1
  <2>8. Lives = SubSeq(b, li + 1, lcount) \o SubSeq(w, 1, m)
    BY DEF Lives
  <2>9. SubSeq(b, li + 1, lcount) \in Seq(LifeSlot) /\ SubSeq(w, 1, m) \in Seq(LifeSlot)
        /\ <<job>> \in Seq(LifeSlot)
    BY <1>1, <2>2, LivesAre
  <2>10. Lives' = Lives \o <<job>>
    <3> DEFINE x == SubSeq(b, li + 1, lcount)
               y == SubSeq(w, 1, m)
               z == <<job>>
    <3>1. x \in Seq(LifeSlot) /\ y \in Seq(LifeSlot) /\ z \in Seq(LifeSlot)
      BY <2>9
    <3>2. Lives' = x \o (y \o z) /\ Lives = x \o y
      BY <2>7, <2>8
    <3> HIDE DEF x, y, z
    <3>3. Lives' = Lives \o z
      BY <3>1, <3>2, ConcatAssociative
    <3> QED BY <3>3 DEF z
  <2> QED BY <2>1, <2>2, <2>5, <2>10 DEF h
<1> QED BY <1>3, <1>4

\* What a step shows to the two queues.
LEMMA Kinds ==
  /\ LifeOnly(<<>>) = <<>> /\ PacketsOnly(<<>>) = <<>>
  /\ \A job \in LifeJob : LifeOnly(<<job>>) = <<job>> /\ PacketsOnly(<<job>>) = <<>>
  /\ \A job \in PacketJob : LifeOnly(<<job>>) = <<>> /\ PacketsOnly(<<job>>) = <<job>>
<1>1. DOMAIN <<>> = {}
  OBVIOUS
<1>2. \A job : DOMAIN <<job>> = {1} /\ <<job>>[1] = job
  OBVIOUS
<1>3. \A job \in LifeJob : job.type # "Packet"
  BY DEF LifeJob
<1>4. \A job \in PacketJob : job.type = "Packet"
  BY DEF PacketJob
<1> QED BY <1>1, <1>2, <1>3, <1>4 DEF LifeOnly, PacketsOnly

\* A step is one of each queue, and overtakes no Enter.
QueueStep ==
  /\ LifeQueue!Next /\ PacketQueue!Next
  /\ \A i \in DOMAIN handled' : handled'[i].type = "Packet" => handled'[i].s \in met

\* main and CloseSession push an Enter or a Leave.
LEMMA LifeStep ==
  ASSUME QueueInv, NEW job \in LifeJob, PushLife(job), UNCHANGED tickVars,
         stage' \in [Session -> {"new", "open", "gone"}], met \subseteq met',
         \A s \in Session : stage[s] # "new" => stage'[s] # "new",
         \A s \in Session : stage'[s] # "new" =>
           stage[s] # "new" \/ s \in met' \/ (accepted' = <<job>> /\ job = Enter(s))
  PROVE  QueueInv' /\ QueueStep
<1> DEFINE m == g_life_count[g_write]
<1>1. /\ MaxLife \in Nat \ {0} /\ MaxJob \in Nat \ {0}
      /\ m \in 0 .. MaxLife /\ g_write \in 0 .. 1 /\ batch \in 0 .. 1 /\ batch # g_write
  BY QueueAssumption DEF QueueInv, BuffersOK
<1>2. UNCHANGED <<g_write, batch, li, lcount, ji, count, g_job_buf, g_job_count>> /\ handled' = <<>>
  BY DEF PushLife, tickVars
<1>3. Packets' = Packets
  BY <1>2 DEF Packets
<1>4. PacketQueue!Next /\ \A i \in DOMAIN handled' : handled'[i].type = "Packet" => handled'[i].s \in met
  <2>1. PacketsOnly(handled') = <<>> /\ DOMAIN handled' = {}
    BY <1>2, Kinds
  <2>2. accepted' = <<>> \/ accepted' = <<job>>
    BY LifePushed
  <2>3. PacketsOnly(accepted') = <<>>
    BY <2>2, Kinds
  <2> QED BY <1>3, <2>1, <2>3 DEF PacketQueue!Next, PacketQueue!Rest
<1>5. ASSUME \A s \in Session : stage'[s] # "new" =>
               Known(s)' \/ \E i \in 1 .. g_life_count'[g_write] : g_life_buf'[g_write][i] = Enter(s),
             \A s : Known(s) => Known(s)'
      PROVE  EnterBefore'
  <2>1. \A i \in 1 .. g_job_count[g_write] : stage'[g_job_buf[g_write][i].s] # "new"
    <3> TAKE i \in 1 .. g_job_count[g_write]
    <3>1. g_job_buf[g_write][i].s \in Session
      BY DEF QueueInv, FilledOK, PacketJob
    <3> QED BY <3>1 DEF QueueInv, EnterBefore
  <2>2. \A i \in ji + 1 .. count : Known(g_job_buf[batch][i].s)'
    <3> TAKE i \in ji + 1 .. count
    <3>1. Known(g_job_buf[batch][i].s)
      BY DEF QueueInv, EnterBefore
    <3> DEFINE z == g_job_buf[batch][i].s
    <3>2. z' = z
      BY <1>2
    <3> QED BY <1>2, <1>5, <3>1 DEF Known
  <2> QED BY <1>2, <1>5, <2>1, <2>2 DEF EnterBefore
<1>6. CASE accepted' = <<>> /\ UNCHANGED <<g_life_buf, g_life_count, Lives>>
  <2>1. BuffersOK' /\ FilledOK'
    BY <1>2, <1>6 DEF QueueInv, BuffersOK, FilledOK
  <2>2. \A s : Known(s) => Known(s)'
    BY <1>2, <1>6 DEF Known
  <2>3. <<job>> # <<>>
    OBVIOUS
  <2>4. EnterBefore'
    BY <1>5, <1>6, <2>2, <2>3 DEF QueueInv, EnterBefore, Known
  <2>5. LifeQueue!Next
    BY <1>2, <1>6, Kinds DEF LifeQueue!Next, LifeQueue!Rest
  <2> QED BY <1>4, <2>1, <2>4, <2>5 DEF QueueInv, QueueStep
<1>7. CASE /\ accepted' = <<job>> /\ m \in 0 .. MaxLife - 1
           /\ g_life_count' = [g_life_count EXCEPT ![g_write] = m + 1]
           /\ g_life_buf' \in [0 .. 1 -> [1 .. MaxLife -> LifeSlot]]
           /\ g_life_buf'[batch] = g_life_buf[batch]
           /\ g_life_buf'[g_write] = [g_life_buf[g_write] EXCEPT ![m + 1] = job]
           /\ Lives' = Lives \o <<job>>
  <2>0. g_life_buf[g_write] \in [1 .. MaxLife -> LifeSlot]
    BY <1>1 DEF QueueInv, BuffersOK
  <2>1. /\ g_life_count' \in [0 .. 1 -> 0 .. MaxLife] /\ g_life_count'[batch] = 0
        /\ g_life_count'[g_write] = m + 1 /\ m + 1 \in 1 .. MaxLife
    BY <1>1, <1>7 DEF QueueInv, BuffersOK
  <2>2. BuffersOK'
    BY <1>2, <1>7, <2>1 DEF QueueInv, BuffersOK
  <2>3. /\ g_life_buf'[g_write][m + 1] = job
        /\ \A i \in 1 .. m : g_life_buf'[g_write][i] = g_life_buf[g_write][i]
    BY <1>1, <1>7, <2>0, <2>1
  <2>4. FilledOK'
    <3>1. \A i \in 1 .. m + 1 : g_life_buf'[g_write][i] \in LifeJob
      <4> TAKE i \in 1 .. m + 1
      <4>1. i \in 1 .. m \/ i = m + 1
        BY <1>1
      <4> QED BY <2>3, <4>1 DEF QueueInv, FilledOK
    <3> QED BY <1>2, <1>7, <2>1, <3>1 DEF QueueInv, FilledOK
  <2>5. \A s : Known(s) => Known(s)'
    BY <1>2, <1>7 DEF Known
  <2>6. \A s \in Session : stage'[s] # "new" =>
          Known(s)' \/ \E i \in 1 .. g_life_count'[g_write] : g_life_buf'[g_write][i] = Enter(s)
    <3> TAKE s \in Session
    <3> HAVE stage'[s] # "new"
    <3>1. CASE job = Enter(s)
      BY <1>1, <2>1, <2>3, <3>1
    <3>2. CASE s \in met'
      BY <3>2 DEF Known
    <3>3. CASE stage[s] # "new"
      <4>1. Known(s) \/ \E i \in 1 .. m : g_life_buf[g_write][i] = Enter(s)
        BY <3>3 DEF QueueInv, EnterBefore
      <4>2. \A i \in 1 .. m : i \in 1 .. m + 1
        BY <1>1
      <4> QED BY <2>1, <2>3, <2>5, <4>1, <4>2
    <3> QED BY <3>1, <3>2, <3>3
  <2>7. EnterBefore'
    BY <1>5, <2>5, <2>6
  <2>8. LifeQueue!Next
    <3>1. LifeOnly(accepted') = <<job>> /\ LifeOnly(handled') = <<>> /\ <<job>> # <<>>
      BY <1>2, <1>7, Kinds
    <3> QED BY <1>7, <3>1 DEF LifeQueue!Next, LifeQueue!Put
  <2> QED BY <1>4, <2>2, <2>4, <2>7, <2>8 DEF QueueInv, QueueStep
<1> QED BY <1>6, <1>7, LifePushed

\* A worker pushes a packet it has cut.
LEMMA PacketPushed ==
  ASSUME QueueInv, NEW s \in Session, NEW d \in Data, PushPacket(s, d)
  PROVE  QueueInv' /\ QueueStep
<1> DEFINE n == g_job_count[g_write]
           job == [type |-> "Packet", s |-> s, data |-> d]
           w == g_job_buf[g_write]
           b == g_job_buf[batch]
           h == [w EXCEPT ![n + 1] = job]
<1>1. /\ MaxJob \in Nat \ {0} /\ n \in 0 .. MaxJob - 1 /\ g_write \in 0 .. 1
      /\ batch \in 0 .. 1 /\ batch # g_write /\ BuffersOK /\ stage[s] # "new"
  BY QueueAssumption DEF QueueInv, BuffersOK, PushPacket
<1>2. /\ g_job_buf' = [g_job_buf EXCEPT ![g_write][n + 1] = job]
      /\ g_job_count' = [g_job_count EXCEPT ![g_write] = n + 1]
      /\ accepted' = <<job>> /\ handled' = <<>>
      /\ UNCHANGED <<g_life_buf, g_life_count, g_write, batch, li, lcount, ji, count, stage, met>>
  BY DEF PushPacket, tickVars
<1>3. job \in PacketJob /\ job \in JobSlot /\ w \in [1 .. MaxJob -> JobSlot]
  BY <1>1 DEF PacketJob, JobSlot, BuffersOK
<1>4. h \in [1 .. MaxJob -> JobSlot] /\ SubSeq(h, 1, n + 1) = SubSeq(w, 1, n) \o <<job>>
  <2> HIDE DEF w, n, job
  <2> QED BY <1>1, <1>3, PieceMore
<1>5. g_job_buf' = [g_job_buf EXCEPT ![g_write] = h]
  BY <1>1, <1>2 DEF BuffersOK
<1>6. h[n + 1] = job /\ \A i \in 1 .. n : h[i] = w[i]
  <2> HIDE DEF w, n, job
  <2> QED BY <1>1, <1>3
<1> HIDE DEF h
<1>7. /\ g_job_buf' \in [0 .. 1 -> [1 .. MaxJob -> JobSlot]]
      /\ g_job_buf'[batch] = b /\ g_job_buf'[g_write] = h
  BY <1>1, <1>4, <1>5 DEF BuffersOK
<1>8. /\ g_job_count' \in [0 .. 1 -> 0 .. MaxJob] /\ g_job_count'[g_write] = n + 1
      /\ g_job_count'[batch] = 0 /\ n + 1 \in 1 .. MaxJob
  BY <1>1, <1>2 DEF BuffersOK
<1>9. BuffersOK'
  BY <1>1, <1>2, <1>7, <1>8 DEF BuffersOK
<1> HIDE DEF job
<1>10. FilledOK'
  <2>1. \A i \in 1 .. n + 1 : g_job_buf'[g_write][i] \in PacketJob
    <3> TAKE i \in 1 .. n + 1
    <3>1. i \in 1 .. n \/ i = n + 1
      BY <1>1
    <3> QED BY <1>3, <1>6, <1>7, <3>1 DEF QueueInv, FilledOK
  <2> QED BY <1>2, <1>7, <1>8, <2>1 DEF QueueInv, FilledOK
<1>11. EnterBefore'
  <2>1. \A x : Known(x)' <=> Known(x)
    BY <1>2 DEF Known
  <2>2. \A i \in 1 .. n + 1 : stage[g_job_buf'[g_write][i].s] # "new"
    <3> TAKE i \in 1 .. n + 1
    <3>1. i \in 1 .. n \/ i = n + 1
      BY <1>1
    <3>2. job.s = s
      BY DEF job
    <3> QED BY <1>1, <1>6, <1>7, <3>1, <3>2 DEF QueueInv, EnterBefore
  <2>3. \A i \in ji + 1 .. count : Known(b[i].s)
    BY DEF QueueInv, EnterBefore
  <2>4. \A x \in Session : stage[x] # "new" =>
          Known(x) \/ \E i \in 1 .. g_life_count[g_write] : g_life_buf[g_write][i] = Enter(x)
    BY DEF QueueInv, EnterBefore
  <2>5. \A i \in ji + 1 .. count : Known(g_job_buf'[batch][i].s)
    BY <1>7, <2>3
  <2>6. \A i \in ji' + 1 .. count' : Known(g_job_buf[batch][i].s)'
    BY <1>2, <2>5 DEF Known
  <2>7. \A x \in Session : stage'[x] # "new" =>
          Known(x)' \/ \E i \in 1 .. g_life_count'[g_write'] : g_life_buf'[g_write'][i] = Enter(x)
    BY <1>2, <2>1, <2>4
  <2>8. \A i \in 1 .. g_job_count'[g_write'] : stage'[g_job_buf'[g_write'][i].s] # "new"
    BY <1>2, <1>8, <2>2
  <2> QED BY <2>6, <2>7, <2>8 DEF EnterBefore
<1>12. Packets' = Packets \o <<job>>
  <2> DEFINE x == SubSeq(b, ji + 1, count)
             y == SubSeq(w, 1, n)
             z == <<job>>
  <2>1. x \in Seq(JobSlot) /\ y \in Seq(JobSlot) /\ z \in Seq(JobSlot)
    BY <1>1, <1>3, LivesAre
  <2>2. Packets = x \o y
    BY DEF Packets
  <2>3. Packets' = x \o (y \o z)
    <3>1. Packets' = SubSeq(g_job_buf'[batch'], ji' + 1, count')
                     \o SubSeq(g_job_buf'[g_write'], 1, g_job_count'[g_write'])
      BY DEF Packets
    <3> QED BY <1>2, <1>4, <1>7, <1>8, <3>1
  <2> HIDE DEF x, y, z
  <2>4. Packets' = Packets \o z
    <3>1. (x \o y) \o z = x \o (y \o z)
      BY <2>1, ConcatAssociative
    <3> QED BY <2>2, <2>3, <3>1, Zenon
  <2> QED BY <2>4 DEF z
<1>13. PacketQueue!Next
  <2>1. PacketsOnly(accepted') = <<job>> /\ PacketsOnly(handled') = <<>> /\ <<job>> # <<>>
    BY <1>2, <1>3, Kinds DEF job
  <2> QED BY <1>12, <2>1 DEF PacketQueue!Next, PacketQueue!Put
<1>14. LifeQueue!Next
  <2>1. LifeOnly(accepted') = <<>> /\ LifeOnly(handled') = <<>>
    BY <1>2, <1>3, Kinds DEF job
  <2>2. Lives' = Lives
    BY <1>2 DEF Lives
  <2> QED BY <2>1, <2>2 DEF LifeQueue!Next, LifeQueue!Rest
<1>15. DOMAIN handled' = {}
  BY <1>2
<1> QED BY <1>9, <1>10, <1>11, <1>13, <1>14, <1>15 DEF QueueInv, QueueStep

\* SwapJobs: what was pushed becomes the batch; nothing waits anywhere else.
LEMMA SwapStep == ASSUME QueueInv, SwapJobs PROVE QueueInv' /\ QueueStep
<1> DEFINE g == g_write
           m == g_life_count[g]
           n == g_job_count[g]
<1>1. /\ li = lcount /\ ji = count /\ batch' = g /\ g_write' = 1 - g /\ lcount' = m /\ count' = n
      /\ li' = 0 /\ ji' = 0
      /\ g_life_count' = [g_life_count EXCEPT ![g] = 0]
      /\ g_job_count' = [g_job_count EXCEPT ![g] = 0]
      /\ accepted' = <<>> /\ handled' = <<>>
      /\ UNCHANGED <<g_life_buf, g_job_buf, stage, met>>
  BY DEF SwapJobs
<1>2. /\ g \in 0 .. 1 /\ batch = 1 - g /\ BuffersOK /\ FilledOK /\ EnterBefore
      /\ m \in 0 .. MaxLife /\ n \in 0 .. MaxJob /\ MaxLife \in Nat /\ MaxJob \in Nat
      /\ g_life_count[1 - g] = 0 /\ g_job_count[1 - g] = 0 /\ 1 - g \in 0 .. 1
      /\ lcount \in Nat /\ count \in Nat /\ 1 - (1 - g) = g /\ 1 - g # g
  BY QueueAssumption DEF QueueInv, BuffersOK
<1>3. /\ g_life_count' \in [0 .. 1 -> 0 .. MaxLife] /\ g_job_count' \in [0 .. 1 -> 0 .. MaxJob]
      /\ g_life_count'[g] = 0 /\ g_life_count'[1 - g] = 0
      /\ g_job_count'[g] = 0 /\ g_job_count'[1 - g] = 0
  BY <1>1, <1>2 DEF BuffersOK
<1>4. BuffersOK'
  <2>1. 0 \in 0 .. m /\ 0 \in 0 .. n
    BY <1>2
  <2> QED BY <1>1, <1>2, <1>3, <2>1 DEF BuffersOK
<1>5. FilledOK'
  <2>1. 0 + 1 = 1 /\ g_life_count'[g_write'] = 0 /\ g_job_count'[g_write'] = 0
    BY <1>1, <1>3
  <2>2. \A i \in 1 .. m : g_life_buf[g][i] \in LifeJob
    BY <1>2 DEF FilledOK
  <2>3. \A i \in 1 .. n : g_job_buf[g][i] \in PacketJob
    BY <1>2 DEF FilledOK
  <2> HIDE DEF g, m, n
  <2> QED BY <1>1, <2>1, <2>2, <2>3 DEF FilledOK
<1>6. EnterBefore'
  <2>1. \A s : Known(s) <=> s \in met
    BY <1>1, <1>2 DEF Known
  <2>2. \A s : Known(s)' <=> (s \in met \/ \E i \in 1 .. m : g_life_buf[g][i] = Enter(s))
    <3>1. 0 + 1 = 1
      OBVIOUS
    <3> HIDE DEF g, m
    <3> QED BY <1>1, <3>1 DEF Known
  <2>3. \A s \in Session : stage[s] # "new" => Known(s)'
    BY <1>2, <2>1, <2>2 DEF EnterBefore
  <2>4. \A s \in Session : stage'[s] # "new" =>
          Known(s)' \/ \E i \in 1 .. g_life_count'[g_write'] : g_life_buf'[g_write'][i] = Enter(s)
    BY <1>1, <2>3
  <2>5. \A i \in 1 .. g_job_count'[g_write'] : stage'[g_job_buf'[g_write'][i].s] # "new"
    BY <1>1, <1>3
  <2>6. \A i \in ji' + 1 .. count' : Known(g_job_buf[batch][i].s)'
    <3> SUFFICES ASSUME NEW i \in ji' + 1 .. count'
                 PROVE  g_job_buf'[batch'][i].s \in met'
                        \/ \E j \in li' + 1 .. lcount' :
                             g_life_buf'[batch'][j] = Enter(g_job_buf'[batch'][i].s)
      BY DEF Known
    <3>1. i \in 1 .. n
      BY <1>1
    <3>2. g_job_buf[g][i].s \in Session /\ stage[g_job_buf[g][i].s] # "new"
      BY <1>2, <3>1 DEF FilledOK, EnterBefore, PacketJob
    <3>3. g_job_buf[g][i].s \in met \/ \E j \in 1 .. m : g_life_buf[g][j] = Enter(g_job_buf[g][i].s)
      BY <2>2, <2>3, <3>2
    <3>4. 0 + 1 = 1
      OBVIOUS
    <3> HIDE DEF g, m
    <3> QED BY <1>1, <3>3, <3>4
  <2> QED BY <2>4, <2>5, <2>6 DEF EnterBefore
<1>7. Lives' = Lives /\ Packets' = Packets
  <2> DEFINE x == SubSeq(g_life_buf[g], 1, m)
             y == SubSeq(g_job_buf[g], 1, n)
  <2>1. x \in Seq(LifeSlot) /\ y \in Seq(JobSlot)
    BY <1>2, LivesAre
  <2>2. /\ SubSeq(g_life_buf[batch], li + 1, lcount) = <<>>
        /\ SubSeq(g_job_buf[batch], ji + 1, count) = <<>>
    <3>1. li + 1 \in Int /\ lcount \in Int /\ lcount < li + 1
          /\ ji + 1 \in Int /\ count \in Int /\ count < ji + 1
      BY <1>1, <1>2
    <3> QED BY <3>1, PieceNone
  <2>3. /\ SubSeq(g_life_buf'[g_write'], 1, g_life_count'[g_write']) = <<>>
        /\ SubSeq(g_job_buf'[g_write'], 1, g_job_count'[g_write']) = <<>>
    <3>1. g_life_count'[g_write'] = 0 /\ g_job_count'[g_write'] = 0
      BY <1>1, <1>3
    <3> QED BY <3>1, PieceNone
  <2>4. /\ SubSeq(g_life_buf'[batch'], li' + 1, lcount') = x
        /\ SubSeq(g_job_buf'[batch'], ji' + 1, count') = y
    <3>1. 0 + 1 = 1
      OBVIOUS
    <3> QED BY <1>1, <3>1
  <2>5. Lives = <<>> \o x /\ Packets = <<>> \o y
    BY <2>2 DEF Lives, Packets
  <2>6. Lives' = x \o <<>> /\ Packets' = y \o <<>>
    <3>1. Lives' = SubSeq(g_life_buf'[batch'], li' + 1, lcount')
                   \o SubSeq(g_life_buf'[g_write'], 1, g_life_count'[g_write'])
      BY DEF Lives
    <3>2. Packets' = SubSeq(g_job_buf'[batch'], ji' + 1, count')
                     \o SubSeq(g_job_buf'[g_write'], 1, g_job_count'[g_write'])
      BY DEF Packets
    <3> QED BY <2>3, <2>4, <3>1, <3>2
  <2> HIDE DEF x, y
  <2>7. x \o <<>> = x /\ <<>> \o x = x /\ y \o <<>> = y /\ <<>> \o y = y
    BY <2>1, ConcatEmptySeq
  <2> QED BY <2>5, <2>6, <2>7
<1>8. LifeQueue!Next /\ PacketQueue!Next
  BY <1>1, <1>7, Kinds DEF LifeQueue!Next, LifeQueue!Rest, PacketQueue!Next, PacketQueue!Rest
<1>9. DOMAIN handled' = {}
  BY <1>1
<1> QED BY <1>4, <1>5, <1>6, <1>8, <1>9 DEF QueueInv, QueueStep

\* The tick thread handles the next life of its batch: the first that waits.
LEMMA LifeHandled == ASSUME QueueInv, HandleLife PROVE QueueInv' /\ QueueStep
<1> DEFINE b == g_life_buf[batch]
           job == b[li + 1]
<1>1. /\ li < lcount /\ handled' = <<job>> /\ li' = li + 1 /\ accepted' = <<>>
      /\ met' = (IF job.type = "Enter" THEN met \cup {job.s} ELSE met)
      /\ UNCHANGED <<g_life_buf, g_life_count, g_job_buf, g_job_count, g_write,
                     batch, lcount, count, ji, stage>>
  BY DEF HandleLife, bufVars
<1>2. /\ BuffersOK /\ FilledOK /\ EnterBefore /\ MaxLife \in Nat
      /\ li \in Nat /\ lcount \in 0 .. MaxLife /\ batch \in 0 .. 1 /\ li + 1 \in 1 .. MaxLife
      /\ b \in [1 .. MaxLife -> LifeSlot]
  BY <1>1, QueueAssumption DEF QueueInv, BuffersOK
<1>3. job \in LifeJob
  BY <1>1, <1>2 DEF FilledOK
<1>4. BuffersOK' /\ FilledOK'
  <2>1. li + 1 \in 0 .. lcount
    BY <1>1, <1>2
  <2>2. \A i \in (li + 1) + 1 .. lcount : i \in li + 1 .. lcount
    BY <1>2
  <2>3. BuffersOK'
    BY <1>1, <1>2, <2>1 DEF BuffersOK
  <2>4. FilledOK'
    BY <1>1, <1>2, <2>2 DEF FilledOK
  <2> QED BY <2>3, <2>4
<1>5. \A s : Known(s) => Known(s)'
  <2> TAKE s
  <2> HAVE Known(s)
  <2>1. met \subseteq met'
    BY <1>1
  <2>2. CASE s \in met
    BY <2>1, <2>2 DEF Known
  <2>3. ASSUME NEW i \in li + 1 .. lcount, b[i] = Enter(s) PROVE Known(s)'
    <3>1. CASE i = li + 1
      <4>1. job.type = "Enter" /\ job.s = s
        BY <2>3, <3>1 DEF Enter
      <4> QED BY <1>1, <4>1 DEF Known
    <3>2. CASE i # li + 1
      <4>1. i \in (li + 1) + 1 .. lcount
        BY <1>2, <3>2
      <4> QED BY <1>1, <2>3, <4>1 DEF Known
    <3> QED BY <3>1, <3>2
  <2> QED BY <2>2, <2>3 DEF Known
<1>6. EnterBefore'
  <2>1. \A s \in Session : stage'[s] # "new" =>
          Known(s)' \/ \E i \in 1 .. g_life_count'[g_write'] : g_life_buf'[g_write'][i] = Enter(s)
    BY <1>1, <1>2, <1>5 DEF EnterBefore
  <2>2. \A i \in 1 .. g_job_count'[g_write'] : stage'[g_job_buf'[g_write'][i].s] # "new"
    BY <1>1, <1>2 DEF EnterBefore
  <2>3. \A i \in ji' + 1 .. count' : Known(g_job_buf[batch][i].s)'
    <3> TAKE i \in ji' + 1 .. count'
    <3>1. Known(g_job_buf[batch][i].s)
      BY <1>1, <1>2 DEF EnterBefore
    <3> DEFINE z == g_job_buf[batch][i].s
    <3>2. z' = z
      BY <1>1
    <3> QED BY <1>1, <1>5, <3>1, <3>2 DEF Known
  <2> QED BY <2>1, <2>2, <2>3 DEF EnterBefore
<1>7. Lives = <<job>> \o Lives'
  <2> DEFINE x == SubSeq(b, (li + 1) + 1, lcount)
             y == SubSeq(g_life_buf[g_write], 1, g_life_count[g_write])
             z == <<job>>
  <2>1. SubSeq(b, li + 1, lcount) = z \o x
    <3>1. lcount \in li + 1 .. MaxLife
      BY <1>1, <1>2
    <3> QED BY <1>2, <3>1, PieceFirst
  <2>2. x \in Seq(LifeSlot) /\ y \in Seq(LifeSlot) /\ z \in Seq(LifeSlot)
    <3>1. (li + 1) + 1 \in 1 .. MaxLife + 1
      BY <1>2
    <3>2. x \in Seq(LifeSlot)
      BY <1>2, <3>1, PieceIs
    <3> QED BY <1>2, <1>3, <3>2, LivesAre DEF LifeSlot
  <2>3. Lives = (z \o x) \o y
    BY <2>1 DEF Lives
  <2>4. Lives' = x \o y
    BY <1>1 DEF Lives
  <2> HIDE DEF x, y, z
  <2>5. (z \o x) \o y = z \o (x \o y)
    BY <2>2, ConcatAssociative
  <2>6. Lives = z \o Lives'
    BY <2>3, <2>4, <2>5, Zenon
  <2> QED BY <2>6 DEF z
<1>8. LifeQueue!Next
  <2>1. LifeOnly(accepted') = <<>> /\ LifeOnly(handled') = <<job>> /\ <<job>> # <<>>
    BY <1>1, <1>3, Kinds
  <2> QED BY <1>7, <2>1 DEF LifeQueue!Next, LifeQueue!Get
<1>9. PacketQueue!Next
  <2>1. PacketsOnly(accepted') = <<>> /\ PacketsOnly(handled') = <<>>
    BY <1>1, <1>3, Kinds
  <2>2. Packets' = Packets
    BY <1>1 DEF Packets
  <2> QED BY <2>1, <2>2 DEF PacketQueue!Next, PacketQueue!Rest
<1>10. \A i \in DOMAIN handled' : handled'[i].type # "Packet"
  <2> HIDE DEF job
  <2>1. DOMAIN handled' = {1} /\ handled'[1] = job
    BY <1>1
  <2> QED BY <1>3, <2>1 DEF LifeJob
<1> QED BY <1>4, <1>6, <1>8, <1>9, <1>10 DEF QueueInv, QueueStep

\* With no life left, it handles the next packet: the first that waits, of somebody whose
\* Enter has been handled.
LEMMA PacketHandled == ASSUME QueueInv, HandlePacket PROVE QueueInv' /\ QueueStep
<1> DEFINE b == g_job_buf[batch]
           job == b[ji + 1]
<1>1. /\ li = lcount /\ ji < count /\ handled' = <<job>> /\ ji' = ji + 1 /\ accepted' = <<>>
      /\ UNCHANGED <<g_life_buf, g_life_count, g_job_buf, g_job_count, g_write,
                     batch, lcount, count, li, stage, met>>
  BY DEF HandlePacket, bufVars
<1>2. /\ BuffersOK /\ FilledOK /\ EnterBefore /\ MaxJob \in Nat
      /\ ji \in Nat /\ count \in 0 .. MaxJob /\ batch \in 0 .. 1 /\ ji + 1 \in 1 .. MaxJob
      /\ b \in [1 .. MaxJob -> JobSlot] /\ lcount \in Nat
  <2>1. BuffersOK /\ FilledOK /\ EnterBefore /\ MaxJob \in Nat /\ MaxLife \in Nat
    BY QueueAssumption DEF QueueInv
  <2>2. /\ count \in 0 .. MaxJob /\ ji \in 0 .. count /\ lcount \in 0 .. MaxLife
        /\ g_write \in 0 .. 1 /\ batch = 1 - g_write
        /\ g_job_buf \in [0 .. 1 -> [1 .. MaxJob -> JobSlot]]
    BY <2>1 DEF BuffersOK
  <2>3. ji \in Nat /\ batch \in 0 .. 1 /\ lcount \in Nat
    BY <2>1, <2>2
  <2>4. ji + 1 \in 1 .. MaxJob
    BY <1>1, <2>1, <2>2
  <2>5. b \in [1 .. MaxJob -> JobSlot]
    BY <2>2, <2>3
  <2> QED BY <2>1, <2>2, <2>3, <2>4, <2>5
<1>3. job \in PacketJob
  BY <1>1, <1>2 DEF FilledOK
<1>4. BuffersOK' /\ FilledOK'
  <2>1. ji + 1 \in 0 .. count
    BY <1>1, <1>2
  <2>2. \A i \in (ji + 1) + 1 .. count : i \in ji + 1 .. count
    BY <1>2
  <2>3. BuffersOK'
    BY <1>1, <1>2, <2>1 DEF BuffersOK
  <2>4. FilledOK'
    BY <1>1, <1>2, <2>2 DEF FilledOK
  <2> QED BY <2>3, <2>4
<1>5. \A s : Known(s) => Known(s)'
  BY <1>1 DEF Known
<1>6. EnterBefore'
  <2>1. \A s \in Session : stage'[s] # "new" =>
          Known(s)' \/ \E i \in 1 .. g_life_count'[g_write'] : g_life_buf'[g_write'][i] = Enter(s)
    BY <1>1, <1>2, <1>5 DEF EnterBefore
  <2>2. \A i \in 1 .. g_job_count'[g_write'] : stage'[g_job_buf'[g_write'][i].s] # "new"
    BY <1>1, <1>2 DEF EnterBefore
  <2>3. \A i \in ji' + 1 .. count' : Known(g_job_buf[batch][i].s)'
    <3> TAKE i \in ji' + 1 .. count'
    <3>0. i \in ji + 1 .. count
      BY <1>1, <1>2
    <3>1. Known(g_job_buf[batch][i].s)
      BY <1>2, <3>0 DEF EnterBefore
    <3> DEFINE z == g_job_buf[batch][i].s
    <3>2. z' = z
      BY <1>1
    <3> QED BY <1>1, <3>1, <3>2 DEF Known
  <2> QED BY <2>1, <2>2, <2>3 DEF EnterBefore
<1>7. Packets = <<job>> \o Packets'
  <2> DEFINE x == SubSeq(b, (ji + 1) + 1, count)
             y == SubSeq(g_job_buf[g_write], 1, g_job_count[g_write])
             z == <<job>>
  <2>1. SubSeq(b, ji + 1, count) = z \o x
    <3>1. count \in ji + 1 .. MaxJob
      BY <1>1, <1>2
    <3> QED BY <1>2, <3>1, PieceFirst
  <2>2. x \in Seq(JobSlot) /\ y \in Seq(JobSlot) /\ z \in Seq(JobSlot)
    <3>1. (ji + 1) + 1 \in 1 .. MaxJob + 1
      BY <1>2
    <3>2. x \in Seq(JobSlot)
      BY <1>2, <3>1, PieceIs
    <3> QED BY <1>2, <1>3, <3>2, LivesAre DEF JobSlot
  <2>3. Packets = (z \o x) \o y
    BY <2>1 DEF Packets
  <2>4. Packets' = x \o y
    BY <1>1 DEF Packets
  <2> HIDE DEF x, y, z
  <2>5. (z \o x) \o y = z \o (x \o y)
    BY <2>2, ConcatAssociative
  <2>6. Packets = z \o Packets'
    BY <2>3, <2>4, <2>5, Zenon
  <2> QED BY <2>6 DEF z
<1>8. PacketQueue!Next
  <2>1. PacketsOnly(accepted') = <<>> /\ PacketsOnly(handled') = <<job>> /\ <<job>> # <<>>
    BY <1>1, <1>3, Kinds
  <2> QED BY <1>7, <2>1 DEF PacketQueue!Next, PacketQueue!Get
<1>9. LifeQueue!Next
  <2>1. LifeOnly(accepted') = <<>> /\ LifeOnly(handled') = <<>>
    BY <1>1, <1>3, Kinds
  <2>2. Lives' = Lives
    BY <1>1 DEF Lives
  <2> QED BY <2>1, <2>2 DEF LifeQueue!Next, LifeQueue!Rest
<1>10. \A i \in DOMAIN handled' : handled'[i].s \in met
  <2>1. Known(job.s)
    BY <1>1, <1>2 DEF EnterBefore
  <2>2. job.s \in met
    BY <1>1, <1>2, <2>1 DEF Known
  <2> HIDE DEF job
  <2>3. DOMAIN handled' = {1} /\ handled'[1] = job
    BY <1>1
  <2> QED BY <2>2, <2>3
<1> QED BY <1>4, <1>6, <1>8, <1>9, <1>10 DEF QueueInv, QueueStep

\* Every step of the buffers is one of both queues, or none, and overtakes no Enter.
LEMMA QueueSteps ==
  QueueInv /\ [JobNext]_jobsVars =>
    /\ QueueInv' /\ [LifeQueue!Next]_(LifeQueue!vars) /\ [PacketQueue!Next]_(PacketQueue!vars)
    /\ [\A i \in DOMAIN handled' : handled'[i].type = "Packet" => handled'[i].s \in met]_jobsVars
<1> SUFFICES ASSUME QueueInv, [JobNext]_jobsVars
             PROVE  /\ QueueInv' /\ (QueueStep \/ UNCHANGED jobsVars)
                    /\ [LifeQueue!Next]_(LifeQueue!vars) /\ [PacketQueue!Next]_(PacketQueue!vars)
  BY DEF QueueStep
<1>1. ASSUME NEW s \in Session, PushEnter(s) PROVE QueueInv' /\ QueueStep
  <2>1. Enter(s) \in LifeJob
    BY DEF Enter, LifeJob
  <2>2. /\ PushLife(Enter(s)) /\ UNCHANGED tickVars /\ stage' = [stage EXCEPT ![s] = "open"]
        /\ met' = (IF accepted' = <<>> THEN met \cup {s} ELSE met)
    BY <1>1 DEF PushEnter, Enter
  <2>3. stage \in [Session -> {"new", "open", "gone"}]
    BY DEF QueueInv, BuffersOK
  <2>4. accepted' = <<>> \/ accepted' = <<Enter(s)>>
    BY <2>2 DEF PushLife
  <2>5. s \in met' \/ accepted' = <<Enter(s)>>
    BY <2>2, <2>4
  <2>6. stage' \in [Session -> {"new", "open", "gone"}] /\ met \subseteq met'
    BY <2>2, <2>3
  <2>7. /\ \A t \in Session : stage[t] # "new" => stage'[t] # "new"
        /\ \A t \in Session : stage'[t] # "new" => stage[t] # "new" \/ t = s
    BY <2>2, <2>3
  <2>8. \A t \in Session : stage'[t] # "new" =>
          stage[t] # "new" \/ t \in met' \/ (accepted' = <<Enter(s)>> /\ Enter(s) = Enter(t))
    BY <2>5, <2>7
  <2> QED BY <2>1, <2>2, <2>6, <2>7, <2>8, LifeStep
<1>2. ASSUME NEW s \in Session, PushLeave(s) PROVE QueueInv' /\ QueueStep
  <2> DEFINE job == [type |-> "Leave", s |-> s]
  <2>1. job \in LifeJob
    BY DEF LifeJob
  <2>2. /\ PushLife(job) /\ UNCHANGED tickVars /\ stage' = [stage EXCEPT ![s] = "gone"]
        /\ met' = met /\ stage[s] = "open"
    BY <1>2 DEF PushLeave
  <2>3. stage \in [Session -> {"new", "open", "gone"}]
    BY DEF QueueInv, BuffersOK
  <2> HIDE DEF job
  <2>4. /\ stage' \in [Session -> {"new", "open", "gone"}]
        /\ \A t \in Session : stage[t] # "new" => stage'[t] # "new"
        /\ \A t \in Session : stage'[t] # "new" => stage[t] # "new"
    BY <2>2, <2>3
  <2> QED BY <2>1, <2>2, <2>4, LifeStep
<1>3. CASE UNCHANGED jobsVars
  <2>1. UNCHANGED <<Lives, Packets, accepted, handled>> /\ QueueInv'
    BY <1>3 DEF jobsVars, bufVars, tickVars, Lives, Packets, QueueInv, BuffersOK, FilledOK,
       EnterBefore, Known
  <2> QED BY <1>3, <2>1 DEF LifeQueue!vars, PacketQueue!vars
<1>4. ASSUME QueueStep, QueueInv'
      PROVE  /\ QueueInv' /\ (QueueStep \/ UNCHANGED jobsVars)
             /\ [LifeQueue!Next]_(LifeQueue!vars) /\ [PacketQueue!Next]_(PacketQueue!vars)
  BY <1>4 DEF QueueStep
<1>5. CASE JobNext
  <2>1. QueueInv' /\ QueueStep
    BY <1>1, <1>2, <1>5, PacketPushed, SwapStep, LifeHandled, PacketHandled DEF JobNext, Tick
  <2> QED BY <1>4, <2>1
<1> QED BY <1>3, <1>5

\* For every size of the buffers and every number of sessions: each job that was accepted
\* is handled once and in order within its kind, though the tick thread reads its batch
\* without the lock, and nobody's packet before his Enter (JobQueue.h, main.cpp:800-840).
THEOREM JobsInOrder == JobSpec => JobsImplement
<1>1. InitJobQueue => QueueInv /\ LifeQueue!Init /\ PacketQueue!Init
  BY QueueInit, Kinds DEF InitJobQueue, LifeQueue!Init, PacketQueue!Init
<1> QED BY <1>1, QueueSteps, PTL
        DEF JobSpec, JobsImplement, EnterFirst, LifeQueue!Spec, PacketQueue!Spec

=============================================================================
