-------------------------- MODULE RecvFramingProofs --------------------------
(***************************************************************************)
(* CursorInv is inductive:  what ProcessPackets leaves behind is less than *)
(* one packet, because it only waits for the rest of a header or of a body *)
(* it has seen the size of; so PostRecv can always make room for a whole   *)
(* packet, by moving it if need be.  And what is left to cut stays a row   *)
(* of whole packets, so the receive path is a queue of them.               *)
(***************************************************************************)
EXTENDS RecvFraming, FiniteSetTheorems, SequenceTheorems, TLAPS

\* What is left of a buffer behind a cursor.
LEMMA Rest == \A a \in Nat : \A b \in 0 .. a : a - b \in 0 .. a
  OBVIOUS

\* An empty buffer satisfies the invariant.
LEMMA FramingInit == Init => CursorInv
  BY FramingAssumption DEF Init, CursorInv, TypeOK, BufferOK,
     OrderHasRoom, DataSize, WritableSize

\* PostRecv: the order has room for a whole packet, whether the rest was moved
\* to the front or not.
LEMMA FramingPost == CursorInv /\ PostRecv => CursorInv'
<1> SUFFICES ASSUME CursorInv, PostRecv PROVE CursorInv'
  OBVIOUS
<1>0. /\ read_pos \in 0 .. Size /\ write_pos \in 0 .. Size /\ read_pos <= write_pos
      /\ write_pos - read_pos < MaxPacket
  BY DEF CursorInv, TypeOK, BufferOK, PostRecv, DataSize
<1>1. /\ read_pos' \in 0 .. Size /\ write_pos' \in 0 .. Size
      /\ read_pos' <= write_pos' /\ write_pos' - read_pos' < MaxPacket
      /\ Size - write_pos' >= MaxPacket
  BY <1>0, FramingAssumption DEF PostRecv, Clean, DataSize, WritableSize
<1>2. step' \in {"posted", "closed"} /\ bytes' = bytes
  BY DEF PostRecv
<1>3. room' = Size - write_pos'
  BY DEF PostRecv
<1>4. bytes \in 0 .. Size
  BY DEF CursorInv, TypeOK
<1>5. room' \in 0 .. Size
  <2>1. Size - write_pos' \in 0 .. Size
    BY <1>1, Rest, FramingAssumption, Zenon
  <2> QED
    BY <2>1, <1>3, Zenon
<1>6. bytes' \in 0 .. Size
  BY <1>2, <1>4
<1>7. TypeOK'
  BY <1>1, <1>2, <1>5, <1>6 DEF TypeOK
<1>8. BufferOK' /\ OrderHasRoom'
  BY <1>1, <1>2, <1>3, <1>5 DEF BufferOK, OrderHasRoom, DataSize, WritableSize
<1> QED
  BY <1>7, <1>8 DEF CursorInv

\* The kernel and OnWrite stay inside the order.
LEMMA FramingReceive ==
  CursorInv /\ (OnWrite \/ Disconnect \/ \E k \in 1 .. Size : Receive(k)) => CursorInv'
<1> SUFFICES ASSUME CursorInv, OnWrite \/ Disconnect \/ \E k \in 1 .. Size : Receive(k)
             PROVE CursorInv'
  OBVIOUS
<1>1. CASE OnWrite
  BY <1>1, FramingAssumption
     DEF OnWrite, CursorInv, TypeOK, BufferOK, OrderHasRoom, DataSize, WritableSize
<1>2. CASE Disconnect
  BY <1>2 DEF Disconnect, CursorInv, TypeOK, BufferOK, OrderHasRoom, DataSize, WritableSize
<1>3. ASSUME NEW k \in 1 .. Size, Receive(k) PROVE CursorInv'
  <2>1. step = "posted" /\ step' = "took" /\ bytes' = k /\ k <= room
        /\ UNCHANGED <<read_pos, write_pos, room>>
    BY <1>3 DEF Receive
  <2> QED
    BY <2>1, <1>3, FramingAssumption
       DEF CursorInv, TypeOK, BufferOK, OrderHasRoom, DataSize, WritableSize
<1> QED
  BY <1>1, <1>2, <1>3

\* ProcessPackets takes only what is there and leaves less than a packet.
LEMMA FramingCut == CursorInv /\ (CutPacket \/ CutFails \/ CutWaits) => CursorInv'
<1> SUFFICES ASSUME CursorInv, CutPacket \/ CutFails \/ CutWaits PROVE CursorInv'
  OBVIOUS
<1>0. /\ read_pos \in 0 .. Size /\ write_pos \in 0 .. Size /\ read_pos <= write_pos
      /\ room \in 0 .. Size /\ bytes \in 0 .. Size
  BY DEF CursorInv, TypeOK, BufferOK
<1>1. CASE CutPacket
  <2>1. /\ SizeField \in Header .. MaxPacket /\ write_pos - read_pos >= SizeField
        /\ read_pos' = read_pos + SizeField
        /\ UNCHANGED <<write_pos, room, bytes>>
        /\ step' \in {"cut", "closed"}
    BY <1>1 DEF CutPacket, Good, DataSize
  <2>2. read_pos' \in 0 .. Size /\ read_pos' <= write_pos'
    BY <2>1, <1>0, FramingAssumption
  <2> QED
    BY <2>1, <2>2, <1>0
       DEF CursorInv, TypeOK, BufferOK, OrderHasRoom, DataSize, WritableSize
<1>2. CASE CutFails
  BY <1>2, <1>0 DEF CutFails, CursorInv, TypeOK, BufferOK, OrderHasRoom, DataSize, WritableSize
<1>3. CASE CutWaits
  <2>1. /\ UNCHANGED <<read_pos, write_pos, room, bytes>> /\ step' = "clean"
        /\ write_pos - read_pos < MaxPacket
    BY <1>3, <1>0, FramingAssumption DEF CutWaits, Good, DataSize
  <2> QED
    BY <2>1, <1>0 DEF CursorInv, TypeOK, BufferOK, OrderHasRoom, DataSize, WritableSize
<1> QED
  BY <1>1, <1>2, <1>3

\* Every step of the receive path keeps the invariant.
LEMMA FramingStep == CursorInv /\ [Next]_vars => CursorInv'
<1> SUFFICES ASSUME CursorInv, [Next]_vars PROVE CursorInv'
  OBVIOUS
<1>1. ASSUME NEW k \in Sizes, PeerSends(k) PROVE CursorInv'
  BY <1>1 DEF PeerSends, CursorInv, TypeOK, BufferOK, OrderHasRoom, DataSize, WritableSize
<1>2. CASE UNCHANGED vars
  BY <1>2 DEF vars, CursorInv, TypeOK, BufferOK, OrderHasRoom, DataSize, WritableSize
<1> QED
  BY <1>1, <1>2, FramingPost, FramingReceive, FramingCut DEF Next, Kernel, Worker

-----------------------------------------------------------------------------
(* Rows of whole packets, as sequences.                                    *)

Any == [size : Nat, off : Nat]

\* A packet has a byte at least.
LEMMA ExtentIn == ASSUME NEW n \in Nat PROVE Extent(n) \in Nat \ {0}
  BY FramingAssumption DEF Extent, Good

\* What a client writes: its bytes, one behind the other.
LEMMA EncodedIs ==
  ASSUME NEW n \in Nat
  PROVE  /\ Encoded(n) \in Seq(Any) /\ Len(Encoded(n)) = Extent(n)
         /\ \A i \in 1 .. Extent(n) : Encoded(n)[i] = [size |-> n, off |-> i - 1]
<1> DEFINE x == Extent(n)
<1>1. x \in Nat \ {0}
  BY ExtentIn
<1>2. Encoded(n) = [i \in 1 .. x |-> [size |-> n, off |-> i - 1]]
  BY DEF Encoded
<1> HIDE DEF x
<1>3. \A i \in 1 .. x : [size |-> n, off |-> i - 1] \in Any
  BY <1>1 DEF Any
<1>4. Encoded(n) \in [1 .. x -> Any]
  BY <1>2, <1>3
<1>5. Encoded(n) \in Seq(Any) /\ Len(Encoded(n)) = x
  BY <1>1, <1>4
<1> QED BY <1>2, <1>5 DEF x

\* The heads of a stream are finitely many.
LEMMA HeadsFinite ==
  ASSUME NEW s \in Seq(Any)
  PROVE  /\ IsFiniteSet(Heads(s)) /\ Cardinality(Heads(s)) \in Nat
         /\ \A i : /\ IsFiniteSet({h \in Heads(s) : h <= i})
                   /\ Rank(s, i) \in 0 .. Cardinality(Heads(s))
<1>1. IsFiniteSet(1 .. Len(s))
  BY LenProperties, FS_Interval
<1>2. Heads(s) \in SUBSET (1 .. Len(s))
  BY DEF Heads
<1>3. IsFiniteSet(Heads(s)) /\ Cardinality(Heads(s)) \in Nat
  BY <1>1, <1>2, FS_Subset, FS_CardinalityType
<1>4. ASSUME NEW i
      PROVE  IsFiniteSet({h \in Heads(s) : h <= i}) /\ Rank(s, i) \in 0 .. Cardinality(Heads(s))
  <2> DEFINE H == {h \in Heads(s) : h <= i}
  <2>1. H \in SUBSET Heads(s)
    OBVIOUS
  <2>2. IsFiniteSet(H) /\ Cardinality(H) \in Nat /\ Cardinality(H) <= Cardinality(Heads(s))
    BY <1>3, <2>1, FS_Subset, FS_CardinalityType
  <2> QED BY <1>3, <2>2 DEF Rank
<1> QED BY <1>3, <1>4

\* The packets of a stream are a sequence, whatever they are.
LEMMA PacketsSeq ==
  ASSUME NEW s \in Seq(Any)
  PROVE  \E V : /\ PacketsIn(s) \in Seq(V) /\ Len(PacketsIn(s)) = Cardinality(Heads(s))
                /\ \A k \in 1 .. Cardinality(Heads(s)) :
                     PacketsIn(s)[k] = CHOOSE n \in SizesAt(s, k) : TRUE
<1> DEFINE c == Cardinality(Heads(s))
           f(k) == CHOOSE n \in SizesAt(s, k) : TRUE
           V == {f(k) : k \in 1 .. c}
<1>1. c \in Nat
  BY HeadsFinite
<1>2. PacketsIn(s) = [k \in 1 .. c |-> f(k)]
  BY DEF PacketsIn
<1>3. \A k \in 1 .. c : f(k) \in V
  OBVIOUS
<1> HIDE DEF c, f, V
<1>4. PacketsIn(s) \in [1 .. c -> V]
  BY <1>2, <1>3
<1>5. PacketsIn(s) \in Seq(V) /\ Len(PacketsIn(s)) = c
  BY <1>1, <1>4
<1>6. \A k \in 1 .. c : PacketsIn(s)[k] = f(k)
  BY <1>2
<1> QED BY <1>5, <1>6 DEF c, f

\* A stream with no head holds no packet.
LEMMA NoPackets == PacketsIn(<<>>) = <<>>
<1>1. <<>> \in Seq(Any) /\ Len(<<>>) = 0
  BY EmptySeq
<1>2. Heads(<<>>) = {}
  BY <1>1 DEF Heads
<1>3. Cardinality(Heads(<<>>)) = 0
  BY <1>2, FS_EmptySet
<1>4. PICK V : PacketsIn(<<>>) \in Seq(V) /\ Len(PacketsIn(<<>>)) = 0
  BY <1>1, <1>3, PacketsSeq
<1> QED BY <1>4, EmptySeq

-----------------------------------------------------------------------------
(* A packet more at the end.                                               *)

\* The bytes of a stream and of a packet behind it.
LEMMA Behind ==
  ASSUME NEW s \in Seq(Any), NEW n \in Nat
  PROVE  LET e == Encoded(n)  t == s \o e IN
         /\ t \in Seq(Any) /\ Len(t) = Len(s) + Extent(n)
         /\ \A i \in 1 .. Len(s) : t[i] = s[i]
         /\ \A k \in 0 .. Extent(n) - 1 : t[Len(s) + 1 + k] = [size |-> n, off |-> k]
<1> DEFINE e == Encoded(n)
           t == s \o e
           l == Len(s)
           x == Extent(n)
<1>1. l \in Nat /\ x \in Nat \ {0}
  BY LenProperties, ExtentIn
<1>2. e \in Seq(Any) /\ Len(e) = x /\ \A i \in 1 .. x : e[i] = [size |-> n, off |-> i - 1]
  BY EncodedIs
<1> HIDE DEF e, x
<1>3. t \in Seq(Any) /\ Len(t) = l + x
      /\ \A i \in 1 .. l + x : t[i] = IF i <= l THEN s[i] ELSE e[i - l]
  BY <1>2, ConcatProperties
<1> HIDE DEF t, l
<1>4. \A i \in 1 .. l : t[i] = s[i]
  BY <1>1, <1>3
<1>5. ASSUME NEW k \in 0 .. x - 1 PROVE t[l + 1 + k] = [size |-> n, off |-> k]
  <2>1. l + 1 + k \in 1 .. l + x /\ ~(l + 1 + k <= l) /\ (l + 1 + k) - l = k + 1 /\ k + 1 \in 1 .. x
        /\ (k + 1) - 1 = k
    BY <1>1
  <2>2. t[l + 1 + k] = e[k + 1]
    BY <1>3, <2>1
  <2>3. e[k + 1] = [size |-> n, off |-> (k + 1) - 1]
    BY <1>2, <2>1
  <2> QED BY <2>1, <2>2, <2>3
<1> QED BY <1>3, <1>4, <1>5 DEF e, t, l, x

\* A row of whole packets stays one.
LEMMA WholeBehind ==
  ASSUME NEW s \in Seq(Any), NEW n \in Nat, Whole(s)
  PROVE  Whole(s \o Encoded(n))
<1> DEFINE t == s \o Encoded(n)
           l == Len(s)
           x == Extent(n)
<1>1. l \in Nat /\ x \in Nat \ {0}
  BY LenProperties, ExtentIn
<1>2. /\ t \in Seq(Any) /\ Len(t) = l + x
      /\ \A i \in 1 .. l : t[i] = s[i]
      /\ \A k \in 0 .. x - 1 : t[l + 1 + k] = [size |-> n, off |-> k]
  BY Behind
<1> HIDE DEF t
<1>3. ASSUME NEW i \in 1 .. l PROVE WholeAt(t, i)
  <2> DEFINE m == s[i].size
             o == s[i].off
             y == Extent(m)
  <2>1. s[i] \in Any
    BY ElementOfSeq
  <2>2. m \in Nat /\ o \in Nat
    BY <2>1 DEF Any
  <2>3. y \in Nat \ {0}
    BY <2>2, ExtentIn
  <2>4. o < y /\ o < i /\ i - o + y - 1 <= l
        /\ \A k \in 0 .. y - 1 : s[i - o + k] = [size |-> m, off |-> k]
    BY DEF Whole, WholeAt
  <2>5. t[i] = s[i]
    BY <1>2
  <2> HIDE DEF m, o, y
  <2>6. ASSUME NEW k \in 0 .. y - 1 PROVE t[i - o + k] = [size |-> m, off |-> k]
    <3> HIDE DEF l
    <3>1. i - o + k \in 1 .. l
      BY <1>1, <2>2, <2>3, <2>4
    <3> QED BY <1>2, <2>4, <3>1
  <2>7. i - o + y - 1 <= Len(t)
    <3> HIDE DEF l, x
    <3> QED BY <1>1, <1>2, <2>2, <2>3, <2>4
  <2> QED BY <2>4, <2>5, <2>6, <2>7 DEF WholeAt, m, o, y
<1>4. ASSUME NEW j \in 0 .. x - 1 PROVE WholeAt(t, l + 1 + j)
  <2>1. t[l + 1 + j] = [size |-> n, off |-> j]
    BY <1>2
  <2>2. t[l + 1 + j].size = n /\ t[l + 1 + j].off = j
    BY <2>1
  <2> HIDE DEF l, x
  <2>3. j < x /\ j < l + 1 + j /\ (l + 1 + j) - j + x - 1 <= Len(t)
    BY <1>1, <1>2
  <2>4. ASSUME NEW k \in 0 .. x - 1 PROVE t[(l + 1 + j) - j + k] = [size |-> n, off |-> k]
    <3>1. (l + 1 + j) - j + k = l + 1 + k
      BY <1>1
    <3> QED BY <1>2, <3>1
  <2> QED BY <2>2, <2>3, <2>4 DEF WholeAt, x
<1>5. ASSUME NEW i \in 1 .. Len(t) PROVE WholeAt(t, i)
  <2> HIDE DEF l, x
  <2>1. CASE i <= l
    BY <1>3, <2>1, <1>1, <1>2
  <2>2. CASE ~(i <= l)
    <3> DEFINE j == i - l - 1
    <3>1. j \in 0 .. x - 1 /\ i = l + 1 + j
      BY <1>1, <1>2, <2>2
    <3> QED BY <1>4, <3>1
  <2> QED BY <2>1, <2>2
<1> QED BY <1>5 DEF Whole, t

\* The packet behind a stream is the last of its packets.
LEMMA PacketBehind ==
  ASSUME NEW s \in Seq(Any), NEW n \in Nat
  PROVE  PacketsIn(s \o Encoded(n)) = PacketsIn(s) \o <<n>>
<1> DEFINE t == s \o Encoded(n)
           l == Len(s)
           x == Extent(n)
           H == Heads(s)
           c == Cardinality(H)
<1>1. l \in Nat /\ x \in Nat \ {0}
  BY LenProperties, ExtentIn
<1>2. /\ t \in Seq(Any) /\ Len(t) = l + x
      /\ \A i \in 1 .. l : t[i] = s[i]
      /\ \A k \in 0 .. x - 1 : t[l + 1 + k] = [size |-> n, off |-> k]
  BY Behind
<1>3. IsFiniteSet(H) /\ c \in Nat /\ H \subseteq 1 .. l /\ (l + 1) \notin H
  BY HeadsFinite, <1>1 DEF Heads
<1> HIDE DEF t
<1>4. Heads(t) = H \cup {l + 1}
  <2>1. ASSUME NEW i \in 1 .. l + x, ~(i <= l) PROVE t[i].off = i - l - 1
    <3> DEFINE j == i - l - 1
    <3> HIDE DEF l, x
    <3>1. j \in 0 .. x - 1 /\ i = l + 1 + j
      BY <1>1, <2>1
    <3> HIDE DEF j
    <3>2. t[i] = [size |-> n, off |-> j]
      BY <1>2, <3>1
    <3> QED BY <3>2 DEF j
  <2>2. ASSUME NEW i \in Heads(t) PROVE i \in H \cup {l + 1}
    <3>1. i \in 1 .. l + x /\ t[i].off = 0
      BY <1>2, <2>2 DEF Heads
    <3>2. CASE i <= l
      <4>1. i \in 1 .. l
        BY <1>1, <3>1, <3>2
      <4> QED BY <1>2, <3>1, <4>1 DEF Heads
    <3>3. CASE ~(i <= l)
      <4>1. i - l - 1 = 0
        BY <2>1, <3>1, <3>3
      <4> HIDE DEF l, x
      <4> QED BY <1>1, <3>1, <4>1
    <3> QED BY <3>2, <3>3
  <2>3. ASSUME NEW i \in H PROVE i \in Heads(t)
    <3>1. i \in 1 .. l /\ s[i].off = 0
      BY DEF Heads
    <3>2. i \in 1 .. l + x
      <4> HIDE DEF l, x
      <4> QED BY <1>1, <3>1
    <3> QED BY <1>2, <3>1, <3>2 DEF Heads
  <2>4. l + 1 \in Heads(t)
    <3>1. 0 \in 0 .. x - 1 /\ l + 1 \in 1 .. l + x /\ l + 1 + 0 = l + 1
      <4> HIDE DEF l, x
      <4> QED BY <1>1
    <3>2. t[l + 1 + 0] = [size |-> n, off |-> 0]
      BY <1>2, <3>1
    <3> QED BY <1>2, <3>1, <3>2 DEF Heads
  <2> QED BY <2>2, <2>3, <2>4
<1>5. Cardinality(Heads(t)) = c + 1
  BY <1>3, <1>4, FS_AddElement
<1>6. ASSUME NEW i \in H PROVE Rank(t, i) = Rank(s, i) /\ Rank(s, i) \in 0 .. c
  <2>1. {h \in Heads(t) : h <= i} = {h \in H : h <= i}
    <3> HIDE DEF l, H
    <3> QED BY <1>1, <1>3, <1>4
  <2> QED BY <2>1, HeadsFinite DEF Rank
<1>7. Rank(t, l + 1) = c + 1
  <2>0. ASSUME NEW h \in Heads(t) PROVE h <= l + 1
    <3> HIDE DEF l, x, H, c
    <3>1. h \in 1 .. l \/ h = l + 1
      BY <1>3, <1>4
    <3> QED BY <1>1, <3>1
  <2>1. {h \in Heads(t) : h <= l + 1} = Heads(t)
    <3> HIDE DEF l
    <3> QED BY <2>0
  <2> QED BY <1>5, <2>1 DEF Rank
<1>8. ASSUME NEW k \in 1 .. c PROVE SizesAt(t, k) = SizesAt(s, k)
  <2>1. {h \in Heads(t) : Rank(t, h) = k} = {h \in H : Rank(s, h) = k}
    <3>1. k # c + 1
      BY <1>3
    <3> HIDE DEF l, H, c
    <3> QED BY <1>4, <1>6, <1>7, <3>1
  <2>2. \A i \in {h \in H : Rank(s, h) = k} : t[i].size = s[i].size
    <3> HIDE DEF l, H
    <3> QED BY <1>2, <1>3
  <2>3. SizesAt(t, k) = {t[i].size : i \in {h \in H : Rank(s, h) = k}}
    BY <2>1 DEF SizesAt
  <2>4. SizesAt(s, k) = {s[i].size : i \in {h \in H : Rank(s, h) = k}}
    BY DEF SizesAt
  <2> QED BY <2>2, <2>3, <2>4
<1>9. SizesAt(t, c + 1) = {n}
  <2>1. \A h \in H : Rank(t, h) # c + 1
    BY <1>3, <1>6
  <2>2. {h \in Heads(t) : Rank(t, h) = c + 1} = {l + 1}
    <3> HIDE DEF l, H, c
    <3> QED BY <1>4, <1>7, <2>1
  <2>3. t[l + 1].size = n
    <3>1. 0 \in 0 .. x - 1 /\ l + 1 + 0 = l + 1
      <4> HIDE DEF l, x
      <4> QED BY <1>1
    <3>2. t[l + 1 + 0] = [size |-> n, off |-> 0]
      BY <1>2, <3>1
    <3> QED BY <3>1, <3>2
  <2> QED BY <2>2, <2>3 DEF SizesAt
<1>10. PICK V : /\ PacketsIn(s) \in Seq(V) /\ Len(PacketsIn(s)) = c
                /\ \A k \in 1 .. c : PacketsIn(s)[k] = CHOOSE z \in SizesAt(s, k) : TRUE
  BY PacketsSeq
<1>11. PICK W : /\ PacketsIn(t) \in Seq(W) /\ Len(PacketsIn(t)) = c + 1
                /\ \A k \in 1 .. c + 1 : PacketsIn(t)[k] = CHOOSE z \in SizesAt(t, k) : TRUE
  BY <1>2, <1>5, PacketsSeq
<1> DEFINE U == V \cup W \cup {n}
           p == PacketsIn(s)
           q == PacketsIn(t)
<1> HIDE DEF H, c, l, x
<1>12. p \in Seq(U) /\ q \in Seq(U) /\ <<n>> \in Seq(U) /\ Len(<<n>>) = 1
  <2>1. V \subseteq U /\ W \subseteq U /\ n \in U
    OBVIOUS
  <2> HIDE DEF U
  <2>2. \A k \in 1 .. c : p[k] \in V
    BY <1>10, ElementOfSeq
  <2>3. \A k \in 1 .. c + 1 : q[k] \in W
    BY <1>11, ElementOfSeq
  <2>4. p \in [1 .. c -> U]
    <3>1. p \in [1 .. c -> V]
      BY <1>10, LenProperties
    <3> HIDE DEF p
    <3> QED BY <2>1, <3>1
  <2>5. q \in [1 .. c + 1 -> U]
    <3>1. q \in [1 .. c + 1 -> W]
      BY <1>11, LenProperties
    <3> HIDE DEF q
    <3> QED BY <2>1, <3>1
  <2> HIDE DEF p, q, c
  <2>6. c + 1 \in Nat
    BY <1>3
  <2>7. p \in Seq(U) /\ q \in Seq(U)
    BY <1>3, <2>4, <2>5, <2>6
  <2>8. <<n>> \in Seq(U) /\ Len(<<n>>) = 1
    BY <2>1
  <2> QED BY <2>7, <2>8
<1> HIDE DEF p, q, U
<1>13. p \o <<n>> \in Seq(U) /\ Len(p \o <<n>>) = c + 1
       /\ \A k \in 1 .. c + 1 : (p \o <<n>>)[k] = IF k <= c THEN p[k] ELSE <<n>>[k - c]
  <2>1. Len(p) = c
    BY <1>10 DEF p
  <2> QED BY <1>12, <2>1, ConcatProperties
<1>14. ASSUME NEW k \in 1 .. c + 1 PROVE q[k] = (p \o <<n>>)[k]
  <2>1. CASE k <= c
    <3>1. k \in 1 .. c
      BY <1>3, <2>1
    <3>2. q[k] = CHOOSE z \in SizesAt(t, k) : TRUE
      BY <1>11 DEF q
    <3>3. p[k] = CHOOSE z \in SizesAt(s, k) : TRUE
      BY <1>10, <3>1 DEF p
    <3>4. q[k] = p[k]
      BY <1>8, <3>1, <3>2, <3>3
    <3> QED BY <1>13, <2>1, <3>4
  <2>2. CASE ~(k <= c)
    <3>1. k = c + 1 /\ k - c = 1
      BY <1>3, <2>2
    <3>2. q[k] = CHOOSE z \in {n} : TRUE
      BY <1>9, <1>11, <3>1 DEF q
    <3>3. q[k] = n
      BY <3>2
    <3> QED BY <1>13, <2>2, <3>1, <3>3
  <2> QED BY <2>1, <2>2
<1> QED BY <1>11, <1>12, <1>13, <1>14, SeqEqual DEF p, q, t

-----------------------------------------------------------------------------
(* A packet less at the front.                                             *)

\* What it says of a byte that it lies in its packet.
LEMMA WholeUnfold ==
  ASSUME NEW s, NEW i, WholeAt(s, i)
  PROVE  /\ s[i].off < Extent(s[i].size) /\ s[i].off < i
         /\ i - s[i].off + Extent(s[i].size) - 1 <= Len(s)
         /\ \A k \in 0 .. Extent(s[i].size) - 1 :
              s[i - s[i].off + k] = [size |-> s[i].size, off |-> k]
  BY DEF WholeAt

\* What is behind the first packet of a row of whole packets is one, and the first
\* is the only packet that is gone.
LEMMA FrontAt ==
  ASSUME NEW s \in Seq(Any), NEW t \in Seq(Any), NEW n \in Nat \ {0},
         Len(s) = n + Len(t), \A i \in 1 .. Len(t) : t[i] = s[n + i],
         Whole(s), n = Extent(s[1].size)
  PROVE  /\ s[1].size \in Nat
         /\ \A k \in 0 .. n - 1 : s[1 + k] = [size |-> s[1].size, off |-> k]
<1>1. Len(t) \in Nat /\ 1 \in 1 .. Len(s)
  <2>1. Len(t) \in Nat
    BY LenProperties
  <2> QED BY <2>1
<1>2. s[1] \in Any
  BY <1>1, ElementOfSeq
<1>3. s[1].size \in Nat /\ s[1].off \in Nat
  BY <1>2 DEF Any
<1>4. s[1].off < 1 /\ \A k \in 0 .. n - 1 : s[1 - s[1].off + k] = [size |-> s[1].size, off |-> k]
  BY <1>1 DEF Whole, WholeAt
<1>5. s[1].off = 0
  BY <1>3, <1>4
<1> QED BY <1>3, <1>4, <1>5

\* The rest is a row of whole packets.
LEMMA WholeRest ==
  ASSUME NEW s \in Seq(Any), NEW t \in Seq(Any), NEW n \in Nat \ {0},
         Len(s) = n + Len(t), \A i \in 1 .. Len(t) : t[i] = s[n + i],
         Whole(s), n = Extent(s[1].size)
  PROVE  Whole(t)
<1> DEFINE l == Len(t)
<1>0. l \in Nat
  BY LenProperties
<1>1. s[1].size \in Nat /\ \A k \in 0 .. n - 1 : s[1 + k] = [size |-> s[1].size, off |-> k]
  BY FrontAt
<1> SUFFICES ASSUME NEW i \in 1 .. l PROVE WholeAt(t, i)
  BY DEF Whole
<1> DEFINE m == t[i].size
           o == t[i].off
           y == Extent(m)
<1>2. t[i] = s[n + i] /\ n + i \in 1 .. Len(s)
  BY <1>0
<1>3. t[i] \in Any
  BY ElementOfSeq
<1>4. m \in Nat /\ o \in Nat
  BY <1>3 DEF Any
<1>5. y \in Nat \ {0}
  BY <1>4, ExtentIn
<1>6. o < y /\ o < n + i /\ n + i - o + y - 1 <= n + l
      /\ \A k \in 0 .. y - 1 : s[n + i - o + k] = [size |-> m, off |-> k]
  <2> DEFINE j == n + i
  <2>1. WholeAt(s, j) /\ s[j].size = m /\ s[j].off = o /\ Len(s) = n + l
    BY <1>2 DEF Whole
  <2> HIDE DEF j, m, o, l, y
  <2>2. o < Extent(m) /\ o < j /\ j - o + Extent(m) - 1 <= n + l
    BY <2>1, WholeUnfold, Zenon
  <2>3. ASSUME NEW k \in 0 .. Extent(m) - 1 PROVE s[j - o + k] = [size |-> m, off |-> k]
    <3>1. \A k_1 \in 0 .. Extent(s[j].size) - 1 :
            s[j - s[j].off + k_1] = [size |-> s[j].size, off |-> k_1]
      BY <2>1, WholeUnfold
    <3>2. \A k_1 \in 0 .. Extent(m) - 1 : s[j - o + k_1] = [size |-> m, off |-> k_1]
      BY <2>1, <3>1
    <3> QED BY <3>2
  <2>4. o < y /\ o < n + i /\ n + i - o + y - 1 <= n + l
    <3>1. o < y /\ o < j /\ j - o + y - 1 <= n + l
      BY <2>2 DEF y
    <3> QED BY <1>0, <1>4, <1>5, <3>1 DEF j
  <2>5. \A k \in 0 .. y - 1 : s[n + i - o + k] = [size |-> m, off |-> k]
    <3>1. \A k \in 0 .. y - 1 : s[j - o + k] = [size |-> m, off |-> k]
      BY <2>3 DEF y
    <3> TAKE k \in 0 .. y - 1
    <3>2. n + i - o + k = j - o + k
      BY <1>0, <1>4, <1>5 DEF j
    <3>3. s[j - o + k] = [size |-> m, off |-> k]
      BY <3>1
    <3> QED BY <3>2, <3>3, Zenon
  <2> QED BY <2>4, <2>5
<1> HIDE DEF m, o, y, l
<1>7. o < i
  <2> SUFFICES ASSUME ~(o < i) PROVE FALSE
    OBVIOUS
  <2> DEFINE p == n + i - o
  <2>0. i \in Int /\ p \in Int /\ 0 \in 0 .. y - 1
    BY <1>0, <1>4, <1>5
  <2>1. p \in 1 .. n /\ p - 1 \in 0 .. n - 1 /\ 1 + (p - 1) = p /\ p + 0 = p
    <3>1. p >= 1 /\ p <= n
      BY <1>4, <1>6, <2>0
    <3> HIDE DEF p
    <3> QED BY <2>0, <3>1
  <2> HIDE DEF p
  <2>2. s[p] = [size |-> s[1].size, off |-> p - 1]
    BY <1>1, <2>1
  <2>3. s[p + 0] = [size |-> m, off |-> 0]
    BY <1>6, <2>0, <2>1 DEF p
  <2>4. p = 1 /\ m = s[1].size
    BY <2>1, <2>2, <2>3
  <2>5. y = n
    BY <2>4 DEF y
  <2> QED BY <1>0, <1>4, <1>6, <2>4, <2>5 DEF p
<1>8. i - o + y - 1 <= l
  BY <1>0, <1>4, <1>5, <1>6
<1>9. ASSUME NEW k \in 0 .. y - 1 PROVE t[i - o + k] = [size |-> m, off |-> k]
  <2>1. i - o + k \in 1 .. l /\ n + (i - o + k) = n + i - o + k
    BY <1>0, <1>4, <1>5, <1>7, <1>8
  <2>2. t[i - o + k] = s[n + (i - o + k)]
    BY <2>1 DEF l
  <2> QED BY <1>6, <2>1, <2>2
<1> QED BY <1>6, <1>7, <1>8, <1>9 DEF WholeAt, m, o, y, l

\* Moving a set of positions by n keeps their number.
LEMMA Moved ==
  ASSUME NEW n \in Nat, NEW S \in SUBSET Int, IsFiniteSet(S)
  PROVE  IsFiniteSet({n + i : i \in S}) /\ Cardinality({n + i : i \in S}) = Cardinality(S)
<1> DEFINE T == {n + i : i \in S}
           f == [i \in S |-> n + i]
<1>1. f \in Bijection(S, T)
  <2>1. f \in [S -> T]
    OBVIOUS
  <2>2. \A a, b \in S : f[a] = f[b] => a = b
    <3> TAKE a, b \in S
    <3>1. a \in Int /\ b \in Int /\ f[a] = n + a /\ f[b] = n + b
      OBVIOUS
    <3> HIDE DEF f
    <3> QED BY <3>1
  <2>3. \A c \in T : \E a \in S : f[a] = c
    OBVIOUS
  <2> HIDE DEF f, T
  <2>4. f \in Injection(S, T) /\ f \in Surjection(S, T)
    BY <2>1, <2>2, <2>3 DEF Injection, Surjection, IsInjective
  <2> QED BY <2>4 DEF Bijection
<1>2. ExistsBijection(S, T)
  BY <1>1 DEF ExistsBijection
<1> HIDE DEF T
<1>3. IsFiniteSet(T) /\ Cardinality(T) = Cardinality(S)
  BY <1>2, FS_Bijection
<1> QED BY <1>3 DEF T

\* The first packet, then those of the rest.
LEMMA PacketRest ==
  ASSUME NEW s \in Seq(Any), NEW t \in Seq(Any), NEW n \in Nat \ {0},
         Len(s) = n + Len(t), \A i \in 1 .. Len(t) : t[i] = s[n + i],
         Whole(s), n = Extent(s[1].size)
  PROVE  PacketsIn(s) = <<s[1].size>> \o PacketsIn(t)
<1> DEFINE m == s[1].size
           l == Len(t)
           H == Heads(t)
           c == Cardinality(H)
           M == {n + i : i \in H}
<1>1. l \in Nat
  BY LenProperties
<1>2. m \in Nat /\ \A k \in 0 .. n - 1 : s[1 + k] = [size |-> m, off |-> k]
  BY FrontAt
<1>3. IsFiniteSet(H) /\ c \in Nat /\ H \subseteq 1 .. l
  BY HeadsFinite DEF Heads
<1>4. Heads(s) = {1} \cup M
  <2>1. ASSUME NEW i \in Heads(s) PROVE i \in {1} \cup M
    <3>1. i \in 1 .. n + l /\ s[i].off = 0
      BY DEF Heads
    <3> HIDE DEF l
    <3>2. CASE i <= n
      <4>1. i - 1 \in 0 .. n - 1 /\ 1 + (i - 1) = i
        BY <1>1, <3>1, <3>2
      <4>2. s[1 + (i - 1)] = [size |-> m, off |-> i - 1]
        BY <1>2, <4>1
      <4>3. i - 1 = 0
        BY <3>1, <4>1, <4>2
      <4> QED BY <4>1, <4>3
    <3>3. CASE ~(i <= n)
      <4> DEFINE j == i - n
      <4>1. j \in 1 .. l /\ i = n + j
        BY <1>1, <3>1, <3>3
      <4> HIDE DEF j
      <4>2. t[j] = s[i]
        BY <4>1 DEF l
      <4>3. j \in H
        BY <3>1, <4>1, <4>2 DEF Heads, l
      <4> QED BY <4>1, <4>3
    <3> QED BY <3>2, <3>3
  <2>2. 1 \in Heads(s)
    <3>1. 1 \in 1 .. n + l /\ 0 \in 0 .. n - 1 /\ 1 + 0 = 1
      BY <1>1
    <3>2. s[1 + 0] = [size |-> m, off |-> 0]
      BY <1>2, <3>1
    <3> QED BY <3>1, <3>2 DEF Heads
  <2>3. ASSUME NEW i \in H PROVE n + i \in Heads(s)
    <3>1. i \in 1 .. l /\ t[i].off = 0
      BY DEF Heads
    <3>2. t[i] = s[n + i]
      BY <3>1
    <3>3. n + i \in 1 .. n + l
      <4> HIDE DEF l
      <4> QED BY <1>1, <3>1
    <3> QED BY <3>1, <3>2, <3>3 DEF Heads
  <2> QED BY <2>1, <2>2, <2>3
<1>5. IsFiniteSet(M) /\ Cardinality(M) = c /\ 1 \notin M /\ H \in SUBSET Int
  <2>1. H \in SUBSET Int
    <3> HIDE DEF H, l
    <3> QED BY <1>1, <1>3
  <2>2. 1 \notin M
    <3> HIDE DEF H, l
    <3> QED BY <1>1, <1>3
  <2> HIDE DEF H
  <2> QED BY <1>3, <2>1, <2>2, Moved
<1>6. Cardinality(Heads(s)) = c + 1
  <2>1. Heads(s) = M \cup {1}
    BY <1>4
  <2> HIDE DEF M, c
  <2>2. Cardinality(M \cup {1}) = Cardinality(M) + 1
    BY <1>5, FS_AddElement
  <2> QED BY <1>5, <2>1, <2>2
<1>7. Rank(s, 1) = 1
  <2>1. {h \in Heads(s) : h <= 1} = {1}
    <3>1. ASSUME NEW h \in Heads(s) PROVE h <= 1 <=> h = 1
      <4> HIDE DEF H, l
      <4> QED BY <1>1, <1>3, <1>4
    <3>2. 1 \in Heads(s)
      BY <1>4
    <3> QED BY <3>1, <3>2
  <2> QED BY <2>1, FS_Singleton DEF Rank
<1>8. ASSUME NEW i \in H PROVE Rank(s, n + i) = Rank(t, i) + 1
  <2> DEFINE A == {h \in H : h <= i}
             B == {n + h : h \in A}
  <2>1. {h \in Heads(s) : h <= n + i} = B \cup {1}
    <3> HIDE DEF H, l
    <3>1. i \in Int /\ i >= 1 /\ 1 <= n + i
      BY <1>1, <1>3
    <3>2. \A h \in H : n + h <= n + i <=> h <= i
      BY <1>5, <3>1
    <3>3. \A x : x \in {h \in Heads(s) : h <= n + i} <=> x \in Heads(s) /\ x <= n + i
      OBVIOUS
    <3>4. ASSUME NEW x PROVE (x \in Heads(s) /\ x <= n + i) <=> x \in B \cup {1}
      <4>1. ASSUME x \in Heads(s), x <= n + i PROVE x \in B \cup {1}
        <5>1. CASE x = 1
          BY <5>1
        <5>2. CASE x # 1
          <6>1. PICK h \in H : x = n + h
            BY <1>4, <4>1, <5>2
          <6> QED BY <3>2, <4>1, <6>1
        <5> QED BY <5>1, <5>2
      <4>2. ASSUME x \in B \cup {1} PROVE x \in Heads(s) /\ x <= n + i
        <5>1. CASE x = 1
          BY <1>4, <3>1, <5>1
        <5>2. CASE x # 1
          <6>1. PICK h \in A : x = n + h
            BY <4>2, <5>2
          <6> QED BY <1>4, <3>2, <6>1
        <5> QED BY <5>1, <5>2
      <4> QED BY <4>1, <4>2
    <3> HIDE DEF B
    <3> QED BY <3>3, <3>4
  <2>2. IsFiniteSet(A) /\ Cardinality(A) \in Nat
    BY HeadsFinite, FS_CardinalityType
  <2>3. A \in SUBSET Int
    BY <1>5
  <2> HIDE DEF A
  <2>4. IsFiniteSet(B) /\ Cardinality(B) = Cardinality(A)
    BY <2>2, <2>3, Moved
  <2>5. 1 \notin B
    BY <1>5 DEF A
  <2> HIDE DEF B
  <2>6. Cardinality(B \cup {1}) = Cardinality(A) + 1
    BY <2>4, <2>5, FS_AddElement
  <2> QED BY <2>1, <2>6 DEF Rank, A
<1>9. SizesAt(s, 1) = {m}
  <2>1. ASSUME NEW i \in H PROVE Rank(s, n + i) # 1
    <3>1. IsFiniteSet({h \in H : h <= i}) /\ i \in {h \in H : h <= i}
      <4>1. i \in Int /\ i <= i
        BY <1>5
      <4>2. IsFiniteSet({h \in H : h <= i})
        BY HeadsFinite
      <4> QED BY <4>1, <4>2
    <3>2. Rank(t, i) # 0 /\ Rank(t, i) \in Nat
      BY <3>1, FS_EmptySet, FS_CardinalityType DEF Rank
    <3> QED BY <1>8, <3>2
  <2>2. {h \in Heads(s) : Rank(s, h) = 1} = {1}
    <3> HIDE DEF H
    <3> QED BY <1>4, <1>7, <2>1
  <2> QED BY <2>2 DEF SizesAt
<1>10. ASSUME NEW k \in 1 .. c PROVE SizesAt(s, k + 1) = SizesAt(t, k)
  <2> DEFINE P == {h \in H : Rank(t, h) = k}
  <2>1. {h \in Heads(s) : Rank(s, h) = k + 1} = {n + i : i \in P}
    <3>1. \A i \in H : Rank(s, n + i) = k + 1 <=> Rank(t, i) = k
      <4> TAKE i \in H
      <4>0. Rank(t, i) \in 0 .. c
        BY HeadsFinite
      <4> HIDE DEF c
      <4>1. Rank(t, i) \in Int /\ k \in Int
        BY <1>3, <4>0
      <4> QED BY <1>8, <4>1
    <3>2. Rank(s, 1) # k + 1
      BY <1>3, <1>7
    <3> HIDE DEF H, c
    <3>3. ASSUME NEW x PROVE (x \in Heads(s) /\ Rank(s, x) = k + 1) <=> x \in {n + i : i \in P}
      <4>1. ASSUME x \in Heads(s), Rank(s, x) = k + 1 PROVE x \in {n + i : i \in P}
        <5>1. PICK h \in H : x = n + h
          BY <1>4, <3>2, <4>1
        <5> QED BY <3>1, <4>1, <5>1
      <4>2. ASSUME x \in {n + i : i \in P} PROVE x \in Heads(s) /\ Rank(s, x) = k + 1
        <5>1. PICK h \in P : x = n + h
          BY <4>2
        <5> QED BY <1>4, <3>1, <5>1
      <4> QED BY <4>1, <4>2
    <3> HIDE DEF P
    <3> QED BY <3>3
  <2>2. \A i \in P : s[n + i].size = t[i].size
    <3>1. \A i \in P : i \in 1 .. l
      BY <1>3
    <3> QED BY <3>1
  <2>3. SizesAt(s, k + 1) = {s[x].size : x \in {n + i : i \in P}}
    BY <2>1 DEF SizesAt
  <2>4. SizesAt(t, k) = {t[i].size : i \in P}
    BY DEF SizesAt
  <2> HIDE DEF P
  <2>5. ASSUME NEW v PROVE v \in SizesAt(s, k + 1) <=> v \in SizesAt(t, k)
    <3>1. v \in SizesAt(s, k + 1) <=> \E i \in P : v = s[n + i].size
      BY <2>3
    <3>2. v \in SizesAt(t, k) <=> \E i \in P : v = t[i].size
      BY <2>4
    <3> QED BY <2>2, <3>1, <3>2
  <2> QED BY <2>5
<1>11. PICK V : /\ PacketsIn(t) \in Seq(V) /\ Len(PacketsIn(t)) = c
                /\ \A k \in 1 .. c : PacketsIn(t)[k] = CHOOSE z \in SizesAt(t, k) : TRUE
  BY PacketsSeq
<1>12. PICK W : /\ PacketsIn(s) \in Seq(W) /\ Len(PacketsIn(s)) = c + 1
                /\ \A k \in 1 .. c + 1 : PacketsIn(s)[k] = CHOOSE z \in SizesAt(s, k) : TRUE
  BY <1>6, PacketsSeq
<1> DEFINE U == V \cup W \cup {m}
           p == PacketsIn(t)
           q == PacketsIn(s)
<1> HIDE DEF H, c, l, M, m
<1>13. p \in Seq(U) /\ q \in Seq(U) /\ <<m>> \in Seq(U) /\ Len(<<m>>) = 1
  <2>1. V \subseteq U /\ W \subseteq U /\ m \in U
    OBVIOUS
  <2> HIDE DEF U
  <2>2. p \in [1 .. c -> U]
    <3>1. p \in [1 .. c -> V]
      BY <1>11, LenProperties
    <3> HIDE DEF p
    <3> QED BY <2>1, <3>1
  <2>3. q \in [1 .. c + 1 -> U]
    <3>1. q \in [1 .. c + 1 -> W]
      BY <1>12, LenProperties
    <3> HIDE DEF q
    <3> QED BY <2>1, <3>1
  <2> HIDE DEF p, q, c
  <2>4. c + 1 \in Nat
    BY <1>3
  <2>5. p \in Seq(U) /\ q \in Seq(U)
    BY <1>3, <2>2, <2>3, <2>4
  <2>6. <<m>> \in Seq(U) /\ Len(<<m>>) = 1
    BY <2>1
  <2> QED BY <2>5, <2>6
<1> HIDE DEF p, q, U
<1>14. <<m>> \o p \in Seq(U) /\ Len(<<m>> \o p) = 1 + c
       /\ \A k \in 1 .. 1 + c : (<<m>> \o p)[k] = IF k <= 1 THEN <<m>>[k] ELSE p[k - 1]
  <2>1. Len(p) = c
    BY <1>11 DEF p
  <2> QED BY <1>13, <2>1, ConcatProperties
<1>15. ASSUME NEW k \in 1 .. c + 1 PROVE q[k] = (<<m>> \o p)[k]
  <2>0. k \in 1 .. 1 + c /\ k \in Int
    BY <1>3
  <2>1. CASE k <= 1
    <3>1. k = 1
      BY <2>0, <2>1
    <3>2. q[k] = CHOOSE z \in {m} : TRUE
      BY <1>9, <1>12, <3>1 DEF q
    <3>3. q[k] = m
      BY <3>2
    <3> QED BY <1>14, <2>0, <2>1, <3>1, <3>3
  <2>2. CASE ~(k <= 1)
    <3>1. k - 1 \in 1 .. c /\ (k - 1) + 1 = k
      BY <1>3, <2>2
    <3>2. q[k] = CHOOSE z \in SizesAt(s, k) : TRUE
      BY <1>12 DEF q
    <3>3. p[k - 1] = CHOOSE z \in SizesAt(t, k - 1) : TRUE
      BY <1>11, <3>1 DEF p
    <3>4. SizesAt(s, (k - 1) + 1) = SizesAt(t, k - 1)
      BY <1>10, <3>1
    <3>5. q[k] = p[k - 1]
      BY <3>1, <3>2, <3>3, <3>4
    <3> QED BY <1>14, <2>0, <2>2, <3>5
  <2> QED BY <2>1, <2>2
<1>16. q = <<m>> \o p
  BY <1>3, <1>12, <1>13, <1>14, <1>15, SeqEqual DEF q
<1> QED BY <1>16 DEF p, q, m

-----------------------------------------------------------------------------
(* The stream of one session.                                              *)

\* What the buffer and the wire hold are bytes of packets.
Typed == buf \in [Cell -> Any] /\ wire \in Seq(Any)

\* The stream, cell by cell.
StreamShape ==
  /\ Avail \in 0 .. Size /\ read_pos + Avail <= Size
  /\ Stream \in Seq(Any) /\ Len(Stream) = Avail + Len(wire)
  /\ \A i \in 1 .. Avail + Len(wire) :
       Stream[i] = IF i <= Avail THEN buf[read_pos + i - 1] ELSE wire[i - Avail]

\* The cells that hold something lie inside the buffer.
LEMMA AvailIn ==
  ASSUME CursorInv
  PROVE  /\ Size \in Nat /\ read_pos \in 0 .. Size /\ write_pos \in 0 .. Size
         /\ read_pos <= write_pos
         /\ Avail = (IF step = "took" THEN write_pos - read_pos + bytes
                     ELSE write_pos - read_pos)
         /\ Avail \in 0 .. Size /\ read_pos + Avail <= Size
         /\ DataSize = write_pos - read_pos
<1>1. /\ Size \in Nat /\ read_pos \in 0 .. Size /\ write_pos \in 0 .. Size
      /\ read_pos <= write_pos /\ bytes \in 0 .. Size
      /\ step = "took" => bytes <= Size - write_pos
  BY FramingAssumption DEF CursorInv, TypeOK, BufferOK, WritableSize
<1>2. /\ DataSize = write_pos - read_pos
      /\ Avail = (IF step = "took" THEN write_pos - read_pos + bytes
                  ELSE write_pos - read_pos)
  BY DEF Avail, DataSize
<1>3. CASE step = "took"
  BY <1>1, <1>2, <1>3
<1>4. CASE step # "took"
  BY <1>1, <1>2, <1>4
<1> QED BY <1>1, <1>2, <1>3, <1>4

\* The stream is a sequence of such bytes.
LEMMA StreamIs == CursorInv /\ Typed => StreamShape
<1> SUFFICES ASSUME CursorInv, Typed PROVE StreamShape
  OBVIOUS
<1> DEFINE a == Avail
<1>1. /\ Size \in Nat /\ read_pos \in 0 .. Size /\ a \in 0 .. Size /\ read_pos + a <= Size
  BY AvailIn
<1>2. Data = [i \in 1 .. a |-> buf[read_pos + i - 1]]
  BY DEF Data
<1> HIDE DEF a
<1>3. ASSUME NEW i \in 1 .. a PROVE buf[read_pos + i - 1] \in Any
  <2>1. read_pos + i - 1 \in 0 .. Size - 1
    BY <1>1
  <2> QED BY <2>1 DEF Typed, Cell
<1>4. Data \in [1 .. a -> Any]
  BY <1>2, <1>3
<1>5. Data \in Seq(Any) /\ Len(Data) = a
  BY <1>1, <1>4
<1>6. wire \in Seq(Any)
  BY DEF Typed
<1>7. /\ Stream \in Seq(Any) /\ Len(Stream) = a + Len(wire)
      /\ \A i \in 1 .. a + Len(wire) : Stream[i] = IF i <= a THEN Data[i] ELSE wire[i - a]
  BY <1>5, <1>6, ConcatProperties DEF Stream
<1>8. ASSUME NEW i \in 1 .. a + Len(wire)
      PROVE  Stream[i] = IF i <= a THEN buf[read_pos + i - 1] ELSE wire[i - a]
  <2>1. i \in Int /\ i >= 1
    BY <1>1, <1>6, LenProperties
  <2>2. CASE i <= a
    <3>1. i \in 1 .. a
      BY <1>1, <2>1, <2>2
    <3> QED BY <1>2, <1>7, <2>2, <3>1
  <2>3. CASE ~(i <= a)
    BY <1>7, <2>3
  <2> QED BY <2>2, <2>3
<1> QED BY <1>1, <1>7, <1>8 DEF StreamShape, a

\* And in the next state.
LEMMA StreamIsNext == CursorInv' /\ Typed' => StreamShape'
  BY StreamIs, PTL

\* Two states whose streams agree byte by byte have the same stream.
LEMMA SameBytes ==
  ASSUME StreamShape, StreamShape', Avail + Len(wire) = Avail' + Len(wire'),
         \A i \in 1 .. Avail + Len(wire) :
           (IF i <= Avail THEN buf[read_pos + i - 1] ELSE wire[i - Avail])
           = (IF i <= Avail' THEN buf'[read_pos' + i - 1] ELSE wire'[i - Avail'])
  PROVE  Stream' = Stream
<1>1. \A i \in 1 .. Len(Stream) : Stream[i] = Stream'[i]
  BY DEF StreamShape
<1>2. Stream \in Seq(Any) /\ Stream' \in Seq(Any) /\ Len(Stream) = Len(Stream')
  BY DEF StreamShape
<1> QED BY <1>1, <1>2, SeqEqual

\* Clean moves the rest to the front or starts over: the stream stays.
LEMMA StreamPost ==
  ASSUME CursorInv, Typed, CursorInv', PostRecv
  PROVE  Typed' /\ Stream' = Stream
<1>1. wire' = wire /\ step = "clean" /\ step' # "took"
  BY DEF PostRecv
<1>2. /\ Size \in Nat /\ read_pos \in 0 .. Size /\ write_pos \in 0 .. Size
      /\ read_pos <= write_pos /\ DataSize = write_pos - read_pos
      /\ Avail = write_pos - read_pos
  BY <1>1, AvailIn
<1>3. Avail' = write_pos' - read_pos'
  BY <1>1 DEF Avail, DataSize
<1>4. StreamShape
  BY StreamIs
<1>5. Len(wire) \in Nat
  BY LenProperties DEF Typed
<1>6. CASE DataSize = 0 /\ read_pos' = 0 /\ write_pos' = 0 /\ UNCHANGED buf
  <2>1. Typed'
    BY <1>1, <1>6 DEF Typed
  <2>2. StreamShape'
    BY <2>1, StreamIsNext
  <2>3. Avail = 0 /\ Avail' = 0
    BY <1>2, <1>3, <1>6
  <2>4. ASSUME NEW i \in 1 .. Avail + Len(wire)
        PROVE  (IF i <= Avail THEN buf[read_pos + i - 1] ELSE wire[i - Avail])
               = (IF i <= Avail' THEN buf'[read_pos' + i - 1] ELSE wire'[i - Avail'])
    BY <1>1, <1>5, <2>3
  <2> QED BY <1>1, <1>4, <2>1, <2>2, <2>3, <2>4, SameBytes
<1>7. CASE /\ DataSize > 0 /\ read_pos' = 0 /\ write_pos' = DataSize
           /\ buf' = [c \in Cell |-> IF c < DataSize THEN buf[read_pos + c] ELSE buf[c]]
  <2> DEFINE d == DataSize
  <2>1. d \in 1 .. Size /\ Avail = d /\ Avail' = d /\ read_pos + d <= Size
    BY <1>2, <1>3, <1>7
  <2> HIDE DEF d
  <2>2. \A c \in Cell : (IF c < d THEN buf[read_pos + c] ELSE buf[c]) \in Any
    <3> TAKE c \in Cell
    <3>1. c < d => read_pos + c \in Cell
      BY <1>2, <2>1 DEF Cell
    <3> QED BY <3>1 DEF Typed
  <2>3. Typed'
    BY <1>1, <1>7, <2>2 DEF Typed, d
  <2>4. StreamShape'
    BY <2>3, StreamIsNext
  <2>5. ASSUME NEW i \in 1 .. Avail + Len(wire)
        PROVE  (IF i <= Avail THEN buf[read_pos + i - 1] ELSE wire[i - Avail])
               = (IF i <= Avail' THEN buf'[read_pos' + i - 1] ELSE wire'[i - Avail'])
    <3>1. CASE i <= d
      <4>1. i - 1 \in Cell /\ i - 1 < d /\ 0 + i - 1 = i - 1 /\ read_pos + (i - 1) = read_pos + i - 1
        BY <1>2, <1>5, <2>1, <3>1 DEF Cell
      <4>2. buf'[i - 1] = buf[read_pos + (i - 1)]
        BY <1>7, <4>1 DEF d
      <4>3. buf'[read_pos' + i - 1] = buf[read_pos + i - 1]
        BY <1>7, <4>1, <4>2
      <4> QED BY <2>1, <3>1, <4>3
    <3>2. CASE ~(i <= d)
      BY <1>1, <2>1, <3>2
    <3> QED BY <3>1, <3>2
  <2> QED BY <1>1, <1>4, <2>1, <2>3, <2>4, <2>5, SameBytes
<1>8. CASE UNCHANGED <<buf, read_pos, write_pos>>
  <2>1. Avail' = Avail /\ Typed'
    BY <1>1, <1>2, <1>3, <1>8 DEF Typed
  <2> QED BY <1>1, <1>8, <2>1 DEF Stream, Data
<1> QED BY <1>6, <1>7, <1>8 DEF PostRecv, Clean

\* What the kernel takes from the wire it puts behind what is there.
LEMMA StreamReceive ==
  ASSUME CursorInv, Typed, CursorInv', NEW n \in 1 .. Size, Receive(n)
  PROVE  Typed' /\ Stream' = Stream
<1> DEFINE d == DataSize
<1>1. /\ step = "posted" /\ step' = "took" /\ bytes' = n /\ n \in 1 .. Len(wire)
      /\ UNCHANGED <<read_pos, write_pos>> /\ wire' = SubSeq(wire, n + 1, Len(wire))
      /\ buf' = [c \in Cell |-> IF c >= write_pos /\ c < write_pos + n
                                THEN wire[c - write_pos + 1] ELSE buf[c]]
      /\ n <= room
  <2>1. wire \in Seq(Any) /\ Len(wire) \in Nat
    BY LenProperties DEF Typed
  <2> QED BY <2>1 DEF Receive
<1>2. /\ Size \in Nat /\ read_pos \in 0 .. Size /\ write_pos \in 0 .. Size
      /\ read_pos <= write_pos /\ d = write_pos - read_pos /\ Avail = d
  BY <1>1, AvailIn
<1>3. Avail' = d + n
  BY <1>1, <1>2 DEF Avail, DataSize
<1>4. write_pos + n <= Size
  <2>1. room = Size - write_pos
    BY <1>1 DEF CursorInv, BufferOK, WritableSize
  <2> QED BY <1>1, <1>2, <2>1
<1>5. /\ wire' \in Seq(Any) /\ Len(wire') = Len(wire) - n /\ Len(wire) \in Nat
      /\ \A i \in 1 .. Len(wire) - n : wire'[i] = wire[n + i]
  <2>1. wire \in Seq(Any) /\ Len(wire) \in Nat
    BY LenProperties DEF Typed
  <2> DEFINE l == Len(wire)
  <2>2. n + 1 \in 1 .. l + 1 /\ l \in (n + 1) - 1 .. l
    BY <1>1, <2>1
  <2>3. /\ SubSeq(wire, n + 1, l) \in Seq(Any)
        /\ Len(SubSeq(wire, n + 1, l)) = l - (n + 1) + 1
        /\ \A i \in 1 .. l - (n + 1) + 1 : SubSeq(wire, n + 1, l)[i] = wire[n + 1 + i - 1]
    BY <2>1, <2>2, SubSeqProperties
  <2> HIDE DEF l
  <2>4. l - (n + 1) + 1 = l - n /\ \A i \in 1 .. l - n : n + 1 + i - 1 = n + i
    BY <1>1, <2>1 DEF l
  <2> QED BY <1>1, <2>1, <2>3, <2>4 DEF l
<1> HIDE DEF d
<1>6. Typed'
  <2>1. ASSUME NEW c \in Cell
        PROVE  (IF c >= write_pos /\ c < write_pos + n
                THEN wire[c - write_pos + 1] ELSE buf[c]) \in Any
    <3>1. c \in 0 .. Size - 1
      BY DEF Cell
    <3>2. CASE c >= write_pos /\ c < write_pos + n
      <4>1. c - write_pos + 1 \in 1 .. Len(wire)
        BY <1>1, <1>2, <1>5, <3>1, <3>2
      <4> QED BY <3>2, <4>1, ElementOfSeq DEF Typed
    <3>3. CASE ~(c >= write_pos /\ c < write_pos + n)
      BY <3>3 DEF Typed
    <3> QED BY <3>2, <3>3
  <2> QED BY <1>1, <1>5, <2>1 DEF Typed
<1>7. StreamShape /\ StreamShape'
  BY <1>6, StreamIs, StreamIsNext
<1>8. ASSUME NEW i \in 1 .. Avail + Len(wire)
      PROVE  (IF i <= Avail THEN buf[read_pos + i - 1] ELSE wire[i - Avail])
             = (IF i <= Avail' THEN buf'[read_pos' + i - 1] ELSE wire'[i - Avail'])
  <2>0. i \in Int /\ i >= 1 /\ i <= d + Len(wire) /\ n \in Nat /\ d \in Nat
    BY <1>1, <1>2, <1>5 
  <2>1. CASE i <= d
    <3>1. /\ read_pos + i - 1 \in Cell /\ read_pos + i - 1 < write_pos
          /\ i <= d + n
      <4>1. read_pos \in Nat /\ write_pos \in Nat /\ d = write_pos - read_pos /\ i \in Int
            /\ i >= 1 /\ i <= d /\ write_pos <= Size /\ Size \in Nat /\ n \in Nat
        BY <1>2, <2>0, <2>1
      <4>2. read_pos + i - 1 \in Int /\ read_pos + i - 1 >= 0 /\ read_pos + i - 1 < write_pos
        BY <4>1
      <4>3. i <= d + n
        BY <4>1
      <4> QED BY <4>1, <4>2, <4>3 DEF Cell
    <3>2. buf'[read_pos + i - 1] = buf[read_pos + i - 1]
      <4> DEFINE c == read_pos + i - 1
      <4>1. c \in Cell /\ ~(c >= write_pos)
        BY <1>2, <2>0, <3>1
      <4> HIDE DEF c
      <4>2. buf'[c] = buf[c]
        BY <1>1, <4>1
      <4> QED BY <4>2 DEF c
    <3> QED BY <1>1, <1>2, <1>3, <2>1, <3>1, <3>2
  <2>2. CASE ~(i <= d) /\ i <= d + n
    <3>1. /\ read_pos + i - 1 \in Cell /\ read_pos + i - 1 >= write_pos
          /\ read_pos + i - 1 < write_pos + n
          /\ (read_pos + i - 1) - write_pos + 1 = i - d
      BY <1>2, <1>4, <2>0, <2>2 DEF Cell
    <3>2. buf'[read_pos + i - 1] = wire[(read_pos + i - 1) - write_pos + 1]
      BY <1>1, <3>1
    <3> QED BY <1>1, <1>2, <1>3, <2>2, <3>1, <3>2
  <2>3. CASE ~(i <= d) /\ ~(i <= d + n)
    <3>1. i - (d + n) \in 1 .. Len(wire) - n /\ n + (i - (d + n)) = i - d
      BY <1>1, <1>2, <1>5, <2>0, <2>3
    <3>2. wire'[i - (d + n)] = wire[i - d]
      BY <1>5, <3>1
    <3> QED BY <1>2, <1>3, <2>3, <3>2
  <2> QED BY <2>1, <2>2, <2>3
<1>9. Avail + Len(wire) = Avail' + Len(wire')
  <2> DEFINE l == Len(wire)
  <2>1. l \in Int /\ n \in Int /\ d \in Int /\ Avail = d /\ Avail' = d + n
    BY <1>2, <1>3, <1>5
  <2>2. Len(wire') = l - n
    BY <1>5
  <2> HIDE DEF l
  <2>3. Avail + l = Avail' + Len(wire')
    BY <2>1, <2>2
  <2> QED BY <2>3 DEF l
<1> QED BY <1>6, <1>7, <1>8, <1>9, SameBytes

\* The steps that move no byte.
LEMMA StreamRest ==
  ASSUME CursorInv, Typed, OnWrite \/ Disconnect \/ CutFails \/ CutWaits \/ UNCHANGED vars
  PROVE  Typed' /\ Stream' = Stream
<1>1. UNCHANGED <<buf, read_pos, wire>>
  BY DEF OnWrite, Disconnect, CutFails, CutWaits, vars
<1>2. Avail' = Avail
  <2>0. write_pos \in Int /\ read_pos \in Int /\ bytes \in Int
    BY DEF CursorInv, TypeOK
  <2>1. CASE OnWrite
    <3>1. step = "took" /\ step' = "cut" /\ write_pos' = write_pos + bytes /\ read_pos' = read_pos
      BY <2>1 DEF OnWrite
    <3> QED BY <2>0, <3>1 DEF Avail, DataSize
  <2>2. CASE Disconnect \/ CutFails \/ CutWaits
    <3>1. step # "took" /\ step' # "took" /\ UNCHANGED <<write_pos, read_pos>>
      BY <2>2 DEF Disconnect, CutFails, CutWaits
    <3> QED BY <3>1 DEF Avail, DataSize
  <2>3. CASE UNCHANGED vars
    BY <2>3 DEF vars, Avail, DataSize
  <2> QED BY <2>1, <2>2, <2>3
<1> QED BY <1>1, <1>2 DEF Typed, Stream, Data

\* The client writes a packet more.
LEMMA StreamSends ==
  ASSUME CursorInv, Typed, NEW n \in Sizes, PeerSends(n)
  PROVE  Typed' /\ Stream' = Stream \o Encoded(n)
<1>1. wire' = wire \o Encoded(n) /\ UNCHANGED <<buf, read_pos, write_pos, step, bytes>>
  BY DEF PeerSends
<1>2. n \in Nat
  BY FramingAssumption
<1>3. Encoded(n) \in Seq(Any) /\ wire \in Seq(Any)
  BY <1>2, EncodedIs DEF Typed
<1>4. Typed'
  <2>1. wire \o Encoded(n) \in Seq(Any)
    BY <1>3, ConcatProperties
  <2> QED BY <1>1, <2>1 DEF Typed
<1>5. Data' = Data
  BY <1>1 DEF Data, Avail, DataSize
<1>6. Data \in Seq(Any)
  <2>1. Avail \in 0 .. Size /\ Size \in Nat /\ read_pos \in 0 .. Size /\ read_pos + Avail <= Size
    BY AvailIn
  <2>2. ASSUME NEW i \in 1 .. Avail PROVE buf[read_pos + i - 1] \in Any
    <3>1. read_pos + i - 1 \in 0 .. Size - 1
      BY <2>1
    <3> QED BY <3>1 DEF Typed, Cell
  <2>3. Data \in [1 .. Avail -> Any] /\ Avail \in Nat
    BY <2>1, <2>2 DEF Data
  <2> QED BY <2>3
<1>7. Stream' = Data \o (wire \o Encoded(n))
  BY <1>1, <1>5 DEF Stream
<1> QED BY <1>3, <1>4, <1>6, <1>7, ConcatAssociative DEF Stream

\* A packet that is cut out was the first of the stream, and all of it.
LEMMA StreamCut ==
  ASSUME CursorInv, Typed, CursorInv', CutPacket
  PROVE  LET n == SizeField IN
         /\ Typed' /\ Stream \in Seq(Any) /\ Stream' \in Seq(Any)
         /\ n \in Nat \ {0} /\ Extent(n) = n /\ Stream[1].size = n
         /\ Len(Stream) = n + Len(Stream')
         /\ \A i \in 1 .. Len(Stream') : Stream'[i] = Stream[n + i]
<1> DEFINE n == SizeField
           d == DataSize
<1>1. /\ step = "cut" /\ step' # "took" /\ n \in Good /\ d >= n /\ read_pos' = read_pos + n
      /\ UNCHANGED <<buf, write_pos, wire>>
  BY DEF CutPacket
<1>2. n \in Nat \ {0} /\ Extent(n) = n
  BY <1>1, FramingAssumption DEF Good, Extent
<1>3. /\ Size \in Nat /\ read_pos \in 0 .. Size /\ write_pos \in 0 .. Size
      /\ read_pos <= write_pos /\ d = write_pos - read_pos /\ Avail = d
  BY <1>1, AvailIn
<1>4. Avail' = d - n
  <2>1. Avail' = write_pos' - read_pos'
    BY <1>1 DEF Avail, DataSize
  <2> HIDE DEF n, d
  <2> QED BY <1>1, <1>2, <1>3, <2>1
<1>5. Typed' /\ wire \in Seq(Any) /\ Len(wire) \in Nat
  BY <1>1, LenProperties DEF Typed
<1>6. StreamShape /\ StreamShape'
  BY <1>5, StreamIs, StreamIsNext
<1>7. Stream[1].size = n
  <2>1. 1 <= d /\ 1 \in 1 .. d + Len(wire) /\ read_pos + 1 - 1 = read_pos
    <3> HIDE DEF n, d
    <3> QED BY <1>1, <1>2, <1>3, <1>5
  <2>2. Stream[1] = buf[read_pos + 1 - 1]
    BY <1>3, <1>6, <2>1 DEF StreamShape
  <2> QED BY <2>1, <2>2 DEF SizeField
<1> HIDE DEF n, d
<1>8. Stream \in Seq(Any) /\ Stream' \in Seq(Any) /\ Len(Stream) = d + Len(wire)
      /\ Len(Stream') = (d - n) + Len(wire)
  BY <1>1, <1>3, <1>4, <1>6 DEF StreamShape
<1>9. Len(Stream) = n + Len(Stream')
  BY <1>1, <1>2, <1>3, <1>5, <1>8
<1>10. ASSUME NEW i \in 1 .. Len(Stream') PROVE Stream'[i] = Stream[n + i]
  <2>0. i \in 1 .. (d - n) + Len(wire) /\ n + i \in 1 .. d + Len(wire) /\ i \in Int
    BY <1>1, <1>2, <1>3, <1>5, <1>8
  <2>1. Stream'[i] = IF i <= d - n THEN buf[read_pos + n + i - 1] ELSE wire[i - (d - n)]
    <3>1. Stream'[i] = IF i <= Avail' THEN buf'[read_pos' + i - 1] ELSE wire'[i - Avail']
      BY <1>1, <1>4, <1>6, <2>0 DEF StreamShape
    <3> QED BY <1>1, <1>4, <3>1
  <2>2. Stream[n + i] = IF n + i <= d THEN buf[read_pos + (n + i) - 1] ELSE wire[(n + i) - d]
    BY <1>3, <1>6, <2>0 DEF StreamShape
  <2>3. CASE i <= d - n
    <3>1. n + i <= d /\ read_pos + (n + i) - 1 = read_pos + n + i - 1
      BY <1>2, <1>3, <2>0, <2>3
    <3> QED BY <2>1, <2>2, <2>3, <3>1
  <2>4. CASE ~(i <= d - n)
    <3>1. ~(n + i <= d) /\ (n + i) - d = i - (d - n)
      BY <1>2, <1>3, <2>0, <2>4
    <3> QED BY <2>1, <2>2, <2>4, <3>1
  <2> QED BY <2>3, <2>4
<1> QED BY <1>2, <1>5, <1>7, <1>8, <1>9, <1>10 DEF n

-----------------------------------------------------------------------------
(* The receive path is a queue of packets.                                 *)

\* With the borders between the packets, the invariant of the framing.
StreamInv == CursorInv /\ Typed /\ Aligned

\* At first nothing is there.
LEMMA StreamInit == Init => StreamInv /\ Stream = <<>>
<1> SUFFICES ASSUME Init PROVE StreamInv /\ Stream = <<>>
  OBVIOUS
<1>1. CursorInv
  BY FramingInit
<1>2. NoByte \in Any /\ <<>> \in Seq(Any) /\ Len(<<>>) = 0
  BY EmptySeq DEF NoByte, Any
<1>3. Typed
  BY <1>2 DEF Init, Typed
<1>4. StreamShape /\ Len(wire) = 0
  BY <1>1, <1>2, <1>3, StreamIs DEF Init
<1>5. Avail = 0
  BY DEF Init, Avail, DataSize
<1>6. Stream = <<>>
  BY <1>4, <1>5, EmptySeq DEF StreamShape
<1>7. Aligned
  BY <1>2, <1>6 DEF Aligned, Whole
<1> QED BY <1>1, <1>3, <1>6, <1>7 DEF StreamInv

\* A step hands in a packet, takes the first one out, or leaves the stream alone.
LEMMA StreamStep ==
  ASSUME StreamInv, [Next]_vars
  PROVE  StreamInv' /\ [Packets!Next]_(Packets!vars)
<1>0. CursorInv /\ Typed /\ Aligned /\ CursorInv'
  BY FramingStep DEF StreamInv
<1>1. Stream \in Seq(Any) /\ Whole(Stream)
  BY <1>0, StreamIs DEF StreamShape, Aligned
<1>2. ASSUME NEW n \in Sizes, PeerSends(n) PROVE StreamInv' /\ Packets!Put
  <2>1. Typed' /\ Stream' = Stream \o Encoded(n) /\ n \in Nat
    BY <1>0, <1>2, StreamSends, FramingAssumption
  <2>2. Whole(Stream \o Encoded(n))
    BY <1>1, <2>1, WholeBehind
  <2>3. Aligned'
    BY <2>1, <2>2 DEF Aligned
  <2>4. PacketsIn(Stream \o Encoded(n)) = PacketsIn(Stream) \o <<n>>
    BY <1>1, <2>1, PacketBehind
  <2>5. Owed' = Owed \o <<n>>
    BY <2>1, <2>4 DEF Owed
  <2>6. handed' = <<n>> /\ arrived' = <<>> /\ <<n>> # <<>>
    BY <1>2 DEF PeerSends
  <2> QED BY <1>0, <2>1, <2>3, <2>5, <2>6 DEF StreamInv, Packets!Put
<1>3. CASE CutPacket
  <2> DEFINE n == SizeField
             t == Stream'
  <2>1. /\ Typed' /\ t \in Seq(Any) /\ n \in Nat \ {0} /\ n = Extent(Stream[1].size)
        /\ Stream[1].size = n /\ Len(Stream) = n + Len(t)
        /\ \A i \in 1 .. Len(t) : t[i] = Stream[n + i]
    BY <1>0, <1>3, StreamCut
  <2> HIDE DEF n, t
  <2>2. Whole(t)
    BY <1>1, <2>1, WholeRest
  <2>3. PacketsIn(Stream) = <<n>> \o PacketsIn(t)
    BY <1>1, <2>1, PacketRest
  <2>4. Aligned'
    BY <2>2 DEF Aligned, t
  <2>5. Owed = <<n>> \o Owed'
    BY <2>3 DEF Owed, t
  <2>6. arrived' = <<n>> /\ handed' = <<>> /\ <<n>> # <<>>
    BY <1>3 DEF CutPacket, n
  <2>7. Packets!Get
    BY <2>5, <2>6 DEF Packets!Get
  <2> QED BY <1>0, <2>1, <2>4, <2>7 DEF StreamInv, Packets!Next
<1>4. ASSUME Typed', Stream' = Stream PROVE StreamInv' /\ Owed' = Owed
  BY <1>0, <1>4 DEF StreamInv, Aligned, Owed
<1>5. CASE PostRecv
  <2>1. StreamInv' /\ Owed' = Owed
    BY <1>0, <1>4, <1>5, StreamPost
  <2> QED BY <1>5, <2>1 DEF PostRecv, Packets!Next, Packets!Rest
<1>6. CASE Kernel
  <2>1. PICK n \in 1 .. Size : Receive(n)
    BY <1>6 DEF Kernel
  <2>2. StreamInv' /\ Owed' = Owed
    BY <1>0, <1>4, <2>1, StreamReceive
  <2> QED BY <2>1, <2>2 DEF Receive, Packets!Next, Packets!Rest
<1>7. CASE OnWrite \/ Disconnect \/ CutFails \/ CutWaits
  <2>1. StreamInv' /\ Owed' = Owed
    BY <1>0, <1>4, <1>7, StreamRest
  <2> QED BY <1>7, <2>1 DEF OnWrite, Disconnect, CutFails, CutWaits, Packets!Next, Packets!Rest
<1>8. CASE UNCHANGED vars
  <2>1. StreamInv' /\ Owed' = Owed
    BY <1>0, <1>4, <1>8, StreamRest
  <2> QED BY <1>8, <2>1 DEF vars, Packets!vars
<1> QED BY <1>2, <1>3, <1>5, <1>6, <1>7, <1>8 DEF Next, Worker, Packets!Next

\* The next state too.
LEMMA StreamKept == StreamInv /\ [Next]_vars => StreamInv' /\ [Packets!Next]_(Packets!vars)
  BY StreamStep

\* For every packet and buffer size with Size >= 2 * MaxPacket, and however the stream is
\* cut into completions: the cursors of RecvBuffer never cross, a completion fits its
\* order, every WSARecv is given room for a whole packet, and what ProcessPackets takes
\* for a header at read_pos is one (RecvBuffer.h, PostRecv, ProcessPackets).
THEOREM FramingCorrect == Spec => []FramingInv
<1>1. Init => StreamInv
  BY StreamInit
<1>2. StreamInv => FramingInv
  BY DEF StreamInv, FramingInv
<1> QED BY <1>1, <1>2, StreamKept, PTL DEF Spec

\* The jobs are the packets of the peer, each once, whole and in order, for every size of
\* the buffer and of the packets and however the stream is cut into completions
\* (RecvBuffer.h, Network.h, ProcessPackets in main.cpp).
THEOREM FramingImplements == Spec => Implements
<1>1. Init => StreamInv /\ Packets!Init
  <2> SUFFICES ASSUME Init PROVE StreamInv /\ Packets!Init
    OBVIOUS
  <2>1. StreamInv /\ Owed = <<>>
    BY StreamInit, NoPackets DEF Owed
  <2> QED BY <2>1 DEF Init, Packets!Init
<1> QED BY <1>1, StreamKept, PTL DEF Spec, Implements, Packets!Spec

=============================================================================
