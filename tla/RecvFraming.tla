---------------------------- MODULE RecvFraming ----------------------------
(***************************************************************************)
(* The receive path of one session: bytes of the TCP stream arrive in      *)
(* pieces of any size, PostRecv orders them into RecvBuffer, ProcessPackets*)
(* cuts whole packets out of it and makes a job of each.                   *)
(*                                                                         *)
(* A byte is [size, off]: the off-th byte of a packet whose header says    *)
(* size.  The code sees no off; it reads the size where it believes a      *)
(* header to be.                                                           *)
(***************************************************************************)
EXTENDS Integers, Sequences, FiniteSets

CONSTANTS
  Header,     \* HEADER_SIZE
  MaxPacket,  \* MAX_PACKET_SIZE
  Size,       \* RECV_BUFFER_SIZE
  Sizes,      \* the sizes a peer writes into its headers
  MaxWire     \* bound: bytes on the wire

ASSUME FramingAssumption ==
  /\ Header \in Nat \ {0}
  /\ MaxPacket \in Nat /\ MaxPacket >= Header
  /\ Size \in Nat /\ Size >= 2 * MaxPacket
  /\ Sizes \subseteq Nat
  /\ MaxWire \in Nat

VARIABLES
  buf, read_pos, write_pos,  \* struct RecvBuffer
  wire,                      \* bytes sent and not received
  step,      \* "clean", "posted", "took", "cut", "closed"
  room,      \* wsabuf.len of the order
  bytes,     \* bytes of the completion
  handed,    \* header sizes of the packet the peer sent in this step
  arrived    \* sizes of the packet that became a job in this step

vars == <<buf, read_pos, write_pos, wire, step, room, bytes, handed, arrived>>

Cell == 0 .. Size - 1
Good == Header .. MaxPacket
Byte == [size : Sizes, off : Nat]
NoByte == [size |-> 0, off |-> 0]

Init ==
  /\ buf = [c \in Cell |-> NoByte]
  /\ read_pos = 0 /\ write_pos = 0
  /\ wire = <<>>
  /\ step = "clean" /\ room = 0 /\ bytes = 0
  /\ handed = <<>> /\ arrived = <<>>

WritableSize == Size - write_pos
DataSize == write_pos - read_pos

\* What the peer sends for a packet: of an absurd size only the header counts.
Extent(n) == IF n \in Good THEN n ELSE Header
Encoded(n) == [i \in 1 .. Extent(n) |-> [size |-> n, off |-> i - 1]]

-----------------------------------------------------------------------------
PeerSends(n) ==
  /\ Len(wire) + Len(Encoded(n)) <= MaxWire
  /\ wire' = wire \o Encoded(n)
  /\ handed' = <<n>> /\ arrived' = <<>>
  /\ UNCHANGED <<buf, read_pos, write_pos, step, room, bytes>>

\* Mutant of Clean: left-over bytes are never moved to the front.
CleanStuck ==
  /\ read_pos' = (IF DataSize = 0 THEN 0 ELSE read_pos)
  /\ write_pos' = (IF DataSize = 0 THEN 0 ELSE write_pos)
  /\ UNCHANGED buf

\* Make room behind write_pos: start over, or move the rest to the front.
Clean ==
  \/ /\ DataSize = 0
     /\ read_pos' = 0 /\ write_pos' = 0 /\ UNCHANGED buf
  \/ /\ DataSize > 0 /\ WritableSize < MaxPacket
     /\ buf' = [c \in Cell |-> IF c < DataSize THEN buf[read_pos + c] ELSE buf[c]]
     /\ read_pos' = 0 /\ write_pos' = DataSize
  \/ /\ DataSize > 0 /\ WritableSize >= MaxPacket
     /\ UNCHANGED <<buf, read_pos, write_pos>>

\* PostRecv: Clean, then WSARecv into the free cells behind write_pos - which
\* may fail on the spot.
PostRecv ==
  /\ step = "clean"
  /\ Clean
  /\ room' = Size - write_pos'
  /\ step' \in {"posted", "closed"}
  /\ handed' = <<>> /\ arrived' = <<>>
  /\ UNCHANGED <<wire, bytes>>

\* The kernel fills part of the order with the first bytes of the wire.
Receive(n) ==
  /\ step = "posted"
  /\ n <= room /\ n <= Len(wire)
  /\ buf' = [c \in Cell |-> IF c >= write_pos /\ c < write_pos + n
                            THEN wire[c - write_pos + 1] ELSE buf[c]]
  /\ wire' = SubSeq(wire, n + 1, Len(wire))
  /\ bytes' = n
  /\ step' = "took"
  /\ handed' = <<>> /\ arrived' = <<>>
  /\ UNCHANGED <<read_pos, write_pos, room>>

\* A completion of no bytes: the peer has gone, somebody else has closed the
\* session - or the order had no room.  It is a disconnect, whatever it was.
Disconnect ==
  /\ step = "posted"
  /\ step' = "closed"
  /\ handed' = <<>> /\ arrived' = <<>>
  /\ UNCHANGED <<buf, read_pos, write_pos, wire, room, bytes>>

OnWrite ==
  /\ step = "took"
  /\ write_pos' = write_pos + bytes
  /\ step' = "cut"
  /\ handed' = <<>> /\ arrived' = <<>>
  /\ UNCHANGED <<buf, read_pos, wire, room, bytes>>

\* h->size, read at read_pos.
SizeField == buf[read_pos].size

\* Mutant of CutPacket: only the body is taken out of the buffer.
CutPacketBody ==
  /\ step = "cut"
  /\ DataSize >= Header /\ SizeField \in Good /\ DataSize >= SizeField
  /\ arrived' = <<SizeField>> /\ handed' = <<>>
  /\ read_pos' = read_pos + SizeField - Header
  /\ \/ UNCHANGED step
     \/ step' = "closed"
  /\ UNCHANGED <<buf, write_pos, wire, room, bytes>>

\* One round of ProcessPackets: a whole packet becomes a job - unless the job
\* buffer is full, or the session is closed meanwhile.
CutPacket ==
  /\ step = "cut"
  /\ DataSize >= Header /\ SizeField \in Good /\ DataSize >= SizeField
  /\ arrived' = <<SizeField>> /\ handed' = <<>>
  /\ read_pos' = read_pos + SizeField
  /\ \/ UNCHANGED step
     \/ step' = "closed"
  /\ UNCHANGED <<buf, write_pos, wire, room, bytes>>

\* A size that makes no sense, or a full job buffer: CloseSession.
CutFails ==
  /\ step = "cut"
  /\ DataSize >= Header
  /\ SizeField \notin Good \/ DataSize >= SizeField
  /\ step' = "closed"
  /\ handed' = <<>> /\ arrived' = <<>>
  /\ UNCHANGED <<buf, read_pos, write_pos, wire, room, bytes>>

\* Mutant of CutWaits: only a missing body sends the worker back.
CutWaitsBody ==
  /\ step = "cut"
  /\ DataSize >= Header /\ SizeField \in Good /\ DataSize < SizeField
  /\ step' = "clean"
  /\ handed' = <<>> /\ arrived' = <<>>
  /\ UNCHANGED <<buf, read_pos, write_pos, wire, room, bytes>>

\* The header or the body is not all there yet: back to PostRecv.
CutWaits ==
  /\ step = "cut"
  /\ \/ DataSize < Header
     \/ DataSize >= Header /\ SizeField \in Good /\ DataSize < SizeField
  /\ step' = "clean"
  /\ handed' = <<>> /\ arrived' = <<>>
  /\ UNCHANGED <<buf, read_pos, write_pos, wire, room, bytes>>

Worker == PostRecv \/ OnWrite \/ CutPacket \/ CutFails \/ CutWaits
Kernel == \E n \in 1 .. Size : Receive(n)

Next ==
  \/ \E n \in Sizes : PeerSends(n)
  \/ Kernel \/ Disconnect \/ Worker

Spec == Init /\ [][Next]_vars

\* The worker keeps running and the network delivers what was sent.
FairSpec == Spec /\ WF_vars(Worker) /\ WF_vars(Kernel)

-----------------------------------------------------------------------------
TypeOK ==
  /\ read_pos \in 0 .. Size /\ write_pos \in 0 .. Size
  /\ room \in 0 .. Size /\ bytes \in 0 .. Size
  /\ step \in {"clean", "posted", "took", "cut", "closed"}

\* The cursors never cross or leave the buffer, the completion fits in the
\* order, and what ProcessPackets leaves behind is less than one packet.
BufferOK ==
  /\ read_pos <= write_pos
  /\ step \in {"posted", "took"} => room = WritableSize /\ DataSize < MaxPacket
  /\ step = "took" => bytes \in 1 .. room
  /\ step = "clean" => DataSize < MaxPacket

\* Every order has room for a whole packet, so the one that has begun can
\* always be completed and WSARecv is never called with no room at all (its 0
\* bytes would be taken for a disconnect).
OrderHasRoom == step = "posted" => room >= MaxPacket

CursorInv == TypeOK /\ BufferOK /\ OrderHasRoom

\* What has not been cut yet: the bytes in the buffer, then those on the wire.
Avail == IF step = "took" THEN DataSize + bytes ELSE DataSize
Data == [i \in 1 .. Avail |-> buf[read_pos + i - 1]]
Stream == Data \o wire

\* The i-th byte of a stream lies in its packet, which is there as it was sent.
WholeAt(s, i) ==
  LET n == s[i].size  o == s[i].off IN
    /\ o < Extent(n) /\ o < i /\ i - o + Extent(n) - 1 <= Len(s)
    /\ \A k \in 0 .. Extent(n) - 1 : s[i - o + k] = [size |-> n, off |-> k]
Whole(s) == \A i \in 1 .. Len(s) : WholeAt(s, i)

\* Completions of any size and the moves of Clean never lose the borders between
\* the packets: what is left to cut is a row of whole packets, and what
\* ProcessPackets takes for a header at read_pos is one.
Aligned == Whole(Stream)

\* Neither room nor place is ever lost, whatever the completions cover.
FramingInv == CursorInv /\ Aligned

\* The packets that begin in a stream, by the sizes in their headers.
Heads(s) == {i \in 1 .. Len(s) : s[i].off = 0}
Rank(s, i) == Cardinality({h \in Heads(s) : h <= i})
SizesAt(s, k) == {s[i].size : i \in {h \in Heads(s) : Rank(s, h) = k}}
PacketsIn(s) == [k \in 1 .. Cardinality(Heads(s)) |-> CHOOSE n \in SizesAt(s, k) : TRUE]

\* The packets that are still to be cut.
Owed == PacketsIn(Stream)

Packets == INSTANCE Fifo WITH queue <- Owed

\* The jobs are the packets of the peer, each once, whole and in order, however
\* the stream was cut into completions.
Implements == Packets!Spec

\* No packet is left lying in the buffer: what the peer has sent becomes a job.
PacketsGetThrough == Heads(Stream) # {} ~> arrived # <<>> \/ step = "closed"

=============================================================================
