------------------------------- MODULE Framing -------------------------------
(***************************************************************************)
(* The read path of src/src/net/NetworkClient.cpp: process_datagram (with  *)
(* its fast path for a recv that holds exactly one datagram) and           *)
(* defragment_input, fed by a peer's byte stream that TCP cuts into recv    *)
(* chunks at arbitrary points.  NetworkClient instantiates this module:   *)
(* its read handler takes a Receive step.                                  *)
(*                                                                         *)
(* A frame is a 16-bit little-endian length followed by that many body     *)
(* bytes.  The body bytes of the i-th frame are all the number i, so a      *)
(* delivered datagram names the frame it came from.                        *)
(***************************************************************************)
EXTENDS Naturals, Sequences
LOCAL INSTANCE SequencesExt

CONSTANTS
  BodyLens,   \* body lengths the peer may declare (0 is a protocol error)
  MaxFrames,  \* bound on the frames in the peer's stream
  MaxChunk    \* bound on the bytes one async_read_some returns

ASSUME BodyLens \subseteq 0..65535 /\ MaxFrames \in Nat /\ MaxChunk \in Nat \ {0}

HeaderSize == 2   \* sizeof(dgsize_t)

\* Encoding and decoding of the dgsize_t length prefix (little-endian, as
\* written by flush_send_queue's swap_le and read by reinterpret_cast on a
\* little-endian host).
EncodeSize(n) == <<n % 256, n \div 256>>
DecodeSize(b) == b[1] + 256 * b[2]

\* The peer's frame for body length len, the frame's index being i.
Frame(i, len) == EncodeSize(len) \o [k \in 1..len |-> i]
Body(i, len)  == [k \in 1..len |-> i]

VARIABLES
  lens,       \* body lengths of the peer's frames, in order
  pos,        \* bytes of the stream received so far
  buf,        \* m_data_buf
  delivered,  \* datagrams handed to m_handler->receive_datagram, in order
  protoErr    \* disconnect(protocol_error) was called

Stream == FoldLeft(LAMBDA s, i : s \o Frame(i, lens[i]), <<>>, [i \in 1..Len(lens) |-> i])
Frames == [i \in 1..Len(lens) |-> Body(i, lens[i])]

----------------------------------------------------------------------------

\* defragment_input, as a recursive loop over m_data_buf: while more than
\* a header is buffered, reject a zero length, slice one datagram off when
\* its bytes are all there, else wait for more.  Returns the datagrams
\* delivered, what stays buffered, and whether it disconnected.
RECURSIVE Defragment(_, _)
DefragmentOffByOne(b, out) ==
  IF Len(b) <= HeaderSize THEN [out |-> out, buf |-> b, err |-> FALSE]
  ELSE LET size == DecodeSize(SubSeq(b, 1, 2)) IN
       IF size = 0 THEN [out |-> out, buf |-> b, err |-> TRUE]
       ELSE IF Len(b) >= size + HeaderSize
       THEN Defragment(SubSeq(b, size + 2, Len(b)),
                       Append(out, SubSeq(b, HeaderSize + 1, HeaderSize + size)))
       ELSE [out |-> out, buf |-> b, err |-> FALSE]

Defragment(b, out) ==
  IF Len(b) <= HeaderSize THEN [out |-> out, buf |-> b, err |-> FALSE]
  ELSE LET size == DecodeSize(SubSeq(b, 1, 2)) IN
       IF size = 0 THEN [out |-> out, buf |-> b, err |-> TRUE]
       ELSE IF Len(b) >= size + HeaderSize
       THEN Defragment(SubSeq(b, HeaderSize + size + 1, Len(b)),
                       Append(out, SubSeq(b, HeaderSize + 1, HeaderSize + size)))
       ELSE [out |-> out, buf |-> b, err |-> FALSE]

\* The fast path's test: nothing buffered and the recv is exactly one
\* datagram, header included.
FastPath(b, data) ==
  /\ b = <<>> /\ Len(data) >= HeaderSize
  /\ DecodeSize(SubSeq(data, 1, 2)) = Len(data) - HeaderSize

\* process_datagram on m_data_buf b and the bytes of one recv: the
\* datagrams handed to the handler, what stays buffered, and whether
\* defragment_input disconnected with protocol_error.
ProcessDatagram(b, data) ==
  IF FastPath(b, data)
  THEN [out |-> <<SubSeq(data, HeaderSize + 1, Len(data))>>, buf |-> b, err |-> FALSE]
  ELSE Defragment(b \o data, <<>>)

\* The next k bytes of the peer's stream.
Chunk(k) == SubSeq(Stream, pos + 1, pos + k)

\* One async_read_some returns the next k bytes and process_datagram runs.
Receive(k) ==
  /\ pos + k <= Len(Stream)
  /\ LET r == ProcessDatagram(buf, Chunk(k)) IN
     /\ delivered' = delivered \o r.out
     /\ buf' = r.buf
     /\ protoErr' = (protoErr \/ r.err)
  /\ pos' = pos + k
  /\ UNCHANGED lens

\* The peer's stream is any sequence of at most MaxFrames frames; nothing
\* is received or buffered yet.
Init ==
  /\ lens \in BoundedSeq(BodyLens, MaxFrames)
  /\ pos = 0 /\ buf = <<>> /\ delivered = <<>> /\ protoErr = FALSE

----------------------------------------------------------------------------
(* Properties *)

\* Whatever way TCP splits the stream, the datagrams handed to the handler
\* are the peer's frames, in order, none lost, none merged or split: a
\* prefix at every point, and all of them once every byte has arrived.
FramesInOrder ==
  /\ IsPrefix(delivered, Frames)
  /\ (pos = Len(Stream) /\ ~protoErr) => delivered = Frames

\* spec.md S5: a frame declaring length 0 disconnects with protocol_error
\* and is not delivered; nothing after it is delivered either.
ZeroLengthRejected ==
  LET zero == {i \in 1..Len(lens) : lens[i] = 0}
  IN zero # {} =>
       /\ \A j \in zero : Len(delivered) < j
       /\ pos = Len(Stream) => protoErr

=============================================================================
