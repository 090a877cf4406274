----------------------------- MODULE FlvBuffer -----------------------------
(* crates/ez-ffmpeg/src/flv: the ring buffer between FFmpeg's FLV muxer,   *)
(* which writes its bytes in pieces of any size, and the RTMP server,      *)
(* which is sent whole tags: the write callback of create_rtmp_input       *)
(* stores a piece and takes at most one tag out. A tag is its header (type,*)
(* size, ...), its data and the size that trails it; the lengths of the    *)
(* parts are constants, 9, 11 and 4 bytes in the code.                     *)
EXTENDS Naturals, SequencesExt

CONSTANTS
  FlvHeaderLen, TagHeaderLen, PreviousTagSizeLen,
  CapacityBits,      \* the buffer can grow to 2^63 bytes
  InitialCapacity,   \* 2^20
  TagSizes,          \* lengths of a tag's data
  NumTags,
  MaxPiece           \* longest piece written at once

(* The powers of two: 1, 2, 4, ...                                         *)
Power[k \in 0 .. CapacityBits] == IF k = 0 THEN 1 ELSE 2 * Power[k - 1]
Powers == {Power[k] : k \in 0 .. CapacityBits}

ASSUME FlvLengths ==
  /\ FlvHeaderLen \in Nat \ {0} /\ TagHeaderLen \in Nat \ {0, 1} /\ PreviousTagSizeLen \in Nat \ {0}
  /\ FlvHeaderLen < TagHeaderLen /\ PreviousTagSizeLen <= TagHeaderLen
  /\ TagHeaderLen < FlvHeaderLen + PreviousTagSizeLen
  /\ CapacityBits \in Nat /\ InitialCapacity \in Powers
  /\ TagSizes \subseteq Nat /\ NumTags \in Nat /\ MaxPiece \in Nat

VARIABLE flv
\* stream: all bytes; written: how many the ring was given; ring, head, tail: the buffer; tags: what came out;
\* before: how many had come out before the last call

Signature == 70
FlvBytes == [i \in 1 .. FlvHeaderLen |-> IF i = 1 THEN Signature ELSE 0] \o [i \in 1 .. PreviousTagSizeLen |-> 0]
TagData(n, size) == [i \in 1 .. size |-> 10 * n + i]
TagBytes(n, size) ==
  <<n, size>> \o [i \in 1 .. TagHeaderLen - 2 |-> 0] \o TagData(n, size) \o [i \in 1 .. PreviousTagSizeLen |-> TagHeaderLen + size]

(* The muxer's output, and one that starts without the file header         *)
NewFlv(headed, sizes) ==
  [stream |-> (IF headed THEN FlvBytes ELSE [i \in 1 .. PreviousTagSizeLen |-> 0])
               \o FlattenSeq([n \in 1 .. NumTags |-> TagBytes(n, sizes[n])]),
   sizes |-> sizes, headed |-> headed, written |-> 0, taken |-> 0,
   ring |-> [i \in 0 .. InitialCapacity - 1 |-> 0], head |-> 0, tail |-> 0, parsed |-> FALSE, tags |-> <<>>, before |-> 0]
NewFlvs == {NewFlv(headed, sizes) : headed \in BOOLEAN, sizes \in [1 .. NumTags -> TagSizes]}
FlvInit == flv \in NewFlvs

(* No stream is longer than the memory of the machine.                     *)
ASSUME FlvFits == \A b \in NewFlvs : Len(b.stream) < Power[CapacityBits]

Cap(b) == Cardinality(DOMAIN b.ring)
Held(b) == (b.tail + Cap(b) - b.head) % Cap(b)                \* len
available_space(b) == (b.head + Cap(b) - b.tail - 1) % Cap(b)
read_data(b, start, n) == [i \in 1 .. n |-> b.ring[(start + i - 1) % Cap(b)]]

PowerOfTwo(n) == CHOOSE c \in Powers : c >= n /\ c < 2 * n
Largest(a, b) == IF a > b THEN a ELSE b

\* A mutant: what is behind the end of the old buffer is not moved.
ResizeUnwrapped(b, need) ==
  LET c == Largest(PowerOfTwo(need), InitialCapacity)
  IN  [b EXCEPT !.ring = [i \in 0 .. c - 1 |-> IF b.head + i < Cap(b) THEN b.ring[b.head + i] ELSE 0],
                !.head = 0, !.tail = Held(b)]

(* resize_buffer: the data moves to the start of a larger buffer           *)
resize_buffer(b, need) ==
  LET c == Largest(PowerOfTwo(need), InitialCapacity)
  IN  [b EXCEPT !.ring = [i \in 0 .. c - 1 |-> IF i < Held(b) THEN read_data(b, b.head, Held(b))[i + 1] ELSE 0],
                !.head = 0, !.tail = Held(b)]

(* write_data, in up to two parts around the end of the buffer             *)
write_data(b, piece) ==
  LET n == Len(piece)
      r == IF n > available_space(b) THEN resize_buffer(b, Held(b) + n + 1) ELSE b
      at == [i \in 1 .. n |-> (r.tail + i - 1) % Cap(r)]
  IN  [r EXCEPT !.ring = [p \in DOMAIN r.ring |-> IF \E i \in 1 .. n : at[i] = p
                                                  THEN piece[CHOOSE i \in 1 .. n : at[i] = p] ELSE r.ring[p]],
                !.tail = (@ + n) % Cap(r)]

Skip(b, n) == [b EXCEPT !.head = (@ + n) % Cap(b), !.taken = @ + n]

(* parse_flv_header: a stream without the header is taken to start with    *)
(* the size of a previous tag                                              *)
parse_flv_header(b) ==
  IF b.parsed \/ Held(b) < FlvHeaderLen THEN b
  ELSE Skip([b EXCEPT !.parsed = TRUE],
            PreviousTagSizeLen + (IF b.ring[b.head] = Signature THEN FlvHeaderLen ELSE 0))

(* get_flv_tag: nothing, or the tag at the head                            *)
get_flv_tag(b) ==
  LET p == parse_flv_header(b)
      size == read_data(p, p.head, TagHeaderLen)[2]
      total == TagHeaderLen + size + PreviousTagSizeLen
  IN  IF Held(b) < TagHeaderLen THEN b ELSE IF Held(p) < total THEN p
      ELSE Skip([p EXCEPT !.tags = Append(@, [type |-> p.ring[p.head], data |-> read_data(p, p.head + TagHeaderLen, size)])],
                total)

(* The write callback. The muxer writes the file header and the size that  *)
(* follows it as one piece at least: a first piece of more bytes than a tag*)
(* header and fewer than those would move head past tail.                  *)
WritePiece(n) ==
  LET piece == SubSeq(flv.stream, flv.written + 1, flv.written + n)
  IN  /\ flv.written + n <= Len(flv.stream)
      /\ flv.written = 0 /\ flv.headed => n >= FlvHeaderLen + PreviousTagSizeLen
      /\ flv' = get_flv_tag([write_data(flv, piece) EXCEPT !.written = @ + n, !.before = Len(flv.tags)])

FlvNext == \E n \in 1 .. MaxPiece : WritePiece(n)
FlvSpec == FlvInit /\ [][FlvNext]_flv

-----------------------------------------------------------------------------
(* Between head and tail are exactly the bytes that were written and not   *)
(* taken, however the pieces wrapped around the end of the buffer and      *)
(* however often it grew; and the tags that came out are the first ones of *)
(* the stream, whole and in order.  The capacity stays a power of two: the *)
(* code masks positions with capacity - 1 where this says modulo capacity. *)
RingHolds ==
  /\ Cap(flv) \in Powers
  /\ read_data(flv, flv.head, Held(flv)) = SubSeq(flv.stream, flv.taken + 1, flv.written)
  /\ flv.tags = [n \in DOMAIN flv.tags |-> [type |-> n, data |-> TagData(n, flv.sizes[n])]]

(* A tag stays in the buffer only behind another one: a callback that      *)
(* leaves a whole tag in the buffer took one out. (It takes one at most,   *)
(* so the tags of a piece with several come out with later pieces, and the *)
(* last ones never.)                                                       *)
TagComesOut ==
  LET k == Len(flv.tags) + 1
      whole == flv.parsed /\ k <= NumTags /\ Held(flv) >= TagHeaderLen + flv.sizes[k] + PreviousTagSizeLen
  IN  whole => Len(flv.tags) = flv.before + 1

(* The ring gives back what was written to it: bytes and tags whole and in *)
(* order, and a tag at every call that finds one.                          *)
TagsInOrder == RingHolds /\ TagComesOut
=============================================================================
