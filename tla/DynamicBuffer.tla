---------------------------- MODULE DynamicBuffer ----------------------------
(***************************************************************************)
(* yut::base::DynamicBuffer: a growing byte buffer over one vector<char>,  *)
(* with a read index and a write index, from which integers and raw bytes  *)
(* are read.  The overloads of one accessor for wider result types differ  *)
(* only by a widening assignment and are one operator each; the widths the *)
(* code spells out (8, 16, 32, 64 bits) are the members of Widths.         *)
(*                                                                         *)
(* A buffer is a record: `cells' the vector, `expand_size', `read_index'   *)
(* and `write_index' the fields of the class.  An operation is an operator *)
(* from a buffer to a buffer, so that operations compose as the calls do.  *)
(***************************************************************************)
EXTENDS Integers, Sequences

CONSTANTS Buffers,      \* the buffer objects
          ByteBase,     \* how many values a byte has (256 in the code)
          Widths,       \* the integer widths, in bytes ({1, 2, 4, 8})
          ReadOrders,   \* the values of littleEndian callers of readInt* pass
          InitSize,     \* the constructor's init_size
          ExpandSize,   \* [Buffers -> Nat \ {0}]: the constructor's expand_size
          SizeBits,     \* the width of size_t in bits
          MaxCapacity,  \* bound: no explored operation needs a larger vector
          MaxRequest    \* bound: the longest size a caller passes

ASSUME BufferAssumption ==
    /\ ByteBase \in Nat \ {0, 1}
    /\ Widths \subseteq Nat \ {0}
    /\ ReadOrders \subseteq BOOLEAN
    /\ InitSize \in Nat
    /\ ExpandSize \in [Buffers -> Nat \ {0}]
    /\ SizeBits \in Nat
    /\ MaxRequest \in Nat /\ MaxCapacity \in Nat

\* No buffer comes near the range of size_t, and an integer is not longer than
\* the longest request.
ASSUME SizeAssumption ==
    /\ 2 ^ SizeBits \in Nat
    /\ \A b \in Buffers : MaxCapacity + MaxRequest + 2 * ExpandSize[b] < 2 ^ SizeBits
    /\ InitSize <= MaxCapacity
    /\ \A width \in Widths : width <= MaxRequest

\* A fact of arithmetic that the proofs take from here, for want of induction.
ASSUME PowerAssumption ==
    \A width \in Widths : \A i \in 0..width : ByteBase ^ i \in Nat \ {0}

VARIABLES buffer,       \* [Buffers -> buffer records]
          answer        \* what the last call gave its caller

vars == <<buffer, answer>>

Bytes == 0..(ByteBase - 1)
Strings == UNION {[1..n -> Bytes] : n \in 1..MaxRequest}
Values(width) == 0..(ByteBase ^ width - 1)

\* An answer: nothing, raw bytes, or an integer of some width that was peeked at
\* or read, and asked for in some byte order.
Nothing == [kind |-> "nothing"]
RawBytes(s) == [kind |-> "bytes", bytes |-> s]
Number(kind, v, width, little) ==
    [kind |-> kind, value |-> v, width |-> width, little |-> little]

Smaller(m, n) == IF m < n THEN m ELSE n
SizeT(n) == n % (2 ^ SizeBits)          \* the arithmetic of size_t

-----------------------------------------------------------------------------
(* The observers.                                                          *)

DiscardableBytes(b) == b.read_index
ReadableBytes(b) == b.write_index - b.read_index
WritableBytes(b) == Len(b.cells) - b.write_index

\* The bytes between the indices: all that a caller can read.
Readable(b) == SubSeq(b.cells, b.read_index + 1, b.write_index)

(* The integer encodings.  The code spells each width out; byte i of a     *)
(* big-endian number of `width' bytes weighs ByteBase ^ (width - i).       *)

Weight(i, width, little) == ByteBase ^ (IF little THEN i - 1 ELSE width - i)

Encoded(v, width, little) ==
    [i \in 1..width |-> (v \div Weight(i, width, little)) % ByteBase]

Decoded(s, little) ==
    LET sum[i \in 0..Len(s)] ==
            IF i = 0 THEN 0 ELSE sum[i - 1] + s[i] * Weight(i, Len(s), little)
    IN  sum[Len(s)]

-----------------------------------------------------------------------------
(* The operations.                                                         *)

Cleared(b) == [b EXCEPT !.read_index = 0, !.write_index = 0]

\* read(): skip up to `size' bytes, and start over when nothing is left.
Advanced(b, size) ==
    LET r == [b EXCEPT !.read_index = @ + Smaller(size, ReadableBytes(b))]
    IN  IF r.read_index = r.write_index THEN Cleared(r) ELSE r

\* write(): what the caller stored at writeBegin() becomes readable.
Committed(b, size) == [b EXCEPT !.write_index = @ + Smaller(size, WritableBytes(b))]

\* Buggy variant, used by no definition: the growth is rounded down to whole
\* expansion steps.
MutGrownSizeShort(b, size) ==
    LET free_bytes == DiscardableBytes(b) + WritableBytes(b)
    IN  SizeT(Len(b.cells)
              + b.expand_size * (SizeT(size - free_bytes) \div b.expand_size))

\* The vector's new size in reserveWritableBytes, every step in size_t.
GrownSize(b, size) ==
    LET free_bytes == DiscardableBytes(b) + WritableBytes(b)
        growth == IF free_bytes >= size /\ free_bytes - size < b.expand_size
                  THEN b.expand_size
                  ELSE b.expand_size * (SizeT(size - free_bytes) \div b.expand_size + 1)
    IN  SizeT(Len(b.cells) + growth)

\* Buggy variants: the readable bytes are copied from the start of the vector;
\* discarded room is never reused.
MutReservedFromStart(b, size) ==
    IF WritableBytes(b) >= size THEN b
    ELSE [b EXCEPT !.cells = [i \in 1..GrownSize(b, size) |->
                                IF i <= ReadableBytes(b) THEN b.cells[i] ELSE 0],
                   !.read_index = 0, !.write_index = ReadableBytes(b)]

MutReservedAppends(b, size) ==
    IF WritableBytes(b) >= size THEN b
    ELSE [b EXCEPT !.cells = [i \in 1..(Len(b.cells) + size) |->
                                IF i <= Len(b.cells) THEN b.cells[i] ELSE 0]]

\* reserveWritableBytes(): a new vector with the readable bytes at its front.
Reserved(b, size) ==
    IF WritableBytes(b) >= size THEN b
    ELSE [b EXCEPT !.cells = [i \in 1..GrownSize(b, size) |->
                                IF i <= ReadableBytes(b)
                                THEN b.cells[b.read_index + i] ELSE 0],
                   !.read_index = 0, !.write_index = ReadableBytes(b)]

\* The caller, or a write function, fills the bytes from writeBegin() on.
Stored(b, s) ==
    [b EXCEPT !.cells = [i \in DOMAIN @ |->
        IF i \in (b.write_index + 1)..(b.write_index + Len(s))
        THEN s[i - b.write_index] ELSE @[i]]]

WriteInt(b, v, width, little) ==
    Committed(Stored(Reserved(b, width), Encoded(v, width, little)), width)

\* writeBytes() moves the index by all of `count', without write()'s limit.
WriteBytes(b, s) ==
    LET r == Stored(Reserved(b, Len(s)), s)
    IN  [r EXCEPT !.write_index = @ + Len(s)]

\* Buggy variant: one byte too few is asked for.
MutCanPeek(b, width, offset) == ReadableBytes(b) >= offset + width - 1

CanPeek(b, width, offset) == ReadableBytes(b) >= offset + width

PeekInt(b, width, offset, little) ==
    Decoded(SubSeq(b.cells, b.read_index + offset + 1,
                   b.read_index + offset + width), little)

\* readInt16/32/64 pass littleEndian where peekInt16/32/64 take the offset, and
\* leave the peek's own littleEndian at its default, false.  readInt8 has no
\* such parameter.
ReadOffset(little) == IF little THEN 1 ELSE 0
CanReadInt(b, width, little) == CanPeek(b, width, ReadOffset(little))
ReadInt(b, width, little) == PeekInt(b, width, ReadOffset(little), FALSE)

-----------------------------------------------------------------------------
(* The calls.                                                              *)

Init == /\ buffer = [b \in Buffers |->
                       [cells |-> [i \in 1..InitSize |-> 0],
                        expand_size |-> ExpandSize[b],
                        read_index |-> 0, write_index |-> 0]]
        /\ answer = Nothing

Becomes(b, r) == buffer' = [buffer EXCEPT ![b] = r]

Reserve(b) == \E size \in 0..MaxRequest :
    /\ Becomes(b, Reserved(buffer[b], size))
    /\ answer' = Nothing

\* A caller fills writeBegin() itself, as far as there is room, and calls
\* write() with the length it wanted.
FillAndWrite(b) == \E s \in Strings :
    /\ Becomes(b, Committed(Stored(buffer[b], s), Len(s)))
    /\ answer' = Nothing

\* One byte has no order.
Orders(width, littles) == IF width = 1 THEN {FALSE} ELSE littles

PutInt(b) == \E width \in Widths : \E v \in Values(width) :
    \E little \in Orders(width, BOOLEAN) :
        /\ Becomes(b, WriteInt(buffer[b], v, width, little))
        /\ answer' = Nothing

PutBytes(b) == \E s \in Strings :
    /\ Becomes(b, WriteBytes(buffer[b], s))
    /\ answer' = Nothing

Peek(b) == \E width \in Widths, offset \in 0..MaxRequest :
    \E little \in Orders(width, BOOLEAN) :
        /\ answer' = IF CanPeek(buffer[b], width, offset)
                     THEN Number("peek", PeekInt(buffer[b], width, offset, little),
                                 width, little)
                     ELSE Nothing
        /\ UNCHANGED buffer

GetInt(b) == \E width \in Widths : \E little \in Orders(width, ReadOrders) :
    IF CanReadInt(buffer[b], width, little)
    THEN /\ answer' = Number("read", ReadInt(buffer[b], width, little), width, little)
         /\ Becomes(b, Advanced(buffer[b], width))
    ELSE /\ answer' = Nothing
         /\ UNCHANGED buffer

GetBytes(b) == \E count \in 0..MaxRequest :
    /\ answer' = RawBytes(SubSeq(Readable(buffer[b]), 1,
                                 Smaller(count, ReadableBytes(buffer[b]))))
    /\ Becomes(b, Advanced(buffer[b], count))

Skip(b) == \E size \in 0..MaxRequest :
    /\ Becomes(b, Advanced(buffer[b], size))
    /\ answer' = Nothing

Clear(b) == Becomes(b, Cleared(buffer[b])) /\ answer' = Nothing

Swap(b, c) == /\ buffer' = [buffer EXCEPT ![b] = buffer[c], ![c] = buffer[b]]
              /\ answer' = Nothing

Next == /\ \/ \E b \in Buffers : \/ Reserve(b) \/ FillAndWrite(b)
                                 \/ PutInt(b) \/ PutBytes(b)
                                 \/ Peek(b) \/ GetInt(b) \/ GetBytes(b)
                                 \/ Skip(b) \/ Clear(b)
           \/ \E b, c \in Buffers : Swap(b, c)
        /\ \A b \in Buffers : Len(buffer'[b].cells) <= MaxCapacity

Spec == Init /\ [][Next]_vars

-----------------------------------------------------------------------------
(* The properties.                                                         *)

\* Every vector holds bytes and the indices never pass each other or the end:
\* what readBegin(), writeBegin() and each memcpy of the code rely on.
TypeOK ==
    \A b \in Buffers :
      /\ Len(buffer[b].cells) \in Nat
      /\ \A i \in DOMAIN buffer[b].cells : buffer[b].cells[i] \in Bytes
      /\ buffer[b].expand_size \in Nat \ {0}
      /\ buffer[b].read_index \in 0..buffer[b].write_index
      /\ buffer[b].write_index \in 0..Len(buffer[b].cells)

\* After reserveWritableBytes(size) at least `size' bytes can be written, and
\* the readable bytes are what they were - also where the code subtracts the
\* larger from the smaller and lets size_t wrap (dynamic_buffer.cc:86), which
\* makes the vector shrink.
ReserveDelivers ==
    \A b \in Buffers : \A size \in 0..MaxRequest :
      LET r == Reserved(buffer[b], size) IN
      /\ WritableBytes(r) >= size
      /\ Readable(r) = Readable(buffer[b])

\* Growing is bounded by need: reserveWritableBytes either keeps the vector or
\* leaves one smaller than the bytes needed plus two expansion steps, so a
\* buffer that is drained as fast as it is filled does not grow for ever.
ReserveBounded ==
    \A b \in Buffers : \A size \in 0..MaxRequest :
      LET r == Reserved(buffer[b], size)
          need == ReadableBytes(buffer[b]) + size
      IN  r = buffer[b] \/ Len(r.cells) < need + 2 * buffer[b].expand_size

\* The bytes of the last answer, an integer's in the order the caller asked for.
AnswerBytes == CASE answer.kind = "nothing" -> <<>>
                 [] answer.kind = "bytes" -> answer.bytes
                 [] OTHER -> Encoded(answer.value, answer.width, answer.little)

\* readInt16, readInt32 or readInt64 answered a caller that passed true.
LittleRead == answer.kind = "read" /\ answer.little

\* The buffers implement byte queues: across growth, compaction, wrap-around of
\* the size arithmetic, restarts and swaps no byte is lost, duplicated or
\* reordered, and every answer but one kind, taken as the bytes of the order the
\* caller asked for, is made of bytes that were next in line.  The exception is
\* what readInt16/32/64(v, true) answer (dynamic_buffer.cc:304, see
\* AllReadsInLine): of such a read only the bytes it removes are checked.
Fifo == INSTANCE ByteFifo
    WITH contents <- [b \in Buffers |-> Readable(buffer[b])],
         answer <- IF LittleRead THEN <<>> ELSE AnswerBytes

ByteFifoSpec == Fifo!ByteFifoSpec

\* The same without the exception, as dynamic_buffer.h:51-58 offers it: a read
\* with littleEndian = true answers the bytes it removes, low byte first.
\* Violated: the flag is passed on as the offset (ReadOffset).
FifoOfAllReads == INSTANCE ByteFifo
    WITH contents <- [b \in Buffers |-> Readable(buffer[b])], answer <- AnswerBytes

AllReadsInLine == FifoOfAllReads!ByteFifoSpec
=============================================================================
