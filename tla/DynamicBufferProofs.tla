-------------------------- MODULE DynamicBufferProofs --------------------------
(***************************************************************************)
(* DynamicBuffer, for every expansion step, width of size_t and capacity:  *)
(* the indices stay in bounds, and reserveWritableBytes() delivers, does   *)
(* not touch what is readable, and grows within bounds.                    *)
(***************************************************************************)
EXTENDS DynamicBuffer, SequenceTheorems, TLAPS

\* A well-formed buffer that size_t is wide enough for.
BufferRecord ==
    [cells : Seq(Bytes), expand_size : Nat \ {0}, read_index : Nat, write_index : Nat]
Formed(b) ==
    /\ b \in BufferRecord
    /\ b.read_index <= b.write_index
    /\ b.write_index <= Len(b.cells)
Fits(b) == Len(b.cells) + MaxRequest + 2 * b.expand_size < 2 ^ SizeBits

\* What is reserved for: the readable bytes and `size' more.
Need(b, size) == ReadableBytes(b) + size

-----------------------------------------------------------------------------
(* Arithmetic.                                                             *)

\* One more than the whole steps in n, in bytes, exceeds n by a step at most.
LEMMA StepsCover ==
    ASSUME NEW n \in Nat, NEW e \in Nat, e > 0
    PROVE  /\ n \div e \in Nat
           /\ n < e * ((n \div e) + 1)
           /\ e * ((n \div e) + 1) <= n + e
    BY SMT

\* The arithmetic of size_t: exact in its range, one turn off next to it.
LEMMA Wraps ==
    ASSUME NEW m \in Nat, NEW n \in Int, m > 0
    PROVE  /\ 0 <= n /\ n < m => n % m = n
           /\ m <= n /\ n < 2 * m => n % m = n - m
           /\ n < 0 /\ -m < n => n % m = n + m
    <1>1. CASE 0 <= n /\ n < m
      BY <1>1, SMT
    <1>2. CASE m <= n /\ n < 2 * m
      BY <1>2, SMT
    <1>3. CASE n < 0 /\ -m < n
      BY <1>3, SMT
    <1>4. QED
      BY <1>1, <1>2, <1>3

\* Where a reservation grows the vector, the new one has room for what is
\* needed and less than two expansion steps to spare, also where the code
\* subtracts the larger from the smaller (dynamic_buffer.cc:86).
LEMMA GrownSizeBounds ==
    ASSUME NEW b, Formed(b), Fits(b), NEW size \in 0..MaxRequest
    PROVE  /\ GrownSize(b, size) \in Nat
           /\ Need(b, size) <= GrownSize(b, size)
           /\ GrownSize(b, size) < Need(b, size) + 2 * b.expand_size
    <1> DEFINE len  == Len(b.cells)
               e    == b.expand_size
               m    == 2 ^ SizeBits
               free == DiscardableBytes(b) + WritableBytes(b)
               need == Need(b, size)
    <1>1. /\ len \in Nat /\ e \in Nat /\ e > 0 /\ m \in Nat /\ size \in Nat
          /\ free \in Nat /\ free <= len /\ need \in Nat
          /\ need = len - free + size
          /\ len + size + 2 * e < m
      <2>1. /\ b.cells \in Seq(Bytes) /\ e \in Nat /\ e > 0
            /\ b.read_index \in Nat /\ b.write_index \in Nat
            /\ b.read_index <= b.write_index /\ b.write_index <= len
        BY DEF Formed, BufferRecord
      <2>2. len \in Nat
        BY <2>1
      <2>3. m \in Nat /\ size \in Nat /\ size <= MaxRequest
        BY BufferAssumption, SizeAssumption
      <2>4. len + size + 2 * e < m
        BY <2>1, <2>2, <2>3, BufferAssumption, SizeAssumption DEF Fits
      <2>5. /\ free = b.read_index + (len - b.write_index)
            /\ need = (b.write_index - b.read_index) + size
        BY DEF Need, DiscardableBytes, WritableBytes, ReadableBytes
      <2> HIDE DEF len, e, m, free, need
      <2> QED
        BY <2>1, <2>2, <2>3, <2>4, <2>5
    <1> HIDE DEF len, e, m, free, need
    <1>2. CASE free >= size /\ free - size < e
      <2>1. GrownSize(b, size) = (len + e) % m
        BY <1>2 DEF GrownSize, SizeT, len, e, m, free
      <2>2. (len + e) % m = len + e
        BY <1>1, Wraps
      <2> QED
        BY <1>1, <1>2, <2>1, <2>2 DEF need, e
    <1>3. CASE ~(free >= size /\ free - size < e)
      <2> DEFINE d == (size - free) % m
                 growth == e * ((d \div e) + 1)
      <2>1. GrownSize(b, size) = (len + growth) % m
        BY <1>3 DEF GrownSize, SizeT, len, e, m, free
      <2>2. d \in Nat /\ growth \in Int
        BY <1>1, SMT
      <2>3. d < growth /\ growth <= d + e
        BY <1>1, <2>2, StepsCover
      <2> HIDE DEF growth
      <2>4. CASE size > free
        <3>1. d = size - free
          BY <1>1, <2>4, Wraps
        <3>2. (len + growth) % m = len + growth
          <4>1. 0 <= len + growth /\ len + growth < m
            BY <1>1, <2>2, <2>3, <3>1
          <4> QED
            BY <1>1, <2>2, <4>1, Wraps
        <3> QED
          BY <1>1, <2>1, <2>2, <2>3, <3>1, <3>2 DEF need, e
      <2>5. CASE size <= free
        <3>0. size < free
          BY <1>1, <1>3, <2>5
        <3>1. d = size - free + m
          <4>1. size - free < 0 /\ -m < size - free
            BY <1>1, <3>0
          <4> QED
            BY <1>1, <4>1, Wraps
        <3>2. (len + growth) % m = len + growth - m
          <4>1. m <= len + growth /\ len + growth < 2 * m
            BY <1>1, <2>2, <2>3, <3>1
          <4> QED
            BY <1>1, <2>2, <4>1, Wraps
        <3> QED
          BY <1>1, <2>1, <2>2, <2>3, <3>1, <3>2 DEF need, e
      <2> QED
        BY <1>1, <2>4, <2>5
    <1> QED
      BY <1>2, <1>3

-----------------------------------------------------------------------------
(* The operations on one buffer.                                           *)

\* reserveWritableBytes() keeps a buffer well-formed and its readable bytes,
\* makes the room it was asked for, and grows the vector within bounds.
LEMMA ReservedCorrect ==
    ASSUME NEW b, Formed(b), Fits(b), NEW size \in 0..MaxRequest
    PROVE  /\ Formed(Reserved(b, size))
           /\ Reserved(b, size).expand_size = b.expand_size
           /\ WritableBytes(Reserved(b, size)) >= size
           /\ Readable(Reserved(b, size)) = Readable(b)
           /\ \/ Reserved(b, size) = b
              \/ Len(Reserved(b, size).cells) < Need(b, size) + 2 * b.expand_size
    <1> DEFINE g == GrownSize(b, size)
               n == ReadableBytes(b)
               new == [i \in 1..g |-> IF i <= n THEN b.cells[b.read_index + i] ELSE 0]
               r == [b EXCEPT !.cells = new, !.read_index = 0, !.write_index = n]
    <1>1. CASE WritableBytes(b) >= size
      BY <1>1 DEF Reserved
    <1>2. CASE ~(WritableBytes(b) >= size)
      <2>1. Reserved(b, size) = r
        BY <1>2 DEF Reserved
      <2>2. /\ g \in Nat /\ n \in Nat /\ size \in Nat
            /\ n + size <= g
            /\ g < Need(b, size) + 2 * b.expand_size
        <3>1. g \in Nat /\ Need(b, size) <= g /\ g < Need(b, size) + 2 * b.expand_size
          BY GrownSizeBounds
        <3>2. n \in Nat /\ size \in Nat /\ Need(b, size) = n + size
          BY BufferAssumption DEF Need, Formed, BufferRecord, ReadableBytes
        <3> HIDE DEF g, n
        <3> QED
          BY <3>1, <3>2
      <2>3. /\ b.cells \in Seq(Bytes) /\ b.read_index \in Nat /\ b.write_index \in Nat
            /\ n = b.write_index - b.read_index /\ b.write_index <= Len(b.cells)
            /\ b.read_index <= b.write_index
            /\ Len(b.cells) \in Nat
            /\ \A i \in 1..Len(b.cells) : b.cells[i] \in Bytes
        BY DEF Formed, BufferRecord, ReadableBytes
      <2> HIDE DEF g, n
      <2>4. \A i \in 1..n : b.cells[b.read_index + i] \in Bytes
        BY <2>2, <2>3, SMT
      <2>5. 0 \in Bytes
        BY BufferAssumption DEF Bytes
      <2>6. new \in [1..g -> Bytes]
        BY <2>2, <2>4, <2>5, SMT
      <2>7. new \in Seq(Bytes) /\ Len(new) = g
        BY <2>2, <2>6, SMT
      <2>8. /\ r \in BufferRecord
            /\ r.cells = new /\ r.read_index = 0 /\ r.write_index = n
            /\ r.expand_size = b.expand_size
        BY <2>2, <2>7 DEF Formed, BufferRecord
      <2>9. Formed(r) /\ WritableBytes(r) >= size
        BY <2>2, <2>7, <2>8 DEF Formed, WritableBytes
      <2>10. Readable(r) = Readable(b)
        <3> HIDE DEF new, r
        <3>1. /\ Readable(r) = SubSeq(new, 1, n)
              /\ Readable(b) = SubSeq(b.cells, b.read_index + 1, b.write_index)
          BY <2>8 DEF Readable
        <3>2. \A i \in 1..n : new[i] = b.cells[b.read_index + i] /\ new[i] \in Bytes
          BY <2>2, <2>4, SMT DEF new
        <3>3. /\ Readable(r) \in Seq(Bytes)
              /\ Len(Readable(r)) = n
              /\ \A i \in 1..n : Readable(r)[i] = new[i]
          <4>1. /\ SubSeq(new, 1, n) \in Seq(Bytes)
                /\ Len(SubSeq(new, 1, n)) = IF 1 <= n THEN n - 1 + 1 ELSE 0
                /\ \A i \in 1..(n - 1 + 1) : SubSeq(new, 1, n)[i] = new[1 + i - 1]
            BY <2>2, <3>2, SubSeqProperties
          <4> QED
            BY <2>2, <3>1, <4>1
        <3>4. /\ Readable(b) \in Seq(Bytes)
              /\ Len(Readable(b)) = n
              /\ \A i \in 1..n : Readable(b)[i] = b.cells[b.read_index + i]
          <4> DEFINE f == b.read_index + 1
                     t == b.write_index
          <4>1. f \in Int /\ t \in Int /\ \A i \in f..t : b.cells[i] \in Bytes
            BY <2>3
          <4>2. t - f + 1 = n /\ (f <= t <=> 1 <= n)
            BY <2>2, <2>3
          <4> HIDE DEF f, t
          <4>3. /\ SubSeq(b.cells, f, t) \in Seq(Bytes)
                /\ Len(SubSeq(b.cells, f, t)) = IF f <= t THEN t - f + 1 ELSE 0
                /\ \A i \in 1..(t - f + 1) : SubSeq(b.cells, f, t)[i] = b.cells[f + i - 1]
            BY <4>1, SubSeqProperties
          <4>4. /\ Readable(b) = SubSeq(b.cells, f, t)
                /\ \A i \in 1..n : f + i - 1 = b.read_index + i
            BY <2>2, <2>3, <3>1 DEF f, t
          <4>5. Len(Readable(b)) = n
            BY <2>2, <4>2, <4>3, <4>4
          <4> QED
            BY <4>2, <4>3, <4>4, <4>5
        <3> QED
          BY <2>2, <3>2, <3>3, <3>4, SeqEqual
      <2> QED
        BY <2>1, <2>2, <2>7, <2>8, <2>9, <2>10
    <1> QED
      BY <1>1, <1>2

\* Bytes stored behind the write index leave the shape of the buffer alone.
LEMMA StoredFormed ==
    ASSUME NEW b, Formed(b), NEW s \in Seq(Bytes)
    PROVE  /\ Formed(Stored(b, s))
           /\ Len(Stored(b, s).cells) = Len(b.cells)
           /\ Stored(b, s).write_index = b.write_index
           /\ Stored(b, s).expand_size = b.expand_size
    <1> DEFINE n == Len(b.cells)
               w == b.write_index
               new == [i \in DOMAIN b.cells |->
                         IF i \in (w + 1)..(w + Len(s)) THEN s[i - w] ELSE b.cells[i]]
    <1>1. /\ n \in Nat /\ w \in Nat /\ DOMAIN b.cells = 1..n /\ Len(s) \in Nat
          /\ b.cells \in [1..n -> Bytes] /\ s \in [1..Len(s) -> Bytes]
      BY LenProperties DEF Formed, BufferRecord
    <1> HIDE DEF n
    <1>2. new \in [1..n -> Bytes]
      BY <1>1, SMT
    <1>3. new \in Seq(Bytes) /\ Len(new) = n
      BY <1>1, <1>2, SMT
    <1>4. Stored(b, s) = [b EXCEPT !.cells = new]
      BY DEF Stored, Formed, BufferRecord
    <1> HIDE DEF new
    <1> QED
      BY <1>3, <1>4 DEF Formed, BufferRecord, n

\* write(): the write index never passes the end.
LEMMA CommittedFormed ==
    ASSUME NEW b, Formed(b), NEW size \in Nat
    PROVE  /\ Formed(Committed(b, size))
           /\ Committed(b, size).expand_size = b.expand_size
    BY DEF Formed, BufferRecord, Committed, Smaller, WritableBytes

\* clear(): both indices at the start.
LEMMA ClearedFormed ==
    ASSUME NEW b, Formed(b)
    PROVE  /\ Formed(Cleared(b))
           /\ Cleared(b).expand_size = b.expand_size
    <1>1. /\ Cleared(b) \in BufferRecord
          /\ Cleared(b).read_index = 0 /\ Cleared(b).write_index = 0
          /\ Cleared(b).cells = b.cells /\ Cleared(b).expand_size = b.expand_size
      BY DEF Formed, BufferRecord, Cleared
    <1>2. Len(b.cells) \in Nat
      BY DEF Formed, BufferRecord
    <1> QED
      BY <1>1, <1>2 DEF Formed

\* read(): the read index never passes the write index.
LEMMA AdvancedFormed ==
    ASSUME NEW b, Formed(b), NEW size \in Nat
    PROVE  /\ Formed(Advanced(b, size))
           /\ Advanced(b, size).expand_size = b.expand_size
    <1> DEFINE skip == Smaller(size, ReadableBytes(b))
               r    == [b EXCEPT !.read_index = @ + skip]
    <1>2. skip \in Nat /\ b.read_index + skip <= b.write_index
      BY DEF Formed, BufferRecord, Smaller, ReadableBytes
    <1> HIDE DEF skip
    <1>3. Formed(r) /\ r.expand_size = b.expand_size
      BY <1>2 DEF Formed, BufferRecord
    <1>4. Advanced(b, size) \in {r, Cleared(r)}
      BY DEF Advanced, skip
    <1>5. Formed(Cleared(r)) /\ Cleared(r).expand_size = b.expand_size
      <2> HIDE DEF r
      <2> QED
        BY <1>3, ClearedFormed
    <1> QED
      BY <1>3, <1>4, <1>5

\* An encoded integer is made of bytes.
LEMMA EncodedBytes ==
    ASSUME NEW width \in Widths, NEW v \in Nat, NEW little \in BOOLEAN
    PROVE  Encoded(v, width, little) \in Seq(Bytes)
    <1>1. width \in Nat /\ ByteBase \in Nat /\ ByteBase > 0
      BY BufferAssumption
    <1>2. ASSUME NEW i \in 1..width
          PROVE  (v \div Weight(i, width, little)) % ByteBase \in Bytes
      <2> DEFINE w == Weight(i, width, little)
      <2>1. w \in Nat /\ w > 0
        <3>1. i - 1 \in 0..width /\ width - i \in 0..width
          BY <1>1
        <3>2. ByteBase ^ (i - 1) \in Nat \ {0} /\ ByteBase ^ (width - i) \in Nat \ {0}
          BY <3>1, PowerAssumption
        <3> QED
          BY <3>2 DEF Weight
      <2> HIDE DEF w
      <2>2. v \div w \in Nat
        BY <2>1, StepsCover
      <2>3. (v \div w) % ByteBase \in 0..(ByteBase - 1)
        BY <1>1, <2>2, SMT
      <2> QED
        BY <2>3 DEF Bytes, w
    <1>3. Encoded(v, width, little) \in [1..width -> Bytes]
      BY <1>1, <1>2 DEF Encoded
    <1> QED
      BY <1>1, <1>3

-----------------------------------------------------------------------------
(* The composed writes, and what the callers pass.                         *)

\* A caller's bytes, and their number.
LEMMA StringsAreBytes ==
    ASSUME NEW s \in Strings
    PROVE  s \in Seq(Bytes) /\ Len(s) \in 0..MaxRequest
    <1>1. PICK n \in 1..MaxRequest : s \in [1..n -> Bytes]
      BY DEF Strings
    <1>2. n \in Nat /\ n <= MaxRequest
      BY BufferAssumption
    <1> QED
      BY <1>1, <1>2

\* writeInt8() to writeInt64() keep the buffer well-formed.
LEMMA WriteIntFormed ==
    ASSUME NEW b, Formed(b), Fits(b),
           NEW width \in Widths, NEW v \in Nat, NEW little \in BOOLEAN
    PROVE  /\ Formed(WriteInt(b, v, width, little))
           /\ WriteInt(b, v, width, little).expand_size = b.expand_size
    <1> DEFINE r == Reserved(b, width)
               t == Stored(r, Encoded(v, width, little))
    <1>1. width \in 0..MaxRequest /\ width \in Nat
      BY BufferAssumption, SizeAssumption
    <1>2. Formed(r) /\ r.expand_size = b.expand_size
      BY <1>1, ReservedCorrect
    <1> HIDE DEF r
    <1>3. Formed(t) /\ t.expand_size = b.expand_size
      BY <1>2, EncodedBytes, StoredFormed
    <1> HIDE DEF t
    <1>4. Formed(Committed(t, width)) /\ Committed(t, width).expand_size = b.expand_size
      BY <1>1, <1>3, CommittedFormed
    <1> QED
      BY <1>4 DEF WriteInt, t, r

\* writeBytes() moves the write index without a test, and may: the room is there.
LEMMA WriteBytesFormed ==
    ASSUME NEW b, Formed(b), Fits(b), NEW s \in Strings
    PROVE  /\ Formed(WriteBytes(b, s))
           /\ WriteBytes(b, s).expand_size = b.expand_size
    <1> DEFINE r == Reserved(b, Len(s))
               t == Stored(r, s)
               w == [t EXCEPT !.write_index = @ + Len(s)]
    <1>1. s \in Seq(Bytes) /\ Len(s) \in 0..MaxRequest /\ Len(s) \in Nat
      BY StringsAreBytes
    <1>2. /\ Formed(r) /\ r.expand_size = b.expand_size
          /\ WritableBytes(r) >= Len(s)
      BY <1>1, ReservedCorrect
    <1> HIDE DEF r
    <1>3. /\ Formed(t) /\ t.expand_size = b.expand_size
          /\ Len(t.cells) = Len(r.cells) /\ t.write_index = r.write_index
      BY <1>1, <1>2, StoredFormed
    <1> HIDE DEF t
    <1>4. /\ t \in BufferRecord /\ t.read_index <= t.write_index
          /\ t.write_index \in Nat /\ t.read_index \in Nat /\ Len(t.cells) \in Nat
          /\ t.write_index + Len(s) <= Len(t.cells)
      BY <1>1, <1>2, <1>3 DEF Formed, BufferRecord, WritableBytes
    <1>5. /\ w \in BufferRecord
          /\ w.cells = t.cells /\ w.read_index = t.read_index
          /\ w.write_index = t.write_index + Len(s) /\ w.expand_size = t.expand_size
      BY <1>1, <1>4 DEF BufferRecord
    <1>6. Formed(w) /\ w.expand_size = b.expand_size
      BY <1>1, <1>3, <1>4, <1>5 DEF Formed
    <1> QED
      BY <1>6 DEF WriteBytes, t, r

-----------------------------------------------------------------------------
(* The inductive invariant: every buffer is well-formed and, its step being *)
(* one the constructors were given, in the range of size_t.                *)
IInv ==
    /\ buffer \in [Buffers -> BufferRecord]
    /\ \A b \in Buffers :
         /\ Formed(buffer[b])
         /\ Len(buffer[b].cells) <= MaxCapacity
         /\ \E c \in Buffers : buffer[b].expand_size = ExpandSize[c]

\* size_t is wide enough for each of them.
LEMMA IInvFits ==
    ASSUME IInv, NEW b \in Buffers
    PROVE  Formed(buffer[b]) /\ Fits(buffer[b])
    <1>1. /\ Formed(buffer[b]) /\ Len(buffer[b].cells) <= MaxCapacity
          /\ Len(buffer[b].cells) \in Nat
      BY DEF IInv, Formed, BufferRecord
    <1>2. PICK c \in Buffers : buffer[b].expand_size = ExpandSize[c]
      BY DEF IInv
    <1>3. ExpandSize[c] \in Nat
      BY BufferAssumption
    <1> QED
      BY <1>1, <1>2, <1>3, BufferAssumption, SizeAssumption DEF Fits

\* A call that replaces one buffer by a well-formed one of the same step.
LEMMA BecomesIInv ==
    ASSUME IInv, NEW b \in Buffers, NEW r, Becomes(b, r),
           Formed(r), r.expand_size = buffer[b].expand_size,
           \A c \in Buffers : Len(buffer'[c].cells) <= MaxCapacity
    PROVE  IInv'
    <1>1. buffer' \in [Buffers -> BufferRecord]
      BY DEF IInv, Becomes, Formed
    <1>2. \A c \in Buffers : buffer'[c] = IF c = b THEN r ELSE buffer[c]
      BY DEF IInv, Becomes
    <1> QED
      BY <1>1, <1>2 DEF IInv, Formed

\* Newly constructed buffers satisfy it.
LEMMA InitIInv == ASSUME Init PROVE IInv
    <1> DEFINE zeros == [i \in 1..InitSize |-> 0]
    <1>1. zeros \in Seq(Bytes) /\ Len(zeros) = InitSize
      <2>1. 0 \in Bytes
        BY BufferAssumption DEF Bytes
      <2>2. zeros \in [1..InitSize -> Bytes]
        BY <2>1
      <2> QED
        BY <2>2, BufferAssumption
    <1> HIDE DEF zeros
    <1>2. ASSUME NEW b \in Buffers
          PROVE  /\ buffer[b] \in BufferRecord
                 /\ Formed(buffer[b])
                 /\ Len(buffer[b].cells) <= MaxCapacity
                 /\ buffer[b].expand_size = ExpandSize[b]
      <2>1. buffer[b] = [cells |-> zeros, expand_size |-> ExpandSize[b],
                         read_index |-> 0, write_index |-> 0]
        BY DEF Init, zeros
      <2>2. ExpandSize[b] \in Nat \ {0} /\ InitSize \in Nat
        BY BufferAssumption
      <2>3. buffer[b] \in BufferRecord
        BY <1>1, <2>1, <2>2 DEF BufferRecord
      <2> QED
        BY <1>1, <2>1, <2>2, <2>3, SizeAssumption DEF Formed
    <1>3. buffer = [b \in Buffers |-> buffer[b]]
      BY DEF Init
    <1>4. buffer \in [Buffers -> BufferRecord]
      BY <1>2, <1>3
    <1> QED
      BY <1>2, <1>4 DEF IInv

\* Every call keeps it.
LEMMA StepIInv == ASSUME IInv, [Next]_vars PROVE IInv'
    <1>1. CASE UNCHANGED vars
      BY <1>1 DEF IInv, vars
    <1>2. CASE Next
      <2>1. \A c \in Buffers : Len(buffer'[c].cells) <= MaxCapacity
        BY <1>2 DEF Next
      <2>2. \A b \in Buffers : Formed(buffer[b]) /\ Fits(buffer[b])
        BY IInvFits
      <2>3. ASSUME NEW b \in Buffers, Reserve(b) PROVE IInv'
        <3>1. PICK size \in 0..MaxRequest : Becomes(b, Reserved(buffer[b], size))
          BY <2>3 DEF Reserve
        <3> QED
          BY <2>1, <2>2, <3>1, ReservedCorrect, BecomesIInv
      <2>4. ASSUME NEW b \in Buffers, FillAndWrite(b) PROVE IInv'
        <3>1. PICK s \in Strings : Becomes(b, Committed(Stored(buffer[b], s), Len(s)))
          BY <2>4 DEF FillAndWrite
        <3>2. s \in Seq(Bytes) /\ Len(s) \in Nat
          BY StringsAreBytes
        <3>3. /\ Formed(Stored(buffer[b], s))
              /\ Stored(buffer[b], s).expand_size = buffer[b].expand_size
          BY <2>2, <3>2, StoredFormed
        <3> QED
          BY <2>1, <3>1, <3>2, <3>3, CommittedFormed, BecomesIInv
      <2>5. ASSUME NEW b \in Buffers, PutInt(b) PROVE IInv'
        <3>1. PICK width \in Widths :
                \E v \in Values(width), little \in BOOLEAN :
                   Becomes(b, WriteInt(buffer[b], v, width, little))
          BY <2>5 DEF PutInt, Orders
        <3>2. PICK v \in Nat, little \in BOOLEAN :
                Becomes(b, WriteInt(buffer[b], v, width, little))
          BY <3>1 DEF Values
        <3> QED
          BY <2>1, <2>2, <3>1, <3>2, WriteIntFormed, BecomesIInv
      <2>6. ASSUME NEW b \in Buffers, PutBytes(b) PROVE IInv'
        <3>1. PICK s \in Strings : Becomes(b, WriteBytes(buffer[b], s))
          BY <2>6 DEF PutBytes
        <3> QED
          BY <2>1, <2>2, <3>1, WriteBytesFormed, BecomesIInv
      <2>7. ASSUME UNCHANGED buffer PROVE IInv'
        BY <2>7 DEF IInv
      <2>8. ASSUME NEW b \in Buffers, NEW size \in Nat, Becomes(b, Advanced(buffer[b], size))
            PROVE IInv'
        BY <2>1, <2>2, <2>8, AdvancedFormed, BecomesIInv
      <2>9. ASSUME NEW b \in Buffers, Peek(b) PROVE IInv'
        BY <2>7, <2>9 DEF Peek
      <2>10. ASSUME NEW b \in Buffers, GetInt(b) PROVE IInv'
        <3>1. \/ UNCHANGED buffer
              \/ \E width \in Widths : Becomes(b, Advanced(buffer[b], width))
          BY <2>10 DEF GetInt
        <3>2. \A width \in Widths : width \in Nat
          BY BufferAssumption
        <3> QED
          BY <2>7, <2>8, <3>1, <3>2
      <2>11. ASSUME NEW b \in Buffers, GetBytes(b) PROVE IInv'
        <3>1. PICK count \in 0..MaxRequest : Becomes(b, Advanced(buffer[b], count))
          BY <2>11 DEF GetBytes
        <3> QED
          BY <2>8, <3>1
      <2>12. ASSUME NEW b \in Buffers, Skip(b) PROVE IInv'
        <3>1. PICK size \in 0..MaxRequest : Becomes(b, Advanced(buffer[b], size))
          BY <2>12 DEF Skip
        <3> QED
          BY <2>8, <3>1
      <2>13. ASSUME NEW b \in Buffers, Clear(b) PROVE IInv'
        BY <2>1, <2>2, <2>13, ClearedFormed, BecomesIInv DEF Clear
      <2>14. ASSUME NEW b \in Buffers, NEW c \in Buffers, Swap(b, c) PROVE IInv'
        <3>1. \A d \in Buffers : \E e \in Buffers : buffer'[d] = buffer[e]
          BY <2>14 DEF Swap, IInv
        <3>2. buffer' \in [Buffers -> BufferRecord]
          BY <2>14 DEF Swap, IInv
        <3>3. ASSUME NEW d \in Buffers
              PROVE  /\ Formed(buffer'[d])
                     /\ Len(buffer'[d].cells) <= MaxCapacity
                     /\ \E e \in Buffers : buffer'[d].expand_size = ExpandSize[e]
          <4>1. PICK e \in Buffers : buffer'[d] = buffer[e]
            BY <3>1
          <4>2. /\ Formed(buffer[e]) /\ Len(buffer[e].cells) <= MaxCapacity
                /\ \E f \in Buffers : buffer[e].expand_size = ExpandSize[f]
            BY DEF IInv
          <4> QED
            BY <4>1, <4>2
        <3> QED
          BY <3>2, <3>3 DEF IInv, Formed
      <2> QED
        BY <1>2, <2>3, <2>4, <2>5, <2>6, <2>9, <2>10, <2>11, <2>12, <2>13, <2>14
           DEF Next
    <1> QED
      BY <1>1, <1>2

-----------------------------------------------------------------------------
(* The theorems.                                                           *)

\* The invariant holds in every reachable state.
THEOREM BuffersFormed == Spec => []IInv
    <1>1. Init => IInv
      BY InitIInv
    <1>2. IInv /\ [Next]_vars => IInv'
      BY StepIInv
    <1> QED
      BY <1>1, <1>2, PTL DEF Spec

\* The vector holds bytes and the indices stay in order and in bounds, for any
\* expansion steps and any width of size_t.
THEOREM TypeCorrect == Spec => []TypeOK
    <1>1. IInv => TypeOK
      <2> SUFFICES ASSUME IInv, NEW b \in Buffers
                   PROVE  /\ Len(buffer[b].cells) \in Nat
                          /\ \A i \in DOMAIN buffer[b].cells : buffer[b].cells[i] \in Bytes
                          /\ buffer[b].expand_size \in Nat \ {0}
                          /\ buffer[b].read_index \in 0..buffer[b].write_index
                          /\ buffer[b].write_index \in 0..Len(buffer[b].cells)
        BY DEF TypeOK
      <2>1. Formed(buffer[b])
        BY DEF IInv
      <2> QED
        BY <2>1 DEF Formed, BufferRecord
    <1> QED
      BY <1>1, BuffersFormed, PTL

\* Whenever reserveWritableBytes(size) is called it delivers `size' bytes of room
\* and leaves what is readable as it was, wrapping subtraction included.
THEOREM ReserveAlwaysDelivers == Spec => []ReserveDelivers
    <1>1. IInv => ReserveDelivers
      BY IInvFits, ReservedCorrect DEF ReserveDelivers
    <1> QED
      BY <1>1, BuffersFormed, PTL

\* It never grows the vector to need plus two expansion steps or more.
THEOREM ReserveAlwaysBounded == Spec => []ReserveBounded
    <1>1. IInv => ReserveBounded
      BY IInvFits, ReservedCorrect DEF ReserveBounded, Need
    <1> QED
      BY <1>1, BuffersFormed, PTL
=============================================================================
