------------------------------ MODULE ByteFifo ------------------------------
(***************************************************************************)
(* What a DynamicBuffer promises its callers: each buffer is a first-in    *)
(* first-out queue of bytes.  Nothing here knows of a vector, of indices,  *)
(* of compaction or of growth.                                             *)
(***************************************************************************)
EXTENDS Naturals, Sequences

CONSTANTS Buffers,   \* the buffer objects
          Bytes      \* the values a byte can have

VARIABLES contents,  \* [Buffers -> Seq(Bytes)]: written and not yet read
          answer     \* the bytes the last read handed to its caller

fifoVars == <<contents, answer>>

FifoInit == contents = [b \in Buffers |-> <<>>] /\ answer = <<>>

\* Bytes enter at the back, in the order they were written.
Append_(b, s) == /\ contents' = [contents EXCEPT ![b] = @ \o s]
                 /\ answer' = <<>>

Appends(b) == \E n \in 1..Len(contents'[b]) :
                  Append_(b, SubSeq(contents'[b], Len(contents'[b]) - n + 1,
                                    Len(contents'[b])))

\* Bytes leave at the front; the caller either sees them or skips them.
Takes(b) == \E n \in 0..Len(contents[b]) :
              /\ contents' = [contents EXCEPT ![b] = SubSeq(@, n + 1, Len(@))]
              /\ answer' \in {<<>>, SubSeq(contents[b], 1, n)}

\* A look at some bytes that are in the queue moves nothing.
Peeks(b) == /\ \E i \in 1..Len(contents[b]) : \E j \in i..Len(contents[b]) :
                  answer' = SubSeq(contents[b], i, j)
            /\ UNCHANGED contents

Clears(b) == contents' = [contents EXCEPT ![b] = <<>>] /\ answer' = <<>>

Swaps(b, c) == /\ contents' = [contents EXCEPT ![b] = contents[c], ![c] = contents[b]]
               /\ answer' = <<>>

\* A call that finds too little to read, or only makes room, shows nothing.
Refuses == UNCHANGED contents /\ answer' = <<>>

FifoNext == \/ Refuses
            \/ \E b \in Buffers : Appends(b) \/ Takes(b) \/ Peeks(b) \/ Clears(b)
            \/ \E b, c \in Buffers : Swaps(b, c)

ByteFifoSpec == FifoInit /\ [][FifoNext]_fifoVars
=============================================================================
