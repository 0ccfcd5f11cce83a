----------------------------- MODULE LogChannel -----------------------------
(***************************************************************************)
(* What an asynchronous log sink promises its callers: the records of      *)
(* every writer reach the adapted sink once and in the order they were     *)
(* logged, later than the call but before the sink is destroyed.  A record *)
(* that the adapted sink fails to write is lost, and is not tried again.   *)
(* Nothing is promised for what the sink reports about itself.             *)
(***************************************************************************)
EXTENDS Naturals, Sequences

CONSTANTS
  Writers,   \* the threads that log
  Reporter   \* the one that logs the failures of the adapted sink

VARIABLES
  logged,    \* logged[w]: how many records writer w has logged
  pending,   \* the records logged and not yet written, oldest first
  written,   \* the records the adapted sink wrote, in that order
  lost,      \* the records it failed to write
  closed     \* TRUE once the sink is destroyed

vars == <<logged, pending, written, lost, closed>>

Init ==
  /\ logged = [w \in Writers |-> 0]
  /\ pending = <<>>
  /\ written = <<>> /\ lost = <<>>
  /\ closed = FALSE

Log(w) ==
  /\ ~closed
  /\ logged' = [logged EXCEPT ![w] = @ + 1]
  /\ pending' = Append(pending, <<w, logged'[w]>>)
  /\ UNCHANGED <<written, lost, closed>>

Deliver ==
  /\ pending # <<>>
  /\ written' = Append(written, Head(pending))
  /\ pending' = Tail(pending)
  /\ UNCHANGED <<logged, lost, closed>>

Fail ==
  /\ pending # <<>>
  /\ lost' = Append(lost, Head(pending))
  /\ pending' = Tail(pending)
  /\ UNCHANGED <<logged, written, closed>>

Close ==
  /\ ~closed
  /\ \A i \in DOMAIN pending : pending[i][1] = Reporter
  /\ closed' = TRUE
  /\ UNCHANGED <<logged, pending, written, lost>>

Next == Deliver \/ Fail \/ Close \/ \E w \in Writers : Log(w)

(* Records keep being delivered as long as none failed.                    *)
Spec == Init /\ [][Next]_vars /\ (<>(lost # <<>>) \/ WF_vars(Deliver))
=============================================================================
