---------------------------- MODULE MCLoopService ----------------------------
(* LoopService with readings around the turn of a millisecond, and timeouts*)
(* of 1 and 3 ms under a longest wait of 2.                                *)
EXTENDS LoopService

At(nanosecond) == [second |-> 0, nanosecond |-> nanosecond]
MCReadings == <<At(0), At(999999), At(2000000), At(4000000)>>
MCRequests == {<<1, 2>>, <<3, 1>>}
=============================================================================
