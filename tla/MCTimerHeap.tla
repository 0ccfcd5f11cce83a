----------------------------- MODULE MCTimerHeap -----------------------------
(* TimerHeap on small instances.  MaxId is small, so that the ids wrap and *)
(* collide with those of timers that are still there.                      *)
EXTENDS TimerHeap

(* A timer of two calls, an endless one as the default call_times makes    *)
(* it, and one of two calls whose timeout is clamped to 0.                 *)
MixedRequests == {<<1, 2>>, <<1, -1>>, <<-1, 2>>}

(* Timers of one call.                                                     *)
OneShotRequests == {<<1, 1>>, <<2, 1>>}

Forward == {1}
==============================================================================
