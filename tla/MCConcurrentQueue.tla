-------------------------- MODULE MCConcurrentQueue --------------------------
(* ConcurrentQueue on a small instance: interchangeable threads, each free *)
(* to push and to pop, so that pushers and poppers race for the mutex      *)
(* after every notify.                                                     *)
EXTENDS ConcurrentQueue, TLC

ThreadSymmetry == Permutations(Threads)
=============================================================================
