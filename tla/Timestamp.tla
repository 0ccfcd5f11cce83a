------------------------------ MODULE Timestamp ------------------------------
(***************************************************************************)
(* yut::base::Timestamp (base/timestamp.cc): seconds and nanoseconds, with *)
(* sums and comparisons in milliseconds.  LoopService is made of these.    *)
(***************************************************************************)
EXTENDS Integers

NsPerMs     == 1000 * 1000
NsPerSecond == 1000 * NsPerMs

(* Integer division and remainder of C++, which round towards zero.        *)
Quotient(n, d)  == IF n >= 0 THEN n \div d ELSE -((-n) \div d)
Remainder(n, d) == IF n >= 0 THEN n % d ELSE -((-n) % d)

getMillisecond(t) == Quotient(t.nanosecond, NsPerMs)

Carried(second, nanosecond) ==
  IF nanosecond >= NsPerSecond
  THEN [second |-> second + 1, nanosecond |-> nanosecond - NsPerSecond]
  ELSE [second |-> second, nanosecond |-> nanosecond]

(* operator+= and operator+                                                *)
Plus(t, ms) ==
  Carried(t.second + Quotient(ms, 1000),
          t.nanosecond + Remainder(ms, 1000) * NsPerMs)

(* operator<                                                               *)
Less(t, u) ==
  IF t.second # u.second THEN t.second < u.second ELSE t.nanosecond < u.nanosecond

MillisecondLess(t, u) ==
  IF t.second # u.second THEN t.second < u.second
  ELSE getMillisecond(t) < getMillisecond(u)

MillisecondEqual(t, u) ==
  t.second = u.second /\ getMillisecond(t) = getMillisecond(u)

(* A plausible bug, used by no definition: the milliseconds are those of   *)
(* the nanosecond difference, rounded down.                                *)
MutDistanceRoundsDown(t, u) ==
  LET bigger  == IF Less(t, u) THEN u ELSE t
      smaller == IF Less(t, u) THEN t ELSE u
  IN  (bigger.second - smaller.second) * 1000
        + ((bigger.nanosecond - smaller.nanosecond) \div NsPerMs)

DistanceMillisecond(t, u) ==
  LET bigger  == IF Less(t, u) THEN u ELSE t
      smaller == IF Less(t, u) THEN t ELSE u
  IN  (bigger.second - smaller.second) * 1000
        + (getMillisecond(bigger) - getMillisecond(smaller))

-----------------------------------------------------------------------------
(* TimerHeap::getNextTimeoutMillisecond(now), with a timer of that         *)
(* deadline at the top of the heap.                                        *)
NextTimeout(now, deadline) ==
  IF Less(deadline, now) THEN 0 ELSE DistanceMillisecond(now, deadline)

-----------------------------------------------------------------------------
(* What the operations are about: the time line of whole milliseconds, and *)
(* timestamps that are carried.                                            *)
Milliseconds(t) == t.second * 1000 + t.nanosecond \div NsPerMs

Normalised(t) ==
  /\ t \in [second : Nat, nanosecond : Nat]
  /\ t.nanosecond < NsPerSecond
=============================================================================
