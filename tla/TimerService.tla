---------------------------- MODULE TimerService ----------------------------
(***************************************************************************)
(* What a timer heap promises.  Timers are known by their id alone: each   *)
(* has a deadline and a number of calls left.  A check calls timers that   *)
(* are due, one at a time and in no particular order, and a callback may   *)
(* add and remove timers.  A periodic timer keeps to its period however    *)
(* late it is called.                                                      *)
(*                                                                         *)
(* A check may end although a timer is due, if another one is not: more is *)
(* not promised, since the heap is not ordered by deadline (base/min_heap.h*)
(* compares pointers).                                                     *)
(*                                                                         *)
(* Time is left open: TimerHeap counts milliseconds, LoopService has       *)
(* Timestamps.                                                             *)
(***************************************************************************)
EXTENDS Integers

CONSTANTS
  TimerIds, NoTimer,
  Requests,         \* the <<timeout_ms, call_times>> that timers are added with
  Start,            \* the time of the clock at first
  Later(_, _),      \* Later(t, ms) is the time ms milliseconds after t
  IsDue(_, _)       \* IsDue(d, t): at time t the deadline d has come

VARIABLES
  clock,            \* the time
  pending,          \* the timers: [deadline, timeout, left], by their id
  phase,            \* "idle"; "check" or "callback" in a check; "gone"
  checkedAt,        \* the time the check was called with; Start outside
  calling           \* the timer whose callback runs

serviceVars == <<clock, pending, phase, checkedAt, calling>>

Forever == 0        \* left, of a timer that is called until it is removed

ServiceInit ==
  /\ clock = Start /\ checkedAt = Start
  /\ pending = [id \in {} |-> Start]
  /\ phase = "idle"
  /\ calling = NoTimer

AtLeast0(n) == IF n < 0 THEN 0 ELSE n

ServiceAdd(id, request) ==
  /\ phase \in {"idle", "callback"}
  /\ id \in TimerIds \ DOMAIN pending
  /\ pending' = [i \in DOMAIN pending \cup {id} |->
                   IF i # id THEN pending[i]
                   ELSE [deadline |-> Later(clock, AtLeast0(request[1])),
                         timeout |-> AtLeast0(request[1]),
                         left |-> AtLeast0(request[2])]]
  /\ UNCHANGED <<clock, phase, checkedAt, calling>>

Without(id) == [i \in DOMAIN pending \ {id} |-> pending[i]]

ServiceRemove(id) ==
  /\ phase \in {"idle", "callback"}
  /\ id \in DOMAIN pending
  /\ pending' = Without(id)
  /\ UNCHANGED <<clock, phase, checkedAt, calling>>

ServiceCheck ==
  /\ phase = "idle"
  /\ phase' = "check"
  /\ checkedAt' = clock
  /\ UNCHANGED <<clock, pending, calling>>

(* A timer that is due is called; after its last call it is gone.          *)
ServiceFire(id) ==
  /\ phase = "check"
  /\ id \in DOMAIN pending /\ IsDue(pending[id].deadline, checkedAt)
  /\ pending' =
       IF pending[id].left = 1 THEN Without(id)
       ELSE [pending EXCEPT ![id].deadline = Later(@, pending[id].timeout),
                            ![id].left = IF @ = Forever THEN @ ELSE @ - 1]
  /\ phase' = "callback"
  /\ calling' = id
  /\ UNCHANGED <<clock, checkedAt>>

ServiceReturn ==
  /\ phase = "callback"
  /\ phase' = "check"
  /\ calling' = NoTimer
  /\ UNCHANGED <<clock, pending, checkedAt>>

ServiceCheckEnds ==
  /\ phase = "check"
  /\ DOMAIN pending = {} \/ \E id \in DOMAIN pending : ~IsDue(pending[id].deadline, checkedAt)
  /\ phase' = "idle"
  /\ checkedAt' = Start
  /\ UNCHANGED <<clock, pending, calling>>

ServiceDestroy ==
  /\ phase = "idle"
  /\ phase' = "gone"
  /\ pending' = [id \in {} |-> Start]
  /\ UNCHANGED <<clock, checkedAt, calling>>

ServiceClock == clock' # clock /\ UNCHANGED <<pending, phase, checkedAt, calling>>

ServiceNext ==
  \/ \E id \in TimerIds, request \in Requests : ServiceAdd(id, request)
  \/ \E id \in DOMAIN pending : ServiceRemove(id) \/ ServiceFire(id)
  \/ ServiceCheck \/ ServiceReturn \/ ServiceCheckEnds
  \/ ServiceDestroy
  \/ ServiceClock

ServiceSpec == ServiceInit /\ [][ServiceNext]_serviceVars
=============================================================================
