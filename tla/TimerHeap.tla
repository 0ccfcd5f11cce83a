------------------------------ MODULE TimerHeap ------------------------------
(***************************************************************************)
(* yut::base::TimerHeap (base/timer_heap.cc): a map from timer ids to      *)
(* timers and a MinHeap of the same timers, keyed by deadline.             *)
(*                                                                         *)
(* One thread uses the heap: it adds and removes timers, and calls         *)
(* checkTimeout(now), which fires the timers that are due.  A callback may *)
(* add and remove timers, its own included, before checkTimeout() goes on. *)
(* mode says how far checkTimeout() is.  Times are in milliseconds, the    *)
(* precision of millisecondLess().  A Timer is the address new gave it,    *)
(* and any free address may come out of new.  TimerService is what all     *)
(* this promises.                                                          *)
(***************************************************************************)
EXTENDS MinHeap

CONSTANTS
  Requests,    \* the <<timeout_ms, call_times>> that timers are added with
  MaxId,       \* the largest TimerId
  IntLimit,    \* 2^31, where int wraps: getTimeout() returns the timeout as an int
  ClockSteps,  \* how the clock moves: 1, and -1 if it may be set back
  MaxTime,     \* bound: the clock stays in 0..MaxTime
  LastAdd      \* bound: no timer is added after that time

ASSUME RequestsAssumption == Requests \subseteq Int \X Int
ASSUME MaxIdAssumption    == MaxId \in Nat
ASSUME IntAssumption      == IntLimit \in Nat \ {0}
ASSUME TimeAssumption     == MaxTime \in Nat /\ LastAdd \in Nat

NoNode  == -1

VARIABLES
  clock,     \* what Timestamp::setNow() gives
  lastId,    \* timer_id_allocator_.value_
  timers,    \* timers_: the address of the timer with a given id
  timer,     \* timer[v]: the Timer at address v, or Freed
  checkNow,  \* the argument of checkTimeout()
  mode,      \* "idle", or where checkTimeout() is: "check", "reinsert",
             \*   "callback", "inCallback"; "gone" after the destructor
  firing,    \* timer of checkTimeout(), while it is out of the heap
  callId     \* timer_id of checkTimeout()

checkVars == <<checkNow, mode, firing, callId>>
timerVars == <<clock, lastId, timers, timer, checkVars>>
vars == <<heapVars, timerVars>>

Freed == [id |-> -2]
Ids   == (-MaxId - 1)..MaxId
Live  == {v \in Nodes : timer[v] # Freed}
NoId  == -2 - MaxId

Init ==
  /\ HeapInit
  /\ clock = 0
  /\ checkNow = 0
  /\ lastId = 0
  /\ timers = [id \in {} |-> NoNode]
  /\ timer = [v \in Nodes |-> Freed]
  /\ mode = "idle"
  /\ firing = NoNode
  /\ callId = NoId

-----------------------------------------------------------------------------
AtLeast0(n) == IF n < 0 THEN 0 ELSE n     \* std::max((int64_t)0, n)

(* Timer::getTimeout(): int64_t to int.                                    *)
AsInt(n) == ((n + IntLimit) % (2 * IntLimit)) - IntLimit

(* getId().  The overflow of ++value_ is undefined: the test for a         *)
(* negative value may see it or be compiled away.                          *)
NextIds ==
  IF lastId = MaxId THEN {0, -MaxId - 1}
  ELSE IF lastId + 1 < 0 THEN {0}
  ELSE {lastId + 1}

(* The caller is outside checkTimeout() or in a callback of it, and no     *)
(* heap operation is going on.                                             *)
CallerRuns == mode \in {"idle", "inCallback"} /\ op = "none"

(* The Mut... operators are plausible bugs, used by no definition: each    *)
(* stands for the definition below it and breaks one property.             *)
(* max(0, timeout_ms) is computed for the deadline but not kept.           *)
MutNewTimerNoClamp(id, request, now) ==
  [id |-> id, deadline |-> now + AtLeast0(request[1]), timeout |-> request[1],
   callTimes |-> request[2]]

NewTimer(id, request, now) ==
  [id |-> id, deadline |-> now + AtLeast0(request[1]), timeout |-> AtLeast0(request[1]),
   callTimes |-> request[2]]

(* addTimer() with an id that no timer has.                                *)
AddTimer(request) ==
  /\ CallerRuns /\ clock <= LastAdd
  /\ \E id \in NextIds \ DOMAIN timers, v \in Nodes \ Live :
       /\ lastId' = id
       /\ timer' = [timer EXCEPT ![v] = NewTimer(id, request, clock)]
       /\ timers' = [i \in DOMAIN timers \cup {id} |-> IF i = id THEN v ELSE timers[i]]
       /\ Insert(v)
  /\ UNCHANGED <<clock, checkVars>>

(* addTimer() when the ids have wrapped and the new one is taken: -1.      *)
AddTimerFails ==
  /\ CallerRuns /\ clock <= LastAdd
  /\ \E id \in NextIds \cap DOMAIN timers : lastId' = id
  /\ UNCHANGED <<heapVars, clock, timers, timer, checkVars>>

Drop(id) == timers' = [i \in DOMAIN timers \ {id} |-> timers[i]]

(* removeTimer() forgets the heap.                                         *)
MutRemoveTimerKeepsNode(id) ==
  /\ CallerRuns
  /\ id \in DOMAIN timers
  /\ Drop(id)
  /\ timer' = [timer EXCEPT ![timers[id]] = Freed]
  /\ UNCHANGED <<heapVars, clock, lastId, checkVars>>

(* removeTimer(); with an id that no timer has it does nothing.            *)
RemoveTimer(id) ==
  /\ CallerRuns
  /\ id \in DOMAIN timers
  /\ Erase(timers[id])
  /\ Drop(id)
  /\ timer' = [timer EXCEPT ![timers[id]] = Freed]
  /\ UNCHANGED <<clock, lastId, checkVars>>

-----------------------------------------------------------------------------
(* checkTimeout(now), called with the time of the clock                    *)
CheckTimeout ==
  /\ mode = "idle" /\ op = "none"
  /\ mode' = "check"
  /\ checkNow' = clock
  /\ UNCHANGED <<heapVars, clock, lastId, timers, timer, firing, callId>>

(* ~ now.millisecondLess(timer->getValue())                                *)
Due(v) == timer[v].deadline <= checkNow

(* The timer at the top is not due, or there is none: return.              *)
CheckReturns ==
  /\ mode = "check" /\ op = "none"
  /\ heap # <<>> => ~Due(Head(heap))
  /\ mode' = "idle"
  /\ UNCHANGED <<heapVars, clock, lastId, timers, timer, checkNow, firing, callId>>

(* The timer at the top is due for the last time: it is destroyed.         *)
FireLast ==
  /\ mode = "check" /\ op = "none"
  /\ heap # <<>> /\ Due(Head(heap))
  /\ timer[Head(heap)].callTimes = 1
  /\ callId' = timer[Head(heap)].id
  /\ Erase(Head(heap))
  /\ Drop(timer[Head(heap)].id)
  /\ timer' = [timer EXCEPT ![Head(heap)] = Freed]
  /\ mode' = "callback"
  /\ UNCHANGED <<clock, lastId, checkNow, firing>>

(* The next deadline counts from now, not from the last deadline.          *)
MutFireAgainDrifts ==
  /\ mode = "check" /\ op = "none"
  /\ heap # <<>> /\ Due(Head(heap))
  /\ timer[Head(heap)].callTimes # 1
  /\ callId' = timer[Head(heap)].id
  /\ Erase(Head(heap))
  /\ firing' = Head(heap)
  /\ timer' = [timer EXCEPT ![Head(heap)].callTimes = IF @ > 0 THEN @ - 1 ELSE @,
                            ![Head(heap)].deadline = checkNow + AsInt(timer[Head(heap)].timeout)]
  /\ mode' = "reinsert"
  /\ UNCHANGED <<clock, lastId, timers, checkNow>>

(* The timer goes back as it was, its calls not counted: it stays due.     *)
MutFireAgainUnchanged ==
  /\ mode = "check" /\ op = "none"
  /\ heap # <<>> /\ Due(Head(heap))
  /\ timer[Head(heap)].callTimes # 1
  /\ callId' = timer[Head(heap)].id
  /\ Erase(Head(heap))
  /\ firing' = Head(heap)
  /\ mode' = "reinsert"
  /\ UNCHANGED <<clock, lastId, timers, timer, checkNow>>

(* The timer at the top is due and stays: it is erased from the heap, and  *)
(* put back with its next deadline once the loop of erase() is over.       *)
FireAgain ==
  /\ mode = "check" /\ op = "none"
  /\ heap # <<>> /\ Due(Head(heap))
  /\ timer[Head(heap)].callTimes # 1
  /\ callId' = timer[Head(heap)].id
  /\ Erase(Head(heap))
  /\ firing' = Head(heap)
  /\ timer' = [timer EXCEPT ![Head(heap)].callTimes = IF @ > 0 THEN @ - 1 ELSE @,
                            ![Head(heap)].deadline = @ + AsInt(timer[Head(heap)].timeout)]
  /\ mode' = "reinsert"
  /\ UNCHANGED <<clock, lastId, timers, checkNow>>

Reinsert ==
  /\ mode = "reinsert"
  /\ Insert(firing)
  /\ firing' = NoNode
  /\ mode' = "callback"
  /\ UNCHANGED <<clock, lastId, timers, timer, checkNow, callId>>

(* timer_cb(timer_id)                                                      *)
CallbackBegins ==
  /\ mode = "callback" /\ op = "none"
  /\ mode' = "inCallback"
  /\ UNCHANGED <<heapVars, clock, lastId, timers, timer, checkNow, firing, callId>>

CallbackReturns ==
  /\ mode = "inCallback" /\ op = "none"
  /\ mode' = "check"
  /\ callId' = NoId
  /\ UNCHANGED <<heapVars, clock, lastId, timers, timer, checkNow, firing>>

(* ~TimerHeap(): every timer of the map is deleted.                        *)
Destroy ==
  /\ mode = "idle" /\ op = "none"
  /\ timer' = [v \in Nodes |-> IF \E id \in DOMAIN timers : timers[id] = v
                               THEN Freed ELSE timer[v]]
  /\ timers' = [id \in {} |-> NoNode]
  /\ heap' = <<>>
  /\ mode' = "gone"
  /\ UNCHANGED <<heapPos, op, cur, clock, lastId, checkNow, firing, callId>>

HeapLoop == (SiftUp \/ SiftDown) /\ UNCHANGED timerVars

(* Time passes, or the real-time clock is set.                             *)
ClockMoves ==
  /\ mode # "gone"
  /\ clock' \in {clock + d : d \in ClockSteps} \cap (0..MaxTime)
  /\ UNCHANGED <<heapVars, lastId, timers, timer, checkVars>>

CheckStep == CheckReturns \/ FireLast \/ FireAgain \/ Reinsert \/ CallbackBegins

Next ==
  \/ \E request \in Requests : AddTimer(request)
  \/ AddTimerFails
  \/ \E id \in DOMAIN timers : RemoveTimer(id)
  \/ CheckTimeout
  \/ CheckStep
  \/ CallbackReturns
  \/ HeapLoop
  \/ ClockMoves
  \/ Destroy
  \/ mode = "gone" /\ UNCHANGED vars

Spec == Init /\ [][Next]_vars

(* The code of the heap runs to its end; a callback makes finitely many    *)
(* calls and returns; time passes; and the program calls checkTimeout()    *)
(* again and again (the loop of test/main.cc:39-51).                       *)
Fairness ==
  /\ WF_vars(HeapLoop)
  /\ WF_vars(CheckStep)
  /\ SF_vars(CallbackReturns)
  /\ WF_vars(ClockMoves)
  /\ SF_vars(CheckTimeout)

FairSpec == Spec /\ Fairness

-----------------------------------------------------------------------------
TimerRecord == [id : Ids, deadline : Int, timeout : Nat, callTimes : Int]

TypeOK ==
  /\ HeapTypeOK
  /\ clock \in 0..MaxTime /\ checkNow \in 0..MaxTime
  /\ lastId \in Ids
  /\ DOMAIN timers \subseteq Ids
  /\ \A id \in DOMAIN timers : timers[id] \in Nodes
  /\ timer \in [Nodes -> TimerRecord \cup {Freed}]
  /\ mode \in {"idle", "check", "reinsert", "callback", "inCallback", "gone"}
  /\ firing \in Nodes \cup {NoNode}
  /\ firing # NoNode <=> mode = "reinsert"
  /\ callId \in Ids \cup {NoId}

(* The map and the heap name the same live timers, whatever the callbacks  *)
(* did: no timer leaks, and none is used, or freed again, after delete.    *)
HeapMapAgree ==
  /\ \A id \in DOMAIN timers : timers[id] \in Live /\ timer[timers[id]].id = id
  /\ \A v \in Live : timer[v].id \in DOMAIN timers /\ timers[timer[v].id] = v
  /\ Live = Members \cup ({firing} \ {NoNode})
  /\ firing \notin Members

(* TimerService: a timer added for n > 0 calls gets as many and goes away; *)
(* one added for 0 or fewer is called until it is removed; its deadlines   *)
(* are whole periods apart, however late the checks, wherever the clock    *)
(* jumps and whatever callbacks do; no timer is called before its time,    *)
(* after its removal or twice for one deadline.  (Every period has to fit  *)
(* in an int: see AsInt.)                                                  *)
Plus(t, ms) == t + ms
NotAfter(t, u) == t <= u
Service == INSTANCE TimerService
  WITH TimerIds <- Ids, NoTimer <- NoId, Start <- 0, Later <- Plus, IsDue <- NotAfter,
       pending <- [id \in DOMAIN timers |->
                     [deadline |-> timer[timers[id]].deadline,
                      timeout  |-> timer[timers[id]].timeout,
                      left     |-> AtLeast0(timer[timers[id]].callTimes)]],
       phase <- IF mode \in {"reinsert", "inCallback"} THEN "callback" ELSE mode,
       checkedAt <- IF mode \in {"idle", "gone"} THEN 0 ELSE checkNow, calling <- callId
TimerServiceSpec == Service!ServiceSpec

(* A timer that is called until it is removed: call_times of 0 or less. -1 *)
(* is the default (timer_heap.h:23).                                       *)
EndlessTimer == \E v \in Live : timer[v].callTimes < 1

(* checkTimeout() returns, unless an endless timer has a period of 0: such *)
(* a timer is due again as soon as it was called (timer_heap.cc:194).      *)
EndlessWithoutPeriod ==
  \E v \in Live : timer[v].callTimes < 1 /\ AsInt(timer[v].timeout) < 1
CheckTimeoutReturns == (mode = "check") ~> (mode = "idle" \/ EndlessWithoutPeriod)

(* While no timer is endless, a timer with a finite number of calls makes  *)
(* them and goes away, the more so once the endless ones are removed.  An  *)
(* endless timer can starve it: the heap compares addresses                *)
(* (min_heap.h:40), so that one at a lower address is back at the top      *)
(* after each call, and checkTimeout() returns at it when it is not due    *)
(* (timer_heap.cc:177-179).                                                *)
TimersDrain == \A v \in Nodes : (v \in Live) ~> (v \notin Live \/ EndlessTimer)

(* "smaller up and bigger down" (min_heap.h:39): the timer at the top is   *)
(* the first to expire.                                                    *)
SmallerUp ==
  op = "none" =>
    \A i \in 2..Len(heap) : timer[heap[i \div 2]].deadline <= timer[heap[i]].deadline
=============================================================================
