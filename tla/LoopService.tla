----------------------------- MODULE LoopService -----------------------------
(***************************************************************************)
(* yut::net::LoopService (net/loop_service.cc): one thread waits in        *)
(* epoll_wait() for its channels and its timers, and calls their callbacks.*)
(* A callback may do anything with channels and timers, its own included.  *)
(*                                                                         *)
(* The timers are a TimerService, which is what TimerHeap implements, in   *)
(* Timestamps.  mode says where loop() is: "out" of it, at the "top" of    *)
(* its while, in epoll_wait() ("wait"), between two callbacks of one batch *)
(* of events ("dispatch"), in a "callback", or in checkTimeout()           *)
(* ("timers"); "gone" after the destructor.                                *)
(***************************************************************************)
EXTENDS IOChannel, Timestamp

CONSTANTS
  TimerIds, NoTimer,
  Requests,        \* the <<timeout_ms, call_times>> of startTimer()
  Readings,        \* the Timestamps that setNow() may give, in their order
  LastTimer,       \* bound: no timer is started after Readings[LastTimer]
  LastChannel,     \*   and no channel is made after Readings[LastChannel]
  MaxObjects,      \* bound: so many channels and timers at a time
  MaxEpollTimeout, \* MAX_EPOLL_TIMEOUT_MSEC
  IntLimit,        \* 2^31, where int wraps: the timeout of epoll_wait() is an int
  FirstSlots       \* the size of events_ at first

ASSUME SlotsAssumption   == FirstSlots \in Nat \ {0}
ASSUME TimeoutAssumption ==
  IntLimit \in Nat \ {0} /\ MaxEpollTimeout \in 0..(IntLimit - 1)
ASSUME RequestsAssumption == Requests \subseteq Int \X Int
ASSUME ReadingsAssumption ==
  /\ Readings \in Seq([second : Nat, nanosecond : Nat])
  /\ LastTimer \in 1..Len(Readings) /\ LastChannel \in 1..Len(Readings)
  /\ \A i \in 1..Len(Readings) : Normalised(Readings[i])

VARIABLES
  clock, pending, phase, checkedAt, calling,   \* of the TimerService
  mode,
  quit,      \* quit_
  removed,   \* removed_io_channels_
  slots,     \* events_.size()
  full,      \* event_count >= events_.size(), in the round that goes on
  sleep,     \* the epoll_wait() that goes on: [from, timeout]
  batch,     \* the events still to be looked at: [ptr, kinds]
  callee,    \* whose callback runs, and which: <<channel, kind>>
  ready      \* what each descriptor is ready for, while epoll_wait() looks

timerVars == <<clock, pending, phase, checkedAt, calling>>
roundVars == <<full, sleep, batch, callee>>
loopVars  == <<mode, quit, removed, slots, roundVars>>
vars == <<channelVars, timerVars, loopVars, ready>>

IsDue(deadline, now) == ~ MillisecondLess(now, deadline)
Timers == INSTANCE TimerService WITH Start <- Readings[1], Later <- Plus

Awake  == [from |-> Readings[1], timeout |-> 0]
Nobody == <<>>
NotReady == [f \in Fds |-> {}]

(* The constructor, when epoll_create() and fcntl() succeed.               *)
Init ==
  /\ ChannelInit
  /\ Timers!ServiceInit
  /\ mode = "out" /\ quit = FALSE /\ removed = {}
  /\ slots = FirstSlots /\ full = FALSE
  /\ sleep = Awake /\ batch = <<>> /\ callee = Nobody
  /\ ready = NotReady

-----------------------------------------------------------------------------
(* The client: outside loop(), or in a callback.                           *)
ClientRuns == mode \in {"out", "callback"} \/ phase = "callback"

WithinBounds(last) ==
  /\ clock \in {Readings[i] : i \in 1..last}
  /\ Cardinality(alive) + Cardinality(DOMAIN pending) < MaxObjects

(* removeIOChannel(), which detachLoopService() calls, records the removal *)
(* if the descriptor was registered.                                       *)
RemovedWith(c) ==
  IF c \in attached /\ fd[c] \in DOMAIN interest THEN removed \cup {c} ELSE removed

(* The Mut... operators are plausible bugs, used by no definition: each    *)
(* stands for the definition below it and breaks one property.             *)
(* addIOChannel() takes the channel off the removed ones.                  *)
MutAttaches(c) == Attach(c) /\ removed' = RemovedWith(c) \ {c}

Attaches(c) == Attach(c) /\ removed' = RemovedWith(c)

ChannelCall(c) ==
  /\ ClientRuns
  /\ \/ /\ \/ NewChannel(c) /\ WithinBounds(LastChannel)
           \/ \E f \in Fds : SetDescriptor(c, f)
           \/ \E kind \in Kinds : SetCallback(c, kind)
        /\ UNCHANGED removed
     \/ Attaches(c)
     \/ (AttachFails(c) \/ Detach(c) \/ DeleteChannel(c)) /\ removed' = RemovedWith(c)
  /\ UNCHANGED <<timerVars, mode, quit, slots, roundVars, ready>>

StartTimer(id, request) ==
  /\ ClientRuns /\ WithinBounds(LastTimer)
  /\ Timers!ServiceAdd(id, request)
  /\ UNCHANGED <<channelVars, loopVars, ready>>

StopTimer(id) ==
  /\ ClientRuns
  /\ Timers!ServiceRemove(id)
  /\ UNCHANGED <<channelVars, loopVars, ready>>

(* quit(): outside loop() it is lost.                                      *)
Quit ==
  /\ ClientRuns
  /\ quit' = TRUE
  /\ UNCHANGED <<channelVars, timerVars, mode, removed, slots, roundVars, ready>>

-----------------------------------------------------------------------------
LoopBegins ==
  /\ mode = "out"
  /\ mode' = "top"
  /\ quit' = FALSE
  /\ UNCHANGED <<channelVars, timerVars, removed, slots, roundVars, ready>>

LoopEnds ==
  /\ mode = "top" /\ quit
  /\ mode' = "out"
  /\ UNCHANGED <<channelVars, timerVars, quit, removed, slots, roundVars, ready>>

(* int64_t to int: a timeout of 2^31 ms or more changes its value, before  *)
(* the smaller of it and the longest wait is taken.  Without a timer it is *)
(* -1, which is for ever.                                                  *)
AsInt(n) == ((n + IntLimit) % (2 * IntLimit)) - IntLimit

(* No longest wait.                                                        *)
MutWaitForUncapped(timeout) == AsInt(timeout)

WaitFor(timeout) ==
  IF AsInt(timeout) < MaxEpollTimeout THEN AsInt(timeout) ELSE MaxEpollTimeout

(* getNextTimeoutMillisecond(): any timer may be at the top of the heap.   *)
NextTimeouts ==
  IF DOMAIN pending = {} THEN {-1}
  ELSE {NextTimeout(clock, pending[id].deadline) : id \in DOMAIN pending}

WaitBegins ==
  /\ mode = "top" /\ ~quit
  /\ mode' = "wait"
  /\ \E timeout \in NextTimeouts : sleep' = [from |-> clock, timeout |-> WaitFor(timeout)]
  /\ \E some \in [DOMAIN interest -> SUBSET Kinds] : ready' = [f \in Fds |-> IF f \in DOMAIN interest THEN some[f] ELSE {}]
  /\ UNCHANGED <<channelVars, timerVars, quit, removed, slots, full, batch, callee>>

(* What epoll_wait() has to report: errors even if nobody asked for them.  *)
Events(f) == ready[f] \cap (interest[f].events \cup {"error"})
Reportable == {f \in DOMAIN interest : Events(f) # {}}

(* epoll_wait() returns events: all there are, or as many as events_ takes,*)
(* in any order.                                                           *)
WaitReports ==
  /\ mode = "wait"
  /\ \E fs \in (SUBSET Reportable) \ {{}} :
       /\ Cardinality(fs) <= slots
       /\ Cardinality(fs) < slots => fs = Reportable
       /\ \E order \in [1..Cardinality(fs) -> fs] :
            /\ \A i, j \in DOMAIN order : order[i] = order[j] => i = j
            /\ batch' = [i \in DOMAIN order |->
                           [ptr |-> interest[order[i]].ptr, kinds |-> Events(order[i])]]
       /\ interest' = [f \in DOMAIN interest |-> [interest[f] EXCEPT !.reported = f \in fs]]
       /\ full' = (Cardinality(fs) >= slots)
  /\ mode' = "dispatch"
  /\ sleep' = Awake /\ ready' = NotReady
  /\ UNCHANGED <<alive, fd, on, attached, timerVars, quit, removed, slots, callee>>

(* now.setNow(); timer_heap_.checkTimeout(now)                             *)
TimersChecked == mode' = "timers" /\ Timers!ServiceCheck

(* epoll_wait() returns 0: the whole timeout has passed.                   *)
WaitTimesOut ==
  /\ mode = "wait" /\ Reportable = {} /\ sleep.timeout >= 0
  /\ ~ Less(clock, Plus(sleep.from, sleep.timeout))
  /\ TimersChecked
  /\ full' = FALSE
  /\ sleep' = Awake /\ ready' = NotReady
  /\ UNCHANGED <<channelVars, quit, removed, slots, batch, callee>>

(* The wait goes on with the timeout it began with.                        *)
MutInterruptedWaitsAgain ==
  /\ mode = "wait" /\ Reportable = {} /\ sleep.timeout # 0
  /\ sleep' = [sleep EXCEPT !.from = clock]
  /\ UNCHANGED <<channelVars, timerVars, mode, quit, removed, slots, full, batch, callee, ready>>

(* EINTR: "continue".  A wait of 0 is not interrupted.                     *)
WaitInterrupted ==
  /\ mode = "wait" /\ Reportable = {} /\ sleep.timeout # 0
  /\ mode' = "top"
  /\ sleep' = Awake /\ ready' = NotReady
  /\ UNCHANGED <<channelVars, timerVars, quit, removed, slots, full, batch, callee>>

(* Another error: "break".                                                 *)
WaitFails ==
  /\ mode = "wait"
  /\ mode' = "out"
  /\ sleep' = Awake /\ ready' = NotReady
  /\ UNCHANGED <<channelVars, timerVars, quit, removed, slots, full, batch, callee>>

-----------------------------------------------------------------------------
(* The event that is looked at, and its first kind that is still to come:  *)
(* write, then read, then error.                                           *)
Event == Head(batch)
Kind ==
  CHOOSE kind \in Event.kinds :
    \/ kind = "write"
    \/ kind = "read" /\ "write" \notin Event.kinds
    \/ Event.kinds = {"error"}

(* The channel was removed since the round began, or all is done: the next *)
(* event.                                                                  *)
EventEnds ==
  /\ mode = "dispatch" /\ batch # <<>>
  /\ Event.kinds = {} \/ Event.ptr \in removed
  /\ batch' = Tail(batch)
  /\ UNCHANGED <<channelVars, timerVars, mode, quit, removed, slots, full, sleep, callee, ready>>

(* The callback is called; if it is empty, that throws, and loop() ends    *)
(* with removed_io_channels_ as it is.                                     *)
CallbackBegins ==
  /\ mode = "dispatch" /\ batch # <<>>
  /\ Event.kinds # {} /\ Event.ptr \notin removed
  /\ IF Kind \in on[Event.ptr]
     THEN /\ mode' = "callback"
          /\ callee' = <<Event.ptr, Kind>>
          /\ batch' = [batch EXCEPT ![1].kinds = @ \ {Kind}]
     ELSE /\ mode' = "out"
          /\ callee' = Nobody
          /\ batch' = <<>>
  /\ UNCHANGED <<channelVars, timerVars, quit, removed, slots, full, sleep, ready>>

CallbackReturns ==
  /\ mode = "callback"
  /\ mode' = "dispatch"
  /\ callee' = Nobody
  /\ UNCHANGED <<channelVars, timerVars, quit, removed, slots, full, sleep, batch, ready>>

DispatchEnds ==
  /\ mode = "dispatch" /\ batch = <<>>
  /\ TimersChecked
  /\ UNCHANGED <<channelVars, quit, removed, slots, roundVars, ready>>

TimerFires(id) ==
  /\ Timers!ServiceFire(id)
  /\ UNCHANGED <<channelVars, loopVars, ready>>

TimerReturns ==
  /\ Timers!ServiceReturn
  /\ UNCHANGED <<channelVars, loopVars, ready>>

(* removed_io_channels_ keeps what it has.                                 *)
MutRoundEndsNoClear ==
  /\ mode = "timers" /\ Timers!ServiceCheckEnds
  /\ mode' = "top"
  /\ slots' = IF full THEN slots * 2 ELSE slots
  /\ full' = FALSE
  /\ interest' = [f \in DOMAIN interest |-> [interest[f] EXCEPT !.reported = FALSE]]
  /\ UNCHANGED <<alive, fd, on, attached, removed, quit, sleep, batch, callee, ready>>

(* checkTimeout() returns, and the round is over.                          *)
RoundEnds ==
  /\ mode = "timers" /\ Timers!ServiceCheckEnds
  /\ mode' = "top"
  /\ removed' = {}
  /\ slots' = IF full THEN slots * 2 ELSE slots
  /\ full' = FALSE
  /\ interest' = [f \in DOMAIN interest |-> [interest[f] EXCEPT !.reported = FALSE]]
  /\ UNCHANGED <<alive, fd, on, attached, quit, sleep, batch, callee, ready>>

(* ~LoopService(), outside loop() and with no channel attached.            *)
Destroy ==
  /\ mode = "out" /\ attached = {}
  /\ mode' = "gone"
  /\ Timers!ServiceDestroy
  /\ interest' = [f \in {} |-> {}]
  /\ UNCHANGED <<alive, fd, on, attached, quit, removed, slots, roundVars, ready>>

-----------------------------------------------------------------------------
(* Time passes.  (It stands still while there is no timer to count it.)    *)
ClockMoves ==
  /\ mode # "gone" /\ DOMAIN pending # {}
  /\ \E i \in 2..Len(Readings) : clock = Readings[i - 1] /\ clock' = Readings[i]
  /\ UNCHANGED <<channelVars, pending, phase, checkedAt, calling, loopVars, ready>>

(* A registered descriptor becomes ready for something, or no longer is.   *)
(* (What it is ready for matters to epoll_wait() alone.)                   *)
DescriptorChanges(f, kind) ==
  /\ mode = "wait" /\ f \in DOMAIN interest
  /\ ready' = [ready EXCEPT ![f] = IF kind \in @ THEN @ \ {kind} ELSE @ \cup {kind}]
  /\ UNCHANGED <<channelVars, timerVars, loopVars>>

ClientCall ==
  \/ \E c \in Channels : ChannelCall(c)
  \/ \E id \in TimerIds : StopTimer(id) \/ \E request \in Requests : StartTimer(id, request)
  \/ Quit \/ LoopBegins \/ Destroy

(* What loop() does by itself, one step at a time.                         *)
LoopStep ==
  \/ LoopEnds \/ WaitBegins \/ WaitReports \/ WaitTimesOut
  \/ EventEnds \/ CallbackBegins \/ DispatchEnds
  \/ (\E id \in TimerIds : TimerFires(id)) \/ RoundEnds

Next ==
  \/ ClientCall
  \/ LoopStep
  \/ CallbackReturns \/ TimerReturns
  \/ WaitInterrupted \/ WaitFails
  \/ ClockMoves
  \/ \E f \in Fds, kind \in Kinds : DescriptorChanges(f, kind)
  \/ mode = "gone" /\ UNCHANGED vars

(* loop() goes on; callbacks make finitely many calls and return; time     *)
(* passes.                                                                 *)
Fairness ==
  /\ WF_vars(LoopStep)
  /\ SF_vars(CallbackReturns) /\ SF_vars(TimerReturns)
  /\ WF_vars(ClockMoves)

Spec == Init /\ [][Next]_vars
FairSpec == Spec /\ Fairness

-----------------------------------------------------------------------------
TypeOK ==
  /\ ChannelTypeOK
  /\ clock \in {Readings[i] : i \in 1..Len(Readings)}
  /\ DOMAIN pending \subseteq TimerIds
  /\ \A id \in DOMAIN pending :
       /\ Normalised(pending[id].deadline)
       /\ pending[id].timeout \in Nat /\ pending[id].left \in Nat
  /\ phase \in {"idle", "check", "callback", "gone"}
  /\ mode \in {"out", "top", "wait", "dispatch", "callback", "timers", "gone"}
  /\ phase \in {"check", "callback"} <=> mode = "timers"
  /\ quit \in BOOLEAN /\ full \in BOOLEAN
  /\ slots \in Nat \ {0}
  /\ sleep.from \in {Readings[i] : i \in 1..Len(Readings)}
  /\ sleep.timeout \in Int /\ sleep.timeout <= MaxEpollTimeout
  /\ batch \in Seq([ptr : Channels, kinds : SUBSET Kinds])
  /\ callee \in {Nobody} \cup (Channels \X Kinds)
  /\ callee # Nobody <=> mode = "callback"
  /\ ready \in [Fds -> SUBSET Kinds]
  /\ removed \subseteq Channels

(* A callback is called only on a channel that is there and attached, and  *)
(* only for an event of the registration it has now: not for one that an   *)
(* earlier callback removed, even if it was attached again or another      *)
(* channel got its address (loop_service.cc:165-193).                      *)
NoStaleCall ==
  [][ mode = "dispatch" /\ mode' # "dispatch" /\ batch # <<>> =>
        /\ Event.ptr \in attached
        /\ interest[fd[Event.ptr]].reported ]_vars

(* A wait that times out before the longest one finds a timer due: the     *)
(* loop neither spins nor calls a timer before its time, by a rounding of  *)
(* the timeout (loop_service.cc:153-154, 195-197; timestamp.cc:80-95).     *)
SleepsUntilDue ==
  [][ WaitTimesOut /\ sleep.timeout < MaxEpollTimeout =>
        \E id \in DOMAIN pending : IsDue(pending[id].deadline, checkedAt') ]_vars

Running == mode \notin {"out", "gone"}

(* Whatever the channels do, and however many signals interrupt the wait:  *)
(* a running loop does not leave all its timers due for ever.              *)
TimersServed ==
  []<>(~Running \/ DOMAIN pending = {}
       \/ \E id \in DOMAIN pending : ~IsDue(pending[id].deadline, clock))

(* If channels are not removed for ever, one that stays attached, and in   *)
(* every wait ready to be read, is called again and again while the loop   *)
(* runs: however few slots there are, however busy the others, and even if *)
(* the channel or its address was removed before.                          *)
ReadyServed ==
  (<>[][removed' \subseteq removed]_vars) =>
    \A c \in Channels :
      []<>(\/ ~Running \/ c \notin attached \/ "read" \notin on[c]
           \/ mode = "wait" /\ "read" \notin ready[fd[c]]
           \/ callee = <<c, "read">>)
=============================================================================
