--------------------------- MODULE ConcurrentQueue ---------------------------
(***************************************************************************)
(* yut::base::ConcurrentQueue<T> (base/concurrent_queue.h): a FIFO guarded *)
(* by one mutex, with one condition variable per direction.                *)
(*                                                                         *)
(* Every method body runs with data_mutex_ held and every access to        *)
(* queue_ is inside one, so the code between two points where the mutex is *)
(* released (the end of the method, a wait on a condition variable) is one *)
(* action.  A thread inside cond.wait() is in the Waiting set of that      *)
(* condition variable; once it was notified, or woke up spuriously, it is  *)
(* in the Woken set until it gets the mutex back and re-tests the loop     *)
(* condition.  Other threads may take the mutex before it does.            *)
(***************************************************************************)
EXTENDS Naturals, Sequences, FiniteSets

CONSTANTS
  Threads,   \* the threads that use the queue
  Items,     \* the values of type T
  MaxSize,   \* max_size_: the capacity, 0 when the queue is not bounded
  NoItem     \* the argument of a thread that is not inside push()

ASSUME ThreadsAssumption == IsFiniteSet(Threads)
ASSUME MaxSizeAssumption == MaxSize \in Nat
ASSUME NoItemAssumption  == NoItem \notin Items

VARIABLES
  queue,             \* queue_
  arg,               \* arg[t]: the item of the push() that thread t is in
  notFullWaiting,    \* threads inside not_full_cond_.wait()
  notFullWoken,      \* threads that left that wait and want data_mutex_
  notEmptyWaiting,   \* threads inside not_empty_cond_.wait()
  notEmptyWoken      \* threads that left that wait and want data_mutex_

notFullVars  == <<notFullWaiting, notFullWoken>>
notEmptyVars == <<notEmptyWaiting, notEmptyWoken>>
vars == <<queue, arg, notFullVars, notEmptyVars>>

isBounded  == MaxSize # 0
fullNoLock == isBounded /\ Len(queue) >= MaxSize

InPush == notFullWaiting \cup notFullWoken
InPop  == notEmptyWaiting \cup notEmptyWoken
Idle(t) == t \notin InPush \cup InPop

Init ==
  /\ queue = <<>>
  /\ arg = [t \in Threads |-> NoItem]
  /\ notFullWaiting = {}  /\ notFullWoken = {}
  /\ notEmptyWaiting = {} /\ notEmptyWoken = {}

-----------------------------------------------------------------------------
(* notify_one: some waiting thread is woken, if there is one.  The Mut...  *)
(* operators of this module are plausible bugs, used by no definition: each *)
(* stands for the definition below it and breaks one property.             *)

(* "Nobody can be waiting unless the queue was empty": two pushes in a row *)
(* then wake one popper for two items.                                     *)
MutNotifyOnlyIfWasEmpty ==
  \/ (notEmptyWaiting = {} \/ queue # <<>>) /\ UNCHANGED notEmptyVars
  \/ \E w \in notEmptyWaiting :
       /\ queue = <<>>
       /\ notEmptyWaiting' = notEmptyWaiting \ {w}
       /\ notEmptyWoken' = notEmptyWoken \cup {w}

NotifyNotEmpty ==
  \/ notEmptyWaiting = {} /\ UNCHANGED notEmptyVars
  \/ \E w \in notEmptyWaiting :
       /\ notEmptyWaiting' = notEmptyWaiting \ {w}
       /\ notEmptyWoken' = notEmptyWoken \cup {w}

(* The same shortcut on the other side: "... unless the queue was full".   *)
MutNotifyOnlyIfWasFull ==
  \/ (notFullWaiting = {} \/ ~fullNoLock) /\ UNCHANGED notFullVars
  \/ \E w \in notFullWaiting :
       /\ fullNoLock
       /\ notFullWaiting' = notFullWaiting \ {w}
       /\ notFullWoken' = notFullWoken \cup {w}

NotifyNotFull ==
  \/ notFullWaiting = {} /\ UNCHANGED notFullVars
  \/ \E w \in notFullWaiting :
       /\ notFullWaiting' = notFullWaiting \ {w}
       /\ notFullWoken' = notFullWoken \cup {w}

(* emplace_back and notify: push() past its loop, pushIfNotFull() past its *)
(* test.                                                                   *)
Enqueue(item) ==
  /\ ~fullNoLock
  /\ queue' = Append(queue, item)
  /\ NotifyNotEmpty

(* A pop that forgets the pushers.                                         *)
MutDequeueNoNotify ==
  /\ queue # <<>>
  /\ queue' = Tail(queue)
  /\ UNCHANGED notFullVars

(* front, pop_front and notify: pop() past its loop, popIfNotEmpty() past  *)
(* its test.  The caller receives Head(queue).                             *)
Dequeue ==
  /\ queue # <<>>
  /\ queue' = Tail(queue)
  /\ NotifyNotFull

(* The item is moved out of the caller's variable before the wait.         *)
MutPushLoopMovesItem(t, item) ==
  \/ /\ Enqueue(item)
     /\ arg' = [arg EXCEPT ![t] = NoItem]
     /\ notFullWoken' = notFullWoken \ {t}
     /\ UNCHANGED notFullWaiting
  \/ /\ fullNoLock
     /\ notFullWaiting' = notFullWaiting \cup {t}
     /\ notFullWoken' = notFullWoken \ {t}
     /\ UNCHANGED <<arg, queue, notEmptyVars>>

(* One evaluation of the while loop of push(), with the mutex held.        *)
PushLoop(t, item) ==
  \/ /\ Enqueue(item)
     /\ arg' = [arg EXCEPT ![t] = NoItem]
     /\ notFullWoken' = notFullWoken \ {t}
     /\ UNCHANGED notFullWaiting
  \/ /\ fullNoLock
     /\ arg' = [arg EXCEPT ![t] = item]
     /\ notFullWaiting' = notFullWaiting \cup {t}
     /\ notFullWoken' = notFullWoken \ {t}
     /\ UNCHANGED <<queue, notEmptyVars>>

(* One evaluation of the while loop of pop(), with the mutex held.         *)
PopLoop(t) ==
  \/ /\ Dequeue
     /\ notEmptyWoken' = notEmptyWoken \ {t}
     /\ UNCHANGED <<arg, notEmptyWaiting>>
  \/ /\ queue = <<>>
     /\ notEmptyWaiting' = notEmptyWaiting \cup {t}
     /\ notEmptyWoken' = notEmptyWoken \ {t}
     /\ UNCHANGED <<queue, arg, notFullVars>>

Push(t, item) == Idle(t) /\ PushLoop(t, item)

(* "if (fullNoLock())" for "while (fullNoLock())": no test after the wait. *)
MutResumePushNoRetest(t) ==
  /\ t \in notFullWoken
  /\ queue' = Append(queue, arg[t])
  /\ NotifyNotEmpty
  /\ arg' = [arg EXCEPT ![t] = NoItem]
  /\ notFullWoken' = notFullWoken \ {t}
  /\ UNCHANGED notFullWaiting

ResumePush(t) == t \in notFullWoken /\ PushLoop(t, arg[t])
Pop(t)        == Idle(t) /\ PopLoop(t)
ResumePop(t)  == t \in notEmptyWoken /\ PopLoop(t)

(* The calls that never wait.  When they return false they, like peek(),   *)
(* size(), empty() and full(), change nothing.                             *)
PushIfNotFull(t, item) == Idle(t) /\ Enqueue(item) /\ UNCHANGED <<arg, notFullVars>>
PopIfNotEmpty(t)       == Idle(t) /\ Dequeue /\ UNCHANGED <<arg, notEmptyVars>>

(* A condition variable may wake a thread that nobody notified.            *)
SpuriousWakeup(t) ==
  \/ /\ t \in notFullWaiting
     /\ notFullWaiting' = notFullWaiting \ {t}
     /\ notFullWoken' = notFullWoken \cup {t}
     /\ UNCHANGED <<queue, arg, notEmptyVars>>
  \/ /\ t \in notEmptyWaiting
     /\ notEmptyWaiting' = notEmptyWaiting \ {t}
     /\ notEmptyWoken' = notEmptyWoken \cup {t}
     /\ UNCHANGED <<queue, arg, notFullVars>>

Next ==
  \E t \in Threads :
    \/ \E item \in Items : Push(t, item) \/ PushIfNotFull(t, item)
    \/ ResumePush(t)
    \/ Pop(t)
    \/ PopIfNotEmpty(t)
    \/ ResumePop(t)
    \/ SpuriousWakeup(t)

Spec == Init /\ [][Next]_vars

-----------------------------------------------------------------------------
(* Types, and that a thread is inside at most one wait at a time.          *)
TypeOK ==
  /\ queue \in Seq(Items)
  /\ arg \in [Threads -> Items \cup {NoItem}]
  /\ notFullWaiting \subseteq Threads  /\ notFullWoken \subseteq Threads
  /\ notEmptyWaiting \subseteq Threads /\ notEmptyWoken \subseteq Threads
  /\ notFullWaiting \cap notFullWoken = {}
  /\ notEmptyWaiting \cap notEmptyWoken = {}
  /\ InPush \cap InPop = {}
  /\ \A t \in InPush : arg[t] \in Items

(* A bounded queue never holds more than max_size_ items, although a       *)
(* notified pusher can find that its slot was taken by a thread that got   *)
(* the mutex first.                                                        *)
CapacityRespected == isBounded => Len(queue) <= MaxSize

(* No lost wakeup of a pusher: when threads wait in push() and none of     *)
(* them has been woken, the queue really is full.                          *)
PushersNotStranded == notFullWaiting # {} /\ notFullWoken = {} => fullNoLock

(* No lost wakeup of a popper: when threads wait in pop() and none of them *)
(* has been woken, the queue really is empty.                              *)
PoppersNotStranded == notEmptyWaiting # {} /\ notEmptyWoken = {} => queue = <<>>

-----------------------------------------------------------------------------
(* The inductive strengthening: while anybody waits, at least one woken    *)
(* thread stands for every free slot, and one for every queued item.       *)
WokenCoverFreeSlots ==
  notFullWaiting # {} =>
    isBounded /\ Cardinality(notFullWoken) + Len(queue) >= MaxSize
WokenCoverItems ==
  notEmptyWaiting # {} => Cardinality(notEmptyWoken) >= Len(queue)

IInv == TypeOK /\ CapacityRespected /\ WokenCoverFreeSlots /\ WokenCoverItems
=============================================================================
