----------------------- MODULE ConcurrentQueueProofs -----------------------
(***************************************************************************)
(* The safety of ConcurrentQueue for any threads, items and capacity.      *)
(*                                                                         *)
(* "Nobody is stranded" is not inductive: a notified thread can find the   *)
(* mutex taken and the slot gone, and waits again.  What every step keeps  *)
(* is a count, IInv: while anybody waits, at least one woken thread stands *)
(* for every free slot (WokenCoverFreeSlots), and for every item           *)
(* (WokenCoverItems).                                                      *)
(***************************************************************************)
EXTENDS ConcurrentQueue, FiniteSetTheorems, SequenceTheorems, TLAPS

USE ThreadsAssumption, MaxSizeAssumption, NoItemAssumption

-----------------------------------------------------------------------------
(* Counting: moving one thread in or out of a set of threads.              *)
LEMMA ThreadCount ==
  ASSUME NEW S, S \subseteq Threads
  PROVE  /\ IsFiniteSet(S)
         /\ Cardinality(S) \in Nat
         /\ S = {} <=> Cardinality(S) = 0
         /\ \A t \in Threads \ S : Cardinality(S \cup {t}) = Cardinality(S) + 1
         /\ \A t \in S : Cardinality(S \ {t}) = Cardinality(S) - 1
<1>1. IsFiniteSet(S)
  BY FS_Subset
<1> QED
  BY <1>1, FS_CardinalityType, FS_EmptySet, FS_AddElement, FS_RemoveElement

(* What push() and pop() do to the sequence.                               *)
LEMMA EnqueueLen ==
  ASSUME NEW s \in Seq(Items), NEW item \in Items
  PROVE  Append(s, item) \in Seq(Items) /\ Len(Append(s, item)) = Len(s) + 1
  OBVIOUS

(* ... and what pop() and popIfNotEmpty() do to it.                        *)
LEMMA DequeueLen ==
  ASSUME NEW s \in Seq(Items), s # <<>>
  PROVE  Tail(s) \in Seq(Items) /\ Len(Tail(s)) = Len(s) - 1 /\ Len(s) > 0
  OBVIOUS

-----------------------------------------------------------------------------
(* A notify keeps the types, and either nobody waited or one thread more   *)
(* is awake.                                                               *)
LEMMA NotifyNotEmptyEffect ==
  ASSUME TypeOK, NotifyNotEmpty
  PROVE  /\ notEmptyWaiting' \subseteq Threads /\ notEmptyWoken' \subseteq Threads
         /\ notEmptyWaiting' \cap notEmptyWoken' = {}
         /\ notEmptyWaiting' \cup notEmptyWoken' = InPop
         /\ notEmptyWaiting' # {} =>
              /\ notEmptyWaiting # {}
              /\ Cardinality(notEmptyWoken') = Cardinality(notEmptyWoken) + 1
<1>1. CASE notEmptyWaiting = {} /\ UNCHANGED notEmptyVars
  BY <1>1 DEF TypeOK, notEmptyVars, InPop
<1>2. ASSUME NEW w \in notEmptyWaiting,
             notEmptyWaiting' = notEmptyWaiting \ {w},
             notEmptyWoken' = notEmptyWoken \cup {w}
      PROVE  /\ notEmptyWaiting' \subseteq Threads /\ notEmptyWoken' \subseteq Threads
             /\ notEmptyWaiting' \cap notEmptyWoken' = {}
             /\ notEmptyWaiting' \cup notEmptyWoken' = InPop
             /\ notEmptyWaiting # {}
             /\ Cardinality(notEmptyWoken') = Cardinality(notEmptyWoken) + 1
  <2>1. notEmptyWoken \subseteq Threads /\ w \in Threads \ notEmptyWoken
    BY DEF TypeOK
  <2>2. Cardinality(notEmptyWoken \cup {w}) = Cardinality(notEmptyWoken) + 1
    BY <2>1, ThreadCount
  <2> QED
    BY <1>2, <2>1, <2>2 DEF TypeOK, InPop
<1> QED
  BY <1>1, <1>2 DEF NotifyNotEmpty

(* The same for the threads inside push().                                 *)
LEMMA NotifyNotFullEffect ==
  ASSUME TypeOK, NotifyNotFull
  PROVE  /\ notFullWaiting' \subseteq Threads /\ notFullWoken' \subseteq Threads
         /\ notFullWaiting' \cap notFullWoken' = {}
         /\ notFullWaiting' \cup notFullWoken' = InPush
         /\ notFullWaiting' # {} =>
              /\ notFullWaiting # {}
              /\ Cardinality(notFullWoken') = Cardinality(notFullWoken) + 1
<1>1. CASE notFullWaiting = {} /\ UNCHANGED notFullVars
  BY <1>1 DEF TypeOK, notFullVars, InPush
<1>2. ASSUME NEW w \in notFullWaiting,
             notFullWaiting' = notFullWaiting \ {w},
             notFullWoken' = notFullWoken \cup {w}
      PROVE  /\ notFullWaiting' \subseteq Threads /\ notFullWoken' \subseteq Threads
             /\ notFullWaiting' \cap notFullWoken' = {}
             /\ notFullWaiting' \cup notFullWoken' = InPush
             /\ notFullWaiting # {}
             /\ Cardinality(notFullWoken') = Cardinality(notFullWoken) + 1
  <2>1. notFullWoken \subseteq Threads /\ w \in Threads \ notFullWoken
    BY DEF TypeOK
  <2>2. Cardinality(notFullWoken \cup {w}) = Cardinality(notFullWoken) + 1
    BY <2>1, ThreadCount
  <2> QED
    BY <1>2, <2>1, <2>2 DEF TypeOK, InPush
<1> QED
  BY <1>1, <1>2 DEF NotifyNotFull

-----------------------------------------------------------------------------
(* One turn of the loop of push() keeps the types.                         *)
LEMMA PushLoopType ==
  ASSUME TypeOK, NEW t \in Threads, NEW item \in Items,
         t \notin notFullWaiting, t \notin InPop, PushLoop(t, item)
  PROVE  TypeOK'
<1>1. CASE Enqueue(item) /\ arg' = [arg EXCEPT ![t] = NoItem]
           /\ notFullWoken' = notFullWoken \ {t} /\ UNCHANGED notFullWaiting
  <2>1. queue' \in Seq(Items)
    BY <1>1, EnqueueLen DEF Enqueue, TypeOK
  <2>2. /\ notEmptyWaiting' \subseteq Threads /\ notEmptyWoken' \subseteq Threads
        /\ notEmptyWaiting' \cap notEmptyWoken' = {}
        /\ InPop' = InPop
    BY <1>1, NotifyNotEmptyEffect DEF Enqueue, InPop
  <2> QED
    BY <1>1, <2>1, <2>2 DEF TypeOK, InPush
<1>2. CASE fullNoLock /\ arg' = [arg EXCEPT ![t] = item]
           /\ notFullWaiting' = notFullWaiting \cup {t}
           /\ notFullWoken' = notFullWoken \ {t} /\ UNCHANGED <<queue, notEmptyVars>>
  BY <1>2 DEF TypeOK, InPush, InPop, notEmptyVars
<1> QED
  BY <1>1, <1>2 DEF PushLoop

(* One turn of the loop of pop() keeps the types.                          *)
LEMMA PopLoopType ==
  ASSUME TypeOK, NEW t \in Threads,
         t \notin notEmptyWaiting, t \notin InPush, PopLoop(t)
  PROVE  TypeOK'
<1>1. CASE Dequeue /\ notEmptyWoken' = notEmptyWoken \ {t}
           /\ UNCHANGED <<arg, notEmptyWaiting>>
  <2>1. queue' \in Seq(Items)
    BY <1>1, DequeueLen DEF Dequeue, TypeOK
  <2>2. /\ notFullWaiting' \subseteq Threads /\ notFullWoken' \subseteq Threads
        /\ notFullWaiting' \cap notFullWoken' = {}
        /\ InPush' = InPush
    BY <1>1, NotifyNotFullEffect DEF Dequeue, InPush
  <2> QED
    BY <1>1, <2>1, <2>2 DEF TypeOK, InPop
<1>2. CASE queue = <<>> /\ notEmptyWaiting' = notEmptyWaiting \cup {t}
           /\ notEmptyWoken' = notEmptyWoken \ {t}
           /\ UNCHANGED <<queue, arg, notFullVars>>
  BY <1>2 DEF TypeOK, InPush, InPop, notFullVars
<1> QED
  BY <1>1, <1>2 DEF PopLoop

(* Every step of every thread keeps the types.                             *)
LEMMA TypePreserved == TypeOK /\ [Next]_vars => TypeOK'
<1> SUFFICES ASSUME TypeOK, [Next]_vars PROVE TypeOK'
  OBVIOUS
<1>1. ASSUME NEW t \in Threads, NEW item \in Items, Push(t, item) PROVE TypeOK'
  BY <1>1, PushLoopType DEF Push, Idle, InPush, InPop
<1>2. ASSUME NEW t \in Threads, NEW item \in Items, PushIfNotFull(t, item) PROVE TypeOK'
  <2>1. queue' \in Seq(Items)
    BY <1>2, EnqueueLen DEF PushIfNotFull, Enqueue, TypeOK
  <2>2. /\ notEmptyWaiting' \subseteq Threads /\ notEmptyWoken' \subseteq Threads
        /\ notEmptyWaiting' \cap notEmptyWoken' = {}
        /\ InPop' = InPop
    BY <1>2, NotifyNotEmptyEffect DEF PushIfNotFull, Enqueue, InPop
  <2> QED
    BY <1>2, <2>1, <2>2 DEF PushIfNotFull, notFullVars, TypeOK, InPush
<1>3. ASSUME NEW t \in Threads, ResumePush(t) PROVE TypeOK'
  <2>1. arg[t] \in Items /\ t \notin notFullWaiting /\ t \notin InPop
    BY <1>3 DEF ResumePush, TypeOK, InPush
  <2> QED
    BY <1>3, <2>1, PushLoopType DEF ResumePush
<1>4. ASSUME NEW t \in Threads, Pop(t) PROVE TypeOK'
  BY <1>4, PopLoopType DEF Pop, Idle, InPush, InPop
<1>5. ASSUME NEW t \in Threads, PopIfNotEmpty(t) PROVE TypeOK'
  <2>1. queue' \in Seq(Items)
    BY <1>5, DequeueLen DEF PopIfNotEmpty, Dequeue, TypeOK
  <2>2. /\ notFullWaiting' \subseteq Threads /\ notFullWoken' \subseteq Threads
        /\ notFullWaiting' \cap notFullWoken' = {}
        /\ InPush' = InPush
    BY <1>5, NotifyNotFullEffect DEF PopIfNotEmpty, Dequeue, InPush
  <2> QED
    BY <1>5, <2>1, <2>2 DEF PopIfNotEmpty, notEmptyVars, TypeOK, InPop
<1>6. ASSUME NEW t \in Threads, ResumePop(t) PROVE TypeOK'
  BY <1>6, PopLoopType DEF ResumePop, TypeOK, InPop, InPush
<1>7. ASSUME NEW t \in Threads, SpuriousWakeup(t) PROVE TypeOK'
  BY <1>7 DEF SpuriousWakeup, TypeOK, InPush, InPop, notFullVars, notEmptyVars
<1>8. ASSUME UNCHANGED vars PROVE TypeOK'
  BY <1>8 DEF vars, notFullVars, notEmptyVars, TypeOK, InPush, InPop
<1> QED
  BY <1>1, <1>2, <1>3, <1>4, <1>5, <1>6, <1>7, <1>8 DEF Next

(* Every reachable state is well-typed: no thread is in two waits, and a   *)
(* thread inside push() still has its item (concurrent_queue.h:48-94).     *)
THEOREM TypeCorrect == Spec => []TypeOK
<1>1. Init => TypeOK
  BY DEF Init, TypeOK, InPush, InPop
<1> QED
  BY <1>1, TypePreserved, PTL DEF Spec

-----------------------------------------------------------------------------
Counts == CapacityRespected /\ WokenCoverFreeSlots /\ WokenCoverItems

(* Appending an item, with the notify of a popper that goes with it, keeps *)
(* the counts even when the appending thread leaves notFullWoken: the slot *)
(* it stood for is gone too.                                               *)
LEMMA EnqueueCounts ==
  ASSUME IInv, NEW t \in Threads, NEW item \in Items, Enqueue(item),
         notFullWoken' = notFullWoken \ {t} \/ notFullWoken' = notFullWoken,
         UNCHANGED notFullWaiting
  PROVE  Counts'
<1> DEFINE poppers == Cardinality(notEmptyWoken)
           pushers == Cardinality(notFullWoken)
<1>1. queue \in Seq(Items) /\ Len(queue) \in Nat
  BY DEF IInv, TypeOK
<1>2. Len(queue') = Len(queue) + 1
  BY <1>1, EnqueueLen DEF Enqueue
<1>3. isBounded => Len(queue) < MaxSize
  BY <1>1 DEF Enqueue, fullNoLock
<1>4. pushers \in Nat /\ poppers \in Nat
  BY ThreadCount DEF IInv, TypeOK
<1>5. Cardinality(notFullWoken') \in {pushers, pushers - 1}
  <2>1. notFullWoken \subseteq Threads
    BY DEF IInv, TypeOK
  <2>2. CASE notFullWoken' = notFullWoken
    BY <2>2
  <2>3. CASE notFullWoken' = notFullWoken \ {t} /\ t \in notFullWoken
    BY <2>1, <2>3, ThreadCount
  <2>4. CASE notFullWoken' = notFullWoken \ {t} /\ t \notin notFullWoken
    <3>1. notFullWoken' = notFullWoken
      BY <2>4
    <3> QED
      BY <3>1
  <2> QED
    BY <2>2, <2>3, <2>4
<1>6. CapacityRespected'
  BY <1>1, <1>2, <1>3 DEF CapacityRespected, isBounded
<1>7. WokenCoverFreeSlots'
  <2>1. notFullWaiting # {} => isBounded /\ pushers + Len(queue) >= MaxSize
    BY DEF IInv, WokenCoverFreeSlots
  <2>2. notFullWaiting # {} =>
          isBounded /\ Cardinality(notFullWoken') + Len(queue') >= MaxSize
    BY <1>1, <1>2, <1>4, <1>5, <2>1
  <2> QED
    BY <2>2 DEF WokenCoverFreeSlots, isBounded
<1>8. WokenCoverItems'
  <2>1. TypeOK /\ NotifyNotEmpty
    BY DEF IInv, Enqueue
  <2>2. notEmptyWaiting' # {} =>
          notEmptyWaiting # {} /\ Cardinality(notEmptyWoken') = poppers + 1
    BY <2>1, NotifyNotEmptyEffect
  <2>3. notEmptyWaiting # {} => poppers >= Len(queue)
    BY DEF IInv, WokenCoverItems
  <2>4. notEmptyWaiting' # {} => Cardinality(notEmptyWoken') >= Len(queue')
    BY <1>1, <1>2, <1>4, <2>2, <2>3
  <2> QED
    BY <2>4 DEF WokenCoverItems
<1> QED
  BY <1>6, <1>7, <1>8 DEF Counts

(* The mirror image: removing an item and notifying a pusher.              *)
LEMMA DequeueCounts ==
  ASSUME IInv, NEW t \in Threads, Dequeue,
         notEmptyWoken' = notEmptyWoken \ {t} \/ notEmptyWoken' = notEmptyWoken,
         UNCHANGED notEmptyWaiting
  PROVE  Counts'
<1> DEFINE poppers == Cardinality(notEmptyWoken)
           pushers == Cardinality(notFullWoken)
<1>1. queue \in Seq(Items) /\ Len(queue) \in Nat
  BY DEF IInv, TypeOK
<1>2. Len(queue') = Len(queue) - 1 /\ Len(queue) > 0
  BY <1>1, DequeueLen DEF Dequeue
<1>3. pushers \in Nat /\ poppers \in Nat
  BY ThreadCount DEF IInv, TypeOK
<1>4. Cardinality(notEmptyWoken') \in {poppers, poppers - 1}
  <2>1. notEmptyWoken \subseteq Threads
    BY DEF IInv, TypeOK
  <2>2. CASE notEmptyWoken' = notEmptyWoken
    BY <2>2
  <2>3. CASE notEmptyWoken' = notEmptyWoken \ {t} /\ t \in notEmptyWoken
    BY <2>1, <2>3, ThreadCount
  <2>4. CASE notEmptyWoken' = notEmptyWoken \ {t} /\ t \notin notEmptyWoken
    <3>1. notEmptyWoken' = notEmptyWoken
      BY <2>4
    <3> QED
      BY <3>1
  <2> QED
    BY <2>2, <2>3, <2>4
<1>5. CapacityRespected'
  <2>1. isBounded => Len(queue) <= MaxSize
    BY DEF IInv, CapacityRespected
  <2>2. isBounded => Len(queue') <= MaxSize
    BY <1>1, <1>2, <2>1
  <2> QED
    BY <2>2 DEF CapacityRespected, isBounded
<1>6. WokenCoverFreeSlots'
  <2>1. TypeOK /\ NotifyNotFull
    BY DEF IInv, Dequeue
  <2>2. notFullWaiting' # {} =>
          notFullWaiting # {} /\ Cardinality(notFullWoken') = pushers + 1
    BY <2>1, NotifyNotFullEffect
  <2>3. notFullWaiting # {} => isBounded /\ pushers + Len(queue) >= MaxSize
    BY DEF IInv, WokenCoverFreeSlots
  <2>4. notFullWaiting' # {} =>
          isBounded /\ Cardinality(notFullWoken') + Len(queue') >= MaxSize
    BY <1>1, <1>2, <1>3, <2>2, <2>3
  <2> QED
    BY <2>4 DEF WokenCoverFreeSlots, isBounded
<1>7. WokenCoverItems'
  <2>1. notEmptyWaiting # {} => poppers >= Len(queue)
    BY DEF IInv, WokenCoverItems
  <2>2. notEmptyWaiting # {} => Cardinality(notEmptyWoken') >= Len(queue')
    BY <1>1, <1>2, <1>3, <1>4, <2>1
  <2> QED
    BY <2>2 DEF WokenCoverItems
<1> QED
  BY <1>5, <1>6, <1>7 DEF Counts

(* A thread that goes to sleep does so in a state where the count of its   *)
(* side asks for nobody to be awake.                                       *)
LEMMA SleepCounts ==
  ASSUME IInv, TypeOK', NEW t \in Threads, queue' = queue,
         \/ /\ fullNoLock
            /\ notFullWaiting' = notFullWaiting \cup {t}
            /\ notFullWoken' = notFullWoken \ {t}
            /\ UNCHANGED notEmptyVars
         \/ /\ queue = <<>>
            /\ notEmptyWaiting' = notEmptyWaiting \cup {t}
            /\ notEmptyWoken' = notEmptyWoken \ {t}
            /\ UNCHANGED notFullVars
  PROVE  Counts'
<1>1. Cardinality(notFullWoken') \in Nat /\ Cardinality(notEmptyWoken') \in Nat
  BY ThreadCount DEF TypeOK
<1>2. CapacityRespected'
  BY DEF IInv, CapacityRespected, isBounded
<1>3. CASE fullNoLock /\ UNCHANGED notEmptyVars
  BY <1>1, <1>2, <1>3
     DEF IInv, Counts, WokenCoverFreeSlots, WokenCoverItems, notEmptyVars,
         fullNoLock, isBounded, TypeOK
<1>4. CASE queue = <<>> /\ UNCHANGED notFullVars
  <2>1. WokenCoverItems'
    BY <1>1, <1>4 DEF WokenCoverItems
  <2>2. WokenCoverFreeSlots'
    BY <1>4 DEF IInv, WokenCoverFreeSlots, notFullVars, isBounded
  <2> QED
    BY <1>2, <2>1, <2>2 DEF Counts
<1> QED
  BY <1>3, <1>4

(* A spurious wakeup only adds to the threads that are awake.              *)
LEMMA SpuriousWakeupCounts ==
  ASSUME IInv, NEW t \in Threads, SpuriousWakeup(t)
  PROVE  Counts'
<1>1. /\ notFullWoken \subseteq Threads /\ notFullWaiting \cap notFullWoken = {}
      /\ notEmptyWoken \subseteq Threads /\ notEmptyWaiting \cap notEmptyWoken = {}
      /\ Len(queue) \in Nat
  BY DEF IInv, TypeOK
<1>2. /\ Cardinality(notFullWoken) \in Nat /\ Cardinality(notEmptyWoken) \in Nat
      /\ t \notin notFullWoken =>
           Cardinality(notFullWoken \cup {t}) = Cardinality(notFullWoken) + 1
      /\ t \notin notEmptyWoken =>
           Cardinality(notEmptyWoken \cup {t}) = Cardinality(notEmptyWoken) + 1
  BY <1>1, ThreadCount
<1>3. queue' = queue /\ CapacityRespected'
  BY DEF SpuriousWakeup, IInv, CapacityRespected, isBounded
<1>4. CASE t \in notFullWaiting /\ UNCHANGED notEmptyVars
           /\ notFullWoken' = notFullWoken \cup {t}
  <2>1. Cardinality(notFullWoken') = Cardinality(notFullWoken) + 1
    BY <1>1, <1>2, <1>4
  <2>2. isBounded /\ Cardinality(notFullWoken) + Len(queue) >= MaxSize
    BY <1>4 DEF IInv, WokenCoverFreeSlots
  <2>3. isBounded /\ Cardinality(notFullWoken') + Len(queue') >= MaxSize
    BY <1>1, <1>2, <1>3, <2>1, <2>2
  <2>4. WokenCoverItems'
    BY <1>3, <1>4 DEF IInv, WokenCoverItems, notEmptyVars
  <2> QED
    BY <1>3, <2>3, <2>4 DEF Counts, WokenCoverFreeSlots, isBounded
<1>5. CASE t \in notEmptyWaiting /\ UNCHANGED notFullVars
           /\ notEmptyWoken' = notEmptyWoken \cup {t}
  <2>1. Cardinality(notEmptyWoken') = Cardinality(notEmptyWoken) + 1
    BY <1>1, <1>2, <1>5
  <2>2. Cardinality(notEmptyWoken) >= Len(queue)
    BY <1>5 DEF IInv, WokenCoverItems
  <2>3. Cardinality(notEmptyWoken') >= Len(queue')
    BY <1>1, <1>2, <1>3, <2>1, <2>2
  <2>4. WokenCoverFreeSlots'
    BY <1>3, <1>5 DEF IInv, WokenCoverFreeSlots, notFullVars, isBounded
  <2> QED
    BY <1>3, <2>3, <2>4 DEF Counts, WokenCoverItems
<1>6. \/ t \in notFullWaiting /\ UNCHANGED notEmptyVars /\ notFullWoken' = notFullWoken \cup {t}
      \/ t \in notEmptyWaiting /\ UNCHANGED notFullVars /\ notEmptyWoken' = notEmptyWoken \cup {t}
  BY DEF SpuriousWakeup, notFullVars, notEmptyVars
<1> QED
  BY <1>4, <1>5, <1>6

-----------------------------------------------------------------------------
(* IInv is inductive.                                                      *)
LEMMA IInvPreserved == IInv /\ [Next]_vars => IInv'
<1> SUFFICES ASSUME IInv, [Next]_vars PROVE IInv'
  OBVIOUS
<1>0. TypeOK /\ TypeOK'
  BY TypePreserved DEF IInv
<1>1. ASSUME NEW t \in Threads, NEW item \in Items, PushLoop(t, item) PROVE Counts'
  <2>1. CASE Enqueue(item) /\ notFullWoken' = notFullWoken \ {t}
             /\ UNCHANGED notFullWaiting
    BY <2>1, EnqueueCounts
  <2>2. CASE fullNoLock /\ notFullWaiting' = notFullWaiting \cup {t}
             /\ notFullWoken' = notFullWoken \ {t} /\ UNCHANGED <<queue, notEmptyVars>>
    BY <1>0, <2>2, SleepCounts
  <2> QED
    BY <1>1, <2>1, <2>2 DEF PushLoop
<1>2. ASSUME NEW t \in Threads, PopLoop(t) PROVE Counts'
  <2>1. CASE Dequeue /\ notEmptyWoken' = notEmptyWoken \ {t}
             /\ UNCHANGED notEmptyWaiting
    BY <2>1, DequeueCounts
  <2>2. CASE queue = <<>> /\ notEmptyWaiting' = notEmptyWaiting \cup {t}
             /\ notEmptyWoken' = notEmptyWoken \ {t} /\ UNCHANGED <<queue, notFullVars>>
    BY <1>0, <2>2, SleepCounts
  <2> QED
    BY <1>2, <2>1, <2>2 DEF PopLoop
<1>3. ASSUME NEW t \in Threads, NEW item \in Items, PushIfNotFull(t, item) PROVE Counts'
  BY <1>3, EnqueueCounts DEF PushIfNotFull, notFullVars
<1>4. ASSUME NEW t \in Threads, PopIfNotEmpty(t) PROVE Counts'
  BY <1>4, DequeueCounts DEF PopIfNotEmpty, notEmptyVars
<1>5. ASSUME NEW t \in Threads, SpuriousWakeup(t) PROVE Counts'
  BY <1>5, SpuriousWakeupCounts
<1>6. ASSUME UNCHANGED vars PROVE Counts'
  BY <1>6 DEF vars, notFullVars, notEmptyVars, IInv, Counts, CapacityRespected,
     WokenCoverFreeSlots, WokenCoverItems, isBounded
<1>7. ASSUME NEW t \in Threads, ResumePush(t) PROVE Counts'
  BY <1>0, <1>1, <1>7 DEF ResumePush, TypeOK, InPush
<1>8. Counts'
  BY <1>1, <1>2, <1>3, <1>4, <1>5, <1>6, <1>7 DEF Next, Push, Pop, ResumePop
<1> QED
  BY <1>0, <1>8 DEF IInv, Counts

(* The counts hold in every reachable state.                               *)
LEMMA IInvHolds == Spec => []IInv
<1>1. Init => IInv
  <2> SUFFICES ASSUME Init PROVE IInv
    OBVIOUS
  <2>1. TypeOK
    BY DEF Init, TypeOK, InPush, InPop
  <2>2. Len(queue) = 0
    BY DEF Init
  <2> QED
    BY <2>1, <2>2 DEF Init, IInv, CapacityRespected, WokenCoverFreeSlots, WokenCoverItems
<1> QED
  BY <1>1, IInvPreserved, PTL DEF Spec

(* A bounded queue never holds more than max_size_ items, whoever takes    *)
(* the mutex first after a notify (concurrent_queue.h:48-57).              *)
THEOREM CapacityCorrect == Spec => []CapacityRespected
<1>1. IInv => CapacityRespected
  BY DEF IInv
<1> QED
  BY <1>1, IInvHolds, PTL

(* No pusher sleeps through a free slot: one notify_one per pop is enough  *)
(* (concurrent_queue.h:70-94).                                             *)
THEOREM NoPusherStranded == Spec => []PushersNotStranded
<1>1. IInv => PushersNotStranded
  <2> SUFFICES ASSUME IInv, notFullWaiting # {}, notFullWoken = {} PROVE fullNoLock
    BY DEF PushersNotStranded
  <2>1. Cardinality(notFullWoken) = 0
    BY FS_EmptySet
  <2>2. isBounded /\ Cardinality(notFullWoken) + Len(queue) >= MaxSize
    BY DEF IInv, WokenCoverFreeSlots
  <2>3. Len(queue) \in Nat
    BY DEF IInv, TypeOK
  <2> QED
    BY <2>1, <2>2, <2>3 DEF fullNoLock
<1> QED
  BY <1>1, IInvHolds, PTL

(* No popper sleeps through a queued item: one notify_one per push is      *)
(* enough (concurrent_queue.h:48-68).                                      *)
THEOREM NoPopperStranded == Spec => []PoppersNotStranded
<1>1. IInv => PoppersNotStranded
  <2> SUFFICES ASSUME IInv, notEmptyWaiting # {}, notEmptyWoken = {} PROVE queue = <<>>
    BY DEF PoppersNotStranded
  <2>1. Cardinality(notEmptyWoken) = 0
    BY FS_EmptySet
  <2>2. Cardinality(notEmptyWoken) >= Len(queue)
    BY DEF IInv, WokenCoverItems
  <2>3. queue \in Seq(Items)
    BY DEF IInv, TypeOK
  <2> QED
    BY <2>1, <2>2, <2>3
<1> QED
  BY <1>1, IInvHolds, PTL
=============================================================================
