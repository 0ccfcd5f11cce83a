------------------------- MODULE LogAsyncSinkProofs -------------------------
(***************************************************************************)
(* The safety of LogAsyncSink for any number of producers, any queue_size  *)
(* and any records that the adapted sink fails to write.                   *)
(*                                                                         *)
(* "Each buffer has one owner" is not inductive: that a push() queues a    *)
(* buffer which is nowhere else needs to know what a thread holds at each  *)
(* place of its code, and that the queue's own record of the caller's item *)
(* is that buffer.  SinkInv says so (Control, Holding, Waits).  On top of  *)
(* it DrainInv follows each record from the log() call that makes it to    *)
(* the adapted sink.                                                       *)
(***************************************************************************)
EXTENDS LogAsyncSink, FiniteSetTheorems, SequenceTheorems, TLAPS

(* What is proved of the queue alone holds of the queue of the sink.       *)
QP == INSTANCE ConcurrentQueueProofs WITH Items <- Nat, NoItem <- NoBuffer

InCall(t) == pc[t] \in {"fill", "push"}
Working   == pc[LogThread] \in {"write", "report", "fill", "push", "recycle"}

(* Where threads can be; producers are out of log() once ~Impl() began.    *)
Control ==
  /\ \A p \in Producers : pc[p] \in {"idle", "fill", "push"}
  /\ pc[LogThread] \in {"pop", "write", "report", "fill", "push", "recycle", "done"}
  /\ pc[Owner] \in {"running", "push", "join", "gone"}
  /\ pc[Owner] # "running" => \A p \in Producers : pc[p] = "idle"
  /\ pc[Owner] = "gone" => pc[LogThread] = "done"

(* A thread has a buffer in hand exactly at these places.                  *)
Holding ==
  /\ \A t \in Loggers : IF InCall(t) THEN held[t] \in Buffers ELSE held[t] = NoBuffer
  /\ IF pc[Owner] = "push" THEN held[Owner] = NullBuffer ELSE held[Owner] = NoBuffer
  /\ IF Working THEN current \in Buffers ELSE current = NoBuffer

(* A thread inside push() waits with the buffer it holds; only the log     *)
(* thread is inside pop().                                                 *)
Waits ==
  /\ \A t \in QP!InPush : pc[t] = "push" /\ arg[t] = held[t]
  /\ \A t \in QP!InPop : t = LogThread /\ pc[t] = "pop"

(* nullptr is queued by the destructor alone.                              *)
NullByOwner == NullBuffer \in ToSet(queue) => pc[Owner] \in {"join", "gone"}

(* No buffer is in two places, and nullptr is queued once.                 *)
Exclusive ==
  /\ IsInjective(pool) /\ IsInjective(queue)
  /\ ToSet(pool) \cap ToSet(queue) = {}
  /\ \A t \in Loggers : InCall(t) => held[t] \notin ToSet(pool) \cup ToSet(queue) \cup {current}
  /\ \A t, u \in Loggers : InCall(t) /\ held[t] = held[u] => t = u
  /\ current \notin ToSet(pool) \cup ToSet(queue)

(* No buffer is nowhere.                                                   *)
Covered ==
  Buffers \subseteq
    ToSet(pool) \cup ToSet(queue) \cup {current} \cup {held[t] : t \in Loggers}

(* Nothing is freed before the end, and everything by then.                *)
FreedAtEnd == deleted = IF pc[Owner] = "gone" THEN Buffers ELSE {}

Types ==
  /\ pc \in [Threads -> Labels]
  /\ held \in [Threads -> Int]
  /\ current \in Int
  /\ content \in Seq(Seq(Records))
  /\ pool \in Seq(Buffers)
  /\ sent \in [Loggers -> Nat]
  /\ written \in Seq(Records) /\ lost \in Seq(Records)
  /\ QP!TypeOK
  /\ ToSet(queue) \subseteq Buffers \cup {NullBuffer}

SinkInv ==
  /\ Types /\ Control /\ Holding /\ Waits /\ NullByOwner
  /\ Exclusive /\ Covered /\ FreedAtEnd

-----------------------------------------------------------------------------
(* Sequences without repetition.                                           *)

(* Append adds one element.                                                *)
LEMMA AppendFacts ==
  ASSUME NEW S, NEW s \in Seq(S), NEW x \in S
  PROVE  /\ Append(s, x) \in Seq(S)
         /\ ToSet(Append(s, x)) = ToSet(s) \cup {x}
         /\ IsInjective(s) /\ x \notin ToSet(s) => IsInjective(Append(s, x))
<1>1. /\ Append(s, x) \in Seq(S) /\ Len(Append(s, x)) = Len(s) + 1
      /\ \A i \in 1..Len(s) : Append(s, x)[i] = s[i]
      /\ Append(s, x)[Len(s) + 1] = x
  OBVIOUS
<1>2. /\ Len(s) \in Nat /\ DOMAIN s = 1..Len(s) /\ DOMAIN Append(s, x) = 1..(Len(s) + 1)
      /\ 1..(Len(s) + 1) = 1..Len(s) \cup {Len(s) + 1}
  BY <1>1
<1>3. ToSet(Append(s, x)) = ToSet(s) \cup {x}
  BY <1>1, <1>2 DEF ToSet
<1>4. ASSUME IsInjective(s), x \notin ToSet(s) PROVE IsInjective(Append(s, x))
  BY <1>1, <1>2, <1>4 DEF IsInjective, ToSet
<1> QED
  BY <1>1, <1>3, <1>4

(* Front and Last take the last element off.                               *)
LEMMA FrontFacts ==
  ASSUME NEW S, NEW s \in Seq(S), s # <<>>
  PROVE  /\ Front(s) \in Seq(S) /\ Last(s) \in ToSet(s) /\ Last(s) \in S
         /\ ToSet(s) = ToSet(Front(s)) \cup {Last(s)}
         /\ IsInjective(s) => IsInjective(Front(s)) /\ Last(s) \notin ToSet(Front(s))
<1> DEFINE n == Len(s)
<1>1. n \in Nat /\ n # 0 /\ DOMAIN s = 1..n /\ n \in 1..n
  OBVIOUS
<1>2. /\ Front(s) \in Seq(S) /\ DOMAIN Front(s) = 1..(n - 1)
      /\ \A i \in 1..(n - 1) : Front(s)[i] = s[i]
  BY <1>1 DEF Front
<1>3. 1..n = 1..(n - 1) \cup {n} /\ n \notin 1..(n - 1)
  BY <1>1
<1>4. Last(s) = s[n]
  BY DEF Last
<1> HIDE DEF n
<1>5. ToSet(s) = ToSet(Front(s)) \cup {Last(s)}
  BY <1>1, <1>2, <1>3, <1>4 DEF ToSet
<1>6. IsInjective(s) => IsInjective(Front(s)) /\ Last(s) \notin ToSet(Front(s))
  BY <1>1, <1>2, <1>3, <1>4 DEF ToSet, IsInjective
<1> QED
  BY <1>1, <1>2, <1>4, <1>5, <1>6 DEF ToSet

(* Tail and Head take the first element off.                               *)
LEMMA TailFacts ==
  ASSUME NEW S, NEW s \in Seq(S), s # <<>>
  PROVE  /\ Tail(s) \in Seq(S) /\ Head(s) \in ToSet(s) /\ Head(s) \in S
         /\ ToSet(s) = ToSet(Tail(s)) \cup {Head(s)}
         /\ IsInjective(s) => IsInjective(Tail(s)) /\ Head(s) \notin ToSet(Tail(s))
<1> DEFINE n == Len(s)
<1>1. n \in Nat /\ n # 0 /\ DOMAIN s = 1..n /\ 1 \in 1..n
  OBVIOUS
<1>2. /\ Tail(s) \in Seq(S) /\ DOMAIN Tail(s) = 1..(n - 1)
      /\ \A i \in 1..(n - 1) : Tail(s)[i] = s[i + 1]
  BY <1>1
<1>3. /\ \A i \in 1..(n - 1) : i + 1 \in 1..n /\ i + 1 # 1
      /\ \A i \in 1..n : i = 1 \/ (i - 1 \in 1..(n - 1) /\ (i - 1) + 1 = i)
      /\ \A i, j \in 1..(n - 1) : i + 1 = j + 1 => i = j
  BY <1>1
<1>4. Head(s) = s[1]
  OBVIOUS
<1> HIDE DEF n
<1>5. ToSet(s) = ToSet(Tail(s)) \cup {Head(s)}
  <2>1. ASSUME NEW i \in 1..n PROVE s[i] \in ToSet(Tail(s)) \cup {s[1]}
    <3>1. CASE i = 1
      BY <3>1
    <3>2. CASE i - 1 \in 1..(n - 1) /\ (i - 1) + 1 = i
      <4>1. Tail(s)[i - 1] = s[i]
        BY <1>2, <3>2
      <4> QED
        BY <1>2, <3>2, <4>1 DEF ToSet
    <3> QED
      BY <1>3, <3>1, <3>2
  <2>2. ToSet(Tail(s)) \subseteq ToSet(s)
    BY <1>1, <1>2, <1>3 DEF ToSet
  <2> QED
    BY <1>1, <1>4, <2>1, <2>2 DEF ToSet
<1>6. IsInjective(s) => IsInjective(Tail(s)) /\ Head(s) \notin ToSet(Tail(s))
  BY <1>1, <1>2, <1>3, <1>4 DEF ToSet, IsInjective
<1>7. Head(s) \in S /\ Head(s) \in ToSet(s)
  BY <1>1, <1>4 DEF ToSet
<1> QED
  BY <1>2, <1>5, <1>6, <1>7

-----------------------------------------------------------------------------
(* The constants of the queue meet its assumptions.                        *)
LEMMA QueueConstants ==
  QP!IsFiniteSet(Threads) /\ MaxSize \in Nat /\ NoBuffer \notin Nat
<1>1. IsFiniteSet(Loggers)
  BY ThreadsAssumption, FS_AddElement DEF Loggers
<1>2. IsFiniteSet(Threads)
  BY <1>1, FS_AddElement DEF Threads
<1> QED
  BY <1>2, SizeAssumption DEF QP!IsFiniteSet, IsFiniteSet, NoBuffer

(* The threads are different ones.                                         *)
LEMMA ThreadFacts ==
  /\ LogThread \in Loggers /\ LogThread \in Threads /\ Owner \in Threads
  /\ Loggers \subseteq Threads /\ Producers \subseteq Loggers
  /\ Owner \notin Loggers /\ LogThread \notin Producers /\ Owner # LogThread
  /\ \A t \in Loggers : t \in Producers \/ t = LogThread
  /\ \A t \in Threads : t \in Loggers \/ t = Owner
  BY ThreadsAssumption DEF Threads, Loggers

(* Buffers are positive numbers; making one adds one.                      *)
LEMMA BufferFacts ==
  ASSUME content \in Seq(Seq(Records))
  PROVE  /\ Buffers = 1..Len(content) /\ Len(content) \in Nat
         /\ Buffers \subseteq Nat
         /\ NullBuffer \notin Buffers /\ NoBuffer \notin Buffers
         /\ Len(content) + 1 \notin Buffers
         /\ NullBuffer # NoBuffer
  BY DEF Buffers, NullBuffer, NoBuffer

(* One turn of the loop of push() queues the item, or waits with it.       *)
LEMMA PushEffect ==
  ASSUME QP!TypeOK, NEW t \in Threads, NEW item \in Nat,
         QP!Push(t, item) \/ (QP!ResumePush(t) /\ arg[t] = item)
  PROVE  /\ QP!TypeOK'
         /\ \/ /\ t \notin notFullWaiting'
               /\ queue' = Append(queue, item)
               /\ QP!InPush' = QP!InPush \ {t}
               /\ \A u \in Threads \ {t} : arg'[u] = arg[u]
            \/ /\ t \in notFullWaiting'
               /\ queue' = queue
               /\ QP!InPush' = QP!InPush \cup {t}
               /\ arg'[t] = item
               /\ \A u \in Threads \ {t} : arg'[u] = arg[u]
         /\ QP!InPop' = QP!InPop
<1>1. t \notin notFullWaiting /\ t \notin QP!InPop /\ QP!PushLoop(t, item)
  BY DEF QP!Push, QP!ResumePush, QP!Idle, QP!InPush, QP!InPop, QP!TypeOK
<1>2. QP!TypeOK'
  BY <1>1, QP!PushLoopType, QueueConstants
<1>3. arg \in [Threads -> Nat \cup {NoBuffer}]
  BY DEF QP!TypeOK
<1>4. CASE /\ QP!Enqueue(item) /\ arg' = [arg EXCEPT ![t] = NoBuffer]
           /\ notFullWoken' = notFullWoken \ {t} /\ UNCHANGED notFullWaiting
  <2>1. QP!InPop' = QP!InPop
    BY <1>4, QP!NotifyNotEmptyEffect, QueueConstants DEF QP!Enqueue, QP!InPop
  <2>2. queue' = Append(queue, item)
    BY <1>4 DEF QP!Enqueue
  <2>3. QP!InPush' = QP!InPush \ {t}
    BY <1>1, <1>4 DEF QP!InPush
  <2> QED
    BY <1>1, <1>2, <1>3, <1>4, <2>1, <2>2, <2>3
<1>5. CASE /\ arg' = [arg EXCEPT ![t] = item]
           /\ notFullWaiting' = notFullWaiting \cup {t}
           /\ notFullWoken' = notFullWoken \ {t}
           /\ UNCHANGED <<queue, QP!notEmptyVars>>
  <2>1. QP!InPop' = QP!InPop /\ QP!InPush' = QP!InPush \cup {t}
    BY <1>5 DEF QP!InPop, QP!InPush, QP!notEmptyVars
  <2> QED
    BY <1>2, <1>3, <1>5, <2>1
<1> QED
  BY <1>1, <1>4, <1>5 DEF QP!PushLoop

(* One turn of the loop of pop() takes the first item, or waits.           *)
LEMMA PopEffect ==
  ASSUME QP!TypeOK, NEW t \in Threads, QP!Pop(t) \/ QP!ResumePop(t)
  PROVE  /\ QP!TypeOK'
         /\ \/ /\ t \notin notEmptyWaiting'
               /\ queue # <<>> /\ queue' = Tail(queue)
               /\ QP!InPop' = QP!InPop \ {t}
            \/ /\ t \in notEmptyWaiting'
               /\ queue' = queue
               /\ QP!InPop' = QP!InPop \cup {t}
         /\ arg' = arg /\ QP!InPush' = QP!InPush
<1>1. t \notin notEmptyWaiting /\ t \notin QP!InPush /\ QP!PopLoop(t)
  BY DEF QP!Pop, QP!ResumePop, QP!Idle, QP!InPush, QP!InPop, QP!TypeOK
<1>2. QP!TypeOK'
  BY <1>1, QP!PopLoopType, QueueConstants
<1>3. CASE /\ QP!Dequeue /\ notEmptyWoken' = notEmptyWoken \ {t}
           /\ UNCHANGED <<arg, notEmptyWaiting>>
  <2>1. QP!InPush' = QP!InPush
    BY <1>3, QP!NotifyNotFullEffect, QueueConstants DEF QP!Dequeue, QP!InPush
  <2>2. queue # <<>> /\ queue' = Tail(queue)
    BY <1>3 DEF QP!Dequeue
  <2>3. QP!InPop' = QP!InPop \ {t}
    BY <1>1, <1>3 DEF QP!InPop
  <2> QED
    BY <1>1, <1>2, <1>3, <2>1, <2>2, <2>3
<1>4. CASE /\ notEmptyWaiting' = notEmptyWaiting \cup {t}
           /\ notEmptyWoken' = notEmptyWoken \ {t}
           /\ UNCHANGED <<queue, arg, QP!notFullVars>>
  <2>1. QP!InPush' = QP!InPush /\ QP!InPop' = QP!InPop \cup {t}
    BY <1>4 DEF QP!InPop, QP!InPush, QP!notFullVars
  <2> QED
    BY <1>2, <1>4, <2>1
<1> QED
  BY <1>1, <1>3, <1>4 DEF QP!PopLoop

(* A spurious wakeup moves a thread within the wait it is in.              *)
LEMMA WakeupEffect ==
  ASSUME QP!TypeOK, NEW t \in Threads, QP!SpuriousWakeup(t)
  PROVE  /\ QP!TypeOK'
         /\ queue' = queue /\ arg' = arg
         /\ QP!InPush' = QP!InPush /\ QP!InPop' = QP!InPop
<1>1. queue' = queue /\ arg' = arg /\ QP!InPush' = QP!InPush /\ QP!InPop' = QP!InPop
  BY DEF QP!SpuriousWakeup, QP!InPush, QP!InPop, QP!notFullVars, QP!notEmptyVars
<1>2. [QP!Next]_QP!vars
  BY DEF QP!Next
<1> QED
  BY <1>1, <1>2, QP!TypePreserved, QueueConstants

(* The queue of the sink and that of the lemmas are one.                   *)
LEMMA SameQueue ==
  /\ Q!TypeOK <=> QP!TypeOK
  /\ Q!Init <=> QP!Init
  /\ \A t \in Threads : /\ \A item : Q!Push(t, item) <=> QP!Push(t, item)
                        /\ Q!ResumePush(t) <=> QP!ResumePush(t)
                        /\ Q!Pop(t) <=> QP!Pop(t)
                        /\ Q!ResumePop(t) <=> QP!ResumePop(t)
                        /\ Q!SpuriousWakeup(t) <=> QP!SpuriousWakeup(t)
<1>1. Q!InPush = QP!InPush /\ Q!InPop = QP!InPop /\ (Q!fullNoLock <=> QP!fullNoLock)
  BY DEF Q!InPush, QP!InPush, Q!InPop, QP!InPop, Q!fullNoLock, QP!fullNoLock,
         Q!isBounded, QP!isBounded
<1>2. UNCHANGED Q!notFullVars <=> UNCHANGED QP!notFullVars
  BY DEF Q!notFullVars, QP!notFullVars
<1>3. UNCHANGED Q!notEmptyVars <=> UNCHANGED QP!notEmptyVars
  BY DEF Q!notEmptyVars, QP!notEmptyVars
<1>4. \A item : Q!Enqueue(item) <=> QP!Enqueue(item)
  BY <1>1, <1>3 DEF Q!Enqueue, QP!Enqueue, Q!NotifyNotEmpty, QP!NotifyNotEmpty
<1>5. Q!Dequeue <=> QP!Dequeue
  BY <1>2 DEF Q!Dequeue, QP!Dequeue, Q!NotifyNotFull, QP!NotifyNotFull
<1>6. \A t \in Threads : \A item : Q!PushLoop(t, item) <=> QP!PushLoop(t, item)
  BY <1>1, <1>4, <1>3 DEF Q!PushLoop, QP!PushLoop, Q!notEmptyVars, QP!notEmptyVars
<1>7. \A t \in Threads : Q!PopLoop(t) <=> QP!PopLoop(t)
  BY <1>2, <1>5 DEF Q!PopLoop, QP!PopLoop, Q!notFullVars, QP!notFullVars
<1>8. \A t \in Threads : Q!SpuriousWakeup(t) <=> QP!SpuriousWakeup(t)
  BY DEF Q!SpuriousWakeup, QP!SpuriousWakeup, Q!notFullVars, QP!notFullVars,
         Q!notEmptyVars, QP!notEmptyVars
<1>9. Q!TypeOK <=> QP!TypeOK
  BY <1>1 DEF Q!TypeOK, QP!TypeOK
<1>10. Q!Init <=> QP!Init
  BY DEF Q!Init, QP!Init
<1> QED
  BY <1>1, <1>6, <1>7, <1>8, <1>9, <1>10
     DEF Q!Push, QP!Push, Q!ResumePush, QP!ResumePush, Q!Pop, QP!Pop, Q!ResumePop,
         QP!ResumePop, Q!Idle, QP!Idle

-----------------------------------------------------------------------------
(* The buffer a thread holds in a call.                                    *)
LEMMA HeldFacts ==
  ASSUME SinkInv
  PROVE  /\ Buffers = 1..Len(content) /\ Len(content) \in Nat /\ Buffers \subseteq Nat
         /\ NullBuffer \notin Buffers /\ NoBuffer \notin Buffers
         /\ Len(content) + 1 \notin Buffers
         /\ \A t \in Loggers : InCall(t) => held[t] \in Buffers
         /\ \A t \in Loggers : ~InCall(t) => held[t] = NoBuffer
         /\ \A t \in Threads : pc[t] = "push" => held[t] \in Buffers \cup {NullBuffer}
         /\ Working => current \in Buffers
         /\ ~Working => current = NoBuffer
<1>1. content \in Seq(Seq(Records))
  BY DEF SinkInv, Types
<1> QED
  BY <1>1, BufferFacts, ThreadFacts DEF SinkInv, Holding, InCall

(* Where push() returns to.                                                *)
AfterPush(t) == IF t \in Producers THEN "idle" ELSE IF t = LogThread THEN "recycle" ELSE "join"

(* A thread in push() has queued what it holds and gone on, or waits.      *)
LEMMA PushBufferEffect ==
  ASSUME SinkInv, NEW t \in Threads, PushBuffer(t)
  PROVE  /\ QP!TypeOK' /\ QP!InPop' = QP!InPop
         /\ pc[t] = "push" /\ held[t] \in Buffers \cup {NullBuffer}
         /\ UNCHANGED <<current, content, pool, written, lost, deleted>>
         /\ \A u \in Threads \ {t} : arg'[u] = arg[u]
         /\ \/ /\ UNCHANGED <<queue, pc, held, sent>>
               /\ QP!InPush' = QP!InPush \cup {t} /\ arg'[t] = held[t]
            \/ /\ queue' = Append(queue, held[t])
               /\ QP!InPush' = QP!InPush \ {t}
               /\ held' = [held EXCEPT ![t] = NoBuffer]
               /\ pc' = [pc EXCEPT ![t] = AfterPush(t)]
               /\ sent' = [u \in Loggers |-> IF u = t THEN sent[u] + 1 ELSE sent[u]]
<1>1. QP!TypeOK /\ pc[t] = "push" /\ held[t] \in Buffers \cup {NullBuffer} /\ held[t] \in Nat
  BY HeldFacts DEF SinkInv, Types, PushBuffer, NullBuffer
<1>2. QP!Push(t, held[t]) \/ (QP!ResumePush(t) /\ arg[t] = held[t])
  <2>1. QP!ResumePush(t) => arg[t] = held[t]
    BY DEF QP!ResumePush, QP!InPush, SinkInv, Waits
  <2> QED
    BY <2>1, SameQueue DEF PushBuffer
<1>3. /\ QP!TypeOK' /\ QP!InPop' = QP!InPop
      /\ \A u \in Threads \ {t} : arg'[u] = arg[u]
      /\ \/ /\ t \notin notFullWaiting'
            /\ queue' = Append(queue, held[t])
            /\ QP!InPush' = QP!InPush \ {t}
         \/ /\ t \in notFullWaiting'
            /\ queue' = queue
            /\ QP!InPush' = QP!InPush \cup {t}
            /\ arg'[t] = held[t]
  BY <1>1, <1>2, PushEffect
<1>4. CASE t \in notFullWaiting'
  BY <1>1, <1>3, <1>4 DEF PushBuffer, sinkVars
<1>5. CASE t \notin notFullWaiting'
  <2>1. /\ held' = [held EXCEPT ![t] = NoBuffer]
        /\ \/ t \in Producers /\ goto(t, "idle")
           \/ t = LogThread   /\ goto(t, "recycle")
           \/ t = Owner       /\ goto(t, "join")
        /\ sent' = [u \in Loggers |-> IF u = t THEN sent[u] + 1 ELSE sent[u]]
    BY <1>5 DEF PushBuffer
  <2>2. pc' = [pc EXCEPT ![t] = AfterPush(t)]
    BY <2>1, ThreadFacts DEF goto, AfterPush
  <2> QED
    BY <1>1, <1>3, <1>5, <2>1, <2>2 DEF PushBuffer, sinkVars
<1> QED
  BY <1>4, <1>5

(* The log thread in pop() waits, takes a buffer, or ends on nullptr.      *)
LEMMA PopBufferEffect ==
  ASSUME SinkInv, PopBuffer
  PROVE  /\ QP!TypeOK' /\ QP!InPush' = QP!InPush /\ arg' = arg
         /\ pc[LogThread] = "pop"
         /\ UNCHANGED <<held, content, pool, sent, written, lost, deleted>>
         /\ \/ /\ UNCHANGED <<queue, pc, current>>
               /\ QP!InPop' = QP!InPop \cup {LogThread}
            \/ /\ queue # <<>> /\ queue' = Tail(queue)
               /\ QP!InPop' = QP!InPop \ {LogThread}
               /\ Head(queue) # NullBuffer
               /\ current' = Head(queue)
               /\ pc' = [pc EXCEPT ![LogThread] = "write"]
            \/ /\ queue # <<>> /\ queue' = Tail(queue)
               /\ QP!InPop' = QP!InPop \ {LogThread}
               /\ Head(queue) = NullBuffer
               /\ current' = current
               /\ pc' = [pc EXCEPT ![LogThread] = "done"]
<1>1. QP!Pop(LogThread) \/ QP!ResumePop(LogThread)
  BY SameQueue, ThreadFacts DEF PopBuffer
<1>2. /\ QP!TypeOK' /\ QP!InPush' = QP!InPush /\ arg' = arg
      /\ \/ /\ LogThread \notin notEmptyWaiting'
            /\ queue # <<>> /\ queue' = Tail(queue)
            /\ QP!InPop' = QP!InPop \ {LogThread}
         \/ /\ LogThread \in notEmptyWaiting'
            /\ queue' = queue
            /\ QP!InPop' = QP!InPop \cup {LogThread}
  BY <1>1, PopEffect, ThreadFacts DEF SinkInv, Types
<1> QED
  BY <1>2 DEF PopBuffer, goto, sinkVars

(* What the queue's variables say stays as they stay.                      *)
LEMMA QueueUnchanged ==
  ASSUME QP!TypeOK, UNCHANGED queueVars
  PROVE  /\ QP!TypeOK' /\ queue' = queue /\ arg' = arg
         /\ QP!InPush' = QP!InPush /\ QP!InPop' = QP!InPop
  BY DEF queueVars, QP!TypeOK, QP!InPush, QP!InPop

(* Elements of the pool.                                                   *)
LEMMA PoolFacts ==
  ASSUME SinkInv
  PROVE  pool \in Seq(Buffers) /\ ToSet(pool) \subseteq Buffers
  BY DEF SinkInv, Types, ToSet

-----------------------------------------------------------------------------
(* SinkInv is inductive: one lemma for each action.                        *)

(* getObject() gives the thread a buffer that nobody else has.             *)
LEMMA GetBufferKeeps ==
  ASSUME SinkInv, NEW t \in Loggers, GetBuffer(t)
  PROVE  SinkInv'
<1>1. Types /\ Control /\ Holding /\ Waits /\ NullByOwner /\ Exclusive /\ Covered /\ FreedAtEnd
  BY DEF SinkInv
<1>2. /\ QP!TypeOK' /\ queue' = queue /\ arg' = arg
      /\ QP!InPush' = QP!InPush /\ QP!InPop' = QP!InPop
  BY <1>1, QueueUnchanged DEF GetBuffer, Types
<1>3. /\ UNCHANGED <<current, sent, written, lost, deleted>>
      /\ pc' = [pc EXCEPT ![t] = "fill"]
      /\ \/ t \in Producers /\ pc[t] = "idle" /\ pc[Owner] = "running"
         \/ t = LogThread /\ pc[t] = "report"
  BY DEF GetBuffer, MayLog, goto, sinkVars
<1>4. PICK b \in Nat :
      /\ b \notin ToSet(pool') /\ b \notin ToSet(queue) /\ b # current
      /\ b # NoBuffer /\ held' = [held EXCEPT ![t] = b]
      /\ \A u \in Loggers : InCall(u) => held[u] # b
      /\ pool' \in Seq(Buffers') /\ IsInjective(pool')
      /\ ToSet(pool') \subseteq ToSet(pool)
      /\ ToSet(pool) \subseteq ToSet(pool') \cup {b}
      /\ Buffers \subseteq Buffers' /\ b \in Buffers' /\ Buffers' \subseteq Buffers \cup {b}
      /\ content' \in Seq(Seq(Records))
  <2>1. CASE /\ pool # <<>> /\ held' = [held EXCEPT ![t] = Last(pool)]
             /\ pool' = Front(pool) /\ UNCHANGED content
    <3>1. /\ Front(pool) \in Seq(Buffers) /\ Last(pool) \in ToSet(pool)
          /\ ToSet(pool) = ToSet(Front(pool)) \cup {Last(pool)}
          /\ IsInjective(Front(pool)) /\ Last(pool) \notin ToSet(Front(pool))
      BY <1>1, <2>1, FrontFacts DEF Exclusive, Types
    <3>2. Buffers' = Buffers
      BY <2>1 DEF Buffers
    <3>3. Last(pool) \in Buffers /\ Last(pool) \in Nat /\ Last(pool) # NoBuffer
      BY <3>1, PoolFacts, HeldFacts
    <3>4. /\ Last(pool) \notin ToSet(queue) /\ Last(pool) # current
          /\ \A u \in Loggers : InCall(u) => held[u] # Last(pool)
      BY <1>1, <3>1 DEF Exclusive
    <3>5. content' \in Seq(Seq(Records))
      BY <1>1, <2>1 DEF Types
    <3> QED
      BY <2>1, <3>1, <3>2, <3>3, <3>4, <3>5
  <2>2. CASE /\ pool = <<>> /\ held' = [held EXCEPT ![t] = Len(content) + 1]
             /\ content' = Append(content, <<>>) /\ UNCHANGED pool
    <3> DEFINE b == Len(content) + 1
    <3>1. content' \in Seq(Seq(Records)) /\ Len(content') = Len(content) + 1
      BY <1>1, <2>2, EmptySeq, AppendFacts DEF Types
    <3>2. Buffers' = Buffers \cup {b} /\ b \notin Buffers /\ b \in Nat /\ b # NullBuffer
      BY <3>1, HeldFacts DEF Buffers, NullBuffer
    <3>3. /\ ToSet(pool) \subseteq Buffers /\ ToSet(queue) \subseteq Buffers \cup {NullBuffer}
          /\ current \in Buffers \cup {NoBuffer} /\ b # NoBuffer
      BY <1>1, <3>2, PoolFacts, HeldFacts DEF Types, NoBuffer
    <3>4. pool' \in Seq(Buffers')
      BY <2>2, <3>2, PoolFacts, SeqMonotonic
    <3>5. \A u \in Loggers : InCall(u) => held[u] # b
      BY <3>2, HeldFacts
    <3>6. b \notin ToSet(pool') /\ b \notin ToSet(queue) /\ b # current
      BY <2>2, <3>2, <3>3
    <3>7. IsInjective(pool') /\ ToSet(pool') = ToSet(pool)
      BY <1>1, <2>2 DEF Exclusive
    <3>8. held' = [held EXCEPT ![t] = b]
      BY <2>2
    <3> HIDE DEF b
    <3> QED
      BY <3>1, <3>2, <3>3, <3>4, <3>5, <3>6, <3>7, <3>8
  <2> QED
    BY <2>1, <2>2 DEF GetBuffer
<1>5. /\ pc' \in [Threads -> Labels] /\ pc'[t] = "fill" /\ held'[t] = b
      /\ \A u \in Threads \ {t} : pc'[u] = pc[u] /\ held'[u] = held[u]
      /\ InCall(t)' /\ \A u \in Loggers \ {t} : InCall(u)' <=> InCall(u)
  BY <1>1, <1>3, <1>4, ThreadFacts DEF Types, InCall, Labels
<1>6. Types'
  <2>1. held' \in [Threads -> Int]
    <3>1. held \in [Threads -> Int] /\ b \in Int
      BY <1>1 DEF Types
    <3> QED
      BY <1>4, <3>1
  <2>2. ToSet(queue') \subseteq Buffers' \cup {NullBuffer}
    BY <1>1, <1>2, <1>4 DEF Types
  <2> QED
    BY <1>1, <1>2, <1>3, <1>4, <1>5, <2>1, <2>2 DEF Types
<1>7. Control'
  BY <1>1, <1>3, <1>5, ThreadFacts DEF Control
<1>8. ~InCall(t) /\ (Working' <=> Working)
  BY <1>3, <1>5, ThreadFacts DEF Working, InCall
<1>9. Holding'
  <2>1. \A u \in Loggers : IF InCall(u)' THEN held'[u] \in Buffers' ELSE held'[u] = NoBuffer
    BY <1>1, <1>4, <1>5, ThreadFacts DEF Holding
  <2>2. IF pc'[Owner] = "push" THEN held'[Owner] = NullBuffer ELSE held'[Owner] = NoBuffer
    BY <1>1, <1>5, ThreadFacts DEF Holding
  <2>3. IF Working' THEN current' \in Buffers' ELSE current' = NoBuffer
    BY <1>1, <1>3, <1>4, <1>8 DEF Holding
  <2> QED
    BY <2>1, <2>2, <2>3 DEF Holding
<1>10. Waits'
  BY <1>1, <1>2, <1>3, <1>5, ThreadFacts DEF Waits, QP!TypeOK, QP!InPush, QP!InPop
<1>11. NullByOwner'
  BY <1>1, <1>2, <1>5, ThreadFacts DEF NullByOwner
<1>12. Exclusive'
  <2>1. /\ IsInjective(pool') /\ IsInjective(queue')
        /\ ToSet(pool') \cap ToSet(queue') = {}
        /\ current' \notin ToSet(pool') \cup ToSet(queue')
    BY <1>1, <1>2, <1>3, <1>4 DEF Exclusive
  <2>2. ASSUME NEW u \in Loggers, InCall(u)'
        PROVE  held'[u] \notin ToSet(pool') \cup ToSet(queue') \cup {current'}
    BY <1>1, <1>2, <1>3, <1>4, <1>5, <2>2, ThreadFacts DEF Exclusive
  <2>3. ASSUME NEW u \in Loggers, NEW w \in Loggers, InCall(u)', held'[u] = held'[w]
        PROVE  u = w
    BY <1>1, <1>4, <1>5, <2>3, HeldFacts, ThreadFacts DEF Exclusive
  <2> QED
    BY <2>1, <2>2, <2>3 DEF Exclusive
<1>13. Covered'
  <2>1. held[t] = NoBuffer /\ NoBuffer \notin Buffers
    BY <1>8, HeldFacts
  <2> QED
    BY <1>1, <1>2, <1>3, <1>4, <1>5, <2>1 DEF Covered
<1>14. FreedAtEnd'
  BY <1>1, <1>3, <1>5, ThreadFacts DEF FreedAtEnd, Control
<1> QED
  BY <1>6, <1>7, <1>9, <1>10, <1>11, <1>12, <1>13, <1>14 DEF SinkInv

(* A step that moves no buffer.                                            *)
LEMMA NoBufferMoves ==
  ASSUME SinkInv, UNCHANGED <<held, current, pool, queueVars>>, Buffers' = Buffers,
         \A t \in Loggers : InCall(t)' <=> InCall(t)
  PROVE  /\ Exclusive' /\ Covered'
         /\ QP!TypeOK' /\ queue' = queue /\ arg' = arg
         /\ QP!InPush' = QP!InPush /\ QP!InPop' = QP!InPop
<1>1. Exclusive /\ Covered /\ QP!TypeOK
  BY DEF SinkInv, Types
<1>2. /\ QP!TypeOK' /\ queue' = queue /\ arg' = arg
      /\ QP!InPush' = QP!InPush /\ QP!InPop' = QP!InPop
  BY <1>1, QueueUnchanged
<1>3. Exclusive'
  BY <1>1, <1>2 DEF Exclusive
<1>4. Covered'
  BY <1>1, <1>2 DEF Covered
<1> QED
  BY <1>2, <1>3, <1>4

(* The record is written into the buffer the thread holds.                 *)
LEMMA FillKeeps ==
  ASSUME SinkInv, NEW t \in Loggers, Fill(t)
  PROVE  SinkInv'
<1> DEFINE record == <<t, sent[t] + 1>>
           filled == Append(content[held[t]], record)
<1>1. Types /\ Control /\ Holding /\ Waits /\ NullByOwner /\ FreedAtEnd
  BY DEF SinkInv
<1>2. /\ UNCHANGED <<held, current, pool, sent, written, lost, deleted, queueVars>>
      /\ pc' = [pc EXCEPT ![t] = "push"] /\ pc[t] = "fill"
      /\ content' = [content EXCEPT ![held[t]] = filled]
  BY DEF Fill, goto, sinkVars
<1>3. held[t] \in Buffers /\ held[t] \in 1..Len(content)
  BY <1>2, HeldFacts DEF InCall
<1>4. record \in Records
  BY <1>1 DEF Types, Records
<1>5. filled \in Seq(Records)
  <2>1. content[held[t]] \in Seq(Records)
    BY <1>1, <1>3 DEF Types
  <2> QED
    BY <1>4, <2>1, AppendFacts
<1> HIDE DEF filled, record
<1>6. content' \in Seq(Seq(Records)) /\ Buffers' = Buffers
  <2>1. content \in Seq(Seq(Records))
    BY <1>1 DEF Types
  <2> QED
    BY <1>2, <1>3, <1>5, <2>1 DEF Buffers
<1>7. /\ pc' \in [Threads -> Labels] /\ pc'[t] = "push"
      /\ \A u \in Threads \ {t} : pc'[u] = pc[u]
      /\ \A u \in Loggers : InCall(u)' <=> InCall(u)
  BY <1>1, <1>2, ThreadFacts DEF Types, InCall, Labels
<1>8. /\ Exclusive' /\ Covered'
      /\ QP!TypeOK' /\ queue' = queue /\ arg' = arg
      /\ QP!InPush' = QP!InPush /\ QP!InPop' = QP!InPop
  BY <1>2, <1>6, <1>7, NoBufferMoves
<1>9. Types'
  BY <1>1, <1>2, <1>6, <1>7, <1>8 DEF Types
<1>10. Control'
  BY <1>1, <1>2, <1>7, ThreadFacts DEF Control
<1>11. Working' <=> Working
  BY <1>2, <1>7, ThreadFacts DEF Working
<1>12. Holding'
  BY <1>1, <1>2, <1>6, <1>7, <1>11, ThreadFacts DEF Holding
<1>13. Waits'
  BY <1>1, <1>2, <1>7, <1>8, ThreadFacts DEF Waits, QP!TypeOK, QP!InPush, QP!InPop
<1>14. NullByOwner' /\ FreedAtEnd'
  BY <1>1, <1>2, <1>6, <1>7, <1>8, ThreadFacts DEF NullByOwner, FreedAtEnd
<1> QED
  BY <1>8, <1>9, <1>10, <1>12, <1>13, <1>14 DEF SinkInv

(* The adapted sink takes the record or fails; the buffer stays current.   *)
LEMMA WriteRecordKeeps ==
  ASSUME SinkInv, WriteRecord
  PROVE  SinkInv'
<1>1. Types /\ Control /\ Holding /\ Waits /\ NullByOwner /\ FreedAtEnd
  BY DEF SinkInv
<1>2. /\ UNCHANGED <<held, current, content, pool, sent, deleted, queueVars>>
      /\ pc[LogThread] = "write"
  BY DEF WriteRecord
<1>3. PICK label \in {"recycle", "report"} : pc' = [pc EXCEPT ![LogThread] = label]
  BY DEF WriteRecord, goto
<1>4. written' \in Seq(Records) /\ lost' \in Seq(Records)
  <2>1. current \in 1..Len(content)
    BY <1>2, HeldFacts DEF Working
  <2>2. content[current] \in Seq(Records) /\ written \in Seq(Records) /\ lost \in Seq(Records)
    BY <1>1, <2>1 DEF Types
  <2>3. written \o content[current] \in Seq(Records) /\ lost \o content[current] \in Seq(Records)
    BY <2>2, ConcatProperties
  <2> QED
    BY <2>2, <2>3 DEF WriteRecord
<1>5. /\ pc' \in [Threads -> Labels] /\ pc'[LogThread] = label
      /\ \A u \in Threads \ {LogThread} : pc'[u] = pc[u]
      /\ \A u \in Loggers : InCall(u)' <=> InCall(u)
  BY <1>1, <1>2, <1>3, ThreadFacts DEF Types, InCall, Labels
<1>6. Buffers' = Buffers
  BY <1>2 DEF Buffers
<1>7. /\ Exclusive' /\ Covered'
      /\ QP!TypeOK' /\ queue' = queue /\ arg' = arg
      /\ QP!InPush' = QP!InPush /\ QP!InPop' = QP!InPop
  BY <1>2, <1>5, <1>6, NoBufferMoves
<1>8. Types'
  BY <1>1, <1>2, <1>4, <1>5, <1>6, <1>7 DEF Types
<1>9. Control'
  BY <1>1, <1>2, <1>3, <1>5, ThreadFacts DEF Control
<1>10. Holding'
  <2>1. Working /\ Working'
    BY <1>2, <1>3, <1>5 DEF Working
  <2> QED
    BY <1>1, <1>2, <1>5, <1>6, <2>1, ThreadFacts DEF Holding
<1>11. Waits'
  BY <1>1, <1>2, <1>3, <1>5, <1>7, ThreadFacts DEF Waits, QP!TypeOK, QP!InPush, QP!InPop
<1>12. NullByOwner' /\ FreedAtEnd'
  BY <1>1, <1>2, <1>5, <1>6, <1>7, ThreadFacts DEF NullByOwner, FreedAtEnd
<1> QED
  BY <1>7, <1>8, <1>9, <1>10, <1>11, <1>12 DEF SinkInv

(* push() moves the buffer from the thread into the queue.                 *)
LEMMA PushBufferKeeps ==
  ASSUME SinkInv, NEW t \in Threads, PushBuffer(t)
  PROVE  SinkInv'
<1> DEFINE b == held[t]
<1>1. Types /\ Control /\ Holding /\ Waits /\ NullByOwner /\ Exclusive /\ Covered /\ FreedAtEnd
  BY DEF SinkInv
<1>2. /\ QP!TypeOK' /\ QP!InPop' = QP!InPop
      /\ pc[t] = "push" /\ b \in Buffers \cup {NullBuffer}
      /\ UNCHANGED <<current, content, pool, written, lost, deleted>>
      /\ \A u \in Threads \ {t} : arg'[u] = arg[u]
  BY PushBufferEffect
<1>3. Buffers' = Buffers
  BY <1>2 DEF Buffers
<1>4. QP!InPush \subseteq Threads /\ queue \in Seq(Nat) /\ b \in Nat
  BY <1>1, <1>2, HeldFacts DEF Types, QP!TypeOK, QP!InPush, NullBuffer
<1>5. CASE /\ UNCHANGED <<queue, pc, held, sent>>
           /\ QP!InPush' = QP!InPush \cup {t} /\ arg'[t] = b
  <2>1. Waits'
    BY <1>1, <1>2, <1>4, <1>5 DEF Waits
  <2>2. /\ Types' /\ Control' /\ Holding' /\ NullByOwner' /\ FreedAtEnd'
    BY <1>1, <1>2, <1>3, <1>5
       DEF Types, Control, Holding, NullByOwner, FreedAtEnd, InCall, Working
  <2>3. Exclusive' /\ Covered'
    BY <1>1, <1>2, <1>3, <1>5 DEF Exclusive, Covered, InCall
  <2> QED
    BY <2>1, <2>2, <2>3 DEF SinkInv
<1>6. CASE /\ queue' = Append(queue, b)
           /\ QP!InPush' = QP!InPush \ {t}
           /\ held' = [held EXCEPT ![t] = NoBuffer]
           /\ pc' = [pc EXCEPT ![t] = AfterPush(t)]
           /\ sent' = [u \in Loggers |-> IF u = t THEN sent[u] + 1 ELSE sent[u]]
  <2>1. /\ pc' \in [Threads -> Labels] /\ pc'[t] = AfterPush(t) /\ held'[t] = NoBuffer
        /\ \A u \in Threads \ {t} : pc'[u] = pc[u] /\ held'[u] = held[u]
        /\ held' \in [Threads -> Int]
    BY <1>1, <1>6 DEF Types, Labels, AfterPush, NoBuffer
  <2>2. /\ AfterPush(t) \in {"idle", "recycle", "join"}
        /\ t \in Producers => AfterPush(t) = "idle"
        /\ t = LogThread => AfterPush(t) = "recycle"
        /\ t = Owner => AfterPush(t) = "join"
    BY ThreadFacts DEF AfterPush
  <2>3. t # Owner => t \in Loggers /\ InCall(t) /\ b \in Buffers
    BY <1>2, HeldFacts, ThreadFacts DEF InCall
  <2>4. t = Owner => b = NullBuffer
    BY <1>1, <1>2 DEF Holding
  <2>5. b \notin ToSet(queue) /\ b \notin ToSet(pool) /\ b # current
    <3>1. CASE t # Owner
      BY <1>1, <2>3, <3>1 DEF Exclusive
    <3>2. CASE t = Owner
      <4>1. NullBuffer \notin ToSet(queue)
        BY <1>1, <1>2, <3>2 DEF NullByOwner
      <4>2. NullBuffer \notin ToSet(pool) /\ NullBuffer # current
        BY PoolFacts, HeldFacts DEF NullBuffer, NoBuffer
      <4> QED
        BY <2>4, <3>2, <4>1, <4>2
    <3> QED
      BY <3>1, <3>2
  <2>6. /\ ToSet(queue') = ToSet(queue) \cup {b}
        /\ IsInjective(queue')
    BY <1>1, <1>4, <1>6, <2>5, AppendFacts DEF Exclusive
  <2>7. \A u \in Loggers : InCall(u)' <=> InCall(u) /\ u # t
    BY <2>1, <2>2, ThreadFacts DEF InCall
  <2>8. Types'
    <3>1. sent' \in [Loggers -> Nat]
      BY <1>1, <1>6 DEF Types
    <3>2. ToSet(queue') \subseteq Buffers \cup {NullBuffer}
      BY <1>1, <1>2, <2>6 DEF Types
    <3> QED
      BY <1>1, <1>2, <1>3, <2>1, <3>1, <3>2 DEF Types
  <2>9. Control'
    <3>1. \A p \in Producers : pc'[p] = pc[p] \/ pc'[p] = "idle"
      BY <2>1, <2>2, ThreadFacts
    <3>2. t # LogThread => pc'[LogThread] = pc[LogThread]
      BY <2>1, ThreadFacts
    <3>3. t # Owner => pc'[Owner] = pc[Owner]
      BY <2>1, ThreadFacts
    <3> QED
      BY <1>1, <1>2, <2>1, <2>2, <3>1, <3>2, <3>3 DEF Control
  <2>10. Holding'
    <3>1. Working' <=> Working
      BY <1>2, <2>1, <2>2, ThreadFacts DEF Working
    <3>2. \A u \in Loggers : IF InCall(u)' THEN held'[u] \in Buffers' ELSE held'[u] = NoBuffer
      BY <1>1, <1>3, <2>1, <2>7, ThreadFacts DEF Holding
    <3>3. IF pc'[Owner] = "push" THEN held'[Owner] = NullBuffer ELSE held'[Owner] = NoBuffer
      BY <1>1, <2>1, <2>2, ThreadFacts DEF Holding
    <3> QED
      BY <1>1, <1>2, <1>3, <3>1, <3>2, <3>3 DEF Holding
  <2>11. Waits'
    <3>1. QP!InPop' \subseteq {LogThread} /\ (LogThread \in QP!InPop => t # LogThread)
      BY <1>1, <1>2 DEF Waits
    <3> QED
      BY <1>1, <1>2, <1>4, <1>6, <2>1, <3>1, ThreadFacts DEF Waits
  <2>12. NullByOwner'
    <3>1. CASE t = Owner
      BY <2>1, <2>2, <3>1 DEF NullByOwner
    <3>2. CASE t # Owner
      BY <1>1, <2>1, <2>3, <2>6, <3>2, HeldFacts, ThreadFacts DEF NullByOwner
    <3> QED
      BY <3>1, <3>2
  <2>13. Exclusive'
    <3>1. /\ IsInjective(pool') /\ ToSet(pool') \cap ToSet(queue') = {}
          /\ current' \notin ToSet(pool') \cup ToSet(queue')
      BY <1>1, <1>2, <2>5, <2>6 DEF Exclusive
    <3>2. ASSUME NEW u \in Loggers, InCall(u)'
          PROVE  held'[u] \notin ToSet(pool') \cup ToSet(queue') \cup {current'}
      <4>1. InCall(u) /\ u # t /\ held'[u] = held[u] /\ held[u] \in Buffers
        BY <2>1, <2>7, <3>2, HeldFacts, ThreadFacts
      <4>2. held[u] # b
        BY <1>1, <2>3, <2>4, <4>1, HeldFacts DEF Exclusive
      <4> QED
        BY <1>1, <1>2, <2>6, <4>1, <4>2 DEF Exclusive
    <3>3. ASSUME NEW u \in Loggers, NEW w \in Loggers, InCall(u)', held'[u] = held'[w]
          PROVE  u = w
      <4>1. InCall(u) /\ u # t /\ held'[u] = held[u] /\ held[u] # NoBuffer
        BY <2>1, <2>7, <3>3, HeldFacts, ThreadFacts
      <4>2. w # t /\ held'[w] = held[w]
        BY <2>1, <3>3, <4>1, ThreadFacts
      <4> QED
        BY <1>1, <3>3, <4>1, <4>2 DEF Exclusive
    <3> QED
      BY <2>6, <3>1, <3>2, <3>3 DEF Exclusive
  <2>14. Covered'
    <3>1. \A u \in Loggers : held[u] = b \/ held'[u] = held[u]
      BY <2>1, ThreadFacts
    <3> QED
      BY <1>1, <1>2, <1>3, <2>6, <3>1 DEF Covered
  <2>15. FreedAtEnd'
    BY <1>1, <1>2, <1>3, <2>1, <2>2, ThreadFacts DEF FreedAtEnd
  <2> QED
    BY <2>8, <2>9, <2>10, <2>11, <2>12, <2>13, <2>14, <2>15 DEF SinkInv
<1> QED
  BY <1>5, <1>6, PushBufferEffect

(* pop() moves the first buffer from the queue to the log thread.          *)
LEMMA PopBufferKeeps ==
  ASSUME SinkInv, PopBuffer
  PROVE  SinkInv'
<1>1. Types /\ Control /\ Holding /\ Waits /\ NullByOwner /\ Exclusive /\ Covered /\ FreedAtEnd
  BY DEF SinkInv
<1>2. /\ QP!TypeOK' /\ QP!InPush' = QP!InPush /\ arg' = arg
      /\ pc[LogThread] = "pop"
      /\ UNCHANGED <<held, content, pool, sent, written, lost, deleted>>
  BY PopBufferEffect
<1>3. Buffers' = Buffers /\ current = NoBuffer
  BY <1>2, HeldFacts DEF Buffers, Working
<1>4. QP!InPop \subseteq Threads /\ QP!InPush \subseteq Threads /\ queue \in Seq(Nat)
  BY <1>1 DEF Types, QP!TypeOK, QP!InPop, QP!InPush
<1>5. CASE UNCHANGED <<queue, pc, current>> /\ QP!InPop' = QP!InPop \cup {LogThread}
  <2>1. Waits'
    BY <1>1, <1>2, <1>5 DEF Waits
  <2>2. Types' /\ Control' /\ Holding' /\ NullByOwner' /\ FreedAtEnd'
    BY <1>1, <1>2, <1>3, <1>5
       DEF Types, Control, Holding, NullByOwner, FreedAtEnd, InCall, Working
  <2>3. Exclusive' /\ Covered'
    BY <1>1, <1>2, <1>3, <1>5 DEF Exclusive, Covered, InCall
  <2> QED
    BY <2>1, <2>2, <2>3 DEF SinkInv
<1>6. ASSUME NEW label \in {"write", "done"}, queue # <<>>, queue' = Tail(queue),
             QP!InPop' = QP!InPop \ {LogThread},
             pc' = [pc EXCEPT ![LogThread] = label],
             label = "write" => Head(queue) # NullBuffer /\ current' = Head(queue),
             label = "done"  => Head(queue) = NullBuffer /\ current' = current
      PROVE  SinkInv'
  <2>1. /\ pc' \in [Threads -> Labels] /\ pc'[LogThread] = label
        /\ \A u \in Threads \ {LogThread} : pc'[u] = pc[u]
        /\ \A u \in Loggers : InCall(u)' <=> InCall(u)
        /\ pc'[Owner] = pc[Owner]
    BY <1>1, <1>2, <1>6, ThreadFacts DEF Types, InCall, Labels
  <2>2. /\ ToSet(queue) = ToSet(queue') \cup {Head(queue)}
        /\ IsInjective(queue') /\ Head(queue) \notin ToSet(queue')
    BY <1>1, <1>4, <1>6, TailFacts DEF Exclusive
  <2>3. label = "write" => current' \in Buffers /\ current' \in Nat
    BY <1>1, <1>6, <2>2, HeldFacts DEF Types
  <2>4. Types'
    <3>1. current' \in Int /\ ToSet(queue') \subseteq Buffers \cup {NullBuffer}
      BY <1>1, <1>6, <2>2, <2>3 DEF Types
    <3> QED
      BY <1>1, <1>2, <1>3, <2>1, <3>1 DEF Types
  <2>5. Control'
    BY <1>1, <1>2, <1>6, <2>1, ThreadFacts DEF Control
  <2>6. Working' <=> label = "write"
    BY <1>6, <2>1 DEF Working
  <2>7. Holding'
    BY <1>1, <1>2, <1>3, <1>6, <2>1, <2>3, <2>6 DEF Holding
  <2>8. Waits'
    BY <1>1, <1>2, <1>4, <1>6, <2>1, ThreadFacts DEF Waits
  <2>9. NullByOwner' /\ FreedAtEnd'
    BY <1>1, <1>2, <1>3, <2>1, <2>2 DEF NullByOwner, FreedAtEnd
  <2>10. Exclusive'
    <3>1. IsInjective(pool') /\ ToSet(pool') \cap ToSet(queue') = {}
      BY <1>1, <1>2, <2>2 DEF Exclusive
    <3>2. current' \notin ToSet(pool') \cup ToSet(queue')
      BY <1>1, <1>2, <1>6, <2>2 DEF Exclusive
    <3>3. ASSUME NEW u \in Loggers, InCall(u)'
          PROVE  held'[u] \notin ToSet(pool') \cup ToSet(queue') \cup {current'}
      BY <1>1, <1>2, <1>6, <2>1, <2>2, <3>3 DEF Exclusive
    <3>4. \A u, w \in Loggers : InCall(u)' /\ held'[u] = held'[w] => u = w
      BY <1>1, <1>2, <2>1 DEF Exclusive
    <3> QED
      BY <2>2, <3>1, <3>2, <3>3, <3>4 DEF Exclusive
  <2>11. Covered'
    BY <1>1, <1>2, <1>3, <1>6, <2>2, HeldFacts DEF Covered
  <2> QED
    BY <2>4, <2>5, <2>7, <2>8, <2>9, <2>10, <2>11 DEF SinkInv
<1> QED
  BY <1>5, <1>6, PopBufferEffect

(* returnObject() moves the buffer from the log thread into the pool.      *)
LEMMA RecycleKeeps ==
  ASSUME SinkInv, Recycle
  PROVE  SinkInv'
<1>1. Types /\ Control /\ Holding /\ Waits /\ NullByOwner /\ Exclusive /\ Covered /\ FreedAtEnd
  BY DEF SinkInv
<1>2. /\ UNCHANGED <<held, sent, written, lost, deleted, queueVars>>
      /\ content' = [content EXCEPT ![current] = <<>>]
      /\ pool' = Append(pool, current) /\ current' = NoBuffer
      /\ pc[LogThread] = "recycle" /\ pc' = [pc EXCEPT ![LogThread] = "pop"]
  BY DEF Recycle, goto, sinkVars
<1>3. current \in Buffers /\ current \in 1..Len(content)
  BY <1>2, HeldFacts DEF Working
<1>4. content' \in Seq(Seq(Records)) /\ Buffers' = Buffers
  <2>1. content \in Seq(Seq(Records)) /\ <<>> \in Seq(Records)
    BY <1>1 DEF Types
  <2> QED
    BY <1>2, <1>3, <2>1 DEF Buffers
<1>5. /\ QP!TypeOK' /\ queue' = queue /\ arg' = arg
      /\ QP!InPush' = QP!InPush /\ QP!InPop' = QP!InPop
  BY <1>1, <1>2, QueueUnchanged DEF Types
<1>6. /\ pc' \in [Threads -> Labels] /\ pc'[LogThread] = "pop"
      /\ \A u \in Threads \ {LogThread} : pc'[u] = pc[u]
      /\ \A u \in Loggers : InCall(u)' <=> InCall(u)
      /\ pc'[Owner] = pc[Owner] /\ ~Working'
  BY <1>1, <1>2, ThreadFacts DEF Types, InCall, Labels, Working
<1>7. /\ pool' \in Seq(Buffers) /\ ToSet(pool') = ToSet(pool) \cup {current}
      /\ IsInjective(pool')
  BY <1>1, <1>2, <1>3, AppendFacts DEF Types, Exclusive
<1>8. Types'
  BY <1>1, <1>2, <1>4, <1>5, <1>6, <1>7 DEF Types, NoBuffer
<1>9. Control'
  BY <1>1, <1>2, <1>6, ThreadFacts DEF Control
<1>10. Holding'
  BY <1>1, <1>2, <1>4, <1>6 DEF Holding
<1>11. Waits'
  BY <1>1, <1>2, <1>5, <1>6, ThreadFacts DEF Waits, QP!TypeOK, QP!InPush, QP!InPop
<1>12. NullByOwner' /\ FreedAtEnd'
  BY <1>1, <1>2, <1>4, <1>5, <1>6 DEF NullByOwner, FreedAtEnd
<1>13. Exclusive'
  <2>1. NoBuffer \notin ToSet(pool') \cup ToSet(queue)
    BY <1>1, <1>3, <1>7, PoolFacts, HeldFacts DEF Types, NullBuffer, NoBuffer
  <2>2. ASSUME NEW u \in Loggers, InCall(u)
        PROVE  held[u] \notin ToSet(pool') \cup ToSet(queue) \cup {NoBuffer}
    BY <1>1, <1>7, <2>2, HeldFacts DEF Exclusive
  <2> QED
    BY <1>1, <1>2, <1>5, <1>6, <1>7, <2>1, <2>2 DEF Exclusive
<1>14. Covered'
  BY <1>1, <1>2, <1>4, <1>5, <1>7 DEF Covered
<1> QED
  BY <1>8, <1>9, <1>10, <1>11, <1>12, <1>13, <1>14 DEF SinkInv

(* The destructor begins.                                                  *)
LEMMA BeginDestroyKeeps ==
  ASSUME SinkInv, BeginDestroy
  PROVE  SinkInv'
<1>1. Types /\ Control /\ Holding /\ Waits /\ NullByOwner /\ Exclusive /\ Covered /\ FreedAtEnd
  BY DEF SinkInv
<1>2. /\ UNCHANGED <<current, content, pool, sent, written, lost, deleted, queueVars>>
      /\ pc[Owner] = "running" /\ pc' = [pc EXCEPT ![Owner] = "push"]
      /\ \A p \in Producers : pc[p] = "idle"
      /\ held' = [held EXCEPT ![Owner] = NullBuffer]
  BY DEF BeginDestroy, goto, sinkVars
<1>3. /\ QP!TypeOK' /\ queue' = queue /\ arg' = arg
      /\ QP!InPush' = QP!InPush /\ QP!InPop' = QP!InPop
  BY <1>1, <1>2, QueueUnchanged DEF Types
<1>4. /\ pc' \in [Threads -> Labels] /\ pc'[Owner] = "push" /\ held'[Owner] = NullBuffer
      /\ \A u \in Threads \ {Owner} : pc'[u] = pc[u] /\ held'[u] = held[u]
      /\ held' \in [Threads -> Int]
      /\ \A u \in Loggers : (InCall(u)' <=> InCall(u)) /\ held'[u] = held[u] /\ pc'[u] = pc[u]
  BY <1>1, <1>2, ThreadFacts DEF Types, InCall, Labels, NullBuffer
<1>5. Buffers' = Buffers /\ (Working' <=> Working)
  BY <1>2, <1>4, ThreadFacts DEF Buffers, Working
<1>6. Types'
  BY <1>1, <1>2, <1>3, <1>4, <1>5 DEF Types
<1>7. Control'
  BY <1>1, <1>2, <1>4, ThreadFacts DEF Control
<1>8. Holding'
  BY <1>1, <1>2, <1>4, <1>5 DEF Holding
<1>9. Waits'
  BY <1>1, <1>2, <1>3, <1>4, ThreadFacts DEF Waits, QP!TypeOK, QP!InPush, QP!InPop
<1>10. NullByOwner' /\ FreedAtEnd'
  BY <1>1, <1>2, <1>3, <1>4 DEF NullByOwner, FreedAtEnd
<1>11. Exclusive'
  BY <1>1, <1>2, <1>3, <1>4 DEF Exclusive
<1>12. Covered'
  BY <1>1, <1>2, <1>3, <1>4, <1>5 DEF Covered
<1> QED
  BY <1>6, <1>7, <1>8, <1>9, <1>10, <1>11, <1>12 DEF SinkInv

(* The destructor frees what the pool and the queue hold: everything.      *)
LEMMA FinishDestroyKeeps ==
  ASSUME SinkInv, FinishDestroy
  PROVE  SinkInv'
<1>1. Types /\ Control /\ Holding /\ Waits /\ NullByOwner /\ Covered /\ FreedAtEnd
  BY DEF SinkInv
<1>2. /\ UNCHANGED <<held, current, content, pool, sent, written, lost, queueVars>>
      /\ pc[Owner] = "join" /\ pc[LogThread] = "done"
      /\ pc' = [pc EXCEPT ![Owner] = "gone"]
      /\ deleted' = deleted \cup ToSet(pool) \cup (ToSet(queue) \ {NullBuffer})
  BY DEF FinishDestroy, goto, sinkVars
<1>3. /\ pc' \in [Threads -> Labels] /\ pc'[Owner] = "gone"
      /\ \A u \in Threads \ {Owner} : pc'[u] = pc[u]
      /\ \A u \in Loggers : (InCall(u)' <=> InCall(u)) /\ pc'[u] = pc[u]
  BY <1>1, <1>2, ThreadFacts DEF Types, InCall, Labels
<1>4. Buffers' = Buffers /\ (Working' <=> Working)
  BY <1>2, <1>3, ThreadFacts DEF Buffers, Working
<1>5. /\ Exclusive' /\ Covered'
      /\ QP!TypeOK' /\ queue' = queue /\ arg' = arg
      /\ QP!InPush' = QP!InPush /\ QP!InPop' = QP!InPop
  BY <1>2, <1>3, <1>4, NoBufferMoves
<1>6. Types' /\ Control' /\ Holding'
  BY <1>1, <1>2, <1>3, <1>4, <1>5, ThreadFacts DEF Types, Control, Holding
<1>7. Waits'
  BY <1>1, <1>2, <1>3, <1>5, ThreadFacts DEF Waits, QP!TypeOK, QP!InPush, QP!InPop
<1>8. FreedAtEnd'
  <2>1. \A u \in Loggers : held[u] = NoBuffer
    <3>1. \A u \in Loggers : ~InCall(u)
      BY <1>1, <1>2, ThreadFacts DEF Control, InCall
    <3> QED
      BY <3>1, HeldFacts
  <2>2. current = NoBuffer /\ NoBuffer \notin Buffers /\ NullBuffer \notin Buffers
    BY <1>2, HeldFacts DEF Working
  <2>3. Buffers \subseteq ToSet(pool) \cup (ToSet(queue) \ {NullBuffer})
    BY <1>1, <2>1, <2>2 DEF Covered
  <2>4. ToSet(pool) \cup (ToSet(queue) \ {NullBuffer}) \subseteq Buffers
    BY <1>1, PoolFacts DEF Types
  <2>5. deleted' = Buffers
    BY <1>1, <1>2, <2>3, <2>4 DEF FreedAtEnd
  <2> QED
    BY <1>3, <1>4, <2>5 DEF FreedAtEnd
<1>9. NullByOwner'
  BY <1>3 DEF NullByOwner
<1> QED
  BY <1>5, <1>6, <1>7, <1>8, <1>9 DEF SinkInv

(* A thread that wakes up for no reason, and a stuttering step.            *)
LEMMA WakeupKeeps ==
  ASSUME SinkInv,
         \/ \E t \in Threads : Wakeup(t)
         \/ UNCHANGED vars
  PROVE  SinkInv'
<1>1. /\ UNCHANGED <<pc, held, current, content, pool, sent, written, lost, deleted>>
      /\ QP!TypeOK' /\ queue' = queue /\ arg' = arg
      /\ QP!InPush' = QP!InPush /\ QP!InPop' = QP!InPop
  <2>1. QP!TypeOK
    BY DEF SinkInv, Types
  <2>2. CASE \E t \in Threads : Wakeup(t)
    BY <2>1, <2>2, WakeupEffect, SameQueue DEF Wakeup, sinkVars
  <2>3. CASE UNCHANGED vars
    BY <2>1, <2>3, QueueUnchanged DEF vars, sinkVars
  <2> QED
    BY <2>2, <2>3
<1>2. Buffers' = Buffers /\ (Working' <=> Working) /\ \A u : InCall(u)' <=> InCall(u)
  BY <1>1 DEF Buffers, Working, InCall
<1>3. Types' /\ Control' /\ Holding' /\ Waits' /\ NullByOwner' /\ FreedAtEnd'
  BY <1>1, <1>2
     DEF SinkInv, Types, Control, Holding, Waits, NullByOwner, FreedAtEnd
<1>4. Exclusive' /\ Covered'
  BY <1>1, <1>2 DEF SinkInv, Exclusive, Covered
<1> QED
  BY <1>3, <1>4 DEF SinkInv

(* No thread has a buffer at first.                                        *)
LEMMA InitSinkInv == Init => SinkInv
<1> SUFFICES ASSUME Init PROVE SinkInv
  OBVIOUS
<1>1. /\ pc = [t \in Threads |-> IF t = LogThread THEN "pop"
                                 ELSE IF t = Owner THEN "running" ELSE "idle"]
      /\ held = [t \in Threads |-> NoBuffer]
      /\ current = NoBuffer /\ content = <<>> /\ pool = <<>>
      /\ sent = [t \in Loggers |-> 0]
      /\ written = <<>> /\ lost = <<>> /\ deleted = {}
      /\ queue = <<>> /\ QP!Init
  BY SameQueue DEF Init, QP!Init
<1>2. Buffers = {} /\ ToSet(pool) = {} /\ ToSet(queue) = {}
  BY <1>1 DEF Buffers, ToSet
<1>3. QP!TypeOK /\ QP!InPush = {} /\ QP!InPop = {}
  BY <1>1 DEF QP!Init, QP!TypeOK, QP!InPush, QP!InPop
<1>4. /\ pc \in [Threads -> Labels] /\ pc[LogThread] = "pop" /\ pc[Owner] = "running"
      /\ \A p \in Producers : pc[p] = "idle"
      /\ \A t \in Threads : held[t] = NoBuffer
      /\ \A t \in Loggers : ~InCall(t)
  BY <1>1, ThreadFacts DEF Labels, InCall
<1>5. Types
  BY <1>1, <1>2, <1>3, <1>4 DEF Types, NoBuffer
<1>6. Control /\ Holding /\ Waits
  BY <1>1, <1>3, <1>4, ThreadFacts DEF Control, Holding, Waits, Working
<1>7. NullByOwner /\ FreedAtEnd /\ Covered
  BY <1>1, <1>2, <1>4 DEF NullByOwner, FreedAtEnd, Covered
<1>8. Exclusive
  BY <1>1, <1>2, <1>4 DEF Exclusive, IsInjective
<1> QED
  BY <1>5, <1>6, <1>7, <1>8 DEF SinkInv

(* SinkInv holds in every reachable state.                                 *)
LEMMA SinkInvPreserved == SinkInv /\ [Next]_vars => SinkInv'
<1> SUFFICES ASSUME SinkInv, [Next]_vars PROVE SinkInv'
  OBVIOUS
<1>1. ASSUME NEW t \in Loggers, LogCall(t) PROVE SinkInv'
  BY <1>1, GetBufferKeeps, FillKeeps DEF LogCall
<1>2. ASSUME NEW t \in Threads, PushBuffer(t) PROVE SinkInv'
  BY <1>2, PushBufferKeeps
<1>3. ASSUME LogThreadStep PROVE SinkInv'
  BY <1>3, PopBufferKeeps, WriteRecordKeeps, RecycleKeeps DEF LogThreadStep
<1>4. ASSUME OwnerStep PROVE SinkInv'
  BY <1>4, BeginDestroyKeeps, FinishDestroyKeeps DEF OwnerStep
<1>5. ASSUME (\E t \in Threads : Wakeup(t)) \/ UNCHANGED vars PROVE SinkInv'
  BY <1>5, WakeupKeeps
<1> QED
  BY <1>1, <1>2, <1>3, <1>4, <1>5 DEF Next, Terminated

(* So every reachable state satisfies it.                                  *)
LEMMA SinkInvHolds == Spec => []SinkInv
  BY InitSinkInv, SinkInvPreserved, PTL DEF Spec

-----------------------------------------------------------------------------
(* Every reachable state is well-typed: a thread holds a buffer, nullptr   *)
(* or nothing, and the queue holds nothing else than buffers and nullptr   *)
(* (log_async_sink.cc:30-119).                                             *)
THEOREM TypeCorrect == Spec => []TypeOK
<1>1. SinkInv => TypeOK
  <2> SUFFICES ASSUME SinkInv PROVE TypeOK
    OBVIOUS
  <2>1. Types /\ Holding /\ FreedAtEnd
    BY DEF SinkInv
  <2>2. held \in [Threads -> Buffers \cup {NullBuffer, NoBuffer}]
    <3>1. \A t \in Threads : held[t] \in Buffers \cup {NullBuffer, NoBuffer}
      BY <2>1, ThreadFacts DEF Holding
    <3> QED
      BY <2>1, <3>1 DEF Types
  <2>3. current \in Buffers \cup {NoBuffer} /\ deleted \subseteq Buffers
    BY <2>1 DEF Holding, FreedAtEnd
  <2> QED
    BY <2>1, <2>2, <2>3, SameQueue DEF Types, TypeOK
<1> QED
  BY <1>1, SinkInvHolds, PTL

(* However log() calls, the log thread's own reports and the destructor    *)
(* interleave, a buffer is never in two hands and never lost               *)
(* (log_async_sink.cc:30-119 with object_pool.h:26-62).                    *)
THEOREM OwnershipCorrect == Spec => []OwnedOnce
<1>1. SinkInv => OwnedOnce
  <2> SUFFICES ASSUME SinkInv, NEW b \in Buffers PROVE Cardinality(OwnersOf(b)) = 1
    BY DEF OwnedOnce
  <2>1. Exclusive /\ Covered /\ b # NoBuffer /\ b # NullBuffer
    BY HeldFacts DEF SinkInv
  <2> DEFINE holders == {u \in Threads : held[u] = b}
             inPool  == {j \in DOMAIN pool : pool[j] = b}
             inQueue == {j \in DOMAIN queue : queue[j] = b}
  <2>2. OwnersOf(b) = {<<"held", t>> : t \in holders}
                        \cup (IF current = b THEN {<<"current", LogThread>>} ELSE {})
                        \cup {<<"pool", i>> : i \in inPool}
                        \cup {<<"queue", i>> : i \in inQueue}
    BY DEF OwnersOf
  <2>3. \A u \in holders : u \in Loggers /\ InCall(u)
    BY <2>1, HeldFacts, ThreadFacts DEF SinkInv, Holding
  <2>4. b \in ToSet(pool) <=> inPool # {}
    BY DEF ToSet
  <2>5. b \in ToSet(queue) <=> inQueue # {}
    BY DEF ToSet
  <2>6. /\ \A t, u \in holders : t = u
        /\ \A i, j \in inPool : i = j
        /\ \A i, j \in inQueue : i = j
    BY <2>1, <2>3 DEF Exclusive, IsInjective
  <2>7. /\ holders # {} => current # b /\ inPool = {} /\ inQueue = {}
        /\ current = b => inPool = {} /\ inQueue = {}
        /\ inPool # {} => inQueue = {}
    BY <2>1, <2>3, <2>4, <2>5 DEF Exclusive
  <2>8. holders # {} \/ current = b \/ inPool # {} \/ inQueue # {}
    BY <2>1, <2>4, <2>5, ThreadFacts DEF Covered
  <2> HIDE DEF holders, inPool, inQueue
  <2>9. \E place : OwnersOf(b) = {place}
    <3>1. CASE holders # {}
      <4>1. PICK t : holders = {t}
        BY <2>6, <3>1
      <4>2. OwnersOf(b) = {<<"held", t>>}
        BY <2>2, <2>7, <3>1, <4>1
      <4> QED
        BY <4>2
    <3>2. CASE holders = {} /\ current = b
      BY <2>2, <2>7, <3>2
    <3>3. CASE holders = {} /\ current # b /\ inPool # {}
      <4>1. PICK i : inPool = {i}
        BY <2>6, <3>3
      <4>2. OwnersOf(b) = {<<"pool", i>>}
        BY <2>2, <2>7, <3>3, <4>1
      <4> QED
        BY <4>2
    <3>4. CASE holders = {} /\ current # b /\ inPool = {} /\ inQueue # {}
      <4>1. PICK i : inQueue = {i}
        BY <2>6, <3>4
      <4>2. OwnersOf(b) = {<<"queue", i>>}
        BY <2>2, <2>7, <3>4, <4>1
      <4> QED
        BY <4>2
    <3> QED
      BY <2>8, <3>1, <3>2, <3>3, <3>4
  <2> QED
    BY <2>9, FS_Singleton
<1> QED
  BY <1>1, SinkInvHolds, PTL

(* The destructor frees every buffer that was ever made                    *)
(* (log_async_sink.cc:44-53, concurrent_queue.h:110-133,                   *)
(* object_pool.h:21-24).                                                   *)
THEOREM NothingLeaks == Spec => []AllBuffersFreed
<1>1. SinkInv => AllBuffersFreed
  BY DEF SinkInv, FreedAtEnd, AllBuffersFreed
<1> QED
  BY <1>1, SinkInvHolds, PTL

(* Every step of the sink's threads is a step of its queue, or leaves it   *)
(* alone: what ConcurrentQueueProofs shows of any use of a queue holds of  *)
(* this one.                                                               *)
THEOREM QueueIsUsedWell == Spec => QP!Spec
<1>1. Init => QP!Init
  BY SameQueue DEF Init
<1>2. SinkInv /\ [Next]_vars => [QP!Next]_QP!vars
  <2> SUFFICES ASSUME SinkInv, [Next]_vars PROVE [QP!Next]_QP!vars
    OBVIOUS
  <2>1. ASSUME NEW t \in Threads, PushBuffer(t) PROVE QP!Next
    <3>1. held[t] \in Nat
      BY <2>1, HeldFacts DEF PushBuffer, NullBuffer
    <3> QED
      BY <2>1, <3>1, SameQueue DEF PushBuffer, QP!Next
  <2>2. ASSUME NEW t \in Threads, Wakeup(t) PROVE QP!Next
    BY <2>2, SameQueue DEF Wakeup, QP!Next
  <2>3. ASSUME PopBuffer PROVE QP!Next
    BY <2>3, SameQueue, ThreadFacts DEF PopBuffer, QP!Next
  <2>4. ASSUME UNCHANGED queueVars PROVE UNCHANGED QP!vars
    BY <2>4 DEF queueVars, QP!vars, QP!notFullVars, QP!notEmptyVars
  <2>5. ASSUME NEW t \in Loggers, LogCall(t) PROVE UNCHANGED queueVars
    BY <2>5 DEF LogCall, GetBuffer, Fill
  <2>6. ASSUME WriteRecord \/ Recycle \/ OwnerStep \/ Terminated \/ UNCHANGED vars
        PROVE  UNCHANGED queueVars
    BY <2>6 DEF WriteRecord, Recycle, OwnerStep, BeginDestroy, FinishDestroy, Terminated, vars
  <2> QED
    BY <2>1, <2>2, <2>3, <2>4, <2>5, <2>6 DEF Next, LogThreadStep
<1> QED
  BY <1>1, <1>2, SinkInvHolds, PTL DEF Spec, QP!Spec

(* No log() call sleeps through a free slot of the queue, the log thread   *)
(* sleeps through no record, and no burst outgrows queue_size              *)
(* (concurrent_queue.h:48-94 as log_async_sink.cc:37 makes the queue).     *)
THEOREM NobodyStranded ==
  Spec => [](QP!CapacityRespected /\ QP!PushersNotStranded /\ QP!PoppersNotStranded)
<1>1. QP!Spec => []QP!CapacityRespected
  BY QP!CapacityCorrect, QueueConstants
<1>2. QP!Spec => []QP!PushersNotStranded
  BY QP!NoPusherStranded, QueueConstants
<1>3. QP!Spec => []QP!PoppersNotStranded
  BY QP!NoPopperStranded, QueueConstants
<1> QED
  BY <1>1, <1>2, <1>3, QueueIsUsedWell, PTL

-----------------------------------------------------------------------------
(* Where the records are.                                                  *)

(* The records the adapted sink has had.                                   *)
Done == ToSet(written) \cup ToSet(lost)

(* The buffers on the way to it.                                           *)
Pending ==
  (ToSet(queue) \ {NullBuffer}) \cup (IF pc[LogThread] = "write" THEN {current} ELSE {})

(* The records whose log() call returned.                                  *)
Logged == UNION {{t} \X (1..sent[t]) : t \in Loggers}

(* A buffer is empty until its record is written into it, and has that     *)
(* record alone until the adapted sink has had it.                         *)
Contents ==
  /\ \A b \in ToSet(pool) : content[b] = <<>>
  /\ \A t \in Loggers : /\ pc[t] = "fill" => content[held[t]] = <<>>
                        /\ pc[t] = "push" => content[held[t]] = << <<t, sent[t] + 1>> >>
  /\ \A b \in Pending : \E r \in Logged \ Done : content[b] = <<r>>

(* Each record is in one place.                                            *)
OnePlace ==
  /\ IsInjective(written) /\ IsInjective(lost) /\ ToSet(written) \cap ToSet(lost) = {}
  /\ \A b, c \in Pending : content[b] = content[c] => b = c
  /\ Done \subseteq Logged
  /\ \A r \in Logged \ Done : \E b \in Pending : content[b] = <<r>>

OfReporter(b) == \A r : content[b] = <<r>> => r[1] = LogThread

(* What is queued behind nullptr, the log thread queued itself.            *)
NullLast ==
  /\ \A i, j \in DOMAIN queue : queue[i] = NullBuffer /\ i < j => OfReporter(queue[j])
  /\ pc[LogThread] = "done" =>
       /\ pc[Owner] \in {"join", "gone"}
       /\ \A b \in ToSet(queue) : b # NullBuffer /\ OfReporter(b)

DrainInv == Contents /\ OnePlace /\ NullLast

(* Membership in Logged.                                                   *)
LEMMA LoggedFacts ==
  /\ \A t \in Loggers : \A n : <<t, n>> \in Logged <=> n \in 1..sent[t]
  /\ \A r \in Logged : r \in Loggers \X Nat
<1>1. \A r : r \in Logged <=> \E t \in Loggers : \E n \in 1..sent[t] : r = <<t, n>>
  BY DEF Logged
<1>2. \A t : 1..sent[t] \subseteq Nat
  OBVIOUS
<1> QED
  BY <1>1, <1>2

(* Buffers on the way are buffers that no thread holds and the pool has    *)
(* not.                                                                    *)
LEMMA PendingFacts ==
  ASSUME SinkInv
  PROVE  /\ Pending \subseteq Buffers /\ Pending \cap ToSet(pool) = {}
         /\ \A t \in Loggers : InCall(t) => held[t] \notin Pending
<1>1. Types /\ Exclusive
  BY DEF SinkInv
<1>2. pc[LogThread] = "write" => current \in Buffers
  BY HeldFacts DEF Working
<1> QED
  BY <1>1, <1>2 DEF Pending, Types, Exclusive

(* A step after which the same records are in the same places.             *)
LEMMA RecordsStay ==
  ASSUME SinkInv, DrainInv,
         UNCHANGED <<sent, written, lost, queue>>, Pending' = Pending,
         \A b \in Pending : content'[b] = content[b],
         \A b \in ToSet(pool') : content'[b] = <<>>,
         \A t \in Loggers : /\ pc'[t] = "fill" => content'[held'[t]] = <<>>
                            /\ pc'[t] = "push" => content'[held'[t]] = << <<t, sent[t] + 1>> >>,
         pc'[LogThread] = "done" => pc[LogThread] = "done",
         pc[Owner] \in {"join", "gone"} => pc'[Owner] \in {"join", "gone"}
  PROVE  DrainInv'
<1>1. Contents /\ OnePlace /\ NullLast
  BY DEF DrainInv
<1>2. Logged' = Logged /\ Done' = Done
  BY DEF Logged, Done
<1>3. Contents'
  BY <1>1, <1>2 DEF Contents
<1>4. OnePlace'
  BY <1>1, <1>2 DEF OnePlace
<1>5. \A b \in ToSet(queue) \ {NullBuffer} : OfReporter(b)' <=> OfReporter(b)
  BY DEF OfReporter, Pending
<1>6. /\ \A j \in DOMAIN queue : queue[j] \in ToSet(queue)
      /\ \A i, j \in DOMAIN queue : queue[i] = queue[j] => i = j
      /\ DOMAIN queue \subseteq Int
  BY DEF ToSet, SinkInv, Exclusive, IsInjective, Types, QP!TypeOK
<1>7. NullLast'
  BY <1>1, <1>5, <1>6 DEF NullLast
<1> QED
  BY <1>3, <1>4, <1>7 DEF DrainInv

(* getObject() gives an empty buffer; writing fills it.                    *)
LEMMA LogCallDrains ==
  ASSUME SinkInv, DrainInv, NEW t \in Loggers, LogCall(t)
  PROVE  DrainInv'
<1>1. Contents /\ Types /\ Exclusive /\ content \in Seq(Seq(Records))
  BY DEF DrainInv, SinkInv, Types
<1>2. CASE GetBuffer(t)
  <2>1. /\ UNCHANGED <<current, sent, written, lost, queue>>
        /\ pc' = [pc EXCEPT ![t] = "fill"] /\ pc[t] # "write"
    BY <1>2 DEF GetBuffer, MayLog, goto, sinkVars, queueVars
  <2>2. /\ pc'[t] = "fill" /\ \A u \in Threads \ {t} : pc'[u] = pc[u]
        /\ pc'[LogThread] = "write" <=> pc[LogThread] = "write"
        /\ pc'[LogThread] = "done" => pc[LogThread] = "done"
        /\ pc'[Owner] = pc[Owner]
    BY <1>1, <2>1, ThreadFacts DEF Types
  <2>3. /\ \A b \in Buffers : content'[b] = content[b]
        /\ ToSet(pool') \subseteq ToSet(pool)
        /\ content'[held'[t]] = <<>> /\ \A u \in Threads \ {t} : held'[u] = held[u]
    <3>1. CASE pool # <<>> /\ held' = [held EXCEPT ![t] = Last(pool)]
               /\ pool' = Front(pool) /\ UNCHANGED content
      <4>1. Last(pool) \in ToSet(pool) /\ ToSet(Front(pool)) \subseteq ToSet(pool)
        BY <1>1, <3>1, FrontFacts DEF Types
      <4>2. held'[t] = Last(pool) /\ \A u \in Threads \ {t} : held'[u] = held[u]
        BY <1>1, <3>1, ThreadFacts DEF Types
      <4> QED
        BY <1>1, <3>1, <4>1, <4>2 DEF Contents
    <3>2. CASE held' = [held EXCEPT ![t] = Len(content) + 1]
               /\ content' = Append(content, <<>>) /\ UNCHANGED pool
      <4>1. held'[t] = Len(content) + 1 /\ \A u \in Threads \ {t} : held'[u] = held[u]
        BY <1>1, <3>2, ThreadFacts DEF Types
      <4>2. <<>> \in Seq(Records)
        OBVIOUS
      <4>3. content'[Len(content) + 1] = <<>> /\ \A b \in 1..Len(content) : content'[b] = content[b]
        BY <1>1, <3>2, <4>2, AppendProperties
      <4> QED
        BY <1>1, <3>2, <4>1, <4>3, BufferFacts
    <3> QED
      BY <1>2, <3>1, <3>2 DEF GetBuffer
  <2>4. Pending' = Pending
    BY <2>1, <2>2 DEF Pending
  <2>5. \A b \in ToSet(pool') : content'[b] = <<>>
    BY <1>1, <2>3, PoolFacts DEF Contents
  <2>6. ASSUME NEW u \in Loggers
        PROVE  /\ pc'[u] = "fill" => content'[held'[u]] = <<>>
               /\ pc'[u] = "push" => content'[held'[u]] = << <<u, sent[u] + 1>> >>
    <3>1. CASE u = t
      BY <2>2, <2>3, <3>1
    <3>2. CASE u # t
      <4>1. pc'[u] = pc[u] /\ held'[u] = held[u]
        BY <2>2, <2>3, <3>2, ThreadFacts
      <4>2. InCall(u) => content'[held[u]] = content[held[u]]
        BY <2>3, HeldFacts
      <4> QED
        BY <1>1, <4>1, <4>2 DEF Contents, InCall
    <3> QED
      BY <3>1, <3>2
  <2> QED
    BY <2>1, <2>2, <2>3, <2>4, <2>5, <2>6, PendingFacts, RecordsStay
<1>3. CASE Fill(t)
  <2>1. /\ UNCHANGED <<held, current, pool, sent, written, lost, queue>>
        /\ pc[t] = "fill" /\ pc' = [pc EXCEPT ![t] = "push"]
        /\ content' = [content EXCEPT ![held[t]] = Append(content[held[t]], <<t, sent[t] + 1>>)]
    BY <1>3 DEF Fill, goto, sinkVars, queueVars
  <2>2. /\ pc'[t] = "push" /\ \A u \in Threads \ {t} : pc'[u] = pc[u]
        /\ pc'[LogThread] = "write" <=> pc[LogThread] = "write"
        /\ pc'[LogThread] = "done" => pc[LogThread] = "done"
        /\ pc'[Owner] = pc[Owner]
    BY <1>1, <2>1, ThreadFacts DEF Types
  <2>3. InCall(t) /\ held[t] \in 1..Len(content) /\ content[held[t]] = <<>>
    BY <1>1, <2>1, HeldFacts DEF Contents, InCall
  <2>4. /\ content'[held[t]] = << <<t, sent[t] + 1>> >>
        /\ \A b \in Buffers : b # held[t] => content'[b] = content[b]
    BY <1>1, <2>1, <2>3, BufferFacts
  <2>5. Pending' = Pending
    BY <2>1, <2>2 DEF Pending
  <2>6. \A b \in ToSet(pool') : content'[b] = <<>>
    BY <1>1, <2>1, <2>3, <2>4, PoolFacts DEF Contents, Exclusive
  <2>7. ASSUME NEW u \in Loggers
        PROVE  /\ pc'[u] = "fill" => content'[held'[u]] = <<>>
               /\ pc'[u] = "push" => content'[held'[u]] = << <<u, sent[u] + 1>> >>
    <3>1. CASE u = t
      BY <2>1, <2>2, <2>4, <3>1
    <3>2. CASE u # t
      <4>1. pc'[u] = pc[u]
        BY <2>2, <3>2, ThreadFacts
      <4>2. InCall(u) => held[u] # held[t] /\ content'[held[u]] = content[held[u]]
        BY <1>1, <2>3, <2>4, <3>2, HeldFacts DEF Exclusive
      <4> QED
        BY <1>1, <2>1, <4>1, <4>2 DEF Contents, InCall
    <3> QED
      BY <3>1, <3>2
  <2>8. \A b \in Pending : content'[b] = content[b]
    BY <2>3, <2>4, PendingFacts
  <2> QED
    BY <2>1, <2>2, <2>5, <2>6, <2>7, <2>8, RecordsStay
<1> QED
  BY <1>2, <1>3 DEF LogCall

(* push() returns: the record counts as logged, and is on its way.         *)
LEMMA PushBufferDrains ==
  ASSUME SinkInv, DrainInv, NEW t \in Threads, PushBuffer(t)
  PROVE  DrainInv'
<1> DEFINE b == held[t]
           r == <<t, sent[t] + 1>>
<1>1. Contents /\ OnePlace /\ NullLast /\ Types /\ Control /\ NullByOwner /\ Exclusive
  BY DEF DrainInv, SinkInv
<1>2. /\ pc[t] = "push" /\ b \in Buffers \cup {NullBuffer}
      /\ UNCHANGED <<current, content, pool, written, lost>>
  BY PushBufferEffect
<1>3. CASE UNCHANGED <<queue, pc, held, sent>>
  <2>1. Pending' = Pending
    BY <1>2, <1>3 DEF Pending
  <2> QED
    BY <1>1, <1>2, <1>3, <2>1, RecordsStay DEF Contents
<1>4. CASE /\ queue' = Append(queue, b)
           /\ held' = [held EXCEPT ![t] = NoBuffer]
           /\ pc' = [pc EXCEPT ![t] = AfterPush(t)]
           /\ sent' = [u \in Loggers |-> IF u = t THEN sent[u] + 1 ELSE sent[u]]
  <2>1. /\ pc'[t] = AfterPush(t) /\ AfterPush(t) \in {"idle", "recycle", "join"}
        /\ \A u \in Threads \ {t} : pc'[u] = pc[u] /\ held'[u] = held[u]
    BY <1>1, <1>4, ThreadFacts DEF Types, AfterPush
  <2>2. queue \in Seq(Nat) /\ b \in Nat
    BY <1>1, <1>2, HeldFacts DEF Types, QP!TypeOK, NullBuffer
  <2>3. /\ ToSet(queue') = ToSet(queue) \cup {b} /\ Len(queue') = Len(queue) + 1
        /\ \A i \in 1..Len(queue) : queue'[i] = queue[i]
        /\ queue'[Len(queue) + 1] = b
        /\ DOMAIN queue = 1..Len(queue) /\ DOMAIN queue' = 1..(Len(queue) + 1)
        /\ Len(queue) \in Nat
    BY <1>4, <2>2, AppendFacts, AppendProperties
  <2>4. pc'[LogThread] = "write" <=> pc[LogThread] = "write"
    BY <1>2, <2>1, ThreadFacts
  <2>5. Pending' = Pending \cup ({b} \ {NullBuffer})
    BY <1>2, <2>3, <2>4 DEF Pending
  <2>6. Done' = Done
    BY <1>2 DEF Done
  <2>7. \A i, j \in DOMAIN queue' : queue'[i] = NullBuffer /\ i < j =>
          i \in DOMAIN queue /\ queue[i] = NullBuffer /\ (j \in DOMAIN queue \/ j = Len(queue) + 1)
    BY <2>3
  <2>8. CASE t = Owner
    <3>1. b = NullBuffer /\ sent' = sent
      <4>1. \A u \in Loggers : sent'[u] = sent[u]
        BY <1>4, <2>8, ThreadFacts
      <4>2. sent \in [Loggers -> Nat] /\ sent' = [u \in Loggers |-> sent'[u]]
        BY <1>1, <1>4 DEF Types
      <4> QED
        BY <1>2, <2>8, <4>1, <4>2 DEF SinkInv, Holding
    <3>2. Pending' = Pending /\ Logged' = Logged
      BY <2>5, <3>1 DEF Logged
    <3>3. \A u \in Loggers : pc'[u] = pc[u] /\ held'[u] = held[u]
      BY <2>1, <2>8, ThreadFacts
    <3>4. Contents'
      BY <1>1, <1>2, <2>6, <3>1, <3>2, <3>3 DEF Contents
    <3>5. OnePlace'
      BY <1>1, <1>2, <2>6, <3>2 DEF OnePlace
    <3>6. NullLast'
      <4>1. NullBuffer \notin ToSet(queue) /\ pc[LogThread] # "done"
        BY <1>1, <1>2, <2>8 DEF NullByOwner, NullLast
      <4>2. \A i \in DOMAIN queue : queue[i] # NullBuffer
        BY <4>1 DEF ToSet
      <4> QED
        BY <2>7, <3>3, <4>1, <4>2, ThreadFacts DEF NullLast
    <3> QED
      BY <3>4, <3>5, <3>6 DEF DrainInv
  <2>9. CASE t # Owner
    <3>1. t \in Loggers /\ InCall(t) /\ b \in Buffers /\ b # NullBuffer /\ b \notin Pending
      BY <1>2, <2>9, HeldFacts, PendingFacts, ThreadFacts DEF InCall
    <3>2. content[b] = <<r>> /\ Pending' = Pending \cup {b}
      BY <1>1, <1>2, <2>5, <3>1 DEF Contents
    <3>3. sent[t] \in Nat /\ sent'[t] = sent[t] + 1 /\ \A u \in Loggers \ {t} : sent'[u] = sent[u]
      BY <1>1, <1>4, <3>1 DEF Types
    <3>4. Logged' = Logged \cup {r} /\ r \notin Logged
      <4>1. 1..(sent[t] + 1) = 1..sent[t] \cup {sent[t] + 1} /\ sent[t] + 1 \notin 1..sent[t]
        BY <3>3
      <4>2. \A q : q \in Logged' <=> q \in Logged \/ q = r
        <5>1. \A q : q \in Logged <=> \E u \in Loggers : \E n \in 1..sent[u] : q = <<u, n>>
          BY DEF Logged
        <5>2. \A q : q \in Logged' <=> \E u \in Loggers : \E n \in 1..sent'[u] : q = <<u, n>>
          BY DEF Logged
        <5>3. ASSUME NEW q, q \in Logged' PROVE q \in Logged \/ q = r
          <6>1. PICK u \in Loggers : \E n \in 1..sent'[u] : q = <<u, n>>
            BY <5>2, <5>3
          <6>2. CASE u = t
            BY <3>3, <4>1, <5>1, <6>1, <6>2
          <6>3. CASE u # t
            BY <3>3, <5>1, <6>1, <6>3
          <6> QED
            BY <6>2, <6>3
        <5>4. ASSUME NEW q, q \in Logged PROVE q \in Logged'
          <6>1. PICK u \in Loggers : \E n \in 1..sent[u] : q = <<u, n>>
            BY <5>1, <5>4
          <6>2. 1..sent[u] \subseteq 1..sent'[u]
            BY <3>3, <4>1, <6>1
          <6> QED
            BY <5>2, <6>1, <6>2
        <5>5. r \in Logged'
          BY <3>1, <3>3, <4>1, <5>2
        <5> QED
          BY <5>3, <5>4, <5>5
      <4>3. r \notin Logged
        BY <3>1, <4>1, LoggedFacts
      <4> QED
        BY <4>2, <4>3
    <3> HIDE DEF b, r
    <3>5. r \notin Done
      BY <1>1, <3>4 DEF OnePlace
    <3>6. \A c \in Pending : content[c] # <<r>>
      <4> SUFFICES ASSUME NEW c \in Pending, content[c] = <<r>> PROVE FALSE
        OBVIOUS
      <4>1. PICK q \in Logged : content[c] = <<q>>
        BY <1>1 DEF Contents
      <4> QED
        BY <3>4, <4>1
    <3>7. Contents'
      <4>1. \A c \in Pending' : \E q \in Logged' \ Done' : content'[c] = <<q>>
        BY <1>1, <1>2, <2>6, <3>2, <3>4, <3>5 DEF Contents
      <4>2. ASSUME NEW u \in Loggers
            PROVE  /\ pc'[u] = "fill" => content'[held'[u]] = <<>>
                   /\ pc'[u] = "push" => content'[held'[u]] = << <<u, sent'[u] + 1>> >>
        <5>1. CASE u = t
          BY <2>1, <5>1
        <5>2. CASE u # t
          BY <1>1, <1>2, <2>1, <3>3, <5>2, ThreadFacts DEF Contents
        <5> QED
          BY <5>1, <5>2
      <4> QED
        BY <1>1, <1>2, <4>1, <4>2 DEF Contents
    <3>8. OnePlace'
      <4>1. \A c, d \in Pending' : content'[c] = content'[d] => c = d
        BY <1>1, <1>2, <3>2, <3>6 DEF OnePlace
      <4>2. Done' \subseteq Logged'
        BY <1>1, <2>6, <3>4 DEF OnePlace
      <4>3. \A q \in Logged' \ Done' : \E c \in Pending' : content'[c] = <<q>>
        BY <1>1, <1>2, <2>6, <3>2, <3>4 DEF OnePlace
      <4> QED
        BY <1>1, <1>2, <4>1, <4>2, <4>3 DEF OnePlace
    <3>9. NullLast'
      <4>1. pc[Owner] \in {"join", "gone"} => t = LogThread
        BY <1>1, <1>2, <3>1, ThreadFacts DEF Control
      <4>2. t = LogThread => OfReporter(b)
        BY <3>2 DEF OfReporter, r
      <4>3. pc'[LogThread] # "done"
        <5>1. CASE t = LogThread
          BY <2>1, <5>1
        <5>2. CASE t # LogThread
          BY <1>1, <2>1, <4>1, <5>2, ThreadFacts DEF NullLast
        <5> QED
          BY <5>1, <5>2
      <4>4. ASSUME NEW i \in DOMAIN queue', NEW j \in DOMAIN queue',
                   queue'[i] = NullBuffer, i < j
            PROVE  \A q : content'[queue'[j]] = <<q>> => q[1] = LogThread
        <5>1. /\ i \in DOMAIN queue /\ queue[i] = NullBuffer
              /\ j \in DOMAIN queue \/ j = Len(queue) + 1
          BY <2>7, <4>4
        <5>2. NullBuffer \in ToSet(queue)
          BY <5>1 DEF ToSet
        <5>3. OfReporter(b)
          BY <1>1, <4>1, <4>2, <5>2 DEF NullByOwner
        <5>4. OfReporter(queue'[j])
          BY <1>1, <2>3, <4>4, <5>1, <5>3 DEF NullLast
        <5> QED
          BY <1>2, <5>4 DEF OfReporter
      <4> QED
        BY <4>3, <4>4 DEF NullLast, OfReporter
    <3> QED
      BY <3>7, <3>8, <3>9 DEF DrainInv
  <2> QED
    BY <2>8, <2>9
<1> QED
  BY <1>3, <1>4, PushBufferEffect

(* pop() takes the record that was queued first, or the nullptr that only  *)
(* the log thread's own records can follow.                                *)
LEMMA PopBufferDrains ==
  ASSUME SinkInv, DrainInv, PopBuffer
  PROVE  DrainInv'
<1>1. Contents /\ OnePlace /\ NullLast /\ Types /\ Control /\ NullByOwner /\ Exclusive
  BY DEF DrainInv, SinkInv
<1>2. /\ pc[LogThread] = "pop"
      /\ UNCHANGED <<held, content, pool, sent, written, lost>>
  BY PopBufferEffect
<1>3. CASE UNCHANGED <<queue, pc, current>>
  <2>1. Pending' = Pending
    BY <1>3 DEF Pending
  <2> QED
    BY <1>1, <1>2, <1>3, <2>1, RecordsStay DEF Contents
<1>4. ASSUME NEW label \in {"write", "done"}, queue # <<>>, queue' = Tail(queue),
             pc' = [pc EXCEPT ![LogThread] = label],
             label = "write" => Head(queue) # NullBuffer /\ current' = Head(queue),
             label = "done"  => Head(queue) = NullBuffer /\ current' = current
      PROVE  DrainInv'
  <2>1. /\ pc'[LogThread] = label
        /\ \A u \in Threads \ {LogThread} : pc'[u] = pc[u]
        /\ pc'[Owner] = pc[Owner]
    BY <1>1, ThreadFacts, <1>4 DEF Types
  <2>2. queue \in Seq(Nat)
    BY <1>1 DEF Types, QP!TypeOK
  <2>3. /\ ToSet(queue) = ToSet(queue') \cup {Head(queue)}
        /\ Head(queue) \notin ToSet(queue')
    BY <1>1, <1>4, <2>2, TailFacts DEF Exclusive
  <2>4. Pending' = Pending
    BY <1>2, <1>4, <2>1, <2>3 DEF Pending
  <2>5. Logged' = Logged /\ Done' = Done
    BY <1>2 DEF Logged, Done
  <2>6. Contents'
    <3>1. \A u \in Loggers : pc'[u] \in {"fill", "push"} => pc'[u] = pc[u]
      BY <1>4, <2>1, ThreadFacts
    <3> QED
      BY <1>1, <1>2, <2>4, <2>5, <3>1 DEF Contents
  <2>7. OnePlace'
    BY <1>1, <1>2, <2>4, <2>5 DEF OnePlace
  <2>8. NullLast'
    <3>1. /\ DOMAIN queue' = 1..(Len(queue) - 1) /\ DOMAIN queue = 1..Len(queue)
          /\ \A i \in DOMAIN queue' : queue'[i] = queue[i + 1] /\ i + 1 \in DOMAIN queue
          /\ \A i, j \in DOMAIN queue' : i < j => i + 1 < j + 1
          /\ Len(queue) \in Nat
      BY <1>4, <2>2
    <3>2. \A i, j \in DOMAIN queue' : queue'[i] = NullBuffer /\ i < j => OfReporter(queue'[j])
      BY <1>1, <3>1 DEF NullLast
    <3>3. ASSUME label = "done", NEW b \in ToSet(queue')
          PROVE  b # NullBuffer /\ OfReporter(b)
      <4>1. b # NullBuffer /\ queue[1] = NullBuffer
        BY <1>4, <2>2, <2>3, <3>3
      <4>2. PICK j \in DOMAIN queue' : queue'[j] = b
        BY DEF ToSet
      <4>3. b = queue[j + 1] /\ 1 < j + 1 /\ j + 1 \in DOMAIN queue /\ 1 \in DOMAIN queue
        BY <3>1, <4>2
      <4> QED
        BY <1>1, <4>1, <4>3 DEF NullLast
    <3>4. label = "done" => pc[Owner] \in {"join", "gone"}
      BY <1>1, <1>4, <2>3 DEF NullByOwner
    <3> QED
      BY <1>2, <2>1, <3>2, <3>3, <3>4 DEF NullLast, OfReporter
  <2> QED
    BY <2>6, <2>7, <2>8 DEF DrainInv
<1> QED
  BY <1>3, <1>4, PopBufferEffect

(* The adapted sink has the record, written or lost; it leaves its place.  *)
LEMMA WriteRecordDrains ==
  ASSUME SinkInv, DrainInv, WriteRecord
  PROVE  DrainInv'
<1>1. Contents /\ OnePlace /\ NullLast /\ Types /\ Exclusive
  BY DEF DrainInv, SinkInv
<1>2. /\ UNCHANGED <<held, current, content, pool, sent, queue>>
      /\ pc[LogThread] = "write"
  BY DEF WriteRecord, queueVars
<1>3. PICK label \in {"recycle", "report"} : pc' = [pc EXCEPT ![LogThread] = label]
  BY DEF WriteRecord, goto
<1>4. /\ pc'[LogThread] = label /\ pc'[Owner] = pc[Owner]
      /\ \A u \in Threads \ {LogThread} : pc'[u] = pc[u]
  BY <1>1, <1>3, ThreadFacts DEF Types
<1>5. current \in Pending /\ current \notin ToSet(queue)
  BY <1>1, <1>2 DEF Pending, Exclusive
<1>6. PICK r \in Logged \ Done : content[current] = <<r>>
  BY <1>1, <1>5 DEF Contents
<1>7. r \in Records /\ written \in Seq(Records) /\ lost \in Seq(Records)
  BY <1>1, <1>6, LoggedFacts DEF Types, Records
<1>8. \/ written' = Append(written, r) /\ lost' = lost
      \/ lost' = Append(lost, r) /\ written' = written
  BY <1>6, <1>7, AppendIsConcat DEF WriteRecord
<1>9. /\ Done' = Done \cup {r} /\ IsInjective(written') /\ IsInjective(lost')
      /\ ToSet(written') \cap ToSet(lost') = {}
  <2>1. r \notin ToSet(written) /\ r \notin ToSet(lost)
    BY <1>6 DEF Done
  <2>2. /\ ToSet(Append(written, r)) = ToSet(written) \cup {r}
        /\ ToSet(Append(lost, r)) = ToSet(lost) \cup {r}
        /\ IsInjective(Append(written, r)) /\ IsInjective(Append(lost, r))
    BY <1>1, <1>7, <2>1, AppendFacts DEF OnePlace
  <2>3. IsInjective(written) /\ IsInjective(lost) /\ ToSet(written) \cap ToSet(lost) = {}
    BY <1>1 DEF OnePlace
  <2>4. CASE written' = Append(written, r) /\ lost' = lost
    <3>1. ToSet(written') = ToSet(written) \cup {r} /\ ToSet(lost') = ToSet(lost)
      BY <2>2, <2>4
    <3>2. IsInjective(written') /\ IsInjective(lost')
      BY <2>2, <2>3, <2>4
    <3> QED
      BY <2>1, <2>3, <3>1, <3>2 DEF Done
  <2>5. CASE lost' = Append(lost, r) /\ written' = written
    <3>1. ToSet(lost') = ToSet(lost) \cup {r} /\ ToSet(written') = ToSet(written)
      BY <2>2, <2>5
    <3>2. IsInjective(written') /\ IsInjective(lost')
      BY <2>2, <2>3, <2>5
    <3> QED
      BY <2>1, <2>3, <3>1, <3>2 DEF Done
  <2> QED
    BY <1>8, <2>4, <2>5
<1>10. Pending = Pending' \cup {current} /\ current \notin Pending'
  BY <1>2, <1>3, <1>4, <1>5 DEF Pending
<1>11. Logged' = Logged
  BY <1>2 DEF Logged
<1>12. Contents'
  <2>1. \A b \in Pending' : content[b] # <<r>>
    BY <1>1, <1>5, <1>6, <1>10 DEF OnePlace
  <2>2. \A b \in Pending' : \E q \in Logged' \ Done' : content'[b] = <<q>>
    BY <1>1, <1>2, <1>9, <1>10, <1>11, <2>1 DEF Contents
  <2>3. \A u \in Loggers : pc'[u] \in {"fill", "push"} => pc'[u] = pc[u]
    BY <1>3, <1>4, ThreadFacts
  <2> QED
    BY <1>1, <1>2, <2>2, <2>3 DEF Contents
<1>13. OnePlace'
  <2>1. Done' \subseteq Logged'
    BY <1>1, <1>6, <1>9, <1>11 DEF OnePlace
  <2>2. ASSUME NEW q \in Logged' \ Done' PROVE \E b \in Pending' : content'[b] = <<q>>
    <3>1. PICK b \in Pending : content[b] = <<q>>
      BY <1>1, <1>9, <1>11 DEF OnePlace
    <3>2. b # current
      BY <1>6, <1>9, <3>1
    <3> QED
      BY <1>2, <1>10, <3>1, <3>2
  <2> QED
    BY <1>1, <1>2, <1>9, <1>10, <2>1, <2>2 DEF OnePlace
<1>14. NullLast'
  BY <1>1, <1>2, <1>3, <1>4 DEF NullLast, OfReporter
<1> QED
  BY <1>12, <1>13, <1>14 DEF DrainInv

(* The buffer is emptied before it goes back to the pool.                  *)
LEMMA RecycleDrains ==
  ASSUME SinkInv, DrainInv, Recycle
  PROVE  DrainInv'
<1>1. Contents /\ Types /\ Exclusive
  BY DEF DrainInv, SinkInv
<1>2. /\ UNCHANGED <<held, sent, written, lost, queue>>
      /\ content' = [content EXCEPT ![current] = <<>>]
      /\ pool' = Append(pool, current)
      /\ pc[LogThread] = "recycle" /\ pc' = [pc EXCEPT ![LogThread] = "pop"]
  BY DEF Recycle, goto, sinkVars, queueVars
<1>3. current \in Buffers /\ current \in 1..Len(content)
  BY <1>2, HeldFacts DEF Working
<1>4. content'[current] = <<>> /\ \A b \in Buffers : b # current => content'[b] = content[b]
  BY <1>2, <1>3, BufferFacts DEF Buffers
<1>5. /\ pc'[LogThread] = "pop" /\ pc'[Owner] = pc[Owner]
      /\ \A u \in Threads \ {LogThread} : pc'[u] = pc[u]
  BY <1>1, <1>2, ThreadFacts DEF Types
<1>6. Pending' = Pending /\ current \notin Pending
  BY <1>1, <1>2, <1>5 DEF Pending, Exclusive
<1>7. ToSet(pool') = ToSet(pool) \cup {current}
  BY <1>1, <1>2, <1>3, AppendFacts DEF Types
<1>8. \A b \in ToSet(pool') : content'[b] = <<>>
  BY <1>1, <1>4, <1>7, PoolFacts DEF Contents
<1>9. ASSUME NEW u \in Loggers
      PROVE  /\ pc'[u] = "fill" => content'[held'[u]] = <<>>
             /\ pc'[u] = "push" => content'[held'[u]] = << <<u, sent[u] + 1>> >>
  <2>1. pc'[u] \in {"fill", "push"} => pc'[u] = pc[u]
    BY <1>5, ThreadFacts
  <2>2. InCall(u) => content'[held[u]] = content[held[u]]
    BY <1>1, <1>4, HeldFacts DEF Exclusive
  <2> QED
    BY <1>1, <1>2, <2>1, <2>2 DEF Contents, InCall
<1>10. \A b \in Pending : content'[b] = content[b]
  BY <1>4, <1>6, PendingFacts
<1> QED
  BY <1>2, <1>5, <1>6, <1>8, <1>9, <1>10, RecordsStay

(* The destructor, a wakeup and a stuttering step move no record.          *)
LEMMA OtherStepsDrain ==
  ASSUME SinkInv, DrainInv,
         OwnerStep \/ (\E t \in Threads : Wakeup(t)) \/ UNCHANGED vars
  PROVE  DrainInv'
<1>1. Types /\ Contents
  BY DEF SinkInv, DrainInv
<1>2. /\ UNCHANGED <<current, content, pool, sent, written, lost, queue>>
      /\ \A u \in Loggers : pc'[u] = pc[u] /\ held'[u] = held[u]
      /\ pc[Owner] \in {"join", "gone"} => pc'[Owner] \in {"join", "gone"}
  <2>1. CASE BeginDestroy
    BY <1>1, <2>1, ThreadFacts DEF BeginDestroy, goto, sinkVars, queueVars, Types
  <2>2. CASE FinishDestroy
    BY <1>1, <2>2, ThreadFacts DEF FinishDestroy, goto, sinkVars, queueVars, Types
  <2>3. CASE \E t \in Threads : Wakeup(t)
    BY <2>3 DEF Wakeup, sinkVars, Q!SpuriousWakeup
  <2>4. CASE UNCHANGED vars
    BY <2>4 DEF vars, sinkVars, queueVars
  <2> QED
    BY <2>1, <2>2, <2>3, <2>4 DEF OwnerStep
<1>3. Pending' = Pending
  BY <1>2, ThreadFacts DEF Pending
<1> QED
  BY <1>1, <1>2, <1>3, RecordsStay, ThreadFacts DEF Contents

(* No step loses, doubles or delays a record past nullptr.                 *)
LEMMA DrainInvPreserved == SinkInv /\ DrainInv /\ [Next]_vars => DrainInv'
<1> SUFFICES ASSUME SinkInv, DrainInv, [Next]_vars PROVE DrainInv'
  OBVIOUS
<1>1. ASSUME NEW t \in Loggers, LogCall(t) PROVE DrainInv'
  BY <1>1, LogCallDrains
<1>2. ASSUME NEW t \in Threads, PushBuffer(t) PROVE DrainInv'
  BY <1>2, PushBufferDrains
<1>3. ASSUME LogThreadStep PROVE DrainInv'
  BY <1>3, PopBufferDrains, WriteRecordDrains, RecycleDrains DEF LogThreadStep
<1>4. ASSUME OwnerStep \/ (\E t \in Threads : Wakeup(t)) \/ UNCHANGED vars
      PROVE  DrainInv'
  BY <1>4, OtherStepsDrain
<1> QED
  BY <1>1, <1>2, <1>3, <1>4 DEF Next, Terminated

(* It starts with nothing logged.                                          *)
LEMMA InitDrainInv == Init => DrainInv
<1> SUFFICES ASSUME Init PROVE DrainInv
  OBVIOUS
<1>1. /\ pool = <<>> /\ queue = <<>> /\ written = <<>> /\ lost = <<>>
      /\ sent = [t \in Loggers |-> 0]
      /\ \A t \in Loggers : pc[t] \in {"pop", "idle"}
      /\ pc[LogThread] = "pop"
  BY ThreadFacts DEF Init, Q!Init
<1>2. ToSet(pool) = {} /\ ToSet(queue) = {} /\ Done = {} /\ Pending = {}
  BY <1>1 DEF ToSet, Done, Pending
<1>3. Logged = {}
  <2>1. \A t \in Loggers : 1..sent[t] = {}
    BY <1>1
  <2> QED
    BY <2>1 DEF Logged
<1> QED
  BY <1>1, <1>2, <1>3 DEF DrainInv, Contents, OnePlace, NullLast, IsInjective

(* When the destructor returns, the adapted sink has had each record whose *)
(* log() call returned exactly once, for any number of threads and any     *)
(* queue_size (log_async_sink.cc:44-53, 63-119).                           *)
THEOREM DrainCorrect == Spec => []DrainedAtShutdown
<1>1. SinkInv /\ DrainInv => DrainedAtShutdown
  <2> DEFINE all == written \o lost
  <2> SUFFICES ASSUME SinkInv, DrainInv, pc[Owner] = "gone",
                      NEW p \in Producers, NEW n \in 1..sent[p]
               PROVE  Cardinality({i \in DOMAIN all : all[i] = <<p, n>>}) = 1
    BY DEF DrainedAtShutdown
  <2>1. OnePlace /\ NullLast /\ Types /\ Control
    BY DEF SinkInv, DrainInv
  <2>2. pc[LogThread] = "done" /\ Pending \subseteq ToSet(queue)
    BY <2>1 DEF Control, Pending
  <2>3. <<p, n>> \in Logged
    BY LoggedFacts, ThreadFacts
  <2>4. <<p, n>> \in Done
    <3> SUFFICES ASSUME <<p, n>> \notin Done PROVE FALSE
      OBVIOUS
    <3>1. PICK b \in Pending : content[b] = << <<p, n>> >>
      BY <2>1, <2>3 DEF OnePlace
    <3>2. OfReporter(b)
      BY <2>1, <2>2 DEF NullLast
    <3>3. p = LogThread
      BY <3>1, <3>2 DEF OfReporter
    <3> QED
      BY <3>3, ThreadFacts
  <2>5. /\ written \in Seq(Records) /\ lost \in Seq(Records)
        /\ Len(written) \in Nat /\ Len(lost) \in Nat
        /\ DOMAIN written = 1..Len(written) /\ DOMAIN lost = 1..Len(lost)
    BY <2>1 DEF Types
  <2>6. /\ DOMAIN all = 1..(Len(written) + Len(lost))
        /\ \A i \in 1..Len(written) : all[i] = written[i]
        /\ \A i \in 1..Len(lost) : all[Len(written) + i] = lost[i]
    BY <2>5
  <2> HIDE DEF all
  <2>7. \A i \in DOMAIN all : \/ i \in DOMAIN written /\ all[i] = written[i]
                              \/ /\ i - Len(written) \in DOMAIN lost
                                 /\ all[i] = lost[i - Len(written)]
    <3> SUFFICES ASSUME NEW i \in DOMAIN all, i \notin DOMAIN written
                 PROVE  /\ i - Len(written) \in DOMAIN lost
                        /\ all[i] = lost[i - Len(written)]
      BY <2>5, <2>6
    <3>1. i - Len(written) \in 1..Len(lost) /\ i = Len(written) + (i - Len(written))
      BY <2>5, <2>6
    <3> QED
      BY <2>5, <2>6, <3>1
  <2>8. \E i \in DOMAIN all : all[i] = <<p, n>>
    <3>1. CASE <<p, n>> \in ToSet(written)
      <4>1. PICK i \in DOMAIN written : written[i] = <<p, n>>
        BY <3>1 DEF ToSet
      <4>2. i \in DOMAIN all /\ all[i] = <<p, n>>
        BY <2>5, <2>6, <4>1
      <4> QED
        BY <4>2
    <3>2. CASE <<p, n>> \in ToSet(lost)
      <4>1. PICK i \in DOMAIN lost : lost[i] = <<p, n>>
        BY <3>2 DEF ToSet
      <4>2. Len(written) + i \in DOMAIN all /\ all[Len(written) + i] = <<p, n>>
        BY <2>5, <2>6, <4>1
      <4> QED
        BY <4>2
    <3> QED
      BY <2>4, <3>1, <3>2 DEF Done
  <2>9. ASSUME NEW i \in DOMAIN all, NEW j \in DOMAIN all, all[i] = <<p, n>>, all[j] = <<p, n>>
        PROVE  i = j
    <3>1. /\ \A k, m \in DOMAIN written : written[k] = written[m] => k = m
          /\ \A k, m \in DOMAIN lost : lost[k] = lost[m] => k = m
          /\ \A k \in DOMAIN written, m \in DOMAIN lost : written[k] # lost[m]
      BY <2>1 DEF OnePlace, IsInjective, ToSet
    <3>2. i \in Int /\ j \in Int
      BY <2>5, <2>6
    <3>3. i - Len(written) = j - Len(written) => i = j
      BY <2>5, <3>2
    <3> QED
      BY <2>7, <2>9, <3>1, <3>3
  <2>10. \E i : {k \in DOMAIN all : all[k] = <<p, n>>} = {i}
    BY <2>8, <2>9
  <2> QED
    BY <2>10, FS_Singleton
<1>2. Spec => [](SinkInv /\ DrainInv)
  BY InitSinkInv, InitDrainInv, SinkInvPreserved, DrainInvPreserved, PTL DEF Spec
<1> QED
  BY <1>1, <1>2, PTL
=============================================================================
