---------------------------- MODULE LogAsyncSink ----------------------------
(***************************************************************************)
(* yut::base::LogAsyncSink (base/log_async_sink.cc): log() copies a record *)
(* into a pooled buffer and queues it; one log thread pops the buffers,    *)
(* hands them to the adapted sink and returns them to the pool; the        *)
(* destructor queues nullptr behind the last record and joins the thread.  *)
(*                                                                         *)
(* The sink is the one LogManager puts under the main logger, so that an   *)
(* error reported by the adapted sink (LogFileSink: BASE_ERROR) comes back *)
(* as a log() call made by the log thread itself.                          *)
(*                                                                         *)
(* Queue steps are those of ConcurrentQueue; a critical section of         *)
(* pool_mutex_ is one action; between them a thread touches nothing but    *)
(* the buffer it owns.                                                     *)
(***************************************************************************)
EXTENDS Integers, Sequences, SequencesExt, FiniteSets

CONSTANTS
  Producers,         \* the threads that call log()
  LogThread,         \* log_thread_
  Owner,             \* the thread that destroys the sink
  MaxSize,           \* queue_size
  LogsPerProducer,   \* bound: calls of log() by one producer
  MaxSinkErrors      \* bound: records the adapted sink fails to write

ASSUME ThreadsAssumption ==
  /\ IsFiniteSet(Producers)
  /\ LogThread \notin Producers
  /\ Owner \notin Producers \cup {LogThread}
ASSUME SizeAssumption == MaxSize \in Nat

VARIABLES
  pc,         \* where each thread is
  held,       \* held[t]: queue_buffer of the log() call thread t is in
  current,    \* queue_buffer of logThreadFunc
  content,    \* content[b]: the records in buffer b, for every b made by new
  pool,       \* pool_.reused_object_list_
  sent,       \* sent[t]: the log() calls that thread t has completed
  written,    \* the records the adapted sink wrote
  lost,       \* the records it failed to write
  deleted,    \* the buffers freed by the destructor
  queue, arg, notFullWaiting, notFullWoken, notEmptyWaiting, notEmptyWoken

NullBuffer == 0      \* nullptr; the k-th buffer made by new is k
NoBuffer   == -1     \* no buffer at all

Loggers == Producers \cup {LogThread}
Threads == Loggers \cup {Owner}
Buffers == DOMAIN content

Q == INSTANCE ConcurrentQueue WITH Items <- Nat, NoItem <- NoBuffer

queueVars == <<queue, arg, notFullWaiting, notFullWoken, notEmptyWaiting, notEmptyWoken>>
sinkVars  == <<written, lost>>
vars == <<pc, held, current, content, pool, sent, sinkVars, deleted, queueVars>>

Init ==
  /\ pc = [t \in Threads |-> IF t = LogThread THEN "pop"
                             ELSE IF t = Owner THEN "running" ELSE "idle"]
  /\ held = [t \in Threads |-> NoBuffer]
  /\ current = NoBuffer
  /\ content = <<>>
  /\ pool = <<>>
  /\ sent = [t \in Loggers |-> 0]
  /\ written = <<>> /\ lost = <<>>
  /\ deleted = {}
  /\ Q!Init

goto(t, label) == pc' = [pc EXCEPT ![t] = label]

-----------------------------------------------------------------------------
(* log(), by a producer or by the log thread itself.                       *)

(* A producer may log until the destructor starts: calling log() later     *)
(* would be a use of a dead object by the caller.                          *)
MayLog(t) ==
  \/ /\ t \in Producers /\ pc[t] = "idle"
     /\ sent[t] < LogsPerProducer
     /\ pc[Owner] = "running"
  \/ t = LogThread /\ pc[t] = "report"

(* pool_.getObject(): the last buffer returned, or a new one.              *)
GetBuffer(t) ==
  /\ MayLog(t)
  /\ goto(t, "fill")
  /\ \/ /\ pool # <<>>
        /\ held' = [held EXCEPT ![t] = Last(pool)]
        /\ pool' = Front(pool)
        /\ UNCHANGED content
     \/ /\ pool = <<>>
        /\ held' = [held EXCEPT ![t] = Len(content) + 1]
        /\ content' = Append(content, <<>>)
        /\ UNCHANGED pool
  /\ UNCHANGED <<current, sent, sinkVars, deleted, queueVars>>

(* The Mut... operators are plausible bugs, used by no definition: each    *)
(* stands for the definition below it and breaks one property.             *)
(* No reserveWritableBytes/write: the record never enters the buffer.      *)
MutFillNoWrite(t) ==
  /\ pc[t] = "fill"
  /\ goto(t, "push")
  /\ UNCHANGED <<held, current, content, pool, sent, sinkVars, deleted, queueVars>>

(* The record is written behind what the buffer holds.                     *)
Fill(t) ==
  /\ pc[t] = "fill"
  /\ goto(t, "push")
  /\ content' = [content EXCEPT ![held[t]] = Append(@, <<t, sent[t] + 1>>)]
  /\ UNCHANGED <<held, current, pool, sent, sinkVars, deleted, queueVars>>

(* queue_buffer is not released: its destructor puts the buffer back.      *)
MutPushBufferNotReleased(t) ==
  /\ pc[t] = "push"
  /\ Q!Push(t, held[t]) \/ Q!ResumePush(t)
  /\ IF t \in notFullWaiting'
     THEN UNCHANGED <<pc, held, sent, pool>>
     ELSE /\ held' = [held EXCEPT ![t] = NoBuffer]
          /\ \/ t \in Producers /\ goto(t, "idle") /\ pool' = Append(pool, held[t])
             \/ t = LogThread   /\ goto(t, "recycle") /\ pool' = Append(pool, held[t])
             \/ t = Owner       /\ goto(t, "join") /\ UNCHANGED pool
          /\ sent' = [u \in Loggers |-> IF u = t THEN sent[u] + 1 ELSE sent[u]]
  /\ UNCHANGED <<current, content, sinkVars, deleted>>

(* queue_.push(): one turn of its loop.  Past it, log() gives up the       *)
(* buffer and returns; the destructor goes on to join.                     *)
PushBuffer(t) ==
  /\ pc[t] = "push"
  /\ Q!Push(t, held[t]) \/ Q!ResumePush(t)
  /\ IF t \in notFullWaiting'
     THEN UNCHANGED <<pc, held, sent>>
     ELSE /\ held' = [held EXCEPT ![t] = NoBuffer]
          /\ \/ t \in Producers /\ goto(t, "idle")
             \/ t = LogThread   /\ goto(t, "recycle")
             \/ t = Owner       /\ goto(t, "join")
          /\ sent' = [u \in Loggers |-> IF u = t THEN sent[u] + 1 ELSE sent[u]]
  /\ UNCHANGED <<current, content, pool, sinkVars, deleted>>

-----------------------------------------------------------------------------
(* logThreadFunc()                                                         *)

(* The test for nullptr is missing.                                        *)
MutPopBufferNoNullTest ==
  /\ pc[LogThread] = "pop"
  /\ Q!Pop(LogThread) \/ Q!ResumePop(LogThread)
  /\ IF LogThread \in notEmptyWaiting'
     THEN UNCHANGED <<pc, current>>
     ELSE current' = Head(queue) /\ goto(LogThread, "write")
  /\ UNCHANGED <<held, content, pool, sent, sinkVars, deleted>>

(* queue_.pop(): one turn of its loop.                                     *)
PopBuffer ==
  /\ pc[LogThread] = "pop"
  /\ Q!Pop(LogThread) \/ Q!ResumePop(LogThread)
  /\ \/ /\ LogThread \in notEmptyWaiting'
        /\ UNCHANGED <<pc, current>>
     \/ /\ LogThread \notin notEmptyWaiting'
        /\ Head(queue) # NullBuffer
        /\ current' = Head(queue)
        /\ goto(LogThread, "write")
     \/ /\ LogThread \notin notEmptyWaiting'
        /\ Head(queue) = NullBuffer
        /\ goto(LogThread, "done")
        /\ UNCHANGED current
  /\ UNCHANGED <<held, content, pool, sent, sinkVars, deleted>>

(* adapted_sink_->log().  When it fails the record is dropped and the      *)
(* failure reported through the main logger, that is through this sink.    *)
WriteRecord ==
  /\ pc[LogThread] = "write"
  /\ \/ /\ written' = written \o content[current]
        /\ goto(LogThread, "recycle")
        /\ UNCHANGED lost
     \/ /\ Len(lost) < MaxSinkErrors
        /\ lost' = lost \o content[current]
        /\ goto(LogThread, "report")
        /\ UNCHANGED written
  /\ UNCHANGED <<held, current, content, pool, sent, deleted, queueVars>>

(* queue_buffer->read(all) and pool_.returnObject().                       *)
Recycle ==
  /\ pc[LogThread] = "recycle"
  /\ content' = [content EXCEPT ![current] = <<>>]
  /\ pool' = Append(pool, current)
  /\ current' = NoBuffer
  /\ goto(LogThread, "pop")
  /\ UNCHANGED <<held, sent, sinkVars, deleted, queueVars>>

-----------------------------------------------------------------------------
(* ~Impl()                                                                 *)
(* join() without the nullptr that ends the thread.                        *)
MutBeginDestroyNoNull ==
  /\ pc[Owner] = "running"
  /\ \A p \in Producers : pc[p] = "idle"
  /\ goto(Owner, "join")
  /\ UNCHANGED <<held, current, content, pool, sent, sinkVars, deleted, queueVars>>

BeginDestroy ==
  /\ pc[Owner] = "running"
  /\ \A p \in Producers : pc[p] = "idle"
  /\ goto(Owner, "push")
  /\ held' = [held EXCEPT ![Owner] = NullBuffer]
  /\ UNCHANGED <<current, content, pool, sent, sinkVars, deleted, queueVars>>

(* The destructor detaches the thread instead of joining it.               *)
MutFinishDestroyNoJoin ==
  /\ pc[Owner] = "join"
  /\ goto(Owner, "gone")
  /\ deleted' = deleted \cup ToSet(pool) \cup (ToSet(queue) \ {NullBuffer})
  /\ UNCHANGED <<held, current, content, pool, sent, sinkVars, queueVars>>

(* CleanQueue without its specialisation for pointers: nothing is freed.   *)
MutFinishDestroyNoClean ==
  /\ pc[Owner] = "join"
  /\ pc[LogThread] = "done"
  /\ goto(Owner, "gone")
  /\ deleted' = deleted \cup ToSet(pool)
  /\ UNCHANGED <<held, current, content, pool, sent, sinkVars, queueVars>>

(* log_thread_.join(), then the adapted sink, the pool and the queue are   *)
(* destroyed; the last two free the buffers they hold.                     *)
FinishDestroy ==
  /\ pc[Owner] = "join"
  /\ pc[LogThread] = "done"
  /\ goto(Owner, "gone")
  /\ deleted' = deleted \cup ToSet(pool) \cup (ToSet(queue) \ {NullBuffer})
  /\ UNCHANGED <<held, current, content, pool, sent, sinkVars, queueVars>>

-----------------------------------------------------------------------------
Wakeup(t) ==
  /\ Q!SpuriousWakeup(t)
  /\ UNCHANGED <<pc, held, current, content, pool, sent, sinkVars, deleted>>

Terminated == pc[Owner] = "gone" /\ UNCHANGED vars

LogCall(t)      == GetBuffer(t) \/ Fill(t)
LogThreadStep   == PopBuffer \/ WriteRecord \/ Recycle
OwnerStep       == BeginDestroy \/ FinishDestroy

Next ==
  \/ \E t \in Loggers : LogCall(t)
  \/ \E t \in Threads : PushBuffer(t) \/ Wakeup(t)
  \/ LogThreadStep
  \/ OwnerStep
  \/ Terminated

Spec == Init /\ [][Next]_vars

(* Every thread that can run keeps running and gets the mutex in the end.  *)
(* Nothing makes a producer log again, nor the owner destroy the sink, so  *)
(* neither GetBuffer by a producer nor BeginDestroy is fair.               *)
Fairness ==
  /\ \A t \in Loggers : WF_vars(Fill(t))
  /\ \A t \in Threads : WF_vars(PushBuffer(t))
  /\ WF_vars(GetBuffer(LogThread))
  /\ WF_vars(LogThreadStep)
  /\ WF_vars(FinishDestroy)

FairSpec == Spec /\ Fairness

-----------------------------------------------------------------------------
Labels == {"idle", "fill", "push", "pop", "write", "report", "recycle", "done",
           "running", "join", "gone"}
Records == Loggers \X Nat

TypeOK ==
  /\ pc \in [Threads -> Labels]
  /\ held \in [Threads -> Buffers \cup {NullBuffer, NoBuffer}]
  /\ current \in Buffers \cup {NoBuffer}
  /\ content \in Seq(Seq(Records))
  /\ pool \in Seq(Buffers)
  /\ sent \in [Loggers -> Nat]
  /\ written \in Seq(Records) /\ lost \in Seq(Records)
  /\ deleted \subseteq Buffers
  /\ Q!TypeOK
  /\ ToSet(queue) \subseteq Buffers \cup {NullBuffer}

(* The places that own buffer b: a log() call, the log thread, a slot of   *)
(* the pool, a slot of the queue.                                          *)
OwnersOf(b) ==
  {<<"held", t>> : t \in {u \in Threads : held[u] = b}}
    \cup (IF current = b THEN {<<"current", LogThread>>} ELSE {})
    \cup {<<"pool", i>>  : i \in {j \in DOMAIN pool  : pool[j]  = b}}
    \cup {<<"queue", i>> : i \in {j \in DOMAIN queue : queue[j] = b}}

(* No two threads ever work on one buffer, and no buffer leaks: every      *)
(* buffer made by new has exactly one owner at any time.  As a new one is  *)
(* made only when the pool is empty, there are never more of them than     *)
(* threads in a call and slots of the queue can hold.                      *)
OwnedOnce == \A b \in Buffers : Cardinality(OwnersOf(b)) = 1

(* When the destructor returns every buffer was freed, including one that  *)
(* was queued behind nullptr and that nobody popped.                       *)
AllBuffersFreed == pc[Owner] = "gone" => deleted = Buffers

(* When the destructor returns, each record whose log() call returned was  *)
(* given to the adapted sink, once.  (A record that the log thread itself  *)
(* logged is not covered: it can be queued behind nullptr.)                *)
DrainedAtShutdown ==
  pc[Owner] = "gone" =>
    \A p \in Producers : \A n \in 1..sent[p] :
      Cardinality({i \in DOMAIN (written \o lost) : (written \o lost)[i] = <<p, n>>}) = 1

(* LogChannel: records are written once, in the order they were queued,    *)
(* and all of them before the destructor returns, but for those whose      *)
(* write failed and those of the log thread that queue behind nullptr.     *)
IsBuffer(b) == b # NullBuffer
PendingRecords ==
  (IF pc[LogThread] = "write" THEN content[current] ELSE <<>>)
    \o FlattenSeq([i \in DOMAIN SelectSeq(queue, IsBuffer) |->
                     content[SelectSeq(queue, IsBuffer)[i]]])

Channel == INSTANCE LogChannel
  WITH Writers <- Loggers, Reporter <- LogThread, logged <- sent,
       pending <- PendingRecords, closed <- (pc[Owner] = "gone")
LogChannelSpec == Channel!Spec

(* A log() call returns, however full the queue is, unless a write fails.  *)
LogCallReturns ==
  \A p \in Producers : (pc[p] = "fill") ~> (pc[p] = "idle" \/ lost # <<>>)

(* Once the destructor has begun, it returns.                              *)
ShutdownCompletes == (pc[Owner] # "running") ~> (pc[Owner] = "gone")

(* It does as long as no write fails.                                      *)
ShutdownUnlessError == (pc[Owner] # "running") ~> (pc[Owner] = "gone" \/ lost # <<>>)
=============================================================================
