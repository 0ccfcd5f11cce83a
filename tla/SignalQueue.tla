----------------------------- MODULE SignalQueue -----------------------------
(***************************************************************************)
(* yut::net::SignalQueue (net/signal_queue.cc) over its SelfPipe           *)
(* (net/self_pipe.cc): a signal handler writes the number of a signal to a *)
(* pipe, and the loop, to which the reading end is attached, reads all that*)
(* is there and hands it to the callback.  The handler may interrupt any   *)
(* step.  What the loop promises of an attached channel, that it is called *)
(* as long as it is ready, is LoopService's ReadyServed.                   *)
(***************************************************************************)
EXTENDS Descriptors

CONSTANTS
  Pipe,           \* pipe_, the channel
  PipeCapacity,   \* how many signals the pipe takes
  Signals

ASSUME PipeAssumption ==
  Pipe \in Channels /\ PipeCapacity \in Nat \ {0} /\ "read" \in Kinds

VARIABLES
  queue,      \* "none", "live", or "reading": in pipeReadCallback()
  fd1,        \* fd1_, the writing end
  content,    \* the signals in the pipe
  received    \* recv_signal_cb_ is set

signalVars == <<queue, fd1, content, received>>

SignalInit ==
  /\ queue = "none" /\ fd1 = NoFd
  /\ content = <<>>
  /\ received = FALSE

(* SelfPipe::open() and setNonblock(), in the constructor; the test of     *)
(* setCloseOnExec() is the wrong way round, so a queue comes into being    *)
(* only if that fails.  The pipe is then attached, or fails to be, which   *)
(* nobody notices.                                                         *)
CreateQueue ==
  /\ queue = "none"
  /\ \E r, w \in Fds \ DOMAIN files :
       /\ r = LowestFree
       /\ r < w /\ \A g \in Fds \ DOMAIN files : g = r \/ w <= g
       /\ fd' = [fd EXCEPT ![Pipe] = r]
       /\ fd1' = w
       /\ files' = [f \in DOMAIN files \cup {r, w} |->
                      IF f = r THEN "reading end" ELSE IF f = w THEN "writing end" ELSE files[f]]
       /\ on' = [on EXCEPT ![Pipe] = {"read"}]
       /\ \/ /\ attached' = attached \cup {Pipe}
             /\ interest' = [f \in DOMAIN interest \cup {r} |->
                               IF f = r THEN [ptr |-> Pipe, events |-> {"read"}, reported |-> FALSE]
                               ELSE interest[f]]
          \/ UNCHANGED <<attached, interest>>
  /\ queue' = "live" /\ content' = <<>>
  /\ UNCHANGED <<alive, received>>

SetRecvSignalCallback ==
  /\ queue = "live"
  /\ received' = ~received
  /\ UNCHANGED <<channelVars, files, queue, fd1, content>>

(* push(), from the signal handler; a signal the pipe cannot take is lost. *)
Push(signum) ==
  /\ queue # "none"
  /\ content' = IF Len(content) < PipeCapacity THEN Append(content, signum) ELSE content
  /\ UNCHANGED <<channelVars, files, queue, fd1, received>>

(* The loop calls pipeReadCallback().                                      *)
ReadBegins ==
  /\ queue = "live" /\ Pipe \in attached /\ content # <<>>
  /\ queue' = "reading"
  /\ UNCHANGED <<channelVars, files, fd1, content, received>>

(* A plausible bug, used by no definition: without a callback nothing is   *)
(* read.                                                                   *)
MutReadSignal ==
  /\ queue = "reading" /\ content # <<>> /\ received
  /\ content' = Tail(content)
  /\ UNCHANGED <<channelVars, files, queue, fd1, received>>

(* read() takes one signal, for the callback if there is one.              *)
ReadSignal ==
  /\ queue = "reading" /\ content # <<>>
  /\ content' = Tail(content)
  /\ UNCHANGED <<channelVars, files, queue, fd1, received>>

ReadEnds ==
  /\ queue = "reading" /\ content = <<>>
  /\ queue' = "live"
  /\ UNCHANGED <<channelVars, files, fd1, content, received>>

(* ~SignalQueue(): SelfPipe::close()                                       *)
DestroyQueue ==
  /\ queue = "live"
  /\ Closes(Pipe, {fd1})
  /\ queue' = "none" /\ fd1' = NoFd /\ content' = <<>>
  /\ received' = FALSE
  /\ UNCHANGED <<alive, on>>

(* All but push().                                                         *)
QueueNext ==
  \/ CreateQueue \/ SetRecvSignalCallback \/ DestroyQueue
  \/ ReadBegins \/ ReadSignal \/ ReadEnds
=============================================================================
