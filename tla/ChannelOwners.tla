---------------------------- MODULE ChannelOwners ----------------------------
(***************************************************************************)
(* Sockets and a signal queue in one process: one table of descriptors,    *)
(* one epoll instance, and channels that open and close their own          *)
(* descriptors while the others go on.                                     *)
(***************************************************************************)
EXTENDS TcpSocket, SignalQueue

ASSUME ChannelsAssumption == Channels = Sockets \cup {Pipe} /\ Pipe \notin Sockets

vars == <<tcpVars, signalVars>>

(* The objects are there, and closed.                                      *)
Init ==
  /\ alive = Channels /\ attached = {}
  /\ fd = [c \in Channels |-> NoFd]
  /\ on = [c \in Channels |-> {}]
  /\ interest = [f \in {} |-> {}]
  /\ files = [f \in {} |-> {}]
  /\ TcpInit
  /\ SignalInit

(* One thread: what the queue does waits for the call of a socket to       *)
(* return.  A signal does not.                                             *)
QueueStep == call.todo = <<>> /\ QueueNext /\ UNCHANGED <<addressVars, socketVars>>

Next ==
  \/ TcpNext /\ UNCHANGED signalVars
  \/ QueueStep
  \/ \E signum \in Signals : Push(signum) /\ UNCHANGED <<addressVars, socketVars>>

Spec == Init /\ [][Next]_vars

(* A call returns; and between all that the client does, the loop calls a  *)
(* channel that stays ready, and the callback goes on.                     *)
FairSpec ==
  /\ Spec
  /\ WF_vars(CallStep /\ UNCHANGED signalVars)
  /\ SF_vars(QueueStep /\ (ReadBegins \/ ReadSignal \/ ReadEnds))

-----------------------------------------------------------------------------
(* Unless accept() was given a peer with an open socket, every open        *)
(* descriptor is held by one object and by no other, whatever failed half- *)
(* way: none leaks, none is closed by two, and none that is closed or      *)
(* another's is still registered with the loop (tcp_socket.cc:23-59,       *)
(* 96-109; self_pipe.cc:19-47; io_channel.cc:18-58).                       *)
DescriptorsOwned ==
  overwritten = {} =>
    /\ DOMAIN files = ({fd[c] : c \in Channels} \cup {fd1}) \ {NoFd}
    /\ \A c, d \in Holders : fd[c] = fd[d] => c = d
    /\ fd1 \notin {fd[c] : c \in Holders}
    /\ RegistrationsMatch

(* While the queue is attached, signals that wait in the pipe are taken    *)
(* out, with a callback or without, and one that arrives as the last read  *)
(* returns does not wait for another (signal_queue.cc:66-75).              *)
SignalsTaken ==
  <>[](Pipe \in attached /\ content # <<>>) => []<><<ReadSignal>>_vars
=============================================================================
