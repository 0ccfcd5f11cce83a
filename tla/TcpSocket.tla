------------------------------ MODULE TcpSocket ------------------------------
(***************************************************************************)
(* yut::net::TcpSocket (net/tcp_socket.cc): sockets that are opened and    *)
(* set up by sequences of system calls, any of which may fail.             *)
(*                                                                         *)
(* A call of the client is the list of the steps it has still to do.  A    *)
(* socket that is destroyed is closed, and as good as a new one.           *)
(***************************************************************************)
EXTENDS Descriptors, InetAddress

CONSTANT Sockets     \* the channels that are sockets

ASSUME SocketsAssumption == Sockets \subseteq Channels

VARIABLES
  call,        \* the call that goes on, or the last one and what it returned
  overwritten  \* history: the descriptors that accept() wrote over

socketVars == <<call, overwritten>>
tcpVars == <<channelVars, files, addressVars, socketVars>>

ActiveOpen  == <<"open", "setReuseAddr", "setTcpNoDelay", "connect">>
PassiveOpen == <<"open", "setReuseAddr", "setTcpNoDelay", "bind", "listen">>

(* What each call does, in order.                                          *)
Steps == [
  open                |-> <<"open">>,
  connect             |-> <<"connect">>,
  bind                |-> <<"bind">>,
  listen              |-> <<"listen">>,
  activeOpen          |-> ActiveOpen,
  activeOpenNonblock  |-> Append(ActiveOpen, "setNonblock"),
  passiveOpen         |-> PassiveOpen,
  passiveOpenNonblock |-> Append(PassiveOpen, "setNonblock"),
  accept              |-> <<"accept">>,
  acceptNonblock      |-> <<"accept", "setTcpNoDelay", "setNonblock">> ]

Accepts == {"accept", "acceptNonblock"}
Opens   == {"open", "activeOpen", "activeOpenNonblock", "passiveOpen", "passiveOpenNonblock"}

Returned(ok) == [op |-> "none", self |-> NoFd, target |-> NoFd, family |-> UNKNOWN,
                 todo |-> <<>>, ok |-> ok]

TcpInit ==
  /\ AddressInit
  /\ call = Returned(FALSE)
  /\ overwritten = {}

(* Bound: nothing more is done with sockets once accept() has written over *)
(* a descriptor, which is lost.                                            *)
Idle == call.todo = <<>> /\ overwritten = {}

(* open(protocol), with any protocol; the others open a socket of the      *)
(* protocol of the address.                                                *)
Call(op, self, target, family) ==
  /\ Idle
  /\ target = self <=> op \notin Accepts
  /\ IF op \in {"activeOpen", "activeOpenNonblock", "passiveOpen", "passiveOpenNonblock"}
     THEN GetNativeAddress /\ family = Native.family
     ELSE UNCHANGED addressVars /\ (op # "open" => family = UNKNOWN)
  /\ call' = [op |-> op, self |-> self, target |-> target, family |-> family,
              todo |-> Steps[op], ok |-> FALSE]
  /\ UNCHANGED <<channelVars, files, overwritten>>

-----------------------------------------------------------------------------
Target == call.target
Step   == Head(call.todo)
File   == files[fd[Target]]
IsOpen == fd[Target] \in DOMAIN files
Done   == call' = IF Tail(call.todo) = <<>> THEN Returned(TRUE)
                  ELSE [call EXCEPT !.todo = Tail(@)]
Fails  == call' = Returned(FALSE)

NewSocket(family, state) == [family |-> family, state |-> state, opts |-> {"cloexec"}]

(* open(): what was open is closed, whatever comes.                        *)
MutOpenSocket ==
  /\ Step = "open"
  /\ call.family # UNKNOWN /\ AnyFree
  /\ fd' = [fd EXCEPT ![Target] = LowestFree]
  /\ files' = [f \in DOMAIN files \cup {LowestFree} |->
                 IF f = LowestFree THEN NewSocket(call.family, "new") ELSE files[f]]
  /\ Done
  /\ UNCHANGED <<alive, on, attached, interest, addressVars, overwritten>>

OpenCloses ==
  /\ Step = "open" /\ IsOpen
  /\ Closes(Target, {})
  /\ UNCHANGED <<alive, on, addressVars, call, overwritten>>

OpenSocket ==
  /\ Step = "open" /\ ~IsOpen
  /\ call.family # UNKNOWN /\ AnyFree
  /\ fd' = [fd EXCEPT ![Target] = LowestFree]
  /\ files' = [f \in DOMAIN files \cup {LowestFree} |->
                 IF f = LowestFree THEN NewSocket(call.family, "new") ELSE files[f]]
  /\ Done
  /\ UNCHANGED <<alive, on, attached, interest, addressVars, overwritten>>

(* No such protocol, no descriptor left, or setCloseOnExec() failed and    *)
(* the socket is closed again.                                             *)
OpenFails ==
  /\ Step = "open" /\ ~IsOpen
  /\ Fails
  /\ UNCHANGED <<channelVars, files, addressVars, overwritten>>

(* A step that works on the descriptor of the target.                      *)
Applied(step) ==
  CASE step = "setReuseAddr"  -> [File EXCEPT !.opts = @ \cup {"reuse"}]
    [] step = "setTcpNoDelay" -> [File EXCEPT !.opts = @ \cup {"nodelay"}]
    [] step = "setNonblock"   -> [File EXCEPT !.opts = @ \cup {"nonblock"}]
    [] step = "connect"       -> [File EXCEPT !.state = "connected"]
    [] step = "bind"          -> [File EXCEPT !.state = "bound"]
    [] step = "listen"        -> [File EXCEPT !.state = "listening"]

(* connect() and bind() take an address of the socket's family.            *)
Applies(step) ==
  /\ IsOpen
  /\ step \in {"connect", "bind"} => Native.family = File.family
  /\ step = "connect" => File.state \in {"new", "bound"}
  /\ step = "bind"    => File.state = "new"
  /\ step = "listen"  => File.state # "connected"

AskAddress(step) ==
  IF step \in {"connect", "bind"} THEN GetNativeAddress ELSE UNCHANGED addressVars

StepSucceeds ==
  /\ Step \notin {"open", "accept"}
  /\ Applies(Step) /\ AskAddress(Step)
  /\ files' = [files EXCEPT ![fd[Target]] = Applied(Step)]
  /\ Done
  /\ UNCHANGED <<channelVars, overwritten>>

ClosesOnFailure == call.op \notin {"open", "connect", "bind", "listen", "accept"}

(* A failure does not close what was opened.                               *)
MutStepFails ==
  /\ Step \notin {"open", "accept"}
  /\ AskAddress(Step)
  /\ Fails
  /\ UNCHANGED <<channelVars, files, overwritten>>

(* Any step may fail; what the call was opening is closed.                 *)
StepFails ==
  /\ Step \notin {"open", "accept"}
  /\ AskAddress(Step)
  /\ Fails
  /\ IF ClosesOnFailure THEN Closes(Target, {}) /\ UNCHANGED <<alive, on>>
     ELSE UNCHANGED <<channelVars, files>>
  /\ UNCHANGED overwritten

(* accept(): the peer gets the new descriptor, even if it has one.         *)
AcceptSucceeds ==
  /\ Step = "accept"
  /\ fd[call.self] # NoFd /\ files[fd[call.self]].state = "listening" /\ AnyFree
  /\ fd' = [fd EXCEPT ![Target] = LowestFree]
  /\ files' = [f \in DOMAIN files \cup {LowestFree} |->
                 IF f = LowestFree THEN NewSocket(files[fd[call.self]].family, "connected")
                 ELSE files[f]]
  /\ overwritten' = overwritten \cup ({fd[Target]} \ {NoFd})
  /\ Done
  /\ UNCHANGED <<alive, on, attached, interest, addressVars>>

(* ::accept() fails, and the peer stays as it is.                          *)
AcceptFails ==
  /\ Step = "accept"
  /\ Fails
  /\ UNCHANGED <<channelVars, files, addressVars, overwritten>>

(* setCloseOnExec() fails: the peer, with its new descriptor, is closed.   *)
AcceptCloses ==
  /\ Step = "accept"
  /\ fd[call.self] # NoFd /\ files[fd[call.self]].state = "listening" /\ AnyFree
  /\ fd' = [fd EXCEPT ![Target] = NoFd]
  /\ attached' = attached \ {Target}
  /\ overwritten' = overwritten \cup ({fd[Target]} \ {NoFd})
  /\ Fails
  /\ UNCHANGED <<alive, on, interest, files, addressVars>>

CallStep ==
  /\ call.todo # <<>>
  /\ \/ OpenCloses \/ OpenSocket \/ OpenFails
     \/ StepSucceeds \/ StepFails
     \/ AcceptSucceeds \/ AcceptFails \/ AcceptCloses

-----------------------------------------------------------------------------
(* close(), and the destructor                                             *)
Close(s) ==
  /\ Idle /\ fd[s] # NoFd
  /\ Closes(s, {})
  /\ call' = Returned(FALSE)
  /\ UNCHANGED <<alive, on, addressVars, overwritten>>

AttachSocket(s) ==
  /\ Idle /\ s \notin attached
  /\ Attach(s)
  /\ call' = Returned(FALSE)
  /\ UNCHANGED <<files, addressVars, overwritten>>

DetachSocket(s) ==
  /\ Idle
  /\ Detach(s)
  /\ call' = Returned(FALSE)
  /\ UNCHANGED <<files, addressVars, overwritten>>

(* getLocalAddress() and getPeerAddress() fill in the address.             *)
GetSocketAddress(s, native) ==
  /\ Idle /\ fd[s] # NoFd /\ files[fd[s]].family = native.family
  /\ SetNativeAddress(native)
  /\ call' = Returned(FALSE)
  /\ UNCHANGED <<channelVars, files, overwritten>>

AddressCall ==
  /\ Idle
  /\ AddressStep
  /\ call' = Returned(FALSE)
  /\ UNCHANGED <<channelVars, files, overwritten>>

TcpNext ==
  \/ \E op \in DOMAIN Steps, self, target \in Sockets, family \in {UNKNOWN, IP_V4, IP_V6} :
        Call(op, self, target, family)
  \/ CallStep
  \/ \E s \in Sockets : Close(s) \/ AttachSocket(s) \/ DetachSocket(s)
  \/ \E s \in Sockets, native \in Natives : GetSocketAddress(s, native)
  \/ AddressCall
  \/ overwritten # {} /\ UNCHANGED tcpVars

-----------------------------------------------------------------------------
Promised(op) ==
  [state |-> IF op = "open" THEN "new"
             ELSE IF op \in {"passiveOpen", "passiveOpenNonblock"} THEN "listening"
             ELSE "connected",
   opts |-> {"cloexec"}
     \cup (IF op \notin {"open", "accept", "acceptNonblock"} THEN {"reuse"} ELSE {})
     \cup (IF op \notin {"open", "accept"} THEN {"nodelay"} ELSE {})
     \cup (IF op \in {"activeOpenNonblock", "passiveOpenNonblock", "acceptNonblock"}
           THEN {"nonblock"} ELSE {})]

(* What a call leaves when it returns.                                     *)
KeepsPromise ==
  CallStep /\ call'.todo = <<>> =>
    /\ call.op \in Opens /\ ~call'.ok => fd'[Target] = NoFd
    /\ call.op \in Accepts /\ Step # "accept" /\ ~call'.ok => fd'[Target] = NoFd
    /\ call.op \in Opens \cup Accepts /\ call'.ok =>
         LET file == files'[fd'[Target]] IN
         /\ file.state = Promised(call.op).state /\ file.opts = Promised(call.op).opts
         /\ call.op \in Opens => file.family = call.family

(* A call that opens a socket, or accepts one, gives all it promises, on a *)
(* socket of the family that was asked for, or fails and leaves none open: *)
(* no half of it survives the failure of a later step, nor does the peer   *)
(* that acceptNonblock() has accepted (tcp_socket.cc:209-286).             *)
OpensAllOrNothing == [][KeepsPromise]_tcpVars
=============================================================================
