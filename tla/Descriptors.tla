----------------------------- MODULE Descriptors -----------------------------
(***************************************************************************)
(* The descriptors of the process, under channels that open and close their*)
(* own: TcpSocket and SelfPipe.  As everywhere in POSIX, what is opened    *)
(* gets the lowest descriptor that is free, and closing one takes it out of*)
(* the epoll instance.                                                     *)
(***************************************************************************)
EXTENDS IOChannel

ASSUME NumbersAssumption == Fds \subseteq Nat

VARIABLE
  files     \* what each open descriptor is

LowestFree == CHOOSE f \in Fds \ DOMAIN files : \A g \in Fds \ DOMAIN files : f <= g
AnyFree    == Fds \ DOMAIN files # {}

FilesWithout(fs) == [f \in DOMAIN files \ fs |-> files[f]]

(* close(), of a TcpSocket and of a SelfPipe: detachLoopService(), then    *)
(* ::close() of fd_ and of the others.                                     *)
Closes(c, others) ==
  /\ attached' = attached \ {c}
  /\ interest' = [f \in DOMAIN InterestWithout(c) \ {fd[c]} |-> InterestWithout(c)[f]]
  /\ files' = FilesWithout({fd[c]} \cup others)
  /\ fd' = [fd EXCEPT ![c] = NoFd]

(* The channels that hold a descriptor.                                    *)
Holders == {c \in Channels : fd[c] # NoFd}
=============================================================================
