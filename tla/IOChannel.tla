------------------------------ MODULE IOChannel ------------------------------
(***************************************************************************)
(* yut::net::IOChannel (net/io_channel.cc) over the epoll instance of its  *)
(* loop, which it registers with through addIOChannel(), updateIOChannel() *)
(* and removeIOChannel() (net/loop_service.cc:82-138).                     *)
(*                                                                         *)
(* A channel is known by its address, which a later channel may get again. *)
(* The descriptors are the client's, who opens and closes them, gives each *)
(* to one channel, and a channel a new one only while it is detached:      *)
(* nothing in IOChannel would notice otherwise.                            *)
(***************************************************************************)
EXTENDS Integers, Sequences, FiniteSets

CONSTANTS
  Channels,   \* addresses
  Fds,        \* descriptors
  Kinds       \* the callbacks that are used: of "write", "read", "error"

NoFd == -1

ASSUME FdsAssumption   == IsFiniteSet(Fds) /\ NoFd \notin Fds
ASSUME KindsAssumption == Kinds \subseteq {"write", "read", "error"}

VARIABLES
  alive,      \* the addresses with a channel
  fd,         \* fd_ of the channel at an address
  on,         \* which of read_cb_, write_cb_ and error_cb_ are not empty
  attached,   \* the channels whose loop_service_ is not null
  interest    \* epoll: the registration of a descriptor, [ptr, events,
              \*   reported]; reported by the last epoll_wait(), that is

channelVars == <<alive, fd, on, attached, interest>>

Polled == Kinds \ {"error"}     \* what a registration asks for

ChannelInit ==
  /\ alive = {} /\ attached = {}
  /\ fd = [c \in Channels |-> NoFd]
  /\ on = [c \in Channels |-> {}]
  /\ interest = [f \in {} |-> {}]

-----------------------------------------------------------------------------
(* epoll_ctl: ADD, MOD and DEL, when they succeed.                         *)
Registered(regs, c, isReported) ==
  [f \in DOMAIN regs \cup {fd[c]} |->
     IF f = fd[c] THEN [ptr |-> c, events |-> on[c] \cap Polled, reported |-> isReported]
     ELSE regs[f]]

Unregistered(f) == [g \in DOMAIN interest \ {f} |-> interest[g]]

(* What removeIOChannel() leaves.                                          *)
InterestWithout(c) == IF c \in attached THEN Unregistered(fd[c]) ELSE interest

NewChannel(c) ==
  /\ c \notin alive
  /\ alive' = alive \cup {c}
  /\ fd' = [fd EXCEPT ![c] = NoFd]
  /\ on' = [on EXCEPT ![c] = {}]
  /\ UNCHANGED <<attached, interest>>

(* setDescriptor(), or dupDescriptor() with what dup() returns             *)
SetDescriptor(c, f) ==
  /\ c \in alive \ attached /\ \A d \in alive : f # fd[d]
  /\ fd' = [fd EXCEPT ![c] = f]
  /\ UNCHANGED <<alive, on, attached, interest>>

(* attachLoopService(): an attached channel is detached first.             *)
Attach(c) ==
  /\ c \in alive
  /\ fd[c] \in Fds \ DOMAIN InterestWithout(c)
  /\ attached' = attached \cup {c}
  /\ interest' = Registered(InterestWithout(c), c, FALSE)
  /\ UNCHANGED <<alive, fd, on>>

(* ADD fails: no descriptor, one that is registered, or no memory.  What   *)
(* was attached is detached by then.                                       *)
AttachFails(c) ==
  /\ c \in alive
  /\ attached' = attached \ {c}
  /\ interest' = InterestWithout(c)
  /\ UNCHANGED <<alive, fd, on>>

(* detachLoopService()                                                     *)
Detach(c) ==
  /\ c \in attached
  /\ attached' = attached \ {c}
  /\ interest' = InterestWithout(c)
  /\ UNCHANGED <<alive, fd, on>>

(* A plausible bug, used by no definition: the destructor does not detach. *)
MutDeleteStaysAttached(c) ==
  /\ c \in alive
  /\ alive' = alive \ {c}
  /\ fd' = [fd EXCEPT ![c] = NoFd]
  /\ on' = [on EXCEPT ![c] = {}]
  /\ attached' = attached \ {c}
  /\ UNCHANGED <<interest>>

(* ~IOChannel()                                                            *)
DeleteChannel(c) ==
  /\ c \in alive
  /\ alive' = alive \ {c}
  /\ fd' = [fd EXCEPT ![c] = NoFd]
  /\ on' = [on EXCEPT ![c] = {}]
  /\ attached' = attached \ {c}
  /\ interest' = InterestWithout(c)

(* setReadCallback(), setWriteCallback() or setErrorCallback(), with an    *)
(* empty function or with another: MOD tells the kernel, unless it is the  *)
(* error callback, which is asked for anyhow.                              *)
SetCallback(c, kind) ==
  /\ c \in alive
  /\ on' = [on EXCEPT ![c] = IF kind \in @ THEN @ \ {kind} ELSE @ \cup {kind}]
  /\ interest' = IF c \in attached /\ fd[c] \in DOMAIN interest /\ kind \in Polled
                 THEN [interest EXCEPT ![fd[c]].ptr = c,
                                       ![fd[c]].events = on'[c] \cap Polled]
                 ELSE interest
  /\ UNCHANGED <<alive, fd, attached>>

-----------------------------------------------------------------------------
Registration == [ptr : Channels, events : SUBSET Polled, reported : BOOLEAN]

ChannelTypeOK ==
  /\ alive \subseteq Channels
  /\ attached \subseteq alive
  /\ fd \in [Channels -> Fds \cup {NoFd}]
  /\ on \in [Channels -> SUBSET Kinds]
  /\ DOMAIN interest \subseteq Fds
  /\ \A f \in DOMAIN interest : interest[f] \in Registration

(* The kernel polls each attached channel for the callbacks it has now,    *)
(* and nothing else: no registration outlives its channel, which the next  *)
(* event would call through a dangling pointer (io_channel.cc:18-78).      *)
RegistrationsMatch ==
  /\ \A c \in attached :
       /\ fd[c] \in DOMAIN interest
       /\ interest[fd[c]].ptr = c
       /\ interest[fd[c]].events = on[c] \cap Polled
  /\ \A f \in DOMAIN interest : interest[f].ptr \in attached /\ fd[interest[f].ptr] = f
=============================================================================
