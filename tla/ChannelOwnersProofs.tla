------------------------- MODULE ChannelOwnersProofs -------------------------
(***************************************************************************)
(* For any sockets, any descriptors, and any texts that inet_pton() takes  *)
(* or not: the two representations of an InetAddress agree, whatever       *)
(* converts it when; and the open descriptors are those that the objects   *)
(* hold, each held once and registered for its holder or not at all; and a *)
(* call that opens a socket gives all it promises or leaves none open.     *)
(***************************************************************************)
EXTENDS ChannelOwners, FiniteSetTheorems, SequenceTheorems, WellFoundedInduction, TLAPS

(* What the flags stand for: a text that was set is there, and a sockaddr  *)
(* beside it is the one it converts to; and the other way round.           *)
FlagsTrue ==
  /\ said \in Texts =>
       address.has_addr /\ address.ip = said /\ address.native \in {NoNative, PtoN(said)}
  /\ said \in Natives =>
       address.native = said /\ (address.has_addr => address.ip = said.text)

AddressRecord ==
  address \in [ip : Texts \cup {NoText}, has_addr : BOOLEAN, native : Natives \cup {NoNative}]

IInv == AddressRecord /\ FlagsTrue

LEMMA NoNativeIsNone == NoNative \notin Natives
BY DEF NoNative, Natives, UNKNOWN, IP_V4, IP_V6

LEMMA NativeRecords ==
  ASSUME NEW n \in Natives
  PROVE  n.text \in Texts
BY DEF Natives, Texts

LEMMA PtoNIsNative ==
  ASSUME NEW text \in Texts
  PROVE  PtoN(text) \in Natives \cup {NoNative}
BY DEF PtoN, Natives

(* What was said last is what the getters answer (inet_address.cc:67-207). *)
LEMMA FlagsSuffice == ASSUME IInv PROVE CacheCoherent
<1>1. CASE said \in Texts
  BY <1>1, AddressAssumption
     DEF IInv, FlagsTrue, CacheCoherent, Ip, Native, WithAddress, WithNative
<1>2. CASE said \in Natives
  <2>1. address.native = said /\ address.native # NoNative
    BY <1>2, NoNativeIsNone DEF IInv, FlagsTrue
  <2>2. Native = said
    BY <2>1 DEF Native, WithNative
  <2>3. Ip = said.text
    BY <1>2, <2>1 DEF IInv, FlagsTrue, AddressRecord, Ip, WithAddress
  <2> QED BY <1>2, <2>2, <2>3, AddressAssumption DEF CacheCoherent
<1> QED BY <1>1, <1>2 DEF CacheCoherent

-----------------------------------------------------------------------------
LEMMA GetIpKeeps == ASSUME IInv, GetIp PROVE IInv'
<1>1. address' = WithAddress(address) /\ said' = said
  BY DEF GetIp
<1>2. CASE ~address.has_addr /\ address.native # NoNative
  <2>1. address' = [address EXCEPT !.ip = address.native.text, !.has_addr = TRUE]
    BY <1>1, <1>2 DEF WithAddress
  <2>2. address.native \in Natives /\ address.native.text \in Texts
    BY <1>2, NativeRecords DEF IInv, AddressRecord
  <2>3. /\ address'.ip = address.native.text /\ address'.has_addr
        /\ address'.native = address.native
        /\ AddressRecord'
    BY <2>1, <2>2 DEF IInv, AddressRecord
  <2> QED BY <1>1, <1>2, <2>3 DEF IInv, FlagsTrue
<1>3. CASE ~(~address.has_addr /\ address.native # NoNative)
  BY <1>1, <1>3 DEF WithAddress, IInv, AddressRecord, FlagsTrue
<1> QED BY <1>2, <1>3

LEMMA GetNativeAddressKeeps == ASSUME IInv, GetNativeAddress PROVE IInv'
<1>1. address' = WithNative(address) /\ said' = said
  BY DEF GetNativeAddress
<1>2. CASE address.has_addr /\ address.native = NoNative
  <2>1. address' = [address EXCEPT !.native = PtoN(address.ip)]
    BY <1>1, <1>2 DEF WithNative
  <2>2. PtoN(address.ip) \in Natives \cup {NoNative}
    BY PtoNIsNative DEF IInv, AddressRecord, PtoN, Natives
  <2>3. /\ address'.ip = address.ip /\ address'.has_addr
        /\ address'.native = PtoN(address.ip)
        /\ AddressRecord'
    BY <1>2, <2>1, <2>2 DEF IInv, AddressRecord
  <2>4. said \notin Natives
    BY <1>2, NoNativeIsNone DEF IInv, FlagsTrue
  <2> QED BY <1>1, <2>3, <2>4 DEF IInv, FlagsTrue
<1>3. CASE ~(address.has_addr /\ address.native = NoNative)
  BY <1>1, <1>3 DEF WithNative, IInv, AddressRecord, FlagsTrue
<1> QED BY <1>2, <1>3

LEMMA SetNativeAddressKeeps ==
  ASSUME IInv, NEW native \in Natives, SetNativeAddress(native)
  PROVE  IInv'
BY AddressAssumption DEF SetNativeAddress, IInv, AddressRecord, FlagsTrue

LEMMA AddressStepKeeps == ASSUME IInv, AddressStep PROVE IInv'
<1>1. ASSUME NEW text \in Texts, Construct(text) PROVE IInv'
  BY <1>1, AddressAssumption DEF Construct, IInv, AddressRecord, FlagsTrue
<1>2. ASSUME NEW text \in Texts, SetAddress(text) PROVE IInv'
  BY <1>2, AddressAssumption DEF SetAddress, IInv, AddressRecord, FlagsTrue
<1> QED BY <1>1, <1>2, SetNativeAddressKeeps, GetIpKeeps, GetNativeAddressKeeps DEF AddressStep

LEMMA UnchangedKeeps == ASSUME IInv, UNCHANGED addressVars PROVE IInv'
BY DEF IInv, AddressRecord, FlagsTrue, addressVars

(* Sockets change the address only by asking for it or by filling it in.   *)
LEMMA TcpNextKeeps == ASSUME IInv, TcpNext PROVE IInv'
<1>1. ASSUME NEW op \in DOMAIN Steps, NEW self \in Sockets, NEW target \in Sockets,
             NEW family, Call(op, self, target, family)
      PROVE  IInv'
  BY <1>1, GetNativeAddressKeeps, UnchangedKeeps DEF Call
<1>2. ASSUME CallStep PROVE IInv'
  <2>1. CASE OpenCloses \/ OpenSocket \/ OpenFails \/ AcceptSucceeds \/ AcceptFails \/ AcceptCloses
    BY <2>1, UnchangedKeeps
       DEF OpenCloses, OpenSocket, OpenFails, AcceptSucceeds, AcceptFails, AcceptCloses
  <2>2. CASE StepSucceeds \/ StepFails
    BY <2>2, GetNativeAddressKeeps, UnchangedKeeps DEF StepSucceeds, StepFails, AskAddress
  <2> QED BY <1>2, <2>1, <2>2 DEF CallStep
<1>3. ASSUME NEW s \in Sockets, Close(s) \/ AttachSocket(s) \/ DetachSocket(s) PROVE IInv'
  BY <1>3, UnchangedKeeps DEF Close, AttachSocket, DetachSocket
<1>4. ASSUME NEW s \in Sockets, NEW native \in Natives, GetSocketAddress(s, native)
      PROVE  IInv'
  BY <1>4, SetNativeAddressKeeps DEF GetSocketAddress
<1>5. ASSUME AddressCall PROVE IInv'
  BY <1>5, AddressStepKeeps DEF AddressCall
<1>6. ASSUME UNCHANGED tcpVars PROVE IInv'
  BY <1>6, UnchangedKeeps DEF tcpVars
<1> QED BY <1>1, <1>2, <1>3, <1>4, <1>5, <1>6 DEF TcpNext

-----------------------------------------------------------------------------
LEMMA InitIInv == Init => IInv
BY AddressAssumption DEF Init, TcpInit, AddressInit, IInv, AddressRecord, FlagsTrue

LEMMA NextIInv == ASSUME IInv, [Next]_vars PROVE IInv'
<1>1. CASE TcpNext
  BY <1>1, TcpNextKeeps
<1>2. CASE UNCHANGED addressVars
  BY <1>2, UnchangedKeeps
<1> QED BY <1>1, <1>2 DEF Next, QueueStep, vars, tcpVars

(* No sequence of setters, getters and sockets that ask for the address, or*)
(* fill it in, leaves a stale representation behind                        *)
(* (inet_address.cc:67-207).                                               *)
THEOREM CachesAgree == Spec => []CacheCoherent
<1>1. IInv => CacheCoherent
  BY FlagsSuffice
<1> QED BY <1>1, InitIInv, NextIInv, PTL DEF Spec

-----------------------------------------------------------------------------
(* The elements of a set that are less than n, by which a finite set of    *)
(* integers is seen to have a least element.                               *)
Below(S, n) == {m \in S : m < n}

LEMMA LeastExists ==
  ASSUME NEW S \in SUBSET Int, IsFiniteSet(S), S # {}
  PROVE  \E n \in S : \A m \in S : n <= m
<1> DEFINE T == {Below(S, n) : n \in S}
<1>1. T \subseteq FiniteSubsetsOf(S) /\ T # {}
  <2>1. ASSUME NEW n \in S PROVE Below(S, n) \in FiniteSubsetsOf(S)
    <3>1. Below(S, n) \in SUBSET S
      BY DEF Below
    <3> QED BY <3>1, FS_Subset DEF FiniteSubsetsOf
  <2> QED BY <2>1
<1>2. PICK t \in T : \A u \in T : ~ (<<u, t>> \in StrictSubsetOrdering(S))
  <2> HIDE DEF T
  <2> QED BY <1>1, WFMin, FS_StrictSubsetOrderingWellFounded
<1>3. PICK n \in S : t = Below(S, n)
  OBVIOUS
<1>4. ASSUME NEW m \in S PROVE n <= m
  <2>1. SUFFICES ASSUME m < n PROVE FALSE
    OBVIOUS
  <2>2. \A k \in S : k < m => k < n
    <3>1. m \in Int /\ n \in Int /\ S \subseteq Int
      OBVIOUS
    <3> QED BY <2>1, <3>1
  <2>3. ~(m < m)
    <3>1. m \in Int
      OBVIOUS
    <3> QED BY <3>1
  <2>4. Below(S, m) \subseteq Below(S, n) /\ m \in Below(S, n) /\ m \notin Below(S, m)
    BY <2>1, <2>2, <2>3 DEF Below
  <2>5. Below(S, m) \in SUBSET S /\ Below(S, n) \in SUBSET S /\ Below(S, m) # Below(S, n)
    BY <2>4 DEF Below
  <2>6. <<Below(S, m), Below(S, n)>> \in StrictSubsetOrdering(S)
    BY <2>4, <2>5 DEF StrictSubsetOrdering
  <2> QED BY <1>2, <1>3, <2>6
<1> QED BY <1>4

(* What open() and accept() are given.                                     *)
LEMMA LowestIsFree ==
  ASSUME AnyFree
  PROVE  LowestFree \in Fds \ DOMAIN files
<1>1. Fds \ DOMAIN files \in SUBSET Int
  <2>1. Fds \subseteq Int
    BY NumbersAssumption
  <2> QED BY <2>1
<1>2. IsFiniteSet(Fds \ DOMAIN files)
  BY FdsAssumption, FS_Difference
<1>3. \E f \in Fds \ DOMAIN files : \A g \in Fds \ DOMAIN files : f <= g
  BY <1>1, <1>2, LeastExists DEF AnyFree
<1> QED BY <1>3 DEF LowestFree

-----------------------------------------------------------------------------
(* The descriptors.  What the objects hold between them is what is open,   *)
(* each once; what is attached holds a descriptor, and is registered under *)
(* it.  After an accept() that wrote over a descriptor nothing is claimed. *)
Held == {fd[c] : c \in Channels} \cup {fd1}

ObjectTypes ==
  /\ alive = Channels /\ attached \subseteq Channels
  /\ fd \in [Channels -> Fds \cup {NoFd}] /\ fd1 \in Fds \cup {NoFd}
  /\ on \in [Channels -> SUBSET Kinds]

HeldOnce ==
  /\ DOMAIN files = Held \ {NoFd}
  /\ \A c, d \in Holders : fd[c] = fd[d] => c = d
  /\ fd1 \notin {fd[c] : c \in Holders}

AttachedHold == \A c \in attached : fd[c] # NoFd

QueueHolds == (queue = "none" <=> fd1 = NoFd) /\ (queue = "none" <=> fd[Pipe] = NoFd)

Owned == ObjectTypes /\ HeldOnce /\ AttachedHold /\ RegistrationsMatch /\ QueueHolds

CallOfSockets == call.todo # <<>> => call.target \in Sockets /\ call.self \in Sockets

OwnersInv == CallOfSockets /\ (overwritten = {} => Owned)

LEMMA OwnedSuffices == ASSUME OwnersInv PROVE DescriptorsOwned
BY DEF OwnersInv, Owned, HeldOnce, Held, DescriptorsOwned

LEMMA SocketsAndPipe == Pipe \in Channels /\ Sockets \subseteq Channels /\ Pipe \notin Sockets
BY ChannelsAssumption

(* close(), with fd1_ or without.                                          *)
LEMMA ClosesKeepsOwned ==
  ASSUME Owned, NEW c \in Channels, NEW others, Closes(c, others),
         \/ c # Pipe /\ others = {} /\ UNCHANGED <<fd1, queue>>
         \/ c = Pipe /\ others = {fd1} /\ fd1' = NoFd /\ queue' = "none",
         UNCHANGED <<alive, on>>
  PROVE  Owned'
<1>1. /\ fd' = [fd EXCEPT ![c] = NoFd]
      /\ attached' = attached \ {c}
      /\ interest' = [f \in DOMAIN InterestWithout(c) \ {fd[c]} |-> InterestWithout(c)[f]]
      /\ files' = [f \in DOMAIN files \ ({fd[c]} \cup others) |-> files[f]]
  BY DEF Closes, FilesWithout
<1>2. fd'[c] = NoFd /\ \A d \in Channels : d # c => fd'[d] = fd[d]
  BY <1>1 DEF Owned, ObjectTypes
<1>3. ObjectTypes'
  BY <1>1 DEF Owned, ObjectTypes
<1>4. HeldOnce'
  <2>1. Holders' = Holders \ {c}
    BY <1>2 DEF Holders
  <2>2. DOMAIN files' = (Held \ {NoFd}) \ ({fd[c]} \cup others)
    BY <1>1 DEF Owned, HeldOnce
  <2>3. DOMAIN files' = Held' \ {NoFd}
    <3>1. ASSUME NEW f \in DOMAIN files' PROVE f \in Held' \ {NoFd}
      BY <3>1, <2>2, <1>2 DEF Held
    <3>2. ASSUME NEW f \in Held' \ {NoFd} PROVE f \in DOMAIN files'
      <4>1. CASE f = fd1'
        <5>1. f = fd1 /\ others = {}
          BY <4>1
        <5>2. f # fd[c]
          BY <5>1 DEF Owned, HeldOnce, Holders
        <5> QED BY <5>1, <5>2, <2>2 DEF Held
      <4>2. CASE f # fd1'
        <5>1. PICK d \in Channels : f = fd'[d]
          BY <4>2 DEF Held
        <5>2. d # c /\ f = fd[d] /\ fd[d] # NoFd
          BY <5>1, <1>2
        <5>3. f # fd[c]
          BY <5>2 DEF Owned, HeldOnce, Holders
        <5>4. f # fd1
          BY <5>2 DEF Owned, HeldOnce, Holders
        <5> QED BY <5>2, <5>3, <5>4, <2>2 DEF Held
      <4> QED BY <4>1, <4>2
    <3> QED BY <3>1, <3>2
  <2>4. \A x, y \in Holders' : fd'[x] = fd'[y] => x = y
    BY <2>1, <1>2 DEF Owned, HeldOnce, Holders
  <2>5. fd1' \notin {fd'[x] : x \in Holders'}
    BY <2>1, <1>2 DEF Owned, HeldOnce, Holders
  <2> QED BY <2>3, <2>4, <2>5 DEF HeldOnce
<1>5. AttachedHold'
  BY <1>1, <1>2 DEF Owned, ObjectTypes, AttachedHold
<1>6. RegistrationsMatch'
  <2>1. DOMAIN interest' = DOMAIN interest \ {fd[c]} /\
        \A f \in DOMAIN interest' : interest'[f] = interest[f]
    BY <1>1 DEF InterestWithout, Unregistered
  <2>2. ASSUME NEW d \in attached'
        PROVE  /\ fd'[d] \in DOMAIN interest'
               /\ interest'[fd'[d]].ptr = d
               /\ interest'[fd'[d]].events = on'[d] \cap Polled
    <3>1. d \in attached /\ d \in Channels /\ d # c /\ fd'[d] = fd[d] /\ on'[d] = on[d]
      BY <1>1, <1>2 DEF Owned, ObjectTypes
    <3>2. fd[d] # fd[c]
      BY <3>1 DEF Owned, AttachedHold, HeldOnce, Holders
    <3> QED BY <2>1, <3>1, <3>2 DEF Owned, RegistrationsMatch
  <2>3. ASSUME NEW f \in DOMAIN interest'
        PROVE  interest'[f].ptr \in attached' /\ fd'[interest'[f].ptr] = f
    <3>1. f \in DOMAIN interest /\ f # fd[c] /\ interest'[f] = interest[f]
      BY <2>1
    <3>2. interest[f].ptr \in attached /\ fd[interest[f].ptr] = f
      BY <3>1 DEF Owned, RegistrationsMatch
    <3> QED BY <1>1, <1>2, <3>1, <3>2 DEF Owned, ObjectTypes
  <2> QED BY <2>2, <2>3 DEF RegistrationsMatch
<1>7. QueueHolds'
  BY <1>2, SocketsAndPipe DEF Owned, QueueHolds
<1> QED BY <1>3, <1>4, <1>5, <1>6, <1>7 DEF Owned

(* A channel that holds none gets a descriptor that was free.              *)
LEMMA OpensKeepsOwned ==
  ASSUME Owned, NEW c \in Sockets, fd[c] = NoFd,
         NEW f \in Fds \ DOMAIN files,
         fd' = [fd EXCEPT ![c] = f], DOMAIN files' = DOMAIN files \cup {f},
         UNCHANGED <<alive, on, attached, interest, queue, fd1>>
  PROVE  Owned'
<1>1. c \in Channels /\ c # Pipe /\ f # NoFd
  BY SocketsAndPipe, FdsAssumption
<1>2. fd'[c] = f /\ \A d \in Channels : d # c => fd'[d] = fd[d]
  BY <1>1 DEF Owned, ObjectTypes
<1>3. f # fd1 /\ \A d \in Channels : fd[d] # f
  BY <1>1 DEF Owned, HeldOnce, Held
<1>4. ObjectTypes'
  BY <1>1 DEF Owned, ObjectTypes
<1>5. HeldOnce'
  <2>1. Holders' = Holders \cup {c}
    BY <1>1, <1>2 DEF Holders
  <2>2. DOMAIN files' = Held' \ {NoFd}
    <3>1. ASSUME NEW g \in Held' \ {NoFd} PROVE g \in DOMAIN files'
      BY <1>2 DEF Owned, HeldOnce, Held
    <3>2. ASSUME NEW g \in DOMAIN files' PROVE g \in Held' \ {NoFd}
      BY <1>1, <1>2 DEF Owned, HeldOnce, Held
    <3> QED BY <3>1, <3>2
  <2>3. \A x, y \in Holders' : fd'[x] = fd'[y] => x = y
    BY <2>1, <1>2, <1>3 DEF Owned, HeldOnce, Holders
  <2>4. fd1' \notin {fd'[x] : x \in Holders'}
    BY <2>1, <1>2, <1>3 DEF Owned, HeldOnce, Holders
  <2> QED BY <2>2, <2>3, <2>4 DEF HeldOnce
<1>6. c \notin attached
  BY DEF Owned, AttachedHold
<1>7. AttachedHold'
  BY <1>2, <1>6 DEF Owned, ObjectTypes, AttachedHold
<1>8. RegistrationsMatch'
  BY <1>2, <1>6 DEF Owned, ObjectTypes, RegistrationsMatch
<1>9. QueueHolds'
  BY <1>1, <1>2, SocketsAndPipe DEF Owned, QueueHolds
<1> QED BY <1>4, <1>5, <1>7, <1>8, <1>9 DEF Owned

(* What leaves the descriptors and the registrations alone.                *)
LEMMA UnchangedKeepsOwned ==
  ASSUME Owned, UNCHANGED <<channelVars, fd1>>, DOMAIN files' = DOMAIN files,
         queue' = "none" <=> queue = "none"
  PROVE  Owned'
BY DEF channelVars, Owned, ObjectTypes, HeldOnce, Held, Holders, AttachedHold,
       RegistrationsMatch, QueueHolds

(* The queue's constructor opens both ends, and attaches the reading one or*)
(* fails to (signal_queue.cc, self_pipe.cc:19-47).                         *)
LEMMA CreateQueueKeepsOwned == ASSUME Owned, CreateQueue PROVE Owned'
<1>1. PICK r \in Fds \ DOMAIN files, w \in Fds \ DOMAIN files :
        /\ r < w
        /\ fd' = [fd EXCEPT ![Pipe] = r]
        /\ fd1' = w
        /\ DOMAIN files' = DOMAIN files \cup {r, w}
        /\ on' = [on EXCEPT ![Pipe] = {"read"}]
        /\ \/ /\ attached' = attached \cup {Pipe}
              /\ interest' = [f \in DOMAIN interest \cup {r} |->
                                IF f = r THEN [ptr |-> Pipe, events |-> {"read"},
                                               reported |-> FALSE]
                                ELSE interest[f]]
           \/ UNCHANGED <<attached, interest>>
  BY DEF CreateQueue
<1>2. /\ queue = "none" /\ queue' = "live" /\ alive' = alive
      /\ fd[Pipe] = NoFd /\ fd1 = NoFd
  BY DEF CreateQueue, Owned, QueueHolds
<1>3. r # NoFd /\ w # NoFd /\ r # w
  BY <1>1, FdsAssumption, NumbersAssumption
<1>4. fd'[Pipe] = r /\ \A d \in Channels : d # Pipe => fd'[d] = fd[d] /\ on'[d] = on[d]
  BY <1>1, SocketsAndPipe DEF Owned, ObjectTypes
<1>5. \A d \in Channels : fd[d] # r /\ fd[d] # w
  BY <1>3 DEF Owned, HeldOnce, Held
<1>6. ObjectTypes'
  BY <1>1, <1>2, SocketsAndPipe, PipeAssumption DEF Owned, ObjectTypes
<1>7. HeldOnce'
  <2>1. Holders' = Holders \cup {Pipe}
    BY <1>3, <1>4, SocketsAndPipe DEF Holders
  <2>2. DOMAIN files' = Held' \ {NoFd}
    <3>1. ASSUME NEW g \in Held' \ {NoFd} PROVE g \in DOMAIN files'
      BY <1>1, <1>4 DEF Owned, HeldOnce, Held
    <3>2. ASSUME NEW g \in DOMAIN files' PROVE g \in Held' \ {NoFd}
      <4>1. CASE g \in {r, w}
        BY <4>1, <1>1, <1>3, <1>4, SocketsAndPipe DEF Held
      <4>2. CASE g \in DOMAIN files
        BY <4>2, <1>1, <1>2, <1>4, SocketsAndPipe DEF Owned, HeldOnce, Held
      <4> QED BY <1>1, <4>1, <4>2
    <3> QED BY <3>1, <3>2
  <2>3. \A x, y \in Holders' : fd'[x] = fd'[y] => x = y
    BY <2>1, <1>4, <1>5 DEF Owned, HeldOnce, Holders
  <2>4. fd1' \notin {fd'[x] : x \in Holders'}
    BY <2>1, <1>1, <1>3, <1>4, <1>5 DEF Holders
  <2> QED BY <2>2, <2>3, <2>4 DEF HeldOnce
<1>8. Pipe \notin attached
  BY <1>2 DEF Owned, AttachedHold
<1>9. AttachedHold'
  BY <1>1, <1>3, <1>4 DEF Owned, ObjectTypes, AttachedHold
<1>10. RegistrationsMatch'
  <2>1. CASE UNCHANGED <<attached, interest>>
    BY <2>1, <1>4, <1>8 DEF Owned, ObjectTypes, RegistrationsMatch
  <2>2. CASE /\ attached' = attached \cup {Pipe}
             /\ interest' = [f \in DOMAIN interest \cup {r} |->
                               IF f = r THEN [ptr |-> Pipe, events |-> {"read"},
                                              reported |-> FALSE]
                               ELSE interest[f]]
    <3>1. r \notin DOMAIN interest
      BY <1>5 DEF Owned, ObjectTypes, RegistrationsMatch
    <3>2. /\ DOMAIN interest' = DOMAIN interest \cup {r}
          /\ interest'[r] = [ptr |-> Pipe, events |-> {"read"}, reported |-> FALSE]
          /\ \A f \in DOMAIN interest : interest'[f] = interest[f]
      BY <2>2, <3>1
    <3>3. ASSUME NEW d \in attached'
          PROVE  /\ fd'[d] \in DOMAIN interest'
                 /\ interest'[fd'[d]].ptr = d
                 /\ interest'[fd'[d]].events = on'[d] \cap Polled
      <4>1. CASE d = Pipe
        <5>1. on'[Pipe] = {"read"} /\ {"read"} \cap Polled = {"read"}
          BY <1>1, SocketsAndPipe, PipeAssumption DEF Owned, ObjectTypes, Polled
        <5> QED BY <4>1, <5>1, <1>4, <3>2
      <4>2. CASE d # Pipe
        <5>1. d \in attached /\ d \in Channels /\ fd'[d] = fd[d] /\ on'[d] = on[d]
          BY <4>2, <2>2, <1>4 DEF Owned, ObjectTypes
        <5> QED BY <5>1, <3>2 DEF Owned, RegistrationsMatch
      <4> QED BY <4>1, <4>2
    <3>4. ASSUME NEW f \in DOMAIN interest'
          PROVE  interest'[f].ptr \in attached' /\ fd'[interest'[f].ptr] = f
      <4>1. CASE f = r
        BY <4>1, <3>2, <2>2, <1>4
      <4>2. CASE f # r
        <5>1. f \in DOMAIN interest /\ interest'[f] = interest[f]
          BY <4>2, <3>2
        <5>2. interest[f].ptr \in attached /\ fd[interest[f].ptr] = f /\ interest[f].ptr \in Channels
          BY <5>1 DEF Owned, ObjectTypes, RegistrationsMatch
        <5> QED BY <5>1, <5>2, <2>2, <1>4, <1>8
      <4> QED BY <4>1, <4>2
    <3> QED BY <3>3, <3>4 DEF RegistrationsMatch
  <2> QED BY <1>1, <2>1, <2>2
<1>11. QueueHolds'
  BY <1>1, <1>2, <1>3, <1>4 DEF QueueHolds
<1> QED BY <1>6, <1>7, <1>9, <1>10, <1>11 DEF Owned

-----------------------------------------------------------------------------
LEMMA QueueStepKeepsOwned == ASSUME Owned, QueueNext PROVE Owned'
<1>1. CASE SetRecvSignalCallback
  BY <1>1, UnchangedKeepsOwned DEF SetRecvSignalCallback
<1>2. CASE DestroyQueue
  <2>1. /\ Closes(Pipe, {fd1}) /\ fd1' = NoFd /\ queue' = "none"
        /\ UNCHANGED <<alive, on>>
    BY <1>2 DEF DestroyQueue
  <2> QED BY <2>1, ClosesKeepsOwned, SocketsAndPipe
<1>3. CASE ReadBegins \/ ReadSignal \/ ReadEnds
  <2>1. UNCHANGED <<channelVars, files, fd1>> /\ (queue' = "none" <=> queue = "none")
    BY <1>3 DEF ReadBegins, ReadSignal, ReadEnds
  <2> QED BY <2>1, UnchangedKeepsOwned
<1> QED BY <1>1, <1>2, <1>3, CreateQueueKeepsOwned DEF QueueNext

(* attachLoopService() and detachLoopService() of a socket                 *)
LEMMA AttachKeepsOwned ==
  ASSUME Owned, NEW c \in Sockets, c \notin attached, Attach(c), UNCHANGED <<files, signalVars>>
  PROVE  Owned'
<1>1. c \in Channels /\ fd[c] \in Fds \ DOMAIN interest /\ fd[c] # NoFd
  BY SocketsAndPipe, FdsAssumption DEF Attach, InterestWithout
<1>2. /\ attached' = attached \cup {c} /\ UNCHANGED <<alive, fd, on, files, queue, fd1>>
      /\ DOMAIN interest' = DOMAIN interest \cup {fd[c]}
      /\ interest'[fd[c]] = [ptr |-> c, events |-> on[c] \cap Polled, reported |-> FALSE]
      /\ \A f \in DOMAIN interest : interest'[f] = interest[f]
  BY <1>1 DEF Attach, InterestWithout, Registered, signalVars
<1>3. ObjectTypes' /\ HeldOnce' /\ AttachedHold' /\ QueueHolds'
  BY <1>1, <1>2 DEF Owned, ObjectTypes, HeldOnce, Held, Holders, AttachedHold, QueueHolds
<1>4. RegistrationsMatch'
  <2>1. ASSUME NEW d \in attached'
        PROVE  /\ fd'[d] \in DOMAIN interest'
               /\ interest'[fd'[d]].ptr = d
               /\ interest'[fd'[d]].events = on'[d] \cap Polled
    <3>1. CASE d = c
      BY <3>1, <1>2
    <3>2. CASE d # c
      BY <3>2, <1>2 DEF Owned, RegistrationsMatch
    <3> QED BY <3>1, <3>2
  <2>2. ASSUME NEW f \in DOMAIN interest'
        PROVE  interest'[f].ptr \in attached' /\ fd'[interest'[f].ptr] = f
    <3>1. CASE f = fd[c]
      BY <3>1, <1>2
    <3>2. CASE f # fd[c]
      BY <3>2, <1>2 DEF Owned, RegistrationsMatch
    <3> QED BY <3>1, <3>2
  <2> QED BY <2>1, <2>2 DEF RegistrationsMatch
<1> QED BY <1>3, <1>4 DEF Owned

LEMMA DetachKeepsOwned ==
  ASSUME Owned, NEW c \in Sockets, Detach(c), UNCHANGED <<files, signalVars>>
  PROVE  Owned'
<1>1. /\ c \in attached /\ attached' = attached \ {c} /\ UNCHANGED <<alive, fd, on, files, queue, fd1>>
      /\ DOMAIN interest' = DOMAIN interest \ {fd[c]}
      /\ \A f \in DOMAIN interest' : interest'[f] = interest[f]
  BY DEF Detach, InterestWithout, Unregistered, signalVars
<1>2. ObjectTypes' /\ HeldOnce' /\ AttachedHold' /\ QueueHolds'
  BY <1>1 DEF Owned, ObjectTypes, HeldOnce, Held, Holders, AttachedHold, QueueHolds
<1>3. \A d \in attached' : fd[d] # fd[c]
  BY <1>1 DEF Owned, ObjectTypes, AttachedHold, HeldOnce, Holders
<1>4. RegistrationsMatch'
  BY <1>1, <1>3 DEF Owned, RegistrationsMatch
<1> QED BY <1>2, <1>4 DEF Owned

-----------------------------------------------------------------------------
(* The steps of a call, each of which works on the socket that the call is *)
(* about, or hands accept()'s descriptor to the peer.                      *)
LEMMA CallStepKeepsOwned ==
  ASSUME OwnersInv, CallStep, overwritten' = {}, UNCHANGED signalVars
  PROVE  Owned'
<1>1. overwritten = {}
  BY DEF CallStep, OpenCloses, OpenSocket, OpenFails, StepSucceeds, StepFails,
         AcceptSucceeds, AcceptFails, AcceptCloses
<1>2. Owned /\ Target \in Sockets /\ Target \in Channels /\ Target # Pipe
  BY <1>1, SocketsAndPipe DEF OwnersInv, CallOfSockets, CallStep, Target
<1>3. UNCHANGED <<fd1, queue>>
  BY DEF signalVars
<1>4. CASE OpenCloses
  BY <1>2, <1>3, <1>4, ClosesKeepsOwned DEF OpenCloses
<1>5. CASE OpenSocket
  <2>1. fd[Target] = NoFd
    BY <1>2, <1>5 DEF OpenSocket, IsOpen, Owned, HeldOnce, Held
  <2>2. LowestFree \in Fds \ DOMAIN files
    BY <1>5, LowestIsFree DEF OpenSocket
  <2>3. /\ fd' = [fd EXCEPT ![Target] = LowestFree]
        /\ DOMAIN files' = DOMAIN files \cup {LowestFree}
        /\ UNCHANGED <<alive, on, attached, interest>>
    BY <1>5 DEF OpenSocket
  <2> QED BY <1>2, <1>3, <2>1, <2>2, <2>3, OpensKeepsOwned
<1>6. CASE StepSucceeds
  <2>1. DOMAIN files' = DOMAIN files /\ UNCHANGED channelVars
    BY <1>6 DEF StepSucceeds
  <2> QED BY <1>2, <1>3, <2>1, UnchangedKeepsOwned
<1>7. CASE StepFails
  <2>1. CASE Closes(Target, {}) /\ UNCHANGED <<alive, on>>
    BY <2>1, <1>2, <1>3, ClosesKeepsOwned
  <2>2. CASE UNCHANGED <<channelVars, files>>
    BY <2>2, <1>2, <1>3, UnchangedKeepsOwned
  <2> QED BY <1>7, <2>1, <2>2 DEF StepFails
<1>8. CASE AcceptSucceeds
  <2>1. fd[Target] = NoFd
    BY <1>8 DEF AcceptSucceeds
  <2>2. LowestFree \in Fds \ DOMAIN files
    BY <1>8, LowestIsFree DEF AcceptSucceeds
  <2>3. /\ fd' = [fd EXCEPT ![Target] = LowestFree]
        /\ DOMAIN files' = DOMAIN files \cup {LowestFree}
        /\ UNCHANGED <<alive, on, attached, interest>>
    BY <1>8 DEF AcceptSucceeds
  <2> QED BY <1>2, <1>3, <2>1, <2>2, <2>3, OpensKeepsOwned
<1>9. CASE AcceptCloses
  <2>1. fd[Target] = NoFd
    BY <1>9 DEF AcceptCloses
  <2>2. UNCHANGED channelVars /\ UNCHANGED files
    <3>1. fd' = fd
      BY <1>2, <1>9, <2>1 DEF AcceptCloses, Owned, ObjectTypes
    <3>2. attached' = attached
      BY <1>2, <1>9, <2>1 DEF AcceptCloses, Owned, AttachedHold
    <3> QED BY <1>9, <3>1, <3>2 DEF AcceptCloses, channelVars
  <2> QED BY <1>2, <1>3, <2>2, UnchangedKeepsOwned
<1>10. CASE OpenFails \/ AcceptFails
  BY <1>2, <1>3, <1>10, UnchangedKeepsOwned DEF OpenFails, AcceptFails
<1> QED
  BY <1>4, <1>5, <1>6, <1>7, <1>8, <1>9, <1>10 DEF CallStep

LEMMA TcpNextKeepsOwned ==
  ASSUME OwnersInv, TcpNext, overwritten' = {}, UNCHANGED signalVars
  PROVE  Owned'
<1>1. overwritten = {} => Owned
  BY DEF OwnersInv
<1>2. ASSUME NEW op, NEW self, NEW target, NEW family, Call(op, self, target, family)
      PROVE  Owned'
  <2>1. overwritten = {} /\ UNCHANGED <<channelVars, files>>
    BY <1>2 DEF Call, Idle
  <2> QED BY <1>1, <2>1, UnchangedKeepsOwned DEF signalVars
<1>3. ASSUME NEW s \in Sockets, Close(s) PROVE Owned'
  <2>1. overwritten = {} /\ Closes(s, {}) /\ UNCHANGED <<alive, on>>
    BY <1>3 DEF Close, Idle
  <2>2. s \in Channels /\ s # Pipe /\ UNCHANGED <<fd1, queue>>
    BY SocketsAndPipe DEF signalVars
  <2> QED BY <1>1, <2>1, <2>2, ClosesKeepsOwned
<1>4. ASSUME NEW s \in Sockets, AttachSocket(s) PROVE Owned'
  BY <1>1, <1>4, AttachKeepsOwned DEF AttachSocket, Idle
<1>5. ASSUME NEW s \in Sockets, DetachSocket(s) PROVE Owned'
  BY <1>1, <1>5, DetachKeepsOwned DEF DetachSocket, Idle
<1>6. ASSUME NEW s \in Sockets, NEW native, GetSocketAddress(s, native) PROVE Owned'
  <2>1. overwritten = {} /\ UNCHANGED <<channelVars, files>>
    BY <1>6 DEF GetSocketAddress, Idle
  <2> QED BY <1>1, <2>1, UnchangedKeepsOwned DEF signalVars
<1>7. ASSUME AddressCall PROVE Owned'
  <2>1. overwritten = {} /\ UNCHANGED <<channelVars, files>>
    BY <1>7 DEF AddressCall, Idle
  <2> QED BY <1>1, <2>1, UnchangedKeepsOwned DEF signalVars
<1>8. CASE overwritten # {} /\ UNCHANGED tcpVars
  BY <1>8 DEF tcpVars, socketVars
<1> QED BY <1>2, <1>3, <1>4, <1>5, <1>6, <1>7, <1>8, CallStepKeepsOwned DEF TcpNext

(* The call in hand has the fields that Call() gives it.                   *)
CallRecord ==
  call = [op |-> call.op, self |-> call.self, target |-> call.target, family |-> call.family,
          todo |-> call.todo, ok |-> call.ok]

LEMMA ReturnedIsRecord ==
  ASSUME NEW ok, call' = Returned(ok)
  PROVE  CallRecord' /\ CallOfSockets'
BY DEF Returned, CallRecord, CallOfSockets

LEMMA CallUnchanged ==
  ASSUME CallRecord, CallOfSockets, call' = call PROVE CallRecord' /\ CallOfSockets'
BY DEF CallRecord, CallOfSockets

LEMMA DoneGoesOn ==
  ASSUME CallRecord, CallOfSockets, call.todo # <<>>, Done
  PROVE  CallRecord' /\ CallOfSockets'
<1>1. CASE Tail(call.todo) = <<>>
  BY <1>1, ReturnedIsRecord DEF Done
<1>2. CASE Tail(call.todo) # <<>>
  <2>1. call' = [call EXCEPT !.todo = Tail(call.todo)]
    BY <1>2 DEF Done
  <2>2. /\ call' = [op |-> call.op, self |-> call.self, target |-> call.target,
                    family |-> call.family, todo |-> Tail(call.todo), ok |-> call.ok]
    BY <2>1 DEF CallRecord
  <2> QED BY <2>2 DEF CallRecord, CallOfSockets
<1> QED BY <1>1, <1>2

LEMMA NextCallOfSockets ==
  ASSUME CallRecord, CallOfSockets, [Next]_vars
  PROVE  CallRecord' /\ CallOfSockets'
<1>1. ASSUME NEW op \in DOMAIN Steps, NEW self \in Sockets, NEW target \in Sockets, NEW family,
             Call(op, self, target, family)
      PROVE  CallRecord' /\ CallOfSockets'
  BY <1>1 DEF Call, CallRecord, CallOfSockets
<1>2. ASSUME CallStep PROVE CallRecord' /\ CallOfSockets'
  <2>1. CASE OpenSocket \/ StepSucceeds \/ AcceptSucceeds
    BY <1>2, <2>1, DoneGoesOn DEF CallStep, OpenSocket, StepSucceeds, AcceptSucceeds
  <2>2. CASE OpenFails \/ StepFails \/ AcceptFails \/ AcceptCloses
    BY <2>2, ReturnedIsRecord DEF OpenFails, StepFails, AcceptFails, AcceptCloses, Fails
  <2>3. CASE OpenCloses
    BY <2>3, CallUnchanged DEF OpenCloses
  <2> QED BY <1>2, <2>1, <2>2, <2>3 DEF CallStep
<1>3. ASSUME NEW s \in Sockets, Close(s) \/ AttachSocket(s) \/ DetachSocket(s)
      PROVE  CallRecord' /\ CallOfSockets'
  BY <1>3, ReturnedIsRecord DEF Close, AttachSocket, DetachSocket
<1>4. ASSUME NEW s, NEW native, GetSocketAddress(s, native)
      PROVE  CallRecord' /\ CallOfSockets'
  BY <1>4, ReturnedIsRecord DEF GetSocketAddress
<1>5. CASE AddressCall
  BY <1>5, ReturnedIsRecord DEF AddressCall
<1>6. CASE UNCHANGED call
  BY <1>6, CallUnchanged
<1>7. CASE TcpNext
  <2>1. CASE overwritten # {} /\ UNCHANGED tcpVars
    BY <2>1, <1>6 DEF tcpVars, socketVars
  <2> QED BY <1>1, <1>2, <1>3, <1>4, <1>5, <1>7, <2>1 DEF TcpNext
<1> QED BY <1>6, <1>7 DEF Next, QueueStep, vars, tcpVars, socketVars

LEMMA InitOwners == Init => CallRecord /\ OwnersInv
<1>1. SUFFICES ASSUME Init PROVE CallRecord /\ OwnersInv
  OBVIOUS
<1>2. CallRecord /\ CallOfSockets
  BY <1>1 DEF Init, TcpInit, Returned, CallRecord, CallOfSockets
<1>3. ObjectTypes /\ AttachedHold /\ QueueHolds
  BY <1>1, SocketsAndPipe DEF Init, SignalInit, ObjectTypes, AttachedHold, QueueHolds
<1>4. HeldOnce
  <2>1. Holders = {} /\ Held = {NoFd} /\ DOMAIN files = {}
    BY <1>1, SocketsAndPipe DEF Init, SignalInit, Holders, Held
  <2> QED BY <2>1 DEF HeldOnce
<1>5. RegistrationsMatch
  BY <1>1 DEF Init, RegistrationsMatch
<1> QED BY <1>2, <1>3, <1>4, <1>5 DEF OwnersInv, Owned

LEMMA NextOwners ==
  ASSUME CallRecord, OwnersInv, [Next]_vars
  PROVE  CallRecord' /\ OwnersInv'
<1>1. CallRecord' /\ CallOfSockets'
  BY NextCallOfSockets DEF OwnersInv
<1>2. SUFFICES ASSUME overwritten' = {} PROVE Owned'
  BY <1>1 DEF OwnersInv
<1>3. CASE TcpNext /\ UNCHANGED signalVars
  BY <1>2, <1>3, TcpNextKeepsOwned
<1>4. CASE QueueStep
  BY <1>2, <1>4, QueueStepKeepsOwned DEF QueueStep, socketVars, OwnersInv
<1>5. ASSUME NEW signum, Push(signum), UNCHANGED <<addressVars, socketVars>> PROVE Owned'
  BY <1>2, <1>5, UnchangedKeepsOwned DEF Push, socketVars, OwnersInv
<1>6. CASE UNCHANGED vars
  BY <1>2, <1>6, UnchangedKeepsOwned DEF vars, tcpVars, signalVars, socketVars, OwnersInv
<1> QED BY <1>3, <1>4, <1>5, <1>6 DEF Next

(* However the system calls of sockets and of the queue fail, as long as no*)
(* accept() was given a peer with an open socket: what is open is held by  *)
(* one object, and registered for it or not at all (tcp_socket.cc:23-59,   *)
(* 96-109; self_pipe.cc:19-47; io_channel.cc:18-58).                       *)
THEOREM DescriptorsCorrect == Spec => []DescriptorsOwned
<1>1. OwnersInv => DescriptorsOwned
  BY OwnedSuffices
<1> QED BY <1>1, InitOwners, NextOwners, PTL DEF Spec

-----------------------------------------------------------------------------
(* How far a call has come, when the next of its steps is the k-th: what   *)
(* the socket is by then, from the steps that were done.                   *)
StateAfter(did) ==
  IF "listen" \in did THEN "listening"
  ELSE IF "bind" \in did THEN "bound"
  ELSE IF did \cap {"connect", "accept"} # {} THEN "connected" ELSE "new"

OptsAfter(did) ==
  {"cloexec"} \cup (IF "setReuseAddr" \in did THEN {"reuse"} ELSE {})
              \cup (IF "setTcpNoDelay" \in did THEN {"nodelay"} ELSE {})
              \cup (IF "setNonblock" \in did THEN {"nonblock"} ELSE {})

Did(op, k) == {Steps[op][i] : i \in 1..(k - 1)}

AsFarAs(k) ==
  /\ fd[Target] \in DOMAIN files
  /\ File = [family |-> IF call.op \in Opens THEN call.family ELSE File.family,
             state |-> StateAfter(Did(call.op, k)), opts |-> OptsAfter(Did(call.op, k))]

IsAt(k) == call.todo = SubSeq(Steps[call.op], k, Len(Steps[call.op]))

Progress ==
  call.todo # <<>> =>
    /\ call.op \in DOMAIN Steps
    /\ call.op \notin Accepts => overwritten = {}
    /\ \E k \in 1..Len(Steps[call.op]) : IsAt(k) /\ (k > 1 => AsFarAs(k))

(* The lists of steps, written out.                                        *)
StepNames == {"open", "accept", "setReuseAddr", "setTcpNoDelay", "setNonblock",
              "connect", "bind", "listen"}

(* Append(), by what its result is element by element.                     *)
LEMMA AppendGives ==
  ASSUME NEW S, NEW s \in Seq(S), NEW e \in S, NEW t \in Seq(S),
         Len(t) = Len(s) + 1, t[Len(t)] = e, \A i \in 1..Len(s) : t[i] = s[i]
  PROVE  Append(s, e) = t
<1>1. /\ Append(s, e) \in Seq(S) /\ Len(Append(s, e)) = Len(s) + 1
      /\ Append(s, e)[Len(s) + 1] = e
      /\ \A i \in 1..Len(s) : Append(s, e)[i] = s[i]
  BY AppendProperties
<1>2. \A i \in 1..Len(t) : i \in 1..Len(s) \/ i = Len(t)
  BY LenProperties
<1>3. \A i \in 1..Len(t) : Append(s, e)[i] = t[i]
  BY <1>1, <1>2
<1> QED BY <1>1, <1>3, SeqEqual

LEMMA ActiveOpenNonblock ==
  Append(ActiveOpen, "setNonblock") =
    <<"open", "setReuseAddr", "setTcpNoDelay", "connect", "setNonblock">>
<1> DEFINE t == <<"open", "setReuseAddr", "setTcpNoDelay", "connect", "setNonblock">>
<1>1. ActiveOpen \in Seq(StepNames) /\ Len(ActiveOpen) = 4 /\ "setNonblock" \in StepNames
  BY DEF ActiveOpen, StepNames
<1>2. /\ t \in Seq(StepNames) /\ Len(t) = 5 /\ t[5] = "setNonblock"
      /\ \A i \in 1..4 : t[i] = ActiveOpen[i]
  BY DEF ActiveOpen, StepNames
<1> HIDE DEF t
<1>3. /\ Len(t) = Len(ActiveOpen) + 1 /\ t[Len(t)] = "setNonblock"
      /\ \A i \in 1..Len(ActiveOpen) : t[i] = ActiveOpen[i]
  BY <1>1, <1>2
<1>4. Append(ActiveOpen, "setNonblock") = t
  BY <1>1, <1>2, <1>3, AppendGives
<1> QED BY <1>4 DEF t

LEMMA PassiveOpenNonblock ==
  Append(PassiveOpen, "setNonblock") =
    <<"open", "setReuseAddr", "setTcpNoDelay", "bind", "listen", "setNonblock">>
<1> DEFINE t == <<"open", "setReuseAddr", "setTcpNoDelay", "bind", "listen", "setNonblock">>
<1>1. PassiveOpen \in Seq(StepNames) /\ Len(PassiveOpen) = 5 /\ "setNonblock" \in StepNames
  BY DEF PassiveOpen, StepNames
<1>2. /\ t \in Seq(StepNames) /\ Len(t) = 6 /\ t[6] = "setNonblock"
      /\ \A i \in 1..5 : t[i] = PassiveOpen[i]
  BY DEF PassiveOpen, StepNames
<1> HIDE DEF t
<1>3. /\ Len(t) = Len(PassiveOpen) + 1 /\ t[Len(t)] = "setNonblock"
      /\ \A i \in 1..Len(PassiveOpen) : t[i] = PassiveOpen[i]
  BY <1>1, <1>2
<1>4. Append(PassiveOpen, "setNonblock") = t
  BY <1>1, <1>2, <1>3, AppendGives
<1> QED BY <1>4 DEF t

LEMMA StepsWritten ==
  ASSUME NEW op \in DOMAIN Steps
  PROVE  \/ op = "open" /\ Steps[op] = <<"open">>
         \/ op = "connect" /\ Steps[op] = <<"connect">>
         \/ op = "bind" /\ Steps[op] = <<"bind">>
         \/ op = "listen" /\ Steps[op] = <<"listen">>
         \/ op = "activeOpen" /\
            Steps[op] = <<"open", "setReuseAddr", "setTcpNoDelay", "connect">>
         \/ op = "activeOpenNonblock" /\
            Steps[op] = <<"open", "setReuseAddr", "setTcpNoDelay", "connect", "setNonblock">>
         \/ op = "passiveOpen" /\
            Steps[op] = <<"open", "setReuseAddr", "setTcpNoDelay", "bind", "listen">>
         \/ op = "passiveOpenNonblock" /\
            Steps[op] = <<"open", "setReuseAddr", "setTcpNoDelay", "bind", "listen", "setNonblock">>
         \/ op = "accept" /\ Steps[op] = <<"accept">>
         \/ op = "acceptNonblock" /\ Steps[op] = <<"accept", "setTcpNoDelay", "setNonblock">>
<1>1. op \in {"open", "connect", "bind", "listen", "activeOpen", "activeOpenNonblock",
             "passiveOpen", "passiveOpenNonblock", "accept", "acceptNonblock"}
  BY DEF Steps
<1>2. /\ Steps["activeOpen"] = ActiveOpen
      /\ Steps["activeOpenNonblock"] = Append(ActiveOpen, "setNonblock")
      /\ Steps["passiveOpen"] = PassiveOpen
      /\ Steps["passiveOpenNonblock"] = Append(PassiveOpen, "setNonblock")
  BY DEF Steps
<1>3. /\ Steps["open"] = <<"open">> /\ Steps["connect"] = <<"connect">>
      /\ Steps["bind"] = <<"bind">> /\ Steps["listen"] = <<"listen">>
      /\ Steps["accept"] = <<"accept">>
      /\ Steps["acceptNonblock"] = <<"accept", "setTcpNoDelay", "setNonblock">>
  BY DEF Steps
<1> QED
  BY <1>1, <1>2, <1>3, ActiveOpenNonblock, PassiveOpenNonblock DEF ActiveOpen, PassiveOpen

(* What is common to the lists: open() and accept() come first, and only a *)
(* new socket is set up; connect() does not follow bind() or listen(), nor *)
(* bind() listen().                                                        *)
LEMMA ListsInOrder ==
  ASSUME NEW op \in DOMAIN Steps
  PROVE  /\ Steps[op] \in Seq(StepNames) /\ Len(Steps[op]) \in Nat \ {0}
         /\ Steps[op][1] = "open" <=> op \in Opens
         /\ Steps[op][1] = "accept" <=> op \in Accepts
         /\ \A k \in 2..Len(Steps[op]) :
              /\ Steps[op][k] \notin {"open", "accept"}
              /\ op \in (Opens \cup Accepts) \ {"open", "accept"}
              /\ \A i \in 1..(k - 1) :
                   /\ Steps[op][k] = "bind" => Steps[op][i] # "listen"
                   /\ Steps[op][k] = "connect" => Steps[op][i] \notin {"bind", "listen"}
<1>1. CASE op = "open" /\ Steps[op] = <<"open">>
  BY <1>1 DEF StepNames, Opens, Accepts
<1>2. CASE op = "connect" /\ Steps[op] = <<"connect">>
  BY <1>2 DEF StepNames, Opens, Accepts
<1>3. CASE op = "bind" /\ Steps[op] = <<"bind">>
  BY <1>3 DEF StepNames, Opens, Accepts
<1>4. CASE op = "listen" /\ Steps[op] = <<"listen">>
  BY <1>4 DEF StepNames, Opens, Accepts
<1>5. CASE op = "activeOpen" /\
           Steps[op] = <<"open", "setReuseAddr", "setTcpNoDelay", "connect">>
  BY <1>5 DEF StepNames, Opens, Accepts
<1>6. CASE op = "activeOpenNonblock" /\
           Steps[op] = <<"open", "setReuseAddr", "setTcpNoDelay", "connect", "setNonblock">>
  BY <1>6 DEF StepNames, Opens, Accepts
<1>7. CASE op = "passiveOpen" /\
           Steps[op] = <<"open", "setReuseAddr", "setTcpNoDelay", "bind", "listen">>
  BY <1>7 DEF StepNames, Opens, Accepts
<1>8. CASE op = "passiveOpenNonblock" /\
           Steps[op] = <<"open", "setReuseAddr", "setTcpNoDelay", "bind", "listen", "setNonblock">>
  BY <1>8 DEF StepNames, Opens, Accepts
<1>9. CASE op = "accept" /\ Steps[op] = <<"accept">>
  BY <1>9 DEF StepNames, Opens, Accepts
<1>10. CASE op = "acceptNonblock" /\ Steps[op] = <<"accept", "setTcpNoDelay", "setNonblock">>
  BY <1>10 DEF StepNames, Opens, Accepts
<1> QED
  BY <1>1, <1>2, <1>3, <1>4, <1>5, <1>6, <1>7, <1>8, <1>9, <1>10, StepsWritten

LEMMA StepsAreSequences ==
  ASSUME NEW op \in DOMAIN Steps
  PROVE  Steps[op] \in Seq(StepNames) /\ Len(Steps[op]) \in Nat \ {0}
BY ListsInOrder

LEMMA FirstSteps ==
  ASSUME NEW op \in DOMAIN Steps
  PROVE  /\ Steps[op][1] = "open" <=> op \in Opens
         /\ Steps[op][1] = "accept" <=> op \in Accepts
         /\ \A k \in 2..Len(Steps[op]) :
              /\ Steps[op][k] \notin {"open", "accept"}
              /\ op \in (Opens \cup Accepts) \ {"open", "accept"}
BY ListsInOrder

LEMMA DidNext ==
  ASSUME NEW op \in DOMAIN Steps, NEW k \in 1..Len(Steps[op])
  PROVE  Did(op, k + 1) = Did(op, k) \cup {Steps[op][k]} /\ Did(op, 1) = {}
<1>1. 1..((k + 1) - 1) = (1..(k - 1)) \cup {k} /\ 1..(1 - 1) = {}
  BY StepsAreSequences
<1> QED BY <1>1 DEF Did

(* bind() and listen(), or connect(): the state follows the last of them.  *)
LEMMA OrderOfSteps ==
  ASSUME NEW op \in DOMAIN Steps, NEW k \in 2..Len(Steps[op])
  PROVE  /\ Steps[op][k] = "bind" => "listen" \notin Did(op, k)
         /\ Steps[op][k] = "connect" => "listen" \notin Did(op, k) /\ "bind" \notin Did(op, k)
<1>1. ASSUME NEW i \in 1..(k - 1)
      PROVE  /\ Steps[op][k] = "bind" => Steps[op][i] # "listen"
             /\ Steps[op][k] = "connect" => Steps[op][i] \notin {"bind", "listen"}
  BY ListsInOrder
<1> QED BY <1>1 DEF Did

(* A list that is done to the end gives what the call promises.            *)
LEMMA AllStepsKeepThePromise ==
  ASSUME NEW op \in Opens \cup Accepts
  PROVE  LET did == Did(op, Len(Steps[op]) + 1) IN
         StateAfter(did) = Promised(op).state /\ OptsAfter(did) = Promised(op).opts
<1> DEFINE did == Did(op, Len(Steps[op]) + 1)
<1>1. op \in DOMAIN Steps
  BY DEF Steps, Opens, Accepts
<1>2. did = {Steps[op][i] : i \in 1..Len(Steps[op])}
  <2>1. (Len(Steps[op]) + 1) - 1 = Len(Steps[op])
    BY <1>1, StepsAreSequences
  <2> QED BY <2>1 DEF Did
<1> HIDE DEF did
<1>3. CASE op = "open" /\ Steps[op] = <<"open">>
  <2>1. did = {"open"}
    BY <1>2, <1>3
  <2> QED BY <1>3, <2>1 DEF StateAfter, OptsAfter, Promised, did
<1>4. CASE op = "accept" /\ Steps[op] = <<"accept">>
  <2>1. did = {"accept"}
    BY <1>2, <1>4
  <2> QED BY <1>4, <2>1 DEF StateAfter, OptsAfter, Promised, did
<1>5. CASE op = "activeOpen" /\
           Steps[op] = <<"open", "setReuseAddr", "setTcpNoDelay", "connect">>
  <2>1. did = {"open", "setReuseAddr", "setTcpNoDelay", "connect"}
    BY <1>2, <1>5
  <2> QED BY <1>5, <2>1 DEF StateAfter, OptsAfter, Promised, did
<1>6. CASE op = "activeOpenNonblock" /\
           Steps[op] = <<"open", "setReuseAddr", "setTcpNoDelay", "connect", "setNonblock">>
  <2>1. did = {"open", "setReuseAddr", "setTcpNoDelay", "connect", "setNonblock"}
    BY <1>2, <1>6
  <2> QED BY <1>6, <2>1 DEF StateAfter, OptsAfter, Promised, did
<1>7. CASE op = "passiveOpen" /\
           Steps[op] = <<"open", "setReuseAddr", "setTcpNoDelay", "bind", "listen">>
  <2>1. did = {"open", "setReuseAddr", "setTcpNoDelay", "bind", "listen"}
    BY <1>2, <1>7
  <2> QED BY <1>7, <2>1 DEF StateAfter, OptsAfter, Promised, did
<1>8. CASE op = "passiveOpenNonblock" /\
           Steps[op] = <<"open", "setReuseAddr", "setTcpNoDelay", "bind", "listen", "setNonblock">>
  <2>1. did = {"open", "setReuseAddr", "setTcpNoDelay", "bind", "listen", "setNonblock"}
    BY <1>2, <1>8
  <2> QED BY <1>8, <2>1 DEF StateAfter, OptsAfter, Promised, did
<1>9. CASE op = "acceptNonblock" /\ Steps[op] = <<"accept", "setTcpNoDelay", "setNonblock">>
  <2>1. did = {"accept", "setTcpNoDelay", "setNonblock"}
    BY <1>2, <1>9
  <2> QED BY <1>9, <2>1 DEF StateAfter, OptsAfter, Promised, did
<1> QED
  BY <1>1, <1>3, <1>4, <1>5, <1>6, <1>7, <1>8, <1>9, StepsWritten DEF Opens, Accepts

(* Where a call stands, as far as its list says.                           *)
LEMMA NextStep ==
  ASSUME call.op \in DOMAIN Steps, NEW k \in 1..Len(Steps[call.op]), IsAt(k)
  PROVE  /\ Step = Steps[call.op][k]
         /\ Tail(call.todo) = SubSeq(Steps[call.op], k + 1, Len(Steps[call.op]))
         /\ Tail(call.todo) = <<>> <=> k = Len(Steps[call.op])
<1> DEFINE s == Steps[call.op]
           n == Len(Steps[call.op])
<1>1. s \in Seq(StepNames) /\ n \in Nat \ {0} /\ k \in 1..n /\ n \in k..n /\ n = Len(s)
  BY StepsAreSequences
<1>2. call.todo = SubSeq(s, k, n)
  BY DEF IsAt
<1> HIDE DEF s, n
<1>3. Head(SubSeq(s, k, n)) = s[k] /\ Tail(SubSeq(s, k, n)) = SubSeq(s, k + 1, n)
  BY <1>1, HeadTailOfSubSeq
<1>4. k = n => SubSeq(s, k + 1, n) = <<>>
  BY <1>1, SubSeqEmpty
<1>5. k # n => SubSeq(s, k + 1, n) # <<>>
  <2>1. SUFFICES ASSUME k # n PROVE Len(SubSeq(s, k + 1, n)) # 0
    OBVIOUS
  <2>2. \A i \in (k + 1)..n : s[i] \in StepNames
    BY <1>1
  <2>3. k + 1 \in Int /\ n \in Int /\ k + 1 <= n
    BY <1>1, <2>1
  <2>4. Len(SubSeq(s, k + 1, n)) = n - (k + 1) + 1
    BY <2>2, <2>3, SubSeqProperties
  <2> QED BY <2>3, <2>4
<1> QED BY <1>2, <1>3, <1>4, <1>5 DEF Step, s, n

LEMMA DoneMovesOn ==
  ASSUME CallRecord, call.op \in DOMAIN Steps, NEW k \in 1..Len(Steps[call.op]), IsAt(k), Done
  PROVE  \/ k = Len(Steps[call.op]) /\ call' = Returned(TRUE)
         \/ /\ k < Len(Steps[call.op]) /\ call'.todo # <<>>
            /\ call'.op = call.op /\ call'.target = call.target /\ call'.family = call.family
            /\ IsAt(k + 1)'
<1>1. CASE Tail(call.todo) = <<>>
  BY <1>1, NextStep DEF Done
<1>2. CASE Tail(call.todo) # <<>>
  <2>1. call' = [call EXCEPT !.todo = Tail(call.todo)]
    BY <1>2 DEF Done
  <2>2. /\ call' = [op |-> call.op, self |-> call.self, target |-> call.target,
                    family |-> call.family, todo |-> Tail(call.todo), ok |-> call.ok]
    BY <2>1 DEF CallRecord
  <2>3. k # Len(Steps[call.op]) /\ k < Len(Steps[call.op])
    BY <1>2, NextStep, StepsAreSequences
  <2> QED BY <1>2, <2>2, <2>3, NextStep DEF IsAt
<1> QED BY <1>1, <1>2

(* A step that succeeds leaves the socket as its list has it by then.      *)
LEMMA SucceedsAsFar ==
  ASSUME call.op \in DOMAIN Steps, call.op \in Opens \cup Accepts,
         NEW k \in 1..Len(Steps[call.op]), IsAt(k), k > 1 => AsFarAs(k),
         Target \in Channels, DOMAIN fd = Channels,
         OpenSocket \/ StepSucceeds \/ AcceptSucceeds
  PROVE  /\ fd'[Target] \in DOMAIN files'
         /\ files'[fd'[Target]] =
              [family |-> IF call.op \in Opens THEN call.family ELSE files'[fd'[Target]].family,
               state |-> StateAfter(Did(call.op, k + 1)),
               opts |-> OptsAfter(Did(call.op, k + 1))]
<1>1. Step = Steps[call.op][k]
  BY NextStep
<1>2. Did(call.op, k + 1) = Did(call.op, k) \cup {Step}
  BY <1>1, DidNext
<1>3. CASE k = 1
  <2>1. Did(call.op, k + 1) = {Step}
    BY <1>2, <1>3, DidNext
  <2>2. (Step = "open" <=> call.op \in Opens) /\ (Step = "accept" <=> call.op \in Accepts)
    BY <1>1, <1>3, FirstSteps
  <2>3. StateAfter({"open"}) = "new" /\ OptsAfter({"open"}) = {"cloexec"}
    BY DEF StateAfter, OptsAfter
  <2>4. StateAfter({"accept"}) = "connected" /\ OptsAfter({"accept"}) = {"cloexec"}
    BY DEF StateAfter, OptsAfter
  <2>5. CASE OpenSocket
    <3>1. Step = "open" /\ fd'[Target] = LowestFree /\ LowestFree \in DOMAIN files'
          /\ files'[LowestFree] = NewSocket(call.family, "new")
      BY <2>5 DEF OpenSocket
    <3> QED BY <3>1, <2>1, <2>2, <2>3 DEF NewSocket
  <2>6. CASE AcceptSucceeds
    <3>1. Step = "accept" /\ fd'[Target] = LowestFree /\ LowestFree \in DOMAIN files'
          /\ files'[LowestFree] = NewSocket(files[fd[call.self]].family, "connected")
      BY <2>6 DEF AcceptSucceeds
    <3>2. call.op \notin Opens
      BY <3>1, <2>2 DEF Opens, Accepts
    <3> DEFINE new == files'[fd'[Target]]
    <3>3. new = [family |-> files[fd[call.self]].family, state |-> "connected",
                 opts |-> {"cloexec"}]
      BY <3>1 DEF NewSocket
    <3>4. new = [family |-> new.family, state |-> "connected", opts |-> {"cloexec"}]
      BY <3>3
    <3>5. fd'[Target] \in DOMAIN files'
      BY <3>1
    <3> HIDE DEF new
    <3>6. new = [family |-> IF call.op \in Opens THEN call.family ELSE new.family,
                 state |-> StateAfter(Did(call.op, k + 1)),
                 opts |-> OptsAfter(Did(call.op, k + 1))]
      BY <3>1, <3>2, <3>4, <2>1, <2>4
    <3> QED BY <3>5, <3>6 DEF new
  <2>7. ~ StepSucceeds
    BY <2>2 DEF StepSucceeds
  <2> QED BY <2>5, <2>6, <2>7
<1>4. CASE k > 1
  <2>1. k \in 2..Len(Steps[call.op])
    BY <1>4, StepsAreSequences
  <2>2. Step \notin {"open", "accept"} /\ Step \in StepNames
    BY <1>1, <2>1, FirstSteps, StepsAreSequences
  <2>3. StepSucceeds
    BY <2>2 DEF OpenSocket, AcceptSucceeds
  <2>4. AsFarAs(k)
    BY <1>4
  <2>5. /\ fd' = fd /\ DOMAIN files' = DOMAIN files
        /\ files'[fd[Target]] = Applied(Step)
    BY <2>3, <2>4 DEF StepSucceeds, AsFarAs, channelVars
  <2>6. /\ Step = "bind" => "listen" \notin Did(call.op, k)
        /\ Step = "connect" => "listen" \notin Did(call.op, k) /\ "bind" \notin Did(call.op, k)
    BY <1>1, <2>1, OrderOfSteps
  <2> DEFINE did == Did(call.op, k)
             family == IF call.op \in Opens THEN call.family ELSE File.family
  <2>7. File = [family |-> family, state |-> StateAfter(did), opts |-> OptsAfter(did)]
    BY <2>4 DEF AsFarAs
  <2>8. Applied(Step) = [family |-> family, state |-> StateAfter(did \cup {Step}),
                         opts |-> OptsAfter(did \cup {Step})]
    <3> HIDE DEF did, family
    <3>1. CASE Step = "setReuseAddr"
      BY <3>1, <2>7 DEF Applied, StateAfter, OptsAfter
    <3>2. CASE Step = "setTcpNoDelay"
      BY <3>2, <2>7 DEF Applied, StateAfter, OptsAfter
    <3>3. CASE Step = "setNonblock"
      BY <3>3, <2>7 DEF Applied, StateAfter, OptsAfter
    <3>4. CASE Step = "connect"
      BY <3>4, <2>6, <2>7 DEF Applied, StateAfter, OptsAfter, did
    <3>5. CASE Step = "bind"
      BY <3>5, <2>6, <2>7 DEF Applied, StateAfter, OptsAfter, did
    <3>6. CASE Step = "listen"
      BY <3>6, <2>7 DEF Applied, StateAfter, OptsAfter
    <3> QED BY <2>2, <3>1, <3>2, <3>3, <3>4, <3>5, <3>6 DEF StepNames
  <2> DEFINE new == files'[fd'[Target]]
  <2>9. new = [family |-> family, state |-> StateAfter(Did(call.op, k + 1)),
               opts |-> OptsAfter(Did(call.op, k + 1))]
    BY <1>2, <2>5, <2>8
  <2>10. new.family = family
    BY <2>9
  <2>11. fd'[Target] \in DOMAIN files'
    BY <2>4, <2>5 DEF AsFarAs
  <2>12. family = IF call.op \in Opens THEN call.family ELSE family
    OBVIOUS
  <2> HIDE DEF new, family, did
  <2>13. new = [family |-> IF call.op \in Opens THEN call.family ELSE new.family,
                state |-> StateAfter(Did(call.op, k + 1)),
                opts |-> OptsAfter(Did(call.op, k + 1))]
    BY <2>9, <2>10, <2>12
  <2> QED BY <2>11, <2>13 DEF new
<1> QED BY <1>3, <1>4, StepsAreSequences


-----------------------------------------------------------------------------
(* All that the calls keep, in any state.                                  *)
CallInv == CallRecord /\ DOMAIN fd = Channels /\ Progress

LEMMA OpensAreNotAccepts == Opens \cap Accepts = {} /\ Opens \subseteq DOMAIN Steps
BY DEF Steps, Opens, Accepts

LEMMA FdStaysTotal ==
  ASSUME DOMAIN fd = Channels, [Next]_vars PROVE DOMAIN fd' = Channels
<1>1. CASE fd' = fd
  BY <1>1
<1>2. ASSUME NEW c, NEW f, fd' = [fd EXCEPT ![c] = f] PROVE DOMAIN fd' = Channels
  BY <1>2
<1>3. ASSUME NEW c, NEW others, Closes(c, others) PROVE DOMAIN fd' = Channels
  BY <1>2, <1>3 DEF Closes
<1>4. CASE CallStep
  BY <1>1, <1>2, <1>3, <1>4
     DEF CallStep, OpenCloses, OpenSocket, OpenFails, StepSucceeds, StepFails,
         AcceptSucceeds, AcceptFails, AcceptCloses, channelVars
<1>5. CASE TcpNext
  <2>1. ASSUME NEW s, Close(s) \/ AttachSocket(s) \/ DetachSocket(s) PROVE DOMAIN fd' = Channels
    BY <1>1, <1>3, <2>1 DEF Close, AttachSocket, DetachSocket, Attach, Detach
  <2> QED
    BY <1>1, <1>4, <1>5, <2>1
       DEF TcpNext, Call, GetSocketAddress, AddressCall, channelVars, tcpVars
<1>6. CASE QueueNext
  BY <1>1, <1>2, <1>3, <1>6
     DEF QueueNext, CreateQueue, SetRecvSignalCallback, DestroyQueue, ReadBegins, ReadSignal,
         ReadEnds, channelVars
<1> QED
  BY <1>1, <1>5, <1>6 DEF Next, QueueStep, Push, vars, tcpVars, channelVars

(* A step of a call: it moves on in its list, or the call returns.         *)
LEMMA CallStepKeepsProgress ==
  ASSUME CallInv, OwnersInv, CallStep PROVE Progress'
<1>1. /\ call.op \in DOMAIN Steps /\ (call.op \notin Accepts => overwritten = {})
      /\ Target \in Channels /\ call.todo # <<>>
  BY SocketsAndPipe DEF CallInv, Progress, CallStep, OwnersInv, CallOfSockets, Target
<1>2. PICK k \in 1..Len(Steps[call.op]) : IsAt(k) /\ (k > 1 => AsFarAs(k))
  BY DEF CallInv, Progress, CallStep
<1>3. CASE OpenSocket \/ StepSucceeds \/ AcceptSucceeds
  <2>1. Done /\ (call.op \notin Accepts => overwritten' = {})
    <3>1. Step = Steps[call.op][k]
      BY <1>1, <1>2, NextStep
    <3>2. AcceptSucceeds => call.op \in Accepts
      <4>1. SUFFICES ASSUME AcceptSucceeds PROVE Step = "accept" => call.op \in Accepts
        BY DEF AcceptSucceeds
      <4>2. k = 1 \/ k \in 2..Len(Steps[call.op])
        BY <1>1, StepsAreSequences
      <4> QED BY <1>1, <3>1, <4>2, FirstSteps
    <3> QED BY <1>1, <1>3, <3>2 DEF OpenSocket, StepSucceeds, AcceptSucceeds
  <2>2. CASE call' = Returned(TRUE)
    BY <2>2 DEF Returned, Progress
  <2>3. CASE /\ k < Len(Steps[call.op]) /\ call'.todo # <<>>
             /\ call'.op = call.op /\ call'.target = call.target /\ call'.family = call.family
             /\ IsAt(k + 1)'
    <3>1. k + 1 \in 2..Len(Steps[call.op])
      BY <1>1, <2>3, StepsAreSequences
    <3>2. call.op \in Opens \cup Accepts
      BY <1>1, <3>1, FirstSteps
    <3>3. /\ fd'[Target] \in DOMAIN files'
          /\ files'[fd'[Target]] =
               [family |-> IF call.op \in Opens THEN call.family
                           ELSE files'[fd'[Target]].family,
                state |-> StateAfter(Did(call.op, k + 1)),
                opts |-> OptsAfter(Did(call.op, k + 1))]
      BY <1>1, <1>2, <1>3, <3>2, SucceedsAsFar DEF CallInv
    <3>4. Target' = Target
      BY <2>3 DEF Target
    <3>5. AsFarAs(k + 1)'
      BY <2>3, <3>3, <3>4 DEF AsFarAs, File
    <3> QED BY <1>1, <2>1, <2>3, <3>1, <3>5 DEF Progress
  <2> QED BY <1>1, <1>2, <2>1, <2>2, <2>3, DoneMovesOn DEF CallInv
<1>4. CASE OpenFails \/ StepFails \/ AcceptFails \/ AcceptCloses
  <2>1. call' = Returned(FALSE)
    BY <1>4 DEF OpenFails, StepFails, AcceptFails, AcceptCloses, Fails
  <2> QED BY <2>1 DEF Returned, Progress
<1>5. CASE OpenCloses
  <2>1. call' = call /\ overwritten' = overwritten
    BY <1>5 DEF OpenCloses
  <2>2. k = 1
    <3>1. Step = "open" /\ Step = Steps[call.op][k]
      BY <1>1, <1>2, <1>5, NextStep DEF OpenCloses
    <3>2. k \notin 2..Len(Steps[call.op])
      BY <1>1, <3>1, FirstSteps
    <3> QED BY <1>1, <3>2, StepsAreSequences
  <2>3. IsAt(1)' /\ 1 \in 1..Len(Steps[call.op])
    BY <1>1, <1>2, <2>1, <2>2, StepsAreSequences DEF IsAt
  <2> QED BY <1>1, <2>1, <2>3 DEF Progress
<1> QED BY <1>3, <1>4, <1>5 DEF CallStep

(* What leaves a call that goes on alone.                                  *)
LEMMA UnchangedKeepsProgress ==
  ASSUME CallInv, UNCHANGED <<call, overwritten>>,
         call.todo # <<>> => UNCHANGED <<fd, files>>
  PROVE  Progress'
<1>1. SUFFICES ASSUME call.todo # <<>> PROVE Progress'
  BY DEF Progress
<1>2. UNCHANGED <<fd, files>>
  BY <1>1
<1>3. PICK k \in 1..Len(Steps[call.op]) : IsAt(k) /\ (k > 1 => AsFarAs(k))
  BY <1>1 DEF CallInv, Progress
<1>4. IsAt(k)' /\ (k > 1 => AsFarAs(k)')
  BY <1>2, <1>3 DEF IsAt, AsFarAs, File, Target
<1> QED BY <1>1, <1>3, <1>4 DEF CallInv, Progress

LEMMA NextProgress ==
  ASSUME CallInv, OwnersInv, [Next]_vars PROVE Progress'
<1>1. ASSUME NEW op \in DOMAIN Steps, NEW self, NEW target, NEW family,
             Call(op, self, target, family)
      PROVE  Progress'
  <2>1. call'.todo = Steps[op] /\ call'.op = op /\ overwritten' = {}
    BY <1>1 DEF Call, Idle
  <2>2. SubSeq(Steps[op], 1, Len(Steps[op])) = Steps[op] /\ 1 \in 1..Len(Steps[op])
    BY StepsAreSequences, SubSeqFull
  <2>3. IsAt(1)'
    BY <2>1, <2>2 DEF IsAt
  <2> QED BY <2>1, <2>2, <2>3 DEF Progress
<1>2. ASSUME NEW ok, call' = Returned(ok) PROVE Progress'
  BY <1>2 DEF Returned, Progress
<1>3. CASE TcpNext
  <2>1. ASSUME NEW s, Close(s) \/ AttachSocket(s) \/ DetachSocket(s) PROVE Progress'
    BY <1>2, <2>1 DEF Close, AttachSocket, DetachSocket
  <2>2. ASSUME NEW s, NEW native, GetSocketAddress(s, native) PROVE Progress'
    BY <1>2, <2>2 DEF GetSocketAddress
  <2>3. CASE AddressCall
    BY <1>2, <2>3 DEF AddressCall
  <2>4. CASE overwritten # {} /\ UNCHANGED tcpVars
    BY <2>4, UnchangedKeepsProgress DEF tcpVars, channelVars, socketVars
  <2> QED BY <1>1, <1>3, <2>1, <2>2, <2>3, <2>4, CallStepKeepsProgress DEF TcpNext
<1>4. CASE QueueStep
  BY <1>4, UnchangedKeepsProgress DEF QueueStep, socketVars
<1>5. ASSUME NEW signum, Push(signum), UNCHANGED <<addressVars, socketVars>> PROVE Progress'
  BY <1>5, UnchangedKeepsProgress DEF Push, channelVars, socketVars
<1>6. CASE UNCHANGED vars
  BY <1>6, UnchangedKeepsProgress DEF vars, tcpVars, channelVars, socketVars
<1> QED BY <1>3, <1>4, <1>5, <1>6 DEF Next

(* What a call returns with.                                               *)
LEMMA CallStepKeepsThePromise ==
  ASSUME CallInv, OwnersInv, CallStep, call'.todo = <<>>
  PROVE  KeepsPromise
<1>1. /\ call.op \in DOMAIN Steps /\ (call.op \notin Accepts => overwritten = {})
      /\ Target \in Channels /\ call.todo # <<>>
  BY SocketsAndPipe DEF CallInv, Progress, CallStep, OwnersInv, CallOfSockets, Target
<1>2. PICK k \in 1..Len(Steps[call.op]) : IsAt(k) /\ (k > 1 => AsFarAs(k))
  BY DEF CallInv, Progress, CallStep
<1>3. k = 1 \/ k \in 2..Len(Steps[call.op])
  BY <1>1, StepsAreSequences
<1>4. Step = Steps[call.op][k]
  BY <1>1, <1>2, NextStep
<1>5. CASE OpenSocket \/ StepSucceeds \/ AcceptSucceeds
  <2>1. Done
    BY <1>5 DEF OpenSocket, StepSucceeds, AcceptSucceeds
  <2>2. k = Len(Steps[call.op]) /\ call' = Returned(TRUE)
    BY <1>1, <1>2, <2>1, DoneMovesOn DEF CallInv
  <2>3. call'.ok = TRUE
    BY <2>2 DEF Returned
  <2>4. ASSUME call.op \in Opens \cup Accepts
        PROVE  LET file == files'[fd'[Target]] IN
               /\ file.state = Promised(call.op).state /\ file.opts = Promised(call.op).opts
               /\ call.op \in Opens => file.family = call.family
    <3>1. files'[fd'[Target]] =
            [family |-> IF call.op \in Opens THEN call.family ELSE files'[fd'[Target]].family,
             state |-> StateAfter(Did(call.op, k + 1)),
             opts |-> OptsAfter(Did(call.op, k + 1))]
      BY <1>1, <1>2, <1>5, <2>4, SucceedsAsFar DEF CallInv
    <3>2. /\ StateAfter(Did(call.op, k + 1)) = Promised(call.op).state
          /\ OptsAfter(Did(call.op, k + 1)) = Promised(call.op).opts
      BY <2>2, <2>4, AllStepsKeepThePromise
    <3> QED BY <3>1, <3>2
  <2> QED BY <2>3, <2>4 DEF KeepsPromise
<1>6. CASE OpenFails \/ StepFails \/ AcceptFails \/ AcceptCloses
  <2>1. call'.ok = FALSE
    BY <1>6 DEF OpenFails, StepFails, AcceptFails, AcceptCloses, Fails, Returned
  <2>2. ASSUME call.op \in Opens PROVE fd'[Target] = NoFd
    <3>1. Owned
      BY <1>1, <2>2, OpensAreNotAccepts DEF OwnersInv
    <3>2. CASE OpenFails
      BY <1>1, <3>1, <3>2 DEF OpenFails, channelVars, IsOpen, Owned, HeldOnce, Held
    <3>3. CASE StepFails
      <4>1. k \in 2..Len(Steps[call.op])
        BY <1>1, <1>3, <1>4, <2>2, <3>3, FirstSteps DEF StepFails
      <4>2. call.op # "open"
        BY <1>1, <4>1, FirstSteps
      <4>3. ClosesOnFailure
        BY <2>2, <4>2 DEF Opens, ClosesOnFailure
      <4> QED BY <1>1, <3>3, <4>3 DEF StepFails, Closes, CallInv
    <3>4. CASE AcceptFails \/ AcceptCloses
      <4>1. Step = "accept"
        BY <3>4 DEF AcceptFails, AcceptCloses
      <4> QED BY <1>1, <1>3, <1>4, <2>2, <4>1, FirstSteps, OpensAreNotAccepts
    <3> QED BY <1>6, <3>2, <3>3, <3>4
  <2>3. ASSUME call.op \in Accepts, Step # "accept" PROVE fd'[Target] = NoFd
    <3>1. k \in 2..Len(Steps[call.op])
      BY <1>1, <1>3, <1>4, <2>3, FirstSteps
    <3>2. StepFails
      BY <1>1, <1>4, <1>6, <3>1, FirstSteps DEF OpenFails, AcceptFails, AcceptCloses
    <3>3. ClosesOnFailure
      BY <1>1, <2>3, <3>1, FirstSteps DEF Accepts, ClosesOnFailure
    <3> QED BY <1>1, <3>2, <3>3 DEF StepFails, Closes, CallInv
  <2> QED BY <2>1, <2>2, <2>3 DEF KeepsPromise
<1>7. CASE OpenCloses
  BY <1>1, <1>7 DEF OpenCloses
<1> QED BY <1>5, <1>6, <1>7 DEF CallStep, KeepsPromise

LEMMA InitCallInv == Init => CallInv
BY DEF Init, TcpInit, Returned, CallInv, CallRecord, Progress

(* Whichever step of a call that opens or accepts fails after the socket   *)
(* is there, the socket is closed when the call returns, and one that      *)
(* succeeds gave it all it promises: no half-made socket is handed back    *)
(* (tcp_socket.cc:209-286).                                                *)
THEOREM OpensCorrect == Spec => OpensAllOrNothing
<1>1. Init => CallInv /\ OwnersInv
  BY InitCallInv, InitOwners
<1>2. CallInv /\ OwnersInv /\ [Next]_vars => CallInv' /\ OwnersInv'
  BY NextOwners, NextProgress, FdStaysTotal DEF CallInv
<1>3. CallInv /\ OwnersInv /\ [Next]_vars => [KeepsPromise]_tcpVars
  <2>1. SUFFICES ASSUME CallInv, OwnersInv PROVE KeepsPromise
    OBVIOUS
  <2> QED BY <2>1, CallStepKeepsThePromise DEF KeepsPromise
<1> QED BY <1>1, <1>2, <1>3, PTL DEF Spec, OpensAllOrNothing
=============================================================================
