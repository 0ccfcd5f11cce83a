-------------------------- MODULE LoopServiceProofs --------------------------
(***************************************************************************)
(* The loop of net/loop_service.cc and the times it works with, for any    *)
(* channels, descriptors, timers and readings of the clock.                *)
(*                                                                         *)
(* First the arithmetic of Timestamp, for every time and every delay (the  *)
(* leaves on integer division name SMT, the backend that knows it).  Then  *)
(* the channels: the kernel polls exactly those that are attached, and the *)
(* loop calls none for an event of a registration that is gone.  Last the  *)
(* timers: the loop sleeps until one is due, and not less.                 *)
(***************************************************************************)
EXTENDS LoopService, FiniteSetTheorems, SequenceTheorems, TLAPS

-----------------------------------------------------------------------------
(* Timestamp.                                                              *)

(* The milliseconds in the nanoseconds of a second.                        *)
LEMMA MillisecondRange ==
  ASSUME NEW n \in Nat, n < NsPerSecond
  PROVE  /\ n \div NsPerMs \in Nat /\ n \div NsPerMs < 1000
         /\ n % NsPerMs \in Nat /\ n % NsPerMs < NsPerMs
         /\ n = (n \div NsPerMs) * NsPerMs + (n % NsPerMs)
  BY SMT DEF NsPerSecond, NsPerMs

(* A delay is its whole seconds and its milliseconds.                      *)
LEMMA DelaySplit ==
  ASSUME NEW ms \in Nat
  PROVE  /\ Quotient(ms, 1000) \in Nat
         /\ Remainder(ms, 1000) \in Nat /\ Remainder(ms, 1000) < 1000
         /\ ms = Quotient(ms, 1000) * 1000 + Remainder(ms, 1000)
  BY SMT DEF Quotient, Remainder

(* The nanoseconds of a sum that needs no carry.                           *)
LEMMA NoCarry ==
  ASSUME NEW n \in Nat, NEW r \in Nat, n < NsPerSecond, r < 1000,
         ~ n + r * NsPerMs >= NsPerSecond
  PROVE  /\ n + r * NsPerMs \in Nat /\ n + r * NsPerMs < NsPerSecond
         /\ (n + r * NsPerMs) \div NsPerMs = n \div NsPerMs + r
         /\ (n + r * NsPerMs) % NsPerMs = n % NsPerMs
  BY SMT DEF NsPerSecond, NsPerMs

(* getMillisecond() of a normalised timestamp.                             *)
LEMMA GetMillisecond ==
  ASSUME NEW t, Normalised(t)
  PROVE  /\ getMillisecond(t) = t.nanosecond \div NsPerMs
         /\ getMillisecond(t) \in Nat /\ getMillisecond(t) < 1000
         /\ Milliseconds(t) = t.second * 1000 + getMillisecond(t)
<1>1. t.nanosecond \in Nat /\ t.nanosecond < NsPerSecond
  BY DEF Normalised
<1>2. getMillisecond(t) = t.nanosecond \div NsPerMs
  BY <1>1, SMT DEF getMillisecond, Quotient
<1> QED
  BY <1>1, <1>2, MillisecondRange, SMT DEF Milliseconds

(* The two outcomes of the carry.                                          *)
LEMMA CarriedCases ==
  ASSUME NEW a \in Nat, NEW b \in Nat
  PROVE  /\ b >= NsPerSecond =>
              Carried(a, b) = [second |-> a + 1, nanosecond |-> b - NsPerSecond]
         /\ ~ b >= NsPerSecond => Carried(a, b) = [second |-> a, nanosecond |-> b]
  BY DEF Carried

-----------------------------------------------------------------------------
(* operator+=: the sum is carried and exact (timestamp.cc:30-56).          *)
THEOREM PlusExact ==
  ASSUME NEW t, Normalised(t), NEW ms \in Nat
  PROVE  /\ Normalised(Plus(t, ms))
         /\ Milliseconds(Plus(t, ms)) = Milliseconds(t) + ms
         /\ Plus(t, ms).nanosecond % NsPerMs = t.nanosecond % NsPerMs
<1> DEFINE q == Quotient(ms, 1000)
           r == Remainder(ms, 1000)
           n == t.nanosecond
           s == t.second
<1>1. q \in Nat /\ r \in Nat /\ r < 1000 /\ ms = q * 1000 + r
  BY DelaySplit
<1>2. s \in Nat /\ n \in Nat /\ n < NsPerSecond
  BY DEF Normalised
<1>3. Plus(t, ms) = Carried(s + q, n + r * NsPerMs)
  BY DEF Plus
<1>4. Milliseconds(t) = s * 1000 + n \div NsPerMs
  BY DEF Milliseconds
<1>5. n \div NsPerMs \in Nat
  BY <1>2, MillisecondRange
<1> HIDE DEF q, r, n, s
<1> DEFINE sum == n + r * NsPerMs
           sec == s + q
<1>7. sum \in Nat /\ sec \in Nat
  BY <1>1, <1>2 DEF NsPerMs
<1>8. CASE sum >= NsPerSecond
  <2> DEFINE m == sum - NsPerSecond
  <2>1. /\ m \in Nat /\ m < NsPerSecond
        /\ m \div NsPerMs = n \div NsPerMs + r - 1000
        /\ m % NsPerMs = n % NsPerMs
    BY <1>1, <1>2, <1>8, SMT DEF NsPerSecond, NsPerMs
  <2>2. Plus(t, ms) = [second |-> sec + 1, nanosecond |-> m]
    <3> HIDE DEF sum, sec
    <3> QED
      BY <1>3, <1>7, <1>8, CarriedCases DEF sum, sec
  <2>3. sec \in Nat /\ sec = s + q
    BY <1>7
  <2> HIDE DEF m, sec
  <2>4. Milliseconds(Plus(t, ms)) = (sec + 1) * 1000 + m \div NsPerMs
    BY <2>2 DEF Milliseconds
  <2>5. Milliseconds(Plus(t, ms)) = Milliseconds(t) + ms
    BY <1>1, <1>2, <1>4, <1>5, <2>1, <2>3, <2>4, SMT
  <2> QED
    BY <2>1, <2>2, <2>3, <2>5 DEF Normalised, n
<1>9. CASE ~ sum >= NsPerSecond
  <2>1. /\ sum < NsPerSecond
        /\ sum \div NsPerMs = n \div NsPerMs + r
        /\ sum % NsPerMs = n % NsPerMs
    BY <1>1, <1>2, <1>9, NoCarry
  <2>2. Plus(t, ms) = [second |-> sec, nanosecond |-> sum]
    BY <1>3, <1>7, <1>9, CarriedCases
  <2>3. sec = s + q
    OBVIOUS
  <2> HIDE DEF sum, sec
  <2>4. Milliseconds(Plus(t, ms)) = sec * 1000 + sum \div NsPerMs
    BY <2>2 DEF Milliseconds
  <2>5. Milliseconds(Plus(t, ms)) = Milliseconds(t) + ms
    BY <1>1, <1>2, <1>4, <1>5, <2>1, <2>3, <2>4, SMT
  <2> QED
    BY <1>7, <2>1, <2>2, <2>5 DEF Normalised, n
<1> QED
  BY <1>8, <1>9

(* millisecondLess and millisecondEqual compare the points on the time     *)
(* line of whole milliseconds, and operator< refines the first             *)
(* (timestamp.cc:42-70).                                                   *)
THEOREM ComparisonsMeanTime ==
  ASSUME NEW t, Normalised(t), NEW u, Normalised(u)
  PROVE  /\ MillisecondLess(t, u) <=> Milliseconds(t) < Milliseconds(u)
         /\ MillisecondEqual(t, u) <=> Milliseconds(t) = Milliseconds(u)
         /\ MillisecondLess(t, u) => Less(t, u)
<1> DEFINE mt == getMillisecond(t)
           mu == getMillisecond(u)
<1>1. /\ t.second \in Nat /\ u.second \in Nat
      /\ t.nanosecond \in Nat /\ u.nanosecond \in Nat
  BY DEF Normalised
<1>2. /\ mt \in Nat /\ mt < 1000 /\ Milliseconds(t) = t.second * 1000 + mt
      /\ mu \in Nat /\ mu < 1000 /\ Milliseconds(u) = u.second * 1000 + mu
      /\ mt = t.nanosecond \div NsPerMs /\ mu = u.nanosecond \div NsPerMs
  BY GetMillisecond
<1>3. mt < mu => t.nanosecond < u.nanosecond
  BY <1>1, <1>2, SMT DEF NsPerMs
<1>4. MillisecondLess(t, u) <=> IF t.second # u.second THEN t.second < u.second ELSE mt < mu
  BY DEF MillisecondLess
<1>5. MillisecondEqual(t, u) <=> t.second = u.second /\ mt = mu
  BY DEF MillisecondEqual
<1> HIDE DEF mt, mu
<1>6. MillisecondLess(t, u) <=> Milliseconds(t) < Milliseconds(u)
  BY <1>1, <1>2, <1>4, SMT
<1>7. MillisecondEqual(t, u) <=> Milliseconds(t) = Milliseconds(u)
  BY <1>1, <1>2, <1>5, SMT
<1> QED
  BY <1>1, <1>3, <1>4, <1>6, <1>7 DEF Less

(* The distance is the one on the time line (timestamp.cc:80-95).          *)
THEOREM DistanceExact ==
  ASSUME NEW t, Normalised(t), NEW u, Normalised(u), ~ Less(u, t)
  PROVE  /\ DistanceMillisecond(t, u) = Milliseconds(u) - Milliseconds(t)
         /\ DistanceMillisecond(t, u) \in Nat
<1>1. ~ MillisecondLess(u, t) /\ ~ (Milliseconds(u) < Milliseconds(t))
  BY ComparisonsMeanTime
<1>2. /\ t.second \in Nat /\ u.second \in Nat
      /\ getMillisecond(t) \in Nat /\ Milliseconds(t) = t.second * 1000 + getMillisecond(t)
      /\ getMillisecond(u) \in Nat /\ Milliseconds(u) = u.second * 1000 + getMillisecond(u)
  BY GetMillisecond DEF Normalised
<1>3. CASE Less(t, u)
  BY <1>1, <1>2, <1>3, SMT DEF DistanceMillisecond
<1>4. CASE ~ Less(t, u)
  <2>1. t.second = u.second /\ t.nanosecond = u.nanosecond
    BY <1>4 DEF Less, Normalised
  <2>2. getMillisecond(t) = getMillisecond(u)
    BY <2>1 DEF getMillisecond
  <2> QED
    BY <1>2, <1>4, <2>1, <2>2, SMT DEF DistanceMillisecond
<1> QED
  BY <1>3, <1>4

-----------------------------------------------------------------------------
(* A thread that sleeps for getNextTimeoutMillisecond(), and no longer,    *)
(* finds its timer due: it does not wake early and spin (timestamp.cc:80-95*)
(* with timer_heap.cc:105-121 and 177).                                    *)
THEOREM WakesWhenDue ==
  ASSUME NEW now, Normalised(now), NEW deadline, Normalised(deadline)
  PROVE  /\ NextTimeout(now, deadline) \in Nat
         /\ Normalised(Plus(now, NextTimeout(now, deadline)))
         /\ ~ MillisecondLess(Plus(now, NextTimeout(now, deadline)), deadline)
<1> DEFINE wait == NextTimeout(now, deadline)
<1>1. Milliseconds(now) \in Int /\ Milliseconds(deadline) \in Int
  BY GetMillisecond DEF Normalised
<1>2. wait \in Nat /\ ~ (Milliseconds(now) + wait < Milliseconds(deadline))
  <2>1. CASE Less(deadline, now)
    <3>1. wait = 0 /\ ~ Less(now, deadline)
      BY <2>1 DEF NextTimeout, Less, Normalised
    <3>2. ~ (Milliseconds(now) < Milliseconds(deadline))
      BY <3>1, ComparisonsMeanTime
    <3> QED
      BY <1>1, <3>1, <3>2
  <2>2. CASE ~ Less(deadline, now)
    BY <1>1, <2>2, DistanceExact DEF NextTimeout
  <2> QED
    BY <2>1, <2>2
<1> HIDE DEF wait
<1>3. Normalised(Plus(now, wait)) /\ Milliseconds(Plus(now, wait)) = Milliseconds(now) + wait
  BY <1>2, PlusExact
<1>4. ~ MillisecondLess(Plus(now, wait), deadline)
  BY <1>2, <1>3, ComparisonsMeanTime
<1> QED
  BY <1>2, <1>3, <1>4 DEF wait

-----------------------------------------------------------------------------
(* The epoll instance.                                                     *)
ChannelInv == ChannelTypeOK /\ RegistrationsMatch

(* Taking a channel out of the epoll instance leaves the registrations of  *)
(* the others as they are (removeIOChannel, loop_service.cc:105-116).      *)
LEMMA WithoutFacts ==
  ASSUME ChannelInv, NEW c \in Channels
  PROVE  /\ DOMAIN InterestWithout(c) \subseteq DOMAIN interest
         /\ \A f \in DOMAIN InterestWithout(c) :
              InterestWithout(c)[f] = interest[f] /\ interest[f].ptr # c
         /\ \A d \in attached \ {c} : fd[d] \in DOMAIN InterestWithout(c)
<1>1. CASE c \in attached
  <2>1. InterestWithout(c) = [g \in DOMAIN interest \ {fd[c]} |-> interest[g]]
    BY <1>1 DEF InterestWithout, Unregistered
  <2>2. \A d \in attached \ {c} : fd[d] # fd[c]
    BY <1>1 DEF ChannelInv, RegistrationsMatch
  <2> QED BY <2>1, <2>2, <1>1 DEF ChannelInv, RegistrationsMatch
<1>2. CASE c \notin attached
  BY <1>2 DEF InterestWithout, ChannelInv, RegistrationsMatch
<1> QED BY <1>1, <1>2

(* What an operation on channel c must leave alone: the other attached     *)
(* channels stay attached, with the report of their registration.          *)
Kept(S) ==
  \A d \in S : d \in attached' /\ fd'[d] = fd[d]
               /\ interest'[fd[d]].reported = interest[fd[d]].reported

LEMMA NewChannelKeeps ==
  ASSUME ChannelInv, NEW c \in Channels, NewChannel(c)
  PROVE  ChannelInv' /\ Kept(attached)
<1>1. c \notin attached
  BY DEF NewChannel, ChannelInv, ChannelTypeOK
<1>2. \A d \in attached : fd'[d] = fd[d] /\ on'[d] = on[d]
  BY <1>1 DEF NewChannel, ChannelInv, ChannelTypeOK
<1>3. ChannelTypeOK'
  BY DEF NewChannel, ChannelInv, ChannelTypeOK
<1>4. RegistrationsMatch'
  BY <1>2 DEF NewChannel, ChannelInv, RegistrationsMatch
<1> QED BY <1>2, <1>3, <1>4 DEF ChannelInv, Kept, NewChannel

LEMMA SetDescriptorKeeps ==
  ASSUME ChannelInv, NEW c \in Channels, NEW f \in Fds, SetDescriptor(c, f)
  PROVE  ChannelInv' /\ Kept(attached)
<1>2. \A d \in attached : fd'[d] = fd[d]
  BY DEF SetDescriptor, ChannelInv, ChannelTypeOK
<1>3. ChannelTypeOK'
  BY DEF SetDescriptor, ChannelInv, ChannelTypeOK
<1>4. RegistrationsMatch'
  BY <1>2 DEF SetDescriptor, ChannelInv, RegistrationsMatch
<1> QED BY <1>2, <1>3, <1>4 DEF ChannelInv, Kept, SetDescriptor

(* attachLoopService() replaces the registration of its channel.           *)
LEMMA AttachKeeps ==
  ASSUME ChannelInv, NEW c \in Channels, Attach(c)
  PROVE  ChannelInv' /\ Kept(attached \ {c})
<1> DEFINE W == InterestWithout(c)
           R == [ptr |-> c, events |-> on[c] \cap Polled, reported |-> FALSE]
<1>1. /\ attached' = attached \cup {c} /\ UNCHANGED <<alive, fd, on>>
      /\ c \in alive /\ fd[c] \in Fds /\ fd[c] \notin DOMAIN W
  BY DEF Attach
<1>2. interest' = [f \in DOMAIN W \cup {fd[c]} |-> IF f = fd[c] THEN R ELSE W[f]]
  BY DEF Attach, Registered
<1>3. /\ DOMAIN W \subseteq DOMAIN interest
      /\ \A f \in DOMAIN W : W[f] = interest[f] /\ interest[f].ptr # c
      /\ \A d \in attached \ {c} : fd[d] \in DOMAIN W
  BY WithoutFacts
<1> HIDE DEF W
<1>4. /\ DOMAIN interest' = DOMAIN W \cup {fd[c]}
      /\ interest'[fd[c]] = R
      /\ \A f \in DOMAIN W : interest'[f] = interest[f]
  BY <1>1, <1>2, <1>3
<1>5. ChannelTypeOK'
  <2>1. R \in Registration
    BY DEF ChannelInv, ChannelTypeOK, Registration, Polled
  <2> HIDE DEF R
  <2> QED BY <1>1, <1>3, <1>4, <2>1 DEF ChannelInv, ChannelTypeOK, Registration, Polled
<1>6. RegistrationsMatch'
  <2>1. \A d \in attached' :
          /\ fd[d] \in DOMAIN interest'
          /\ interest'[fd[d]].ptr = d
          /\ interest'[fd[d]].events = on[d] \cap Polled
    BY <1>1, <1>3, <1>4 DEF ChannelInv, RegistrationsMatch
  <2>2. \A f \in DOMAIN interest' :
          interest'[f].ptr \in attached' /\ fd[interest'[f].ptr] = f
    BY <1>1, <1>3, <1>4 DEF ChannelInv, RegistrationsMatch
  <2> QED BY <1>1, <2>1, <2>2 DEF RegistrationsMatch
<1> QED BY <1>1, <1>3, <1>4, <1>5, <1>6 DEF ChannelInv, Kept

(* A channel is taken off the loop: detachLoopService(), a failed attach,  *)
(* or the destructor, which alone changes alive, fd and on.                *)
LEMMA RemovalKeeps ==
  ASSUME ChannelInv, NEW c \in Channels,
         attached' = attached \ {c}, interest' = InterestWithout(c),
         \/ UNCHANGED <<alive, fd, on>>
         \/ /\ alive' = alive \ {c}
            /\ fd' = [fd EXCEPT ![c] = NoFd]
            /\ on' = [on EXCEPT ![c] = {}]
  PROVE  ChannelInv' /\ Kept(attached \ {c})
<1> DEFINE W == InterestWithout(c)
<1>1. /\ DOMAIN W \subseteq DOMAIN interest
      /\ \A f \in DOMAIN W : W[f] = interest[f] /\ interest[f].ptr # c
      /\ \A d \in attached \ {c} : fd[d] \in DOMAIN W
  BY WithoutFacts
<1>2. interest' = W
  OBVIOUS
<1> HIDE DEF W
<1>3. \A d \in attached \ {c} : fd'[d] = fd[d] /\ on'[d] = on[d]
  BY DEF ChannelInv, ChannelTypeOK
<1>4. ChannelTypeOK'
  BY <1>1, <1>2 DEF ChannelInv, ChannelTypeOK
<1>5. RegistrationsMatch'
  BY <1>1, <1>2, <1>3 DEF ChannelInv, RegistrationsMatch
<1> QED BY <1>1, <1>2, <1>3, <1>4, <1>5 DEF ChannelInv, Kept

LEMMA SetCallbackKeeps ==
  ASSUME ChannelInv, NEW c \in Channels, NEW kind \in Kinds, SetCallback(c, kind)
  PROVE  ChannelInv' /\ Kept(attached)
<1>1. /\ UNCHANGED <<alive, fd, attached>>
      /\ on' \in [Channels -> SUBSET Kinds]
      /\ \A d \in Channels \ {c} : on'[d] = on[d]
      /\ kind \notin Polled => on'[c] \cap Polled = on[c] \cap Polled
  BY DEF SetCallback, ChannelInv, ChannelTypeOK
<1>2. CASE c \in attached /\ kind \in Polled
  <2>1. /\ fd[c] \in DOMAIN interest
        /\ \A d \in attached \ {c} : fd[d] # fd[c]
    BY <1>2 DEF ChannelInv, RegistrationsMatch
  <2>2. interest' = [interest EXCEPT ![fd[c]].ptr = c, ![fd[c]].events = on'[c] \cap Polled]
    BY <1>2, <2>1 DEF SetCallback
  <2>3. interest[fd[c]] \in Registration
    BY <2>1 DEF ChannelInv, ChannelTypeOK
  <2>4. /\ DOMAIN interest' = DOMAIN interest
        /\ \A f \in DOMAIN interest \ {fd[c]} : interest'[f] = interest[f]
        /\ interest'[fd[c]] \in Registration
        /\ interest'[fd[c]].ptr = c
        /\ interest'[fd[c]].events = on'[c] \cap Polled
        /\ interest'[fd[c]].reported = interest[fd[c]].reported
    BY <1>1, <2>1, <2>2, <2>3 DEF Registration, Polled
  <2>5. ChannelTypeOK'
    BY <1>1, <2>4 DEF ChannelInv, ChannelTypeOK, Registration
  <2>6. RegistrationsMatch'
    BY <1>1, <1>2, <2>1, <2>4 DEF ChannelInv, ChannelTypeOK, RegistrationsMatch
  <2> QED BY <1>1, <2>1, <2>4, <2>5, <2>6 DEF ChannelInv, ChannelTypeOK, Kept, RegistrationsMatch
<1>3. CASE ~(c \in attached /\ kind \in Polled)
  <2>1. interest' = interest
    BY <1>3 DEF SetCallback
  <2>2. \A d \in attached : on'[d] \cap Polled = on[d] \cap Polled
    BY <1>1, <1>3 DEF ChannelInv, ChannelTypeOK
  <2> QED BY <1>1, <2>1, <2>2 DEF ChannelInv, ChannelTypeOK, RegistrationsMatch, Kept, Registration
<1> QED BY <1>2, <1>3

LEMMA ChannelInvStays == ASSUME ChannelInv, UNCHANGED channelVars PROVE ChannelInv'
BY DEF ChannelInv, ChannelTypeOK, RegistrationsMatch, channelVars, Registration

(* What reported says of the registrations does not matter to the kernel.  *)
LEMMA ReportKeeps ==
  ASSUME ChannelInv, UNCHANGED <<alive, fd, on, attached>>, NEW reports \in [Fds -> BOOLEAN],
         interest' = [f \in DOMAIN interest |-> [interest[f] EXCEPT !.reported = reports[f]]]
  PROVE  /\ ChannelInv'
         /\ \A f \in DOMAIN interest : interest'[f].reported = reports[f]
<1>1. \A f \in DOMAIN interest :
        /\ reports[f] \in BOOLEAN
        /\ interest[f] \in [ptr : Channels, events : SUBSET Polled, reported : BOOLEAN]
  BY Zenon DEF ChannelInv, ChannelTypeOK, Registration
<1>2. DOMAIN interest' = DOMAIN interest
  OBVIOUS
<1>3. \A f \in DOMAIN interest :
        /\ interest'[f].ptr = interest[f].ptr
        /\ interest'[f].events = interest[f].events
        /\ interest'[f].reported = reports[f]
        /\ interest'[f] \in Registration
  BY <1>1 DEF Registration
<1>4. ChannelTypeOK'
  BY <1>2, <1>3 DEF ChannelInv, ChannelTypeOK, Registration
<1>5. RegistrationsMatch'
  BY <1>2, <1>3 DEF ChannelInv, RegistrationsMatch
<1> QED BY <1>3, <1>4, <1>5 DEF ChannelInv

-----------------------------------------------------------------------------
(* The events of a batch.                                                  *)

EventSet == [ptr : Channels, kinds : SUBSET {"write", "read", "error"}]

Current(c) == c \in attached /\ interest[fd[c]].reported

(* Each event that is still to come is of a registration that was reported *)
(* and is still there, or its channel is among the removed ones.           *)
BatchCurrent ==
  \A i \in DOMAIN batch : batch[i].ptr \in removed \/ Current(batch[i].ptr)

BatchInv ==
  /\ batch \in Seq(EventSet)
  /\ batch # <<>> => mode \in {"dispatch", "callback"}
  /\ BatchCurrent

IInv == ChannelInv /\ BatchInv

(* A call on a channel leaves every other event as it is, and takes none of*)
(* its own channel for current that is not (loop_service.cc:82-116).       *)
LEMMA ChannelCallKeeps ==
  ASSUME IInv, NEW c \in Channels, ChannelCall(c)
  PROVE  IInv'
<1>1. UNCHANGED <<mode, batch>>
  BY DEF ChannelCall, roundVars
<1>2. ASSUME ChannelInv', UNCHANGED removed, Kept(attached) PROVE IInv'
  BY <1>1, <1>2 DEF IInv, BatchInv, BatchCurrent, Current, Kept
<1>3. ASSUME ChannelInv', removed' = RemovedWith(c), Kept(attached \ {c}) PROVE IInv'
  <2>1. c \in attached => c \in removed'
    BY <1>3 DEF IInv, ChannelInv, RegistrationsMatch, RemovedWith
  <2>2. removed \subseteq removed'
    BY <1>3 DEF RemovedWith
  <2>3. BatchCurrent'
    BY <1>1, <1>3, <2>1, <2>2 DEF IInv, BatchInv, BatchCurrent, Current, Kept
  <2> QED BY <1>1, <1>3, <2>3 DEF IInv, BatchInv
<1>4. CASE NewChannel(c) /\ UNCHANGED removed
  BY <1>2, <1>4, NewChannelKeeps DEF IInv
<1>5. CASE (\E f \in Fds : SetDescriptor(c, f)) /\ UNCHANGED removed
  BY <1>2, <1>5, SetDescriptorKeeps DEF IInv
<1>6. CASE (\E kind \in Kinds : SetCallback(c, kind)) /\ UNCHANGED removed
  BY <1>2, <1>6, SetCallbackKeeps DEF IInv
<1>7. CASE Attaches(c)
  BY <1>3, <1>7, AttachKeeps DEF IInv, Attaches
<1>8. CASE (AttachFails(c) \/ Detach(c) \/ DeleteChannel(c)) /\ removed' = RemovedWith(c)
  <2>1. /\ attached' = attached \ {c} /\ interest' = InterestWithout(c)
        /\ \/ UNCHANGED <<alive, fd, on>>
           \/ /\ alive' = alive \ {c}
              /\ fd' = [fd EXCEPT ![c] = NoFd]
              /\ on' = [on EXCEPT ![c] = {}]
    BY <1>8 DEF AttachFails, Detach, DeleteChannel
  <2> QED BY <1>3, <1>8, <2>1, RemovalKeeps DEF IInv
<1> QED BY <1>4, <1>5, <1>6, <1>7, <1>8 DEF ChannelCall

LEMMA QuietKeeps ==
  ASSUME IInv, UNCHANGED <<channelVars, removed, batch>>,
         batch # <<>> => mode' \in {"dispatch", "callback"}
  PROVE  IInv'
BY ChannelInvStays DEF IInv, BatchInv, BatchCurrent, Current, channelVars

(* What epoll_wait() reports is of channels that are attached.             *)
LEMMA WaitReportsKeeps == ASSUME IInv, WaitReports PROVE IInv'
<1>1. PICK fs \in (SUBSET Reportable) \ {{}} :
        /\ \E order \in [1..Cardinality(fs) -> fs] :
             batch' = [i \in DOMAIN order |->
                         [ptr |-> interest[order[i]].ptr, kinds |-> Events(order[i])]]
        /\ interest' = [f \in DOMAIN interest |-> [interest[f] EXCEPT !.reported = f \in fs]]
  BY DEF WaitReports
<1>2. PICK order \in [1..Cardinality(fs) -> fs] :
        batch' = [i \in DOMAIN order |->
                    [ptr |-> interest[order[i]].ptr, kinds |-> Events(order[i])]]
  BY <1>1
<1>3. /\ UNCHANGED <<alive, fd, on, attached, removed>>
      /\ mode' = "dispatch"
  BY DEF WaitReports
<1>4. fs \subseteq DOMAIN interest /\ IsFiniteSet(fs) /\ Cardinality(fs) \in Nat
  <2>1. fs \subseteq DOMAIN interest /\ fs \subseteq Fds
    BY DEF Reportable, IInv, ChannelInv, ChannelTypeOK
  <2> QED BY <2>1, FdsAssumption, FS_Subset, FS_CardinalityType
<1>5. ChannelInv' /\ \A f \in fs : interest'[f].reported
  <2> DEFINE reports == [f \in Fds |-> f \in fs]
  <2>1. reports \in [Fds -> BOOLEAN]
    OBVIOUS
  <2>2. \A f \in DOMAIN interest : f \in Fds
    BY DEF IInv, ChannelInv, ChannelTypeOK
  <2>3. \A f \in DOMAIN interest : reports[f] = (f \in fs)
    BY <2>2
  <2>4. interest' = [f \in DOMAIN interest |-> [interest[f] EXCEPT !.reported = reports[f]]]
    BY <1>1, <2>3
  <2>5. \A f \in fs : reports[f]
    BY <1>4, <2>3
  <2> HIDE DEF reports
  <2>6. ChannelInv' /\ \A f \in DOMAIN interest : interest'[f].reported = reports[f]
    BY <1>3, <2>1, <2>4, ReportKeeps DEF IInv
  <2> QED BY <1>4, <2>5, <2>6
<1>6. \A f \in fs : /\ interest[f].ptr \in attached
                     /\ fd[interest[f].ptr] = f
                     /\ interest[f].ptr \in Channels
                     /\ Events(f) \in SUBSET {"write", "read", "error"}
  BY <1>4, KindsAssumption
     DEF IInv, ChannelInv, ChannelTypeOK, RegistrationsMatch, Registration, Events, Polled
<1>8. batch' \in Seq(EventSet)
  <2>1. \A i \in 1..Cardinality(fs) :
          [ptr |-> interest[order[i]].ptr, kinds |-> Events(order[i])] \in EventSet
    BY <1>6 DEF EventSet
  <2>2. batch' \in [1..Cardinality(fs) -> EventSet]
    BY <1>2, <2>1
  <2> QED BY <1>4, <2>2
<1>9. BatchCurrent'
  <2>1. ASSUME NEW i \in DOMAIN batch' PROVE Current(batch[i].ptr)'
    <3>1. order[i] \in fs /\ batch'[i].ptr = interest[order[i]].ptr
      BY <1>2
    <3> QED BY <1>3, <1>5, <1>6, <3>1 DEF Current
  <2> QED BY <2>1 DEF BatchCurrent
<1> QED BY <1>3, <1>5, <1>8, <1>9 DEF IInv, BatchInv

(* The next event, or the next callback for this one.                      *)
LEMMA EventEndsKeeps == ASSUME IInv, EventEnds PROVE IInv'
<1>1. /\ UNCHANGED <<channelVars, removed, mode>>
      /\ mode = "dispatch" /\ batch # <<>> /\ batch' = Tail(batch)
  BY DEF EventEnds
<1>2. batch \in Seq(EventSet)
  BY DEF IInv, BatchInv
<1>3. batch' \in Seq(EventSet) /\ \A i \in DOMAIN batch' :
        i + 1 \in DOMAIN batch /\ batch'[i] = batch[i + 1]
  BY <1>1, <1>2
<1>4. BatchCurrent'
  BY <1>1, <1>3 DEF IInv, BatchInv, BatchCurrent, Current, channelVars
<1> QED BY <1>1, <1>3, <1>4, ChannelInvStays DEF IInv, BatchInv

LEMMA CallbackBeginsKeeps == ASSUME IInv, CallbackBegins PROVE IInv'
<1>1. UNCHANGED <<channelVars, removed>>
  BY DEF CallbackBegins
<1>2. CASE mode' = "callback" /\ batch' = [batch EXCEPT ![1].kinds = @ \ {Kind}]
  <2>1. batch \in Seq(EventSet) /\ batch # <<>>
    BY DEF IInv, BatchInv, CallbackBegins
  <2>2. 1 \in DOMAIN batch /\ batch[1] \in EventSet
    BY <2>1
  <2>3. [batch[1] EXCEPT !.kinds = @ \ {Kind}] \in EventSet
        /\ [batch[1] EXCEPT !.kinds = @ \ {Kind}].ptr = batch[1].ptr
    BY <2>2 DEF EventSet
  <2>4. batch' = [batch EXCEPT ![1] = [batch[1] EXCEPT !.kinds = @ \ {Kind}]]
    BY <1>2
  <2>5. /\ batch' \in Seq(EventSet) /\ DOMAIN batch' = DOMAIN batch
        /\ \A i \in DOMAIN batch : batch'[i].ptr = batch[i].ptr
    BY <2>1, <2>2, <2>3, <2>4
  <2>6. BatchCurrent'
    BY <1>1, <2>5 DEF IInv, BatchInv, BatchCurrent, Current, channelVars
  <2> QED BY <1>1, <1>2, <2>5, <2>6, ChannelInvStays DEF IInv, BatchInv
<1>3. CASE batch' = <<>>
  BY <1>1, <1>3, ChannelInvStays DEF IInv, BatchInv, BatchCurrent
<1> QED BY <1>2, <1>3 DEF CallbackBegins

(* The registrations are no longer those that were reported, and nothing of*)
(* the batch is left.                                                      *)
LEMMA RoundEndsKeeps == ASSUME IInv, RoundEnds PROVE IInv'
<1>1. /\ UNCHANGED <<alive, fd, on, attached, batch>>
      /\ interest' = [f \in DOMAIN interest |-> [interest[f] EXCEPT !.reported = FALSE]]
      /\ mode = "timers"
  BY DEF RoundEnds
<1>2. ChannelInv'
  <2> DEFINE reports == [f \in Fds |-> FALSE]
  <2>1. reports \in [Fds -> BOOLEAN]
    OBVIOUS
  <2>2. \A f \in DOMAIN interest : reports[f] = FALSE
    BY DEF IInv, ChannelInv, ChannelTypeOK
  <2>3. interest' = [f \in DOMAIN interest |-> [interest[f] EXCEPT !.reported = reports[f]]]
    BY <1>1, <2>2
  <2> HIDE DEF reports
  <2> QED BY <1>1, <2>1, <2>3, ReportKeeps DEF IInv
<1>3. batch = <<>>
  BY <1>1 DEF IInv, BatchInv
<1> QED BY <1>1, <1>2, <1>3 DEF IInv, BatchInv, BatchCurrent

LEMMA DestroyKeeps == ASSUME IInv, Destroy PROVE IInv'
<1>1. /\ UNCHANGED <<alive, fd, on, attached, removed, batch>>
      /\ attached = {} /\ interest' = [f \in {} |-> {}] /\ mode = "out"
  BY DEF Destroy, roundVars
<1>2. ChannelInv'
  BY <1>1 DEF IInv, ChannelInv, ChannelTypeOK, RegistrationsMatch
<1>3. batch = <<>>
  BY <1>1 DEF IInv, BatchInv
<1> QED BY <1>1, <1>2, <1>3 DEF IInv, BatchInv, BatchCurrent

-----------------------------------------------------------------------------
LEMMA InitIInv == Init => IInv
<1> SUFFICES ASSUME Init PROVE IInv
  OBVIOUS
<1>1. ChannelInv
  BY DEF Init, ChannelInit, ChannelInv, ChannelTypeOK, RegistrationsMatch
<1>2. BatchInv
  BY DEF Init, BatchInv, BatchCurrent
<1> QED BY <1>1, <1>2 DEF IInv

LEMMA NextIInv == ASSUME IInv, [Next]_vars PROVE IInv'
<1>1. CASE UNCHANGED vars
  BY <1>1, QuietKeeps DEF vars, loopVars, roundVars, IInv, BatchInv
<1>2. CASE \E c \in Channels : ChannelCall(c)
  BY <1>2, ChannelCallKeeps
<1>3. ASSUME NEW id \in TimerIds, NEW request \in Requests,
             StopTimer(id) \/ StartTimer(id, request) \/ TimerFires(id)
      PROVE  IInv'
  BY <1>3, QuietKeeps
     DEF StopTimer, StartTimer, TimerFires, loopVars, roundVars, IInv, BatchInv
<1>4. CASE Quit \/ CallbackReturns \/ TimerReturns \/ ClockMoves
  BY <1>4, QuietKeeps
     DEF Quit, CallbackReturns, TimerReturns, ClockMoves, loopVars, roundVars, IInv, BatchInv
<1>5. CASE LoopBegins \/ LoopEnds \/ WaitBegins \/ DispatchEnds
  BY <1>5, QuietKeeps
     DEF LoopBegins, LoopEnds, WaitBegins, DispatchEnds, roundVars, IInv, BatchInv
<1>6. CASE WaitTimesOut \/ WaitInterrupted \/ WaitFails
  BY <1>6, QuietKeeps DEF WaitTimesOut, WaitInterrupted, WaitFails, IInv, BatchInv
<1>7. CASE \E f \in Fds, kind \in Kinds : DescriptorChanges(f, kind)
  BY <1>7, QuietKeeps DEF DescriptorChanges, loopVars, roundVars, IInv, BatchInv
<1>8. CASE \E id \in TimerIds : StopTimer(id) \/ TimerFires(id)
  BY <1>8, QuietKeeps DEF StopTimer, TimerFires, loopVars, roundVars, IInv, BatchInv
<1> QED
  BY <1>1, <1>2, <1>3, <1>4, <1>5, <1>6, <1>7, <1>8, WaitReportsKeeps, EventEndsKeeps,
     CallbackBeginsKeeps, RoundEndsKeeps, DestroyKeeps
     DEF Next, ClientCall, LoopStep

LEMMA IInvAlways == Spec => []IInv
BY InitIInv, NextIInv, PTL DEF Spec

(* For any number of channels that come and go, at any addresses: the      *)
(* kernel polls each attached channel for the callbacks it has, and no     *)
(* registration outlives its channel (io_channel.cc:18-78).                *)
THEOREM RegistrationsCorrect == Spec => []RegistrationsMatch
<1>1. IInv => RegistrationsMatch
  BY DEF IInv, ChannelInv
<1> QED BY <1>1, IInvAlways, PTL

(* For any batch of events and whatever its callbacks do: none is called   *)
(* for a registration that is gone (loop_service.cc:165-193).              *)
THEOREM NeverStale == Spec => NoStaleCall
<1>1. ASSUME IInv, [Next]_vars, mode = "dispatch", mode' # "dispatch", batch # <<>>
      PROVE  Event.ptr \in attached /\ interest[fd[Event.ptr]].reported
  <2>1. CallbackBegins
    BY <1>1 DEF Next, ClientCall, LoopStep, vars, loopVars, ChannelCall, StopTimer,
       StartTimer, TimerFires, Quit, LoopBegins, LoopEnds, WaitBegins, WaitReports,
       WaitTimesOut, WaitInterrupted, WaitFails, EventEnds, CallbackReturns, DispatchEnds,
       TimerReturns, RoundEnds, Destroy, ClockMoves, DescriptorChanges
  <2>2. Event.ptr \notin removed
    BY <2>1 DEF CallbackBegins
  <2>3. 1 \in DOMAIN batch /\ Event = batch[1]
    BY <1>1 DEF IInv, BatchInv, Event
  <2> QED BY <1>1, <2>2, <2>3 DEF IInv, BatchInv, BatchCurrent, Current
<1>2. IInv /\ [Next]_vars =>
        [ mode = "dispatch" /\ mode' # "dispatch" /\ batch # <<>> =>
            /\ Event.ptr \in attached
            /\ interest[fd[Event.ptr]].reported ]_vars
  BY <1>1
<1> QED BY <1>2, IInvAlways, PTL DEF Spec, NoStaleCall

-----------------------------------------------------------------------------
(* The timers and the rest of the loop's state.                            *)

TimesRead == {Readings[i] : i \in 1..Len(Readings)}

TimerEntry ==
  [deadline : {t \in [second : Nat, nanosecond : Nat] : Normalised(t)},
   timeout : Nat, left : Nat]

TimerTypes ==
  /\ clock \in TimesRead /\ checkedAt \in TimesRead
  /\ DOMAIN pending \subseteq TimerIds
  /\ \A id \in DOMAIN pending : pending[id] \in TimerEntry

(* A check of the timers goes on exactly in that mode.                     *)
ModeTypes ==
  /\ phase \in {"idle", "check", "callback", "gone"}
  /\ mode \in {"out", "top", "wait", "dispatch", "callback", "timers", "gone"}
  /\ phase \in {"check", "callback"} <=> mode = "timers"
  /\ quit \in BOOLEAN /\ full \in BOOLEAN
  /\ slots \in Nat \ {0}
  /\ callee \in {Nobody} \cup (Channels \X Kinds)
  /\ callee # Nobody <=> mode = "callback"

SleepTypes ==
  /\ sleep.from \in TimesRead
  /\ sleep.timeout \in Int /\ sleep.timeout <= MaxEpollTimeout

EventTypes ==
  /\ ready \in [Fds -> SUBSET Kinds]
  /\ removed \subseteq Channels
  /\ \A i \in DOMAIN batch : batch[i].kinds \subseteq Kinds

LoopTypes == TimerTypes /\ ModeTypes /\ SleepTypes /\ EventTypes

(* What is read from the clock, the first time in particular.              *)
LEMMA TimesReadFacts ==
  /\ \A t \in TimesRead : Normalised(t) /\ Milliseconds(t) \in Nat
  /\ Readings[1] \in TimesRead
<1>1. \A t \in TimesRead : Normalised(t)
  BY ReadingsAssumption DEF TimesRead
<1>2. ASSUME NEW t \in TimesRead PROVE Milliseconds(t) \in Nat
  <2>1. t.second \in Nat /\ t.nanosecond \in Nat /\ Milliseconds(t) = t.second * 1000 + getMillisecond(t)
        /\ getMillisecond(t) \in Nat
    BY <1>1, GetMillisecond DEF Normalised
  <2> QED
    BY <2>1
<1>3. Readings[1] \in TimesRead
  <2>1. Len(Readings) \in Nat /\ 1 <= LastTimer /\ LastTimer <= Len(Readings) /\ LastTimer \in Int
    BY ReadingsAssumption
  <2>2. 1 \in 1..Len(Readings)
    BY <2>1
  <2> QED
    BY <2>2 DEF TimesRead
<1> QED
  BY <1>1, <1>2, <1>3

(* A timer that is pending.                                                *)
LEMMA PendingFacts ==
  ASSUME TimerTypes, NEW id \in DOMAIN pending
  PROVE  /\ Normalised(pending[id].deadline) /\ Milliseconds(pending[id].deadline) \in Nat
         /\ pending[id].timeout \in Nat /\ pending[id].left \in Nat
<1>1. pending[id] \in TimerEntry
  BY DEF TimerTypes
<1>2. Normalised(pending[id].deadline) /\ pending[id].timeout \in Nat /\ pending[id].left \in Nat
  BY <1>1 DEF TimerEntry
<1>3. /\ pending[id].deadline.second \in Nat /\ getMillisecond(pending[id].deadline) \in Nat
      /\ Milliseconds(pending[id].deadline)
           = pending[id].deadline.second * 1000 + getMillisecond(pending[id].deadline)
  BY <1>2, GetMillisecond DEF Normalised
<1> QED
  BY <1>2, <1>3

(* The int that epoll_wait() is called with.                               *)
LEMMA WaitForFacts ==
  ASSUME NEW n \in Int
  PROVE  /\ WaitFor(n) \in Int /\ WaitFor(n) <= MaxEpollTimeout
         /\ n = -1 => WaitFor(n) = -1
         /\ n \in 0..(IntLimit - 1) => WaitFor(n) = n \/ WaitFor(n) = MaxEpollTimeout
<1>1. AsInt(n) \in Int /\ (n \in (-1)..(IntLimit - 1) => AsInt(n) = n)
  BY TimeoutAssumption DEF AsInt
<1> QED
  BY <1>1, TimeoutAssumption DEF WaitFor

(* getNextTimeoutMillisecond() is the time to some deadline, or -1.        *)
LEMMA NextTimeoutsFacts ==
  ASSUME TimerTypes, NEW n \in NextTimeouts
  PROVE  /\ n \in Int
         /\ \/ DOMAIN pending = {} /\ n = -1
            \/ \E id \in DOMAIN pending :
                 n \in Nat /\ n = NextTimeout(clock, pending[id].deadline)
<1>1. CASE DOMAIN pending = {}
  BY <1>1 DEF NextTimeouts
<1>2. CASE DOMAIN pending # {}
  <2>1. PICK id \in DOMAIN pending : n = NextTimeout(clock, pending[id].deadline)
    BY <1>2 DEF NextTimeouts
  <2>2. n \in Nat
    BY <2>1, PendingFacts, TimesReadFacts, WakesWhenDue DEF TimerTypes
  <2> QED
    BY <2>1, <2>2
<1> QED
  BY <1>1, <1>2

(* What a step may do to the clock and the timers.                         *)
LEMMA TimerSteps ==
  ASSUME [Next]_vars
  PROVE  \/ \E id \in TimerIds, request \in Requests : Timers!ServiceAdd(id, request)
         \/ \E id \in TimerIds : Timers!ServiceRemove(id)
         \/ \E id \in TimerIds : Timers!ServiceFire(id)
         \/ Timers!ServiceCheck \/ Timers!ServiceCheckEnds \/ Timers!ServiceReturn
         \/ Timers!ServiceDestroy \/ ClockMoves
         \/ UNCHANGED timerVars
<1>1. CASE ClientCall
  BY <1>1, Zenon DEF ClientCall, ChannelCall, StopTimer, StartTimer, Quit, LoopBegins, Destroy
<1>2. CASE LoopStep
  BY <1>2, Zenon DEF LoopStep, LoopEnds, WaitBegins, WaitReports, WaitTimesOut, EventEnds,
     CallbackBegins, DispatchEnds, TimerFires, RoundEnds, TimersChecked
<1>3. CASE UNCHANGED vars
  BY <1>3 DEF vars
<1>4. CASE \/ CallbackReturns \/ TimerReturns \/ WaitInterrupted \/ WaitFails
           \/ \E f \in Fds, kind \in Kinds : DescriptorChanges(f, kind)
  BY <1>4, Zenon DEF CallbackReturns, TimerReturns, WaitInterrupted, WaitFails,
     DescriptorChanges
<1> QED
  BY <1>1, <1>2, <1>3, <1>4 DEF Next

(* A timer that is added, and one that fires again.                        *)
LEMMA AddEffect ==
  ASSUME TimerTypes, NEW id \in TimerIds, NEW request \in Requests,
         Timers!ServiceAdd(id, request)
  PROVE  LET n == Timers!AtLeast0(request[1])
             new == [deadline |-> Plus(clock, n), timeout |-> n,
                     left |-> Timers!AtLeast0(request[2])]
         IN  /\ DOMAIN pending' = DOMAIN pending \cup {id} /\ id \notin DOMAIN pending
             /\ pending'[id] = new /\ new \in TimerEntry
             /\ \A i \in DOMAIN pending : pending'[i] = pending[i]
             /\ n \in Nat /\ (request[1] \in Nat => n = request[1])
             /\ request[1] \in Int /\ (request[1] \notin Nat => n = 0)
             /\ Milliseconds(Plus(clock, n)) = Milliseconds(clock) + n
             /\ UNCHANGED <<clock, checkedAt, phase>>
<1> DEFINE n == Timers!AtLeast0(request[1])
           m == Timers!AtLeast0(request[2])
           new == [deadline |-> Plus(clock, n), timeout |-> n, left |-> m]
<1>1. /\ request[1] \in Int /\ request[2] \in Int
      /\ n \in Nat /\ m \in Nat /\ (request[1] \in Nat => n = request[1])
      /\ (request[1] \notin Nat => n = 0)
  BY RequestsAssumption DEF Timers!AtLeast0
<1>2. /\ pending' = [i \in DOMAIN pending \cup {id} |-> IF i # id THEN pending[i] ELSE new]
      /\ id \notin DOMAIN pending /\ UNCHANGED <<clock, checkedAt, phase>>
  BY DEF Timers!ServiceAdd
<1> HIDE DEF n, m
<1>3. Normalised(Plus(clock, n)) /\ Milliseconds(Plus(clock, n)) = Milliseconds(clock) + n
  BY <1>1, TimesReadFacts, PlusExact DEF TimerTypes
<1>4. new \in TimerEntry
  BY <1>1, <1>3 DEF TimerEntry, Normalised
<1> HIDE DEF new
<1>5. /\ DOMAIN pending' = DOMAIN pending \cup {id} /\ pending'[id] = new
      /\ \A i \in DOMAIN pending : pending'[i] = pending[i]
  BY <1>2
<1> QED
  BY <1>1, <1>2, <1>3, <1>4, <1>5 DEF n, m, new

LEMMA FireEffect ==
  ASSUME TimerTypes, NEW id \in TimerIds, Timers!ServiceFire(id)
  PROVE  /\ id \in DOMAIN pending /\ IsDue(pending[id].deadline, checkedAt)
         /\ phase = "check" /\ phase' = "callback" /\ UNCHANGED <<clock, checkedAt>>
         /\ DOMAIN pending' \subseteq DOMAIN pending
         /\ \A i \in DOMAIN pending' \ {id} : pending'[i] = pending[i]
         /\ id \in DOMAIN pending' =>
              /\ pending'[id] \in TimerEntry
              /\ pending'[id].timeout = pending[id].timeout
              /\ Milliseconds(pending'[id].deadline)
                   = Milliseconds(pending[id].deadline) + pending[id].timeout
<1>1. /\ id \in DOMAIN pending /\ IsDue(pending[id].deadline, checkedAt)
      /\ phase = "check" /\ phase' = "callback" /\ UNCHANGED <<clock, checkedAt>>
  BY DEF Timers!ServiceFire
<1> DEFINE p == pending[id]
<1>2. CASE p.left = 1
  <2>1. pending' = [i \in DOMAIN pending \ {id} |-> pending[i]]
    BY <1>2 DEF Timers!ServiceFire, Timers!Without
  <2> QED
    BY <1>1, <2>1
<1>3. CASE p.left # 1
  <2> DEFINE again == [p EXCEPT !.deadline = Plus(p.deadline, p.timeout),
                                !.left = IF p.left = 0 THEN p.left ELSE p.left - 1]
  <2>1. /\ p \in TimerEntry /\ Normalised(p.deadline) /\ p.timeout \in Nat /\ p.left \in Nat
    BY <1>1, PendingFacts DEF TimerTypes
  <2>2. pending' = [pending EXCEPT ![id] = again]
    BY <1>1, <1>3, <2>1 DEF Timers!ServiceFire, Timers!Forever, TimerEntry
  <2>3. /\ Normalised(Plus(p.deadline, p.timeout))
        /\ Milliseconds(Plus(p.deadline, p.timeout)) = Milliseconds(p.deadline) + p.timeout
        /\ Plus(p.deadline, p.timeout) \in [second : Nat, nanosecond : Nat]
    BY <2>1, PlusExact DEF Normalised
  <2>4. (IF p.left = 0 THEN p.left ELSE p.left - 1) \in Nat
    BY <2>1
  <2> HIDE DEF p
  <2>5. /\ again \in TimerEntry /\ again.timeout = p.timeout
        /\ again.deadline = Plus(p.deadline, p.timeout)
    BY <2>1, <2>3, <2>4 DEF TimerEntry
  <2> HIDE DEF again
  <2>6. pending'[id] = again /\ DOMAIN pending' = DOMAIN pending
        /\ \A i \in DOMAIN pending \ {id} : pending'[i] = pending[i]
    BY <1>1, <2>2
  <2> QED
    BY <1>1, <2>3, <2>5, <2>6 DEF p
<1> QED
  BY <1>2, <1>3

(* The steps of the service and of the clock keep the timers well-typed.   *)
LEMMA TimerTypesKept ==
  ASSUME TimerTypes, [Next]_vars
  PROVE  TimerTypes'
<1>1. ASSUME NEW id \in TimerIds, NEW request \in Requests, Timers!ServiceAdd(id, request)
      PROVE  TimerTypes'
  BY <1>1, AddEffect DEF TimerTypes
<1>2. ASSUME NEW id \in TimerIds, Timers!ServiceRemove(id) PROVE TimerTypes'
  BY <1>2 DEF Timers!ServiceRemove, Timers!Without, TimerTypes
<1>3. ASSUME NEW id \in TimerIds, Timers!ServiceFire(id) PROVE TimerTypes'
  BY <1>3, FireEffect DEF TimerTypes
<1>4. ASSUME Timers!ServiceCheck \/ Timers!ServiceCheckEnds \/ Timers!ServiceReturn
      PROVE  TimerTypes'
  BY <1>4, TimesReadFacts
     DEF Timers!ServiceCheck, Timers!ServiceCheckEnds, Timers!ServiceReturn, TimerTypes
<1>5. ASSUME Timers!ServiceDestroy PROVE TimerTypes'
  BY <1>5 DEF Timers!ServiceDestroy, TimerTypes
<1>6. ASSUME ClockMoves PROVE TimerTypes'
  BY <1>6 DEF ClockMoves, TimerTypes, TimesRead
<1>7. ASSUME UNCHANGED timerVars PROVE TimerTypes'
  BY <1>7 DEF timerVars, TimerTypes
<1> QED
  BY <1>1, <1>2, <1>3, <1>4, <1>5, <1>6, <1>7, TimerSteps

LEMMA ModeTypesKept ==
  ASSUME IInv, ModeTypes, [Next]_vars
  PROVE  ModeTypes'
<1>1. ASSUME UNCHANGED <<mode, phase, quit, full, slots, callee>> PROVE ModeTypes'
  BY <1>1 DEF ModeTypes
<1>2. CASE \/ \E c \in Channels : ChannelCall(c)
           \/ \E f \in Fds, kind \in Kinds : DescriptorChanges(f, kind)
           \/ EventEnds \/ ClockMoves \/ UNCHANGED vars
  BY <1>1, <1>2 DEF ChannelCall, DescriptorChanges, EventEnds, ClockMoves, vars, timerVars,
     loopVars, roundVars
<1>3. ASSUME NEW id \in TimerIds, NEW request \in Requests, StartTimer(id, request)
      PROVE  ModeTypes'
  BY <1>1, <1>3 DEF StartTimer, Timers!ServiceAdd, loopVars, roundVars
<1>4. ASSUME NEW id \in TimerIds, StopTimer(id) PROVE ModeTypes'
  BY <1>1, <1>4 DEF StopTimer, Timers!ServiceRemove, loopVars, roundVars
<1>5. ASSUME NEW id \in TimerIds, TimerFires(id) PROVE ModeTypes'
  BY <1>5 DEF TimerFires, Timers!ServiceFire, loopVars, roundVars, ModeTypes
<1>6. CASE TimerReturns
  BY <1>6 DEF TimerReturns, Timers!ServiceReturn, loopVars, roundVars, ModeTypes
<1>7. CASE Quit \/ LoopBegins \/ LoopEnds
  BY <1>7 DEF Quit, LoopBegins, LoopEnds, roundVars, timerVars, ModeTypes
<1>8. CASE WaitBegins \/ WaitInterrupted \/ WaitFails
  BY <1>8 DEF WaitBegins, WaitInterrupted, WaitFails, timerVars, ModeTypes
<1>9. CASE WaitReports
  <2>1. /\ mode = "wait" /\ mode' = "dispatch" /\ full' \in BOOLEAN
        /\ UNCHANGED <<phase, quit, slots, callee>>
    BY <1>9 DEF WaitReports, timerVars
  <2> QED
    BY <2>1 DEF ModeTypes
<1>10. CASE WaitTimesOut \/ DispatchEnds
  BY <1>10 DEF WaitTimesOut, DispatchEnds, TimersChecked, Timers!ServiceCheck, roundVars,
     ModeTypes
<1>11. CASE CallbackBegins
  <2>1. /\ mode = "dispatch" /\ UNCHANGED <<phase, quit, slots, full>>
        /\ \/ /\ mode' = "callback" /\ callee' = <<Event.ptr, Kind>>
              /\ Kind \in on[Event.ptr]
           \/ mode' = "out" /\ callee' = Nobody
    BY <1>11 DEF CallbackBegins, timerVars
  <2>2. Event.ptr \in Channels
    <3>1. batch \in Seq(EventSet) /\ batch # <<>>
      BY <1>11 DEF CallbackBegins, IInv, BatchInv
    <3>2. Event \in EventSet
      BY <3>1 DEF Event
    <3> QED
      BY <3>2 DEF EventSet
  <2>3. on[Event.ptr] \subseteq Kinds
    BY <2>2 DEF IInv, ChannelInv, ChannelTypeOK
  <2>4. callee' \in {Nobody} \cup (Channels \X Kinds) /\ (callee' # Nobody <=> mode' = "callback")
    BY <2>1, <2>2, <2>3 DEF Nobody
  <2> QED
    BY <2>1, <2>4 DEF ModeTypes
<1>12. CASE CallbackReturns
  BY <1>12 DEF CallbackReturns, timerVars, ModeTypes
<1>13. CASE RoundEnds
  <2>1. slots' \in Nat \ {0}
    BY <1>13 DEF RoundEnds, ModeTypes
  <2> QED
    BY <1>13, <2>1 DEF RoundEnds, Timers!ServiceCheckEnds, ModeTypes
<1>14. CASE Destroy
  BY <1>14 DEF Destroy, Timers!ServiceDestroy, roundVars, ModeTypes
<1> QED
  BY <1>2, <1>3, <1>4, <1>5, <1>6, <1>7, <1>8, <1>9, <1>10, <1>11, <1>12, <1>13, <1>14
     DEF Next, ClientCall, LoopStep

(* A sleep begins when and for as long as the timers say.                  *)
LEMMA SleepTypesKept ==
  ASSUME TimerTypes, SleepTypes, [Next]_vars
  PROVE  SleepTypes'
<1>1. ASSUME UNCHANGED sleep PROVE SleepTypes'
  BY <1>1 DEF SleepTypes
<1>2. ASSUME sleep' = Awake PROVE SleepTypes'
  BY <1>2, TimesReadFacts, TimeoutAssumption DEF SleepTypes, Awake
<1>3. ASSUME WaitBegins PROVE SleepTypes'
  <2>1. PICK n \in NextTimeouts : sleep' = [from |-> clock, timeout |-> WaitFor(n)]
    BY <1>3 DEF WaitBegins
  <2>2. WaitFor(n) \in Int /\ WaitFor(n) <= MaxEpollTimeout
    BY NextTimeoutsFacts, WaitForFacts
  <2> QED
    BY <2>1, <2>2 DEF SleepTypes, TimerTypes
<1>4. WaitBegins \/ sleep' = Awake \/ UNCHANGED sleep
  <2>1. CASE ClientCall
    BY <2>1, Zenon DEF ClientCall, ChannelCall, StopTimer, StartTimer, Quit, LoopBegins,
       Destroy, loopVars, roundVars
  <2>2. CASE LoopStep
    BY <2>2 DEF LoopStep, LoopEnds, WaitReports, WaitTimesOut, EventEnds, CallbackBegins,
       DispatchEnds, TimerFires, RoundEnds, loopVars, roundVars
  <2> QED
    BY <2>1, <2>2 DEF Next, CallbackReturns, TimerReturns, WaitInterrupted, WaitFails,
       ClockMoves, DescriptorChanges, vars, loopVars, roundVars
<1> QED
  BY <1>1, <1>2, <1>3, <1>4

LEMMA EventTypesKept ==
  ASSUME IInv, EventTypes, [Next]_vars
  PROVE  EventTypes'
<1>1. ASSUME UNCHANGED <<ready, removed, batch>> PROVE EventTypes'
  BY <1>1 DEF EventTypes
<1>2. ASSUME ready' = NotReady, UNCHANGED removed, UNCHANGED batch PROVE EventTypes'
  BY <1>2 DEF EventTypes, NotReady
<1>3. ASSUME NEW c \in Channels, ChannelCall(c) PROVE EventTypes'
  <2>1. removed' \subseteq removed \cup {c} /\ UNCHANGED <<ready, batch>>
    BY <1>3 DEF ChannelCall, Attaches, RemovedWith, roundVars
  <2> QED
    BY <2>1 DEF EventTypes
<1>4. CASE Quit \/ LoopBegins \/ LoopEnds \/ Destroy \/ DispatchEnds \/ CallbackReturns
           \/ TimerReturns \/ ClockMoves \/ UNCHANGED vars
           \/ (\E id \in TimerIds : StopTimer(id) \/ TimerFires(id))
           \/ (\E id \in TimerIds, request \in Requests : StartTimer(id, request))
  BY <1>1, <1>4 DEF Quit, LoopBegins, LoopEnds, Destroy, DispatchEnds, CallbackReturns,
     TimerReturns, ClockMoves, vars, StopTimer, TimerFires, StartTimer, loopVars, roundVars
<1>5. CASE WaitBegins
  <2>1. PICK some \in [DOMAIN interest -> SUBSET Kinds] :
          ready' = [f \in Fds |-> IF f \in DOMAIN interest THEN some[f] ELSE {}]
    BY <1>5 DEF WaitBegins
  <2>2. ready' \in [Fds -> SUBSET Kinds]
    BY <2>1
  <2> QED
    BY <1>5, <2>2 DEF WaitBegins, EventTypes
<1>6. CASE WaitTimesOut \/ WaitInterrupted \/ WaitFails
  BY <1>2, <1>6 DEF WaitTimesOut, WaitInterrupted, WaitFails
<1>7. CASE WaitReports
  <2>1. PICK fs \in (SUBSET Reportable) \ {{}} :
          \E order \in [1..Cardinality(fs) -> fs] :
             batch' = [i \in DOMAIN order |->
                         [ptr |-> interest[order[i]].ptr, kinds |-> Events(order[i])]]
    BY <1>7 DEF WaitReports
  <2>2. PICK order \in [1..Cardinality(fs) -> fs] :
          batch' = [i \in DOMAIN order |->
                      [ptr |-> interest[order[i]].ptr, kinds |-> Events(order[i])]]
    BY <2>1
  <2>3. \A f \in fs : Events(f) \subseteq Kinds
    BY DEF Reportable, Events, EventTypes, IInv, ChannelInv, ChannelTypeOK
  <2>4. \A i \in DOMAIN batch' : batch'[i].kinds \subseteq Kinds
    BY <2>2, <2>3
  <2>5. ready' = NotReady /\ UNCHANGED removed
    BY <1>7 DEF WaitReports
  <2> QED
    BY <2>4, <2>5 DEF EventTypes, NotReady
<1>8. CASE EventEnds
  <2>1. batch' = Tail(batch) /\ batch # <<>> /\ batch \in Seq(EventSet) /\ UNCHANGED <<ready, removed>>
    BY <1>8 DEF EventEnds, IInv, BatchInv
  <2>2. \A i \in DOMAIN batch' : i + 1 \in DOMAIN batch /\ batch'[i] = batch[i + 1]
    BY <2>1
  <2> QED
    BY <2>1, <2>2 DEF EventTypes
<1>9. CASE CallbackBegins
  <2>1. /\ UNCHANGED <<ready, removed>> /\ batch # <<>> /\ batch \in Seq(EventSet)
        /\ batch' = [batch EXCEPT ![1].kinds = @ \ {Kind}] \/ batch' = <<>>
    BY <1>9 DEF CallbackBegins, IInv, BatchInv
  <2>2. ASSUME batch' = [batch EXCEPT ![1].kinds = @ \ {Kind}], NEW i \in DOMAIN batch'
        PROVE  batch'[i].kinds \subseteq Kinds
    <3>1. 1 \in DOMAIN batch /\ batch[1] \in EventSet /\ DOMAIN batch' = DOMAIN batch
      BY <2>1, <2>2
    <3>2. batch'[1].kinds = batch[1].kinds \ {Kind}
      BY <2>2, <3>1 DEF EventSet
    <3>3. i # 1 => batch'[i] = batch[i]
      BY <2>2, <3>1
    <3> QED
      BY <3>1, <3>2, <3>3 DEF EventTypes
  <2> QED
    BY <2>1, <2>2 DEF EventTypes
<1>10. CASE RoundEnds
  BY <1>10 DEF RoundEnds, EventTypes
<1>11. ASSUME NEW f \in Fds, NEW kind \in Kinds, DescriptorChanges(f, kind) PROVE EventTypes'
  BY <1>11 DEF DescriptorChanges, loopVars, roundVars, EventTypes
<1> QED
  BY <1>3, <1>4, <1>5, <1>6, <1>7, <1>8, <1>9, <1>10, <1>11 DEF Next, ClientCall, LoopStep

(* They all hold in every reachable state.                                 *)
LEMMA LoopTypesAlways == Spec => [](IInv /\ LoopTypes)
<1>1. Init => LoopTypes
  <2> SUFFICES ASSUME Init PROVE LoopTypes
    OBVIOUS
  <2>1. TimerTypes
    BY TimesReadFacts DEF Init, Timers!ServiceInit, TimerTypes
  <2>2. ModeTypes
    BY SlotsAssumption DEF Init, Timers!ServiceInit, ModeTypes, Nobody
  <2>3. SleepTypes
    BY TimesReadFacts, TimeoutAssumption DEF Init, SleepTypes, Awake
  <2>4. EventTypes
    BY DEF Init, EventTypes, NotReady
  <2> QED
    BY <2>1, <2>2, <2>3, <2>4 DEF LoopTypes
<1>2. IInv /\ LoopTypes /\ [Next]_vars => LoopTypes'
  BY TimerTypesKept, ModeTypesKept, SleepTypesKept, EventTypesKept DEF LoopTypes
<1> QED
  BY <1>1, <1>2, InitIInv, NextIInv, PTL DEF Spec

(* The loop is well-typed: its times are readings of the clock, it never   *)
(* sleeps longer than the longest wait, and a check of the timers goes on  *)
(* exactly while loop() is in it (loop_service.cc:23-210).                 *)
THEOREM TypeCorrect == Spec => []TypeOK
<1>1. IInv /\ LoopTypes => TypeOK
  <2> SUFFICES ASSUME IInv, LoopTypes PROVE TypeOK
    OBVIOUS
  <2>1. batch \in Seq([ptr : Channels, kinds : SUBSET Kinds])
    <3>1. batch \in Seq(EventSet)
      BY DEF IInv, BatchInv
    <3>2. Len(batch) \in Nat /\ DOMAIN batch = 1..Len(batch)
          /\ batch = [i \in 1..Len(batch) |-> batch[i]]
      BY <3>1
    <3>3. ASSUME NEW i \in 1..Len(batch)
          PROVE  batch[i] \in [ptr : Channels, kinds : SUBSET Kinds]
      <4>1. batch[i] \in EventSet /\ batch[i].kinds \subseteq Kinds
        BY <3>1, <3>2 DEF LoopTypes, EventTypes
      <4> QED
        BY <4>1 DEF EventSet
    <3> DEFINE E == [ptr : Channels, kinds : SUBSET Kinds]
               n == Len(batch)
    <3>4. batch \in [1..n -> E] /\ n \in Nat
      BY <3>2, <3>3
    <3> HIDE DEF E, n
    <3>5. batch \in Seq(E)
      BY <3>4
    <3> QED
      BY <3>5 DEF E
  <2>2. \A id \in DOMAIN pending :
          /\ Normalised(pending[id].deadline)
          /\ pending[id].timeout \in Nat /\ pending[id].left \in Nat
    BY PendingFacts DEF LoopTypes
  <2> QED
    BY <2>1, <2>2 DEF IInv, ChannelInv, LoopTypes, TimerTypes, ModeTypes, SleepTypes,
       EventTypes, TimesRead, TypeOK
<1> QED
  BY <1>1, LoopTypesAlways, PTL

-----------------------------------------------------------------------------
(* How long the loop sleeps.                                               *)

(* The clock is not set back, and the timeouts asked for are ints.         *)
ClockForward ==
  \A i \in 2..Len(Readings) : Milliseconds(Readings[i - 1]) <= Milliseconds(Readings[i])
PeriodsFit == \A request \in Requests : request[1] < IntLimit

(* No deadline is further away than its timeout, so that its distance is   *)
(* an int; and a sleep that is not the longest is for some timer, which    *)
(* nobody stops as long as the loop sleeps.                                *)
DeadlinesNear ==
  \A id \in DOMAIN pending :
    /\ pending[id].timeout < IntLimit
    /\ Milliseconds(pending[id].deadline) <= Milliseconds(clock) + pending[id].timeout

CheckedBefore ==
  phase \in {"check", "callback"} => Milliseconds(checkedAt) <= Milliseconds(clock)

SleepsForTimer ==
  mode = "wait" /\ sleep.timeout \in Nat /\ sleep.timeout < MaxEpollTimeout =>
    \E id \in DOMAIN pending : sleep.timeout = NextTimeout(sleep.from, pending[id].deadline)

SleepInv == DeadlinesNear /\ CheckedBefore /\ SleepsForTimer

(* A timer is due when its milliseconds have come.                         *)
LEMMA DueMeansTime ==
  ASSUME TimerTypes, NEW id \in DOMAIN pending, NEW t \in TimesRead
  PROVE  IsDue(pending[id].deadline, t) <=>
           Milliseconds(pending[id].deadline) <= Milliseconds(t)
<1>1. MillisecondLess(t, pending[id].deadline)
        <=> Milliseconds(t) < Milliseconds(pending[id].deadline)
  BY TimesReadFacts, PendingFacts, ComparisonsMeanTime
<1>2. Milliseconds(t) \in Nat /\ Milliseconds(pending[id].deadline) \in Nat
  BY TimesReadFacts, PendingFacts
<1> QED
  BY <1>1, <1>2 DEF IsDue

LEMMA DeadlinesNearKept ==
  ASSUME ClockForward, PeriodsFit, TimerTypes, DeadlinesNear, CheckedBefore, [Next]_vars
  PROVE  DeadlinesNear' /\ CheckedBefore'
<1>1. Milliseconds(clock) \in Nat /\ Milliseconds(checkedAt) \in Nat
  BY TimesReadFacts DEF TimerTypes
<1>2. ASSUME NEW id \in TimerIds, NEW request \in Requests, Timers!ServiceAdd(id, request)
      PROVE  DeadlinesNear' /\ CheckedBefore'
  <2> DEFINE n == Timers!AtLeast0(request[1])
  <2>1. /\ DOMAIN pending' = DOMAIN pending \cup {id}
        /\ pending'[id].timeout = n /\ pending'[id].deadline = Plus(clock, n)
        /\ \A i \in DOMAIN pending : pending'[i] = pending[i]
        /\ n \in Nat /\ (request[1] \in Nat => n = request[1]) /\ (request[1] \notin Nat => n = 0)
        /\ Milliseconds(Plus(clock, n)) = Milliseconds(clock) + n
        /\ UNCHANGED <<clock, checkedAt, phase>>
    <3>1. pending'[id] = [deadline |-> Plus(clock, n), timeout |-> n,
                          left |-> Timers!AtLeast0(request[2])]
      BY <1>2, AddEffect
    <3>2. pending'[id].timeout = n /\ pending'[id].deadline = Plus(clock, n)
      BY <3>1
    <3> QED
      BY <1>2, <3>2, AddEffect
  <2>2. n < IntLimit
    BY <2>1, TimeoutAssumption DEF PeriodsFit
  <2> HIDE DEF n
  <2>3. \A i \in DOMAIN pending' \ {id} : pending'[i] = pending[i] /\ i \in DOMAIN pending
    BY <1>2, <2>1, AddEffect
  <2>4. /\ pending'[id].timeout < IntLimit
        /\ Milliseconds(pending'[id].deadline) <= Milliseconds(clock) + pending'[id].timeout
    BY <1>1, <2>1, <2>2
  <2> QED
    BY <2>1, <2>3, <2>4 DEF DeadlinesNear, CheckedBefore
<1>3. ASSUME NEW id \in TimerIds, Timers!ServiceRemove(id)
      PROVE  DeadlinesNear' /\ CheckedBefore'
  BY <1>3 DEF Timers!ServiceRemove, Timers!Without, DeadlinesNear, CheckedBefore
<1>4. ASSUME NEW id \in TimerIds, Timers!ServiceFire(id)
      PROVE  DeadlinesNear' /\ CheckedBefore'
  <2>1. /\ id \in DOMAIN pending /\ IsDue(pending[id].deadline, checkedAt)
        /\ phase = "check" /\ UNCHANGED <<clock, checkedAt>>
        /\ DOMAIN pending' \subseteq DOMAIN pending
        /\ \A i \in DOMAIN pending' \ {id} : pending'[i] = pending[i]
        /\ id \in DOMAIN pending' =>
             /\ pending'[id].timeout = pending[id].timeout
             /\ Milliseconds(pending'[id].deadline)
                  = Milliseconds(pending[id].deadline) + pending[id].timeout
    BY <1>4, FireEffect
  <2>2. /\ Milliseconds(pending[id].deadline) <= Milliseconds(checkedAt)
        /\ Milliseconds(checkedAt) <= Milliseconds(clock)
    BY <2>1, DueMeansTime DEF CheckedBefore, TimerTypes
  <2>3. Milliseconds(pending[id].deadline) \in Nat /\ pending[id].timeout \in Nat
    BY <2>1, PendingFacts
  <2>4. id \in DOMAIN pending' =>
          /\ pending'[id].timeout < IntLimit
          /\ Milliseconds(pending'[id].deadline) <= Milliseconds(clock) + pending'[id].timeout
    BY <1>1, <2>1, <2>2, <2>3 DEF DeadlinesNear
  <2> QED
    BY <2>1, <2>2, <2>4 DEF DeadlinesNear, CheckedBefore
<1>5. ASSUME Timers!ServiceCheck \/ Timers!ServiceCheckEnds \/ Timers!ServiceReturn
      PROVE  DeadlinesNear' /\ CheckedBefore'
  BY <1>1, <1>5 DEF Timers!ServiceCheck, Timers!ServiceCheckEnds, Timers!ServiceReturn,
     DeadlinesNear, CheckedBefore
<1>6. ASSUME Timers!ServiceDestroy PROVE DeadlinesNear' /\ CheckedBefore'
  BY <1>6 DEF Timers!ServiceDestroy, DeadlinesNear, CheckedBefore
<1>7. ASSUME ClockMoves PROVE DeadlinesNear' /\ CheckedBefore'
  <2>1. /\ UNCHANGED <<pending, phase, checkedAt>> /\ clock' \in TimesRead
        /\ Milliseconds(clock) <= Milliseconds(clock')
    <3>1. PICK i \in 2..Len(Readings) : clock = Readings[i - 1] /\ clock' = Readings[i]
      BY <1>7 DEF ClockMoves
    <3> QED
      BY <1>7, <3>1 DEF ClockMoves, ClockForward, TimesRead
  <2>2. Milliseconds(clock') \in Nat
    BY <2>1, TimesReadFacts
  <2>3. \A id \in DOMAIN pending :
          Milliseconds(pending[id].deadline) \in Nat /\ pending[id].timeout \in Nat
    BY PendingFacts
  <2>4. \A id \in DOMAIN pending :
          Milliseconds(pending[id].deadline) <= Milliseconds(clock') + pending[id].timeout
    BY <1>1, <2>1, <2>2, <2>3 DEF DeadlinesNear
  <2>5. phase \in {"check", "callback"} => Milliseconds(checkedAt) <= Milliseconds(clock')
    BY <1>1, <2>1, <2>2 DEF CheckedBefore
  <2> QED
    BY <2>1, <2>4, <2>5 DEF DeadlinesNear, CheckedBefore
<1>8. ASSUME UNCHANGED timerVars PROVE DeadlinesNear' /\ CheckedBefore'
  BY <1>8 DEF timerVars, DeadlinesNear, CheckedBefore
<1> QED
  BY <1>2, <1>3, <1>4, <1>5, <1>6, <1>7, <1>8, TimerSteps

(* While the loop sleeps only the clock moves.                             *)
LEMMA SleepsForTimerKept ==
  ASSUME TimerTypes, ModeTypes, SleepInv, [Next]_vars
  PROVE  SleepsForTimer'
<1>1. ASSUME WaitBegins PROVE SleepsForTimer'
  <2>1. PICK n \in NextTimeouts : sleep' = [from |-> clock, timeout |-> WaitFor(n)]
    BY <1>1 DEF WaitBegins
  <2>2. UNCHANGED pending
    BY <1>1 DEF WaitBegins, timerVars
  <2>3. n \in Int
    BY NextTimeoutsFacts
  <2>4. CASE n = -1
    <3>1. sleep'.timeout = -1
      BY <2>1, <2>4, WaitForFacts
    <3> QED
      BY <3>1 DEF SleepsForTimer
  <2>5. ASSUME NEW id \in DOMAIN pending, n \in Nat, n = NextTimeout(clock, pending[id].deadline)
        PROVE  SleepsForTimer'
    <3>1. Normalised(clock) /\ Normalised(pending[id].deadline)
      BY TimesReadFacts, PendingFacts DEF TimerTypes
    <3>2. /\ Milliseconds(clock) \in Nat /\ Milliseconds(pending[id].deadline) \in Nat
          /\ pending[id].timeout \in Nat /\ pending[id].timeout < IntLimit
          /\ Milliseconds(pending[id].deadline) <= Milliseconds(clock) + pending[id].timeout
      BY TimesReadFacts, PendingFacts DEF TimerTypes, SleepInv, DeadlinesNear
    <3>3. n = 0 \/ n = Milliseconds(pending[id].deadline) - Milliseconds(clock)
      BY <2>5, <3>1, DistanceExact DEF NextTimeout
    <3>4. n \in 0..(IntLimit - 1)
      BY <2>5, <3>2, <3>3, TimeoutAssumption
    <3>5. WaitFor(n) = n \/ WaitFor(n) = MaxEpollTimeout
      BY <2>3, <3>4, WaitForFacts
    <3>6. sleep'.timeout < MaxEpollTimeout =>
            sleep'.timeout = NextTimeout(sleep'.from, pending[id].deadline)
      BY <2>1, <2>5, <3>5, TimeoutAssumption
    <3> QED
      BY <2>2, <3>6 DEF SleepsForTimer
  <2> QED
    BY <2>4, <2>5, NextTimeoutsFacts
<1>2. ASSUME mode' # "wait" PROVE SleepsForTimer'
  BY <1>2 DEF SleepsForTimer
<1>3. ASSUME UNCHANGED <<mode, sleep>>, mode = "wait" => UNCHANGED pending PROVE SleepsForTimer'
  BY <1>3 DEF SleepInv, SleepsForTimer
<1>4. CASE ClientCall
  <2>1. ASSUME NEW c \in Channels, ChannelCall(c) PROVE SleepsForTimer'
    BY <1>3, <2>1 DEF ChannelCall, roundVars, timerVars
  <2>2. ASSUME NEW id \in TimerIds, NEW request \in Requests,
               StopTimer(id) \/ StartTimer(id, request)
        PROVE  SleepsForTimer'
    BY <1>3, <2>2 DEF StopTimer, StartTimer, ClientRuns, ModeTypes, loopVars, roundVars
  <2>3. ASSUME NEW id \in TimerIds, StopTimer(id) PROVE SleepsForTimer'
    BY <1>3, <2>3 DEF StopTimer, ClientRuns, ModeTypes, loopVars, roundVars
  <2>4. CASE Quit \/ LoopBegins \/ Destroy
    BY <1>2, <1>3, <2>4 DEF Quit, LoopBegins, Destroy, roundVars, timerVars
  <2> QED
    BY <1>4, <2>1, <2>2, <2>3, <2>4 DEF ClientCall
<1>5. CASE LoopStep
  <2>1. ASSUME NEW id \in TimerIds, TimerFires(id) PROVE SleepsForTimer'
    BY <1>3, <2>1 DEF TimerFires, Timers!ServiceFire, ModeTypes, loopVars, roundVars
  <2>2. CASE LoopEnds \/ WaitReports \/ WaitTimesOut \/ EventEnds \/ CallbackBegins
             \/ DispatchEnds \/ RoundEnds
    BY <1>2, <2>2 DEF LoopEnds, WaitReports, WaitTimesOut, EventEnds, CallbackBegins,
       DispatchEnds, RoundEnds, TimersChecked
  <2> QED
    BY <1>1, <1>5, <2>1, <2>2 DEF LoopStep
<1>6. CASE CallbackReturns \/ WaitInterrupted \/ WaitFails
  BY <1>2, <1>6 DEF CallbackReturns, WaitInterrupted, WaitFails
<1>7. CASE \/ TimerReturns \/ ClockMoves \/ UNCHANGED vars
           \/ \E f \in Fds, kind \in Kinds : DescriptorChanges(f, kind)
  BY <1>3, <1>7 DEF TimerReturns, Timers!ServiceReturn, ClockMoves, vars, DescriptorChanges,
     timerVars, loopVars, roundVars
<1> QED
  BY <1>4, <1>5, <1>6, <1>7 DEF Next

(* A wait that times out before the longest one finds a timer due, for any *)
(* timers and channels, as long as the clock is not set back and timeouts  *)
(* fit in an int (loop_service.cc:153-154, 195-197; timestamp.cc:80-95).   *)
THEOREM SleepsCorrect ==
  ASSUME ClockForward, PeriodsFit
  PROVE  Spec => SleepsUntilDue
<1>1. Init => SleepInv
  BY DEF Init, Timers!ServiceInit, SleepInv, DeadlinesNear, CheckedBefore, SleepsForTimer
<1>2. LoopTypes /\ SleepInv /\ [Next]_vars => SleepInv'
  BY DeadlinesNearKept, SleepsForTimerKept DEF LoopTypes, SleepInv
<1>3. ASSUME LoopTypes, SleepInv, WaitTimesOut, sleep.timeout < MaxEpollTimeout
      PROVE  \E id \in DOMAIN pending : IsDue(pending[id].deadline, checkedAt')
  <2>1. /\ mode = "wait" /\ sleep.timeout >= 0 /\ checkedAt' = clock
        /\ ~ Less(clock, Plus(sleep.from, sleep.timeout))
    BY <1>3 DEF WaitTimesOut, TimersChecked, Timers!ServiceCheck
  <2>2. /\ sleep.timeout \in Nat /\ sleep.from \in TimesRead /\ clock \in TimesRead
        /\ TimerTypes
    BY <1>3, <2>1 DEF LoopTypes, SleepTypes, TimerTypes
  <2>3. PICK id \in DOMAIN pending : sleep.timeout = NextTimeout(sleep.from, pending[id].deadline)
    BY <1>3, <2>1, <2>2 DEF SleepInv, SleepsForTimer
  <2> DEFINE due == pending[id].deadline
             end == Plus(sleep.from, sleep.timeout)
  <2>4. Normalised(clock) /\ Normalised(sleep.from) /\ Normalised(due)
    BY <2>2, TimesReadFacts, PendingFacts
  <2>5. Normalised(end) /\ ~ MillisecondLess(end, due)
    BY <2>3, <2>4, WakesWhenDue
  <2>6. /\ ~ (Milliseconds(end) < Milliseconds(due))
        /\ ~ (Milliseconds(clock) < Milliseconds(end))
    BY <2>1, <2>4, <2>5, ComparisonsMeanTime
  <2>7. Milliseconds(end) = Milliseconds(sleep.from) + sleep.timeout
    BY <2>2, <2>4, PlusExact
  <2>8. Milliseconds(due) <= Milliseconds(clock)
    <3>1. /\ Milliseconds(due) \in Nat /\ Milliseconds(clock) \in Nat
          /\ Milliseconds(sleep.from) \in Nat
      BY <2>2, TimesReadFacts, PendingFacts
    <3> HIDE DEF due, end
    <3> QED
      BY <2>2, <2>6, <2>7, <3>1
  <2> QED
    BY <2>1, <2>2, <2>8, DueMeansTime
<1>4. LoopTypes /\ SleepInv /\ [Next]_vars =>
        [ WaitTimesOut /\ sleep.timeout < MaxEpollTimeout =>
            \E id \in DOMAIN pending : IsDue(pending[id].deadline, checkedAt') ]_vars
  BY <1>3
<1>5. Spec => []LoopTypes
  BY LoopTypesAlways, PTL
<1>6. Spec => [](LoopTypes /\ SleepInv)
  BY <1>1, <1>2, <1>5, PTL DEF Spec
<1> QED
  BY <1>4, <1>6, PTL DEF Spec, SleepsUntilDue
=============================================================================
