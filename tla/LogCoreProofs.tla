---------------------------- MODULE LogCoreProofs ----------------------------
(***************************************************************************)
(* For any number of sinks and loggers, any buffer sizes and any order of  *)
(* registering, adding, wrapping, removing, shrinking and deleting: a sink *)
(* that is alive has one owner and a deleted one none, no sink is given    *)
(* more than its logger's buffer holds, and formatted records end a line.  *)
(***************************************************************************)
EXTENDS LogCore, FiniteSetTheorems, SequenceTheorems, TLAPS

SinkEntry ==
  [sink : Sinks, formatter : Formatters \cup {NoFormatter}, level_filter : Filters]

LoggerObject ==
  [formatter : Formatters \cup {NoFormatter}, level_filter : Filters,
   max_log_size : Nat \ {0}, sinks : Seq(SinkEntry)]

TableTypes ==
  /\ \E n \in 0..MaxLoggers : DOMAIN loggers = 0..(n - 1)
  /\ \A id \in DOMAIN loggers : loggers[id] \in LoggerObject \cup {NoLogger}
  /\ maxLogSize \in Nat \ {0}

SinkTypes ==
  /\ alive \subseteq Sinks /\ callers \subseteq Sinks
  /\ inner \in [Sinks -> Sinks \cup {NoSink}]

(* The i-th sink of logger id is s.                                        *)
Holds(id, i, s) ==
  /\ id \in DOMAIN loggers /\ i \in DOMAIN loggers[id].sinks
  /\ loggers[id].sinks[i].sink = s

(* Who owns what: entries of loggers, the client, and the sink around it,  *)
(* which nobody has wrapped again.                                         *)
EntriesDiffer ==
  \A s \in Sinks : \A id, i, jd, j : Holds(id, i, s) /\ Holds(jd, j, s) => id = jd /\ i = j

OwnersDiffer ==
  /\ \A s \in Sinks : \A id, i :
       Holds(id, i, s) => s \notin callers /\ \A a \in Sinks : inner[a] # s
  /\ \A s \in callers, a \in Sinks : inner[a] # s
  /\ \A a, b \in Sinks : inner[a] = inner[b] /\ inner[a] # NoSink => a = b

AliveAreOwned ==
  \A s \in Sinks :
     s \in alive <=> \/ s \in callers
                     \/ \E a \in Sinks : inner[a] = s
                     \/ \E id, i : Holds(id, i, s)

WrapsOnce == \A a \in Sinks : inner[a] # NoSink => a \in alive /\ inner[inner[a]] = NoSink

Ownership == EntriesDiffer /\ OwnersDiffer /\ AliveAreOwned /\ WrapsOnce

CoreInv == TableTypes /\ SinkTypes /\ Ownership

-----------------------------------------------------------------------------
LEMMA NoLoggerIsNone == NoLogger \notin LoggerObject
BY DEF NoLogger, LoggerObject

LEMMA LoggersAreObjects ==
  ASSUME TableTypes, NEW id, IsLogger(id)
  PROVE  id \in DOMAIN loggers /\ loggers[id] \in LoggerObject
BY DEF TableTypes, IsLogger

LEMMA HoldsOfLogger ==
  ASSUME TableTypes, NEW id, NEW i, NEW s, Holds(id, i, s)
  PROVE  /\ id \in DOMAIN loggers /\ IsLogger(id)
         /\ loggers[id].sinks \in Seq(SinkEntry)
         /\ i \in 1..Len(loggers[id].sinks) /\ s \in Sinks
<1>1. loggers[id] # NoLogger
  BY DEF Holds, NoLogger
<1>2. loggers[id] \in LoggerObject
  BY <1>1 DEF Holds, TableTypes
<1>3. loggers[id].sinks \in Seq(SinkEntry)
  BY <1>2 DEF LoggerObject
<1>4. i \in 1..Len(loggers[id].sinks)
  BY <1>3, LenProperties DEF Holds
<1>5. loggers[id].sinks[i] \in SinkEntry
  BY <1>3, <1>4, ElementOfSeq
<1> QED BY <1>1, <1>3, <1>4, <1>5 DEF Holds, IsLogger, SinkEntry

(* A logger that holds each sink once has no more entries than there are   *)
(* sinks.                                                                  *)
LEMMA EntriesAreFew ==
  ASSUME CoreInv, NEW id, NEW i, NEW s, Holds(id, i, s)
  PROVE  i \in 1..Cardinality(Sinks)
<1> DEFINE l == loggers[id].sinks
           f == [k \in 1..Len(l) |-> l[k].sink]
<1>1. id \in DOMAIN loggers /\ l \in Seq(SinkEntry) /\ i \in 1..Len(l)
  BY HoldsOfLogger DEF CoreInv
<1>2. ASSUME NEW k \in 1..Len(l) PROVE Holds(id, k, l[k].sink) /\ l[k].sink \in Sinks
  <2>1. l[k] \in SinkEntry
    BY <1>1, ElementOfSeq
  <2>2. k \in DOMAIN l
    BY <1>1, LenProperties
  <2> QED BY <1>1, <2>1, <2>2 DEF Holds, SinkEntry
<1>3. f \in [1..Len(l) -> Sinks]
  BY <1>2
<1>4. \A x, y \in 1..Len(l) : f[x] = f[y] => x = y
  BY <1>2 DEF CoreInv, Ownership, EntriesDiffer
<1>5. Len(l) \in Nat
  BY <1>1, LenProperties
<1> DEFINE n == Len(l)
<1> HIDE DEF l, f
<1>6. f \in Injection(1..n, Sinks)
  BY <1>3, <1>4 DEF Injection, IsInjective
<1> HIDE DEF n
<1>7. Cardinality(1..n) <= Cardinality(Sinks)
  BY <1>6, FS_Injection, SinksAssumption
<1>8. Cardinality(1..n) = n /\ n \in Nat
  <2>1. n \in Nat
    BY <1>5 DEF n
  <2> QED BY <2>1, FS_Interval
<1>9. Cardinality(Sinks) \in Nat
  BY FS_CardinalityType, SinksAssumption
<1>10. i \in 1..n
  BY <1>1 DEF n
<1> QED BY <1>7, <1>8, <1>9, <1>10

(* The count of the owners, by the kinds of owner.                         *)
LEMMA CountsByKind ==
  ASSUME CoreInv, NEW s \in Sinks
  PROVE  Owners(s) = IF s \in alive THEN 1 ELSE 0
<1> DEFINE clients == {c \in {"client"} : s \in callers}
           around == {a \in Sinks : inner[a] = s}
           entries == {e \in (DOMAIN loggers) \X (1..Cardinality(Sinks)) :
                         e[2] \in DOMAIN loggers[e[1]].sinks
                           /\ loggers[e[1]].sinks[e[2]].sink = s}
<1>1. Owners(s) = Cardinality(clients) + Cardinality(around) + Cardinality(entries)
  BY DEF Owners, Quantify
<1>2. clients = IF s \in callers THEN {"client"} ELSE {}
  OBVIOUS
<1>3. \A e : e \in entries => e = <<e[1], e[2]>> /\ Holds(e[1], e[2], s)
  BY DEF Holds
<1>4. \A id, i : Holds(id, i, s) => <<id, i>> \in entries
  <2>1. SUFFICES ASSUME NEW id, NEW i, Holds(id, i, s) PROVE <<id, i>> \in entries
    OBVIOUS
  <2>2. i \in 1..Cardinality(Sinks)
    BY <2>1, EntriesAreFew
  <2> QED BY <2>1, <2>2 DEF Holds
<1>5. s # NoSink
  BY LogCoreAssumption
<1>6. Cardinality({}) = 0 /\ \A x : Cardinality({x}) = 1
  BY FS_Singleton, FS_EmptySet
<1> HIDE DEF clients, around, entries
<1>7. CASE s \in callers
  <2>1. clients = {"client"} /\ around = {} /\ entries = {}
    BY <1>2, <1>3, <1>7 DEF CoreInv, Ownership, OwnersDiffer, around
  <2>2. s \in alive
    BY <1>7 DEF CoreInv, Ownership, AliveAreOwned
  <2>3. Cardinality(clients) = 1 /\ Cardinality(around) = 0 /\ Cardinality(entries) = 0
    BY <1>6, <2>1
  <2> QED BY <1>1, <2>2, <2>3
<1>8. CASE \E a \in Sinks : inner[a] = s
  <2>1. PICK a \in Sinks : inner[a] = s
    BY <1>8
  <2>2. around = {a}
    BY <1>5, <2>1 DEF CoreInv, Ownership, OwnersDiffer, around
  <2>3. clients = {} /\ entries = {}
    BY <1>2, <1>3, <2>1 DEF CoreInv, Ownership, OwnersDiffer
  <2>4. s \in alive
    BY <1>8 DEF CoreInv, Ownership, AliveAreOwned
  <2>5. Cardinality(clients) = 0 /\ Cardinality(around) = 1 /\ Cardinality(entries) = 0
    BY <1>6, <2>2, <2>3
  <2> QED BY <1>1, <2>4, <2>5
<1>9. CASE \E id, i : Holds(id, i, s)
  <2>1. PICK id, i : Holds(id, i, s)
    BY <1>9
  <2>2. \A e \in entries : e = <<id, i>>
    BY <1>3, <2>1 DEF CoreInv, Ownership, EntriesDiffer
  <2>3. entries = {<<id, i>>}
    BY <1>4, <2>1, <2>2
  <2>4. clients = {} /\ around = {}
    BY <1>2, <2>1 DEF CoreInv, Ownership, OwnersDiffer, around
  <2>5. s \in alive
    BY <1>9 DEF CoreInv, Ownership, AliveAreOwned
  <2>6. Cardinality(clients) = 0 /\ Cardinality(around) = 0 /\ Cardinality(entries) = 1
    BY <1>6, <2>3, <2>4
  <2> QED BY <1>1, <2>5, <2>6
<1>10. CASE ~ (s \in callers \/ (\E a \in Sinks : inner[a] = s) \/ \E id, i : Holds(id, i, s))
  <2>1. clients = {} /\ around = {} /\ entries = {}
    BY <1>2, <1>3, <1>10 DEF around
  <2>2. s \notin alive
    BY <1>10 DEF CoreInv, Ownership, AliveAreOwned
  <2>3. Cardinality(clients) = 0 /\ Cardinality(around) = 0 /\ Cardinality(entries) = 0
    BY <1>6, <2>1
  <2> QED BY <1>1, <2>2, <2>3
<1> QED BY <1>7, <1>8, <1>9, <1>10

-----------------------------------------------------------------------------
(* What leaves every sink where it is.                                     *)
LEMMA UnmovedKeepsOwnership ==
  ASSUME CoreInv, UNCHANGED <<alive, callers, inner>>,
         \A id, i, s : Holds(id, i, s)' <=> Holds(id, i, s)
  PROVE  SinkTypes' /\ Ownership'
<1>1. SinkTypes'
  BY DEF CoreInv, SinkTypes
<1>2. EntriesDiffer'
  BY DEF CoreInv, Ownership, EntriesDiffer
<1>3. OwnersDiffer'
  BY DEF CoreInv, Ownership, OwnersDiffer
<1>4. AliveAreOwned'
  BY DEF CoreInv, Ownership, AliveAreOwned
<1>5. WrapsOnce'
  BY DEF CoreInv, Ownership, WrapsOnce
<1> QED BY <1>1, <1>2, <1>3, <1>4, <1>5 DEF Ownership

LEMMA SameTableKeepsOwnership ==
  ASSUME CoreInv, UNCHANGED <<loggers, alive, callers, inner>>
  PROVE  SinkTypes' /\ Ownership'
<1>1. \A id, i, s : Holds(id, i, s)' <=> Holds(id, i, s)
  BY DEF Holds
<1> QED BY <1>1, UnmovedKeepsOwnership

(* ~Logger, or the client, deletes the sinks it owned, and with each the   *)
(* one it wraps (log_core.cc:46-52).                                       *)
LEMMA DeleteKeepsOwnership ==
  ASSUME CoreInv, NEW S, S \subseteq Sinks, Delete(S), callers' = callers \ S,
         \A id, i, s : Holds(id, i, s)' <=> Holds(id, i, s) /\ s \notin S,
         \A s \in S : s \in callers \/ \E id, i : Holds(id, i, s)
  PROVE  SinkTypes' /\ Ownership'
<1>1. /\ \A s : s \in alive' <=> /\ s \in alive /\ s \notin S
                                 /\ \A b \in S : inner[b] = s => s = NoSink
      /\ inner' = [s \in Sinks |-> IF s \in S THEN NoSink ELSE inner[s]]
  BY DEF Delete, WithInner
<1>2. SinkTypes'
  BY <1>1 DEF CoreInv, SinkTypes
<1>3. \A s \in S, a \in Sinks : inner[a] # s
  BY DEF CoreInv, Ownership, OwnersDiffer
<1>4. \A a \in Sinks : inner'[a] # NoSink => a \notin S /\ inner'[a] = inner[a]
  BY <1>1
<1>5. EntriesDiffer'
  BY DEF CoreInv, Ownership, EntriesDiffer
<1>6. OwnersDiffer'
  <2>1. ASSUME NEW s \in Sinks, NEW id, NEW i, Holds(id, i, s)'
        PROVE  s \notin callers' /\ \A a \in Sinks : inner'[a] # s
    BY <1>4, <2>1, LogCoreAssumption DEF CoreInv, Ownership, OwnersDiffer
  <2>2. ASSUME NEW s \in callers', NEW a \in Sinks PROVE inner'[a] # s
    <3>1. s \in callers /\ s # NoSink
      BY LogCoreAssumption DEF CoreInv, SinkTypes
    <3> QED BY <1>4, <3>1 DEF CoreInv, Ownership, OwnersDiffer
  <2>3. ASSUME NEW a \in Sinks, NEW b \in Sinks, inner'[a] = inner'[b], inner'[a] # NoSink
        PROVE  a = b
    BY <1>4, <2>3 DEF CoreInv, Ownership, OwnersDiffer
  <2> QED BY <2>1, <2>2, <2>3 DEF OwnersDiffer
<1>7. AliveAreOwned'
  <2>1. ASSUME NEW s \in Sinks, s \in alive'
        PROVE  \/ s \in callers'
               \/ \E a \in Sinks : inner'[a] = s
               \/ \E id, i : Holds(id, i, s)'
    <3>1. s \in alive /\ s \notin S /\ s # NoSink /\ \A b \in S : inner[b] # s
      BY <1>1, <2>1, LogCoreAssumption
    <3>2. CASE s \in callers
      BY <3>1, <3>2
    <3>3. CASE \E a \in Sinks : inner[a] = s
      <4>1. PICK a \in Sinks : inner[a] = s
        BY <3>3
      <4>2. inner'[a] = s
        BY <1>1, <3>1, <4>1
      <4> QED BY <4>2
    <3>4. CASE \E id, i : Holds(id, i, s)
      BY <3>1, <3>4
    <3> QED BY <3>1, <3>2, <3>3, <3>4 DEF CoreInv, Ownership, AliveAreOwned
  <2>2. ASSUME NEW s \in Sinks, s \in callers' PROVE s \in alive'
    <3>1. s \in callers /\ s \notin S /\ s \in alive
      BY <2>2 DEF CoreInv, Ownership, AliveAreOwned
    <3>2. \A b \in S : inner[b] # s
      BY <3>1 DEF CoreInv, Ownership, OwnersDiffer
    <3> QED BY <1>1, <3>1, <3>2
  <2>3. ASSUME NEW s \in Sinks, NEW a \in Sinks, inner'[a] = s PROVE s \in alive'
    <3>1. a \notin S /\ inner[a] = s /\ s # NoSink
      BY <1>4, <2>3, LogCoreAssumption
    <3>2. s \in alive
      BY <3>1 DEF CoreInv, Ownership, AliveAreOwned
    <3>3. s \notin S
      BY <1>3, <3>1
    <3>4. \A b \in S : inner[b] # s
      BY <3>1 DEF CoreInv, Ownership, OwnersDiffer
    <3> QED BY <1>1, <3>2, <3>3, <3>4
  <2>4. ASSUME NEW s \in Sinks, NEW id, NEW i, Holds(id, i, s)' PROVE s \in alive'
    <3>1. Holds(id, i, s) /\ s \notin S
      BY <2>4
    <3>2. s \in alive
      BY <3>1 DEF CoreInv, Ownership, AliveAreOwned
    <3>3. \A b \in S : inner[b] # s
      BY <3>1 DEF CoreInv, Ownership, OwnersDiffer
    <3> QED BY <1>1, <3>1, <3>2, <3>3
  <2> QED BY <2>1, <2>2, <2>3, <2>4 DEF AliveAreOwned
<1>8. WrapsOnce'
  <2>1. SUFFICES ASSUME NEW a \in Sinks, inner'[a] # NoSink
                 PROVE  a \in alive' /\ inner'[inner'[a]] = NoSink
    BY DEF WrapsOnce
  <2>2. a \notin S /\ inner'[a] = inner[a]
    BY <1>4, <2>1
  <2>3. a \in alive /\ inner[inner[a]] = NoSink /\ inner[a] \in Sinks
    BY <2>1, <2>2 DEF CoreInv, SinkTypes, Ownership, WrapsOnce
  <2>4. \A b \in S : inner[b] # a
    <3>1. SUFFICES ASSUME NEW b \in S, inner[b] = a PROVE FALSE
      OBVIOUS
    <3>2. inner[b] # NoSink
      BY <3>1, LogCoreAssumption
    <3> QED BY <2>1, <2>2, <3>1, <3>2 DEF CoreInv, Ownership, WrapsOnce
  <2> QED BY <1>1, <2>2, <2>3, <2>4
<1> QED BY <1>2, <1>5, <1>6, <1>7, <1>8 DEF Ownership

-----------------------------------------------------------------------------
(* Setting up, call by call.                                               *)
LEMMA SetMaxLoggerCountKeeps ==
  ASSUME CoreInv, NEW count \in -1..MaxLoggers, SetMaxLoggerCount(count)
  PROVE  CoreInv'
<1>1. CASE count < 0
  <2>1. UNCHANGED <<loggers, maxLogSize, callers, alive, inner>>
    BY <1>1 DEF SetMaxLoggerCount
  <2> QED BY <2>1, SameTableKeepsOwnership DEF CoreInv, TableTypes
<1>2. CASE ~(count < 0)
  <2> DEFINE S == UNION {SinksOf(loggers[id]) : id \in {j \in DOMAIN loggers : j >= count}}
  <2>1. /\ Delete(S) /\ callers' = callers /\ maxLogSize' = maxLogSize
        /\ loggers' = [id \in 0..(count - 1) |->
                         IF id \in DOMAIN loggers THEN loggers[id] ELSE NoLogger]
    BY <1>2 DEF SetMaxLoggerCount
  <2>2. count \in 0..MaxLoggers
    BY <1>2, LogCoreAssumption
  <2>3. TableTypes'
    BY <2>1, <2>2 DEF CoreInv, TableTypes
  <2>4. PICK n \in 0..MaxLoggers : DOMAIN loggers = 0..(n - 1)
    BY DEF CoreInv, TableTypes
  <2>5. \A s : s \in S <=> \E id, i : id >= count /\ Holds(id, i, s)
    BY DEF SinksOf, Holds
  <2> HIDE DEF S
  <2>6. S \subseteq Sinks /\ \A s \in S : \E id, i : Holds(id, i, s)
    BY <2>5, HoldsOfLogger DEF CoreInv
  <2>7. callers' = callers \ S
    BY <2>1, <2>6 DEF CoreInv, Ownership, OwnersDiffer
  <2>8. ASSUME NEW id, NEW i, NEW s
        PROVE  Holds(id, i, s)' <=> Holds(id, i, s) /\ s \notin S
    <3>1. Holds(id, i, s)' <=> Holds(id, i, s) /\ id < count
      <4>1. CASE id \in 0..(count - 1) /\ id \in DOMAIN loggers
        <5>1. loggers'[id] = loggers[id] /\ id \in DOMAIN loggers' /\ id < count
          BY <2>1, <2>2, <4>1
        <5> QED BY <4>1, <5>1 DEF Holds
      <4>2. CASE id \in 0..(count - 1) /\ id \notin DOMAIN loggers
        <5>1. loggers'[id] = NoLogger
          BY <2>1, <4>2
        <5>2. DOMAIN loggers'[id].sinks = {}
          BY <5>1 DEF NoLogger
        <5> QED BY <4>2, <5>2 DEF Holds
      <4>3. CASE id \notin 0..(count - 1)
        <5>1. id \notin DOMAIN loggers'
          BY <2>1, <4>3
        <5>2. id \in DOMAIN loggers => ~(id < count)
          BY <2>2, <2>4, <4>3
        <5> QED BY <5>1, <5>2 DEF Holds
      <4> QED BY <4>1, <4>2, <4>3
    <3>2. ASSUME Holds(id, i, s) PROVE s \in S <=> ~(id < count)
      <4>1. id \in Int /\ count \in Int /\ s \in Sinks
        BY <2>2, <2>4, <3>2, HoldsOfLogger DEF Holds, CoreInv
      <4>2. \A jd, j : Holds(jd, j, s) => jd = id
        BY <3>2, <4>1 DEF CoreInv, Ownership, EntriesDiffer
      <4>3. s \in S <=> id >= count
        BY <2>5, <3>2, <4>2
      <4> QED BY <4>1, <4>3
    <3> QED BY <3>1, <3>2
  <2>9. SinkTypes' /\ Ownership'
    BY <2>1, <2>6, <2>7, <2>8, DeleteKeepsOwnership
  <2> QED BY <2>3, <2>9 DEF CoreInv
<1> QED BY <1>1, <1>2

LEMMA SetMaxLogSizeKeeps ==
  ASSUME CoreInv, NEW size \in LogSizes, SetMaxLogSize(size) PROVE CoreInv'
<1>1. size \in Int /\ UNCHANGED <<loggers, alive, callers, inner>>
  BY LogCoreAssumption DEF SetMaxLogSize
<1>2. maxLogSize' \in Nat \ {0}
  BY <1>1 DEF SetMaxLogSize, CoreInv, TableTypes
<1>3. TableTypes'
  BY <1>1, <1>2 DEF CoreInv, TableTypes
<1> QED BY <1>1, <1>3, SameTableKeepsOwnership DEF CoreInv

(* A table in which one logger is put in another's place.                  *)
LEMMA ReplacedKeepsTypes ==
  ASSUME CoreInv, NEW id \in DOMAIN loggers, NEW l \in LoggerObject \cup {NoLogger},
         loggers' = [loggers EXCEPT ![id] = l], maxLogSize' = maxLogSize
  PROVE  /\ TableTypes' /\ DOMAIN loggers' = DOMAIN loggers
         /\ loggers'[id] = l /\ \A jd \in DOMAIN loggers : jd # id => loggers'[jd] = loggers[jd]
BY DEF CoreInv, TableTypes

LEMMA RegisterLoggerKeeps ==
  ASSUME CoreInv, NEW id, NEW f \in Formatters \cup {NoFormatter}, NEW filter \in Filters,
         RegisterLogger(id, f, filter)
  PROVE  CoreInv'
<1>1. CASE ~CanRegister(id)
  <2>1. UNCHANGED <<loggers, maxLogSize, callers, alive, inner>>
    BY <1>1 DEF RegisterLogger
  <2> QED BY <2>1, SameTableKeepsOwnership DEF CoreInv, TableTypes
<1>2. CASE CanRegister(id)
  <2> DEFINE l == Registered(f, filter)
  <2>1. /\ loggers' = [loggers EXCEPT ![id] = l] /\ id \in DOMAIN loggers /\ loggers[id] = NoLogger
        /\ UNCHANGED <<maxLogSize, alive, callers, inner>>
    BY <1>2 DEF RegisterLogger, CanRegister, IsLogger
  <2>2. l \in LoggerObject /\ l.sinks = <<>>
    BY DEF Registered, LoggerObject, CoreInv, TableTypes
  <2> HIDE DEF l
  <2>3. /\ TableTypes' /\ DOMAIN loggers' = DOMAIN loggers
        /\ loggers'[id] = l /\ \A jd \in DOMAIN loggers : jd # id => loggers'[jd] = loggers[jd]
    BY <2>1, <2>2, ReplacedKeepsTypes
  <2>4. DOMAIN loggers[id].sinks = {} /\ DOMAIN loggers'[id].sinks = {}
    BY <2>1, <2>2, <2>3 DEF NoLogger
  <2>5. \A jd, i, s : Holds(jd, i, s)' <=> Holds(jd, i, s)
    BY <2>3, <2>4 DEF Holds
  <2> QED BY <2>1, <2>3, <2>5, UnmovedKeepsOwnership DEF CoreInv
<1> QED BY <1>1, <1>2

LEMMA RemoveLoggerKeeps ==
  ASSUME CoreInv, NEW id, RemoveLogger(id) PROVE CoreInv'
<1>1. CASE ~IsLogger(id)
  <2>1. UNCHANGED <<loggers, maxLogSize, callers, alive, inner>>
    BY <1>1 DEF RemoveLogger
  <2> QED BY <2>1, SameTableKeepsOwnership DEF CoreInv, TableTypes
<1>2. CASE IsLogger(id)
  <2> DEFINE S == SinksOf(loggers[id])
  <2>1. /\ Delete(S) /\ loggers' = [loggers EXCEPT ![id] = NoLogger] /\ id \in DOMAIN loggers
        /\ UNCHANGED <<maxLogSize, callers>>
    BY <1>2 DEF RemoveLogger, IsLogger
  <2>2. /\ TableTypes' /\ DOMAIN loggers' = DOMAIN loggers
        /\ loggers'[id] = NoLogger
        /\ \A jd \in DOMAIN loggers : jd # id => loggers'[jd] = loggers[jd]
    BY <2>1, ReplacedKeepsTypes
  <2>3. \A s : s \in S <=> \E i : Holds(id, i, s)
    BY <2>1 DEF SinksOf, Holds
  <2> HIDE DEF S
  <2>4. S \subseteq Sinks /\ \A s \in S : \E jd, i : Holds(jd, i, s)
    BY <2>3, HoldsOfLogger DEF CoreInv
  <2>5. callers' = callers \ S
    BY <2>1, <2>4 DEF CoreInv, Ownership, OwnersDiffer
  <2>6. ASSUME NEW jd, NEW i, NEW s
        PROVE  Holds(jd, i, s)' <=> Holds(jd, i, s) /\ s \notin S
    <3>1. DOMAIN loggers'[id].sinks = {}
      BY <2>2 DEF NoLogger
    <3>2. Holds(jd, i, s)' <=> Holds(jd, i, s) /\ jd # id
      BY <2>2, <3>1 DEF Holds
    <3>3. ASSUME Holds(jd, i, s) PROVE s \in S <=> jd = id
      <4>1. s \in Sinks
        BY <3>3, HoldsOfLogger DEF CoreInv
      <4> QED BY <2>3, <3>3, <4>1 DEF CoreInv, Ownership, EntriesDiffer
    <3> QED BY <3>2, <3>3
  <2>7. SinkTypes' /\ Ownership'
    BY <2>1, <2>4, <2>5, <2>6, DeleteKeepsOwnership
  <2> QED BY <2>2, <2>7 DEF CoreInv
<1> QED BY <1>1, <1>2

LEMMA SetLevelFilterKeeps ==
  ASSUME CoreInv, NEW id, NEW filter \in Filters, SetLevelFilter(id, filter) PROVE CoreInv'
<1>1. CASE ~IsLogger(id)
  <2>1. UNCHANGED <<loggers, maxLogSize, callers, alive, inner>>
    BY <1>1 DEF SetLevelFilter
  <2> QED BY <2>1, SameTableKeepsOwnership DEF CoreInv, TableTypes
<1>2. CASE IsLogger(id)
  <2> DEFINE l == [loggers[id] EXCEPT !.level_filter = filter]
  <2>1. /\ loggers' = [loggers EXCEPT ![id] = l] /\ UNCHANGED <<maxLogSize, alive, callers, inner>>
    BY <1>2 DEF SetLevelFilter
  <2>2. id \in DOMAIN loggers /\ loggers[id] \in LoggerObject
    BY <1>2, LoggersAreObjects DEF CoreInv
  <2>3. l \in LoggerObject /\ l.sinks = loggers[id].sinks
    BY <2>2 DEF LoggerObject
  <2> HIDE DEF l
  <2>4. /\ TableTypes' /\ DOMAIN loggers' = DOMAIN loggers
        /\ loggers'[id] = l /\ \A jd \in DOMAIN loggers : jd # id => loggers'[jd] = loggers[jd]
    BY <2>1, <2>2, <2>3, ReplacedKeepsTypes
  <2>5. \A jd, i, s : Holds(jd, i, s)' <=> Holds(jd, i, s)
    BY <2>3, <2>4 DEF Holds
  <2> QED BY <2>1, <2>4, <2>5, UnmovedKeepsOwnership DEF CoreInv
<1> QED BY <1>1, <1>2

(* addSink(): the entry takes over what the client held.                   *)
LEMMA AddSinkKeeps ==
  ASSUME CoreInv, NEW id, NEW t \in Sinks, NEW f \in Formatters \cup {NoFormatter},
         NEW filter \in Filters, AddSink(id, t, f, filter)
  PROVE  CoreInv'
<1>1. CASE ~IsLogger(id)
  <2>1. UNCHANGED <<loggers, maxLogSize, callers, alive, inner>>
    BY <1>1 DEF AddSink
  <2> QED BY <2>1, SameTableKeepsOwnership DEF CoreInv, TableTypes
<1>2. CASE IsLogger(id)
  <2> DEFINE old == loggers[id].sinks
             e == Attached(t, f, filter)
             l == [loggers[id] EXCEPT !.sinks = Append(old, e)]
             n == Len(old)
  <2>1. /\ loggers' = [loggers EXCEPT ![id] = l] /\ callers' = callers \ {t} /\ t \in callers
        /\ UNCHANGED <<maxLogSize, alive, inner>>
    BY <1>2 DEF AddSink
  <2>2. id \in DOMAIN loggers /\ loggers[id] \in LoggerObject
    BY <1>2, LoggersAreObjects DEF CoreInv
  <2>3. old \in Seq(SinkEntry) /\ e \in SinkEntry /\ e.sink = t
    BY <2>2 DEF LoggerObject, SinkEntry, Attached
  <2> HIDE DEF e
  <2>4. /\ Append(old, e) \in Seq(SinkEntry) /\ n \in Nat
        /\ DOMAIN Append(old, e) = 1..(n + 1) /\ DOMAIN old = 1..n
        /\ Append(old, e)[n + 1] = e /\ \A i \in 1..n : Append(old, e)[i] = old[i]
    BY <2>3, AppendProperties, LenProperties
  <2>5. l \in LoggerObject /\ l.sinks = Append(old, e)
    BY <2>2, <2>4 DEF LoggerObject
  <2> HIDE DEF l
  <2>6. /\ TableTypes' /\ DOMAIN loggers' = DOMAIN loggers
        /\ loggers'[id] = l /\ \A jd \in DOMAIN loggers : jd # id => loggers'[jd] = loggers[jd]
    BY <2>1, <2>2, <2>5, ReplacedKeepsTypes
  <2>7. ~Holds(id, n + 1, t) /\ \A jd, i : ~Holds(jd, i, t)
    BY <2>1 DEF CoreInv, Ownership, OwnersDiffer
  <2>8. ASSUME NEW jd, NEW i, NEW s
        PROVE  Holds(jd, i, s)' <=> Holds(jd, i, s) \/ (jd = id /\ i = n + 1 /\ s = t)
    <3>1. CASE jd # id
      BY <2>6, <3>1 DEF Holds
    <3>2. CASE jd = id
      <4>1. Holds(jd, i, s)' <=> i \in 1..(n + 1) /\ Append(old, e)[i].sink = s
        BY <2>2, <2>4, <2>5, <2>6, <3>2 DEF Holds
      <4>2. Holds(jd, i, s) <=> i \in 1..n /\ old[i].sink = s
        BY <2>2, <2>4, <3>2 DEF Holds
      <4>3. i \in 1..(n + 1) <=> i \in 1..n \/ i = n + 1
        BY <2>4
      <4>4. n + 1 \notin 1..n
        BY <2>4
      <4> HIDE DEF old, n
      <4> QED BY <2>3, <2>4, <3>2, <4>1, <4>2, <4>3, <4>4
    <3> QED BY <3>1, <3>2
  <2> HIDE DEF old, n
  <2>9. SinkTypes'
    BY <2>1 DEF CoreInv, SinkTypes
  <2>10. EntriesDiffer'
    BY <2>7, <2>8 DEF CoreInv, Ownership, EntriesDiffer
  <2>11. OwnersDiffer'
    BY <2>1, <2>7, <2>8 DEF CoreInv, Ownership, OwnersDiffer
  <2>12. AliveAreOwned'
    <3>1. \A s \in Sinks : (\E jd, i : Holds(jd, i, s)') <=> (\E jd, i : Holds(jd, i, s)) \/ s = t
      BY <2>8
    <3> QED BY <2>1, <3>1 DEF CoreInv, Ownership, AliveAreOwned
  <2>13. WrapsOnce'
    BY <2>1 DEF CoreInv, Ownership, WrapsOnce
  <2> QED BY <2>6, <2>9, <2>10, <2>11, <2>12, <2>13 DEF CoreInv, Ownership
<1> QED BY <1>1, <1>2

-----------------------------------------------------------------------------
(* The client: what it constructs is its own.                              *)
LEMMA NobodyOwnsTheDead ==
  ASSUME CoreInv, NEW s \in Sinks, s \notin alive
  PROVE  /\ s \notin callers /\ inner[s] = NoSink /\ \A a \in Sinks : inner[a] # s
         /\ \A id, i : ~Holds(id, i, s)
BY DEF CoreInv, Ownership, AliveAreOwned, WrapsOnce

LEMMA NewSinkKeeps ==
  ASSUME CoreInv, NEW t \in Sinks, NewSink(t) PROVE CoreInv'
<1>1. /\ t \notin alive /\ alive' = alive \cup {t} /\ callers' = callers \cup {t}
      /\ UNCHANGED <<loggers, maxLogSize, inner>>
  BY DEF NewSink
<1>2. \A id, i, s : Holds(id, i, s)' <=> Holds(id, i, s)
  BY <1>1 DEF Holds
<1>3. /\ t \notin callers /\ inner[t] = NoSink /\ \A a \in Sinks : inner[a] # t
      /\ \A id, i : ~Holds(id, i, t)
  BY <1>1, NobodyOwnsTheDead
<1>4. TableTypes' /\ SinkTypes'
  BY <1>1 DEF CoreInv, TableTypes, SinkTypes
<1>5. EntriesDiffer'
  BY <1>2 DEF CoreInv, Ownership, EntriesDiffer
<1>6. OwnersDiffer'
  BY <1>1, <1>2, <1>3 DEF CoreInv, Ownership, OwnersDiffer
<1>7. AliveAreOwned'
  BY <1>1, <1>2 DEF CoreInv, Ownership, AliveAreOwned
<1>8. WrapsOnce'
  BY <1>1 DEF CoreInv, Ownership, WrapsOnce
<1> QED BY <1>4, <1>5, <1>6, <1>7, <1>8 DEF CoreInv, Ownership

LEMMA WrapSinkKeeps ==
  ASSUME CoreInv, NEW t \in Sinks, NEW u \in Sinks, WrapSink(t, u) PROVE CoreInv'
<1>1. /\ t \in callers /\ inner[t] = NoSink /\ u \notin alive /\ alive' = alive \cup {u}
      /\ callers' = (callers \ {t}) \cup {u}
      /\ inner' = [inner EXCEPT ![u] = t]
      /\ UNCHANGED <<loggers, maxLogSize>>
  BY DEF WrapSink
<1>2. \A id, i, s : Holds(id, i, s)' <=> Holds(id, i, s)
  BY <1>1 DEF Holds
<1>3. /\ u \notin callers /\ inner[u] = NoSink /\ \A a \in Sinks : inner[a] # u
      /\ \A id, i : ~Holds(id, i, u)
  BY <1>1, NobodyOwnsTheDead
<1>4. t # u /\ t # NoSink /\ u # NoSink /\ t \in alive
  BY <1>1, <1>3, LogCoreAssumption DEF CoreInv, Ownership, AliveAreOwned
<1>5. (\A a \in Sinks : inner[a] # t) /\ \A id, i : ~Holds(id, i, t)
  BY <1>1 DEF CoreInv, Ownership, OwnersDiffer
<1>6. inner'[u] = t /\ \A a \in Sinks : a # u => inner'[a] = inner[a]
  BY <1>1 DEF CoreInv, SinkTypes
<1>7. TableTypes' /\ SinkTypes'
  BY <1>1 DEF CoreInv, TableTypes, SinkTypes
<1>8. EntriesDiffer'
  BY <1>2 DEF CoreInv, Ownership, EntriesDiffer
<1>9. OwnersDiffer'
  <2>1. ASSUME NEW s \in Sinks, NEW id, NEW i, Holds(id, i, s)'
        PROVE  s \notin callers' /\ \A a \in Sinks : inner'[a] # s
    BY <1>1, <1>2, <1>3, <1>5, <1>6, <2>1 DEF CoreInv, Ownership, OwnersDiffer
  <2>2. ASSUME NEW s \in callers', NEW a \in Sinks PROVE inner'[a] # s
    BY <1>1, <1>3, <1>4, <1>6 DEF CoreInv, Ownership, OwnersDiffer
  <2>3. ASSUME NEW a \in Sinks, NEW b \in Sinks, inner'[a] = inner'[b], inner'[a] # NoSink
        PROVE  a = b
    BY <1>5, <1>6, <2>3 DEF CoreInv, Ownership, OwnersDiffer
  <2> QED BY <2>1, <2>2, <2>3 DEF OwnersDiffer
<1>10. AliveAreOwned'
  <2>1. \A s \in Sinks : (\E a \in Sinks : inner'[a] = s) <=> (\E a \in Sinks : inner[a] = s) \/ s = t
    <3>1. ASSUME NEW s \in Sinks, NEW a \in Sinks, inner[a] = s PROVE inner'[a] = s
      BY <1>3, <1>6, <3>1, LogCoreAssumption
    <3> QED BY <1>6, <3>1
  <2> QED BY <1>1, <1>2, <1>4, <2>1 DEF CoreInv, Ownership, AliveAreOwned
<1>11. WrapsOnce'
  <2>1. SUFFICES ASSUME NEW a \in Sinks, inner'[a] # NoSink
                 PROVE  a \in alive' /\ inner'[inner'[a]] = NoSink
    BY DEF WrapsOnce
  <2>2. CASE a = u
    BY <1>1, <1>4, <1>6, <2>2
  <2>3. CASE a # u
    <3>1. inner'[a] = inner[a] /\ a \in alive /\ inner[inner[a]] = NoSink
      BY <1>6, <2>1, <2>3 DEF CoreInv, Ownership, WrapsOnce
    <3>2. inner[a] \in Sinks /\ inner[a] # u
      BY <1>3, <2>1, <3>1 DEF CoreInv, SinkTypes
    <3> QED BY <1>1, <1>6, <3>1, <3>2
  <2> QED BY <2>2, <2>3
<1> QED BY <1>7, <1>8, <1>9, <1>10, <1>11 DEF CoreInv, Ownership

LEMMA DeleteSinkKeeps ==
  ASSUME CoreInv, NEW t \in Sinks, DeleteSink(t) PROVE CoreInv'
<1>1. t \in callers /\ Delete({t}) /\ callers' = callers \ {t} /\ UNCHANGED <<loggers, maxLogSize>>
  BY DEF DeleteSink
<1>2. \A id, i, s : Holds(id, i, s)' <=> Holds(id, i, s)
  BY <1>1 DEF Holds
<1>3. \A id, i : ~Holds(id, i, t)
  BY <1>1 DEF CoreInv, Ownership, OwnersDiffer
<1>4. \A id, i, s : Holds(id, i, s)' <=> Holds(id, i, s) /\ s \notin {t}
  BY <1>2, <1>3
<1>5. {t} \subseteq Sinks /\ \A s \in {t} : s \in callers \/ \E id, i : Holds(id, i, s)
  BY <1>1
<1>6. SinkTypes' /\ Ownership'
  BY <1>1, <1>4, <1>5, DeleteKeepsOwnership
<1> QED BY <1>1, <1>6 DEF CoreInv, TableTypes

-----------------------------------------------------------------------------
LEMMA InitCoreInv == Init => CoreInv
<1>1. SUFFICES ASSUME Init PROVE CoreInv
  OBVIOUS
<1>2. DOMAIN loggers = {0} /\ loggers[0] = NoLogger /\ maxLogSize = DefaultLogSize
      /\ alive = {} /\ callers = {} /\ inner = [s \in Sinks |-> NoSink]
  BY <1>1 DEF Init
<1>3. TableTypes
  <2>1. 1 \in 0..MaxLoggers /\ 0..(1 - 1) = {0}
    BY LogCoreAssumption
  <2> QED BY <1>2, <2>1, LogCoreAssumption DEF TableTypes
<1>4. \A id, i, s : ~Holds(id, i, s)
  <2>1. DOMAIN loggers[0].sinks = {}
    BY <1>2 DEF NoLogger
  <2> QED BY <1>2, <2>1 DEF Holds
<1> QED
  BY <1>2, <1>3, <1>4, LogCoreAssumption
     DEF CoreInv, SinkTypes, Ownership, EntriesDiffer, OwnersDiffer, AliveAreOwned, WrapsOnce

LEMMA NextCoreInv == ASSUME CoreInv, [Next]_coreVars PROVE CoreInv'
<1>1. ASSUME UNCHANGED <<loggers, maxLogSize, alive, callers, inner>> PROVE CoreInv'
  BY <1>1, SameTableKeepsOwnership DEF CoreInv, TableTypes
<1>2. ASSUME NEW id \in Ids, NEW level, NEW text, Log(id, level, text) \/ PlainLog(id, level, text)
      PROVE  CoreInv'
  BY <1>1, <1>2 DEF Log, PlainLog
<1>3. CASE UNCHANGED coreVars
  BY <1>1, <1>3 DEF coreVars
<1> QED
  BY <1>2, <1>3, SetMaxLoggerCountKeeps, SetMaxLogSizeKeeps, RegisterLoggerKeeps, AddSinkKeeps,
     RemoveLoggerKeeps, SetLevelFilterKeeps, NewSinkKeeps, DeleteSinkKeeps, WrapSinkKeeps
  DEF Next

(* The table is one of loggers with a buffer that can be used, and the     *)
(* client holds only live sinks, after any calls (log_core.cc:171-272).    *)
THEOREM TypeCorrect == Spec => []TypeOK
<1>1. CoreInv => TypeOK
  <2>1. SUFFICES ASSUME CoreInv PROVE TypeOK
    OBVIOUS
  <2>2. ASSUME NEW id \in DOMAIN loggers PROVE LoggerRecord(loggers[id])
    <3>1. CASE loggers[id] = NoLogger
      BY <3>1 DEF LoggerRecord
    <3>2. CASE loggers[id] \in LoggerObject
      <4>1. loggers[id].sinks \in Seq(SinkEntry)
        BY <3>2 DEF LoggerObject
      <4>2. \A i \in DOMAIN loggers[id].sinks : loggers[id].sinks[i] \in SinkEntry
        BY <4>1, LenProperties, ElementOfSeq
      <4> QED BY <3>2, <4>2 DEF LoggerRecord, LoggerObject, SinkEntry
    <3> QED BY <2>1, <3>1, <3>2 DEF CoreInv, TableTypes
  <2>3. callers \subseteq alive
    BY <2>1 DEF CoreInv, SinkTypes, Ownership, AliveAreOwned
  <2> QED BY <2>1, <2>2, <2>3 DEF TypeOK, CoreInv, TableTypes, SinkTypes
<1> QED BY <1>1, InitCoreInv, NextCoreInv, PTL DEF Spec

(* Whatever is registered, added, wrapped, removed, shrunk away or deleted,*)
(* in whatever order and with whatever failures, every live sink has one   *)
(* owner and no other: nothing leaks and nothing is deleted twice          *)
(* (log_core.cc:46-52, 183-245).                                           *)
THEOREM OwnershipCorrect == Spec => []SinksOwnedOnce
<1>1. CoreInv => SinksOwnedOnce
  BY CountsByKind DEF SinksOwnedOnce
<1> QED BY <1>1, InitCoreInv, NextCoreInv, PTL DEF Spec

-----------------------------------------------------------------------------
(* What is printed.                                                        *)
LEMMA PrintedFits ==
  ASSUME NEW size \in Nat \ {0}, NEW text \in Nat
  PROVE  Printed(size, text).count \in 0..size /\ Printed(size, text).format = NoFormatter
BY DEF Printed, Record, Smaller

LEMMA FormattedEndsTheLine ==
  ASSUME NEW f, NEW size \in Nat \ {0}, NEW level \in Levels, NEW text \in Nat
  PROVE  LET r == Formatted(f, size, level, text) IN
         /\ r.count \in 0..size
         /\ r.count > 0 => r.ends = "newline"
<1> DEFINE upTo == HeaderLength + text
           count == IF upTo >= size THEN upTo ELSE upTo + 1
           r == Formatted(f, size, level, text)
<1>1. upTo \in Nat /\ count \in Nat /\ count > 0
  BY LogCoreAssumption
<1>2. CASE count >= size
  <2>1. r = Record(f, size - 1, IF size >= 2 THEN "newline" ELSE "nothing", FALSE)
    BY <1>2 DEF Formatted
  <2> QED BY <2>1 DEF Record
<1>3. CASE ~(count >= size)
  <2>1. r = Record(f, count, "newline", TRUE)
    BY <1>3 DEF Formatted
  <2>2. r.count = count /\ r.ends = "newline"
    BY <2>1 DEF Record
  <2> HIDE DEF count, r
  <2> QED BY <1>1, <1>3, <2>2 DEF r
<1> QED BY <1>2, <1>3

LEMMA MadeFitsAndEnds ==
  ASSUME NEW logger \in LoggerObject, NEW level \in Levels, NEW text \in Texts
  PROVE  LET r == Made(logger, level, text) IN
         /\ r.count \in 0..logger.max_log_size
         /\ r.format # NoFormatter /\ r.count > 0 => r.ends = "newline"
<1> DEFINE size == logger.max_log_size
           own == logger.sinks[Min(Passing(logger, level))].formatter
           f   == IF own # NoFormatter THEN own ELSE logger.formatter
           p   == IF f = NoFormatter THEN Printed(size, text) ELSE Formatted(f, size, level, text)
<1>1. size \in Nat \ {0} /\ text \in Nat
  BY LogCoreAssumption DEF LoggerObject, Texts
<1>2. Made(logger, level, text) = [p EXCEPT !.count = Smaller(p.count, size)]
  BY DEF Made
<1> HIDE DEF f, size
<1>3. p = [format |-> p.format, count |-> p.count, ends |-> p.ends, whole |-> p.whole]
  BY DEF Printed, Formatted, Record
<1>4. /\ p.count \in 0..size
      /\ p.format # NoFormatter /\ p.count > 0 => p.ends = "newline"
  <2>1. CASE f = NoFormatter
    BY <1>1, <2>1, PrintedFits
  <2>2. CASE f # NoFormatter
    BY <1>1, <2>2, FormattedEndsTheLine
  <2> QED BY <2>1, <2>2
<1> HIDE DEF p
<1>5. Smaller(p.count, size) = p.count
  BY <1>1, <1>4 DEF Smaller
<1>6. Made(logger, level, text) = [format |-> p.format, count |-> p.count, ends |-> p.ends,
                                   whole |-> p.whole]
  BY <1>2, <1>3, <1>5
<1> QED BY <1>4, <1>6 DEF size

LogInv == BytesWithinBuffer /\ LinesEnd

LEMMA NoCallFits == ASSUME last' = NoCall PROVE LogInv'
<1>1. DOMAIN last'.bytes = {}
  BY DEF NoCall
<1> QED BY <1>1 DEF LogInv, BytesWithinBuffer, LinesEnd

LEMMA LogKeeps ==
  ASSUME CoreInv, NEW id, NEW level \in Levels, NEW text \in Texts, Log(id, level, text)
  PROVE  LogInv'
<1>1. CASE ~IsLogger(id)
  BY <1>1, NoCallFits DEF Log
<1>2. CASE IsLogger(id)
  <2> DEFINE logger == loggers[id]
  <2>1. logger \in LoggerObject
    BY <1>2, LoggersAreObjects DEF CoreInv
  <2>2. last' = LoggerLog(logger, level, text)
    BY <1>2 DEF Log
  <2> HIDE DEF logger
  <2>3. /\ last'.logger = logger
        /\ \A s \in DOMAIN last'.bytes : last'.bytes[s] = Made(logger, level, text)
    BY <2>2 DEF LoggerLog
  <2> QED BY <2>1, <2>3, MadeFitsAndEnds DEF LogInv, BytesWithinBuffer, LinesEnd
<1> QED BY <1>1, <1>2

LEMMA PlainLogKeeps ==
  ASSUME CoreInv, NEW id, NEW level \in Levels, NEW text \in Texts, PlainLog(id, level, text)
  PROVE  LogInv'
<1>1. CASE ~IsLogger(id)
  BY <1>1, NoCallFits DEF PlainLog
<1>2. CASE IsLogger(id)
  <2> DEFINE logger == loggers[id]
  <2>1. logger \in LoggerObject
    BY <1>2, LoggersAreObjects DEF CoreInv
  <2>2. last' = LoggerPlainLog(logger, level, text)
    BY <1>2 DEF PlainLog
  <2> HIDE DEF logger
  <2>3. /\ last'.logger = logger
        /\ \A s \in DOMAIN last'.bytes : last'.bytes[s] = Printed(logger.max_log_size, text)
    BY <2>2 DEF LoggerPlainLog
  <2>4. logger.max_log_size \in Nat \ {0} /\ text \in Nat
    BY <2>1, LogCoreAssumption DEF LoggerObject, Texts
  <2> QED BY <2>3, <2>4, PrintedFits DEF LogInv, BytesWithinBuffer, LinesEnd
<1> QED BY <1>1, <1>2

LEMMA InitLogInv == Init => LogInv
<1>1. DOMAIN NoCall.bytes = {}
  BY DEF NoCall
<1> QED BY <1>1 DEF Init, LogInv, BytesWithinBuffer, LinesEnd

LEMMA NextLogInv == ASSUME CoreInv, LogInv, [Next]_coreVars PROVE LogInv'
<1>1. CASE UNCHANGED coreVars
  BY <1>1 DEF coreVars, LogInv, BytesWithinBuffer, LinesEnd
<1>2. ASSUME NEW count, SetMaxLoggerCount(count) PROVE LogInv'
  BY <1>2, NoCallFits DEF SetMaxLoggerCount
<1>3. ASSUME NEW size, SetMaxLogSize(size) PROVE LogInv'
  BY <1>3, NoCallFits DEF SetMaxLogSize
<1>4. ASSUME NEW id, NEW f, NEW filter, NEW s,
             RegisterLogger(id, f, filter) \/ AddSink(id, s, f, filter)
      PROVE  LogInv'
  BY <1>4, NoCallFits DEF RegisterLogger, AddSink
<1>5. ASSUME NEW id, NEW filter, RemoveLogger(id) \/ SetLevelFilter(id, filter) PROVE LogInv'
  BY <1>5, NoCallFits DEF RemoveLogger, SetLevelFilter
<1>6. ASSUME NEW s, NEW a, NewSink(s) \/ DeleteSink(s) \/ WrapSink(s, a) PROVE LogInv'
  BY <1>6, NoCallFits DEF NewSink, DeleteSink, WrapSink
<1> QED BY <1>1, <1>2, <1>3, <1>4, <1>5, <1>6, LogKeeps, PlainLogKeeps DEF Next

(* For any message and any buffer size, also one set after the logger was  *)
(* registered, a sink is given no more bytes than its logger's buffer has  *)
(* (log_core.cc:67-133).                                                   *)
THEOREM BytesCorrect == Spec => []BytesWithinBuffer
<1>1. LogInv => BytesWithinBuffer
  BY DEF LogInv
<1> QED BY <1>1, InitCoreInv, NextCoreInv, InitLogInv, NextLogInv, PTL DEF Spec

(* For any header and message, whether they fit or are cut off, a record of*)
(* logFormatter that is not empty ends in a newline (log.cc:22-68).        *)
THEOREM LinesCorrect == Spec => []LinesEnd
<1>1. LogInv => LinesEnd
  BY DEF LogInv
<1> QED BY <1>1, InitCoreInv, NextCoreInv, InitLogInv, NextLogInv, PTL DEF Spec
=============================================================================
