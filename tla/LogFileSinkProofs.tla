--------------------------- MODULE LogFileSinkProofs ---------------------------
(***************************************************************************)
(* LogFileSink, for any number of days, records, rotations, failed opens   *)
(* and restarts: no FILE * leaks, and only a reported failure misfiles.    *)
(***************************************************************************)
EXTENDS LogFileSink, SequenceTheorems, TLAPS

\* Why a record can be misfiled at all: the path of today is already noted but
\* the file is another one, which happens only after a reported failure.
StalePathReported ==
  fp # actualFilePath => actualFilePath \in ToSet(dropped)

(* The inductive invariant. *)
IInv == TypeOK /\ NoFileLeak /\ StalePathReported /\ MisfiledOnlyAfterFailure

\* One more element at the end.
LEMMA AppendSet ==
  ASSUME NEW S, NEW s \in Seq(S), NEW e \in S
  PROVE  /\ Append(s, e) \in Seq(S)
         /\ ToSet(Append(s, e)) = ToSet(s) \cup {e}
         /\ \A i \in DOMAIN Append(s, e) :
              \/ Append(s, e)[i] = e
              \/ i \in DOMAIN s /\ Append(s, e)[i] = s[i]
  <1> DEFINE a == Append(s, e)
             n == Len(s)
  <1>1. /\ a \in Seq(S) /\ n \in Nat
        /\ DOMAIN s = 1..n /\ DOMAIN a = 1..(n + 1)
        /\ \A i \in 1..n : a[i] = s[i]
        /\ a[n + 1] = e
    OBVIOUS
  <1> HIDE DEF a, n
  <1>2. \A i \in 1..(n + 1) : i \in 1..n \/ i = n + 1
    BY <1>1
  <1>3. ToSet(a) = ToSet(s) \cup {e}
    <2>1. \A i \in 1..n : i \in 1..(n + 1)
      BY <1>1
    <2>2. n + 1 \in 1..(n + 1)
      BY <1>1
    <2> QED
      BY <1>1, <1>2, <2>1, <2>2, Zenon DEF ToSet
  <1>4. \A i \in DOMAIN a : a[i] = e \/ (i \in DOMAIN s /\ a[i] = s[i])
    BY <1>1, <1>2
  <1> QED
    BY <1>1, <1>3, <1>4 DEF a

\* A new process has no file, and nothing is written yet.
LEMMA InitIInv == ASSUME Init PROVE IInv
  <1>1. TypeOK
    <2>1. <<>> \in Seq(1..Days)
      OBVIOUS
    <2>2. file \in [1..Days -> Seq(1..Days)]
      BY <2>1 DEF Init
    <2>3. /\ today \in 1..Days /\ fp = NoFile
          /\ actualFilePath \in 0..Days /\ openCount \in Nat /\ calls \in Nat
      BY DaysAssumption DEF Init, NoFile
    <2>4. alive \in BOOLEAN /\ ~alive
      BY Zenon DEF Init
    <2>5. dropped \in Seq(1..Days)
      BY <2>1 DEF Init
    <2>6. fp \in IF alive THEN 1..Days ELSE {NoFile}
      BY <2>3, <2>4
    <2> QED
      BY <2>2, <2>3, <2>4, <2>5, <2>6 DEF TypeOK
  <1>2. MisfiledOnlyAfterFailure
    BY DEF Init, MisfiledOnlyAfterFailure
  <1> QED
    BY <1>1, <1>2 DEF IInv, Init, NoFileLeak, StalePathReported, NoFile

\* A record of today that reaches file f, where f is today's or today's open
\* has failed and been reported.
LEMMA WrittenIInv ==
  ASSUME IInv, NEW f \in 1..Days,
         file' = [file EXCEPT ![f] = Append(@, today)],
         f # today => today \in ToSet(dropped),
         UNCHANGED dropped
  PROVE  /\ file' \in [1..Days -> Seq(1..Days)]
         /\ MisfiledOnlyAfterFailure'
  <1>1. today \in 1..Days /\ file \in [1..Days -> Seq(1..Days)]
    BY DEF IInv, TypeOK
  <1>2. Append(file[f], today) \in Seq(1..Days)
    BY <1>1, AppendSet
  <1>3. file' \in [1..Days -> Seq(1..Days)]
    BY <1>1, <1>2
  <1>4. ASSUME NEW d \in 1..Days, NEW i \in DOMAIN file'[d], file'[d][i] # d
        PROVE  file'[d][i] \in ToSet(dropped)
    <2>1. CASE d = f
      <3>1. file'[d] = Append(file[d], today)
        BY <1>1, <2>1
      <3>2. file'[d][i] = today \/ (i \in DOMAIN file[d] /\ file'[d][i] = file[d][i])
        BY <1>1, <3>1, AppendSet
      <3> QED
        BY <1>4, <2>1, <3>2 DEF IInv, MisfiledOnlyAfterFailure
    <2>2. CASE d # f
      <3>1. file'[d] = file[d]
        BY <1>1, <2>2
      <3> QED
        BY <1>4, <3>1 DEF IInv, MisfiledOnlyAfterFailure
    <2> QED
      BY <2>1, <2>2
  <1> QED
    BY <1>3, <1>4 DEF MisfiledOnlyAfterFailure

\* Every call, and every move of the clock, keeps the invariant.
LEMMA StepIInv == ASSUME IInv, [Next]_vars PROVE IInv'
  <1> USE DEF NoFile
  <1>0. /\ TypeOK /\ NoFileLeak /\ StalePathReported /\ MisfiledOnlyAfterFailure
        /\ dropped \in Seq(1..Days) /\ today \in 1..Days /\ today # 0
    BY DEF IInv, TypeOK
  <1>1. CASE UNCHANGED vars
    BY <1>0, <1>1 DEF vars, IInv, TypeOK, NoFileLeak, StalePathReported, MisfiledOnlyAfterFailure
  <1>2. CASE Create
    <2>1. TypeOK'
      BY <1>0, <1>2 DEF Create, Opens, TypeOK
    <2>2. NoFileLeak' /\ StalePathReported'
      BY <1>0, <1>2 DEF Create, Opens, TypeOK, NoFileLeak, StalePathReported
    <2>3. MisfiledOnlyAfterFailure'
      BY <1>0, <1>2 DEF Create, MisfiledOnlyAfterFailure
    <2> QED
      BY <2>1, <2>2, <2>3 DEF IInv
  <1>3. CASE Log
    <2>0. /\ alive /\ alive' /\ calls' \in Nat /\ today' = today
          /\ actualFilePath \in 0..Days /\ fp \in 1..Days
      BY <1>0, <1>3 DEF Log, TypeOK
    <2>1. CASE /\ AlreadyOpen(actualFilePath) \/ Opens(actualFilePath, fp)
               /\ file' = [file EXCEPT ![fp'] = Append(@, today)]
               /\ UNCHANGED dropped
      <3>1. fp' \in 1..Days /\ actualFilePath' = today
        BY <1>0, <2>0, <2>1 DEF AlreadyOpen, Opens
      <3>2. fp' # today => today \in ToSet(dropped)
        BY <1>0, <2>0, <2>1 DEF AlreadyOpen, Opens, StalePathReported
      <3>3. openCount' = 1
        BY <1>0, <2>0, <2>1 DEF AlreadyOpen, Opens, NoFileLeak
      <3>4. file' \in [1..Days -> Seq(1..Days)] /\ MisfiledOnlyAfterFailure'
        BY <2>1, <3>1, <3>2, WrittenIInv
      <3>5. TypeOK'
        BY <1>0, <2>0, <2>1, <3>1, <3>3, <3>4 DEF TypeOK
      <3>6. NoFileLeak' /\ StalePathReported'
        BY <2>1, <3>1, <3>2, <3>3 DEF NoFileLeak, StalePathReported
      <3> QED
        BY <3>4, <3>5, <3>6 DEF IInv
    <2>2. CASE /\ OpenFails(actualFilePath, fp)
               /\ dropped' = Append(dropped, today)
               /\ UNCHANGED file
      <3>1. /\ dropped' \in Seq(1..Days)
            /\ ToSet(dropped') = ToSet(dropped) \cup {today}
        <4> DEFINE D == 1..Days
        <4>1. dropped \in Seq(D) /\ today \in D
          BY <1>0
        <4> HIDE DEF D
        <4>2. /\ Append(dropped, today) \in Seq(D)
              /\ ToSet(Append(dropped, today)) = ToSet(dropped) \cup {today}
          BY <4>1, AppendSet
        <4> QED
          BY <2>2, <4>2 DEF D
      <3>2. fp' = fp /\ openCount' = openCount /\ actualFilePath' = today
        BY <2>2 DEF OpenFails
      <3>3. TypeOK'
        BY <1>0, <2>0, <2>2, <3>1, <3>2 DEF TypeOK
      <3>4. NoFileLeak' /\ StalePathReported'
        BY <1>0, <3>1, <3>2 DEF NoFileLeak, StalePathReported
      <3>5. MisfiledOnlyAfterFailure'
        BY <1>0, <2>2, <3>1 DEF MisfiledOnlyAfterFailure
      <3> QED
        BY <3>3, <3>4, <3>5 DEF IInv
    <2> QED
      BY <1>3, <2>1, <2>2 DEF Log
  <1>4. CASE Destroy
    <2>1. TypeOK'
      <3>1. openCount' = 0
        BY <1>0, <1>4 DEF Destroy, NoFileLeak
      <3>2. fp' = 0 /\ actualFilePath' = 0 /\ 0 \in 0..Days
        BY <1>4, DaysAssumption DEF Destroy
      <3>3. alive' \in BOOLEAN /\ ~alive'
        BY <1>4, Zenon DEF Destroy
      <3>4. fp' \in IF alive' THEN 1..Days ELSE {0}
        BY <3>2, <3>3
      <3>5. /\ today' \in 1..Days /\ calls' \in Nat
            /\ file' \in [1..Days -> Seq(1..Days)] /\ dropped' \in Seq(1..Days)
        BY <1>0, <1>4 DEF Destroy, TypeOK
      <3> QED
        BY <3>1, <3>2, <3>3, <3>4, <3>5 DEF TypeOK
    <2>2. NoFileLeak' /\ StalePathReported'
      BY <1>0, <1>4 DEF Destroy, TypeOK, NoFileLeak, StalePathReported
    <2>3. MisfiledOnlyAfterFailure'
      BY <1>0, <1>4 DEF Destroy, MisfiledOnlyAfterFailure
    <2> QED
      BY <2>1, <2>2, <2>3 DEF IInv
  <1>5. CASE ClockMoves
    <2>1. TypeOK'
      BY <1>0, <1>5 DEF ClockMoves, TypeOK
    <2> QED
      BY <1>0, <1>5, <2>1
         DEF ClockMoves, IInv, NoFileLeak, StalePathReported, MisfiledOnlyAfterFailure
  <1> QED
    BY <1>1, <1>2, <1>3, <1>4, <1>5 DEF Next

-----------------------------------------------------------------------------
\* The invariant holds in every reachable state.
LEMMA Invariant == Spec => []IInv
  <1>1. Init => IInv
    BY InitIInv
  <1>2. IInv /\ [Next]_vars => IInv'
    BY StepIInv
  <1> QED
    BY <1>1, <1>2, PTL DEF Spec

\* A sink in use has a file to write to, in every reachable state.
THEOREM TypeCorrect == Spec => []TypeOK
  <1>1. IInv => TypeOK
    BY DEF IInv
  <1> QED
    BY <1>1, Invariant, PTL

\* Any series of rotations, failures and restarts leaves exactly the FILE * in use
\* open.
THEOREM FilesNeverLeak == Spec => []NoFileLeak
  <1>1. IInv => NoFileLeak
    BY DEF IInv
  <1> QED
    BY <1>1, Invariant, PTL

\* A record is in another day's file only if an open failed on its day and was
\* reported.
THEOREM MisfiledAfterFailure == Spec => []MisfiledOnlyAfterFailure
  <1>1. IInv => MisfiledOnlyAfterFailure
    BY DEF IInv
  <1> QED
    BY <1>1, Invariant, PTL
=============================================================================
