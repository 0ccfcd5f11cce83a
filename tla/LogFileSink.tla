----------------------------- MODULE LogFileSink -----------------------------
(***************************************************************************)
(* yut::base::LogFileSink (base/log_file_sink.cc), used as LogManager uses *)
(* it (common/log.cc): a sink is kept only when its first openFile()       *)
(* succeeds, and log() is called by one thread at a time.                  *)
(*                                                                         *)
(* The path is a strftime pattern with the date, so a path is the day it   *)
(* names.  The system clock is the real-time clock: it moves to the next   *)
(* day, and may be set back.  fopen() may fail at any time.                *)
(***************************************************************************)
EXTENDS Naturals, Sequences, SequencesExt

CONSTANTS
  Days,       \* bound: the days the clock may show, 1..Days
  MaxLogs     \* bound: the calls of log()

ASSUME DaysAssumption == Days \in Nat \ {0}

NoFile == 0   \* no path yet; no FILE *

VARIABLES
  today,            \* what Timestamp::setNow() and format() give
  alive,            \* the sink exists and LogManager kept it
  actualFilePath,   \* actual_file_path_
  fp,               \* fp_: the file it writes to
  openCount,        \* how many FILE * are open
  calls,            \* how many log() calls returned
  file,             \* file[d]: the days of the records in the file of day d
  dropped           \* the days of the records that were only reported

vars == <<today, alive, actualFilePath, fp, openCount, calls, file, dropped>>

Init ==
  /\ today = 1
  /\ alive = FALSE
  /\ actualFilePath = NoFile
  /\ fp = NoFile
  /\ openCount = 0
  /\ calls = 0
  /\ file = [d \in 1..Days |-> <<>>]
  /\ dropped = <<>>

-----------------------------------------------------------------------------
(* openFile(), by its three outcomes, on a sink whose path is path and     *)
(* whose file is f.  The path is recorded before fopen() is tried.         *)
(* The Mut... operators are plausible bugs, used by no definition: each    *)
(* stands for the definition below it and breaks one property.             *)
AlreadyOpen(path) == path = today /\ actualFilePath' = path /\ UNCHANGED <<fp, openCount>>

OpenFails(path, f) ==
  /\ path # today
  /\ actualFilePath' = today
  /\ fp' = f
  /\ UNCHANGED openCount

(* The old file is not closed.                                             *)
MutOpensLeak(path, f) ==
  /\ path # today
  /\ actualFilePath' = today
  /\ fp' = today
  /\ openCount' = openCount + 1

Opens(path, f) ==
  /\ path # today
  /\ actualFilePath' = today
  /\ fp' = today
  /\ openCount' = IF f = NoFile THEN openCount + 1 ELSE openCount

(* LogManager forgets to test the result of openFile().                    *)
MutCreateUnchecked ==
  /\ ~alive
  /\ alive' = TRUE
  /\ Opens(NoFile, NoFile) \/ OpenFails(NoFile, NoFile)
  /\ UNCHANGED <<today, calls, file, dropped>>

(* new LogFileSink(path), then openFile().  When that fails the sink is    *)
(* destroyed at once, and nothing has changed.                             *)
Create ==
  /\ ~alive
  /\ alive' = TRUE
  /\ Opens(NoFile, NoFile)
  /\ UNCHANGED <<today, calls, file, dropped>>

(* The file of yesterday is used until the next restart.                   *)
MutLogNoReopen ==
  /\ alive /\ calls < MaxLogs
  /\ calls' = calls + 1
  /\ file' = [file EXCEPT ![fp] = Append(@, today)]
  /\ UNCHANGED <<today, alive, actualFilePath, fp, openCount, dropped>>

(* log(): on failure BASE_ERROR, and the record is dropped.                *)
Log ==
  /\ alive /\ calls < MaxLogs
  /\ calls' = calls + 1
  /\ \/ /\ AlreadyOpen(actualFilePath) \/ Opens(actualFilePath, fp)
        /\ file' = [file EXCEPT ![fp'] = Append(@, today)]
        /\ UNCHANGED dropped
     \/ /\ OpenFails(actualFilePath, fp)
        /\ dropped' = Append(dropped, today)
        /\ UNCHANGED file
  /\ UNCHANGED <<today, alive>>

(* The destructor closes the file.  A program that dies loses nothing      *)
(* more: setbuf(fp, nullptr) makes every fwrite reach the system.          *)
Destroy ==
  /\ alive
  /\ alive' = FALSE
  /\ actualFilePath' = NoFile
  /\ fp' = NoFile
  /\ openCount' = IF fp = NoFile THEN openCount ELSE openCount - 1
  /\ UNCHANGED <<today, calls, file, dropped>>

ClockMoves ==
  /\ today' \in {today + 1, today - 1} \cap (1..Days)
  /\ UNCHANGED <<alive, actualFilePath, fp, openCount, calls, file, dropped>>

Next == Create \/ Log \/ Destroy \/ ClockMoves

Spec == Init /\ [][Next]_vars

-----------------------------------------------------------------------------
(* Types; a sink in use has a file: fwrite() never gets a null FILE *.     *)
TypeOK ==
  /\ today \in 1..Days
  /\ alive \in BOOLEAN
  /\ actualFilePath \in 0..Days
  /\ fp \in IF alive THEN 1..Days ELSE {NoFile}
  /\ openCount \in Nat /\ calls \in Nat
  /\ file \in [1..Days -> Seq(1..Days)]
  /\ dropped \in Seq(1..Days)

(* Rotation, failed opens and restarts leak no FILE * and close none twice. *)
NoFileLeak == openCount = IF fp = NoFile THEN 0 ELSE 1

(* A record stands in the file of another day only if, on its day, an open *)
(* failed and was reported.                                                *)
MisfiledOnlyAfterFailure ==
  \A d \in 1..Days : \A i \in DOMAIN file[d] :
    file[d][i] # d => file[d][i] \in ToSet(dropped)
=============================================================================
