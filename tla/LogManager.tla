----------------------------- MODULE LogManager -----------------------------
(***************************************************************************)
(* common::log::LogManager, which sets up LogCore's three loggers, and     *)
(* yut::base::BaseLogger, through which the library logs about itself.     *)
(* Each init function registers a logger and then gives it a file sink     *)
(* behind an asynchronous one; opening the file may fail half-way.  The    *)
(* sinks are numbered in the order they are constructed.                   *)
(***************************************************************************)
EXTENDS LogCore, TLC

CONSTANTS
    NetHeaderLength,    \* how long the "[M][time] " of logNetMessage is
    WrapSize            \* sizeof(wrap_format) there, 1024

VARIABLES
    constructed,    \* the LogManager singleton's constructor has run
    logFunc,        \* BaseLogger's log_func_: "default" or "main"
    tried,          \* the loggers whose init function has been called
    result,         \* the logger and return value of the last init call
    exited          \* static destructors have run

managerVars == <<constructed, logFunc, tried, result, exited>>
vars == <<coreVars, managerVars>>

MAIN == 0
RESOURCE_ITEM == 1
ACTION_ == 2
MAX == 3

DEBUG == "DEBUG"
INFO == "INFO"
WARNING == "WARNING"
ERROR == "ERROR"

logFormatter == CHOOSE f \in Formatters : TRUE

ASSUME ManagerAssumption ==
    /\ MaxLoggers >= MAX /\ MaxLevel = 3
    /\ Formatters # {}
    /\ Cardinality(Sinks) >= 7 /\ Sinks = 1..Cardinality(Sinks)
    /\ NetHeaderLength \in Nat /\ WrapSize \in Nat \ {0}

NoResult  == [logger |-> -1, value |-> FALSE]

ManagerInit ==
    /\ Init
    /\ constructed = FALSE /\ logFunc = "default" /\ tried = {}
    /\ result = NoResult /\ exited = FALSE

\* getInstance() runs the constructor first: setMaxLoggerCount(Logger::MAX).
Table == IF constructed THEN loggers
         ELSE [id \in 0..(MAX - 1) |-> IF id \in DOMAIN loggers THEN loggers[id] ELSE NoLogger]

Returns(id, value) ==
    /\ constructed' = TRUE
    /\ tried' = tried \cup {id}
    /\ result' = [logger |-> id, value |-> value]
    /\ last' = NoCall
    /\ UNCHANGED <<maxLogSize, callers, exited>>

Refused(id) ==
    /\ Table[id] # NoLogger
    /\ loggers' = Table
    /\ Returns(id, FALSE)
    /\ UNCHANGED <<alive, inner, logFunc>>

\* Buggy variant: the half-made logger is removed again.
MutOpenFails(id, f) ==
    /\ Table[id] = NoLogger
    /\ loggers' = Table
    /\ Returns(id, FALSE)
    /\ UNCHANGED <<alive, inner, logFunc>>

\* openFile() fails: the file sink goes, the logger stays registered.
OpenFails(id, f) ==
    /\ Table[id] = NoLogger
    /\ loggers' = [Table EXCEPT ![id] = Registered(f, -1)]
    /\ Returns(id, FALSE)
    /\ UNCHANGED <<alive, inner, logFunc>>

Entry(s) == Attached(s, NoFormatter, -1)

\* Buggy variant: the unique_ptr deletes the file sink it did not release.
MutSetsUp(id, f, toFile, toStderr) ==
    LET file   == Cardinality(alive) + 1
        async  == file + 1
        stderr == IF toFile THEN file + 2 ELSE file
        files  == IF toFile THEN <<Entry(async)>> ELSE <<>>
        others == IF toStderr THEN <<Entry(stderr)>> ELSE <<>>
    IN  /\ Table[id] = NoLogger
        /\ loggers' = [Table EXCEPT ![id] =
                         [Registered(f, -1) EXCEPT !.sinks = files \o others]]
        /\ alive' = alive \cup (IF toFile THEN {async} ELSE {})
                          \cup (IF toStderr THEN {stderr} ELSE {})
        /\ inner' = IF toFile THEN [inner EXCEPT ![async] = file] ELSE inner
        /\ Returns(id, TRUE)

\* The rest of an init function: new LogFileSink, new LogAsyncSink around it,
\* addSink, and for the main logger a LogStderrSink.
SetsUp(id, f, toFile, toStderr) ==
    LET file   == Cardinality(alive) + 1
        async  == file + 1
        stderr == IF toFile THEN file + 2 ELSE file
        files  == IF toFile THEN <<Entry(async)>> ELSE <<>>
        others == IF toStderr THEN <<Entry(stderr)>> ELSE <<>>
    IN  /\ Table[id] = NoLogger
        /\ loggers' = [Table EXCEPT ![id] =
                         [Registered(f, -1) EXCEPT !.sinks = files \o others]]
        /\ alive' = alive \cup (IF toFile THEN {file, async} ELSE {})
                          \cup (IF toStderr THEN {stderr} ELSE {})
        /\ inner' = IF toFile THEN [inner EXCEPT ![async] = file] ELSE inner
        /\ Returns(id, TRUE)

InitMainLogger(toFile, opens, toStderr) ==
    \/ Refused(MAIN)
    \/ toFile /\ ~opens /\ OpenFails(MAIN, logFormatter)
    \/ /\ toFile => opens
       /\ SetsUp(MAIN, logFormatter, toFile, toStderr)
       /\ logFunc' = "main"

InitPlainLogger(id, toFile, opens) ==
    \/ Refused(id)
    \/ toFile /\ ~opens /\ OpenFails(id, NoFormatter)
    \/ /\ toFile => opens
       /\ SetsUp(id, NoFormatter, toFile, FALSE)
       /\ UNCHANGED logFunc

InitResourceItemLogger(toFile, opens) == InitPlainLogger(RESOURCE_ITEM, toFile, opens)
InitActionLogger(toFile, opens) == InitPlainLogger(ACTION_, toFile, opens)

\* The LOG_* macros log with their level's number, PLAIN_LOG_*, LOG_ACTION and
\* LOG_RESOURCE_ITEM call plainLog.
LevelNumber == (DEBUG :> 0) @@ (INFO :> 1) @@ (WARNING :> 2) @@ (ERROR :> 3)

Quiet == result' = NoResult /\ UNCHANGED <<constructed, logFunc, tried, exited>>

LogMacro == \E name \in {DEBUG, INFO, WARNING, ERROR}, text \in Texts :
    /\ \/ Log(MAIN, LevelNumber[name], text)
       \/ PlainLog(MAIN, LevelNumber[name], text)
       \/ name = DEBUG /\ \E id \in {RESOURCE_ITEM, ACTION_} : PlainLog(id, 0, text)
    /\ Quiet

\* The format is wrapped in a buffer of its own, which cuts it off, with its
\* newline, and then printed.  (What it prints is as long as the format.)
LogNetMessage(text) ==
    /\ PlainLog(MAIN, LevelNumber[INFO], Smaller(NetHeaderLength + text + 1, WrapSize - 1))
    /\ Quiet

-----------------------------------------------------------------------------
(* BaseLogger.                                                             *)

\* BaseLogger::LogLevel has no INFO.
BaseLevelNumber == (DEBUG :> 0) @@ (WARNING :> 1) @@ (ERROR :> 2)

\* baseLogFunc's log_level_map.
BaseLogFuncLevel(level) == <<0, 2, 3>>[BaseLevelNumber[level] + 1]

\* defaultLogFunc prints to stderr.
BaseLog(level, text) ==
    /\ IF logFunc = "default"
       THEN /\ last' = NoCall
            /\ UNCHANGED <<loggers, maxLogSize, alive, callers, inner>>
       ELSE Log(MAIN, BaseLogFuncLevel(level), text)
    /\ Quiet

\* The end of main: LogCore's destructor deletes the loggers and their sinks.
Exit ==
    /\ exited' = TRUE
    /\ Delete(UNION {SinksOf(loggers[id]) : id \in DOMAIN loggers})
    /\ loggers' = [id \in {} |-> NoLogger]
    /\ last' = NoCall /\ result' = NoResult
    /\ UNCHANGED <<maxLogSize, callers, constructed, logFunc, tried>>

ManagerNext ==
    \/ /\ ~exited
       /\ \/ \E toFile, opens, toStderr \in BOOLEAN :
                InitMainLogger(toFile, opens, toStderr)
          \/ \E toFile, opens \in BOOLEAN :
                \/ InitResourceItemLogger(toFile, opens)
                \/ InitActionLogger(toFile, opens)
          \/ LogMacro
          \/ \E text \in Texts : LogNetMessage(text)
          \/ \E level \in DOMAIN BaseLevelNumber, text \in Texts : BaseLog(level, text)
          \/ Exit
    \/ exited /\ UNCHANGED vars

ManagerSpec == ManagerInit /\ [][ManagerNext]_vars

-----------------------------------------------------------------------------
(* The properties.                                                         *)

\* The first call of an init function decides: whatever it returned, each later
\* one for that logger returns false, and no later call changes the logger's
\* sinks before the program exits.  In particular a failure to open the file
\* cannot be repaired by calling init again (log.cc:98-108).
FirstInitDecides ==
    [][\A id \in tried : /\ result'.logger = id => ~result'.value
                         /\ ~exited' => loggers'[id] = loggers[id]]_vars
=============================================================================
