------------------------------- MODULE LogCore -------------------------------
(***************************************************************************)
(* yut::base::LogCore: a table of loggers, each with a formatter, a level  *)
(* filter, a buffer size fixed when it was registered, and the sinks it    *)
(* owns.  A sink may own another one, as a LogAsyncSink owns the sink it   *)
(* adapts.  The class has no lock: it is a sequential object, set up       *)
(* before any thread logs, and each call is one action.                    *)
(*                                                                         *)
(* A message is its length.  What reaches a sink is a record: who formatted*)
(* it, how many bytes, what the last byte is and whether all of the message*)
(* is in it.                                                               *)
(***************************************************************************)
EXTENDS Integers, Sequences, FiniteSetsExt

CONSTANTS
    Sinks,          \* the sink objects
    NoSink,
    Formatters,     \* the formatters clients pass
    NoFormatter,    \* NULL
    MaxLoggers,     \* bound: the largest count passed to setMaxLoggerCount
    MaxLevel,       \* the levels are 0..MaxLevel (LogLevel::MIN to MAX - 1)
    Filters,        \* the level filters clients set, -1 the default
    LogSizes,       \* the sizes passed to setMaxLogSize
    DefaultLogSize, \* its default argument, 4096
    HeaderLength,   \* how long the "[level][time][file:line](function) " is
    MaxText         \* bound: the longest message

ASSUME SinksAssumption == IsFiniteSet(Sinks)

ASSUME LogCoreAssumption ==
    /\ NoSink \notin Sinks /\ NoFormatter \notin Formatters
    /\ MaxLoggers \in Nat \ {0} /\ MaxLevel \in Nat
    /\ Filters \subseteq Int /\ LogSizes \subseteq Int /\ DefaultLogSize \in Nat \ {0}
    /\ HeaderLength \in Nat \ {0} /\ MaxText \in Nat

VARIABLES
    loggers,        \* loggers_: [0..count-1 -> logger record or NoLogger]
    maxLogSize,     \* max_log_size_
    alive,          \* the sinks that are constructed and not yet deleted
    callers,        \* the sinks the client holds and has to delete
    inner,          \* [Sinks -> the sink it owns, or NoSink]
    last            \* what the last call to log or plainLog did

coreVars == <<loggers, maxLogSize, alive, callers, inner, last>>

NoLogger == [sinks |-> <<>>, max_log_size |-> 0]
Ids      == -1..MaxLoggers         \* valid ones and both ways to be invalid
Levels   == 0..MaxLevel
Texts    == 0..MaxText
NoCall   == [bytes |-> [s \in {} |-> {}], logger |-> NoLogger]

IsLogger(id) == id \in DOMAIN loggers /\ loggers[id] # NoLogger
SinksOf(logger) == {logger.sinks[i].sink : i \in DOMAIN logger.sinks}

\* The sinks that go when those of S are deleted: their own, too.
WithInner(S) == S \cup ({inner[s] : s \in S} \ {NoSink})

-----------------------------------------------------------------------------
(* Formatting.                                                             *)

Smaller(m, n) == IF m < n THEN m ELSE n

Record(format, count, ends, whole) ==
    [format |-> format, count |-> count, ends |-> ends, whole |-> whole]

\* vsnprintf into `size' bytes, and the smaller of the length it wanted and
\* `size': a message that does not fit is cut off and its record includes the
\* terminating NUL.
Printed(size, text) ==
    Record(NoFormatter, Smaller(text, size),
           IF text >= size THEN "nul" ELSE IF text = 0 THEN "nothing" ELSE "text",
           text < size)

\* Buggy variant: the limit is met only when it is passed.
MutFormatted(f, size, level, text) ==
    LET count == HeaderLength + text + 1 IN
    IF count > size
    THEN Record(f, size - 1, IF size >= 2 THEN "newline" ELSE "nothing", FALSE)
    ELSE Record(f, count, IF count = size THEN "nul" ELSE "newline", TRUE)

\* logFormatter: header, message and newline, each printed only while there is
\* room; a record that fills the buffer is cut and made to end in a newline.
Formatted(f, size, level, text) ==
    LET upTo  == HeaderLength + text
        count == IF upTo >= size THEN upTo ELSE upTo + 1
    IN  IF level \notin Levels THEN Record(f, 0, "nothing", FALSE)
        ELSE IF count >= size
        THEN Record(f, size - 1, IF size >= 2 THEN "newline" ELSE "nothing", FALSE)
        ELSE Record(f, count, "newline", TRUE)

-----------------------------------------------------------------------------
(* Setting up.                                                             *)

Init ==
    /\ loggers = [id \in {0} |-> NoLogger]         \* setMaxLoggerCount(1)
    /\ maxLogSize = DefaultLogSize
    /\ alive = {} /\ callers = {}
    /\ inner = [s \in Sinks |-> NoSink]
    /\ last = NoCall

\* ~Logger deletes its sinks.
Delete(S) == /\ alive' = alive \ WithInner(S)
             /\ inner' = [s \in Sinks |-> IF s \in S THEN NoSink ELSE inner[s]]

\* Buggy variant: shrinking the table forgets its loggers.
MutSetMaxLoggerCount(count) ==
    /\ loggers' = [id \in 0..(count - 1) |->
                     IF id \in DOMAIN loggers THEN loggers[id] ELSE NoLogger]
    /\ last' = NoCall
    /\ UNCHANGED <<maxLogSize, callers, alive, inner>>

SetMaxLoggerCount(count) ==
    IF count < 0
    THEN last' = NoCall /\ UNCHANGED <<loggers, maxLogSize, callers, alive, inner>>
    ELSE /\ Delete(UNION {SinksOf(loggers[id]) : id \in {i \in DOMAIN loggers : i >= count}})
         /\ loggers' = [id \in 0..(count - 1) |->
                          IF id \in DOMAIN loggers THEN loggers[id] ELSE NoLogger]
         /\ last' = NoCall
         /\ UNCHANGED <<maxLogSize, callers>>

\* Buggy variant: a size of zero is taken.
MutSetMaxLogSize(size) ==
    /\ maxLogSize' = IF size < 0 THEN maxLogSize ELSE size
    /\ last' = NoCall
    /\ UNCHANGED <<loggers, alive, callers, inner>>

SetMaxLogSize(size) ==
    /\ maxLogSize' = IF size <= 0 THEN maxLogSize ELSE size
    /\ last' = NoCall
    /\ UNCHANGED <<loggers, alive, callers, inner>>

\* registerLogger() returns true exactly where CanRegister holds; the new logger
\* keeps the size that is set now.
CanRegister(id) == id \in DOMAIN loggers /\ ~IsLogger(id)

Registered(f, filter) ==
    [formatter |-> f, level_filter |-> filter, max_log_size |-> maxLogSize,
     sinks |-> <<>>]

RegisterLogger(id, f, filter) ==
    /\ loggers' = IF CanRegister(id)
                  THEN [loggers EXCEPT ![id] = Registered(f, filter)] ELSE loggers
    /\ last' = NoCall
    /\ UNCHANGED <<maxLogSize, alive, callers, inner>>

RemoveLogger(id) ==
    /\ last' = NoCall
    /\ UNCHANGED <<maxLogSize, callers>>
    /\ IF IsLogger(id)
       THEN /\ Delete(SinksOf(loggers[id]))
            /\ loggers' = [loggers EXCEPT ![id] = NoLogger]
       ELSE UNCHANGED <<loggers, alive, inner>>

Attached(s, f, filter) == [sink |-> s, formatter |-> f, level_filter |-> filter]

\* addSink(): only when it returns true does the client release its pointer.
AddSink(id, s, f, filter) ==
    /\ s \in callers
    /\ last' = NoCall
    /\ UNCHANGED <<maxLogSize, alive, inner>>
    /\ IF IsLogger(id)
       THEN /\ loggers' = [loggers EXCEPT ![id].sinks = Append(@, Attached(s, f, filter))]
            /\ callers' = callers \ {s}
       ELSE UNCHANGED <<loggers, callers>>

SetLevelFilter(id, filter) ==
    /\ loggers' = IF IsLogger(id)
                  THEN [loggers EXCEPT ![id].level_filter = filter] ELSE loggers
    /\ last' = NoCall
    /\ UNCHANGED <<maxLogSize, alive, callers, inner>>

-----------------------------------------------------------------------------
(* Logging.                                                                *)

\* The sinks of a logger a message of this level reaches, by position.
Passing(logger, level) ==
    IF level < logger.level_filter THEN {}
    ELSE {i \in DOMAIN logger.sinks : level >= logger.sinks[i].level_filter}

\* The text is made for the first of them and given to all of them.
Made(logger, level, text) ==
    LET own == logger.sinks[Min(Passing(logger, level))].formatter
        f   == IF own # NoFormatter THEN own ELSE logger.formatter
        r   == IF f = NoFormatter THEN Printed(logger.max_log_size, text)
               ELSE Formatted(f, logger.max_log_size, level, text)
    IN  [r EXCEPT !.count = Smaller(@, logger.max_log_size)]

\* Buggy variant: the buffer has the size set now, not the logger's.
MutLoggerLog(logger, level, text) ==
    [logger |-> logger,
     bytes |-> [s \in {logger.sinks[i].sink : i \in Passing(logger, level)} |->
                  Made([logger EXCEPT !.max_log_size = maxLogSize], level, text)]]

LoggerLog(logger, level, text) ==
    [logger |-> logger,
     bytes |-> [s \in {logger.sinks[i].sink : i \in Passing(logger, level)} |->
                  Made(logger, level, text)]]

Log(id, level, text) ==
    /\ last' = IF IsLogger(id) THEN LoggerLog(loggers[id], level, text) ELSE NoCall
    /\ UNCHANGED <<loggers, maxLogSize, alive, callers, inner>>

LoggerPlainLog(logger, level, text) ==
    [logger |-> logger,
     bytes |-> [s \in {logger.sinks[i].sink : i \in Passing(logger, level)} |->
                  Printed(logger.max_log_size, text)]]

PlainLog(id, level, text) ==
    /\ last' = IF IsLogger(id) THEN LoggerPlainLog(loggers[id], level, text) ELSE NoCall
    /\ UNCHANGED <<loggers, maxLogSize, alive, callers, inner>>

-----------------------------------------------------------------------------
(* A client: constructs a sink, or an asynchronous one around another, and *)
(* deletes what it still holds.                                            *)

NewSink(s) ==
    /\ s \notin alive
    /\ alive' = alive \cup {s} /\ callers' = callers \cup {s} /\ last' = NoCall
    /\ UNCHANGED <<loggers, maxLogSize, inner>>

WrapSink(s, a) ==
    /\ s \in callers /\ inner[s] = NoSink /\ a \notin alive
    /\ alive' = alive \cup {a}
    /\ callers' = (callers \ {s}) \cup {a}
    /\ inner' = [inner EXCEPT ![a] = s]
    /\ last' = NoCall
    /\ UNCHANGED <<loggers, maxLogSize>>

DeleteSink(s) ==
    /\ s \in callers
    /\ Delete({s}) /\ callers' = callers \ {s} /\ last' = NoCall
    /\ UNCHANGED <<loggers, maxLogSize>>

Next ==
    \/ \E count \in -1..MaxLoggers : SetMaxLoggerCount(count)
    \/ \E size \in LogSizes : SetMaxLogSize(size)
    \/ \E id \in Ids :
         \/ \E f \in Formatters \cup {NoFormatter}, filter \in Filters :
               \/ RegisterLogger(id, f, filter)
               \/ \E s \in Sinks : AddSink(id, s, f, filter)
         \/ RemoveLogger(id)
         \/ \E filter \in Filters : SetLevelFilter(id, filter)
         \/ \E level \in Levels, text \in Texts :
               Log(id, level, text) \/ PlainLog(id, level, text)
    \/ \E s \in Sinks : NewSink(s) \/ DeleteSink(s) \/ \E a \in Sinks : WrapSink(s, a)

Spec == Init /\ [][Next]_coreVars

-----------------------------------------------------------------------------
(* The properties.                                                         *)

LoggerRecord(l) ==
    \/ l = NoLogger
    \/ /\ l.formatter \in Formatters \cup {NoFormatter}
       /\ l.level_filter \in Filters
       /\ l.max_log_size \in Nat \ {0}
       /\ \A i \in DOMAIN l.sinks :
            l.sinks[i] \in [sink : Sinks, formatter : Formatters \cup {NoFormatter},
                            level_filter : Filters]

\* The table is one of loggers with a usable buffer size, and callers hold
\* only live sinks (the fields of LogCore::Impl and Logger).
TypeOK ==
    /\ \E n \in 0..MaxLoggers : DOMAIN loggers = 0..(n - 1)
    /\ \A id \in DOMAIN loggers : LoggerRecord(loggers[id])
    /\ maxLogSize \in Nat \ {0}
    /\ alive \subseteq Sinks /\ callers \subseteq alive
    /\ inner \in [Sinks -> Sinks \cup {NoSink}]

\* How many places would delete sink s: the client, the sink around it, and
\* each entry of a logger.
Owners(s) ==
    Quantify({"client"}, LAMBDA c : s \in callers)
      + Quantify(Sinks, LAMBDA a : inner[a] = s)
      + Quantify((DOMAIN loggers) \X (1..Cardinality(Sinks)), LAMBDA e :
          e[2] \in DOMAIN loggers[e[1]].sinks /\ loggers[e[1]].sinks[e[2]].sink = s)

\* Whatever sequence of registering, adding, removing, shrinking and failed
\* calls, a live sink has one owner and a deleted one has none: nothing leaks,
\* is deleted twice, or is logged to after its end.
SinksOwnedOnce == \A s \in Sinks : Owners(s) = IF s \in alive THEN 1 ELSE 0

\* A sink is never given more bytes than the buffer its logger allocated, even
\* when the size was changed after the logger was registered.
BytesWithinBuffer ==
    \A s \in DOMAIN last.bytes : last.bytes[s].count \in 0..last.logger.max_log_size

\* A record made by logFormatter ends its line, also when the message had to be
\* cut off to fit: the next record in the file starts on a line of its own.
LinesEnd ==
    \A s \in DOMAIN last.bytes :
       LET r == last.bytes[s] IN
       r.format # NoFormatter /\ r.count > 0 => r.ends = "newline"
=============================================================================
