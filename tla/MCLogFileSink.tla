---------------------------- MODULE MCLogFileSink ----------------------------
(* LogFileSink over a few days, files and records.                         *)
EXTENDS LogFileSink
=============================================================================
