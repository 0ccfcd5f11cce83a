---------------------------- MODULE MCLogAsyncSink ----------------------------
(* LogAsyncSink with two producers.                                        *)
EXTENDS LogAsyncSink
===============================================================================
