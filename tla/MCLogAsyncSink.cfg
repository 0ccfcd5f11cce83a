\* Calls, shutdown and one write that may fail: ownership, refinement, liveness.
\* With two slots the report of the failure can queue behind nullptr.
SPECIFICATION FairSpec
CONSTANTS
  Producers = {p1, p2}
  LogThread = logThread
  Owner = owner
  MaxSize = 2
  LogsPerProducer = 2
  MaxSinkErrors = 1
INVARIANTS
  TypeOK
  OwnedOnce
  AllBuffersFreed
  DrainedAtShutdown
PROPERTIES
  LogChannelSpec
  LogCallReturns
  ShutdownUnlessError
