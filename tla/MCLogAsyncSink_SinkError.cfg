\* The adapted sink may fail once: the log thread can block on its own queue.
SPECIFICATION FairSpec
CONSTANTS
  Producers = {p1, p2}
  LogThread = logThread
  Owner = owner
  MaxSize = 1
  LogsPerProducer = 2
  MaxSinkErrors = 1
PROPERTIES
  ShutdownCompletes
