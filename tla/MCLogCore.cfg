SPECIFICATION Spec
CONSTANTS
    s1 = s1
    s2 = s2
    Sinks = {s1, s2}
    NoSink = NoSink
    Formatters = {f1}
    NoFormatter = NoFormatter
    MaxLoggers = 2
    MaxLevel = 1
    Filters <- MCFilters
    LogSizes = {0, 1, 4}
    DefaultLogSize = 4
    HeaderLength = 2
    MaxText = 4
SYMMETRY SinkSymmetry
INVARIANTS
    TypeOK
    SinksOwnedOnce
    BytesWithinBuffer
    LinesEnd
