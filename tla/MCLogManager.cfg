SPECIFICATION ManagerSpec
CONSTANTS
    Sinks = {1, 2, 3, 4, 5, 6, 7}
    NoSink = NoSink
    Formatters = {logFormatter_}
    NoFormatter = NoFormatter
    MaxLoggers = 3
    MaxLevel = 3
    Filters <- MCFilters
    LogSizes = {}
    DefaultLogSize = 4
    HeaderLength = 2
    MaxText = 4
    NetHeaderLength = 1
    WrapSize = 5
INVARIANTS
    SinksOwnedOnce
PROPERTY
    FirstInitDecides
