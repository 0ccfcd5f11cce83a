\* Three days, four records.
SPECIFICATION Spec
CONSTANTS
  Days = 3
  MaxLogs = 4
INVARIANTS
  TypeOK
  NoFileLeak
  MisfiledOnlyAfterFailure
