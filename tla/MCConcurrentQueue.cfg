\* A queue of two slots, four threads and two items.
SPECIFICATION Spec
CONSTANTS
  Threads = {t1, t2, t3, t4}
  Items = {x, y}
  NoItem = NoItem
  MaxSize = 2
SYMMETRY ThreadSymmetry
INVARIANTS
  TypeOK
  CapacityRespected
  PushersNotStranded
  PoppersNotStranded
