\* Two sockets and a queue, on three descriptors.
SPECIFICATION FairSpec
CONSTANTS
  Channels = {s1, s2, pipe}
  Sockets = {s1, s2}
  Pipe = pipe
  Fds = {1, 2, 3}
  Kinds = {"read"}
  Texts4 = {a4}
  Texts6 = {}
  TextsDotted6 = {}
  TextsBad = {bad}
  NoText = none
  PipeCapacity = 1
  Signals = {sig}
INVARIANTS
  DescriptorsOwned
  CacheCoherent
PROPERTIES
  OpensAllOrNothing
  SignalsTaken
