SPECIFICATION FairSpec
CONSTANTS
  Send = {s1}
  Copy = {c1}
  Convert = {}
  Others = {other}
  Nobody = nobody
  Closer = closer
  N = 1
  Sidecars = {1}
INVARIANTS
  CancelStays
PROPERTIES
  PollingEnds
  ShutdownEnds
