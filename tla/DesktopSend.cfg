SPECIFICATION Spec
CONSTANTS
  Send = {s1}
  Copy = {}
  Convert = {v1}
  Others = {other}
  Nobody = nobody
  Closer = closer
  N = 2
  Sidecars = {1}
INVARIANTS
  QueueIsFreed
  CleanedIsUnused
PROPERTY ReportIsTrue
