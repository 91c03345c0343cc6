SPECIFICATION Spec
CONSTANTS
  Send = {s1}
  Copy = {c1}
  Convert = {}
  Others = {}
  Nobody = nobody
  Closer = closer
  N = 1
  Sidecars = {1}
INVARIANT CancelIsHeeded
