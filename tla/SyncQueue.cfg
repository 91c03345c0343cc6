SPECIFICATION Spec
CONSTANTS
  a = a
  b = b
  Files = {a, b}
  QueueIds = {q1}
  NoQueue = none
  NoFile = nofile
  Usb = usb
  Manifests <- MCManifests
  QueueMax = 2
  MaxFailed = 2
INVARIANTS
  ImportOwnsItsSlot
  SyncingCoversTheWorker
  CountersMatchItems
  ImportHasItsFiles
  ReportIsConsistent
PROPERTY
  ImplementsContract
