SPECIFICATION FairSpec
CONSTANTS
  a = a
  b = b
  Files = {a, b}
  QueueIds = {q1}
  NoQueue = none
  NoFile = nofile
  Usb = usb
  Manifests <- MCLiveManifests
  QueueMax = 2
  MaxFailed = 1
PROPERTIES
  SyncEnds
  ReceivedIsSettled
  RequestEnds
