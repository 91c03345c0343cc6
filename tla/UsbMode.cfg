SPECIFICATION FairSpec
CONSTANT MaxLate = 2
INVARIANTS
  OneLateClient
PROPERTIES
  ListenerFollowsMode
  PulledCableIsShown
  StopIsObeyed
