SPECIFICATION Spec
CONSTANTS
  Kinds = {"photo", "music", "mp3", "video"}
  MaxSubmits = 3
  MaxCrashes = 2
INVARIANTS
  AtMostOneExport
  ReceiptIsTruthful
  NothingLost
  SuccessIsDurable
