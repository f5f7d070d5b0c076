SPECIFICATION FairSpec
CONSTANTS
  MaxVersion = 2
  Image <- SharedImage
  Unfit = {1}
  Reloads = {"recreate", "command"}
  Reverts = FALSE
  MaxOperator = 3
  MaxFaults = 2
INVARIANT TypeOK
INVARIANT DeliveredBeforeRecorded
PROPERTY Converges
PROPERTY StaysSettled
PROPERTY SkippedFileIsDesired
