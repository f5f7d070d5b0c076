SPECIFICATION FairSpec
CONSTANTS
  n1 = n1
  n2 = n2
  Nodes = {n1, n2}
  MaxCommit = 2
  Hosts <- MovedStack
  Outcomes = {"ok", "failed"}
  Mode <- OneOfEach
  MaxFaults = 1
  MaxAsked = 1
  NoVerdict = NoVerdict
INVARIANT TypeOK
PROPERTY KeepsContract
PROPERTY MirrorsLocal
PROPERTY SuccessIsSeen
