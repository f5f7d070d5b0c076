SPECIFICATION Spec
CONSTANTS
  n1 = n1
  n2 = n2
  Nodes = {n1, n2}
  MaxCommit = 2
  Hosts <- MovedStack
  Outcomes = {"ok", "failed", "aborted"}
  Mode <- OneOfEach
  MaxFaults = 0
  MaxAsked = 0
  NoVerdict = NoVerdict
INVARIANT HealthyMeansReconciled
