SPECIFICATION FairSpec
CONSTANTS
  Runs = {cron, manual}
  Readers = {status}
  Operator = operator
  Nobody = nobody
  Forever = forever
  Durations = {1, 2}
  MaxTime = 5
  MaxPauses = 3
  MaxKills = 2
  MaxReads = 1
INVARIANT TypeOK
INVARIANT AtMostOneRun
INVARIANT HeldBack
PROPERTY GitOpsResumes
PROPERTY KeepsGate
