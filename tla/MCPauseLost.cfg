SPECIFICATION Spec
CONSTANTS
  Runs = {cron, manual}
  Readers = {status}
  Operator = operator
  Nobody = nobody
  Forever = forever
  Durations = {1, 2}
  MaxTime = 4
  MaxPauses = 2
  MaxKills = 1
  MaxReads = 1
INVARIANT IdleMeansHeldBack
