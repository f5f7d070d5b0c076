SPECIFICATION FairSpec
CONSTANTS
  None = None
  web = web
  api = api
  a = a
  b = b
  x = x
  Services = {web, api}
  Configs = {a, b, x}
  Unfit = {x}
  Image <- DistinctImages
  Bindings <- TwoBindings
  MaxOperator = 3
  MaxFaults = 2
INVARIANT TypeOK
PROPERTY RemovedColorUnrouted
PROPERTY FingerprintEarned
PROPERTY TrafficMovesToVetted
PROPERTY Converges
PROPERTY StaysSettled
