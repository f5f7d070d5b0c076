SPECIFICATION Spec
CONSTANTS
  None = None
  web = web
  api = api
  a = a
  b = b
  x = x
  Services = {web}
  Configs = {a, b, x}
  Unfit = {x}
  Image <- DistinctImages
  Bindings <- OneBinding
  MaxOperator = 3
  MaxFaults = 0
PROPERTY LiveColorNotRedeployed
