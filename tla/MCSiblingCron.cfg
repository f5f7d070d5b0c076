SPECIFICATION Spec
CONSTANTS
  n1 = n1
  n1a = n1a
  agent = agent
  agent2 = agent2
  box = box
  Names = {n1, n1a}
  Places = {agent, agent2}
  Hosts = {box}
  HostOf <- OneHost
  Extends <- DashedName
  Continues <- SuggestedHome
  EnvCount = 1
  Placements <- OneOrBoth
  Starts <- TwoStarts
  None = None
  MaxCommands = 3
  MaxFaults = 0
CHECK_DEADLOCK FALSE
PROPERTY OtherEntriesUntouched
