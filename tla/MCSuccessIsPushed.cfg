SPECIFICATION Spec
CONSTANTS
  Tags <- MCTags
  Ciphers <- MCCiphers
  Starts <- MCStarts
  OthersPush <- MCOthersPush
  MaxCommands = 4
  MaxFaults = 2
CHECK_DEADLOCK FALSE
PROPERTY SuccessIsPushed
