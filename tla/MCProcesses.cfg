SPECIFICATION Spec
CONSTANTS
  MaxStarts = 2
  MaxStops = 2
  MaxRecords = 1
  PreShared = {ps1, ps2}
  MaxBoots = 3
  MaxTrouble = 2
  NoToken = NoToken
INVARIANTS  FilesAgree 
 
CHECK_DEADLOCK FALSE
