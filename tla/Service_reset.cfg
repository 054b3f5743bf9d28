SPECIFICATION ServiceSpec
CONSTANTS
  StartDuration = 4
  MaxDuration = 16
  Limit = 64
  MaxCount = 6
  StartLimitInterval = 32
  StartLimitBurst = 2
  RestartSec = 12
  Lives = {4, 5, 40}
  MaxRounds = 2
PROPERTY BackoffOutlivesSockets
