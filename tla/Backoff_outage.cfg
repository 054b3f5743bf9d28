SPECIFICATION Spec
CONSTANTS
  StartDuration = 4
  MaxDuration = 120
  Limit = 512
  MaxCount = 12
PROPERTY ExponentialForever
