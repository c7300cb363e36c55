SPECIFICATION Spec
CONSTANTS
  Hold = 3
  Show = 4
  Grace = 2
  Disconnect = 2
  Slow = 3
  Sleep = 2
  KeyFails = FALSE
  MaxQueue = 2
PROPERTY OnlyHoldsBoot
