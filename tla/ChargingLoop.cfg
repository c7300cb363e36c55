SPECIFICATION Spec
CONSTANTS
  Hold = 3
  Show = 4
  Grace = 2
  Disconnect = 2
  Slow = 1
  Sleep = 1
  KeyFails = TRUE
  MaxQueue = 2
INVARIANT LitMeansPainted
PROPERTY HoldStartsBoot
PROPERTY PressAnswered
PROPERTY PowerOffRequested
PROPERTY DisplaySleeps
