CONSTANTS
  m = m
  r1 = r1
  NoProc = NoProc
  Animators = {}
  Handoffs = {}
  Monitors = {m}
  Requesters = {r1}
  Env <- Undisturbed
SPECIFICATION Spec
PROPERTY AcceptedDetailsStay
