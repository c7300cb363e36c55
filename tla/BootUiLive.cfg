CONSTANTS
  a = a
  h = h
  r1 = r1
  NoProc = NoProc
  Animators = {a}
  Handoffs = {h}
  Monitors = {}
  Requesters = {r1}
  Env <- NoSignals
SPECIFICATION Spec
PROPERTY DiagnosticsShown
PROPERTY RequestsAnswered
