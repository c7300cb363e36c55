CONSTANTS
  a = a
  h = h
  m = m
  r1 = r1
  NoProc = NoProc
  Animators = {a}
  Handoffs = {h}
  Monitors = {m}
  Requesters = {r1}
  Env <- EveryEnv
SPECIFICATION Spec
INVARIANT IInv
PROPERTY VetoBinds
PROPERTY NoConsoleFlash
PROPERTY KeepsContract
