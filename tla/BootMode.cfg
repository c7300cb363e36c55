SPECIFICATION FairSpec
CONSTANTS
  Gens = {g0, g1}
  DefaultGen = g0
  NoGen = NoGen
  PonReasons <- MCPonReasons
  Faults <- EveryFault
INVARIANTS
  IInv
  NormalBootKept
  SelectionKept
  OneBootPerSelection
  ChargerBootHonoured
PROPERTIES
  ModeLatched
  ImplementsContract
  EveryBootSettles
CHECK_DEADLOCK FALSE
