CONSTANTS
  Prepare = prepare
  Again = again
  Splash = splash
  Caller = caller
  Details = details
  Animators = {prepare, again}
  Handoffs = {splash}
  Monitors = {}
  Requesters = {caller, details}
  NoProc = NoProc
  PromptStart = TRUE
  Env <- Faulty
SPECIFICATION HSpec
INVARIANT DesktopUndisturbed
INVARIANT MenuUndisturbed
PROPERTY UnitStartedByOwnFrame
PROPERTY SwitchedWithOpenAssets
PROPERTY DesktopReached
