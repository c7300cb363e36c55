CONSTANTS
  Prepare = prepare
  Again = again
  Splash = splash
  Caller = caller
  Details = details
  Animators = {prepare, again}
  Handoffs = {splash}
  Monitors = {}
  Requesters = {caller, details}
  NoProc = NoProc
  PromptStart = FALSE
  Env <- Undisturbed
SPECIFICATION HSpec
INVARIANT MenuUndisturbed
