CONSTANTS
  h1 = h1
  h2 = h2
  NoHandler = NoHandler
  Handlers <- MCHandlers
  Lower <- MCLower
  Subjects <- MCSubjectsDefault
  FromNodes <- MCFromNodesDefault
  MaxCalls = 3

SPECIFICATION Spec

INVARIANT DispatchHonoursRegistration


\* Run panics without a default handler, which ends the process.
CHECK_DEADLOCK FALSE
