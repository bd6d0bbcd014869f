CONSTANTS
  InboundIds = {"123"}
  ExplicitIds = {"myRequestId"}
  Uuids <- MCUuids
  Output = "test-parent"
  Channels = {"subtopic"}
  StreamMaxSizes <- MCStreamMaxSizes
  ServerMaxSizes <- MCServerMaxSizes
  Lens = {2, 5}
  MaxCalls = 3

SPECIFICATION Spec

INVARIANT TypeOK
INVARIANT PrepareMatchesContract
INVARIANT PublishedWithinLimit
INVARIANT RequestIdPreserved

\* A handler makes a bounded number of Send* calls and returns.
CHECK_DEADLOCK FALSE
