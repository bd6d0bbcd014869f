CONSTANTS
  r1 = r1
  r2 = r2
  NoReq = NoReq
  ReqIds <- MCReqIds
  MaxReplies = 2
  MaxDeliveries = 2
  AllowAbandon = TRUE
  SigTermArrives = FALSE

SPECIFICATION Spec


PROPERTY CorrelatorRefinement

\* Without SIGTERM the runner stops once every reply is acked and every
\* caller served: nothing is left to do.
CHECK_DEADLOCK FALSE
