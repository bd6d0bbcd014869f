CONSTANTS
  r1 = r1
  r2 = r2
  NoReq = NoReq
  ReqIds <- MCReqIds
  MaxReplies = 1
  MaxDeliveries = 2
  AllowAbandon = FALSE
  SigTermArrives = TRUE

SPECIFICATION Spec

INVARIANT NoPanic


\* The process really stops: Run returns after the finalizer, or a panic.
CHECK_DEADLOCK FALSE
