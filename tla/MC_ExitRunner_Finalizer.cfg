CONSTANTS
  m1 = m1
  m2 = m2
  m3 = m3
  NoId = NoId
  Msgs <- MCLiveMsgs
  SubjectSeq <- MCSubjectSeq
  MsgSubject <- MCLiveMsgSubject
  MsgData <- MCLiveMsgData
  HasPreprocessor = TRUE
  HasPostprocessor = TRUE
  StreamMaxSizes <- MCStreamMaxSizes
  ServerMaxSize = 4
  ErrorLens = {2}
  AckLoss = FALSE
  MaxCrashes = 0
  Process <- MCProcess
  DotsToDashes <- MCDotsToDashes
  SpacesToDashes <- MCSpacesToDashes
  MaxDeliveries = 1

SPECIFICATION Spec

INVARIANT FinalizerAfterHandlers

\* Run returns after the finalizer (or exits with status 1): the process
\* really stops.
CHECK_DEADLOCK FALSE
