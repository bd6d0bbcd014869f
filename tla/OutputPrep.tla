----------------------------- MODULE OutputPrep -----------------------------
(***************************************************************************)
(* The size negotiation and output preparation every publish goes through *)
(* (getMaxMessageSize and prepareOutputMessage of the exit runner, the     *)
(* same code as MessagingUtilsImpl.GetMaxMessageSize and                   *)
(* Messaging.prepareOutputMessage of the SDK).  Byte strings are           *)
(* abstracted to their lengths; the compressor to the length it produces. *)
(***************************************************************************)
EXTENDS Integers

\* The stream's MaxMsgSize uses -1 for "no limit".
Unlimited == -1

\* Mutant: the -1 sentinel treated as an ordinary limit.
GetMaxMessageSize_NoSentinel(streamMaxSize, serverMaxSize) ==
  IF streamMaxSize < serverMaxSize THEN streamMaxSize ELSE serverMaxSize

\* The lesser of the stream's and the connection's limits.
GetMaxMessageSize(streamMaxSize, serverMaxSize) ==
  IF streamMaxSize = Unlimited THEN serverMaxSize
  ELSE IF streamMaxSize < serverMaxSize THEN streamMaxSize
  ELSE serverMaxSize

\* Mutant: a message exactly at the limit compressed (< for <=).
PrepareOutputMessage_StrictFit(lenMsg, lenCompressed, maxSize) ==
  IF lenMsg < maxSize
    THEN [ok |-> TRUE, compressed |-> FALSE, len |-> lenMsg]
  ELSE IF lenCompressed > maxSize
    THEN [ok |-> FALSE, compressed |-> TRUE, len |-> lenCompressed]
  ELSE [ok |-> TRUE, compressed |-> TRUE, len |-> lenCompressed]

\* The bytes sent as they are when they fit, compressed when only the
\* compressed form fits, and ErrMessageToBig (ok = FALSE) otherwise.
PrepareOutputMessage(lenMsg, lenCompressed, maxSize) ==
  IF lenMsg <= maxSize
    THEN [ok |-> TRUE, compressed |-> FALSE, len |-> lenMsg]
  ELSE IF lenCompressed > maxSize
    THEN [ok |-> FALSE, compressed |-> TRUE, len |-> lenCompressed]
  ELSE [ok |-> TRUE, compressed |-> TRUE, len |-> lenCompressed]

\* The outcome of a publish: StreamInfo may fail (no publish), otherwise
\* the negotiated limit decides; a prepared message may still fail to
\* publish, which the caller only logs.
Publishable(streamInfoOk, streamMaxSize, serverMaxSize, lenMsg, lenCompressed) ==
  /\ streamInfoOk
  /\ PrepareOutputMessage(lenMsg, lenCompressed,
        GetMaxMessageSize(streamMaxSize, serverMaxSize)).ok

=============================================================================
