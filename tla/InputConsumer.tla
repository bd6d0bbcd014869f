--------------------------- MODULE InputConsumer ---------------------------
(***************************************************************************)
(* What the exit and task dispatchers promise their input stream (spec,    *)
(* Task Dispatcher and processMessage): a published message is taken up   *)
(* by a callback, which acknowledges it; it may be taken up again while    *)
(* unacknowledged (a restart, an expired ack wait); an acknowledged        *)
(* message is done for good; an ERROR envelope is reported for a message   *)
(* only once it is acknowledged, and at most once.  Once the node stops    *)
(* (the finalizer runs, or the process exits) no message is taken up any  *)
(* more, though one already taken may still finish; only a crash while     *)
(* the finalizer runs brings the node back.  Acks are assumed to reach the *)
(* broker in time.                                                         *)
(***************************************************************************)
CONSTANTS Msgs

VARIABLES
  state,    \* [Msgs -> "unpublished", "pending", "started", "acked"]
  errors,   \* [Msgs -> ERROR envelopes reported for the message]
  stopped   \* the finalizer has started, or the process has exited

cvars == <<state, errors, stopped>>

Init ==
  /\ state = [m \in Msgs |-> "unpublished"]
  /\ errors = [m \in Msgs |-> 0]
  /\ stopped = FALSE

Publish(m) ==
  /\ state[m] = "unpublished"
  /\ state' = [state EXCEPT ![m] = "pending"]
  /\ UNCHANGED <<errors, stopped>>

\* A callback takes the message up; only a running node does.
Start(m) ==
  /\ ~stopped /\ state[m] = "pending"
  /\ state' = [state EXCEPT ![m] = "started"]
  /\ UNCHANGED <<errors, stopped>>

\* The message is offered again while unacknowledged.
Retry(m) ==
  /\ state[m] = "started"
  /\ state' = [state EXCEPT ![m] = "pending"]
  /\ UNCHANGED <<errors, stopped>>

Acknowledge(m) ==
  /\ state[m] = "started"
  /\ state' = [state EXCEPT ![m] = "acked"]
  /\ UNCHANGED <<errors, stopped>>

\* One ERROR envelope, for an acknowledged message.
ReportError(m) ==
  /\ state[m] = "acked" /\ errors[m] = 0
  /\ errors' = [errors EXCEPT ![m] = 1]
  /\ UNCHANGED <<state, stopped>>

Stop ==
  /\ ~stopped /\ stopped' = TRUE
  /\ UNCHANGED <<state, errors>>

\* A crash during the finalizer: the node is started again.
Restart ==
  /\ stopped /\ stopped' = FALSE
  /\ UNCHANGED <<state, errors>>

Next ==
  \/ Stop \/ Restart
  \/ \E m \in Msgs :
       Publish(m) \/ Start(m) \/ Retry(m) \/ Acknowledge(m) \/ ReportError(m)

Spec == Init /\ [][Next]_cvars

=============================================================================
