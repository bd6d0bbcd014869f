--------------------------- MODULE MC_ExitRunner ---------------------------
(* Model-checking instance of ExitRunner: two input subjects subscribed   *)
(* in order, two well-formed messages on the first and a malformed one on *)
(* the second, both optional stages configured, one crash and restart.    *)
EXTENDS ExitRunner, TLC

CONSTANTS m1, m2, m3

MCMsgs == {m1, m2, m3}
MCSubjectSeq == <<"orders.created", "orders.failed">>
MCMsgSubject == m1 :> "orders.created" @@ m2 :> "orders.failed" @@ m3 :> "orders.created"
MCMsgData == m1 :> "ok" @@ m2 :> "badProto" @@ m3 :> "ok"
\* The lost-ack liveness run: one message on each subscription.
MCLiveMsgs == {m1, m2}
MCLiveMsgSubject == [m \in MCLiveMsgs |-> MCMsgSubject[m]]
MCLiveMsgData == [m \in MCLiveMsgs |-> MCMsgData[m]]
MCStreamMaxSizes == {Unlimited, 3}
\* The process name has a dot and a space; strings.ReplaceAll over it and
\* over the subjects.
MCProcess == "exit.v1 eu"
MCDotsToDashes == "orders.created" :> "orders-created" @@ "orders.failed" :> "orders-failed"
                  @@ MCProcess :> "exit-v1 eu"
MCSpacesToDashes == "exit-v1 eu" :> "exit-v1-eu"
=============================================================================
