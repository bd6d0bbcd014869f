----------------------------- MODULE ExitRunner -----------------------------
(***************************************************************************)
(* The exit runner of runner/exit (the task runner has the same shape): Run *)
(* checks the default handler, runs the initializer, subscribes to every   *)
(* input subject in order with a durable, manually acknowledged queue      *)
(* subscription, and processes each delivery in the subscription's         *)
(* callback: decode, select the handler, preprocessor, handler,            *)
(* postprocessor, ack; any failure acks the delivery and then publishes an *)
(* ERROR envelope.  On SIGTERM it unsubscribes in order and runs the       *)
(* finalizer; a failing Subscribe or Unsubscribe exits with status 1.      *)
(*                                                                         *)
(* The broker keeps a delivery in flight until acknowledged and redelivers *)
(* it when the ack wait expires.  The process may crash (and be restarted  *)
(* by its supervisor) between any two steps; nothing is persisted locally, *)
(* so recovery is the broker's redelivery.  One subscription runs one      *)
(* callback at a time; the subscriptions of different subjects run        *)
(* concurrently.                                                           *)
(***************************************************************************)
EXTENDS Naturals, Sequences, FiniteSets, TLC, OutputPrep

CONSTANTS
  Msgs,             \* input messages
  SubjectSeq,       \* the configured input subjects, in order
  MsgSubject,       \* [Msgs -> subjects] the subject each message is on
  MsgData,          \* [Msgs -> {"ok", "badCompressed", "badProto"}]
  HasPreprocessor,  \* WithPreprocessor was called
  HasPostprocessor, \* WithPostprocessor was called
  StreamMaxSizes,   \* MaxMsgSize values the stream may report
  ServerMaxSize,    \* the connection's MaxPayload
  ErrorLens,        \* lengths an ERROR envelope may have
  AckLoss,          \* acks may be lost or land after the ack wait
  MaxDeliveries,    \* delivery attempts per message after lost acks
  MaxCrashes,       \* crashes (and restarts) of the process
  NoId,             \* the empty request id
  Process,          \* er.sdk.Metadata.GetProcess()
  DotsToDashes,     \* strings.ReplaceAll(x, ".", "-") over subjects and Process
  SpacesToDashes    \* strings.ReplaceAll(x, " ", "-") over DotsToDashes[Process]

Subjects == {SubjectSeq[i] : i \in DOMAIN SubjectSeq}

ASSUME /\ SubjectSeq # <<>>
       /\ MsgSubject \in [Msgs -> Subjects]
       /\ MsgData \in [Msgs -> {"ok", "badCompressed", "badProto"}]
       /\ HasPreprocessor \in BOOLEAN /\ HasPostprocessor \in BOOLEAN
       /\ AckLoss \in BOOLEAN
       /\ MaxDeliveries \in Nat \ {0} /\ MaxCrashes \in Nat
       /\ NoId \notin Msgs
       /\ Subjects \cup {Process} \subseteq DOMAIN DotsToDashes
       /\ DotsToDashes[Process] \in DOMAIN SpacesToDashes

\* A request id is the message it came with, or empty.
ReqIdVals == Msgs \cup {NoId}

VARIABLES
  process,      \* "initializing", "subscribing", "running", "unsubscribing",
                \* "finalizing" or "exited"
  subscribed,   \* how many of SubjectSeq are subscribed (a prefix)
  unsubscribed, \* how many of them have been unsubscribed since SIGTERM
  crashes,      \* crashes so far
  cb,           \* [Subjects -> the subscription's callback]
  msgState,     \* [Msgs -> "unpublished", "pending", "inflight", "acked"]
  deliveries,   \* [Msgs -> delivery attempts]
  consumers,    \* the stream's durable consumers: [name, subject]
  owner,        \* [Msgs -> names of the consumers that hold the message]
  errFor        \* [Msgs -> ERROR envelopes published while processing it]

vars == <<process, subscribed, unsubscribed, crashes, cb, msgState,
          deliveries, consumers, owner, errFor>>

Pcs == {"idle", "pre", "handler", "post", "ack", "err1", "err2"}
IdleCb == [pc |-> "idle", msg |-> NoId]

\* The subjects whose subscription currently delivers.
Active == {SubjectSeq[i] : i \in (unsubscribed + 1)..subscribed}

Up == process # "exited"

Held(m) == \E s \in Subjects : cb[s].msg = m

\* Model bound on the broker's redeliveries of one message (the code has
\* none): each lost ack and each crash costs one more delivery.
DeliveryBound == MaxDeliveries + MaxCrashes

-----------------------------------------------------------------------------
(* Startup: Run calls the initializer (loading the process configuration   *)
(* and calling the user's, which cannot fail), then startSubscriber        *)
(* subscribes to each subject in turn.                                      *)

Initialize ==
  /\ process = "initializing"
  /\ process' = "subscribing"
  /\ UNCHANGED <<subscribed, unsubscribed, crashes, cb, msgState, deliveries,
                 consumers, owner, errFor>>

\* Mutant: the name takes the pod's host name, new at every restart.
ConsumerName_PerPod(s) ==
  DotsToDashes[s] \o "-" \o SpacesToDashes[DotsToDashes[Process]] \o "-pod" \o ToString(crashes)

\* The durable consumer (and queue group) name of a subject: the subject
\* and the process name with dots (and, in the process, spaces) turned to
\* dashes, so that a restarted process binds to the consumers it made.
ConsumerName(s) ==
  DotsToDashes[s] \o "-" \o SpacesToDashes[DotsToDashes[Process]]

\* QueueSubscribe with Durable(consumerName) creates the consumer, or binds
\* to it if the stream has it already; a failure exits with status 1 and
\* the supervisor starts the process again.
Subscribe ==
  /\ process = "subscribing"
  /\ \/ LET s == SubjectSeq[subscribed + 1] IN
        /\ subscribed' = subscribed + 1
        /\ process' = IF subscribed + 1 = Len(SubjectSeq) THEN "running"
                                                          ELSE process
        /\ consumers' = consumers \cup {[name |-> ConsumerName(s), subject |-> s]}
        /\ UNCHANGED crashes
     \/ /\ crashes < MaxCrashes
        /\ crashes' = crashes + 1
        /\ subscribed' = 0
        /\ process' = "initializing"
        /\ UNCHANGED consumers
  /\ UNCHANGED <<unsubscribed, cb, msgState, deliveries, owner, errFor>>

-----------------------------------------------------------------------------
(* The broker.                                                              *)

\* Upstream publishes to an input subject, once the node is deployed: its
\* consumer of that subject exists.  DeliverNew: every consumer of the
\* subject existing now holds the message, and only those.
PublishInput(m) ==
  LET holders == {c \in consumers : c.subject = MsgSubject[m]} IN
  /\ holders # {} /\ msgState[m] = "unpublished"
  /\ msgState' = [msgState EXCEPT ![m] = "pending"]
  /\ owner' = [owner EXCEPT ![m] = {c.name : c \in holders}]
  /\ UNCHANGED <<process, subscribed, unsubscribed, crashes, cb, deliveries,
                 consumers, errFor>>

\* The ack wait expires: redelivery of a delivery whose ack was lost, came
\* late, or will never come because the process holding it crashed.
AckTimeout(m) ==
  /\ msgState[m] = "inflight"
  /\ \/ AckLoss /\ deliveries[m] < MaxDeliveries
     \/ ~Held(m)
  /\ msgState' = [msgState EXCEPT ![m] = "pending"]
  /\ UNCHANGED <<process, subscribed, unsubscribed, crashes, cb, deliveries,
                 consumers, owner, errFor>>

\* msg.Ack(): an error is only logged.
AckMsg(m) ==
  \/ msgState' = [msgState EXCEPT ![m] = "acked"]
  \/ AckLoss /\ deliveries[m] < MaxDeliveries /\ UNCHANGED msgState

-----------------------------------------------------------------------------
(* processMessage.  A decode failure goes to the error path (with the     *)
(* request id salvaged, which no property here tells apart).               *)
(* getResponseHandler falls back to "default", which Run has checked       *)
(* exists, so a handler is always found.                                   *)

FirstStage == IF HasPreprocessor THEN "pre" ELSE "handler"

ProcessMessage(s, m) ==
  /\ Up /\ s \in Active /\ cb[s].pc = "idle"
  /\ MsgSubject[m] = s /\ msgState[m] = "pending"
  /\ ConsumerName(s) \in owner[m]
  /\ deliveries[m] < DeliveryBound
  /\ msgState' = [msgState EXCEPT ![m] = "inflight"]
  /\ deliveries' = [deliveries EXCEPT ![m] = @ + 1]
  /\ cb' = [cb EXCEPT ![s] = [pc |-> IF MsgData[m] = "ok" THEN FirstStage
                                                            ELSE "err1",
                               msg |-> m]]
  /\ UNCHANGED <<process, subscribed, unsubscribed, crashes, consumers, owner, errFor>>

\* A stage of the pipeline returns nil or an error.
Stage(s, from, onOk) ==
  /\ Up /\ cb[s].pc = from
  /\ \E ok \in BOOLEAN :
       cb' = [cb EXCEPT ![s].pc = IF ok THEN onOk ELSE "err1"]
  /\ UNCHANGED <<process, subscribed, unsubscribed, crashes, msgState,
                 deliveries, consumers, owner, errFor>>

RunPreprocessor(s) == Stage(s, "pre", "handler")
RunHandler(s) == Stage(s, "handler", IF HasPostprocessor THEN "post" ELSE "ack")
RunPostprocessor(s) == Stage(s, "post", "ack")

\* Mutant: the success path returns without acknowledging.
Ack_Missing(s) ==
  /\ Up /\ cb[s].pc = "ack"
  /\ cb' = [cb EXCEPT ![s] = IdleCb]
  /\ UNCHANGED <<process, subscribed, unsubscribed, crashes, msgState,
                 deliveries, consumers, owner, errFor>>

\* Success: the delivery is acknowledged.
Ack(s) ==
  /\ Up /\ cb[s].pc = "ack"
  /\ AckMsg(cb[s].msg)
  /\ cb' = [cb EXCEPT ![s] = IdleCb]
  /\ UNCHANGED <<process, subscribed, unsubscribed, crashes, deliveries,
                 consumers, owner, errFor>>

\* publishError: publishResponse negotiates the size, prepares the envelope
\* and publishes it; any failure there is only logged.
PublishErrorEnvelope(m) ==
  \E infoOk, sent \in BOOLEAN, streamMax \in StreamMaxSizes,
     len \in ErrorLens, comp \in ErrorLens :
    errFor' = IF sent /\ Publishable(infoOk, streamMax, ServerMaxSize, len, comp)
                THEN [errFor EXCEPT ![m] = @ + 1]
                ELSE errFor

\* Mutant: the error published before the delivery is acknowledged.
ErrorSteps_PublishFirst == <<"publish", "ack">>

\* processRunnerError acknowledges the delivery, then publishes the error.
ErrorSteps == <<"ack", "publish">>

\* The i-th step of processRunnerError (pc "err1", "err2").
ProcessRunnerError(s) ==
  LET i == IF cb[s].pc = "err1" THEN 1 ELSE 2
      m == cb[s].msg
  IN
  /\ Up /\ cb[s].pc \in {"err1", "err2"}
  /\ IF ErrorSteps[i] = "ack"
       THEN AckMsg(m) /\ UNCHANGED errFor
       ELSE PublishErrorEnvelope(m) /\ UNCHANGED msgState
  /\ cb' = [cb EXCEPT ![s] = IF i = 1 THEN [@ EXCEPT !.pc = "err2"] ELSE IdleCb]
  /\ UNCHANGED <<process, subscribed, unsubscribed, crashes, deliveries,
                 consumers, owner>>

-----------------------------------------------------------------------------
(* Shutdown and crashes.                                                    *)

Signal ==
  /\ process = "running"
  /\ process' = "unsubscribing"
  /\ UNCHANGED <<subscribed, unsubscribed, crashes, cb, msgState, deliveries,
                 consumers, owner, errFor>>

\* Mutant: the loop runs one past the last subscription.
Unsubscribe_OffByOne ==
  /\ process = "unsubscribing"
  /\ \/ /\ unsubscribed' = unsubscribed + 1
        /\ process' = IF unsubscribed = subscribed THEN "finalizing" ELSE process
     \/ process' = "exited" /\ UNCHANGED unsubscribed
  /\ UNCHANGED <<subscribed, crashes, cb, msgState, deliveries, consumers, owner, errFor>>

\* Mutant: startSubscriber returns on a failing Unsubscribe, and Run goes
\* on to the finalizer.
Unsubscribe_ReturnOnError ==
  /\ process = "unsubscribing"
  /\ \/ /\ unsubscribed' = unsubscribed + 1
        /\ process' = IF unsubscribed + 1 = subscribed THEN "finalizing"
                                                      ELSE process
     \/ process' = "finalizing" /\ UNCHANGED unsubscribed
  /\ UNCHANGED <<subscribed, crashes, cb, msgState, deliveries, consumers, owner, errFor>>

\* Unsubscribe the next subject; after the last startSubscriber returns and
\* Run calls the finalizer.  Callbacks still running are not waited for.
\* A failing Unsubscribe exits with status 1, skipping the finalizer.
Unsubscribe ==
  /\ process = "unsubscribing"
  /\ \/ /\ unsubscribed' = unsubscribed + 1
        /\ process' = IF unsubscribed + 1 = subscribed THEN "finalizing"
                                                      ELSE process
     \/ process' = "exited" /\ UNCHANGED unsubscribed
  /\ UNCHANGED <<subscribed, crashes, cb, msgState, deliveries, consumers, owner, errFor>>

\* The finalizer returns, Run returns and the process ends.
Finalize ==
  /\ process = "finalizing"
  /\ process' = "exited"
  /\ UNCHANGED <<subscribed, unsubscribed, crashes, cb, msgState, deliveries,
                 consumers, owner, errFor>>

\* The process dies at any point and is started again: every callback is
\* gone, Run calls the initializer again and makes the subscriptions anew.
Crash ==
  /\ Up /\ crashes < MaxCrashes
  /\ crashes' = crashes + 1
  /\ process' = "initializing"
  /\ subscribed' = 0 /\ unsubscribed' = 0
  /\ cb' = [s \in Subjects |-> IdleCb]
  /\ UNCHANGED <<msgState, deliveries, consumers, owner, errFor>>

-----------------------------------------------------------------------------
Init ==
  /\ process = "initializing"
  /\ subscribed = 0 /\ unsubscribed = 0 /\ crashes = 0
  /\ cb = [s \in Subjects |-> IdleCb]
  /\ msgState = [m \in Msgs |-> "unpublished"]
  /\ deliveries = [m \in Msgs |-> 0]
  /\ consumers = {}
  /\ owner = [m \in Msgs |-> {}]
  /\ errFor = [m \in Msgs |-> 0]

Next ==
  \/ Initialize \/ Subscribe \/ Signal \/ Unsubscribe \/ Finalize \/ Crash
  \/ \E m \in Msgs : PublishInput(m) \/ AckTimeout(m)
  \/ \E s \in Subjects :
       \/ \E m \in Msgs : ProcessMessage(s, m)
       \/ RunPreprocessor(s) \/ RunHandler(s) \/ RunPostprocessor(s)
       \/ Ack(s) \/ ProcessRunnerError(s)

\* The client's delivery goroutines and the broker's redelivery timer make
\* progress; upstream eventually publishes.  Crashes and SIGTERM are not
\* forced.
Fairness ==
  /\ WF_vars(Initialize) /\ WF_vars(Subscribe) /\ WF_vars(Unsubscribe) /\ WF_vars(Finalize)
  /\ \A m \in Msgs : WF_vars(PublishInput(m)) /\ WF_vars(AckTimeout(m))
  /\ \A s \in Subjects :
       /\ \A m \in Msgs : WF_vars(ProcessMessage(s, m))
       /\ WF_vars(RunPreprocessor(s)) /\ WF_vars(RunHandler(s))
       /\ WF_vars(RunPostprocessor(s)) /\ WF_vars(Ack(s))
       /\ WF_vars(ProcessRunnerError(s))

Spec == Init /\ [][Next]_vars /\ Fairness

-----------------------------------------------------------------------------
TypeOK ==
  /\ process \in {"initializing", "subscribing", "running", "unsubscribing", "finalizing",
                "exited"}
  /\ subscribed \in 0..Len(SubjectSeq) /\ unsubscribed \in 0..subscribed
  /\ crashes \in 0..MaxCrashes
  /\ cb \in [Subjects -> [pc : Pcs, msg : ReqIdVals]]
  /\ msgState \in [Msgs -> {"unpublished", "pending", "inflight", "acked"}]
  /\ deliveries \in [Msgs -> 0..DeliveryBound]
  /\ consumers \subseteq [name : STRING, subject : Subjects]
  /\ \A m \in Msgs : owner[m] \subseteq {c.name : c \in consumers}
  /\ errFor \in [Msgs -> Nat]

-----------------------------------------------------------------------------
(* Properties.                                                              *)

\* At most one ERROR envelope is published for an input message, though a
\* crash may strike between any two steps of processMessage and the broker
\* then redelivers: processRunnerError acknowledges before it publishes, so
\* a delivery that reached the publish is never processed again.
NoDuplicateErrorEnvelope == \A m \in Msgs : errFor[m] <= 1

\* Every input message delivered to the runner is eventually acknowledged
\* (on the success path or the error path), through crashes, restarts and
\* redeliveries, unless the process has shut down.
EveryMessageAcked ==
  \A m \in Msgs :
    msgState[m] = "pending" ~> (msgState[m] = "acked" \/ process = "exited")

\* The finalizer never runs while a delivery is still inside the user's
\* preprocessor, handler or postprocessor: resources the finalizer
\* releases are not pulled from under a handler.  Unsubscribe does not wait
\* for a running callback, and Run calls the finalizer right after
\* startSubscriber returns.
FinalizerAfterHandlers ==
  process = "finalizing" => \A s \in Subjects : cb[s].pc \notin {"pre", "handler", "post"}

-----------------------------------------------------------------------------
(* The dispatcher implements the abstract consumer: a delivery taken by a   *)
(* callback is "started", and the node is stopped from the moment the      *)
(* finalizer starts or the process exits.                                  *)

Consumer == INSTANCE InputConsumer WITH
  state <- [m \in Msgs |-> IF msgState[m] = "inflight" THEN "started" ELSE msgState[m]],
  errors <- errFor,
  stopped <- process \in {"finalizing", "exited"}

\* With acks that reach the broker in time, every step of the dispatcher,
\* through crashes and redeliveries, is a step of the abstract consumer:
\* processRunnerError reports an error only for an acknowledged message
\* and only once, and once startSubscriber has returned (the last
\* Unsubscribe done) or the process has exited, no delivery is taken up.
ConsumerRefinement == Consumer!Spec

=============================================================================
