--------------------------- MODULE TriggerRunner ---------------------------
(***************************************************************************)
(* The trigger runner of runner/trigger: the user's RunnerFunc (the        *)
(* driver) registers response channels with GetResponseChannel and sends   *)
(* requests; the subscriber routine receives the replies from the broker   *)
(* and hands each one, through the response handler, to the channel        *)
(* registered under its request id (sync.Map LoadAndDelete); on SIGTERM    *)
(* the composed runner closes every channel still in the map (sync.Map     *)
(* Range) while the subscriber unsubscribes, and Run waits for both on a   *)
(* WaitGroup before calling the finalizer and returning.                   *)
(*                                                                         *)
(* A response channel is made by make(chan *anypb.Any): it is unbuffered,  *)
(* so the handler's send blocks until the driver receives.  Each request   *)
(* id is registered at most once (the spec forbids a second registration); *)
(* its channel is therefore named by the request id itself.               *)
(***************************************************************************)
EXTENDS Naturals, FiniteSets

CONSTANTS
  ReqIds,         \* request ids the driver correlates
  MaxReplies,     \* replies the downstream may publish per request id
  MaxDeliveries,  \* delivery attempts the broker makes per reply message
  AllowAbandon,   \* whether the user's driver may stop waiting (a timeout)
  SigTermArrives, \* whether SIGTERM/SIGINT is delivered during the run
  NoReq           \* "no request id"

ASSUME /\ ReqIds # {} /\ NoReq \notin ReqIds
       /\ MaxReplies \in Nat \ {0}
       /\ MaxDeliveries \in Nat \ {0}
       /\ AllowAbandon \in BOOLEAN /\ SigTermArrives \in BOOLEAN

\* A reply message on the input subject: the request id it answers and its
\* ordinal among the replies the downstream published for that id.
Msgs == ReqIds \X (1..MaxReplies)
NoMsg == <<NoReq, 0>>

VARIABLES
  responseChannels, \* keys of the runner's sync.Map responseChannels
  chanState,        \* [ReqIds -> {"none","open","closed"}] each id's channel
  sent,             \* [ReqIds -> Nat] payloads handed to each channel
  driver,           \* [ReqIds -> state of the user code awaiting that id]
  msgState,         \* [Msgs -> broker state of each reply message]
  deliveries,       \* [Msgs -> delivery attempts so far]
  sub,              \* the subscription callback: [pc, msg]
  subscribed,       \* the input subscription is active
  signalled,        \* SIGTERM/SIGINT delivered to both termChans
  runnerPc,         \* composeRunner's shutdown code
  toVisit,          \* keys the running Range has still to visit
  rangeCur,         \* key whose value Range has loaded and not yet closed
  wg,               \* the package WaitGroup counter
  process           \* "running", "returned" (Run returned), "exited"
                    \* (status 1) or "crashed" (a panic)

vars == <<responseChannels, chanState, sent, driver, msgState,
          deliveries, sub, subscribed, signalled, runnerPc, toVisit,
          rangeCur, wg, process>>

DriverStates == {"idle", "stored", "registered", "waiting",
                 "received", "closed", "abandoned"}
MsgStates == {"unpublished", "pending", "inflight", "acked"}

Running == process = "running"

-----------------------------------------------------------------------------
(* The user's driver.  GetResponseChannel Stores a fresh channel, then      *)
(* Loads it back and type-asserts it; the two are separate sync.Map calls.  *)

GetResponseChannelStore(r) ==
  /\ Running /\ driver[r] = "idle"
  /\ responseChannels' = responseChannels \cup {r}
  /\ chanState' = [chanState EXCEPT ![r] = "open"]
  /\ driver' = [driver EXCEPT ![r] = "stored"]
  /\ UNCHANGED <<sent, msgState, deliveries, sub, subscribed, signalled,
                 runnerPc, toVisit, rangeCur, wg, process>>

\* Load returns nil once the key has been deleted in between, and the
\* single-value type assertion on nil panics.
GetResponseChannelLoad(r) ==
  /\ Running /\ driver[r] = "stored"
  /\ IF r \in responseChannels
       THEN driver' = [driver EXCEPT ![r] = "registered"] /\ UNCHANGED process
       ELSE process' = "crashed" /\ UNCHANGED driver
  /\ UNCHANGED <<responseChannels, chanState, sent, msgState, deliveries,
                 sub, subscribed, signalled, runnerPc, toVisit, rangeCur, wg>>

\* The driver publishes its request; from now on the downstream may reply.
SendRequest(r) ==
  /\ Running /\ driver[r] = "registered"
  /\ driver' = [driver EXCEPT ![r] = "waiting"]
  /\ UNCHANGED <<responseChannels, chanState, sent, msgState, deliveries,
                 sub, subscribed, signalled, runnerPc, toVisit, rangeCur, wg,
                 process>>

\* A receive on a closed channel returns at once with the zero value.
ObserveClosed(r) ==
  /\ Running /\ driver[r] = "waiting" /\ chanState[r] = "closed"
  /\ driver' = [driver EXCEPT ![r] = "closed"]
  /\ UNCHANGED <<responseChannels, chanState, sent, msgState, deliveries,
                 sub, subscribed, signalled, runnerPc, toVisit, rangeCur, wg,
                 process>>

\* User code that selects on the channel and a timeout gives up waiting.
Abandon(r) ==
  /\ AllowAbandon /\ Running /\ driver[r] = "waiting"
  /\ driver' = [driver EXCEPT ![r] = "abandoned"]
  /\ UNCHANGED <<responseChannels, chanState, sent, msgState, deliveries,
                 sub, subscribed, signalled, runnerPc, toVisit, rangeCur, wg,
                 process>>

-----------------------------------------------------------------------------
(* The downstream and the broker.                                           *)

\* The downstream publishes the k-th reply to a request it has received;
\* more than one reply per id comes from at-least-once processing upstream.
PublishReply(m) ==
  /\ Running
  /\ driver[m[1]] \notin {"idle", "stored", "registered"}
  /\ msgState[m] = "unpublished"
  /\ m[2] > 1 => msgState[<<m[1], m[2] - 1>>] # "unpublished"
  /\ msgState' = [msgState EXCEPT ![m] = "pending"]
  /\ UNCHANGED <<responseChannels, chanState, sent, driver, deliveries,
                 sub, subscribed, signalled, runnerPc, toVisit, rangeCur, wg,
                 process>>

\* The ack wait expires on a delivery not acknowledged: redelivery.
AckTimeout(m) ==
  /\ Running
  /\ msgState[m] = "inflight" /\ deliveries[m] < MaxDeliveries
  /\ msgState' = [msgState EXCEPT ![m] = "pending"]
  /\ UNCHANGED <<responseChannels, chanState, sent, driver, deliveries,
                 sub, subscribed, signalled, runnerPc, toVisit, rangeCur, wg,
                 process>>

-----------------------------------------------------------------------------
(* The subscription callback.  The client runs one callback at a time per   *)
(* subscription.  The response handler does LoadAndDelete on the request   *)
(* id: absent, it reports ErrHandlerNotFound and the delivery is acked;    *)
(* present, it sends the payload on the channel, which panics if the       *)
(* channel was closed.                                                     *)

\* Mutants of the response handler, each a plausible slip in helpers.go:
\* a Load where LoadAndDelete is needed,
ResponseHandler_LoadOnly(m) ==
  LET r == m[1] IN
  IF r \in responseChannels
    THEN /\ sent' = [sent EXCEPT ![r] = @ + 1]
         /\ sub' = [pc |-> "sending", msg |-> m]
         /\ process' = IF chanState[r] = "closed" THEN "crashed" ELSE process
         /\ UNCHANGED responseChannels
    ELSE /\ sub' = [pc |-> "acking", msg |-> m]
         /\ UNCHANGED <<responseChannels, sent, process>>

\* an unmatched reply returned from without acknowledging it,
ResponseHandler_NoAckOnMiss(m) ==
  LET r == m[1] IN
  IF r \in responseChannels
    THEN /\ responseChannels' = responseChannels \ {r}
         /\ sent' = [sent EXCEPT ![r] = @ + 1]
         /\ sub' = [pc |-> "sending", msg |-> m]
         /\ process' = IF chanState[r] = "closed" THEN "crashed" ELSE process
    ELSE /\ sub' = [pc |-> "idle", msg |-> NoMsg]
         /\ UNCHANGED <<responseChannels, sent, process>>

\* and a type assertion that fails (ErrInvalidHandlerType) after the delete.
ResponseHandler_WrongType(m) ==
  LET r == m[1] IN
  /\ responseChannels' = responseChannels \ {r}
  /\ sub' = [pc |-> "acking", msg |-> m]
  /\ UNCHANGED <<sent, process>>

ResponseHandler(m) ==
  LET r == m[1] IN
  IF r \in responseChannels
    THEN /\ responseChannels' = responseChannels \ {r}
         /\ sent' = [sent EXCEPT ![r] = @ + 1]
         /\ sub' = [pc |-> "sending", msg |-> m]
         /\ process' = IF chanState[r] = "closed" THEN "crashed" ELSE process
    ELSE /\ sub' = [pc |-> "acking", msg |-> m]
         /\ UNCHANGED <<responseChannels, sent, process>>

ProcessMessage(m) ==
  /\ Running /\ subscribed /\ sub.pc = "idle"
  /\ msgState[m] = "pending"
  /\ msgState' = [msgState EXCEPT ![m] = "inflight"]
  /\ deliveries' = [deliveries EXCEPT ![m] = @ + 1]
  /\ ResponseHandler(m)
  /\ UNCHANGED <<chanState, driver, subscribed, signalled,
                 runnerPc, toVisit, rangeCur, wg>>

\* The unbuffered send completes when the waiting driver receives.
Receive(r) ==
  /\ Running /\ sub.pc = "sending" /\ sub.msg[1] = r
  /\ driver[r] = "waiting" /\ chanState[r] = "open"
  /\ driver' = [driver EXCEPT ![r] = "received"]
  /\ sub' = [sub EXCEPT !.pc = "acking"]
  /\ UNCHANGED <<responseChannels, chanState, sent, msgState, deliveries,
                 subscribed, signalled, runnerPc, toVisit, rangeCur, wg,
                 process>>

\* msg.Ack(); an ack may be lost, the broker then redelivers after the ack
\* wait.  The last delivery's ack always lands (the bound on deliveries).
Ack ==
  /\ Running /\ sub.pc = "acking"
  /\ \/ msgState' = [msgState EXCEPT ![sub.msg] = "acked"]
     \/ /\ deliveries[sub.msg] < MaxDeliveries
        /\ UNCHANGED msgState
  /\ sub' = [pc |-> "idle", msg |-> NoMsg]
  /\ UNCHANGED <<responseChannels, chanState, sent, driver, deliveries,
                 subscribed, signalled, runnerPc, toVisit, rangeCur, wg,
                 process>>

-----------------------------------------------------------------------------
(* Shutdown.  SIGTERM reaches the termChan of composeRunner and of the      *)
(* subscriber.  composeRunner closes every channel with Range, which        *)
(* visits the keys present when it starts and loads each one's current    *)
(* value (skipping a deleted key) before its callback closes it.           *)

Signal ==
  /\ SigTermArrives /\ Running /\ ~signalled
  /\ signalled' = TRUE
  /\ UNCHANGED <<responseChannels, chanState, sent, driver, msgState,
                 deliveries, sub, subscribed, runnerPc, toVisit, rangeCur, wg,
                 process>>

RangeStart ==
  /\ Running /\ signalled /\ runnerPc = "waiting"
  /\ runnerPc' = "ranging"
  /\ toVisit' = responseChannels
  /\ UNCHANGED <<responseChannels, chanState, sent, driver, msgState,
                 deliveries, sub, subscribed, signalled, rangeCur, wg, process>>

RangeLoad(r) ==
  /\ Running /\ runnerPc = "ranging" /\ rangeCur = NoReq
  /\ r \in toVisit
  /\ toVisit' = toVisit \ {r}
  /\ rangeCur' = IF r \in responseChannels THEN r ELSE NoReq
  /\ UNCHANGED <<responseChannels, chanState, sent, driver, msgState,
                 deliveries, sub, subscribed, signalled, runnerPc, wg, process>>

\* close(value); a goroutine blocked sending on it panics.
RangeClose ==
  /\ Running /\ rangeCur # NoReq
  /\ chanState' = [chanState EXCEPT ![rangeCur] = "closed"]
  /\ rangeCur' = NoReq
  /\ IF sub.pc = "sending" /\ sub.msg[1] = rangeCur
       THEN process' = "crashed" ELSE UNCHANGED process
  /\ UNCHANGED <<responseChannels, sent, driver, msgState, deliveries,
                 sub, subscribed, signalled, runnerPc, toVisit, wg>>

\* Mutant: wg.Done both deferred and called at the end of the runner.
RangeEnd_DoubleDone ==
  /\ Running /\ runnerPc = "ranging" /\ toVisit = {} /\ rangeCur = NoReq
  /\ runnerPc' = "done"
  /\ wg' = wg - 2
  /\ UNCHANGED <<responseChannels, chanState, sent, driver, msgState,
                 deliveries, sub, subscribed, signalled, toVisit, rangeCur,
                 process>>

RangeEnd ==
  /\ Running /\ runnerPc = "ranging" /\ toVisit = {} /\ rangeCur = NoReq
  /\ runnerPc' = "done"
  /\ wg' = wg - 1
  /\ UNCHANGED <<responseChannels, chanState, sent, driver, msgState,
                 deliveries, sub, subscribed, signalled, toVisit, rangeCur,
                 process>>

\* The subscriber unsubscribes; a failing Unsubscribe exits the process.
\* A callback already running is not waited for.
Unsubscribe ==
  /\ Running /\ signalled /\ subscribed
  /\ subscribed' = FALSE
  /\ \/ wg' = wg - 1 /\ UNCHANGED process
     \/ process' = "exited" /\ UNCHANGED wg
  /\ UNCHANGED <<responseChannels, chanState, sent, driver, msgState,
                 deliveries, sub, signalled, runnerPc, toVisit, rangeCur>>

\* wg.Wait() returns; the finalizer runs and Run returns, ending the process.
Finalize ==
  /\ Running /\ wg = 0
  /\ process' = "returned"
  /\ UNCHANGED <<responseChannels, chanState, sent, driver, msgState,
                 deliveries, sub, subscribed, signalled, runnerPc, toVisit,
                 rangeCur, wg>>

-----------------------------------------------------------------------------
Init ==
  /\ responseChannels = {}
  /\ chanState = [r \in ReqIds |-> "none"]
  /\ sent = [r \in ReqIds |-> 0]
  /\ driver = [r \in ReqIds |-> "idle"]
  /\ msgState = [m \in Msgs |-> "unpublished"]
  /\ deliveries = [m \in Msgs |-> 0]
  /\ sub = [pc |-> "idle", msg |-> NoMsg]
  /\ subscribed = TRUE
  /\ signalled = FALSE
  /\ runnerPc = "waiting"
  /\ toVisit = {}
  /\ rangeCur = NoReq
  /\ wg = 2
  /\ process = "running"

Next ==
  \/ \E r \in ReqIds :
       \/ GetResponseChannelStore(r) \/ GetResponseChannelLoad(r)
       \/ SendRequest(r) \/ ObserveClosed(r) \/ Abandon(r)
       \/ Receive(r) \/ RangeLoad(r)
  \/ \E m \in Msgs : PublishReply(m) \/ AckTimeout(m) \/ ProcessMessage(m)
  \/ Ack \/ Signal \/ RangeStart \/ RangeClose \/ RangeEnd
  \/ Unsubscribe \/ Finalize

\* The Go scheduler runs every runnable goroutine, the broker redelivers
\* after the ack wait, and the downstream answers each request at least
\* once.  Nothing forces the signal, duplicates or the user's timeout.
Fairness ==
  /\ \A r \in ReqIds :
       /\ WF_vars(GetResponseChannelStore(r)) /\ WF_vars(GetResponseChannelLoad(r))
       /\ WF_vars(SendRequest(r)) /\ WF_vars(ObserveClosed(r))
       /\ WF_vars(Receive(r)) /\ WF_vars(RangeLoad(r))
       /\ WF_vars(PublishReply(<<r, 1>>))
  /\ \A m \in Msgs : WF_vars(AckTimeout(m)) /\ WF_vars(ProcessMessage(m))
  /\ WF_vars(Ack) /\ WF_vars(RangeStart) /\ WF_vars(RangeClose)
  /\ WF_vars(RangeEnd) /\ WF_vars(Unsubscribe) /\ WF_vars(Finalize)

Spec == Init /\ [][Next]_vars /\ Fairness

-----------------------------------------------------------------------------
TypeOK ==
  /\ responseChannels \subseteq ReqIds
  /\ chanState \in [ReqIds -> {"none", "open", "closed"}]
  /\ sent \in [ReqIds -> 0..MaxReplies]
  /\ driver \in [ReqIds -> DriverStates]
  /\ msgState \in [Msgs -> MsgStates]
  /\ deliveries \in [Msgs -> 0..MaxDeliveries]
  /\ sub \in [pc : {"idle", "sending", "acking"}, msg : Msgs \cup {NoMsg}]
  /\ subscribed \in BOOLEAN /\ signalled \in BOOLEAN
  /\ runnerPc \in {"waiting", "ranging", "done"}
  /\ toVisit \subseteq ReqIds /\ rangeCur \in ReqIds \cup {NoReq}
  /\ wg \in 0..2
  /\ process \in {"running", "returned", "exited", "crashed"}

-----------------------------------------------------------------------------
(* Properties.                                                              *)

\* Each response channel is handed at most one payload, however many replies
\* the downstream publishes for its request id and however often the broker
\* redelivers them: the handler's LoadAndDelete removes the waiter before it
\* sends, so a later reply finds no waiter.
AtMostOnePayloadPerChannel == \A r \in ReqIds : sent[r] <= 1

\* No goroutine panics: no send on a channel closed by the shutdown Range,
\* and no type assertion on the nil a Load returns for a deleted key.
NoPanic == process # "crashed"

\* Every reply on the input subject is eventually acknowledged, matched to a
\* waiter or not, so the broker stops redelivering it.
ReplyEventuallyAcked ==
  \A m \in Msgs : msgState[m] = "pending" ~> (msgState[m] = "acked" \/ ~Running)

\* A driver waiting on the channel of a request it sent is released, by the
\* payload or by the channel's closing, unless it gave up itself or the
\* process is shutting down.
WaiterServed ==
  \A r \in ReqIds :
    driver[r] = "waiting"
      ~> (driver[r] \in {"received", "closed", "abandoned"} \/ signalled)

\* When Run returns normally every response channel still registered has
\* been closed, so no caller is left blocked on a channel nobody will
\* send on or close: the spec has each waiter consumed by its reply or by
\* the shutdown.  The driver goroutine is never joined and may call
\* GetResponseChannel after the shutdown Range took its set of keys.
ShutdownReleasesWaiters ==
  process = "returned" => \A r \in responseChannels : chanState[r] = "closed"

-----------------------------------------------------------------------------
(* Refinement: the runner implements the Response Waiter Table.  A waiter  *)
(* is a key in the map whose channel is open; a waiter is taken while the  *)
(* callback is blocked sending to it; a caller is served when it has       *)
(* received; an id is replied once a reply for it is on the subject.       *)

Correlator == INSTANCE ResponseCorrelator WITH
  waiters <- {r \in responseChannels : chanState[r] = "open"},
  taken <- {r \in ReqIds : sub.pc = "sending" /\ sub.msg[1] = r},
  served <- {r \in ReqIds : driver[r] = "received"},
  replied <- {m[1] : m \in {x \in Msgs : msgState[x] # "unpublished"}},
  gaveUp <- {r \in ReqIds : driver[r] = "abandoned"}

\* Every behaviour of the runner, with its lost acks, redeliveries,
\* duplicate replies and callers that give up, is a behaviour of the
\* waiter table: a waiter is taken at most once, only by a reply to its
\* own id, and only a caller still waiting receives the payload.
CorrelatorRefinement == Correlator!Spec

=============================================================================
