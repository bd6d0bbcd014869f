# TLA+ models of the KAI Go SDK runners

This directory holds TLA+ models of the concurrent parts of the KAI Go SDK,
which lives under `src/`. It also holds the TLC configurations that check the
models, and `PROJECT.json`, which records:

- the components and their status;
- every run, with the properties it checks;
- the mutants that show each property can fail;
- the map from each definition to the source lines it models;
- the findings;
- the hazards the code is exposed to.

## The system

A KAI *node* is a process built with one of three runners. Each runner connects
to NATS JetStream and calls the user's callbacks.

| Runner | Source | What it does |
|---|---|---|
| Trigger | `src/runner/trigger/` | Starts the user's runner goroutine, which emits requests. It correlates the replies with the requests through a `sync.Map` from request id to an unbuffered channel, created by `GetResponseChannel`. On SIGTERM, `composeRunner` closes every channel in that map. |
| Task | `src/runner/task/` | Consumes messages from one or more input subjects and runs preprocessor → handler → postprocessor → ack. On a failure it acks, then publishes an ERROR envelope. |
| Exit | `src/runner/exit/` | The same as the task runner. Its subscriber `subscriber.go` is the one under `src/`. |

Shared by the runners:

- **Size negotiation and output preparation.** The limit is the smaller of the
  stream's `MaxMsgSize` and the connection's `MaxPayload`. A stream limit of
  `-1` means no limit. A message that does not fit is compressed, and refused
  if it still does not fit. Source: `runner/exit/subscriber.go` and
  `sdk/messaging/`.
- **The `compose*` wrappers.** They call a user callback if there is one, and
  return its error.

How the parts interact:

- Every subscription callback is handled by the NATS client, one message at a
  time per subscription.
- The broker redelivers any message that is not acked within `AckWait`
  (22 h).
- Subscriptions are durable and queue-grouped, with `DeliverNew`.
- SIGTERM is delivered both to the subscriber's signal channel and to the
  trigger's `composeRunner`.
- `Run` waits for both goroutines on a package-global `sync.WaitGroup`, then
  runs the finalizer.

## Modules

| Module | Models | Code |
|---|---|---|
| `TriggerRunner` | the trigger runner: user driver, response channels, reply subscription, shutdown | `trigger_runner.go`, `trigger/helpers.go` |
| `MC_TriggerRunner` | two request ids as model values | |
| `ExitRunner` | the exit/task dispatcher with crash and restart and broker redelivery | `exit/subscriber.go`, `exit/exit_runner.go`, `task/helpers.go` |
| `MC_ExitRunner` | three messages on two subjects (two for the lost-ack runs), a limit table | |
| `HandlerRegistry` | the builder of the task and exit runners: `With*` setters, `Run`'s check, the handler lookup | `task/task_runner.go` (identical to `exit/exit_runner.go`), `exit/subscriber.go` 127–133, 277–284 |
| `MC_HandlerRegistry` | two handler functions, node names in mixed case | |
| `ResponseCorrelator` | the abstract Response Waiter Table that `TriggerRunner` refines | spec only |
| `InputConsumer` | the abstract input consumer that `ExitRunner` refines | spec only |
| `OutputPrep` | `getMaxMessageSize` and `prepareOutputMessage` as operators over lengths | `exit/subscriber.go` 246–304, `sdk/messaging` |
| `MessagingPublish` | the SDK's publish path: `publishMsg`, `publishAny`, `publishError`, `publishResponse`, size negotiation, and `GetRequestID` on the reader's side | `sdk/messaging/messaging_internals.go`, `sdk/messaging/messaging_utils.go` |
| `MC_MessagingPublish` | one inbound id, one explicit id, three uuids, one channel, every limit up to 4; also states the `OutputPrep` contract over every length up to 5 | |

### TriggerRunner

The model's state corresponds to the code as follows.

| Variable | Models |
|---|---|
| `responseChannels` | the keys of `responseChannels` |
| `chanState[r]` | whether the channel made for id `r` is open or closed |
| `sent[r]` | how many payloads the response handler has handed to that channel |
| `driver[r]` | the user goroutine that asks for `r`: registering, waiting, received, closed or abandoned |
| `msgState` | a reply in the broker: unpublished, pending, inflight, acked |
| `deliveries` | how often the broker has delivered each reply |
| `sub` | the subscription callback: idle; sending (blocked in `ch <- response`); or acking |
| `subscribed` | whether the reply subscription is still there |
| `runnerPc`, `toVisit`, `rangeCur` | `composeRunner`'s shutdown: waiting on `termChan`; ranging over the key set it took; done |
| `wg` | the WaitGroup |
| `process` | running, exited, or crashed (a panic) |

The code's operations map to actions one for one:

- `GetResponseChannel` is two actions, because `Store` and `Load` are two
  separate calls on the map:
  - `GetResponseChannelStore` is the `Store`.
  - `GetResponseChannelLoad` is the `Load`. A missing key makes the type
    assertion panic.
- `ResponseHandler` models `getResponseHandler`:
  - it does a `LoadAndDelete`;
  - a missing key goes straight to the ack;
  - otherwise it sends on the channel. Sending on a channel that is already
    closed panics.
- `Receive` is the rendezvous of the unbuffered send.
- `RangeStart`, `RangeLoad`, `RangeClose` and `RangeEnd` model
  `sync.Map.Range`. Range visits the keys present when it started and loads
  each key's current value, so a key deleted meanwhile is skipped.
- `RangeClose` panics if the callback is blocked sending on the channel being
  closed.

- `Signal` can be switched off (`SigTermArrives`), so that one run can follow
  a node that is never stopped.
- `Finalize` ends in `"returned"`; a failing `Unsubscribe` ends in `"exited"`
  (status 1).

The trigger's own subscriber is not under `src/`. `ProcessMessage`, `Ack` and
`Unsubscribe` follow the spec's description of it (§4.5), which is the same
shape as the exit subscriber.

### ExitRunner

The model's state corresponds to the code as follows.

| Variable | Models |
|---|---|
| `process` | the phase of `Run`: initializing, subscribing, running, unsubscribing, finalizing, exited |
| `subscribed`, `unsubscribed` | how far the ordered subscribe and unsubscribe loops have got |
| `cb[s]` | the callback of the subscription on subject `s` (see below) |
| `msgState`, `deliveries` | the broker's view of each input message |
| `consumers` | the stream's durable consumers, each a name and a subject |
| `owner[m]` | the names of the consumers that hold `m`: those of its subject that existed when it was published (`DeliverNew`) |
| `errFor[m]` | the number of ERROR envelopes published for `m` |
| `crashes` | restarts so far |

A callback `cb[s]` is at one of these points:

- idle;
- in the preprocessor, the handler or the postprocessor;
- acking;
- at one of the two steps of `processRunnerError`.

The actions:

- `ProcessMessage` covers the decode and the choice of handler. A message whose
  data does not decode goes to the error path.
- `Stage` is one composed user callback, which either returns nil or returns an
  error. `RunPreprocessor`, `RunHandler` and `RunPostprocessor` are built from
  it.
- `Ack` is the success ack. A failed ack is only logged in the code, and in the
  model the broker then redelivers.
- `ProcessRunnerError` takes the steps of `ErrorSteps` in order: ack, then
  publish.
- `PublishErrorEnvelope` chooses the outcome of a publish through
  `Publishable`, which calls `OutputPrep`. The choice covers StreamInfo
  failing, the stream limit, and the envelope's length raw and compressed.
- `Initialize` is `Run`'s call of the composed initializer. It cannot fail,
  and a restart runs it again.
- `Subscribe` creates or binds the durable consumer named by
  `ConsumerName(s)`, which is the subject and the process name with dots (and,
  in the process name, spaces) turned into dashes. `DotsToDashes` and
  `SpacesToDashes` are `strings.ReplaceAll`, given as tables in the MC
  module. A subscription delivers only the messages its consumer holds.
- `Crash` is a process restart at any point. The broker still holds every
  unacked message.

`Finalize` is the finalizer that `Run` calls after `startSubscriber` returns
(`process = "finalizing"`). The callbacks keep running during it, because
`Unsubscribe` does not wait for them. A failing `Unsubscribe` exits with
status 1 and skips the finalizer.

### InputConsumer and the exit refinement

`InputConsumer` is what the dispatcher promises its input stream, as the spec
describes it. Each message is unpublished, pending, started (a callback has
taken it up) or acked.

- A started message may be offered again: this is a restart or an expired ack
  wait.
- An acked message is done for good.
- An ERROR envelope is reported only for an acked message, and at most once.
- Once the node has stopped (the finalizer has started, or the process has
  exited), no message is taken up. A message already taken up may still
  finish.
- A crash during the finalizer brings the node back.

`ExitRunner` instantiates it as `Consumer`:

| Abstract | Runner state |
|---|---|
| `state` | `msgState`, with in-flight read as started |
| `errors` | `errFor` |
| `stopped` | `process` is finalizing or exited |

`ConsumerRefinement == Consumer!Spec` is checked in `exit_crash_restart`,
where acks land in time. With lost acks it cannot hold, and
`exit_ack_wait_duplicates` shows why.

### HandlerRegistry

`responseHandlers` is the Go map, a function whose domain is the keys
present. The stage fields are booleans, because a composed stage is never
nil. `phase` is building, running (in `startSubscriber`) or panicked.

- The setters store into the map. `WithHandler` stores under `"default"`.
  `WithCustomHandler` stores under `Lower[subject]`, where `Lower` is
  `strings.ToLower` given as a table in the MC module.
- `Run` panics when `"default"` is missing. Otherwise it supplies the
  initializer and the finalizer.
- `Dispatch(n)` is the lookup in `processMessage`:
  `getResponseHandler(strings.ToLower(fromNode))`, falling back to
  `"default"`.

The history variable `calls` keeps the handler registrations in order.
`Registered(n)` uses it to state what the spec says the lookup returns: the
last custom handler registered for the node's name, ignoring case, else the
last handler given to `WithHandler`.

### ResponseCorrelator and the refinement

`ResponseCorrelator` is the Response Waiter Table as the spec describes it.
Each step is atomic:

- a waiter is registered;
- a reply is published;
- the first reply for an id takes the waiter;
- the payload is handed to the caller, unless the caller gave up.

`TriggerRunner` instantiates it as `Correlator` with this mapping:

| Abstract | Runner state |
|---|---|
| waiters | keys of the map whose channel is open |
| taken | the id the callback is blocked sending to |
| served | drivers that received |
| replied | ids with a published reply |
| gaveUp | abandoned drivers |

`CorrelatorRefinement == Correlator!Spec` is checked as a PROPERTY.

With SIGTERM the refinement cannot hold. The shutdown Range can close a
channel whose waiter a reply has already taken, and the abstract table has
no such step. This is the trace of `trigger_shutdown_panic`, so the
refinement run leaves SIGTERM out. The abstract spec is safety-only: with
callers that give up, a reply for another id may wait forever (finding 2).

### MessagingPublish

This module models a handler's Messaging calls for one request.

| Variable | Models |
|---|---|
| `requestId` | the id of the request being handled (`ShallowCopyWithRequest`), possibly empty |
| `generated` | how many values `uuid.New()` has returned; it draws the next element of `Uuids` |
| `calls` | the number of `Send*` calls made |
| `wire` | the messages the broker accepted |
| `streamMax`, `serverMax` | the stream's `MaxMsgSize` (with `-1` for unlimited) and the connection's `MaxPayload` |

Each message on `wire` holds:

- the subject;
- the bytes, abstracted to gzip-or-not, a length and the envelope;
- as history, the id the caller asked for and the limit it was prepared against.

The actions and operators:

- `Send` is one call of a `Send*` method, with or without a channel option.
  The callers live in `messaging.go`, which is not under `src/`, so `Send`
  follows the spec.
- `PublishMsg`, `PublishAny` and `PublishError` translate the three functions
  of `messaging_internals.go`:
  - `anypb.New` can fail, and then nothing is published;
  - the id filling (`FillId`) applies to `PublishMsg` and `PublishAny` only.
- `PublishResponse` chooses whether the marshal, `StreamInfo` and the publish
  succeed, and the raw and compressed lengths. Only an error-free path appends
  to `wire`; every failure is only logged.
- `GetRequestID` gunzips when the marker is present, then unmarshals.

### OutputPrep

Byte strings are abstracted to their lengths. The compressor is abstracted to
the length it produces; its code is in `internal/common`, which is not under
`src/`.

## Runs

| Run | Expect | What it shows |
|---|---|---|
| `trigger_correlation` | pass | A channel receives at most one payload, even with lost acks and redelivered replies (`AtMostOnePayloadPerChannel`). Every reply is eventually acked while the process runs (`ReplyEventuallyAcked`). Every waiting caller is served unless SIGTERM came first (`WaiterServed`). |
| `trigger_refines_correlator` | pass | With no SIGTERM, and with duplicate replies (two per id), lost acks, redeliveries and callers that give up, the runner is a correct implementation of the waiter table. |
| `trigger_late_waiter` | violation | `ShutdownReleasesWaiters` fails. SIGTERM arrives, the Range takes its (empty) key set, and the driver, which is never joined, registers `r1`. Run returns with `r1`'s channel open, and its caller is never released. |
| `registry_dispatch` | pass | The node names and the subjects are in mixed case, the setters may come in any order, and there are up to three registrations. Every delivery runs the handler registered for its node, or the default one. No subject lower-cases to `"default"` here; `registry_default_collision` shows what happens when one does. |
| `registry_default_collision` | violation | `WithCustomHandler("Default", h1)` with no `WithHandler` call: `Run` accepts it, and a delivery from `orders` runs `h1`. |
| `exit_finalizer_overlap` | violation | A message is in the handler when SIGTERM comes. Both unsubscribes succeed, and the finalizer runs while the handler is still running. |
| `trigger_shutdown_panic` | violation | `NoPanic` fails. The shutdown Range loads a channel, a reply arrives, the callback's `LoadAndDelete` takes the channel and blocks sending on it, and then Range closes it. The same happens to any reply handled after the Range, because closed channels stay in the map. |
| `trigger_abandoned_waiter` | violation | `WaiterServed` fails. One caller stops waiting, so the callback blocks forever on the unbuffered send, and another request's reply is never delivered. |
| `exit_crash_restart` | pass | Acks land in time, and up to two crashes and restarts may happen at any step. No message gets two ERROR envelopes, and every message is eventually acked or the process exits. The dispatcher implements `InputConsumer` (`ConsumerRefinement`): an error is reported only after the ack, and no delivery is taken up once the finalizer runs. |
| `exit_ack_loss_liveness` | pass | Acks may be lost or late, and a crash may happen. Every message is still eventually acked, including one published while the process was down: the restarted process binds to the same durable consumer. |
| `exit_ack_wait_duplicates` | violation | A failed message's ack is lost or lands after `AckWait`. The broker redelivers the message and a second ERROR envelope is published. |
| `sdk_publish` | pass | Up to three `Send*` calls under every stream limit (including `-1`) and connection limit up to 4. `PrepareMatchesContract`: what is published fits, a message that fits goes out uncompressed, it is compressed only when it must be, and refused only when neither form fits. `PublishedWithinLimit`: what the broker accepted fits the limit it was prepared against. `RequestIdPreserved`: a reader's `GetRequestID` returns the id the sender asked for, or, for an OK envelope sent without one, a uuid no other output carries. |

The findings these violations show are in `PROJECT.json`:

- the send on a closed channel at shutdown, which is a code bug;
- the unbuffered channel where the spec says "single-slot", which is a
  divergence between the spec and the code;
- duplicate ERROR envelopes after a lost ack, which the spec's ack-first
  argument does not cover;
- a custom handler for a node named "Default" taking the reserved default
  key, which diverges from the spec;
- the finalizer overlapping a running handler, which is a spec gap;
- a channel registered after the shutdown Range is never closed, which
  diverges from the spec.

Every property of every passing run has a mutant in `PROJECT.json`. Each
mutant is a plausible bug in the mapped code, and TLC finds it violates the
property. The mutants are:

- a `Load` instead of a `LoadAndDelete`;
- no ack when the key is missing;
- a failed type assertion;
- a double `wg.Done` at the end of the shutdown Range;
- publish before ack;
- a missing ack;
- an off-by-one in the unsubscribe loop;
- `startSubscriber` returning on an Unsubscribe error, so that `Run` calls the
  finalizer while a subscription still delivers;
- `<` instead of `<=` at the size limit;
- a consumer name that includes the pod's name, which changes at every restart;
- the output subject without the `.` before the channel;
- the marshalled bytes published instead of the prepared ones;
- `GetRequestID` that does not gunzip;
- a subject stored without lower-casing;
- a lookup without lower-casing;

## Bounds

| Model | Bound | Why it is enough |
|---|---|---|
| Trigger | two request ids, one reply each, at most two deliveries per reply | Two ids let one blocked send starve another waiter, and let the Range be part-way through. Two deliveries give a duplicate. With two replies per id the run took nearly 3 minutes and added no new case: a duplicate is already a second delivery. |
| Exit | three messages on two subjects: two that succeed on one subject and a bad-protobuf one on the other | This makes two callbacks run concurrently, gives a second message on the same subscription, and exercises the error path. |
| Exit | two crashes (one in the lost-ack run), two deliveries | A crash between any two steps, a second crash while recovering from the first, and a redelivery. |
| Exit | process name `exit.v1 eu`, subjects `orders.created` and `orders.failed` | Dots in both names and a space in the process name reach the name normalisation. |
| Exit, lost acks | `m1` and `m2` only: one message on each subscription, one that succeeds and one that fails | Lost acks on both the success and the error path. The third message adds only states (the run grows from 16 thousand to 375 thousand) and no new way for an ack to go missing. |
| Exit | limit table: unlimited or 3 against a connection limit of 4; envelope lengths 2 and 5 | Both fitting and not fitting. |
| Trigger refinement | two ids, two replies each, two deliveries, no SIGTERM | A duplicate reply from upstream, as well as a redelivered one. |
| Registry | three registrations; subjects `Orders` and `payments` (`Orders` and `Default` for the collision); deliveries from `orders`, `ORDERS`, `payments` and `billing` | A node name in two cases, a node with no custom handler, the same key registered twice, and both orders of `WithHandler` and `WithCustomHandler`. |
| Exit finalizer | two messages, no crash, one delivery | The overlap needs only one message in a handler at SIGTERM. |
| OutputPrep | `MaxLen = 4` | Lengths below, at and above every limit. |
| Publish | stream limit `-1..4`, connection limit `1..4`, envelope lengths 2 and 5, three calls, ids `123` and `myRequestId` or empty, three uuids | A limit of 0, equal limits, a stream limit above and below the connection's, and lengths that fit, fit only compressed, or do not fit. Three calls make two uuids meet on the wire, and give an ERROR envelope next to them. 89,856 states. |

## Fairness

Weak fairness is applied per action, to steps the code takes on its own:

- the goroutines that are runnable;
- the NATS client delivering to an idle callback;
- the broker's `AckWait` timer;
- the user driver receiving from the channel it is blocked on;
- `Run`'s initializer and finalizer.

These are not fair, because nothing in the code makes them happen:

- SIGTERM;
- crashes;
- duplicate publishes;
- a caller abandoning its wait.

`CHECK_DEADLOCK FALSE` is set because the process really stops: `Run`
returns, or the process exits with status 1, or it panics. The registry
model has no fairness: the setters are the user's choice, and a delivery
only reads the map. It stops when `Run` panics.

## Not modelled, and the plan

Not modelled:

- **Centralized configuration and ephemeral storage.** Only their tests are
  under `src/`.
- **Logging and metrics.** They change no state the runner reads.
- **gzip and protobuf bytes.** They are abstracted to lengths and outcomes.

- **`sizeInMB`** and the log lines. They are formatting only.
- **The exit runner's builder** (`exit/exit_runner.go` 34–71). It is the
  same code as the task runner's, which `HandlerRegistry` models.

Not composed: `HandlerRegistry` with `ExitRunner`. `Run` panics without a
`"default"` entry, so once deliveries run, `getResponseHandler` always finds
a handler. The missing-handler branch of `processMessage`
(`subscriber.go` 126–131) cannot be reached. The registry's own run checks
which handler is found.

Open question: a trigger driver that registers the same id twice. `Store`
replaces the first channel. The spec says the old channel is orphaned, so this
is intended and not checked.
