-------------------------- MODULE HandlerRegistry --------------------------
(***************************************************************************)
(* The builder of the task and exit runners (task_runner.go, exit_runner.go,*)
(* the same code): the With* setters store composed stages, Run checks     *)
(* the "default" handler and supplies the missing initializer and          *)
(* finalizer, and every delivery then looks its handler up by the          *)
(* lower-cased name of the node it comes from (getResponseHandler).        *)
(*                                                                         *)
(* responseHandlers is a Go map: a function whose domain is the keys       *)
(* present.  A composed stage is never nil, so a stage is "set" or not;    *)
(* a handler is a model value.  calls is a history of the handler          *)
(* registrations in the order the user made them, kept to state what the   *)
(* registry is meant to return.                                            *)
(***************************************************************************)
EXTENDS Naturals, SequencesExt

CONSTANTS
  Subjects,   \* subjects passed to WithCustomHandler
  FromNodes,  \* fromNode values carried by deliveries
  Lower,      \* strings.ToLower over every name used
  Handlers,   \* the user's handler functions
  NoHandler,  \* nil
  MaxCalls    \* bound on handler registrations before Run

ASSUME /\ NoHandler \notin Handlers
       /\ "default" \in DOMAIN Lower
       /\ Subjects \cup FromNodes \subseteq DOMAIN Lower
       /\ MaxCalls \in Nat

\* The keys the map can hold.
Keys == {Lower[s] : s \in Subjects} \cup {"default"}
NotDispatched == "none"

VARIABLES
  responseHandlers, \* map[string]Handler
  initializer,      \* the stage fields are non-nil
  preprocessor,
  postprocessor,
  finalizer,
  phase,            \* "building", "running" (in startSubscriber), "panicked"
  calls,            \* history: handler registrations in order
  selected          \* [FromNodes -> handler the last delivery from it ran]

vars == <<responseHandlers, initializer, preprocessor, postprocessor,
          finalizer, phase, calls, selected>>

Stages == <<initializer, preprocessor, postprocessor, finalizer>>

-----------------------------------------------------------------------------
(* The setters; each composes the user's function and stores it.            *)

WithInitializer ==
  /\ phase = "building" /\ initializer' = TRUE
  /\ UNCHANGED <<responseHandlers, preprocessor, postprocessor, finalizer,
                 phase, calls, selected>>

WithPreprocessor ==
  /\ phase = "building" /\ preprocessor' = TRUE
  /\ UNCHANGED <<responseHandlers, initializer, postprocessor, finalizer,
                 phase, calls, selected>>

WithPostprocessor ==
  /\ phase = "building" /\ postprocessor' = TRUE
  /\ UNCHANGED <<responseHandlers, initializer, preprocessor, finalizer,
                 phase, calls, selected>>

WithFinalizer ==
  /\ phase = "building" /\ finalizer' = TRUE
  /\ UNCHANGED <<responseHandlers, initializer, preprocessor, postprocessor,
                 phase, calls, selected>>

\* responseHandlers["default"] = composeHandler(handler)
WithHandler(h) ==
  /\ phase = "building" /\ Len(calls) < MaxCalls
  /\ responseHandlers' = ("default" :> h) @@ responseHandlers
  /\ calls' = Append(calls, [custom |-> FALSE, subject |-> "default", h |-> h])
  /\ UNCHANGED <<initializer, preprocessor, postprocessor, finalizer, phase,
                 selected>>

\* Mutant: the subject stored as given, not lower-cased.
WithCustomHandler_NoLower(s, h) ==
  /\ phase = "building" /\ Len(calls) < MaxCalls
  /\ responseHandlers' = (s :> h) @@ responseHandlers
  /\ calls' = Append(calls, [custom |-> TRUE, subject |-> s, h |-> h])
  /\ UNCHANGED <<initializer, preprocessor, postprocessor, finalizer, phase,
                 selected>>

\* responseHandlers[strings.ToLower(subject)] = composeHandler(handler)
WithCustomHandler(s, h) ==
  /\ phase = "building" /\ Len(calls) < MaxCalls
  /\ responseHandlers' = (Lower[s] :> h) @@ responseHandlers
  /\ calls' = Append(calls, [custom |-> TRUE, subject |-> s, h |-> h])
  /\ UNCHANGED <<initializer, preprocessor, postprocessor, finalizer, phase,
                 selected>>

\* Run: panic without a "default" entry; otherwise default the initializer
\* and the finalizer, run the initializer and enter startSubscriber.
Run ==
  /\ phase = "building"
  /\ IF "default" \notin DOMAIN responseHandlers
       THEN /\ phase' = "panicked"
            /\ UNCHANGED <<initializer, finalizer>>
       ELSE /\ phase' = "running"
            /\ initializer' = TRUE /\ finalizer' = TRUE
  /\ UNCHANGED <<responseHandlers, preprocessor, postprocessor, calls, selected>>

-----------------------------------------------------------------------------
(* Dispatch: processMessage looks up strings.ToLower(fromNode); a missing  *)
(* key falls back to "default", and nil sends the delivery to the error    *)
(* path.  Deliveries only read the map, concurrently.                      *)

GetResponseHandler(subject) ==
  IF subject \in DOMAIN responseHandlers THEN responseHandlers[subject]
  ELSE IF "default" \in DOMAIN responseHandlers
    THEN responseHandlers["default"]
  ELSE NoHandler

\* Mutant: the lookup with fromNode as received.
Dispatch_NoLower(n) ==
  /\ phase = "running"
  /\ selected' = [selected EXCEPT ![n] = GetResponseHandler(n)]
  /\ UNCHANGED <<responseHandlers, initializer, preprocessor, postprocessor,
                 finalizer, phase, calls>>

Dispatch(n) ==
  /\ phase = "running"
  /\ selected' = [selected EXCEPT ![n] = GetResponseHandler(Lower[n])]
  /\ UNCHANGED <<responseHandlers, initializer, preprocessor, postprocessor,
                 finalizer, phase, calls>>

-----------------------------------------------------------------------------
Init ==
  /\ responseHandlers = <<>>
  /\ initializer = FALSE /\ preprocessor = FALSE
  /\ postprocessor = FALSE /\ finalizer = FALSE
  /\ phase = "building"
  /\ calls = <<>>
  /\ selected = [n \in FromNodes |-> NotDispatched]

Next ==
  \/ WithInitializer \/ WithPreprocessor \/ WithPostprocessor \/ WithFinalizer
  \/ \E h \in Handlers : WithHandler(h) \/ \E s \in Subjects : WithCustomHandler(s, h)
  \/ Run
  \/ \E n \in FromNodes : Dispatch(n)

Spec == Init /\ [][Next]_vars

-----------------------------------------------------------------------------
TypeOK ==
  /\ DOMAIN responseHandlers \subseteq Keys
  /\ \A k \in DOMAIN responseHandlers : responseHandlers[k] \in Handlers
  /\ Stages \in BOOLEAN \X BOOLEAN \X BOOLEAN \X BOOLEAN
  /\ phase \in {"building", "running", "panicked"}
  /\ Len(calls) <= MaxCalls
  /\ selected \in [FromNodes -> Handlers \cup {NoHandler, NotDispatched}]

(* What the registry is meant to return (spec, Handler Registry and        *)
(* processMessage step 2): the handler last registered with                *)
(* WithCustomHandler for the node's name, compared case-insensitively,     *)
(* else the handler last given to WithHandler, else none.                  *)
Registered(n) ==
  LET c == SelectLastInSeq(calls, LAMBDA x : x.custom /\ Lower[x.subject] = Lower[n])
      d == SelectLastInSeq(calls, LAMBDA x : ~x.custom)
  IN IF c # 0 THEN calls[c].h ELSE IF d # 0 THEN calls[d].h ELSE NoHandler

\* Every delivery runs the handler registered for its source node, falling
\* back to the one given to WithHandler: the lower-casing on both sides
\* of the map and the "default" fallback of getResponseHandler agree with
\* the order in which the user called the setters.
DispatchHonoursRegistration ==
  \A n \in FromNodes :
    selected[n] # NotDispatched => selected[n] = Registered(n)

=============================================================================
