------------------------- MODULE ResponseCorrelator -------------------------
(***************************************************************************)
(* What the trigger runner's Response Waiter Table promises (spec, Data    *)
(* Model and Trigger Dispatcher): a waiter is registered for a request id  *)
(* before the request goes out; the first reply for that id takes the     *)
(* waiter out of the table, and its payload is handed to the caller once;  *)
(* a reply finding no waiter is dropped.  A caller may stop waiting; its  *)
(* payload is then never handed over.  Registration, taking and handing *)
(* over are atomic here; TriggerRunner implements them with sync.Map calls *)
(* and an unbuffered channel.                                              *)
(***************************************************************************)
CONSTANTS ReqIds

VARIABLES
  waiters,  \* ids with a registered waiter still in the table
  taken,    \* ids whose waiter a reply has taken, payload not yet handed
  served,   \* ids whose caller has received its payload
  replied,  \* ids a reply has been published for
  gaveUp    \* ids whose caller stopped waiting

avars == <<waiters, taken, served, replied, gaveUp>>

Init ==
  /\ waiters = {} /\ taken = {} /\ served = {} /\ replied = {}
  /\ gaveUp = {}

\* A waiter is registered once per request id.
Register(r) ==
  /\ r \notin waiters \cup taken \cup served
  /\ waiters' = waiters \cup {r}
  /\ UNCHANGED <<taken, served, replied, gaveUp>>

\* The downstream replies to a request whose waiter exists.
Reply(r) ==
  /\ r \in waiters \cup taken \cup served
  /\ replied' = replied \cup {r}
  /\ UNCHANGED <<waiters, taken, served, gaveUp>>

\* The first reply for r takes the waiter out of the table.
Take(r) ==
  /\ r \in waiters \cap replied
  /\ waiters' = waiters \ {r}
  /\ taken' = taken \cup {r}
  /\ UNCHANGED <<served, replied, gaveUp>>

\* The payload reaches the caller, if it is still waiting.
Hand(r) ==
  /\ r \in taken /\ r \notin gaveUp
  /\ taken' = taken \ {r}
  /\ served' = served \cup {r}
  /\ UNCHANGED <<waiters, replied, gaveUp>>

\* The caller stops waiting for the reply to a request it sent.
GiveUp(r) ==
  /\ r \in (waiters \cup taken) \ gaveUp
  /\ gaveUp' = gaveUp \cup {r}
  /\ UNCHANGED <<waiters, taken, served, replied>>

Next ==
  \E r \in ReqIds : Register(r) \/ Reply(r) \/ Take(r) \/ Hand(r) \/ GiveUp(r)

\* Safety only: that a waiting caller is eventually served is stated of
\* the runner itself (TriggerRunner's WaiterServed), and it fails once a
\* caller gives up.
Spec == Init /\ [][Next]_avars

=============================================================================
