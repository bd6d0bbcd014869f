------------------------- MODULE MC_TriggerRunner -------------------------
(* Model-checking instance of TriggerRunner: two request ids, up to two    *)
(* replies per id (a duplicate from upstream) and two delivery attempts    *)
(* per reply (one redelivery after a lost ack or an expired ack wait).    *)
EXTENDS TriggerRunner

CONSTANTS r1, r2

MCReqIds == {r1, r2}
=============================================================================
