------------------------- MODULE MC_HandlerRegistry -------------------------
(* Model-checking instance of HandlerRegistry: two handler functions,      *)
(* custom handlers for nodes written in mixed case, and deliveries from     *)
(* the same nodes in other cases and from a node with no custom handler.   *)
EXTENDS HandlerRegistry

CONSTANTS h1, h2

MCHandlers == {h1, h2}

\* strings.ToLower on the names used below.
MCLower ==
  ("Orders" :> "orders") @@ ("orders" :> "orders") @@ ("ORDERS" :> "orders")
  @@ ("payments" :> "payments") @@ ("billing" :> "billing")
  @@ ("Default" :> "default") @@ ("default" :> "default")

\* Node names that do not collide with the reserved key.
MCSubjects == {"Orders", "payments"}
MCFromNodes == {"orders", "ORDERS", "payments", "billing"}

\* A node whose name lower-cases to the reserved key.
MCSubjectsDefault == {"Orders", "Default"}
MCFromNodesDefault == {"orders", "billing"}
=============================================================================
