------------------------- MODULE MC_MessagingPublish -------------------------
(* Model-checking instance of MessagingPublish: a request with id "123" or *)
(* none, one explicit id, one sub-channel, up to three Send* calls; a      *)
(* stream limit in -1..MaxLen and a connection limit in 1..MaxLen, and    *)
(* envelopes of length 2 or 5 raw or compressed.  Under each pair of       *)
(* limits the size negotiation and preparation are also checked against   *)
(* the codec's contract for every length up to MaxLen + 1.               *)
EXTENDS MessagingPublish

MCUuids == <<"u1", "u2", "u3">>
\* Every stream limit (with -1, no limit) and connection limit up to MaxLen.
MaxLen == 4
MCStreamMaxSizes == {Unlimited} \cup 0..MaxLen
MCServerMaxSizes == 1..MaxLen

\* A length fits when neither the connection nor a bounded stream refuses it.
Fits(n) == n <= serverMax /\ (streamMax = Unlimited \/ n <= streamMax)

\* The contract of getMaxMessageSize with prepareOutputMessage under the
\* limits the broker reports, for every message and compressed length up
\* to MaxLen + 1: what is published fits both limits; a message that fits
\* is published as it is; one that only fits compressed is published
\* compressed; and the publish is refused only when even the compressed
\* form does not fit.
PrepareMatchesContract ==
  \A len, comp \in 0..MaxLen + 1 :
    LET r == PrepareOutputMessage(len, comp, GetMaxMessageSize(streamMax, serverMax))
    IN /\ r.ok => Fits(r.len)
       /\ Fits(len) => r = [ok |-> TRUE, compressed |-> FALSE, len |-> len]
       /\ ~Fits(len) /\ Fits(comp) => r.ok /\ r.compressed
       /\ ~r.ok => ~Fits(len) /\ ~Fits(comp)
=============================================================================
