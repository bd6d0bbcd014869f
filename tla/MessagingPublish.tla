-------------------------- MODULE MessagingPublish --------------------------
(***************************************************************************)
(* The publish path of the SDK's Messaging (sdk/messaging): a handler      *)
(* holds a Messaging that carries the request being handled and calls its  *)
(* Send* methods; publishMsg and publishAny fill an empty request id with  *)
(* a fresh uuid, publishError keeps the id it is given, and every one of   *)
(* them goes through publishResponse: marshal, negotiate the size          *)
(* (MessagingUtilsImpl.GetMaxMessageSize), prepare (compress if needed)    *)
(* and publish to the output subject, suffixed with the sub-channel.  Any  *)
(* failure after the payload was wrapped is only logged.  A downstream     *)
(* node reads a published message's request id with GetRequestID.         *)
(*                                                                         *)
(* Bytes are abstracted to a record: whether they are gzip (the marker     *)
(* IsCompressed looks for), their length, and the envelope they encode.    *)
(* Request ids and subjects are strings; uuid.New() draws the next value   *)
(* of Uuids.  wire is the sequence of messages the broker accepted; each   *)
(* carries, as history, the id its caller asked for and the negotiated     *)
(* limit it was prepared against.                                          *)
(***************************************************************************)
EXTENDS Naturals, Sequences, OutputPrep

CONSTANTS
  InboundIds,      \* request ids the request being handled may carry
  ExplicitIds,     \* ids passed to SendOutputWithRequestID
  Uuids,           \* the values successive uuid.New() calls return
  Output,          \* the configured output subject
  Channels,        \* sub-channel names passed as channelOpt
  StreamMaxSizes,  \* MaxMsgSize values the stream may be configured with
  ServerMaxSizes,  \* MaxPayload values the server may announce
  Lens,            \* lengths a marshalled envelope or its gzip may have
  MaxCalls         \* bound on Send* calls

NoId == ""        \* the empty request id
NoChannel == ""   \* no channelOpt given

ASSUME /\ Uuids \in Seq(STRING) /\ Len(Uuids) >= MaxCalls
       /\ NoId \notin {Uuids[i] : i \in DOMAIN Uuids}
       /\ NoChannel \notin Channels

VARIABLES
  requestId,  \* ms.requestMessage.GetRequestId() of this Messaging
  generated,  \* how many uuids uuid.New() has returned
  calls,      \* Send* calls made so far
  wire,       \* messages published: [subject, data, asked, limit]
  streamMax,  \* the stream's configured MaxMsgSize
  serverMax   \* the connection's MaxPayload

vars == <<requestId, generated, calls, wire, streamMax, serverMax>>

OutputSubjects == {Output} \cup {Output \o "." \o c : c \in Channels}
Envelopes == [id : {NoId} \cup InboundIds \cup ExplicitIds \cup
                   {Uuids[i] : i \in DOMAIN Uuids},
              type : {"OK", "ERROR"}]

-----------------------------------------------------------------------------
(* Pure parts: options, subjects, the size limit and the codec.            *)

\* getOptionalString: the first channelOpt, if any.
GetOptionalString(values) == IF Len(values) > 0 THEN values[1] ELSE NoChannel

\* Mutant: the separator dropped when a channel is given.
GetOutputSubject_NoDot(channel) ==
  IF channel # NoChannel THEN Output \o channel ELSE Output

\* getOutputSubject: the output subject, suffixed with ".channel".
GetOutputSubject(channel) ==
  IF channel # NoChannel THEN Output \o "." \o channel ELSE Output

\* MessagingUtilsImpl.GetMaxMessageSize: StreamInfo may fail; -1 is "no
\* limit" and the lesser of the two limits is used otherwise.
UtilsGetMaxMessageSize(streamInfoOk) ==
  IF streamInfoOk THEN [err |-> FALSE, size |-> GetMaxMessageSize(streamMax, serverMax)]
                  ELSE [err |-> TRUE, size |-> 0]

\* Messaging.prepareOutputMessage over the marshalled envelope's length
\* and its compressed length: a size error, or the prepared bytes.
PrepareOutput(max, lenMsg, lenCompressed) ==
  IF max.err THEN [ok |-> FALSE, compressed |-> FALSE, len |-> lenMsg]
  ELSE PrepareOutputMessage(lenMsg, lenCompressed, max.size)

\* Mutant: the data unmarshalled without looking for the gzip marker.
GetRequestID_NoUncompress(data) ==
  IF data.gzip THEN [err |-> TRUE, id |-> NoId] ELSE [err |-> FALSE, id |-> data.env.id]

\* GetRequestID: gunzip when IsCompressed, then proto.Unmarshal, which
\* fails on gzip bytes (their first byte is no valid protobuf tag).
GetRequestID(data) ==
  LET plain == IF data.gzip THEN [data EXCEPT !.gzip = FALSE] ELSE data
  IN IF plain.gzip THEN [err |-> TRUE, id |-> NoId] ELSE [err |-> FALSE, id |-> plain.env.id]

-----------------------------------------------------------------------------
(* publishResponse: marshal, prepare, publish; each failure returns after  *)
(* a log line.  asked is the id the caller passed, kept as history.        *)

\* Mutant: the marshalled bytes published instead of the prepared ones.
PublishResponse_Unprepared(env, channel, asked) ==
  \E marshalOk, infoOk, publishOk \in BOOLEAN, len, comp \in Lens :
    LET max == UtilsGetMaxMessageSize(infoOk)
        out == PrepareOutput(max, len, comp)
    IN wire' = IF marshalOk /\ out.ok /\ publishOk
                 THEN Append(wire, [subject |-> GetOutputSubject(channel),
                                    data |-> [gzip |-> FALSE, len |-> len, env |-> env],
                                    asked |-> asked, limit |-> max.size])
                 ELSE wire

PublishResponse(env, channel, asked) ==
  \E marshalOk, infoOk, publishOk \in BOOLEAN, len, comp \in Lens :
    LET max == UtilsGetMaxMessageSize(infoOk)
        out == PrepareOutput(max, len, comp)
    IN wire' = IF marshalOk /\ out.ok /\ publishOk
                 THEN Append(wire, [subject |-> GetOutputSubject(channel),
                                    data |-> [gzip |-> out.compressed, len |-> out.len, env |-> env],
                                    asked |-> asked, limit |-> max.size])
                 ELSE wire

\* newResponseMsg: an envelope with the payload and the request id.
NewResponseMsg(id, msgType) == [id |-> id, type |-> msgType]

\* An empty request id is replaced by the next uuid.
FillId(id) == IF id = NoId THEN Uuids[generated + 1] ELSE id

\* publishMsg: anypb.New fails on an invalid message (the error is the
\* only one returned); otherwise fill the id and publish.
PublishMsg(valid, id, msgType, channel) ==
  /\ IF valid
       THEN /\ PublishResponse(NewResponseMsg(FillId(id), msgType), channel, id)
            /\ generated' = IF id = NoId THEN generated + 1 ELSE generated
       ELSE UNCHANGED <<wire, generated>>

\* publishAny: the payload is already an Any.
PublishAny(id, msgType, channel) ==
  /\ PublishResponse(NewResponseMsg(FillId(id), msgType), channel, id)
  /\ generated' = IF id = NoId THEN generated + 1 ELSE generated

\* publishError: an ERROR envelope with the id as given, empty or not.
PublishError(id, channel) ==
  /\ PublishResponse([id |-> id, type |-> "ERROR"], channel, id)
  /\ UNCHANGED generated

-----------------------------------------------------------------------------
(* The Send* methods a handler calls (messaging.go): SendOutput and        *)
(* SendAny use the id of the request being handled, SendOutputWithRequestID *)
(* the id it is given, SendError the request's id; each takes an optional  *)
(* channel.                                                                *)

ChannelOpts == {<<>>} \cup {<<c>> : c \in Channels}

Send ==
  /\ calls < MaxCalls
  /\ calls' = calls + 1
  /\ \E opts \in ChannelOpts :
       LET ch == GetOptionalString(opts) IN
       \/ \E valid \in BOOLEAN : PublishMsg(valid, requestId, "OK", ch)
       \/ \E valid \in BOOLEAN, id \in ExplicitIds \cup {NoId} :
            PublishMsg(valid, id, "OK", ch)
       \/ PublishAny(requestId, "OK", ch)
       \/ PublishError(requestId, ch)
  /\ UNCHANGED <<requestId, streamMax, serverMax>>

Init ==
  /\ requestId \in InboundIds \cup {NoId}
  /\ streamMax \in StreamMaxSizes /\ serverMax \in ServerMaxSizes
  /\ generated = 0 /\ calls = 0 /\ wire = <<>>

Next == Send

Spec == Init /\ [][Next]_vars

-----------------------------------------------------------------------------
TypeOK ==
  /\ generated \in 0..calls /\ calls \in 0..MaxCalls
  /\ \A i \in DOMAIN wire :
       /\ wire[i].subject \in OutputSubjects
       /\ wire[i].data.gzip \in BOOLEAN /\ wire[i].data.len \in Lens
       /\ wire[i].data.env \in Envelopes

\* Whatever the broker accepted fits the limit it was prepared against:
\* publishResponse publishes the bytes prepareOutputMessage returned, the
\* compressed ones when the envelope did not fit.
PublishedWithinLimit == \A i \in DOMAIN wire : wire[i].data.len <= wire[i].limit

\* A downstream node reading a published message with GetRequestID gets,
\* compressed or not, the id the sender asked for; an OK envelope sent
\* with an empty id gets instead a uuid no other published message
\* carries, while an ERROR envelope keeps the id it was given, empty too.
RequestIdPreserved ==
  \A i \in DOMAIN wire :
    LET got == GetRequestID(wire[i].data) IN
    /\ ~got.err
    /\ IF wire[i].asked # NoId \/ wire[i].data.env.type = "ERROR"
         THEN got.id = wire[i].asked
         ELSE /\ got.id # NoId
              /\ \A j \in DOMAIN wire \ {i} : GetRequestID(wire[j].data).id # got.id

=============================================================================
