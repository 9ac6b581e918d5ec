----------------------------- MODULE Providers -----------------------------
(***************************************************************************)
(* The providers (src/providers/fcm, expo and webpush): how messages that  *)
(* a MessageBuilder made become requests of a push service, and the        *)
(* answers become results, while the application goes on using its         *)
(* builders.                                                               *)
(*                                                                         *)
(* A bulk call first lists the recipients; a request is converted from the *)
(* message objects when it goes out, after the requests before it were     *)
(* awaited.  A group is a list of send()s made at once and awaited with    *)
(* Promise.all: one send(), the topics of FCM, or a bulk call of Web Push. *)
(* Whether a recipient was reached is the answer of the service and is not *)
(* kept.  One call is followed at a time; that calls overlap is the        *)
(* subject of PushClient.  The services are external.                      *)
(***************************************************************************)
EXTENDS MessageBuilder, SequencesExt

CONSTANTS FCMBatch, ExpoBatch,  \* recipients of one request: 500 and 100
          MaxMessages           \* bound: messages of a bulk call

ASSUME ProviderAssumption == /\ FCMBatch \in Nat \ {0} /\ ExpoBatch \in Nat \ {0}
                             /\ MaxMessages \in Nat

VARIABLES provider,  \* which of the three it is
          call       \* the call in progress, or the last one

vars == <<builderVars, provider, call>>

(* rest: recipients no request went to; group: messages to send() at last; *)
(* flight: the request in flight; targets: history, who was to be sent to. *)
NoCall == [pc |-> "none", rest |-> <<>>, group |-> <<>>, flight |-> <<>>,
           results |-> <<>>, targets |-> <<>>]

Init == /\ BuilderInit /\ provider \in {"fcm", "expo", "webpush"}
        /\ call = NoCall

BatchSize == IF provider = "fcm" THEN FCMBatch ELSE ExpoBatch
Shorter(i, j) == IF i < j THEN i ELSE j

\* tokenMessagePairs: every token of every message, in order, with its message.
Tokens(r) == [i \in 1..Len(heap[r].token.list) |-> [to |-> heap[r].token.list[i], ref |-> r]]
Pairs(msgs) == FlattenSeq([k \in 1..Len(msgs) |-> Tokens(msgs[k])])

\* Whom send() addresses: the convert functions and buildPayload.
FCMAddress(m) == IF ~m.token.many /\ m.token.list # <<>> THEN m.token.list[1]
                 ELSE IF m.topic THEN "topic" ELSE "nowhere"
ExpoAddress(m) == IF m.token.list # <<>> THEN m.token.list[1] ELSE "nowhere"
WebPushAddress(m) == IF ~m.token.many /\ m.token.list # <<>> THEN m.token.list[1] ELSE "nowhere"
Address(m) == CASE provider = "fcm" -> FCMAddress(m)
                [] provider = "expo" -> ExpoAddress(m)
                [] provider = "webpush" -> WebPushAddress(m)

\* FCM and Expo validate a message once more in send(), as it is by then.
Accepts(m) == provider = "webpush" \/ ValidateMessage(m)

\* What goes to a recipient is made from one message object, now.
Sent(to, ref, from) == [to |-> to, ref |-> ref, from |-> from,
                        asBuilt |-> Content(from) = built[from]]

\* FCM sends one multicast message, made from the first of the batch,
FCMRequest(batch) == [i \in 1..Len(batch) |-> Sent(batch[i].to, batch[i].ref, batch[1].ref)]
\* and Expo one message for each recipient.
ExpoRequest(batch) == [i \in 1..Len(batch) |-> Sent(batch[i].to, batch[i].ref, batch[i].ref)]
Request(batch) == IF provider = "fcm" THEN FCMRequest(batch) ELSE ExpoRequest(batch)

\* The send()s of a group; sendToTopic sends a copy with the topic for its token.
One(r) == [ref |-> r, topical |-> FALSE]
Ones(refs) == [i \in 1..Len(refs) |-> One(refs[i])]
Sends(group) == [i \in 1..Len(group) |->
    LET r == group[i].ref
        m == IF group[i].topical THEN [heap[r] EXCEPT !.topic = TRUE, !.token = NoToken] ELSE heap[r]
    IN  Sent(IF Accepts(m) THEN Address(m) ELSE "nowhere", r, r)]
\* A send() answers for the whole message.
Whole(group) == [i \in 1..Len(group) |-> [to |-> "itself", ref |-> group[i].ref]]

\* The next request of call c: a batch, the group, or none.
Proceed(c) ==
    LET n == Shorter(BatchSize, Len(c.rest)) IN
    IF c.rest # <<>>
    THEN [c EXCEPT !.pc = "batch", !.rest = SubSeq(@, n + 1, Len(@)),
                   !.flight = Request(SubSeq(c.rest, 1, n))]
    ELSE IF c.group # <<>>
    THEN [c EXCEPT !.pc = "group", !.group = <<>>, !.flight = Sends(c.group)]
    ELSE [c EXCEPT !.pc = "done", !.flight = <<>>]

Begin(pairs, group) ==
    /\ call.pc = "none"
    /\ call' = Proceed([NoCall EXCEPT !.rest = pairs, !.group = group,
                                      !.targets = pairs \o Whole(group)])
    /\ UNCHANGED <<builderVars, provider>>

Handed == {r \in DOMAIN heap : HandedOut(r)}
Bulk == {msgs \in UNION {[1..n -> Handed] : n \in 0..MaxMessages} :
            \A i, j \in DOMAIN msgs : msgs[i] = msgs[j] => i = j}
Topics(msgs) == FlattenSeq([k \in 1..Len(msgs) |->
                               IF heap[msgs[k]].topic THEN <<One(msgs[k])>> ELSE <<>>])

FCMSendBulk == provider = "fcm" /\ \E msgs \in Bulk : Begin(Pairs(msgs), Topics(msgs))
ExpoSendBulk == provider = "expo" /\ \E msgs \in Bulk : Begin(Pairs(msgs), <<>>)
WebPushSendBulk == provider = "webpush" /\ \E msgs \in Bulk : Begin(<<>>, Ones(msgs))

FCMSend == provider = "fcm" /\ \E r \in Handed : Begin(<<>>, <<One(r)>>)
ExpoSend == provider = "expo" /\ \E r \in Handed : Begin(<<>>, <<One(r)>>)
WebPushSend == provider = "webpush" /\ \E r \in Handed : Begin(<<>>, <<One(r)>>)

FCMSendToTopic == /\ provider = "fcm"
                  /\ \E r \in Handed : Begin(<<>>, <<[ref |-> r, topical |-> TRUE]>>)

\* One result for each recipient of the request in flight.
Received(c) == [c EXCEPT !.results = @ \o [i \in 1..Len(c.flight) |->
    [to |-> IF c.pc = "batch" THEN c.flight[i].to ELSE "itself", ref |-> c.flight[i].ref]]]

Answered == /\ call' = Proceed(Received(call))
            /\ UNCHANGED <<builderVars, provider>>

\* The service answers for each recipient of a batch; a request that fails makes
\* all of them failed; all send()s of a group end, at the latest in a failed result.
FCMBatchAnswered == provider = "fcm" /\ call.pc = "batch" /\ Answered
ExpoBatchAnswered == provider = "expo" /\ call.pc = "batch" /\ Answered
BatchFails_Dropped == /\ call.pc = "batch" /\ call' = Proceed(call)
                      /\ UNCHANGED <<builderVars, provider>>
BatchFails == call.pc = "batch" /\ Answered
GroupAnswered == call.pc = "group" /\ Answered

Return == /\ call.pc = "done" /\ call' = NoCall
          /\ UNCHANGED <<builderVars, provider>>

ProviderNext == \/ FCMSendBulk \/ ExpoSendBulk \/ WebPushSendBulk
                \/ FCMSend \/ FCMSendToTopic \/ ExpoSend \/ WebPushSend
                \/ FCMBatchAnswered \/ ExpoBatchAnswered \/ BatchFails \/ GroupAnswered \/ Return

\* A call that has its last answer returns in the same turn.
Next == \/ ProviderNext
        \/ call.pc # "done" /\ BuilderNext /\ UNCHANGED <<provider, call>>

Spec == Init /\ [][Next]_vars

-----------------------------------------------------------------------------
(* At the end of a call there is one result for each recipient: for each   *)
(* token of each message and, after these, for each topic, in the order of *)
(* the messages, whatever requests failed or the builders did meanwhile.   *)
(* A single send() has one result, whatever its tokens.                    *)
ResultsMatchTargets == call.pc = "done" => call.results = call.targets

(* A recipient is sent what was made of its own message, apart from those  *)
(* of an FCM batch that mixes messages; and what it is sent is the content *)
(* that message was built with, unless a setter of its own builder changed *)
(* the message since, or addData a data object it uses.  Whatever else is  *)
(* done - builders reset or cloned after a build, or used for other        *)
(* messages, while the requests before it are awaited - does not reach it. *)
OwnContent == \A i \in 1..Len(call.flight) :
    LET item  == call.flight[i]
        mixed == provider = "fcm" /\ call.pc = "batch" /\ item.ref # call.flight[1].ref
    IN  /\ item.from = item.ref \/ mixed
        /\ item.from \in touched \/ item.asBuilt

(* What a caller of sendBulk expects, and the repository's own test of a   *)
(* bulk call, which gives each message a body of its own: as long as the   *)
(* messages are valid and left alone, a recipient is sent the content that *)
(* its message was built with.                                             *)
EachItsOwn == (touched = {} /\ \A r \in Handed : ValidateMessage(heap[r])) =>
    \A i \in 1..Len(call.flight) :
        LET item == call.flight[i] IN item.asBuilt /\ built[item.from] = built[item.ref]
=============================================================================
