------------------------------ MODULE Consumer ------------------------------
(***************************************************************************)
(* The queue of directed messages: the connector takes one delivery at a   *)
(* time (connector.consume_forever), has the master audit or process it,   *)
(* answers it through the outbox, and only then settles it with the        *)
(* broker.  Every HTTP call may be lost or time out, the handler in the    *)
(* master then goes on by itself; the connector may lose its connection or *)
(* die anywhere, and the broker delivers again what was not settled.       *)
(*                                                                         *)
(* One delivery is one message of the broker; two may carry the same idpk, *)
(* as when the sender repeats a message whose answer it did not see.       *)
(***************************************************************************)
EXTENDS Protocol, Sequences

CONSTANTS
  Mails,      \* sequences of messages that the queue may hold at first
  MaxFaults   \* bound of lost calls, broken connections and crashes, for one
              \* message; each further message in the queue takes one away

ASSUME ConsumerAssumption ==
  /\ Mails \subseteq Seq(Mail)
  /\ MaxFaults \in Nat

VARIABLES
  mail,     \* the messages, by delivery
  broker,   \* delivery -> "ready", "unacked", "acked" or "rejected"
  hand,     \* the delivery in hand (0: none) and the next step for it
  calls,    \* HTTP calls that put evidence in InboundMessage, oldest first
  claims,   \* ProcessedIdpk: idpk -> the delivery that claimed it (0: none)
  effects,  \* idpk -> how often its business effect was committed
  answers,  \* answers: their outbox row, and whether they reached the broker
  faults    \* faults so far

consumerVars == <<mail, broker, hand, calls, claims, effects, answers, faults>>

Deliveries == DOMAIN mail
Idpks == {mail[d].idpk : d \in Deliveries}

\* Types that claim their idpk, and those whose resend must repeat the body.
STRICT_TYPES == {"bid", "bid-accepted", "bid-rejected", "swap-proposed", "swap-settled",
  "swap-rejected", "swap-cancelled", "swap-expired", "trade-recorded", "imbalance-settlement"}
IDEMPOTENT_TYPES == STRICT_TYPES \cup {"status-statement", "transfer", "demand-statement",
  "distance-table", "negotiation-proposal", "ack", "nack", "give", "take", "negotiation-report"}
BID_REPLIES == {"bid-accepted", "bid-rejected"}

\* Rows of InboundMessage.  "ERROR" stands for a ProtocolError row, the
\* evidence of an error message; "none" for no row.
INBOUND == {"none", "RECEIVED", "PROCESSED", "NOT_PROCESSED", "DUPLICATE", "DISCARDED",
            "NACKED", "FAILED", "ERROR"}

ConsumerInit ==
  /\ mail \in Mails
  /\ broker = [d \in DOMAIN mail |-> "ready"]
  /\ hand = [of |-> 0, at |-> "idle"]
  /\ calls = <<>> /\ answers = <<>>
  /\ claims = [i \in {mail[d].idpk : d \in DOMAIN mail} |-> 0]
  /\ effects = [i \in {mail[d].idpk : d \in DOMAIN mail} |-> 0]
  /\ faults = 0

Fault == faults + Len(mail) <= MaxFaults /\ faults' = faults + 1
NoFault == faults' = faults

-----------------------------------------------------------------------------
(* The connector.                                                          *)

Now(step) == [hand EXCEPT !.at = step]
Settle(fate) == /\ broker' = [broker EXCEPT ![hand.of] = fate]
                /\ hand' = [of |-> 0, at |-> "idle"]

\* What the call is for: the evidence it leaves if it is handled.
CallFor(d) ==
  CASE Plan(mail[d]) \in {"garbage", "discard"} -> "DISCARDED"
    [] Plan(mail[d]) = "nack"                   -> "NACKED"
    [] OTHER                                    -> "ingest"

\* iterator: one delivery, decoded, planned and posted to the master.
Take(d) ==
  /\ hand.at = "idle" /\ broker[d] = "ready"
  /\ broker' = [broker EXCEPT ![d] = "unacked"]
  /\ hand' = [of |-> d, at |-> "call"]
  /\ calls' = Append(calls, [of |-> d, for |-> CallFor(d), at |-> "sent", row |-> "none",
                             answer |-> "none"])
  /\ UNCHANGED <<mail, claims, effects, answers, faults>>

TheCall == calls[Len(calls)]

\* forward_to_master: ack, drop or retry.  No answer (an HTTPError) is retry.
Answered == /\ hand.at = "call" /\ TheCall.at = "done"
            /\ UNCHANGED <<mail, calls, claims, effects, answers>>

TakenByMaster ==
  /\ Answered /\ TheCall.answer = "ack" /\ NoFault
  /\ CASE Plan(mail[hand.of]) \in {"garbage", "discard"} -> Settle("rejected")
       [] Plan(mail[hand.of]) = "ignore" -> Settle("acked")
       [] OTHER -> hand' = Now("pending") /\ UNCHANGED broker

\* Mutant: the delivery is neither settled nor returned.
LeftUnsettled ==
  /\ hand.at = "call"
  /\ \/ TheCall.at = "done" /\ TheCall.answer = "retry" /\ NoFault
     \/ TheCall.answer # "retry" /\ Fault
  /\ Settle("unacked")
  /\ UNCHANGED <<mail, calls, claims, effects, answers>>

\* 5xx, or no answer: the message goes back to the queue, evidence first.
RetryLater ==
  /\ hand.at = "call"
  /\ \/ TheCall.at = "done" /\ TheCall.answer = "retry" /\ NoFault
     \/ TheCall.answer # "retry" /\ Fault
  /\ Settle("ready")
  /\ UNCHANGED <<mail, calls, claims, effects, answers>>

\* 4xx: dropped for good, but a discard without route or of an answer waits.
RefusedByMaster ==
  /\ Answered /\ TheCall.answer = "drop" /\ NoFault
  /\ Settle(IF Plan(mail[hand.of]) = "discard" THEN "ready" ELSE "rejected")

TheAnswer == [of |-> hand.of, kind |-> Plan(mail[hand.of]),
              to |-> ResponseRoute(mail[hand.of]), row |-> "PENDING", sent |-> FALSE]

\* register_outbound_pending: a new msgId in each attempt.
RegisterAnswer ==
  /\ hand.at = "pending" /\ NoFault
  /\ answers' = Append(answers, TheAnswer)
  /\ hand' = Now("publish")
  /\ UNCHANGED <<mail, broker, calls, claims, effects>>

\* Mutant: the delivery is settled before its answer is reported.
AckFirst ==
  /\ hand.at = "publish" /\ NoFault
  /\ Settle("acked")
  /\ answers' = [answers EXCEPT ![Len(answers)].sent = TRUE]
  /\ UNCHANGED <<mail, calls, claims, effects>>

\* dispatch_protocol_response.
PublishAnswer ==
  /\ hand.at = "publish" /\ NoFault
  /\ answers' = [answers EXCEPT ![Len(answers)].sent = TRUE]
  /\ hand' = Now("report")
  /\ UNCHANGED <<mail, broker, calls, claims, effects>>

\* register_outbound_result PUBLISHED, then message.ack().
ReportAnswer ==
  /\ hand.at = "report" /\ NoFault
  /\ answers' = [answers EXCEPT ![Len(answers)].row = "PUBLISHED"]
  /\ hand' = Now("settle")
  /\ UNCHANGED <<mail, broker, calls, claims, effects>>

AckDelivery ==
  /\ hand.at = "settle" /\ NoFault
  /\ Settle("acked")
  /\ UNCHANGED <<mail, calls, claims, effects, answers>>

\* The next call for the answer raises, after it was done or before: the
\* exception leaves the iterator and the connection is closed.
AnswerFails ==
  /\ hand.at \in {"pending", "publish", "report"} /\ Fault
  /\ \/ hand.at = "pending" /\ answers' \in {answers, Append(answers, TheAnswer)}
     \/ /\ hand.at = "publish"
        /\ \E sent \in BOOLEAN, row \in {"PENDING", "FAILED"} :
             answers' = [answers EXCEPT ![Len(answers)].sent = sent, ![Len(answers)].row = row]
     \/ /\ hand.at = "report"
        /\ \E row \in {"PENDING", "PUBLISHED"} :
             answers' = [answers EXCEPT ![Len(answers)].row = row]
  /\ Settle("ready")
  /\ UNCHANGED <<mail, calls, claims, effects>>

\* The connector dies or its connection breaks: all that is unacked returns.
ConnectorStops ==
  /\ hand.at # "idle" /\ Fault
  /\ Settle("ready")
  /\ UNCHANGED <<mail, calls, claims, effects, answers>>

-----------------------------------------------------------------------------
(* The master, for each call that reached it, whoever still waits for it.  *)

Step(c, at, row, answer) ==
  calls' = [calls EXCEPT ![c].at = at, ![c].row = row, ![c].answer = answer]
MailOf(c) == mail[calls[c].of]

\* ProtocolMessageIn: what the connector lets through and the schema does not.
SchemaRefuses(m) == m.cycle = "invalid" \/ m.city = "other"

\* The first commit: the reception.  A 422 of the schema leaves nothing.
Receive(c) ==
  /\ calls[c].at = "sent" /\ NoFault
  /\ \/ ~(calls[c].for = "ingest" /\ MailOf(c).type = "error")
        /\ Step(c, "received", "RECEIVED", "none")
     \/ calls[c].for = "ingest" /\ SchemaRefuses(MailOf(c)) /\ Step(c, "done", "none", "drop")
  /\ UNCHANGED <<mail, broker, hand, claims, effects, answers>>

\* ingest_protocol_error: one row for a msgId, however often it is delivered.
ReceiveError(c) ==
  /\ calls[c].at = "sent" /\ NoFault
  /\ calls[c].for = "ingest" /\ MailOf(c).type = "error"
  /\ Step(c, "done", "ERROR", "ack")
  /\ UNCHANGED <<mail, broker, hand, claims, effects, answers>>

\* create_inbound_audit: the second commit.
Audit(c) ==
  /\ calls[c].at = "received" /\ calls[c].for # "ingest" /\ NoFault
  /\ Step(c, "done", calls[c].for, "ack")
  /\ UNCHANGED <<mail, broker, hand, claims, effects, answers>>

SameOperation(c) ==
  LET m == MailOf(c)
      Earlier == {k \in DOMAIN calls : MailOf(k).idpk = m.idpk /\ calls[k].row = "PROCESSED"}
  IN  m.type \in STRICT_TYPES =>
        \E k \in Earlier : MailOf(k).type = m.type /\ MailOf(k).body = m.body

\* A claimed idpk: nothing is done again.
Repeat(c) ==
  /\ calls[c].at = "received" /\ calls[c].for = "ingest" /\ NoFault
  /\ MailOf(c).type \in IDEMPOTENT_TYPES /\ claims[MailOf(c).idpk] # 0
  /\ Step(c, "done", IF SameOperation(c) THEN "DUPLICATE" ELSE "NOT_PROCESSED", "ack")
  /\ UNCHANGED <<mail, broker, hand, claims, effects, answers>>

Unclaimed(c) == /\ calls[c].at = "received" /\ calls[c].for = "ingest"
                /\ MailOf(c).type \in IDEMPOTENT_TYPES => claims[MailOf(c).idpk] = 0

\* Mutant: the idpk is looked up and never written.
NoClaim(c) == UNCHANGED claims

ClaimIt(c) == claims' = [claims EXCEPT ![MailOf(c).idpk] = calls[c].of]

\* The second transaction, with effect: claim, effect and result commit at once.
Process(c) ==
  /\ Unclaimed(c) /\ MailOf(c).type \in IDEMPOTENT_TYPES /\ NoFault
  /\ ClaimIt(c)
  /\ \/ /\ effects' = [effects EXCEPT ![MailOf(c).idpk] = @ + 1]
        /\ Step(c, "done", "PROCESSED", "ack")
     \/ UNCHANGED effects /\ Step(c, "done", "DUPLICATE", "ack")  \* the ledger has it
  /\ UNCHANGED <<mail, broker, hand, answers>>

\* Mutant: the claim of a message that had no effect is left behind.
KeepClaim(c) ==
  /\ Unclaimed(c) /\ NoFault
  /\ ClaimIt(c)
  /\ Step(c, "done", "NOT_PROCESSED", "ack")
  /\ UNCHANGED <<mail, broker, hand, effects, answers>>

\* ... without effect: the claim goes too, except that of a reply to a bid.
\* The types that the ledger does not know never claim.
PassOver(c) ==
  /\ Unclaimed(c) /\ NoFault
  /\ IF MailOf(c).type \in BID_REPLIES THEN ClaimIt(c) ELSE UNCHANGED claims
  /\ Step(c, "done", "NOT_PROCESSED", "ack")
  /\ UNCHANGED <<mail, broker, hand, effects, answers>>

\* ... or an exception rolls it back: 422 for a ValueError, else 500; then
\* the reception is marked FAILED, if that can be written.
Abort(c) ==
  /\ calls[c].at = "received"
  /\ \/ calls[c].for = "ingest" /\ Unclaimed(c) /\ NoFault
        /\ \E row \in {"RECEIVED", "FAILED"} : Step(c, "done", row, "drop")
     \/ /\ Fault
        /\ \E row \in {"RECEIVED", "FAILED"} :
             /\ row = "FAILED" => calls[c].for = "ingest"
             /\ Step(c, "done", row, "retry")
  /\ UNCHANGED <<mail, broker, hand, claims, effects, answers>>

\* The call never reaches the master, or it dies with it: no more happens.
CallVanishes(c) ==
  /\ calls[c].at \in {"sent", "received"} /\ Fault
  /\ Step(c, "done", calls[c].row, "retry")
  /\ UNCHANGED <<mail, broker, hand, claims, effects, answers>>

-----------------------------------------------------------------------------
ConnectorStep ==
  \/ \E d \in Deliveries : Take(d)
  \/ TakenByMaster \/ RetryLater \/ RefusedByMaster
  \/ RegisterAnswer \/ PublishAnswer \/ ReportAnswer \/ AckDelivery
  \/ AnswerFails \/ ConnectorStops

MasterStep(c) == \/ Receive(c) \/ ReceiveError(c) \/ Audit(c) \/ Repeat(c) \/ Process(c)
                 \/ PassOver(c) \/ Abort(c) \/ CallVanishes(c)

ConsumerNext == ConnectorStep \/ \E c \in DOMAIN calls : MasterStep(c)

ConsumerSpec == ConsumerInit /\ [][ConsumerNext]_consumerVars

\* The loop goes on, and so does a handler that the master has begun.
ConsumerFairness ==
  /\ WF_consumerVars(ConnectorStep)
  /\ WF_consumerVars(\E c \in DOMAIN calls : MasterStep(c))

-----------------------------------------------------------------------------
(* Properties.                                                             *)

Call == [of: Deliveries, for: {"ingest", "DISCARDED", "NACKED"},
         at: {"sent", "received", "done"}, row: INBOUND,
         answer: {"none", "ack", "drop", "retry"}]
AnswerRow == [of: Deliveries, kind: {"ack", "nack"}, to: Cities \cup {"central"},
              row: {"PENDING", "PUBLISHED", "FAILED"}, sent: BOOLEAN]

\* Type invariant: the fields keep to the statuses of message_audit.py and the
\* steps of consume_forever, and an answer has a kind and a route.
ConsumerTypeOK ==
  /\ mail \in Mails
  /\ broker \in [Deliveries -> {"ready", "unacked", "acked", "rejected"}]
  /\ hand \in [of: Deliveries \cup {0},
              at: {"idle", "call", "pending", "publish", "report", "settle"}]
  /\ calls \in Seq(Call) /\ answers \in Seq(AnswerRow)
  /\ claims \in [Idpks -> Deliveries \cup {0}]
  /\ effects \in [Idpks -> Nat]
  /\ faults \in 0..MaxFaults

\* However often a message is delivered or repeated, and however many handlers
\* of it run at once, its business effect is committed once; and an idpk that
\* is claimed was taken by an operation that is in the books, so that no
\* redelivery is swallowed.  The exception is a reply to a bid, whose claim
\* stays without effect (claim_idpk, internal_messages.py:576).
OneOutcome ==
  \A i \in Idpks :
    /\ effects[i] <= 1
    /\ claims[i] # 0 /\ mail[claims[i]].type \notin BID_REPLIES =>
         \E c \in DOMAIN calls : MailOf(c).idpk = i /\ calls[c].row \in {"PROCESSED", "DUPLICATE"}

EvidenceOf(d, rows) == \E c \in DOMAIN calls : calls[c].of = d /\ calls[c].row \in rows
Decided == {"PROCESSED", "NOT_PROCESSED", "DUPLICATE", "ERROR"}

\* A delivery is acked only with its outcome in the master and its answer
\* published and known to be; it is dropped only if the master kept the
\* evidence of it, or refused it: a master that is down, or an answer that is
\* not certain, loses nothing (forward_to_master, complete_successful_message).
SettledIsAccounted ==
  \A d \in Deliveries :
    /\ broker[d] = "acked" =>
         /\ EvidenceOf(d, IF Plan(mail[d]) = "nack" THEN {"NACKED"} ELSE Decided)
         /\ Plan(mail[d]) # "ignore" =>
              \E a \in DOMAIN answers : answers[a].of = d /\ answers[a].sent
                                       /\ answers[a].row = "PUBLISHED"
    /\ broker[d] = "rejected" =>
         \/ EvidenceOf(d, {"DISCARDED"})
         \/ \E c \in DOMAIN calls : calls[c].of = d /\ calls[c].answer = "drop"

\* An answer goes to the peer that the broker authenticated, never answers an
\* answer, says ack only of what the master decided, and nack only of what it
\* keeps evidence of; and what only the central or one city may say has an
\* effect only if the broker authenticated that speaker
\* (authenticated_inbound_route, plan_protocol_response).
SpeakersAreAuthentic ==
  /\ \A a \in DOMAIN answers :
       LET m == mail[answers[a].of] IN
       /\ answers[a].to = m.user
       /\ m.type \notin ANSWER_TYPES
       /\ answers[a].kind = "ack" => EvidenceOf(answers[a].of, Decided)
       /\ answers[a].kind = "nack" => EvidenceOf(answers[a].of, {"NACKED"})
  /\ \A c \in DOMAIN calls : calls[c].row = "PROCESSED" =>
       /\ MailOf(c).type \in CITY_TYPES => MailOf(c).user = MailOf(c).city
       /\ MailOf(c).type \in CENTRAL_TYPES => MailOf(c).user = "central"

\* The rows that are evidence of what a call was for.
RowsFor(purpose) == IF purpose = "ingest" THEN Decided ELSE {purpose}

\* What makes the properties above inductive: the delivery in hand is not
\* settled, the last call is the one for it and, from its acceptance on, was
\* answered with success; its answer is the last row of the outbox, as far as
\* it got; a call says of its message what it was for, and says so when its
\* transaction has ended; and what had an effect is claimed
\* (consume_forever, complete_successful_message, claim_idpk).
ConsumerInv ==
  /\ hand.at # "idle" => /\ hand.of \in Deliveries /\ broker[hand.of] = "unacked"
                         /\ calls # <<>> /\ TheCall.of = hand.of
  /\ hand.at \in {"pending", "publish", "report", "settle"} =>
       Plan(mail[hand.of]) \in {"ack", "nack"} /\ TheCall.answer = "ack"
  /\ hand.at \in {"publish", "report", "settle"} =>
       /\ answers # <<>> /\ answers[Len(answers)].of = hand.of
       /\ hand.at # "publish" => answers[Len(answers)].sent
       /\ hand.at = "settle" => answers[Len(answers)].row = "PUBLISHED"
  /\ \A c \in DOMAIN calls :
       /\ calls[c].for = CallFor(calls[c].of)
       /\ calls[c].answer # "none" => calls[c].at = "done"
       /\ calls[c].answer = "ack" => calls[c].row \in RowsFor(calls[c].for)
       /\ calls[c].row \in Decided \cup {"DISCARDED", "NACKED"} =>
            calls[c].at = "done" /\ calls[c].row \in RowsFor(calls[c].for)
  /\ \A i \in Idpks : effects[i] <= 1 /\ (effects[i] = 1 => claims[i] # 0)

\* Every delivery leaves the queue, acked or dropped, once faults end.
EveryDeliveryEnds ==
  \A d \in {1, 2} : <>[](d \in Deliveries => broker[d] \in {"acked", "rejected"})
=============================================================================
