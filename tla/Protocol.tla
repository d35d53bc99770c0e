------------------------------ MODULE Protocol ------------------------------
(***************************************************************************)
(* What the connector decides of one message, and no state: the answer to  *)
(* a directed message, the check of a message of the market feed, and the  *)
(* destination of a row of the outbox.                                     *)
(*                                                                         *)
(* A message keeps what these decisions tell apart.  Its fields:           *)
(*   form    "garbage" (no JSON object, or no UUID in msgId), "envelope"   *)
(*           (another field of the envelope is missing or wrong), "ok"     *)
(*   type    the type;  sameIds  whether idpk = msgId                      *)
(*   user    the AMQP user_id that the broker authenticated                *)
(*   sender, city  who the JSON says is speaking                           *)
(*   zoned   whether the timestamp has a zone                              *)
(*   cycle   "absent", "invalid" or "valid"                                *)
(*   data    whether data is an object;  good, bad  its fields that are    *)
(*           well formed, and those present that are not                   *)
(*   reason  the reason of a nack or an error                              *)
(***************************************************************************)
EXTENDS Naturals, FiniteSets

CONSTANTS
  Cities,  \* the codes that CITY_CODE matches
  Self     \* CITY_ID

ASSUME ProtocolAssumption == Self \in Cities /\ Cities \cap {"none", "central", "other"} = {}

CENTRAL_TYPES == {"status-statement", "distance-table", "demand-statement", "give", "take",
  "error", "swap-proposed", "swap-settled", "swap-rejected", "swap-cancelled",
  "swap-expired", "trade-recorded", "imbalance-settlement"}
CITY_TYPES == {"request", "negotiation-proposal", "negotiation-report",
  "bid", "bid-accepted", "bid-rejected"}
ANSWER_TYPES == {"ack", "nack", "error"}

\* A message as it arrives; "idpk" and "body" only tell operations apart.
Mail == [form: {"garbage", "envelope", "ok"}, type: STRING, idpk: STRING, body: STRING,
         sameIds: BOOLEAN, user: Cities \cup {"none", "central", "other"},
         sender: {"none", "central", "other"}, city: Cities \cup {"none", "other"},
         zoned: BOOLEAN, cycle: {"absent", "invalid", "valid"}, data: BOOLEAN,
         good: SUBSET STRING, bad: SUBSET STRING, reason: STRING]

KNOWN_TYPES == CENTRAL_TYPES \cup CITY_TYPES \cup {"ack", "nack", "transfer"}
NEED_CYCLE == {"status-statement", "transfer", "demand-statement", "negotiation-proposal",
  "give", "take", "negotiation-report", "error", "bid", "bid-accepted", "bid-rejected"}

-----------------------------------------------------------------------------
(* Content: the fields of data that a type must have, and those that it    *)
(* may have but not ill formed.                                            *)

ErrorDetail(reason) ==
  CASE reason = "REPORT_TOO_EARLY" -> {"opensAt"}
    [] reason = "PRICE_ABOVE_CAP"  -> {"cap"}
    [] reason = "OVER_CAPACITY"    -> {"spare"}
    [] OTHER                       -> {}

NACK_CODES == {"MALFORMED_MESSAGE", "UNKNOWN_TYPE", "IDPK_EQUALS_MSGID", "IDENTITY_MISMATCH"}
ERROR_CODES == {"REPORT_TOO_EARLY", "CYCLE_UNKNOWN", "CYCLE_EXPIRED", "PRICE_ABOVE_CAP",
                "OVER_CAPACITY"}

StatusFields == {"generationCapacity", "consumption", "generationCost", "validUntil"}
DemandFields == {"quantity", "valuePerKwh"}
ProposalFields == {"direction", "quantity", "pricePerEnergy"}
ConfirmationFields == {"target", "energy", "pricePerEnergy"}
ReportFields == {"budgetBalance", "energyBalance"}

RequiredFields(m) ==
  CASE m.type = "status-statement"     -> StatusFields
    [] m.type = "transfer"             -> {"quantity"}
    [] m.type = "demand-statement"     -> DemandFields
    [] m.type = "negotiation-proposal" -> ProposalFields
    [] m.type \in {"give", "take"}     -> ConfirmationFields
    [] m.type = "negotiation-report"   -> ReportFields
    [] m.type = "request"              -> {"ask"}
    [] m.type = "ack"                  -> {"target"}
    [] m.type = "nack"                 -> {"code", "target", "message"}
    [] m.type = "error"                -> {"code", "target", "message"} \cup ErrorDetail(m.reason)
    [] m.type = "distance-table"       -> {"distances"}
    [] m.type = "bid"                  -> {"offerId", "quantity"}
    [] OTHER                           -> {}

OptionalFields(type) ==
  CASE type = "transfer" -> {"becauseOf"}
    [] type = "nack"     -> {"cycleId"}
    [] OTHER             -> {}

KnownReason(m) ==
  /\ m.type = "nack" => m.reason \in NACK_CODES
  /\ m.type = "error" => m.reason \in ERROR_CODES

ContentValid(m) ==
  /\ m.data
  /\ KnownReason(m)
  /\ RequiredFields(m) \subseteq m.good
  /\ OptionalFields(m.type) \cap m.bad = {}

-----------------------------------------------------------------------------
(* Envelope.                                                               *)

\* ACK, NACK and transfer may come from either; a cityId is then not checked.
IdentityValid(m) ==
  /\ m.sender = "none" \/ m.city = "none"
  /\ m.type \in CENTRAL_TYPES => m.sender = "central"
  /\ m.type \in CITY_TYPES => m.city \in Cities
  /\ m.type \notin CENTRAL_TYPES \cup CITY_TYPES =>
       /\ m.sender # "none" \/ m.city # "none"
       /\ m.sender \in {"none", "central"}

CycleValid(m) ==
  /\ m.type = "request" => m.cycle = "absent"
  /\ m.type \in NEED_CYCLE => m.cycle = "valid"

\* validate_message: the reason of the NACK, or "valid".
Verdict(m) ==
  CASE m.sameIds                -> "IDPK_EQUALS_MSGID"
    [] ~m.sameIds /\ m.type \notin KNOWN_TYPES -> "UNKNOWN_TYPE"
    [] ~m.sameIds /\ m.type \in KNOWN_TYPES
         /\ ~(m.zoned /\ IdentityValid(m) /\ CycleValid(m) /\ ContentValid(m))
                                -> "MALFORMED_MESSAGE"
    [] OTHER                    -> "valid"

\* The JSON speaks for a city, or for the central, that the broker did not see.
ForgesCity(m) == /\ ~m.sameIds /\ m.city \in Cities /\ m.sender = "none"
                 /\ m.user # m.city
ForgesCentral(m) == /\ ~m.sameIds /\ m.sender = "central" /\ m.city = "none"
                    /\ m.user # "central"

Refusal(m) ==
  CASE m.form = "envelope"              -> "MALFORMED_MESSAGE"
    [] m.form = "ok" /\ ForgesCity(m)   -> "IDENTITY_MISMATCH"
    [] m.form = "ok" /\ ForgesCentral(m) -> "MALFORMED_MESSAGE"
    [] OTHER                            -> Verdict(m)

\* authenticated_inbound_route: where an answer may go, or "none".
Route(user) == IF user \in Cities \cup {"central"} THEN user ELSE "none"

\* Mutant: an invalid answer is refused like any other message.
RefusesAnswers(m) ==
  CASE m.form = "garbage"                    -> "garbage"
    [] m.form # "garbage" /\ Refusal(m) # "valid" -> "nack"
    [] m.form # "garbage" /\ Refusal(m) = "valid" /\ m.type \in ANSWER_TYPES -> "ignore"
    [] OTHER                                 -> "ack"

\* plan_protocol_response after decode_incoming_payload.  An answer is never
\* answered, whatever is wrong with it.
PlannedAction(m) ==
  CASE m.form = "garbage"                    -> "garbage"
    [] m.form # "garbage" /\ Refusal(m) # "valid" /\ m.type \in ANSWER_TYPES -> "discard"
    [] m.form # "garbage" /\ Refusal(m) # "valid" /\ m.type \notin ANSWER_TYPES -> "nack"
    [] m.form # "garbage" /\ Refusal(m) = "valid" /\ m.type \in ANSWER_TYPES -> "ignore"
    [] OTHER                                 -> "ack"

\* Mutant: the route is taken from what the JSON declares.
DeclaredRoute(m) == IF m.city \in Cities THEN m.city
                    ELSE IF m.sender = "central" THEN "central" ELSE "none"

\* Where the answer to m goes.
ResponseRoute(m) == Route(m.user)

\* What consume_forever does: with no route there is no answer to give.
Plan(m) == IF PlannedAction(m) \in {"ack", "nack"} /\ ResponseRoute(m) = "none"
           THEN "discard" ELSE PlannedAction(m)

-----------------------------------------------------------------------------
(* The market feed, which is not answered.                                 *)

OFFER_TYPES == {"offer", "offer-updated", "offer-withdrawn"}

FeedFields(type) ==
  {"offerId"} \cup CASE type = "offer"         -> {"quantity", "pricePerEnergy"}
                     [] type = "offer-updated" -> {"remaining", "pricePerEnergy"}
                     [] OTHER                  -> {}

\* validate_market_feed.  The central closes the market without a user_id.
FeedValid(m) ==
  /\ m.form = "ok"
  /\ m.type \in OFFER_TYPES \cup {"market-closed"}
  /\ ~m.sameIds /\ m.zoned /\ m.cycle = "valid" /\ m.data
  /\ \/ /\ m.type = "market-closed"
        /\ m.sender = "central" /\ m.city = "none" /\ m.user = "none"
        /\ m.good \cup m.bad = {}
     \/ /\ m.type # "market-closed"
        /\ m.city \in Cities /\ m.sender = "none" /\ m.user = m.city
        /\ FeedFields(m.type) \subseteq m.good

-----------------------------------------------------------------------------
(* Outgoing rows: types and where select_outbound_destination sends them.  *)

MARKET_ROWS == OFFER_TYPES
BID_ROWS == {"bid", "bid-accepted", "bid-rejected"}
CENTRAL_ROWS == {"request", "negotiation-report"}
LEGACY_ROWS == {"negotiation-proposal", "give", "take", "transfer"}

\* The exchange and the routing key of a row that says "to" ("none": no key).
Destination(type, to) ==
  CASE type \in MARKET_ROWS  -> <<"market", Self>>
    [] type \in BID_ROWS     -> <<"directed", to>>
    [] type \in CENTRAL_ROWS -> <<"directed", "central">>
    [] type \in LEGACY_ROWS  -> <<"directed", IF to = "none" THEN "central" ELSE to>>
    [] type \in {"ack", "nack"} -> <<"directed", to>>

\* Rows that wait for a place in the city's quota before they are published.
QUOTA_ROWS == MARKET_ROWS \cup {"request"}
=============================================================================
