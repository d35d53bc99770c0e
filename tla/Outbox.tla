------------------------------- MODULE Outbox -------------------------------
(***************************************************************************)
(* The transactional outbox: rows of OutboundMessage that the master's     *)
(* transactions leave, and the connector's task that publishes them        *)
(* (connector.publish_backend_outbox).  Three writers are here: the local  *)
(* offer, whose market rows must reach the feed in order; the requests for *)
(* information, of which one may be open; and a bid of this city, whose    *)
(* failed row is replaced by one with a new msgId.                         *)
(*                                                                         *)
(* The connector asks for a batch, takes a place in the quota for the rows *)
(* that need one, publishes each row and reports the result.  A call may   *)
(* fail before or after it took effect, a result may be applied late, and  *)
(* the connector may die; a row is published until its PUBLISHED is known. *)
(* There is one connector, which holds one batch at a time.                *)
(***************************************************************************)
EXTENDS Protocol, Sequences

CONSTANTS
  Limit,      \* category of the quota -> publications allowed in a minute
  Minute,     \* ticks that a publication counts; one tick is the lease of 15 s
  LastBidAt, LastOfferAt, ClosesAt,  \* deadlines of the cycle
  Orders,     \* what may be asked of the writers: sets of budgets
  MaxLosses   \* bound of lost calls, failed publications and crashes

Categories == {"offer", "request"}

ASSUME OutboxAssumption ==
  /\ Limit \in [Categories -> Nat \ {0}] /\ Minute \in Nat \ {0}
  /\ {LastBidAt, LastOfferAt, ClosesAt} \subseteq Nat
  /\ Orders \subseteq [{"offer", "change", "withdraw", "ask", "bid"} -> Nat]
  /\ MaxLosses \in Nat

VARIABLES
  rows,     \* OutboundMessage, in the order of their ids
  conn,     \* the connector: the rest of its batch, and its step for the first,
            \* the row with the least id
  wire,     \* what the broker took, in that order: the row, and the exchange
  late,     \* results that the connector gave up on and the master may apply
  used,     \* category -> its places -> ticks for which each is still taken
  time,     \* the clock of the cycle
  offer,    \* MarketOffer.status of the local offer
  bid,      \* MarketBid of this city: its status, and the row of its msg_id
  asking,   \* kinds of writers that saw no open request and will insert one
  todo,     \* what may still be asked of the writers
  losses    \* losses so far

outboxVars == <<rows, conn, wire, late, used, time, offer, bid, asking, todo, losses>>

\* The three types of market rows share one category.
Category(type) == IF type \in MARKET_ROWS THEN "offer" ELSE type

\* OutboundMessage: "wait" is the time to available_at, "until" expires_at.
Row(type, until) == [type |-> type, wait |-> 0, until |-> until, status |-> "PENDING",
                     dispatch |-> TRUE, resolved |-> FALSE]
NEVER == 1000
Idle == [batch |-> {}, at |-> "poll"]

Least(N) == CHOOSE n \in N : \A m \in N : n <= m

OutboxInit ==
  /\ rows = <<>> /\ conn = Idle /\ wire = <<>> /\ late = {}
  /\ used = [c \in Categories |-> [p \in 1..Limit[c] |-> 0]]
  /\ time = 0 /\ losses = 0
  /\ offer = "none" /\ bid = [status |-> "none", row |-> 0]
  /\ asking = {} /\ todo \in Orders

Loss == losses < MaxLosses /\ losses' = losses + 1
NoLoss == losses' = losses

-----------------------------------------------------------------------------
(* The master's side of the connector.                                     *)

\* Mutant: only the offer itself is waited for.
OnlyOfferFirst(r) ==
  rows[r].type \in MARKET_ROWS =>
    \A e \in 1..(r - 1) : rows[e].type = "offer" => rows[e].status = "PUBLISHED"

\* has_earlier_unpublished_market
InTurn(r) ==
  rows[r].type \in MARKET_ROWS =>
    \A e \in 1..(r - 1) : rows[e].type \in MARKET_ROWS => rows[e].status = "PUBLISHED"

\* Mutant: what failed is not taken up again.
OnlyPending == {"PENDING"}
Retried == {"PENDING", "FAILED"}

Eligible(r) == rows[r].dispatch /\ rows[r].status \in Retried

\* list_outbound_dispatch: the rows to publish now, by id; the failed rows of
\* bids were renewed first.
Due(r) == /\ Eligible(r)
          /\ rows[r].wait = 0 /\ time < rows[r].until
          /\ rows[r].type = "bid" => rows[r].status = "PENDING"
          /\ InTurn(r)

FailedBids == {r \in DOMAIN rows : /\ rows[r].type = "bid" /\ rows[r].dispatch
                                   /\ rows[r].status = "FAILED"}

\* renew_failed_bid_dispatches: while the bid waits and the row is its latest.
Renews(r) == r \in FailedBids /\ time < rows[r].until
             /\ bid.status = "PENDING" /\ bid.row = r
Stopped == [r \in DOMAIN rows |->
              IF r \in FailedBids THEN [rows[r] EXCEPT !.dispatch = FALSE] ELSE rows[r]]

\* The GET of the batch, whose answer the connector gets.
Batch == {r \in DOMAIN rows : Due(r)}
NewRow == IF \E r \in DOMAIN rows : Renews(r) THEN <<Row("bid", LastBidAt)>> ELSE <<>>

Poll ==
  /\ conn.at = "poll"
  /\ rows' = Stopped \o NewRow
  /\ bid' = IF NewRow # <<>> THEN [bid EXCEPT !.row = Len(rows) + 1] ELSE bid
  /\ \/ /\ NoLoss
        /\ LET batch == Batch \cup {r \in {Len(rows) + 1} : NewRow # <<>>}
           IN  conn' = IF batch = {} THEN conn ELSE [batch |-> batch, at |-> "item"]
     \/ Loss /\ UNCHANGED conn
  /\ UNCHANGED <<wire, late, used, time, offer, asking, todo>>

\* mark_outbound_published and mark_outbound_failed: a row that is published
\* stays so, whatever result comes later.
Marked(row, result) ==
  IF result = "PUBLISHED" THEN [row EXCEPT !.status = "PUBLISHED", !.dispatch = FALSE]
  ELSE IF row.status = "PUBLISHED" THEN row ELSE [row EXCEPT !.status = "FAILED"]

-----------------------------------------------------------------------------
(* The connector, row by row.                                              *)

This == Least(conn.batch)
At(step) == [conn EXCEPT !.at = step]

\* Mutant: the loop goes on after the last row of its batch.
NextItem == [batch |-> conn.batch \ {This}, at |-> "item"]
Rest == IF conn.batch = {This} THEN Idle ELSE [batch |-> conn.batch \ {This}, at |-> "item"]

NeedsQuota(r) == rows[r].type \in QUOTA_ROWS

\* The row expired since it was polled: not even an attempt.
SkipExpired ==
  /\ conn.at = "item" /\ time >= rows[This].until
  /\ conn' = Rest
  /\ UNCHANGED <<rows, wire, late, used, time, offer, bid, asking, todo, losses>>

NoQuota ==
  /\ conn.at = "item" /\ time < rows[This].until /\ ~NeedsQuota(This)
  /\ conn' = At("publish")
  /\ UNCHANGED <<rows, wire, late, used, time, offer, bid, asking, todo, losses>>

\* reserve_outbound_quota and operational_rate_limits.reserve, as the master
\* finds the row now: refused (409), too early, without place, or reserved.
Free(c) == {p \in 1..Limit[c] : used[c][p] = 0}
Full(c) == Free(c) = {}
Soonest(c) == Least({used[c][p] : p \in 1..Limit[c]})
Reserving(r) ==
  LET c == Category(rows[r].type) IN
  IF ~Eligible(r) \/ time >= rows[r].until \/ rows[r].wait > 0
  THEN UNCHANGED <<rows, used>>
  ELSE /\ rows' = [rows EXCEPT ![r].wait = IF Full(c) THEN Soonest(c) ELSE 1]
       /\ used' = IF Full(c) THEN used ELSE [used EXCEPT ![c][Least(Free(c))] = Minute]
Reserved(r) == /\ Eligible(r) /\ time < rows[r].until /\ rows[r].wait = 0
               /\ ~Full(Category(rows[r].type))

Reserve ==
  /\ conn.at = "item" /\ time < rows[This].until /\ NeedsQuota(This)
  /\ \/ /\ NoLoss /\ Reserving(This)
        /\ conn' = CASE Reserved(This) -> At("publish")
                     [] ~Eligible(This) -> At("failed")
                     [] OTHER -> Rest
     \/ Loss /\ (Reserving(This) \/ UNCHANGED <<rows, used>>) /\ conn' = At("failed")
  /\ UNCHANGED <<wire, late, time, offer, bid, asking, todo>>

OnWire(r) == [row |-> r, exchange |-> Destination(rows[r].type, "ABC")[1]]

Publish ==
  /\ conn.at = "publish"
  /\ wire' = Append(wire, OnWire(This)) /\ conn' = At("report")
  /\ UNCHANGED <<rows, late, used, time, offer, bid, asking, todo, losses>>

\* Mutant: no confirmation in time counts as published.
TimeoutIsSuccess ==
  /\ conn.at = "publish" /\ Loss
  /\ wire' \in {wire, Append(wire, OnWire(This))} /\ conn' = At("report")
  /\ UNCHANGED <<rows, late, used, time, offer, bid, asking, todo>>

\* It raises, whether the broker took the row or not; a broken connection
\* drops the rest of the batch.
PublishFails ==
  /\ conn.at = "publish" /\ Loss
  /\ wire' \in {wire, Append(wire, OnWire(This))}
  /\ conn' \in {At("failed"), [batch |-> {This}, at |-> "failed"]}
  /\ UNCHANGED <<rows, late, used, time, offer, bid, asking, todo>>

\* register_outbound_result: what it raises is only logged.
Report ==
  /\ conn.at \in {"report", "failed"}
  /\ LET result == IF conn.at = "report" THEN "PUBLISHED" ELSE "FAILED" IN
       \/ NoLoss /\ rows' = [rows EXCEPT ![This] = Marked(@, result)] /\ UNCHANGED late
       \/ Loss /\ late' \in {late, late \cup {[row |-> This, result |-> result]}}
               /\ UNCHANGED rows
  /\ conn' = Rest
  /\ UNCHANGED <<wire, used, time, offer, bid, asking, todo>>

\* A result that the connector no longer waited for.
ReportLate(l) ==
  /\ rows' = [rows EXCEPT ![l.row] = Marked(@, l.result)]
  /\ late' = late \ {l}
  /\ UNCHANGED <<conn, wire, used, time, offer, bid, asking, todo, losses>>

ConnectorDies ==
  /\ conn # Idle /\ Loss
  /\ conn' = Idle
  /\ UNCHANGED <<rows, wire, late, used, time, offer, bid, asking, todo>>

ConnectorTask == \/ Poll \/ SkipExpired \/ NoQuota \/ Reserve \/ Publish \/ PublishFails
                 \/ Report \/ ConnectorDies

-----------------------------------------------------------------------------
(* The writers.                                                            *)

Asked(kind) == todo[kind] > 0 /\ todo' = [todo EXCEPT ![kind] = @ - 1]
WritersKeep == UNCHANGED <<conn, wire, late, used, time, losses>>

\* _can_broadcast
CanBroadcast == time < LastOfferAt /\ time < ClosesAt

\* enqueue_seller_offer, once a cycle.
PublishOffer ==
  /\ offer = "none" /\ CanBroadcast /\ Asked("offer")
  /\ offer' = "ACTIVE" /\ rows' = Append(rows, Row("offer", LastOfferAt))
  /\ UNCHANGED <<bid, asking>> /\ WritersKeep

\* change_local_offer_price, and the update after a confirmed sale: the sale
\* is made whatever the offer has become, but then without an update.
ChangeOffer ==
  /\ offer # "none" /\ Asked("change")
  /\ rows' = IF offer = "ACTIVE" /\ CanBroadcast
             THEN Append(rows, Row("offer-updated", LastOfferAt)) ELSE rows
  /\ UNCHANGED <<offer, bid, asking>> /\ WritersKeep

\* withdraw_local_offer
WithdrawOffer ==
  /\ offer = "ACTIVE" /\ CanBroadcast /\ Asked("withdraw")
  /\ offer' = "WITHDRAWN" /\ rows' = Append(rows, Row("offer-withdrawn", LastOfferAt))
  /\ UNCHANGED <<bid, asking>> /\ WritersKeep

\* close_local_offers: what has not been published no longer will be.
CloseOffer ==
  /\ time >= ClosesAt
  /\ offer' = IF offer = "ACTIVE" THEN "CLOSED" ELSE offer
  /\ rows' = [r \in DOMAIN rows |-> IF rows[r].type \in MARKET_ROWS /\ Eligible(r)
                                   THEN [rows[r] EXCEPT !.dispatch = FALSE] ELSE rows[r]]
  /\ UNCHANGED <<bid, asking, todo>> /\ WritersKeep

OpenRequests == {r \in DOMAIN rows : rows[r].type = "request" /\ ~rows[r].resolved}

\* enqueue_information_request: the read.  "ledger" holds the advisory lock
\* from here to its insert; "gap" (record_market_feed_gap) does not take it.
AskLooks(who) ==
  /\ who \notin asking /\ Asked("ask")
  /\ asking' = IF OpenRequests = {} THEN asking \cup {who} ELSE asking
  /\ UNCHANGED <<rows, offer, bid>> /\ WritersKeep

AskInserts(who) ==
  /\ who \in asking /\ asking' = asking \ {who}
  /\ rows' = Append(rows, Row("request", NEVER))
  /\ UNCHANGED <<offer, bid, todo>> /\ WritersKeep

\* resolve_information_request: the oldest that is published and open.
AnswerRequest ==
  /\ \E r \in OpenRequests :
       /\ rows[r].status = "PUBLISHED"
       /\ \A q \in OpenRequests : rows[q].status = "PUBLISHED" => r <= q
       /\ rows' = [rows EXCEPT ![r].resolved = TRUE]
  /\ UNCHANGED <<offer, bid, asking, todo>> /\ WritersKeep

\* enqueue_buy_bid
PlaceBid ==
  /\ bid.status = "none" /\ time < LastBidAt /\ Asked("bid")
  /\ bid' = [status |-> "PENDING", row |-> Len(rows) + 1]
  /\ rows' = Append(rows, Row("bid", LastBidAt))
  /\ UNCHANGED <<offer, asking>> /\ WritersKeep

\* The seller replies to any of its msgIds, or the bid expires.
BidEnds ==
  /\ bid.status = "PENDING"
  /\ time >= LastBidAt \/ \E w \in DOMAIN wire : rows[wire[w].row].type = "bid"
  /\ bid' = [bid EXCEPT !.status = "over"]
  /\ UNCHANGED <<rows, offer, asking, todo>> /\ WritersKeep

Writers ==
  \/ PublishOffer \/ ChangeOffer \/ WithdrawOffer \/ CloseOffer
  \/ \E who \in {"ledger", "gap"} : AskLooks(who) \/ AskInserts(who)
  \/ AnswerRequest \/ PlaceBid \/ BidEnds

\* One lease of a reservation goes by; after the cycle only waits run out.
Less(n) == IF n = 0 THEN 0 ELSE n - 1
Tick ==
  /\ time' = IF time < ClosesAt THEN time + 1 ELSE time
  /\ rows' = [r \in DOMAIN rows |-> [rows[r] EXCEPT !.wait = Less(@)]]
  /\ used' = [c \in Categories |-> [p \in 1..Limit[c] |-> Less(used[c][p])]]
  /\ UNCHANGED <<conn, wire, late, offer, bid, asking, todo, losses>>

OutboxNext ==
  ConnectorTask \/ Writers \/ Tick \/ \E l \in late : ReportLate(l)

OutboxSpec == OutboxInit /\ [][OutboxNext]_outboxVars

\* The connector's loop, whose retries end with the losses; the clock; and
\* the insert that follows a look.
OutboxFairness ==
  /\ WF_outboxVars(ConnectorTask) /\ WF_outboxVars(Tick)
  /\ WF_outboxVars(\E who \in asking : AskInserts(who))

-----------------------------------------------------------------------------
(* Properties.                                                             *)

RowType == [type: MARKET_ROWS \cup {"request", "bid"}, wait: Nat, until: Nat,
            status: {"PENDING", "PUBLISHED", "FAILED"}, dispatch: BOOLEAN, resolved: BOOLEAN]

\* Type invariant: statuses of OutboundMessage and MarketOffer, and the steps
\* of publish_backend_outbox for the rows of its batch.
OutboxTypeOK ==
  /\ rows \in Seq(RowType) /\ wire \in Seq([row: DOMAIN rows, exchange: {"market", "directed"}])
  /\ conn \in [batch: SUBSET DOMAIN rows, at: {"poll", "item", "publish", "report", "failed"}]
  /\ conn.at = "poll" <=> conn.batch = {}
  /\ late \subseteq [row: DOMAIN rows, result: {"PUBLISHED", "FAILED"}]
  /\ \A c \in Categories : used[c] \in [1..Limit[c] -> 0..Minute]
  /\ DOMAIN used = Categories /\ time \in 0..ClosesAt
  /\ offer \in {"none", "ACTIVE", "WITHDRAWN", "CLOSED"}
  /\ bid \in [status: {"none", "PENDING", "over"}, row: {0} \cup DOMAIN rows]
  /\ asking \subseteq {"ledger", "gap"} /\ losses \in 0..MaxLosses

\* What went to the exchange of the feed, as places of the wire.
Feed == {i \in DOMAIN wire : wire[i].exchange = "market"}

\* The feed sees the offer and its changes, nothing else, in the order in which
\* they were made, however often a row is published again or a result comes
\* late (routers/message_audit.py:244).
MarketInOrder ==
  \A j \in Feed :
    /\ rows[wire[j].row].type \in MARKET_ROWS
    /\ \A r \in DOMAIN rows : rows[r].type \in MARKET_ROWS =>
         /\ r < wire[j].row => \E i \in Feed : i < j /\ wire[i].row = r
         /\ r > wire[j].row => \A i \in Feed : i < j => wire[i].row # r

\* Why the feed stays in order (has_earlier_unpublished_market): a row of the
\* market is polled, or was published, when all before it are recorded as
\* PUBLISHED, and none after one that is polled was published or is polled
\* with it; what is reported as published was, now or late.
TurnsKept ==
  LET Market == {r \in DOMAIN rows : rows[r].type \in MARKET_ROWS}
      Sent == {wire[i].row : i \in DOMAIN wire}
  IN  /\ \A r \in Market \cap (Sent \cup conn.batch) : \A e \in Market :
           e < r => rows[e].status = "PUBLISHED"
      /\ \A r \in Market \cap conn.batch : \A e \in Market \cap (Sent \cup conn.batch) : e <= r
      /\ conn.at = "report" => This \in Sent
      /\ \A l \in late : l.result = "PUBLISHED" => l.row \in Sent
      /\ \A i \in DOMAIN wire : wire[i].exchange = "market" <=> wire[i].row \in Market

\* A row that is recorded as PUBLISHED did reach the broker: a lost answer of
\* the broker never passes for a publication.
PublishedIsOnWire ==
  \A r \in DOMAIN rows : rows[r].status = "PUBLISHED" => \E i \in DOMAIN wire : wire[i].row = r

\* No row is forgotten: in the end it is published, its deadline has passed,
\* or it is the row of a bid that was renewed; requests are all published.
NoneForgotten ==
  \A r \in 1..3 : <>[](r \in DOMAIN rows =>
    \/ rows[r].status = "PUBLISHED" \/ time >= rows[r].until
    \/ rows[r].type = "bid" /\ (bid.row # r \/ bid.status = "over"))
=============================================================================
