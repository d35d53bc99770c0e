# Verification of EnergyShark

TLA+ models, TLC runs and TLAPS proofs of the city backend in `src/`: one city
of an energy market that offers its surplus, takes bids from other cities,
exchanges energy for credits through a central wallet, and keeps its own
ledger. Every module is translated from the code; paths below are relative to
`src/master/app/services/` unless they say otherwise.

## 1. The system

Processes: `master` and `master2` (FastAPI replicas behind nginx), one
`cycle-scheduler` worker, and `connector` (AMQP to HTTP and back). They share
one PostgreSQL database at READ COMMITTED. The central wallet (REST, and events
over RabbitMQ), the market exchange and the other cities are external.

| Component | State | Operations | Talks to |
|---|---|---|---|
| Local offer (`seller_offer`, `seller_offer_events`) | `MarketOffer` (status, initial, remaining) | publish, change price, withdraw, close by central, close by clock | outbox, bid acceptance |
| Bid acceptance, AD4 (`incoming_bids`, `seller_bid_acceptance`, `seller_bid_policy`, `seller_bid_rejections`) | `MarketBid`, `OfferReservation` | refuse, reserve on ingress, queue, decide a lot | offer row lock, outbox, swap intents |
| Seller swap dispatch (`seller_swap_dispatch`, `wallet_recovery`) | `SwapRecord` claim, lease, token, attempts | claim, inspect, POST, finish | wallet REST |
| Wallet events (`wallet_service`, `seller_bid_accepted`) | `SwapRecord.status`, reservation, remaining, ledger | proposed, settled, rejected, expired, cancelled | inbox, ledger, outbox |
| Sweep (`swap_timeouts`) | the same rows | settle, bury, give up on 404, cancel | wallet REST |
| Buyer (`autonomous_buy`, `buy_bids`, `bid_responses`, `swap_accept`, `swap_tokens`) | `MarketBid` OUTGOING, `SwapRecord` ACCEPTOR | bid, take an answer, accept the swap | market feed, wallet REST |
| City ledger (`ledger`, `cycle_accounting`, `budget_carryover`, `funding`, `trade_events`) | `Cycle` balances, `LedgerEntry`, `ImbalanceSettlement` | apply an effect once, carry the budget over, burn the surplus | every component that moves money |
| Market feed (`market_feed`, `market_book`) | `MarketCycle`, `MarketFeedOffer` | published, updated, withdrawn, closed, gap | inbox |
| Inbox (`routers/internal_messages`, `idempotency`, `message_audit`) | `InboundMessage`, `ProcessedIdpk` | record, claim idpk, apply, roll back | everything |
| Outbox (`routers/message_audit`, `connector/connector.py`) | `OutboundMessage` | claim, publish, report, retry | RabbitMQ |
| Scheduler (`workers/cycle_scheduler`, `cycle_scheduler`) | windows of `Cycle` | one loop that calls the workers above | all workers |
| Strategy, AD6 (`strategy_config`, `operational_rate_limits`) | `StrategyConfig`, rate-limit rows | bind a version to a cycle, spend a token | offer, buyer |
| Reconciliation (`wallet_reconciliation`) | statement entries, divergences | fetch, compare | wallet REST |
| Negotiations of E1 (`negotiation_*`) | `TradeNegotiation` and its messages | propose, confirm, pay, time out | ledger, outbox |
| Reports and read API | none of their own | queries | |

What is hard in it:

* Two bids meet on one offer in two replicas, or in a replica and the worker.
* Transactions decide on rows they read without a lock: the ingest of a wallet
  event reads the swap row plainly (`wallet_service.py:193`), the sweep works on
  rows it loaded before several HTTP calls (`swap_timeouts.py:235`).
* The dispatcher commits a claim, calls the wallet without a lock, and writes
  the result when another worker may have taken its lease.
* The wallet's answers are lost or late, its events are repeated, reordered,
  and race with the answers; workers and replicas die between any two steps.
* The ledger must move once per settlement, whichever path learns of it.

## 2. Plan

| # | Modules | What | State |
|---|---|---|---|
| 1 | `SellerMarket`, `EnergyStock` | the seller side of one cycle, and what it promises | done: section 3 |
| 2 | `CityLedger`, `Totals` | balances, carry-over, transport, burns | done: section 4 |
| 3 | `Strategy` over `CityLedger` | versions of the strategy, bound to cycles | done: section 4 |
| 4 | `Protocol`, `Consumer` | validation, the queue of directed messages, idpk claims, answers | done: section 5 |
| 5 | `Outbox` | rows to publish, quota, retries, deadlines | done: section 5 |
| 6 | `Negotiation` | proposals of E1, confirmations, payments | done but for the reports: section 5 |
| 7 | `MarketFeed` | the remote book under gaps and reordering | done: section 6 |
| 8 | `BuyerSwap` over `MarketFeed` | bids, answers, acceptance, expiry | done: section 6 |
| 9 | pure algorithms | `calculate_offer`, transport prices, choice of offers | open |
| 10 | row and advisory locks | which pairs of transactions may deadlock | open |
| 11 | `SellerDeliveryProofs`, `ConnectorProofs`, `NegotiationProofs`, `BuyerProofs` | every invariant and every action property of the runs, proved | done: 3.5, 4.5, 5.4, 6.4 |

Composition: `BuyerSwap` extends `MarketFeed` (it buys from the book), which
extends `Protocol` (what it lets through), as do `Consumer` and `Outbox`;
`Strategy` extends `CityLedger`; `SellerMarket` is shown to implement
`EnergyStock`. `Consumer`, `Outbox` and `Negotiation` meet in `MCMessaging`.

## 3. The seller side

### 3.1 Modules

* `Energy`: bids, the KWH each asks for, and `Kwh(S)`, the SUM of quantities
  that the code computes in SQL, counted as the size of a set so that it needs
  no recursion and can be proved about.
* `EnergyStock`: the abstract specification. Energy of one offer is held for a
  lot of bids only if it fits beside what is held and sold; it is sold when the
  deal is settled and freed when the deal is dead. It knows nothing of
  messages, workers or time.
* `SellerMarket`: the component. One action per transaction (or per part of a
  transaction between an unlocked read and the write it leads to).
* `MCSellerMarket`: the instances for TLC.
* `SellerMarketProofs` (stock and lots) and `SellerDeliveryProofs` (delivery,
  settlement, replies, the implementation): the proofs.

State and code: `offer`, `initial`, `remaining` are columns of `MarketOffer`;
`bid` is `MarketBid.status` (NEW: not received; REFUSED: answered, not stored);
`res` is `OfferReservation.status`; `swap` is the part of `SwapRecord` that
control depends on; `deadline` is `proposal_expires_at` against the clock;
`ledger` has the SWAP_SETTLED entries by the kind of key they were booked under;
`replies` the bid answers in the outbox; `ingest` the row and event of the one
ingest that holds the city advisory lock; `task` what each worker has in memory,
which `Crash` forgets; `sent`, `cancels`, `wallet`, `events` are the external
wallet.

Actions and code:

* `PublishOffer`, `WithdrawOffer`, `MarketClosed`, `CloseExpiredOffer`:
  `enqueue_seller_offer`, `withdraw_local_offer`, `_apply_market_closed` with
  `close_local_offers`, `close_expired_local_offers`.
* `BidForUnknownOffer`, `BidRefused`, `BidReservedOnIngress`, `BidQueued`:
  the outcomes of `process_incoming_bid`. A bid does not take the advisory lock
  (`routers/internal_messages.py:196`), so these interleave with an ingest.
  `DecideLot`: `process_due_seller_bids`, one transaction under the offer's row
  lock; `Winners` says in one formula what its loop over `_ordered` bids does.
* `Claim`, `Inspect`, `Recover`, `Post`, `Answer`, `Finish`:
  `dispatch_swap_proposals`, cut at its commits and HTTP calls. `Finished` is
  `_finish`.
* `SweepRead`, `SweepSettles`, `SweepBuries`, `SweepNotFound`, `SweepCancels`,
  `SweepLearnsNothing`: `expire_stale_swaps`, row by row.
* `EventRead`, `EventApply`, `IngestAborts`: the ingest of a wallet event.
  `ApplyFact(b, r, seen, ...)` is `process_swap_event`: it decides on `seen`,
  the row as the session loaded it, and writes onto `r`, the row as it stands,
  only the columns that it changed, as the ORM does.

Abstractions: prices and amounts are left out (they are fixed when the bid is
reserved); time elapses at any moment (`Tick`, `DeadlinePasses`,
`LeaseExpires`), so every order of timeouts and answers is included; a retry
delay is a claim that comes later; the two replicas are not named, because the
offer's row lock and the advisory lock already make each of their transactions
one step. The branch of the sweep that expires a proposal that was never sent
needs a deadline without an attempt, and the dispatcher sets both in one
transaction, so it cannot be taken and is not an action. A sweep is cut per row
although it commits once: a crash then loses several rows instead of one, and
each of them is read again.

### 3.2 Properties

* Stock: `StockOK`, `OneReply`, `LotIsMaximal`, `BatchServesMost`.
* Evidence: `ReleaseNeedsEvidence` (nothing is released on a guess),
  `BookedOnce` (the ledger has each transfer once, and only what the wallet settled
  and the stock has committed), `HoldHasLiveSwap`, `SettledIsFinal`.
* Liveness: `HoldResolves`, `SweepResolves`.
* Implementation: `ImplementsEnergyStock`.
* `StockInv`, `EvidenceInv`, `SettlementInv` and `ReplyInv` are the inductive
  invariants of the proofs; `SellerDelivery` checks `EvidenceInv` too, the others
  say what the listed properties need and are proved (3.5).

Every property of a passing run has a mutant in `PROJECT.json`: a plausible
mistake, written beside the definition it replaces, under which TLC finds the
property violated.

### 3.3 Runs

| Run | Instance | Shows |
|---|---|---|
| `SellerDelivery` | 1 bid, 2 workers, 2 attempts | all safety properties under every delivery hazard |
| `SellerStock` | 2 bids (1 and 2 KWH), offers of 2 or 3, 2 workers, constraint `Prompt` | stock and answers under competition |
| `SellerLots` | 4 bids, offers of 3 or 4, three policies, no worker | lots are decided well |
| `SellerEvents` | 1 bid, 2 attempts, fair delivery of events | every HOLD of a swap that the wallet received ends |
| `SellerSweep` | 1 bid, fair scheduler, GET may answer 404 for a live swap | every HOLD with a known swapId ends without events |
| `SellerDocTerminal`, `SellerDoc404`, `SellerDocRejected` | as above | three statements of the documents that the code does not keep |

Bounds: `MaxAttempts` (POSTs per proposal; 2 is enough for a stale worker to
meet a newer claim), `MaxQty`, `OfferSizes`. One bid is enough for delivery,
since swaps of different bids share only the stock, and `SellerStock` is about
that. `Prompt` keeps two bids small by letting each proposal be answered once,
in time: the rest is what `SellerDelivery` explores. Deadlock checking is off:
a market that has closed with everything resolved does stop.

Fairness. `EventSpec`: deadlines pass; the wallet decides what it received; an
ingest ends; and an event is delivered until a delivery commits, which is what
the queue, the connector's nack and the rollback of the idpk give. The workers
may do nothing. `SweepSpec`: a worker does not stop inside a step and its loop
comes round (`workers/cycle_scheduler.py:51`); events may never come. Neither
assumes that the wallet answers a particular call: `Answer` may always be a
lost one.

### 3.4 Findings

1. `SellerDocTerminal`: a late swap-proposed takes a terminal swap back to
   PROPOSED, because `process_swap_event` decides on a row read without a lock.
   The reservation stays released, so no energy is oversold; the record is then
   swept again.
2. `SellerDoc404`: a 404 after a 4xx releases the HOLD, which E2-068 says not
   to do.
3. `SellerDocRejected`: a rejected swap is never followed by bid-rejected,
   which ADR-004 promises.

### 3.5 Proofs

`tlapm` checks every leaf. For every value of the constants:

* `TypeCorrect`: `Spec => []TypeOK`.
* `StockInvariant`, `NeverOversells`. `StockOK` is not inductive: a bid that is
  reserved twice would be counted once, so `StockInv` adds that a bid not yet
  decided holds nothing, and that nothing is offered before the offer exists.
  The heart is `WinnersFit`: the formula `Winners` only bounds each winner by
  those before it; the last one in the policy's order (`LastOfLot`, by
  minimality over the finite set) then bounds the whole lot. The first section
  of `SellerMarketProofs` has the arithmetic of `Kwh` on disjoint sets.
* `LotsWasteNothing`: every bid that a lot refuses would not fit beside its
  winners.
* `EvidenceInvariant`, `NeverReleasesBlindly`, under `VisibilityLag = FALSE`
  (GET does not deny a live swap; without it `SellerDoc404` shows the
  contrary). Old knowledge is safe because the wallet's final states are final:
  any final fact in an event, an ingest or a worker is still true.
* `SellerImplementsStock`, under the same condition: every step maps to a step
  of `EnergyStock` or to none.
* `SettlementInvariant`, `SettlementsAreBookedOnce`, `HoldsAreResolvable`,
  `SettlementIsFinal`, under the same condition. An entry
  of the ledger has one of two keys, according to what its transaction read, so
  `BookedOnce` is not inductive: `SettlementInv` says that the ledger is exactly
  the committed energy, each under the key that repeats find. It holds because
  an ingest keeps the advisory lock between its read and its write: no swap
  settles behind its back, so a row that it read as terminal still holds
  nothing.
* `ReplyInvariant`, `BuyerIsToldOnce`, without that condition: a wrong 404 may
  release energy, but it sends no second answer.
* `BatchIsBest`, under the same condition. The first bid that a lot leaves out,
  in the order of the policy, asks for no more than any other left out and for
  no less than any winner; so a set that serves more bids would have to replace
  winners by bids that are larger, and does not fit (`MoreDoNotFit`).

Only model-checked: `HoldResolves` and `SweepResolves`, liveness properties
(TLAPS has neither fairness rules nor ENABLED here).

## 4. The city ledger and the strategy

### 4.1 Modules

* `Totals`: sums of integers, as sizes of sets of units, without recursion.
* `CityLedger`: the ledger; `MCCityLedger`: its messages for TLC.
* `Strategy`: the ledger with the versions of the strategy (AD6) beside it;
  `MCStrategy`: the instances of both.
* `TotalsProofs` (facts about sums), `CityLedgerProofs`, `StrategyProofs`.

State and code: `city` is the `Cycle` rows, each with its `LedgerEntry` rows in
`entries`; `processed` is `ProcessedIdpk`; `settled` the swaps whose record is
SETTLED; `trades` and `settlements` are `TradeRecord` and `ImbalanceSettlement`;
`now` is the clock that the worker passes on.

Operators on the books and code: `Applied` is `apply_ledger_effect` (`Counted`
its check for a known operation and key, `Booked` the new entry), `Synced` is
`synchronize_budget_carryover`, `Restated` what a status-statement does to the
row. Actions and code:

* `StatusStatement`, `Transfer`, `DemandStatement`: branches of
  `ingest_protocol_message` (`routers/internal_messages.py`).
* `TradeRecorded`, `ImbalanceSettlement`, `FactRepeated`: `trade_events` with
  their effects in `cycle_accounting`.
* `SwapSettles`: `apply_swap_settled`, from an event, a sweep or a dispatcher.
  It may come twice: two transactions can have read the swap before either
  settled it (the seller model is where that race is explored).
* `FinalizeClosedMarkets(K)`: the worker, on those cycles `K` whose row
  `FOR UPDATE SKIP LOCKED` yields.

Each is one step because the transaction takes the city's advisory lock before
it reads the books (`internal_messages.py:197`, `services/cycle_scheduler.py:86`
for the worker, `ledger.py:35` for a swap that is settled by GET).

Abstractions. The carry-over entries of a row, each with a fresh key, are kept
as their sum. The loop of `synchronize_budget_carryover` is written in closed
form: it hands each cycle the balance of the one before, as corrected a round
earlier, which is the sum of what all earlier cycles earned themselves.
`CarryoverExact` states it the way the code does, so the closed form is checked
against it. Sequence numbers are left out: they order the entries and nothing
reads them back but the report. A cycle without a row and the placeholder row
of an early message have the same balances, so one value stands for both. What
a message says is one record, whose `closes` is the closing that results. A
message that the code refuses (schema, conflict, ambiguous deadlines) changes
nothing and gives its idpk back: it is no step.

`Strategy` adds `strategies`, the `StrategyConfig` rows by version, and `bound`,
`Cycle.strategy_version` with the opening it was chosen for.

* `EditStrategy` is `create_pending_strategy`; an edit that names an old version
  or has bad values is refused and changes nothing. `WithInitial` is
  `_ensure_initial_strategy`, which both operations call.
* `IngestBound(m)` is a whole ingest: `Ingest(m)` of the ledger and, in the same
  transaction, `bind_strategy_to_cycle` when `m` is a status-statement.
  `ChosenOf` is its query for the last version made before the market opened,
  `Activated` what it does to the statuses.

The parameters of a version are left out: none changes after its creation.

### 4.2 Properties

* `BalancesRebuild`: what `validate_cycle_consistency` recomputes is what is
  stored, whatever the order of statements and movements.
* `CarryoverExact`: every opened cycle was handed what the one before it has,
  after money has reached any cycle and deadlines have been corrected.
* `EntriesMatchFacts`: the entries of a cycle are exactly the facts about it.
* `SettlementExtinguishes`: a settlement leaves no energy, whichever burns came
  before.
* `ClosedIsBurnt` (liveness): a closed cycle is extinguished at least once.
* `EditsWaitForAnOpening`: no cycle uses a version made after its market opened,
  also when statements come late and out of order; and exactly one version is
  in force, the newest that any cycle uses, which a late statement never takes
  back. (The opening is the one the binding was made for: a later correction of
  it does not bind again.)

### 4.3 Runs

| Run | Instance | Shows |
|---|---|---|
| `Ledger` (`MCStrategy`) | 3 cycles, 11 messages, 2 swaps; two courses: the ledger with all messages, and the statements among edits, up to 3 versions | all of the above |
| `LedgerDocZero` | 1 cycle, 1 statement, 1 swap | finding 4 |

Bounds: three cycles are the least for which a cycle has a predecessor that has
one itself. One statement is corrected with a later deadline, which changes its
place in the chain, and another one shares a deadline until then; a transfer and
a demand share an idpk; a settlement is repeated in a new envelope and another
one follows; two trades contradict each other. Two instants are enough for the
ledger, of which only "closed or not" is asked; the edits have three, so that
one is made before, between and after the openings, and one statement has no
opening, so that the present time stands in for it. The two courses are apart
because edits and movements do not touch each other's state
(`StrategyKeepsLedger`). Deadlock checking is off: when all
messages have been processed the ledger does stop.

Fairness: strong, for each cycle, of a round of the worker in which the row of
the cycle is not locked by someone else. The loop never ends
(`workers/cycle_scheduler.py:58`) and row locks are held for one transaction.
Messages and swaps have no fairness: they may never come.

### 4.4 Finding

4. `LedgerDocZero`: a closed cycle is burnt under one key, once. Energy that a
   late swap-settled brings after that stays, although
   `cycle_accounting.py:221` says that the worker guarantees zero; every round
   counts a burn that is not applied. Only a settlement extinguishes it later.

### 4.5 Proofs

`CityLedgerProofs`, for every finite set of cycles, every set of messages with
integer amounts and every set of swaps with distinct keys (`LedgerAssumption`):

* `LedgerTypeCorrect`, `LedgerConsistent`, `CarryoverCorrect`,
  `EveryFactBooked`. None of the last three is inductive. `LedgerInv` replaces
  `CarryoverExact` by `Carried` (the carry-over is the sum of what earlier
  cycles earned), which `Synced` establishes whatever was there before, adds
  that deadlines of opened cycles differ (`CarriedIsExact` needs it to find the
  predecessor), and that stored facts have the type they came with. The sums
  rest on `TotalExtend`: one more point adds its value. `AppliedKeeps` carries
  all of this through `apply_ledger_effect`, and each action adds what it does
  to the facts.
* `SettlementIsExact`: with `BurnsBacked`, no burn of a settlement has taken the
  key of another, so the burn of a new settlement is never swallowed.

The sums are those of `TotalsProofs`, which `BuyerProofs` uses too.

`StrategyProofs`:

* `StrategyKeepsLedger`: the city with its strategies implements `CityLedger`
  (`StrategySpec => Spec`), so every theorem above holds of it as well.
* `StrategyTypeCorrect`, `EditsWait`, for every number of edits and every
  choice of openings (`StrategyAssumption`). `Leads` says of one version that it
  is in force; `EditKeeps` and `BindKeeps` carry it through an edit and a
  binding, the latter by whether the version chosen is older than the one in
  force or newer.

Only model-checked: `ClosedIsBurnt`, a liveness property.

## 5. Messages

### 5.1 Modules

* `Protocol`: no state. What `connector/protocol/` decides of one message:
  `Verdict` (`validate_message`), `Refusal` (with the checks of identity before
  it), `PlannedAction` and `Plan` (what is answered), `ResponseRoute` (to whom),
  `FeedValid` (`validate_market_feed`), `Destination` (of a row of the outbox).
* `Consumer`: the queue of directed messages, the connector's loop over it
  (`consume_forever`), and the master's handler of each call
  (`message_audit`, `ingest_protocol_message`, `ingest_protocol_error`).
* `Outbox`: `publish_backend_outbox` in the connector, the endpoints of
  `routers/message_audit.py` that it calls, and three writers: the local offer,
  the requests for information, a bid.
* `Negotiation`: the negotiations with the central (`negotiation_*`).
* `MCMessaging`: instances; the three share no variable, so each behaviour
  works one of them.
* `ConnectorProofs` (both directions of the connector) and `NegotiationProofs`:
  the proofs.

`Consumer`. `broker` is what the broker knows of each delivery; `hand` the one
that the connector has and its next step; `calls` the HTTP calls, each a handler
of its own in the master, with the `InboundMessage` row it leaves; `claims` is
`ProcessedIdpk`; `effects` counts committed effects; `answers` the answers with
their outbox row. `Receive` and the step after it (`Audit`, `Process`,
`PassOver`, `Repeat`, `Abort`) are the handler's two commits. A call that the
connector gave up on goes on in the master: `RetryLater` does not end it.
`AnswerFails` is an exception in any of the three calls for an answer, before or
after its effect; `ConnectorStops` a crash or a broken connection.

`Outbox`. `rows` is `OutboundMessage`, `wire` what the broker took, `conn` the
connector's batch, `late` the results that may still be applied, `used` the
places of each quota, with the time that each still counts. A batch is a set of
rows, taken in the order of their numbers (`This` is the least), as the list that
`list_outbound_dispatch` orders by creation. `Poll` is `list_outbound_dispatch` with
`renew_failed_bid_dispatches`; `Reserve` is `reserve_outbound_quota`; `Report`
and `ReportLate` are `mark_outbound_published` and `mark_outbound_failed`.
`ChangeOffer` includes what a confirmed sale enqueues. `AskLooks` and
`AskInserts` are two steps because `record_market_feed_gap` does not take the
advisory lock.

`Negotiation`. `nego` is the `Negotiation` rows with counts of their ledger
entries, `posts` their outbox rows, `said` the central's messages, `heard` and
`taken` what became of them. `SchedulerPass` is one transaction of the worker:
windows, time-outs, retries. `Moved` is `transition_negotiation`.

Abstractions. A message keeps what the decisions tell apart (form, type, who
speaks by the broker and by the JSON, well formed and ill formed fields); of the
effect of a handler `Consumer` knows only that it had one, since each handler's
is in its own module. The time of `Outbox` runs in leases of 15 s.

### 5.2 Properties

* `OneOutcome`: one effect for one idpk, and no claim without an operation in
  the books, however many handlers of the same message run at once.
* `SettledIsAccounted`: nothing leaves the queue without evidence and, where one
  is due, an answer that is known to be published.
* `SpeakersAreAuthentic`: answers go to the authenticated peer; what only the
  central or one city may say has an effect only from that speaker.
* `EveryDeliveryEnds` (liveness): every delivery is acked or dropped.
* `MarketInOrder`: the feed sees the offer and its changes in order.
* `PublishedIsOnWire`: a row marked PUBLISHED did reach the broker.
* `NoneForgotten` (liveness): a row is published, or its time is over.
* `DealsSettledOnce`: a deal moves its energy once and its money once, and the
  sales together stay within what the city can spare.
* `ProposesWhileOpen`: no proposal is left to publish for a deal that is over.
* `NegotiationEnds` (liveness): paid, refused, or timed out for good.
* `ConsumerInv`, `TurnsKept` and `NegotiationInv` are the inductive invariants
  of the proofs (5.4), not properties of the run.

### 5.3 Run

`Messaging` checks them all. `Mails` has every flaw of one message of six types,
and pairs that repeat an operation, contradict it or are independent;
`MaxFaults = 2` lost calls, failures or crashes (each further message takes one
away), enough for a delivery to fail again while it is repeated. `Orders`: an
offer with a change and its withdrawal; two requests at once; a request and a
bid. `Limit = 1` per `Minute = 2` leases makes every second publication wait;
`MaxLosses = 2`. `Books`: a sale, a purchase, another city's proposal, two sales
that fit one by one but not together; `MaxPosts` and `MaxSaid` bound retries and
the central's repetitions. Deadlock checking is off: with nothing left to handle
the queue does stop.

Fairness: weak, of the connector's step, of the handlers, of `Tick` and of the
worker's pass. The loops are infinite (`src/connector/connector.py:480`,
`workers/cycle_scheduler.py:58`), each call is waited for a bounded time, and
faults are bounded, so the liveness properties say what holds once faults end.
Nothing is assumed of the central or of the operator.

Assumed of the central: it refuses only what it has not confirmed, and confirms
what was asked at the settlement price.

### 5.4 Proofs

`ConnectorProofs`, for every set of cities, every queue of messages, every quota
and any number of faults:

* `ConsumerTypeCorrect`, `ConsumerInvariant`, `EffectsHappenOnce`,
  `NothingIsLost`, `NobodyForges`. Evidence about a message is a row that some
  call of its own left, so it matters that a call which has ended is never
  touched again (`Kept`). `ConsumerInv` adds that the delivery in hand, its call
  and its answer belong together, and that the rows of a call and the claim of
  its idpk say the same: a claim comes with the row of the call that made it,
  in one transaction, and goes with it.
* `OutboxTypeCorrect`, `TurnsAreKept`, `FeedIsInOrder`, `PublishedReachedBroker`.
  The order of the feed is not inductive, because a row may wait for its retry
  while the connector has a batch from before. `TurnsKept` says of a row of the
  market that is in the batch or on the wire that all before it are PUBLISHED
  for good; the poll establishes it (`InTurn`), and late results can only mark
  rows that were on the wire.

`NegotiationProofs`, for every set of deals: `NegotiationTypeCorrect`,
`DealsSettleOnce`, `OnlyOpenDealsPropose`, `PurchasesAreFinal`. The induction is
over `NegotiationOK`: for each deal, its state and the counts of its ledger
entries (`Settles`), its state and its latest proposal (`Proposes`), what the
central has said of it; and over all deals, that what was sold and what is still
promised stay within what the city can spare, a sum of `Totals` that a step
changes at one point (`TotalChange`).

Only model-checked: `EveryDeliveryEnds`, `NoneForgotten`, `NegotiationEnds`,
which are liveness properties.

## 6. The feed and the buyer

### 6.1 Modules

* `MarketFeed`: what is published in a cycle, the queue, the connector's
  consumer of it (`consume_market_forever`), and the book (`market_feed`,
  `market_book`).
* `BuyerSwap`: bids (`buy_bids`, `autonomous_buy`), their answers
  (`bid_responses`), the acceptance (`swap_accept`), wallet events
  (`wallet_service`) and the sweep (`swap_timeouts`) on the buyer's side. It
  extends `MarketFeed`: it buys what `Trusted` says.
* `MCBuyer`: instances; `BuyerProofs`: the proofs, over `TotalsProofs`.

`MarketFeed`. `script` is what is published, and an event is its place there;
`line` the queue; `lost` what expired in it since the last recorded gap;
`claims` is `MarketEventClaim`, `book` `MarketFeedOffer`, `market` the closing
and `feed_gap_at` of `MarketCycle`; `known` whether the status-statement has
come. `Persist` is the transaction of `persist_market_feed`; `FeedRefused` and
`FeedAnswerLost` put the message back behind any number of others; `Reconnect`
is `record_market_feed_gap`.

`BuyerSwap`. `bid` and `swap` are `MarketBid` and `SwapRecord`; `booked` the
bids with a SWAP_SETTLED entry; `task` what the one scheduler has in memory;
`ingest` a wallet event and the row as it was read; `posted` and `wallet` are
outside. `TickBuys` is the tick up to the commit of its first bid, `TickGoesOn`
each further one, on the deficit computed before. `Lease`, `Mark`, `Send` and
the outcomes (`Accepted202`, `Retry`, `Refused4xx`, `Overtaken`, `Recover`,
`Skip`) are `_accept_record` cut at its commits and at its POST.
`EventRead`/`EventApply`, `SweepRead`/`SweepSettles`/`SweepBuries` and
`ExpireRead`/`ExpireWrite` are apart because the row is read without a lock.
`Stops` is the end of a task, or a crash, at any point.

Abstractions. Prices are left out, but that the money may allow only a part of
the quantity. Time is nondeterministic. A cancelled swap is one that the wallet
expired early. Messages are lost only while nobody consumes (the queue has a TTL
and drops its head). The clocks of the cities are taken to agree: the code
compares the timestamps of a seller with each other, and with the time of a gap
at this city.

### 6.2 Properties

* `BookIsCurrent`: an offer the city would buy from is as its seller last
  described it, but for what is still in the queue, or was lost before its
  cycle was known, which the code does not notice.
* `PurchaseBooked`: the ledger has a purchase exactly when its record is
  settled, and then the wallet settled it.
* `NeverOverbuys`: the worker's purchases never exceed the deficit.
* `AcceptanceEnds` (liveness): every bid and every acceptance ends.
* `BuyerInv`: what `PurchaseBooked` and `NeverOverbuys` need to be inductive, for the
  buyer. That of the feed, `FeedInv`, is proved (6.4) and not a property of the
  run.

### 6.3 Run

`Buyer` has three courses (`Plans`). In the first nothing is bought and the feed
has all its faults: four scripts, with a forged update, another offer of the
same city, a repetition, a withdrawal and a closing, `MaxFaults = 2`. In the
second bids are made by hand, one at most, with two POSTs and all wallet events,
which is where answers, events, the sweep and restarts race on one record. In
the third the worker covers a deficit of two from two offers, with one POST each
and no wallet event, so that bids end in every way while others are made. Bids
share only the deficit and the offer, which is why the second course needs one
and the third two. Deadlock checking is off: a cycle in which everything has
ended does stop.

Fairness: time passes and swaps lapse; the wallet concludes what was accepted or
has lapsed; a step of the scheduler or of an ingest does not last for ever;
the sweep comes to each stale row (strong: the scheduler does other things in
between), and is not interrupted for ever just when the wallet has the answer,
that is, the wallet and the process stay up long enough once; without that no
retry could succeed. Wallet events may never come.

### 6.4 Proofs

`BuyerProofs`, for all cities, scripts, bids, deficits and bounds:
`BuyerTypeCorrect`, `BuyerInvariant`, `PurchasesAreBooked`,
`DeficitIsNotExceeded`. Neither property is inductive. An ingest or a sweep
writes from a row it read earlier, so `PurchaseBooked` needs `ReadIsCurrent`:
what was read can not have become a purchase since, because booking takes the
advisory lock, and a final fact of the wallet stays true. `NeverOverbuys` needs
that every swap that may settle belongs to a bid that still counts
(`PostedHasRecord`, `RecordIsCounted`), and that those bids together with what a
running tick has still to buy stay within the deficit (`DeficitCovers`).

`FeedInvariant`, `BookStaysCurrent`: `BookIsCurrent` only speaks of offers that
are trusted, and says nothing of a cycle whose statement has not come. `FeedInv`
accounts for every message of a seller, trusted or not: it waits in the queue,
was lost, came before a recorded gap, or is `Noted`, that is, it moved the
snapshot forward or left it in doubt for good. The requeue keeps what waits
(`StillWaits`), a repeated operation is noted by its earlier claim, and a gap
takes every older snapshot out of what is trusted.

Only model-checked: `AcceptanceEnds`, a liveness property.

### 6.5 Limits of the code that the models show

* A swap whose token is refused leaves its bid ACCEPTED, where it counts against
  the deficit, which is then not bought from anyone else.
* A gap of the feed before the status-statement of its cycle is not recorded.
* A statement that comes before an edit, but for a market that opens after it,
  binds the older version: the edit waits for the next statement.

## 7. What is proved and what is checked

The listed theorems hold for every value of the constants under the named
assumptions of each module. Liveness stays with TLC, since the prover has no
rules for fairness and ENABLED. Every other property of a passing run, invariant
or action property, has its theorem. Each inductive invariant held in TLC on the
same instances before it was proved; those that say no more to a reader than the
properties they imply are not kept in the runs' lists. The theorems about delivery, settlement and lots under
`VisibilityLag = FALSE` say so; the rest have no such condition. No definition
is recursive.

## 8. Not modelled

* Wallet reconciliation (`wallet_reconciliation`, `wallet_observability`):
  compares stored statements with the wallet's and records divergences; nothing
  else reads what it writes.
* The reports of negotiations and their dispatch: derived from the ledger, and
  sent through the outbox like other rows.
* The amounts of `calculate_offer`, transport prices and the ranking of offers:
  the models take any amount that the guards admit.
* The rate limit of the wallet's REST calls, balance snapshots, the audit of
  funding: no control of the modelled operations depends on them, but that a
  call may fail.
* Which transactions may deadlock on row locks: PostgreSQL aborts one, and an
  abort at any step is in the models.
* Read-only endpoints, deployment, migrations and QA scripts.
