---------------------------- MODULE SellerMarket ----------------------------
(***************************************************************************)
(* The seller side of one market cycle (AD4): the city's single local      *)
(* offer, the bids that other cities send for it, the HOLD each accepted   *)
(* bid takes on the offer, the swap intent that is proposed to the central *)
(* wallet over HTTP, and the wallet events that settle or kill that swap.  *)
(*                                                                         *)
(* Grain of atomicity.  A step is one PostgreSQL transaction, except where *)
(* a transaction decides on a row it read without a lock:                  *)
(*   - the two API replicas ingest wallet events one at a time, because    *)
(*     every ingest holds the city advisory lock until it commits; but     *)
(*     they read the swap row without FOR UPDATE, so reading (EventRead)   *)
(*     and writing (EventApply) are two steps;                             *)
(*   - the sweep of stale swaps loads its rows, calls the wallet, and then *)
(*     decides on the rows as it loaded them (SweepRead, SweepApply);      *)
(*   - the dispatcher commits its claim before it calls the wallet.        *)
(*                                                                         *)
(* Time is nondeterministic: leases, retry delays and deadlines elapse at  *)
(* any moment.  Prices are left out: an amount is fixed when the bid is    *)
(* reserved and nothing here depends on it.                                *)
(*                                                                         *)
(* Definitions marked "Mutant:" are mistakes of the kind the code could    *)
(* make.  No action uses them: each stands before the definition it would  *)
(* replace, and some property fails when it does.                          *)
(***************************************************************************)
EXTENDS Energy

CONSTANTS
  NoBid,         \* not a bid
  Rank,          \* order of (created_at, idpk) among the bids
  Unfit,         \* bids refused whatever the state: SELF_TRADE, BID_TOO_SMALL
  OfferSizes,    \* quantities the strategy may offer
  Policies,      \* acceptance policies the cycle may be bound to
  Workers,       \* cycle-scheduler processes
  MaxAttempts,   \* bound on the POSTs of one proposal
  VisibilityLag  \* may GET /swaps/{id} answer 404 for a swap that is alive?

ASSUME OrderAssumption ==
  /\ NoBid \notin Bids /\ Unfit \subseteq Bids
  /\ Rank \in [Bids -> Nat]
  /\ \A a, b \in Bids : Rank[a] = Rank[b] => a = b
ASSUME ModelAssumption ==
  /\ OfferSizes \subseteq Nat \ {0}
  /\ Policies \subseteq {"FIFO", "MAX_REMAINING", "BATCH"}
  /\ MaxAttempts \in Nat /\ VisibilityLag \in BOOLEAN

VARIABLES
  clock,         \* 0: offers open, 1: bids open, 2: market settling, 3: closesAt passed
  marketClosed,  \* MarketCycle.closed_at is set
  policy,        \* acceptance policy frozen for the cycle
  offer,         \* MarketOffer.status
  initial,       \* MarketOffer.initial_quantity
  remaining,     \* MarketOffer.remaining_quantity
  bid,           \* MarketBid.status of each bid
  res,           \* OfferReservation.status of each bid
  swap,          \* SwapRecord of each bid
  deadline,      \* proposal_expires_at of each swap: unset, running or passed
  ledger,        \* SWAP_SETTLED entries, as <<bid, kind of key>>
  replies,       \* bid-accepted and bid-rejected messages in the outbox
  ingest,        \* the wallet event being ingested under the advisory lock
  task,          \* what each worker is doing, lost in a crash
  sent,          \* proposals whose POST /swaps left the city
  cancels,       \* swaps whose cancellation was requested
  wallet,        \* the central wallet's state of each swap
  events         \* wallet events published, <<bid, fact>>

market == <<clock, marketClosed, policy>>
stock == <<offer, initial, remaining>>
external == <<sent, cancels, wallet, events>>
vars == <<market, stock, bid, res, swap, deadline, ledger, replies, ingest,
          task, external>>

----------------------------------------------------------------------------
(* Types.                                                                  *)

Terminal == {"SETTLED", "REJECTED", "EXPIRED", "CANCELLED"}
DeadFacts == {"rejected", "expired", "cancelled"}
Facts == {"proposed", "settled"} \cup DeadFacts

\* What a worker can conclude from the answer to POST /swaps: a 202 with or
\* without swapId, the state of a replayed swap, a 4xx, or anything else.
Answers == {"none", "accepted", "acceptedNoId", "recovered", "blocked",
            "retry"} \cup Facts

SwapRecord ==
  [status : {"NONE", "SUBMITTED", "PROPOSED"} \cup Terminal,
   swapId : BOOLEAN, expiresAt : BOOLEAN,
   attempts : 0..MaxAttempts, token : 0..MaxAttempts, lease : BOOLEAN,
   accepted : BOOLEAN, blocked : BOOLEAN]

NoSwap ==
  [status |-> "NONE", swapId |-> FALSE, expiresAt |-> FALSE,
   attempts |-> 0, token |-> 0, lease |-> FALSE,
   accepted |-> FALSE, blocked |-> FALSE]

Idle ==
  [pc |-> "idle", bid |-> NoBid, token |-> 0, answer |-> "none", snap |-> NoSwap]

Work ==
  [pc : {"claimed", "inspected", "posted", "answered", "swept"}, bid : Bids,
   token : 0..MaxAttempts, answer : Answers, snap : SwapRecord]

Task == {Idle} \cup Work

Started(pc, b, token, snap) ==
  [pc |-> pc, bid |-> b, token |-> token, answer |-> "none", snap |-> snap]

NoEvent == [bid |-> NoBid, fact |-> "proposed", snap |-> NoSwap]

Event == {NoEvent} \cup [bid : Bids, fact : Facts, snap : SwapRecord]

TypeOK ==
  /\ clock \in 0..3 /\ marketClosed \in BOOLEAN /\ policy \in Policies
  /\ offer \in {"NONE", "ACTIVE", "WITHDRAWN", "CLOSED"}
  /\ initial \in Nat /\ remaining \in Nat
  /\ bid \in [Bids -> {"NEW", "REFUSED", "PENDING", "RESERVED", "ACCEPTED",
                       "REJECTED", "EXPIRED"}]
  /\ res \in [Bids -> {"NONE", "HOLD", "COMMITTED", "RELEASED"}]
  /\ swap \in [Bids -> SwapRecord]
  /\ deadline \in [Bids -> {"unset", "running", "passed"}]
  /\ ledger \subseteq Bids \X {"swapId", "idpk"}
  /\ replies \subseteq Bids \X {"accepted", "rejected"}
  /\ ingest \in Event
  /\ task \in [Workers -> Task]
  /\ \A w \in Workers : task[w].pc = "inspected" => task[w].answer \in Facts
  /\ sent \subseteq Bids /\ cancels \subseteq Bids
  /\ wallet \in [Bids -> {"none", "pending"} \cup Facts]
  /\ events \subseteq Bids \X Facts

Init ==
  /\ clock = 0 /\ marketClosed = FALSE /\ policy \in Policies
  /\ offer = "NONE" /\ initial = 0 /\ remaining = 0
  /\ bid = [b \in Bids |-> "NEW"]
  /\ res = [b \in Bids |-> "NONE"]
  /\ swap = [b \in Bids |-> NoSwap]
  /\ deadline = [b \in Bids |-> "unset"]
  /\ ledger = {} /\ replies = {}
  /\ ingest = NoEvent /\ task = [w \in Workers |-> Idle]
  /\ sent = {} /\ cancels = {}
  /\ wallet = [b \in Bids |-> "none"] /\ events = {}

----------------------------------------------------------------------------
(* The stock of the offer.                                                 *)

Held == {b \in Bids : res[b] = "HOLD"}
Committed == {b \in Bids : res[b] = "COMMITTED"}

Less(a, b) == IF a > b THEN a - b ELSE 0
\* Mutant: what is held is not subtracted.
AvailableWithHolds == remaining

Available == Less(remaining, Kwh(Held))

----------------------------------------------------------------------------
(* The local offer.                                                        *)

CanBroadcast == clock = 0 /\ ~marketClosed

\* Mutant: a second offer of the cycle overwrites the first.
RepublishOffer ==
  /\ CanBroadcast
  /\ \E q \in OfferSizes : initial' = q /\ remaining' = q
  /\ offer' = "ACTIVE"
  /\ UNCHANGED <<market, bid, res, swap, deadline, ledger, replies, ingest,
                 task, external>>

\* One offer per cycle, only while offers are open.
PublishOffer ==
  /\ offer = "NONE" /\ CanBroadcast
  /\ \E q \in OfferSizes : initial' = q /\ remaining' = q
  /\ offer' = "ACTIVE"
  /\ UNCHANGED <<market, bid, res, swap, deadline, ledger, replies, ingest,
                 task, external>>

\* Mutant: the withdrawn offer is forgotten.
ForgetOffer ==
  /\ offer = "ACTIVE" /\ CanBroadcast
  /\ offer' = "NONE"
  /\ UNCHANGED <<market, initial, remaining, bid, res, swap, deadline, ledger,
                 replies, ingest, task, external>>

\* Withdrawing leaves reservations and swaps in course alone.
WithdrawOffer ==
  /\ offer = "ACTIVE" /\ CanBroadcast
  /\ offer' = "WITHDRAWN"
  /\ UNCHANGED <<market, initial, remaining, bid, res, swap, deadline, ledger,
                 replies, ingest, task, external>>

\* Central announces market-closed, before or after closesAt.
MarketClosed ==
  /\ ~marketClosed
  /\ marketClosed' = TRUE
  /\ offer' = IF offer = "ACTIVE" THEN "CLOSED" ELSE offer
  /\ UNCHANGED <<clock, policy, initial, remaining, bid, res, swap, deadline,
                 ledger, replies, ingest, task, external>>

\* The worker's fallback when market-closed is late or lost.
CloseExpiredOffer ==
  /\ clock = 3 /\ offer = "ACTIVE"
  /\ offer' = "CLOSED"
  /\ UNCHANGED <<market, initial, remaining, bid, res, swap, deadline, ledger,
                 replies, ingest, task, external>>

----------------------------------------------------------------------------
(* Bids.  Deciding a bid locks the offer row first, so it is one step.     *)

BidWindowOpen == clock <= 1 /\ ~marketClosed

Acceptable(b) ==
  /\ BidWindowOpen /\ offer = "ACTIVE"
  /\ b \notin Unfit /\ Qty[b] <= Available

\* The bids of W are reserved and those of L refused, in one transaction.
Decide(W, L) ==
  /\ bid' = [b \in Bids |-> IF b \in W THEN "RESERVED"
                            ELSE IF b \in L THEN "REJECTED" ELSE bid[b]]
  /\ res' = [b \in Bids |-> IF b \in W THEN "HOLD" ELSE res[b]]
  /\ swap' = [b \in Bids |-> IF b \in W
                             THEN [NoSwap EXCEPT !.status = "SUBMITTED"]
                             ELSE swap[b]]
  /\ replies' = replies \cup (L \X {"rejected"})
  /\ UNCHANGED <<market, stock, deadline, ledger, ingest, task, external>>

\* A bid for an offer the city does not have is answered but not stored.
BidForUnknownOffer(b) ==
  /\ bid[b] = "NEW" /\ offer = "NONE"
  /\ bid' = [bid EXCEPT ![b] = "REFUSED"]
  /\ replies' = replies \cup {<<b, "rejected">>}
  /\ UNCHANGED <<market, stock, res, swap, deadline, ledger, ingest, task,
                 external>>

BidRefused(b) ==
  /\ bid[b] = "NEW" /\ offer # "NONE" /\ ~Acceptable(b)
  /\ Decide({}, {b})

BidReservedOnIngress(b) ==
  /\ bid[b] = "NEW" /\ Acceptable(b) /\ policy = "FIFO"
  /\ Decide({b}, {})

BidQueued(b) ==
  /\ bid[b] = "NEW" /\ Acceptable(b) /\ policy # "FIFO"
  /\ bid' = [bid EXCEPT ![b] = "PENDING"]
  /\ UNCHANGED <<market, stock, res, swap, deadline, ledger, replies, ingest,
                 task, external>>

\* Mutant: BATCH decides the large bids first.
LargestBefore(c, b) ==
  \/ policy # "FIFO" /\ Qty[c] > Qty[b]
  \/ (policy = "FIFO" \/ Qty[c] = Qty[b]) /\ Rank[c] < Rank[b]

\* Order in which a lot of pending bids is decided.
Before(c, b) ==
  \/ policy = "MAX_REMAINING" /\ Qty[c] > Qty[b]
  \/ policy = "BATCH" /\ Qty[c] < Qty[b]
  \/ (policy = "FIFO" \/ Qty[c] = Qty[b]) /\ Rank[c] < Rank[b]

Pending == {b \in Bids : bid[b] = "PENDING"}

\* Mutant: each bid is compared with the whole stock.
EachFits(W) ==
  \A b \in Pending :
    b \in W <=> BidWindowOpen /\ offer = "ACTIVE" /\ Qty[b] <= Available

\* Mutant: the last KWH is never given.
KeepsOneUnit(W) ==
  \A b \in Pending :
    b \in W <=> /\ BidWindowOpen /\ offer = "ACTIVE"
                /\ Qty[b] + Kwh({c \in W : Before(c, b)}) < Available

\* W are the winners of the lot: each fits in what the winners before it left.
Winners(W) ==
  \A b \in Pending :
    b \in W <=> /\ BidWindowOpen /\ offer = "ACTIVE"
                /\ Qty[b] + Kwh({c \in W : Before(c, b)}) <= Available

\* Mutant: the winners are answered with the losers.
RefuseWholeLot ==
  /\ Pending # {}
  /\ \E W \in SUBSET Pending : Winners(W) /\ Decide(W, Pending)

DecideLot ==
  /\ Pending # {}
  /\ \E W \in SUBSET Pending : Winners(W) /\ Decide(W, Pending \ W)

----------------------------------------------------------------------------
(* What a transaction writes when it learns a wallet fact about a swap.    *)
(* seen is the row as the transaction loaded it, r the row as it stands:   *)
(* decisions are taken on seen, and only columns that differ from seen are *)
(* written.                                                                *)

\* Mutant: a status that no reader of the row knows.
MisspelledStatusOf == [proposed |-> "PROPOSED", settled |-> "SETTLED",
                       rejected |-> "REJECTED", expired |-> "EXPIRED",
                       cancelled |-> "CANCELED"]

StatusOf == [proposed |-> "PROPOSED", settled |-> "SETTLED",
             rejected |-> "REJECTED", expired |-> "EXPIRED",
             cancelled |-> "CANCELLED"]

Live(r) == r.status \notin Terminal

Learned(r, seen, fact, dated) ==
  IF Live(seen)
  THEN [r EXCEPT !.status = IF seen.status = StatusOf[fact] THEN @
                            ELSE StatusOf[fact],
                 !.swapId = TRUE, !.expiresAt = @ \/ dated]
  ELSE [r EXCEPT !.status = IF fact = "settled" THEN "SETTLED" ELSE @]

\* Mutant: the key ignores the swapId that the transaction has just learned.
KeyBeforeLearning(seen) == IF seen.swapId THEN "swapId" ELSE "idpk"

\* The ledger entry of a settlement is keyed by swapId, by idpk without one.
LedgerKey(seen) == IF Live(seen) \/ seen.swapId THEN "swapId" ELSE "idpk"

\* The reservation is read under lock, so it is never stale.
ApplyFact(b, r, seen, fact, dated) ==
  LET held == Live(seen) /\ res[b] = "HOLD"
      commit == held /\ fact = "settled"
      release == held /\ fact \in DeadFacts
  IN /\ swap' = [swap EXCEPT ![b] = Learned(r, seen, fact, dated)]
     /\ ledger' = IF fact = "settled" /\ seen.status # "SETTLED"
                  THEN ledger \cup {<<b, LedgerKey(seen)>>} ELSE ledger
     /\ res' = [res EXCEPT ![b] = IF commit THEN "COMMITTED"
                                  ELSE IF release THEN "RELEASED" ELSE @]
     /\ remaining' = IF commit THEN Less(remaining, Qty[b]) ELSE remaining

\* Mutant: the ledger is written without the advisory lock.
NoLedgerLock(seen, fact) == TRUE

\* Writing the ledger takes the city advisory lock, which the ingest of a
\* wallet event holds until it commits.
LedgerLockFree(seen, fact) ==
  fact = "settled" /\ seen.status # "SETTLED" => ingest = NoEvent

\* Mutant: what was read converges the swap record only.
ObserveRecord(b, r, fact) ==
  /\ swap' = [swap EXCEPT ![b] = IF r.swapId /\ Live(r)
                                 THEN Learned(r, r, fact, FALSE) ELSE r]
  /\ UNCHANGED <<ledger, res, remaining>>

\* A state read from the wallet converges a live record with a known swapId.
Observe(b, r, fact) ==
  IF r.swapId /\ Live(r)
  THEN LedgerLockFree(r, fact) /\ ApplyFact(b, r, r, fact, FALSE)
  ELSE /\ swap' = [swap EXCEPT ![b] = r]
       /\ UNCHANGED <<ledger, res, remaining>>

----------------------------------------------------------------------------
(* Dispatch of the proposal: claim, maybe inspect, POST, finish.           *)

Goes(w, t) == task' = [task EXCEPT ![w] = t]

Claimable(b) ==
  /\ swap[b].status = "SUBMITTED" /\ bid[b] = "RESERVED" /\ res[b] = "HOLD"
  /\ ~swap[b].accepted /\ ~swap[b].blocked /\ ~swap[b].lease
  /\ deadline[b] # "passed" /\ swap[b].attempts < MaxAttempts

\* The deadline is frozen at the first claim; each claim has a new token.
Claim(w, b) ==
  /\ task[w] = Idle /\ Claimable(b)
  /\ LET n == swap[b].attempts + 1
     IN /\ swap' = [swap EXCEPT ![b].attempts = n, ![b].token = n,
                                ![b].lease = TRUE]
        /\ Goes(w, Started("claimed", b, n, NoSwap))
  /\ deadline' = [deadline EXCEPT ![b] = "running"]
  /\ UNCHANGED <<market, stock, bid, res, ledger, replies, ingest, external>>

\* GET before repeating the POST of an earlier attempt whose swapId is known.
Inspect(w) ==
  LET b == task[w].bid
  IN /\ task[w].pc = "claimed" /\ task[w].token > 1
     /\ swap[b].swapId /\ wallet[b] \in Facts
     /\ Goes(w, [task[w] EXCEPT !.pc = "inspected", !.answer = wallet[b]])
     /\ UNCHANGED <<market, stock, bid, res, swap, deadline, ledger, replies,
                    ingest, external>>

\* _finish: ignored when another worker has taken the claim since.
Confirmed == {"accepted", "acceptedNoId"} \cup Facts

Finished(r, token, out) ==
  IF r.token # token THEN r
  ELSE IF r.status # "SUBMITTED"
  THEN [r EXCEPT !.token = 0, !.lease = FALSE,
                 !.accepted = @ \/ out \in Confirmed]
  ELSE [r EXCEPT !.token = 0, !.lease = FALSE,
                 !.swapId = @ \/ out \in Confirmed \ {"acceptedNoId"},
                 !.accepted = @ \/ out \in Confirmed,
                 !.blocked = (@ \/ out = "blocked") /\ out \notin Confirmed]

\* What the inspection found replaces the POST, if the claim still stands.
Recover(w) ==
  LET t == task[w]
  IN /\ t.pc = "inspected" /\ swap[t.bid].token = t.token
     /\ Observe(t.bid, Finished(swap[t.bid], t.token, "recovered"), t.answer)
     /\ Goes(w, Idle)
     /\ UNCHANGED <<market, offer, initial, bid, deadline, replies, ingest,
                    external>>

Post(w) ==
  LET t == task[w]
  IN /\ \/ t.pc = "claimed"
        \/ t.pc = "inspected" /\ swap[t.bid].token # t.token
     /\ Goes(w, [t EXCEPT !.pc = "posted", !.answer = "none"])
     /\ sent' = sent \cup {t.bid}
     /\ UNCHANGED <<market, stock, bid, res, swap, deadline, ledger, replies,
                    ingest, cancels, wallet, events>>

\* The answer may be lost, or a 4xx, whatever the wallet did.
PossibleAnswers(b) ==
  {"retry", "blocked"}
    \cup (IF wallet[b] = "none" THEN {} ELSE {"accepted", "acceptedNoId"})
    \cup ({wallet[b]} \cap Facts)

Answer(w) ==
  /\ task[w].pc = "posted"
  /\ \E a \in PossibleAnswers(task[w].bid) :
       Goes(w, [task[w] EXCEPT !.pc = "answered", !.answer = a])
  /\ UNCHANGED <<market, stock, bid, res, swap, deadline, ledger, replies,
                 ingest, external>>

\* A 200 replays the swap's state, applied in the same transaction.
Finish(w) ==
  LET t == task[w]
      r == Finished(swap[t.bid], t.token, t.answer)
  IN /\ t.pc = "answered"
     /\ IF t.answer \in Facts
        THEN Observe(t.bid, r, t.answer)
        ELSE /\ swap' = [swap EXCEPT ![t.bid] = r]
             /\ UNCHANGED <<ledger, res, remaining>>
     /\ Goes(w, Idle)
     /\ UNCHANGED <<market, offer, initial, bid, deadline, replies, ingest,
                    external>>

\* A worker stops at any point; what it had not committed is lost.
Crash(w) ==
  /\ task[w] # Idle
  /\ Goes(w, Idle)
  /\ UNCHANGED <<market, stock, bid, res, swap, deadline, ledger, replies,
                 ingest, external>>

----------------------------------------------------------------------------
(* Sweep of stale swaps.  A record without swapId is left for an event.    *)

\* Mutant: only proposed swaps are swept.
StaleProposed(b) ==
  /\ swap[b].status = "PROPOSED" /\ swap[b].swapId
  /\ swap[b].blocked \/ deadline[b] = "passed"

Stale(b) ==
  /\ swap[b].status \in {"SUBMITTED", "PROPOSED"} /\ swap[b].swapId
  /\ swap[b].blocked \/ deadline[b] = "passed"

SweepRead(w, b) ==
  /\ task[w] = Idle /\ Stale(b)
  /\ Goes(w, Started("swept", b, 0, swap[b]))
  /\ UNCHANGED <<market, stock, bid, res, swap, deadline, ledger, replies,
                 ingest, external>>

SetBidExpired(b) ==
  bid' = [bid EXCEPT ![b] = IF @ = "REJECTED" THEN @ ELSE "EXPIRED"]

SweepSettles(w) ==
  LET t == task[w]
  IN /\ t.pc = "swept" /\ wallet[t.bid] = "settled"
     /\ LedgerLockFree(t.snap, "settled")
     /\ ApplyFact(t.bid, swap[t.bid], t.snap, "settled", FALSE)
     /\ Goes(w, Idle)
     /\ UNCHANGED <<market, offer, initial, bid, deadline, replies, ingest,
                    external>>

SweepBuries(w) ==
  LET t == task[w]
  IN /\ t.pc = "swept" /\ wallet[t.bid] \in DeadFacts
     /\ ApplyFact(t.bid, swap[t.bid], t.snap, wallet[t.bid], FALSE)
     /\ SetBidExpired(t.bid)
     /\ Goes(w, Idle)
     /\ UNCHANGED <<market, offer, initial, deadline, replies, ingest,
                    external>>

\* Mutant: an unusable answer counts as a 404.
SweepGivesUp(w) ==
  LET t == task[w]
  IN /\ t.pc = "swept" /\ t.snap.blocked
     /\ ApplyFact(t.bid, swap[t.bid], t.snap, "expired", FALSE)
     /\ SetBidExpired(t.bid)
     /\ Goes(w, Idle)
     /\ UNCHANGED <<market, offer, initial, deadline, replies, ingest,
                    external>>

\* GET answered 404 for a swap whose POST had been answered with a 4xx.
SweepNotFound(w) ==
  LET t == task[w]
  IN /\ t.pc = "swept" /\ VisibilityLag /\ t.snap.blocked
     /\ ApplyFact(t.bid, swap[t.bid], t.snap, "expired", FALSE)
     /\ SetBidExpired(t.bid)
     /\ Goes(w, Idle)
     /\ UNCHANGED <<market, offer, initial, deadline, replies, ingest,
                    external>>

\* Mutant: a proposal past its deadline expires without asking the wallet.
SweepExpires(w) ==
  LET t == task[w]
  IN /\ t.pc = "swept" /\ deadline[t.bid] = "passed"
     /\ ApplyFact(t.bid, swap[t.bid], t.snap, "expired", FALSE)
     /\ SetBidExpired(t.bid)
     /\ Goes(w, Idle)
     /\ UNCHANGED <<market, offer, initial, deadline, replies, ingest,
                    external>>

SweepCancels(w) ==
  LET t == task[w]
  IN /\ t.pc = "swept" /\ wallet[t.bid] = "proposed"
     /\ t.snap.expiresAt /\ deadline[t.bid] = "passed"
     /\ cancels' = cancels \cup {t.bid}
     /\ Goes(w, Idle)
     /\ UNCHANGED <<market, stock, bid, res, swap, deadline, ledger, replies,
                    ingest, sent, wallet, events>>

\* An unusable answer, or a swap the wallet still works on.
SweepLearnsNothing(w) ==
  /\ task[w].pc = "swept"
  /\ Goes(w, Idle)
  /\ UNCHANGED <<market, stock, bid, res, swap, deadline, ledger, replies,
                 ingest, external>>

----------------------------------------------------------------------------
(* Ingest of wallet events.  An event may be delivered again at any time   *)
(* and events may overtake one another.                                    *)

\* Mutant: a final event that overtakes swap-proposed is dropped.
EventReadInOrder(b, fact) ==
  /\ ingest = NoEvent /\ <<b, fact>> \in events
  /\ fact = "proposed" \/ swap[b].status = "PROPOSED"
  /\ ingest' = [bid |-> b, fact |-> fact, snap |-> swap[b]]
  /\ UNCHANGED <<market, stock, bid, res, swap, deadline, ledger, replies,
                 task, external>>

EventRead(b, fact) ==
  /\ ingest = NoEvent /\ <<b, fact>> \in events
  /\ ingest' = [bid |-> b, fact |-> fact, snap |-> swap[b]]
  /\ UNCHANGED <<market, stock, bid, res, swap, deadline, ledger, replies,
                 task, external>>

\* The buyer is answered when the proposal is on record, unexpired, held for
\* a reserved bid, and not answered yet.
AnswersBid(e) ==
  /\ e.fact = "proposed"
  /\ Learned(swap[e.bid], e.snap, e.fact, TRUE).status = "PROPOSED"
  /\ Live(e.snap) /\ deadline[e.bid] = "running"
  /\ bid[e.bid] = "RESERVED" /\ res[e.bid] = "HOLD"
  /\ <<e.bid, "accepted">> \notin replies

EventApply ==
  LET e == ingest
      b == e.bid
  IN /\ e # NoEvent
     /\ ApplyFact(b, swap[b], e.snap, e.fact, e.fact = "proposed")
     /\ IF AnswersBid(e)
        THEN /\ replies' = replies \cup {<<b, "accepted">>}
             /\ bid' = [bid EXCEPT ![b] = "ACCEPTED"]
        ELSE UNCHANGED <<replies, bid>>
     /\ ingest' = NoEvent
     /\ UNCHANGED <<market, offer, initial, deadline, task, external>>

\* The replica dies or its transaction is rolled back; the message returns.
IngestAborts ==
  /\ ingest # NoEvent
  /\ ingest' = NoEvent
  /\ UNCHANGED <<market, stock, bid, res, swap, deadline, ledger, replies,
                 task, external>>

----------------------------------------------------------------------------
(* Time.                                                                   *)

Tick ==
  /\ clock < 3 /\ clock' = clock + 1
  /\ UNCHANGED <<marketClosed, policy, stock, bid, res, swap, deadline, ledger,
                 replies, ingest, task, external>>

DeadlinePasses(b) ==
  /\ deadline[b] = "running"
  /\ deadline' = [deadline EXCEPT ![b] = "passed"]
  /\ UNCHANGED <<market, stock, bid, res, swap, ledger, replies, ingest, task,
                 external>>

LeaseExpires(b) ==
  /\ swap[b].lease
  /\ swap' = [swap EXCEPT ![b].lease = FALSE]
  /\ UNCHANGED <<market, stock, bid, res, deadline, ledger, replies, ingest,
                 task, external>>

----------------------------------------------------------------------------
(* The central wallet (external).                                          *)

WalletReceives(b) ==
  /\ b \in sent /\ wallet[b] = "none"
  /\ wallet' = [wallet EXCEPT ![b] = "pending"]
  /\ UNCHANGED <<market, stock, bid, res, swap, deadline, ledger, replies,
                 ingest, task, sent, cancels, events>>

WalletMoves(b) ==
  \E fact \in Facts :
    /\ \/ wallet[b] = "pending" /\ fact \in {"proposed", "rejected"}
       \/ wallet[b] = "proposed" /\ fact \in {"settled", "rejected"}
       \/ wallet[b] = "proposed" /\ fact = "expired" /\ deadline[b] = "passed"
       \/ wallet[b] = "proposed" /\ fact = "cancelled" /\ b \in cancels
    /\ wallet' = [wallet EXCEPT ![b] = fact]
    /\ events' = events \cup {<<b, fact>>}
    /\ UNCHANGED <<market, stock, bid, res, swap, deadline, ledger, replies,
                   ingest, task, sent, cancels>>

----------------------------------------------------------------------------

OfferStep == PublishOffer \/ WithdrawOffer \/ MarketClosed \/ CloseExpiredOffer

BidStep ==
  \/ DecideLot
  \/ \E b \in Bids : \/ BidForUnknownOffer(b) \/ BidRefused(b)
                     \/ BidReservedOnIngress(b) \/ BidQueued(b)

DispatchStep(w) ==
  \/ \E b \in Bids : Claim(w, b)
  \/ Inspect(w) \/ Recover(w) \/ Post(w) \/ Answer(w) \/ Finish(w)

SweepApply(w) ==
  \/ SweepSettles(w) \/ SweepBuries(w) \/ SweepNotFound(w)
  \/ SweepCancels(w) \/ SweepLearnsNothing(w)

WorkerStep(w) ==
  DispatchStep(w) \/ SweepApply(w) \/ Crash(w)
    \/ \E b \in Bids : SweepRead(w, b)

IngestStep ==
  EventApply \/ IngestAborts \/ \E b \in Bids, f \in Facts : EventRead(b, f)

TimeStep == Tick \/ \E b \in Bids : DeadlinePasses(b) \/ LeaseExpires(b)

WalletStep == \E b \in Bids : WalletReceives(b) \/ WalletMoves(b)

Next ==
  \/ OfferStep \/ BidStep \/ IngestStep \/ TimeStep \/ WalletStep
  \/ \E w \in Workers : WorkerStep(w)

Spec == Init /\ [][Next]_vars

\* Deadlines pass, and the wallet decides what it received.
WalletFairness ==
  \A b \in Bids : WF_vars(DeadlinePasses(b)) /\ WF_vars(WalletMoves(b))

\* A transaction ends, and the wallet event that concludes a swap, not being
\* acknowledged, is delivered again until a delivery commits.  Nothing is asked
\* of the workers.
FinalFacts == Facts \ {"proposed"}
Redelivered(b) == \E fact \in FinalFacts : EventRead(b, fact)
Delivered(b) == ingest.bid = b /\ ingest.fact \in FinalFacts /\ EventApply

EventFairness ==
  /\ WF_vars(EventApply \/ IngestAborts)
  /\ \A b \in Bids : SF_vars(Redelivered(b)) /\ SF_vars(Delivered(b))

EventSpec == Spec /\ WalletFairness /\ EventFairness

\* The scheduler's loop never stalls in one step, and its sweep, which comes
\* round at every tick, is not always interrupted.  Nothing is asked of events.
Busy(w) == task[w] # Idle /\ WorkerStep(w)

SweepFairness ==
  \A w \in Workers :
    /\ WF_vars(Busy(w)) /\ SF_vars(SweepSettles(w)) /\ SF_vars(SweepBuries(w))
    /\ \A b \in Bids : SF_vars(SweepRead(w, b))

SweepSpec == Spec /\ WalletFairness /\ SweepFairness

----------------------------------------------------------------------------
(* Safety.                                                                 *)

\* No overselling: what is left plus what was sold is what was offered, and
\* what is held fits in what is left, whatever the order in which concurrent
\* bids, settlements and releases reach the offer row
\* (seller_bid_acceptance.reserve_incoming_bid, _update_offer_and_reservation).
StockOK ==
  /\ remaining + Kwh(Committed) = initial
  /\ Kwh(Held) <= remaining

\* What keeps StockOK: nothing is offered before the offer exists, and only a
\* bid that has not been decided yet can be reserved, so a reservation is made
\* once (INCONSISTENT_BID_RESERVATION in reserve_incoming_bid never happens).
StockInv ==
  /\ StockOK
  /\ offer = "NONE" => initial = 0
  /\ \A b \in Bids : bid[b] \in {"NEW", "PENDING"} => res[b] = "NONE"

\* A reservation is released only when the wallet has buried the swap: a
\* timeout, a 4xx or an elapsed deadline is no evidence
\* (swap_timeouts.expire_stale_swaps, seller_swap_dispatch._finish).
ReleaseNeedsEvidence ==
  \A b \in Bids : res[b] = "RELEASED" => wallet[b] \in DeadFacts

\* What keeps ReleaseNeedsEvidence: final facts that travel in events, in the
\* ingest or in a worker's memory are true, however old they are, and the
\* wallet only knows swaps of reserved bids.
EvidenceInv ==
  /\ \A e \in events : e[2] = "proposed" \/ wallet[e[1]] = e[2]
  /\ ingest # NoEvent /\ ingest.fact # "proposed" => wallet[ingest.bid] = ingest.fact
  /\ \A w \in Workers :
       /\ task[w].answer \in Facts \ {"proposed"}
            => wallet[task[w].bid] = task[w].answer
       /\ task[w].pc \in {"claimed", "inspected"} => res[task[w].bid] # "NONE"
  /\ \A b \in Bids :
       /\ res[b] = "RELEASED" => wallet[b] \in DeadFacts
       /\ res[b] = "COMMITTED" => wallet[b] = "settled"
       /\ b \in sent \/ wallet[b] # "none" => res[b] # "NONE"

\* However many workers, events and replays report a settlement, the ledger
\* has one entry for it, and energy is committed exactly with that entry
\* (wallet_service.process_swap_event, cycle_accounting.apply_swap_settled).
BookedOnce ==
  \A b \in Bids :
    LET entries == {e \in ledger : e[1] = b}
    IN /\ Cardinality(entries) <= 1
       /\ res[b] = "COMMITTED" => entries # {}
       /\ entries # {} => wallet[b] = "settled" /\ res[b] = "COMMITTED"

\* A HOLD never outlives the swap record that should resolve it: whichever
\* path ends the swap also ends the reservation, in the same transaction.
HoldHasLiveSwap ==
  \A b \in Bids : res[b] = "HOLD" => swap[b].status \in {"SUBMITTED", "PROPOSED"}

\* What a status of SwapRecord says of the wallet.
Buried == {"REJECTED", "EXPIRED", "CANCELLED"}
Told(status, b) ==
  /\ status = "SETTLED" => wallet[b] = "settled"
  /\ status \in Buried => wallet[b] \in DeadFacts

\* What keeps the two above: the ledger is the energy committed, each entry
\* under the key that repeats find; a terminal row, as it stands or as the
\* ingest read it, tells the truth and holds nothing; while an ingest is open
\* no swap settles behind its back; and the sweep only decides on live rows.
SettlementInv ==
  /\ ledger = Committed \X {"swapId"}
  /\ \A b \in Bids : Told(swap[b].status, b)
  /\ HoldHasLiveSwap
  /\ ingest # NoEvent =>
       /\ Told(ingest.snap.status, ingest.bid)
       /\ ~Live(ingest.snap) => res[ingest.bid] # "HOLD"
       /\ swap[ingest.bid].status = "SETTLED" => ingest.snap.status = "SETTLED"
  /\ \A w \in Workers : task[w].pc = "swept" => Live(task[w].snap)

\* The buyer is told one thing, and told bid-accepted only for a swap that the
\* wallet proposed (seller_bid_accepted.enqueue_bid_accepted_after_swap_proposed).
OneReply ==
  \A b \in Bids :
    /\ ~({<<b, "accepted">>, <<b, "rejected">>} \subseteq replies)
    /\ <<b, "accepted">> \in replies =>
         /\ wallet[b] \in Facts /\ res[b] # "NONE"
         /\ bid[b] \in {"ACCEPTED", "EXPIRED"}

\* What keeps OneReply: a bid that was refused is decided and never reserved,
\* and an event means that the wallet has the swap.
ReplyInv ==
  /\ \A r \in replies :
       IF r[2] = "rejected"
       THEN bid[r[1]] \notin {"NEW", "PENDING"} /\ res[r[1]] = "NONE"
       ELSE /\ bid[r[1]] \in {"ACCEPTED", "EXPIRED"} /\ res[r[1]] # "NONE"
            /\ wallet[r[1]] \in Facts
  /\ \A e \in events : wallet[e[1]] \in Facts
  /\ ingest # NoEvent => wallet[ingest.bid] \in Facts

----------------------------------------------------------------------------
(* Steps.                                                                  *)

\* A sweep or a dispatcher deciding on a row it read before an ingest
\* committed never takes a settled swap back: the advisory lock orders every
\* settlement against the ingest of wallet events.
SettledIsFinal ==
  [][\A b \in Bids : swap[b].status = "SETTLED" => swap'[b].status = "SETTLED"]_vars

\* Lots waste nothing: while the market takes bids, a pending bid is refused
\* only if it does not fit in what the reserved ones leave
\* (seller_bid_policy.process_due_seller_bids).
LotIsMaximal ==
  [][\A b \in Bids :
       bid[b] = "PENDING" /\ bid'[b] = "REJECTED" /\ BidWindowOpen
         /\ offer = "ACTIVE" => Qty[b] > Available']_vars

\* BATCH decides the small bids first to serve more buyers: no other choice
\* among the pending bids that fits would serve more of them
\* (seller_bid_policy.py:8).
BatchServesMost ==
  [][policy = "BATCH" /\ BidWindowOpen /\ offer = "ACTIVE"
       /\ Pending # {} /\ Pending' = {} =>
         \A S \in SUBSET Pending : Kwh(S) <= Available =>
           Cardinality(S)
             <= Cardinality({b \in Pending : bid'[b] = "RESERVED"})]_vars

----------------------------------------------------------------------------
(* Liveness.                                                               *)

\* A swap that the wallet received does not hold energy for ever, although
\* answers are lost, workers crash and events are repeated or reordered.
HoldResolves ==
  \A b \in Bids : wallet[b] # "none" ~> res[b] # "HOLD"

\* If no wallet event arrives any more, the sweep alone resolves every HOLD
\* whose swapId the city learned (swap_timeouts.expire_stale_swaps).
SweepResolves ==
  <>[](ingest = NoEvent) =>
    \A b \in Bids : swap[b].swapId ~> res[b] # "HOLD"

----------------------------------------------------------------------------
(* Statements of the repository's documents that the code does not keep.   *)

\* docs/adr/ADR-005-consistencia-ledger-wallet.md:110 lists the terminal
\* states as states that must not go back.
TerminalIsFinal ==
  [][\A b \in Bids : swap[b].status \in Terminal =>
       \/ swap'[b].status = swap[b].status
       \/ swap'[b].status = "SETTLED"]_vars

\* docs/adr/ADR-004-serializacion-aceptacion-bids.md:71: when the wallet
\* rejects the swap, the reservation is released and bid-rejected is sent.
RejectedSwapIsAnswered ==
  \A b \in Bids :
    (wallet[b] = "rejected" /\ bid[b] = "RESERVED") ~> <<b, "rejected">> \in replies

----------------------------------------------------------------------------
(* The seller keeps the promise of EnergyStock.                            *)

Fate == [NONE |-> "none", HOLD |-> "held", COMMITTED |-> "sold",
         RELEASED |-> "freed"]

Deal(b) == IF wallet[b] = "settled" THEN "settled"
           ELSE IF wallet[b] \in DeadFacts THEN "dead" ELSE "open"

Stock == INSTANCE EnergyStock
           WITH size <- initial,
                fate <- [b \in Bids |-> Fate[res[b]]],
                deal <- [b \in Bids |-> Deal(b)]

\* With every race between ingress, lots, dispatchers, sweeps, wallet events
\* and crashes, what happens to the energy is what EnergyStock allows.
ImplementsEnergyStock == Stock!StockSpec
=============================================================================
