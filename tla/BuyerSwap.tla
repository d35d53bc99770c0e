------------------------------ MODULE BuyerSwap ------------------------------
(***************************************************************************)
(* The buyer side of a cycle: the bids that the city sends for the offers  *)
(* of its book, by hand or to cover its deficit, their answers, and the    *)
(* acceptance of the swap that the seller then proposed to the wallet.     *)
(*                                                                         *)
(* Grain of atomicity.  A step is one PostgreSQL transaction with the HTTP *)
(* call that precedes it.  Bids, their answers and the ingest of wallet    *)
(* events hold the city's advisory lock, one at a time; an ingest reads    *)
(* the swap row without locking it, so it reads and writes in two steps,   *)
(* and so does the sweep.  One scheduler process does the rest, one thing  *)
(* at a time, and may die at any point.                                    *)
(*                                                                         *)
(* Time is nondeterministic.  Prices are left out, but that money may not  *)
(* suffice for the whole of a quantity.  A cancelled swap is one that the  *)
(* wallet expired before its time.  The seller's swapIds are its own.      *)
(***************************************************************************)
EXTENDS MarketFeed, Totals

CONSTANTS
  Bids,    \* MarketBid ids
  MinBid,  \* market.minBid of the status-statement
  Plans    \* what happens in a cycle: [deficit, manual, tries, heard], with the
           \* bids made by hand, the POSTs of an acceptance (both bounds), and
           \* which wallet events reach the city

WalletFacts == {"proposed", "settled", "rejected", "expired"}

ASSUME BuyerAssumption ==
  /\ Bids \subseteq Nat /\ IsFiniteSet(Bids) /\ MinBid \in Nat \ {0}
  /\ Plans \subseteq [deficit: Nat, manual: Nat, tries: Nat, heard: SUBSET WalletFacts]

VARIABLES
  plan,    \* which plan the cycle follows
  clock,   \* 0: bids are taken, 1: lastBidAt passed, 2: and the grace with it
  bid,     \* MarketBid rows, OUTGOING
  swap,    \* SwapRecord of each bid, role ACCEPTOR
  lapsed,  \* swaps whose expiresAt has passed
  booked,  \* bids with a SWAP_SETTLED entry in the ledger
  ingest,  \* the wallet event being ingested, and the row as it was read
  task,    \* what the scheduler is doing
  posted,  \* acceptances on their way to the wallet
  wallet   \* the wallet's state of each swap

buyerVars == <<plan, clock, bid, swap, lapsed, booked, ingest, task, posted, wallet>>

-----------------------------------------------------------------------------
(* Types.                                                                  *)

Final == {"SETTLED", "REJECTED", "EXPIRED"}
Waiting == {"SUBMITTED", "PROPOSED", "ACCEPT_SUBMITTED"}
Buried == {"rejected", "expired"}

\* SwapRecord.status that a fact of the wallet leads to.
StatusOf == [proposed |-> "PROPOSED", settled |-> "SETTLED",
             rejected |-> "REJECTED", expired |-> "EXPIRED"]

Bid == [status: {"NONE", "PENDING", "ACCEPTED", "REJECTED", "EXPIRED"},
        offer: OfferIds, qty: Nat, auto: BOOLEAN]
NoBid == [status |-> "NONE", offer |-> "none", qty |-> 0, auto |-> FALSE]

\* tries: accept_attempts;  error: accept_error is set;  lease: accept_retry_at
\* is in the future.
Swap == [status: {"NONE"} \cup Waiting \cup Final, tries: Nat, error: BOOLEAN, lease: BOOLEAN]
NoSwap == [status |-> "NONE", tries |-> 0, error |-> FALSE, lease |-> FALSE]

\* A task names its bids; "late" and "read" are what the scheduler found when
\* it began, "left" is the deficit that a buying tick still has to cover.
Working(pc, b) == [pc |-> pc, bids |-> {b}, late |-> FALSE, read |-> "NONE", left |-> 0]
Idle == [pc |-> "idle", bids |-> {}, late |-> FALSE, read |-> "NONE", left |-> 0]
Task == [pc: {"idle", "buying", "leased", "sending", "sent", "swept", "expiring"},
         bids: SUBSET Bids, late: BOOLEAN, read: {"NONE"} \cup Waiting, left: Int]

NoEvent == [bids |-> {}, fact |-> "proposed", read |-> "NONE"]
Event == [bids: SUBSET Bids, fact: WalletFacts, read: {"NONE"} \cup Waiting \cup Final]

\* Types of the buyer's state and of the feed's.
BuyerTypeOK ==
  /\ FeedTypeOK
  /\ plan \in Plans /\ clock \in 0..2
  /\ bid \in [Bids -> Bid] /\ swap \in [Bids -> Swap]
  /\ lapsed \subseteq Bids /\ booked \subseteq Bids /\ posted \subseteq Bids
  /\ ingest \in Event /\ task \in Task
  /\ wallet \in [Bids -> {"none", "accepted"} \cup WalletFacts]

BuyerInit ==
  /\ plan \in Plans /\ clock = 0
  /\ bid = [b \in Bids |-> NoBid] /\ swap = [b \in Bids |-> NoSwap]
  /\ lapsed = {} /\ booked = {} /\ posted = {}
  /\ ingest = NoEvent /\ task = Idle /\ wallet = [b \in Bids |-> "none"]

-----------------------------------------------------------------------------
(* Bids.                                                                   *)

In(states) == {b \in Bids : bid[b].status \in states}
Kwh(S) == Total([b \in S |-> bid[b].qty])

\* Mutant: a bid that was answered no longer counts.
Unanswered == In({"PENDING"})

\* ACTIVE_BID_STATUSES of a bid of this city.
Active == In({"PENDING", "ACCEPTED"})
Asked(offer) == {b \in Active : bid[b].offer = offer}

\* get_buy_candidates, when the bid is enqueued.
Candidates == {c \in Cities \ {Self} : clock = 0 /\ Trusted(c) /\ book[c].left >= MinBid}

Unused(b) == bid[b] = NoBid /\ \A a \in Bids : a < b => bid[a] # NoBid

\* enqueue_buy_bid: the row and its message, when what the city asked for of
\* the offer fits in it.
Enqueue(b, c, qty, auto) ==
  /\ Unused(b) /\ ingest = NoEvent
  /\ qty >= MinBid /\ Kwh(Asked(book[c].offer)) + qty <= book[c].left
  /\ bid' = [bid EXCEPT ![b] = [status |-> "PENDING", offer |-> book[c].offer,
                                qty |-> qty, auto |-> auto]]

Manual == {b \in Bids : bid[b] # NoBid /\ ~bid[b].auto}

BidByHand(b) ==
  /\ Cardinality(Manual) < plan.manual
  /\ \E c \in Candidates : \E qty \in MinBid..book[c].left : Enqueue(b, c, qty, FALSE)
  /\ UNCHANGED <<plan, clock, swap, lapsed, booked, ingest, task, posted, wallet>>

\* One candidate of a tick whose offer has no active bid of the tick's list,
\* for what is left of the deficit or for what the money allows.
BuyFor(b, left, known_) ==
  \E c \in Candidates, qty \in MinBid..left :
    /\ \A a \in known_ : bid[a].offer # book[c].offer
    /\ Enqueue(b, c, qty, TRUE)
    /\ task' = [Idle EXCEPT !.pc = "buying", !.bids = known_ \cup {b}, !.left = left - qty]

\* autonomous_buy_tick: the lock is held from the list of active bids to the
\* commit of the first new one.  Nothing is bought while an answer is pending.
TickBuys(b) ==
  /\ task = Idle /\ In({"PENDING"}) = {}
  /\ BuyFor(b, plan.deficit - Kwh(Active), Active)
  /\ UNCHANGED <<plan, clock, swap, lapsed, booked, ingest, posted, wallet>>

\* And goes on with the others, on what it computed.
TickGoesOn(b) ==
  /\ task.pc = "buying"
  /\ BuyFor(b, task.left, task.bids)
  /\ UNCHANGED <<plan, clock, swap, lapsed, booked, ingest, posted, wallet>>

\* The end of the tick, a crash, or any other end of what was being done.
Stops == /\ task # Idle /\ task' = Idle
         /\ UNCHANGED <<plan, clock, bid, swap, lapsed, booked, ingest, posted, wallet>>

-----------------------------------------------------------------------------
(* Answers to bids.                                                        *)

Answered(b, status) ==
  /\ ingest = NoEvent /\ bid[b].status = "PENDING"
  /\ bid' = [bid EXCEPT ![b].status = status]
  /\ UNCHANGED <<plan, clock, swap, lapsed, booked, ingest, task, posted, wallet>>

\* process_bid_reply.  A seller proposes the swap before it says so.
BidAccepted(b) == wallet[b] # "none" /\ Answered(b, "ACCEPTED")
BidRejected(b) == wallet[b] = "none" /\ Answered(b, "REJECTED")

-----------------------------------------------------------------------------
(* The wallet (external), and time.                                        *)

\* The seller received the bid, which may have expired here by now.
SellerProposes(b) ==
  /\ bid[b].status \in {"PENDING", "EXPIRED"} /\ wallet[b] = "none"
  /\ wallet' = [wallet EXCEPT ![b] = "proposed"]
  /\ UNCHANGED <<plan, clock, bid, swap, lapsed, booked, ingest, task, posted>>

WalletAccepts(b) ==
  /\ b \in posted /\ wallet[b] = "proposed"
  /\ wallet' = [wallet EXCEPT ![b] = "accepted"]
  /\ UNCHANGED <<plan, clock, bid, swap, lapsed, booked, ingest, task, posted>>

\* An accepted swap settles, unless somebody cannot pay; one that is not
\* accepted expires, or is cancelled before.
WalletConcludes(b) ==
  /\ \/ wallet[b] = "accepted" /\ \E f \in {"settled", "rejected"} : wallet' = [wallet EXCEPT ![b] = f]
     \/ wallet[b] = "proposed" /\ wallet' = [wallet EXCEPT ![b] = "expired"]
  /\ UNCHANGED <<plan, clock, bid, swap, lapsed, booked, ingest, task, posted>>

Lapses(b) ==
  /\ wallet[b] # "none" /\ b \notin lapsed
  /\ lapsed' = lapsed \cup {b}
  /\ UNCHANGED <<plan, clock, bid, swap, booked, ingest, task, posted, wallet>>

LeaseEnds(b) ==
  /\ swap[b].lease
  /\ swap' = [swap EXCEPT ![b].lease = FALSE]
  /\ UNCHANGED <<plan, clock, bid, lapsed, booked, ingest, task, posted, wallet>>

Tick ==
  /\ clock < 2 /\ clock' = clock + 1
  /\ UNCHANGED <<plan, bid, swap, lapsed, booked, ingest, task, posted, wallet>>

-----------------------------------------------------------------------------
(* Acceptance of the swaps (accept_pending_swaps).                         *)

\* An ACCEPTED bid becomes an intent once its swapToken is verified.  While
\* the keys of the wallet cannot be had, it waits.
NewRecord(b) ==
  /\ task = Idle /\ bid[b].status = "ACCEPTED" /\ swap[b] = NoSwap /\ b \notin lapsed
  /\ swap' = [swap EXCEPT ![b].status = "SUBMITTED"]
  /\ UNCHANGED <<plan, clock, bid, lapsed, booked, ingest, task, posted, wallet>>

\* A token that is invalid, or has expired, never reaches the wallet.
RejectedRecord(b) ==
  /\ task = Idle /\ bid[b].status = "ACCEPTED" /\ swap[b] = NoSwap
  /\ swap' = [swap EXCEPT ![b].status = "REJECTED", ![b].error = TRUE]
  /\ UNCHANGED <<plan, clock, bid, lapsed, booked, ingest, task, posted, wallet>>

\* _accept_work.  "now" is that of the scan, which may have begun before.
Lease(b) ==
  /\ task = Idle /\ ~swap[b].lease /\ swap[b].tries < plan.tries
  /\ \/ swap[b].status = "SUBMITTED"
     \/ swap[b].status = "ACCEPT_SUBMITTED" /\ swap[b].error
  /\ swap' = [swap EXCEPT ![b].lease = TRUE]
  /\ \E late \in BOOLEAN : /\ late => b \in lapsed
                           /\ task' = [Working("leased", b) EXCEPT !.late = late]
  /\ UNCHANGED <<plan, clock, bid, lapsed, booked, ingest, posted, wallet>>

Closed(b) == /\ task' = Idle
             /\ UNCHANGED <<plan, clock, bid, lapsed, ingest, wallet>>

Released(r) == [r EXCEPT !.lease = FALSE]

\* The row, read again under its lock, is final: an event came first.
Overtaken(b) ==
  /\ task.pc \in {"leased", "sent"} /\ b \in task.bids /\ swap[b].status \in Final
  /\ swap' = [swap EXCEPT ![b] = Released(@)]
  /\ Closed(b) /\ UNCHANGED <<booked, posted>>

\* What a GET /swaps/{id} that shows the acceptance, or the end, makes of it.
Recovered(r, state) ==
  IF state = "accepted"
  THEN [Released(r) EXCEPT !.status = "ACCEPT_SUBMITTED", !.error = FALSE]
  ELSE [Released(r) EXCEPT !.status = StatusOf[state]]

\* inspect_known_swap before another POST, or after one that was refused.
\* Booking takes the advisory lock.
Recover(b) ==
  /\ b \in task.bids /\ swap[b].status \notin Final
  /\ task.pc = "leased" => swap[b].tries > 0
  /\ task.pc \in {"leased", "sent"}
  /\ wallet[b] \in {"accepted", "settled"} \cup Buried
  /\ wallet[b] = "settled" => ingest = NoEvent
  /\ swap' = [swap EXCEPT ![b] = Recovered(@, wallet[b])]
  /\ booked' = IF wallet[b] = "settled" THEN booked \cup {b} ELSE booked
  /\ Closed(b) /\ UNCHANGED posted

Submitted(r) == r.status = "ACCEPT_SUBMITTED" /\ ~r.error

\* Too late for this token, or its 202 came meanwhile.
Skip(b) ==
  /\ task.pc = "leased" /\ b \in task.bids /\ swap[b].status \notin Final
  /\ task.late \/ Submitted(swap[b])
  /\ swap' = [swap EXCEPT ![b] = Released(@)]
  /\ Closed(b) /\ UNCHANGED <<booked, posted>>

\* The sentinel WALLET_IN_FLIGHT is committed before the POST.
Mark(b) ==
  /\ task.pc = "leased" /\ b \in task.bids /\ swap[b].status \notin Final
  /\ ~task.late /\ ~Submitted(swap[b])
  /\ swap' = [swap EXCEPT ![b].status = "ACCEPT_SUBMITTED", ![b].error = TRUE,
                          ![b].tries = @ + 1]
  /\ task' = [task EXCEPT !.pc = "sending"]
  /\ UNCHANGED <<plan, clock, bid, lapsed, booked, ingest, posted, wallet>>

Send(b) ==
  /\ task.pc = "sending" /\ b \in task.bids
  /\ posted' = posted \cup {b}
  /\ task' = [task EXCEPT !.pc = "sent"]
  /\ UNCHANGED <<plan, clock, bid, swap, lapsed, booked, ingest, wallet>>

\* Mutant: the answer is recorded over whatever came meanwhile.
AcceptedBlindly(b) ==
  /\ task.pc = "sent" /\ b \in task.bids
  /\ swap' = [swap EXCEPT ![b].status = "ACCEPT_SUBMITTED", ![b].error = FALSE,
                          ![b].lease = FALSE]
  /\ Closed(b) /\ UNCHANGED <<booked, posted>>

\* A 202 says that the wallet received it, not that it is settled.
Accepted202(b) ==
  /\ task.pc = "sent" /\ b \in task.bids /\ swap[b].status \notin Final
  /\ swap' = [swap EXCEPT ![b].status = "ACCEPT_SUBMITTED", ![b].error = FALSE,
                          ![b].lease = FALSE]
  /\ Closed(b) /\ UNCHANGED <<booked, posted>>

\* Timeout, 429, 5xx, or a success that is no 202: again later, same key.
Retry(b) ==
  /\ task.pc = "sent" /\ b \in task.bids /\ swap[b].status \notin Final
  /\ swap' = [swap EXCEPT ![b].error = TRUE, ![b].lease = TRUE]
  /\ Closed(b) /\ UNCHANGED <<booked, posted>>

\* Any other 4xx, when GET shows no acceptance.  That POST had no effect; an
\* earlier one, whose answer was lost, may have it.
Refused4xx(b) ==
  /\ task.pc = "sent" /\ b \in task.bids /\ swap[b].status \notin Final
  /\ swap[b].tries > 1 \/ wallet[b] \notin {"accepted", "settled"}
  /\ swap' = [swap EXCEPT ![b].status = "REJECTED", ![b].error = TRUE, ![b].lease = FALSE]
  /\ posted' = IF swap[b].tries > 1 THEN posted ELSE posted \ {b}
  /\ Closed(b) /\ UNCHANGED booked

AcceptStep(b) ==
  \/ NewRecord(b) \/ RejectedRecord(b) \/ Lease(b) \/ Overtaken(b) \/ Recover(b) \/ Skip(b)
  \/ Mark(b) \/ Send(b) \/ Accepted202(b) \/ Retry(b) \/ Refused4xx(b)

-----------------------------------------------------------------------------
(* Wallet events, in any order and any number of times.  One that comes    *)
(* before the record has no effect.                                        *)

EventRead(b, fact) ==
  /\ ingest = NoEvent /\ fact \in plan.heard /\ swap[b].status # "NONE"
  /\ \/ fact = wallet[b]
     \/ fact = "proposed" /\ wallet[b] # "none"
  /\ ingest' = [bids |-> {b}, fact |-> fact, read |-> swap[b].status]
  /\ UNCHANGED <<plan, clock, bid, swap, lapsed, booked, task, posted, wallet>>

\* Mutant: a settlement that comes after a rejection is ignored.
FinalStands(read, fact) == IF read \in Final THEN read ELSE StatusOf[fact]

\* process_swap_event: only a settlement changes a final status.
Learned(read, fact) ==
  IF read \in Final THEN IF fact = "settled" THEN "SETTLED" ELSE read ELSE StatusOf[fact]

\* The column is written if it differs from what was read.
EventApply ==
  /\ ingest # NoEvent
  /\ \E b \in ingest.bids :
       LET new == Learned(ingest.read, ingest.fact)
       IN /\ swap' = [swap EXCEPT ![b].status = IF new = ingest.read THEN @ ELSE new]
          /\ booked' = IF ingest.fact = "settled" THEN booked \cup {b} ELSE booked
  /\ ingest' = NoEvent
  /\ UNCHANGED <<plan, clock, bid, lapsed, task, posted, wallet>>

\* The replica dies, or its transaction is rolled back; the message returns.
IngestAborts ==
  /\ ingest # NoEvent /\ ingest' = NoEvent
  /\ UNCHANGED <<plan, clock, bid, swap, lapsed, booked, task, posted, wallet>>

-----------------------------------------------------------------------------
(* The sweep (expire_stale_swaps).                                         *)

\* Mutant: only what has an answer to wait for is swept.
StaleSubmitted(b) == b \in lapsed /\ swap[b].status \in {"SUBMITTED", "ACCEPT_SUBMITTED"}

\* Mutant: a record that ended is swept again.
StaleAny(b) == b \in lapsed /\ swap[b].status # "NONE"

StaleRecord(b) == b \in lapsed /\ swap[b].status \in Waiting

SweepRead(b) ==
  /\ task = Idle /\ StaleRecord(b)
  /\ task' = [Working("swept", b) EXCEPT !.read = swap[b].status]
  /\ UNCHANGED <<plan, clock, bid, swap, lapsed, booked, ingest, posted, wallet>>

\* Mutant: a purchase is booked while an event is being ingested.
SettlesUnlocked(b) ==
  /\ task.pc = "swept" /\ b \in task.bids /\ wallet[b] = "settled"
  /\ swap' = [swap EXCEPT ![b].status = Learned(task.read, "settled")]
  /\ booked' = booked \cup {b}
  /\ Closed(b) /\ UNCHANGED posted

\* It decides on the row as it was read: not final.
SweepSettles(b) ==
  /\ task.pc = "swept" /\ b \in task.bids /\ wallet[b] = "settled" /\ ingest = NoEvent
  /\ swap' = [swap EXCEPT ![b].status = Learned(task.read, "settled")]
  /\ booked' = booked \cup {b}
  /\ Closed(b) /\ UNCHANGED posted

SetBidExpired(b) ==
  bid' = [bid EXCEPT ![b].status = IF @ \in {"EXPIRED", "REJECTED"} THEN @ ELSE "EXPIRED"]

\* A swap that the wallet still works on is asked to be cancelled, and an
\* unclear answer changes nothing (Stops).
SweepBuries(b) ==
  /\ task.pc = "swept" /\ b \in task.bids /\ wallet[b] \in Buried
  /\ swap' = [swap EXCEPT ![b].status = Learned(task.read, wallet[b])]
  /\ SetBidExpired(b)
  /\ task' = Idle
  /\ UNCHANGED <<plan, clock, lapsed, booked, ingest, posted, wallet>>

\* Bids whose acceptance came to nothing, and bids that nobody answered.  The
\* row is not locked: an answer may come between reading and writing.
StaleBid(b) ==
  \/ bid[b].status = "ACCEPTED" /\ swap[b] = NoSwap /\ b \in lapsed
  \/ bid[b].status = "PENDING" /\ clock = 2

ExpireRead(b) ==
  /\ task = Idle /\ StaleBid(b)
  /\ task' = Working("expiring", b)
  /\ UNCHANGED <<plan, clock, bid, swap, lapsed, booked, ingest, posted, wallet>>

ExpireWrite(b) ==
  /\ task.pc = "expiring" /\ b \in task.bids
  /\ bid' = [bid EXCEPT ![b].status = "EXPIRED"]
  /\ task' = Idle
  /\ UNCHANGED <<plan, clock, swap, lapsed, booked, ingest, posted, wallet>>

SweepLooks(b) == SweepRead(b) \/ ExpireRead(b)
SweepEnds(b) == SweepSettles(b) \/ SweepBuries(b) \/ ExpireWrite(b)

-----------------------------------------------------------------------------

TradeStep(b) == BidByHand(b) \/ TickBuys(b) \/ TickGoesOn(b) \/ BidAccepted(b) \/ BidRejected(b)

WalletStep(b) == SellerProposes(b) \/ WalletAccepts(b) \/ WalletConcludes(b)

BuyerNext ==
  \/ \E b \in Bids : \/ TradeStep(b) \/ AcceptStep(b) \/ SweepLooks(b) \/ SweepEnds(b)
                     \/ WalletStep(b) \/ Lapses(b) \/ LeaseEnds(b)
                     \/ \E fact \in WalletFacts : EventRead(b, fact)
  \/ EventApply \/ IngestAborts \/ Stops \/ Tick

Concluding(b) == (b \in lapsed \/ wallet[b] = "accepted") /\ WalletConcludes(b)

\* The scheduler dies, or is left without an answer of the wallet, on a swap
\* that has ended.
Interrupts ==
  Stops /\ task.pc = "swept" /\ \E b \in task.bids : wallet[b] \in {"settled"} \cup Buried

\* Time passes; the wallet concludes what was accepted or has lapsed; no step
\* of the scheduler or of an ingest lasts for ever; the sweep, which waits for
\* the advisory lock, is not interrupted for ever.
BuyerFairness ==
  /\ WF_buyerVars(Tick) /\ WF_buyerVars(Stops) /\ WF_buyerVars(EventApply \/ IngestAborts)
  /\ \A b \in Bids : /\ WF_buyerVars(Lapses(b)) /\ WF_buyerVars(Concluding(b))
                     /\ SF_buyerVars(SweepLooks(b)) /\ SF_buyerVars(SweepEnds(b))
  /\ <>[][~Interrupts]_buyerVars

\* The buyer beside the feed that informs it.
MarketNext == \/ BuyerNext /\ UNCHANGED feedVars
              \/ FeedNext /\ UNCHANGED buyerVars

BuyerSpec ==
  /\ FeedInit /\ BuyerInit
  /\ [][MarketNext]_<<feedVars, buyerVars>>
  /\ BuyerFairness

-----------------------------------------------------------------------------
(* Properties.                                                             *)

\* However answers, events, the sweep and a restart race, the ledger has a
\* purchase exactly when its record says SETTLED, and then the wallet settled
\* it; a record says EXPIRED only of a swap that the wallet buried
\* (swap_accept._accept_record, wallet_service.process_swap_event).
PurchaseBooked ==
  \A b \in Bids :
    /\ b \in booked <=> swap[b].status = "SETTLED"
    /\ b \in booked => wallet[b] = "settled"
    /\ swap[b].status = "EXPIRED" => wallet[b] = "expired"

\* The city never buys for more than its deficit, although bids expire, are
\* refused, die in the wallet or are repeated while others are made: a bid
\* only makes room for another once its swap can no longer settle
\* (autonomous_buy.autonomous_buy_tick, swap_timeouts.expire_stale_swaps).
NeverOverbuys ==
  Kwh({b \in Bids : bid[b].auto /\ wallet[b] = "settled"}) <= plan.deficit

\* What an ingest or a sweep has read can not have become a purchase since,
\* because both book under the advisory lock, and the final facts of the
\* wallet stay true (wallet_service.process_swap_event).
ReadIsCurrent ==
  /\ \A b \in ingest.bids : /\ ingest.read # "NONE" /\ swap[b].status # "NONE"
                            /\ ingest.read = "SETTLED" <=> b \in booked
                            /\ ingest.fact # "proposed" => wallet[b] = ingest.fact
  /\ task.pc = "swept" => task.read \in Waiting

\* An acceptance is only posted for a record.
PostedHasRecord ==
  /\ \A b \in Bids :
       (b \in posted \/ wallet[b] \in {"accepted", "settled"}) => swap[b].status # "NONE"
  /\ task.pc \in {"leased", "sending", "sent", "swept"} =>
       \A b \in task.bids : swap[b].status # "NONE"

\* The bid of a record counts until the wallet buries its swap.
RecordIsCounted ==
  /\ \A b \in Bids : swap[b].status # "NONE" =>
       \/ bid[b].status = "ACCEPTED"
       \/ bid[b].status = "EXPIRED" /\ wallet[b] \in Buried
  /\ task.pc = "expiring" => \A b \in task.bids : swap[b].status = "NONE"

AutoActive == {b \in Active : bid[b].auto}
DeficitCovers ==
  /\ Kwh(AutoActive) <= plan.deficit
  /\ task.pc = "buying" => Kwh(AutoActive) + task.left <= plan.deficit

\* What makes the two invariants inductive: what was read is still true where
\* it matters, and every swap that may settle belongs to a bid that counts
\* (swap_accept._accept_record, swap_timeouts._set_bid_expired).
BuyerInv ==
  PurchaseBooked /\ ReadIsCurrent /\ PostedHasRecord /\ RecordIsCounted /\ DeficitCovers

\* Nothing stays open, even if no wallet event arrives any more: every bid is
\* answered or expires, and every acceptance, also one that swap-proposed took
\* back to PROPOSED, where nobody retries it, reaches a final state
\* (swap_timeouts._stale_records, _stale_accepted_bids, _stale_pending_bids).
Open(b) == \/ bid[b].status = "PENDING"
           \/ bid[b].status = "ACCEPTED" /\ swap[b] = NoSwap
           \/ swap[b].status \in Waiting
AcceptanceEnds == \A b \in Bids : Open(b) ~> ~Open(b)
=============================================================================
