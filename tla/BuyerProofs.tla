----------------------------- MODULE BuyerProofs -----------------------------
(***************************************************************************)
(* What the buyer keeps for every set of cities and bids, every script of  *)
(* the feed and every plan of a cycle: purchases are booked exactly when   *)
(* the wallet settled them, and never exceed the deficit; and the book     *)
(* that the city buys from is current, whatever the feed went through.     *)
(***************************************************************************)
EXTENDS BuyerSwap, TotalsProofs, SequenceTheorems

-----------------------------------------------------------------------------
(* Types of the feed.                                                      *)

\* An element of a sequence.
LEMMA ElementType ==
  ASSUME NEW T, NEW q \in Seq(T), NEW i \in 1..Len(q)
  PROVE  q[i] \in T
OBVIOUS

\* The queue holds what was published, in whatever order it is put back.
LEMMA QueueType ==
  ASSUME NEW S, NEW q \in Seq(S), q # <<>>
  PROVE  /\ Head(q) \in S /\ Tail(q) \in Seq(S)
         /\ \A n \in 0..Len(q) - 1 :
              SubSeq(q, 2, n + 1) \o <<Head(q)>> \o SubSeq(q, n + 2, Len(q)) \in Seq(S)
<1>1. Len(q) \in Nat /\ Len(q) > 0 /\ Head(q) \in S /\ Tail(q) \in Seq(S)
  OBVIOUS
<1>2. \A i \in 1..Len(q) : q[i] \in S
  OBVIOUS
<1>3. ASSUME NEW n \in 0..Len(q) - 1
      PROVE  SubSeq(q, 2, n + 1) \in Seq(S) /\ SubSeq(q, n + 2, Len(q)) \in Seq(S)
  BY <1>1, <1>2
<1>4. <<Head(q)>> \in Seq(S)
  BY <1>1
<1>. QED
  BY <1>1, <1>3, <1>4

\* A snapshot stays one, whatever message is applied to it.
LEMMA SnapshotType ==
  ASSUME FeedTypeOK, NEW s \in Snapshot, NEW e \in Published
  PROVE  OfferApplied(s, e) \in Snapshot
<1>1. e \in Nat /\ script[e].offer \in OfferIds /\ script[e].left \in Nat
  <2>1. script \in Seq([mail: Mail, offer: STRING, left: Nat]) /\ said \in 0..Len(script)
    BY FeedAssumption DEF FeedTypeOK
  <2>2. e \in 1..Len(script)
    BY <2>1 DEF Published
  <2>3. script[e] \in [mail: Mail, offer: STRING, left: Nat]
    BY <2>1, <2>2, ElementType
  <2>4. e \in DOMAIN script
    BY <2>1, <2>2
  <2>5. script[e].offer \in OfferIds
    BY <2>4 DEF FeedTypeOK, OfferIds
  <2>. QED
    BY <2>3, <2>5 DEF Published
<1>2. Doubted(s) \in Snapshot
  BY DEF Doubted, Snapshot
<1>3. First(e) \in Snapshot
  BY <1>1 DEF First, Snapshot
<1>4. Based(s, e) \in Snapshot
  BY <1>2 DEF Based, Doubted, Snapshot
<1>5. ASSUME NEW t \in {"WITHDRAWN", s.state}
      PROVE  [s EXCEPT !.left = script[e].left, !.last = e, !.state = t] \in Snapshot
  BY <1>1 DEF Snapshot
<1>. QED
  BY <1>2, <1>3, <1>4, <1>5 DEF OfferApplied

\* What a message does keeps the types of the book.
LEMMA PersistType ==
  ASSUME FeedTypeOK, NEW e \in Published, Persist(e)
  PROVE  /\ claims' \subseteq Published
         /\ book' \in [Cities -> Snapshot]
         /\ market' \in [closed: BOOLEAN, gapAt: 0..said]
<1>1. claims' \subseteq Published
  BY DEF Persist, FeedTypeOK
<1>2. BookClosed \in [Cities -> Snapshot]
  <2>1. ASSUME NEW s \in Snapshot PROVE [s EXCEPT !.state = "CLOSED"] \in Snapshot
    BY DEF Snapshot
  <2>. QED
    BY <2>1 DEF BookClosed, FeedTypeOK
<1>3. [book EXCEPT ![Seller(e)] = OfferApplied(@, e)] \in [Cities -> Snapshot]
  BY SnapshotType DEF FeedTypeOK
<1>4. [market EXCEPT !.closed = TRUE] \in [closed: BOOLEAN, gapAt: 0..said]
  BY DEF FeedTypeOK
<1>. QED
  BY <1>1, <1>2, <1>3, <1>4 DEF Persist, FeedTypeOK

\* The feed starts well typed.
LEMMA FeedTypeInit == FeedInit => FeedTypeOK
<1>. SUFFICES ASSUME FeedInit PROVE FeedTypeOK
  OBVIOUS
<1>1. script \in Seq([mail: Mail, offer: STRING, left: Nat])
  BY FeedAssumption DEF FeedInit
<1>2. NoSnapshot \in Snapshot
  <2>1. "none" \in OfferIds
    BY DEF OfferIds
  <2>. QED
    BY <2>1 DEF NoSnapshot, Snapshot
<1>3. said = 0 /\ Len(script) \in Nat /\ line = <<>>
  BY <1>1 DEF FeedInit
<1>4. said \in 0..Len(script) /\ market \in [closed: BOOLEAN, gapAt: 0..said]
  BY <1>3 DEF FeedInit
<1>5. faults \in 0..MaxFaults
  BY FeedAssumption DEF FeedInit
<1>6. book \in [Cities -> Snapshot]
  BY <1>2 DEF FeedInit
<1>7. line \in Seq(Published)
  BY <1>3
<1>. QED
  BY <1>4, <1>5, <1>6, <1>7 DEF FeedInit, FeedTypeOK

\* Every step of the feed keeps its types.
LEMMA FeedTypeStep == FeedTypeOK /\ FeedNext => FeedTypeOK'
<1>. SUFFICES ASSUME FeedTypeOK, FeedNext PROVE FeedTypeOK'
  OBVIOUS
<1>1. said \in Nat /\ Published \subseteq Nat
  BY DEF FeedTypeOK, Published
<1>2. CASE Publish
  <2>1. Published \subseteq Published' /\ said + 1 \in Published'
    BY <1>1, <1>2 DEF Publish, Published
  <2>2. line' \in Seq(Published')
    <3>1. line \in Seq(Published')
      BY <2>1 DEF FeedTypeOK
    <3>. QED
      BY <3>1, <2>1, <1>2 DEF Publish
  <2>3. 0..said \subseteq 0..said'
    BY <1>1, <1>2 DEF Publish
  <2>4. Len(script) \in Nat
    <3>1. script \in Seq([mail: Mail, offer: STRING, left: Nat])
      BY FeedAssumption DEF FeedTypeOK
    <3>. QED
      BY <3>1
  <2>7. said + 1 \in 0..Len(script)
    BY <1>1, <1>2, <2>4 DEF Publish
  <2>5. market' \in [closed: BOOLEAN, gapAt: 0..said']
    BY <2>3, <1>2 DEF Publish, FeedTypeOK
  <2>6. lost' \subseteq Published' /\ claims' \subseteq Published'
    BY <2>1, <1>2 DEF Publish, FeedTypeOK
  <2>. QED
    BY <2>2, <2>5, <2>6, <2>7, <1>2 DEF Publish, FeedTypeOK
<1>3. ASSUME line # <<>>
      PROVE  /\ Head(line) \in Published /\ Tail(line) \in Seq(Published)
             /\ \A n \in 0..Len(line) - 1 : Requeued(n) \in Seq(Published)
  BY <1>3, QueueType DEF FeedTypeOK, Requeued
<1>4. CASE FeedDropped
  BY <1>3, <1>4 DEF FeedDropped, FeedTypeOK, Published
<1>5. CASE FeedPersisted
  BY <1>3, <1>5, PersistType DEF FeedPersisted, FeedTypeOK, Published
<1>6. ASSUME Fault PROVE faults' \in 0..MaxFaults
  BY <1>6, FeedAssumption DEF Fault, FeedTypeOK
<1>7. CASE FeedRefused
  BY <1>3, <1>6, <1>7 DEF FeedRefused, FeedTypeOK, Published
<1>8. CASE FeedAnswerLost
  BY <1>3, <1>6, <1>8, PersistType DEF FeedAnswerLost, FeedTypeOK, Published
<1>9. CASE FeedBreaks
  BY <1>6, <1>9 DEF FeedBreaks, FeedTypeOK, Published
<1>10. CASE FeedExpires
  BY <1>3, <1>10 DEF FeedExpires, FeedTypeOK, Published
<1>11. CASE Reconnect
  <2>1. [market EXCEPT !.gapAt = said] \in [closed: BOOLEAN, gapAt: 0..said]
    <3>1. said \in 0..said /\ market \in [closed: BOOLEAN, gapAt: 0..said]
      BY <1>1 DEF FeedTypeOK
    <3>. QED
      BY ONLY <3>1
  <2>2. market' \in [closed: BOOLEAN, gapAt: 0..said] /\ lost' \subseteq Published
    BY <2>1, <1>11 DEF Reconnect, FeedTypeOK
  <2>. QED
    BY <2>2, <1>11 DEF Reconnect, FeedTypeOK, Published
<1>12. CASE StatusArrives
  BY <1>12 DEF StatusArrives, FeedTypeOK, Published
<1>. QED
  BY <1>2, <1>4, <1>5, <1>7, <1>8, <1>9, <1>10, <1>11, <1>12 DEF FeedNext

-----------------------------------------------------------------------------
(* Sums of what bids ask for.                                              *)

\* What the bids of S ask for, in the rows r.
KwhOf(r, S) == Total([b \in S |-> r[b].qty])

\* It is a natural number.
LEMMA KwhType ==
  ASSUME NEW r \in [Bids -> Bid], NEW S \in SUBSET Bids
  PROVE  KwhOf(r, S) \in Nat /\ IsFiniteSet(S)
<1>. DEFINE f == [b \in S |-> r[b].qty]
<1>1. IsFiniteSet(S)
  BY BuyerAssumption, FS_Subset
<1>2. DOMAIN f = S /\ \A b \in S : f[b] \in Nat
  BY DEF Bid
<1>. HIDE DEF f
<1>3. Total(f) \in Nat
  BY <1>1, <1>2, TotalOfNaturals
<1>. QED
  BY <1>1, <1>3 DEF KwhOf, f

\* More bids ask for no less, also if others change.
LEMMA KwhMonotone ==
  ASSUME NEW r \in [Bids -> Bid], NEW q, NEW T \in SUBSET Bids, NEW S \in SUBSET T,
         \A b \in S : q[b].qty = r[b].qty
  PROVE  KwhOf(q, S) <= KwhOf(r, T)
<1>. DEFINE f == [b \in S |-> q[b].qty]
            g == [b \in T |-> r[b].qty]
<1>1. IsFiniteSet(T)
  BY BuyerAssumption, FS_Subset
<1>2. /\ DOMAIN f \subseteq DOMAIN g /\ DOMAIN g = T
      /\ \A b \in DOMAIN g : g[b] \in Nat
      /\ \A b \in DOMAIN f : f[b] = g[b]
  BY DEF Bid
<1>. HIDE DEF f, g
<1>3. Total(f) <= Total(g)
  BY <1>1, <1>2, TotalMonotone
<1>. QED
  BY <1>3 DEF KwhOf, f, g

\* One more bid adds what it asks for.
LEMMA KwhAdd ==
  ASSUME NEW r \in [Bids -> Bid], NEW q \in [Bids -> Bid], NEW S \in SUBSET Bids,
         NEW b \in Bids, b \notin S, \A a \in S : q[a].qty = r[a].qty
  PROVE  KwhOf(q, S \cup {b}) = KwhOf(r, S) + q[b].qty
<1>. DEFINE f == [a \in S |-> r[a].qty]
            g == [a \in S \cup {b} |-> q[a].qty]
<1>1. IsFiniteSet(S)
  BY BuyerAssumption, FS_Subset
<1>2. /\ DOMAIN f = S /\ DOMAIN g = S \cup {b}
      /\ \A a \in S : f[a] \in Int /\ g[a] = f[a]
      /\ g[b] = q[b].qty /\ g[b] \in Int
  BY DEF Bid
<1>. HIDE DEF f, g
<1>3. Total(g) = Total(f) + g[b]
  BY <1>1, <1>2, TotalExtend
<1>. QED
  BY <1>2, <1>3 DEF KwhOf, f, g

\* The sums of the model are of this kind.
LEMMA KwhIs == ASSUME NEW S PROVE Kwh(S) = KwhOf(bid, S)
BY DEF Kwh, KwhOf

-----------------------------------------------------------------------------
(* Types of the buyer.                                                     *)

\* Every state of the buyer is well typed, its feed apart.
OwnTypeOK ==
  /\ plan \in Plans /\ clock \in 0..2
  /\ bid \in [Bids -> Bid] /\ swap \in [Bids -> Swap]
  /\ lapsed \subseteq Bids /\ booked \subseteq Bids /\ posted \subseteq Bids
  /\ ingest \in Event /\ task \in Task
  /\ wallet \in [Bids -> {"none", "accepted"} \cup WalletFacts]

\* The wallet's facts lead to states of a record.
LEMMA FactStatus ==
  /\ StatusOf \in [WalletFacts -> {"PROPOSED"} \cup Final]
  /\ \A read \in {"NONE"} \cup Waiting \cup Final, f \in WalletFacts :
        Learned(read, f) \in {"PROPOSED"} \cup Final
BY DEF StatusOf, WalletFacts, Learned, Final

\* Rows that a step writes are rows.
LEMMA RowTypes ==
  ASSUME NEW r \in Swap, NEW x \in Waiting \cup Final, NEW e \in BOOLEAN, NEW l \in BOOLEAN
  PROVE  /\ [r EXCEPT !.lease = l] \in Swap
         /\ [r EXCEPT !.status = x] \in Swap
         /\ [r EXCEPT !.status = x, !.error = e] \in Swap
         /\ [r EXCEPT !.error = e, !.lease = l] \in Swap
         /\ [r EXCEPT !.status = x, !.error = e, !.lease = l] \in Swap
         /\ [r EXCEPT !.status = x, !.error = e, !.tries = r.tries + 1] \in Swap
<1>. /\ r = [status |-> r.status, tries |-> r.tries, error |-> r.error, lease |-> r.lease]
     /\ r.tries \in Nat /\ r.tries + 1 \in Nat
  BY DEF Swap
<1>1. [r EXCEPT !.lease = l] \in Swap
  BY DEF Swap
<1>2. [r EXCEPT !.status = x] \in Swap
  BY DEF Swap
<1>3. [r EXCEPT !.status = x, !.error = e] \in Swap
  BY <1>2 DEF Swap
<1>4. [r EXCEPT !.error = e, !.lease = l] \in Swap
  BY DEF Swap
<1>5. [r EXCEPT !.status = x, !.error = e, !.lease = l] \in Swap
  BY <1>3 DEF Swap
<1>6. [r EXCEPT !.status = x, !.error = e, !.tries = r.tries + 1] \in Swap
  BY <1>3 DEF Swap
<1>. QED
  BY <1>1, <1>2, <1>3, <1>4, <1>5, <1>6

\* What the scheduler has in hand is a task.
LEMMA TaskTypes ==
  ASSUME NEW b \in Bids, NEW l \in BOOLEAN, NEW x \in Waiting
  PROVE  /\ Idle \in Task /\ NoEvent \in Event
         /\ \A pc \in {"leased", "swept", "expiring"} :
              /\ Working(pc, b) \in Task
              /\ [Working(pc, b) EXCEPT !.late = l] \in Task
              /\ [Working(pc, b) EXCEPT !.read = x] \in Task
         /\ \A t \in Task : /\ [t EXCEPT !.pc = "sending"] \in Task
                            /\ [t EXCEPT !.pc = "sent"] \in Task
         /\ \A S \in SUBSET Bids, n \in Int :
              [Idle EXCEPT !.pc = "buying", !.bids = S, !.left = n] \in Task
<1>1. Idle \in Task
  BY DEF Idle, Task
<1>2. NoEvent \in Event
  BY DEF NoEvent, Event, WalletFacts
<1>3. ASSUME NEW pc \in {"leased", "swept", "expiring"} PROVE Working(pc, b) \in Task
  BY DEF Working, Task
<1>4. ASSUME NEW t \in Task
      PROVE  /\ [t EXCEPT !.pc = "sending"] \in Task /\ [t EXCEPT !.pc = "sent"] \in Task
             /\ [t EXCEPT !.late = l] \in Task /\ [t EXCEPT !.read = x] \in Task
  BY DEF Task
<1>5. ASSUME NEW S \in SUBSET Bids, NEW n \in Int
      PROVE  [Idle EXCEPT !.pc = "buying", !.bids = S, !.left = n] \in Task
  BY DEF Idle, Task
<1>. QED
  BY <1>1, <1>2, <1>3, <1>4, <1>5

\* Bids, answers and the buying tick keep the types.
LEMMA EnqueueType ==
  ASSUME FeedTypeOK, OwnTypeOK, NEW b \in Bids, NEW c \in Cities, NEW qty \in Nat,
         NEW auto \in BOOLEAN, Enqueue(b, c, qty, auto)
  PROVE  /\ bid' \in [Bids -> Bid]
         /\ bid[b] = NoBid /\ bid'[b].status = "PENDING" /\ bid'[b].qty = qty
         /\ bid'[b].auto = auto
         /\ \A a \in Bids \ {b} : bid'[a] = bid[a]
<1>1. book[c].offer \in OfferIds
  BY DEF FeedTypeOK, Snapshot
<1>2. [status |-> "PENDING", offer |-> book[c].offer, qty |-> qty, auto |-> auto] \in Bid
  BY <1>1 DEF Bid
<1>. QED
  BY <1>2 DEF Enqueue, Unused, OwnTypeOK

\* A buying step of the tick.
LEMMA BuyForType ==
  ASSUME FeedTypeOK, OwnTypeOK, NEW b \in Bids, NEW left \in Int, NEW S \in SUBSET Bids,
         BuyFor(b, left, S)
  PROVE  /\ bid' \in [Bids -> Bid] /\ task' \in Task
         /\ task'.pc = "buying" /\ bid[b] = NoBid
         /\ bid'[b].status = "PENDING" /\ bid'[b].auto
         /\ \A a \in Bids \ {b} : bid'[a] = bid[a]
         /\ bid'[b].qty <= left /\ task'.left = left - bid'[b].qty
<1>1. PICK c \in Candidates, qty \in MinBid..left :
        /\ Enqueue(b, c, qty, TRUE)
        /\ task' = [Idle EXCEPT !.pc = "buying", !.bids = S \cup {b}, !.left = left - qty]
  BY DEF BuyFor
<1>2. qty \in Nat /\ qty <= left /\ left - qty \in Int
  BY <1>1, BuyerAssumption
<1>3. c \in Cities
  BY <1>1 DEF Candidates
<1>4. task' \in Task /\ task'.pc = "buying" /\ task'.left = left - qty
  <2>1. [Idle EXCEPT !.pc = "buying", !.bids = S \cup {b}, !.left = left - qty] \in Task
    BY <1>2, TaskTypes DEF OwnTypeOK, Waiting
  <2>. QED
    BY <2>1, <1>1 DEF Idle
<1>5. /\ bid' \in [Bids -> Bid] /\ bid[b] = NoBid
      /\ bid'[b].status = "PENDING" /\ bid'[b].qty = qty /\ bid'[b].auto = TRUE
      /\ \A a \in Bids \ {b} : bid'[a] = bid[a]
  BY <1>1, <1>2, <1>3, EnqueueType
<1>. QED
  BY <1>2, <1>4, <1>5

\* Bids and their answers keep the types.
LEMMA TradeType ==
  ASSUME FeedTypeOK, OwnTypeOK, NEW b \in Bids, TradeStep(b)
  PROVE  OwnTypeOK'
<1>1. ASSUME NEW x \in {"ACCEPTED", "REJECTED"}
      PROVE  [bid EXCEPT ![b].status = x] \in [Bids -> Bid]
  BY DEF OwnTypeOK, Bid
<1>2. CASE BidByHand(b)
  <2>0. PICK c \in Candidates : \E q \in MinBid..book[c].left : Enqueue(b, c, q, FALSE)
    BY <1>2 DEF BidByHand
  <2>1. PICK qty \in MinBid..book[c].left : Enqueue(b, c, qty, FALSE)
    BY <2>0
  <2>2. c \in Cities /\ qty \in Nat
    <3>1. c \in Cities
      BY <2>1 DEF Candidates
    <3>2. book[c].left \in Nat
      BY <3>1 DEF FeedTypeOK, Snapshot
    <3>. QED
      BY <2>1, <3>1, <3>2, BuyerAssumption
  <2>3. bid' \in [Bids -> Bid]
    BY <2>1, <2>2, EnqueueType
  <2>. QED
    BY <2>3, <1>2 DEF BidByHand, OwnTypeOK
<1>3. CASE TickBuys(b)
  <2>1. Active \in SUBSET Bids /\ plan.deficit \in Nat
    BY BuyerAssumption DEF Active, In, OwnTypeOK
  <2>2. Kwh(Active) \in Nat
    BY <2>1, KwhType, KwhIs DEF OwnTypeOK
  <2>3. bid' \in [Bids -> Bid] /\ task' \in Task
    BY <2>1, <2>2, <1>3, BuyForType DEF TickBuys
  <2>. QED
    BY <2>3, <1>3 DEF TickBuys, OwnTypeOK
<1>4. CASE TickGoesOn(b)
  <2>1. task.bids \in SUBSET Bids /\ task.left \in Int
    BY DEF OwnTypeOK, Task
  <2>2. bid' \in [Bids -> Bid] /\ task' \in Task
    BY <2>1, <1>4, BuyForType DEF TickGoesOn
  <2>. QED
    BY <2>2, <1>4 DEF TickGoesOn, OwnTypeOK
<1>5. CASE BidAccepted(b)
  BY <1>1, <1>5 DEF BidAccepted, Answered, OwnTypeOK
<1>6. CASE BidRejected(b)
  BY <1>1, <1>6 DEF BidRejected, Answered, OwnTypeOK
<1>. QED
  BY <1>2, <1>3, <1>4, <1>5, <1>6 DEF TradeStep

\* The steps of an acceptance keep the types.
LEMMA AcceptType ==
  ASSUME OwnTypeOK, NEW b \in Bids, AcceptStep(b)
  PROVE  OwnTypeOK'
<1>. DEFINE r == swap[b]
<1>1. /\ r \in Swap /\ wallet[b] \in {"none", "accepted"} \cup WalletFacts
      /\ task \in Task
  BY DEF OwnTypeOK
<1>2. \A x \in Swap : [swap EXCEPT ![b] = x] \in [Bids -> Swap]
  BY DEF OwnTypeOK
<1>3. CASE NewRecord(b)
  BY <1>1, <1>2, <1>3, RowTypes DEF NewRecord, OwnTypeOK, Waiting
<1>4. CASE RejectedRecord(b)
  BY <1>1, <1>2, <1>4, RowTypes DEF RejectedRecord, OwnTypeOK, Final
<1>5. CASE Lease(b)
  <2>1. task' \in Task
    BY <1>5, TaskTypes DEF Lease, Waiting
  <2>. QED
    BY <1>1, <1>2, <1>5, <2>1, RowTypes DEF Lease, OwnTypeOK, Waiting
<1>6. CASE Overtaken(b)
  BY <1>1, <1>2, <1>6, RowTypes, TaskTypes DEF Overtaken, Closed, Released, OwnTypeOK, Waiting
<1>7. CASE Recover(b)
  <2>1. Released(r) \in Swap
    BY <1>1, RowTypes DEF Released, Waiting
  <2>2. Recovered(r, wallet[b]) \in Swap
    BY <1>7, <2>1, <1>1, RowTypes, FactStatus
       DEF Recover, Recovered, Waiting, WalletFacts, Buried
  <2>. QED
    BY <1>2, <1>7, <2>2, TaskTypes DEF Recover, Closed, OwnTypeOK, Waiting
<1>8. CASE Skip(b)
  BY <1>1, <1>2, <1>8, RowTypes, TaskTypes DEF Skip, Closed, Released, OwnTypeOK, Waiting
<1>9. CASE Mark(b)
  BY <1>1, <1>2, <1>9, RowTypes, TaskTypes DEF Mark, OwnTypeOK, Waiting
<1>10. CASE Send(b)
  BY <1>10, TaskTypes DEF Send, OwnTypeOK, Waiting
<1>11. CASE Accepted202(b)
  BY <1>1, <1>2, <1>11, RowTypes, TaskTypes DEF Accepted202, Closed, OwnTypeOK, Waiting
<1>12. CASE Retry(b)
  BY <1>1, <1>2, <1>12, RowTypes, TaskTypes DEF Retry, Closed, OwnTypeOK, Waiting
<1>13. CASE Refused4xx(b)
  BY <1>1, <1>2, <1>13, RowTypes, TaskTypes DEF Refused4xx, Closed, OwnTypeOK, Waiting, Final
<1>. QED
  BY <1>3, <1>4, <1>5, <1>6, <1>7, <1>8, <1>9, <1>10, <1>11, <1>12, <1>13 DEF AcceptStep

\* Events and the sweep keep the types.
LEMMA ObserveType ==
  ASSUME OwnTypeOK, NEW b \in Bids,
         \/ \E fact \in WalletFacts : EventRead(b, fact)
         \/ EventApply \/ SweepLooks(b) \/ SweepEnds(b)
  PROVE  OwnTypeOK'
<1>1. \A a \in Bids : swap[a] \in Swap /\ swap[a].status \in {"NONE"} \cup Waiting \cup Final
  BY DEF OwnTypeOK, Swap
<1>2. /\ \A a \in Bids, x \in Swap : [swap EXCEPT ![a] = x] \in [Bids -> Swap]
      /\ Idle \in Task /\ NoEvent \in Event
  BY TaskTypes DEF OwnTypeOK, Waiting
<1>3. /\ [bid EXCEPT ![b].status = "EXPIRED"] \in [Bids -> Bid]
      /\ SetBidExpired(b) => bid' \in [Bids -> Bid]
  <2>1. /\ bid[b] \in Bid
        /\ \A x \in {bid[b].status, "EXPIRED"} : [bid[b] EXCEPT !.status = x] \in Bid
    BY DEF OwnTypeOK, Bid
  <2>2. \A x \in {bid[b].status, "EXPIRED"} :
          [bid EXCEPT ![b].status = x] \in [Bids -> Bid]
    BY <2>1 DEF OwnTypeOK
  <2>. QED
    BY <2>2 DEF SetBidExpired
<1>4. task.read \in {"NONE"} \cup Waiting
  BY DEF OwnTypeOK, Task
<1>5. ASSUME NEW fact \in WalletFacts, EventRead(b, fact) PROVE OwnTypeOK'
  <2>1. ingest' \in Event
    BY <1>1, <1>5 DEF EventRead, Event
  <2>. QED
    BY <1>5, <2>1 DEF EventRead, OwnTypeOK
<1>6. CASE EventApply
  <2>1. PICK a \in ingest.bids :
          LET new == Learned(ingest.read, ingest.fact)
          IN /\ swap' = [swap EXCEPT ![a].status = IF new = ingest.read THEN @ ELSE new]
             /\ booked' = IF ingest.fact = "settled" THEN booked \cup {a} ELSE booked
    BY <1>6 DEF EventApply
  <2>2. a \in Bids /\ Learned(ingest.read, ingest.fact) \in {"PROPOSED"} \cup Final
    BY <2>1, FactStatus DEF OwnTypeOK, Event
  <2>3. swap' \in [Bids -> Swap]
    <3>1. \A x \in {"PROPOSED"} \cup Final : [swap[a] EXCEPT !.status = x] \in Swap
      BY <1>1, <2>2, RowTypes DEF Waiting
    <3>2. [swap[a] EXCEPT !.status = swap[a].status] \in Swap
      BY <1>1, <2>2 DEF Swap
    <3>. QED
      BY <1>2, <2>1, <2>2, <3>1, <3>2
  <2>. QED
    BY <1>2, <1>6, <2>1, <2>2, <2>3 DEF EventApply, OwnTypeOK
<1>7. CASE SweepRead(b)
  BY <1>7, TaskTypes DEF SweepRead, StaleRecord, OwnTypeOK
<1>8. CASE ExpireRead(b)
  BY <1>8, TaskTypes DEF ExpireRead, OwnTypeOK, Waiting
<1>9. CASE SweepSettles(b)
  <2>1. [swap[b] EXCEPT !.status = Learned(task.read, "settled")] \in Swap
    BY <1>1, <1>4, RowTypes, FactStatus DEF Waiting, WalletFacts
  <2>. QED
    BY <1>2, <1>9, <2>1 DEF SweepSettles, Closed, OwnTypeOK
<1>10. CASE SweepBuries(b)
  <2>1. [swap[b] EXCEPT !.status = Learned(task.read, wallet[b])] \in Swap
    BY <1>1, <1>4, <1>10, RowTypes, FactStatus
       DEF SweepBuries, Buried, Waiting, WalletFacts
  <2>. QED
    BY <1>2, <1>3, <1>10, <2>1 DEF SweepBuries, OwnTypeOK
<1>11. CASE ExpireWrite(b)
  BY <1>2, <1>3, <1>11 DEF ExpireWrite, OwnTypeOK
<1>. QED
  BY <1>5, <1>6, <1>7, <1>8, <1>9, <1>10, <1>11 DEF SweepLooks, SweepEnds

\* Every step of the buyer keeps its types.
LEMMA OwnTypeStep == FeedTypeOK /\ OwnTypeOK /\ BuyerNext => OwnTypeOK'
<1>. SUFFICES ASSUME FeedTypeOK, OwnTypeOK, BuyerNext PROVE OwnTypeOK'
  OBVIOUS
<1>1. ASSUME NEW b \in Bids, TradeStep(b) PROVE OwnTypeOK'
  BY <1>1, TradeType
<1>2. ASSUME NEW b \in Bids, AcceptStep(b) PROVE OwnTypeOK'
  BY <1>2, AcceptType
<1>3. ASSUME NEW b \in Bids,
             SweepLooks(b) \/ SweepEnds(b) \/ \E fact \in WalletFacts : EventRead(b, fact)
      PROVE  OwnTypeOK'
  BY <1>3, ObserveType
<1>4. ASSUME NEW b \in Bids, WalletStep(b) PROVE OwnTypeOK'
  BY <1>4 DEF WalletStep, SellerProposes, WalletAccepts, WalletConcludes, WalletFacts, OwnTypeOK
<1>5. ASSUME NEW b \in Bids, Lapses(b) PROVE OwnTypeOK'
  BY <1>5 DEF Lapses, OwnTypeOK
<1>6. ASSUME NEW b \in Bids, LeaseEnds(b) PROVE OwnTypeOK'
  BY <1>6, RowTypes DEF LeaseEnds, OwnTypeOK, Waiting
<1>7. CASE EventApply
  <2>1. PICK b \in ingest.bids : TRUE
    BY <1>7 DEF EventApply
  <2>. QED
    BY <2>1, <1>7, ObserveType DEF OwnTypeOK, Event
<1>8. CASE IngestAborts
  BY <1>8, TaskTypes DEF IngestAborts, NoEvent, Event, WalletFacts, OwnTypeOK
<1>9. CASE Stops
  BY <1>9 DEF Stops, Idle, Task, OwnTypeOK
<1>10. CASE Tick
  BY <1>10 DEF Tick, OwnTypeOK
<1>. QED
  BY <1>1, <1>2, <1>3, <1>4, <1>5, <1>6, <1>7, <1>8, <1>9, <1>10 DEF BuyerNext

\* The market starts well typed, and every step of it keeps the types.
LEMMA BuyerTypeInduction ==
  /\ FeedInit /\ BuyerInit => BuyerTypeOK
  /\ BuyerTypeOK /\ [MarketNext]_<<feedVars, buyerVars>> => BuyerTypeOK'
<1>1. BuyerTypeOK <=> FeedTypeOK /\ OwnTypeOK
  BY DEF BuyerTypeOK, OwnTypeOK
<1>2. BuyerTypeOK' <=> FeedTypeOK' /\ OwnTypeOK'
  BY DEF BuyerTypeOK, OwnTypeOK
<1>3. ASSUME FeedInit, BuyerInit PROVE BuyerTypeOK
  <2>1. NoBid \in Bid /\ NoSwap \in Swap /\ Idle \in Task /\ NoEvent \in Event
    <3>1. NoBid \in Bid
      BY DEF NoBid, Bid, OfferIds
    <3>. QED
      BY <3>1 DEF NoSwap, Swap, Idle, Task, NoEvent, Event, WalletFacts
  <2>2. OwnTypeOK
    BY <1>3, <2>1 DEF BuyerInit, OwnTypeOK
  <2>. QED
    BY <1>1, <1>3, <2>2, FeedTypeInit
<1>4. ASSUME BuyerTypeOK, BuyerNext, UNCHANGED feedVars PROVE BuyerTypeOK'
  <2>1. FeedTypeOK'
    BY <1>1, <1>4 DEF feedVars, FeedTypeOK, Published
  <2>. QED
    BY <1>1, <1>2, <1>4, <2>1, OwnTypeStep
<1>5. ASSUME BuyerTypeOK, FeedNext, UNCHANGED buyerVars PROVE BuyerTypeOK'
  <2>1. OwnTypeOK'
    BY <1>1, <1>5 DEF buyerVars, OwnTypeOK
  <2>. QED
    BY <1>1, <1>2, <1>5, <2>1, FeedTypeStep
<1>6. ASSUME BuyerTypeOK, UNCHANGED <<feedVars, buyerVars>> PROVE BuyerTypeOK'
  BY <1>6 DEF feedVars, buyerVars, BuyerTypeOK, FeedTypeOK, Published
<1>. QED
  BY <1>3, <1>4, <1>5, <1>6 DEF MarketNext

\* Types of the feed, the bids, the records and the tasks, for every instance.
THEOREM BuyerTypeCorrect == BuyerSpec => []BuyerTypeOK
BY BuyerTypeInduction, PTL DEF BuyerSpec

-----------------------------------------------------------------------------
(* What the steps do to purchases.                                         *)

\* What a bid or an answer changes.
LEMMA TradeFacts ==
  ASSUME FeedTypeOK, OwnTypeOK, NEW b \in Bids, TradeStep(b)
  PROVE  /\ UNCHANGED <<plan, swap, booked, ingest, posted, wallet>>
         /\ \A a \in Bids \ {b} : bid'[a] = bid[a]
         /\ bid[b].status \in {"NONE", "PENDING"}
         /\ task' = task \/ task'.pc = "buying"
<1>1. CASE BidByHand(b)
  <2>0. PICK c \in Candidates : \E q \in MinBid..book[c].left : Enqueue(b, c, q, FALSE)
    BY <1>1 DEF BidByHand
  <2>1. PICK qty \in MinBid..book[c].left : Enqueue(b, c, qty, FALSE)
    BY <2>0
  <2>2. bid[b] = NoBid /\ \A a \in Bids \ {b} : bid'[a] = bid[a]
    BY <2>1 DEF Enqueue, Unused, OwnTypeOK
  <2>. QED
    BY <2>2, <1>1 DEF BidByHand, NoBid
<1>2. ASSUME NEW left, NEW S, BuyFor(b, left, S)
      PROVE  /\ bid[b] = NoBid /\ task'.pc = "buying"
             /\ \A a \in Bids \ {b} : bid'[a] = bid[a]
  BY <1>2 DEF BuyFor, Enqueue, Unused, OwnTypeOK, Idle
<1>3. CASE TickBuys(b)
  BY <1>2, <1>3 DEF TickBuys, NoBid
<1>4. CASE TickGoesOn(b)
  BY <1>2, <1>4 DEF TickGoesOn, NoBid
<1>5. CASE BidAccepted(b) \/ BidRejected(b)
  BY <1>5 DEF BidAccepted, BidRejected, Answered, OwnTypeOK
<1>. QED
  BY <1>1, <1>3, <1>4, <1>5 DEF TradeStep

\* A record that a step of its acceptance changes without booking it was not
\* final, and says EXPIRED only if the wallet does.
Unbooked(b) ==
  /\ booked' = booked
  /\ \/ swap'[b].status = swap[b].status
     \/ /\ swap[b].status \notin Final
        /\ \/ swap'[b].status \in Waiting \cup {"REJECTED"}
           \/ swap'[b].status = "EXPIRED" /\ wallet[b] = "expired"

\* One that it books is settled in the wallet, and nothing is being ingested.
Purchased(b) ==
  /\ booked' = booked \cup {b} /\ swap'[b].status = "SETTLED"
  /\ wallet[b] = "settled" /\ ingest = NoEvent

\* What the steps of an acceptance change.
LEMMA AcceptFacts ==
  ASSUME OwnTypeOK, PostedHasRecord, NEW b \in Bids, AcceptStep(b)
  PROVE  /\ UNCHANGED <<plan, bid, wallet, ingest>>
         /\ \A a \in Bids \ {b} : swap'[a] = swap[a]
         /\ swap'[b].status # "NONE"
         /\ swap[b].status # "NONE" \/ bid[b].status = "ACCEPTED"
         /\ posted' \subseteq posted \cup {b}
         /\ task'.pc \in {"idle", "leased", "sending", "sent"}
         /\ \A a \in task'.bids : a = b \/ swap[a].status # "NONE"
         /\ Unbooked(b) \/ Purchased(b)
<1>1. CASE NewRecord(b)
  BY <1>1 DEF NewRecord, NoSwap, OwnTypeOK, Unbooked, Waiting, Final, Idle, Swap
<1>2. CASE RejectedRecord(b)
  BY <1>2 DEF RejectedRecord, NoSwap, OwnTypeOK, Unbooked, Final, Idle, Swap
<1>3. CASE Lease(b)
  BY <1>3 DEF Lease, OwnTypeOK, Unbooked, Working, Swap
<1>4. CASE Overtaken(b)
  BY <1>4 DEF Overtaken, PostedHasRecord, Closed, Released, OwnTypeOK, Unbooked, Idle, Swap
<1>5. CASE Recover(b)
  <2>1. /\ UNCHANGED <<plan, bid, wallet, ingest>> /\ task' = Idle
        /\ swap' = [swap EXCEPT ![b] = Recovered(@, wallet[b])]
        /\ swap[b].status \notin Final
        /\ wallet[b] \in {"accepted", "settled", "rejected", "expired"}
    BY <1>5 DEF Recover, Closed, Buried
  <2>2. swap'[b] = Recovered(swap[b], wallet[b])
    BY <2>1 DEF OwnTypeOK
  <2>3. swap'[b].status = IF wallet[b] = "accepted" THEN "ACCEPT_SUBMITTED" ELSE StatusOf[wallet[b]]
    BY <2>2 DEF Recovered, Released, OwnTypeOK, Swap
  <2>4. Unbooked(b) \/ Purchased(b)
    BY <1>5, <2>1, <2>3 DEF Recover, Unbooked, Purchased, StatusOf, Waiting
  <2>. QED
    BY <1>5, <2>1, <2>3, <2>4 DEF Recover, PostedHasRecord, OwnTypeOK, Idle, StatusOf
<1>6. CASE Skip(b)
  BY <1>6 DEF Skip, PostedHasRecord, Closed, Released, OwnTypeOK, Unbooked, Idle, Swap
<1>7. CASE Mark(b)
  BY <1>7 DEF Mark, PostedHasRecord, OwnTypeOK, Unbooked, Waiting, Swap, Task
<1>8. CASE Send(b)
  BY <1>8 DEF Send, PostedHasRecord, OwnTypeOK, Unbooked, Task
<1>9. CASE Accepted202(b)
  BY <1>9 DEF Accepted202, PostedHasRecord, Closed, OwnTypeOK, Unbooked, Waiting, Idle, Swap
<1>10. CASE Retry(b)
  BY <1>10 DEF Retry, PostedHasRecord, Closed, OwnTypeOK, Unbooked, Idle, Swap
<1>11. CASE Refused4xx(b)
  BY <1>11 DEF Refused4xx, PostedHasRecord, Closed, OwnTypeOK, Unbooked, Idle, Swap
<1>. QED
  BY <1>1, <1>2, <1>3, <1>4, <1>5, <1>6, <1>7, <1>8, <1>9, <1>10, <1>11 DEF AcceptStep

-----------------------------------------------------------------------------
(* The invariant of purchases.                                             *)

\* All of BuyerInv but the sum.
PurchaseInv == PurchaseBooked /\ ReadIsCurrent /\ PostedHasRecord /\ RecordIsCounted

\* A bid or an answer touches no record, and no bid that has one.
LEMMA TradeKeeps ==
  ASSUME FeedTypeOK, OwnTypeOK, PurchaseInv, NEW b \in Bids, TradeStep(b)
  PROVE  PurchaseInv'
<1>1. /\ UNCHANGED <<plan, swap, booked, ingest, posted, wallet>>
      /\ \A a \in Bids \ {b} : bid'[a] = bid[a]
      /\ bid[b].status \in {"NONE", "PENDING"}
      /\ task' = task \/ task'.pc = "buying"
  BY TradeFacts
<1>2. PurchaseBooked'
  BY <1>1 DEF PurchaseInv, PurchaseBooked
<1>3. ReadIsCurrent'
  BY <1>1 DEF PurchaseInv, ReadIsCurrent
<1>4. PostedHasRecord'
  BY <1>1 DEF PurchaseInv, PostedHasRecord
<1>5. RecordIsCounted'
  BY <1>1 DEF PurchaseInv, RecordIsCounted
<1>. QED
  BY <1>2, <1>3, <1>4, <1>5 DEF PurchaseInv

\* A step of an acceptance books under the lock, and never over an end.
LEMMA AcceptKeeps ==
  ASSUME OwnTypeOK, PurchaseInv, NEW b \in Bids, AcceptStep(b)
  PROVE  PurchaseInv'
<1>1. /\ UNCHANGED <<plan, bid, wallet, ingest>>
      /\ \A a \in Bids \ {b} : swap'[a] = swap[a]
      /\ swap'[b].status # "NONE"
      /\ swap[b].status # "NONE" \/ bid[b].status = "ACCEPTED"
      /\ posted' \subseteq posted \cup {b}
      /\ task'.pc \in {"idle", "leased", "sending", "sent"}
      /\ \A a \in task'.bids : a = b \/ swap[a].status # "NONE"
      /\ Unbooked(b) \/ Purchased(b)
  BY AcceptFacts DEF PurchaseInv
<1>2. task'.bids \subseteq Bids
  BY AcceptType DEF OwnTypeOK, Task
<1>3. PurchaseBooked'
  <2>1. CASE Unbooked(b)
    BY <1>1, <2>1 DEF PurchaseInv, PurchaseBooked, Unbooked, Waiting, Final
  <2>2. CASE Purchased(b)
    BY <1>1, <2>2 DEF PurchaseInv, PurchaseBooked, Purchased
  <2>. QED
    BY <1>1, <2>1, <2>2
<1>4. ReadIsCurrent'
  <2>1. \A a \in ingest.bids : a \in booked' <=> a \in booked
    BY <1>1 DEF Unbooked, Purchased, NoEvent
  <2>2. \A a \in ingest.bids : swap[a].status # "NONE" => swap'[a].status # "NONE"
    BY <1>1 DEF OwnTypeOK, Event
  <2>3. task'.pc # "swept"
    BY <1>1
  <2>. QED
    BY <1>1, <2>1, <2>2, <2>3 DEF PurchaseInv, ReadIsCurrent
<1>5. PostedHasRecord'
  BY <1>1, <1>2 DEF PurchaseInv, PostedHasRecord
<1>6. RecordIsCounted'
  BY <1>1 DEF PurchaseInv, RecordIsCounted
<1>. QED
  BY <1>3, <1>4, <1>5, <1>6 DEF PurchaseInv

\* The wallet moves a swap that has not ended.
LEMMA WalletKeeps ==
  ASSUME OwnTypeOK, PurchaseInv, NEW b \in Bids, WalletStep(b)
  PROVE  PurchaseInv'
<1>1. /\ UNCHANGED <<plan, bid, swap, booked, ingest, task, posted>>
      /\ \A a \in Bids \ {b} : wallet'[a] = wallet[a]
      /\ wallet[b] \in {"none", "proposed", "accepted"}
      /\ \/ wallet'[b] \in {"proposed", "expired"}
         \/ b \in posted \/ wallet[b] = "accepted"
  BY DEF WalletStep, SellerProposes, WalletAccepts, WalletConcludes, OwnTypeOK
<1>2. PurchaseBooked'
  BY <1>1 DEF PurchaseInv, PurchaseBooked
<1>3. ReadIsCurrent'
  <2>1. ingest.bids \subseteq Bids /\ ingest.fact \in WalletFacts
    BY DEF OwnTypeOK, Event
  <2>. QED
    BY <1>1, <2>1 DEF PurchaseInv, ReadIsCurrent, WalletFacts
<1>4. PostedHasRecord'
  BY <1>1 DEF PurchaseInv, PostedHasRecord
<1>5. RecordIsCounted'
  BY <1>1 DEF PurchaseInv, RecordIsCounted, Buried
<1>. QED
  BY <1>2, <1>3, <1>4, <1>5 DEF PurchaseInv

\* An event decides on what it read, and the ledger has not moved since.
LEMMA EventKeeps ==
  ASSUME OwnTypeOK, PurchaseInv, EventApply
  PROVE  PurchaseInv'
<1>1. PICK b \in ingest.bids :
        LET new == Learned(ingest.read, ingest.fact)
        IN /\ swap' = [swap EXCEPT ![b].status = IF new = ingest.read THEN @ ELSE new]
           /\ booked' = IF ingest.fact = "settled" THEN booked \cup {b} ELSE booked
  BY DEF EventApply
<1>. DEFINE new == Learned(ingest.read, ingest.fact)
<1>2. /\ b \in Bids /\ ingest.fact \in WalletFacts
      /\ ingest.read \in {"NONE"} \cup Waiting \cup Final
      /\ wallet[b] \in {"none", "accepted"} \cup WalletFacts
  BY <1>1 DEF OwnTypeOK, Event
<1>3. /\ ingest' = NoEvent /\ UNCHANGED <<plan, bid, task, posted, wallet>>
      /\ \A a \in Bids \ {b} : swap'[a] = swap[a]
      /\ swap'[b].status = IF new = ingest.read THEN swap[b].status ELSE new
  BY <1>1, <1>2 DEF EventApply, OwnTypeOK, Swap
<1>4. /\ ingest.read # "NONE" /\ ingest.read = "SETTLED" <=> b \in booked
      /\ ingest.fact # "proposed" => wallet[b] = ingest.fact
      /\ b \in booked <=> swap[b].status = "SETTLED"
      /\ b \in booked => wallet[b] = "settled"
      /\ swap[b].status = "EXPIRED" => wallet[b] = "expired"
  BY <1>1, <1>2 DEF PurchaseInv, ReadIsCurrent, PurchaseBooked
<1>5. \/ new = ingest.read /\ ingest.read \in Final /\ ingest.fact # "settled"
      \/ new = "SETTLED" /\ ingest.fact = "settled"
      \/ ingest.read \notin Final /\ new = StatusOf[ingest.fact] /\ ingest.fact # "settled"
  BY <1>2 DEF Learned, StatusOf, WalletFacts
<1>. HIDE DEF new
<1>6. swap[b].status # "NONE" /\ swap'[b].status # "NONE"
  BY <1>1, <1>2, <1>3, <1>4, <1>5 DEF PurchaseInv, ReadIsCurrent, StatusOf, WalletFacts
<1>7. /\ b \in booked' <=> swap'[b].status = "SETTLED"
      /\ b \in booked' => wallet[b] = "settled"
      /\ swap'[b].status = "EXPIRED" => wallet[b] = "expired"
      /\ booked' = booked \/ booked' = booked \cup {b}
  <2>1. booked' = IF ingest.fact = "settled" THEN booked \cup {b} ELSE booked
    BY <1>1
  <2>2. CASE new = ingest.read /\ ingest.read \in Final /\ ingest.fact # "settled"
    BY <2>1, <2>2, <1>3, <1>4
  <2>3. CASE new = "SETTLED" /\ ingest.fact = "settled"
    BY <2>1, <2>3, <1>3, <1>4
  <2>4. CASE /\ ingest.read \notin Final /\ new = StatusOf[ingest.fact]
             /\ ingest.fact # "settled"
    BY <2>1, <2>4, <1>2, <1>3, <1>4 DEF Final, StatusOf, WalletFacts
  <2>. QED
    BY <1>5, <2>2, <2>3, <2>4
<1>8. PurchaseBooked'
  BY <1>3, <1>7 DEF PurchaseInv, PurchaseBooked
<1>9. ReadIsCurrent'
  BY <1>3 DEF PurchaseInv, ReadIsCurrent, NoEvent
<1>10. PostedHasRecord'
  BY <1>2, <1>3, <1>6 DEF PurchaseInv, PostedHasRecord, OwnTypeOK, Task
<1>11. RecordIsCounted'
  <2>1. task.pc = "expiring" => b \notin task.bids
    BY <1>6 DEF PurchaseInv, RecordIsCounted
  <2>. QED
    BY <1>2, <1>3, <1>6, <2>1 DEF PurchaseInv, RecordIsCounted, OwnTypeOK, Task
<1>. QED
  BY <1>8, <1>9, <1>10, <1>11 DEF PurchaseInv

\* The sweep asks the wallet, books under the lock and buries bid and record
\* together; a bid that it expires alone has no record.
LEMMA SweepKeeps ==
  ASSUME OwnTypeOK, PurchaseInv, NEW b \in Bids, SweepLooks(b) \/ SweepEnds(b)
  PROVE  PurchaseInv'
<1>1. CASE SweepRead(b)
  <2>1. /\ UNCHANGED <<plan, bid, swap, booked, ingest, posted, wallet>>
        /\ swap[b].status \in Waiting
        /\ task'.pc = "swept" /\ task'.bids = {b} /\ task'.read = swap[b].status
    BY <1>1 DEF SweepRead, StaleRecord, Working
  <2>2. PurchaseBooked'
    BY <2>1 DEF PurchaseInv, PurchaseBooked
  <2>3. ReadIsCurrent'
    BY <2>1 DEF PurchaseInv, ReadIsCurrent
  <2>4. PostedHasRecord'
    BY <2>1 DEF PurchaseInv, PostedHasRecord, Waiting
  <2>5. RecordIsCounted'
    BY <2>1 DEF PurchaseInv, RecordIsCounted
  <2>. QED
    BY <2>2, <2>3, <2>4, <2>5 DEF PurchaseInv
<1>2. CASE ExpireRead(b)
  <2>1. /\ UNCHANGED <<plan, bid, swap, booked, ingest, posted, wallet>>
        /\ StaleBid(b) /\ task'.pc = "expiring" /\ task'.bids = {b}
    BY <1>2 DEF ExpireRead, Working
  <2>2. swap[b].status = "NONE"
    BY <2>1 DEF StaleBid, NoSwap, PurchaseInv, RecordIsCounted
  <2>3. PurchaseBooked' /\ ReadIsCurrent' /\ PostedHasRecord'
    BY <2>1 DEF PurchaseInv, PurchaseBooked, ReadIsCurrent, PostedHasRecord
  <2>4. RecordIsCounted'
    BY <2>1, <2>2 DEF PurchaseInv, RecordIsCounted
  <2>. QED
    BY <2>3, <2>4 DEF PurchaseInv
<1>3. CASE SweepSettles(b)
  <2>1. /\ UNCHANGED <<plan, bid, ingest, posted, wallet>> /\ task' = Idle
        /\ task.pc = "swept" /\ b \in task.bids /\ wallet[b] = "settled" /\ ingest = NoEvent
        /\ swap' = [swap EXCEPT ![b].status = Learned(task.read, "settled")]
        /\ booked' = booked \cup {b}
    BY <1>3 DEF SweepSettles, Closed
  <2>2. Learned(task.read, "settled") = "SETTLED"
    BY DEF Learned, StatusOf
  <2>3. swap'[b].status = "SETTLED" /\ \A a \in Bids \ {b} : swap'[a] = swap[a]
    BY <2>1, <2>2 DEF OwnTypeOK, Swap
  <2>4. PurchaseBooked'
    BY <2>1, <2>3 DEF PurchaseInv, PurchaseBooked
  <2>5. ReadIsCurrent'
    BY <2>1 DEF ReadIsCurrent, NoEvent, Idle
  <2>6. PostedHasRecord'
    BY <2>1, <2>3 DEF PurchaseInv, PostedHasRecord, Idle
  <2>7. RecordIsCounted'
    BY <2>1, <2>3 DEF PurchaseInv, RecordIsCounted, PostedHasRecord, Idle
  <2>. QED
    BY <2>4, <2>5, <2>6, <2>7 DEF PurchaseInv
<1>4. CASE SweepBuries(b)
  <2>1. /\ UNCHANGED <<plan, booked, ingest, posted, wallet>> /\ task' = Idle
        /\ task.pc = "swept" /\ b \in task.bids /\ wallet[b] \in Buried
        /\ swap' = [swap EXCEPT ![b].status = Learned(task.read, wallet[b])]
        /\ SetBidExpired(b)
    BY <1>4 DEF SweepBuries
  <2>2. task.read \in Waiting /\ swap[b].status # "NONE" /\ b \notin booked
    BY <2>1 DEF PurchaseInv, ReadIsCurrent, PostedHasRecord, PurchaseBooked, Buried
  <2>3. Learned(task.read, wallet[b]) = StatusOf[wallet[b]]
    BY <2>2 DEF Learned, Waiting, Final
  <2>4. swap'[b].status = StatusOf[wallet[b]] /\ \A a \in Bids \ {b} : swap'[a] = swap[a]
    BY <2>1, <2>3 DEF OwnTypeOK, Swap
  <2>5. bid[b].status \in {"ACCEPTED", "EXPIRED"}
    BY <2>2 DEF PurchaseInv, RecordIsCounted
  <2>6. bid'[b].status = "EXPIRED" /\ \A a \in Bids \ {b} : bid'[a] = bid[a]
    BY <2>1, <2>5 DEF SetBidExpired, OwnTypeOK, Bid
  <2>7. PurchaseBooked'
    BY <2>1, <2>2, <2>4 DEF PurchaseInv, PurchaseBooked, StatusOf, Buried
  <2>8. ReadIsCurrent'
    <3>1. \A a \in ingest.bids : swap'[a].status # "NONE"
      BY <2>1, <2>4 DEF PurchaseInv, ReadIsCurrent, OwnTypeOK, Event, StatusOf, Buried
    <3>. QED
      BY <2>1, <3>1 DEF PurchaseInv, ReadIsCurrent, Idle
  <2>9. PostedHasRecord'
    BY <2>1, <2>4 DEF PurchaseInv, PostedHasRecord, StatusOf, Buried, Idle
  <2>10. RecordIsCounted'
    BY <2>1, <2>4, <2>6 DEF PurchaseInv, RecordIsCounted, Idle
  <2>. QED
    BY <2>7, <2>8, <2>9, <2>10 DEF PurchaseInv
<1>5. CASE ExpireWrite(b)
  <2>1. /\ UNCHANGED <<plan, swap, booked, ingest, posted, wallet>> /\ task' = Idle
        /\ task.pc = "expiring" /\ b \in task.bids
        /\ \A a \in Bids \ {b} : bid'[a] = bid[a]
    BY <1>5 DEF ExpireWrite, OwnTypeOK
  <2>2. swap[b].status = "NONE"
    BY <2>1 DEF PurchaseInv, RecordIsCounted
  <2>3. PurchaseBooked' /\ ReadIsCurrent' /\ PostedHasRecord'
    BY <2>1 DEF PurchaseInv, PurchaseBooked, ReadIsCurrent, PostedHasRecord, Idle
  <2>4. RecordIsCounted'
    BY <2>1, <2>2 DEF PurchaseInv, RecordIsCounted, Idle
  <2>. QED
    BY <2>3, <2>4 DEF PurchaseInv
<1>. QED
  BY <1>1, <1>2, <1>3, <1>4, <1>5 DEF SweepLooks, SweepEnds

\* What an event reads is what the ledger says then.
LEMMA ReadKeeps ==
  ASSUME OwnTypeOK, PurchaseInv, NEW b \in Bids, NEW fact \in WalletFacts, EventRead(b, fact)
  PROVE  PurchaseInv'
<1>1. /\ UNCHANGED <<plan, bid, swap, booked, task, posted, wallet>>
      /\ ingest' = [bids |-> {b}, fact |-> fact, read |-> swap[b].status]
      /\ swap[b].status # "NONE" /\ (fact = wallet[b] \/ fact = "proposed")
  BY DEF EventRead
<1>2. PurchaseBooked' /\ PostedHasRecord' /\ RecordIsCounted'
  BY <1>1 DEF PurchaseInv, PurchaseBooked, PostedHasRecord, RecordIsCounted
<1>3. ReadIsCurrent'
  BY <1>1 DEF PurchaseInv, PurchaseBooked, ReadIsCurrent
<1>. QED
  BY <1>2, <1>3 DEF PurchaseInv

\* Time, aborts and ends leave records and ledger alone.
LEMMA QuietKeeps ==
  ASSUME OwnTypeOK, PurchaseInv,
         \/ \E b \in Bids : Lapses(b) \/ LeaseEnds(b)
         \/ IngestAborts \/ Stops \/ Tick \/ UNCHANGED buyerVars
  PROVE  PurchaseInv'
<1>1. /\ UNCHANGED <<plan, bid, booked, posted, wallet>>
      /\ \A a \in Bids : swap'[a].status = swap[a].status
      /\ ingest' = ingest \/ ingest'.bids = {}
      /\ task' = task \/ task'.pc = "idle"
  BY DEF Lapses, LeaseEnds, IngestAborts, Stops, Tick, buyerVars, NoEvent, Idle, OwnTypeOK, Swap
<1>2. PurchaseBooked'
  BY <1>1 DEF PurchaseInv, PurchaseBooked
<1>3. ReadIsCurrent'
  BY <1>1 DEF PurchaseInv, ReadIsCurrent, OwnTypeOK, Event
<1>4. PostedHasRecord'
  BY <1>1 DEF PurchaseInv, PostedHasRecord, OwnTypeOK, Task
<1>5. RecordIsCounted'
  BY <1>1 DEF PurchaseInv, RecordIsCounted, OwnTypeOK, Task
<1>. QED
  BY <1>2, <1>3, <1>4, <1>5 DEF PurchaseInv

\* The invariant holds at first, and every step keeps it.
LEMMA PurchaseInduction ==
  /\ FeedInit /\ BuyerInit => PurchaseInv
  /\ BuyerTypeOK /\ PurchaseInv /\ [MarketNext]_<<feedVars, buyerVars>> => PurchaseInv'
<1>1. ASSUME BuyerInit PROVE PurchaseInv
  BY <1>1 DEF BuyerInit, NoBid, NoSwap, NoEvent, Idle, PurchaseInv, PurchaseBooked,
              ReadIsCurrent, PostedHasRecord, RecordIsCounted
<1>2. ASSUME BuyerTypeOK, PurchaseInv, BuyerNext PROVE PurchaseInv'
  <2>. FeedTypeOK /\ OwnTypeOK
    BY <1>2 DEF BuyerTypeOK, OwnTypeOK
  <2>1. ASSUME NEW b \in Bids, TradeStep(b) PROVE PurchaseInv'
    BY <1>2, <2>1, TradeKeeps
  <2>2. ASSUME NEW b \in Bids, AcceptStep(b) PROVE PurchaseInv'
    BY <1>2, <2>2, AcceptKeeps
  <2>3. ASSUME NEW b \in Bids, SweepLooks(b) \/ SweepEnds(b) PROVE PurchaseInv'
    BY <1>2, <2>3, SweepKeeps
  <2>4. ASSUME NEW b \in Bids, WalletStep(b) PROVE PurchaseInv'
    BY <1>2, <2>4, WalletKeeps
  <2>5. ASSUME NEW b \in Bids, NEW fact \in WalletFacts, EventRead(b, fact) PROVE PurchaseInv'
    BY <1>2, <2>5, ReadKeeps
  <2>6. ASSUME NEW b \in Bids, Lapses(b) \/ LeaseEnds(b) PROVE PurchaseInv'
    BY <1>2, <2>6, QuietKeeps
  <2>7. CASE EventApply
    BY <1>2, <2>7, EventKeeps
  <2>8. CASE IngestAborts \/ Stops \/ Tick
    BY <1>2, <2>8, QuietKeeps
  <2>. QED
    BY <1>2, <2>1, <2>2, <2>3, <2>4, <2>5, <2>6, <2>7, <2>8 DEF BuyerNext
<1>3. ASSUME BuyerTypeOK, PurchaseInv, UNCHANGED buyerVars PROVE PurchaseInv'
  BY <1>3, QuietKeeps DEF BuyerTypeOK, OwnTypeOK
<1>. QED
  BY <1>1, <1>2, <1>3 DEF MarketNext

\* Purchases are booked exactly when the wallet settled them, however answers,
\* events, the sweep and restarts race.
THEOREM PurchasesAreBooked == BuyerSpec => []PurchaseBooked
<1>1. PurchaseInv => PurchaseBooked
  BY DEF PurchaseInv
<1>. QED
  BY <1>1, PurchaseInduction, BuyerTypeCorrect, PTL DEF BuyerSpec

-----------------------------------------------------------------------------
(* The invariant of the deficit.                                           *)

\* The autonomous bids of a table that count.
AutoOf(r) == {b \in Bids : r[b].status \in {"PENDING", "ACCEPTED"} /\ r[b].auto}

\* The two names of their sum.
LEMMA AutoIs ==
  /\ AutoActive = AutoOf(bid) /\ AutoOf(bid) \subseteq Active /\ Active \subseteq Bids
  /\ Kwh(AutoActive) = KwhOf(bid, AutoOf(bid))
  /\ Kwh(AutoActive)' = KwhOf(bid', AutoOf(bid'))
<1>1. AutoActive = AutoOf(bid)
  BY DEF AutoActive, AutoOf, Active, In
<1>2. AutoActive' = AutoOf(bid')
  BY DEF AutoActive, AutoOf, Active, In
<1>3. Kwh(AutoActive)' = Total([b \in AutoActive' |-> bid'[b].qty])
  BY DEF Kwh
<1>. QED
  BY <1>1, <1>2, <1>3 DEF AutoOf, Active, In, Kwh, KwhOf

\* A step that makes no autonomous bid, and leaves no tick with more to buy.
NothingBought ==
  /\ AutoOf(bid') \subseteq AutoOf(bid)
  /\ \A b \in AutoOf(bid') : bid'[b].qty = bid[b].qty
  /\ task'.pc = "buying" => task' = task
  /\ plan' = plan

\* Such a step keeps the deficit covered.
LEMMA NothingBoughtKeeps ==
  ASSUME OwnTypeOK, OwnTypeOK', DeficitCovers, NothingBought
  PROVE  DeficitCovers'
<1>1. AutoOf(bid) \subseteq Bids /\ AutoOf(bid') \subseteq AutoOf(bid)
  BY DEF AutoOf, NothingBought
<1>2. KwhOf(bid', AutoOf(bid')) <= KwhOf(bid, AutoOf(bid))
  BY <1>1, KwhMonotone DEF OwnTypeOK, NothingBought
<1>3. KwhOf(bid, AutoOf(bid)) \in Nat /\ KwhOf(bid', AutoOf(bid')) \in Nat
  BY <1>1, KwhType DEF OwnTypeOK
<1>4. plan.deficit \in Nat /\ task.left \in Int
  BY BuyerAssumption DEF OwnTypeOK, Task
<1>. QED
  BY <1>2, <1>3, <1>4, AutoIs DEF DeficitCovers, NothingBought

\* A tick makes one more bid, and leaves what is still to cover.
LEMMA BuyForKeeps ==
  ASSUME FeedTypeOK, OwnTypeOK, DeficitCovers, NEW b \in Bids, NEW left \in Int,
         NEW S \in SUBSET Bids, BuyFor(b, left, S), plan' = plan,
         KwhOf(bid, AutoOf(bid)) + left <= plan.deficit
  PROVE  DeficitCovers'
<1>1. /\ bid' \in [Bids -> Bid] /\ bid[b] = NoBid
      /\ bid'[b].status = "PENDING" /\ bid'[b].auto
      /\ \A a \in Bids \ {b} : bid'[a] = bid[a]
      /\ bid'[b].qty <= left /\ task'.left = left - bid'[b].qty
  BY BuyForType
<1>2. /\ AutoOf(bid') = AutoOf(bid) \cup {b} /\ b \notin AutoOf(bid)
      /\ AutoOf(bid) \in SUBSET Bids
  BY <1>1 DEF AutoOf, NoBid
<1>3. KwhOf(bid', AutoOf(bid')) = KwhOf(bid, AutoOf(bid)) + bid'[b].qty
  BY <1>1, <1>2, KwhAdd DEF OwnTypeOK
<1>4. KwhOf(bid, AutoOf(bid)) \in Nat
  BY <1>2, KwhType DEF OwnTypeOK
<1>5. plan.deficit \in Nat /\ bid'[b].qty \in Nat
  BY <1>1, BuyerAssumption DEF OwnTypeOK, Bid
<1>. QED
  BY <1>1, <1>3, <1>4, <1>5, AutoIs DEF DeficitCovers

\* No step of a bid or of an answer exceeds the deficit.
LEMMA TradeCovers ==
  ASSUME FeedTypeOK, OwnTypeOK, OwnTypeOK', DeficitCovers, NEW b \in Bids, TradeStep(b)
  PROVE  DeficitCovers'
<1>0. plan.deficit \in Nat /\ task.left \in Int /\ task.bids \subseteq Bids
  BY BuyerAssumption DEF OwnTypeOK, Task
<1>1. CASE BidByHand(b)
  <2>0. PICK c \in Candidates : \E q \in MinBid..book[c].left : Enqueue(b, c, q, FALSE)
    BY <1>1 DEF BidByHand
  <2>1. PICK qty \in MinBid..book[c].left : Enqueue(b, c, qty, FALSE)
    BY <2>0
  <2>2. ~bid'[b].auto /\ \A a \in Bids \ {b} : bid'[a] = bid[a]
    BY <2>1 DEF Enqueue, OwnTypeOK
  <2>3. NothingBought
    BY <2>2, <1>1 DEF BidByHand, NothingBought, AutoOf
  <2>. QED
    BY <2>3, NothingBoughtKeeps
<1>2. CASE TickBuys(b)
  <2>1. BuyFor(b, plan.deficit - Kwh(Active), Active) /\ plan' = plan
    BY <1>2 DEF TickBuys
  <2>2. KwhOf(bid, AutoOf(bid)) <= KwhOf(bid, Active)
    BY AutoIs, KwhMonotone DEF OwnTypeOK
  <2>3. KwhOf(bid, AutoOf(bid)) \in Nat /\ KwhOf(bid, Active) \in Nat
    BY AutoIs, KwhType DEF OwnTypeOK
  <2>4. Kwh(Active) = KwhOf(bid, Active)
    BY KwhIs
  <2>5. /\ plan.deficit - Kwh(Active) \in Int
        /\ KwhOf(bid, AutoOf(bid)) + (plan.deficit - Kwh(Active)) <= plan.deficit
    BY <1>0, <2>2, <2>3, <2>4
  <2>. QED
    BY <2>1, <2>5, AutoIs, BuyForKeeps
<1>3. CASE TickGoesOn(b)
  <2>1. BuyFor(b, task.left, task.bids) /\ plan' = plan /\ task.pc = "buying"
    BY <1>3 DEF TickGoesOn
  <2>2. KwhOf(bid, AutoOf(bid)) + task.left <= plan.deficit
    BY <2>1, AutoIs DEF DeficitCovers
  <2>. QED
    BY <1>0, <2>1, <2>2, BuyForKeeps
<1>4. CASE BidAccepted(b) \/ BidRejected(b)
  <2>1. PICK x \in {"ACCEPTED", "REJECTED"} : Answered(b, x)
    BY <1>4 DEF BidAccepted, BidRejected
  <2>2. /\ bid[b].status = "PENDING" /\ plan' = plan /\ task' = task
        /\ bid'[b] = [bid[b] EXCEPT !.status = x]
        /\ \A a \in Bids \ {b} : bid'[a] = bid[a]
    BY <2>1 DEF Answered, OwnTypeOK
  <2>3. bid'[b].qty = bid[b].qty /\ bid'[b].auto = bid[b].auto
    BY <2>2 DEF OwnTypeOK, Bid
  <2>4. NothingBought
    BY <2>2, <2>3 DEF NothingBought, AutoOf
  <2>. QED
    BY <2>4, NothingBoughtKeeps
<1>. QED
  BY <1>1, <1>2, <1>3, <1>4 DEF TradeStep

\* The sweep only takes bids out of the sum.
LEMMA SweepCovers ==
  ASSUME OwnTypeOK, OwnTypeOK', DeficitCovers, NEW b \in Bids, SweepLooks(b) \/ SweepEnds(b)
  PROVE  DeficitCovers'
<1>1. /\ plan' = plan /\ task'.pc # "buying"
      /\ \/ bid' = bid
         \/ SetBidExpired(b)
         \/ bid' = [bid EXCEPT ![b].status = "EXPIRED"]
  BY DEF SweepLooks, SweepEnds, SweepRead, ExpireRead, SweepSettles, SweepBuries, ExpireWrite,
         Closed, Working, Idle
<1>2. \/ bid' = bid
      \/ /\ bid'[b].status \in {"EXPIRED", "REJECTED"}
         /\ \A a \in Bids \ {b} : bid'[a] = bid[a]
  BY <1>1 DEF SetBidExpired, OwnTypeOK, Bid
<1>3. NothingBought
  BY <1>1, <1>2 DEF NothingBought, AutoOf
<1>. QED
  BY <1>3, NothingBoughtKeeps

\* No other step touches a bid.
LEMMA OthersCover ==
  ASSUME OwnTypeOK, OwnTypeOK', PurchaseInv, DeficitCovers,
         \/ \E b \in Bids : \/ AcceptStep(b) \/ WalletStep(b) \/ Lapses(b) \/ LeaseEnds(b)
                            \/ \E fact \in WalletFacts : EventRead(b, fact)
         \/ EventApply \/ IngestAborts \/ Stops \/ Tick \/ UNCHANGED buyerVars
  PROVE  DeficitCovers'
<1>1. ASSUME NEW b \in Bids, AcceptStep(b)
      PROVE  plan' = plan /\ bid' = bid /\ task'.pc # "buying"
  BY <1>1, AcceptFacts DEF PurchaseInv
<1>2. ASSUME NEW b \in Bids,
             \/ WalletStep(b) \/ Lapses(b) \/ LeaseEnds(b)
             \/ \E fact \in WalletFacts : EventRead(b, fact)
      PROVE  plan' = plan /\ bid' = bid /\ task' = task
  BY <1>2 DEF WalletStep, SellerProposes, WalletAccepts, WalletConcludes, Lapses, LeaseEnds,
              EventRead
<1>3. ASSUME EventApply \/ IngestAborts \/ Stops \/ Tick \/ UNCHANGED buyerVars
      PROVE  plan' = plan /\ bid' = bid /\ (task' = task \/ task' = Idle)
  BY <1>3 DEF EventApply, IngestAborts, Stops, Tick, buyerVars
<1>4. NothingBought
  BY <1>1, <1>2, <1>3 DEF NothingBought, AutoOf, Idle
<1>. QED
  BY <1>4, NothingBoughtKeeps

\* The deficit is covered at first, and every step keeps it covered.
LEMMA DeficitInduction ==
  /\ FeedInit /\ BuyerInit => DeficitCovers
  /\ BuyerTypeOK /\ BuyerTypeOK' /\ PurchaseInv /\ DeficitCovers
     /\ [MarketNext]_<<feedVars, buyerVars>> => DeficitCovers'
<1>1. ASSUME BuyerInit PROVE DeficitCovers
  <2>1. AutoOf(bid) = {} /\ task.pc = "idle"
    BY <1>1 DEF BuyerInit, AutoOf, NoBid, Idle
  <2>2. KwhOf(bid, {}) = 0
    BY TotalEmpty DEF KwhOf
  <2>3. plan.deficit \in Nat
    BY <1>1, BuyerAssumption DEF BuyerInit
  <2>. QED
    BY <2>1, <2>2, <2>3, AutoIs DEF DeficitCovers
<1>2. ASSUME BuyerTypeOK, BuyerTypeOK', PurchaseInv, DeficitCovers, BuyerNext
      PROVE  DeficitCovers'
  <2>. FeedTypeOK /\ OwnTypeOK /\ OwnTypeOK'
    BY <1>2 DEF BuyerTypeOK, OwnTypeOK
  <2>1. ASSUME NEW b \in Bids, TradeStep(b) PROVE DeficitCovers'
    BY <1>2, <2>1, TradeCovers
  <2>2. ASSUME NEW b \in Bids, SweepLooks(b) \/ SweepEnds(b) PROVE DeficitCovers'
    BY <1>2, <2>2, SweepCovers
  <2>3. ASSUME NEW b \in Bids, \/ AcceptStep(b) \/ WalletStep(b) \/ Lapses(b) \/ LeaseEnds(b)
                               \/ \E fact \in WalletFacts : EventRead(b, fact)
        PROVE  DeficitCovers'
    BY <1>2, <2>3, OthersCover
  <2>4. CASE EventApply \/ IngestAborts \/ Stops \/ Tick
    BY <1>2, <2>4, OthersCover
  <2>. QED
    BY <1>2, <2>1, <2>2, <2>3, <2>4 DEF BuyerNext
<1>3. ASSUME BuyerTypeOK, BuyerTypeOK', PurchaseInv, DeficitCovers, UNCHANGED buyerVars
      PROVE  DeficitCovers'
  BY <1>3, OthersCover DEF BuyerTypeOK, OwnTypeOK
<1>. QED
  BY <1>1, <1>2, <1>3 DEF MarketNext

\* Purchases, records, bids and the deficit stay consistent in every instance.
THEOREM BuyerInvariant == BuyerSpec => []BuyerInv
<1>1. BuyerInv <=> PurchaseInv /\ DeficitCovers
  BY DEF BuyerInv, PurchaseInv
<1>2. BuyerSpec => [](PurchaseInv /\ DeficitCovers)
  BY PurchaseInduction, DeficitInduction, BuyerTypeCorrect, PTL DEF BuyerSpec
<1>. QED
  BY <1>1, <1>2, PTL

\* What was bought to cover the deficit never exceeds it: what the wallet
\* settled has a record, the record a bid that counts, and those are covered.
THEOREM DeficitIsNotExceeded == BuyerSpec => []NeverOverbuys
<1>1. BuyerTypeOK /\ BuyerInv => NeverOverbuys
  <2>. SUFFICES ASSUME BuyerTypeOK, BuyerInv PROVE NeverOverbuys
    OBVIOUS
  <2>. DEFINE S == {b \in Bids : bid[b].auto /\ wallet[b] = "settled"}
  <2>1. OwnTypeOK
    BY DEF BuyerTypeOK, OwnTypeOK
  <2>2. S \subseteq AutoOf(bid) /\ AutoOf(bid) \subseteq Bids
    BY DEF BuyerInv, PostedHasRecord, RecordIsCounted, Buried, AutoOf
  <2>. HIDE DEF S
  <2>3. KwhOf(bid, S) <= KwhOf(bid, AutoOf(bid))
    BY <2>1, <2>2, KwhMonotone DEF OwnTypeOK
  <2>4. KwhOf(bid, S) \in Nat /\ KwhOf(bid, AutoOf(bid)) \in Nat
    BY <2>1, <2>2, KwhType DEF OwnTypeOK
  <2>5. plan.deficit \in Nat
    BY <2>1, BuyerAssumption DEF OwnTypeOK
  <2>. QED
    BY <2>3, <2>4, <2>5, AutoIs, KwhIs DEF BuyerInv, DeficitCovers, NeverOverbuys, S
<1>. QED
  BY <1>1, BuyerInvariant, BuyerTypeCorrect, PTL

-----------------------------------------------------------------------------
(* The book and the feed.                                                  *)

\* Whether a message waits in the queue of the broker.
Waits(e) == \E i \in DOMAIN line : line[i] = e

\* Only the head leaves the queue, and not when it goes back.
LEMMA StillWaits ==
  ASSUME NEW S, NEW q \in Seq(S), q # <<>>, NEW i \in 1..Len(q)
  PROVE  /\ q[i] = Head(q) \/ \E j \in 1..Len(Tail(q)) : Tail(q)[j] = q[i]
         /\ \A n \in 0..Len(q) - 1 :
              LET r == SubSeq(q, 2, n + 1) \o <<Head(q)>> \o SubSeq(q, n + 2, Len(q))
              IN  \E j \in 1..Len(r) : r[j] = q[i]
<1>1. Len(q) \in Nat /\ Len(q) > 0 /\ Head(q) = q[1] /\ \A k \in 1..Len(q) : q[k] \in S
  OBVIOUS
<1>2. q[i] = Head(q) \/ \E j \in 1..Len(Tail(q)) : Tail(q)[j] = q[i]
  <2>1. CASE i = 1
    BY <1>1, <2>1
  <2>2. CASE i # 1
    <3>1. i - 1 \in 1..Len(Tail(q)) /\ Tail(q)[i - 1] = q[i]
      BY <1>1, <2>2
    <3>. QED
      BY <3>1
  <2>. QED
    BY <2>1, <2>2
<1>3. ASSUME NEW n \in 0..Len(q) - 1
      PROVE  LET r == SubSeq(q, 2, n + 1) \o <<Head(q)>> \o SubSeq(q, n + 2, Len(q))
             IN  \E j \in 1..Len(r) : r[j] = q[i]
  <2>. DEFINE a == SubSeq(q, 2, n + 1)
              z == SubSeq(q, n + 2, Len(q))
              m == <<Head(q)>>
              r == a \o m \o z
  <2>1. a \in Seq(S) /\ Len(a) = n /\ \A k \in 1..n : a[k] = q[k + 1]
    BY <1>1
  <2>2. z \in Seq(S) /\ Len(z) = Len(q) - n - 1 /\ \A k \in 1..Len(z) : z[k] = q[k + n + 1]
    BY <1>1
  <2>3. m \in Seq(S) /\ Len(m) = 1 /\ m[1] = q[1]
    BY <1>1
  <2>4. /\ Len(r) = Len(q)
        /\ \A k \in 1..Len(r) : r[k] = IF k <= n THEN a[k]
                                       ELSE IF k = n + 1 THEN m[1] ELSE z[k - n - 1]
    <3>. DEFINE y == a \o m
    <3>. HIDE DEF a, m, z
    <3>1. /\ y \in Seq(S) /\ Len(y) = n + 1
          /\ \A k \in 1..n + 1 : y[k] = IF k <= n THEN a[k] ELSE m[1]
      <4>1. n \in Nat
        BY <1>1
      <4>2. /\ y \in Seq(S) /\ Len(y) = Len(a) + Len(m)
            /\ \A k \in 1..Len(a) + Len(m) :
                 y[k] = IF k <= Len(a) THEN a[k] ELSE m[k - Len(a)]
        BY <2>1, <2>3, ConcatProperties
      <4>. HIDE DEF y
      <4>3. ASSUME NEW k \in 1..n + 1
            PROVE  y[k] = IF k <= n THEN a[k] ELSE m[1]
        <5>1. CASE k <= n
          BY <2>1, <2>3, <4>1, <4>2, <5>1
        <5>2. CASE k = n + 1
          BY <2>1, <2>3, <4>1, <4>2, <5>2
        <5>. QED
          BY <4>1, <5>1, <5>2
      <4>. QED
        BY <2>1, <2>3, <4>1, <4>2, <4>3
    <3>. HIDE DEF y
    <3>2. /\ Len(y \o z) = Len(q)
          /\ \A k \in 1..Len(q) : (y \o z)[k] = IF k <= n + 1 THEN y[k] ELSE z[k - n - 1]
      BY <1>1, <2>2, <3>1
    <3>. QED
      BY <1>1, <3>1, <3>2 DEF y
  <2>. HIDE DEF a, m, z, r
  <2>5. ASSUME i = 1
        PROVE  \E j \in 1..Len(r) : r[j] = q[i]
    <3>1. n \in Nat /\ n + 1 \in 1..Len(r)
      BY <1>1, <2>4
    <3>2. r[n + 1] = m[1]
      BY <2>4, <3>1
    <3>3. r[n + 1] = q[i]
      BY <2>3, <2>5, <3>2
    <3>. QED
      BY <3>1, <3>3
  <2>6. ASSUME i \in 2..n + 1
        PROVE  \E j \in 1..Len(r) : r[j] = q[i]
    <3>. DEFINE k == i - 1
    <3>1. k \in 1..n /\ k \in 1..Len(q) /\ k <= n /\ k + 1 = i
      BY <1>1, <2>6
    <3>2. k \in 1..Len(r) /\ a[k] = q[i]
      BY <2>1, <2>4, <3>1
    <3>. HIDE DEF k
    <3>3. r[k] = a[k]
      BY <2>4, <3>1, <3>2
    <3>. QED
      BY <3>2, <3>3
  <2>7. ASSUME i > n + 1
        PROVE  \E j \in 1..Len(r) : r[j] = q[i]
    <3>. DEFINE k == i - n - 1
    <3>1. k \in 1..Len(q) - n - 1 /\ k + n + 1 = i /\ ~(i <= n) /\ i # n + 1
      BY <1>1, <2>7
    <3>2. i \in 1..Len(r) /\ z[k] = q[i]
      BY <2>2, <2>4, <3>1
    <3>3. r[i] = z[k]
      BY <2>4, <3>1, <3>2
    <3>. QED
      BY <3>2, <3>3
  <2>8. \E j \in 1..Len(r) : r[j] = q[i]
    BY <1>1, <2>5, <2>6, <2>7
  <2>. QED
    BY <2>8 DEF r, a, m, z
<1>. QED
  BY <1>2, <1>3

\* A message moves a snapshot forward or leaves it in doubt.
LEMMA AppliedFacts ==
  ASSUME NEW s \in Snapshot, NEW e \in Nat, Type(e) \in OFFER_TYPES, NEW t,
         t = OfferApplied(s, e)
  PROVE  /\ t.state # "none" /\ t.last \in {s.last, e}
         /\ s.state = "none" => t.last = e
         /\ s.state # "none" /\ s.unsure => t.unsure
         /\ t.unsure \/ /\ t.last = e /\ t.left = script[e].left
                        /\ s.state # "none" => s.last < e
                        /\ t.state = "ACTIVE" => Type(e) # "offer-withdrawn"
<1>1. CASE s.state = "none"
  BY <1>1 DEF OfferApplied, First, OFFER_TYPES
<1>2. CASE s.state # "none" /\ s.offer # script[e].offer
  BY <1>2 DEF OfferApplied, Doubted, Snapshot
<1>3. CASE s.state # "none" /\ s.offer = script[e].offer /\ Type(e) = "offer"
  BY <1>3 DEF OfferApplied, Based, Doubted, Snapshot
<1>4. CASE s.state # "none" /\ s.offer = script[e].offer /\ Type(e) # "offer"
  BY <1>4 DEF OfferApplied, Old, Doubted, Snapshot
<1>. QED
  BY <1>1, <1>2, <1>3, <1>4

\* What a step that applies nothing must keep.
LEMMA QuietFeed ==
  ASSUME FeedTypeOK, FeedInv, UNCHANGED <<script, claims, book>>,
         market'.closed = market.closed, said' \in Nat, said <= said',
         \A e \in Published' : FeedValid(script[e].mail) =>
           \/ e \in lost' \/ Waits(e)' \/ e <= market'.gapAt
           \/ e \in Published /\ e \notin lost /\ ~Waits(e) /\ ~(e <= market.gapAt)
  PROVE  FeedInv'
<1>1. \A e, c : /\ Noted(e, c)' <=> Noted(e, c)
                /\ Genuine(e, c)' <=> Genuine(e, c)
                /\ Genuine(e, c) => FeedValid(script[e].mail)
  BY DEF Noted, Genuine, SameOperation, Seller
<1>2. Published \subseteq Published'
  BY DEF FeedTypeOK, Published
<1>3. ASSUME NEW c \in Cities, NEW e \in Published', Genuine(e, c), ~market.closed
      PROVE  e \in lost' \/ Waits(e)' \/ e <= market'.gapAt \/ Noted(e, c)
  BY <1>1, <1>3 DEF FeedInv, Waits
<1>. QED
  BY <1>1, <1>2, <1>3 DEF FeedInv, Waits, Seller, Type

\* Persisting the head keeps it.
LEMMA PersistKeeps ==
  ASSUME FeedTypeOK, FeedInv, NEW e \in Published, FeedValid(script[e].mail), Persist(e),
         UNCHANGED <<script, said, lost>>,
         \A x \in Published : Waits(x) /\ x # e => Waits(x)'
  PROVE  FeedInv'
<1>1. /\ said \in Nat /\ e \in Nat /\ e <= said /\ claims \subseteq Published
      /\ Published' = Published /\ Published \subseteq Nat
      /\ book \in [Cities -> Snapshot]
  BY DEF FeedTypeOK, Published
<1>2. \A x, c : /\ Genuine(x, c)' <=> Genuine(x, c)
                /\ Genuine(x, c) => Seller(x) = c
  BY DEF Genuine, SameOperation, Seller
<1>3. \A f \in claims' : FeedValid(script[f].mail)
  BY DEF Persist, FeedInv
<1>4. CASE Claimed(e) \/ market.closed
  <2>1. UNCHANGED <<book, market>>
    BY <1>4 DEF Persist
  <2>2. \A x, c : Noted(x, c)' <=> Noted(x, c)
    BY <2>1 DEF Noted
  <2>3. ASSUME ~market.closed, NEW c \in Cities, Genuine(e, c)
        PROVE  Noted(e, c)
    <3>1. PICK f \in claims : SameOperation(e, f)
      BY <1>4, <2>3 DEF Claimed
    <3>2. f \in Nat /\ f >= 1 /\ FeedValid(script[f].mail)
      BY <1>1 DEF FeedInv, Published
    <3>3. f \notin 1..e - 1
      BY <2>3, <3>1, <3>2 DEF Genuine
    <3>4. e <= f /\ Seller(f) = c
      BY <1>1, <1>2, <2>3, <3>1, <3>2, <3>3 DEF SameOperation
    <3>5. Noted(f, c)
      BY <2>3, <3>4 DEF FeedInv
    <3>6. book[c].last \in Nat
      BY <1>1 DEF Snapshot
    <3>. QED
      BY <1>1, <3>2, <3>4, <3>5, <3>6 DEF Noted
  <2>4. ~market.closed => claims' = claims
    BY <1>4 DEF Persist
  <2>5. ASSUME ~market.closed, NEW c \in Cities, NEW x \in Published, Genuine(x, c)
        PROVE  x \in lost \/ Waits(x)' \/ x <= market.gapAt \/ Noted(x, c)
    BY <2>3, <2>5 DEF FeedInv, Waits
  <2>. QED
    BY <1>1, <1>2, <1>3, <2>1, <2>2, <2>4, <2>5 DEF FeedInv, Waits, Seller, Type
<1>5. CASE ~Claimed(e) /\ ~market.closed /\ Type(e) = "market-closed"
  <2>1. market'.closed /\ book' = BookClosed
    BY <1>5 DEF Persist, FeedTypeOK
  <2>2. ASSUME NEW c \in Cities
        PROVE  /\ book'[c].state = "none" <=> book[c].state = "none"
               /\ book'[c].last = book[c].last /\ book'[c].left = book[c].left
               /\ book'[c].unsure = book[c].unsure
               /\ book'[c].state # "ACTIVE"
    BY <1>1, <2>1 DEF BookClosed, Snapshot
  <2>. QED
    BY <1>1, <1>3, <2>1, <2>2 DEF FeedInv, Seller, Type
<1>6. CASE ~Claimed(e) /\ ~market.closed /\ Type(e) # "market-closed"
  <2>. PICK d : d = Seller(e)
    OBVIOUS
  <2>1. /\ d \in Cities /\ Type(e) \in OFFER_TYPES
        /\ claims' = claims \cup {e} /\ market' = market
        /\ book' = [book EXCEPT ![d] = OfferApplied(@, e)]
    BY <1>6 DEF FeedValid, Persist, Seller, Type
  <2>. PICK s, t : s = book[d] /\ t = book'[d]
    OBVIOUS
  <2>2. s \in Snapshot /\ t = OfferApplied(s, e) /\ \A c \in Cities \ {d} : book'[c] = book[c]
    BY <1>1, <2>1
  <2>3. /\ t.state # "none" /\ t.last \in {s.last, e}
        /\ s.state = "none" => t.last = e
        /\ s.state # "none" /\ s.unsure => t.unsure
        /\ t.unsure \/ /\ t.last = e /\ t.left = script[e].left
                       /\ s.state # "none" => s.last < e
                       /\ t.state = "ACTIVE" => Type(e) # "offer-withdrawn"
    BY <1>1, <2>1, <2>2, AppliedFacts
  <2>4. s.last \in Nat
    BY <2>2 DEF Snapshot
  <2>5. ASSUME NEW c \in Cities, NEW x \in Published, Noted(x, c)
        PROVE  Noted(x, c)'
    <3>1. CASE c = d
      <4>1. s.state # "none" /\ (s.unsure \/ x <= s.last)
        BY <2>5, <3>1 DEF Noted
      <4>2. t.unsure \/ x <= t.last
        BY <1>1, <2>3, <2>4, <4>1
      <4>. QED
        BY <2>3, <3>1, <4>2 DEF Noted
    <3>2. CASE c # d
      BY <2>2, <2>5, <3>2 DEF Noted
    <3>. QED
      BY <3>1, <3>2
  <2>6. Noted(e, d)'
    BY <1>1, <2>3 DEF Noted
  <2>7. ASSUME NEW c \in Cities, book'[c].state # "none"
        PROVE  /\ book'[c].last \in Published
               /\ ~book'[c].unsure =>
                    /\ Seller(book'[c].last) = c /\ FeedValid(script[book'[c].last].mail)
                    /\ book'[c].left = script[book'[c].last].left
                    /\ book'[c].state = "ACTIVE" => Type(book'[c].last) # "offer-withdrawn"
    <3>1. CASE c = d
      <4>1. t.last \in Published
        BY <2>3, <3>1 DEF FeedInv
      <4>. QED
        BY <2>3, <3>1, <4>1
    <3>2. CASE c # d
      BY <2>2, <2>7, <3>2 DEF FeedInv
    <3>. QED
      BY <3>1, <3>2
  <2>8. ASSUME NEW c \in Cities, NEW f \in claims', Seller(f) = c
        PROVE  Noted(f, c)'
    <3>1. CASE f = e
      BY <2>6, <2>8, <3>1
    <3>2. CASE f \in claims
      <4>1. Noted(f, c) /\ f \in Published
        BY <1>1, <1>6, <2>8, <3>2 DEF FeedInv
      <4>. QED
        BY <2>5, <4>1
    <3>. QED
      BY <2>1, <2>8, <3>1, <3>2
  <2>9. ASSUME NEW c \in Cities, NEW x \in Published, Genuine(x, c)
        PROVE  x \in lost \/ Waits(x)' \/ x <= market.gapAt \/ Noted(x, c)'
    BY <1>2, <1>6, <2>5, <2>6, <2>9 DEF FeedInv, Waits
  <2>. QED
    BY <1>1, <1>2, <1>3, <2>1, <2>7, <2>8, <2>9 DEF FeedInv, Waits, Seller, Type
<1>. QED
  BY <1>4, <1>5, <1>6

\* The feed starts current, and every step keeps it so.
LEMMA FeedInduction ==
  /\ FeedInit => FeedInv
  /\ FeedTypeOK /\ FeedInv /\ FeedNext => FeedInv'
<1>1. ASSUME FeedInit PROVE FeedInv
  BY <1>1 DEF FeedInit, FeedInv, NoSnapshot, Published
<1>. SUFFICES ASSUME FeedTypeOK, FeedInv, FeedNext PROVE FeedInv'
  BY <1>1
<1>3. /\ said \in Nat /\ line \in Seq(Published) /\ Published \subseteq Nat
      /\ market.gapAt \in Nat /\ market.gapAt <= said
  BY DEF FeedTypeOK, Published
<1>4. ASSUME line # <<>>
      PROVE  /\ Head(line) \in Published
             /\ \A e : Waits(e) /\ line' = Tail(line) => e = Head(line) \/ Waits(e)'
             /\ \A e, n : Waits(e) /\ n \in 0..Len(line) - 1 /\ line' = Requeued(n) => Waits(e)'
  <2>1. Head(line) \in Published
    BY <1>3, <1>4
  <2>2. ASSUME NEW e, Waits(e), line' = Tail(line), e # Head(line)
        PROVE  Waits(e)'
    <3>1. PICK i \in 1..Len(line) : line[i] = e
      BY <1>3, <2>2 DEF Waits
    <3>2. \E j \in 1..Len(Tail(line)) : Tail(line)[j] = e
      BY <1>3, <1>4, <2>2, <3>1, StillWaits
    <3>3. Tail(line) \in Seq(Published)
      BY <1>3, <1>4
    <3>4. DOMAIN line' = 1..Len(Tail(line))
      BY <2>2, <3>3
    <3>. QED
      BY <2>2, <3>2, <3>4 DEF Waits
  <2>3. ASSUME NEW e, NEW n \in 0..Len(line) - 1, Waits(e), line' = Requeued(n)
        PROVE  Waits(e)'
    <3>1. PICK i \in 1..Len(line) : line[i] = e
      BY <1>3, <2>3 DEF Waits
    <3>2. \E j \in 1..Len(Requeued(n)) : Requeued(n)[j] = line[i]
      BY <1>3, <1>4, StillWaits DEF Requeued
    <3>3. Requeued(n) \in Seq(Published)
      BY <1>3, <1>4, QueueType DEF Requeued
    <3>4. DOMAIN line' = 1..Len(Requeued(n))
      BY <2>3, <3>3
    <3>. QED
      BY <2>3, <3>1, <3>2, <3>4 DEF Waits
  <2>. QED
    BY <2>1, <2>2, <2>3
<1>5. CASE Publish
  <2>1. \A e : Waits(e) \/ e = said + 1 => Waits(e)'
    <3>1. /\ Published \subseteq Published' /\ said + 1 \in Published'
          /\ line' = Append(line, said + 1) /\ Len(line) \in Nat
      BY <1>3, <1>5 DEF Publish, Published
    <3>2. /\ DOMAIN line' = 1..Len(line) + 1 /\ line'[Len(line) + 1] = said + 1
          /\ \A i \in DOMAIN line : i \in DOMAIN line' /\ line'[i] = line[i]
      <4>1. PICK T : T = Published' /\ Published \subseteq T /\ said + 1 \in T
        BY <3>1
      <4>2. line \in Seq(T) /\ DOMAIN line = 1..Len(line)
        <5>1. line \in Seq(T)
          BY ONLY <1>3, <4>1, SeqMonotonic
        <5>. QED
          BY ONLY <5>1
      <4>3. line' \in Seq(T) /\ Len(line') = Len(line) + 1
            /\ (\A i \in 1..Len(line) : line'[i] = line[i])
            /\ line'[Len(line) + 1] = said + 1
        <5>1. PICK a : a = said + 1 /\ a \in T /\ line' = Append(line, a)
          BY <3>1, <4>1
        <5>2. /\ Append(line, a) \in Seq(T) /\ Len(Append(line, a)) = Len(line) + 1
              /\ \A i \in 1..Len(line) : Append(line, a)[i] = line[i]
              /\ Append(line, a)[Len(line) + 1] = a
          BY ONLY <4>2, <5>1, AppendProperties
        <5>. QED
          BY <5>1, <5>2
      <4>4. DOMAIN line' = 1..Len(line) + 1
        BY <4>3
      <4>. QED
        BY <3>1, <4>2, <4>3, <4>4
    <3>3. Len(line) + 1 \in DOMAIN line'
      BY <3>1, <3>2
    <3>. QED
      BY <3>2, <3>3 DEF Waits
  <2>2. \A e \in Published' : e \in Published \/ e = said + 1
    BY <1>3, <1>5 DEF Publish, Published
  <2>. QED
    BY <1>3, <1>5, <2>1, <2>2, QuietFeed DEF Publish
<1>6. CASE FeedDropped
  <2>1. \A e : Waits(e) => Waits(e)' \/ ~FeedValid(script[e].mail)
    BY <1>4, <1>6 DEF FeedDropped, Spoken
  <2>. QED
    BY <1>3, <1>6, <2>1, QuietFeed DEF FeedDropped, Published
<1>7. CASE FeedPersisted
  BY <1>4, <1>7, PersistKeeps DEF FeedPersisted, Spoken
<1>8. CASE FeedRefused
  <2>1. \A e : Waits(e) => Waits(e)'
    BY <1>4, <1>8 DEF FeedRefused
  <2>. QED
    BY <1>3, <1>8, <2>1, QuietFeed DEF FeedRefused, Published
<1>9. CASE FeedAnswerLost
  <2>1. \A e : Waits(e) => Waits(e)'
    BY <1>4, <1>9 DEF FeedAnswerLost
  <2>. QED
    BY <1>4, <1>9, <2>1, PersistKeeps DEF FeedAnswerLost, Spoken
<1>10. CASE FeedExpires
  <2>1. \A e : Waits(e) => Waits(e)' \/ e \in lost'
    BY <1>4, <1>10 DEF FeedExpires
  <2>. QED
    BY <1>3, <1>10, <2>1, QuietFeed DEF FeedExpires, Published
<1>11. CASE Reconnect
  <2>1. /\ market'.closed = market.closed
        /\ market'.gapAt = said \/ (lost' = lost /\ market'.gapAt = market.gapAt)
    BY <1>11 DEF Reconnect, FeedTypeOK
  <2>2. \A e : Waits(e)' <=> Waits(e)
    BY <1>11 DEF Reconnect, Waits
  <2>. QED
    BY <1>3, <1>11, <2>1, <2>2, QuietFeed DEF Reconnect, Published
<1>12. CASE FeedBreaks \/ StatusArrives
  <2>1. \A e : Waits(e)' <=> Waits(e)
    BY <1>12 DEF FeedBreaks, StatusArrives, Waits
  <2>. QED
    BY <1>3, <1>12, <2>1, QuietFeed DEF FeedBreaks, StatusArrives, Published
<1>. QED
  BY <1>5, <1>6, <1>7, <1>8, <1>9, <1>10, <1>11, <1>12 DEF FeedNext

\* Every message of a seller is noted, waits, was lost or came before a gap
\* (market_feed.persist_market_feed).
THEOREM FeedInvariant == BuyerSpec => []FeedInv
<1>1. BuyerTypeOK /\ FeedInv /\ [MarketNext]_<<feedVars, buyerVars>> => FeedInv'
  <2>1. UNCHANGED feedVars /\ FeedInv => FeedInv'
    BY DEF feedVars, FeedInv, Noted, Genuine, SameOperation, Published, Seller, Type
  <2>. QED
    BY <2>1, FeedInduction DEF BuyerTypeOK, MarketNext
<1>. QED
  BY <1>1, FeedInduction, BuyerTypeCorrect, PTL DEF BuyerSpec

\* What the city would buy from stands as its seller last described it
\* (market_book.get_market_book).
THEOREM BookStaysCurrent == BuyerSpec => []BookIsCurrent
<1>1. BuyerTypeOK /\ FeedInv => BookIsCurrent
  <2>. SUFFICES ASSUME FeedTypeOK, FeedInv, NEW c \in Cities, Trusted(c)
                PROVE  /\ book[c].last \in Published /\ Seller(book[c].last) = c
                       /\ FeedValid(script[book[c].last].mail)
                       /\ Type(book[c].last) # "offer-withdrawn"
                       /\ book[c].left = script[book[c].last].left
                       /\ \A e \in book[c].last + 1..said :
                            Genuine(e, c) => e \in lost \/ \E i \in DOMAIN line : line[i] = e
    BY DEF BuyerTypeOK, BookIsCurrent
  <2>1. /\ book[c].state = "ACTIVE" /\ ~book[c].unsure /\ ~market.closed
        /\ market.gapAt # 0 => ~(book[c].last <= market.gapAt)
    BY DEF Trusted, Stale, GapRisk
  <2>2. /\ book[c].last \in Published /\ Seller(book[c].last) = c
        /\ FeedValid(script[book[c].last].mail)
        /\ Type(book[c].last) # "offer-withdrawn"
        /\ book[c].left = script[book[c].last].left
    BY <2>1 DEF FeedInv
  <2>3. said \in Nat /\ market.gapAt \in Nat /\ book[c].last \in 1..said
    BY <2>2 DEF FeedTypeOK, Published
  <2>4. ASSUME NEW e \in book[c].last + 1..said, Genuine(e, c)
        PROVE  e \in lost \/ \E i \in DOMAIN line : line[i] = e
    <3>1. e \in Published /\ ~(e <= book[c].last) /\ ~(e <= market.gapAt)
      BY <2>1, <2>3 DEF Published
    <3>. QED
      BY <2>1, <2>4, <3>1 DEF FeedInv, Noted
  <2>. QED
    BY <2>2, <2>4
<1>. QED
  BY <1>1, FeedInvariant, BuyerTypeCorrect, PTL
=============================================================================
