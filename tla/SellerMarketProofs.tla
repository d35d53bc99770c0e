------------------------- MODULE SellerMarketProofs -------------------------
(***************************************************************************)
(* Theorems about SellerMarket, for every set of bids, every quantity, any *)
(* number of workers and any bound on the attempts: its types, that the    *)
(* seller never oversells, and that its lots waste nothing.  StockInv is   *)
(* inductive together with TypeOK: bids are reserved against what the      *)
(* offer row says under its lock, so it is enough that whatever a lot or   *)
(* an ingress reserves fits in what is available, and that a settlement    *)
(* moves the KWH it finds held, once, from held to sold.                   *)
(***************************************************************************)
EXTENDS SellerMarket, TLAPS, FiniteSetTheorems, WellFoundedInduction

-----------------------------------------------------------------------------
(* The KWH of a set of bids.                                               *)

\* A sum of quantities is a natural number.
LEMMA KwhType ==
  ASSUME NEW S
  PROVE  IsFiniteSet(Units(S)) /\ Kwh(S) \in Nat
<1>1. IsFiniteSet(1..MaxQty)
  BY FS_Interval, BidsAssumption
<1>2. IsFiniteSet(Bids \X (1..MaxQty))
  BY <1>1, FS_Product, BidsAssumption
<1>3. Units(S) \in SUBSET (Bids \X (1..MaxQty))
  BY DEF Units
<1>4. IsFiniteSet(Units(S))
  BY <1>2, <1>3, FS_Subset
<1>. QED
  BY <1>4, FS_CardinalityType DEF Kwh

\* No bids, no KWH.
LEMMA KwhEmpty == Kwh({}) = 0
<1>1. Units({}) = {}
  BY DEF Units
<1>. QED
  BY <1>1, FS_EmptySet DEF Kwh

\* The KWH of one bid is its quantity.
LEMMA KwhSingle ==
  ASSUME NEW b \in Bids
  PROVE  Kwh({b}) = Qty[b]
<1>0. Qty[b] \in 1..MaxQty /\ MaxQty \in Nat
  BY BidsAssumption
<1>1. Units({b}) = {b} \X (1..Qty[b])
  BY <1>0 DEF Units
<1>2. IsFiniteSet(1..Qty[b]) /\ Cardinality(1..Qty[b]) = Qty[b]
  BY <1>0, FS_Interval
<1>3. IsFiniteSet({b}) /\ Cardinality({b}) = 1
  BY FS_Singleton
<1>4. Cardinality({b} \X (1..Qty[b])) = 1 * Qty[b]
  BY <1>2, <1>3, FS_Product
<1>. QED
  BY <1>0, <1>1, <1>4 DEF Kwh

\* The KWH of disjoint sets of bids add up.
LEMMA KwhUnion ==
  ASSUME NEW S, NEW T, S \cap T = {}
  PROVE  Kwh(S \cup T) = Kwh(S) + Kwh(T)
<1>1. Units(S \cup T) = Units(S) \cup Units(T)
  BY DEF Units
<1>2. Units(S) \cap Units(T) = {}
  BY DEF Units
<1>3. IsFiniteSet(Units(S)) /\ IsFiniteSet(Units(T))
  BY KwhType
<1>4. Cardinality(Units(S) \cap Units(T)) = 0
  BY <1>2, FS_EmptySet
<1>5. Kwh(S) \in Nat /\ Kwh(T) \in Nat
  BY KwhType
<1>6. Cardinality(Units(S) \cup Units(T))
        = Cardinality(Units(S)) + Cardinality(Units(T))
            - Cardinality(Units(S) \cap Units(T))
  BY ONLY <1>3, FS_Union
<1>7. Kwh(S \cup T) = Kwh(S) + Kwh(T) - 0
  BY <1>1, <1>4, <1>6, Zenon DEF Kwh
<1>. QED
  BY <1>5, <1>7

\* Adding a bid adds its quantity.
LEMMA KwhAdd ==
  ASSUME NEW S, NEW b \in Bids, b \notin S
  PROVE  Kwh(S \cup {b}) = Kwh(S) + Qty[b]
<1>1. S \cap {b} = {}
  OBVIOUS
<1>. QED
  BY <1>1, KwhUnion, KwhSingle

\* Removing a bid removes its quantity.
LEMMA KwhRemove ==
  ASSUME NEW S, NEW b \in S, b \in Bids
  PROVE  Kwh(S) = Kwh(S \ {b}) + Qty[b]
<1>1. S = (S \ {b}) \cup {b}
  OBVIOUS
<1>. QED
  BY <1>1, KwhAdd

\* A bigger set of bids asks for no less.
LEMMA KwhMonotone ==
  ASSUME NEW S, NEW T, S \subseteq T
  PROVE  Kwh(S) <= Kwh(T)
<1>1. T = S \cup (T \ S) /\ S \cap (T \ S) = {}
  OBVIOUS
<1>2. Kwh(T) = Kwh(S) + Kwh(T \ S)
  BY <1>1, KwhUnion
<1>. QED
  BY <1>2, KwhType

----------------------------------------------------------------------------
(* Types.                                                                  *)

\* What a transaction writes on learning a fact is a swap record.
LEMMA LearnedType ==
  ASSUME NEW r \in SwapRecord, NEW seen \in SwapRecord,
         NEW fact \in Facts, NEW dated \in BOOLEAN
  PROVE  Learned(r, seen, fact, dated) \in SwapRecord
<1>1. CASE Live(seen)
  <2>. DEFINE st == IF seen.status = StatusOf[fact] THEN r.status
                    ELSE StatusOf[fact]
              ex == r.expiresAt \/ dated
  <2>1. st \in {"NONE", "SUBMITTED", "PROPOSED"} \cup Terminal
    BY DEF SwapRecord, StatusOf, Facts, DeadFacts, Terminal
  <2>2. ex \in BOOLEAN
    BY DEF SwapRecord
  <2>3. Learned(r, seen, fact, dated)
          = [r EXCEPT !.status = st, !.swapId = TRUE, !.expiresAt = ex]
    BY <1>1 DEF Learned
  <2>. HIDE DEF st, ex
  <2>. QED
    BY <2>1, <2>2, <2>3 DEF SwapRecord
<1>2. CASE ~Live(seen)
  BY <1>2 DEF Learned, SwapRecord, Terminal
<1>. QED
  BY <1>1, <1>2

\* So is what a worker writes when it finishes an attempt.
LEMMA FinishedType ==
  ASSUME NEW r \in SwapRecord, NEW token, NEW out
  PROVE  Finished(r, token, out) \in SwapRecord
<1>. DEFINE id == r.swapId \/ out \in Confirmed \ {"acceptedNoId"}
            ok == r.accepted \/ out \in Confirmed
            no == (r.blocked \/ out = "blocked") /\ out \notin Confirmed
<1>1. id \in BOOLEAN /\ ok \in BOOLEAN /\ no \in BOOLEAN
  OBVIOUS
<1>2. 0 \in 0..MaxAttempts
  BY ModelAssumption
<1>3. \/ Finished(r, token, out) = r
      \/ Finished(r, token, out)
           = [r EXCEPT !.token = 0, !.lease = FALSE, !.accepted = ok]
      \/ Finished(r, token, out)
           = [r EXCEPT !.token = 0, !.lease = FALSE, !.swapId = id,
                       !.accepted = ok, !.blocked = no]
  BY DEF Finished
<1>. HIDE DEF id, ok, no
<1>. QED
  BY <1>1, <1>2, <1>3 DEF SwapRecord

\* A reservation starts with a fresh intent, a claim counts one attempt.
LEMMA IntentType ==
  /\ NoSwap \in SwapRecord
  /\ [NoSwap EXCEPT !.status = "SUBMITTED"] \in SwapRecord
<1>1. 0 \in 0..MaxAttempts
  BY ModelAssumption
<1>. QED
  BY <1>1 DEF NoSwap, SwapRecord

LEMMA ClaimType ==
  ASSUME NEW r \in SwapRecord, NEW n \in 0..MaxAttempts
  PROVE  [r EXCEPT !.attempts = n, !.token = n, !.lease = TRUE] \in SwapRecord
  BY DEF SwapRecord

LEMMA LeaseType ==
  ASSUME NEW r \in SwapRecord
  PROVE  [r EXCEPT !.lease = FALSE] \in SwapRecord
  BY DEF SwapRecord

\* What applying a fact may write has the right types.
LEMMA ApplyFactType ==
  ASSUME TypeOK, NEW b \in Bids, NEW r \in SwapRecord,
         NEW seen \in SwapRecord, NEW fact \in Facts, NEW dated \in BOOLEAN,
         ApplyFact(b, r, seen, fact, dated)
  PROVE  /\ swap' \in [Bids -> SwapRecord]
         /\ ledger' \subseteq Bids \X {"swapId", "idpk"}
         /\ res' \in [Bids -> {"NONE", "HOLD", "COMMITTED", "RELEASED"}]
         /\ remaining' \in Nat
<1>1. swap' \in [Bids -> SwapRecord]
  BY LearnedType DEF ApplyFact, TypeOK
<1>2. ledger' \subseteq Bids \X {"swapId", "idpk"}
  BY DEF ApplyFact, TypeOK, LedgerKey
<1>3. res' \in [Bids -> {"NONE", "HOLD", "COMMITTED", "RELEASED"}]
  BY DEF ApplyFact, TypeOK
<1>4. remaining' \in Nat
  <2>1. Qty[b] \in Nat
    BY BidsAssumption
  <2>. QED
    BY <2>1 DEF ApplyFact, TypeOK, Less
<1>. QED
  BY <1>1, <1>2, <1>3, <1>4

LEMMA ObserveType ==
  ASSUME TypeOK, NEW b \in Bids, NEW r \in SwapRecord, NEW fact \in Facts,
         Observe(b, r, fact)
  PROVE  /\ swap' \in [Bids -> SwapRecord]
         /\ ledger' \subseteq Bids \X {"swapId", "idpk"}
         /\ res' \in [Bids -> {"NONE", "HOLD", "COMMITTED", "RELEASED"}]
         /\ remaining' \in Nat
<1>1. CASE r.swapId /\ Live(r)
  BY <1>1, ApplyFactType DEF Observe
<1>2. CASE ~(r.swapId /\ Live(r))
  BY <1>2 DEF Observe, TypeOK
<1>. QED
  BY <1>1, <1>2

\* Every offer or bid step keeps the types.
LEMMA TypeMarket ==
  ASSUME TypeOK, OfferStep \/ BidStep \/ TimeStep \/ WalletStep
  PROVE  TypeOK'
<1>. USE DEF TypeOK, market, stock, external
<1>1. CASE PublishOffer
  BY <1>1, ModelAssumption DEF PublishOffer
<1>2. CASE WithdrawOffer
  BY <1>2 DEF WithdrawOffer
<1>3. CASE MarketClosed
  BY <1>3 DEF MarketClosed
<1>4. CASE CloseExpiredOffer
  BY <1>4 DEF CloseExpiredOffer
<1>5. ASSUME NEW W \in SUBSET Bids, NEW L \in SUBSET Bids, Decide(W, L)
      PROVE  TypeOK'
  <2>2. swap' \in [Bids -> SwapRecord]
    BY <1>5, IntentType DEF Decide
  <2>3. bid' \in [Bids -> {"NEW", "REFUSED", "PENDING", "RESERVED", "ACCEPTED",
                          "REJECTED", "EXPIRED"}]
    BY <1>5 DEF Decide
  <2>4. res' \in [Bids -> {"NONE", "HOLD", "COMMITTED", "RELEASED"}]
    BY <1>5 DEF Decide
  <2>5. replies' \subseteq Bids \X {"accepted", "rejected"}
    BY <1>5 DEF Decide
  <2>. QED
    BY <1>5, <2>2, <2>3, <2>4, <2>5 DEF Decide
<1>6. CASE DecideLot
  <2>1. PICK W \in SUBSET Pending : Decide(W, Pending \ W)
    BY <1>6 DEF DecideLot
  <2>2. W \in SUBSET Bids /\ Pending \ W \in SUBSET Bids
    BY DEF Pending
  <2>. QED
    BY <1>5, <2>1, <2>2
<1>7. ASSUME NEW b \in Bids, BidForUnknownOffer(b)
      PROVE  TypeOK'
  BY <1>7 DEF BidForUnknownOffer
<1>8. ASSUME NEW b \in Bids, BidRefused(b)
      PROVE  TypeOK'
  BY <1>5, <1>8 DEF BidRefused
<1>9. ASSUME NEW b \in Bids, BidReservedOnIngress(b)
      PROVE  TypeOK'
  BY <1>5, <1>9 DEF BidReservedOnIngress
<1>10. ASSUME NEW b \in Bids, BidQueued(b)
       PROVE  TypeOK'
  BY <1>10 DEF BidQueued
<1>11. CASE Tick
  BY <1>11 DEF Tick
<1>12. ASSUME NEW b \in Bids, DeadlinePasses(b)
       PROVE  TypeOK'
  BY <1>12 DEF DeadlinePasses
<1>13. ASSUME NEW b \in Bids, LeaseExpires(b)
       PROVE  TypeOK'
  <2>1. swap' = [swap EXCEPT ![b] = [swap[b] EXCEPT !.lease = FALSE]]
    BY <1>13 DEF LeaseExpires
  <2>2. swap' \in [Bids -> SwapRecord]
    BY <2>1, LeaseType
  <2>. QED
    BY <1>13, <2>2 DEF LeaseExpires
<1>14. ASSUME NEW b \in Bids, WalletReceives(b)
       PROVE  TypeOK'
  BY <1>14 DEF WalletReceives
<1>15. ASSUME NEW b \in Bids, WalletMoves(b)
       PROVE  TypeOK'
  BY <1>15 DEF WalletMoves
<1>. QED
  BY <1>1, <1>2, <1>3, <1>4, <1>6, <1>7, <1>8, <1>9, <1>10, <1>11, <1>12,
     <1>13, <1>14, <1>15
     DEF OfferStep, BidStep, TimeStep, WalletStep

\* A task that is not idle works on a bid, and so does an ingest.
LEMMA WorkType ==
  ASSUME TypeOK, NEW w \in Workers, task[w].pc # "idle"
  PROVE  /\ task[w] \in Work /\ task[w].bid \in Bids
         /\ task[w].answer \in Answers /\ task[w].snap \in SwapRecord
         /\ swap[task[w].bid] \in SwapRecord
<1>1. task[w] \in Work
  BY DEF TypeOK, Task, Idle
<1>. QED
  BY <1>1 DEF TypeOK, Work

LEMMA IngestType ==
  ASSUME TypeOK, ingest # NoEvent
  PROVE  /\ ingest.bid \in Bids /\ ingest.fact \in Facts
         /\ ingest.snap \in SwapRecord /\ swap[ingest.bid] \in SwapRecord
  BY DEF TypeOK, Event

\* The tasks a step may leave a worker with.
LEMMA NextTaskType ==
  ASSUME NEW t \in Work, NEW a \in Answers,
         NEW pc \in {"claimed", "inspected", "posted", "answered", "swept"}
  PROVE  [t EXCEPT !.pc = pc, !.answer = a] \in Task
  BY DEF Task, Work

LEMMA FirstTaskType ==
  ASSUME NEW b \in Bids, NEW n \in 0..MaxAttempts, NEW r \in SwapRecord,
         NEW pc \in {"claimed", "swept"}
  PROVE  Started(pc, b, n, r) \in Task /\ Started(pc, b, n, r).pc = pc
  BY DEF Started, Task, Work, Answers

\* Every step of a worker or of the ingest keeps the types.
LEMMA TypeWork ==
  ASSUME TypeOK, IngestStep \/ \E w \in Workers : WorkerStep(w)
  PROVE  TypeOK'
<1>. DEFINE TaskOK == /\ task' \in [Workers -> Task]
                      /\ \A w \in Workers : task'[w].pc = "inspected"
                                             => task'[w].answer \in Facts
<1>1. ASSUME NEW w \in Workers, NEW t \in Task, Goes(w, t),
             t.pc = "inspected" => t.answer \in Facts
      PROVE  TaskOK
  BY <1>1 DEF Goes, TypeOK
<1>2. ASSUME NEW w \in Workers, Goes(w, Idle)
      PROVE  TaskOK
  BY <1>1, <1>2 DEF Task, Idle
<1>3. ASSUME NEW w \in Workers, NEW b \in Bids, Claim(w, b)
      PROVE  TypeOK'
  <2>. DEFINE n == swap[b].attempts + 1
  <2>1. n \in 0..MaxAttempts
    BY <1>3, ModelAssumption DEF Claim, Claimable, TypeOK, SwapRecord
  <2>2. swap' = [swap EXCEPT ![b] = [swap[b] EXCEPT !.attempts = n, !.token = n,
                                                    !.lease = TRUE]]
    BY <1>3 DEF Claim
  <2>3. swap' \in [Bids -> SwapRecord]
    BY <2>1, <2>2, ClaimType DEF TypeOK
  <2>4. Goes(w, Started("claimed", b, n, NoSwap))
    BY <1>3 DEF Claim
  <2>5. TaskOK
    <3>1. /\ Started("claimed", b, n, NoSwap) \in Task
          /\ Started("claimed", b, n, NoSwap).pc # "inspected"
      BY <2>1, FirstTaskType, IntentType
    <3>. QED
      BY <1>1, <2>4, <3>1
  <2>. QED
    BY <1>3, <2>3, <2>5 DEF Claim, TypeOK, market, stock, external
<1>4. ASSUME NEW w \in Workers, Inspect(w)
      PROVE  TypeOK'
  <2>. DEFINE a == wallet[task[w].bid]
              t == [task[w] EXCEPT !.pc = "inspected", !.answer = a]
  <2>1. a \in Facts /\ Goes(w, t)
    BY <1>4 DEF Inspect
  <2>2. task[w] \in Work
    BY <1>4, WorkType DEF Inspect
  <2>3. t \in Task /\ t.answer \in Facts
    BY <2>1, <2>2, NextTaskType DEF Answers, Work
  <2>4. TaskOK
    BY <1>1, <2>1, <2>3
  <2>. QED
    BY <1>4, <2>4 DEF Inspect, TypeOK, market, stock, external
<1>5. ASSUME NEW w \in Workers, Recover(w)
      PROVE  TypeOK'
  <2>. DEFINE t == task[w]
              r == Finished(swap[t.bid], t.token, "recovered")
  <2>1. t.bid \in Bids /\ r \in SwapRecord
    BY <1>5, WorkType, FinishedType DEF Recover
  <2>2. t.answer \in Facts
    BY <1>5 DEF Recover, TypeOK
  <2>3. TaskOK
    BY <1>5, <1>2 DEF Recover
  <2>. QED
    BY <1>5, <2>1, <2>2, <2>3, ObserveType
       DEF Recover, TypeOK, market, stock, external
<1>6. ASSUME NEW w \in Workers, Post(w)
      PROVE  TypeOK'
  <2>. DEFINE t == [task[w] EXCEPT !.pc = "posted", !.answer = "none"]
  <2>1. Goes(w, t) /\ task[w] \in Work /\ task[w].bid \in Bids
    BY <1>6, WorkType DEF Post
  <2>2. t \in Task /\ t.pc # "inspected"
    BY <2>1, NextTaskType DEF Answers, Work
  <2>3. TaskOK
    BY <1>1, <2>1, <2>2
  <2>. QED
    BY <1>6, <2>1, <2>3 DEF Post, TypeOK, market, stock
<1>7. ASSUME NEW w \in Workers, Answer(w)
      PROVE  TypeOK'
  <2>1. PICK a \in PossibleAnswers(task[w].bid) :
          Goes(w, [task[w] EXCEPT !.pc = "answered", !.answer = a])
    BY <1>7 DEF Answer
  <2>. DEFINE t == [task[w] EXCEPT !.pc = "answered", !.answer = a]
  <2>2. a \in Answers /\ task[w] \in Work
    BY <1>7, <2>1, WorkType DEF Answer, PossibleAnswers, Answers
  <2>3. t \in Task /\ t.pc # "inspected"
    BY <2>2, NextTaskType DEF Work
  <2>4. TaskOK
    BY <1>1, <2>1, <2>3
  <2>. QED
    BY <1>7, <2>4 DEF Answer, TypeOK, market, stock, external
<1>8. ASSUME NEW w \in Workers, Finish(w)
      PROVE  TypeOK'
  <2>. DEFINE t == task[w]
              r == Finished(swap[t.bid], t.token, t.answer)
  <2>1. t.bid \in Bids /\ r \in SwapRecord
    BY <1>8, WorkType, FinishedType DEF Finish
  <2>2. TaskOK
    BY <1>8, <1>2 DEF Finish
  <2>3. CASE t.answer \in Facts
    <3>1. Observe(t.bid, r, t.answer)
      BY <1>8, <2>3 DEF Finish
    <3>. QED
      BY <1>8, <2>1, <2>2, <2>3, <3>1, ObserveType
         DEF Finish, TypeOK, market, stock, external
  <2>4. CASE t.answer \notin Facts
    BY <1>8, <2>1, <2>2, <2>4 DEF Finish, TypeOK, market, stock, external
  <2>. QED
    BY <2>3, <2>4
<1>9. ASSUME NEW w \in Workers, Crash(w)
      PROVE  TypeOK'
  <2>1. TaskOK
    BY <1>9, <1>2 DEF Crash
  <2>. QED
    BY <1>9, <2>1 DEF Crash, TypeOK, market, stock, external
<1>10. ASSUME NEW w \in Workers, NEW b \in Bids, SweepRead(w, b)
       PROVE  TypeOK'
  <2>. DEFINE t == Started("swept", b, 0, swap[b])
  <2>1. t \in Task /\ t.pc # "inspected" /\ Goes(w, t)
    BY <1>10, FirstTaskType, ModelAssumption DEF SweepRead, TypeOK
  <2>2. TaskOK
    BY <1>1, <2>1
  <2>. QED
    BY <1>10, <2>2 DEF SweepRead, TypeOK, market, stock, external
<1>11. ASSUME NEW w \in Workers, SweepApply(w)
       PROVE  TypeOK'
  <2>. DEFINE b == task[w].bid
              s == task[w].snap
  <2>1. task[w].pc = "swept" /\ Goes(w, Idle)
    BY <1>11 DEF SweepApply, SweepSettles, SweepBuries, SweepNotFound,
                 SweepCancels, SweepLearnsNothing
  <2>2. b \in Bids /\ s \in SwapRecord /\ swap[b] \in SwapRecord
    BY <2>1, WorkType
  <2>3. TaskOK
    BY <1>2, <2>1
  <2>4. SetBidExpired(b) =>
          bid' \in [Bids -> {"NEW", "REFUSED", "PENDING", "RESERVED", "ACCEPTED",
                            "REJECTED", "EXPIRED"}]
    BY DEF SetBidExpired, TypeOK
  <2>5. CASE SweepSettles(w)
    <3>1. ApplyFact(b, swap[b], s, "settled", FALSE)
      BY <2>5 DEF SweepSettles
    <3>. QED
      BY <2>2, <2>3, <2>5, <3>1, ApplyFactType
         DEF SweepSettles, TypeOK, market, stock, external, Facts
  <2>6. CASE SweepBuries(w)
    <3>1. /\ ApplyFact(b, swap[b], s, wallet[b], FALSE) /\ wallet[b] \in Facts
          /\ SetBidExpired(b)
      BY <2>6 DEF SweepBuries, Facts
    <3>. QED
      BY <2>2, <2>3, <2>4, <2>6, <3>1, ApplyFactType
         DEF SweepBuries, TypeOK, market, stock, external
  <2>7. CASE SweepNotFound(w)
    <3>1. /\ ApplyFact(b, swap[b], s, "expired", FALSE) /\ "expired" \in Facts
          /\ SetBidExpired(b)
      BY <2>7 DEF SweepNotFound, Facts, DeadFacts
    <3>. QED
      BY <2>2, <2>3, <2>4, <2>7, <3>1, ApplyFactType
         DEF SweepNotFound, TypeOK, market, stock, external
  <2>8. CASE SweepCancels(w)
    BY <2>2, <2>3, <2>8 DEF SweepCancels, TypeOK, market, stock
  <2>9. CASE SweepLearnsNothing(w)
    BY <2>3, <2>9 DEF SweepLearnsNothing, TypeOK, market, stock, external
  <2>. QED
    BY <1>11, <2>5, <2>6, <2>7, <2>8, <2>9 DEF SweepApply
<1>12. ASSUME NEW b \in Bids, NEW fact \in Facts, EventRead(b, fact)
       PROVE  TypeOK'
  <2>1. ingest' \in Event
    BY <1>12 DEF EventRead, TypeOK, Event
  <2>. QED
    BY <1>12, <2>1 DEF EventRead, TypeOK, market, stock, external
<1>13. CASE EventApply
  <2>. DEFINE b == ingest.bid
  <2>1. /\ b \in Bids /\ ingest.fact \in Facts
        /\ ingest.snap \in SwapRecord /\ swap[b] \in SwapRecord
    BY <1>13, IngestType DEF EventApply
  <2>2. ApplyFact(b, swap[b], ingest.snap, ingest.fact, ingest.fact = "proposed")
    BY <1>13 DEF EventApply
  <2>3. ingest' \in Event
    BY <1>13 DEF EventApply, Event
  <2>4. /\ replies' \subseteq Bids \X {"accepted", "rejected"}
        /\ bid' \in [Bids -> {"NEW", "REFUSED", "PENDING", "RESERVED", "ACCEPTED",
                             "REJECTED", "EXPIRED"}]
    BY <1>13, <2>1 DEF EventApply, TypeOK
  <2>. QED
    BY <1>13, <2>1, <2>2, <2>3, <2>4, ApplyFactType
       DEF EventApply, TypeOK, market, stock, external
<1>14. CASE IngestAborts
  BY <1>14 DEF IngestAborts, TypeOK, Event, market, stock, external
<1>. QED
  BY <1>3, <1>4, <1>5, <1>6, <1>7, <1>8, <1>9, <1>10, <1>11, <1>12, <1>13,
     <1>14 DEF IngestStep, WorkerStep, DispatchStep

\* Type correctness: every variable stays in its type, whatever the bids, the
\* quantities and the number of workers.
THEOREM TypeCorrect == Spec => []TypeOK
<1>1. Init => TypeOK
  <2>. SUFFICES ASSUME Init PROVE TypeOK
    OBVIOUS
  <2>1. /\ task \in [Workers -> Task]
        /\ \A w \in Workers : task[w].pc = "inspected" => task[w].answer \in Facts
    BY DEF Init, Task, Idle
  <2>2. swap \in [Bids -> SwapRecord] /\ ingest \in Event
    BY IntentType DEF Init, Event
  <2>3. /\ bid \in [Bids -> {"NEW", "REFUSED", "PENDING", "RESERVED", "ACCEPTED",
                            "REJECTED", "EXPIRED"}]
        /\ res \in [Bids -> {"NONE", "HOLD", "COMMITTED", "RELEASED"}]
        /\ deadline \in [Bids -> {"unset", "running", "passed"}]
        /\ wallet \in [Bids -> {"none", "pending"} \cup Facts]
    BY DEF Init
  <2>4. clock = 0 /\ initial = 0 /\ remaining = 0
    BY Zenon DEF Init
  <2>6. marketClosed \in BOOLEAN
    BY Zenon DEF Init
  <2>5. /\ policy \in Policies /\ offer = "NONE" /\ ledger = {}
        /\ replies = {} /\ sent = {} /\ cancels = {} /\ events = {}
    BY Zenon DEF Init
  <2>. QED
    BY <2>1, <2>2, <2>3, <2>4, <2>5, <2>6 DEF TypeOK
<1>2. TypeOK /\ [Next]_vars => TypeOK'
  <2>1. CASE UNCHANGED vars
    BY <2>1 DEF TypeOK, vars, market, stock, external
  <2>2. CASE Next
    BY <2>2, TypeMarket, TypeWork DEF Next
  <2>. QED
    BY <2>1, <2>2
<1>. QED
  BY <1>1, <1>2, PTL DEF Spec

----------------------------------------------------------------------------
(* Lots.                                                                   *)

\* Every set of pending bids has one that is decided last.
LEMMA LastOfLot ==
  ASSUME NEW W \in SUBSET Bids, W # {},
         \A a, c \in W : a # c => Before(a, c) \/ Before(c, a),
         \A a \in W : ~Before(a, a),
         \A a, c, d \in W : Before(a, c) /\ Before(c, d) => Before(a, d)
  PROVE  \E b \in W : W = {b} \cup {c \in W : Before(c, b)}
<1>. DEFINE from(a) == {c \in W : c = a \/ Before(a, c)}
            F == {from(a) : a \in W}
<1>1. IsFiniteSet(W)
  BY FS_Subset, BidsAssumption
<1>2. \A a \in W : from(a) \in FiniteSubsetsOf(W)
  BY <1>1, FS_Subset DEF FiniteSubsetsOf
<1>3. F \subseteq FiniteSubsetsOf(W) /\ F # {}
  <2>1. PICK a \in W : TRUE
    OBVIOUS
  <2>2. from(a) \in F
    OBVIOUS
  <2>. HIDE DEF from
  <2>. QED
    BY <1>2, <2>2
<1>4. PICK x \in F : \A y \in F : <<y, x>> \notin StrictSubsetOrdering(W)
  <2>. HIDE DEF F
  <2>. QED
    BY <1>3, FS_StrictSubsetOrderingWellFounded, WFMin
<1>5. PICK b \in W : x = from(b)
  BY <1>4
<1>6. ASSUME NEW c \in W, Before(b, c)
      PROVE  FALSE
  <2>1. from(c) \subseteq from(b) /\ b \in from(b) /\ b \notin from(c)
    BY <1>6
  <2>2. <<from(c), from(b)>> \in StrictSubsetOrdering(W)
    BY <2>1 DEF StrictSubsetOrdering
  <2>. QED
    BY <1>4, <1>5, <2>2
<1>. QED
  BY <1>5, <1>6

\* The order in which a lot is decided is a strict total order.
LEMMA BeforeIsOrder ==
  ASSUME policy \in {"FIFO", "MAX_REMAINING", "BATCH"}
  PROVE  /\ \A a \in Bids : ~Before(a, a)
         /\ \A a, c \in Bids : a # c => Before(a, c) \/ Before(c, a)
         /\ \A a, c, d \in Bids : Before(a, c) /\ Before(c, d) => Before(a, d)
<1>1. \A a \in Bids : Qty[a] \in Nat /\ Rank[a] \in Nat
  BY BidsAssumption, OrderAssumption
<1>2. \A a, c \in Bids : Rank[a] = Rank[c] => a = c
  BY OrderAssumption
<1>. QED
  BY <1>1, <1>2 DEF Before

\* The winners of a lot fit together in what is available, although each was
\* compared only with the winners decided before it.
LEMMA WinnersFit ==
  ASSUME TypeOK, StockInv, NEW W \in SUBSET Pending, Winners(W)
  PROVE  Kwh(W) <= Available
<1>1. Available \in Nat
  <2>1. Kwh(Held) \in Nat
    BY KwhType
  <2>. QED
    BY <2>1 DEF Available, Less, TypeOK
<1>2. CASE W = {}
  BY <1>1, <1>2, KwhEmpty
<1>3. CASE W # {}
  <2>1. W \in SUBSET Bids
    BY DEF Pending
  <2>2. policy \in {"FIFO", "MAX_REMAINING", "BATCH"}
    BY ModelAssumption DEF TypeOK
  <2>3. PICK b \in W : W = {b} \cup {c \in W : Before(c, b)}
    BY <1>3, <2>1, <2>2, BeforeIsOrder, LastOfLot
  <2>. DEFINE S == {c \in W : Before(c, b)}
  <2>4. Qty[b] + Kwh(S) <= Available
    BY DEF Winners
  <2>5. b \in Bids /\ b \notin S
    BY <2>1, <2>2, BeforeIsOrder
  <2>6. W = S \cup {b}
    BY <2>3
  <2>7. Kwh(W) = Kwh(S) + Qty[b]
    BY <2>5, <2>6, KwhAdd
  <2>8. Kwh(S) \in Nat /\ Qty[b] \in Nat
    BY <2>5, KwhType, BidsAssumption
  <2>. QED
    BY <1>1, <2>4, <2>7, <2>8
<1>. QED
  BY <1>2, <1>3

----------------------------------------------------------------------------
(* The three ways in which a step may touch the stock.                     *)

\* Reserving undecided bids that fit.
LEMMA DecideKeepsStock ==
  ASSUME TypeOK, StockInv, NEW W \in SUBSET Bids, NEW L \in SUBSET Bids,
         \A b \in W : bid[b] \in {"NEW", "PENDING"},
         Kwh(W) <= Available, Decide(W, L)
  PROVE  StockInv'
<1>1. /\ Kwh(Held) \in Nat /\ Kwh(W) \in Nat /\ remaining \in Nat
  BY KwhType DEF TypeOK
<1>2. Held' = Held \cup W /\ Held \cap W = {} /\ Committed' = Committed
  BY DEF Decide, Held, Committed, StockInv
<1>3. Kwh(Held') = Kwh(Held) + Kwh(W)
  BY <1>2, KwhUnion
<1>4. Kwh(Held) <= remaining /\ remaining + Kwh(Committed) = initial
  BY DEF StockInv, StockOK
<1>5. Kwh(Held') <= remaining
  BY <1>1, <1>3, <1>4 DEF Available, Less
<1>6. StockOK'
  BY <1>2, <1>4, <1>5 DEF StockOK, Decide, stock
<1>7. offer' = "NONE" => initial' = 0
  BY DEF StockInv, Decide, stock
<1>8. \A b \in Bids : bid'[b] \in {"NEW", "PENDING"} => res'[b] = "NONE"
  BY DEF StockInv, Decide
<1>. QED
  BY <1>6, <1>7, <1>8 DEF StockInv

\* Learning a fact about a swap.
LEMMA ApplyFactKeepsStock ==
  ASSUME TypeOK, StockInv, NEW b \in Bids, NEW r, NEW seen, NEW fact, NEW dated,
         ApplyFact(b, r, seen, fact, dated), UNCHANGED <<offer, initial>>,
         \A c \in Bids : bid'[c] \in {"NEW", "PENDING"} => bid'[c] = bid[c]
  PROVE  StockInv'
<1>1. /\ Kwh(Held) \in Nat /\ Kwh(Committed) \in Nat /\ remaining \in Nat
      /\ Qty[b] \in Nat
  BY KwhType, BidsAssumption DEF TypeOK
<1>2. Kwh(Held) <= remaining /\ remaining + Kwh(Committed) = initial
  BY DEF StockInv, StockOK
<1>3. \A c \in Bids : bid'[c] \in {"NEW", "PENDING"} => res'[c] = "NONE"
  BY DEF ApplyFact, StockInv, TypeOK
<1>4. StockOK'
  <2>1. CASE Live(seen) /\ res[b] = "HOLD" /\ fact = "settled"
    <3>1. Held' = Held \ {b} /\ b \in Held
      BY <2>1 DEF ApplyFact, Held, TypeOK, DeadFacts
    <3>2. Committed' = Committed \cup {b} /\ b \notin Committed
      BY <2>1 DEF ApplyFact, Committed, TypeOK, DeadFacts
    <3>3. Kwh(Held) = Kwh(Held') + Qty[b] /\ Kwh(Held') \in Nat
      BY <3>1, KwhRemove, KwhType
    <3>4. Kwh(Committed') = Kwh(Committed) + Qty[b]
      BY <3>2, KwhAdd
    <3>5. remaining' = Less(remaining, Qty[b])
      BY <2>1 DEF ApplyFact
    <3>. QED
      BY <1>1, <1>2, <3>3, <3>4, <3>5 DEF StockOK, Less
  <2>2. CASE Live(seen) /\ res[b] = "HOLD" /\ fact \in DeadFacts
    <3>1. Held' = Held \ {b} /\ Committed' = Committed
      BY <2>2 DEF ApplyFact, Held, Committed, TypeOK, DeadFacts
    <3>2. Kwh(Held') <= Kwh(Held) /\ Kwh(Held') \in Nat
      BY <3>1, KwhMonotone, KwhType
    <3>3. remaining' = remaining
      BY <2>2 DEF ApplyFact, DeadFacts
    <3>. QED
      BY <1>1, <1>2, <3>1, <3>2, <3>3 DEF StockOK
  <2>3. CASE ~(Live(seen) /\ res[b] = "HOLD" /\ fact \in DeadFacts \cup {"settled"})
    <3>1. res' = res /\ remaining' = remaining
      BY <2>3 DEF ApplyFact, TypeOK
    <3>2. Held' = Held /\ Committed' = Committed
      BY <3>1 DEF Held, Committed
    <3>. QED
      BY <1>2, <3>1, <3>2 DEF StockOK
  <2>. QED
    BY <2>1, <2>2, <2>3
<1>. QED
  BY <1>3, <1>4 DEF StockInv

\* Everything else leaves reservations and quantities alone.
LEMMA OtherKeepsStock ==
  ASSUME StockInv, UNCHANGED <<initial, remaining, res>>,
         offer' = "NONE" => offer = "NONE",
         \A c \in Bids : bid'[c] \in {"NEW", "PENDING"}
                          => bid[c] \in {"NEW", "PENDING"}
  PROVE  StockInv'
<1>1. Held' = Held /\ Committed' = Committed
  BY DEF Held, Committed
<1>. QED
  BY <1>1 DEF StockInv, StockOK

----------------------------------------------------------------------------

LEMMA StockStep ==
  ASSUME TypeOK, StockInv, [Next]_vars
  PROVE  StockInv'
<1>. USE DEF market, stock
<1>1. CASE UNCHANGED vars
  BY <1>1, OtherKeepsStock DEF vars
<1>2. CASE PublishOffer
  <2>1. initial = 0 /\ initial' \in Nat /\ remaining' = initial'
    BY <1>2, ModelAssumption DEF PublishOffer, StockInv
  <2>2. /\ remaining = 0 /\ Kwh(Committed) = 0 /\ Kwh(Held) = 0
    <3>1. Kwh(Committed) \in Nat /\ Kwh(Held) \in Nat /\ remaining \in Nat
      BY KwhType DEF TypeOK
    <3>. QED
      BY <2>1, <3>1 DEF StockInv, StockOK
  <2>3. Held' = Held /\ Committed' = Committed
    BY <1>2 DEF PublishOffer, Held, Committed
  <2>4. StockOK'
    <3>1. Kwh(Committed') = 0 /\ Kwh(Held') = 0
      BY <2>2, <2>3
    <3>2. remaining' \in Nat
      BY <2>1
    <3>3. \A n \in Nat : n + 0 = n /\ 0 <= n
      OBVIOUS
    <3>4. remaining' + 0 = remaining' /\ 0 <= remaining'
      BY <3>2, <3>3, Zenon
    <3>. QED
      BY <2>1, <3>1, <3>4 DEF StockOK
  <2>. QED
    BY <1>2, <2>4 DEF PublishOffer, StockInv
<1>3. CASE WithdrawOffer \/ MarketClosed \/ CloseExpiredOffer
  BY <1>3, OtherKeepsStock DEF WithdrawOffer, MarketClosed, CloseExpiredOffer
<1>4. CASE DecideLot
  <2>1. PICK W \in SUBSET Pending : Winners(W) /\ Decide(W, Pending \ W)
    BY <1>4 DEF DecideLot
  <2>2. /\ W \in SUBSET Bids /\ Pending \ W \in SUBSET Bids
        /\ \A b \in W : bid[b] \in {"NEW", "PENDING"}
    BY DEF Pending
  <2>. QED
    BY <2>1, <2>2, WinnersFit, DecideKeepsStock
<1>5. ASSUME NEW b \in Bids, BidReservedOnIngress(b)
      PROVE  StockInv'
  <2>1. Kwh({b}) <= Available
    BY <1>5, KwhSingle DEF BidReservedOnIngress, Acceptable
  <2>. QED
    BY <1>5, <2>1, DecideKeepsStock DEF BidReservedOnIngress
<1>6. ASSUME NEW b \in Bids, BidRefused(b)
      PROVE  StockInv'
  <2>1. Kwh({}) <= Available
    BY KwhEmpty, KwhType DEF Available, Less, TypeOK
  <2>. QED
    BY <1>6, <2>1, DecideKeepsStock DEF BidRefused
<1>7. ASSUME NEW b \in Bids, BidForUnknownOffer(b) \/ BidQueued(b)
      PROVE  StockInv'
  BY <1>7, OtherKeepsStock DEF BidForUnknownOffer, BidQueued, TypeOK
<1>8. CASE TimeStep \/ WalletStep
  BY <1>8, OtherKeepsStock
     DEF TimeStep, WalletStep, Tick, DeadlinePasses, LeaseExpires,
         WalletReceives, WalletMoves
<1>9. ASSUME NEW b \in Bids, NEW r, NEW fact, Observe(b, r, fact),
             UNCHANGED <<offer, initial, bid>>
      PROVE  StockInv'
  BY <1>9, ApplyFactKeepsStock, OtherKeepsStock DEF Observe
<1>10. ASSUME NEW w \in Workers, DispatchStep(w) \/ Crash(w)
       PROVE  StockInv'
  <2>1. ASSUME NEW b \in Bids, Claim(w, b)
        PROVE  StockInv'
    BY <2>1, OtherKeepsStock DEF Claim
  <2>2. CASE Inspect(w) \/ Post(w) \/ Answer(w) \/ Crash(w)
    BY <2>2, OtherKeepsStock DEF Inspect, Post, Answer, Crash
  <2>3. CASE Recover(w)
    <3>1. task[w].bid \in Bids
      BY <2>3, WorkType DEF Recover
    <3>. QED
      BY <2>3, <3>1, <1>9 DEF Recover
  <2>4. CASE Finish(w)
    <3>1. task[w].bid \in Bids
      BY <2>4, WorkType DEF Finish
    <3>. QED
      BY <2>4, <3>1, <1>9, OtherKeepsStock DEF Finish
  <2>. QED
    BY <1>10, <2>1, <2>2, <2>3, <2>4 DEF DispatchStep
<1>11. ASSUME NEW w \in Workers, SweepApply(w)
       PROVE  StockInv'
  <2>. DEFINE b == task[w].bid
  <2>1. b \in Bids
    BY <1>11, WorkType DEF SweepApply, SweepSettles, SweepBuries,
          SweepNotFound, SweepCancels, SweepLearnsNothing
  <2>2. SetBidExpired(b) =>
          \A c \in Bids : bid'[c] \in {"NEW", "PENDING"} => bid'[c] = bid[c]
    BY DEF SetBidExpired, TypeOK
  <2>3. CASE SweepSettles(w)
    BY <2>1, <2>3, ApplyFactKeepsStock DEF SweepSettles
  <2>4. CASE SweepBuries(w)
    BY <2>1, <2>2, <2>4, ApplyFactKeepsStock DEF SweepBuries
  <2>5. CASE SweepNotFound(w)
    BY <2>1, <2>2, <2>5, ApplyFactKeepsStock DEF SweepNotFound
  <2>6. CASE SweepCancels(w) \/ SweepLearnsNothing(w)
    BY <2>6, OtherKeepsStock DEF SweepCancels, SweepLearnsNothing
  <2>. QED
    BY <1>11, <2>3, <2>4, <2>5, <2>6 DEF SweepApply
<1>12. ASSUME NEW w \in Workers, NEW b \in Bids, SweepRead(w, b)
       PROVE  StockInv'
  BY <1>12, OtherKeepsStock DEF SweepRead
<1>13. CASE EventApply
  <2>1. ingest.bid \in Bids
    BY <1>13, IngestType DEF EventApply
  <2>2. \A c \in Bids : bid'[c] \in {"NEW", "PENDING"} => bid'[c] = bid[c]
    BY <1>13 DEF EventApply, TypeOK
  <2>. QED
    BY <1>13, <2>1, <2>2, ApplyFactKeepsStock DEF EventApply
<1>14. CASE IngestAborts \/ \E b \in Bids, f \in Facts : EventRead(b, f)
  BY <1>14, OtherKeepsStock DEF IngestAborts, EventRead
<1>. QED
  BY <1>1, <1>2, <1>3, <1>4, <1>5, <1>6, <1>7, <1>8, <1>10, <1>11, <1>12,
     <1>13, <1>14
     DEF Next, OfferStep, BidStep, IngestStep, WorkerStep

\* StockInv holds in every reachable state.
THEOREM StockInvariant == Spec => []StockInv
<1>1. Init => StockInv
  <2>. SUFFICES ASSUME Init PROVE StockInv
    OBVIOUS
  <2>1. Held = {} /\ Committed = {}
    BY DEF Init, Held, Committed
  <2>2. initial = 0 /\ remaining = 0 /\ res = [b \in Bids |-> "NONE"]
    BY Zenon DEF Init
  <2>. QED
    BY <2>1, <2>2, KwhEmpty DEF StockInv, StockOK
<1>2. TypeOK /\ StockInv /\ [Next]_vars => StockInv'
  BY StockStep
<1>. QED
  BY <1>1, <1>2, TypeCorrect, PTL DEF Spec

\* No overselling: what is left plus what was sold is what was offered, and
\* what is held fits in what is left, under every interleaving of ingress,
\* lots, dispatchers, sweeps, wallet events, crashes and repeated deliveries.
THEOREM NeverOversells == Spec => []StockOK
<1>1. StockInv => StockOK
  BY DEF StockInv
<1>. QED
  BY <1>1, StockInvariant, PTL

----------------------------------------------------------------------------
(* Lots are fair.                                                          *)

\* Every set of pending bids has one that is decided first.
LEMMA FirstOfLot ==
  ASSUME NEW L \in SUBSET Bids, L # {}, policy \in {"FIFO", "MAX_REMAINING", "BATCH"}
  PROVE  \E b \in L : \A c \in L : c = b \/ Before(b, c)
<1>. DEFINE upto(a) == {c \in L : c = a \/ Before(c, a)}
            F == {upto(a) : a \in L}
<1>1. IsFiniteSet(L)
  BY FS_Subset, BidsAssumption
<1>2. \A a \in L : upto(a) \in FiniteSubsetsOf(L)
  BY <1>1, FS_Subset DEF FiniteSubsetsOf
<1>3. F \subseteq FiniteSubsetsOf(L) /\ F # {}
  <2>1. PICK a \in L : TRUE
    OBVIOUS
  <2>2. upto(a) \in F
    OBVIOUS
  <2>. HIDE DEF upto
  <2>. QED
    BY <1>2, <2>2
<1>4. PICK x \in F : \A y \in F : <<y, x>> \notin StrictSubsetOrdering(L)
  <2>. HIDE DEF F
  <2>. QED
    BY <1>3, FS_StrictSubsetOrderingWellFounded, WFMin
<1>5. PICK b \in L : x = upto(b)
  BY <1>4
<1>6. ASSUME NEW c \in L, Before(c, b)
      PROVE  FALSE
  <2>1. upto(c) \subseteq upto(b) /\ b \in upto(b) /\ b \notin upto(c)
    BY <1>6, BeforeIsOrder
  <2>2. <<upto(c), upto(b)>> \in StrictSubsetOrdering(L)
    BY <2>1 DEF StrictSubsetOrdering
  <2>. QED
    BY <1>4, <1>5, <2>2
<1>. QED
  BY <1>6, BeforeIsOrder

\* The winners of a lot and what they leave.
LEMMA LotLeaves ==
  ASSUME TypeOK, StockInv, NEW W \in SUBSET Pending, Winners(W),
         Decide(W, Pending \ W)
  PROVE  /\ Kwh(W) \in Nat /\ Available \in Nat
         /\ Available' = Available - Kwh(W)
<1>1. /\ Kwh(Held) \in Nat /\ Kwh(W) \in Nat /\ remaining \in Nat
      /\ Kwh(Held) <= remaining
  BY KwhType DEF TypeOK, StockInv, StockOK
<1>2. \A a, b \in Nat : Less(a, b) \in Nat /\ (b <= a => Less(a, b) = a - b)
  BY DEF Less
<1>3. Available \in Nat /\ Available = remaining - Kwh(Held)
  BY <1>1, <1>2 DEF Available
<1>4. Kwh(W) <= Available
  BY WinnersFit
<1>5. Held' = Held \cup W /\ Held \cap W = {}
  BY DEF Decide, Held, StockInv, Pending
<1>6. Kwh(Held') = Kwh(Held) + Kwh(W) /\ remaining' = remaining
  BY <1>5, KwhUnion DEF Decide, stock
<1>7. Kwh(Held') \in Nat /\ Kwh(Held') <= remaining'
  BY <1>1, <1>3, <1>4, <1>6
<1>8. Available' = Less(remaining', Kwh(Held'))
  BY DEF Available
<1>9. Available' = remaining - (Kwh(Held) + Kwh(W))
  BY <1>1, <1>2, <1>6, <1>7, <1>8
<1>. QED
  BY <1>1, <1>3, <1>9

\* A pending bid is refused only by a lot.
LEMMA OnlyLotsRefuse ==
  ASSUME TypeOK, [Next]_vars, NEW b \in Bids, bid[b] = "PENDING", bid'[b] = "REJECTED"
  PROVE  DecideLot
<1>1. CASE OfferStep \/ TimeStep \/ WalletStep \/ UNCHANGED vars
  BY <1>1
     DEF OfferStep, PublishOffer, WithdrawOffer, MarketClosed, CloseExpiredOffer,
         TimeStep, Tick, DeadlinePasses, LeaseExpires, WalletStep, WalletReceives,
         WalletMoves, vars
<1>2. CASE BidStep
  BY <1>2 DEF BidStep, BidForUnknownOffer, BidRefused, BidReservedOnIngress,
              BidQueued, Decide, TypeOK
<1>3. ASSUME NEW w \in Workers, WorkerStep(w)
      PROVE  FALSE
  BY <1>3 DEF WorkerStep, DispatchStep, Claim, Inspect, Recover, Post, Answer, Finish,
              SweepApply, SweepSettles, SweepBuries, SweepNotFound, SweepCancels,
              SweepLearnsNothing, SetBidExpired, Crash, SweepRead, TypeOK
<1>4. CASE IngestStep
  BY <1>4 DEF IngestStep, EventApply, IngestAborts, EventRead, TypeOK
<1>. QED
  BY <1>1, <1>2, <1>3, <1>4 DEF Next

\* A lot wastes nothing: what it refuses does not fit in what it leaves, for
\* every policy, whatever the order in which it decides
\* (seller_bid_policy.process_due_seller_bids).
THEOREM LotsWasteNothing == Spec => LotIsMaximal
<1>1. ASSUME TypeOK, StockInv, [Next]_vars, NEW b \in Bids,
             bid[b] = "PENDING", bid'[b] = "REJECTED", BidWindowOpen, offer = "ACTIVE"
      PROVE  Qty[b] > Available'
  <2>1. PICK W \in SUBSET Pending : Winners(W) /\ Decide(W, Pending \ W)
    BY <1>1, OnlyLotsRefuse DEF DecideLot
  <2>2. b \in Pending \ W
    BY <1>1, <2>1 DEF Decide, Pending
  <2>. DEFINE S == {c \in W : Before(c, b)}
  <2>3. ~(Qty[b] + Kwh(S) <= Available)
    BY <1>1, <2>1, <2>2 DEF Winners
  <2>4. Kwh(S) <= Kwh(W) /\ Kwh(S) \in Nat
    BY KwhMonotone, KwhType
  <2>5. /\ Kwh(W) \in Nat /\ Available \in Nat
        /\ Available' = Available - Kwh(W)
    BY <1>1, <2>1, LotLeaves
  <2>6. Qty[b] \in Nat
    BY BidsAssumption
  <2>. HIDE DEF S
  <2>. QED
    BY <2>3, <2>4, <2>5, <2>6
<1>2. TypeOK /\ StockInv /\ [Next]_vars =>
        [\A b \in Bids :
           bid[b] = "PENDING" /\ bid'[b] = "REJECTED" /\ BidWindowOpen
             /\ offer = "ACTIVE" => Qty[b] > Available']_vars
  BY <1>1
<1>. QED
  BY <1>2, TypeCorrect, StockInvariant, PTL DEF Spec, LotIsMaximal

\* Bids that ask for q or more each, and bids that ask for q or less.
LEMMA KwhAtLeast ==
  ASSUME NEW S \in SUBSET Bids, NEW q \in 1..MaxQty, \A b \in S : q <= Qty[b]
  PROVE  /\ Cardinality(S) \in Nat
         /\ Cardinality(S) * q <= Kwh(S)
<1>1. MaxQty \in Nat /\ \A b \in S : Qty[b] \in 1..MaxQty
  BY BidsAssumption
<1>2. S \X (1..q) \subseteq Units(S)
  BY <1>1 DEF Units
<1>3. IsFiniteSet(S) /\ IsFiniteSet(1..q) /\ Cardinality(1..q) = q
  BY <1>1, BidsAssumption, FS_Subset, FS_Interval
<1>4. Cardinality(S \X (1..q)) = Cardinality(S) * q
  BY <1>3, FS_Product
<1>5. Cardinality(S \X (1..q)) <= Cardinality(Units(S))
  BY <1>2, KwhType, FS_Subset
<1>6. Cardinality(S) \in Nat
  BY <1>3, FS_CardinalityType
<1>. QED
  BY <1>4, <1>5, <1>6 DEF Kwh

LEMMA KwhAtMost ==
  ASSUME NEW S \in SUBSET Bids, NEW q \in 1..MaxQty, \A b \in S : Qty[b] <= q
  PROVE  /\ Cardinality(S) \in Nat
         /\ Kwh(S) <= Cardinality(S) * q
<1>1. MaxQty \in Nat /\ \A b \in S : Qty[b] \in 1..MaxQty
  BY BidsAssumption
<1>2. Units(S) \subseteq S \X (1..q)
  BY <1>1 DEF Units
<1>3. IsFiniteSet(S) /\ IsFiniteSet(1..q) /\ Cardinality(1..q) = q
  BY <1>1, BidsAssumption, FS_Subset, FS_Interval
<1>4. IsFiniteSet(S \X (1..q)) /\ Cardinality(S \X (1..q)) = Cardinality(S) * q
  BY <1>3, FS_Product
<1>5. Cardinality(Units(S)) <= Cardinality(S \X (1..q))
  BY <1>2, <1>4, FS_Subset
<1>6. Cardinality(S) \in Nat
  BY <1>3, FS_CardinalityType
<1>. QED
  BY <1>4, <1>5, <1>6 DEF Kwh

\* What comes before the first loser of a BATCH lot are all the winners, none of
\* them larger, and it does not fit after them.
LEMMA FirstLoser ==
  ASSUME TypeOK, policy = "BATCH", BidWindowOpen, offer = "ACTIVE",
         NEW W \in SUBSET Pending, Winners(W),
         NEW b \in Pending \ W, \A c \in Pending \ W : c = b \/ Before(b, c)
  PROVE  /\ \A c \in Pending \ W : Qty[b] <= Qty[c]
         /\ \A c \in W : Qty[c] <= Qty[b]
         /\ Qty[b] + Kwh(W) > Available
<1>1. /\ b \in Bids /\ Pending \subseteq Bids /\ Available \in Nat
      /\ \A c \in Bids : Qty[c] \in Nat /\ Rank[c] \in Nat
  <2>1. Kwh(Held) \in Nat /\ remaining \in Nat
    BY KwhType DEF TypeOK
  <2>. QED
    BY <2>1, BidsAssumption, OrderAssumption DEF Pending, Available, Less
<1>2. \A c, d \in Bids : Before(c, d) => Qty[c] <= Qty[d]
  BY <1>1 DEF Before
<1>. DEFINE Prior(d) == {c \in W : Before(c, d)}
<1>3. ~(Qty[b] + Kwh(Prior(b)) <= Available)
  BY DEF Winners
<1>4. ASSUME NEW w \in W, Before(b, w)
      PROVE  FALSE
  <2>1. Prior(b) \subseteq Prior(w)
    BY <1>1, <1>4, BeforeIsOrder
  <2>2. Kwh(Prior(b)) <= Kwh(Prior(w))
    BY <2>1, KwhMonotone
  <2>3. Qty[w] + Kwh(Prior(w)) <= Available
    BY DEF Winners
  <2>4. Kwh(Prior(b)) \in Nat /\ Kwh(Prior(w)) \in Nat
    BY KwhType
  <2>5. Qty[b] <= Qty[w] /\ Qty[b] \in Nat /\ Qty[w] \in Nat
    BY <1>1, <1>2, <1>4
  <2>. HIDE DEF Prior
  <2>. QED
    BY <1>1, <1>3, <2>2, <2>3, <2>4, <2>5
<1>5. \A w \in W : Before(w, b)
  BY <1>1, <1>4, BeforeIsOrder
<1>6. Prior(b) = W
  BY <1>5
<1>7. Qty[b] + Kwh(W) > Available
  <2>1. ~(Qty[b] + Kwh(W) <= Available)
    BY <1>3, <1>6
  <2>2. Kwh(W) \in Nat /\ Qty[b] \in Nat /\ Available \in Nat
    BY <1>1, KwhType
  <2>. HIDE DEF Prior
  <2>. QED
    BY <2>1, <2>2
<1>8. \A c \in Pending \ W : Qty[b] <= Qty[c]
  BY <1>1, <1>2
<1>9. \A c \in W : Qty[c] <= Qty[b]
  BY <1>1, <1>2, <1>5
<1>. QED
  BY <1>7, <1>8, <1>9

\* More bids than the winners would not fit: what they add to the winners is
\* larger than what they leave out, by one bid at least.
LEMMA MoreDoNotFit ==
  ASSUME NEW W \in SUBSET Bids, NEW S \in SUBSET Bids, NEW b \in Bids, NEW room \in Nat,
         \A c \in S \ W : Qty[b] <= Qty[c], \A c \in W : Qty[c] <= Qty[b],
         Qty[b] + Kwh(W) > room, Kwh(S) <= room
  PROVE  Cardinality(S) <= Cardinality(W)
<1>. DEFINE more == S \ W
            less == W \ S
            both == S \cap W
            q == Qty[b]
<1>1. q \in 1..MaxQty /\ q \in Nat /\ MaxQty \in Nat
  BY BidsAssumption
<1>2. /\ Cardinality(more) \in Nat /\ Cardinality(less) \in Nat
      /\ Cardinality(more) * q <= Kwh(more)
      /\ Kwh(less) <= Cardinality(less) * q
  BY <1>1, KwhAtLeast, KwhAtMost
<1>3. Kwh(S) = Kwh(both) + Kwh(more) /\ Kwh(W) = Kwh(both) + Kwh(less)
  <2>1. S = both \cup more /\ W = both \cup less
    OBVIOUS
  <2>2. both \cap more = {} /\ both \cap less = {}
    OBVIOUS
  <2>. HIDE DEF both, more, less
  <2>. QED
    BY <2>1, <2>2, KwhUnion
<1>4. /\ Kwh(both) \in Nat /\ Kwh(more) \in Nat /\ Kwh(less) \in Nat
      /\ Kwh(S) \in Nat /\ Kwh(W) \in Nat
  BY KwhType
<1>5. Kwh(more) < Kwh(less) + q
  BY <1>1, <1>3, <1>4
<1>6. Cardinality(more) <= Cardinality(less)
  <2>1. SUFFICES ASSUME Cardinality(more) > Cardinality(less)
                 PROVE  FALSE
    BY <1>2
  <2>2. \A m, n, k \in Nat : m > n => n * k + k <= m * k
    <3>1. \A n, d, k \in Nat : (n + 1 + d) * k = n * k + k + d * k /\ d * k \in Nat
      OBVIOUS
    <3>2. ASSUME NEW m \in Nat, NEW n \in Nat, NEW k \in Nat, m > n
          PROVE  n * k + k <= m * k
      <4>1. PICK d \in Nat : m = n + 1 + d
        <5>1. m - n - 1 \in Nat /\ m = n + 1 + (m - n - 1)
          BY <3>2
        <5>. QED
          BY <5>1
      <4>2. m * k = n * k + k + d * k /\ d * k \in Nat /\ n * k \in Nat
        BY <3>1, <4>1
      <4>. QED
        BY <4>2
    <3>. QED
      BY <3>2
  <2>3. Cardinality(less) * q + q <= Cardinality(more) * q
    BY <1>1, <1>2, <2>1, <2>2
  <2>4. Cardinality(less) * q \in Nat /\ Cardinality(more) * q \in Nat
    BY <1>1, <1>2
  <2>. QED
    BY <1>1, <1>2, <1>4, <1>5, <2>3, <2>4
<1>7. /\ IsFiniteSet(S) /\ IsFiniteSet(W) /\ IsFiniteSet(both)
      /\ Cardinality(S) \in Nat /\ Cardinality(W) \in Nat /\ Cardinality(both) \in Nat
  BY BidsAssumption, FS_Subset, FS_CardinalityType
<1>8. /\ Cardinality(more) = Cardinality(S) - Cardinality(both)
      /\ Cardinality(less) = Cardinality(W) - Cardinality(both)
  <2>1. W \cap S = both
    OBVIOUS
  <2>. QED
    BY <1>7, <2>1, FS_Difference
<1>. HIDE DEF more, less, both, q
<1>. QED
  BY <1>6, <1>7, <1>8
=============================================================================
