------------------------ MODULE SellerDeliveryProofs ------------------------
(***************************************************************************)
(* What the wallet tells is told once and stays true: the seller           *)
(* implements EnergyStock and books each settlement once, when GET         *)
(* /swaps/{id} does not deny a swap that is alive.  EvidenceInv is what    *)
(* makes old knowledge safe: the wallet's final states are final, so a     *)
(* final fact that once was true still is when an event, an ingest or a    *)
(* worker's answer brings it.  SettlementInv adds where such a fact has    *)
(* been and what it left in the books, ReplyInv which answers a bid may    *)
(* still get.                                                              *)
(***************************************************************************)
EXTENDS SellerMarketProofs

----------------------------------------------------------------------------
(* Evidence.                                                               *)

Final == Facts \ {"proposed"}

\* Applying a fact that is not "proposed" needs the wallet to say so.
LEMMA ApplyFactKeepsEvidence ==
  ASSUME TypeOK, EvidenceInv, NEW b \in Bids, NEW r, NEW seen, NEW fact \in Facts,
         NEW dated, ApplyFact(b, r, seen, fact, dated),
         fact \in Final => wallet[b] = fact
  PROVE  /\ \A c \in Bids : /\ res'[c] = "RELEASED" => wallet[c] \in DeadFacts
                            /\ res'[c] = "COMMITTED" => wallet[c] = "settled"
                            /\ res'[c] = "NONE" <=> res[c] = "NONE"
  BY DEF ApplyFact, EvidenceInv, TypeOK, Facts, DeadFacts, Final

\* What a step may do to evidence besides moving the wallet.
LEMMA KeepsEvidence ==
  ASSUME TypeOK, EvidenceInv,
         UNCHANGED <<wallet, events>>,
         \A c \in Bids : /\ res'[c] = "RELEASED" => wallet[c] \in DeadFacts
                         /\ res'[c] = "COMMITTED" => wallet[c] = "settled"
                         /\ res'[c] = "NONE" => res[c] = "NONE"
                         /\ c \in sent' => c \in sent \/ res[c] # "NONE",
         ingest' # NoEvent =>
           ingest' = ingest \/ <<ingest'.bid, ingest'.fact>> \in events,
         \A w \in Workers :
           /\ task'[w].answer \in Final =>
                wallet[task'[w].bid] = task'[w].answer
           /\ task'[w].pc \in {"claimed", "inspected"} =>
                /\ task'[w].bid \in Bids
                /\ res[task'[w].bid] # "NONE"
  PROVE  EvidenceInv'
<1>1. \A e \in events' : e[2] = "proposed" \/ wallet'[e[1]] = e[2]
  BY DEF EvidenceInv
<1>2. ingest' # NoEvent /\ ingest'.fact # "proposed"
        => wallet'[ingest'.bid] = ingest'.fact
  BY DEF EvidenceInv
<1>3. \A w \in Workers :
        /\ task'[w].answer \in Facts \ {"proposed"}
             => wallet'[task'[w].bid] = task'[w].answer
        /\ task'[w].pc \in {"claimed", "inspected"} => res'[task'[w].bid] # "NONE"
  BY DEF Final
<1>4. \A b \in Bids :
        /\ res'[b] = "RELEASED" => wallet'[b] \in DeadFacts
        /\ res'[b] = "COMMITTED" => wallet'[b] = "settled"
        /\ b \in sent' \/ wallet'[b] # "none" => res'[b] # "NONE"
  BY DEF EvidenceInv
<1>. QED
  BY <1>1, <1>2, <1>3, <1>4 DEF EvidenceInv

\* The evidence that workers hold, step by step.
LEMMA TaskEvidence ==
  ASSUME TypeOK, EvidenceInv
  PROVE  \A w \in Workers :
           /\ task[w].answer \in Final => wallet[task[w].bid] = task[w].answer
           /\ task[w].pc \in {"claimed", "inspected"} =>
                task[w].bid \in Bids /\ res[task[w].bid] # "NONE"
<1>1. \A w \in Workers : task[w].pc # "idle" => task[w].bid \in Bids
  BY WorkType
<1>. QED
  BY <1>1 DEF EvidenceInv, Final

LEMMA EvidenceStep ==
  ASSUME VisibilityLag = FALSE, TypeOK, EvidenceInv, [Next]_vars
  PROVE  EvidenceInv'
<1>. DEFINE TaskFine ==
       \A w \in Workers :
         /\ task'[w].answer \in Final => wallet[task'[w].bid] = task'[w].answer
         /\ task'[w].pc \in {"claimed", "inspected"} =>
              task'[w].bid \in Bids /\ res[task'[w].bid] # "NONE"
     ResFine ==
       \A c \in Bids : /\ res'[c] = "RELEASED" => wallet[c] \in DeadFacts
                       /\ res'[c] = "COMMITTED" => wallet[c] = "settled"
                       /\ res'[c] = "NONE" => res[c] = "NONE"
<1>1. UNCHANGED task => TaskFine
  BY TaskEvidence
<1>2. UNCHANGED res => ResFine
  BY DEF EvidenceInv
<1>3. ASSUME UNCHANGED <<res, ingest, task, wallet, events, sent>>
      PROVE  EvidenceInv'
  BY <1>1, <1>2, <1>3, KeepsEvidence
<1>4. ASSUME NEW w \in Workers, NEW t, Goes(w, t),
             t.answer \in Final => wallet[t.bid] = t.answer,
             t.pc \in {"claimed", "inspected"} => t.bid \in Bids /\ res[t.bid] # "NONE"
      PROVE  TaskFine
  BY <1>4, TaskEvidence DEF Goes, TypeOK
<1>5. ASSUME NEW w \in Workers, Goes(w, Idle)
      PROVE  TaskFine
  BY <1>4, <1>5 DEF Idle, Final, Facts, DeadFacts
<1>6. CASE UNCHANGED vars
  BY <1>3, <1>6 DEF vars, external
<1>7. CASE OfferStep \/ TimeStep
  BY <1>3, <1>7
     DEF OfferStep, PublishOffer, WithdrawOffer, MarketClosed, CloseExpiredOffer,
         TimeStep, Tick, DeadlinePasses, LeaseExpires, external
<1>8. ASSUME NEW W, NEW L, Decide(W, L)
      PROVE  EvidenceInv'
  <2>1. ResFine
    BY <1>8 DEF Decide, EvidenceInv
  <2>. QED
    BY <1>1, <1>8, <2>1, KeepsEvidence DEF Decide, external
<1>9. CASE BidStep
  BY <1>3, <1>8, <1>9
     DEF BidStep, DecideLot, BidForUnknownOffer, BidRefused,
         BidReservedOnIngress, BidQueued, external
<1>10. ASSUME NEW w \in Workers, NEW b \in Bids, Claim(w, b)
       PROVE  EvidenceInv'
  <2>1. TaskFine
    BY <1>4, <1>10 DEF Claim, Claimable, Started, Final, Facts, DeadFacts
  <2>. QED
    BY <1>2, <1>10, <2>1, KeepsEvidence DEF Claim, external
<1>11. ASSUME NEW w \in Workers, Inspect(w)
       PROVE  EvidenceInv'
  <2>1. task[w] \in Work /\ task[w].bid \in Bids
    BY <1>11, WorkType DEF Inspect
  <2>2. TaskFine
    BY <1>4, <1>11, <2>1, TaskEvidence DEF Inspect, Work
  <2>. QED
    BY <1>2, <1>11, <2>2, KeepsEvidence DEF Inspect, external
<1>12. ASSUME NEW w \in Workers, Post(w)
       PROVE  EvidenceInv'
  <2>1. /\ task[w] \in Work /\ task[w].bid \in Bids
        /\ res[task[w].bid] # "NONE"
    BY <1>12, WorkType, TaskEvidence DEF Post
  <2>2. TaskFine
    BY <1>4, <1>12, <2>1 DEF Post, Work, Final, Facts, DeadFacts
  <2>. QED
    BY <1>2, <1>12, <2>1, <2>2, KeepsEvidence DEF Post
<1>13. ASSUME NEW w \in Workers, Answer(w)
       PROVE  EvidenceInv'
  <2>1. task[w] \in Work /\ task[w].bid \in Bids
    BY <1>13, WorkType DEF Answer
  <2>2. PICK a \in PossibleAnswers(task[w].bid) :
          Goes(w, [task[w] EXCEPT !.pc = "answered", !.answer = a])
    BY <1>13 DEF Answer
  <2>3. a \in Final => wallet[task[w].bid] = a
    BY <2>2 DEF PossibleAnswers, Final, Facts, DeadFacts
  <2>4. TaskFine
    BY <1>4, <2>1, <2>2, <2>3 DEF Work
  <2>. QED
    BY <1>2, <1>13, <2>4, KeepsEvidence DEF Answer, external
<1>14. ASSUME NEW b \in Bids, NEW r, NEW fact \in Facts, Observe(b, r, fact),
              fact \in Final => wallet[b] = fact
       PROVE  ResFine
  BY <1>2, <1>14, ApplyFactKeepsEvidence DEF Observe
<1>15. ASSUME NEW w \in Workers, Recover(w)
       PROVE  EvidenceInv'
  <2>1. task[w].bid \in Bids /\ task[w].answer \in Facts
    BY <1>15, WorkType DEF Recover, TypeOK
  <2>2. ResFine
    BY <1>14, <1>15, <2>1, TaskEvidence DEF Recover
  <2>3. TaskFine
    BY <1>5, <1>15 DEF Recover
  <2>. QED
    BY <1>15, <2>2, <2>3, KeepsEvidence DEF Recover, external
<1>16. ASSUME NEW w \in Workers, Finish(w)
       PROVE  EvidenceInv'
  <2>1. task[w].bid \in Bids
    BY <1>16, WorkType DEF Finish
  <2>2. ResFine
    BY <1>2, <1>14, <1>16, <2>1, TaskEvidence DEF Finish
  <2>3. TaskFine
    BY <1>5, <1>16 DEF Finish
  <2>. QED
    BY <1>16, <2>2, <2>3, KeepsEvidence DEF Finish, external
<1>17. ASSUME NEW w \in Workers, Crash(w)
       PROVE  EvidenceInv'
  <2>1. TaskFine
    BY <1>5, <1>17 DEF Crash
  <2>. QED
    BY <1>2, <1>17, <2>1, KeepsEvidence DEF Crash, external
<1>18. ASSUME NEW w \in Workers, NEW b \in Bids, SweepRead(w, b)
       PROVE  EvidenceInv'
  <2>1. TaskFine
    BY <1>4, <1>18 DEF SweepRead, Started, Final, Facts, DeadFacts
  <2>. QED
    BY <1>2, <1>18, <2>1, KeepsEvidence DEF SweepRead, external
<1>19. ASSUME NEW w \in Workers, SweepApply(w)
       PROVE  EvidenceInv'
  <2>1. task[w].bid \in Bids /\ Goes(w, Idle)
    BY <1>19, WorkType DEF SweepApply, SweepSettles, SweepBuries,
          SweepNotFound, SweepCancels, SweepLearnsNothing
  <2>2. TaskFine
    BY <1>5, <2>1
  <2>3. CASE SweepSettles(w)
    <3>1. ResFine
      BY <2>1, <2>3, ApplyFactKeepsEvidence DEF SweepSettles, Facts
    <3>. QED
      BY <2>2, <2>3, <3>1, KeepsEvidence DEF SweepSettles, external
  <2>4. CASE SweepBuries(w)
    <3>1. ResFine
      BY <2>1, <2>4, ApplyFactKeepsEvidence DEF SweepBuries, Facts
    <3>. QED
      BY <2>2, <2>4, <3>1, KeepsEvidence DEF SweepBuries, external
  <2>5. CASE SweepCancels(w)
    BY <1>2, <2>2, <2>5, KeepsEvidence DEF SweepCancels, stock
  <2>6. CASE SweepLearnsNothing(w)
    BY <1>2, <2>2, <2>6, KeepsEvidence DEF SweepLearnsNothing, external
  <2>. QED
    BY <1>19, <2>3, <2>4, <2>5, <2>6 DEF SweepApply, SweepNotFound
<1>20. ASSUME NEW b \in Bids, NEW f \in Facts, EventRead(b, f)
       PROVE  EvidenceInv'
  BY <1>1, <1>2, <1>20, KeepsEvidence DEF EventRead, external
<1>21. CASE EventApply
  <2>1. ResFine
    BY <1>21, IngestType, ApplyFactKeepsEvidence DEF EventApply, EvidenceInv, Final
  <2>. QED
    BY <1>1, <1>21, <2>1, KeepsEvidence DEF EventApply, external
<1>22. CASE IngestAborts
  BY <1>1, <1>2, <1>22, KeepsEvidence DEF IngestAborts, external
<1>23. ASSUME NEW b \in Bids, WalletReceives(b) \/ WalletMoves(b)
       PROVE  EvidenceInv'
  <2>1. /\ wallet[b] \notin Final /\ UNCHANGED <<res, sent, task, ingest>>
        /\ \A c \in Bids : c # b => wallet'[c] = wallet[c]
        /\ res[b] # "NONE"
    BY <1>23 DEF WalletReceives, WalletMoves, EvidenceInv, TypeOK, Final, Facts,
                 DeadFacts
  <2>2. \A e \in events' : e[2] = "proposed" \/ wallet'[e[1]] = e[2]
    <3>1. \A e \in events : e[1] \in Bids /\ e[2] \in Facts
      BY DEF TypeOK
    <3>2. \A e \in events : e[2] = "proposed" \/ e[1] # b
      BY <2>1, <3>1 DEF EvidenceInv, Final
    <3>3. \A e \in events' \ events : e[1] = b /\ wallet'[b] = e[2]
      BY <1>23 DEF WalletReceives, WalletMoves, TypeOK
    <3>. QED
      BY <2>1, <3>1, <3>2, <3>3 DEF EvidenceInv
  <2>3. ingest # NoEvent /\ ingest.fact # "proposed"
          => wallet'[ingest.bid] = ingest.fact
    BY <2>1, IngestType DEF EvidenceInv, Final
  <2>4. \A w \in Workers :
          task[w].answer \in Final => wallet'[task[w].bid] = task[w].answer
    <3>1. \A w \in Workers : task[w].answer \in Final => task[w].bid \in Bids
      BY DEF TypeOK, Task, Work, Idle, Final, Facts, DeadFacts
    <3>. QED
      BY <2>1, <3>1, TaskEvidence
  <2>5. \A c \in Bids :
          /\ res[c] = "RELEASED" => wallet'[c] \in DeadFacts
          /\ res[c] = "COMMITTED" => wallet'[c] = "settled"
          /\ c \in sent \/ wallet'[c] # "none" => res[c] # "NONE"
    BY <2>1 DEF EvidenceInv, Final, Facts, DeadFacts
  <2>. QED
    BY <2>1, <2>2, <2>3, <2>4, <2>5 DEF EvidenceInv, Final
<1>. QED
  BY <1>6, <1>7, <1>9, <1>10, <1>11, <1>12, <1>13, <1>15, <1>16, <1>17,
     <1>18, <1>19, <1>20, <1>21, <1>22, <1>23
     DEF Next, WorkerStep, DispatchStep, IngestStep, WalletStep

\* EvidenceInv holds in every reachable state.
THEOREM EvidenceInvariant ==
  ASSUME VisibilityLag = FALSE
  PROVE  Spec => []EvidenceInv
<1>1. Init => EvidenceInv
  <2>. SUFFICES ASSUME Init PROVE EvidenceInv
    OBVIOUS
  <2>1. /\ events = {} /\ sent = {} /\ ingest = NoEvent
        /\ task = [w \in Workers |-> Idle]
        /\ res = [b \in Bids |-> "NONE"] /\ wallet = [b \in Bids |-> "none"]
    BY Zenon DEF Init
  <2>. QED
    BY <2>1 DEF EvidenceInv, Idle, Facts, DeadFacts
<1>2. TypeOK /\ EvidenceInv /\ [Next]_vars => EvidenceInv'
  BY EvidenceStep
<1>. QED
  BY <1>1, <1>2, TypeCorrect, PTL DEF Spec

\* A reservation is released only for a swap that the wallet has buried: no
\* timeout, 4xx, lost answer, stale row or repeated event frees energy that a
\* live proposal may still sell.
THEOREM NeverReleasesBlindly ==
  ASSUME VisibilityLag = FALSE
  PROVE  Spec => []ReleaseNeedsEvidence
<1>1. EvidenceInv => ReleaseNeedsEvidence
  BY DEF EvidenceInv, ReleaseNeedsEvidence
<1>. QED
  BY <1>1, EvidenceInvariant, PTL

----------------------------------------------------------------------------
(* Refinement.                                                             *)

LEMMA SameKwh == \A S : Stock!Kwh(S) = Kwh(S)
<1>1. \A S : Stock!Units(S) = Units(S)
  BY Zenon DEF Stock!Units, Units
<1>. QED
  BY Zenon, <1>1 DEF Stock!Kwh, Kwh, Stock!Cardinality, Cardinality

\* The energy that EnergyStock counts as taken is what is held or committed.
LEMMA TakenIs ==
  ASSUME TypeOK
  PROVE  Stock!Taken = Held \cup Committed
  BY DEF Stock!Taken, Held, Committed, Fate, TypeOK

LEMMA DecideHolds ==
  ASSUME TypeOK, StockInv, NEW W \in SUBSET Bids, NEW L \in SUBSET Bids,
         \A b \in W : bid[b] \in {"NEW", "PENDING"},
         Kwh(W) <= Available, Decide(W, L)
  PROVE  Stock!Hold(W)
<1>1. \A b \in W : res[b] = "NONE"
  BY DEF StockInv
<1>2. (Held \cup Committed) \cap W = {} /\ Held \cap Committed = {}
  BY <1>1 DEF Held, Committed
<1>3. Kwh((Held \cup Committed) \cup W) = (Kwh(Held) + Kwh(Committed)) + Kwh(W)
  <2>1. Held \cup Committed \in SUBSET Bids /\ Held \in SUBSET Bids
          /\ Committed \in SUBSET Bids
    BY DEF Held, Committed
  <2>2. Kwh((Held \cup Committed) \cup W) = Kwh(Held \cup Committed) + Kwh(W)
    BY <1>2, <2>1, KwhUnion
  <2>3. Kwh(Held \cup Committed) = Kwh(Held) + Kwh(Committed)
    BY <1>2, <2>1, KwhUnion
  <2>. QED
    BY <2>2, <2>3
<1>4. /\ Kwh(Held) \in Nat /\ Kwh(Committed) \in Nat /\ Kwh(W) \in Nat
      /\ remaining \in Nat
  BY KwhType DEF TypeOK
<1>5. Kwh((Held \cup Committed) \cup W) <= initial
  BY <1>3, <1>4 DEF StockInv, StockOK, Available, Less
<1>6. Stock!Kwh(Stock!Taken \cup W) <= initial
  BY <1>5, SameKwh, TakenIs
<1>7. \A b \in W : [c \in Bids |-> Fate[res[c]]][b] = "none"
  BY <1>1 DEF Fate
<1>8. [c \in Bids |-> Fate[res'[c]]]
        = [c \in Bids |-> IF c \in W THEN "held" ELSE [d \in Bids |-> Fate[res[d]]][c]]
  BY DEF Decide, Fate
<1>9. UNCHANGED <<initial, wallet>>
  BY DEF Decide, stock, external
<1>. QED
  BY <1>6, <1>7, <1>8, <1>9 DEF Stock!Hold, Deal

\* What maps to a step of EnergyStock, or to none.
Allowed == Stock!StockNext \/ UNCHANGED Stock!stockVars

LEMMA UnmovedIsAllowed ==
  ASSUME UNCHANGED <<initial, res, wallet>>
  PROVE  Allowed
<1>1. UNCHANGED <<[b \in Bids |-> Fate[res[b]]], [b \in Bids |-> Deal(b)]>>
  BY DEF Deal
<1>. QED
  BY <1>1 DEF Allowed, Stock!stockVars

LEMMA HoldIsAllowed ==
  ASSUME NEW W \in SUBSET Bids, Stock!Hold(W)
  PROVE  Allowed
  BY DEF Allowed, Stock!StockNext

\* A wallet fact that a transaction applies sells or frees what was held.
LEMMA ApplyFactIsAllowed ==
  ASSUME TypeOK, NEW b \in Bids, NEW r, NEW seen, NEW fact \in Facts, NEW dated,
         ApplyFact(b, r, seen, fact, dated), UNCHANGED <<initial, wallet>>,
         fact \in Final => wallet[b] = fact
  PROVE  Allowed
<1>. DEFINE fate == [c \in Bids |-> Fate[res[c]]]
            deal == [c \in Bids |-> Deal(c)]
<1>1. UNCHANGED deal
  BY DEF Deal
<1>2. CASE Live(seen) /\ res[b] = "HOLD" /\ fact = "settled"
  <2>1. res' = [res EXCEPT ![b] = "COMMITTED"]
    BY <1>2 DEF ApplyFact
  <2>2. fate' = [fate EXCEPT ![b] = "sold"] /\ fate[b] = "held"
    <3>1. \A c \in Bids : Fate[res'[c]] = IF c = b THEN "sold" ELSE Fate[res[c]]
      BY <2>1 DEF Fate, TypeOK
    <3>2. fate[b] = "held"
      BY <1>2 DEF Fate
    <3>. QED
      BY <3>1, <3>2
  <2>3. deal[b] = "settled"
    BY <1>2 DEF Deal, Final, Facts, DeadFacts
  <2>4. Stock!Sell(b)
    BY <1>1, <2>2, <2>3 DEF Stock!Sell
  <2>. QED
    BY <2>4 DEF Allowed, Stock!StockNext
<1>3. CASE Live(seen) /\ res[b] = "HOLD" /\ fact \in DeadFacts
  <2>1. res' = [res EXCEPT ![b] = "RELEASED"]
    BY <1>3 DEF ApplyFact, DeadFacts
  <2>2. fate' = [fate EXCEPT ![b] = "freed"] /\ fate[b] = "held"
    <3>1. \A c \in Bids : Fate[res'[c]] = IF c = b THEN "freed" ELSE Fate[res[c]]
      BY <2>1 DEF Fate, TypeOK
    <3>2. fate[b] = "held"
      BY <1>3 DEF Fate
    <3>. QED
      BY <3>1, <3>2
  <2>3. deal[b] = "dead"
    BY <1>3 DEF Deal, Final, Facts, DeadFacts
  <2>4. Stock!Free(b)
    BY <1>1, <2>2, <2>3 DEF Stock!Free
  <2>. QED
    BY <2>4 DEF Allowed, Stock!StockNext
<1>4. CASE ~(Live(seen) /\ res[b] = "HOLD" /\ fact \in DeadFacts \cup {"settled"})
  <2>1. UNCHANGED res
    BY <1>4 DEF ApplyFact, TypeOK, DeadFacts
  <2>. QED
    BY <2>1, UnmovedIsAllowed
<1>. QED
  BY <1>2, <1>3, <1>4

\* The wallet only decides a swap whose energy is still held.
LEMMA WalletIsAllowed ==
  ASSUME TypeOK, EvidenceInv, NEW b \in Bids, WalletReceives(b) \/ WalletMoves(b)
  PROVE  Allowed
<1>. DEFINE fate == [c \in Bids |-> Fate[res[c]]]
            deal == [c \in Bids |-> Deal(c)]
<1>1. UNCHANGED <<initial, res>>
  BY DEF WalletReceives, WalletMoves, stock
<1>2. PICK f : wallet' = [wallet EXCEPT ![b] = f] /\ f \in Facts \cup {"pending"}
  BY DEF WalletReceives, WalletMoves
<1>3. wallet[b] \notin DeadFacts \cup {"settled"}
  BY DEF WalletReceives, WalletMoves, DeadFacts
<1>4. UNCHANGED fate
  BY <1>1
<1>5. CASE f \in {"pending", "proposed"}
  <2>1. \A c \in Bids : Deal(c)' = Deal(c)
    BY <1>2, <1>3, <1>5 DEF Deal, DeadFacts, TypeOK
  <2>2. UNCHANGED deal
    BY <2>1
  <2>. QED
    BY <1>1, <1>4, <2>2 DEF Allowed, Stock!stockVars
<1>6. CASE f \in DeadFacts \cup {"settled"}
  <2>1. res[b] = "HOLD"
    BY <1>3, <1>6 DEF WalletReceives, WalletMoves, EvidenceInv, TypeOK, DeadFacts
  <2>2. deal[b] = "open" /\ fate[b] = "held"
    BY <1>3, <2>1 DEF Deal, Fate
  <2>3. \E d \in {"settled", "dead"} : deal' = [deal EXCEPT ![b] = d]
    <3>1. \E d \in {"settled", "dead"} :
            \A c \in Bids : Deal(c)' = IF c = b THEN d ELSE Deal(c)
      BY <1>2, <1>6 DEF Deal, TypeOK
    <3>. QED
      BY <3>1
  <2>4. Stock!Conclude(b)
    BY <1>1, <1>4, <2>2, <2>3 DEF Stock!Conclude
  <2>. QED
    BY <2>4 DEF Allowed, Stock!StockNext
<1>. QED
  BY <1>2, <1>5, <1>6 DEF Facts

LEMMA RefinementStep ==
  ASSUME VisibilityLag = FALSE, TypeOK, StockInv, EvidenceInv, [Next]_vars
  PROVE  Allowed
<1>. USE DEF stock
<1>1. CASE UNCHANGED vars
  BY <1>1, UnmovedIsAllowed DEF vars, external
<1>2. CASE PublishOffer
  <2>1. initial = 0 /\ initial' \in Nat \ {0}
    BY <1>2, ModelAssumption DEF PublishOffer, StockInv
  <2>2. UNCHANGED <<[b \in Bids |-> Fate[res[b]]], [b \in Bids |-> Deal(b)]>>
    BY <1>2 DEF PublishOffer, Deal, external
  <2>3. Stock!Offer
    BY <2>1, <2>2 DEF Stock!Offer
  <2>. QED
    BY <2>3 DEF Allowed, Stock!StockNext
<1>3. CASE WithdrawOffer \/ MarketClosed \/ CloseExpiredOffer
  BY <1>3, UnmovedIsAllowed
     DEF WithdrawOffer, MarketClosed, CloseExpiredOffer, external
<1>4. CASE DecideLot
  <2>1. PICK W \in SUBSET Pending : Winners(W) /\ Decide(W, Pending \ W)
    BY <1>4 DEF DecideLot
  <2>2. /\ W \in SUBSET Bids /\ Pending \ W \in SUBSET Bids
        /\ \A b \in W : bid[b] \in {"NEW", "PENDING"}
    BY DEF Pending
  <2>3. Stock!Hold(W)
    BY <2>1, <2>2, WinnersFit, DecideHolds
  <2>. QED
    BY <2>2, <2>3, HoldIsAllowed
<1>5. ASSUME NEW b \in Bids, BidReservedOnIngress(b)
      PROVE  Allowed
  <2>1. Kwh({b}) <= Available
    BY <1>5, KwhSingle DEF BidReservedOnIngress, Acceptable
  <2>2. Stock!Hold({b})
    BY <1>5, <2>1, DecideHolds DEF BidReservedOnIngress
  <2>. QED
    BY <2>2, HoldIsAllowed
<1>6. ASSUME NEW b \in Bids, BidRefused(b) \/ BidForUnknownOffer(b) \/ BidQueued(b)
      PROVE  Allowed
  <2>1. UNCHANGED <<initial, res, wallet>>
    BY <1>6 DEF BidRefused, BidForUnknownOffer, BidQueued, Decide, external, TypeOK
  <2>. QED
    BY <2>1, UnmovedIsAllowed
<1>7. CASE TimeStep
  BY <1>7, UnmovedIsAllowed
     DEF TimeStep, Tick, DeadlinePasses, LeaseExpires, external
<1>8. CASE WalletStep
  BY <1>8, WalletIsAllowed DEF WalletStep
<1>9. ASSUME NEW b \in Bids, NEW r, NEW fact \in Facts, Observe(b, r, fact),
             UNCHANGED <<initial, wallet>>, fact \in Final => wallet[b] = fact
      PROVE  Allowed
  BY <1>9, ApplyFactIsAllowed, UnmovedIsAllowed DEF Observe
<1>10. ASSUME NEW w \in Workers, DispatchStep(w) \/ Crash(w)
       PROVE  Allowed
  <2>1. ASSUME NEW b \in Bids, Claim(w, b)
        PROVE  Allowed
    BY <2>1, UnmovedIsAllowed DEF Claim, external
  <2>2. CASE Inspect(w) \/ Post(w) \/ Answer(w) \/ Crash(w)
    BY <2>2, UnmovedIsAllowed DEF Inspect, Post, Answer, Crash, external
  <2>3. CASE Recover(w)
    <3>1. task[w].bid \in Bids /\ task[w].answer \in Facts
      BY <2>3, WorkType DEF Recover, TypeOK
    <3>. QED
      BY <2>3, <3>1, <1>9, TaskEvidence DEF Recover, external
  <2>4. CASE Finish(w)
    <3>1. task[w].bid \in Bids
      BY <2>4, WorkType DEF Finish
    <3>. QED
      BY <2>4, <3>1, <1>9, TaskEvidence, UnmovedIsAllowed DEF Finish, external
  <2>. QED
    BY <1>10, <2>1, <2>2, <2>3, <2>4 DEF DispatchStep
<1>11. ASSUME NEW w \in Workers, SweepApply(w)
       PROVE  Allowed
  <2>1. task[w].bid \in Bids
    BY <1>11, WorkType DEF SweepApply, SweepSettles, SweepBuries,
          SweepNotFound, SweepCancels, SweepLearnsNothing
  <2>2. CASE SweepSettles(w)
    BY <2>1, <2>2, ApplyFactIsAllowed DEF SweepSettles, external, Facts
  <2>3. CASE SweepBuries(w)
    BY <2>1, <2>3, ApplyFactIsAllowed DEF SweepBuries, external, Facts
  <2>4. CASE SweepCancels(w) \/ SweepLearnsNothing(w)
    BY <2>4, UnmovedIsAllowed DEF SweepCancels, SweepLearnsNothing, external
  <2>. QED
    BY <1>11, <2>2, <2>3, <2>4 DEF SweepApply, SweepNotFound
<1>12. ASSUME NEW w \in Workers, NEW b \in Bids, SweepRead(w, b)
       PROVE  Allowed
  BY <1>12, UnmovedIsAllowed DEF SweepRead, external
<1>13. CASE EventApply
  <2>1. ingest.bid \in Bids /\ ingest.fact \in Facts
    BY <1>13, IngestType DEF EventApply
  <2>. QED
    BY <1>13, <2>1, ApplyFactIsAllowed DEF EventApply, EvidenceInv, Final, external
<1>14. CASE IngestAborts \/ \E b \in Bids, f \in Facts : EventRead(b, f)
  BY <1>14, UnmovedIsAllowed DEF IngestAborts, EventRead, external
<1>. QED
  BY <1>1, <1>2, <1>3, <1>4, <1>5, <1>6, <1>7, <1>8, <1>10, <1>11, <1>12,
     <1>13, <1>14
     DEF Next, OfferStep, BidStep, IngestStep, WorkerStep

\* Whatever the number of bids, replicas and workers, and whatever is lost,
\* late or repeated, what the seller does to the energy of its offer is what
\* EnergyStock allows (the accounting of reserve_incoming_bid and
\* _update_offer_and_reservation, driven by every path that reaches them).
THEOREM SellerImplementsStock ==
  ASSUME VisibilityLag = FALSE
  PROVE  Spec => ImplementsEnergyStock
<1>1. Init => Stock!StockInit
  <2>. SUFFICES ASSUME Init PROVE Stock!StockInit
    OBVIOUS
  <2>1. /\ initial = 0 /\ res = [b \in Bids |-> "NONE"]
        /\ wallet = [b \in Bids |-> "none"]
    BY Zenon DEF Init
  <2>. QED
    BY <2>1 DEF Stock!StockInit, Fate, Deal, DeadFacts
<1>2. TypeOK /\ StockInv /\ EvidenceInv /\ [Next]_vars
        => [Stock!StockNext]_(Stock!stockVars)
  BY RefinementStep DEF Allowed
<1>. QED
  BY <1>1, <1>2, TypeCorrect, StockInvariant, EvidenceInvariant, PTL
     DEF Spec, ImplementsEnergyStock, Stock!StockSpec

----------------------------------------------------------------------------
(* Settlement.                                                             *)

\* A status of the row, or one that was read from it, may be told when the
\* fact is applied.
LEMMA FactIsTold ==
  ASSUME NEW b \in Bids, NEW fact \in Facts, fact \in Final => wallet[b] = fact
  PROVE  Told(StatusOf[fact], b)
  BY DEF Told, StatusOf, Facts, DeadFacts, Final, Buried

\* What applying a fact makes of the swap, the reservation and the ledger.
\* r is the row, but for columns that matter to the dispatcher only.
LEMMA ApplyFactSettles ==
  ASSUME TypeOK, EvidenceInv, SettlementInv,
         NEW b \in Bids, NEW r \in SwapRecord, NEW seen \in SwapRecord,
         NEW fact \in Facts, NEW dated,
         ApplyFact(b, r, seen, fact, dated), r.status = swap[b].status,
         fact \in Final => wallet[b] = fact,
         Told(seen.status, b), ~Live(seen) => res[b] # "HOLD",
         swap[b].status = "SETTLED" /\ fact = "proposed" => ~Live(seen)
  PROVE  /\ ledger' = Committed' \X {"swapId"}
         /\ \A c \in Bids :
              /\ Told(swap'[c].status, c)
              /\ res'[c] = "HOLD" => /\ swap'[c].status \in {"SUBMITTED", "PROPOSED"}
                                     /\ res[c] = "HOLD"
              /\ swap[c].status = "SETTLED" => swap'[c].status = "SETTLED"
              /\ swap'[c].status = "SETTLED" =>
                   swap[c].status = "SETTLED" \/ fact = "settled"
<1>. DEFINE s == Learned(r, seen, fact, dated).status
            held == Live(seen) /\ res[b] = "HOLD"
<1>1. /\ swap' = [swap EXCEPT ![b] = Learned(r, seen, fact, dated)]
      /\ res' = [res EXCEPT ![b] = IF held /\ fact = "settled" THEN "COMMITTED"
                                   ELSE IF held /\ fact \in DeadFacts THEN "RELEASED" ELSE @]
      /\ ledger' = IF fact = "settled" /\ seen.status # "SETTLED"
                   THEN ledger \cup {<<b, LedgerKey(seen)>>} ELSE ledger
  BY DEF ApplyFact
<1>2. \A c \in Bids : c # b => swap'[c] = swap[c] /\ res'[c] = res[c]
  BY <1>1 DEF TypeOK
<1>3. swap'[b].status = s
  BY <1>1 DEF TypeOK
<1>4. s = IF Live(seen)
          THEN IF seen.status = StatusOf[fact] THEN swap[b].status ELSE StatusOf[fact]
          ELSE IF fact = "settled" THEN "SETTLED" ELSE swap[b].status
  BY DEF Learned, SwapRecord
<1>5. /\ Told(swap[b].status, b)
      /\ res[b] = "HOLD" => swap[b].status \in {"SUBMITTED", "PROPOSED"}
  BY DEF SettlementInv, HoldHasLiveSwap
<1>6. CASE fact = "proposed"
  <2>1. ledger' = ledger /\ UNCHANGED res
    BY <1>1, <1>6 DEF TypeOK, DeadFacts
  <2>2. Committed' = Committed
    BY <2>1 DEF Committed
  <2>3. s = IF Live(seen) THEN IF seen.status = "PROPOSED" THEN swap[b].status ELSE "PROPOSED"
            ELSE swap[b].status
    BY <1>4, <1>6 DEF StatusOf
  <2>4. Told("PROPOSED", b)
    BY DEF Told, Buried
  <2>5. Told(s, b)
    BY <1>5, <2>3, <2>4
  <2>6. /\ res[b] = "HOLD" => s \in {"SUBMITTED", "PROPOSED"}
        /\ swap[b].status = "SETTLED" <=> s = "SETTLED"
    BY <1>5, <1>6, <2>3
  <2>. QED
    BY <1>2, <1>3, <2>1, <2>2, <2>5, <2>6 DEF SettlementInv, HoldHasLiveSwap
<1>7. CASE fact = "settled"
  <2>1. wallet[b] = "settled"
    BY <1>7 DEF Final, Facts, DeadFacts
  <2>2. seen.status \notin Buried
    BY <2>1 DEF Told, DeadFacts
  <2>3. ~Live(seen) <=> seen.status = "SETTLED"
    BY <2>2 DEF Live, Terminal, Buried, SwapRecord
  <2>4. res[b] \in {"HOLD", "COMMITTED"}
    BY <2>1 DEF EvidenceInv, TypeOK, DeadFacts
  <2>5. s = "SETTLED"
    <3>1. StatusOf[fact] = "SETTLED"
      BY <1>7 DEF StatusOf
    <3>2. Live(seen) => seen.status # "SETTLED"
      BY <2>3
    <3>. QED
      BY <1>4, <1>7, <3>1, <3>2
  <2>6. res'[b] = "COMMITTED"
    BY <1>1, <1>7, <2>3, <2>4 DEF TypeOK
  <2>7. Committed' = Committed \cup {b}
    BY <1>2, <2>6 DEF Committed
  <2>8. ledger' = Committed' \X {"swapId"}
    <3>1. CASE seen.status = "SETTLED"
      <4>1. res[b] = "COMMITTED"
        BY <2>3, <2>4, <3>1
      <4>2. Committed' = Committed
        BY <2>7, <4>1 DEF Committed
      <4>. QED
        BY <1>1, <3>1, <4>2 DEF SettlementInv
    <3>2. CASE seen.status # "SETTLED"
      <4>1. LedgerKey(seen) = "swapId"
        BY <2>3, <3>2 DEF LedgerKey
      <4>2. ledger' = (Committed \X {"swapId"}) \cup {<<b, "swapId">>}
        BY <1>1, <1>7, <3>2, <4>1 DEF SettlementInv
      <4>. QED
        BY <2>7, <4>2
    <3>. QED
      BY <3>1, <3>2
  <2>9. Told("SETTLED", b)
    BY <2>1 DEF Told, Buried
  <2>. QED
    BY <1>2, <1>3, <2>5, <2>6, <2>8, <2>9, <1>7 DEF SettlementInv, HoldHasLiveSwap
<1>8. CASE fact \in DeadFacts
  <2>1. wallet[b] = fact /\ fact # "settled" /\ fact # "proposed"
    BY <1>8 DEF Final, Facts, DeadFacts
  <2>2. /\ res'[b] # "HOLD"
        /\ res'[b] = "COMMITTED" <=> res[b] = "COMMITTED"
    BY <1>1, <1>8, <2>1 DEF TypeOK
  <2>3. Committed' = Committed /\ ledger' = ledger
    BY <1>1, <1>2, <2>1, <2>2 DEF Committed
  <2>4. StatusOf[fact] \in Buried
    BY <1>8 DEF StatusOf, DeadFacts, Buried
  <2>5. s = swap[b].status \/ s \in Buried
    BY <1>4, <2>1, <2>4
  <2>6. Told(s, b)
    BY <1>5, <1>8, <2>1, <2>5 DEF Told, Buried
  <2>7. swap[b].status # "SETTLED" /\ s # "SETTLED"
    BY <1>5, <2>1, <2>5 DEF Told, Buried
  <2>. QED
    BY <1>2, <1>3, <2>2, <2>3, <2>6, <2>7 DEF SettlementInv, HoldHasLiveSwap
<1>. QED
  BY <1>6, <1>7, <1>8 DEF Facts

\* What a step may do to settlements besides moving the wallet.
LEMMA KeepsSettlement ==
  ASSUME TypeOK, EvidenceInv, SettlementInv, UNCHANGED wallet,
         ledger' = Committed' \X {"swapId"},
         \A c \in Bids :
           /\ Told(swap'[c].status, c)
           /\ res'[c] = "HOLD" => /\ swap'[c].status \in {"SUBMITTED", "PROPOSED"}
                                  /\ res[c] \in {"HOLD", "NONE"},
         ingest' # NoEvent =>
           \/ /\ ingest' = ingest
              /\ swap'[ingest.bid].status = "SETTLED" => swap[ingest.bid].status = "SETTLED"
           \/ /\ ingest'.bid \in Bids /\ ingest'.snap = swap[ingest'.bid]
              /\ UNCHANGED <<swap, res>>,
         \A w \in Workers : task'[w].pc = "swept" => Live(task'[w].snap)
  PROVE  SettlementInv'
<1>1. (\A c \in Bids : Told(swap[c].status, c))' /\ HoldHasLiveSwap'
  BY DEF Told, HoldHasLiveSwap
<1>2. ASSUME ingest' # NoEvent
      PROVE  /\ Told(ingest.snap.status, ingest.bid)'
             /\ ~Live(ingest'.snap) => res'[ingest'.bid] # "HOLD"
             /\ swap'[ingest'.bid].status = "SETTLED" => ingest'.snap.status = "SETTLED"
  <2>1. CASE ingest' = ingest /\ (swap'[ingest.bid].status = "SETTLED"
                                   => swap[ingest.bid].status = "SETTLED")
    <3>1. /\ ingest # NoEvent /\ ingest.bid \in Bids
          /\ ingest.snap.status \in {"NONE", "SUBMITTED", "PROPOSED"} \cup Terminal
      BY <1>2, <2>1, IngestType DEF SwapRecord
    <3>2. Told(ingest.snap.status, ingest.bid)'
      BY <2>1, <3>1 DEF SettlementInv, Told
    <3>3. ~Live(ingest.snap) => wallet[ingest.bid] # "none"
      BY <3>1 DEF SettlementInv, Told, Live, Terminal, Buried, DeadFacts
    <3>4. ~Live(ingest.snap) => res[ingest.bid] \notin {"HOLD", "NONE"}
      BY <3>1, <3>3 DEF SettlementInv, EvidenceInv
    <3>. QED
      BY <2>1, <3>1, <3>2, <3>4 DEF SettlementInv
  <2>2. CASE /\ ingest'.bid \in Bids /\ ingest'.snap = swap[ingest'.bid]
             /\ UNCHANGED <<swap, res>>
    <3>1. ~Live(swap[ingest'.bid]) => res[ingest'.bid] # "HOLD"
      BY <2>2 DEF SettlementInv, HoldHasLiveSwap, Live, Terminal
    <3>. QED
      BY <2>2, <3>1 DEF Told
  <2>. QED
    BY <1>2, <2>1, <2>2
<1>3. \A w \in Workers : (task[w].pc = "swept" => Live(task[w].snap))'
  BY DEF Live
<1>. QED
  BY <1>1, <1>2, <1>3 DEF SettlementInv, Live

SettledStays == \A b \in Bids : swap[b].status = "SETTLED" => swap'[b].status = "SETTLED"

\* Steps that only read, or write what no settlement depends on.
LEMMA QuietSettlement ==
  ASSUME TypeOK, EvidenceInv, SettlementInv, UNCHANGED <<res, ledger, wallet>>,
         \A c \in Bids : swap'[c].status = swap[c].status,
         \/ ingest' \in {NoEvent, ingest}
         \/ /\ ingest'.bid \in Bids /\ ingest'.snap = swap[ingest'.bid] /\ UNCHANGED swap,
         \A w \in Workers : task'[w].pc = "swept" => Live(task'[w].snap)
  PROVE  SettlementInv' /\ SettledStays
<1>1. ledger' = Committed' \X {"swapId"}
  BY DEF SettlementInv, Committed
<1>2. \A c \in Bids :
        /\ Told(swap'[c].status, c)
        /\ res'[c] = "HOLD" => /\ swap'[c].status \in {"SUBMITTED", "PROPOSED"}
                               /\ res[c] \in {"HOLD", "NONE"}
  BY DEF SettlementInv, HoldHasLiveSwap
<1>3. ingest' # NoEvent =>
        \/ /\ ingest' = ingest
           /\ swap'[ingest.bid].status = "SETTLED" => swap[ingest.bid].status = "SETTLED"
        \/ /\ ingest'.bid \in Bids /\ ingest'.snap = swap[ingest'.bid]
           /\ UNCHANGED <<swap, res>>
  BY IngestType
<1>. QED
  BY <1>1, <1>2, <1>3, KeepsSettlement DEF SettledStays

\* A reservation is new, and so is its swap.
LEMMA DecideSettles ==
  ASSUME TypeOK, StockInv, EvidenceInv, SettlementInv, NEW W \in SUBSET Bids, NEW L,
         \A b \in W : bid[b] \in {"NEW", "PENDING"}, Decide(W, L)
  PROVE  SettlementInv' /\ SettledStays
<1>1. \A b \in W : res[b] = "NONE" /\ wallet[b] = "none"
  BY DEF StockInv, EvidenceInv, TypeOK
<1>2. \A c \in Bids : /\ c \in W => swap'[c].status = "SUBMITTED" /\ res'[c] = "HOLD"
                      /\ c \notin W => swap'[c] = swap[c] /\ res'[c] = res[c]
  BY DEF Decide, NoSwap
<1>3. ledger' = Committed' \X {"swapId"}
  <2>1. Committed' = Committed
    BY <1>1, <1>2 DEF Committed
  <2>. QED
    BY <2>1 DEF SettlementInv, Decide
<1>4. \A c \in Bids :
        /\ Told(swap'[c].status, c)
        /\ res'[c] = "HOLD" => /\ swap'[c].status \in {"SUBMITTED", "PROPOSED"}
                               /\ res[c] \in {"HOLD", "NONE"}
  <2>1. \A c \in Bids : Told("SUBMITTED", c)
    BY DEF Told, Buried
  <2>. QED
    BY <1>1, <1>2, <2>1 DEF SettlementInv, HoldHasLiveSwap
<1>5. SettledStays
  BY <1>1, <1>2 DEF SettledStays, SettlementInv, Told
<1>6. ingest # NoEvent =>
        (swap'[ingest.bid].status = "SETTLED" => swap[ingest.bid].status = "SETTLED")
  BY <1>2, IngestType
<1>7. UNCHANGED <<wallet, ingest, task>>
  BY DEF Decide, external
<1>. QED
  BY <1>3, <1>4, <1>5, <1>6, <1>7, KeepsSettlement DEF SettlementInv

\* A worker that applies a fact while it holds the ledger's lock, if it needs it.
LEMMA WorkSettles ==
  ASSUME TypeOK, EvidenceInv, SettlementInv, UNCHANGED <<wallet, ingest>>,
         NEW b \in Bids, NEW r \in SwapRecord, NEW seen \in SwapRecord,
         NEW fact \in Facts, NEW dated,
         ApplyFact(b, r, seen, fact, dated), r.status = swap[b].status,
         fact \in Final => wallet[b] = fact,
         Live(seen), Told(seen.status, b), LedgerLockFree(seen, fact),
         fact = "proposed" => seen = r,
         \A w \in Workers : task'[w].pc = "swept" => Live(task'[w].snap)
  PROVE  SettlementInv' /\ SettledStays
<1>1. seen.status # "SETTLED"
  BY DEF Live, Terminal
<1>2. swap[b].status = "SETTLED" /\ fact = "proposed" => ~Live(seen)
  BY <1>1
<1>3. /\ ledger' = Committed' \X {"swapId"}
      /\ \A c \in Bids :
           /\ Told(swap'[c].status, c)
           /\ res'[c] = "HOLD" => /\ swap'[c].status \in {"SUBMITTED", "PROPOSED"}
                                  /\ res[c] = "HOLD"
           /\ swap[c].status = "SETTLED" => swap'[c].status = "SETTLED"
           /\ swap'[c].status = "SETTLED" => swap[c].status = "SETTLED" \/ fact = "settled"
  BY <1>2, ApplyFactSettles
<1>4. ingest # NoEvent =>
        (swap'[ingest.bid].status = "SETTLED" => swap[ingest.bid].status = "SETTLED")
  BY <1>1, <1>3, IngestType DEF LedgerLockFree
<1>. QED
  BY <1>3, <1>4, KeepsSettlement DEF SettledStays

LEMMA ObserveSettles ==
  ASSUME TypeOK, EvidenceInv, SettlementInv, UNCHANGED <<wallet, ingest>>,
         NEW b \in Bids, NEW r \in SwapRecord, NEW fact \in Facts, Observe(b, r, fact),
         r.status = swap[b].status, fact \in Final => wallet[b] = fact,
         \A w \in Workers : task'[w].pc = "swept" => Live(task'[w].snap)
  PROVE  SettlementInv' /\ SettledStays
<1>1. CASE r.swapId /\ Live(r)
  <2>1. Told(r.status, b)
    BY DEF SettlementInv
  <2>. QED
    BY <1>1, <2>1, WorkSettles DEF Observe
<1>2. CASE ~(r.swapId /\ Live(r))
  <2>1. \A c \in Bids : swap'[c].status = swap[c].status
    BY <1>2 DEF Observe, TypeOK
  <2>. QED
    BY <1>2, <2>1, QuietSettlement DEF Observe
<1>. QED
  BY <1>1, <1>2

\* What finishes an attempt leaves the status of the swap alone.
LEMMA FinishedStatus ==
  ASSUME NEW r \in SwapRecord, NEW token, NEW out
  PROVE  Finished(r, token, out).status = r.status
<1>. DEFINE id == r.swapId \/ out \in Confirmed \ {"acceptedNoId"}
            ok == r.accepted \/ out \in Confirmed
            no == (r.blocked \/ out = "blocked") /\ out \notin Confirmed
<1>1. \/ Finished(r, token, out) = r
      \/ Finished(r, token, out)
           = [r EXCEPT !.token = 0, !.lease = FALSE, !.accepted = ok]
      \/ Finished(r, token, out)
           = [r EXCEPT !.token = 0, !.lease = FALSE, !.swapId = id,
                       !.accepted = ok, !.blocked = no]
  BY DEF Finished
<1>. HIDE DEF id, ok, no
<1>. QED
  BY <1>1 DEF SwapRecord

LEMMA SettlementStep ==
  ASSUME VisibilityLag = FALSE, TypeOK, StockInv, EvidenceInv, SettlementInv,
         [Next]_vars
  PROVE  SettlementInv' /\ SettledStays
<1>. DEFINE TaskFine == \A w \in Workers : task'[w].pc = "swept" => Live(task'[w].snap)
<1>1. UNCHANGED task => TaskFine
  BY DEF SettlementInv
<1>2. ASSUME NEW w \in Workers, NEW t, Goes(w, t), t.pc = "swept" => Live(t.snap)
      PROVE  TaskFine
  BY <1>2 DEF Goes, TypeOK, SettlementInv
<1>3. ASSUME NEW w \in Workers, Goes(w, Idle)
      PROVE  TaskFine
  BY <1>2, <1>3 DEF Idle
<1>4. CASE UNCHANGED vars
  BY <1>1, <1>4, QuietSettlement DEF vars, external
<1>5. CASE OfferStep
  BY <1>1, <1>5, QuietSettlement
     DEF OfferStep, PublishOffer, WithdrawOffer, MarketClosed, CloseExpiredOffer,
         external
<1>6. CASE TimeStep
  <2>1. CASE Tick \/ \E b \in Bids : DeadlinePasses(b)
    BY <1>1, <2>1, QuietSettlement DEF Tick, DeadlinePasses, external
  <2>2. ASSUME NEW b \in Bids, LeaseExpires(b)
        PROVE  SettlementInv' /\ SettledStays
    <3>1. \A c \in Bids : swap'[c].status = swap[c].status
      BY <2>2 DEF LeaseExpires, TypeOK, SwapRecord
    <3>. QED
      BY <1>1, <2>2, <3>1, QuietSettlement DEF LeaseExpires, external
  <2>. QED
    BY <1>6, <2>1, <2>2 DEF TimeStep
<1>7. CASE DecideLot
  <2>1. PICK W \in SUBSET Pending : Decide(W, Pending \ W)
    BY <1>7 DEF DecideLot
  <2>2. W \in SUBSET Bids /\ \A b \in W : bid[b] \in {"NEW", "PENDING"}
    BY DEF Pending
  <2>. QED
    BY <2>1, <2>2, DecideSettles
<1>8. ASSUME NEW b \in Bids, BidReservedOnIngress(b) \/ BidRefused(b)
      PROVE  SettlementInv' /\ SettledStays
  BY <1>8, DecideSettles DEF BidReservedOnIngress, BidRefused
<1>9. ASSUME NEW b \in Bids, BidForUnknownOffer(b) \/ BidQueued(b)
      PROVE  SettlementInv' /\ SettledStays
  BY <1>1, <1>9, QuietSettlement DEF BidForUnknownOffer, BidQueued, external
<1>10. ASSUME NEW w \in Workers, NEW b \in Bids, Claim(w, b)
       PROVE  SettlementInv' /\ SettledStays
  <2>1. \A c \in Bids : swap'[c].status = swap[c].status
    BY <1>10 DEF Claim, TypeOK, SwapRecord
  <2>2. TaskFine
    BY <1>2, <1>10 DEF Claim, Started
  <2>. QED
    BY <1>10, <2>1, <2>2, QuietSettlement DEF Claim, external
<1>11. ASSUME NEW w \in Workers, Inspect(w) \/ Post(w) \/ Answer(w) \/ Crash(w)
       PROVE  SettlementInv' /\ SettledStays
  <2>1. task[w].pc # "idle" => task[w] \in Work
    BY WorkType
  <2>2. CASE Inspect(w)
    BY <1>2, <2>1, <2>2, QuietSettlement DEF Inspect, Work, external
  <2>3. CASE Post(w)
    BY <1>2, <2>1, <2>3, QuietSettlement DEF Post, Work, external
  <2>4. CASE Answer(w)
    BY <1>2, <2>1, <2>4, QuietSettlement DEF Answer, Work, external
  <2>5. CASE Crash(w)
    BY <1>3, <2>5, QuietSettlement DEF Crash, external
  <2>. QED
    BY <1>11, <2>2, <2>3, <2>4, <2>5
<1>12. ASSUME NEW w \in Workers, Recover(w)
       PROVE  SettlementInv' /\ SettledStays
  <2>. DEFINE b == task[w].bid
              r == Finished(swap[b], task[w].token, "recovered")
  <2>1. b \in Bids /\ swap[b] \in SwapRecord /\ task[w].answer \in Facts
    BY <1>12, WorkType DEF Recover, TypeOK
  <2>2. r \in SwapRecord /\ r.status = swap[b].status
    BY <2>1, FinishedType, FinishedStatus
  <2>3. task[w].answer \in Final => wallet[b] = task[w].answer
    BY TaskEvidence
  <2>. QED
    BY <1>3, <1>12, <2>1, <2>2, <2>3, ObserveSettles DEF Recover, external
<1>13. ASSUME NEW w \in Workers, Finish(w)
       PROVE  SettlementInv' /\ SettledStays
  <2>. DEFINE b == task[w].bid
              r == Finished(swap[b], task[w].token, task[w].answer)
  <2>1. b \in Bids /\ swap[b] \in SwapRecord
    BY <1>13, WorkType DEF Finish
  <2>2. r \in SwapRecord /\ r.status = swap[b].status
    BY <2>1, FinishedType, FinishedStatus
  <2>3. task[w].answer \in Final => wallet[b] = task[w].answer
    BY TaskEvidence
  <2>4. CASE task[w].answer \in Facts
    BY <1>3, <1>13, <2>1, <2>2, <2>3, <2>4, ObserveSettles DEF Finish, external
  <2>5. CASE task[w].answer \notin Facts
    <3>1. \A c \in Bids : swap'[c].status = swap[c].status
      BY <1>13, <2>2, <2>5 DEF Finish, TypeOK
    <3>. QED
      BY <1>3, <1>13, <2>5, <3>1, QuietSettlement DEF Finish, external
  <2>. QED
    BY <2>4, <2>5
<1>14. ASSUME NEW w \in Workers, NEW b \in Bids, SweepRead(w, b)
       PROVE  SettlementInv' /\ SettledStays
  <2>1. TaskFine
    BY <1>2, <1>14 DEF SweepRead, Started, Stale, Live, Terminal
  <2>. QED
    BY <1>14, <2>1, QuietSettlement DEF SweepRead, external
<1>15. ASSUME NEW w \in Workers, SweepApply(w)
       PROVE  SettlementInv' /\ SettledStays
  <2>. DEFINE b == task[w].bid
              seen == task[w].snap
  <2>1. task[w].pc = "swept" /\ Goes(w, Idle)
    BY <1>15 DEF SweepApply, SweepSettles, SweepBuries, SweepNotFound,
                 SweepCancels, SweepLearnsNothing
  <2>2. b \in Bids /\ swap[b] \in SwapRecord /\ seen \in SwapRecord
    BY <2>1, WorkType
  <2>3. Live(seen) /\ Told(seen.status, b)
    BY <2>1 DEF SettlementInv, Live, Terminal, Told, Buried
  <2>4. TaskFine
    BY <1>3, <2>1
  <2>5. CASE SweepSettles(w)
    BY <2>2, <2>3, <2>4, <2>5, WorkSettles DEF SweepSettles, external, Facts, Final
  <2>6. CASE SweepBuries(w)
    <3>1. wallet[b] \in DeadFacts /\ wallet[b] # "settled" /\ wallet[b] # "proposed"
      BY <2>6 DEF SweepBuries, DeadFacts
    <3>2. LedgerLockFree(seen, wallet[b])
      BY <3>1 DEF LedgerLockFree
    <3>. QED
      BY <2>2, <2>3, <2>4, <2>6, <3>1, <3>2, WorkSettles
         DEF SweepBuries, external, Facts
  <2>7. CASE SweepCancels(w) \/ SweepLearnsNothing(w)
    BY <2>4, <2>7, QuietSettlement DEF SweepCancels, SweepLearnsNothing, external
  <2>. QED
    BY <1>15, <2>5, <2>6, <2>7 DEF SweepApply, SweepNotFound
<1>16. ASSUME NEW b \in Bids, NEW f \in Facts, EventRead(b, f)
       PROVE  SettlementInv' /\ SettledStays
  BY <1>1, <1>16, QuietSettlement DEF EventRead, external
<1>17. CASE IngestAborts
  BY <1>1, <1>17, QuietSettlement DEF IngestAborts, external
<1>18. CASE EventApply
  <2>. DEFINE e == ingest
              b == ingest.bid
  <2>1. /\ b \in Bids /\ e.fact \in Facts /\ e.snap \in SwapRecord
        /\ swap[b] \in SwapRecord /\ ingest # NoEvent
    BY <1>18, IngestType DEF EventApply
  <2>2. /\ e.fact \in Final => wallet[b] = e.fact
        /\ Told(e.snap.status, b) /\ (~Live(e.snap) => res[b] # "HOLD")
        /\ swap[b].status = "SETTLED" /\ e.fact = "proposed" => ~Live(e.snap)
    BY <2>1 DEF EvidenceInv, SettlementInv, Final, Live, Terminal
  <2>3. ApplyFact(b, swap[b], e.snap, e.fact, e.fact = "proposed")
    BY <1>18 DEF EventApply
  <2>4. /\ ledger' = Committed' \X {"swapId"}
        /\ \A c \in Bids :
             /\ Told(swap'[c].status, c)
             /\ res'[c] = "HOLD" => /\ swap'[c].status \in {"SUBMITTED", "PROPOSED"}
                                    /\ res[c] = "HOLD"
             /\ swap[c].status = "SETTLED" => swap'[c].status = "SETTLED"
    BY <2>1, <2>2, <2>3, ApplyFactSettles
  <2>5. ingest' = NoEvent /\ UNCHANGED <<task, wallet>>
    BY <1>18 DEF EventApply, external
  <2>. QED
    BY <1>1, <2>4, <2>5, KeepsSettlement DEF SettledStays
<1>19. ASSUME NEW b \in Bids, WalletReceives(b) \/ WalletMoves(b)
       PROVE  SettlementInv' /\ SettledStays
  <2>1. /\ wallet[b] \notin DeadFacts \cup {"settled"}
        /\ UNCHANGED <<res, swap, ledger, ingest, task>>
        /\ \A c \in Bids : c # b => wallet'[c] = wallet[c]
    BY <1>19 DEF WalletReceives, WalletMoves, TypeOK, DeadFacts
  <2>2. \A status, c : c \in Bids /\ Told(status, c) => Told(status, c)'
    BY <2>1 DEF Told
  <2>3. Committed' = Committed /\ HoldHasLiveSwap'
    BY <2>1 DEF Committed, SettlementInv, HoldHasLiveSwap
  <2>. QED
    BY <2>1, <2>2, <2>3, IngestType DEF SettlementInv, SettledStays, Live
<1>. QED
  BY <1>4, <1>5, <1>6, <1>7, <1>8, <1>9, <1>10, <1>11, <1>12, <1>13, <1>14,
     <1>15, <1>16, <1>17, <1>18, <1>19
     DEF Next, BidStep, WorkerStep, DispatchStep, IngestStep, WalletStep

\* The ledger, the terminal rows and the rows that transactions in flight have
\* read agree with the wallet (wallet_service.process_swap_event).
THEOREM SettlementInvariant ==
  ASSUME VisibilityLag = FALSE
  PROVE  Spec => []SettlementInv
<1>1. Init => SettlementInv
  <2>. SUFFICES ASSUME Init PROVE SettlementInv
    OBVIOUS
  <2>1. /\ ledger = {} /\ ingest = NoEvent
        /\ task = [w \in Workers |-> Idle]
        /\ res = [b \in Bids |-> "NONE"] /\ swap = [b \in Bids |-> NoSwap]
    BY Zenon DEF Init
  <2>2. Committed = {}
    BY <2>1 DEF Committed
  <2>. QED
    BY <2>1, <2>2 DEF SettlementInv, HoldHasLiveSwap, Told, Buried, NoSwap, Idle
<1>2. TypeOK /\ StockInv /\ EvidenceInv /\ SettlementInv /\ [Next]_vars => SettlementInv'
  BY SettlementStep
<1>. QED
  BY <1>1, <1>2, TypeCorrect, StockInvariant, EvidenceInvariant, PTL DEF Spec

\* What the ledger holds of one bid, by SettlementInv and EvidenceInv.
LEMMA LedgerOfBid ==
  ASSUME EvidenceInv, SettlementInv
  PROVE  BookedOnce
<1>1. ASSUME NEW b \in Bids
      PROVE  LET entries == {e \in ledger : e[1] = b}
             IN /\ Cardinality(entries) <= 1
                /\ res[b] = "COMMITTED" => entries # {}
                /\ entries # {} => wallet[b] = "settled" /\ res[b] = "COMMITTED"
  <2>1. PICK S : S = {e \in ledger : e[1] = b}
    OBVIOUS
  <2>2. /\ ledger = Committed \X {"swapId"}
        /\ \A c : c \in Committed <=> c \in Bids /\ res[c] = "COMMITTED"
    BY DEF SettlementInv, Committed
  <2>3. S = IF res[b] = "COMMITTED" THEN {<<b, "swapId">>} ELSE {}
    <3>1. \A e : e \in S <=> res[b] = "COMMITTED" /\ e = <<b, "swapId">>
      BY <2>1, <2>2
    <3>. QED
      BY <3>1
  <2>4. Cardinality(S) <= 1
    <3>1. Cardinality(S) \in {0, 1}
      BY <2>3, FS_Singleton, FS_EmptySet, Zenon
    <3>. QED
      BY <3>1
  <2>5. res[b] = "COMMITTED" => wallet[b] = "settled"
    BY <1>1 DEF EvidenceInv
  <2>6. /\ res[b] = "COMMITTED" => S # {}
        /\ S # {} => wallet[b] = "settled" /\ res[b] = "COMMITTED"
    BY <2>3, <2>5
  <2>. QED
    BY <2>1, <2>4, <2>6, Zenon
<1>. QED
  BY <1>1 DEF BookedOnce

\* A settlement has one entry in the ledger, however many workers, events and
\* replays report it; the wallet did settle it, and the energy is committed
\* exactly with the entry (wallet_service.process_swap_event).
THEOREM SettlementsAreBookedOnce ==
  ASSUME VisibilityLag = FALSE
  PROVE  Spec => []BookedOnce
BY LedgerOfBid, EvidenceInvariant, SettlementInvariant, PTL

\* A HOLD never outlives the swap that should resolve it: each path that ends a
\* swap releases or commits the reservation in the same transaction.
THEOREM HoldsAreResolvable ==
  ASSUME VisibilityLag = FALSE
  PROVE  Spec => []HoldHasLiveSwap
<1>1. SettlementInv => HoldHasLiveSwap
  BY DEF SettlementInv
<1>. QED
  BY <1>1, SettlementInvariant, PTL

\* A settled swap stays settled, whatever stale row, late answer or repeated
\* event a transaction decides on (ledger.py:35, the city advisory lock).
THEOREM SettlementIsFinal ==
  ASSUME VisibilityLag = FALSE
  PROVE  Spec => SettledIsFinal
<1>1. TypeOK /\ StockInv /\ EvidenceInv /\ SettlementInv /\ [Next]_vars
        => [\A b \in Bids : swap[b].status = "SETTLED"
                            => swap'[b].status = "SETTLED"]_vars
  BY SettlementStep DEF SettledStays
<1>. QED
  BY <1>1, TypeCorrect, StockInvariant, EvidenceInvariant, SettlementInvariant,
     PTL DEF Spec, SettledIsFinal

----------------------------------------------------------------------------
(* Replies.                                                                *)

\* What a reply asks of its bid, as the bid stands.
Answered(r) ==
  IF r[2] = "rejected"
  THEN bid[r[1]] \notin {"NEW", "PENDING"} /\ res[r[1]] = "NONE"
  ELSE /\ bid[r[1]] \in {"ACCEPTED", "EXPIRED"} /\ res[r[1]] # "NONE"
       /\ wallet[r[1]] \in Facts

\* Bids, reservations and the wallet only go forward.
Forward ==
  \A c \in Bids :
    /\ bid'[c] \in {"NEW", "PENDING"} => bid[c] \in {"NEW", "PENDING"}
    /\ bid[c] \in {"ACCEPTED", "EXPIRED"} => bid'[c] \in {"ACCEPTED", "EXPIRED"}
    /\ res[c] # "NONE" => res'[c] # "NONE"
    /\ res[c] = "NONE" /\ res'[c] # "NONE" => bid[c] \in {"NEW", "PENDING"}
    /\ wallet[c] \in Facts => wallet'[c] \in Facts

LEMMA KeepsReplies ==
  ASSUME TypeOK, ReplyInv, Forward,
         \A r \in replies' : r \in replies \/ Answered(r)',
         \A e \in events' : e \in events \/ wallet'[e[1]] \in Facts,
         ingest' # NoEvent =>
           ingest' = ingest \/ <<ingest'.bid, ingest'.fact>> \in events
  PROVE  ReplyInv'
<1>1. \A r \in replies : Answered(r)'
  <2>1. \A r \in replies : r[1] \in Bids /\ Answered(r)
    BY DEF TypeOK, ReplyInv, Answered
  <2>. QED
    BY <2>1 DEF Forward, Answered
<1>2. \A e \in events : e[1] \in Bids /\ wallet'[e[1]] \in Facts
  BY DEF TypeOK, ReplyInv, Forward
<1>3. ingest' # NoEvent => wallet'[ingest'.bid] \in Facts
  <2>1. CASE ingest' # NoEvent /\ ingest' = ingest
    BY <2>1, IngestType DEF ReplyInv, Forward
  <2>2. CASE <<ingest'.bid, ingest'.fact>> \in events
    BY <1>2, <2>2
  <2>. QED
    BY <2>1, <2>2
<1>. QED
  BY <1>1, <1>2, <1>3 DEF ReplyInv, Answered

LEMMA StillKeepsReplies ==
  ASSUME TypeOK, ReplyInv, UNCHANGED <<replies, events>>, Forward,
         ingest' \in {NoEvent, ingest}
  PROVE  ReplyInv'
  BY KeepsReplies

\* Applying a fact never takes a reservation back to where it was not made.
LEMMA ApplyFactForward ==
  ASSUME TypeOK, NEW b \in Bids, NEW r, NEW seen, NEW fact, NEW dated,
         ApplyFact(b, r, seen, fact, dated), UNCHANGED wallet,
         \A c \in Bids :
           /\ bid'[c] \in {"NEW", "PENDING"} => bid[c] \in {"NEW", "PENDING"}
           /\ bid[c] \in {"ACCEPTED", "EXPIRED"} => bid'[c] \in {"ACCEPTED", "EXPIRED"}
  PROVE  Forward
  BY DEF ApplyFact, TypeOK, Forward

\* The bids of a lot had not been decided.
LEMMA DecideKeepsReplies ==
  ASSUME TypeOK, StockInv, ReplyInv, NEW W \in SUBSET Bids, NEW L \in SUBSET Bids,
         W \cap L = {}, \A b \in W \cup L : bid[b] \in {"NEW", "PENDING"}, Decide(W, L)
  PROVE  ReplyInv'
<1>1. \A c \in Bids : /\ bid'[c] = IF c \in W THEN "RESERVED"
                                  ELSE IF c \in L THEN "REJECTED" ELSE bid[c]
                      /\ res'[c] = IF c \in W THEN "HOLD" ELSE res[c]
  BY DEF Decide
<1>2. \A c \in W \cup L : res[c] = "NONE"
  BY DEF StockInv
<1>3. Forward
  BY <1>1, <1>2 DEF Forward, Decide, external
<1>4. \A r \in L \X {"rejected"} : Answered(r)'
  BY <1>1, <1>2 DEF Answered
<1>. QED
  BY <1>3, <1>4, KeepsReplies DEF Decide, external

LEMMA ReplyStep ==
  ASSUME TypeOK, StockInv, ReplyInv, [Next]_vars
  PROVE  ReplyInv'
<1>1. ASSUME UNCHANGED <<bid, res, replies, wallet, events>>, ingest' \in {NoEvent, ingest}
      PROVE  ReplyInv'
  BY <1>1, StillKeepsReplies DEF Forward
<1>2. CASE UNCHANGED vars
  BY <1>1, <1>2 DEF vars, external
<1>3. CASE OfferStep \/ TimeStep
  BY <1>1, <1>3
     DEF OfferStep, PublishOffer, WithdrawOffer, MarketClosed, CloseExpiredOffer,
         TimeStep, Tick, DeadlinePasses, LeaseExpires, external
<1>4. CASE DecideLot
  <2>1. PICK W \in SUBSET Pending : Decide(W, Pending \ W)
    BY <1>4 DEF DecideLot
  <2>2. /\ W \in SUBSET Bids /\ Pending \ W \in SUBSET Bids /\ W \cap (Pending \ W) = {}
        /\ \A b \in W \cup (Pending \ W) : bid[b] \in {"NEW", "PENDING"}
    BY DEF Pending
  <2>. QED
    BY <2>1, <2>2, DecideKeepsReplies
<1>5. ASSUME NEW b \in Bids, BidReservedOnIngress(b) \/ BidRefused(b)
      PROVE  ReplyInv'
  BY <1>5, DecideKeepsReplies DEF BidReservedOnIngress, BidRefused
<1>6. ASSUME NEW b \in Bids, BidQueued(b)
      PROVE  ReplyInv'
  <2>1. Forward
    BY <1>6 DEF BidQueued, Forward, external, TypeOK
  <2>. QED
    BY <1>6, <2>1, StillKeepsReplies DEF BidQueued, external
<1>7. ASSUME NEW b \in Bids, BidForUnknownOffer(b)
      PROVE  ReplyInv'
  <2>1. Forward
    BY <1>7 DEF BidForUnknownOffer, Forward, external, TypeOK
  <2>2. Answered(<<b, "rejected">>)'
    BY <1>7 DEF BidForUnknownOffer, Answered, StockInv, TypeOK
  <2>. QED
    BY <1>7, <2>1, <2>2, KeepsReplies DEF BidForUnknownOffer, external
<1>8. ASSUME NEW b \in Bids, NEW r, NEW fact, Observe(b, r, fact),
             UNCHANGED <<bid, replies, wallet, events, ingest>>
      PROVE  ReplyInv'
  <2>1. Forward
    BY <1>8, ApplyFactForward DEF Observe, Forward
  <2>. QED
    BY <1>8, <2>1, StillKeepsReplies
<1>9. ASSUME NEW w \in Workers, DispatchStep(w) \/ Crash(w)
      PROVE  ReplyInv'
  <2>1. CASE \/ \E b \in Bids : Claim(w, b)
             \/ Inspect(w) \/ Post(w) \/ Answer(w) \/ Crash(w)
    BY <1>1, <2>1 DEF Claim, Inspect, Post, Answer, Crash, external
  <2>2. CASE Recover(w)
    BY <1>8, <2>2, WorkType DEF Recover, external
  <2>3. CASE Finish(w)
    BY <1>1, <1>8, <2>3, WorkType DEF Finish, external
  <2>. QED
    BY <1>9, <2>1, <2>2, <2>3 DEF DispatchStep
<1>10. ASSUME NEW w \in Workers, NEW b \in Bids, SweepRead(w, b)
       PROVE  ReplyInv'
  BY <1>1, <1>10 DEF SweepRead, external
<1>11. ASSUME NEW w \in Workers, SweepApply(w)
       PROVE  ReplyInv'
  <2>1. task[w].bid \in Bids
    BY <1>11, WorkType DEF SweepApply, SweepSettles, SweepBuries,
          SweepNotFound, SweepCancels, SweepLearnsNothing
  <2>2. CASE SweepSettles(w)
    <3>1. Forward
      BY <2>1, <2>2, ApplyFactForward DEF SweepSettles, external
    <3>. QED
      BY <2>2, <3>1, StillKeepsReplies DEF SweepSettles, external
  <2>3. CASE SweepBuries(w) \/ SweepNotFound(w)
    <3>1. \A c \in Bids :
            /\ bid'[c] \in {"NEW", "PENDING"} => bid[c] \in {"NEW", "PENDING"}
            /\ bid[c] \in {"ACCEPTED", "EXPIRED"} => bid'[c] \in {"ACCEPTED", "EXPIRED"}
      BY <2>3 DEF SweepBuries, SweepNotFound, SetBidExpired, TypeOK
    <3>2. Forward
      BY <2>1, <2>3, <3>1, ApplyFactForward DEF SweepBuries, SweepNotFound, external
    <3>. QED
      BY <2>3, <3>2, StillKeepsReplies DEF SweepBuries, SweepNotFound, external
  <2>4. CASE SweepCancels(w) \/ SweepLearnsNothing(w)
    BY <1>1, <2>4 DEF SweepCancels, SweepLearnsNothing, external
  <2>. QED
    BY <1>11, <2>2, <2>3, <2>4 DEF SweepApply
<1>12. ASSUME NEW b \in Bids, NEW f \in Facts, EventRead(b, f)
       PROVE  ReplyInv'
  <2>1. Forward
    BY <1>12 DEF EventRead, Forward, external
  <2>. QED
    BY <1>12, <2>1, KeepsReplies DEF EventRead, external
<1>13. CASE IngestAborts
  BY <1>1, <1>13 DEF IngestAborts, external
<1>14. CASE EventApply
  <2>. PICK b : b = ingest.bid
    OBVIOUS
  <2>1. b \in Bids /\ wallet[b] \in Facts
    BY <1>14, IngestType DEF EventApply, ReplyInv
  <2>2. \A c \in Bids :
          /\ bid'[c] \in {"NEW", "PENDING"} => bid[c] \in {"NEW", "PENDING"}
          /\ bid[c] \in {"ACCEPTED", "EXPIRED"} => bid'[c] \in {"ACCEPTED", "EXPIRED"}
    BY <1>14 DEF EventApply, TypeOK
  <2>3. Forward
    BY <1>14, <2>1, <2>2, ApplyFactForward DEF EventApply, external
  <2>4. AnswersBid(ingest) => Answered(<<b, "accepted">>)'
    <3>1. AnswersBid(ingest) => bid'[b] = "ACCEPTED" /\ res[b] = "HOLD"
      BY <1>14, <2>1 DEF EventApply, AnswersBid, TypeOK
    <3>2. UNCHANGED wallet
      BY <1>14 DEF EventApply, external
    <3>. QED
      BY <2>1, <2>3, <3>1, <3>2 DEF Answered, Forward
  <2>. QED
    BY <1>14, <2>3, <2>4, KeepsReplies DEF EventApply, external
<1>15. ASSUME NEW b \in Bids, WalletReceives(b) \/ WalletMoves(b)
       PROVE  ReplyInv'
  <2>1. /\ Forward /\ UNCHANGED <<replies, ingest>>
        /\ \A e \in events' : e \in events \/ wallet'[e[1]] \in Facts
    BY <1>15 DEF WalletReceives, WalletMoves, Forward, TypeOK, Facts, DeadFacts
  <2>. QED
    BY <2>1, KeepsReplies
<1>. QED
  BY <1>2, <1>3, <1>4, <1>5, <1>6, <1>7, <1>9, <1>10, <1>11, <1>12, <1>13,
     <1>14, <1>15
     DEF Next, BidStep, WorkerStep, IngestStep, WalletStep

\* What a reply, an event and an ingest say is so, even if GET may deny a live
\* swap (reserve_incoming_bid, process_due_seller_bids).
THEOREM ReplyInvariant == Spec => []ReplyInv
<1>1. Init => ReplyInv
  <2>. SUFFICES ASSUME Init PROVE ReplyInv
    OBVIOUS
  <2>1. replies = {} /\ events = {} /\ ingest = NoEvent
    BY Zenon DEF Init
  <2>. QED
    BY <2>1 DEF ReplyInv
<1>2. TypeOK /\ StockInv /\ ReplyInv /\ [Next]_vars => ReplyInv'
  BY ReplyStep
<1>. QED
  BY <1>1, <1>2, TypeCorrect, StockInvariant, PTL DEF Spec

\* The buyer is told one thing, and accepted only what the wallet has, even if
\* GET may deny a live swap (reserve_incoming_bid, process_due_seller_bids,
\* enqueue_bid_accepted_after_swap_proposed).
THEOREM BuyerIsToldOnce == Spec => []OneReply
<1>1. ReplyInv => OneReply
  <2>. SUFFICES ASSUME ReplyInv, NEW b \in Bids
                PROVE  /\ ~({<<b, "accepted">>, <<b, "rejected">>} \subseteq replies)
                       /\ <<b, "accepted">> \in replies =>
                            /\ wallet[b] \in Facts /\ res[b] # "NONE"
                            /\ bid[b] \in {"ACCEPTED", "EXPIRED"}
    BY DEF OneReply
  <2>1. <<b, "rejected">> \in replies => res[b] = "NONE"
    BY DEF ReplyInv
  <2>2. <<b, "accepted">> \in replies =>
          /\ wallet[b] \in Facts /\ res[b] # "NONE"
          /\ bid[b] \in {"ACCEPTED", "EXPIRED"}
    BY DEF ReplyInv
  <2>. QED
    BY <2>1, <2>2
<1>. QED
  BY <1>1, ReplyInvariant, PTL

-----------------------------------------------------------------------------
(* Lots serve as many bids as they can.                                    *)

\* Other steps take a pending bid nowhere, except a lot.
LEMMA OnlyLotsEmpty ==
  ASSUME VisibilityLag = FALSE, TypeOK, StockInv, EvidenceInv, [Next]_vars,
         Pending # {}, Pending' = {}
  PROVE  DecideLot
<1>1. PICK b \in Bids : bid[b] = "PENDING" /\ bid'[b] # "PENDING"
  BY DEF Pending
<1>2. res[b] = "NONE" /\ wallet[b] = "none"
  BY <1>1 DEF StockInv, EvidenceInv, TypeOK
<1>3. CASE OfferStep \/ TimeStep \/ WalletStep \/ UNCHANGED vars
  BY <1>1, <1>3
     DEF OfferStep, PublishOffer, WithdrawOffer, MarketClosed, CloseExpiredOffer,
         TimeStep, Tick, DeadlinePasses, LeaseExpires, WalletStep, WalletReceives,
         WalletMoves, vars
<1>4. CASE BidStep
  BY <1>1, <1>4 DEF BidStep, BidForUnknownOffer, BidRefused, BidReservedOnIngress,
                    BidQueued, Decide, TypeOK
<1>5. ASSUME NEW w \in Workers, WorkerStep(w)
      PROVE  FALSE
  <2>1. ~SweepBuries(w)
    BY <1>1, <1>2 DEF SweepBuries, SetBidExpired, DeadFacts, TypeOK
  <2>. QED
    BY <1>1, <1>5, <2>1
       DEF WorkerStep, DispatchStep, Claim, Inspect, Recover, Post, Answer, Finish,
           SweepApply, SweepSettles, SweepNotFound, SweepCancels,
           SweepLearnsNothing, Crash, SweepRead
<1>6. CASE IngestStep
  BY <1>1, <1>6 DEF IngestStep, EventApply, AnswersBid, IngestAborts, EventRead, TypeOK
<1>. QED
  BY <1>3, <1>4, <1>5, <1>6 DEF Next

\* Under BATCH no choice among the pending bids that fits serves more of them
\* (seller_bid_policy.py:8).
THEOREM BatchIsBest ==
  ASSUME VisibilityLag = FALSE
  PROVE  Spec => BatchServesMost
<1>1. ASSUME TypeOK, StockInv, EvidenceInv, [Next]_vars,
             policy = "BATCH", BidWindowOpen, offer = "ACTIVE",
             Pending # {}, Pending' = {}, NEW S \in SUBSET Pending, Kwh(S) <= Available
      PROVE  Cardinality(S) <= Cardinality({b \in Pending : bid'[b] = "RESERVED"})
  <2>1. PICK W \in SUBSET Pending : Winners(W) /\ Decide(W, Pending \ W)
    BY <1>1, OnlyLotsEmpty DEF DecideLot
  <2>2. {b \in Pending : bid'[b] = "RESERVED"} = W
    BY <2>1 DEF Decide, Pending
  <2>3. Pending \subseteq Bids /\ IsFiniteSet(W) /\ Available \in Nat
    BY <1>1, <2>1, LotLeaves, FS_Subset, BidsAssumption DEF Pending
  <2>4. CASE Pending \ W = {}
    BY <2>2, <2>3, <2>4, FS_Subset
  <2>5. CASE Pending \ W # {}
    <3>1. PICK b \in Pending \ W : \A c \in Pending \ W : c = b \/ Before(b, c)
      BY <1>1, <2>3, <2>5, FirstOfLot
    <3>2. /\ \A c \in Pending \ W : Qty[b] <= Qty[c]
          /\ \A c \in W : Qty[c] <= Qty[b]
          /\ Qty[b] + Kwh(W) > Available
      BY <1>1, <2>1, <3>1, FirstLoser
    <3>3. Cardinality(S) <= Cardinality(W)
      BY <1>1, <2>3, <3>2, MoreDoNotFit
    <3>. QED
      BY <2>2, <3>3
  <2>. QED
    BY <2>4, <2>5
<1>2. TypeOK /\ StockInv /\ EvidenceInv /\ [Next]_vars =>
        [policy = "BATCH" /\ BidWindowOpen /\ offer = "ACTIVE"
           /\ Pending # {} /\ Pending' = {} =>
             \A S \in SUBSET Pending : Kwh(S) <= Available =>
               Cardinality(S)
                 <= Cardinality({b \in Pending : bid'[b] = "RESERVED"})]_vars
  BY <1>1
<1>. QED
  BY <1>2, TypeCorrect, StockInvariant, EvidenceInvariant, PTL DEF Spec, BatchServesMost
=============================================================================
