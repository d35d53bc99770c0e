------------------------- MODULE NegotiationProofs -------------------------
(***************************************************************************)
(* The negotiations, for every book of deals, every number of messages and *)
(* whatever the city can spare.                                            *)
(***************************************************************************)
EXTENDS Negotiation, TotalsProofs, SequenceTheorems

-----------------------------------------------------------------------------
(* The deals that are asked for.                                           *)

DealType == [dir: {"give", "take"}, qty: Nat, theirs: BOOLEAN]

LEMMA BookIsFinite ==
  ASSUME deals \in Books
  PROVE  /\ IsFiniteSet(Deals) /\ Deals = 1..Len(deals) /\ Len(deals) \in Nat
         /\ \A d \in Deals : deals[d] \in DealType /\ deals[d].dir \in {"give", "take"}
                             /\ deals[d].qty \in Nat
<1>1. deals \in Seq(DealType)
  BY NegotiationAssumption DEF DealType
<1>2. Deals = 1..Len(deals) /\ Len(deals) \in Nat
  BY <1>1 DEF Deals
<1>3. IsFiniteSet(1..Len(deals))
  BY <1>2, FS_Interval
<1>4. \A d \in Deals : deals[d] \in DealType
  BY <1>1, <1>2
<1>. QED
  BY <1>2, <1>3, <1>4 DEF DealType

-----------------------------------------------------------------------------
(* The order of the statuses.                                              *)

LEMMA RankIs ==
  /\ Rank("PENDING_PUBLICATION") = 1 /\ Rank("PROPOSED") = 2 /\ Rank("ACKNOWLEDGED") = 3
  /\ Rank("CONFIRMED") = 4 /\ Rank("PAID") = 5
  /\ Ordered = {"PENDING_PUBLICATION", "PROPOSED", "ACKNOWLEDGED", "CONFIRMED", "PAID"}
<1>1. /\ DOMAIN ORDER = 1..5 /\ ORDER[1] = "PENDING_PUBLICATION" /\ ORDER[2] = "PROPOSED"
      /\ ORDER[3] = "ACKNOWLEDGED" /\ ORDER[4] = "CONFIRMED" /\ ORDER[5] = "PAID"
  BY DEF ORDER
<1>2. 1..5 = {1, 2, 3, 4, 5}
  OBVIOUS
<1>3. Ordered = {"PENDING_PUBLICATION", "PROPOSED", "ACKNOWLEDGED", "CONFIRMED", "PAID"}
  BY <1>1, <1>2 DEF Ordered
<1>4. \A i \in 1..5 : Rank(ORDER[i]) = i
  <2>1. \A i, j \in 1..5 : ORDER[i] = ORDER[j] => i = j
    BY <1>1, <1>2
  <2>2. SUFFICES ASSUME NEW i \in 1..5 PROVE Rank(ORDER[i]) = i
    OBVIOUS
  <2>3. Rank(ORDER[i]) \in 1..5 /\ ORDER[Rank(ORDER[i])] = ORDER[i]
    BY <1>1 DEF Rank
  <2>. QED
    BY <2>1, <2>3
<1>. QED
  BY <1>1, <1>3, <1>4

NegotiationStatus == {"PENDING_PUBLICATION", "PROPOSED", "ACKNOWLEDGED", "CONFIRMED", "PAID",
                      "none", "REJECTED", "TIMEOUT"}

\* What a negotiation keeps and what it becomes in each status it can move to.
LEMMA MovedIs ==
  ASSUME NEW n \in NegotiationRow, NEW dir \in {"give", "take"},
         NEW to \in {"PROPOSED", "ACKNOWLEDGED", "CONFIRMED", "PAID", "REJECTED", "TIMEOUT"}
  PROVE  LET w == Moved(n, dir, to) IN
         /\ w \in NegotiationRow /\ w.booked = n.booked /\ w.paid = n.paid /\ w.latest = n.latest
         /\ w.status \in {n.status, to}
         /\ to \in {"PROPOSED", "ACKNOWLEDGED"} /\ n.status \in {"CONFIRMED", "PAID", "REJECTED"}
              => w.status = n.status
         /\ to = "ACKNOWLEDGED" => w.status # "PENDING_PUBLICATION"
         /\ to = "PROPOSED" /\ n.status = "PENDING_PUBLICATION" => w.status = "PROPOSED"
         /\ to \in {"REJECTED", "TIMEOUT"} => w.status = to
         /\ to = "PAID" => w.status = "PAID"
         /\ to = "CONFIRMED" /\ CanMove(n, to) => /\ w.status \in {"CONFIRMED", "PAID"}
                                                  /\ w.status = "PAID" => n.status = "PAID"
<1>. DEFINE w == Moved(n, dir, to)
            v == [n EXCEPT !.status = to, !.due = DueIn(n, dir, to)]
<1>1. n.status \in NegotiationStatus /\ n.due \in BOOLEAN
  BY RankIs DEF NegotiationRow, NegotiationStatus
<1>2. DueIn(n, dir, to) \in BOOLEAN
  BY <1>1 DEF DueIn
<1>3. v \in NegotiationRow /\ v.booked = n.booked /\ v.paid = n.paid /\ v.latest = n.latest
      /\ v.status = to
  BY <1>2, RankIs DEF NegotiationRow
<1>4. w = IF Stale(n.status, to) THEN n ELSE v
  BY DEF Moved
<1>. HIDE DEF v, w
<1>5. /\ to \in {"REJECTED", "TIMEOUT"} /\ Stale(n.status, to) => n.status = to
      /\ to = "PAID" /\ Stale(n.status, to) => n.status = to
      /\ to \in {"PROPOSED", "ACKNOWLEDGED"} /\ n.status \in {"CONFIRMED", "PAID", "REJECTED"}
           => Stale(n.status, to)
      /\ to = "ACKNOWLEDGED" /\ n.status = "PENDING_PUBLICATION" => ~Stale(n.status, to)
      /\ to = "PROPOSED" /\ n.status = "PENDING_PUBLICATION" => ~Stale(n.status, to)
      /\ to = "CONFIRMED" /\ Stale(n.status, to) => n.status \in {"CONFIRMED", "PAID"}
      /\ to = "CONFIRMED" /\ n.status = "PAID" => Stale(n.status, to)
  BY <1>1, RankIs DEF Stale, NegotiationStatus
<1>6. CanMove(n, to) /\ to = "CONFIRMED" => Stale(n.status, to) \/ n.status # "PAID"
  BY <1>5
<1>. QED
  BY <1>3, <1>4, <1>5, <1>6 DEF w

-----------------------------------------------------------------------------
(* The rows of the outbox.                                                 *)

PostType == [of: Deals, kind: {"proposal", "transfer"}, dispatch: BOOLEAN, out: BOOLEAN]

\* The rows that pay for d, and those that still propose it.
Transfers(ps, d) == {r \in DOMAIN ps : ps[r].of = d /\ ps[r].kind = "transfer"}
Live(ps, d) == {r \in DOMAIN ps : ps[r].of = d /\ ps[r].kind = "proposal" /\ ps[r].dispatch}

\* The payments of d are those there were, and those the central has it keeps.
KeepsTransfers(ps, qs, d) ==
  /\ Transfers(qs, d) = Transfers(ps, d)
  /\ \A r \in Transfers(ps, d) : ps[r].out => qs[r].out

LEMMA PostIs ==
  ASSUME NEW d \in Deals, NEW kind \in {"proposal", "transfer"}
  PROVE  /\ Post(d, kind) \in PostType /\ Post(d, kind).of = d /\ Post(d, kind).kind = kind
         /\ Post(d, kind).dispatch = TRUE /\ Post(d, kind).out = FALSE
BY DEF Post, PostType

\* Rows that keep their deal and their kind, and only leave or go out.
LEMMA RowsSettle ==
  ASSUME NEW ps \in Seq(PostType), NEW qs, DOMAIN qs = DOMAIN ps,
         \A r \in DOMAIN ps : /\ qs[r] \in PostType /\ qs[r].of = ps[r].of
                              /\ qs[r].kind = ps[r].kind /\ (ps[r].out => qs[r].out),
         qs = [r \in DOMAIN ps |-> qs[r]]
  PROVE  /\ qs \in Seq(PostType) /\ Len(qs) = Len(ps)
         /\ \A d : KeepsTransfers(ps, qs, d)
<1>1. DOMAIN ps = 1..Len(ps) /\ Len(ps) \in Nat
  OBVIOUS
<1>2. qs \in [1..Len(ps) -> PostType]
  BY <1>1
<1>3. qs \in Seq(PostType) /\ Len(qs) = Len(ps)
  BY <1>1, <1>2, SeqDef, LenProperties
<1>. QED
  BY <1>3 DEF KeepsTransfers, Transfers

LEMMA StopKeeps ==
  ASSUME NEW ps \in Seq(PostType), NEW d
  PROVE  LET qs == StopProposals(ps, d) IN
         /\ qs \in Seq(PostType) /\ Len(qs) = Len(ps) /\ \A e : KeepsTransfers(ps, qs, e)
         /\ Live(qs, d) = {}
         /\ \A e : e # d => Live(qs, e) = Live(ps, e)
<1>. DEFINE qs == StopProposals(ps, d)
<1>1. DOMAIN ps = 1..Len(ps) /\ Len(ps) \in Nat /\ \A r \in DOMAIN ps : ps[r] \in PostType
  OBVIOUS
<1>2. /\ DOMAIN qs = DOMAIN ps /\ qs = [r \in DOMAIN ps |-> qs[r]]
      /\ \A r \in DOMAIN ps : qs[r] = IF ps[r].of = d /\ ps[r].kind = "proposal"
                                      THEN [ps[r] EXCEPT !.dispatch = FALSE] ELSE ps[r]
  BY DEF StopProposals
<1>. HIDE DEF qs
<1>3. ASSUME NEW r \in DOMAIN ps
      PROVE  /\ qs[r] \in PostType /\ qs[r].of = ps[r].of /\ qs[r].kind = ps[r].kind
             /\ qs[r].out = ps[r].out
             /\ qs[r].dispatch <=> ps[r].dispatch /\ ~(ps[r].of = d /\ ps[r].kind = "proposal")
  <2>1. CASE ps[r].of = d /\ ps[r].kind = "proposal"
    BY <1>1, <1>2, <2>1 DEF PostType
  <2>2. CASE ~(ps[r].of = d /\ ps[r].kind = "proposal")
    BY <1>1, <1>2, <2>2 DEF PostType
  <2>. QED
    BY <2>1, <2>2
<1>4. /\ qs \in Seq(PostType) /\ Len(qs) = Len(ps)
      /\ \A e : KeepsTransfers(ps, qs, e)
  BY <1>2, <1>3, RowsSettle
<1>5. Live(qs, d) = {} /\ \A e : e # d => Live(qs, e) = Live(ps, e)
  BY <1>2, <1>3 DEF Live
<1>. QED
  BY <1>4, <1>5 DEF qs

\* Proposals that are added pay for nothing, and propose their own deals.
LEMMA AddedKeeps ==
  ASSUME NEW ps \in Seq(PostType), NEW qs \in Seq(PostType),
         \A i \in DOMAIN qs : qs[i].kind = "proposal" /\ qs[i].dispatch
  PROVE  LET rs == ps \o qs IN
         /\ rs \in Seq(PostType) /\ \A e : KeepsTransfers(ps, rs, e)
         /\ \A i \in DOMAIN qs : Len(ps) + i \in Live(rs, qs[i].of)
         /\ \A e : (\A i \in DOMAIN qs : qs[i].of # e) => Live(rs, e) = Live(ps, e)
<1>. DEFINE rs == ps \o qs
<1>1. /\ DOMAIN ps = 1..Len(ps) /\ Len(ps) \in Nat /\ DOMAIN qs = 1..Len(qs) /\ Len(qs) \in Nat
      /\ rs \in Seq(PostType) /\ Len(rs) = Len(ps) + Len(qs) /\ DOMAIN rs = 1..Len(rs)
      /\ \A r \in DOMAIN rs : rs[r] = IF r <= Len(ps) THEN ps[r] ELSE qs[r - Len(ps)]
  BY ConcatProperties
<1>. HIDE DEF rs
<1>2. \A r \in DOMAIN ps : r \in DOMAIN rs /\ rs[r] = ps[r]
  BY <1>1
<1>3. \A i \in DOMAIN qs : Len(ps) + i \in DOMAIN rs /\ rs[Len(ps) + i] = qs[i]
  BY <1>1
<1>4. \A r \in DOMAIN rs : r \in DOMAIN ps \/ (r - Len(ps) \in DOMAIN qs /\ rs[r] = qs[r - Len(ps)])
  BY <1>1
<1>5. \A e : KeepsTransfers(ps, rs, e)
  BY <1>2, <1>4 DEF KeepsTransfers, Transfers
<1>6. \A i \in DOMAIN qs : Len(ps) + i \in Live(rs, qs[i].of)
  BY <1>3 DEF Live
<1>7. \A e : (\A i \in DOMAIN qs : qs[i].of # e) => Live(rs, e) = Live(ps, e)
  BY <1>2, <1>4 DEF Live
<1>. QED
  BY <1>1, <1>5, <1>6, <1>7 DEF rs

\* A transfer that is added is the one more payment of its deal.
LEMMA TransferAdded ==
  ASSUME NEW ps \in Seq(PostType), NEW d \in Deals, Transfers(ps, d) = {}
  PROVE  LET rs == ps \o <<Post(d, "transfer")>> IN
         /\ rs \in Seq(PostType) /\ Transfers(rs, d) = {Len(ps) + 1}
         /\ \A e : e # d => KeepsTransfers(ps, rs, e)
         /\ \A e : Live(rs, e) = Live(ps, e)
<1>. DEFINE p == Post(d, "transfer")
            rs == ps \o <<p>>
<1>1. p \in PostType /\ p.of = d /\ p.kind = "transfer"
  BY PostIs
<1>. HIDE DEF p
<1>2. /\ DOMAIN ps = 1..Len(ps) /\ Len(ps) \in Nat /\ <<p>> \in Seq(PostType)
      /\ rs \in Seq(PostType) /\ DOMAIN rs = 1..(Len(ps) + 1)
      /\ rs[Len(ps) + 1] = p /\ \A r \in DOMAIN ps : rs[r] = ps[r]
  BY <1>1
<1>. HIDE DEF rs
<1>3. \A r \in DOMAIN rs : r \in DOMAIN ps \/ r = Len(ps) + 1
  BY <1>2
<1>4. Transfers(rs, d) = {Len(ps) + 1}
  BY <1>1, <1>2, <1>3 DEF Transfers
<1>5. \A e : e # d => KeepsTransfers(ps, rs, e)
  BY <1>1, <1>2, <1>3 DEF KeepsTransfers, Transfers
<1>6. \A e : Live(rs, e) = Live(ps, e)
  BY <1>1, <1>2, <1>3 DEF Live
<1>. QED
  BY <1>2, <1>4, <1>5, <1>6 DEF p, rs

-----------------------------------------------------------------------------
(* The invariant, and what carries each part of it over a step.            *)

\* What holds of the negotiation n of the deal d, which the city gives or
\* takes as dir says, while the outbox holds the rows ps.
Settles(n, ps, dir, d) ==
  /\ n.paid <= n.booked /\ n.booked <= 1
  /\ n.status \in {"CONFIRMED", "PAID"} => n.booked = 1
  /\ n.status = "PAID" => n.paid = 1
  /\ Cardinality(Transfers(ps, d)) = IF dir = "take" THEN n.paid ELSE 0
  /\ n.status = "PAID" => \A r \in Transfers(ps, d) : ps[r].out
  /\ dir = "take" /\ n.booked = 1 => n.status \in {"CONFIRMED", "PAID"}
Proposes(n, ps, d) ==
  /\ n.status \in {"CONFIRMED", "PAID", "REJECTED"} => Live(ps, d) = {}
  /\ n.status = "PENDING_PUBLICATION" => \E r \in Live(ps, d) : n.latest = Latest("post", <<r>>)

WordType == [of: Deals, kind: {"ack", "refusal", "confirm", "pay"}, about: Seq(Nat)]

RowsOK == deals \in Books /\ nego \in [Deals -> NegotiationRow] /\ posts \in Seq(PostType)
WordsOK == /\ said \subseteq WordType /\ heard \subseteq said /\ taken \subseteq {m.about : m \in heard}
           /\ \A m \in said : m.kind = "pay" => deals[m.of].dir = "give"
ClockOK == cycle \in [window: 0..2, state: {"PENDING", "NEGOTIATING", "REPORT_WINDOW", "CLOSED"}]
EachSettles == \A d \in Deals : Settles(nego[d], posts, deals[d].dir, d)
EachProposes == \A d \in Deals : Proposes(nego[d], posts, d)
SpareKept == Sold <= Spare

NegotiationOK == RowsOK /\ WordsOK /\ ClockOK /\ EachSettles /\ EachProposes /\ SpareKept

\* What NegotiationInv says of the deals and of the words.
PurchasesStay == \A d \in Deals : deals[d].dir = "take" /\ nego[d].booked = 1 =>
                                   nego[d].status \in {"CONFIRMED", "PAID"}
PaysForSales == \A m \in said : m.kind = "pay" => deals[m.of].dir = "give"

\* It is the properties that the runs check, together.
LEMMA InvariantIs ==
  NegotiationOK <=> NegotiationTypeOK /\ DealsSettledOnce /\ ProposesWhileOpen /\ NegotiationInv
<1>1. RowsOK /\ WordsOK /\ ClockOK <=> NegotiationTypeOK /\ PaysForSales
  BY DEF NegotiationTypeOK, RowsOK, WordsOK, ClockOK, PostType, WordType, PaysForSales
<1>2. EachSettles /\ SpareKept <=> DealsSettledOnce /\ PurchasesStay
  <2>1. EachSettles /\ SpareKept => DealsSettledOnce /\ PurchasesStay
    BY DEF DealsSettledOnce, EachSettles, SpareKept, Settles, Transfers, PurchasesStay
  <2>2. DealsSettledOnce /\ PurchasesStay => EachSettles /\ SpareKept
    BY DEF DealsSettledOnce, EachSettles, SpareKept, Settles, Transfers, PurchasesStay
  <2>. QED
    BY <2>1, <2>2
<1>3. ProposesWhileOpen <=> EachProposes
  BY DEF ProposesWhileOpen, EachProposes, Proposes, Live
<1>4. NegotiationInv <=> PurchasesStay /\ PaysForSales
  BY DEF NegotiationInv, PurchasesStay, PaysForSales
<1>. QED
  BY <1>1, <1>2, <1>3, <1>4, Zenon DEF NegotiationOK

LEMMA SettlesFrame ==
  ASSUME NEW n, NEW ps, NEW qs, NEW dir, NEW d, Settles(n, ps, dir, d), KeepsTransfers(ps, qs, d)
  PROVE  Settles(n, qs, dir, d)
BY DEF Settles, KeepsTransfers

\* A change of a negotiation that books and pays nothing.
LEMMA SettlesMoved ==
  ASSUME NEW n, NEW w, NEW ps, NEW dir, NEW d, Settles(n, ps, dir, d),
         w.paid = n.paid, w.booked = n.booked,
         w.status \in {"CONFIRMED", "PAID"} => w.status = n.status,
         dir = "take" /\ n.status \in {"CONFIRMED", "PAID"} => w.status = n.status
  PROVE  Settles(w, ps, dir, d)
BY DEF Settles

LEMMA ProposesFrame ==
  ASSUME NEW n, NEW ps, NEW qs, NEW d, Proposes(n, ps, d), Live(qs, d) = Live(ps, d)
  PROVE  Proposes(n, qs, d)
BY DEF Proposes

\* What the master or the central adds to the words leaves them in order.
LEMMA WordsFrame ==
  ASSUME WordsOK, UNCHANGED <<deals, said, heard, taken>>
  PROVE  WordsOK'
BY DEF WordsOK, WordType, Deals

LEMMA HearsKeeps ==
  ASSUME WordsOK, NEW kind, NEW m \in said, Hears(kind, m),
         taken' \in {taken, taken \cup {m.about}}
  PROVE  WordsOK' /\ m \in WordType /\ m.of \in Deals /\ m.about \in Seq(Nat)
BY DEF WordsOK, WordType, Deals, Hears

-----------------------------------------------------------------------------
(* What is sold.                                                           *)

LEMMA SoldByIs ==
  ASSUME RowsOK, EachSettles, NEW d \in Deals
  PROVE  /\ SoldBy(d) \in Nat
         /\ deals[d].dir = "give" /\ nego[d].booked = 1 => SoldBy(d) = deals[d].qty
         /\ deals[d].dir # "give" \/ nego[d].booked = 0 => SoldBy(d) = 0
<1>1. deals[d].qty \in Nat
  BY BookIsFinite DEF RowsOK
<1>2. nego[d].booked \in {0, 1}
  BY DEF EachSettles, Settles, RowsOK, NegotiationRow
<1>3. CASE nego[d].booked = 0
  <2>1. 0 * deals[d].qty = 0
    BY <1>1
  <2>. QED
    BY <1>3, <2>1 DEF SoldBy
<1>4. CASE nego[d].booked = 1
  <2>1. 1 * deals[d].qty = deals[d].qty
    BY <1>1
  <2>. QED
    BY <1>1, <1>4, <2>1 DEF SoldBy
<1>. QED
  BY <1>2, <1>3, <1>4

LEMMA SoldKept ==
  ASSUME RowsOK, UNCHANGED deals, \A d \in Deals : nego'[d].booked = nego[d].booked
  PROVE  Sold' = Sold
<1>1. \A d \in Deals : SoldBy(d)' = SoldBy(d)
  BY DEF SoldBy
<1>2. [d \in Deals |-> SoldBy(d)]' = [d \in Deals |-> SoldBy(d)]
  BY <1>1 DEF Deals
<1>. QED
  BY <1>2 DEF Sold

\* A sale is confirmed once, and within what is left.
LEMMA SoldConfirmed ==
  ASSUME RowsOK, EachSettles, RowsOK', EachSettles', SpareKept, UNCHANGED deals,
         NEW d \in Deals, nego[d].booked = 0 => WithinSpare(d), nego'[d].booked = 1,
         \A e \in Deals \ {d} : nego'[e].booked = nego[e].booked
  PROVE  SpareKept'
<1>. DEFINE f == [e \in Deals |-> SoldBy(e)]
            g == [e \in Deals |-> SoldBy(e)']
<1>1. IsFiniteSet(Deals) /\ Deals' = Deals /\ deals[d].qty \in Nat /\ deals'[d] = deals[d]
  BY BookIsFinite DEF RowsOK, Deals
<1>2. \A e \in Deals : SoldBy(e) \in Nat
  BY SoldByIs
<1>3. ASSUME NEW e \in Deals \ {d} PROVE SoldBy(e)' = SoldBy(e)
  BY <1>3 DEF SoldBy
<1>4. /\ deals[d].dir = "give" => SoldBy(d)' = deals[d].qty
      /\ deals[d].dir # "give" => SoldBy(d)' = 0
  BY <1>1 DEF SoldBy
<1>5. Sold = Total(f) /\ Sold' = Total(g)
  BY <1>1 DEF Sold
<1>6. /\ DOMAIN f = Deals /\ DOMAIN g = Deals
      /\ \A e \in Deals : f[e] \in Int /\ (e # d => g[e] = f[e])
      /\ f[d] = SoldBy(d) /\ g[d] = SoldBy(d)' /\ g[d] \in Int
  BY <1>1, <1>2, <1>3, <1>4
<1>. HIDE DEF f, g
<1>7. Total(g) = Total(f) - f[d] + g[d]
  BY <1>1, <1>6, TotalChange
<1>8. Total(f) \in Int
  BY <1>1, <1>6, TotalType
<1>9. Spare \in Nat
  BY NegotiationAssumption
<1>10. nego[d].booked \in {0, 1}
  BY DEF EachSettles, Settles, RowsOK, NegotiationRow
<1>11. f[d] = g[d] \/ (f[d] = 0 /\ nego[d].booked = 0)
  <2>1. CASE nego[d].booked = 0
    BY <1>6, <2>1, SoldByIs
  <2>2. CASE nego[d].booked = 1
    BY <1>4, <1>6, <2>2, SoldByIs
  <2>. QED
    BY <1>10, <2>1, <2>2
<1>12. Total(f) <= Spare
  BY <1>5 DEF SpareKept
<1>13. Total(g) <= Spare
  <2>1. CASE f[d] = g[d]
    BY <1>6, <1>7, <1>8, <1>9, <1>12, <2>1
  <2>2. CASE f[d] = 0 /\ nego[d].booked = 0 /\ deals[d].dir = "give"
    <3>1. deals[d].qty + Total(f) <= Spare
      BY <1>5, <2>2 DEF WithinSpare
    <3>. QED
      BY <1>1, <1>4, <1>6, <1>7, <1>8, <1>9, <2>2, <3>1
  <2>3. CASE f[d] = 0 /\ deals[d].dir # "give"
    BY <1>4, <1>6, <1>7, <1>8, <1>9, <1>12, <2>3
  <2>. QED
    BY <1>11, <2>1, <2>2, <2>3
<1>. QED
  BY <1>5, <1>13 DEF SpareKept

-----------------------------------------------------------------------------
(* Each step keeps the invariant.                                          *)

\* What a step has to show: of each deal, and that no booking changes.
LEMMA RowsStep ==
  ASSUME RowsOK, UNCHANGED deals, nego' \in [Deals -> NegotiationRow], posts' \in Seq(PostType),
         \A d \in Deals : /\ Settles(nego'[d], posts', deals[d].dir, d)
                          /\ Proposes(nego'[d], posts', d)
  PROVE  RowsOK' /\ EachSettles' /\ EachProposes'
<1>1. Deals' = Deals /\ PostType' = PostType
  BY DEF Deals, PostType
<1>2. RowsOK'
  BY <1>1 DEF RowsOK
<1>. QED
  BY <1>1, <1>2 DEF EachSettles, EachProposes

LEMMA QuietStep ==
  ASSUME NegotiationOK, UNCHANGED deals, nego' \in [Deals -> NegotiationRow],
         posts' \in Seq(PostType), WordsOK', ClockOK',
         \A d \in Deals : /\ Settles(nego'[d], posts', deals[d].dir, d)
                          /\ Proposes(nego'[d], posts', d)
                          /\ nego'[d].booked = nego[d].booked
  PROVE  NegotiationOK'
<1>1. RowsOK' /\ EachSettles' /\ EachProposes'
  BY RowsStep DEF NegotiationOK
<1>2. Sold' = Sold
  BY SoldKept DEF NegotiationOK
<1>. QED
  BY <1>1, <1>2 DEF NegotiationOK, SpareKept

\* What is known of a deal before a step.
LEMMA DealBefore ==
  ASSUME NegotiationOK, NEW d \in Deals
  PROVE  /\ nego[d] \in NegotiationRow /\ posts \in Seq(PostType) /\ nego \in [Deals -> NegotiationRow]
         /\ deals[d].dir \in {"give", "take"}
         /\ Settles(nego[d], posts, deals[d].dir, d) /\ Proposes(nego[d], posts, d)
BY BookIsFinite DEF NegotiationOK, RowsOK, EachSettles, EachProposes

LEMMA ProposeKeeps ==
  ASSUME NegotiationOK, NEW d \in Deals, Propose(d)
  PROVE  NegotiationOK'
<1>. DEFINE p == Post(d, "proposal")
            w == [nego[d] EXCEPT !.status = "PENDING_PUBLICATION",
                                 !.latest = Latest("post", <<Len(posts) + 1>>)]
<1>0. nego[d] \in NegotiationRow /\ posts \in Seq(PostType) /\ nego \in [Deals -> NegotiationRow]
      /\ Settles(nego[d], posts, deals[d].dir, d) /\ nego[d].status = "none"
  BY DealBefore DEF Propose, Unasked
<1>2. /\ p \in PostType /\ p.of = d /\ p.kind = "proposal" /\ p.dispatch
  BY PostIs
<1>1. /\ UNCHANGED <<deals, said, heard, taken, cycle>>
      /\ posts' = posts \o <<p>> /\ nego' = [nego EXCEPT ![d] = w]
  <2>1. nego' = [nego EXCEPT ![d] = w]
    BY DEF Propose
  <2>. HIDE DEF p
  <2>2. Append(posts, p) = posts \o <<p>>
    BY <1>0, <1>2, AppendIsConcat
  <2>3. posts' = Append(posts, p)
    BY DEF Propose, p
  <2>. QED
    BY <2>1, <2>2, <2>3 DEF Propose
<1>3. /\ w \in NegotiationRow /\ w.status = "PENDING_PUBLICATION"
      /\ w.latest = Latest("post", <<Len(posts) + 1>>)
      /\ w.booked = nego[d].booked /\ w.paid = nego[d].paid
  <2>1. Len(posts) + 1 \in Nat /\ <<Len(posts) + 1>> \in Seq(Nat)
    BY <1>0
  <2>. QED
    BY <1>0, <2>1, RankIs DEF NegotiationRow, Latest
<1>. HIDE DEF p, w
<1>4. /\ nego' \in [Deals -> NegotiationRow] /\ nego'[d] = w
      /\ \A e \in Deals \ {d} : nego'[e] = nego[e]
  BY <1>0, <1>1, <1>3
<1>5. /\ posts' \in Seq(PostType) /\ \A e : KeepsTransfers(posts, posts', e)
      /\ Len(posts) + 1 \in Live(posts', d)
      /\ \A e : e # d => Live(posts', e) = Live(posts, e)
  <2>. DEFINE q == <<p>>
  <2>1. q \in Seq(PostType) /\ DOMAIN q = {1} /\ q[1] = p
    BY <1>2
  <2>. HIDE DEF q
  <2>2. posts' = posts \o q
    BY <1>1 DEF q
  <2>3. \A i \in DOMAIN q : q[i].kind = "proposal" /\ q[i].dispatch
    BY <1>2, <2>1
  <2>. QED
    BY <1>0, <1>2, <2>1, <2>2, <2>3, AddedKeeps
<1>6. ASSUME NEW e \in Deals
      PROVE  /\ Settles(nego'[e], posts', deals[e].dir, e) /\ Proposes(nego'[e], posts', e)
             /\ nego'[e].booked = nego[e].booked
  <2>1. CASE e = d
    <3>1. Settles(w, posts, deals[d].dir, d)
      BY <1>0, <1>3, SettlesMoved
    <3>2. Settles(w, posts', deals[d].dir, d)
      BY <1>5, <3>1, SettlesFrame
    <3>3. Proposes(w, posts', d)
      BY <1>3, <1>5 DEF Proposes
    <3>. QED
      BY <1>3, <1>4, <2>1, <3>2, <3>3
  <2>2. CASE e # d
    BY <1>4, <1>5, <2>2, DealBefore, SettlesFrame, ProposesFrame
  <2>. QED
    BY <2>1, <2>2
<1>7. WordsOK' /\ ClockOK'
  BY <1>1, WordsFrame DEF NegotiationOK, ClockOK
<1>. QED
  BY <1>1, <1>4, <1>5, <1>6, <1>7, QuietStep

LEMMA HearProposalKeeps ==
  ASSUME NegotiationOK, NEW d \in Deals, HearProposal(d)
  PROVE  NegotiationOK'
<1>. DEFINE w == [nego[d] EXCEPT !.status = "PROPOSED", !.due = TRUE,
                                 !.latest = Latest("theirs", <<>>)]
<1>0. nego[d] \in NegotiationRow /\ posts \in Seq(PostType) /\ nego \in [Deals -> NegotiationRow]
      /\ Settles(nego[d], posts, deals[d].dir, d) /\ nego[d].status = "none"
  BY DealBefore DEF HearProposal
<1>1. /\ UNCHANGED <<deals, posts, said, heard, taken, cycle>> /\ nego' = [nego EXCEPT ![d] = w]
  BY <1>0 DEF HearProposal, NegotiationRow
<1>2. /\ w \in NegotiationRow /\ w.status = "PROPOSED"
      /\ w.booked = nego[d].booked /\ w.paid = nego[d].paid
  <2>1. Latest("theirs", <<>>) \in [kind: {"none", "post", "said", "theirs"}, of: Seq(Nat)]
    <3>1. <<>> \in Seq(Nat)
      BY EmptySeq
    <3>. QED
      BY <3>1 DEF Latest
  <2>. QED
    BY <1>0, <2>1, RankIs DEF NegotiationRow
<1>. HIDE DEF w
<1>3. /\ nego' \in [Deals -> NegotiationRow] /\ nego'[d] = w
      /\ \A e \in Deals \ {d} : nego'[e] = nego[e]
  BY <1>0, <1>1, <1>2
<1>4. Settles(w, posts, deals[d].dir, d) /\ Proposes(w, posts, d)
  BY <1>0, <1>2, SettlesMoved DEF Proposes
<1>5. ASSUME NEW e \in Deals
      PROVE  /\ Settles(nego'[e], posts', deals[e].dir, e) /\ Proposes(nego'[e], posts', e)
             /\ nego'[e].booked = nego[e].booked
  <2>1. CASE e = d
    BY <1>1, <1>2, <1>3, <1>4, <2>1
  <2>2. CASE e # d
    BY <1>1, <1>3, <2>2, DealBefore
  <2>. QED
    BY <2>1, <2>2
<1>6. WordsOK' /\ ClockOK'
  BY <1>1, WordsFrame DEF NegotiationOK, ClockOK
<1>. QED
  BY <1>0, <1>1, <1>3, <1>5, <1>6, QuietStep

\* A pass of the scheduler: what it times out, and what it then proposes again.
LEMMA SweptIs ==
  ASSUME NegotiationOK, NEW X \in SUBSET Expirable, NEW d \in Deals
  PROVE  LET w == Swept(X)[d] IN
         /\ w \in NegotiationRow /\ w.booked = nego[d].booked /\ w.paid = nego[d].paid
         /\ w.status \in {nego[d].status, "TIMEOUT"} /\ w.latest = nego[d].latest
         /\ w.status # nego[d].status =>
              nego[d].status \notin {"PAID"} /\ ~(deals[d].dir = "take" /\ nego[d].status = "CONFIRMED")
<1>. DEFINE n == nego[d]
            w == Swept(X)[d]
<1>0. n \in NegotiationRow /\ deals[d].dir \in {"give", "take"}
  BY DealBefore
<1>1. w = IF d \in X
          THEN IF n.status = "CONFIRMED" /\ deals[d].dir = "take"
               THEN [n EXCEPT !.due = FALSE] ELSE Moved(n, deals[d].dir, "TIMEOUT")
          ELSE n
  BY DEF Swept
<1>2. d \in X => n.status \in OPEN_STATES \cup {"CONFIRMED"}
  BY DEF Expirable
<1>. HIDE DEF n, w
<1>3. CASE d \in X /\ ~(n.status = "CONFIRMED" /\ deals[d].dir = "take")
  <2>1. w = Moved(n, deals[d].dir, "TIMEOUT")
    BY <1>1, <1>3
  <2>2. /\ w \in NegotiationRow /\ w.booked = n.booked /\ w.paid = n.paid
        /\ w.status = "TIMEOUT" /\ w.latest = n.latest
    BY <1>0, <2>1, MovedIs
  <2>. QED
    BY <1>2, <1>3, <2>2 DEF n, w, OPEN_STATES
<1>4. CASE d \in X /\ n.status = "CONFIRMED" /\ deals[d].dir = "take"
  <2>1. w = [n EXCEPT !.due = FALSE]
    BY <1>1, <1>4
  <2>2. /\ w \in NegotiationRow /\ w.booked = n.booked /\ w.paid = n.paid
        /\ w.status = n.status /\ w.latest = n.latest
    BY <1>0, <2>1 DEF NegotiationRow
  <2>. QED
    BY <2>2 DEF n, w
<1>5. CASE d \notin X
  BY <1>0, <1>1, <1>5 DEF n, w
<1>. QED
  BY <1>3, <1>4, <1>5

LEMMA SchedulerPassKeeps ==
  ASSUME NegotiationOK, NEW X \in SUBSET Expirable, SchedulerPass(X)
  PROVE  NegotiationOK'
<1>. DEFINE D == Retries(Swept(X), NextState)
<1>1. PICK again \in Listed(D) :
        /\ posts' = posts \o [i \in DOMAIN again |-> Post(again[i], "proposal")]
        /\ nego' = [d \in Deals |->
                      IF d \in D
                      THEN Reproposed(Swept(X)[d], Len(posts) + CHOOSE i \in DOMAIN again : again[i] = d)
                      ELSE Swept(X)[d]]
        /\ cycle' = [cycle EXCEPT !.state = NextState]
        /\ UNCHANGED <<deals, said, heard, taken>>
  BY DEF SchedulerPass
<1>2. \A d \in D : d \in Deals /\ Swept(X)[d].status = "TIMEOUT"
  BY DEF Retries
<1>. HIDE DEF D
<1>3. posts \in Seq(PostType) /\ nego \in [Deals -> NegotiationRow]
      /\ IsFiniteSet(D) /\ Cardinality(D) \in Nat
  <2>1. IsFiniteSet(Deals) /\ posts \in Seq(PostType) /\ nego \in [Deals -> NegotiationRow]
    BY BookIsFinite DEF NegotiationOK, RowsOK
  <2>2. IsFiniteSet(D)
    BY <1>2, <2>1, FS_Subset
  <2>. QED
    BY <2>1, <2>2, FS_CardinalityType
<1>4. /\ DOMAIN again = 1..Cardinality(D)
      /\ \A i \in DOMAIN again : again[i] \in D
      /\ \A d \in D : \E i \in DOMAIN again : again[i] = d
  BY <1>1 DEF Listed
<1>. DEFINE qs == [i \in DOMAIN again |-> Post(again[i], "proposal")]
<1>5. /\ DOMAIN qs = DOMAIN again /\ qs \in Seq(PostType)
      /\ \A i \in DOMAIN qs : /\ qs[i].kind = "proposal" /\ qs[i].dispatch
                              /\ qs[i].of = again[i]
  <2>1. \A i \in DOMAIN again : qs[i] \in PostType /\ qs[i].kind = "proposal" /\ qs[i].dispatch
                                /\ qs[i].of = again[i]
    BY <1>2, <1>4, PostIs
  <2>2. qs \in [1..Cardinality(D) -> PostType]
    BY <1>4, <2>1
  <2>3. qs \in Seq(PostType)
    BY <1>3, <2>2, SeqDef
  <2>. QED
    BY <2>1, <2>3
<1>6. posts' = posts \o qs
  BY <1>1
<1>. HIDE DEF qs
<1>7. /\ posts' \in Seq(PostType) /\ \A e : KeepsTransfers(posts, posts', e)
      /\ \A i \in DOMAIN qs : Len(posts) + i \in Live(posts', qs[i].of)
      /\ \A e : (\A i \in DOMAIN qs : qs[i].of # e) => Live(posts', e) = Live(posts, e)
  BY <1>3, <1>5, <1>6, AddedKeeps
<1>8. ASSUME NEW d \in Deals
      PROVE  /\ nego'[d] \in NegotiationRow
             /\ Settles(nego'[d], posts', deals[d].dir, d) /\ Proposes(nego'[d], posts', d)
             /\ nego'[d].booked = nego[d].booked
  <2>. DEFINE s == Swept(X)[d]
              w == nego'[d]
  <2>1. /\ s \in NegotiationRow /\ s.booked = nego[d].booked /\ s.paid = nego[d].paid
        /\ s.status \in {nego[d].status, "TIMEOUT"} /\ s.latest = nego[d].latest
        /\ s.status # nego[d].status =>
             nego[d].status # "PAID" /\ ~(deals[d].dir = "take" /\ nego[d].status = "CONFIRMED")
    BY SweptIs
  <2>2. Settles(nego[d], posts, deals[d].dir, d) /\ Proposes(nego[d], posts, d)
    BY DealBefore
  <2>3. Settles(s, posts, deals[d].dir, d)
    BY <2>1, <2>2, SettlesMoved
  <2>4. CASE d \notin D
    <3>1. w = s
      BY <1>1, <2>4
    <3>2. Live(posts', d) = Live(posts, d)
      BY <1>4, <1>5, <1>7, <2>4
    <3>3. Proposes(s, posts', d)
      BY <2>1, <2>2, <3>2 DEF Proposes
    <3>4. Settles(s, posts', deals[d].dir, d)
      BY <1>7, <2>3, SettlesFrame
    <3>. QED
      BY <2>1, <3>1, <3>3, <3>4
  <2>5. CASE d \in D
    <3>. DEFINE i == CHOOSE i \in DOMAIN again : again[i] = d
    <3>1. i \in DOMAIN again /\ again[i] = d
      BY <1>4, <2>5
    <3>2. w = Reproposed(s, Len(posts) + i)
      BY <1>1, <2>5
    <3>. HIDE DEF i, w, s
    <3>3. Len(posts) + i \in Nat /\ <<Len(posts) + i>> \in Seq(Nat)
      BY <1>3, <1>4, <3>1
    <3>4. /\ w \in NegotiationRow /\ w.booked = s.booked /\ w.paid = s.paid
          /\ w.status = "PENDING_PUBLICATION" /\ w.latest = Latest("post", <<Len(posts) + i>>)
      BY <2>1, <3>2, <3>3, RankIs DEF Reproposed, NegotiationRow, Latest
    <3>5. Len(posts) + i \in Live(posts', d)
      BY <1>5, <1>7, <3>1
    <3>6. Proposes(w, posts', d)
      BY <3>4, <3>5 DEF Proposes
    <3>7. s.status = "TIMEOUT"
      BY <1>2, <2>5 DEF s
    <3>8. Settles(w, posts, deals[d].dir, d)
      BY <2>3, <3>4, <3>7, SettlesMoved
    <3>9. Settles(w, posts', deals[d].dir, d)
      BY <1>7, <3>8, SettlesFrame
    <3>. QED
      BY <2>1, <3>4, <3>6, <3>9 DEF w
  <2>. QED
    BY <2>4, <2>5
<1>9. nego' \in [Deals -> NegotiationRow]
  BY <1>1, <1>8
<1>10. WordsOK' /\ ClockOK'
  BY <1>1, WordsFrame DEF NegotiationOK, ClockOK, NextState
<1>. QED
  BY <1>1, <1>7, <1>8, <1>9, <1>10, QuietStep

LEMMA WindowKeeps ==
  ASSUME NegotiationOK, WindowPasses
  PROVE  NegotiationOK'
<1>1. UNCHANGED <<deals, nego, posts, said, heard, taken>>
  BY DEF WindowPasses
<1>2. ClockOK'
  BY DEF WindowPasses, Open, NegotiationOK, ClockOK
<1>3. WordsOK'
  BY <1>1, WordsFrame DEF NegotiationOK
<1>. QED
  BY <1>1, <1>2, <1>3, DealBefore, QuietStep DEF NegotiationOK, RowsOK

LEMMA PollPostsKeeps ==
  ASSUME NegotiationOK, PollPosts
  PROVE  NegotiationOK'
<1>0. posts \in Seq(PostType) /\ nego \in [Deals -> NegotiationRow]
  BY DEF NegotiationOK, RowsOK
<1>1. /\ DOMAIN posts' = DOMAIN posts /\ posts' = [r \in DOMAIN posts |-> posts'[r]]
      /\ \A r \in DOMAIN posts : posts'[r] = IF Expired(r) THEN [posts[r] EXCEPT !.dispatch = FALSE]
                                             ELSE posts[r]
  BY DEF PollPosts
<1>2. ASSUME NEW r \in DOMAIN posts
      PROVE  /\ posts'[r] \in PostType /\ posts'[r].of = posts[r].of
             /\ posts'[r].kind = posts[r].kind /\ posts'[r].out = posts[r].out
             /\ posts'[r].dispatch <=> posts[r].dispatch /\ ~Expired(r)
  <2>1. posts[r] \in PostType
    BY <1>0
  <2>2. CASE Expired(r)
    BY <1>1, <2>1, <2>2 DEF PostType
  <2>3. CASE ~Expired(r)
    BY <1>1, <2>1, <2>3 DEF PostType
  <2>. QED
    BY <2>2, <2>3
<1>3. posts' \in Seq(PostType) /\ \A e : KeepsTransfers(posts, posts', e)
  <2>. DEFINE qs == posts'
  <2>1. /\ DOMAIN qs = DOMAIN posts /\ qs = [r \in DOMAIN posts |-> qs[r]]
        /\ \A r \in DOMAIN posts : /\ qs[r] \in PostType /\ qs[r].of = posts[r].of
                                   /\ qs[r].kind = posts[r].kind /\ (posts[r].out => qs[r].out)
    BY <1>1, <1>2
  <2>. HIDE DEF qs
  <2>2. qs \in Seq(PostType) /\ \A e : KeepsTransfers(posts, qs, e)
    BY <1>0, <2>1, RowsSettle
  <2>. QED
    BY <2>2 DEF qs
<1>4. \A d \in Deals : Live(posts', d) = {r \in Live(posts, d) : ~Expired(r)}
  BY <1>1, <1>2 DEF Live
<1>5. ASSUME NEW d \in Deals
      PROVE  /\ nego'[d] \in NegotiationRow
             /\ Settles(nego'[d], posts', deals[d].dir, d) /\ Proposes(nego'[d], posts', d)
             /\ nego'[d].booked = nego[d].booked
  <2>. DEFINE n == nego[d]
              w == nego'[d]
  <2>0. n \in NegotiationRow /\ Settles(n, posts, deals[d].dir, d) /\ Proposes(n, posts, d)
    BY DealBefore
  <2>1. w = IF n.status \in OPEN_STATES /\ \E r \in DOMAIN posts : posts[r].of = d /\ Expired(r)
            THEN [n EXCEPT !.status = "TIMEOUT", !.due = TRUE] ELSE n
    BY DEF PollPosts
  <2>. HIDE DEF n, w
  <2>2. CASE n.status \in OPEN_STATES /\ \E r \in DOMAIN posts : posts[r].of = d /\ Expired(r)
    <3>1. /\ w \in NegotiationRow /\ w.status = "TIMEOUT" /\ w.booked = n.booked
          /\ w.paid = n.paid
      BY <2>0, <2>1, <2>2, RankIs DEF NegotiationRow
    <3>2. Settles(w, posts, deals[d].dir, d)
      BY <2>0, <2>2, <3>1, SettlesMoved DEF OPEN_STATES
    <3>3. Settles(w, posts', deals[d].dir, d)
      BY <1>3, <3>2, SettlesFrame
    <3>. QED
      BY <3>1, <3>3 DEF Proposes, n, w
  <2>3. CASE ~(n.status \in OPEN_STATES /\ \E r \in DOMAIN posts : posts[r].of = d /\ Expired(r))
    <3>1. w = n
      BY <2>1, <2>3
    <3>2. n.status = "PENDING_PUBLICATION" => Live(posts', d) = Live(posts, d)
      BY <1>4, <2>3 DEF Live, OPEN_STATES
    <3>3. Proposes(n, posts', d)
      BY <1>4, <2>0, <3>2 DEF Proposes
    <3>4. Settles(n, posts', deals[d].dir, d)
      BY <1>3, <2>0, SettlesFrame
    <3>. QED
      BY <2>0, <3>1, <3>3, <3>4 DEF n, w
  <2>. QED
    BY <2>2, <2>3
<1>6. nego' \in [Deals -> NegotiationRow]
  BY <1>5 DEF PollPosts
<1>7. UNCHANGED <<deals, said, heard, taken, cycle>>
  BY DEF PollPosts
<1>8. WordsOK' /\ ClockOK'
  BY <1>7, WordsFrame DEF NegotiationOK, ClockOK
<1>. QED
  BY <1>3, <1>5, <1>6, <1>7, <1>8, QuietStep

\* A row that goes out, and a row whose publication is known.
LEMMA RowChanges ==
  ASSUME NEW ps \in Seq(PostType), NEW r \in DOMAIN ps, NEW q \in PostType,
         q.of = ps[r].of, q.kind = ps[r].kind, ps[r].out => q.out, q.dispatch => ps[r].dispatch
  PROVE  LET qs == [ps EXCEPT ![r] = q] IN
         /\ qs \in Seq(PostType) /\ \A e : KeepsTransfers(ps, qs, e)
         /\ \A e : Live(qs, e) \subseteq Live(ps, e) /\ Live(ps, e) \subseteq Live(qs, e) \cup {r}
         /\ (ps[r].dispatch => q.dispatch) => \A e : Live(qs, e) = Live(ps, e)
<1>. DEFINE qs == [ps EXCEPT ![r] = q]
<1>1. \A i \in DOMAIN ps : ps[i] \in PostType
  OBVIOUS
<1>2. DOMAIN qs = DOMAIN ps /\ qs = [i \in DOMAIN ps |-> qs[i]]
      /\ \A i \in DOMAIN ps : qs[i] = IF i = r THEN q ELSE ps[i]
  OBVIOUS
<1>. HIDE DEF qs
<1>3. \A i \in DOMAIN ps : /\ qs[i] \in PostType /\ qs[i].of = ps[i].of
                           /\ qs[i].kind = ps[i].kind /\ (ps[i].out => qs[i].out)
  BY <1>1, <1>2
<1>4. qs \in Seq(PostType) /\ \A e : KeepsTransfers(ps, qs, e)
  BY <1>2, <1>3, RowsSettle
<1>5. \A e : Live(qs, e) \subseteq Live(ps, e) /\ Live(ps, e) \subseteq Live(qs, e) \cup {r}
  BY <1>2 DEF Live
<1>6. (ps[r].dispatch => q.dispatch) => \A e : Live(qs, e) = Live(ps, e)
  BY <1>2 DEF Live
<1>. QED
  BY <1>4, <1>5, <1>6 DEF qs

LEMMA PublishPostKeeps ==
  ASSUME NegotiationOK, NEW r \in DOMAIN posts, PublishPost(r)
  PROVE  NegotiationOK'
<1>0. posts \in Seq(PostType) /\ nego \in [Deals -> NegotiationRow] /\ posts[r] \in PostType
  BY DEF NegotiationOK, RowsOK
<1>. DEFINE q == [posts[r] EXCEPT !.out = TRUE]
<1>1. /\ posts' = [posts EXCEPT ![r] = q]
      /\ UNCHANGED <<deals, nego, said, heard, taken, cycle>>
  BY DEF PublishPost
<1>2. /\ q \in PostType /\ q.of = posts[r].of /\ q.kind = posts[r].kind
      /\ posts[r].out => q.out
      /\ q.dispatch => posts[r].dispatch
      /\ posts[r].dispatch => q.dispatch
  BY <1>0 DEF PostType
<1>. HIDE DEF q
<1>3. /\ posts' \in Seq(PostType) /\ \A e : KeepsTransfers(posts, posts', e)
      /\ \A e : Live(posts', e) = Live(posts, e)
  <2>. DEFINE qs == [posts EXCEPT ![r] = q]
  <2>1. qs \in Seq(PostType) /\ \A e : KeepsTransfers(posts, qs, e)
    BY ONLY <1>0, <1>2, r \in DOMAIN posts, RowChanges
  <2>2. \A e : Live(qs, e) = Live(posts, e)
    BY ONLY <1>0, <1>2, r \in DOMAIN posts, RowChanges
  <2>. HIDE DEF qs
  <2>. QED
    BY <1>1, <2>1, <2>2 DEF qs
<1>4. ASSUME NEW d \in Deals
      PROVE  Settles(nego'[d], posts', deals[d].dir, d) /\ Proposes(nego'[d], posts', d)
  BY <1>1, <1>3, DealBefore, SettlesFrame, ProposesFrame
<1>5. WordsOK' /\ ClockOK'
  BY <1>1, WordsFrame DEF NegotiationOK, ClockOK
<1>. QED
  BY <1>0, <1>1, <1>3, <1>4, <1>5, QuietStep

LEMMA PublishedKeeps ==
  ASSUME NegotiationOK, NEW r \in DOMAIN posts, Published(r)
  PROVE  NegotiationOK'
<1>0. posts \in Seq(PostType) /\ nego \in [Deals -> NegotiationRow] /\ posts[r] \in PostType
      /\ posts[r].of \in Deals /\ posts[r].out
  <2>1. posts \in Seq(PostType) /\ nego \in [Deals -> NegotiationRow]
    BY DEF NegotiationOK, RowsOK
  <2>2. posts[r] \in PostType
    BY <2>1
  <2>. QED
    BY <2>1, <2>2 DEF PostType, Published
<1>. DEFINE q == [posts[r] EXCEPT !.dispatch = FALSE]
            d == posts[r].of
            w == OnPublished(d, r)
            n == nego[d]
<1>1. /\ posts' = [posts EXCEPT ![r] = q] /\ nego' = [nego EXCEPT ![d] = w]
      /\ UNCHANGED <<deals, said, heard, taken, cycle>>
  BY DEF Published
<1>2. /\ q \in PostType /\ q.of = posts[r].of /\ q.kind = posts[r].kind
      /\ posts[r].out => q.out /\ ~q.dispatch
  BY <1>0 DEF PostType
<1>3. n \in NegotiationRow /\ deals[d].dir \in {"give", "take"}
      /\ Settles(n, posts, deals[d].dir, d) /\ Proposes(n, posts, d)
  BY <1>0, DealBefore
<1>4. w = IF n.latest # Latest("post", <<r>>) THEN n
          ELSE IF posts[r].kind = "transfer" THEN Moved(n, deals[d].dir, "PAID")
          ELSE IF n.status = "PENDING_PUBLICATION" THEN Moved(n, deals[d].dir, "PROPOSED")
          ELSE n
  BY DEF OnPublished
<1>. HIDE DEF q, n, w
<1>5. /\ posts' \in Seq(PostType) /\ \A e : KeepsTransfers(posts, posts', e)
      /\ \A e : Live(posts', e) \subseteq Live(posts, e)
      /\ \A e : Live(posts, e) \subseteq Live(posts', e) \cup {r}
  BY <1>0, <1>1, <1>2, RowChanges
<1>6. \A e \in Deals \ {d} : Live(posts', e) = Live(posts, e)
  <2>1. \A e \in Deals \ {d} : r \notin Live(posts, e)
    BY DEF Live
  <2>. QED
    BY <1>5, <2>1
<1>7. /\ w \in NegotiationRow /\ w.booked = n.booked
      /\ Settles(w, posts, deals[d].dir, d) /\ Proposes(w, posts', d)
  <2>1. CASE n.latest # Latest("post", <<r>>)
    <3>1. w = n
      BY <1>4, <2>1
    <3>2. Proposes(n, posts', d)
      <4>1. n.status \in {"CONFIRMED", "PAID", "REJECTED"} => Live(posts', d) = {}
        BY <1>3, <1>5 DEF Proposes
      <4>2. ASSUME n.status = "PENDING_PUBLICATION"
            PROVE  \E i \in Live(posts', d) : n.latest = Latest("post", <<i>>)
        <5>1. PICK i \in Live(posts, d) : n.latest = Latest("post", <<i>>)
          BY <1>3, <4>2 DEF Proposes
        <5>2. i # r
          BY <2>1, <5>1
        <5>. QED
          BY <1>5, <5>1, <5>2
      <4>. QED
        BY <4>1, <4>2 DEF Proposes
    <3>. QED
      BY <1>3, <3>1, <3>2
  <2>2. CASE n.latest = Latest("post", <<r>>) /\ posts[r].kind = "transfer"
    <3>1. w = Moved(n, deals[d].dir, "PAID")
      BY <1>4, <2>2
    <3>2. /\ w \in NegotiationRow /\ w.booked = n.booked /\ w.paid = n.paid /\ w.status = "PAID"
      BY <1>3, <3>1, MovedIs
    <3>3. r \in Transfers(posts, d)
      BY <2>2 DEF Transfers
    <3>4. IsFiniteSet(Transfers(posts, d))
      <4>1. IsFiniteSet(1..Len(posts)) /\ DOMAIN posts = 1..Len(posts)
        BY <1>0, FS_Interval
      <4>. QED
        BY <4>1, FS_Subset DEF Transfers
    <3>5. Cardinality(Transfers(posts, d)) # 0
      BY <3>3, <3>4, FS_EmptySet
    <3>6. n.booked \in Nat /\ n.paid \in Nat
      BY <1>3 DEF NegotiationRow
    <3>7. deals[d].dir = "take" /\ n.paid = 1 /\ n.booked = 1
          /\ Cardinality(Transfers(posts, d)) = 1
      BY <1>3, <3>5, <3>6 DEF Settles
    <3>8. \A i \in Transfers(posts, d) : i = r
      BY <3>3, <3>4, <3>7, FS_Singleton
    <3>9. n.status \in {"CONFIRMED", "PAID"} /\ Live(posts, d) = {}
      BY <1>3, <3>7 DEF Settles, Proposes
    <3>10. Settles(w, posts, deals[d].dir, d)
      BY <1>0, <1>3, <3>2, <3>7, <3>8 DEF Settles
    <3>11. Proposes(w, posts', d)
      BY <1>5, <3>2, <3>9 DEF Proposes
    <3>. QED
      BY <3>2, <3>10, <3>11
  <2>3. CASE n.latest = Latest("post", <<r>>) /\ posts[r].kind # "transfer"
             /\ n.status = "PENDING_PUBLICATION"
    <3>1. w = Moved(n, deals[d].dir, "PROPOSED")
      BY <1>4, <2>3
    <3>2. /\ w \in NegotiationRow /\ w.booked = n.booked /\ w.paid = n.paid
          /\ w.status = "PROPOSED"
      BY <1>3, <2>3, <3>1, MovedIs
    <3>3. Settles(w, posts, deals[d].dir, d)
      BY <1>3, <2>3, <3>2, SettlesMoved
    <3>. QED
      BY <3>2, <3>3 DEF Proposes
  <2>4. CASE n.latest = Latest("post", <<r>>) /\ posts[r].kind # "transfer"
             /\ n.status # "PENDING_PUBLICATION"
    <3>1. w = n
      BY <1>4, <2>4
    <3>2. Proposes(n, posts', d)
      BY <1>3, <1>5, <2>4 DEF Proposes
    <3>. QED
      BY <1>3, <3>1, <3>2
  <2>. QED
    BY <2>1, <2>2, <2>3, <2>4
<1>8. /\ nego' \in [Deals -> NegotiationRow] /\ nego'[d] = w
      /\ \A e \in Deals \ {d} : nego'[e] = nego[e]
  BY <1>0, <1>1, <1>7
<1>9. ASSUME NEW e \in Deals
      PROVE  /\ Settles(nego'[e], posts', deals[e].dir, e) /\ Proposes(nego'[e], posts', e)
             /\ nego'[e].booked = nego[e].booked
  <2>1. CASE e = d
    <3>1. Settles(w, posts', deals[d].dir, d)
      BY <1>5, <1>7, SettlesFrame
    <3>. QED
      BY <1>7, <1>8, <2>1, <3>1 DEF n
  <2>2. CASE e # d
    BY <1>5, <1>6, <1>8, <2>2, DealBefore, SettlesFrame, ProposesFrame
  <2>. QED
    BY <2>1, <2>2
<1>10. WordsOK' /\ ClockOK'
  BY <1>1, WordsFrame DEF NegotiationOK, ClockOK
<1>. QED
  BY <1>1, <1>5, <1>8, <1>9, <1>10, QuietStep

\* What the central says changes no row; it pays for sales only.
LEMMA SaysKeeps ==
  ASSUME NegotiationOK, NEW kind \in {"ack", "refusal", "confirm", "pay"}, NEW d \in Deals,
         NEW about \in Seq(Nat), Says(kind, d, about),
         kind = "pay" => deals[d].dir = "give"
  PROVE  NegotiationOK'
<1>1. /\ said' = said \cup {[of |-> d, kind |-> kind, about |-> about]}
      /\ UNCHANGED <<deals, nego, posts, heard, taken, cycle>>
  BY DEF Says
<1>2. [of |-> d, kind |-> kind, about |-> about] \in WordType
  BY DEF WordType
<1>3. WordType' = WordType
  BY <1>1 DEF WordType, Deals
<1>4. said' \subseteq WordType /\ heard' \subseteq said' /\ taken' \subseteq {m.about : m \in heard'}
  BY <1>1, <1>2 DEF NegotiationOK, WordsOK
<1>5. ASSUME NEW m \in said', m.kind = "pay" PROVE deals'[m.of].dir = "give"
  <2>1. CASE m \in said
    BY <1>1, <1>5, <2>1 DEF NegotiationOK, WordsOK
  <2>2. CASE m = [of |-> d, kind |-> kind, about |-> about]
    BY <1>1, <1>5, <2>2
  <2>. QED
    BY <1>1, <2>1, <2>2
<1>6. WordsOK'
  BY <1>3, <1>4, <1>5 DEF WordsOK
<1>7. ClockOK'
  BY <1>1 DEF NegotiationOK, ClockOK
<1>. QED
  BY <1>1, <1>6, <1>7, DealBefore, QuietStep DEF NegotiationOK, RowsOK

LEMMA AnswersKeeps ==
  ASSUME NegotiationOK, NEW r \in DOMAIN posts, Answers(r)
  PROVE  NegotiationOK'
<1>1. posts[r] \in PostType /\ r \in Nat
  BY DEF NegotiationOK, RowsOK
<1>2. posts[r].of \in Deals
  BY <1>1 DEF PostType
<1>3. <<r>> \in Seq(Nat) /\ \A n \in {1, 2} : <<r, n>> \in Seq(Nat)
  BY <1>1
<1>4. \/ Says("ack", posts[r].of, <<r>>) \/ Says("refusal", posts[r].of, <<r>>)
      \/ \E n \in {1, 2} : Says("confirm", posts[r].of, <<r, n>>)
  BY DEF Answers
<1>. QED
  BY <1>2, <1>3, <1>4, SaysKeeps

LEMMA PaysKeeps ==
  ASSUME NegotiationOK, NEW m \in said, Pays(m)
  PROVE  NegotiationOK'
<1>1. m \in WordType
  BY DEF NegotiationOK, WordsOK
<1>2. m.of \in Deals /\ m.about \in Seq(Nat)
  BY <1>1 DEF WordType
<1>3. PICK n \in {1, 2} : Says("pay", m.of, m.about \o <<n>>) /\ deals[m.of].dir = "give"
  BY DEF Pays
<1>4. m.about \o <<n>> \in Seq(Nat)
  BY <1>2, ConcatProperties
<1>. QED
  BY <1>2, <1>3, <1>4, SaysKeeps

\* A message of the central about a deal changes that deal, and stops its
\* proposals or leaves the rows alone.
LEMMA IntakeStep ==
  ASSUME NegotiationOK, NEW kind, NEW m \in said, Hears(kind, m),
         taken' \in {taken, taken \cup {m.about}},
         NEW w \in NegotiationRow, nego' = [nego EXCEPT ![m.of] = w],
         w.booked = nego[m.of].booked,
         posts' \in {posts, StopProposals(posts, m.of)},
         Settles(w, posts, deals[m.of].dir, m.of), Proposes(w, posts', m.of)
  PROVE  NegotiationOK'
<1>. DEFINE d == m.of
<1>1. WordsOK' /\ d \in Deals
  BY HearsKeeps DEF NegotiationOK
<1>2. UNCHANGED <<deals, said, cycle>>
  BY DEF Hears
<1>3. posts \in Seq(PostType) /\ nego \in [Deals -> NegotiationRow]
  BY DEF NegotiationOK, RowsOK
<1>4. /\ posts' \in Seq(PostType) /\ \A e : KeepsTransfers(posts, posts', e)
      /\ \A e : e # d => Live(posts', e) = Live(posts, e)
  BY <1>3, StopKeeps DEF KeepsTransfers
<1>5. /\ nego' \in [Deals -> NegotiationRow] /\ nego'[d] = w
      /\ \A e \in Deals \ {d} : nego'[e] = nego[e]
  BY <1>1, <1>3
<1>6. ASSUME NEW e \in Deals
      PROVE  /\ Settles(nego'[e], posts', deals[e].dir, e) /\ Proposes(nego'[e], posts', e)
             /\ nego'[e].booked = nego[e].booked
  <2>1. CASE e = d
    BY <1>4, <1>5, <2>1, SettlesFrame
  <2>2. CASE e # d
    BY <1>4, <1>5, <2>2, DealBefore, SettlesFrame, ProposesFrame
  <2>. QED
    BY <2>1, <2>2
<1>7. ClockOK'
  BY <1>2 DEF NegotiationOK, ClockOK
<1>. QED
  BY <1>1, <1>2, <1>4, <1>5, <1>6, <1>7, QuietStep

\* A message that is heard and changes nothing else.
LEMMA DropKeeps ==
  ASSUME NegotiationOK, NEW kind, NEW m \in said, Hears(kind, m), UNCHANGED <<nego, posts, taken>>
  PROVE  NegotiationOK'
<1>1. WordsOK' /\ UNCHANGED <<deals, said, cycle>>
  BY HearsKeeps DEF NegotiationOK, Hears
<1>2. ClockOK'
  BY <1>1 DEF NegotiationOK, ClockOK
<1>. QED
  BY <1>1, <1>2, DealBefore, QuietStep DEF NegotiationOK, RowsOK

LEMMA HearAckKeeps ==
  ASSUME NegotiationOK, NEW m \in said, HearAck(m)
  PROVE  NegotiationOK'
<1>. DEFINE d == m.of
            n == nego[d]
            w == Moved(n, deals[d].dir, "ACKNOWLEDGED")
<1>1. Hears("ack", m) /\ UNCHANGED <<posts, taken>> /\ nego' = [nego EXCEPT ![d] = w]
  BY DEF HearAck
<1>2. d \in Deals
  BY <1>1, HearsKeeps DEF NegotiationOK
<1>3. n \in NegotiationRow /\ deals[d].dir \in {"give", "take"}
      /\ Settles(n, posts, deals[d].dir, d) /\ Proposes(n, posts, d)
  BY <1>2, DealBefore
<1>4. /\ w \in NegotiationRow /\ w.booked = n.booked /\ w.paid = n.paid
      /\ w.status \in {n.status, "ACKNOWLEDGED"}
      /\ n.status \in {"CONFIRMED", "PAID", "REJECTED"} => w.status = n.status
      /\ w.status # "PENDING_PUBLICATION"
  BY <1>3, MovedIs
<1>. HIDE DEF w
<1>5. Settles(w, posts, deals[d].dir, d)
  BY <1>3, <1>4, SettlesMoved
<1>6. Proposes(w, posts, d)
  BY <1>3, <1>4 DEF Proposes
<1>. QED
  BY <1>1, <1>4, <1>5, <1>6, IntakeStep

LEMMA HearRefusalKeeps ==
  ASSUME NegotiationOK, NEW m \in said, HearRefusal(m)
  PROVE  NegotiationOK'
<1>. DEFINE d == m.of
            n == nego[d]
            w == Moved(n, deals[d].dir, "REJECTED")
<1>1. Hears("refusal", m) /\ UNCHANGED taken
  BY DEF HearRefusal
<1>2. d \in Deals
  BY <1>1, HearsKeeps DEF NegotiationOK
<1>3. n \in NegotiationRow /\ deals[d].dir \in {"give", "take"} /\ posts \in Seq(PostType)
      /\ Settles(n, posts, deals[d].dir, d)
  BY <1>2, DealBefore
<1>4. CASE n.status \in REFUSABLE
  <2>1. nego' = [nego EXCEPT ![d] = w] /\ posts' = StopProposals(posts, d)
    BY <1>4 DEF HearRefusal
  <2>2. /\ w \in NegotiationRow /\ w.booked = n.booked /\ w.paid = n.paid /\ w.status = "REJECTED"
    BY <1>3, MovedIs
  <2>. HIDE DEF w
  <2>3. Settles(w, posts, deals[d].dir, d)
    BY <1>3, <1>4, <2>2, SettlesMoved DEF REFUSABLE, OPEN_STATES
  <2>4. Live(posts', d) = {}
    BY <1>3, <2>1, StopKeeps
  <2>5. Proposes(w, posts', d)
    BY <2>2, <2>4 DEF Proposes
  <2>. QED
    BY <1>1, <2>1, <2>2, <2>3, <2>5, IntakeStep
<1>5. CASE n.status \notin REFUSABLE
  BY <1>1, <1>5, DropKeeps DEF HearRefusal
<1>. QED
  BY <1>4, <1>5

LEMMA HearPaymentKeeps ==
  ASSUME NegotiationOK, NEW m \in said, HearPayment(m)
  PROVE  NegotiationOK'
<1>. DEFINE d == m.of
            n == nego[d]
            w == [n EXCEPT !.paid = 1, !.status = "PAID", !.due = FALSE]
<1>1. Hears("pay", m) /\ UNCHANGED taken
  BY DEF HearPayment
<1>2. d \in Deals /\ deals[d].dir = "give"
  BY <1>1, HearsKeeps DEF NegotiationOK, WordsOK, Hears
<1>3. n \in NegotiationRow /\ posts \in Seq(PostType) /\ nego \in [Deals -> NegotiationRow]
      /\ Settles(n, posts, deals[d].dir, d)
  BY <1>2, DealBefore
<1>4. CASE Recognised(m)
  <2>1. nego' = [nego EXCEPT ![d] = w] /\ posts' = StopProposals(posts, d)
    BY <1>4 DEF HearPayment
  <2>2. /\ w \in NegotiationRow /\ w.booked = n.booked /\ w.paid = 1 /\ w.status = "PAID"
    BY <1>3, RankIs DEF NegotiationRow
  <2>3. n.booked = 1
    BY <1>3, <1>4 DEF Recognised, Settles, NegotiationRow
  <2>. HIDE DEF w
  <2>4. Transfers(posts, d) = {}
    <3>1. IsFiniteSet(Transfers(posts, d))
      <4>1. IsFiniteSet(1..Len(posts)) /\ DOMAIN posts = 1..Len(posts)
        BY <1>3, FS_Interval
      <4>. QED
        BY <4>1, FS_Subset DEF Transfers
    <3>2. Cardinality(Transfers(posts, d)) = 0
      BY <1>2, <1>3 DEF Settles
    <3>. QED
      BY <3>1, <3>2, FS_EmptySet
  <2>5. Settles(w, posts, deals[d].dir, d)
    BY <1>2, <1>3, <2>2, <2>3, <2>4 DEF Settles
  <2>6. Live(posts', d) = {}
    BY <1>3, <2>1, StopKeeps
  <2>7. Proposes(w, posts', d)
    BY <2>2, <2>6 DEF Proposes
  <2>. QED
    BY <1>1, <2>1, <2>2, <2>5, <2>7, IntakeStep
<1>5. CASE ~Recognised(m)
  BY <1>1, <1>5, DropKeeps DEF HearPayment
<1>. QED
  BY <1>4, <1>5

\* A confirmation books its deal once; a purchase then owes its one payment.
LEMMA ConfirmedKeeps ==
  ASSUME NegotiationOK, NEW m \in said, Hears("confirm", m), taken' = taken \cup {m.about},
         CanConfirm(m.of), Confirmed(m.of, m.about)
  PROVE  NegotiationOK'
<1>. DEFINE d == m.of
            n == nego[d]
            b == Booked(n)
            v == Moved(b, deals[d].dir, "CONFIRMED")
            w == IF OwesPayment(d) THEN Paying(v)
                 ELSE IF v.paid = 0 THEN [v EXCEPT !.latest = Latest("said", m.about)] ELSE v
<1>1. WordsOK' /\ d \in Deals /\ m.about \in Seq(Nat) /\ UNCHANGED <<deals, said, cycle>>
  BY HearsKeeps DEF NegotiationOK, Hears
<1>2. n \in NegotiationRow /\ posts \in Seq(PostType) /\ nego \in [Deals -> NegotiationRow]
      /\ deals[d].dir \in {"give", "take"} /\ Settles(n, posts, deals[d].dir, d)
  BY <1>1, DealBefore
<1>3. b \in NegotiationRow /\ b.booked = 1 /\ b.paid = n.paid /\ b.status = n.status
  BY <1>2 DEF Booked, NegotiationRow
<1>4. CanMove(b, "CONFIRMED")
  BY <1>3 DEF CanConfirm, CanMove
<1>5. nego' = [nego EXCEPT ![d] = w]
      /\ posts' = StopProposals(posts, d)
                    \o IF OwesPayment(d) THEN <<Post(d, "transfer")>> ELSE <<>>
  BY DEF Confirmed
<1>. HIDE DEF b
<1>6. /\ v \in NegotiationRow /\ v.booked = 1 /\ v.paid = n.paid
      /\ v.status \in {"CONFIRMED", "PAID"} /\ (v.status = "PAID" => n.status = "PAID")
  BY <1>2, <1>3, <1>4, MovedIs
<1>. HIDE DEF v, n
<1>7. /\ w \in NegotiationRow /\ w.booked = 1 /\ w.status = v.status
      /\ w.paid = IF OwesPayment(d) THEN 1 ELSE n.paid
  <2>1. Len(posts) + 1 \in Nat /\ <<Len(posts) + 1>> \in Seq(Nat)
    BY <1>2
  <2>2. CASE OwesPayment(d)
    BY <1>6, <2>1, <2>2 DEF Paying, NegotiationRow, Latest
  <2>3. CASE ~OwesPayment(d) /\ v.paid = 0
    BY <1>1, <1>6, <2>3 DEF NegotiationRow, Latest
  <2>4. CASE ~OwesPayment(d) /\ v.paid # 0
    BY <1>6, <2>4
  <2>. QED
    BY <2>2, <2>3, <2>4
<1>. HIDE DEF w
<1>. DEFINE ps == StopProposals(posts, d)
<1>8. /\ ps \in Seq(PostType) /\ \A e : KeepsTransfers(posts, ps, e) /\ Live(ps, d) = {}
      /\ \A e : e # d => Live(ps, e) = Live(posts, e)
  BY <1>2, StopKeeps
<1>9. Settles(n, ps, deals[d].dir, d)
  BY <1>2, <1>8, SettlesFrame
<1>. HIDE DEF ps
<1>10. n.booked \in Nat /\ n.paid \in Nat
  BY <1>2 DEF NegotiationRow
<1>11. /\ posts' \in Seq(PostType) /\ Settles(w, posts', deals[d].dir, d)
       /\ \A e : e # d => KeepsTransfers(posts, posts', e)
       /\ Live(posts', d) = {} /\ \A e : e # d => Live(posts', e) = Live(posts, e)
  <2>1. CASE OwesPayment(d)
    <3>1. deals[d].dir = "take" /\ n.booked = 0 /\ n.paid = 0
      BY <1>2, <1>10, <2>1 DEF OwesPayment, Settles, n
    <3>2. IsFiniteSet(Transfers(ps, d))
      <4>1. IsFiniteSet(1..Len(ps)) /\ DOMAIN ps = 1..Len(ps)
        BY <1>8, FS_Interval
      <4>. QED
        BY <4>1, FS_Subset DEF Transfers
    <3>3. Transfers(ps, d) = {}
      BY <1>9, <3>1, <3>2, FS_EmptySet DEF Settles
    <3>4. posts' = ps \o <<Post(d, "transfer")>>
      BY <1>5, <2>1 DEF ps
    <3>5. /\ posts' \in Seq(PostType) /\ Transfers(posts', d) = {Len(ps) + 1}
          /\ \A e : e # d => KeepsTransfers(ps, posts', e)
          /\ \A e : Live(posts', e) = Live(ps, e)
      BY <1>1, <1>8, <3>3, <3>4, TransferAdded
    <3>6. Cardinality(Transfers(posts', d)) = 1
      BY <3>5, FS_Singleton
    <3>7. Settles(w, posts', deals[d].dir, d)
      <4>1. n.status # "PAID"
        BY <1>2, <3>1 DEF Settles
      <4>. QED
        BY <1>6, <1>7, <2>1, <3>1, <3>6, <4>1 DEF Settles
    <3>. QED
      BY <1>8, <3>5, <3>7 DEF KeepsTransfers
  <2>2. CASE ~OwesPayment(d)
    <3>1. posts' = ps
      BY <1>5, <1>8, <2>2, ConcatEmptySeq DEF ps
    <3>2. Settles(w, ps, deals[d].dir, d)
      BY <1>6, <1>7, <1>9, <1>10, <2>2 DEF Settles
    <3>. QED
      BY <1>8, <3>1, <3>2
  <2>. QED
    BY <2>1, <2>2
<1>12. Proposes(w, posts', d)
  BY <1>6, <1>7, <1>11 DEF Proposes
<1>13. /\ nego' \in [Deals -> NegotiationRow] /\ nego'[d] = w
       /\ \A e \in Deals \ {d} : nego'[e] = nego[e]
  BY <1>1, <1>2, <1>5, <1>7
<1>14. ASSUME NEW e \in Deals
       PROVE  Settles(nego'[e], posts', deals[e].dir, e) /\ Proposes(nego'[e], posts', e)
  <2>1. CASE e = d
    BY <1>11, <1>12, <1>13, <2>1
  <2>2. CASE e # d
    BY <1>11, <1>13, <2>2, DealBefore, SettlesFrame, ProposesFrame
  <2>. QED
    BY <2>1, <2>2
<1>15. RowsOK' /\ EachSettles' /\ EachProposes'
  BY <1>1, <1>11, <1>13, <1>14, RowsStep DEF NegotiationOK
<1>16. SpareKept'
  <2>1. nego[d].booked = 0 => WithinSpare(d)
    BY DEF CanConfirm
  <2>2. nego'[d].booked = 1 /\ \A e \in Deals \ {d} : nego'[e].booked = nego[e].booked
    BY <1>7, <1>13
  <2>. QED
    BY <1>1, <1>15, <2>1, <2>2, SoldConfirmed DEF NegotiationOK
<1>17. ClockOK'
  BY <1>1 DEF NegotiationOK, ClockOK
<1>. QED
  BY <1>1, <1>15, <1>16, <1>17 DEF NegotiationOK

LEMMA HearConfirmationKeeps ==
  ASSUME NegotiationOK, NEW m \in said, HearConfirmation(m)
  PROVE  NegotiationOK'
BY ConfirmedKeeps, DropKeeps DEF HearConfirmation

-----------------------------------------------------------------------------
(* The theorems.                                                           *)

\* Nothing is sold before anything is booked.
LEMMA InitOK == NegotiationInit => NegotiationOK
<1>. SUFFICES ASSUME NegotiationInit PROVE NegotiationOK
  OBVIOUS
<1>1. /\ deals \in Books /\ nego = [d \in Deals |-> NoDeal] /\ posts = <<>>
      /\ said = {} /\ heard = {} /\ taken = {} /\ cycle = [window |-> 0, state |-> "PENDING"]
  BY DEF NegotiationInit, Deals
<1>2. /\ NoDeal \in NegotiationRow /\ NoDeal.status = "none" /\ NoDeal.booked = 0
      /\ NoDeal.paid = 0
  <2>1. <<>> \in Seq(Nat)
    BY EmptySeq
  <2>. QED
    BY <2>1 DEF NoDeal, NegotiationRow, Latest
<1>3. RowsOK
  <2>1. <<>> \in Seq(PostType)
    BY EmptySeq
  <2>. QED
    BY <1>1, <1>2, <2>1 DEF RowsOK
<1>4. WordsOK /\ ClockOK
  BY <1>1 DEF WordsOK, ClockOK
<1>5. \A d \in Deals : nego[d] = NoDeal
  BY <1>1
<1>6. \A d : Transfers(posts, d) = {}
  BY <1>1 DEF Transfers
<1>7. EachSettles
  <2>1. Cardinality({}) = 0
    BY FS_EmptySet
  <2>. QED
    BY <1>2, <1>5, <1>6, <2>1 DEF EachSettles, Settles
<1>8. EachProposes
  BY <1>2, <1>5 DEF EachProposes, Proposes
<1>9. SpareKept
  <2>. DEFINE f == [d \in Deals |-> SoldBy(d)]
  <2>1. IsFiniteSet(Deals)
    BY <1>3, BookIsFinite DEF RowsOK
  <2>2. DOMAIN f = Deals /\ \A d \in Deals : f[d] = 0
    BY <1>2, <1>3, <1>5, <1>7, SoldByIs
  <2>3. Sold = Total(f)
    BY DEF Sold
  <2>. HIDE DEF f
  <2>4. Total(f) = Cardinality(Units(f)) /\ Units(f) = {}
    <3>1. IsFiniteSet(DOMAIN f) /\ \A d \in DOMAIN f : f[d] \in Nat
      BY <2>1, <2>2
    <3>2. Total(f) = Cardinality(Units(f))
      BY <3>1, TotalOfNaturals
    <3>. QED
      BY <2>2, <3>2 DEF Units
  <2>5. Total(f) = 0
    BY <2>4, FS_EmptySet
  <2>. QED
    BY <2>3, <2>5, NegotiationAssumption DEF SpareKept
<1>. QED
  BY <1>3, <1>4, <1>7, <1>8, <1>9 DEF NegotiationOK

LEMMA NegotiationNextKeeps ==
  ASSUME NegotiationOK, [NegotiationNext]_negotiationVars
  PROVE  NegotiationOK'
<1>1. ASSUME NEW d \in Deals, Propose(d) \/ HearProposal(d) PROVE NegotiationOK'
  BY <1>1, ProposeKeeps, HearProposalKeeps
<1>2. ASSUME NEW X \in SUBSET Expirable, SchedulerPass(X) PROVE NegotiationOK'
  BY <1>2, SchedulerPassKeeps
<1>3. CASE WindowPasses
  BY <1>3, WindowKeeps
<1>4. CASE PollPosts
  BY <1>4, PollPostsKeeps
<1>5. ASSUME NEW r \in DOMAIN posts, PublishPost(r) \/ Published(r) \/ Answers(r)
      PROVE  NegotiationOK'
  BY <1>5, PublishPostKeeps, PublishedKeeps, AnswersKeeps
<1>6. ASSUME NEW m \in said, Pays(m) \/ Intake(m) PROVE NegotiationOK'
  BY <1>6, PaysKeeps, HearAckKeeps, HearRefusalKeeps, HearConfirmationKeeps, HearPaymentKeeps
  DEF Intake
<1>7. CASE UNCHANGED negotiationVars
  <2>1. UNCHANGED <<deals, nego, posts, said, heard, taken, cycle>>
    BY <1>7 DEF negotiationVars
  <2>2. WordsOK' /\ ClockOK'
    BY <2>1, WordsFrame DEF NegotiationOK, ClockOK
  <2>. QED
    BY <2>1, <2>2, DealBefore, QuietStep DEF NegotiationOK, RowsOK
<1>. QED
  BY <1>1, <1>2, <1>3, <1>4, <1>5, <1>6, <1>7 DEF NegotiationNext

LEMMA NegotiationHolds == NegotiationSpec => []NegotiationOK
<1>. HIDE DEF NegotiationOK
<1>1. NegotiationInit => NegotiationOK
  BY InitOK
<1>2. NegotiationOK /\ [NegotiationNext]_negotiationVars => NegotiationOK'
  BY NegotiationNextKeeps
<1>. QED
  BY <1>1, <1>2, PTL DEF NegotiationSpec

\* The rows of the negotiations, of their messages and of the cycle keep to
\* their statuses, whatever the central repeats.
THEOREM NegotiationTypeCorrect == NegotiationSpec => []NegotiationTypeOK
<1>1. NegotiationOK => NegotiationTypeOK
  BY InvariantIs
<1>. QED
  BY <1>1, NegotiationHolds, PTL

\* A deal moves its energy once and its money once, and all sales together
\* stay within what the city can spare (process_negotiation_confirmation,
\* enqueue_take_payment, process_give_payment).
THEOREM DealsSettleOnce == NegotiationSpec => []DealsSettledOnce
<1>1. NegotiationOK => DealsSettledOnce
  BY InvariantIs
<1>. QED
  BY <1>1, NegotiationHolds, PTL

\* What was confirmed, paid or refused is not proposed any more, and what waits
\* for its publication has a row (stop_proposal_dispatches,
\* enqueue_timed_out_negotiation_retries).
THEOREM OnlyOpenDealsPropose == NegotiationSpec => []ProposesWhileOpen
<1>1. NegotiationOK => ProposesWhileOpen
  BY InvariantIs
<1>. QED
  BY <1>1, NegotiationHolds, PTL

\* A purchase that is booked is neither refused nor timed out, and the central
\* pays for sales only (process_expired_negotiations, process_give_payment).
THEOREM PurchasesAreFinal == NegotiationSpec => []NegotiationInv
<1>1. NegotiationOK => NegotiationInv
  BY InvariantIs
<1>. QED
  BY <1>1, NegotiationHolds, PTL
=============================================================================
