----------------------------- MODULE CityLedger -----------------------------
(***************************************************************************)
(* The ledger of one city: the balances of its cycles, the entries that    *)
(* explain them, the money that one cycle hands to the next, and the       *)
(* burning of the energy that is left when a market closes.                *)
(*                                                                         *)
(* Every transaction that touches the ledger holds the city's advisory     *)
(* lock from its first read of it to its commit (budget_carryover.py:14,   *)
(* taken at internal_messages.py:197, cycle_scheduler.py:86, ledger.py:35), *)
(* so each is one step; one that fails rolls all of it back, the claim of  *)
(* its idpk too, and is no step.  Definitions marked "Mutant:" are mistakes *)
(* of the kind the code could make, and no action uses them.               *)
(***************************************************************************)
EXTENDS Totals

CONSTANTS
  Cycles,    \* cycleIds
  Messages,  \* what the central sends: the facts of one envelope
  Swaps,     \* swaps of this city: what settling one moves in its cycle
  MaxTime    \* bound of the clock

ASSUME LedgerAssumption ==
  /\ IsFiniteSet(Cycles)
  /\ \A m \in Messages : /\ m.cycle \in Cycles /\ m.budget \in Int /\ m.energy \in Int
                         /\ m.until \in Nat /\ m.closes \in Nat
  /\ \A s \in Swaps : s.cycle \in Cycles /\ s.budget \in Int /\ s.energy \in Int
  /\ \A s, t \in Swaps : s.key = t.key => s = t
  /\ MaxTime \in Nat

VARIABLES
  city,         \* Cycle rows with their LedgerEntry rows
  processed,    \* ProcessedIdpk: messages whose effect was committed
  settled,      \* SwapRecord: swaps that are SETTLED
  trades,       \* TradeRecord, by swapId
  settlements,  \* ImbalanceSettlement, by settlementId
  now           \* the clock

vars == <<city, processed, settled, trades, settlements, now>>

Burns == {"IMBALANCE_BURN", "IMBALANCE_CLOSE", "IMBALANCE_BURN_FALLBACK"}
Facts == {"TRANSFER_IN", "DEMAND_STATEMENT", "SWAP_TRANSPORT", "SWAP_SETTLED",
          "IMBALANCE_SETTLEMENT"}
Keys == Cycles \cup {m.idpk : m \in Messages} \cup {m.key : m \in Messages}
               \cup {s.key : s \in Swaps}

\* A LedgerEntry: an operation under a key, and what it moves.
LedgerEntry == [op: Burns \cup Facts, key: Keys, budget: Int, energy: Int]
Entry(op, key, budget, energy) ==
  [op |-> op, key |-> key, budget |-> budget, energy |-> energy]

\* A Cycle row.  "carryover" is the sum of its BUDGET_CARRYOVER entries, each
\* of which has a key of its own; "entries" are all the others; "closes" is
\* the first of market.closesAt and the report window, as the last statement
\* left them.
Cycle == [opened: BOOLEAN, opening: Int, budget: Int, energy: Int, carryover: Int,
          until: Nat, closes: Nat, entries: SUBSET LedgerEntry]

\* A cycle without a row and the placeholder of an early message are alike.
Placeholder == [opened |-> FALSE, opening |-> 0, budget |-> 0, energy |-> 0,
                carryover |-> 0, until |-> 0, closes |-> 0, entries |-> {}]

Init ==
  /\ city = [c \in Cycles |-> Placeholder]
  /\ processed = {} /\ settled = {} /\ trades = {} /\ settlements = {}
  /\ now = 0

-----------------------------------------------------------------------------
(* Entries and the carry-over of money between cycles.                     *)

Counted(C, e) == \E c \in Cycles : \E f \in C[c].entries : f.op = e.op /\ f.key = e.key

\* What the cycle earned itself, without what earlier cycles handed to it.
Own(r) == r.budget - r.carryover

Opened(C) == {c \in Cycles : C[c].opened}
Before(C, c) == {d \in Opened(C) : C[d].until < C[c].until}
Ambiguous(C) == \E c, d \in Opened(C) : c # d /\ C[c].until = C[d].until

\* The balance of the previous cycle once it is corrected itself.
Expected(C, c) == Total([d \in Before(C, c) |-> Own(C[d])])

\* synchronize_budget_carryover: from the earliest deadline to the last.
Synced(C) == [c \in Cycles |->
  IF C[c].opened
  THEN [C[c] EXCEPT !.budget = @ + (Expected(C, c) - C[c].carryover),
                    !.carryover = @ + (Expected(C, c) - C[c].carryover)]
  ELSE C[c]]

\* The row with one more entry.
Booked(r, e) == [r EXCEPT !.budget = @ + e.budget, !.energy = @ + e.energy,
                          !.entries = @ \cup {e}]

\* Mutant: only income is handed on.
AppliedForward(C, c, e) ==
  IF Counted(C, e) THEN C
  ELSE LET D == [C EXCEPT ![c] = Booked(@, e)]
       IN  IF e.budget > 0 THEN Synced(D) ELSE D

\* apply_ledger_effect: once for an operation and a key, in whatever cycle.
Applied(C, c, e) ==
  IF Counted(C, e) THEN C
  ELSE LET D == [C EXCEPT ![c] = Booked(@, e)]
       IN  IF e.budget # 0 THEN Synced(D) ELSE D

-----------------------------------------------------------------------------
(* Messages of the central, in any order, repeated, with old or new idpk.  *)

Claim(m) == /\ \A p \in processed : p.idpk # m.idpk
            /\ processed' = processed \cup {m}

\* Mutant: the statement overwrites what the placeholder had collected.
Overwritten(r, m) == [r EXCEPT !.opened = TRUE, !.opening = m.energy,
                               !.energy = m.energy,
                               !.until = m.until, !.closes = m.closes]

\* Mutant: the closing is counted back from the deadline, perhaps too far.
CountedBack(r, m) == [r EXCEPT !.opened = TRUE, !.opening = m.energy,
                               !.energy = @ + (m.energy - r.opening),
                               !.until = m.until, !.closes = m.until - 2]

\* The row as the statement leaves it: what a placeholder had collected, or
\* an earlier statement had announced, is kept and corrected.
Restated(r, m) == [r EXCEPT !.opened = TRUE, !.opening = m.energy,
                            !.energy = @ + (m.energy - r.opening),
                            !.until = m.until, !.closes = m.closes]

StatusStatement(m) ==
  LET C == [city EXCEPT ![m.cycle] = Restated(@, m)] IN
  /\ m.type = "status-statement"
  /\ Claim(m)
  /\ ~Ambiguous(C)
  /\ city' = Synced(C)
  /\ UNCHANGED <<settled, trades, settlements, now>>

Transfer(m) ==
  /\ m.type = "transfer"
  /\ Claim(m)
  /\ city' = Applied(city, m.cycle, Entry("TRANSFER_IN", m.idpk, m.budget, 0))
  /\ UNCHANGED <<settled, trades, settlements, now>>

DemandStatement(m) ==
  /\ m.type = "demand-statement"
  /\ Claim(m)
  /\ city' = Applied(city, m.cycle, Entry("DEMAND_STATEMENT", m.idpk, m.budget, m.energy))
  /\ UNCHANGED <<settled, trades, settlements, now>>

\* Mutant: the seller pays the transport as well.
BothPayTransport(m) ==
  /\ m.type = "trade-recorded"
  /\ Claim(m)
  /\ \A t \in trades : t.key # m.key
  /\ trades' = trades \cup {m}
  /\ city' = Applied(city, m.cycle, Entry("SWAP_TRANSPORT", m.key, m.budget, 0))
  /\ UNCHANGED <<settled, settlements, now>>

\* Only the buyer pays the transport.
TradeRecorded(m) ==
  /\ m.type = "trade-recorded"
  /\ Claim(m)
  /\ \A t \in trades : t.key # m.key
  /\ trades' = trades \cup {m}
  /\ city' = IF m.role = "BUYER"
             THEN Applied(city, m.cycle, Entry("SWAP_TRANSPORT", m.key, m.budget, 0))
             ELSE city
  /\ UNCHANGED <<settled, settlements, now>>

\* Mutant: a cycle is burnt by the first of its settlements only.
BurnOfCycle(m, energy) == Entry("IMBALANCE_BURN", m.cycle, 0, 0 - energy)

\* The total is paid, then the energy that is left is burnt.
Burn(m, energy) == Entry("IMBALANCE_BURN", m.key, 0, 0 - energy)

AfterSettlement(m) ==
  LET C == Applied(city, m.cycle, Entry("IMBALANCE_SETTLEMENT", m.key, m.budget, 0))
      energy == C[m.cycle].energy
  IN  IF energy # 0 THEN Applied(C, m.cycle, Burn(m, energy)) ELSE C

ImbalanceSettlement(m) ==
  /\ m.type = "imbalance-settlement"
  /\ Claim(m)
  /\ \A s \in settlements : s.key # m.key
  /\ settlements' = settlements \cup {m}
  /\ city' = AfterSettlement(m)
  /\ UNCHANGED <<settled, trades, now>>

\* A known fact in a new envelope: claimed, without effect.  One that says
\* something else is a conflict: it is not claimed and changes nothing.
FactRepeated(m) ==
  /\ Claim(m)
  /\ \E f \in trades \cup settlements :
        f.type = m.type /\ f.key = m.key /\ f.role = m.role /\ f.budget = m.budget
  /\ UNCHANGED <<city, settled, trades, settlements, now>>

-----------------------------------------------------------------------------
(* The wallet and the worker.                                              *)

\* A swap is learnt to be settled from its event, from GET, or from both: two
\* transactions may have read its row while it was not SETTLED.  Offers and
\* bids, so swaps, are only made in a cycle that is open.
SwapSettles(s) ==
  /\ city[s.cycle].opened
  /\ settled' = settled \cup {s}
  /\ city' = Applied(city, s.cycle, Entry("SWAP_SETTLED", s.key, s.budget, s.energy))
  /\ UNCHANGED <<processed, trades, settlements, now>>

Closed(c) == city[c].opened /\ city[c].closes <= now

ClosingBurn(c) ==
  Entry(IF \E m \in settlements : m.cycle = c THEN "IMBALANCE_CLOSE"
                                              ELSE "IMBALANCE_BURN_FALLBACK",
        c, 0, 0 - city[c].energy)

\* Mutant: a cycle that has its settlement is left alone.
FinalizeUnsettled(K) ==
  /\ city' = [c \in Cycles |->
                IF /\ c \in K /\ Closed(c) /\ city[c].energy # 0
                   /\ \A m \in settlements : m.cycle # c
                THEN Applied(city, c, ClosingBurn(c))[c]
                ELSE city[c]]
  /\ UNCHANGED <<processed, settled, trades, settlements, now>>

\* finalize_closed_markets, on the cycles K whose row nobody else has locked.
FinalizeClosedMarkets(K) ==
  /\ city' = [c \in Cycles |->
                IF c \in K /\ Closed(c) /\ city[c].energy # 0
                THEN Applied(city, c, ClosingBurn(c))[c]
                ELSE city[c]]
  /\ UNCHANGED <<processed, settled, trades, settlements, now>>

Tick ==
  /\ now < MaxTime
  /\ now' = now + 1
  /\ UNCHANGED <<city, processed, settled, trades, settlements>>

Ingest(m) == \/ StatusStatement(m) \/ Transfer(m) \/ DemandStatement(m)
             \/ TradeRecorded(m) \/ ImbalanceSettlement(m) \/ FactRepeated(m)

Next ==
  \/ \E m \in Messages : Ingest(m)
  \/ \E s \in Swaps : SwapSettles(s)
  \/ \E K \in SUBSET Cycles : FinalizeClosedMarkets(K)
  \/ Tick

Spec == Init /\ [][Next]_vars

\* The worker's loop comes round, and no row stays locked in every round.
Fairness == \A c \in Cycles : SF_vars(\E K \in SUBSET Cycles : c \in K /\ FinalizeClosedMarkets(K))

LiveSpec == Spec /\ Fairness

-----------------------------------------------------------------------------
(* Properties.                                                             *)

TypeOK ==
  /\ city \in [Cycles -> Cycle]
  /\ \A c \in Cycles : IsFiniteSet(city[c].entries)
  /\ processed \subseteq Messages /\ settled \subseteq Swaps
  /\ trades \subseteq Messages /\ settlements \subseteq Messages
  /\ now \in 0..MaxTime

\* The balances of every cycle are what its opening and its entries add up to,
\* whatever order they came in: validate_cycle_consistency never raises, which
\* would stop every report of the city (ledger.py:152).
Rebuilt(r) == /\ r.budget = r.carryover + Total([e \in r.entries |-> e.budget])
              /\ r.energy = r.opening + Total([e \in r.entries |-> e.energy])

BalancesRebuild == \A c \in Cycles : Rebuilt(city[c])

Previous(c, p) == /\ p \in Before(city, c)
                  /\ \A d \in Before(city, c) : city[d].until <= city[p].until

\* In every committed state an opened cycle was handed exactly what the one
\* before it has, although deadlines are corrected and money reaches any cycle
\* in any order (budget_carryover.py:19).
CarryoverExact == \A c \in Opened(city) :
  /\ Before(city, c) = {} => city[c].carryover = 0
  /\ \A p \in Cycles : Previous(c, p) => city[c].carryover = city[p].budget

\* What the stored facts about a cycle say of it.
FactEntries(c) ==
  {Entry("TRANSFER_IN", m.idpk, m.budget, 0) :
      m \in {n \in processed : n.type = "transfer" /\ n.cycle = c}}
  \cup {Entry("DEMAND_STATEMENT", m.idpk, m.budget, m.energy) :
      m \in {n \in processed : n.type = "demand-statement" /\ n.cycle = c}}
  \cup {Entry("SWAP_TRANSPORT", m.key, m.budget, 0) :
      m \in {n \in trades : n.role = "BUYER" /\ n.cycle = c}}
  \cup {Entry("IMBALANCE_SETTLEMENT", m.key, m.budget, 0) :
      m \in {n \in settlements : n.cycle = c}}
  \cup {Entry("SWAP_SETTLED", s.key, s.budget, s.energy) :
      s \in {n \in settled : n.cycle = c}}

\* Every fact that the city has stored is in the ledger of its cycle, and but
\* for the burns nothing else is: no path that learns of a fact loses it and
\* none books it elsewhere (trade_events.py:1, cycle_accounting.py:1).
EntriesMatchFacts == \A c \in Cycles :
  {e \in city[c].entries : e.op \in Facts} = FactEntries(c)

\* A settlement leaves its cycle without energy, whichever burns and late
\* settlements came before (cycle_accounting.py:12).
SettlementExtinguishes ==
  [][\A m \in settlements' \ settlements : city'[m.cycle].energy = 0]_vars

Burnt(c) == \E e \in city[c].entries : e.op \in Burns

\* A market that has closed is extinguished at least once.
ClosedIsBurnt == \A c \in Cycles :
  Closed(c) ~> (city[c].energy = 0 \/ Burnt(c) \/ ~Closed(c))

\* cycle_accounting.py:221: "Garantiza KWH local 0 para ciclos cuyo mercado ya
\* cerró."  Whatever energy a closed cycle has, the worker takes it away.
ClosedHasNoEnergy == \A c \in Cycles :
  Closed(c) ~> (city[c].energy = 0 \/ ~Closed(c))
=============================================================================
