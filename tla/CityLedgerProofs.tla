-------------------------- MODULE CityLedgerProofs --------------------------
(***************************************************************************)
(* What the ledger keeps for every set of cycles, messages and swaps:      *)
(* balances that can be rebuilt, an exact carry-over, and one entry for    *)
(* every stored fact.                                                      *)
(***************************************************************************)
EXTENDS CityLedger, TotalsProofs

-----------------------------------------------------------------------------
(* What the operations on the books keep.                                  *)

Good(C) == /\ C \in [Cycles -> Cycle]
           /\ \A c \in Cycles : IsFiniteSet(C[c].entries) /\ Rebuilt(C[c])

\* Every opened cycle was handed what the earlier ones earned.
Carried(C) == \A c \in Opened(C) : C[c].carryover = Expected(C, c)

\* The same cycles are open, in the same order.
Alike(C, D) ==
  \A c \in Cycles : D[c].opened = C[c].opened /\ D[c].until = C[c].until

\* One cycle has one more entry.
Added(C, D, c, e) ==
  \A d \in Cycles :
     D[d].entries = IF d = c THEN C[d].entries \cup {e} ELSE C[d].entries

\* The expected carry-over is an integer.
LEMMA ExpectedType ==
  ASSUME NEW C \in [Cycles -> Cycle], NEW c \in Cycles
  PROVE  Expected(C, c) \in Int
<1>. DEFINE f == [d \in Before(C, c) |-> Own(C[d])]
<1>1. IsFiniteSet(Before(C, c))
  <2>1. Before(C, c) \in SUBSET Cycles
    BY DEF Before, Opened
  <2>. QED
    BY <2>1, FS_Subset, LedgerAssumption
<1>2. \A d \in Cycles : Own(C[d]) \in Int
  BY DEF Own, Cycle
<1>3. DOMAIN f = Before(C, c) /\ \A d \in DOMAIN f : f[d] \in Int
  BY <1>2 DEF Before, Opened
<1>. HIDE DEF f
<1>4. Total(f) \in Int
  BY <1>1, <1>3, TotalType
<1>. QED
  BY <1>4 DEF f, Expected

\* It depends on which cycles are open, on their order and on their earnings.
LEMMA ExpectedSame ==
  ASSUME NEW C, NEW D, Alike(C, D), \A d \in Cycles : Own(D[d]) = Own(C[d]),
         NEW c \in Cycles
  PROVE  Expected(D, c) = Expected(C, c)
<1>1. Before(D, c) = Before(C, c)
  BY DEF Before, Opened, Alike
<1>2. [d \in Before(D, c) |-> Own(D[d])] = [d \in Before(C, c) |-> Own(C[d])]
  BY <1>1 DEF Before, Opened
<1>. QED
  BY <1>2 DEF Expected

\* Carrying the money over corrects every opened cycle and nothing else.
LEMMA SyncedKeeps ==
  ASSUME NEW C, Good(C)
  PROVE  /\ Good(Synced(C)) /\ Carried(Synced(C)) /\ Alike(C, Synced(C))
         /\ \A c \in Cycles : /\ Synced(C)[c].entries = C[c].entries
                              /\ Synced(C)[c].energy = C[c].energy
<1>. DEFINE D == Synced(C)
<1>0. C \in [Cycles -> Cycle] /\ \A c \in Cycles : IsFiniteSet(C[c].entries) /\ Rebuilt(C[c])
  BY DEF Good
<1>1. ASSUME NEW c \in Cycles
      PROVE  /\ D[c] \in Cycle
             /\ D[c].opened = C[c].opened /\ D[c].until = C[c].until
             /\ D[c].entries = C[c].entries /\ D[c].energy = C[c].energy
             /\ D[c].opening = C[c].opening
             /\ Own(D[c]) = Own(C[c])
             /\ C[c].opened => D[c].carryover = Expected(C, c)
             /\ D[c].budget - D[c].carryover = C[c].budget - C[c].carryover
  <2>1. Expected(C, c) \in Int
    BY <1>0, ExpectedType
  <2>2. C[c] \in Cycle
    BY <1>0
  <2>3. D[c] = IF C[c].opened
               THEN [C[c] EXCEPT !.budget = @ + (Expected(C, c) - C[c].carryover),
                                 !.carryover = @ + (Expected(C, c) - C[c].carryover)]
               ELSE C[c]
    BY DEF Synced
  <2>. HIDE DEF D
  <2>4. CASE C[c].opened
    <3>. DEFINE b == C[c].budget + (Expected(C, c) - C[c].carryover)
                h == C[c].carryover + (Expected(C, c) - C[c].carryover)
    <3>1. C[c].budget \in Int /\ C[c].carryover \in Int
      BY <2>2 DEF Cycle
    <3>2. b \in Int /\ h \in Int /\ h = Expected(C, c) /\ b - h = Own(C[c])
      BY <2>1, <3>1 DEF Own
    <3>3. D[c] = [C[c] EXCEPT !.budget = b, !.carryover = h]
      BY <2>3, <2>4
    <3>. HIDE DEF b, h
    <3>4. /\ D[c].budget = b /\ D[c].carryover = h
          /\ D[c].opened = C[c].opened /\ D[c].until = C[c].until
          /\ D[c].entries = C[c].entries /\ D[c].energy = C[c].energy
          /\ D[c].opening = C[c].opening
      BY <2>2, <3>3 DEF Cycle
    <3>5. D[c] \in Cycle
      BY <2>2, <3>2, <3>3 DEF Cycle
    <3>. QED
      BY <3>2, <3>4, <3>5 DEF Own
  <2>5. CASE ~C[c].opened
    BY <2>1, <2>2, <2>3, <2>5 DEF Cycle, Own
  <2>. QED
    BY <2>4, <2>5
<1>2. D \in [Cycles -> Cycle]
  BY <1>1 DEF Synced
<1>. HIDE DEF D
<1>3. Alike(C, D)
  BY <1>1 DEF Alike
<1>4. ASSUME NEW c \in Cycles PROVE Rebuilt(D[c])
  <2>1. C[c] \in Cycle /\ D[c] \in Cycle /\ Rebuilt(C[c])
    BY <1>0, <1>1
  <2>. DEFINE b == Total([e \in C[c].entries |-> e.budget])
              n == Total([e \in C[c].entries |-> e.energy])
  <2>2. /\ C[c].budget = C[c].carryover + b /\ C[c].energy = C[c].opening + n
        /\ Total([e \in D[c].entries |-> e.budget]) = b
        /\ Total([e \in D[c].entries |-> e.energy]) = n
    BY <1>1, <2>1 DEF Rebuilt
  <2>3. b \in Int
    <3>. DEFINE f == [e \in C[c].entries |-> e.budget]
    <3>1. IsFiniteSet(DOMAIN f) /\ \A e \in DOMAIN f : f[e] \in Int
      BY <1>0, <2>1 DEF Cycle, LedgerEntry
    <3>. HIDE DEF f
    <3>2. Total(f) \in Int
      BY <3>1, TotalType
    <3>. QED
      BY <3>2 DEF f
  <2>. HIDE DEF b, n
  <2>4. /\ C[c].budget \in Int /\ C[c].carryover \in Int
        /\ D[c].budget \in Int /\ D[c].carryover \in Int
    BY <2>1 DEF Cycle
  <2>5. D[c].budget = D[c].carryover + b
    BY <1>1, <2>2, <2>3, <2>4
  <2>6. D[c].energy = D[c].opening + n
    BY <1>1, <2>2
  <2>. QED
    BY <2>2, <2>5, <2>6 DEF Rebuilt
<1>5. Good(D)
  BY <1>0, <1>1, <1>2, <1>4 DEF Good
<1>6. Carried(D)
  <2>. SUFFICES ASSUME NEW c \in Opened(D) PROVE D[c].carryover = Expected(D, c)
    BY DEF Carried
  <2>1. c \in Cycles /\ C[c].opened
    BY <1>1 DEF Opened
  <2>2. Expected(D, c) = Expected(C, c)
    BY <1>1, <1>3, <2>1, ExpectedSame
  <2>. QED
    BY <1>1, <2>1, <2>2
<1>. QED
  BY <1>1, <1>3, <1>5, <1>6 DEF D

\* An entry that is not there yet keeps the balances of its row explained.
LEMMA BookedKeeps ==
  ASSUME NEW r \in Cycle, IsFiniteSet(r.entries), Rebuilt(r),
         NEW e \in LedgerEntry, e \notin r.entries
  PROVE  /\ Booked(r, e) \in Cycle
         /\ IsFiniteSet(Booked(r, e).entries) /\ Rebuilt(Booked(r, e))
         /\ Booked(r, e).entries = r.entries \cup {e}
         /\ Booked(r, e).opened = r.opened /\ Booked(r, e).until = r.until
         /\ Booked(r, e).energy = r.energy + e.energy
         /\ Booked(r, e).carryover = r.carryover
         /\ Own(Booked(r, e)) = Own(r) + e.budget
<1>. DEFINE s == Booked(r, e)
<1>1. e.budget \in Int /\ e.energy \in Int
  BY DEF LedgerEntry
<1>2. /\ s.entries = r.entries \cup {e}
      /\ s.opened = r.opened /\ s.until = r.until /\ s.opening = r.opening
      /\ s.energy = r.energy + e.energy /\ s.budget = r.budget + e.budget
      /\ s.carryover = r.carryover
  BY DEF Booked, Cycle
<1>3. /\ r.budget \in Int /\ r.energy \in Int /\ r.carryover \in Int /\ r.opening \in Int
      /\ \A x \in r.entries : x.budget \in Int /\ x.energy \in Int
  BY DEF Cycle, LedgerEntry
<1>10. s \in Cycle
  <2>. DEFINE b == r.budget + e.budget  n == r.energy + e.energy  E == r.entries \cup {e}
  <2>1. b \in Int /\ n \in Int
    BY <1>1, <1>3
  <2>2. E \in SUBSET LedgerEntry
    BY DEF Cycle
  <2>3. s = [r EXCEPT !.budget = b, !.energy = n, !.entries = E]
    BY DEF Booked
  <2>. HIDE DEF b, n, E
  <2>. QED
    BY <2>1, <2>2, <2>3 DEF Cycle
<1>. HIDE DEF s
<1>4. IsFiniteSet(s.entries)
  BY <1>2, FS_AddElement
<1>5. Own(s) = Own(r) + e.budget
  BY <1>1, <1>2, <1>3 DEF Own
<1>6. ASSUME NEW f, NEW g, DOMAIN f = r.entries, DOMAIN g = s.entries,
             \A x \in r.entries : f[x] \in Int /\ g[x] = f[x], g[e] \in Int
      PROVE  Total(g) = Total(f) + g[e] /\ Total(f) \in Int
  <2>1. IsFiniteSet(DOMAIN f) /\ DOMAIN g = DOMAIN f \cup {e} /\ e \notin DOMAIN f
    BY <1>2, <1>6
  <2>2. Total(g) = Total(f) + g[e]
    BY <1>6, <2>1, TotalExtend
  <2>3. Total(f) \in Int
    BY <1>6, <2>1, TotalType
  <2>. QED
    BY <2>2, <2>3
<1>7. s.budget = s.carryover + Total([x \in s.entries |-> x.budget])
  <2>. DEFINE f == [x \in r.entries |-> x.budget]
              g == [x \in s.entries |-> x.budget]
  <2>1. /\ DOMAIN f = r.entries /\ DOMAIN g = s.entries /\ g[e] = e.budget
        /\ \A x \in r.entries : f[x] \in Int /\ g[x] = f[x]
    BY <1>2, <1>3
  <2>2. r.budget = r.carryover + Total(f)
    BY DEF Rebuilt
  <2>. HIDE DEF f, g
  <2>3. Total(g) = Total(f) + g[e] /\ Total(f) \in Int
    BY <1>1, <1>6, <2>1
  <2>4. s.budget = s.carryover + Total(g)
    BY <1>1, <1>2, <1>3, <2>1, <2>2, <2>3
  <2>. QED
    BY <2>4 DEF g
<1>8. s.energy = s.opening + Total([x \in s.entries |-> x.energy])
  <2>. DEFINE f == [x \in r.entries |-> x.energy]
              g == [x \in s.entries |-> x.energy]
  <2>1. /\ DOMAIN f = r.entries /\ DOMAIN g = s.entries /\ g[e] = e.energy
        /\ \A x \in r.entries : f[x] \in Int /\ g[x] = f[x]
    BY <1>2, <1>3
  <2>2. r.energy = r.opening + Total(f)
    BY DEF Rebuilt
  <2>. HIDE DEF f, g
  <2>3. Total(g) = Total(f) + g[e] /\ Total(f) \in Int
    BY <1>1, <1>6, <2>1
  <2>4. s.energy = s.opening + Total(g)
    BY <1>1, <1>2, <1>3, <2>1, <2>2, <2>3
  <2>. QED
    BY <2>4 DEF g
<1>9. Rebuilt(s)
  BY <1>7, <1>8 DEF Rebuilt
<1>. QED
  BY <1>2, <1>4, <1>5, <1>9, <1>10 DEF s

\* A ledger effect keeps the books, and adds its entry if it is new.
LEMMA AppliedKeeps ==
  ASSUME NEW C, Good(C), Carried(C), NEW c \in Cycles, NEW e \in LedgerEntry,
         NEW D, D = Applied(C, c, e)
  PROVE  /\ Good(D) /\ Carried(D) /\ Alike(C, D)
         /\ Counted(C, e) => D = C
         /\ ~Counted(C, e) =>
               Added(C, D, c, e) /\ D[c].energy = C[c].energy + e.energy
<1>. DEFINE B == [C EXCEPT ![c] = Booked(@, e)]
<1>1. CASE Counted(C, e)
  BY <1>1 DEF Applied, Alike
<1>2. CASE ~Counted(C, e)
  <2>0. C \in [Cycles -> Cycle] /\ \A d \in Cycles : IsFiniteSet(C[d].entries) /\ Rebuilt(C[d])
    BY DEF Good
  <2>1. e \notin C[c].entries
    BY <1>2 DEF Counted
  <2>2. /\ Booked(C[c], e) \in Cycle
        /\ IsFiniteSet(Booked(C[c], e).entries) /\ Rebuilt(Booked(C[c], e))
        /\ Booked(C[c], e).entries = C[c].entries \cup {e}
        /\ Booked(C[c], e).opened = C[c].opened /\ Booked(C[c], e).until = C[c].until
        /\ Booked(C[c], e).energy = C[c].energy + e.energy
        /\ Booked(C[c], e).carryover = C[c].carryover
        /\ Own(Booked(C[c], e)) = Own(C[c]) + e.budget
    BY <2>0, <2>1, BookedKeeps
  <2>3. B[c] = Booked(C[c], e) /\ \A d \in Cycles : d # c => B[d] = C[d]
    BY <2>0
  <2>4. B \in [Cycles -> Cycle]
    BY <2>0, <2>2
  <2>5. Applied(C, c, e) = IF e.budget # 0 THEN Synced(B) ELSE B
    BY <1>2 DEF Applied
  <2>. HIDE DEF B
  <2>6. Good(B) /\ Alike(C, B)
    BY <2>0, <2>2, <2>3, <2>4 DEF Good, Alike
  <2>7. Added(C, B, c, e)
    BY <2>2, <2>3 DEF Added
  <2>8. B[c].energy = C[c].energy + e.energy
    BY <2>2, <2>3
  <2>9. CASE e.budget # 0
    <3>1. /\ Good(Synced(B)) /\ Carried(Synced(B)) /\ Alike(B, Synced(B))
          /\ \A d \in Cycles : /\ Synced(B)[d].entries = B[d].entries
                               /\ Synced(B)[d].energy = B[d].energy
      BY <2>6, SyncedKeeps
    <3>2. Alike(C, Synced(B))
      BY <2>6, <3>1 DEF Alike
    <3>3. Applied(C, c, e) = Synced(B)
      BY <2>5, <2>9
    <3>. QED
      BY <1>2, <2>7, <2>8, <3>1, <3>2, <3>3 DEF Added
  <2>10. CASE e.budget = 0
    <3>1. \A d \in Cycles : Own(C[d]) \in Int
      BY <2>0 DEF Own, Cycle
    <3>2. \A d \in Cycles : Own(B[d]) = Own(C[d]) /\ B[d].carryover = C[d].carryover
      BY <2>2, <2>3, <2>10, <3>1
    <3>3. \A d \in Cycles : Expected(B, d) = Expected(C, d)
      BY <2>6, <3>2, ExpectedSame
    <3>4. Opened(B) = Opened(C)
      BY <2>6 DEF Alike, Opened
    <3>5. Carried(B)
      BY <3>2, <3>3, <3>4 DEF Carried, Opened
    <3>6. Applied(C, c, e) = B
      BY <2>5, <2>10
    <3>. QED
      BY <1>2, <2>6, <2>7, <2>8, <3>5, <3>6
  <2>. QED
    BY <2>9, <2>10
<1>. QED
  BY <1>1, <1>2

-----------------------------------------------------------------------------
(* The invariant.                                                          *)

\* What is stored of trades and settlements came in such a message.
FactsTyped == /\ \A t \in trades : t.type = "trade-recorded"
              /\ \A s \in settlements : s.type = "imbalance-settlement"

\* The books explain every balance, hand on every budget, know the order of
\* the cycles, and hold one entry for each stored fact.
LedgerInv == /\ TypeOK /\ Good(city) /\ Carried(city) /\ ~Ambiguous(city)
             /\ EntriesMatchFacts /\ FactsTyped

\* The carry-over that is kept is the balance of the cycle before.
LEMMA CarriedIsExact ==
  ASSUME Good(city), Carried(city), ~Ambiguous(city)
  PROVE  CarryoverExact
<1>0. city \in [Cycles -> Cycle]
  BY DEF Good
<1>1. ASSUME NEW c \in Opened(city), Before(city, c) = {}
      PROVE  city[c].carryover = 0
  <2>1. Expected(city, c) = 0
    BY <1>1, TotalEmpty DEF Expected
  <2>. QED
    BY <2>1 DEF Carried
<1>2. ASSUME NEW c \in Opened(city), NEW p \in Cycles, Previous(c, p)
      PROVE  city[c].carryover = city[p].budget
  <2>1. /\ p \in Opened(city) /\ city[p].until < city[c].until
        /\ \A d \in Before(city, c) : city[d].until <= city[p].until
    BY <1>2 DEF Previous, Before
  <2>2. \A d \in Cycles : city[d].until \in Nat
    BY <1>0 DEF Cycle
  <2>3. c \in Cycles /\ Opened(city) \subseteq Cycles
    BY DEF Opened
  <2>4. \A d \in Opened(city) : d # p => city[d].until # city[p].until
    BY <2>1 DEF Ambiguous
  <2>5. Before(city, c) = Before(city, p) \cup {p} /\ p \notin Before(city, p)
    BY <2>1, <2>2, <2>3, <2>4 DEF Before
  <2>. DEFINE f == [d \in Before(city, p) |-> Own(city[d])]
              g == [d \in Before(city, c) |-> Own(city[d])]
  <2>6. \A d \in Cycles : Own(city[d]) \in Int
    BY <1>0 DEF Own, Cycle
  <2>7. IsFiniteSet(Before(city, p))
    <3>1. Before(city, p) \in SUBSET Cycles
      BY DEF Before, Opened
    <3>. QED
      BY <3>1, FS_Subset, LedgerAssumption
  <2>8. /\ DOMAIN f = Before(city, p) /\ DOMAIN g = DOMAIN f \cup {p} /\ p \notin DOMAIN f
        /\ \A d \in DOMAIN f : f[d] \in Int /\ g[d] = f[d]
        /\ g[p] = Own(city[p]) /\ g[p] \in Int
    BY <2>3, <2>5, <2>6 DEF Before
  <2>9. Expected(city, p) = Total(f) /\ Expected(city, c) = Total(g)
    BY DEF Expected
  <2>. HIDE DEF f, g
  <2>10. Total(g) = Total(f) + g[p]
    BY <2>7, <2>8, TotalExtend
  <2>11. city[p].carryover = Total(f) /\ city[c].carryover = Total(g)
    BY <2>1, <2>9 DEF Carried
  <2>12. city[p].budget \in Int /\ city[p].carryover \in Int
    BY <1>0 DEF Cycle
  <2>. QED
    BY <2>8, <2>10, <2>11, <2>12 DEF Own
<1>. QED
  BY <1>1, <1>2 DEF CarryoverExact

\* A fact that is not stored has no entry, whatever the cycle.
LEMMA NewFact ==
  ASSUME EntriesMatchFacts, NEW e, e.op \in Facts,
         \A c \in Cycles : \A f \in FactEntries(c) : ~(f.op = e.op /\ f.key = e.key)
  PROVE  ~Counted(city, e)
BY DEF EntriesMatchFacts, Counted

\* A fact that is booked in its cycle is there and nowhere else.
LEMMA BookedFact ==
  ASSUME NEW C, NEW D, NEW c \in Cycles, NEW e, e.op \in Facts,
         Added(C, D, c, e)
  PROVE  \A d \in Cycles :
            {x \in D[d].entries : x.op \in Facts}
              = {x \in C[d].entries : x.op \in Facts} \cup (IF d = c THEN {e} ELSE {})
BY DEF Added

\* A burn is not a fact.
LEMMA BurntFacts ==
  ASSUME NEW C, NEW D, NEW c \in Cycles, NEW e, e.op \in Burns,
         Added(C, D, c, e)
  PROVE  \A d \in Cycles :
            {x \in D[d].entries : x.op \in Facts} = {x \in C[d].entries : x.op \in Facts}
BY DEF Burns, Facts, Added

\* What a message of the central is made of.
LEMMA MessageType ==
  ASSUME NEW m \in Messages
  PROVE  /\ m.cycle \in Cycles /\ m.cycle \in Keys /\ m.idpk \in Keys /\ m.key \in Keys
         /\ m.budget \in Int /\ m.energy \in Int /\ m.until \in Nat /\ m.closes \in Nat
BY LedgerAssumption DEF Keys

\* The order of the cycles is what makes deadlines ambiguous.
LEMMA AlikeAmbiguous ==
  ASSUME NEW C, NEW D, Alike(C, D)
  PROVE  Ambiguous(D) <=> Ambiguous(C)
BY DEF Alike, Ambiguous, Opened

\* The books start empty.
LEMMA LedgerInit == Init => LedgerInv
<1>. SUFFICES ASSUME Init PROVE LedgerInv
  OBVIOUS
<1>1. \A c \in Cycles : city[c] = Placeholder
  BY DEF Init
<1>2. Placeholder \in Cycle /\ Placeholder.entries = {} /\ ~Placeholder.opened
  BY DEF Placeholder, Cycle
<1>3. city \in [Cycles -> Cycle]
  BY <1>2 DEF Init
<1>4. \A c \in Cycles : IsFiniteSet(city[c].entries)
  BY <1>1, <1>2, FS_EmptySet
<1>5. Rebuilt(Placeholder)
  <2>. DEFINE f == [e \in Placeholder.entries |-> e.budget]
              g == [e \in Placeholder.entries |-> e.energy]
  <2>1. Total(f) = 0 /\ Total(g) = 0
    <3>1. DOMAIN f = {} /\ DOMAIN g = {}
      BY <1>2
    <3>. HIDE DEF f, g
    <3>. QED
      BY <3>1, TotalEmpty
  <2>2. /\ Placeholder.budget = 0 /\ Placeholder.carryover = 0
        /\ Placeholder.energy = 0 /\ Placeholder.opening = 0
    BY DEF Placeholder
  <2>. QED
    BY <2>1, <2>2 DEF Rebuilt
<1>6. Good(city)
  BY <1>1, <1>3, <1>4, <1>5 DEF Good
<1>7. Opened(city) = {}
  BY <1>1, <1>2 DEF Opened
<1>8. Carried(city) /\ ~Ambiguous(city)
  BY <1>7 DEF Carried, Ambiguous
<1>9. processed = {} /\ settled = {} /\ trades = {} /\ settlements = {} /\ now = 0
  BY DEF Init
<1>10. TypeOK
  BY <1>3, <1>4, <1>9, LedgerAssumption DEF TypeOK
<1>11. \A c \in Cycles : FactEntries(c) = {}
  BY <1>9 DEF FactEntries
<1>12. EntriesMatchFacts
  BY <1>1, <1>2, <1>11 DEF EntriesMatchFacts
<1>. QED
  BY <1>6, <1>8, <1>9, <1>10, <1>12 DEF LedgerInv, FactsTyped

-----------------------------------------------------------------------------
(* What each kind of fact adds to the facts about a cycle.                 *)

\* A transfer or a demand adds its entry as it is processed, and no other
\* type of message does.
LEMMA ProcessedFacts ==
  ASSUME NEW m \in Messages, processed' = processed \cup {m},
         UNCHANGED <<settled, trades, settlements>>, NEW d \in Cycles
  PROVE  /\ m.type \notin {"transfer", "demand-statement"}
              => FactEntries(d)' = FactEntries(d)
         /\ m.type = "transfer"
              => FactEntries(d)' = FactEntries(d) \cup
                   (IF d = m.cycle THEN {Entry("TRANSFER_IN", m.idpk, m.budget, 0)} ELSE {})
         /\ m.type = "demand-statement"
              => FactEntries(d)' = FactEntries(d) \cup
                   (IF d = m.cycle
                    THEN {Entry("DEMAND_STATEMENT", m.idpk, m.budget, m.energy)} ELSE {})
BY DEF FactEntries

\* A trade of the city adds the transport that it pays as a buyer.
LEMMA TradeFacts ==
  ASSUME NEW m \in Messages, m.type = "trade-recorded",
         processed' = processed \cup {m}, trades' = trades \cup {m},
         UNCHANGED <<settled, settlements>>, NEW d \in Cycles
  PROVE  FactEntries(d)' = FactEntries(d) \cup
           (IF d = m.cycle /\ m.role = "BUYER"
            THEN {Entry("SWAP_TRANSPORT", m.key, m.budget, 0)} ELSE {})
BY DEF FactEntries

\* A settlement adds what it costs.
LEMMA SettlementFacts ==
  ASSUME NEW m \in Messages, m.type = "imbalance-settlement",
         processed' = processed \cup {m}, settlements' = settlements \cup {m},
         UNCHANGED <<settled, trades>>, NEW d \in Cycles
  PROVE  FactEntries(d)' = FactEntries(d) \cup
           (IF d = m.cycle
            THEN {Entry("IMBALANCE_SETTLEMENT", m.key, m.budget, 0)} ELSE {})
BY DEF FactEntries

\* A swap that is settled adds what it moves.
LEMMA SwapFacts ==
  ASSUME NEW s \in Swaps, settled' = settled \cup {s},
         UNCHANGED <<processed, trades, settlements>>, NEW d \in Cycles
  PROVE  FactEntries(d)' = FactEntries(d) \cup
           (IF d = s.cycle
            THEN {Entry("SWAP_SETTLED", s.key, s.budget, s.energy)} ELSE {})
BY DEF FactEntries

-----------------------------------------------------------------------------
(* Every step keeps the invariant.                                         *)

\* The parts of the invariant that speak of the books.
Sound(C) == Good(C) /\ Carried(C) /\ ~Ambiguous(C)

\* A new fact that is booked as one entry of its cycle.
LEMMA FactBooked ==
  ASSUME LedgerInv, NEW c \in Cycles, NEW e \in LedgerEntry, e.op \in Facts,
         NEW D, D = Applied(city, c, e),
         \A d \in Cycles : \A f \in FactEntries(d) : ~(f.op = e.op /\ f.key = e.key),
         \A d \in Cycles :
            FactEntries(d)' = FactEntries(d) \cup (IF d = c THEN {e} ELSE {})
  PROVE  /\ Sound(D)
         /\ \A d \in Cycles : {x \in D[d].entries : x.op \in Facts} = FactEntries(d)'
<1>1. Good(city) /\ Carried(city) /\ ~Ambiguous(city) /\ EntriesMatchFacts
  BY DEF LedgerInv
<1>2. ~Counted(city, e)
  BY <1>1, NewFact
<1>3. /\ Good(D) /\ Carried(D) /\ Alike(city, D)
      /\ Added(city, D, c, e) /\ D[c].energy = city[c].energy + e.energy
  BY <1>1, <1>2, AppliedKeeps
<1>4. ~Ambiguous(D)
  BY <1>1, <1>3, AlikeAmbiguous
<1>5. \A d \in Cycles :
         {x \in D[d].entries : x.op \in Facts}
           = {x \in city[d].entries : x.op \in Facts} \cup (IF d = c THEN {e} ELSE {})
  BY <1>3, BookedFact
<1>6. \A d \in Cycles : {x \in D[d].entries : x.op \in Facts} = FactEntries(d)'
  BY <1>1, <1>5 DEF EntriesMatchFacts
<1>. QED
  BY <1>3, <1>4, <1>6 DEF Sound

\* A burn keeps the books sound and the facts as they are.
LEMMA BurnKeeps ==
  ASSUME NEW C, Sound(C), NEW c \in Cycles, NEW e \in LedgerEntry, e.op \in Burns,
         NEW D, D = Applied(C, c, e)
  PROVE  /\ Sound(D)
         /\ \A d \in Cycles :
              {x \in D[d].entries : x.op \in Facts} = {x \in C[d].entries : x.op \in Facts}
         /\ ~Counted(C, e) => D[c].energy = C[c].energy + e.energy
<1>1. Good(C) /\ Carried(C) /\ ~Ambiguous(C)
  BY DEF Sound
<1>2. /\ Good(D) /\ Carried(D) /\ Alike(C, D)
      /\ Counted(C, e) => D = C
      /\ ~Counted(C, e) => Added(C, D, c, e) /\ D[c].energy = C[c].energy + e.energy
  BY <1>1, AppliedKeeps
<1>3. Sound(D)
  BY <1>1, <1>2, AlikeAmbiguous DEF Sound
<1>4. CASE Counted(C, e)
  BY <1>2, <1>3, <1>4
<1>5. CASE ~Counted(C, e)
  BY <1>2, <1>3, <1>5, BurntFacts
<1>. QED
  BY <1>4, <1>5

\* An action that keeps the books sound and its variables typed.
LEMMA KeepsInv ==
  ASSUME LedgerInv, Sound(city'), EntriesMatchFacts', FactsTyped',
         processed' \subseteq Messages, settled' \subseteq Swaps,
         trades' \subseteq Messages, settlements' \subseteq Messages, now' \in 0..MaxTime
  PROVE  LedgerInv'
<1>1. Good(city') /\ Carried(city') /\ ~Ambiguous(city')
  BY DEF Sound
<1>2. TypeOK'
  BY <1>1 DEF TypeOK, Good
<1>. QED
  BY <1>1, <1>2 DEF LedgerInv

\* A statement of a cycle moves no fact.
LEMMA StatusStep ==
  ASSUME LedgerInv, NEW m \in Messages, StatusStatement(m)
  PROVE  LedgerInv' /\ \A c \in Cycles : city'[c].entries = city[c].entries
<1>. DEFINE C == [city EXCEPT ![m.cycle] = Restated(@, m)]
            r == city[m.cycle]
            s == Restated(r, m)
<1>1. TypeOK /\ Good(city) /\ EntriesMatchFacts
  BY DEF LedgerInv
<1>2. city \in [Cycles -> Cycle] /\ \A c \in Cycles : IsFiniteSet(city[c].entries) /\ Rebuilt(city[c])
  BY <1>1 DEF Good
<1>3. /\ m.cycle \in Cycles /\ m.energy \in Int /\ m.until \in Nat /\ m.closes \in Nat
      /\ r \in Cycle /\ IsFiniteSet(r.entries) /\ Rebuilt(r)
  BY <1>2, MessageType
<1>4. /\ s \in Cycle /\ s.entries = r.entries /\ s.opening = m.energy
      /\ s.energy = r.energy + (m.energy - r.opening)
      /\ s.budget = r.budget /\ s.carryover = r.carryover
  <2>. DEFINE n == r.energy + (m.energy - r.opening)
  <2>1. n \in Int
    BY <1>3 DEF Cycle
  <2>2. s = [r EXCEPT !.opened = TRUE, !.opening = m.energy, !.energy = n,
                      !.until = m.until, !.closes = m.closes]
    BY DEF Restated
  <2>. HIDE DEF n, s, r
  <2>3. /\ s.entries = r.entries /\ s.opening = m.energy /\ s.energy = n
        /\ s.budget = r.budget /\ s.carryover = r.carryover
    BY <1>3, <2>2 DEF Cycle
  <2>4. s \in Cycle
    BY <1>3, <2>1, <2>2 DEF Cycle
  <2>. QED
    BY <2>3, <2>4 DEF n
<1>5. Rebuilt(s)
  <2>. DEFINE n == Total([e \in r.entries |-> e.energy])
  <2>1. n \in Int
    <3>. DEFINE f == [e \in r.entries |-> e.energy]
    <3>1. IsFiniteSet(DOMAIN f) /\ \A e \in DOMAIN f : f[e] \in Int
      BY <1>3 DEF Cycle, LedgerEntry
    <3>. HIDE DEF f
    <3>2. Total(f) \in Int
      BY <3>1, TotalType
    <3>. QED
      BY <3>2 DEF f
  <2>2. /\ r.energy = r.opening + n /\ Total([e \in s.entries |-> e.energy]) = n
        /\ r.budget = r.carryover + Total([e \in r.entries |-> e.budget])
        /\ s.budget = s.carryover + Total([e \in s.entries |-> e.budget])
    BY <1>3, <1>4 DEF Rebuilt
  <2>3. r.energy \in Int /\ r.opening \in Int
    BY <1>3 DEF Cycle
  <2>. HIDE DEF n, s, r
  <2>4. s.energy = s.opening + n
    BY <1>3, <1>4, <2>1, <2>2, <2>3
  <2>. QED
    BY <2>2, <2>4 DEF Rebuilt
<1>6. \A c \in Cycles : C[c] = IF c = m.cycle THEN s ELSE city[c]
  BY <1>2, <1>3
<1>7. C \in [Cycles -> Cycle]
  BY <1>2, <1>4
<1>8. ~Ambiguous(C) /\ city' = Synced(C)
  BY DEF StatusStatement
<1>. HIDE DEF C, s
<1>9. Good(C)
  BY <1>2, <1>3, <1>4, <1>5, <1>6, <1>7 DEF Good
<1>10. /\ Good(city') /\ Carried(city') /\ Alike(C, city')
       /\ \A c \in Cycles : city'[c].entries = C[c].entries
  BY <1>8, <1>9, SyncedKeeps
<1>11. Sound(city')
  BY <1>8, <1>10, AlikeAmbiguous DEF Sound
<1>12. \A c \in Cycles : city'[c].entries = city[c].entries
  BY <1>4, <1>6, <1>10
<1>13. \A c \in Cycles : FactEntries(c)' = FactEntries(c)
  BY ProcessedFacts DEF StatusStatement, Claim
<1>14. EntriesMatchFacts'
  BY <1>1, <1>12, <1>13 DEF EntriesMatchFacts
<1>. QED
  BY <1>11, <1>12, <1>14, KeepsInv
  DEF LedgerInv, TypeOK, FactsTyped, StatusStatement, Claim

\* A transfer pays into its cycle.
LEMMA TransferStep ==
  ASSUME LedgerInv, NEW m \in Messages, Transfer(m)
  PROVE  LedgerInv'
<1>. DEFINE e == Entry("TRANSFER_IN", m.idpk, m.budget, 0)
<1>1. /\ e \in LedgerEntry /\ e.op = "TRANSFER_IN" /\ e.op \in Facts /\ e.key = m.idpk
      /\ m.cycle \in Cycles
  BY MessageType DEF Facts, Entry, LedgerEntry
<1>2. ASSUME NEW d \in Cycles, NEW f \in FactEntries(d)
      PROVE  ~(f.op = e.op /\ f.key = e.key)
  BY <1>1 DEF FactEntries, Entry, Transfer, Claim
<1>3. \A d \in Cycles :
         FactEntries(d)' = FactEntries(d) \cup (IF d = m.cycle THEN {e} ELSE {})
  BY ProcessedFacts DEF Transfer, Claim
<1>4. city' = Applied(city, m.cycle, e)
  BY DEF Transfer
<1>. HIDE DEF e
<1>5. Sound(city') /\ EntriesMatchFacts'
  BY <1>1, <1>2, <1>3, <1>4, FactBooked DEF EntriesMatchFacts
<1>. QED
  BY <1>5, KeepsInv DEF LedgerInv, TypeOK, FactsTyped, Transfer, Claim

\* A demand changes both balances of its cycle.
LEMMA DemandStep ==
  ASSUME LedgerInv, NEW m \in Messages, DemandStatement(m)
  PROVE  LedgerInv'
<1>. DEFINE e == Entry("DEMAND_STATEMENT", m.idpk, m.budget, m.energy)
<1>1. /\ e \in LedgerEntry /\ e.op = "DEMAND_STATEMENT" /\ e.op \in Facts
      /\ e.key = m.idpk /\ m.cycle \in Cycles
  BY MessageType DEF Facts, Entry, LedgerEntry
<1>2. ASSUME NEW d \in Cycles, NEW f \in FactEntries(d)
      PROVE  ~(f.op = e.op /\ f.key = e.key)
  BY <1>1 DEF FactEntries, Entry, DemandStatement, Claim
<1>3. \A d \in Cycles :
         FactEntries(d)' = FactEntries(d) \cup (IF d = m.cycle THEN {e} ELSE {})
  BY ProcessedFacts DEF DemandStatement, Claim
<1>4. city' = Applied(city, m.cycle, e)
  BY DEF DemandStatement
<1>. HIDE DEF e
<1>5. Sound(city') /\ EntriesMatchFacts'
  BY <1>1, <1>2, <1>3, <1>4, FactBooked DEF EntriesMatchFacts
<1>. QED
  BY <1>5, KeepsInv DEF LedgerInv, TypeOK, FactsTyped, DemandStatement, Claim

\* A trade pays its transport, if the city buys.
LEMMA TradeStep ==
  ASSUME LedgerInv, NEW m \in Messages, TradeRecorded(m)
  PROVE  LedgerInv'
<1>. DEFINE e == Entry("SWAP_TRANSPORT", m.key, m.budget, 0)
<1>1. /\ e \in LedgerEntry /\ e.op = "SWAP_TRANSPORT" /\ e.op \in Facts /\ e.key = m.key
      /\ m.cycle \in Cycles
  BY MessageType DEF Facts, Entry, LedgerEntry
<1>2. ASSUME NEW d \in Cycles, NEW f \in FactEntries(d)
      PROVE  ~(f.op = e.op /\ f.key = e.key)
  BY <1>1 DEF FactEntries, Entry, TradeRecorded
<1>3. \A d \in Cycles :
         FactEntries(d)' = FactEntries(d) \cup
           (IF d = m.cycle /\ m.role = "BUYER" THEN {e} ELSE {})
  BY TradeFacts DEF TradeRecorded, Claim
<1>4. city' = IF m.role = "BUYER" THEN Applied(city, m.cycle, e) ELSE city
  BY DEF TradeRecorded
<1>. HIDE DEF e
<1>5. Sound(city') /\ EntriesMatchFacts'
  <2>1. CASE m.role = "BUYER"
    BY <1>1, <1>2, <1>3, <1>4, <2>1, FactBooked DEF EntriesMatchFacts
  <2>2. CASE m.role # "BUYER"
    BY <1>3, <1>4, <2>2 DEF LedgerInv, Sound, EntriesMatchFacts
  <2>. QED
    BY <2>1, <2>2
<1>. QED
  BY <1>5, KeepsInv DEF LedgerInv, TypeOK, FactsTyped, TradeRecorded, Claim

\* A settlement is paid, and then what is left is burnt.
LEMMA SettlementStep ==
  ASSUME LedgerInv, NEW m \in Messages, ImbalanceSettlement(m)
  PROVE  LedgerInv'
<1>. DEFINE e == Entry("IMBALANCE_SETTLEMENT", m.key, m.budget, 0)
            C == Applied(city, m.cycle, e)
            b == Burn(m, C[m.cycle].energy)
<1>1. /\ e \in LedgerEntry /\ e.op = "IMBALANCE_SETTLEMENT" /\ e.op \in Facts
      /\ e.key = m.key /\ m.cycle \in Cycles
  BY MessageType DEF Facts, Entry, LedgerEntry
<1>2. ASSUME NEW d \in Cycles, NEW f \in FactEntries(d)
      PROVE  ~(f.op = e.op /\ f.key = e.key)
  BY <1>1 DEF FactEntries, Entry, ImbalanceSettlement
<1>3. \A d \in Cycles :
         FactEntries(d)' = FactEntries(d) \cup (IF d = m.cycle THEN {e} ELSE {})
  BY SettlementFacts DEF ImbalanceSettlement, Claim
<1>4. city' = IF C[m.cycle].energy # 0 THEN Applied(C, m.cycle, b) ELSE C
  BY DEF ImbalanceSettlement, AfterSettlement
<1>5. C = Applied(city, m.cycle, e)
  OBVIOUS
<1>. HIDE DEF e, C
<1>6. /\ Sound(C)
      /\ \A d \in Cycles : {x \in C[d].entries : x.op \in Facts} = FactEntries(d)'
  BY <1>1, <1>2, <1>3, <1>5, FactBooked
<1>7. b \in LedgerEntry /\ b.op \in Burns
  <2>1. C[m.cycle].energy \in Int
    BY <1>1, <1>6 DEF Sound, Good, Cycle
  <2>. QED
    BY <2>1, MessageType DEF Burn, Burns, Entry, LedgerEntry
<1>. HIDE DEF b
<1>8. Sound(city') /\ EntriesMatchFacts'
  <2>1. CASE C[m.cycle].energy # 0
    <3>1. city' = Applied(C, m.cycle, b)
      BY <1>4, <2>1
    <3>2. /\ Sound(city')
          /\ \A d \in Cycles : {x \in city'[d].entries : x.op \in Facts}
                                 = {x \in C[d].entries : x.op \in Facts}
      BY <1>1, <1>6, <1>7, <3>1, BurnKeeps
    <3>. QED
      BY <1>6, <3>2 DEF EntriesMatchFacts
  <2>2. CASE C[m.cycle].energy = 0
    BY <1>4, <1>6, <2>2 DEF EntriesMatchFacts
  <2>. QED
    BY <2>1, <2>2
<1>. QED
  BY <1>8, KeepsInv DEF LedgerInv, TypeOK, FactsTyped, ImbalanceSettlement, Claim

\* A repeated fact is claimed and nothing else.
LEMMA RepeatedStep ==
  ASSUME LedgerInv, NEW m \in Messages, FactRepeated(m)
  PROVE  LedgerInv'
<1>1. m.type \notin {"transfer", "demand-statement"}
  BY DEF FactRepeated, LedgerInv, FactsTyped
<1>2. \A d \in Cycles : FactEntries(d)' = FactEntries(d)
  BY <1>1, ProcessedFacts DEF FactRepeated, Claim
<1>3. Sound(city') /\ EntriesMatchFacts'
  BY <1>2 DEF LedgerInv, Sound, EntriesMatchFacts, FactRepeated
<1>. QED
  BY <1>3, KeepsInv DEF LedgerInv, TypeOK, FactsTyped, FactRepeated, Claim

\* A swap moves its money and its energy once, however often it is learnt.
LEMMA SwapStep ==
  ASSUME LedgerInv, NEW s \in Swaps, SwapSettles(s)
  PROVE  LedgerInv'
<1>. DEFINE e == Entry("SWAP_SETTLED", s.key, s.budget, s.energy)
<1>1. /\ e \in LedgerEntry /\ e.op = "SWAP_SETTLED" /\ e.op \in Facts /\ e.key = s.key
      /\ s.cycle \in Cycles
  BY LedgerAssumption DEF Facts, Entry, LedgerEntry, Keys
<1>2. \A d \in Cycles :
         FactEntries(d)' = FactEntries(d) \cup (IF d = s.cycle THEN {e} ELSE {})
  BY SwapFacts DEF SwapSettles
<1>3. city' = Applied(city, s.cycle, e)
  BY DEF SwapSettles
<1>4. ASSUME s \in settled PROVE Sound(city') /\ EntriesMatchFacts'
  <2>1. e \in FactEntries(s.cycle)
    BY <1>4 DEF FactEntries
  <2>. HIDE DEF e
  <2>2. e \in city[s.cycle].entries
    BY <1>1, <2>1 DEF LedgerInv, EntriesMatchFacts
  <2>3. Counted(city, e)
    BY <1>1, <2>2 DEF Counted
  <2>4. city' = city
    BY <1>3, <2>3 DEF Applied
  <2>5. \A d \in Cycles : FactEntries(d)' = FactEntries(d)
    BY <1>2, <2>1
  <2>. QED
    BY <2>4, <2>5 DEF LedgerInv, Sound, EntriesMatchFacts
<1>5. ASSUME s \notin settled PROVE Sound(city') /\ EntriesMatchFacts'
  <2>1. ASSUME NEW d \in Cycles, NEW f \in FactEntries(d)
        PROVE  ~(f.op = e.op /\ f.key = e.key)
    <3>1. \A t \in settled : t.key # s.key
      BY <1>5, LedgerAssumption DEF LedgerInv, TypeOK
    <3>. QED
      BY <3>1, <1>1 DEF FactEntries, Entry
  <2>. HIDE DEF e
  <2>. QED
    BY <1>1, <1>2, <1>3, <2>1, FactBooked DEF EntriesMatchFacts
<1>6. Sound(city') /\ EntriesMatchFacts'
  BY <1>4, <1>5
<1>. QED
  BY <1>6, KeepsInv DEF LedgerInv, TypeOK, FactsTyped, SwapSettles

\* A closed cycle is burnt in its own row, and no other row changes.
LEMMA FinalizeStep ==
  ASSUME LedgerInv, NEW K \in SUBSET Cycles, FinalizeClosedMarkets(K)
  PROVE  LedgerInv'
<1>1. /\ Good(city) /\ Carried(city) /\ ~Ambiguous(city) /\ EntriesMatchFacts
      /\ city \in [Cycles -> Cycle]
      /\ \A c \in Cycles : IsFiniteSet(city[c].entries) /\ Rebuilt(city[c])
  BY DEF LedgerInv, Good
<1>2. \A c \in Cycles :
         city'[c] = IF c \in K /\ Closed(c) /\ city[c].energy # 0
                    THEN Applied(city, c, ClosingBurn(c))[c]
                    ELSE city[c]
  BY DEF FinalizeClosedMarkets
<1>3. city' \in [Cycles -> Cycle] <=> \A c \in Cycles : city'[c] \in Cycle
  BY DEF FinalizeClosedMarkets
<1>4. ASSUME NEW c \in Cycles
      PROVE  /\ city'[c] \in Cycle /\ IsFiniteSet(city'[c].entries) /\ Rebuilt(city'[c])
             /\ city'[c].opened = city[c].opened /\ city'[c].until = city[c].until
             /\ city'[c].carryover = city[c].carryover /\ Own(city'[c]) = Own(city[c])
             /\ {x \in city'[c].entries : x.op \in Facts}
                  = {x \in city[c].entries : x.op \in Facts}
  <2>. DEFINE b == ClosingBurn(c)
  <2>1. /\ b \in LedgerEntry /\ b.op \in Burns /\ b.op \notin Facts /\ b.budget = 0
    <3>1. city[c].energy \in Int
      BY <1>1 DEF Cycle
    <3>. QED
      BY <3>1 DEF ClosingBurn, Entry, LedgerEntry, Burns, Facts, Keys
  <2>. HIDE DEF b
  <2>2. CASE city'[c] = city[c]
    BY <1>1, <2>2
  <2>3. CASE city'[c] = Applied(city, c, b)[c]
    <3>1. CASE Counted(city, b)
      BY <1>1, <2>3, <3>1 DEF Applied
    <3>2. CASE ~Counted(city, b)
      <4>1. city'[c] = Booked(city[c], b)
        BY <1>1, <2>1, <2>3, <3>2 DEF Applied
      <4>2. b \notin city[c].entries
        BY <3>2 DEF Counted
      <4>3. Own(city[c]) \in Int
        BY <1>1 DEF Own, Cycle
      <4>. QED
        BY <1>1, <2>1, <4>1, <4>2, <4>3, BookedKeeps
    <3>. QED
      BY <3>1, <3>2
  <2>. QED
    BY <1>2, <2>2, <2>3 DEF b
<1>5. Good(city') /\ Alike(city, city')
  BY <1>3, <1>4 DEF Good, Alike
<1>6. Opened(city') = Opened(city)
  BY <1>4 DEF Opened
<1>7. \A c \in Cycles : Expected(city', c) = Expected(city, c)
  BY <1>4, <1>5, ExpectedSame
<1>8. Carried(city')
  BY <1>1, <1>4, <1>6, <1>7 DEF Carried, Opened
<1>9. Sound(city')
  BY <1>1, <1>5, <1>8, AlikeAmbiguous DEF Sound
<1>10. \A c \in Cycles : FactEntries(c)' = FactEntries(c)
  BY DEF FactEntries, FinalizeClosedMarkets
<1>11. EntriesMatchFacts'
  BY <1>1, <1>4, <1>10 DEF EntriesMatchFacts
<1>. QED
  BY <1>9, <1>11, KeepsInv DEF LedgerInv, TypeOK, FactsTyped, FinalizeClosedMarkets

\* Time and stuttering leave the ledger as it is.
LEMMA IdleStep ==
  ASSUME LedgerInv, UNCHANGED <<city, processed, settled, trades, settlements>>,
         now' \in 0..MaxTime
  PROVE  LedgerInv'
<1>1. \A c \in Cycles : FactEntries(c)' = FactEntries(c)
  BY DEF FactEntries
<1>2. Sound(city') /\ EntriesMatchFacts'
  BY <1>1 DEF LedgerInv, Sound, EntriesMatchFacts
<1>. QED
  BY <1>2, KeepsInv DEF LedgerInv, TypeOK, FactsTyped

\* No step breaks the invariant.
LEMMA LedgerStep == LedgerInv /\ [Next]_vars => LedgerInv'
<1>. SUFFICES ASSUME LedgerInv, [Next]_vars PROVE LedgerInv'
  OBVIOUS
<1>1. ASSUME NEW m \in Messages, Ingest(m) PROVE LedgerInv'
  BY <1>1, StatusStep, TransferStep, DemandStep, TradeStep, SettlementStep,
     RepeatedStep DEF Ingest
<1>2. ASSUME NEW s \in Swaps, SwapSettles(s) PROVE LedgerInv'
  BY <1>2, SwapStep
<1>3. ASSUME NEW K \in SUBSET Cycles, FinalizeClosedMarkets(K) PROVE LedgerInv'
  BY <1>3, FinalizeStep
<1>4. CASE Tick
  <2>1. now' \in 0..MaxTime
    BY <1>4, LedgerAssumption DEF Tick, LedgerInv, TypeOK
  <2>. QED
    BY <1>4, <2>1, IdleStep DEF Tick
<1>5. CASE UNCHANGED vars
  <2>1. now' \in 0..MaxTime
    BY <1>5 DEF vars, LedgerInv, TypeOK
  <2>. QED
    BY <1>5, <2>1, IdleStep DEF vars
<1>. QED
  BY <1>1, <1>2, <1>3, <1>4, <1>5 DEF Next

\* LedgerInv is an invariant of the ledger.
LEMMA LedgerAlways == Spec => []LedgerInv
BY LedgerInit, LedgerStep, PTL DEF Spec

\* Every state of the ledger is well formed: what the handlers of
\* internal_messages.py, trade_events.py and cycle_accounting.py write stays
\* in the types of the rows, and every cycle has finitely many entries.
THEOREM LedgerTypeCorrect == Spec => []TypeOK
<1>1. LedgerInv => TypeOK
  BY DEF LedgerInv
<1>. QED
  BY <1>1, LedgerAlways, PTL

\* validate_cycle_consistency (ledger.py:130) never finds a cycle whose balances
\* differ from its opening and its entries, whatever arrives in whatever order.
THEOREM LedgerConsistent == Spec => []BalancesRebuild
<1>1. LedgerInv => BalancesRebuild
  BY DEF LedgerInv, Good, BalancesRebuild
<1>. QED
  BY <1>1, LedgerAlways, PTL

\* synchronize_budget_carryover (budget_carryover.py:19) leaves no opened cycle
\* with more or less than what the cycle before it has.
THEOREM CarryoverCorrect == Spec => []CarryoverExact
<1>1. LedgerInv => CarryoverExact
  BY CarriedIsExact DEF LedgerInv
<1>. QED
  BY <1>1, LedgerAlways, PTL

\* apply_ledger_effect (ledger.py:9) books each stored fact once, in its cycle,
\* through whichever path the city learnt it.
THEOREM EveryFactBooked == Spec => []EntriesMatchFacts
<1>1. LedgerInv => EntriesMatchFacts
  BY DEF LedgerInv
<1>. QED
  BY <1>1, LedgerAlways, PTL

-----------------------------------------------------------------------------
(* What a settlement leaves.                                               *)

\* Only a settlement burns under its own key.
BurnsBacked == \A c \in Cycles : \A e \in city[c].entries :
  e.op = "IMBALANCE_BURN" => \E s \in settlements : s.key = e.key

\* An effect adds no entry but its own.
LEMMA OnlyItsEntry ==
  ASSUME LedgerInv, NEW c \in Cycles, NEW e \in LedgerEntry,
         NEW D, D = Applied(city, c, e), NEW d \in Cycles, NEW x \in D[d].entries
  PROVE  x \in city[d].entries \/ x = e
<1>1. Good(city) /\ Carried(city)
  BY DEF LedgerInv
<1>2. Counted(city, e) => D = city
  BY <1>1, AppliedKeeps
<1>3. ~Counted(city, e) => Added(city, D, c, e)
  BY <1>1, AppliedKeeps
<1>. QED
  BY <1>2, <1>3 DEF Added

\* The books that a settlement leaves: paid, then burnt under its key.
LEMMA SettlementBooks ==
  ASSUME LedgerInv, BurnsBacked, NEW m \in Messages, ImbalanceSettlement(m)
  PROVE  BurnsBacked' /\ city'[m.cycle].energy = 0
<1>. DEFINE e == Entry("IMBALANCE_SETTLEMENT", m.key, m.budget, 0)
            C == Applied(city, m.cycle, e)
            b == Burn(m, C[m.cycle].energy)
<1>1. /\ e \in LedgerEntry /\ e.op = "IMBALANCE_SETTLEMENT" /\ m.cycle \in Cycles
  BY MessageType DEF Facts, Entry, LedgerEntry
<1>2. /\ settlements' = settlements \cup {m} /\ \A s \in settlements : s.key # m.key
      /\ city' = IF C[m.cycle].energy # 0 THEN Applied(C, m.cycle, b) ELSE C
  BY DEF ImbalanceSettlement, AfterSettlement
<1>3. C = Applied(city, m.cycle, e)
  OBVIOUS
<1>. HIDE DEF e, C
<1>4. Good(C) /\ Carried(C)
  BY <1>1, <1>3, AppliedKeeps DEF LedgerInv
<1>5. C[m.cycle].energy \in Int
  BY <1>1, <1>4 DEF Good, Cycle
<1>6. /\ b \in LedgerEntry /\ b.op = "IMBALANCE_BURN" /\ b.key = m.key
      /\ b.energy = 0 - C[m.cycle].energy
  BY <1>5, MessageType DEF Burn, Burns, Entry, LedgerEntry
<1>. HIDE DEF b
<1>7. ASSUME NEW c \in Cycles, NEW x \in C[c].entries
      PROVE  x \in city[c].entries \/ x = e
  BY <1>1, <1>3, <1>7, OnlyItsEntry
<1>8. ~Counted(C, b)
  BY <1>1, <1>2, <1>6, <1>7 DEF Counted, BurnsBacked
<1>9. CASE C[m.cycle].energy = 0
  BY <1>1, <1>2, <1>7, <1>9 DEF BurnsBacked
<1>10. CASE C[m.cycle].energy # 0
  <2>1. city' = Applied(C, m.cycle, b)
    BY <1>2, <1>10
  <2>2. Added(C, city', m.cycle, b)
    BY <1>1, <1>4, <1>6, <1>8, <2>1, AppliedKeeps
  <2>3. city'[m.cycle].energy = C[m.cycle].energy + b.energy
    BY <1>1, <1>4, <1>6, <1>8, <2>1, AppliedKeeps
  <2>4. \A c \in Cycles : \A x \in city'[c].entries :
           x \in city[c].entries \/ x = e \/ x = b
    BY <1>7, <2>2 DEF Added
  <2>5. BurnsBacked'
    BY <1>1, <1>2, <1>6, <2>4 DEF BurnsBacked
  <2>. QED
    BY <1>5, <1>6, <2>3, <2>5
<1>. QED
  BY <1>9, <1>10

\* Every other action books what is no settlement's burn.
LEMMA OtherBooks ==
  ASSUME LedgerInv, BurnsBacked, [Next]_vars,
         \A m \in Messages : ~ImbalanceSettlement(m)
  PROVE  BurnsBacked' /\ settlements' = settlements
<1>1. ASSUME NEW c \in Cycles, NEW e \in LedgerEntry, e.op # "IMBALANCE_BURN",
             city' = Applied(city, c, e), settlements' = settlements
      PROVE  BurnsBacked'
  <2>1. \A d \in Cycles : \A x \in city'[d].entries : x \in city[d].entries \/ x = e
    BY <1>1, OnlyItsEntry
  <2>. QED
    BY <1>1, <2>1 DEF BurnsBacked
<1>2. ASSUME \A c \in Cycles : city'[c].entries = city[c].entries,
             settlements' = settlements
      PROVE  BurnsBacked'
  BY <1>2 DEF BurnsBacked
<1>3. ASSUME NEW m \in Messages, StatusStatement(m)
      PROVE  BurnsBacked' /\ settlements' = settlements
  BY <1>2, <1>3, StatusStep DEF StatusStatement
<1>4. ASSUME NEW m \in Messages, Transfer(m)
      PROVE  BurnsBacked' /\ settlements' = settlements
  <2>. DEFINE e == Entry("TRANSFER_IN", m.idpk, m.budget, 0)
  <2>1. e \in LedgerEntry /\ e.op # "IMBALANCE_BURN" /\ m.cycle \in Cycles
    BY MessageType DEF Facts, Entry, LedgerEntry
  <2>. QED
    BY <1>1, <1>4, <2>1 DEF Transfer
<1>5. ASSUME NEW m \in Messages, DemandStatement(m)
      PROVE  BurnsBacked' /\ settlements' = settlements
  <2>. DEFINE e == Entry("DEMAND_STATEMENT", m.idpk, m.budget, m.energy)
  <2>1. e \in LedgerEntry /\ e.op # "IMBALANCE_BURN" /\ m.cycle \in Cycles
    BY MessageType DEF Facts, Entry, LedgerEntry
  <2>. QED
    BY <1>1, <1>5, <2>1 DEF DemandStatement
<1>6. ASSUME NEW m \in Messages, TradeRecorded(m)
      PROVE  BurnsBacked' /\ settlements' = settlements
  <2>. DEFINE e == Entry("SWAP_TRANSPORT", m.key, m.budget, 0)
  <2>1. e \in LedgerEntry /\ e.op # "IMBALANCE_BURN" /\ m.cycle \in Cycles
    BY MessageType DEF Facts, Entry, LedgerEntry
  <2>2. settlements' = settlements
    BY <1>6 DEF TradeRecorded
  <2>3. city' = Applied(city, m.cycle, e) \/ city' = city
    BY <1>6 DEF TradeRecorded
  <2>. HIDE DEF e
  <2>. QED
    BY <1>1, <1>2, <2>1, <2>2, <2>3
<1>7. ASSUME NEW m \in Messages, FactRepeated(m)
      PROVE  BurnsBacked' /\ settlements' = settlements
  BY <1>2, <1>7 DEF FactRepeated
<1>8. ASSUME NEW s \in Swaps, SwapSettles(s)
      PROVE  BurnsBacked' /\ settlements' = settlements
  <2>. DEFINE e == Entry("SWAP_SETTLED", s.key, s.budget, s.energy)
  <2>1. e \in LedgerEntry /\ e.op # "IMBALANCE_BURN" /\ s.cycle \in Cycles
    BY LedgerAssumption DEF Facts, Entry, LedgerEntry, Keys
  <2>. QED
    BY <1>1, <1>8, <2>1 DEF SwapSettles
<1>9. ASSUME NEW K \in SUBSET Cycles, FinalizeClosedMarkets(K)
      PROVE  BurnsBacked' /\ settlements' = settlements
  <2>1. settlements' = settlements
    BY <1>9 DEF FinalizeClosedMarkets
  <2>2. ASSUME NEW c \in Cycles, NEW x \in city'[c].entries
        PROVE  x \in city[c].entries \/ x = ClosingBurn(c)
    <3>1. ClosingBurn(c) \in LedgerEntry
      <4>1. city[c].energy \in Int
        BY DEF LedgerInv, Good, Cycle
      <4>. QED
        BY <4>1 DEF ClosingBurn, Entry, LedgerEntry, Burns, Keys
    <3>2. city'[c] = city[c] \/ city'[c] = Applied(city, c, ClosingBurn(c))[c]
      BY <1>9 DEF FinalizeClosedMarkets
    <3>. QED
      BY <2>2, <3>1, <3>2, OnlyItsEntry
  <2>3. \A c \in Cycles : ClosingBurn(c).op # "IMBALANCE_BURN"
    BY DEF ClosingBurn, Entry
  <2>. QED
    BY <2>1, <2>2, <2>3 DEF BurnsBacked
<1>10. CASE Tick
  BY <1>2, <1>10 DEF Tick
<1>11. CASE UNCHANGED vars
  BY <1>2, <1>11 DEF vars
<1>. QED
  BY <1>3, <1>4, <1>5, <1>6, <1>7, <1>8, <1>9, <1>10, <1>11 DEF Next, Ingest

\* apply_imbalance_settlement (cycle_accounting.py:146) leaves the cycle without
\* energy: no earlier burn has used up its key.
THEOREM SettlementIsExact == Spec => SettlementExtinguishes
<1>1. Init => BurnsBacked
  BY DEF Init, BurnsBacked, Placeholder
<1>2. LedgerInv /\ BurnsBacked /\ [Next]_vars => BurnsBacked'
  BY SettlementBooks, OtherBooks
<1>3. LedgerInv /\ BurnsBacked /\ [Next]_vars
        => [\A m \in settlements' \ settlements : city'[m.cycle].energy = 0]_vars
  <2>. SUFFICES ASSUME LedgerInv, BurnsBacked, [Next]_vars,
                       NEW m \in settlements' \ settlements
                PROVE  city'[m.cycle].energy = 0
    OBVIOUS
  <2>1. PICK n \in Messages : ImbalanceSettlement(n)
    BY OtherBooks
  <2>2. m = n
    BY <2>1 DEF ImbalanceSettlement
  <2>. QED
    BY <2>1, <2>2, SettlementBooks
<1>. QED
  BY <1>1, <1>2, <1>3, LedgerAlways, PTL DEF Spec, SettlementExtinguishes
=============================================================================
