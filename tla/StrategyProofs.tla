--------------------------- MODULE StrategyProofs ---------------------------
(***************************************************************************)
(* The versions of the strategy, for every set of cycles, every script of  *)
(* statements and every number of edits.                                   *)
(***************************************************************************)
EXTENDS Strategy, CityLedgerProofs

\* A step of the city is a step of its ledger, or leaves the ledger alone.
LEMMA CityStep == [StrategyNext]_<<vars, strategyVars>> => [Next]_vars
BY DEF StrategyNext, EditStrategy, IngestBound, Next, strategyVars

\* What is proved of the ledger holds of the city with its strategies.
THEOREM StrategyKeepsLedger == StrategySpec => Spec
BY CityStep, PTL DEF StrategySpec, Spec

-----------------------------------------------------------------------------
(* The versions.                                                           *)

\* The invariant of the versions S and of what the cycles are bound to.
Versioned(S, B) ==
  /\ S \in Seq(StrategyConfig)
  /\ B \in [Cycles -> [version: 0..Len(S), opens: Nat]]
  /\ \A c \in Cycles : B[c].version > 1 => S[B[c].version].created <= B[c].opens

\* The version a is in force.
Leads(S, B, a) ==
  /\ S[a].status = "ACTIVE"
  /\ \A v \in 1..Len(S) : /\ v < a => S[v].status = "ARCHIVED"
                          /\ v > a => S[v].status = "PENDING"
  /\ \A c \in Cycles : B[c].version <= a
  /\ a = 1 \/ \E c \in Cycles : S[a].from = c /\ B[c].version = a

\* There always are versions with one in force after _ensure_initial_strategy.
LEMMA InitialVersion ==
  ASSUME now \in Nat, Versioned(strategies, bound),
         strategies # <<>> => \E a \in 1..Len(strategies) : Leads(strategies, bound, a)
  PROVE  /\ Versioned(WithInitial(strategies), bound)
         /\ \E a \in 1..Len(WithInitial(strategies)) : Leads(WithInitial(strategies), bound, a)
         /\ Len(WithInitial(strategies)) > 0
<1>1. CASE strategies # <<>>
  BY <1>1 DEF WithInitial, Versioned
<1>2. CASE strategies = <<>>
  <2>. DEFINE r == [status |-> "ACTIVE", created |-> now, from |-> "none"]
  <2>1. WithInitial(strategies) = <<r>> /\ r \in StrategyConfig /\ r.status = "ACTIVE"
    BY <1>2 DEF WithInitial, StrategyConfig
  <2>. HIDE DEF r
  <2>2. <<r>> \in Seq(StrategyConfig) /\ Len(<<r>>) = 1 /\ <<r>>[1] = r
    BY <2>1
  <2>3. \A c \in Cycles : bound[c].version = 0 /\ bound[c].opens \in Nat
    BY <1>2 DEF Versioned
  <2>4. bound \in [Cycles -> [version: 0..1, opens: Nat]]
    BY <1>2 DEF Versioned
  <2>5. Versioned(<<r>>, bound)
    BY <2>2, <2>3, <2>4 DEF Versioned
  <2>6. Leads(<<r>>, bound, 1)
    BY <2>1, <2>2, <2>3 DEF Leads
  <2>. QED
    BY <2>1, <2>2, <2>5, <2>6
<1>. QED
  BY <1>1, <1>2

\* An edit waits behind all other versions.
LEMMA EditKeeps ==
  ASSUME NEW S, NEW B, Versioned(S, B), NEW a \in 1..Len(S), Leads(S, B, a), NEW t \in Nat
  PROVE  LET T == Append(S, [status |-> "PENDING", created |-> t, from |-> "none"])
         IN  Versioned(T, B) /\ a \in 1..Len(T) /\ Leads(T, B, a)
<1>. DEFINE r == [status |-> "PENDING", created |-> t, from |-> "none"]
            T == Append(S, r)
<1>1. r \in StrategyConfig /\ r.status = "PENDING"
  BY DEF StrategyConfig
<1>. HIDE DEF r
<1>2. /\ T \in Seq(StrategyConfig) /\ Len(T) = Len(S) + 1 /\ Len(S) \in Nat
      /\ \A v \in 1..Len(S) : T[v] = S[v]
      /\ T[Len(S) + 1] = r
  BY <1>1 DEF Versioned
<1>. HIDE DEF T
<1>3. Versioned(T, B)
  BY <1>2 DEF Versioned
<1>4. Leads(T, B, a)
  BY <1>1, <1>2 DEF Leads
<1>. QED
  BY <1>2, <1>3, <1>4 DEF T, r

\* What Activated makes of the version w when it activates v.
Rebound(S, v, c, w) ==
  IF w = v THEN [S[w] EXCEPT !.status = "ACTIVE", !.from = c]
  ELSE IF S[w].status = "ACTIVE" \/ (S[w].status = "PENDING" /\ w < v)
  THEN [S[w] EXCEPT !.status = "ARCHIVED"]
  ELSE S[w]

\* It stays a version, of the same time; older ones are history, newer ones wait.
LEMMA ReboundIs ==
  ASSUME NEW S, NEW v \in Nat, NEW c \in Cycles, NEW w \in Nat, S[w] \in StrategyConfig,
         w > v => S[w].status = "PENDING"
  PROVE  /\ Rebound(S, v, c, w) \in StrategyConfig
         /\ Rebound(S, v, c, w).created = S[w].created
         /\ w = v => Rebound(S, v, c, w).status = "ACTIVE" /\ Rebound(S, v, c, w).from = c
         /\ w < v => Rebound(S, v, c, w).status = "ARCHIVED"
         /\ w > v => Rebound(S, v, c, w).status = "PENDING"
<1>1. S[w].status \in {"PENDING", "ACTIVE", "ARCHIVED"}
  BY DEF StrategyConfig
<1>2. CASE w = v
  <2>. DEFINE r == [S[w] EXCEPT !.status = "ACTIVE", !.from = c]
  <2>1. r \in StrategyConfig /\ r.created = S[w].created /\ r.status = "ACTIVE" /\ r.from = c
    BY DEF StrategyConfig
  <2>2. Rebound(S, v, c, w) = r
    BY <1>2 DEF Rebound
  <2>. HIDE DEF r
  <2>. QED
    BY <1>2, <2>1, <2>2
<1>3. CASE w < v
  BY <1>1, <1>3 DEF Rebound, StrategyConfig
<1>4. CASE w > v
  BY <1>1, <1>4 DEF Rebound, StrategyConfig
<1>5. w = v \/ w < v \/ w > v
  OBVIOUS
<1>. QED
  BY <1>2, <1>3, <1>4, <1>5, Zenon

\* A cycle takes a version that is in force, that was, or that now is.
LEMMA BindKeeps ==
  ASSUME NEW S, NEW B, Versioned(S, B), NEW a \in 1..Len(S), Leads(S, B, a),
         NEW c \in Cycles, NEW opens \in Nat, B[c].version = 0,
         NEW v \in DOMAIN S, ChosenOf(S, opens, v)
  PROVE  LET T == Activated(S, v, c)
             D == [B EXCEPT ![c] = [version |-> v, opens |-> opens]]
         IN  Versioned(T, D) /\ \E b \in 1..Len(T) : Leads(T, D, b)
<1>. DEFINE T == Activated(S, v, c)
            D == [B EXCEPT ![c] = [version |-> v, opens |-> opens]]
<1>0. Len(S) \in Nat /\ DOMAIN S = 1..Len(S) /\ \A w \in 1..Len(S) : S[w] \in StrategyConfig
  BY DEF Versioned
<1>1. /\ D \in [Cycles -> [version: 0..Len(S), opens: Nat]]
      /\ D[c].version = v /\ D[c].opens = opens
      /\ \A d \in Cycles \ {c} : D[d] = B[d]
  BY <1>0 DEF Versioned
<1>2. v > 1 => S[v].created <= opens
  BY DEF ChosenOf
<1>3. CASE v <= a
  <2>1. T = S
    BY <1>0, <1>3 DEF Leads, Activated
  <2>2. Versioned(S, D)
    BY <1>1, <1>2 DEF Versioned
  <2>3. Leads(S, D, a)
    <3>1. \A d \in Cycles : D[d].version <= a
      BY <1>1, <1>3 DEF Leads
    <3>2. a = 1 \/ \E d \in Cycles : S[a].from = d /\ D[d].version = a
      BY <1>0, <1>1 DEF Leads
    <3>. QED
      BY <3>1, <3>2 DEF Leads
  <2>. QED
    BY <2>1, <2>2, <2>3
<1>4. CASE v > a
  <2>1. S[v].status = "PENDING" /\ \A w \in 1..Len(S) : S[w].status = "ACTIVE" => w < v
    BY <1>0, <1>4 DEF Leads
  <2>2. T = [w \in 1..Len(S) |-> Rebound(S, v, c, w)]
    <3>1. Activated(S, v, c) = [w \in DOMAIN S |-> Rebound(S, v, c, w)]
      <4>1. ~(S[v].status # "PENDING" \/ \E x \in DOMAIN S : S[x].status = "ACTIVE" /\ x >= v)
        BY <1>0, <2>1
      <4>. QED
        BY <4>1, Zenon DEF Activated, Rebound
    <3>. QED
      BY <1>0, <3>1
  <2>. HIDE DEF T, D
  <2>3. DOMAIN T = 1..Len(S) /\ T = [w \in DOMAIN T |-> T[w]]
    BY <2>2
  <2>4. \A w \in 1..Len(S) : T[w] = Rebound(S, v, c, w)
    BY <2>2
  <2>5. ASSUME NEW w \in 1..Len(S)
        PROVE  /\ T[w] \in StrategyConfig /\ T[w].created = S[w].created
               /\ w = v => T[w].status = "ACTIVE" /\ T[w].from = c
               /\ w < v => T[w].status = "ARCHIVED"
               /\ w > v => T[w].status = "PENDING"
    <3>1. S[w].status = "PENDING" \/ w <= a
      BY <1>0 DEF Leads
    <3>2. w > v => S[w].status = "PENDING"
      BY <1>0, <1>4, <3>1
    <3>3. S[w] \in StrategyConfig /\ v \in Nat /\ w \in Nat
      BY <1>0
    <3>. QED
      BY <2>4, <3>2, <3>3, ReboundIs
  <2>6. T \in Seq(StrategyConfig) /\ Len(T) = Len(S)
    BY <1>0, <2>3, <2>4, <2>5
  <2>7. Versioned(T, D)
    <3>1. ASSUME NEW d \in Cycles, D[d].version > 1
          PROVE  T[D[d].version].created <= D[d].opens
      <4>1. D[d].version \in 1..Len(S)
        BY <1>0, <1>1, <3>1
      <4>2. S[D[d].version].created <= D[d].opens
        BY <1>1, <1>2, <3>1 DEF Versioned
      <4>. QED
        BY <2>5, <4>1, <4>2
    <3>. QED
      BY <1>1, <2>6, <3>1 DEF Versioned
  <2>8. Leads(T, D, v)
    <3>1. ASSUME NEW d \in Cycles PROVE D[d].version <= v
      <4>1. CASE d = c
        BY <1>0, <1>1, <4>1
      <4>2. CASE d # c
        <5>1. B[d].version \in 0..Len(S) /\ B[d].version <= a /\ D[d] = B[d]
          BY <1>1, <4>2 DEF Leads, Versioned
        <5>. QED
          BY <1>0, <1>4, <5>1
      <4>. QED
        BY <4>1, <4>2
    <3>2. T[v].status = "ACTIVE" /\ T[v].from = c
      BY <1>0, <2>5
    <3>. QED
      BY <1>1, <2>5, <2>6, <3>1, <3>2 DEF Leads
  <2>. QED
    BY <1>0, <2>6, <2>7, <2>8 DEF T, D
<1>5. v <= a \/ v > a
  BY <1>0
<1>. HIDE DEF T, D
<1>. QED
  BY <1>3, <1>4, <1>5 DEF T, D

-----------------------------------------------------------------------------
(* The steps of the city.                                                  *)

StrategyInv ==
  /\ Versioned(strategies, bound)
  /\ strategies # <<>> => \E a \in 1..Len(strategies) : Leads(strategies, bound, a)

LEMMA StrategyStarts == StrategyInit => StrategyInv
BY DEF StrategyInit, StrategyInv, Versioned, Unbound

\* An edit adds the first version too, when there is none yet.
LEMMA EditStep == StrategyInv /\ now \in Nat /\ EditStrategy => StrategyInv'
<1>. SUFFICES ASSUME StrategyInv, now \in Nat, EditStrategy PROVE StrategyInv'
  OBVIOUS
<1>. DEFINE S == WithInitial(strategies)
            T == Append(S, [status |-> "PENDING", created |-> now, from |-> "none"])
<1>1. Versioned(S, bound) /\ \E a \in 1..Len(S) : Leads(S, bound, a)
  BY InitialVersion DEF StrategyInv
<1>2. strategies' = T /\ bound' = bound
  BY DEF EditStrategy
<1>. HIDE DEF S
<1>3. PICK a \in 1..Len(S) : Leads(S, bound, a)
  BY <1>1
<1>4. Versioned(T, bound) /\ a \in 1..Len(T) /\ Leads(T, bound, a)
  BY <1>1, <1>3, EditKeeps
<1>. HIDE DEF T
<1>5. Versioned(strategies', bound') /\ \E b \in 1..Len(strategies') : Leads(strategies', bound', b)
  BY <1>2, <1>4
<1>. QED
  BY <1>5 DEF StrategyInv, Versioned, Leads

\* The statement of a cycle that is bound changes nothing.
LEMMA BindStep ==
  ASSUME NEW c \in Cycles, NEW opens \in Nat, StrategyInv, now \in Nat, BindStrategy(c, opens)
  PROVE  StrategyInv'
<1>1. CASE bound[c].version # 0
  BY <1>1 DEF BindStrategy, strategyVars, StrategyInv, Versioned, Leads
<1>2. CASE bound[c].version = 0
  <2>. DEFINE S == WithInitial(strategies)
  <2>1. Versioned(S, bound) /\ \E a \in 1..Len(S) : Leads(S, bound, a)
    BY InitialVersion DEF StrategyInv
  <2>2. PICK v \in DOMAIN S :
          /\ ChosenOf(S, opens, v)
          /\ strategies' = Activated(S, v, c)
          /\ bound' = [bound EXCEPT ![c] = [version |-> v, opens |-> opens]]
    BY <1>2, Zenon DEF BindStrategy
  <2>. HIDE DEF S
  <2>3. PICK a \in 1..Len(S) : Leads(S, bound, a)
    BY <2>1
  <2>. DEFINE T == Activated(S, v, c)
              D == [bound EXCEPT ![c] = [version |-> v, opens |-> opens]]
  <2>4. Versioned(T, D) /\ \E b \in 1..Len(T) : Leads(T, D, b)
    BY <1>2, <2>1, <2>2, <2>3, BindKeeps
  <2>. HIDE DEF T, D
  <2>5. strategies' = T /\ bound' = D
    BY <2>2 DEF T, D
  <2>6. /\ Versioned(strategies', bound')
        /\ \E b \in 1..Len(strategies') : Leads(strategies', bound', b)
    BY <2>4, <2>5
  <2>. QED
    BY <2>6 DEF StrategyInv, Versioned, Leads
<1>. QED
  BY <1>1, <1>2

LEMMA StrategyStep ==
  TypeOK /\ StrategyInv /\ [StrategyNext]_<<vars, strategyVars>> => StrategyInv'
<1>. SUFFICES ASSUME TypeOK, StrategyInv, [StrategyNext]_<<vars, strategyVars>>
              PROVE  StrategyInv'
  OBVIOUS
<1>1. now \in Nat
  BY LedgerAssumption DEF TypeOK
<1>2. CASE EditStrategy
  BY <1>1, <1>2, EditStep
<1>3. ASSUME NEW m \in Messages, IngestBound(m) PROVE StrategyInv'
  <2>1. CASE m.type = "status-statement"
    <3>1. Opening(m) \in Nat /\ m.cycle \in Cycles
      BY <1>1, StrategyAssumption, LedgerAssumption DEF Opening
    <3>2. BindStrategy(m.cycle, Opening(m))
      BY <1>3, <2>1 DEF IngestBound
    <3>. QED
      BY <1>1, <3>1, <3>2, BindStep
  <2>2. CASE m.type # "status-statement"
    BY <1>3, <2>2 DEF IngestBound, strategyVars, StrategyInv, Versioned, Leads
  <2>. QED
    BY <2>1, <2>2
<1>4. CASE UNCHANGED strategyVars
  BY <1>4 DEF strategyVars, StrategyInv, Versioned, Leads
<1>. QED
  BY <1>2, <1>3, <1>4 DEF StrategyNext

LEMMA StrategyInvariant == StrategySpec => []StrategyInv
<1>1. StrategySpec => []TypeOK
  BY StrategyKeepsLedger, LedgerTypeCorrect, PTL
<1>2. StrategySpec => StrategyInit /\ [][StrategyNext]_<<vars, strategyVars>>
  BY PTL DEF StrategySpec
<1>. QED
  BY <1>1, <1>2, StrategyStarts, StrategyStep, PTL

\* The versions stay of their type, and no cycle is bound to one there is not.
THEOREM StrategyTypeCorrect == StrategySpec => []StrategyTypeOK
<1>1. StrategyInv => StrategyTypeOK
  BY DEF StrategyInv, Versioned, StrategyTypeOK
<1>. QED
  BY <1>1, StrategyInvariant, PTL

\* An edit waits for the next opening, whatever the order of the statements,
\* and one version is in force (strategy_config.bind_strategy_to_cycle).
THEOREM EditsWait == StrategySpec => []EditsWaitForAnOpening
<1>1. StrategyInv => EditsWaitForAnOpening
  <2>. SUFFICES ASSUME StrategyInv PROVE EditsWaitForAnOpening
    OBVIOUS
  <2>1. DOMAIN strategies = 1..Len(strategies)
    BY DEF StrategyInv, Versioned
  <2>2. \A a \in 1..Len(strategies) : Leads(strategies, bound, a) => InForce(a)
    BY <2>1 DEF Leads, InForce
  <2>3. strategies # <<>> => \E a \in DOMAIN strategies : InForce(a)
    BY <2>1, <2>2 DEF StrategyInv
  <2>4. \A c \in Cycles : bound[c].version > 1 =>
          strategies[bound[c].version].created <= bound[c].opens
    BY DEF StrategyInv, Versioned
  <2>. QED
    BY <2>3, <2>4 DEF EditsWaitForAnOpening
<1>. QED
  BY <1>1, StrategyInvariant, PTL
=============================================================================
