------------------------------ MODULE Strategy ------------------------------
(***************************************************************************)
(* The versioned strategy of the city (AD6) beside its ledger: the operator *)
(* edits it at any moment, and every cycle is bound to one version in the  *)
(* transaction of its status-statement, whenever and in whatever order the *)
(* statements arrive.                                                      *)
(*                                                                         *)
(* Edits and statements hold the city's advisory lock to their commit      *)
(* (strategy_config.py:97, strategy_config.py:127), so each is one step.   *)
(* An edit that names an old version, or bad values, is refused and changes *)
(* nothing.  The parameters of a version are left out: none ever changes.  *)
(***************************************************************************)
EXTENDS CityLedger, Sequences

CONSTANTS
  OpensAt,      \* market.opensAt of each status-statement; 0: it has none
  MaxVersions   \* bound of the versions

ASSUME StrategyAssumption == OpensAt \in [Messages -> Nat] /\ MaxVersions \in Nat

VARIABLES
  strategies,  \* StrategyConfig rows, by version
  bound        \* Cycle.strategy_version (0: none), and the opening it was chosen for

strategyVars == <<strategies, bound>>

\* "from" is effective_from_cycle_id.
StrategyConfig == [status: {"PENDING", "ACTIVE", "ARCHIVED"}, created: Nat,
                   from: Cycles \cup {"none"}]
Unbound == [version |-> 0, opens |-> 0]

\* Types of the versions and of the bindings.
StrategyTypeOK ==
  /\ strategies \in Seq(StrategyConfig)
  /\ bound \in [Cycles -> [version: 0..Len(strategies), opens: Nat]]

StrategyInit == strategies = <<>> /\ bound = [c \in Cycles |-> Unbound]

\* _ensure_initial_strategy: the first version is in force at once.
WithInitial(S) ==
  IF S = <<>> THEN <<[status |-> "ACTIVE", created |-> now, from |-> "none"]>> ELSE S

\* create_pending_strategy.
EditStrategy ==
  /\ Len(strategies) < MaxVersions
  /\ strategies' = Append(WithInitial(strategies),
                          [status |-> "PENDING", created |-> now, from |-> "none"])
  /\ UNCHANGED <<bound, vars>>

\* Mutant: a cycle takes the last edit, although its market was open by then.
NewestOf(S, opens, v) == \A w \in DOMAIN S : w <= v

\* The last version made before the market opened, or the first of all.
ChosenOf(S, opens, v) ==
  IF \E w \in DOMAIN S : S[w].created <= opens
  THEN S[v].created <= opens /\ \A w \in DOMAIN S : S[w].created <= opens => w <= v
  ELSE v = 1

\* A pending version that a cycle takes is in force from it on, unless a newer
\* one already is; everything before it is history.
Activated(S, v, c) ==
  IF S[v].status # "PENDING" \/ \E a \in DOMAIN S : S[a].status = "ACTIVE" /\ a >= v
  THEN S
  ELSE [w \in DOMAIN S |->
          IF w = v THEN [S[w] EXCEPT !.status = "ACTIVE", !.from = c]
          ELSE IF S[w].status = "ACTIVE" \/ (S[w].status = "PENDING" /\ w < v)
          THEN [S[w] EXCEPT !.status = "ARCHIVED"]
          ELSE S[w]]

\* bind_strategy_to_cycle, for a market that opens then.
BindStrategy(c, opens) ==
  IF bound[c].version # 0 THEN UNCHANGED strategyVars
  ELSE LET S == WithInitial(strategies)
       IN \E v \in DOMAIN S :
            /\ ChosenOf(S, opens, v)
            /\ strategies' = Activated(S, v, c)
            /\ bound' = [bound EXCEPT ![c] = [version |-> v, opens |-> opens]]

\* Cycle.market_opens_at, which only a statement sets, or the present time.
Opening(m) == IF OpensAt[m] = 0 THEN now ELSE OpensAt[m]

\* The whole of a status-statement; the other messages bind nothing.
IngestBound(m) ==
  /\ Ingest(m)
  /\ IF m.type = "status-statement" THEN BindStrategy(m.cycle, Opening(m))
                                    ELSE UNCHANGED strategyVars

StrategyNext ==
  \/ EditStrategy
  \/ \E m \in Messages : IngestBound(m)
  \/ Next /\ processed' = processed /\ UNCHANGED strategyVars

StrategySpec ==
  Init /\ StrategyInit /\ [][StrategyNext]_<<vars, strategyVars>> /\ Fairness

-----------------------------------------------------------------------------
(* Properties.                                                             *)

\* What a is to the versions when it is the one in force.
InForce(a) ==
  /\ strategies[a].status = "ACTIVE"
  /\ \A v \in DOMAIN strategies : /\ v < a => strategies[v].status = "ARCHIVED"
                                  /\ v > a => strategies[v].status = "PENDING"
  /\ \A c \in Cycles : bound[c].version <= a
  /\ a = 1 \/ \E c \in Cycles : strategies[a].from = c /\ bound[c].version = a

\* An edit never reaches a cycle whose market was open when it was made, also
\* if the statement of that cycle comes late, after those of later cycles; and
\* a late statement never takes the city back: one version is in force, which
\* is the newest that any cycle uses, all before it are history and all after
\* it still wait (strategy_config.bind_strategy_to_cycle).
EditsWaitForAnOpening ==
  /\ \A c \in Cycles : bound[c].version > 1 =>
       strategies[bound[c].version].created <= bound[c].opens
  /\ strategies # <<>> => \E a \in DOMAIN strategies : InForce(a)
=============================================================================
