----------------------------- MODULE MCStrategy -----------------------------
(***************************************************************************)
(* Instances of Strategy for TLC, in two courses: the ledger with all of   *)
(* its messages and no edit, whose versions are left out; and the statements *)
(* of the same cycles among edits.                                         *)
(***************************************************************************)
EXTENDS MCCityLedger, Strategy

VARIABLE course

\* The second cycle's statement does not say when its market opens.
MCOpensAt == [m \in MCMessages |-> CASE m.idpk = "i1" -> 1 [] m.idpk = "i2" -> 2
                                     [] m.idpk = "i4" -> 1 [] OTHER -> 0]

MCInit == Init /\ StrategyInit /\ course \in {"ledger", "edits"}

MCNext ==
  /\ UNCHANGED course
  /\ \/ /\ course = "ledger" /\ Next /\ now' <= 1
        /\ UNCHANGED strategyVars
     \/ course = "edits" /\ EditStrategy
     \/ /\ course = "edits"
        /\ \E m \in Messages : m.type = "status-statement" /\ IngestBound(m)
     \/ course = "edits" /\ Tick /\ UNCHANGED strategyVars
     \/ /\ course = "edits"
        /\ \E K \in SUBSET Cycles : FinalizeClosedMarkets(K)
        /\ UNCHANGED strategyVars

MCSpec == MCInit /\ [][MCNext]_<<vars, strategyVars, course>> /\ Fairness
=============================================================================
