------------------------------- MODULE Energy -------------------------------
(***************************************************************************)
(* Bids and the KWH they ask for.  A sum of quantities is counted one KWH  *)
(* at a time, as the size of a set, so that it needs no recursion.         *)
(***************************************************************************)
EXTENDS Naturals, FiniteSets

CONSTANTS
  Bids,     \* bids of other cities for the local offer
  Qty,      \* KWH asked by each bid
  MaxQty    \* bound on the KWH of one bid

ASSUME BidsAssumption ==
  /\ IsFiniteSet(Bids)
  /\ MaxQty \in Nat /\ Qty \in [Bids -> 1..MaxQty]

Units(S) == {u \in Bids \X (1..MaxQty) : u[1] \in S /\ u[2] <= Qty[u[1]]}

\* SUM(quantity) over the bids of S.
Kwh(S) == Cardinality(Units(S))
=============================================================================
