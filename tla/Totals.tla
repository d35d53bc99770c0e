------------------------------- MODULE Totals -------------------------------
(***************************************************************************)
(* Sums of integers.  Credits and debits are counted one unit at a time,   *)
(* as sizes of sets, so that a sum needs no recursion and can be reasoned  *)
(* about for every instance.                                               *)
(***************************************************************************)
EXTENDS Integers, FiniteSets

\* One element for each unit that f gives to a point of its domain.
Units(f) == UNION {{x} \X (1..f[x]) : x \in DOMAIN f}

Opposite(f) == [x \in DOMAIN f |-> 0 - f[x]]

\* The sum of f over its domain.
Total(f) == Cardinality(Units(f)) - Cardinality(Units(Opposite(f)))
=============================================================================
