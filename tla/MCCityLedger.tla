---------------------------- MODULE MCCityLedger ----------------------------
(* Instances of CityLedger for TLC.                                        *)
EXTENDS CityLedger

Msg(type, idpk, cycle, key, role, budget, energy, until, closes) ==
  [type |-> type, idpk |-> idpk, cycle |-> cycle, key |-> key, role |-> role,
   budget |-> budget, energy |-> energy, until |-> until, closes |-> closes]
Status(idpk, cycle, energy, until, closes) ==
  Msg("status-statement", idpk, cycle, idpk, "", 0, energy, until, closes)
Fund(idpk, cycle, budget) == Msg("transfer", idpk, cycle, idpk, "", budget, 0, 0, 0)
Demand(idpk, cycle, budget, energy) ==
  Msg("demand-statement", idpk, cycle, idpk, "", budget, energy, 0, 0)
Trade(idpk, cycle, swap, role, budget) ==
  Msg("trade-recorded", idpk, cycle, swap, role, budget, 0, 0, 0)
Settle(idpk, cycle, key, budget) ==
  Msg("imbalance-settlement", idpk, cycle, key, "", budget, 0, 0, 0)
Swap(key, cycle, budget, energy) ==
  [key |-> key, cycle |-> cycle, budget |-> budget, energy |-> energy]

\* Three cycles.  The first is stated again, later and with less energy; the
\* third may be stated with the deadline that the first one has until then.
\* A transfer and a demand have the same idpk, one settlement comes again in a
\* new envelope, and one trade contradicts another.
MCCycles == {"c1", "c2", "c3"}
MCMessages == {
  Status("i1", "c1", 2, 1, 1), Status("i2", "c1", 1, 3, 2),
  Status("i3", "c2", -1, 2, 1), Status("i4", "c3", 0, 1, 1),
  Fund("i5", "c2", 3), Demand("i5", "c1", -1, 1),
  Trade("i7", "c2", "s2", "BUYER", -1), Trade("i8", "c2", "s2", "SELLER", -1),
  Settle("i9", "c1", "k1", 1), Settle("i10", "c1", "k1", 1),
  Settle("i11", "c1", "k2", -1)}
MCSwaps == {Swap("s1", "c1", 2, -1), Swap("s2", "c2", -2, 1)}

\* One cycle, one swap, and no settlement yet.
OneCycle == {"c1"}
OneStatement == {Status("i1", "c1", 2, 1, 1)}
OneSwap == {Swap("s1", "c1", 2, -1)}
=============================================================================
