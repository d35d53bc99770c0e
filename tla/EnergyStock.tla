---------------------------- MODULE EnergyStock -----------------------------
(***************************************************************************)
(* What the seller promises about the energy of one offer.  Energy is held *)
(* for a bid only if it fits beside all that is held or sold; what is held *)
(* is sold when the bid's deal is settled, and freed only once the deal is *)
(* dead; no deal is settled for energy that is not held.  Nothing is said  *)
(* of messages, attempts, workers or time.                                 *)
(***************************************************************************)
EXTENDS Energy

VARIABLES
  size,   \* KWH offered, 0 before the offer exists
  fate,   \* the energy of each bid: none, held, sold or freed
  deal    \* the deal of each bid: open, settled or dead

stockVars == <<size, fate, deal>>

Taken == {b \in Bids : fate[b] \in {"held", "sold"}}

StockInit ==
  /\ size = 0
  /\ fate = [b \in Bids |-> "none"] /\ deal = [b \in Bids |-> "open"]

Offer ==
  /\ size = 0 /\ size' \in Nat \ {0}
  /\ UNCHANGED <<fate, deal>>

\* A lot of bids is held at once.
Hold(S) ==
  /\ \A b \in S : fate[b] = "none"
  /\ Kwh(Taken \cup S) <= size
  /\ fate' = [b \in Bids |-> IF b \in S THEN "held" ELSE fate[b]]
  /\ UNCHANGED <<size, deal>>

Sell(b) ==
  /\ fate[b] = "held" /\ deal[b] = "settled"
  /\ fate' = [fate EXCEPT ![b] = "sold"]
  /\ UNCHANGED <<size, deal>>

Free(b) ==
  /\ fate[b] = "held" /\ deal[b] = "dead"
  /\ fate' = [fate EXCEPT ![b] = "freed"]
  /\ UNCHANGED <<size, deal>>

Conclude(b) ==
  /\ fate[b] = "held" /\ deal[b] = "open"
  /\ \E d \in {"settled", "dead"} : deal' = [deal EXCEPT ![b] = d]
  /\ UNCHANGED <<size, fate>>

StockNext ==
  \/ Offer
  \/ \E S \in SUBSET Bids : Hold(S)
  \/ \E b \in Bids : Sell(b) \/ Free(b) \/ Conclude(b)

StockSpec == StockInit /\ [][StockNext]_stockVars
=============================================================================
