--------------------------- MODULE MCSellerMarket ---------------------------
(* Instances of SellerMarket for TLC.                                      *)
EXTENDS SellerMarket

CONSTANTS b1, b2, b3, b4, w1, w2

\* One, two or four bids; the second arrives first and asks for more.
OneBid == {b1}
TwoBids == {b1, b2}
FourBids == {b1, b2, b3, b4}
OneUnit == [b \in Bids |-> 1]
MCQty == [b \in Bids |-> IF b = b2 THEN 2 ELSE 1]
LotQty == [b \in Bids |-> IF b = b1 THEN 2 ELSE IF b = b3 THEN 3 ELSE 1]
MCRank == [b \in Bids |-> IF b = b2 THEN 0 ELSE IF b = b1 THEN 1
                         ELSE IF b = b3 THEN 2 ELSE 3]

\* Bound of the runs about the shared stock: proposals are answered once and
\* in time, so that two bids and every offer, bid and wallet step fit.
Prompt ==
  /\ \A b \in Bids : /\ deadline[b] # "passed"
                     /\ swap[b].attempts = 1 /\ ~swap[b].lease => swap[b].accepted
  /\ \A w \in Workers : task[w].answer \in {"none", "accepted"}
=============================================================================
