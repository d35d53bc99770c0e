------------------------------- MODULE MCBuyer -------------------------------
(***************************************************************************)
(* Instances of MarketFeed and BuyerSwap for TLC: cycles in which nothing  *)
(* is bought, for the feed with its faults; and cycles in which the feed   *)
(* has brought the offers before the first bid.                            *)
(***************************************************************************)
EXTENDS BuyerSwap

MCCities == {"OWN", "ABC", "XYZ"}

-----------------------------------------------------------------------------
\* A message of the feed, from a city or from the central.
Said(type, city, id, left) ==
  [mail |-> [form |-> "ok", type |-> type, idpk |-> id, body |-> id, sameIds |-> FALSE,
             user |-> city, sender |-> IF city = "none" THEN "central" ELSE "none",
             city |-> city, zoned |-> TRUE, cycle |-> "valid", data |-> TRUE,
             good |-> IF city = "none" THEN {} ELSE FeedFields(type), bad |-> {},
             reason |-> "none"],
   offer |-> city, left |-> left]

ABCOffers == Said("offer", "ABC", "a1", 2)
ABCUpdates == Said("offer-updated", "ABC", "a2", 1)
ABCWithdraws == Said("offer-withdrawn", "ABC", "a3", 0)
XYZOffers == Said("offer", "XYZ", "x1", 1)
Closes == Said("market-closed", "none", "c1", 0)

\* XYZ speaks for ABC; ABC publishes another offer.
Forged == [ABCUpdates EXCEPT !.mail.user = "XYZ", !.mail.idpk = "x2"]
Another == [Said("offer", "ABC", "a4", 1) EXCEPT !.offer = "ABC2"]

MCScripts == {
  <<XYZOffers, ABCOffers>>,
  <<ABCOffers, ABCUpdates, ABCUpdates, ABCWithdraws>>,
  <<ABCOffers, Forged, ABCUpdates, Closes>>,
  <<ABCOffers, ABCUpdates, Another, XYZOffers>>}

-----------------------------------------------------------------------------
\* Nothing; one bid by hand, with all that can happen to it; and a deficit of
\* two, which one or two autonomous bids cover.
Course(deficit, manual, tries, heard) ==
  [deficit |-> deficit, manual |-> manual, tries |-> tries, heard |-> heard]
MCPlans == {Course(0, 0, 0, {}), Course(0, 1, 2, WalletFacts), Course(2, 0, 1, {})}

Feeding == plan.deficit = 0 /\ plan.manual = 0
Alone == plan.deficit = 0 /\ plan.manual > 0
Informed == said = Len(script) /\ line = <<>> /\ known

MCInit ==
  /\ FeedInit /\ BuyerInit
  /\ ~Feeding => script = <<XYZOffers, ABCOffers>> /\ known

MCNext ==
  \/ Feeding /\ FeedNext /\ UNCHANGED buyerVars
  \/ Feeding /\ Tick /\ UNCHANGED feedVars
  \/ ~Feeding /\ ~Informed /\ (Publish \/ FeedPersisted) /\ UNCHANGED buyerVars
  \/ ~Feeding /\ Informed /\ BuyerNext /\ UNCHANGED feedVars

MCSpec ==
  /\ MCInit /\ [][MCNext]_<<feedVars, buyerVars>>
  /\ WF_feedVars(Publish) /\ WF_feedVars(FeedPersisted)
  /\ BuyerFairness
=============================================================================
