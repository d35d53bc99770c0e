CONSTANTS
  Cities <- MCCities
  Self = "OWN"
  Scripts <- MCScripts
  MaxFaults = 2
  Bids = {1, 2}
  MinBid = 1
  Plans <- MCPlans
SPECIFICATION MCSpec
INVARIANTS BuyerTypeOK BookIsCurrent PurchaseBooked NeverOverbuys BuyerInv
PROPERTIES AcceptanceEnds
CHECK_DEADLOCK FALSE
