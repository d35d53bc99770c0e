CONSTANTS
  b1 = b1
  b2 = b2
  b3 = b3
  b4 = b4
  w1 = w1
  w2 = w2
  Bids <- TwoBids
  NoBid = NoBid
  Qty <- MCQty
  MaxQty = 2
  Rank <- MCRank
  Unfit = {}
  OfferSizes = {2, 3}
  Policies = {"FIFO", "MAX_REMAINING"}
  Workers = {w1, w2}
  MaxAttempts = 1
  VisibilityLag = FALSE
SPECIFICATION Spec
CONSTRAINT Prompt
INVARIANTS OneReply
PROPERTIES ImplementsEnergyStock
CHECK_DEADLOCK FALSE
