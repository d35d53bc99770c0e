CONSTANTS
  b1 = b1
  b2 = b2
  b3 = b3
  b4 = b4
  w1 = w1
  w2 = w2
  Bids <- OneBid
  NoBid = NoBid
  Qty <- OneUnit
  MaxQty = 1
  Rank <- MCRank
  Unfit = {}
  OfferSizes = {1}
  Policies = {"FIFO"}
  Workers = {w1}
  MaxAttempts = 2
  VisibilityLag = TRUE
SPECIFICATION SweepSpec
PROPERTIES SweepResolves
CHECK_DEADLOCK FALSE
