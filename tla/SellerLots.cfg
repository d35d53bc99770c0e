CONSTANTS
  b1 = b1
  b2 = b2
  b3 = b3
  b4 = b4
  w1 = w1
  w2 = w2
  Bids <- FourBids
  NoBid = NoBid
  Qty <- LotQty
  MaxQty = 3
  Rank <- MCRank
  Unfit = {b4}
  OfferSizes = {3, 4}
  Policies = {"FIFO", "BATCH", "MAX_REMAINING"}
  Workers = {}
  MaxAttempts = 1
  VisibilityLag = FALSE
SPECIFICATION Spec
PROPERTIES LotIsMaximal BatchServesMost
CHECK_DEADLOCK FALSE
