CONSTANTS
  Cities <- MCCities
  Self = "OWN"
  Mails <- MCMails
  MaxFaults = 2
  Limit <- MCLimit
  Minute = 2
  LastBidAt = 3
  LastOfferAt = 5
  ClosesAt = 6
  Orders <- MCOrders
  MaxLosses = 2
  Books <- MCBooks
  Spare = 3
  MaxPosts = 2
  MaxSaid = 3
SPECIFICATION MCSpec
INVARIANTS ConsumerTypeOK OutboxTypeOK NegotiationTypeOK OneOutcome SettledIsAccounted SpeakersAreAuthentic
  MarketInOrder PublishedIsOnWire DealsSettledOnce ProposesWhileOpen
PROPERTIES EveryDeliveryEnds NoneForgotten NegotiationEnds
CHECK_DEADLOCK FALSE
