SPECIFICATION FairRendezvousSpec
CONSTANTS
  i1 = i1
  i2 = i2
  None = None
  Ids <- MCIds
  Users <- MCOffers
  Offers <- MCOffers
CHECK_DEADLOCK FALSE
INVARIANTS
  DoneIsMutual
PROPERTIES
  OfferIsKept
  Meets
