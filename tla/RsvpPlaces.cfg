CONSTANTS
  Households <- TwoHouseholds
  Guests <- ThreeGuests
  PartyOf <- ThreeParties
  Devices = {"d1", "d2"}
  Replies <- PlainReplies
  Capacities = {1, 2}
  Policies = {"disabled"}
  MaxKeys = 2
  MaxEdits = 2
SPECIFICATION LastPlaceSpec
INVARIANTS PlacesHold
CHECK_DEADLOCK FALSE
