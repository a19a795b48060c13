CONSTANTS
  Households = {"a"}
  Guests = {"a1"}
  PartyOf <- OneGuest
  Devices = {"d1"}
  Replies <- RenamingReplies
  Capacities = {1}
  Policies = {"disabled", "manual", "automatic"}
  MaxKeys = 3
  MaxEdits = 2
SPECIFICATION FairRsvpSpec
INVARIANTS ActivePassIsExpected SavedOnce AutomaticPassComes
PROPERTY SubmissionEnds
CHECK_DEADLOCK FALSE
