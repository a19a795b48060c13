SPECIFICATION DoorAndMediaSpec
CONSTANTS
  None = None
  MaxPasses = 2
  MaxBatch = 2
  MaxLimit = 1
  Sizes <- MCSizes
  DefaultSize = 1
  Named <- MCNamed
  Images <- MCImages
  PhotoShelves <- MCPhotoShelves
  VideoShelves <- MCVideoShelves
  FirstShelf = "ceremony"
  MaxLoads = 2
  MaxRedeems = 2
  MaxActs = 3
CHECK_DEADLOCK FALSE
INVARIANTS WholeShelves
PROPERTIES AcceptedOnce CompleteStays RedeemEnds UploadRunEnds
