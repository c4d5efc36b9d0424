SPECIFICATION FairSpec
CONSTANTS
  SVS = {"a", "b"}
  NoSvs = "none"
  FlashPages = 3
  Boot <- KindsOfBoot
  Shipped <- NoneShipped
  Images = {"big", "odd"}
  NoImage = "no image"
  Factory = "factory"
  Damaged = "damaged"
  Size <- Sizes
  Patchable <- PatchableImages
  MaxConnections = 1
PROPERTY
  TaskEnds
