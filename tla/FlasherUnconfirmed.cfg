SPECIFICATION Spec
CONSTANTS
  SVS = {"b", "c"}
  NoSvs = "none"
  FlashPages = 3
  Boot <- SizesOfBoot
  Shipped <- AllButCShipped
  Images = {"big"}
  NoImage = "no image"
  Factory = "factory"
  Damaged = "damaged"
  Size <- Sizes
  Patchable <- PatchableImages
  MaxConnections = 2
PROPERTY
  OnlyConfirmedVectors
