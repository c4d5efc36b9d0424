SPECIFICATION Spec
CONSTANTS
  SVS = {"a", "b", "c"}
  NoSvs = "none"
  FlashPages = 3
  Boot <- SizesOfBoot
  Shipped <- AllButCShipped
  Images = {"big"}
  NoImage = "no image"
  Factory = "factory"
  Damaged = "damaged"
  Size <- Sizes
  Patchable <- PatchableImages
  MaxConnections = 2
INVARIANTS
  TypeOK
  PreviewHolds
  RawHasOwner
  Recoverable
  BootloaderIntact
  CheckHolds
PROPERTY
  KeepsPromise
