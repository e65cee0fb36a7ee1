SPECIFICATION Spec
CONSTANTS
  Configs <- SomeConfigs
  Window = 1
  Size <- Sizes
  MinChars = 8
  ImageChars = 4
  Descriptions = {"d1"}
  MaxEntries = 9
  MaxExtras = 3
CHECK_DEADLOCK FALSE
INVARIANTS RequestSound UncachedBounded
PROPERTIES CacheHolds FrozenPrefixKept
