\* A polled and a subscribed accessor of an array with two elements, three
\* stamps and a map with room for two.  Sizes wrap at six.
SPECIFICATION TransfersSpec
CONSTANTS
  Readers = {r1, r2}
  Subscribed = {r2}
  MaxSize = 2
  MaxStamp = 3
  ArrayLength = 2
  SizeLimit = 6
  MaxWords = 2
  Elements = {x, y}
  NoData = NoData
INVARIANTS
  VersionsTypeOK
  VersionsDistinct
  NewestAgreed
  AgreedBelowLimit
  TransfersTypeOK
PROPERTIES
  OthersKept
SYMMETRY Exchange
CHECK_DEADLOCK FALSE
