\* Two processes share the cache file of a server with five variables; the
\* device is configured without a map file or with one of five, and with or
\* without a cache file.
SPECIFICATION Spec
CONSTANTS
  Processes = {p1, p2}
  Objects <- MCObjects
  Variables <- MCVariables
  Root <- MCRoot
  Refs <- MCRefs
  Attr <- MCAttr
  MapFiles <- MCMapFiles
INVARIANTS
  StartTypeOK
  CacheWhole
  CatalogueFaithful
  CompleteIfAnswered
  DeathNeedsRefusal
PROPERTIES
  StartEnds
