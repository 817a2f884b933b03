SPECIFICATION FairSpec
CONSTANTS
  memorykings = memorykings
  necs = necs
  cyc = cyc
  sercoplus = sercoplus
  Stores <- MCStores
  Hosts <- MCHosts
  HomeOf <- MCHomeOf
  Shows <- MCShows
  Priority <- MCPriority
  Seeds <- MCSeeds
  MaxSeeds = 2
  Workers = {w1, w2}
  Mortal = {w2}
  NoImage = NoImage
INVARIANTS CanonicalIsKnown
PROPERTIES BestImageStays
