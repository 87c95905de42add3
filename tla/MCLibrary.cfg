\* One component at a time, with its client.
SPECIFICATION LibrarySpec
CONSTANTS
  k1 = k1
  k2 = k2
  k3 = k3
  Free = Free
  HlFree = HlFree
  Null = Null
  Raw = Raw
  Gone = Gone
  End = End
  Junk = Junk
  Unused = Unused
  Owners = {p1, p2}
  Watchers = {w1, w2}
  PointerBlocks = {1, 2, 3}
  FunctionNames = {p1, p2}
  Small = {1, 2}
  Large = {3, 4}
  TargetBlocks = {1, 2, 3}
  Threads = {f1, f2}
  Pushes = {1, 2, 3}
  Buffers = {0, 2}
  Chars = {1, 2}
  Sso = 4
  Pieces <- MCPieces
  Lengths = {1, 5}
  MaxLength = 5
  MaxBlock = 16
  VectorValues = {0, 1}
  VectorDefault = 0
  VectorRanges <- MCVectorRanges
  VectorSizes = {0, 3}
  VectorMost = 3
  VectorMostOther = 1
  ScalarWidth = 2
  ByteBase = 3
  StreamItems <- MCStreamItems
  StreamMost = 3
  HlKeys = {1, 2, 3, 4}
  HlValues = {0, 1}
  HlHome <- MCHlHome
  HlHighTags = {2, 4}
  HlGroupSizes = {2, 32}
  HlScanBlock = 16
  HlFirst <- MCHlFirst
  HlOthers <- MCHlOthers
  HlCounts = {0, 9}
  HlBuckets = 32
  HlMost = 4
  ChKeys <- MCKeys
  ChValues = {0, 1}
  ChBackground <- MCBackground
  ChHash <- MCHash
  ChInitials <- MCInitials
  ChRanges <- MCRanges
  ChSizes = {0, 9}
  ChBuckets = 32
  ChMost = 3
VIEW LibraryView
INVARIANTS
  HashmapCallsAgree
  HlmapProbesUnbroken
  HlmapCallsAgree
  NodesIntact
  NodeListCallsAgree
  VectorElementsAlive
  VectorCallsAgree
  StringsTerminated
  StringCallsAgree
  OwnershipExact
  ListenersSound
  BuffersFreedOnce
  StreamsReadBack
PROPERTY
  TablesImplementMap
