SPECIFICATION FairSpec
CONSTANTS
  CardsPerBlock = 2
  MaxHeaderBlocks = 3
  NoAttribute = NoAttribute
  BadReference = BadReference
  MaxXml = 9
  Files <- MCFiles
  Units <- MCUnits
  Numerals <- MCNumerals
  Triplets <- MCTriplets
INVARIANTS
  FitsHeaderIsTheFiles
  XisfHeaderIsTheFiles
  RawHeaderIsTheFiles
  ReadsStayInTheHeader
  FrameTypeHasEvidence
  ProfileFillsGaps
PROPERTY
  EveryReadEnds
CHECK_DEADLOCK FALSE
