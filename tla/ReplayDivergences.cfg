SPECIFICATION Spec
CONSTANTS
  Texts <- MCTexts
  Has <- MCHas
  HexGroups = {}
  Versions = {}
  Rank <- MCRank
  PrefixOf <- MCPrefixOf
  Trimmed <- MCTrimmed
  Clipped <- MCClipped
  Global = "_global"
  NoValue = NoValue
  NoHeader = NoHeader
  Inside <- MCInside
  Length <- MCLength
  IdField <- MCIdField
  NoId = NoId
  Routes <- MCRoutes
  Asked <- MCOddAsked
  Exchanges <- MCOddExchanges
  CreatedMocks <- MCCreatedMocks
  Oversize = {}
  Swaps = TRUE
  MaxLearned = 2
  NoAnswer = NoAnswer
  NoLength = NoLength
INVARIANTS CreatedMockIsFound SwapLeavesNoStaleId TextTraceable ReplayedVerbatim LengthAgrees PassthroughPure
CHECK_DEADLOCK FALSE
