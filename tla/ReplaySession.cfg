SPECIFICATION Spec
CONSTANTS
  Texts <- MCTexts
  Has <- MCHas
  HexGroups = {}
  Versions = {}
  Rank <- MCRank
  PrefixOf <- MCPrefixOf
  Trimmed <- MCTrimmed
  Clipped <- MCClipped
  Global = "_global"
  NoValue = NoValue
  NoHeader = NoHeader
  Inside <- MCInside
  Length <- MCLength
  IdField <- MCIdField
  NoId = NoId
  Routes <- MCRoutes
  Asked <- MCAsked
  Exchanges <- MCExchanges
  CreatedMocks <- MCCreatedMocks
  Oversize <- MCOversize
  Swaps = TRUE
  MaxLearned = 3
  NoAnswer = NoAnswer
  NoLength = NoLength
INVARIANTS TypeOK ReplaysEquivalent SwapTraceable CreatedIsReadable
CHECK_DEADLOCK FALSE
