CONSTANTS
  Id <- MCId
  Plain = ""
  NoSubckt = NoSubckt
  Decks <- MCDecks
  MaxLexRows = 4
  MaxBlockRows = 6
SPECIFICATION FairSpec
INVARIANTS TypeOK LogicalLinesClean WordsKept OutcomeJustified
  OrderListsDefs CardsGoToTheirBlock
PROPERTIES NoCardDropped Terminates
CHECK_DEADLOCK FALSE
