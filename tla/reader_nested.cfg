CONSTANTS
  Id <- MCId
  Plain = ""
  NoSubckt = NoSubckt
  Decks <- MCDecks
  MaxLexRows = 0
  MaxBlockRows = 4
SPECIFICATION Spec
INVARIANT EverySubcktClosed
CHECK_DEADLOCK FALSE
