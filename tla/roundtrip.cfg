CONSTANTS
  Id <- MCId
  Plain = ""
  NoSubckt = NoSubckt
  Decks <- MCDecks
  Built <- MCNames
  Spelt <- MCSpelt
  MaxRows = 4
  MaxWords = 6
  MaxPromotions = 2
SPECIFICATION RTSpec
INVARIANTS RereadKeepsCounts CardWordsKept RereadKeepsNetlist
PROPERTY RereadSucceeds
CHECK_DEADLOCK FALSE
