CONSTANTS
  VenueSlots = {0, 1}
  BidQuotes <- MCBidQuotes
  AskQuotes <- MCAskQuotes
  Times = {1, 2}
  BufferRows = 2
  MaxEvents = 3
SPECIFICATION Spec
INVARIANTS NbboIsBestOfBooks ServedIsChangeLog QueryAnswersAsOf
CHECK_DEADLOCK FALSE
