CONSTANTS
  Venues = {0, 1}
  Shards = {0, 1}
  Symbols = {"A", "B"}
  ShardFor <- MCShardFor
  ExchangeTs <- MCExchangeTs
  ShardCapacity = 1
  MaxEvents = 2
  MaxNumbers = 3
SPECIFICATION FairSpec
INVARIANTS GapsAreRefusals SymbolOrderKept ReaggregatedIsMerge
PROPERTY FinalizeReturns
