CONSTANTS
  Size = 4
  Keys = {0, 1, 2, 3}
  Hash <- MCHash
  Symbols = {"SYMB"}
  Prices = {1, 2}
  OrderCapacities = {2, 3}
  Feed = "Full"
  Qtys = {1, 2}
  MaxFaults <- OneFaultInSmallPool
  Sides = {"Buy", "Sell"}
SPECIFICATION ParitySpec
INVARIANTS SnapshotsAgree MirrorsExchange BookIntact
CHECK_DEADLOCK FALSE
