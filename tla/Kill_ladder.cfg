CONSTANTS Buys = {b1}
          Sells = {s1}
          Stops = {b1}
          Sor = TRUE
          Sources = {"news", "sentiment", "funding_arb", "stat_arb", "client", "graph"}
          MaxErrors = 2
          MaxMessageRate = 1
          MaxInv = 1
          MaxLag = 1
          MaxRestarts = 1
SPECIFICATION FairSpec
INVARIANT TypeOK
PROPERTY KillStopsQuoting KillHolds FlattenAfterCancel KilledDrains
CHECK_DEADLOCK FALSE
