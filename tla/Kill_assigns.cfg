CONSTANTS Buys = {b1}
          Sells = {s1}
          Stops = {}
          Sor = FALSE
          Sources = {"news"}
          MaxErrors = 1
          MaxMessageRate = 1
          MaxInv = 1
          MaxLag = 1
          MaxRestarts = 0
SPECIFICATION FairSpec
PROPERTY OnlyEscalates
CHECK_DEADLOCK FALSE
