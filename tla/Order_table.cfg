CONSTANTS Ids = {o1, o2, o3, o4}
          Sides = {"buy"}
          Prices = {1, 2}
          MaxQty = 2
          Sizes = {2}
          MaxLevels = 2
          Eps = 1
          Batch = TRUE
          MaxLeft = 0
          MaxFaults = 1
          MaxEvents = 1
          MaxMoves = 2
SPECIFICATION FairSpec
INVARIANT TypeOK IndexSound FaultFreeIsExact
PROPERTY ImplementsOrderSets WantedGetsQuoted
