CONSTANTS Trades <- OneTrade
          Wallet0 = 2
          Tol = 1
          AutoModes = {FALSE}
          MaxFills = 1
          MaxLost = 0
          MaxFails = 0
          MaxCrashes = 1
SPECIFICATION Spec
INVARIANT CarriedPositionFlagged
