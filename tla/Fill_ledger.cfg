CONSTANTS Trades <- MCTrades
          Wallet0 = 2
          Tol = 1
          AutoModes = {TRUE, FALSE}
          MaxFills = 3
          MaxLost = 2
          MaxFails = 1
          MaxCrashes = 1
SPECIFICATION FairSpec
INVARIANT TypeOK Conserved PnlIsCashFlow LossesSurface
PROPERTY DriftHeals
