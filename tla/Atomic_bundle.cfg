CONSTANTS Prices = {8, 13, 15}
          StrategyPrices = {8}
          Tick = 4
          Timeout = 2
          MaxEmits = 3
SPECIFICATION FairBundleSpec
INVARIANT BundleTypeOK
PROPERTY CompletedWasLive
PROPERTY BundleSettles
