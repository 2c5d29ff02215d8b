CONSTANTS NumSlices = 2
          MultNum = 1
          MultDen = 2
          Lot = 2
          Opening <- MCOpening
          Tilts <- MCTilts
          Strays <- MCStrays
          MaxLag = 2
SPECIFICATION FairSpec
INVARIANT TypeOK
INVARIANT OvershootBounded
PROPERTY DoneMeansUnwound
PROPERTY PrimaryUnwinds
