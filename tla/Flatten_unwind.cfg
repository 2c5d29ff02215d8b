CONSTANTS Symbols = {1}
          NumSlices = 3
          DurationSecs = 3
          StaggerSecs = 0
          Lot = 2
          U64 = 65536
          U32 = 256
          MaxPosition = 8
          MaxLag = 2
SPECIFICATION FairSpec
INVARIANT TypeOK
PROPERTY NeverFlips EventuallySmall
CHECK_DEADLOCK FALSE
