CONSTANTS Ttl = 2
          MinRefresh = 1
          RefreshAt = 1
          Skew = 0
          DiskFails = TRUE
          MaxTime = 5
          MaxSessions = 1
          MaxGrants = 2
          MaxDecisions = 3
          MaxDeploys = 0
SPECIFICATION Spec
INVARIANT RevocationBoundedByTtl
PROPERTY NoSpuriousExpiry
CHECK_DEADLOCK FALSE
