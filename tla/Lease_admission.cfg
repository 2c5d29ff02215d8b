CONSTANTS Ttl = 2
          MinRefresh = 1
          RefreshAt = 1
          Skew = 0
          DiskFails = FALSE
          MaxTime = 1
          MaxSessions = 2
          MaxGrants = 1
          MaxDecisions = 2
          MaxDeploys = 1
SPECIFICATION Spec
INVARIANT TypeOK
PROPERTY ImplementsAuthority
CHECK_DEADLOCK FALSE
