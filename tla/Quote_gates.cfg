CONSTANTS MaxSeq = 2
          Ceiling = 3
          MaxEvents = 2
          MaxFaults = 1
SPECIFICATION FairSpec
INVARIANT TypeOK TrustedIsInSync QuotesInSync DelistedStaysDown
PROPERTY BreachHaltsNextQuote QuotingResumes TrippedDrains
