SPECIFICATION Spec
CONSTANTS
  PerPage = 2
  MaxPages = 2
  Contents <- MCContents
  Queries = {"published", "receipt", "run"}
  MaxItems = 3
  MaxAttempts = 3
  MaxJobs = 3
  Pipes <- MCPipes
  Limit <- MCLimit
  Capacity = 2
  Timeout = 2
  MaxWritten = 4
  Lengths = {1, 2, 3}
  MaxArchive = 2
  MaxTime = 3
  Lifetime = 2
  Expiry = 3
  MaxFacts = 2
  MaxTries = 2
  Projects = {"governance", "project"}
  MaxCommits = 4
  MaxCiRuns = 2
  MaxPulls = 2
INVARIANTS
  AnswerWasTrue
  FoundIsNewest
  CompletedHasFinalJobs
  ResultIsWhole
  OutcomeIsTrue
  PublishedIsProduced
  EvidenceHolds
PROPERTIES
  CallEnds
CHECK_DEADLOCK FALSE
