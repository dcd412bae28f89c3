SPECIFICATION FairSpec
CONSTANTS
  NumCases = 5
  Reusable = {2}
  Source = "cm"
  CmJobs = 2
  Jobs = 2
  MetadataJobs = 1
  MaxAttempts = 2
  MinFailures = 2
  Consecutive = 2
  MinCompleted = 3
  MaxMetricsJobs = 5
  MetricsLimit = 1
  MetadataLimit = 1
  CaseLimit = 4
  Answers = {"ok", "5xx", "refused"}
  AnalysisResults = {"ok", "failed"}
  MaxRaises = 1
INVARIANTS TypeOK FailureBudget EveryCaseAnswered SkippedNeverRun FailureMatchesOutcome NothingLeftRunning
PROPERTIES BatchEnds
