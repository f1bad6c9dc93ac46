SPECIFICATION FairSpec
CONSTANTS
  Cases = {"caseA"}
  Releases = {"a1"}
  CaseOf <- MCCaseOf
  Workers = {"w1", "w2"}
  Crashing = {"w2"}
  Slow = {"w2"}
  Disputed = {"caseA"}
  Flaky = {"a1"}
  Delayed = {"a1"}
  MaxAttempts = 2
  None = None
CHECK_DEADLOCK FALSE
INVARIANTS
  ClosedIsAnswered
  UnknownNeverCounts
  SampledWithItsRow
PROPERTIES
  ImplementsReply
  RepliesSettle
