SPECIFICATION FairSpec
CONSTANTS
  Requests <- MCRequests
  Tables <- MCTables
  Teams <- MCTeams
  MaxResends = 1
  Can <- MCCan
  Grants <- MCGrants
  Owners = {"ann"}
  Sources = {"s1"}
  Sees <- MCSees
  None = None
CHECK_DEADLOCK FALSE
INVARIANTS
  OncePerKey
  GraphIsAcyclic
  ConfirmationsAreEarned
  CommittedIsReadable
  SignalsAreMerged
PROPERTIES
  Answered
