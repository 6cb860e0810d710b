\* Two requests of three users of two organizations, two of them asking alike,
\* with one action to approve, two iterations of one tool call each.
CONSTANTS
  a1 = a1
  ann = ann
  bob = bob
  eve = eve
  askA = askA
  askB = askB
  askE = askE
  r1 = r1
  r2 = r2
  None = None
  Requests = {r1, r2}
  Users <- MCUsers
  Orgs <- MCOrgs
  OrgOf <- MCOrgOf
  Asks <- MCAsks
  Similar <- MCSimilar
  Actions = {a1}
  QueueOf <- MCQueueOf
  MaxIterations = 2
  MaxCalls = 1
  TTL = 1
  Patience = 1
  MaxClock = 4
SPECIFICATION Spec
SYMMETRY Symmetry
CHECK_DEADLOCK FALSE
INVARIANTS
  ClaimsAreOwnAndRecent
  RepliesFollowQuestions
  
