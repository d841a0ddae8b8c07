SPECIFICATION Spec
CONSTANTS
  v1 = v1
  v2 = v2
  alice = alice
  bob = bob
  right = right
  wrong = wrong
  VMs <- MCVMs
  Tasks = {}
  Nobody = Nobody
  GoRequests = 4
  GoRoom = 5
  Candidates <- MCCandidates
  Passwords <- MCPasswords
  NoHeader = NoHeader
  ShortHeader = ShortHeader
INVARIANTS
  AnswersShowStorage
  OnlyAuthenticated
  StaysAuthenticated
PROPERTY EveryRequestAnswered
