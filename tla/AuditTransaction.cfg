\* An application and two accounts, two calls at once, one client-chosen id.
SPECIFICATION Spec
CONSTANTS
  Applications = {"a1"}
  Accounts = {"u1", "u2"}
  Calls = {"c1", "c2"}
  ClientIds = {"r1"}
  MaxEntries = 4
  MaxClockSteps = 1
  NoCall = NoCall
INVARIANTS
  TypeOK
  ChainFollowsCommits
  RequestsTakeEffectOnce
  MailsTellCommitted
PROPERTIES
  ImplementsTrail
  CallsEnd
CHECK_DEADLOCK FALSE
