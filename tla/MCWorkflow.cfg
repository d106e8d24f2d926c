\* One application through two review cycles, one applicant request in flight.
SPECIFICATION Spec
CONSTANTS
  owner = owner
  rev1 = rev1
  appr = appr
  dual = dual
  plan = plan
  q1 = q1
  NoUser = NoUser
  NoApplication = NoApplication
  NoRequest = NoRequest
  Applications = {"a1"}
  Users = {owner, rev1, appr, dual}
  RolesOf <- MCRolesOf
  FieldKeys = {"institution_name", "business_summary"}
  MandatoryKeys = {"institution_name"}
  FieldValues = {"", "x", "y"}
  NoValue = ""
  CoreDocumentTypes = {plan}
  OtherDocumentTypes = {}
  Questions = {q1}
  InfoRequests <- MCInfoRequests
  Handlers = {"h1"}
  MaxLockVersion = 8
  MaxCycles = 2
  MaxVersions = 2
INVARIANTS
  TypeOK
  ReviewsMatchState
  OutcomesMatchState
  DecisionIsIndependent
  AuditExplainsState
  AnsweredRequestsDelivered
PROPERTIES
  HistoryIsKept
  ImplementsLifecycle
CHECK_DEADLOCK FALSE
