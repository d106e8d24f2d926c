\* Two writers commit the same lock_version.
SPECIFICATION Spec
CONSTANTS
  owner = owner
  rev1 = rev1
  appr = appr
  dual = dual
  plan = plan
  q1 = q1
  NoUser = NoUser
  NoApplication = NoApplication
  NoRequest = NoRequest
  Applications = {"a1"}
  Users = {owner, rev1, appr}
  RolesOf <- MCRolesOf
  FieldKeys = {"institution_name", "business_summary"}
  MandatoryKeys = {"institution_name"}
  FieldValues = {"", "x"}
  NoValue = ""
  CoreDocumentTypes = {plan}
  OtherDocumentTypes = {}
  Questions = {q1}
  InfoRequests <- MCInfoRequests
  Handlers = {"h1", "h2"}
  MaxLockVersion = 5
  MaxCycles = 1
  MaxVersions = 2
PROPERTY
  EachChangeTakesNextVersion
CHECK_DEADLOCK FALSE
