\* Two readers, two writes one after the other and a fault.
SPECIFICATION Spec
CONSTANTS
  Views = {"APPLICANT:all"}
  Readers = {"r1", "r2"}
  Writers = {"w1"}
  SubmittedAt = 1
  ReviewedAt = {2}
  RequestedAt = {2}
  MaxWrites = 2
  MaxFaults = 1
  None = None
INVARIANTS
  TypeOK
  StaleOnlyIfLate
  DraftsStayPrivate
  DetailsCarryTheirRequest
PROPERTIES
  ListKeepsItsCount
  StalenessEnds
CHECK_DEADLOCK FALSE
