\* Two admins, a reviewer and an applicant, two requests in flight.
SPECIFICATION Spec
CONSTANTS
  Applicants = {applicant}
  Admins = {admin1, admin2}
  Staff = {reviewer}
  TokenIds = {t1, t2}
  SessionIds = {s1, s2}
  Clients = {c1, c2}
  None = None
INVARIANTS
  TypeOK
  SessionsAreEarned
  EndedSessionsStayEnded
  AdminsRemain
  PendingKeepsLink
SYMMETRY Symmetry
CHECK_DEADLOCK FALSE
