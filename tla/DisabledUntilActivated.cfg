\* A password setup token outlives the account's activation.
SPECIFICATION Spec
CONSTANTS
  Applicants = {applicant}
  Admins = {admin1, admin2}
  Staff = {reviewer}
  TokenIds = {t1, t2}
  SessionIds = {s1, s2}
  Clients = {c1, c2}
  None = None
PROPERTIES
  DisabledUntilActivated
SYMMETRY Symmetry
CHECK_DEADLOCK FALSE
