\* Two clients behind one address, two requests at once, up to two faults.
SPECIFICATION Spec
CONSTANTS
  Emails = {"known", "other"}
  Addresses = {"office"}
  Slots = {"s1", "s2"}
  MAX_LOGIN_ATTEMPTS_PER_WINDOW = 2
  MaxFaults = 2
  NoAttempt = NoAttempt
INVARIANTS
  TypeOK
  AttemptsBounded
  EveryCounterExpires
PROPERTIES
  LockoutEndsWithoutFaults
CHECK_DEADLOCK FALSE
