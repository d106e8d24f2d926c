\* Three concurrent uploads of two types and one fault.
SPECIFICATION Spec
CONSTANTS
  Uploads = {"u1", "u2", "u3"}
  DocumentTypes = {"BUSINESS_PLAN", "SUPPORTING_DOCUMENT"}
  MaxFaults = 1
  None = None
INVARIANTS
  TypeOK
  VersionsChain
  FilesMatchVersions
  AcknowledgedUploadsKept
  ListedCountCoversLatest
PROPERTIES
  UploadsAnswered
  ImplementsArchive
CHECK_DEADLOCK FALSE
