SPECIFICATION Spec
CONSTANTS
  Requests <- MCRequests
  Replies <- MCReplies
  Report <- MCReport
  Chunk = 12
  Window = 2
  MaxSent = 3
  MaxReports = 1
INVARIANTS
  FramingTypeOK
  NothingInvented
  StubSurvives
  NothingLost
PROPERTIES
  AllProcessed
  CallsReturn
CHECK_DEADLOCK FALSE
