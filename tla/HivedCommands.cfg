\* One command, or one tour of all pages, while another client writes.
CONSTANTS
  Nil = Nil
  User = User
  Other = Other
  Callers <- MCCallers
  Texts <- MCTexts
  Rests <- MCRests
  Jobs <- MCJobs
  Requests <- MCRequests
  NewerRows <- MCNewerRows
  DefaultPageSize = 2
  MaxPageSize = 2
  BatchLimit = 1
  Stored <- MCStored
  MaxVersion = 5
  MaxRequests = 3
  MaxLines = 3
SPECIFICATION Spec
CHECK_DEADLOCK FALSE
INVARIANTS
  ApiTypeOK
  PagesComplete
  ReportsWhatHappened
  StreamSkipsNothing
