SPECIFICATION Spec
CONSTANTS
  Ics = {c1, c2}
  Pids = {p1, p2}
  AutoRestart = {FALSE, TRUE}
  MaxFaults = 2
  MaxInbox = 1
  MaxRequests = 1
INVARIANTS BooksAgree OneHelper NoneLeft
PROPERTY Restarted
CHECK_DEADLOCK FALSE
