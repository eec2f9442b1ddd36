\* Two clients, three lines, with and without splitting; connections may be reset.
CONSTANTS
  Clients = {c1, c2}
  Lines <- MCLines
  MaxLines = 3
SPECIFICATION LSpec
INVARIANTS LTypeOK NothingLost
PROPERTIES InStep Answered
CHECK_DEADLOCK FALSE
