\* Two Matrix changes of any kind, each sent up to twice, among up to three
\* changes on Google Chat, and a reconnect with a drain from any point.  It
\* ends when the log is full.
SPECIFICATION Spec
CONSTANTS
  Calls = {c1,c2}
  MaxIssues = 2
  MaxLog = 4
  MaxReconnects = 1
INVARIANTS TypeOK EditsConverge OtherChangesConverge
PROPERTIES EditsGoForward
CHECK_DEADLOCK FALSE
