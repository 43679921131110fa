\* One connection with the code's own limits, under two bridge goroutines that
\* connect, disconnect and log out as they like.
SPECIFICATION FairSpec
CONSTANTS
  MaxConns = 1
  MaxResyncs = 3
  MaxRefused = 2
  Callers = {k1, k2}
INVARIANTS TypeOK LoggedOutStaysOut EndIsReported
PROPERTIES CancelledEnds
