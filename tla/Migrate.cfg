\* Every combination of the rows of MCMigrate, two runs with any options, and a
\* bare user row before or between them.  It ends when the runs are used up.
SPECIFICATION Spec
CONSTANTS
  Sources <- MCSources
  Users = {Ann, Bob}
  Ann = Ann
  Bob = Bob
  None = None
  MaxRuns = 2
  MaxBare = 1
INVARIANTS
  NothingLostSilently
  SourceAlwaysFits
PROPERTIES AllOrNothing
CHECK_DEADLOCK FALSE
