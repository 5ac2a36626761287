\* A user who changes a setting, on a connection that may be slow or break.  At start-up every
\* setting is posted, so one change is enough to have an old and a new command of one name on
\* their way; after one timeout every later answer is late by one.
CONSTANTS
  None = None
  Frequencies = {0, 1}
  Offsets = {0, 1}
  Modes = {0, 2}
  MaxChanges = 1
  MaxTimeouts = 1
SPECIFICATION Spec
INVARIANTS
  TypeOK
  AnswersLag
  PollsGetStates
  SettledTwinAgrees
PROPERTIES
  AgcIsSent
  QuitEnds
\* The program exits.
CHECK_DEADLOCK FALSE
