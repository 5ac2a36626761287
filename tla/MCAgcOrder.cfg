\* The model of MCControlPath.cfg without any change by the user.
CONSTANTS
  None = None
  Frequencies = {0, 1}
  Offsets = {0, 1}
  Modes = {0, 2}
  MaxChanges = 0
  MaxTimeouts = 1
SPECIFICATION Spec
INVARIANT
  SettledAgcAgrees
\* The program exits.
CHECK_DEADLOCK FALSE
