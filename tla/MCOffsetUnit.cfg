\* The model of MCControlPath.cfg without a timeout: the OSD offset of a user who chooses one.
CONSTANTS
  None = None
  Frequencies = {0, 1}
  Offsets = {0, 1}
  Modes = {0, 2}
  MaxChanges = 1
  MaxTimeouts = 0
SPECIFICATION Spec
INVARIANT
  OffsetArrives
\* The program exits.
CHECK_DEADLOCK FALSE
