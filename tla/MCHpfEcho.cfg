\* One change by the user, every call answered in time.
CONSTANTS
  None = None
  Frequencies = {0, 1}
  Offsets = {0, 1}
  Modes = {0, 2}
  MaxChanges = 1
  MaxTimeouts = 0
SPECIFICATION Spec
PROPERTY
  HpfSettles
\* The program exits.
CHECK_DEADLOCK FALSE
