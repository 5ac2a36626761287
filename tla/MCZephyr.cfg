\* The stand-in boots beside a producer: it refuses the header the producer has written.
CONSTANTS
  ShmCapacity = 2
  BatchMax = 1
  MaxStarts = 1
  MaxWrites = 1
  MaxDeaths = 0
  ShellFreqs = {7100000}
  MaxBoots = 2
SPECIFICATION ZephyrSpec
INVARIANT AcceptsProducersHeader
CHECK_DEADLOCK FALSE
