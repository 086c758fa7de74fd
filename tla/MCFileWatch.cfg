CONSTANTS
  File = {f, g}
  NoFile = NoFile
  AutoReload = {f}
  RawCap = 2
  EventCap = 1
  MaxClock = 3
  Missing = Missing
SPECIFICATION Spec
INVARIANT QuietMeansSeen
