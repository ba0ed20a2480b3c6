CONSTANTS
  Listings <- SelectionListings
  ArgSets <- JsonAll
  Graces = {0}
  Lines <- NoLines
  MaxPort = 8
  MaxPid = 30
  InstantMax = 0
  Recycling = FALSE
SPECIFICATION EdevSpec
INVARIANTS JsonStdoutPure
