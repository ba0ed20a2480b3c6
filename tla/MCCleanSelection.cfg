CONSTANTS
  Listings <- SelectionListings
  ArgSets <- SelectionArgs
  Graces = {0}
  Lines <- Texts
  MaxPort = 8
  MaxPid = 30
  InstantMax = 0
  Recycling = FALSE
SPECIFICATION EdevSpec
INVARIANTS TypeOK ProtectedUntouched SignalsCovered NothingGuessed MenuHonoured ScanForetellsClean
