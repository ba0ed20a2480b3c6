CONSTANTS
  Listings <- SignalListings
  ArgSets <- SignalArgs
  Graces = {0, 1}
  Lines <- NoLines
  MaxPort = 8
  MaxPid = 30
  InstantMax = 0
  Recycling = TRUE
SPECIFICATION EdevSpec
INVARIANTS NothingWithoutConsent OneCallPerProcess ReportComplete ExitCodeHonest
PROPERTIES LoopEnds KeepsPromise
