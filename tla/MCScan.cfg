CONSTANTS
  Pids = {1, 2, 3}
  Socks <- AllSocks
  Programs <- AllPrograms
  Starts <- MCStarts
  Homes = {3}
  MaxHops = 3
  Accepted = {0, 1}
  Udp = TRUE
  MinFds = 1
  Slack = 0
  MaxChurn = 2
SPECIFICATION CollectSpec
INVARIANTS TypeOK NothingMissed NothingInvented ConnsCounted BoundAsSaid DeniedCounted EntriesWhole Spared
