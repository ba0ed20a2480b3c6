CONSTANTS
  Pids = {1, 2, 3}
  Socks <- AllSocks
  Programs <- AllPrograms
  Starts <- MCStarts
  Homes = {3}
  MaxHops = 3
  Accepted = {1}
  Udp = FALSE
  MinFds = 1
  Slack = 0
  MaxChurn = 1
SPECIFICATION CollectSpec
INVARIANTS DeniedMeansRefused
