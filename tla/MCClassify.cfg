CONSTANTS
  Processes <- MCProcesses
  Ports <- MCPorts
  Pairs <- MCPairs
  SmallCap = 14
  ArgMax = 22
  Padding = 2
SPECIFICATION Spec
INVARIANTS TypeOK Explained PortsAgree DatabaseLeftAlone ArgsAsGiven LaunchdCountedOnce
