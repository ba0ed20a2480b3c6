CONSTANTS
  MaxHops = 64
  Procs <- MCProcs
  Readable <- MCReadable
  Chains <- LoginChain
SPECIFICATION Spec
INVARIANTS AncestorsCovered
