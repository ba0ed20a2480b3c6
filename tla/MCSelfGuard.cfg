CONSTANTS
  MaxHops = 5
  Procs <- MCProcs
  Readable <- MCReadable
  Chains <- MCChains
SPECIFICATION Spec
INVARIANTS TypeOK AncestorsCovered
