CONSTANTS
  Graces = {0, 3, 7}
  InstantMax = 6
  ReapWait = 2
  MaxNap = 3
  Pids = {0, 1, 2}
  MaxReuse = 1
SPECIFICATION Spec
INVARIANTS TypeOK GraceRespected OutcomeTruthful
PROPERTIES SilentAfterGone MeetsContract
