CONSTANTS
  Threads <- MCThreads
  Uids <- MCUids
  Directory <- MCDirectory
  NoName = "none"
  Torn = "torn"
  Buffer <- MCBuffer
  MaxCalls = 3
SPECIFICATION Spec
INVARIANTS AnswersRight
