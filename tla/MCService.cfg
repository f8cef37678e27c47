SPECIFICATION Spec
CONSTANTS
  Nothing = Nothing
  Components <- Service
INVARIANTS QueueOrder SharedWorkLives Transparent OwnProgram Accounting OutputCharged
