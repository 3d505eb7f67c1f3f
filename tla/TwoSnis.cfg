CONSTANTS
  Runs <- MCTwoSnis
  Scores <- MCScores
SPECIFICATION CommandSpec
INVARIANT GateIsSound
CHECK_DEADLOCK FALSE
