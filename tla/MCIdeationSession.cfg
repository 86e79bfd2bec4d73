SPECIFICATION IdeationSpec
CONSTANTS
  Sessions = {s1}
  Requests = {q1, q2, q3}
  NoRequest = NoRequest
  Repos = {repoA}
  NoRepo = NoRepo
SYMMETRY MCSymmetry
INVARIANTS
  FinalizedOncePerRound
  ConvergedHasDraft
  AnswerFollowsQuestion
PROPERTIES
  StatusMovesLegally
CHECK_DEADLOCK FALSE
