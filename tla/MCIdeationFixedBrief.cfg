SPECIFICATION IdeationSpec
CONSTANTS
  Sessions = {s1}
  Requests = {q1, q2}
  NoRequest = NoRequest
  Repos = {repoA}
  NoRepo = NoRepo
SYMMETRY MCSymmetry
PROPERTIES
  ConvergedBriefIsFixed
CHECK_DEADLOCK FALSE
