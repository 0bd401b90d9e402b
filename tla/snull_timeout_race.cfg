SPECIFICATION Spec
CONSTANTS
  Skbs = {s1, s2}
  NULL = NULL
  Closes = FALSE
  Answers = {"lost"}
  PoolSize = 1
  Modes = {FALSE}
  Weight = 2
  MaxArrivals = 1
INVARIANTS SkbTracked
