SPECIFICATION FairSpec
CONSTANTS
  Skbs = {s1, s2, s3, s4, s5, s6, s7, s8}
  NULL = NULL
  Closes = FALSE
  Answers = {"now", "lost"}
  PoolSize = 1
  Modes = {FALSE}
  Weight = 2
  MaxArrivals = 0
INVARIANTS SkbTracked
PROPERTIES SkbsFreed
