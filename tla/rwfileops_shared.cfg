SPECIFICATION RwSpec
CONSTANTS
  Procs = {p1, p2}
  Blocks = {b1, b2}
  Values = {a, b}
  Junk = junk
  NULL = null
  mem_size = 2
INVARIANTS ReadBack
