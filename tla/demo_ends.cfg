SPECIFICATION FairSpec
CONSTANTS
  Procs = {p1, p2}
  Uses <- MCEnding
  MayFault = TRUE
  Texts = {1, 2, 4}
  HeadLen = 5
  BufLen = 4
  datalen = 3
  Maxdlen = 3
INVARIANTS TypeOK
PROPERTIES ProgramsEnd
