SPECIFICATION Spec
CONSTANTS
  Procs = {p1}
  Uses <- MCDemo03Echo
  MayFault = FALSE
  Texts = {4}
  HeadLen = 5
  BufLen = 4
  datalen = 3
  Maxdlen = 3
INVARIANTS TerminatorInBuffer
