SPECIFICATION PollSpec
CONSTANTS
  Skbs = {s1, s2}
  NULL = NULL
  Closes = TRUE
  Answers = {"now", "lost"}
  PoolSize = 2
  Modes = {TRUE, FALSE}
  Weight = 2
  MaxArrivals = 4
INVARIANTS TypeOK SkbFreedOnce RxInOrder BuffersConserved MaskedWhilePolled
PROPERTIES ImplementsPacketQueue PolledPacketsTaken
