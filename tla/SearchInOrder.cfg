\* Two concurrent requests, votes in order of height, probes that may fail or
\* deny a final block, fair scheduling.
CONSTANTS
  Requests = {r1, r2}
  MaxHeight = 5
  FastCheckNumberCount = 3
  HeadLag = 1
  VotesInOrder = TRUE
SPECIFICATION FairSpec
INVARIANTS
  TypeOK
  LastFinalizedSound
  AnswerSound
  AnswerFresh
  NeverBack
  SearchInv
PROPERTIES
  BisectHalves
  RequestAdvances
  RequestsEnd
CHECK_DEADLOCK TRUE
