SPECIFICATION FairSpec
CONSTANTS
  c1 = c1
  c2 = c2
  Calls = {c1}
  Workers = {w1}
  Utterances <- MCOneUtterance
  MaxLag = 1
PROPERTY EmotionReachesAdapter
CHECK_DEADLOCK FALSE
