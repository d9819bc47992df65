SPECIFICATION FairSpec
CONSTANTS
  c1 = c1
  c2 = c2
  Calls = {c1, c2}
  Workers = {w1}
  Utterances <- MCUtterances
  MaxLag = 1
INVARIANTS TypeOK NoOlderAudio
PROPERTIES EmotionsInOrder AnalysisEnds
CHECK_DEADLOCK FALSE
