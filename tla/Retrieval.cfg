SPECIFICATION FairSpec
CONSTANTS
  Intents = {"support", "orders", "catalog", "history"}
  LlmWorkers = {"orders", "catalog"}
  Langs = {"en"}
  TtsLangs = {"en"}
  DefaultLang = "en"
  Facts = {}
  Actions = {"accept_handoff", "reject_handoff"}
  MaxAttempts = 2
  MaxTokens = 0
  Limit = 5
  Marker = 2
  Message = 4
  FallbackLimit = 2
  SqlAttempts = 2
  Results <- MCResults
  Docs <- MCDocs
  Threads = {t1, t2}
  MaxTurns = 2
INVARIANTS TypeOK SynthesizerSeesEveryContext AttemptsBounded OneModel
  QueueIsCurrent AnswersBounded ClipKeepsWhatFits FailuresContained
PROPERTY RunTerminates
CHECK_DEADLOCK FALSE
