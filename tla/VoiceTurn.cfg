SPECIFICATION Spec
CONSTANTS
  Intents = {"orders"}
  LlmWorkers = {}
  Langs = {"en", "hi", "ur"}
  TtsLangs = {"en", "hi"}
  DefaultLang = "en"
  VoiceLang = "hi"
  Facts = {}
  Actions = {"none", "offer_handoff", "accept_handoff", "reject_handoff"}
  MaxAttempts = 1
  MaxTokens = 1
  LangWords = 3
  MinWords = 2
  TransferConfigured = TRUE
  MaxTurns = 2
  MaxQueue = 2
INVARIANTS TypeOK SpokenInTurnLanguage MismatchOnlyWhenSuperseded NoStaleSpeech
CHECK_DEADLOCK FALSE
