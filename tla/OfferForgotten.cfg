SPECIFICATION HistorySpec
CONSTANTS
  Intents = {"orders"}
  LlmWorkers = {"orders"}
  Langs = {"en", "hi"}
  TtsLangs = {"en", "hi"}
  DefaultLang = "en"
  VoiceLang = "hi"
  Facts = {}
  Actions = {"none", "offer_handoff", "accept_handoff", "reject_handoff"}
  MaxAttempts = 1
  MaxTokens = 1
  LangWords = 3
  MinWords = 2
  TransferConfigured = TRUE
  MaxTurns = 2
  MaxQueue = 0
INVARIANT OfferIsRemembered
CHECK_DEADLOCK FALSE
