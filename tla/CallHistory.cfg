SPECIFICATION FairHistorySpec
CONSTANTS
  Intents = {"orders"}
  LlmWorkers = {"orders"}
  Langs = {"en"}
  TtsLangs = {"en"}
  DefaultLang = "en"
  VoiceLang = "en"
  Facts = {}
  Actions = {"none", "offer_handoff", "accept_handoff", "reject_handoff"}
  MaxAttempts = 1
  MaxTokens = 1
  LangWords = 3
  MinWords = 2
  TransferConfigured = TRUE
  MaxTurns = 2
  MaxQueue = 0
INVARIANT HangUpOnlyOnAcceptance
PROPERTIES ImplementsDialogue FinishedTurnIsHandled HandoffEndsCall EndFrameEndsCall
CHECK_DEADLOCK FALSE
