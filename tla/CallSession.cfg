SPECIFICATION FairSpec
CONSTANTS
  Calls = {u1, u2}
  Handlers = {h1, h2, h3}
  MinMessages = 2
INVARIANTS TypeOK ActiveEntryHasOwner TicketOnlyAfterConversation
PROPERTIES ConversationIsTicketed
