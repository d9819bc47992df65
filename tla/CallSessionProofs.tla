-------------------------- MODULE CallSessionProofs --------------------------
(***************************************************************************)
(* Proofs about call sessions, for any number of calls, connections and    *)
(* messages.                                                               *)
(***************************************************************************)
EXTENDS CallSession, TLAPS

\* What the connections, the registry and the tickets have in common.
Inv == TypeOK /\ ActiveEntryHasOwner /\ TicketOnlyAfterConversation

\* No call is registered and nothing is stored when the process starts.
LEMMA InitInv == Init => Inv
BY SessionAssumption
   DEF Init, Inv, TypeOK, ActiveEntryHasOwner, TicketOnlyAfterConversation,
       Entry, Absent, Stages, Tasks

\* A connection that moves on, while every other one and its call stay.
LEMMA MoveFacts ==
    ASSUME TypeOK, NEW h \in Handlers, NEW stage \in Stages, Move(h, stage)
    PROVE  /\ handler' \in [Handlers -> [stage: Stages, call: Calls,
                                         messages: 0 .. MinMessages]]
           /\ handler'[h].stage = stage
           /\ handler'[h].call = handler[h].call
           /\ handler'[h].messages = handler[h].messages
           /\ \A g \in Handlers \ {h} : handler'[g] = handler[g]
BY DEF TypeOK, Move

\* A connection on its way to its pipeline touches nothing but itself.
LEMMA StartingInv ==
    ASSUME Inv, NEW h \in Handlers, Connects(h) \/ Starts(h) \/ StartFails(h)
    PROVE  Inv'
<1>1. PICK stage \in {"starting", "lookup", "broken"} : Move(h, stage)
  BY DEF Connects, Starts, StartFails
<1>2. handler[h].stage \in {"new", "starting", "lookup"}
  BY DEF Connects, Starts, StartFails, At
<1>3. UNCHANGED <<active_calls, ticket, stored, reported>>
  BY DEF Connects, Starts, StartFails
<1>4. /\ handler' \in [Handlers -> [stage: Stages, call: Calls,
                                    messages: 0 .. MinMessages]]
      /\ \A g \in Handlers \ {h} : handler'[g] = handler[g]
  BY <1>1, MoveFacts DEF Inv, Stages
<1>5. TypeOK'
  BY <1>3, <1>4 DEF Inv, TypeOK
<1>6. ActiveEntryHasOwner'
  BY <1>2, <1>3, <1>4 DEF Inv, ActiveEntryHasOwner, TypeOK, Entry
<1>7. TicketOnlyAfterConversation'
  BY <1>2, <1>3, <1>4 DEF Inv, TicketOnlyAfterConversation, TypeOK
<1> QED
  BY <1>5, <1>6, <1>7 DEF Inv

\* A connection that claims its entry becomes the entry's owner.
LEMMA RegistersInv ==
    ASSUME Inv, NEW h \in Handlers, Registers(h)
    PROVE  Inv'
<1> DEFINE u == handler[h].call
<1>1. PICK stage \in {"running", "broken"} : Move(h, stage)
  BY DEF Registers
<1>2. /\ handler' \in [Handlers -> [stage: Stages, call: Calls,
                                    messages: 0 .. MinMessages]]
      /\ handler'[h].stage \in {"running", "broken"}
      /\ handler'[h].call = u
      /\ \A g \in Handlers \ {h} : handler'[g] = handler[g]
  BY <1>1, MoveFacts DEF Inv, Stages
<1>3. /\ u \in Calls
      /\ \/ active_calls' = active_calls
         \/ active_calls' = [active_calls EXCEPT ![u] =
                               [status |-> "active", websocket |-> h]]
  BY DEF Registers, Inv, TypeOK
<1>4. handler[h].stage = "lookup" /\ UNCHANGED <<ticket, stored, reported>>
  BY DEF Registers, At
<1>5. TypeOK'
  BY <1>2, <1>3, <1>4 DEF Inv, TypeOK, Entry
<1>6. ActiveEntryHasOwner'
  <2> SUFFICES ASSUME NEW v \in Calls, active_calls'[v].status = "active"
               PROVE  LET g == active_calls'[v].websocket
                      IN  /\ handler'[g].call = v
                          /\ handler'[g].stage \in {"running", "broken"}
    BY DEF ActiveEntryHasOwner
  <2>1. CASE active_calls'[v] = active_calls[v]
    <3>1. active_calls[v].websocket \in Handlers \ {h}
      BY <1>4, <2>1 DEF Inv, TypeOK, Entry, ActiveEntryHasOwner
    <3> QED
      BY <1>2, <2>1, <3>1 DEF Inv, ActiveEntryHasOwner
  <2>2. CASE active_calls'[v] # active_calls[v]
    <3>1. v = u /\ active_calls'[v].websocket = h
      BY <1>3, <2>2 DEF Inv, TypeOK
    <3> QED
      BY <1>2, <3>1
  <2> QED
    BY <2>1, <2>2
<1>7. TicketOnlyAfterConversation'
  BY <1>2, <1>4 DEF Inv, TicketOnlyAfterConversation, TypeOK
<1> QED
  BY <1>5, <1>6, <1>7 DEF Inv

\* A connection that ends takes its call's entry with it, whoever owned it.
LEMMA EndsInv ==
    ASSUME Inv, NEW h \in Handlers, Ends(h)
    PROVE  Inv'
<1>1. Move(h, "ended") /\ handler[h].stage = "running"
  BY DEF Ends, At
<1>2. /\ handler' \in [Handlers -> [stage: Stages, call: Calls,
                                    messages: 0 .. MinMessages]]
      /\ handler'[h].stage = "ended"
      /\ handler'[h].messages = handler[h].messages
      /\ \A g \in Handlers \ {h} : handler'[g] = handler[g]
  BY <1>1, MoveFacts DEF Inv, Stages
<1>3. /\ handler[h].call \in Calls
      /\ active_calls' = [active_calls EXCEPT ![handler[h].call] = Absent]
      /\ UNCHANGED <<stored, reported>>
  BY DEF Ends, Inv, TypeOK
<1>4. \/ ticket' = ticket
      \/ /\ handler[h].messages >= MinMessages
         /\ \E task \in {"summary", "refused"} :
               ticket' = [ticket EXCEPT ![h] = task]
  BY DEF Ends, Transcribed
<1>5. TypeOK'
  BY <1>2, <1>3, <1>4 DEF Inv, TypeOK, Entry, Absent, Tasks
<1>6. ActiveEntryHasOwner'
  <2> SUFFICES ASSUME NEW v \in Calls, active_calls'[v].status = "active"
               PROVE  LET g == active_calls'[v].websocket
                      IN  /\ handler'[g].call = v
                          /\ handler'[g].stage \in {"running", "broken"}
    BY DEF ActiveEntryHasOwner
  <2>1. v # handler[h].call /\ active_calls'[v] = active_calls[v]
    BY <1>3 DEF Inv, TypeOK, Absent
  <2>2. active_calls[v].websocket \in Handlers \ {h}
    BY <2>1 DEF Inv, TypeOK, Entry, ActiveEntryHasOwner
  <2> QED
    BY <1>2, <2>1, <2>2 DEF Inv, ActiveEntryHasOwner
<1>7. TicketOnlyAfterConversation'
  <2> SUFFICES ASSUME NEW g \in Handlers,
                      ticket'[g] # "none" \/ g \in stored \cup reported
               PROVE  /\ handler'[g].stage = "ended"
                      /\ handler'[g].messages >= MinMessages
    BY <1>3 DEF TicketOnlyAfterConversation
  <2>1. CASE g = h
    BY <1>1, <1>2, <1>4, <2>1 DEF Inv, TypeOK, TicketOnlyAfterConversation
  <2>2. CASE g # h
    BY <1>2, <1>4, <2>2 DEF Inv, TypeOK, TicketOnlyAfterConversation
  <2> QED
    BY <2>1, <2>2
<1> QED
  BY <1>5, <1>6, <1>7 DEF Inv

\* Every step of the process preserves the invariant.
LEMMA NextInv == Inv /\ [Next]_vars => Inv'
<1> SUFFICES ASSUME Inv, [Next]_vars PROVE Inv'
  OBVIOUS
<1>1. ASSUME NEW u \in Calls, Webhook(u)
      PROVE  Inv'
  <2>1. TypeOK'
    BY <1>1 DEF Webhook, Inv, TypeOK, Entry, Initiated
  <2>2. ActiveEntryHasOwner'
    BY <1>1 DEF Webhook, Inv, TypeOK, ActiveEntryHasOwner, Initiated
  <2> QED
    BY <1>1, <2>1, <2>2 DEF Webhook, Inv, TicketOnlyAfterConversation
<1>2. ASSUME NEW h \in Handlers, Talks(h)
      PROVE  Inv'
  <2>1. /\ handler'[h].stage = "running" /\ handler[h].stage = "running"
        /\ handler'[h].call = handler[h].call
        /\ handler'[h].messages \in 0 .. MinMessages
        /\ \A g \in Handlers \ {h} : handler'[g] = handler[g]
        /\ handler' = [handler EXCEPT ![h].messages = handler'[h].messages]
        /\ UNCHANGED <<active_calls, ticket, stored, reported>>
    BY <1>2, SessionAssumption DEF Talks, At, Inv, TypeOK
  <2>2. TypeOK'
    BY <2>1 DEF Inv, TypeOK
  <2>3. ActiveEntryHasOwner'
    BY <2>1 DEF Inv, TypeOK, Entry, ActiveEntryHasOwner
  <2>4. TicketOnlyAfterConversation'
    BY <2>1 DEF Inv, TypeOK, TicketOnlyAfterConversation
  <2> QED
    BY <2>2, <2>3, <2>4 DEF Inv
<1>3. ASSUME NEW h \in Handlers, TicketStep(h)
      PROVE  Inv'
  <2>1. /\ ticket[h] # "none" /\ UNCHANGED <<active_calls, handler>>
        /\ ticket' \in [Handlers -> Tasks]
        /\ \A g \in Handlers \ {h} : ticket'[g] = ticket[g]
        /\ stored' \subseteq stored \cup {h}
        /\ reported' \subseteq reported \cup {h}
    BY <1>3 DEF TicketStep, Summarises, Inserts, TicketFails, Finishes, Inv,
                TypeOK, Tasks
  <2>2. TypeOK'
    BY <2>1 DEF Inv, TypeOK
  <2>3. ActiveEntryHasOwner'
    BY <2>1 DEF Inv, ActiveEntryHasOwner
  <2>4. TicketOnlyAfterConversation'
    BY <2>1 DEF Inv, TicketOnlyAfterConversation
  <2> QED
    BY <2>2, <2>3, <2>4 DEF Inv
<1>4. CASE Restart
  <2>1. \A h \in Handlers :
          /\ ticket[h] # "none" <=> ticket'[h] # "none"
          /\ handler[h].stage = "ended" => handler'[h] = handler[h]
    BY <1>4 DEF Restart, Inv, TypeOK, Live
  <2>2. /\ reported' = reported
        /\ \A h \in stored' : h \in stored \/ ticket[h] # "none"
    BY <1>4 DEF Restart
  <2>3. TypeOK'
    BY <1>4 DEF Restart, Inv, TypeOK, Entry, Absent, Stages, Tasks
  <2>4. ActiveEntryHasOwner'
    BY <1>4 DEF Restart, ActiveEntryHasOwner, Absent
  <2>5. TicketOnlyAfterConversation'
    BY <2>1, <2>2 DEF Inv, TicketOnlyAfterConversation
  <2> QED
    BY <2>3, <2>4, <2>5 DEF Inv
<1>5. CASE UNCHANGED vars
  BY <1>5 DEF vars, Inv, TypeOK, ActiveEntryHasOwner,
              TicketOnlyAfterConversation
<1> QED
  BY <1>1, <1>2, <1>3, <1>4, <1>5, StartingInv, RegistersInv, EndsInv DEF Next

\* For any number of overlapping connections and webhooks, restarts included,
\* an active entry has an owner of its own call, and a ticket belongs to a
\* conversation that has ended (main.py:215-261).
THEOREM Sessions ==
    Spec => [](TypeOK /\ ActiveEntryHasOwner /\ TicketOnlyAfterConversation)
<1>1. Inv => TypeOK /\ ActiveEntryHasOwner /\ TicketOnlyAfterConversation
  BY DEF Inv
<1> QED
  BY <1>1, InitInv, NextInv, PTL DEF Spec
=============================================================================
