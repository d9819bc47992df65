----------------------------- MODULE CallSession -----------------------------
(***************************************************************************)
(* The life of calls in one server process (main.py): the webhook that     *)
(* announces a call, the WebSocket handler that carries it, the registry   *)
(* active_calls both write, and the task that writes the call's ticket     *)
(* after the handler has ended.  The conversation itself is VoiceTurn's;   *)
(* here it is a number of messages.                                        *)
(*                                                                         *)
(* A handler is one WebSocket connection.  What it does between two awaits *)
(* is one step.  The process may stop at any time and be started again:    *)
(* all but the stored tickets is lost.                                     *)
(***************************************************************************)
EXTENDS Naturals

CONSTANTS
    Calls,        \* CallUUIDs
    Handlers,     \* connections
    MinMessages   \* messages a transcript needs for a ticket (2)

ASSUME SessionAssumption == MinMessages \in Nat

VARIABLES
    active_calls,  \* the registry
    handler,       \* each connection: its stage, CallUUID and messages
    ticket,        \* the background task of each ended connection
    stored,        \* connections with a row in call_tickets
    reported       \* connections whose ticket the log calls saved

vars == <<active_calls, handler, ticket, stored, reported>>

Entry ==
    [status: {"absent", "initiated"}] \cup
    [status: {"active"}, websocket: Handlers]

Absent    == [status |-> "absent"]
Initiated == [status |-> "initiated"]

\* "broken": left by an exception or a return before the finally block.
Stages == {"new", "starting", "lookup", "running", "ended", "broken"}
\* "refused": the messages do not convert; "lost": the process stopped.
Tasks  == {"none", "refused", "summary", "insert", "finished", "lost"}

At(h, stage) == handler[h].stage = stage
Live(h) == handler[h].stage \in {"starting", "lookup", "running"}

Move(h, stage) == handler' = [handler EXCEPT ![h].stage = stage]

-----------------------------------------------------------------------------
\* Mutant: a repeated webhook only resets the status.
WebhookUpdates(u) ==
    /\ active_calls' = [active_calls EXCEPT ![u].status = "initiated"]
    /\ UNCHANGED <<handler, ticket, stored, reported>>

\* get_vobiz_xml: also a repeated webhook starts the entry afresh.
Webhook(u) ==
    /\ active_calls' = [active_calls EXCEPT ![u] = Initiated]
    /\ UNCHANGED <<handler, ticket, stored, reported>>

Connects(h) ==
    /\ At(h, "new")
    /\ Move(h, "starting")
    /\ UNCHANGED <<active_calls, ticket, stored, reported>>

\* The start frame has arrived; the profile is looked up in a thread.
Starts(h) ==
    /\ At(h, "starting")
    /\ Move(h, "lookup")
    /\ UNCHANGED <<active_calls, ticket, stored, reported>>

\* No start frame, or no database: the handler is left with nothing undone.
StartFails(h) ==
    /\ At(h, "starting") \/ At(h, "lookup")
    /\ Move(h, "broken")
    /\ UNCHANGED <<active_calls, ticket, stored, reported>>

\* The entry is claimed, if there is one, and the pipeline is created, or
\* create_pipecat_pipeline raises outside the try block.
Registers(h) ==
    /\ At(h, "lookup")
    /\ Move(h, "running") \/ Move(h, "broken")
    /\ LET u == handler[h].call
       IN  active_calls' =
             IF active_calls[u] = Absent THEN active_calls
             ELSE [active_calls EXCEPT ![u] = [status |-> "active",
                                               websocket |-> h]]
    /\ UNCHANGED <<ticket, stored, reported>>

Talks(h) ==
    /\ At(h, "running")
    /\ handler[h].messages < MinMessages
    /\ handler' = [handler EXCEPT ![h].messages = @ + 1]
    /\ UNCHANGED <<active_calls, ticket, stored, reported>>

\* Mutant: one message is enough.
TranscribedByOne(h) == handler[h].messages + 1 >= MinMessages

Transcribed(h) == handler[h].messages >= MinMessages

\* Mutant: the entry is deleted only together with a ticket.
EndsUnregistered(h) ==
    /\ At(h, "running")
    /\ Move(h, "ended")
    /\ ticket' = [ticket EXCEPT ![h] = IF Transcribed(h) THEN "summary" ELSE @]
    /\ active_calls' = IF Transcribed(h)
                       THEN [active_calls EXCEPT ![handler[h].call] = Absent]
                       ELSE active_calls
    /\ UNCHANGED <<stored, reported>>

\* Mutant: the ticket is awaited in the handler, and cancelled with it.
EndsAwaiting(h) ==
    /\ At(h, "running")
    /\ Move(h, "ended")
    /\ active_calls' = [active_calls EXCEPT ![handler[h].call] = Absent]
    /\ UNCHANGED <<ticket, stored, reported>>

\* runner.run() returns, raises or is cancelled; the finally block starts the
\* ticket task and deletes the entry, whosever it is by now.
Ends(h) ==
    /\ At(h, "running")
    /\ Move(h, "ended")
    /\ IF Transcribed(h)
       THEN \E task \in {"summary", "refused"} :
               ticket' = [ticket EXCEPT ![h] = task]
       ELSE UNCHANGED ticket
    /\ active_calls' = [active_calls EXCEPT ![handler[h].call] = Absent]
    /\ UNCHANGED <<stored, reported>>

-----------------------------------------------------------------------------
(* write_call_ticket, in a task of its own. *)

Summarises(h) ==
    /\ ticket[h] = "summary"
    /\ ticket' = [ticket EXCEPT ![h] = "insert"]
    /\ UNCHANGED <<active_calls, handler, stored, reported>>

Finishes(h) ==
    /\ ticket' = [ticket EXCEPT ![h] = "finished"]
    /\ reported' = reported \cup {h}
    /\ UNCHANGED <<active_calls, handler>>

Inserts(h) ==
    /\ ticket[h] = "insert"
    /\ stored' = stored \cup {h}
    /\ Finishes(h)

\* The LLM, the embedding or the database raises: write_call_ticket logs it
\* and returns, and its caller cannot tell.
TicketFails(h) ==
    /\ ticket[h] \in {"summary", "insert"}
    /\ \/ UNCHANGED stored
       \/ ticket[h] = "insert" /\ stored' = stored \cup {h}
    /\ Finishes(h)

\* The process stops, an insert on its way arrives or not, and the process is
\* started again.
Restart ==
    /\ active_calls' = [u \in Calls |-> Absent]
    /\ handler' = [h \in Handlers |-> IF Live(h)
                      THEN [handler[h] EXCEPT !.stage = "broken"]
                      ELSE handler[h]]
    /\ \E arrived \in SUBSET {h \in Handlers : ticket[h] = "insert"} :
          stored' = stored \cup arrived
    /\ ticket' = [h \in Handlers |->
                    IF ticket[h] \in {"summary", "insert"} THEN "lost"
                    ELSE ticket[h]]
    /\ UNCHANGED reported

-----------------------------------------------------------------------------
Init ==
    /\ active_calls = [u \in Calls |-> Absent]
    /\ handler \in [Handlers -> [stage: {"new"}, call: Calls, messages: {0}]]
    /\ ticket = [h \in Handlers |-> "none"]
    /\ stored = {} /\ reported = {}

TicketStep(h) == Summarises(h) \/ Inserts(h) \/ TicketFails(h)

Next ==
    \/ \E u \in Calls : Webhook(u)
    \/ \E h \in Handlers : \/ Connects(h) \/ Starts(h) \/ StartFails(h) \/ Registers(h)
                           \/ Talks(h) \/ Ends(h) \/ TicketStep(h)
    \/ Restart

Spec == Init /\ [][Next]_vars

\* The task runs in the event loop; its LLM call and its insert time out.
FairSpec == Spec /\ \A h \in Handlers : WF_vars(TicketStep(h))

-----------------------------------------------------------------------------
(* Properties. *)

\* The type invariant of the registry, the connections and the tickets.
TypeOK ==
    /\ active_calls \in [Calls -> Entry]
    /\ handler \in [Handlers -> [stage: Stages, call: Calls,
                                 messages: 0 .. MinMessages]]
    /\ ticket \in [Handlers -> Tasks]
    /\ stored \subseteq Handlers /\ reported \subseteq Handlers

\* However webhooks and connections of one CallUUID overlap, an entry marked
\* active belongs to a connection of that call which is still running, or
\* which failed after claiming it (main.py:215-222, 260-261).
ActiveEntryHasOwner ==
    \A u \in Calls :
       active_calls[u].status = "active" =>
          LET h == active_calls[u].websocket
          IN  handler[h].call = u /\ handler[h].stage \in {"running", "broken"}

\* A ticket is begun, stored and reported only for a connection that went
\* through its finally block after a real conversation, not for one cut off
\* while starting or by the end of the process (adapter.py:143-144).
TicketOnlyAfterConversation ==
    \A h \in Handlers :
       ticket[h] # "none" \/ h \in stored \cup reported =>
          handler[h].stage = "ended" /\ handler[h].messages >= MinMessages

\* The ticket of an ended conversation is attempted to the end although its
\* connection is gone, unless its messages do not convert or the process
\* stops (main.py:254-256).
ConversationIsTicketed ==
    \A h \in Handlers :
       (handler[h].stage = "ended" /\ handler[h].messages >= MinMessages)
          ~> ticket[h] \in {"finished", "refused", "lost"}
=============================================================================
