----------------------------- MODULE Retrieval -----------------------------
(***************************************************************************)
(* The graph run of module AgentGraph with the threads that do its         *)
(* retrieval: a worker node hands its tool (module RagTools) to the        *)
(* default executor with asyncio.to_thread and waits for the result.  A    *)
(* run that is cancelled, or fails, takes its waiting tools out of the     *)
(* executor's queue, but a tool that has begun keeps its thread.           *)
(*                                                                         *)
(* Shared by all threads: the embedding model with its lock, and for each  *)
(* thread the database client that get_client keeps in thread-local state. *)
(***************************************************************************)
EXTENDS AgentGraph, RagTools

CONSTANTS
    Threads,   \* threads of the default executor
    MaxTurns   \* bound: graph runs

NoThread == "nobody"

ASSUME RetrievalAssumption ==
    /\ Intents = Tools
    /\ NoThread \notin Threads
    /\ MaxTurns \in Nat

VARIABLES
    turns,      \* graph runs begun
    known,      \* the customer profile has a customer_id
    queue,      \* tools waiting for a thread, in the order of submission
    thread,     \* the tool each thread runs
    connected,  \* threads that have their database client (_thread_local)
    model,      \* _model is set
    lock,       \* the thread that holds _model_lock
    loads,      \* SentenceTransformer objects made
    ended       \* tools of this run whose result is on its way to the loop

pool == <<queue, thread, connected, model, lock, loads, ended>>
vars == <<graphVars, turns, known, pool>>

Resting == [NewTask(0, "support") EXCEPT !.pc = "answered"]
Finished(k) == k.pc \in {"answered", "raised"}

-----------------------------------------------------------------------------
(* The event loop. *)

\* Without a customer_id, two of the workers answer at once and need no thread.
Threaded(w) == known \/ w \notin {"orders", "history"}

\* The tools a superstep submits: route_workers lists the nodes in this order.
Submitted(ws) ==
    LET Of(w) == IF w \in ws /\ Threaded(w) THEN <<NewTask(turns, w)>> ELSE <<>>
    IN  Of("support") \o Of("orders") \o Of("catalog") \o Of("history")

\* Mutant: the tools of a run that is over stay in the queue.
WithdrawNothing == UNCHANGED queue

\* The cancelled futures are skipped by the executor.
Withdraw == queue' = <<>>

Begins ==
    /\ turns < MaxTurns
    /\ \E status \in Statuses : Invoke(status)
    /\ turns' = turns + 1
    /\ ended' = {}
    /\ UNCHANGED <<known, queue, thread, connected, model, lock, loads>>

\* The superstep starts all its workers before any of them can return.
Routes ==
    /\ RouterReplies \/ RouterCrashes
    /\ queue' = queue \o Submitted(run'.waiting)
    /\ UNCHANGED <<turns, known, thread, connected, model, lock, loads, ended>>

\* A worker node returns: its tool's answer has arrived, or it needed none.
Arrives(w) ==
    /\ ~Threaded(w) \/ \E k \in ended : k.tool = w /\ k.pc = "answered"
    /\ WorkerReturns(w)
    /\ UNCHANGED <<turns, known, pool>>

Fails(w) ==
    /\ \E k \in ended : k.tool = w /\ k.pc = "raised"
    /\ WorkerRaises(w)
    /\ Withdraw
    /\ ended' = {}
    /\ UNCHANGED <<turns, known, thread, connected, model, lock, loads>>

Synthesizes ==
    /\ \/ SynthSkips \/ SynthCalls \/ SynthFinishes
       \/ \E retriable \in BOOLEAN : SynthRaises(retriable)
    /\ UNCHANGED <<turns, known, pool>>

\* A barge-in, or the end of the call.
Cancelled ==
    /\ run.node \notin {"none", "done", "failed"}
    /\ Abandon
    /\ Withdraw
    /\ ended' = {}
    /\ UNCHANGED <<turns, known, thread, connected, model, lock, loads>>

-----------------------------------------------------------------------------
(* The threads. *)

Idle(t) == Finished(thread[t])

\* The tool goes on as k; when it has finished, the thread is free, and the
\* loop hears of it unless its run is over.
Becomes(t, k) ==
    /\ thread' = [thread EXCEPT ![t] = IF Finished(k) THEN Resting ELSE k]
    /\ ended' = IF Finished(k) /\ k.turn = turns /\ k.tool \in run.waiting
                THEN ended \cup {[tool |-> k.tool, pc |-> k.pc]} ELSE ended

Takes(t) ==
    /\ Idle(t) /\ queue # <<>>
    /\ thread' = [thread EXCEPT ![t] = Head(queue)]
    /\ queue' = Tail(queue)
    /\ UNCHANGED <<graphVars, turns, known, connected, model, lock, loads,
                   ended>>

\* get_client: a thread's first tool makes the thread's client.
Connects(t) ==
    /\ thread[t].pc = "client"
    /\ \/ /\ Becomes(t, Goes(thread[t], AfterClient(thread[t].tool)))
          /\ connected' = connected \cup {t}
       \/ /\ t \notin connected
          /\ Becomes(t, Raises(thread[t]))
          /\ UNCHANGED connected
    /\ UNCHANGED <<graphVars, turns, known, queue, model, lock, loads>>

\* The check outside the lock.
SeesModel(t) ==
    /\ thread[t].pc = "embed"
    /\ Becomes(t, Goes(thread[t], IF model THEN AfterModel(thread[t].tool)
                                  ELSE "lock"))
    /\ UNCHANGED <<graphVars, turns, known, queue, connected, model, lock,
                   loads>>

\* Mutant: no second check under the lock.
LocksUnchecked(t) ==
    /\ thread[t].pc = "lock" /\ lock = NoThread
    /\ Becomes(t, Goes(thread[t], "load"))
    /\ lock' = t
    /\ UNCHANGED <<graphVars, turns, known, queue, connected, model, loads>>

\* The lock is acquired, and released at once if the model is there by now.
Locks(t) ==
    /\ thread[t].pc = "lock" /\ lock = NoThread
    /\ IF model
       THEN Becomes(t, Goes(thread[t], AfterModel(thread[t].tool)))
            /\ UNCHANGED lock
       ELSE Becomes(t, Goes(thread[t], "load")) /\ lock' = t
    /\ UNCHANGED <<graphVars, turns, known, queue, connected, model, loads>>

\* Mutant: the lock is not released when the constructor raises.
LoadsUnreleased(t) ==
    /\ thread[t].pc = "load"
    /\ \/ /\ Becomes(t, Goes(thread[t], AfterModel(thread[t].tool)))
          /\ model' = TRUE /\ loads' = loads + 1 /\ lock' = NoThread
       \/ /\ Becomes(t, ModelRaises(thread[t]))
          /\ UNCHANGED <<model, loads, lock>>
    /\ UNCHANGED <<graphVars, turns, known, queue, connected>>

Loads(t) ==
    /\ thread[t].pc = "load"
    /\ lock' = NoThread
    /\ \/ /\ Becomes(t, Goes(thread[t], AfterModel(thread[t].tool)))
          /\ model' = TRUE /\ loads' = loads + 1
       \/ /\ Becomes(t, ModelRaises(thread[t]))
          /\ UNCHANGED <<model, loads>>
    /\ UNCHANGED <<graphVars, turns, known, queue, connected>>

\* An LLM call, encode() or a query returns or raises.
Calls(t) ==
    /\ \E k \in CallOutcomes(thread[t]) : Becomes(t, k)
    /\ UNCHANGED <<graphVars, turns, known, queue, connected, model, lock,
                   loads>>

-----------------------------------------------------------------------------
Init ==
    /\ GraphInit
    /\ turns = 0 /\ known \in BOOLEAN
    /\ queue = <<>> /\ ended = {}
    /\ thread = [t \in Threads |-> Resting]
    /\ connected = {} /\ lock = NoThread
    /\ model \in BOOLEAN          \* the server warms it up, scripts do not
    /\ loads = IF model THEN 1 ELSE 0

ThreadStep(t) == \/ Takes(t) \/ Connects(t) \/ SeesModel(t) \/ Locks(t)
                 \/ Loads(t) \/ Calls(t)

LoopStep == Routes \/ Synthesizes \/ \E w \in Intents : Arrives(w) \/ Fails(w)

Next ==
    \/ Begins \/ Routes \/ Synthesizes \/ Cancelled
    \/ \E w \in Intents : Arrives(w) \/ Fails(w)
    \/ \E t \in Threads : Takes(t) \/ Connects(t) \/ SeesModel(t) \/ Locks(t)
                          \/ Loads(t) \/ Calls(t)

Spec == Init /\ [][Next]_vars

\* The event loop and the executor's threads are scheduled, and every
\* blocking call has a timeout.
Fairness == WF_vars(LoopStep) /\ \A t \in Threads : WF_vars(ThreadStep(t))

FairSpec == Spec /\ Fairness

-----------------------------------------------------------------------------
(* Properties. *)

\* The type invariant: threads, queue and results hold well-formed tasks.
TypeOK ==
    /\ GraphTypeOK
    /\ turns \in Nat /\ known \in BOOLEAN /\ model \in BOOLEAN
    /\ queue \in Seq(Task) /\ thread \in [Threads -> Task]
    /\ ended \subseteq [tool: Tools, pc: {"answered", "raised"}]
    /\ connected \subseteq Threads
    /\ lock \in Threads \cup {NoThread} /\ loads \in Nat

\* The embedding model is built once, whichever threads ask for it at the
\* same time and whether or not an earlier attempt to build it raised
\* (model_loader.py:6-16).
OneModel == loads <= 1

\* Work that nobody waits for any more is never queued: after a barge-in or a
\* failed worker only tools that had already begun still hold a thread, so a
\* new turn waits for at most one of them per thread.
QueueIsCurrent ==
    \A i \in DOMAIN queue : queue[i].turn = turns /\ queue[i].tool \in run.waiting

\* Every text a tool returns is longer than the limit by at most a newline the
\* loop does not count and the marker, but for the catalog's own handler
\* (tools.py:155), which has no limit although README.md:20 calls the truncation
\* universal.
AnswersBounded ==
    \A t \in Threads : \A k \in CallOutcomes(thread[t]) :
        k.text > TextBound => thread[t].pc = "last"

\* The loop over the rows keeps the longest run of first rows that fits, and
\* marks the text exactly when rows are missing (tools.py:27-33).
ClipKeepsWhatFits ==
    \A t \in Threads : thread[t].pc = "faq" =>
        \A rows \in UNION {WithDocs(faqs) : faqs \in Results} :
            Clip(rows) = ClipReference(rows)

\* A tool that has its client answers although calls fail: an order lookup
\* always, in at most SqlAttempts tries, and a catalog lookup once it knows
\* the categories.  Only the others can fail the caller's whole turn.
FailuresContained ==
    \A t \in Threads : \A k \in CallOutcomes(thread[t]) :
        /\ k.pc = "raised" => thread[t].pc \in {"faq", "filter", "tickets"}
        /\ k.try <= SqlAttempts
=============================================================================
