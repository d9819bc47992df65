----------------------------- MODULE AgentGraph -----------------------------
(***************************************************************************)
(* One run of the LangGraph workflow of src/graph/workflow.py: the router, *)
(* the retrieval workers it fans out to, the join, and the synthesizer     *)
(* with its retry policy.  The adapter (module VoiceTurn) invokes the      *)
(* graph once per user turn, each time under a fresh thread id, so a run   *)
(* starts from the adapter's state dictionary and from nothing else.       *)
(*                                                                         *)
(* LLM answers are nondeterministic choices; a text is a token count; a    *)
(* retrieved context is counted per worker.                                *)
(***************************************************************************)
EXTENDS Naturals, FiniteSets

CONSTANTS
    Intents,      \* the intents of nodes.py, one worker node for each
    LlmWorkers,   \* the workers whose tools call an LLM themselves
    Langs,        \* language codes the speech recogniser can report
    TtsLangs,     \* TTS_SUPPORTED_LANGUAGES, which are also lang_map's keys
    DefaultLang,  \* "en-IN"
    Facts,        \* what structured_memory can hold
    Actions,      \* what the router's LLM can say of a hand-off
    MaxAttempts,  \* RetryPolicy(max_attempts=...) of the synthesizer
    MaxTokens     \* bound: streamed tokens per node execution

ASSUME GraphAssumption ==
    /\ Intents \cap {"router", "synthesizer"} = {}
    /\ LlmWorkers \subseteq Intents
    /\ TtsLangs \subseteq Langs
    /\ DefaultLang \in TtsLangs
    /\ MaxAttempts \in Nat \ {0}
    /\ MaxTokens \in Nat
    /\ Actions \subseteq {"none", "offer_handoff", "accept_handoff",
                           "reject_handoff"}

VARIABLES
    run,       \* the state of the current graph run (AgentState and position)
    language   \* customer_profile["detected_language"], shared by reference

graphVars == <<run, language>>

Statuses == {"None", "Offered", "Accepted"}
Nodes    == {"none", "router", "workers", "synthesizer", "speaking", "done",
             "failed"}

RunState ==
    [node: Nodes, intents: SUBSET Intents, waiting: SUBSET Intents,
     rag: [Intents -> Nat], status: Statuses, memory: SUBSET Facts,
     attempt: Nat, lang: Langs, tokens: 0 .. MaxTokens]

\* The dictionary _process_context hands to astream: it has no rag_contexts
\* and no structured_memory, so these channels start empty in every run.
FreshRun(status) ==
    [node |-> "router", intents |-> {}, waiting |-> {},
     rag |-> [i \in Intents |-> 0], status |-> status, memory |-> {},
     attempt |-> 0, lang |-> DefaultLang, tokens |-> 0]

NoRun == [FreshRun("None") EXCEPT !.node = "none"]

\* An exception has left astream: nobody sees the state of the run any more.
FailedRun == [NoRun EXCEPT !.node = "failed"]

\* Mutant: no fallback for a language the speech output does not have.
SupportedUnchecked(l) == l

\* lang_map.get(target_code, "English"), and the adapter's own fallback.
Supported(l) == IF l \in TtsLangs THEN l ELSE DefaultLang

-----------------------------------------------------------------------------
(* The router. *)

\* Mutant: a third status, the one synthesizer_node still has a branch for.
StatusOfRejected(action) ==
    CASE action = "offer_handoff"  -> "Offered"
      [] action = "accept_handoff" -> "Accepted"
      [] action = "reject_handoff" -> "Rejected"
      [] OTHER -> "None"

\* "reject_handoff" is turned into "None", like any unknown action.
StatusOf(action) ==
    CASE action = "offer_handoff"  -> "Offered"
      [] action = "accept_handoff" -> "Accepted"
      [] OTHER -> "None"

\* route_workers: straight to the synthesizer when there is no intent.
Route(r) ==
    [r EXCEPT !.node = IF r.intents = {} THEN "synthesizer" ELSE "workers",
              !.waiting = r.intents, !.tokens = 0]

Invoke(status) ==
    /\ run.node \in {"none", "done", "failed"}
    /\ run' = FreshRun(status)
    /\ UNCHANGED language

\* The LLM answered with a JSON object that parses.  raw may name intents
\* that do not exist: the filter drops them.
RouterReplies ==
    /\ run.node = "router"
    /\ \E raw \in SUBSET (Intents \cup {"other"}), action \in Actions,
          memory \in SUBSET Facts :
          run' = Route([run EXCEPT !.intents = raw \cap Intents,
                                   !.status = StatusOf(action),
                                   !.memory = memory])
    /\ UNCHANGED language

\* Any exception in the call or in the parsing: offer a human, retrieve
\* nothing, keep the memory.
RouterCrashes ==
    /\ run.node = "router"
    /\ run' = Route([run EXCEPT !.intents = {}, !.status = "Offered"])
    /\ UNCHANGED language

-----------------------------------------------------------------------------
(* The workers: one superstep, joined before the synthesizer. *)

\* The writes of a superstep are applied together when its last task ends.
Joined(r) ==
    [r EXCEPT !.node = "synthesizer", !.tokens = 0,
              !.rag = [i \in Intents |->
                         r.rag[i] + IF i \in r.intents THEN 1 ELSE 0]]

\* Mutant: the first worker to return triggers the synthesizer.
WorkerReturnsUnjoined(w) ==
    /\ run.node = "workers"
    /\ w \in run.waiting
    /\ run' = [Joined(run) EXCEPT !.waiting = @ \ {w}]
    /\ UNCHANGED language

WorkerReturns(w) ==
    /\ run.node = "workers"
    /\ w \in run.waiting
    /\ LET r == [run EXCEPT !.waiting = @ \ {w}]
       IN  run' = IF r.waiting = {} THEN Joined(r) ELSE r
    /\ UNCHANGED language

\* A tool raised (database unreachable): no worker catches it, the superstep
\* is abandoned and the exception leaves astream.
WorkerRaises(w) ==
    /\ run.node = "workers"
    /\ w \in run.waiting
    /\ run' = FailedRun
    /\ UNCHANGED language

-----------------------------------------------------------------------------
(* The synthesizer. *)

\* An accepted hand-off is answered with an empty message and no LLM call.
SynthSkips ==
    /\ run.node = "synthesizer"
    /\ run.status = "Accepted"
    /\ run' = [run EXCEPT !.node = "done"]
    /\ UNCHANGED language

\* Mutant: the early return for an accepted hand-off is missing.
SynthCallsAlways ==
    /\ run.node = "synthesizer"
    /\ run' = [run EXCEPT !.node = "speaking", !.attempt = @ + 1,
                          !.lang = Supported(language), !.tokens = 0]
    /\ UNCHANGED language

\* The prompt is built now: it reads the shared profile, not the run's state.
SynthCalls ==
    /\ run.node = "synthesizer"
    /\ run.status # "Accepted"
    /\ run' = [run EXCEPT !.node = "speaking", !.attempt = @ + 1,
                          !.lang = Supported(language), !.tokens = 0]
    /\ UNCHANGED language

SynthFinishes ==
    /\ run.node = "speaking"
    /\ run' = [run EXCEPT !.node = "done"]
    /\ UNCHANGED language

\* Mutant: one attempt too many.
SynthRaisesOnceMore(retriable) ==
    /\ run.node = "speaking"
    /\ run' = IF retriable /\ run.attempt <= MaxAttempts
              THEN [run EXCEPT !.node = "synthesizer"] ELSE FailedRun
    /\ UNCHANGED language

\* retriable: default_retry_on lets this exception be retried.
SynthRaises(retriable) ==
    /\ run.node = "speaking"
    /\ run' = IF retriable /\ run.attempt < MaxAttempts
              THEN [run EXCEPT !.node = "synthesizer"] ELSE FailedRun
    /\ UNCHANGED language

-----------------------------------------------------------------------------
(* What surrounds a run. *)

\* The nodes whose LLM tokens stream_mode "messages" can deliver now.
Talking ==
    CASE run.node = "router"   -> {"router"}
      [] run.node = "workers"  -> run.waiting \cap LlmWorkers
      [] run.node = "speaking" -> {"synthesizer"}
      [] OTHER -> {}

Token(n) ==
    /\ n \in Talking
    /\ run.tokens < MaxTokens
    /\ run' = [run EXCEPT !.tokens = @ + 1]
    /\ UNCHANGED language

\* The consumer of the stream is cancelled, and the run with it.
Abandon ==
    /\ run' = NoRun
    /\ UNCHANGED language

\* The input language detector writes the shared profile while a run is on.
LanguageDetected ==
    /\ language' \in Langs
    /\ UNCHANGED run

-----------------------------------------------------------------------------
GraphInit == run = NoRun /\ language = DefaultLang

GraphStep ==
    \/ RouterReplies \/ RouterCrashes
    \/ \E w \in Intents : WorkerReturns(w) \/ WorkerRaises(w)
    \/ SynthSkips \/ SynthCalls \/ SynthFinishes
    \/ \E retriable \in BOOLEAN : SynthRaises(retriable)

GraphNext ==
    \/ \E s \in Statuses : Invoke(s)
    \/ GraphStep
    \/ \E n \in {"router", "synthesizer"} \cup Intents : Token(n)
    \/ Abandon
    \/ LanguageDetected

GraphSpec == GraphInit /\ [][GraphNext]_graphVars

\* Groq calls and ClickHouse queries time out, so a node always ends.
FairGraphSpec == GraphSpec /\ WF_graphVars(GraphStep)

-----------------------------------------------------------------------------
(* Properties. *)

\* The type invariant: a run is always a well-formed state of the graph.
GraphTypeOK == run \in RunState /\ language \in Langs

\* The join: whenever the synthesizer works, also on its second attempt,
\* every worker the router asked for has ended and has contributed to
\* rag_contexts exactly once, and no other worker has (workflow.py:40-52 with
\* the additive reducer of state.py).
SynthesizerSeesEveryContext ==
    run.node \in {"synthesizer", "speaking", "done"} =>
        /\ run.waiting = {}
        /\ \A i \in Intents : run.rag[i] = IF i \in run.intents THEN 1 ELSE 0

\* Each run calls the synthesizer's LLM at most MaxAttempts times, and never
\* for a hand-off the caller has accepted.
AttemptsBounded ==
    /\ run.attempt <= MaxAttempts
    /\ run.node = "synthesizer" => run.attempt < MaxAttempts
    /\ run.status = "Accepted" /\ run.node \notin {"router"} => run.attempt = 0

\* A run always ends: it delivers an answer, raises, or is cancelled, however
\* often the language changes meanwhile and however the LLM calls end.
RunTerminates ==
    (run.node \in {"router", "workers", "synthesizer", "speaking"})
        ~> (run.node \in {"done", "failed", "none"})
=============================================================================
