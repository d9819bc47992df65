-------------------------- MODULE AgentGraphProofs --------------------------
(***************************************************************************)
(* Theorems about one graph run, for every set of intents, every retry     *)
(* limit and every number of tokens.                                       *)
(***************************************************************************)
EXTENDS AgentGraph, TLAPS

\* What makes the join and the attempt limit inductive: the rag_contexts
\* channel is empty and no attempt is made until the workers are joined, and
\* a run leaves the router towards the synthesizer only with no intent.
JoinInv ==
    /\ run.node \in {"none", "router", "workers"} =>
          run.attempt = 0 /\ \A i \in Intents : run.rag[i] = 0
    /\ run.node \in {"none", "router"} => run.waiting = {}
    /\ run.node = "none" => run.status = "None"
    /\ SynthesizerSeesEveryContext
    /\ AttemptsBounded

\* A run starts well-formed, whatever status it starts with.
LEMMA FreshRunType ==
    ASSUME NEW s \in Statuses
    PROVE  FreshRun(s) \in RunState
BY GraphAssumption DEF FreshRun, RunState, Statuses, Nodes

\* So does the value that stands for no run at all.
LEMMA NoRunType == NoRun \in RunState
BY GraphAssumption DEF NoRun, FreshRun, RunState, Statuses, Nodes

\* And the value left behind by an exception.
LEMMA FailedRunType == FailedRun \in RunState
BY NoRunType DEF FailedRun, RunState, Nodes

\* Leaving the router keeps the run well-formed, whatever it decided.
LEMMA RouteType ==
    ASSUME NEW r \in RunState
    PROVE  Route(r) \in RunState
<1> DEFINE n == IF r.intents = {} THEN "synthesizer" ELSE "workers"
<1>1. n \in Nodes /\ 0 \in 0 .. MaxTokens /\ r.intents \in SUBSET Intents
  BY GraphAssumption DEF Nodes, RunState
<1> HIDE DEF n
<1>2. [r EXCEPT !.node = n, !.waiting = r.intents, !.tokens = 0] \in RunState
  BY <1>1 DEF RunState
<1> QED
  BY <1>2 DEF Route, n

\* Every step of the workflow keeps the run well-formed.
LEMMA GraphStepType ==
    ASSUME GraphTypeOK, GraphStep
    PROVE  GraphTypeOK'
<1> USE GraphAssumption
<1>1. CASE RouterReplies
  <2>1. PICK raw \in SUBSET (Intents \cup {"other"}), action \in Actions,
             memory \in SUBSET Facts :
             run' = Route([run EXCEPT !.intents = raw \cap Intents,
                                      !.status = StatusOf(action),
                                      !.memory = memory])
    BY <1>1 DEF RouterReplies
  <2>2. StatusOf(action) \in Statuses
    BY DEF StatusOf, Statuses
  <2>3. [run EXCEPT !.intents = raw \cap Intents, !.status = StatusOf(action),
                    !.memory = memory] \in RunState
    BY <2>2 DEF GraphTypeOK, RunState
  <2> QED
    BY <1>1, <2>1, <2>3, RouteType DEF RouterReplies, GraphTypeOK
<1>2. CASE RouterCrashes
  <2>1. [run EXCEPT !.intents = {}, !.status = "Offered"] \in RunState
    BY DEF GraphTypeOK, RunState, Statuses
  <2> QED
    BY <1>2, <2>1, RouteType DEF RouterCrashes, GraphTypeOK
<1>3. ASSUME NEW w \in Intents, WorkerReturns(w)
      PROVE  GraphTypeOK'
  <2> DEFINE r == [run EXCEPT !.waiting = @ \ {w}]
  <2>1. r \in RunState
    BY DEF GraphTypeOK, RunState
  <2>2. run' = (IF r.waiting = {} THEN Joined(r) ELSE r) /\ language' = language
    BY <1>3 DEF WorkerReturns
  <2> HIDE DEF r
  <2>3. Joined(r) \in RunState
    <3> DEFINE g == [i \in Intents |->
                       r.rag[i] + IF i \in r.intents THEN 1 ELSE 0]
    <3>1. g \in [Intents -> Nat]
      BY <2>1 DEF RunState
    <3>2. "synthesizer" \in Nodes /\ 0 \in 0 .. MaxTokens
      BY DEF Nodes
    <3> HIDE DEF g
    <3>3. [r EXCEPT !.node = "synthesizer", !.tokens = 0, !.rag = g]
             \in RunState
      BY <2>1, <3>1, <3>2 DEF RunState
    <3> QED
      BY <3>3 DEF Joined, g
  <2> QED
    BY <2>1, <2>2, <2>3 DEF GraphTypeOK
<1>4. ASSUME NEW w \in Intents, WorkerRaises(w)
      PROVE  GraphTypeOK'
  BY <1>4, FailedRunType DEF WorkerRaises, GraphTypeOK
<1>5. CASE SynthSkips
  BY <1>5 DEF SynthSkips, GraphTypeOK, RunState, Nodes
<1>6. CASE SynthCalls
  <2>1. Supported(language) \in Langs
    BY DEF Supported
  <2>2. run.attempt + 1 \in Nat /\ 0 \in 0 .. MaxTokens /\ "speaking" \in Nodes
    BY DEF GraphTypeOK, RunState, Nodes
  <2>3. [run EXCEPT !.node = "speaking", !.attempt = @ + 1,
                    !.lang = Supported(language), !.tokens = 0] \in RunState
    BY <2>1, <2>2 DEF GraphTypeOK, RunState
  <2> QED
    BY <1>6, <2>3 DEF SynthCalls, GraphTypeOK
<1>7. CASE SynthFinishes
  BY <1>7 DEF SynthFinishes, GraphTypeOK, RunState, Nodes
<1>8. ASSUME NEW retriable \in BOOLEAN, SynthRaises(retriable)
      PROVE  GraphTypeOK'
  BY <1>8, FailedRunType DEF SynthRaises, GraphTypeOK, RunState, Nodes
<1> QED
  BY <1>1, <1>2, <1>3, <1>4, <1>5, <1>6, <1>7, <1>8 DEF GraphStep
-----------------------------------------------------------------------------
\* The joint invariant holds when a run begins or is abandoned ...
LEMMA FreshJoinInv ==
    ASSUME run' = NoRun \/ \E s \in Statuses : run' = FreshRun(s)
    PROVE  JoinInv'
BY GraphAssumption DEF JoinInv, SynthesizerSeesEveryContext, AttemptsBounded,
   NoRun, FreshRun, Statuses

\* ... and every step of the workflow preserves it.
LEMMA GraphStepJoinInv ==
    ASSUME GraphTypeOK, JoinInv, GraphStep
    PROVE  JoinInv'
<1> USE GraphAssumption DEF JoinInv, SynthesizerSeesEveryContext,
                            AttemptsBounded
<1>1. CASE RouterReplies
  BY <1>1 DEF RouterReplies, GraphTypeOK, RunState, Route
<1>2. CASE RouterCrashes
  BY <1>2 DEF RouterCrashes, GraphTypeOK, RunState, Route
<1>3. ASSUME NEW w \in Intents, WorkerReturns(w)
      PROVE  JoinInv'
  BY <1>3 DEF WorkerReturns, GraphTypeOK, RunState, Joined
<1>4. ASSUME NEW w \in Intents, WorkerRaises(w)
      PROVE  JoinInv'
  BY <1>4 DEF WorkerRaises, FailedRun, NoRun, FreshRun
<1>5. CASE SynthSkips
  BY <1>5 DEF SynthSkips, GraphTypeOK, RunState
<1>6. CASE SynthCalls
  BY <1>6 DEF SynthCalls, GraphTypeOK, RunState
<1>7. CASE SynthFinishes
  BY <1>7 DEF SynthFinishes, GraphTypeOK, RunState
<1>8. ASSUME NEW retriable \in BOOLEAN, SynthRaises(retriable)
      PROVE  JoinInv'
  BY <1>8 DEF SynthRaises, GraphTypeOK, RunState, FailedRun, NoRun, FreshRun
<1> QED
  BY <1>1, <1>2, <1>3, <1>4, <1>5, <1>6, <1>7, <1>8 DEF GraphStep

\* The inductive invariant of a graph run.
GraphInv == GraphTypeOK /\ JoinInv

\* It holds initially.
LEMMA GraphInitInv ==
    ASSUME GraphInit
    PROVE  GraphInv
<1>1. GraphTypeOK
  BY NoRunType, GraphAssumption DEF GraphInit, GraphTypeOK
<1>2. JoinInv
  BY GraphAssumption DEF GraphInit, JoinInv, SynthesizerSeesEveryContext,
     AttemptsBounded, NoRun, FreshRun
<1> QED
  BY <1>1, <1>2 DEF GraphInv

\* Every step of the graph and of its surroundings preserves it.
LEMMA GraphNextInv ==
    ASSUME GraphInv, [GraphNext]_graphVars
    PROVE  GraphInv'
<1> USE DEF GraphInv
<1>1. ASSUME NEW s \in Statuses, Invoke(s)
      PROVE  GraphInv'
  BY <1>1, FreshRunType, FreshJoinInv DEF Invoke, GraphTypeOK
<1>2. CASE GraphStep
  BY <1>2, GraphStepType, GraphStepJoinInv
<1>3. ASSUME NEW n \in {"router", "synthesizer"} \cup Intents, Token(n)
      PROVE  GraphInv'
  <2>1. run.tokens + 1 \in 0 .. MaxTokens
    BY <1>3, GraphAssumption DEF Token, GraphTypeOK, RunState
  <2>2. GraphTypeOK'
    BY <1>3, <2>1 DEF Token, GraphTypeOK, RunState
  <2>3. JoinInv'
    BY <1>3 DEF Token, GraphTypeOK, RunState, JoinInv,
       SynthesizerSeesEveryContext, AttemptsBounded
  <2> QED
    BY <2>2, <2>3
<1>4. CASE Abandon
  BY <1>4, NoRunType, FreshJoinInv DEF Abandon, GraphTypeOK
<1>5. CASE LanguageDetected
  BY <1>5 DEF LanguageDetected, GraphTypeOK, JoinInv,
     SynthesizerSeesEveryContext, AttemptsBounded
<1>6. CASE UNCHANGED graphVars
  BY <1>6 DEF graphVars, GraphTypeOK, JoinInv, SynthesizerSeesEveryContext,
     AttemptsBounded
<1> QED
  BY <1>1, <1>2, <1>3, <1>4, <1>5, <1>6 DEF GraphNext

\* For any number of workers, attempts and tokens: a run stays well-formed,
\* the synthesizer sees each requested context exactly once, and its LLM is
\* called within the attempt limit (workflow.py:29-57).
THEOREM GraphSafety ==
    GraphSpec => [](GraphTypeOK /\ SynthesizerSeesEveryContext
                      /\ AttemptsBounded)
<1>1. GraphInv => GraphTypeOK /\ SynthesizerSeesEveryContext
                    /\ AttemptsBounded
  BY DEF GraphInv, JoinInv
<1> QED
  BY <1>1, GraphInitInv, GraphNextInv, PTL DEF GraphSpec
=============================================================================
