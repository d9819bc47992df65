--------------------------- MODULE SentimentProofs ---------------------------
(***************************************************************************)
(* Proofs about voice sentiment, for any number of calls, utterances and   *)
(* chunks on their way, with the pool's one process.                       *)
(***************************************************************************)
EXTENDS Sentiment, SequenceTheorems, TLAPS

Frame  == [kind: {"started", "stopped"}, n: Chunks, direction: {"up"}]
Result == [call: Calls, n: Chunks, direction: {"up", "down"}, ok: BOOLEAN]

\* What TypeOK leaves open: the sequences are sequences.
WorkType ==
    /\ up \in [Calls -> Seq(Frame)]
    /\ tasks \in Seq(Analysis) /\ jobs \in Seq(Analysis)
    /\ running \in [Workers -> Seq(Analysis)]
    /\ \A w \in Workers : Len(running[w]) <= 1
    /\ results \in Seq(Result)

-----------------------------------------------------------------------------
(* The order of utterances. *)

\* An entry is no later than another of its call.
Precedes(a, b) == a.call = b.call => a.n <= b.n

\* The entries of one sequence, and those of two.
Ordered(s) == \A i, j \in DOMAIN s : i < j => Precedes(s[i], s[j])
Before(s, t) == \A i \in DOMAIN s, j \in DOMAIN t : Precedes(s[i], t[j])

\* Analyses overtake each other nowhere on their way to the event loop.
WorkInOrder ==
    /\ Ordered(results) /\ Ordered(jobs) /\ Ordered(tasks)
    /\ \A w \in Workers :
          /\ Before(results, running[w])
          /\ Before(running[w], jobs) /\ Before(running[w], tasks)
    /\ Before(results, jobs) /\ Before(results, tasks) /\ Before(jobs, tasks)

\* The utterances the detector has not finished, and those whose analysis is
\* still to come.
Unfinished(c) == {said[c]} \cup (({vad[c]} \cup ToSet(down[c])) \ {Silence})
Coming(c) == Unfinished(c) \cup {up[c][i].n : i \in DOMAIN up[c]}

\* No analysis, and no emotion pushed, is later than those to come.
Timely(a) == /\ \A n \in Coming(a.call) : a.n <= n
             /\ pushed[a.call] <= a.n

WorkBefore == \A a \in ToSet(results) \cup Pending : Timely(a)

PushedBefore == \A c \in Calls : \A n \in Coming(c) : pushed[c] <= n

\* Frames come back in the order in which the utterances passed.
FramesInOrder(c) ==
    /\ \A i, j \in DOMAIN up[c] : i < j => up[c][i].n <= up[c][j].n
    /\ \A i \in DOMAIN up[c] : \A n \in Unfinished(c) : up[c][i].n <= n

ChunksInOrder(c) ==
    /\ \A n \in Unfinished(c) : vad[c] <= n
    /\ \A i, j \in DOMAIN down[c] :
          i < j /\ down[c][j] # Silence => down[c][i] <= down[c][j]
    /\ \A i \in DOMAIN down[c] : down[c][i] <= said[c]

InOrder(c) == FramesInOrder(c) /\ ChunksInOrder(c)

-----------------------------------------------------------------------------
(* The audio of an utterance. *)

\* The detector's frames alternate, from what the processor has heard of to
\* what the detector is in.
Alternates(c) ==
    /\ up[c] = <<>> => (hearing[c] <=> vad[c] # 0)
    /\ up[c] # <<>> =>
          /\ hearing[c] <=> up[c][1].kind = "stopped"
          /\ vad[c] # 0 <=> up[c][Len(up[c])].kind = "started"
    /\ \A i, j \in DOMAIN up[c] : j = i + 1 => up[c][i].kind # up[c][j].kind

\* While the processor is hearing an utterance its buffer has none older.
BufferIsCurrent(c) ==
    hearing[c] => \A chunk \in buffer[c] \ {Silence} :
                     IF up[c] = <<>> THEN vad[c] <= chunk
                     ELSE up[c][1].n <= chunk

CallerInv == \A c \in Calls : InOrder(c) /\ Alternates(c) /\ BufferIsCurrent(c)

WorkInv == NoOlderAudio /\ WorkInOrder /\ WorkBefore /\ PushedBefore

Inv == TypeOK /\ WorkType /\ CallerInv /\ WorkInv

-----------------------------------------------------------------------------
(* Types. *)

\* Chunks are numbers, and Silence is a chunk if there is a call.
LEMMA ChunkNumbers ==
    Chunks \subseteq Nat /\ \A c \in Calls : Silence \in Chunks
BY SentimentAssumption DEF Chunks, Silence

\* An utterance that may begin is a chunk.
LEMMA NextUtterance ==
    ASSUME NEW c \in Calls, said[c] \in Chunks, said[c] < Utterances[c]
    PROVE  said[c] + 1 \in Chunks
<1>1. said[c] \in Nat /\ Utterances[c] \in Nat
  BY ChunkNumbers, SentimentAssumption
<1>2. said[c] + 1 \in 0 .. Utterances[c]
  BY <1>1
<1> QED
  BY <1>2 DEF Chunks

TypeInv == TypeOK /\ WorkType

\* The pool has one process.
LEMMA OneWorker == \E w : w \in Workers /\ Workers = {w}
BY SentimentAssumption

\* The outcome of an analysis is of the same call and utterance.
LEMMA OutcomeType ==
    ASSUME NEW a \in Analysis, NEW ok \in BOOLEAN
    PROVE  /\ Outcome(a, ok) \in Result /\ Outcome(a, ok).ok = ok
           /\ Outcome(a, ok).call = a.call /\ Outcome(a, ok).n = a.n
BY DEF Analysis, Outcome, Result

\* The set of analyses is well-formed if the sequences are.
LEMMA PendingType ==
    ASSUME tasks \in Seq(Analysis), jobs \in Seq(Analysis),
           running \in [Workers -> Seq(Analysis)]
    PROVE  Pending \subseteq Analysis
<1>1. \A s \in Seq(Analysis) : ToSet(s) \subseteq Analysis
  BY DEF ToSet
<1> QED
  BY <1>1 DEF Pending

LEMMA TypeInit ==
    ASSUME Init
    PROVE  TypeInv
<1>1. tasks \in Seq(Analysis) /\ jobs \in Seq(Analysis) /\ results \in Seq(Result)
      /\ running \in [Workers -> Seq(Analysis)] /\ up \in [Calls -> Seq(Frame)]
      /\ \A w \in Workers : Len(running[w]) <= 1
  BY DEF Init
<1>2. WorkType
  BY <1>1 DEF WorkType
<1>3. [c \in Calls |-> 0] \in [Calls -> Chunks]
  BY ChunkNumbers DEF Silence
<1>4. Pending \subseteq Analysis
  BY <1>1, PendingType
<1>5. /\ [c \in Calls |-> <<>>] \in [Calls -> Seq(Chunks)]
      /\ [c \in Calls |-> {}] \in [Calls -> SUBSET Chunks]
  OBVIOUS
<1>6. broken => jobs = <<>> /\ \A w \in Workers : running[w] = <<>>
  BY DEF Init
<1>7. TypeOK
  BY <1>3, <1>4, <1>5, <1>6 DEF Init, TypeOK
<1> QED
  BY <1>2, <1>7 DEF TypeInv

\* What the caller, the detector and the processor do.
LEMMA CallTypes ==
    ASSUME TypeInv, NEW c \in Calls,
           \/ Speaks(c) \/ Pauses(c) \/ Audio(c) \/ Detects(c)
           \/ Started(c) \/ Stopped(c) \/ HangsUp(c)
    PROVE  TypeInv'
<1> USE DEF TypeInv
<1>1. /\ Silence \in Chunks /\ Silence = 0
      /\ said[c] \in Chunks /\ vad[c] \in Chunks /\ buffer[c] \subseteq Chunks
      /\ down[c] \in Seq(Chunks) /\ up[c] \in Seq(Frame)
  BY ChunkNumbers DEF TypeOK, WorkType, Silence
<1>2. ASSUME UNCHANGED <<jobs, running, broken, results, pushed, emotion>>,
             tasks' \in Seq(Analysis), up' \in [Calls -> Seq(Frame)],
             live' \in [Calls -> BOOLEAN], talking' \in [Calls -> BOOLEAN],
             said' \in [Calls -> Chunks], vad' \in [Calls -> Chunks],
             down' \in [Calls -> Seq(Chunks)], hearing' \in [Calls -> BOOLEAN],
             buffer' \in [Calls -> SUBSET Chunks]
      PROVE  TypeInv'
  <2>1. WorkType'
    BY <1>2 DEF WorkType
  <2>2. (Pending \subseteq Analysis)'
    BY <1>2, <2>1 DEF WorkType, Pending, ToSet
  <2>3. TypeOK'
    BY <1>2, <2>2 DEF TypeOK
  <2> QED
    BY <2>1, <2>3
<1>3. /\ live \in [Calls -> BOOLEAN] /\ talking \in [Calls -> BOOLEAN]
      /\ said \in [Calls -> Chunks] /\ vad \in [Calls -> Chunks]
      /\ down \in [Calls -> Seq(Chunks)] /\ hearing \in [Calls -> BOOLEAN]
      /\ buffer \in [Calls -> SUBSET Chunks]
      /\ tasks \in Seq(Analysis) /\ up \in [Calls -> Seq(Frame)]
  BY DEF TypeOK, WorkType
<1>4. CASE Speaks(c)
  <2>1. said[c] + 1 \in Chunks
    BY <1>1, <1>4, NextUtterance DEF Speaks
  <2> QED
    BY <1>2, <1>3, <1>4, <2>1 DEF Speaks, path, work
<1>5. CASE Pauses(c)
  BY <1>2, <1>3, <1>5 DEF Pauses, path, work
<1>6. CASE Audio(c)
  <2> DEFINE chunk == IF talking[c] THEN said[c] ELSE Silence
  <2>1. chunk \in Chunks
    BY <1>1
  <2>2. /\ down' = [down EXCEPT ![c] = Append(@, chunk)]
        /\ buffer' \in {buffer, [buffer EXCEPT ![c] = @ \cup {chunk}]}
        /\ UNCHANGED <<caller, vad, up, hearing, work, pushed, emotion>>
    BY <1>6 DEF Audio
  <2> HIDE DEF chunk
  <2>3. down' \in [Calls -> Seq(Chunks)]
    <3>1. Append(down[c], chunk) \in Seq(Chunks)
      BY <1>1, <2>1
    <3> QED
      BY <1>3, <2>2, <3>1
  <2>4. buffer' \in [Calls -> SUBSET Chunks]
    <3>1. buffer[c] \cup {chunk} \in SUBSET Chunks
      BY <1>1, <2>1
    <3> QED
      BY <1>3, <2>2, <3>1
  <2> QED
    BY <1>2, <1>3, <2>2, <2>3, <2>4 DEF caller, work
<1>7. CASE Detects(c)
  <2>1. Head(down[c]) \in Chunks /\ Tail(down[c]) \in Seq(Chunks)
    BY <1>1, <1>7 DEF Detects
  <2>2. \A n \in Chunks : Vad("started", n) \in Frame /\ Vad("stopped", n) \in Frame
    BY DEF Vad, Frame
  <2>3. PICK n \in Chunks, frame \in Frame :
           /\ vad' \in {vad, [vad EXCEPT ![c] = n]}
           /\ up' \in {up, [up EXCEPT ![c] = Append(@, frame)]}
    BY <1>1, <1>7, <2>1, <2>2 DEF Detects
  <2>4. vad' \in [Calls -> Chunks]
    BY <1>3, <2>3
  <2>5. up' \in [Calls -> Seq(Frame)]
    <3>1. Append(up[c], frame) \in Seq(Frame)
      BY <1>1
    <3> QED
      BY <1>3, <2>3, <3>1
  <2>6. down' \in [Calls -> Seq(Chunks)]
    BY <1>3, <1>7, <2>1 DEF Detects
  <2> QED
    BY <1>2, <1>3, <1>7, <2>4, <2>5, <2>6 DEF Detects, caller, work
<1>8. CASE Started(c)
  <2>1. Tail(up[c]) \in Seq(Frame)
    BY <1>1, <1>8 DEF Started
  <2> QED
    BY <1>2, <1>3, <1>8, <2>1 DEF Started, caller, work
<1>9. CASE Stopped(c)
  <2>1. Tail(up[c]) \in Seq(Frame) /\ Head(up[c]) \in Frame
    BY <1>1, <1>9 DEF Stopped
  <2>2. Head(up[c]).n \in Chunks /\ Head(up[c]).direction \in {"up", "down"}
    BY <2>1 DEF Frame
  <2> DEFINE task == [call |-> c, n |-> Head(up[c]).n, audio |-> buffer[c],
                      direction |-> Head(up[c]).direction]
  <2>3. tasks' \in Seq(Analysis)
    <3>1. task \in Analysis
      BY <1>1, <2>2 DEF Analysis
    <3>2. tasks' = tasks \/ tasks' = Append(tasks, task)
      BY <1>9 DEF Stopped
    <3> HIDE DEF task
    <3>3. Append(tasks, task) \in Seq(Analysis)
      BY <1>3, <3>1
    <3> QED
      BY <1>3, <3>2, <3>3
  <2> QED
    BY <1>2, <1>3, <1>9, <2>1, <2>3 DEF Stopped, caller
<1>10. CASE HangsUp(c)
  BY <1>1, <1>2, <1>3, <1>10 DEF HangsUp, work
<1> QED
  BY <1>4, <1>5, <1>6, <1>7, <1>8, <1>9, <1>10

\* What the pool has when its process breaks.
Lost(w) == running[w] \o jobs
Failed(w) == [i \in DOMAIN Lost(w) |-> Outcome(Lost(w)[i], FALSE)]

LEMMA FailedType ==
    ASSUME TypeInv, NEW w \in Workers
    PROVE  /\ Lost(w) \in Seq(Analysis) /\ Failed(w) \in Seq(Result)
           /\ DOMAIN Failed(w) = DOMAIN Lost(w)
           /\ \A i \in DOMAIN Lost(w) :
                 /\ Failed(w)[i].call = Lost(w)[i].call
                 /\ Failed(w)[i].n = Lost(w)[i].n
<1>1. Lost(w) \in Seq(Analysis)
  BY DEF TypeInv, WorkType, Lost
<1>2. \A i \in DOMAIN Lost(w) : Lost(w)[i] \in Analysis
  BY <1>1
<1>3. Failed(w) \in Seq(Result)
  <2>1. DOMAIN Lost(w) = 1 .. Len(Lost(w)) /\ Len(Lost(w)) \in Nat
    BY <1>1
  <2>2. \A i \in DOMAIN Lost(w) : Outcome(Lost(w)[i], FALSE) \in Result
    BY <1>2, OutcomeType
  <2>3. Failed(w) \in [1 .. Len(Lost(w)) -> Result]
    BY <2>1, <2>2 DEF Failed
  <2> QED
    BY <2>1, <2>3
<1> QED
  BY <1>1, <1>2, <1>3, OutcomeType DEF Failed

\* What the event loop and the pool do.
LEMMA WorkTypes ==
    ASSUME TypeInv,
           \/ Analyze \/ Resumes
           \/ \E w \in Workers : Takes(w) \/ Classifies(w) \/ Breaks(w)
    PROVE  TypeInv'
<1> USE DEF TypeInv
<1>1. /\ tasks \in Seq(Analysis) /\ jobs \in Seq(Analysis)
      /\ results \in Seq(Result) /\ running \in [Workers -> Seq(Analysis)]
      /\ pushed \in [Calls -> Chunks] /\ emotion \in [Calls -> Chunks]
      /\ broken \in BOOLEAN
      /\ broken => jobs = <<>> /\ \A w \in Workers : running[w] = <<>>
      /\ \A w \in Workers : Len(running[w]) <= 1
  BY DEF TypeOK, WorkType
<1>2. ASSUME UNCHANGED <<caller, path>>,
             tasks' \in Seq(Analysis), jobs' \in Seq(Analysis),
             results' \in Seq(Result), running' \in [Workers -> Seq(Analysis)],
             \A w \in Workers : Len(running'[w]) <= 1, broken' \in BOOLEAN,
             broken' => jobs' = <<>> /\ \A w \in Workers : running'[w] = <<>>,
             pushed' \in [Calls -> Chunks], emotion' \in [Calls -> Chunks]
      PROVE  TypeInv'
  <2>1. WorkType'
    BY <1>2 DEF WorkType, path
  <2>2. (Pending \subseteq Analysis)'
    <3>1. \A s \in Seq(Analysis) : ToSet(s) \subseteq Analysis
      BY DEF ToSet
    <3> QED
      BY <1>2, <3>1 DEF Pending
  <2>3. TypeOK'
    BY <1>2, <2>2 DEF TypeOK, caller, path
  <2> QED
    BY <2>1, <2>3
<1>3. CASE Analyze
  <2>1. Head(tasks) \in Analysis /\ Tail(tasks) \in Seq(Analysis)
    BY <1>1, <1>3 DEF Analyze
  <2>2. jobs' \in Seq(Analysis)
    BY <1>1, <1>3, <2>1 DEF Analyze
  <2> QED
    BY <1>1, <1>2, <1>3, <2>1, <2>2 DEF Analyze
<1>4. CASE Resumes
  <2>1. Head(results) \in Result /\ Tail(results) \in Seq(Result)
    BY <1>1, <1>4 DEF Resumes
  <2>2. Head(results).n \in Chunks
    BY <2>1 DEF Result
  <2>3. pushed' \in [Calls -> Chunks] /\ emotion' \in [Calls -> Chunks]
    BY <1>1, <1>4, <2>2 DEF Resumes
  <2> QED
    BY <1>1, <1>2, <1>4, <2>1, <2>3 DEF Resumes
<1>5. ASSUME NEW w \in Workers, Takes(w)
      PROVE  TypeInv'
  <2>1. Head(jobs) \in Analysis /\ Tail(jobs) \in Seq(Analysis)
    BY <1>1, <1>5 DEF Takes
  <2>2. <<Head(jobs)>> \in Seq(Analysis) /\ Len(<<Head(jobs)>>) = 1
    BY <2>1
  <2>3. /\ running' \in [Workers -> Seq(Analysis)]
        /\ \A v \in Workers : Len(running'[v]) <= 1
    BY <1>1, <1>5, <2>2 DEF Takes
  <2> QED
    BY <1>1, <1>2, <1>5, <2>1, <2>3 DEF Takes
<1>6. ASSUME NEW w \in Workers, Classifies(w)
      PROVE  TypeInv'
  <2>1. Head(running[w]) \in Analysis
    BY <1>1, <1>6 DEF Classifies
  <2>2. results' \in Seq(Result)
    <3>1. PICK ok \in BOOLEAN :
             results' = Append(results, Outcome(Head(running[w]), ok))
      BY <1>6 DEF Classifies
    <3> QED
      BY <1>1, <2>1, <3>1, OutcomeType
  <2>3. /\ running' \in [Workers -> Seq(Analysis)]
        /\ \A v \in Workers : Len(running'[v]) <= 1
        /\ \A v \in Workers : running[v] = <<>> => running'[v] = <<>>
    BY <1>1, <1>6 DEF Classifies
  <2> QED
    BY <1>1, <1>2, <1>6, <2>2, <2>3 DEF Classifies
<1>7. ASSUME NEW w \in Workers, Breaks(w)
      PROVE  TypeInv'
  <2>1. results' = results \o Failed(w)
    BY <1>7 DEF Breaks, Failures, Failed, Lost
  <2>2. results' \in Seq(Result)
    BY <1>1, <2>1, FailedType
  <2>3. /\ jobs' = <<>> /\ jobs' \in Seq(Analysis) /\ broken' = TRUE
        /\ running' \in [Workers -> Seq(Analysis)]
        /\ \A v \in Workers : running'[v] = <<>> /\ Len(running'[v]) <= 1
    BY <1>7 DEF Breaks
  <2> QED
    BY <1>1, <1>2, <1>7, <2>2, <2>3 DEF Breaks
<1> QED
  BY <1>3, <1>4, <1>5, <1>6, <1>7

-----------------------------------------------------------------------------
(* One call's audio and frames. *)

CallInv(c) == InOrder(c) /\ Alternates(c) /\ BufferIsCurrent(c)

\* What the two sets hold.
LEMMA UnfinishedHas ==
    \A c, n : n \in Unfinished(c) <=>
                 \/ n = said[c]
                 \/ n # 0 /\ n = vad[c]
                 \/ n # 0 /\ \E i \in DOMAIN down[c] : n = down[c][i]
BY DEF Unfinished, ToSet, Silence

LEMMA ComingHas ==
    \A c, n : n \in Coming(c) <=>
                 n \in Unfinished(c) \/ \E i \in DOMAIN up[c] : n = up[c][i].n
BY DEF Coming

\* The types of one call's part of the state.
LEMMA CallPart ==
    ASSUME TypeInv, NEW c \in Calls
    PROVE  /\ up[c] \in Seq(Frame) /\ down[c] \in Seq(Nat)
           /\ said[c] \in Nat /\ vad[c] \in Nat /\ buffer[c] \subseteq Nat
           /\ hearing[c] \in BOOLEAN
           /\ \A i \in DOMAIN up[c] : up[c][i] \in Frame /\ up[c][i].n \in Nat
           /\ \A i \in DOMAIN down[c] : down[c][i] \in Nat
           /\ Unfinished(c) \subseteq Nat /\ Coming(c) \subseteq Nat
<1>1. Chunks \subseteq Nat
  BY ChunkNumbers
<1>2. /\ up[c] \in Seq(Frame) /\ down[c] \in Seq(Chunks)
      /\ said[c] \in Chunks /\ vad[c] \in Chunks /\ buffer[c] \subseteq Chunks
      /\ hearing[c] \in BOOLEAN
  BY DEF TypeInv, TypeOK, WorkType
<1>3. \A i \in DOMAIN up[c] : up[c][i] \in Frame /\ up[c][i].n \in Nat
  <2>1. \A i \in DOMAIN up[c] : up[c][i] \in Frame
    BY <1>2
  <2> QED
    BY <1>1, <2>1 DEF Frame
<1>4. \A i \in DOMAIN down[c] : down[c][i] \in Chunks
  BY <1>2
<1>5. down[c] \in Seq(Nat)
  <2>1. Len(down[c]) \in Nat /\ down[c] \in [1 .. Len(down[c]) -> Chunks]
    BY <1>2
  <2>2. down[c] \in [1 .. Len(down[c]) -> Nat]
    BY <1>1, <2>1
  <2> QED
    BY <2>1, <2>2
<1>6. Unfinished(c) \subseteq Nat
  <2>1. ASSUME NEW n \in Unfinished(c)
        PROVE  n \in Nat
    <3>1. \/ n = said[c] \/ n = vad[c]
          \/ \E i \in DOMAIN down[c] : n = down[c][i]
      BY <2>1, UnfinishedHas, Zenon
    <3> QED
      BY <1>1, <1>2, <1>4, <3>1
  <2> QED
    BY <2>1
<1>7. Coming(c) \subseteq Nat
  BY <1>3, <1>6, ComingHas
<1> QED
  BY <1>1, <1>2, <1>3, <1>4, <1>5, <1>6, <1>7

\* A call nothing happens to keeps its invariant.
LEMMA CallUnchanged ==
    ASSUME NEW c \in Calls, CallInv(c),
           up'[c] = up[c], down'[c] = down[c], said'[c] = said[c],
           vad'[c] = vad[c], hearing'[c] = hearing[c], buffer'[c] = buffer[c]
    PROVE  CallInv(c)' /\ Coming(c)' = Coming(c)
BY DEF CallInv, InOrder, FramesInOrder, ChunksInOrder, Alternates, BufferIsCurrent, Unfinished, Coming

\* A frame leaves the front of its queue.
LEMMA TailFacts ==
    ASSUME NEW E, NEW s \in Seq(E), s # <<>>
    PROVE  /\ Head(s) = s[1] /\ 1 \in DOMAIN s /\ Len(s) \in DOMAIN s
           /\ Len(Tail(s)) = Len(s) - 1 /\ DOMAIN s = 1 .. Len(s)
           /\ DOMAIN Tail(s) = 1 .. Len(s) - 1
           /\ \A i \in DOMAIN Tail(s) :
                 Tail(s)[i] = s[i + 1] /\ i + 1 \in DOMAIN s /\ i \in Nat
           /\ Tail(s) = <<>> <=> Len(s) = 1
<1>1. Len(s) \in Nat \ {0} /\ DOMAIN s = 1 .. Len(s) /\ Head(s) = s[1]
  OBVIOUS
<1>2. Len(Tail(s)) = Len(s) - 1 /\ DOMAIN Tail(s) = 1 .. Len(s) - 1
  OBVIOUS
<1>3. \A i \in 1 .. Len(s) - 1 : Tail(s)[i] = s[i + 1]
  OBVIOUS
<1>4. Tail(s) = <<>> <=> Len(s) = 1
  BY <1>1, <1>2, EmptySeq, HeadTailProperties
<1> QED
  BY <1>1, <1>2, <1>3, <1>4

\* An element joins the end of a sequence.
LEMMA AppendFacts ==
    ASSUME NEW E, NEW s \in Seq(E), NEW x
    PROVE  /\ DOMAIN Append(s, x) = 1 .. Len(s) + 1 /\ Len(s) \in Nat
           /\ Len(Append(s, x)) = Len(s) + 1 /\ DOMAIN s = 1 .. Len(s)
           /\ \A i \in DOMAIN s : Append(s, x)[i] = s[i] /\ i # Len(s) + 1
           /\ \A i \in DOMAIN Append(s, x) : i \in DOMAIN s \/ i = Len(s) + 1
           /\ Append(s, x)[Len(s) + 1] = x /\ Append(s, x) # <<>>
OBVIOUS

\* The processor takes the front frame.
LEMMA FrameTaken ==
    ASSUME TypeInv, NEW c \in Calls, CallInv(c), up[c] # <<>>,
           up'[c] = Tail(up[c]), UNCHANGED <<down, vad, said>>,
           hearing'[c] = (Head(up[c]).kind = "started"),
           hearing'[c] => buffer'[c] = {}
    PROVE  /\ CallInv(c)' /\ Coming(c)' \subseteq Coming(c)
           /\ Head(up[c]).n \in Coming(c)
           /\ \A n \in Coming(c)' : Head(up[c]).n <= n
           /\ Head(up[c]).kind = "stopped" <=> hearing[c]
           /\ hearing[c] => \A chunk \in buffer[c] \ {Silence} :
                               Head(up[c]).n <= chunk
<1> USE DEF CallInv
<1>1. /\ up[c] \in Seq(Frame)
      /\ \A i \in DOMAIN up[c] : up[c][i] \in Frame /\ up[c][i].n \in Nat
  BY CallPart
<1>2. /\ Head(up[c]) = up[c][1] /\ 1 \in DOMAIN up[c]
      /\ Len(up[c]) \in DOMAIN up[c]
      /\ Len(Tail(up[c])) = Len(up[c]) - 1 /\ DOMAIN up[c] = 1 .. Len(up[c])
      /\ DOMAIN Tail(up[c]) = 1 .. Len(up[c]) - 1
      /\ \A i \in DOMAIN Tail(up[c]) :
            Tail(up[c])[i] = up[c][i + 1] /\ i + 1 \in DOMAIN up[c] /\ i \in Nat
      /\ Tail(up[c]) = <<>> <=> Len(up[c]) = 1
  BY <1>1, TailFacts
<1>3. Unfinished(c)' = Unfinished(c)
  BY DEF Unfinished
<1>4. InOrder(c)'
  BY <1>2, <1>3 DEF InOrder, FramesInOrder, ChunksInOrder
<1>5. Alternates(c)'
  <2>1. \A i \in DOMAIN up[c] : up[c][i].kind \in {"started", "stopped"}
    BY <1>1 DEF Frame
  <2>2. CASE Len(up[c]) = 1
    <3>1. up'[c] = <<>> /\ \A i \in DOMAIN up'[c] : FALSE
      BY <1>2, <2>2
    <3>2. vad'[c] # 0 <=> up[c][1].kind = "started"
      BY <1>2, <2>2 DEF Alternates
    <3> QED
      BY <1>2, <3>1, <3>2 DEF Alternates
  <2>3. CASE Len(up[c]) # 1
    <3>1. /\ 1 \in DOMAIN up'[c] /\ up'[c] # <<>>
          /\ up'[c][1] = up[c][2] /\ 2 \in DOMAIN up[c]
          /\ Len(up'[c]) \in DOMAIN up'[c]
          /\ up'[c][Len(up'[c])] = up[c][Len(up[c])]
      BY <1>1, <1>2, <2>3
    <3>2. up[c][1].kind # up[c][2].kind
      <4>1. \A i, j \in DOMAIN up[c] : j = i + 1 => up[c][i].kind # up[c][j].kind
        BY DEF Alternates
      <4>2. 1 \in DOMAIN up[c] /\ 2 \in DOMAIN up[c] /\ 2 = 1 + 1
        BY <1>2, <3>1
      <4> QED
        BY <4>1, <4>2, Zenon
    <3>3. hearing'[c] <=> up'[c][1].kind = "stopped"
      BY <1>2, <2>1, <3>1, <3>2
    <3>4. vad'[c] # 0 <=> up'[c][Len(up'[c])].kind = "started"
      BY <1>2, <3>1 DEF Alternates
    <3>5. \A i, j \in DOMAIN up'[c] :
             j = i + 1 => up'[c][i].kind # up'[c][j].kind
      BY <1>2 DEF Alternates
    <3> QED
      BY <3>1, <3>3, <3>4, <3>5 DEF Alternates
  <2> QED
    BY <2>2, <2>3
<1>6. BufferIsCurrent(c)'
  BY DEF BufferIsCurrent
<1>7. Coming(c)' \subseteq Coming(c) /\ Head(up[c]).n \in Coming(c)
  BY <1>2, <1>3 DEF Coming
<1>8. ASSUME NEW n \in Coming(c)'
      PROVE  Head(up[c]).n <= n
  <2>1. CASE n \in Unfinished(c)
    BY <1>2, <2>1 DEF InOrder, FramesInOrder, ChunksInOrder
  <2>2. CASE n \notin Unfinished(c)
    <3>1. PICK i \in DOMAIN up'[c] : n = up'[c][i].n
      BY <1>3, <2>2 DEF Coming
    <3>2. n = up[c][i + 1].n /\ i + 1 \in DOMAIN up[c] /\ 1 < i + 1
      BY <1>2, <3>1
    <3> QED
      BY <1>2, <3>2 DEF InOrder, FramesInOrder, ChunksInOrder
  <2> QED
    BY <2>1, <2>2
<1>9. Head(up[c]).kind = "stopped" <=> hearing[c]
  BY <1>2 DEF Alternates
<1>10. hearing[c] => \A chunk \in buffer[c] \ {Silence} : Head(up[c]).n <= chunk
  BY <1>2 DEF BufferIsCurrent
<1> QED
  BY <1>4, <1>5, <1>6, <1>7, <1>8, <1>9, <1>10

\* The detector's frame joins the queue.
LEMMA FrameJoins ==
    ASSUME TypeInv, NEW c \in Calls, CallInv(c), NEW f \in Frame,
           up'[c] = Append(up[c], f),
           hearing'[c] = hearing[c], buffer'[c] = buffer[c],
           f.n \in Unfinished(c), Unfinished(c)' \subseteq Unfinished(c),
           \A n \in Unfinished(c)' : f.n <= n,
           f.kind = "stopped" <=> vad[c] # 0,
           f.kind = "started" <=> vad'[c] # 0,
           vad[c] # 0 => f.n = vad[c]
    PROVE  /\ FramesInOrder(c)' /\ Alternates(c)' /\ BufferIsCurrent(c)'
           /\ Coming(c)' \subseteq Coming(c)
<1>1. /\ up[c] \in Seq(Frame)
      /\ \A i \in DOMAIN up[c] : up[c][i] \in Frame /\ up[c][i].n \in Nat
      /\ hearing[c] \in BOOLEAN
  BY CallPart
<1>2. /\ DOMAIN up'[c] = 1 .. Len(up[c]) + 1 /\ Len(up[c]) \in Nat
      /\ Len(up'[c]) = Len(up[c]) + 1 /\ DOMAIN up[c] = 1 .. Len(up[c])
      /\ \A i \in DOMAIN up[c] : up'[c][i] = up[c][i] /\ i # Len(up[c]) + 1
      /\ \A i \in DOMAIN up'[c] : i \in DOMAIN up[c] \/ i = Len(up[c]) + 1
      /\ up'[c][Len(up[c]) + 1] = f /\ up'[c] # <<>>
  BY <1>1, AppendFacts
<1>3. FramesInOrder(c)'
  <2>1. ASSUME NEW i \in DOMAIN up'[c], NEW j \in DOMAIN up'[c], i < j
        PROVE  up'[c][i].n <= up'[c][j].n
    <3>1. i \in DOMAIN up[c]
      BY <1>2, <2>1
    <3>2. CASE j \in DOMAIN up[c]
      BY <1>2, <2>1, <3>1, <3>2 DEF CallInv, InOrder, FramesInOrder
    <3>3. CASE j = Len(up[c]) + 1
      BY <1>2, <3>1, <3>3 DEF CallInv, InOrder, FramesInOrder
    <3> QED
      BY <1>2, <3>2, <3>3
  <2>2. ASSUME NEW i \in DOMAIN up'[c], NEW n \in Unfinished(c)'
        PROVE  up'[c][i].n <= n
    BY <1>2, <2>2 DEF CallInv, InOrder, FramesInOrder
  <2> QED
    BY <2>1, <2>2 DEF FramesInOrder
<1>4. f.kind \in {"started", "stopped"}
  BY DEF Frame
<1>5. Alternates(c)'
  <2>1. hearing'[c] <=> up'[c][1].kind = "stopped"
    <3>1. CASE up[c] = <<>>
      <4>1. up'[c][1] = f
        BY <1>2, <3>1
      <4> QED
        BY <3>1, <4>1 DEF CallInv, Alternates
    <3>2. CASE up[c] # <<>>
      <4>1. up'[c][1] = up[c][1]
        BY <1>1, <1>2, <3>2
      <4> QED
        BY <3>2, <4>1 DEF CallInv, Alternates
    <3> QED
      BY <3>1, <3>2
  <2>2. vad'[c] # 0 <=> up'[c][Len(up'[c])].kind = "started"
    BY <1>2
  <2>3. ASSUME NEW i \in DOMAIN up'[c], NEW j \in DOMAIN up'[c], j = i + 1
        PROVE  up'[c][i].kind # up'[c][j].kind
    <3>1. i \in DOMAIN up[c] /\ up'[c][i] = up[c][i]
      BY <1>2, <2>3
    <3>2. CASE j \in DOMAIN up[c]
      BY <1>2, <2>3, <3>1, <3>2 DEF CallInv, Alternates
    <3>3. CASE j = Len(up[c]) + 1
      <4>1. i = Len(up[c]) /\ up[c] # <<>> /\ up'[c][j] = f
        BY <1>1, <1>2, <2>3, <3>1, <3>3
      <4> QED
        BY <1>4, <3>1, <4>1 DEF CallInv, Alternates
    <3> QED
      BY <1>2, <3>2, <3>3
  <2> QED
    BY <1>2, <2>1, <2>2, <2>3 DEF Alternates
<1>6. BufferIsCurrent(c)'
  <2>1. CASE up[c] = <<>>
    <3>1. up'[c][1] = f
      BY <1>2, <2>1
    <3>2. hearing[c] => vad[c] # 0
      BY <2>1 DEF CallInv, Alternates
    <3> QED
      BY <1>2, <2>1, <3>1, <3>2 DEF CallInv, BufferIsCurrent
  <2>2. CASE up[c] # <<>>
    <3>1. up'[c][1] = up[c][1]
      BY <1>1, <1>2, <2>2
    <3> QED
      BY <1>2, <2>2, <3>1 DEF CallInv, BufferIsCurrent
  <2> QED
    BY <2>1, <2>2
<1>7. ASSUME NEW n \in Coming(c)'
      PROVE  n \in Coming(c)
  <2>1. CASE n \in Unfinished(c)'
    BY <2>1, ComingHas
  <2>2. CASE n \notin Unfinished(c)'
    <3>1. PICK i \in DOMAIN up'[c] : n = up'[c][i].n
      BY <2>2 DEF Coming
    <3>2. CASE i \in DOMAIN up[c]
      BY <1>2, <3>1, <3>2 DEF Coming
    <3>3. CASE i = Len(up[c]) + 1
      BY <1>2, <3>1, <3>3 DEF Coming
    <3> QED
      BY <1>2, <3>2, <3>3
  <2> QED
    BY <2>1, <2>2
<1> QED
  BY <1>3, <1>5, <1>6, <1>7

\* The detector reaches a chunk.
LEMMA DetectsCall ==
    ASSUME TypeInv, NEW c \in Calls, CallInv(c), Detects(c)
    PROVE  CallInv(c)' /\ Coming(c)' \subseteq Coming(c)
<1> DEFINE h == Head(down[c])
<1>1. /\ down[c] \in Seq(Nat) /\ said[c] \in Nat /\ vad[c] \in Nat
      /\ \A i \in DOMAIN down[c] : down[c][i] \in Nat
      /\ Unfinished(c) \subseteq Nat /\ h \in Chunks
      /\ up \in [Calls -> Seq(Frame)] /\ vad \in [Calls -> Chunks]
  <2>1. h \in Chunks
    BY DEF TypeInv, TypeOK, Detects
  <2> QED
    BY <2>1, CallPart DEF TypeInv, TypeOK, WorkType
<1>2. /\ said'[c] = said[c] /\ hearing'[c] = hearing[c]
      /\ buffer'[c] = buffer[c] /\ down'[c] = Tail(down[c]) /\ down[c] # <<>>
  BY DEF Detects, caller, TypeInv, TypeOK
<1>3. /\ h = down[c][1] /\ 1 \in DOMAIN down[c]
      /\ DOMAIN down[c] = 1 .. Len(down[c])
      /\ \A i \in DOMAIN down'[c] :
            /\ down'[c][i] = down[c][i + 1] /\ i + 1 \in DOMAIN down[c]
            /\ i \in Nat /\ 1 < i + 1
  <2>1. \A i \in DOMAIN Tail(down[c]) : i \in Nat /\ 1 < i + 1
    BY <1>1, <1>2, TailFacts
  <2> QED
    BY <1>1, <1>2, <2>1, TailFacts
<1>4. /\ \A i, j \in DOMAIN down'[c] :
            i < j /\ down'[c][j] # Silence => down'[c][i] <= down'[c][j]
      /\ \A i \in DOMAIN down'[c] : down'[c][i] <= said'[c]
  BY <1>2, <1>3 DEF CallInv, InOrder, ChunksInOrder
<1>5. h # 0 => /\ h \in Unfinished(c) /\ h <= said[c]
               /\ \A i \in DOMAIN down'[c] : down'[c][i] # 0 => h <= down'[c][i]
  <2>1. h # 0 => h \in Unfinished(c)
    BY <1>3, UnfinishedHas
  <2> QED
    BY <1>3, <2>1 DEF CallInv, InOrder, ChunksInOrder, Silence
<1> HIDE DEF h
<1>6. \A n \in Unfinished(c)' :
         \/ n # 0 /\ n = vad'[c]
         \/ /\ n \in Unfinished(c)
            /\ n = said[c] \/ \E i \in DOMAIN down'[c] : n # 0 /\ n = down'[c][i]
  <2>1. ASSUME NEW n \in Unfinished(c)', ~(n # 0 /\ n = vad'[c])
        PROVE  /\ n \in Unfinished(c)
               /\ n = said[c] \/ \E i \in DOMAIN down'[c] : n # 0 /\ n = down'[c][i]
    <3>1. n = said[c] \/ \E i \in DOMAIN down'[c] : n # 0 /\ n = down'[c][i]
      BY <1>2, <2>1 DEF Unfinished, ToSet, Silence
    <3>2. CASE n = said[c]
      BY <3>1, <3>2, UnfinishedHas
    <3>3. CASE \E i \in DOMAIN down'[c] : n # 0 /\ n = down'[c][i]
      <4>1. \E i \in DOMAIN down[c] : n # 0 /\ n = down[c][i]
        BY <1>3, <3>3
      <4> QED
        BY <3>1, <4>1, UnfinishedHas
    <3> QED
      BY <3>1, <3>2, <3>3
  <2> QED
    BY <2>1
<1>7. CASE /\ h # 0 /\ vad[c] = 0 /\ vad'[c] = h
           /\ up'[c] = Append(up[c], Vad("started", h))
  <2>1. Unfinished(c)' \subseteq Unfinished(c)
    BY <1>5, <1>6, <1>7
  <2>2. \A n \in Unfinished(c)' : h <= n
    <3>1. h \in Nat
      BY <1>1, ChunkNumbers
    <3> QED
      BY <1>5, <1>6, <1>7, <3>1
  <2>3. /\ Vad("started", h) \in Frame
        /\ Vad("started", h).n = h /\ Vad("started", h).kind = "started"
    BY <1>1 DEF Vad, Frame
  <2>4. /\ FramesInOrder(c)' /\ Alternates(c)' /\ BufferIsCurrent(c)'
        /\ Coming(c)' \subseteq Coming(c)
    BY <1>2, <1>5, <1>7, <2>1, <2>2, <2>3, FrameJoins
  <2>5. ChunksInOrder(c)'
    BY <1>4, <1>7, <2>2 DEF ChunksInOrder
  <2> QED
    BY <2>4, <2>5 DEF CallInv, InOrder
<1>8. CASE /\ h = 0 /\ vad[c] # 0 /\ vad'[c] = 0
           /\ up'[c] = Append(up[c], Vad("stopped", vad[c]))
  <2>1. Unfinished(c)' \subseteq Unfinished(c)
    BY <1>6, <1>8
  <2>2. vad[c] \in Unfinished(c) /\ \A n \in Unfinished(c)' : vad[c] <= n
    <3>1. vad[c] \in Unfinished(c)
      BY <1>8, UnfinishedHas, Zenon
    <3> QED
      BY <2>1, <3>1 DEF CallInv, InOrder, ChunksInOrder
  <2>3. /\ Vad("stopped", vad[c]) \in Frame
        /\ Vad("stopped", vad[c]).n = vad[c]
        /\ Vad("stopped", vad[c]).kind = "stopped"
    BY <1>1 DEF Vad, Frame
  <2>4. /\ FramesInOrder(c)' /\ Alternates(c)' /\ BufferIsCurrent(c)'
        /\ Coming(c)' \subseteq Coming(c)
    BY <1>2, <1>8, <2>1, <2>2, <2>3, FrameJoins
  <2>5. ChunksInOrder(c)'
    BY <1>1, <1>4, <1>8, <2>1 DEF ChunksInOrder
  <2> QED
    BY <2>4, <2>5 DEF CallInv, InOrder
<1>9. CASE vad'[c] = vad[c] /\ up'[c] = up[c]
  <2>1. Unfinished(c)' \subseteq Unfinished(c)
    BY <1>6, <1>9, UnfinishedHas
  <2>2. InOrder(c)'
    BY <1>4, <1>9, <2>1 DEF CallInv, InOrder, FramesInOrder, ChunksInOrder
  <2>3. Alternates(c)' /\ BufferIsCurrent(c)'
    BY <1>2, <1>9 DEF CallInv, Alternates, BufferIsCurrent
  <2>4. Coming(c)' \subseteq Coming(c)
    BY <1>9, <2>1 DEF Coming
  <2> QED
    BY <2>2, <2>3, <2>4 DEF CallInv
<1>10. \/ /\ h # 0 /\ vad[c] = 0 /\ vad'[c] = h
          /\ up'[c] = Append(up[c], Vad("started", h))
       \/ /\ h = 0 /\ vad[c] # 0 /\ vad'[c] = 0
          /\ up'[c] = Append(up[c], Vad("stopped", vad[c]))
       \/ vad'[c] = vad[c] /\ up'[c] = up[c]
  BY <1>1 DEF Detects, Silence, h
<1> QED
  BY <1>7, <1>8, <1>9, <1>10

\* Audio passes the processor.
LEMMA AudioCall ==
    ASSUME TypeInv, NEW c \in Calls, CallInv(c), Audio(c)
    PROVE  CallInv(c)' /\ Coming(c)' \subseteq Coming(c)
<1> DEFINE chunk == IF talking[c] THEN said[c] ELSE Silence
<1>1. /\ down[c] \in Seq(Nat) /\ said[c] \in Nat /\ vad[c] \in Nat
      /\ \A i \in DOMAIN down[c] : down[c][i] \in Nat
      /\ down \in [Calls -> Seq(Chunks)] /\ buffer \in [Calls -> SUBSET Chunks]
      /\ up[c] \in Seq(Frame)
  BY CallPart DEF TypeInv, TypeOK
<1>2. chunk = 0 \/ chunk = said[c]
  BY DEF Silence
<1>3. /\ said'[c] = said[c] /\ vad'[c] = vad[c] /\ hearing'[c] = hearing[c]
      /\ up'[c] = up[c]
  BY DEF Audio, caller
<1>4. /\ down'[c] = Append(down[c], chunk)
      /\ hearing[c] => buffer'[c] = buffer[c] \cup {chunk}
  BY <1>1 DEF Audio
<1> HIDE DEF chunk
<1>5. /\ DOMAIN down'[c] = 1 .. Len(down[c]) + 1 /\ Len(down[c]) \in Nat
      /\ DOMAIN down[c] = 1 .. Len(down[c])
      /\ \A i \in DOMAIN down[c] : down'[c][i] = down[c][i]
      /\ \A i \in DOMAIN down'[c] : i \in DOMAIN down[c] \/ i = Len(down[c]) + 1
      /\ down'[c][Len(down[c]) + 1] = chunk
  BY <1>1, <1>4, AppendFacts
<1>6. \A n \in Unfinished(c)' : n \in Unfinished(c)
  <2>1. ASSUME NEW n \in Unfinished(c)'
        PROVE  n \in Unfinished(c)
    <3>1. \/ n = said[c]
          \/ n # 0 /\ n = vad[c]
          \/ n # 0 /\ \E i \in DOMAIN down'[c] : n = down'[c][i]
      <4>1. \/ n = said'[c]
            \/ n # 0 /\ n = vad'[c]
            \/ n # 0 /\ \E i \in DOMAIN down'[c] : n = down'[c][i]
        BY <2>1 DEF Unfinished, ToSet, Silence
      <4> QED
        BY <1>3, <4>1
    <3>2. CASE n = said[c]
      BY <3>2, UnfinishedHas, Zenon
    <3>3. CASE n # 0 /\ n = vad[c]
      BY <3>3, UnfinishedHas, Zenon
    <3>4. ASSUME n # 0, NEW i \in DOMAIN down'[c], n = down'[c][i]
          PROVE  n \in Unfinished(c)
      <4>1. CASE i \in DOMAIN down[c]
        <5>1. \E k \in DOMAIN down[c] : n = down[c][k]
          BY <1>5, <3>4, <4>1
        <5> QED
          BY <3>4, <5>1, UnfinishedHas
      <4>2. CASE i = Len(down[c]) + 1
        <5>1. n = said[c]
          BY <1>2, <1>5, <3>4, <4>2
        <5> QED
          BY <5>1, UnfinishedHas
      <4> QED
        BY <1>5, <4>1, <4>2
    <3> QED
      BY <3>1, <3>2, <3>3, <3>4
  <2> QED
    BY <2>1
<1>7. FramesInOrder(c)'
  BY <1>3, <1>6 DEF CallInv, InOrder, FramesInOrder
<1>8. ChunksInOrder(c)'
  <2>1. \A n \in Unfinished(c)' : vad'[c] <= n
    BY <1>3, <1>6 DEF CallInv, InOrder, ChunksInOrder
  <2>2. \A i \in DOMAIN down'[c] : down'[c][i] <= said'[c]
    BY <1>1, <1>2, <1>3, <1>5 DEF CallInv, InOrder, ChunksInOrder
  <2>3. ASSUME NEW i \in DOMAIN down'[c], NEW j \in DOMAIN down'[c], i < j,
               down'[c][j] # Silence
        PROVE  down'[c][i] <= down'[c][j]
    <3>1. i \in DOMAIN down[c]
      BY <1>5, <2>3
    <3>2. CASE j \in DOMAIN down[c]
      BY <1>5, <2>3, <3>1, <3>2 DEF CallInv, InOrder, ChunksInOrder
    <3>3. CASE j = Len(down[c]) + 1
      <4>1. down'[c][j] = said'[c]
        BY <1>2, <1>3, <1>5, <2>3, <3>3 DEF Silence
      <4> QED
        BY <2>2, <4>1
    <3> QED
      BY <1>5, <3>2, <3>3
  <2> QED
    BY <2>1, <2>2, <2>3 DEF ChunksInOrder
<1>9. Alternates(c)'
  BY <1>3 DEF CallInv, Alternates
<1>10. BufferIsCurrent(c)'
  <2>1. said[c] \in Unfinished(c)
    BY UnfinishedHas
  <2>2. up[c] # <<>> => 1 \in DOMAIN up[c]
    BY <1>1
  <2>3. up[c] = <<>> => vad[c] <= said[c]
    BY <2>1 DEF CallInv, InOrder, ChunksInOrder
  <2>4. up[c] # <<>> => up[c][1].n <= said[c]
    BY <2>1, <2>2 DEF CallInv, InOrder, FramesInOrder
  <2> QED
    BY <1>2, <1>3, <1>4, <2>3, <2>4 DEF CallInv, BufferIsCurrent, Silence
<1>11. Coming(c)' \subseteq Coming(c)
  BY <1>3, <1>6 DEF Coming
<1> QED
  BY <1>7, <1>8, <1>9, <1>10, <1>11 DEF CallInv, InOrder

\* A new utterance is later than all before it.
LEMMA SpeaksCall ==
    ASSUME TypeInv, NEW c \in Calls, CallInv(c), Speaks(c)
    PROVE  CallInv(c)' /\ \A n \in Coming(c)' : \E m \in Coming(c) : m <= n
<1>1. /\ said[c] \in Nat /\ vad[c] \in Nat /\ Unfinished(c) \subseteq Nat
      /\ Coming(c) \subseteq Nat
      /\ \A i \in DOMAIN up[c] : up[c][i].n \in Nat
      /\ \A i \in DOMAIN down[c] : down[c][i] \in Nat
      /\ said'[c] = said[c] + 1 /\ UNCHANGED <<down, vad, up, hearing, buffer>>
  BY CallPart DEF Speaks, path, TypeInv, TypeOK
<1>2. said[c] \in Unfinished(c)
  BY UnfinishedHas
<1>3. \A n \in Unfinished(c)' : n \in Unfinished(c) \/ n = said[c] + 1
  BY <1>1 DEF Unfinished
<1>4. FramesInOrder(c)'
  <2>1. \A i \in DOMAIN up[c] : up[c][i].n <= said[c] + 1
    BY <1>1, <1>2 DEF CallInv, InOrder, FramesInOrder
  <2> QED
    BY <1>1, <1>3, <2>1 DEF CallInv, InOrder, FramesInOrder
<1>5. ChunksInOrder(c)'
  BY <1>1, <1>2, <1>3 DEF CallInv, InOrder, ChunksInOrder
<1>6. Alternates(c)' /\ BufferIsCurrent(c)'
  BY <1>1 DEF CallInv, Alternates, BufferIsCurrent
<1>7. ASSUME NEW n \in Coming(c)'
      PROVE  \E m \in Coming(c) : m <= n
  <2>1. CASE n \in Coming(c)
    BY <1>1, <2>1
  <2>2. CASE n = said[c] + 1
    <3>1. said[c] \in Coming(c)
      BY <1>2, ComingHas
    <3> QED
      BY <1>1, <2>2, <3>1
  <2> QED
    BY <1>1, <1>3, <2>1, <2>2 DEF Coming
<1> QED
  BY <1>4, <1>5, <1>6, <1>7 DEF CallInv, InOrder

\* A call that ends leaves nothing on the way.
LEMMA HangsUpCall ==
    ASSUME TypeInv, NEW c \in Calls, CallInv(c), HangsUp(c)
    PROVE  CallInv(c)' /\ Coming(c)' \subseteq Coming(c)
<1>1. /\ said'[c] = said[c] /\ said[c] \in Nat
      /\ down'[c] = <<>> /\ up'[c] = <<>> /\ vad'[c] = 0 /\ hearing'[c] = FALSE
  BY CallPart DEF HangsUp, TypeInv, TypeOK, WorkType
<1>2. /\ \A i \in DOMAIN down'[c] : FALSE
      /\ \A i \in DOMAIN up'[c] : FALSE
  BY <1>1
<1>3. Unfinished(c)' = {said[c]}
  BY <1>1, <1>2 DEF Unfinished, ToSet, Silence
<1>4. InOrder(c)'
  BY <1>1, <1>2, <1>3 DEF InOrder, FramesInOrder, ChunksInOrder
<1>5. Alternates(c)' /\ BufferIsCurrent(c)'
  BY <1>1, <1>2 DEF Alternates, BufferIsCurrent
<1>6. Coming(c)' = {said[c]}
  BY <1>2, <1>3 DEF Coming
<1>7. said[c] \in Coming(c)
  BY DEF Coming, Unfinished
<1> QED
  BY <1>4, <1>5, <1>6, <1>7 DEF CallInv

\* The processor takes a frame.
LEMMA ProcessorCall ==
    ASSUME TypeInv, NEW c \in Calls, CallInv(c), Started(c) \/ Stopped(c)
    PROVE  /\ CallInv(c)' /\ Coming(c)' \subseteq Coming(c)
           /\ Head(up[c]) \in Frame /\ Head(up[c]).n \in Coming(c)
           /\ \A n \in Coming(c)' : Head(up[c]).n <= n
           /\ Stopped(c) => \A chunk \in buffer[c] \ {Silence} :
                               Head(up[c]).n <= chunk
<1>1. /\ up[c] # <<>> /\ up'[c] = Tail(up[c]) /\ UNCHANGED <<down, vad, said>>
      /\ hearing'[c] = (Head(up[c]).kind = "started")
      /\ hearing'[c] => buffer'[c] = {}
  BY DEF Started, Stopped, caller, TypeInv, TypeOK, WorkType
<1>2. Head(up[c]) \in Frame
  BY <1>1 DEF TypeInv, WorkType
<1>3. /\ CallInv(c)' /\ Coming(c)' \subseteq Coming(c)
      /\ Head(up[c]).n \in Coming(c)
      /\ \A n \in Coming(c)' : Head(up[c]).n <= n
      /\ Head(up[c]).kind = "stopped" <=> hearing[c]
      /\ hearing[c] => \A chunk \in buffer[c] \ {Silence} : Head(up[c]).n <= chunk
  BY <1>1, FrameTaken
<1> QED
  BY <1>2, <1>3 DEF Stopped

\* What any step of a call leaves of its frames and of those of the others.
LEMMA CallSteps ==
    ASSUME TypeInv, CallerInv, NEW c \in Calls,
           \/ Speaks(c) \/ Pauses(c) \/ Audio(c) \/ Detects(c)
           \/ Started(c) \/ Stopped(c) \/ HangsUp(c)
    PROVE  /\ CallerInv'
           /\ \A d \in Calls : \A n \in Coming(d)' : \E m \in Coming(d) : m <= n
<1>1. \A d \in Calls : CallInv(d) /\ Coming(d) \subseteq Nat
  BY CallPart DEF CallerInv, CallInv
<1>2. ASSUME NEW d \in Calls, Coming(d)' \subseteq Coming(d)
      PROVE  \A n \in Coming(d)' : \E m \in Coming(d) : m <= n
  BY <1>1, <1>2
<1>3. CallInv(c)' /\ \A n \in Coming(c)' : \E m \in Coming(c) : m <= n
  <2>1. CASE Speaks(c)
    BY <1>1, <2>1, SpeaksCall
  <2>2. CASE Pauses(c)
    <3>1. UNCHANGED <<up, down, said, vad, hearing, buffer>>
      BY <2>2 DEF Pauses, path
    <3> QED
      BY <1>1, <1>2, <3>1, CallUnchanged
  <2>3. CASE Audio(c)
    BY <1>1, <1>2, <2>3, AudioCall
  <2>4. CASE Detects(c)
    BY <1>1, <1>2, <2>4, DetectsCall
  <2>5. CASE Started(c) \/ Stopped(c)
    BY <1>1, <1>2, <2>5, ProcessorCall
  <2>6. CASE HangsUp(c)
    BY <1>1, <1>2, <2>6, HangsUpCall
  <2> QED
    BY <2>1, <2>2, <2>3, <2>4, <2>5, <2>6
<1>4. ASSUME NEW d \in Calls, d # c
      PROVE  CallInv(d)' /\ \A n \in Coming(d)' : \E m \in Coming(d) : m <= n
  <2>1. /\ up'[d] = up[d] /\ down'[d] = down[d] /\ said'[d] = said[d]
        /\ vad'[d] = vad[d] /\ hearing'[d] = hearing[d] /\ buffer'[d] = buffer[d]
    <3>1. /\ said \in [Calls -> Chunks] /\ vad \in [Calls -> Chunks]
          /\ down \in [Calls -> Seq(Chunks)] /\ hearing \in [Calls -> BOOLEAN]
          /\ buffer \in [Calls -> SUBSET Chunks] /\ up \in [Calls -> Seq(Frame)]
      BY DEF TypeInv, TypeOK, WorkType
    <3>2. CASE Detects(c)
      BY <1>4, <3>1, <3>2 DEF Detects, caller
    <3>3. CASE Audio(c)
      BY <1>4, <3>1, <3>3 DEF Audio, caller
    <3> QED
      BY <1>4, <3>1, <3>2, <3>3
         DEF Speaks, Pauses, Started, Stopped, HangsUp, caller, path
  <2> QED
    BY <1>1, <1>2, <2>1, CallUnchanged
<1> QED
  BY <1>3, <1>4 DEF CallerInv, CallInv

-----------------------------------------------------------------------------
(* The order of analyses. *)

\* The front of a queue is taken.
LEMMA OrderTail ==
    ASSUME NEW E, NEW s \in Seq(E), s # <<>>
    PROVE  /\ Ordered(s) => Ordered(Tail(s)) /\ Before(<<Head(s)>>, Tail(s))
           /\ \A t : Before(s, t) => Before(Tail(s), t) /\ Before(<<Head(s)>>, t)
           /\ \A t : Before(t, s) => Before(t, Tail(s)) /\ Before(t, <<Head(s)>>)
<1>1. /\ Head(s) = s[1] /\ 1 \in DOMAIN s
      /\ \A i \in DOMAIN Tail(s) :
            Tail(s)[i] = s[i + 1] /\ i + 1 \in DOMAIN s /\ i \in Nat
  BY TailFacts
<1>2. DOMAIN <<Head(s)>> = {1} /\ <<Head(s)>>[1] = s[1]
  BY <1>1
<1>3. ASSUME Ordered(s)
      PROVE  Ordered(Tail(s)) /\ Before(<<Head(s)>>, Tail(s))
  <2>1. \A i, j \in DOMAIN Tail(s) : i < j => i + 1 < j + 1
    BY <1>1
  <2>2. \A i \in DOMAIN Tail(s) : 1 < i + 1
    <3>1. DOMAIN Tail(s) = 1 .. Len(s) - 1
      BY TailFacts
    <3> QED
      BY <3>1
  <2> QED
    BY <1>1, <1>2, <1>3, <2>1, <2>2 DEF Ordered, Before
<1>4. ASSUME NEW t, Before(s, t)
      PROVE  Before(Tail(s), t) /\ Before(<<Head(s)>>, t)
  BY <1>1, <1>2, <1>4 DEF Before
<1>5. ASSUME NEW t, Before(t, s)
      PROVE  Before(t, Tail(s)) /\ Before(t, <<Head(s)>>)
  BY <1>1, <1>2, <1>5 DEF Before
<1> QED
  BY <1>3, <1>4, <1>5

\* An entry joins a queue.
LEMMA OrderAppend ==
    ASSUME NEW E, NEW s \in Seq(E), NEW x
    PROVE  /\ Ordered(s) /\ Before(s, <<x>>) => Ordered(Append(s, x))
           /\ \A t : Before(s, t) /\ Before(<<x>>, t) => Before(Append(s, x), t)
           /\ \A t : Before(t, s) /\ Before(t, <<x>>) => Before(t, Append(s, x))
<1>1. /\ \A i \in DOMAIN s : Append(s, x)[i] = s[i] /\ i # Len(s) + 1
      /\ \A i \in DOMAIN Append(s, x) : i \in DOMAIN s \/ i = Len(s) + 1
      /\ Append(s, x)[Len(s) + 1] = x
      /\ DOMAIN s = 1 .. Len(s) /\ Len(s) \in Nat
  BY AppendFacts
<1>2. DOMAIN <<x>> = {1} /\ <<x>>[1] = x
  OBVIOUS
<1>3. ASSUME Ordered(s), Before(s, <<x>>),
             NEW i \in DOMAIN Append(s, x), NEW j \in DOMAIN Append(s, x), i < j
      PROVE  Precedes(Append(s, x)[i], Append(s, x)[j])
  <2>1. i \in DOMAIN s
    BY <1>1, <1>3
  <2>2. CASE j \in DOMAIN s
    BY <1>1, <1>3, <2>1, <2>2 DEF Ordered
  <2>3. CASE j = Len(s) + 1
    BY <1>1, <1>2, <1>3, <2>1, <2>3 DEF Before
  <2> QED
    BY <1>1, <2>2, <2>3
<1>4. ASSUME NEW t, Before(s, t), Before(<<x>>, t)
      PROVE  Before(Append(s, x), t)
  BY <1>1, <1>2, <1>4 DEF Before
<1>5. ASSUME NEW t, Before(t, s), Before(t, <<x>>)
      PROVE  Before(t, Append(s, x))
  BY <1>1, <1>2, <1>5 DEF Before
<1> QED
  BY <1>3, <1>4, <1>5 DEF Ordered

\* Two queues are joined.
LEMMA OrderConcat ==
    ASSUME NEW E, NEW s \in Seq(E), NEW u \in Seq(E)
    PROVE  /\ Ordered(s) /\ Ordered(u) /\ Before(s, u) => Ordered(s \o u)
           /\ \A t : Before(s, t) /\ Before(u, t) => Before(s \o u, t)
           /\ \A t : Before(t, s) /\ Before(t, u) => Before(t, s \o u)
<1>1. /\ Len(s) \in Nat /\ Len(u) \in Nat
      /\ DOMAIN s = 1 .. Len(s) /\ DOMAIN u = 1 .. Len(u)
      /\ DOMAIN (s \o u) = 1 .. Len(s) + Len(u)
      /\ \A i \in DOMAIN (s \o u) :
            (s \o u)[i] = IF i <= Len(s) THEN s[i] ELSE u[i - Len(s)]
  OBVIOUS
<1>2. \A i \in DOMAIN (s \o u) :
         \/ i \in DOMAIN s /\ (s \o u)[i] = s[i]
         \/ /\ i \notin DOMAIN s /\ i - Len(s) \in DOMAIN u
            /\ (s \o u)[i] = u[i - Len(s)]
  BY <1>1
<1>3. ASSUME Ordered(s), Ordered(u), Before(s, u),
             NEW i \in DOMAIN (s \o u), NEW j \in DOMAIN (s \o u), i < j
      PROVE  Precedes((s \o u)[i], (s \o u)[j])
  <2>1. CASE j \in DOMAIN s
    <3>1. i \in DOMAIN s
      BY <1>1, <1>3, <2>1
    <3> QED
      BY <1>2, <1>3, <2>1, <3>1 DEF Ordered
  <2>2. CASE j \notin DOMAIN s /\ i \in DOMAIN s
    BY <1>2, <1>3, <2>2 DEF Before
  <2>3. CASE j \notin DOMAIN s /\ i \notin DOMAIN s
    <3>1. i - Len(s) < j - Len(s)
      BY <1>1, <1>3
    <3>2. /\ i - Len(s) \in DOMAIN u /\ (s \o u)[i] = u[i - Len(s)]
          /\ j - Len(s) \in DOMAIN u /\ (s \o u)[j] = u[j - Len(s)]
      BY <1>2, <2>3
    <3> QED
      BY <1>3, <3>1, <3>2 DEF Ordered
  <2> QED
    BY <2>1, <2>2, <2>3
<1>4. ASSUME NEW t, Before(s, t), Before(u, t)
      PROVE  Before(s \o u, t)
  <2>1. ASSUME NEW i \in DOMAIN (s \o u), NEW j \in DOMAIN t
        PROVE  Precedes((s \o u)[i], t[j])
    BY <1>2, <1>4 DEF Before
  <2> QED
    BY <2>1 DEF Before
<1>5. ASSUME NEW t, Before(t, s), Before(t, u)
      PROVE  Before(t, s \o u)
  <2>1. ASSUME NEW i \in DOMAIN (s \o u), NEW j \in DOMAIN t
        PROVE  Precedes(t[j], (s \o u)[i])
    BY <1>2, <1>5 DEF Before
  <2> QED
    BY <2>1 DEF Before
<1> QED
  BY <1>3, <1>4, <1>5 DEF Ordered

\* An outcome keeps the place of its analysis, and an empty queue has none.
LEMMA OrderSame ==
    ASSUME NEW s, NEW r, DOMAIN r = DOMAIN s,
           \A i \in DOMAIN s : r[i].call = s[i].call /\ r[i].n = s[i].n
    PROVE  /\ Ordered(s) => Ordered(r)
           /\ \A t : Before(s, t) => Before(r, t)
           /\ \A t : Before(t, s) => Before(t, r)
BY DEF Ordered, Before, Precedes

LEMMA OrderEmpty ==
    ASSUME NEW E, NEW s \in Seq(E)
    PROVE  /\ Ordered(<<>>) /\ \A t : Before(<<>>, t) /\ Before(t, <<>>)
           /\ Len(s) <= 1 => Ordered(s)
           /\ Len(s) <= 1 /\ s # <<>> => s = <<Head(s)>>
<1>1. \A i \in DOMAIN <<>> : FALSE
  OBVIOUS
<1>2. Ordered(<<>>) /\ \A t : Before(<<>>, t) /\ Before(t, <<>>)
  BY <1>1 DEF Ordered, Before
<1>3. Len(s) <= 1 => Ordered(s)
  <2>1. DOMAIN s = 1 .. Len(s) /\ Len(s) \in Nat
    OBVIOUS
  <2> QED
    BY <2>1 DEF Ordered
<1>4. ASSUME Len(s) <= 1, s # <<>>
      PROVE  s = <<Head(s)>>
  <2>1. Len(s) = 1 /\ Head(s) \in E /\ Head(s) = s[1]
    <3>1. Len(s) \in Nat \ {0}
      BY <1>4, EmptySeq
    <3> QED
      BY <1>4, <3>1, TailFacts, HeadTailProperties
  <2>2. <<Head(s)>> \in Seq(E) /\ Len(<<Head(s)>>) = 1 /\ <<Head(s)>>[1] = s[1]
    BY <2>1
  <2> QED
    BY <2>1, <2>2, SeqEqual
<1> QED
  BY <1>2, <1>3, <1>4

-----------------------------------------------------------------------------
(* What is on its way through the pool. *)

LEMMA EntriesTail ==
    ASSUME NEW E, NEW s \in Seq(E), s # <<>>
    PROVE  ToSet(Tail(s)) \subseteq ToSet(s) /\ Head(s) \in ToSet(s)
BY TailFacts DEF ToSet

LEMMA EntriesAppend ==
    ASSUME NEW E, NEW s \in Seq(E), NEW x
    PROVE  ToSet(Append(s, x)) \subseteq ToSet(s) \cup {x}
BY AppendFacts DEF ToSet

LEMMA EntriesConcat ==
    ASSUME NEW E, NEW s \in Seq(E), NEW u \in Seq(E)
    PROVE  ToSet(s \o u) \subseteq ToSet(s) \cup ToSet(u)
<1>1. /\ Len(s) \in Nat /\ Len(u) \in Nat
      /\ DOMAIN s = 1 .. Len(s) /\ DOMAIN u = 1 .. Len(u)
      /\ DOMAIN (s \o u) = 1 .. Len(s) + Len(u)
      /\ \A i \in DOMAIN (s \o u) :
            (s \o u)[i] = IF i <= Len(s) THEN s[i] ELSE u[i - Len(s)]
  OBVIOUS
<1>2. \A i \in DOMAIN (s \o u) :
         \/ i \in DOMAIN s /\ (s \o u)[i] = s[i]
         \/ i - Len(s) \in DOMAIN u /\ (s \o u)[i] = u[i - Len(s)]
  BY <1>1
<1> QED
  BY <1>2 DEF ToSet

LEMMA EntriesFew == ToSet(<<>>) = {} /\ \A x : ToSet(<<x>>) = {x}
BY DEF ToSet

\* The process and the queues between it and the event loop.
LEMMA WorkPart ==
    ASSUME TypeInv, NEW w \in Workers
    PROVE  /\ Workers = {w} /\ Len(running[w]) <= 1
           /\ tasks \in Seq(Analysis) /\ jobs \in Seq(Analysis)
           /\ running \in [Workers -> Seq(Analysis)]
           /\ running[w] \in Seq(Analysis) /\ results \in Seq(Result)
           /\ Pending = ToSet(tasks) \cup ToSet(jobs) \cup ToSet(running[w])
<1>1. Workers = {w}
  BY OneWorker
<1> QED
  BY <1>1 DEF TypeInv, WorkType, Pending

\* No analysis appears on the way through the pool, and an outcome is of one.
LEMMA PoolSteps ==
    ASSUME TypeInv, NEW w \in Workers,
           Analyze \/ Resumes \/ Takes(w) \/ Classifies(w) \/ Breaks(w)
    PROVE  /\ Pending' \subseteq Pending
           /\ \A r \in ToSet(results)' :
                 \E a \in ToSet(results) \cup Pending : r.call = a.call /\ r.n = a.n
<1>1. /\ Workers = {w}
      /\ tasks \in Seq(Analysis) /\ jobs \in Seq(Analysis)
      /\ running \in [Workers -> Seq(Analysis)]
      /\ running[w] \in Seq(Analysis) /\ results \in Seq(Result)
      /\ Pending = ToSet(tasks) \cup ToSet(jobs) \cup ToSet(running[w])
  BY WorkPart
<1>2. Pending' = ToSet(tasks)' \cup ToSet(jobs)' \cup ToSet(running'[w])
  BY <1>1 DEF Pending
<1>3. ASSUME ToSet(results)' \subseteq ToSet(results)
      PROVE  \A r \in ToSet(results)' :
                \E a \in ToSet(results) \cup Pending : r.call = a.call /\ r.n = a.n
  BY <1>3
<1>4. CASE Analyze
  <2>1. /\ tasks # <<>> /\ tasks' = Tail(tasks) /\ UNCHANGED <<running, results>>
        /\ jobs' = jobs \/ jobs' = Append(jobs, Head(tasks))
    BY <1>4 DEF Analyze
  <2>2. ToSet(tasks') \subseteq ToSet(tasks) /\ Head(tasks) \in ToSet(tasks)
    BY <1>1, <2>1, EntriesTail
  <2>3. ToSet(jobs') \subseteq ToSet(jobs) \cup {Head(tasks)}
    BY <1>1, <2>1, EntriesAppend
  <2> QED
    BY <1>1, <1>2, <1>3, <2>1, <2>2, <2>3
<1>5. CASE Resumes
  <2>1. /\ results # <<>> /\ results' = Tail(results)
        /\ UNCHANGED <<tasks, jobs, running>>
    BY <1>5 DEF Resumes
  <2>2. ToSet(results') \subseteq ToSet(results)
    BY <1>1, <2>1, EntriesTail
  <2> QED
    BY <1>1, <1>2, <1>3, <2>1, <2>2
<1>6. CASE Takes(w)
  <2>1. /\ jobs # <<>> /\ jobs' = Tail(jobs) /\ running'[w] = <<Head(jobs)>>
        /\ UNCHANGED <<tasks, results>>
    BY <1>1, <1>6 DEF Takes
  <2>2. ToSet(jobs') \subseteq ToSet(jobs) /\ Head(jobs) \in ToSet(jobs)
    BY <1>1, <2>1, EntriesTail
  <2>3. ToSet(running'[w]) = {Head(jobs)}
    BY <2>1, EntriesFew
  <2> QED
    BY <1>1, <1>2, <1>3, <2>1, <2>2, <2>3
<1>7. CASE Classifies(w)
  <2>1. PICK ok \in BOOLEAN :
           results' = Append(results, Outcome(Head(running[w]), ok))
    BY <1>7 DEF Classifies
  <2>2. running[w] # <<>> /\ running'[w] = <<>> /\ UNCHANGED <<tasks, jobs>>
    BY <1>1, <1>7 DEF Classifies
  <2>3. Head(running[w]) \in ToSet(running[w]) /\ Head(running[w]) \in Analysis
    BY <1>1, <2>2, EntriesTail, HeadTailProperties
  <2>4. ToSet(results') \subseteq ToSet(results) \cup {Outcome(Head(running[w]), ok)}
    BY <1>1, <2>1, EntriesAppend
  <2>5. ToSet(running'[w]) = {}
    BY <2>2, EntriesFew
  <2> QED
    BY <1>1, <1>2, <2>2, <2>3, <2>4, <2>5, OutcomeType
<1>8. CASE Breaks(w)
  <2>1. /\ results' = results \o Failed(w) /\ jobs' = <<>> /\ running'[w] = <<>>
        /\ UNCHANGED tasks
    BY <1>1, <1>8 DEF Breaks, Failures, Failed, Lost
  <2>2. ToSet(results') \subseteq ToSet(results) \cup ToSet(Failed(w))
    BY <1>1, <2>1, FailedType, EntriesConcat
  <2>3. ToSet(Lost(w)) \subseteq Pending
    BY <1>1, EntriesConcat DEF Lost
  <2>4. \A r \in ToSet(Failed(w)) : \E a \in Pending : r.call = a.call /\ r.n = a.n
    <3>1. ASSUME NEW i \in DOMAIN Failed(w)
          PROVE  \E a \in Pending : Failed(w)[i].call = a.call /\ Failed(w)[i].n = a.n
      <4>1. i \in DOMAIN Lost(w) /\ Lost(w)[i] \in Pending
        BY <2>3, <3>1, FailedType DEF ToSet
      <4> QED
        BY <4>1, FailedType
    <3> QED
      BY <3>1 DEF ToSet
  <2>5. ToSet(jobs') = {} /\ ToSet(running'[w]) = {}
    BY <2>1, EntriesFew
  <2> QED
    BY <1>1, <1>2, <2>1, <2>2, <2>4, <2>5
<1> QED
  BY <1>4, <1>5, <1>6, <1>7, <1>8

\* The pool and the event loop keep the order of the analyses.
LEMMA PoolOrder ==
    ASSUME TypeInv, WorkInOrder, NEW w \in Workers,
           Analyze \/ Resumes \/ Takes(w) \/ Classifies(w) \/ Breaks(w)
    PROVE  WorkInOrder'
<1>1. /\ Workers = {w} /\ Len(running[w]) <= 1
      /\ tasks \in Seq(Analysis) /\ jobs \in Seq(Analysis)
      /\ running \in [Workers -> Seq(Analysis)]
      /\ running[w] \in Seq(Analysis) /\ results \in Seq(Result)
  BY WorkPart
<1>2. /\ Ordered(results) /\ Ordered(jobs) /\ Ordered(tasks)
      /\ Before(results, running[w])
      /\ Before(running[w], jobs) /\ Before(running[w], tasks)
      /\ Before(results, jobs) /\ Before(results, tasks) /\ Before(jobs, tasks)
  BY DEF WorkInOrder
<1>3. ASSUME /\ Ordered(results') /\ Ordered(jobs') /\ Ordered(tasks')
             /\ Before(results', running'[w])
             /\ Before(running'[w], jobs') /\ Before(running'[w], tasks')
             /\ Before(results', jobs') /\ Before(results', tasks')
             /\ Before(jobs', tasks')
      PROVE  WorkInOrder'
  BY <1>1, <1>3 DEF WorkInOrder
<1>4. /\ Ordered(<<>>) /\ \A t : Before(<<>>, t) /\ Before(t, <<>>)
      /\ running[w] # <<>> => running[w] = <<Head(running[w])>>
  BY <1>1, OrderEmpty
<1>5. CASE Analyze
  <2>1. /\ tasks # <<>> /\ tasks' = Tail(tasks) /\ UNCHANGED <<running, results>>
        /\ jobs' = jobs \/ jobs' = Append(jobs, Head(tasks))
    BY <1>5 DEF Analyze
  <2> DEFINE first == <<Head(tasks)>>
  <2>2. /\ Ordered(Tail(tasks)) /\ Before(first, Tail(tasks))
        /\ \A t : Before(t, tasks) => Before(t, Tail(tasks)) /\ Before(t, first)
    BY <1>1, <1>2, <2>1, OrderTail
  <2>3. /\ Ordered(jobs)
        /\ Ordered(jobs) /\ Before(jobs, first) => Ordered(Append(jobs, Head(tasks)))
        /\ \A t : Before(jobs, t) /\ Before(first, t)
                  => Before(Append(jobs, Head(tasks)), t)
        /\ \A t : Before(t, jobs) /\ Before(t, first)
                  => Before(t, Append(jobs, Head(tasks)))
    BY <1>1, <1>2, OrderAppend
  <2> HIDE DEF first
  <2> QED
    BY <1>2, <1>3, <2>1, <2>2, <2>3
<1>6. CASE Resumes
  <2>1. /\ results # <<>> /\ results' = Tail(results)
        /\ UNCHANGED <<tasks, jobs, running>>
    BY <1>6 DEF Resumes
  <2>2. /\ Ordered(Tail(results))
        /\ \A t : Before(results, t) => Before(Tail(results), t)
    BY <1>1, <1>2, <2>1, OrderTail
  <2> QED
    BY <1>2, <1>3, <2>1, <2>2
<1>7. CASE Takes(w)
  <2>1. /\ jobs # <<>> /\ jobs' = Tail(jobs) /\ running'[w] = <<Head(jobs)>>
        /\ UNCHANGED <<tasks, results>>
    BY <1>1, <1>7 DEF Takes
  <2> DEFINE first == <<Head(jobs)>>
  <2>2. /\ Ordered(Tail(jobs)) /\ Before(first, Tail(jobs))
        /\ \A t : Before(jobs, t) => Before(Tail(jobs), t) /\ Before(first, t)
        /\ \A t : Before(t, jobs) => Before(t, Tail(jobs)) /\ Before(t, first)
    BY <1>1, <1>2, <2>1, OrderTail
  <2> HIDE DEF first
  <2>3. running'[w] = first
    BY <2>1 DEF first
  <2> QED
    BY <1>2, <1>3, <2>1, <2>2, <2>3
<1>8. CASE Classifies(w)
  <2>1. PICK ok \in BOOLEAN :
           results' = Append(results, Outcome(Head(running[w]), ok))
    BY <1>8 DEF Classifies
  <2>2. running[w] # <<>> /\ running'[w] = <<>> /\ UNCHANGED <<tasks, jobs>>
    BY <1>1, <1>8 DEF Classifies
  <2> DEFINE a == Head(running[w])  r == Outcome(a, ok)
  <2>3. a \in Analysis /\ running[w] = <<a>>
    BY <1>1, <1>4, <2>2, HeadTailProperties
  <2>4. /\ \A t : Before(<<a>>, t) => Before(<<r>>, t)
        /\ \A t : Before(t, <<a>>) => Before(t, <<r>>)
    <3>1. r.call = a.call /\ r.n = a.n
      BY <2>3, OutcomeType
    <3> HIDE DEF a, r
    <3>2. /\ DOMAIN <<r>> = DOMAIN <<a>>
          /\ \A i \in DOMAIN <<a>> :
                <<r>>[i].call = <<a>>[i].call /\ <<r>>[i].n = <<a>>[i].n
      BY <3>1
    <3> QED
      BY <3>2, OrderSame
  <2> HIDE DEF a, r
  <2>5. /\ Ordered(results) /\ Before(results, <<r>>) => Ordered(Append(results, r))
        /\ \A t : Before(results, t) /\ Before(<<r>>, t)
                  => Before(Append(results, r), t)
    BY <1>1, OrderAppend
  <2>6. results' = Append(results, r)
    BY <2>1 DEF a, r
  <2> QED
    BY <1>2, <1>3, <1>4, <2>2, <2>3, <2>4, <2>5, <2>6
<1>9. CASE Breaks(w)
  <2>1. /\ results' = results \o Failed(w) /\ jobs' = <<>> /\ running'[w] = <<>>
        /\ UNCHANGED tasks
    BY <1>1, <1>9 DEF Breaks, Failures, Failed, Lost
  <2>2. /\ Ordered(Lost(w)) /\ Before(Lost(w), tasks) /\ Before(results, Lost(w))
    <3>1. Ordered(running[w])
      BY <1>1, OrderEmpty
    <3> QED
      BY <1>1, <1>2, <3>1, OrderConcat DEF Lost
  <2>3. /\ Ordered(Failed(w)) /\ Before(Failed(w), tasks) /\ Before(results, Failed(w))
    BY <2>2, FailedType, OrderSame
  <2>4. Ordered(results') /\ Before(results', tasks)
    BY <1>1, <1>2, <2>1, <2>3, FailedType, OrderConcat
  <2> QED
    BY <1>2, <1>3, <1>4, <2>1, <2>4
<1> QED
  BY <1>5, <1>6, <1>7, <1>8, <1>9

\* A new analysis comes after all others of its call.
LEMMA TaskOrder ==
    ASSUME TypeInv, WorkInOrder, NEW a, tasks' = Append(tasks, a),
           UNCHANGED <<jobs, running, results>>,
           \A b \in ToSet(results) \cup Pending : Precedes(b, a)
    PROVE  WorkInOrder'
<1>1. PICK w \in Workers : Workers = {w}
  BY OneWorker
<1>2. /\ tasks \in Seq(Analysis)
      /\ Pending = ToSet(tasks) \cup ToSet(jobs) \cup ToSet(running[w])
  BY WorkPart
<1>3. DOMAIN <<a>> = {1} /\ <<a>>[1] = a
  OBVIOUS
<1>4. /\ Before(results, <<a>>) /\ Before(running[w], <<a>>)
      /\ Before(jobs, <<a>>) /\ Before(tasks, <<a>>)
  BY <1>2, <1>3 DEF Before, ToSet
<1>5. /\ Ordered(tasks) => Ordered(tasks')
      /\ \A t : Before(t, tasks) /\ Before(t, <<a>>) => Before(t, tasks')
  BY <1>2, <1>4, OrderAppend
<1> QED
  BY <1>1, <1>4, <1>5 DEF WorkInOrder

-----------------------------------------------------------------------------
(* The whole. *)

LEMMA SentimentInit ==
    ASSUME Init
    PROVE  Inv
<1>1. TypeOK /\ WorkType
  BY TypeInit DEF TypeInv
<1>2. ASSUME NEW c \in Calls
      PROVE  CallInv(c) /\ \A n \in Coming(c) : n = 0
  <2>1. /\ up[c] = <<>> /\ down[c] = <<>> /\ said[c] = 0 /\ vad[c] = 0
        /\ hearing[c] = FALSE
    BY DEF Init
  <2>2. /\ \A i \in DOMAIN up[c] : FALSE
        /\ \A i \in DOMAIN down[c] : FALSE
    BY <2>1
  <2>3. \A n \in Unfinished(c) : n = 0
    BY <2>1, <2>2 DEF Unfinished, ToSet, Silence
  <2>4. InOrder(c) /\ Alternates(c) /\ BufferIsCurrent(c)
    BY <2>1, <2>2, <2>3 DEF InOrder, FramesInOrder, ChunksInOrder, Alternates,
                            BufferIsCurrent
  <2>5. \A n \in Coming(c) : n = 0
    BY <2>2, <2>3 DEF Coming
  <2> QED
    BY <2>4, <2>5 DEF CallInv
<1>3. PushedBefore
  BY <1>2 DEF PushedBefore, Init
<1>4. ToSet(results) = {} /\ Pending = {}
  BY DEF Init, Pending, ToSet
<1>5. NoOlderAudio /\ WorkBefore
  BY <1>4 DEF NoOlderAudio, WorkBefore
<1>6. WorkInOrder
  <2>1. \A i \in DOMAIN <<>> : FALSE
    OBVIOUS
  <2> QED
    BY <2>1 DEF Init, WorkInOrder, Ordered, Before
<1> QED
  BY <1>1, <1>2, <1>3, <1>5, <1>6 DEF Inv, CallerInv, CallInv, WorkInv

\* The numbers of utterances are numbers.
LEMMA WorkNumbers ==
    ASSUME TypeInv
    PROVE  /\ \A c \in Calls : Coming(c) \subseteq Nat /\ pushed[c] \in Nat
           /\ \A a \in ToSet(results) \cup Pending : a.call \in Calls /\ a.n \in Nat
<1>1. Chunks \subseteq Nat
  BY ChunkNumbers
<1>2. \A c \in Calls : Coming(c) \subseteq Nat /\ pushed[c] \in Nat
  BY <1>1, CallPart DEF TypeInv, TypeOK
<1>3. ToSet(results) \subseteq Result /\ Pending \subseteq Analysis
  BY DEF TypeInv, TypeOK, WorkType, ToSet
<1> QED
  BY <1>1, <1>2, <1>3 DEF Result, Analysis

\* The same of the next state.
ComingNumbers == \A c \in Calls : Coming(c) \subseteq Nat

LEMMA NextNumbers == TypeInv' => ComingNumbers'
<1>1. TypeInv => ComingNumbers
  BY WorkNumbers DEF ComingNumbers
<1> QED
  BY <1>1, PTL

\* What is to come grows later, and leaves what is on its way timely.
LEMMA StaysTimely ==
    ASSUME TypeInv, TypeInv', PushedBefore, pushed' = pushed,
           \A d \in Calls : \A n \in Coming(d)' : \E m \in Coming(d) : m <= n
    PROVE  /\ PushedBefore'
           /\ \A a : a.call \in Calls /\ a.n \in Nat /\ Timely(a) => Timely(a)'
<1>1. \A c \in Calls : /\ Coming(c) \subseteq Nat /\ pushed[c] \in Nat
                       /\ Coming(c)' \subseteq Nat
  BY WorkNumbers, NextNumbers DEF ComingNumbers
<1>2. ASSUME NEW c \in Calls, NEW k \in Nat, \A m \in Coming(c) : k <= m,
             NEW n \in Coming(c)'
      PROVE  k <= n
  BY <1>1, <1>2
<1>3. PushedBefore'
  BY <1>1, <1>2 DEF PushedBefore
<1>4. ASSUME NEW a, a.call \in Calls, a.n \in Nat, Timely(a)
      PROVE  Timely(a)'
  BY <1>2, <1>4 DEF Timely
<1> QED
  BY <1>3, <1>4

\* Steps that take nothing new into the pool, and push no emotion.
LEMMA WorkKept ==
    ASSUME Inv, TypeInv', pushed' = pushed, Pending' \subseteq Pending,
           \A d \in Calls : \A n \in Coming(d)' : \E m \in Coming(d) : m <= n,
           \A r \in ToSet(results)' :
              \E a \in ToSet(results) \cup Pending : r.call = a.call /\ r.n = a.n
    PROVE  NoOlderAudio' /\ WorkBefore' /\ PushedBefore'
<1>1. TypeInv /\ PushedBefore /\ WorkBefore /\ NoOlderAudio
  BY DEF Inv, TypeInv, WorkInv
<1>2. /\ PushedBefore'
      /\ \A a : a.call \in Calls /\ a.n \in Nat /\ Timely(a) => Timely(a)'
  BY <1>1, StaysTimely
<1>3. \A a \in ToSet(results) \cup Pending : Timely(a)'
  BY <1>1, <1>2, WorkNumbers DEF WorkBefore
<1>4. ASSUME NEW r \in ToSet(results)'
      PROVE  Timely(r)'
  <2>1. PICK a \in ToSet(results) \cup Pending : r.call = a.call /\ r.n = a.n
    BY <1>4
  <2> QED
    BY <1>3, <2>1 DEF Timely
<1>5. WorkBefore'
  BY <1>3, <1>4 DEF WorkBefore
<1>6. NoOlderAudio'
  BY <1>1 DEF NoOlderAudio
<1> QED
  BY <1>2, <1>5, <1>6

\* The end of an utterance.
LEMMA StoppedWork ==
    ASSUME Inv, TypeInv', NEW c \in Calls, Stopped(c),
           \A d \in Calls : \A n \in Coming(d)' : \E m \in Coming(d) : m <= n
    PROVE  WorkInv'
<1>1. TypeInv /\ PushedBefore /\ WorkBefore /\ NoOlderAudio /\ WorkInOrder /\ CallInv(c)
  BY DEF Inv, TypeInv, WorkInv, CallerInv, CallInv
<1>2. UNCHANGED <<jobs, running, results, pushed>>
  BY DEF Stopped
<1>3. tasks \in Seq(Analysis)
  BY <1>1 DEF TypeInv, WorkType
<1>4. CASE buffer[c] = {}
  <2>1. tasks' = tasks
    BY <1>4 DEF Stopped
  <2>2. Pending' = Pending /\ ToSet(results)' = ToSet(results)
    BY <1>2, <2>1 DEF Pending
  <2>3. WorkInOrder'
    BY <1>1, <1>2, <2>1 DEF WorkInOrder
  <2> QED
    BY <1>2, <2>2, <2>3, WorkKept DEF WorkInv
<1>5. CASE buffer[c] # {}
  <2>0. PICK a : a = [call |-> c, n |-> Head(up[c]).n, audio |-> buffer[c],
                      direction |-> Head(up[c]).direction]
    OBVIOUS
  <2>1. tasks' = Append(tasks, a)
    BY <1>5, <2>0 DEF Stopped
  <2>2. a.call = c /\ a.n = Head(up[c]).n /\ a.audio = buffer[c]
    BY <2>0
  <2>3. /\ Head(up[c]).n \in Coming(c) /\ \A n \in Coming(c)' : Head(up[c]).n <= n
        /\ \A chunk \in buffer[c] \ {Silence} : Head(up[c]).n <= chunk
    BY <1>1, ProcessorCall
  <2>4. \A b \in ToSet(results) \cup Pending : Precedes(b, a)
    BY <1>1, <2>2, <2>3 DEF WorkBefore, Timely, Precedes
  <2>5. WorkInOrder'
    BY <1>1, <1>2, <2>1, <2>4, TaskOrder
  <2>6. ToSet(tasks') \subseteq ToSet(tasks) \cup {a}
    BY <1>3, <2>1, EntriesAppend
  <2>7. Pending' \subseteq Pending \cup {a} /\ ToSet(results)' = ToSet(results)
    BY <1>2, <2>6 DEF Pending
  <2>8. /\ PushedBefore'
        /\ \A b : b.call \in Calls /\ b.n \in Nat /\ Timely(b) => Timely(b)'
    BY <1>1, <1>2, StaysTimely
  <2>9. Timely(a)'
    <3>1. pushed[c] <= Head(up[c]).n
      BY <1>1, <2>3 DEF PushedBefore
    <3> QED
      BY <1>2, <2>2, <2>3, <3>1 DEF Timely
  <2>10. \A b \in ToSet(results) \cup Pending : Timely(b)'
    BY <1>1, <2>8, WorkNumbers DEF WorkBefore
  <2>11. WorkBefore'
    BY <2>7, <2>9, <2>10 DEF WorkBefore
  <2>12. NoOlderAudio'
    <3>1. a.audio # {} /\ \A chunk \in a.audio \ {Silence} : a.n <= chunk
      BY <1>5, <2>2, <2>3
    <3> QED
      BY <1>1, <2>7, <3>1 DEF NoOlderAudio
  <2> QED
    BY <2>5, <2>8, <2>11, <2>12 DEF WorkInv
<1> QED
  BY <1>4, <1>5

\* An emotion is pushed.
LEMMA ResumesWork ==
    ASSUME Inv, TypeInv', Resumes
    PROVE  WorkInv' /\ \A c \in Calls : pushed[c] <= pushed'[c]
<1>1. TypeInv /\ PushedBefore /\ WorkBefore /\ NoOlderAudio /\ WorkInOrder
  BY DEF Inv, TypeInv, WorkInv
<1>2. PICK w \in Workers : Workers = {w}
  BY OneWorker
<1>3. /\ results \in Seq(Result) /\ results # <<>> /\ results' = Tail(results)
      /\ UNCHANGED <<tasks, jobs, running>> /\ UNCHANGED <<said, path>>
      /\ pushed \in [Calls -> Chunks]
      /\ Pending = ToSet(tasks) \cup ToSet(jobs) \cup ToSet(running[w])
  BY <1>1, <1>2, WorkPart DEF Resumes, caller, TypeInv, TypeOK
<1> DEFINE h == Head(results)
<1>4. pushed' = pushed \/ pushed' = [pushed EXCEPT ![h.call] = h.n]
  BY DEF Resumes
<1>5. h \in ToSet(results) /\ h.call \in Calls /\ h.n \in Nat
  BY <1>1, <1>3, EntriesTail, WorkNumbers
<1> HIDE DEF h
<1>6. \A c \in Calls : Coming(c)' = Coming(c)
  BY <1>3 DEF Coming, Unfinished, path
<1>7. Timely(h)
  BY <1>1, <1>5 DEF WorkBefore
<1>8. \A c \in Calls : \/ pushed'[c] = pushed[c]
                       \/ c = h.call /\ pushed'[c] = h.n
  BY <1>3, <1>4
<1>9. \A c \in Calls : pushed[c] <= pushed'[c]
  BY <1>1, <1>7, <1>8, WorkNumbers DEF Timely
<1>10. PushedBefore'
  BY <1>1, <1>6, <1>7, <1>8 DEF PushedBefore, Timely
<1>11. Pending' = Pending /\ ToSet(results)' \subseteq ToSet(results)
  BY <1>3, EntriesTail DEF Pending
<1>12. \A a \in ToSet(results)' \cup Pending : Precedes(h, a)
  <2>1. /\ Before(<<h>>, Tail(results)) /\ Before(<<h>>, tasks)
        /\ Before(<<h>>, jobs) /\ Before(<<h>>, running[w])
    BY <1>1, <1>3, OrderTail DEF h, WorkInOrder
  <2>2. DOMAIN <<h>> = {1} /\ <<h>>[1] = h
    OBVIOUS
  <2>3. \A t : Before(<<h>>, t) => \A a \in ToSet(t) : Precedes(h, a)
    BY <2>2 DEF Before, ToSet
  <2> QED
    BY <1>3, <2>1, <2>3
<1>13. WorkBefore'
  <2>1. ASSUME NEW a \in ToSet(results)' \cup Pending
        PROVE  Timely(a)'
    <3>1. Timely(a) /\ a.call \in Calls /\ a.n \in Nat
      BY <1>1, <1>11, <2>1, WorkNumbers DEF WorkBefore
    <3>2. pushed'[a.call] <= a.n
      BY <1>8, <1>12, <2>1, <3>1 DEF Timely, Precedes
    <3> QED
      BY <1>6, <3>1, <3>2 DEF Timely
  <2> QED
    BY <1>11, <2>1 DEF WorkBefore
<1>14. NoOlderAudio'
  BY <1>1, <1>11 DEF NoOlderAudio
<1>15. WorkInOrder'
  BY <1>1, <1>2, PoolOrder
<1> QED
  BY <1>9, <1>10, <1>13, <1>14, <1>15 DEF WorkInv

\* Every step keeps the invariant, and no emotion follows a later one.
LEMMA SentimentStep ==
    ASSUME Inv, [Next]_vars
    PROVE  Inv' /\ \A c \in Calls : pushed[c] <= pushed'[c]
<1>1. TypeInv /\ CallerInv /\ WorkInv
  BY DEF Inv, TypeInv
<1>2. \A c \in Calls : pushed[c] \in Nat
  BY <1>1, WorkNumbers
<1>3. ASSUME NEW c \in Calls,
             \/ Speaks(c) \/ Pauses(c) \/ Audio(c) \/ Detects(c)
             \/ Started(c) \/ Stopped(c) \/ HangsUp(c)
      PROVE  Inv' /\ pushed' = pushed
  <2>1. TypeInv'
    BY <1>1, <1>3, CallTypes
  <2>2. /\ CallerInv'
        /\ \A d \in Calls : \A n \in Coming(d)' : \E m \in Coming(d) : m <= n
    BY <1>1, <1>3, CallSteps
  <2>3. CASE Stopped(c)
    <3>1. WorkInv'
      BY <2>1, <2>2, <2>3, StoppedWork
    <3> QED
      BY <2>1, <2>2, <2>3, <3>1 DEF Inv, TypeInv, Stopped
  <2>4. CASE ~Stopped(c)
    <3>1. UNCHANGED <<work, pushed>>
      <4>1. CASE Audio(c)
        BY <4>1 DEF Audio
      <4>2. CASE Detects(c)
        BY <4>2 DEF Detects
      <4> QED
        BY <1>3, <2>4, <4>1, <4>2 DEF Speaks, Pauses, Started, HangsUp
    <3>2. /\ UNCHANGED <<tasks, jobs, running, results>>
          /\ Pending' = Pending /\ ToSet(results)' = ToSet(results)
      BY <3>1 DEF work, Pending
    <3>3. WorkInOrder'
      BY <1>1, <3>2 DEF WorkInv, WorkInOrder
    <3>4. WorkInv'
      BY <2>1, <2>2, <3>1, <3>2, <3>3, WorkKept DEF WorkInv
    <3> QED
      BY <2>1, <2>2, <3>1, <3>4 DEF Inv, TypeInv
  <2> QED
    BY <2>3, <2>4
<1>4. ASSUME NEW w \in Workers,
             Analyze \/ Resumes \/ Takes(w) \/ Classifies(w) \/ Breaks(w)
      PROVE  Inv' /\ \A c \in Calls : pushed[c] <= pushed'[c]
  <2>1. TypeInv'
    BY <1>1, <1>4, WorkTypes
  <2>2. UNCHANGED <<caller, path>>
    BY <1>4 DEF Analyze, Resumes, Takes, Classifies, Breaks
  <2>3. \A c \in Calls : CallInv(c)' /\ Coming(c)' = Coming(c)
    BY <1>1, <2>2, CallUnchanged DEF CallerInv, CallInv, caller, path
  <2>4. CallerInv'
    BY <2>3 DEF CallerInv, CallInv
  <2>5. CASE Resumes
    BY <2>1, <2>4, <2>5, ResumesWork DEF Inv, TypeInv
  <2>6. CASE ~Resumes
    <3>1. pushed' = pushed
      BY <1>4, <2>6 DEF Analyze, Takes, Classifies, Breaks
    <3>2. \A c \in Calls : \A n \in Coming(c)' : \E m \in Coming(c) : m <= n
      BY <1>1, <2>3, WorkNumbers
    <3>3. WorkInOrder'
      BY <1>1, <1>4, PoolOrder DEF WorkInv
    <3>4. WorkInv'
      BY <1>1, <1>4, <2>1, <3>1, <3>2, <3>3, PoolSteps, WorkKept DEF WorkInv
    <3> QED
      BY <1>2, <2>1, <2>4, <3>1, <3>4 DEF Inv, TypeInv
  <2> QED
    BY <2>5, <2>6
<1>5. CASE UNCHANGED vars
  <2>1. UNCHANGED <<caller, path, work, pushed, emotion>>
    BY <1>5 DEF vars
  <2>2. TypeOK' /\ WorkType'
    BY <2>1 DEF Inv, TypeOK, WorkType, Pending, caller, path, work
  <2>3. CallerInv'
    BY <1>1, <2>1, CallUnchanged DEF CallerInv, CallInv, caller, path
  <2>4. \A c \in Calls : Coming(c)' = Coming(c)
    BY <2>1 DEF Coming, Unfinished, caller, path
  <2>5. Pending' = Pending /\ ToSet(results)' = ToSet(results)
    BY <2>1 DEF Pending, work
  <2>6. WorkInOrder'
    BY <1>1, <2>1 DEF WorkInv, WorkInOrder, work
  <2>7. \A c \in Calls : \A n \in Coming(c)' : \E m \in Coming(c) : m <= n
    BY <1>1, <2>4, WorkNumbers
  <2>8. WorkInv'
    BY <2>1, <2>2, <2>5, <2>6, <2>7, WorkKept DEF WorkInv, TypeInv
  <2> QED
    BY <1>2, <2>1, <2>2, <2>3, <2>8 DEF Inv
<1> QED
  BY <1>2, <1>3, <1>4, <1>5, OneWorker DEF Next

\* The three properties of voice sentiment, for any number of calls and any
\* length of what is between processor and detector: what is collected,
\* analysed and reported is of a call, and nothing waits for a broken pool ...
THEOREM SentimentTypes == Spec => []TypeOK
<1>1. Init => Inv
  BY SentimentInit
<1>2. Inv /\ [Next]_vars => Inv'
  BY SentimentStep
<1>3. Inv => TypeOK
  BY DEF Inv
<1> QED
  BY <1>1, <1>2, <1>3, PTL DEF Spec

\* ... the audio an emotion is classified from begins with its utterance,
\* although the frames that delimit it come late ...
THEOREM SentimentAudio == Spec => []NoOlderAudio
<1>1. Init => Inv
  BY SentimentInit
<1>2. Inv /\ [Next]_vars => Inv'
  BY SentimentStep
<1>3. Inv => NoOlderAudio
  BY DEF Inv, WorkInv
<1> QED
  BY <1>1, <1>2, <1>3, PTL DEF Spec

\* ... and the emotions of a call are pushed in the order of its utterances.
THEOREM SentimentOrder == Spec => EmotionsInOrder
<1>1. Init => Inv
  BY SentimentInit
<1>2. Inv /\ [Next]_vars => Inv'
  BY SentimentStep
<1>3. Inv /\ [Next]_vars => [\A c \in Calls : pushed[c] <= pushed'[c]]_vars
  BY SentimentStep
<1> QED
  BY <1>1, <1>2, <1>3, PTL DEF Spec, EmotionsInOrder
=============================================================================
