----------------------------- MODULE Sentiment -----------------------------
(***************************************************************************)
(* Voice sentiment analysis (src/bot/sentiment.py) in all live calls: each *)
(* has a processor that collects the audio of an utterance, and all share  *)
(* one pool of processes that classifies it.                               *)
(*                                                                         *)
(* Audio passes the processor on its way down to the user aggregator,      *)
(* whose voice activity detector answers with frames that come back up, so *)
(* the processor learns late that an utterance began or ended.  A chunk of *)
(* audio is the number of the utterance it is from, or Silence.            *)
(***************************************************************************)
EXTENDS Naturals, Sequences, SequencesExt, FiniteSets

CONSTANTS
    Calls,
    Workers,        \* processes of the pool: one (max_workers=1)
    Utterances,     \* bound: utterances of each call
    MaxLag          \* bound: chunks and frames between processor and detector

ASSUME SentimentAssumption ==
    /\ \E w \in Workers : Workers = {w}
    /\ Utterances \in [Calls -> Nat] /\ MaxLag \in Nat \ {0}

VARIABLES
    live,     \* the call's pipeline is running
    said,     \* number of the caller's current or last utterance
    talking,  \* the caller is speaking
    down,     \* audio that has passed the processor, not yet the detector
    vad,      \* the utterance the detector takes the caller to be in, or 0
    up,       \* the detector's frames on their way up
    hearing,  \* _is_speaking
    buffer,   \* what _audio_buffer holds: a set of chunks
    tasks,    \* analyses created on the event loop, not begun
    jobs,     \* submitted to the pool, waiting
    running,  \* what each process classifies: no job or one
    broken,   \* the pool has lost a process
    results,  \* outcomes on their way to the event loop
    pushed,   \* the utterance of the last emotion frame pushed
    emotion   \* the utterance the adapter's _user_emotion is from, or 0

caller == <<live, said, talking>>
path   == <<down, vad, up, hearing, buffer>>
work   == <<tasks, jobs, running, broken, results>>
vars   == <<caller, path, work, pushed, emotion>>

Silence == 0
Chunks  == UNION {0 .. Utterances[c] : c \in Calls}

\* The direction is the one of the frame that ended the utterance.
Analysis == [call: Calls, n: Chunks, audio: SUBSET Chunks,
             direction: {"up", "down"}]

-----------------------------------------------------------------------------
(* The caller and the voice activity detector. *)

Speaks(c) ==
    /\ live[c] /\ ~talking[c] /\ said[c] < Utterances[c]
    /\ said' = [said EXCEPT ![c] = @ + 1]
    /\ talking' = [talking EXCEPT ![c] = TRUE]
    /\ UNCHANGED <<live, path, work, pushed, emotion>>

Pauses(c) ==
    /\ live[c] /\ talking[c]
    /\ talking' = [talking EXCEPT ![c] = FALSE]
    /\ UNCHANGED <<live, said, path, work, pushed, emotion>>

\* An InputAudioRawFrame: the processor keeps it while _is_speaking.
Audio(c) ==
    /\ live[c] /\ Len(down[c]) < MaxLag
    /\ LET chunk == IF talking[c] THEN said[c] ELSE Silence
       IN  /\ down' = [down EXCEPT ![c] = Append(@, chunk)]
           /\ buffer' = IF hearing[c]
                        THEN [buffer EXCEPT ![c] = @ \cup {chunk}] ELSE buffer
    /\ UNCHANGED <<caller, vad, up, hearing, work, pushed, emotion>>

\* VADUserStartedSpeakingFrame and VADUserStoppedSpeakingFrame are pushed
\* upstream (_queued_broadcast_frame).
Vad(kind, n) == [kind |-> kind, n |-> n, direction |-> "up"]

\* The detector reaches the next chunk: it starts an utterance at a chunk of
\* speech, and stops it at silence.
Detects(c) ==
    /\ live[c] /\ down[c] # <<>> /\ Len(up[c]) < MaxLag
    /\ down' = [down EXCEPT ![c] = Tail(@)]
    /\ LET chunk == Head(down[c])
       IN  CASE chunk # Silence /\ vad[c] = 0 ->
                  /\ vad' = [vad EXCEPT ![c] = chunk]
                  /\ up' = [up EXCEPT ![c] = Append(@, Vad("started", chunk))]
             [] chunk = Silence /\ vad[c] # 0 ->
                  /\ vad' = [vad EXCEPT ![c] = 0]
                  /\ up' = [up EXCEPT ![c] = Append(@, Vad("stopped", vad[c]))]
             [] OTHER -> UNCHANGED <<vad, up>>
    /\ UNCHANGED <<caller, hearing, buffer, work, pushed, emotion>>

-----------------------------------------------------------------------------
(* VoiceSentimentProcessor. *)

\* Mutant: the buffer is not cleared.
StartedUncleared(c) ==
    /\ live[c] /\ up[c] # <<>> /\ Head(up[c]).kind = "started"
    /\ up' = [up EXCEPT ![c] = Tail(@)]
    /\ hearing' = [hearing EXCEPT ![c] = TRUE]
    /\ UNCHANGED <<caller, down, vad, buffer, work, pushed, emotion>>

Started(c) ==
    /\ live[c] /\ up[c] # <<>> /\ Head(up[c]).kind = "started"
    /\ up' = [up EXCEPT ![c] = Tail(@)]
    /\ hearing' = [hearing EXCEPT ![c] = TRUE]
    /\ buffer' = [buffer EXCEPT ![c] = {}]
    /\ UNCHANGED <<caller, down, vad, work, pushed, emotion>>

\* The copy of the buffer goes to a task of its own.
Stopped(c) ==
    /\ live[c] /\ up[c] # <<>> /\ Head(up[c]).kind = "stopped"
    /\ up' = [up EXCEPT ![c] = Tail(@)]
    /\ hearing' = [hearing EXCEPT ![c] = FALSE]
    /\ tasks' = IF buffer[c] = {} THEN tasks
                ELSE Append(tasks, [call |-> c, n |-> Head(up[c]).n,
                                    audio |-> buffer[c],
                                    direction |-> Head(up[c]).direction])
    /\ UNCHANGED <<caller, down, vad, buffer, jobs, running, broken, results,
                   pushed, emotion>>

\* _analyze_sentiment up to its await: a broken pool refuses the job, and the
\* handler ends the task.
Analyze ==
    /\ tasks # <<>>
    /\ tasks' = Tail(tasks)
    /\ jobs' = IF broken THEN jobs ELSE Append(jobs, Head(tasks))
    /\ UNCHANGED <<caller, path, running, broken, results, pushed, emotion>>

\* The task goes on with its result: the emotion frame is pushed, or the
\* handler prints the exception.  A frame going up meets the transport input
\* and leaves the pipeline; one going down would reach the adapter.
Resumes ==
    /\ results # <<>>
    /\ results' = Tail(results)
    /\ LET r == Head(results)
       IN  IF r.ok /\ live[r.call]
           THEN /\ pushed' = [pushed EXCEPT ![r.call] = r.n]
                /\ emotion' = IF r.direction = "down"
                              THEN [emotion EXCEPT ![r.call] = r.n]
                              ELSE emotion
           ELSE UNCHANGED <<pushed, emotion>>
    /\ UNCHANGED <<caller, path, tasks, jobs, running, broken>>

-----------------------------------------------------------------------------
(* The process pool. *)

Outcome(job, ok) ==
    [call |-> job.call, n |-> job.n, direction |-> job.direction, ok |-> ok]

\* Mutant: while the process is busy, a second one classifies the next job.
TakesSecond(w) ==
    /\ ~broken /\ jobs # <<>>
    /\ jobs' = Tail(jobs)
    /\ IF running[w] = <<>>
       THEN running' = [running EXCEPT ![w] = <<Head(jobs)>>] /\ UNCHANGED results
       ELSE results' = Append(results, Outcome(Head(jobs), TRUE)) /\ UNCHANGED running
    /\ UNCHANGED <<caller, path, tasks, broken, pushed, emotion>>

Takes(w) ==
    /\ ~broken /\ running[w] = <<>> /\ jobs # <<>>
    /\ running' = [running EXCEPT ![w] = <<Head(jobs)>>]
    /\ jobs' = Tail(jobs)
    /\ UNCHANGED <<caller, path, tasks, broken, results, pushed, emotion>>

\* The classifier returns or raises.
Classifies(w) ==
    /\ running[w] # <<>>
    /\ running' = [running EXCEPT ![w] = <<>>]
    /\ \E ok \in BOOLEAN : results' = Append(results, Outcome(Head(running[w]), ok))
    /\ UNCHANGED <<caller, path, tasks, jobs, broken, pushed, emotion>>

Failures(lost) == [i \in DOMAIN lost |-> Outcome(lost[i], FALSE)]

\* Mutant: the waiting jobs of a broken pool are never failed.
BreaksSilently(w) ==
    /\ ~broken
    /\ broken' = TRUE
    /\ running' = [v \in Workers |-> <<>>]
    /\ results' = results \o Failures(running[w])
    /\ UNCHANGED <<caller, path, tasks, jobs, pushed, emotion>>

\* The process dies, with a job or without: the pool fails everything it has,
\* and is broken for good.
Breaks(w) ==
    /\ ~broken
    /\ broken' = TRUE
    /\ results' = results \o Failures(running[w] \o jobs)
    /\ running' = [v \in Workers |-> <<>>]
    /\ jobs' = <<>>
    /\ UNCHANGED <<caller, path, tasks, pushed, emotion>>

\* The call ends; its analyses go on, for nobody.
HangsUp(c) ==
    /\ live[c]
    /\ live' = [live EXCEPT ![c] = FALSE]
    /\ talking' = [talking EXCEPT ![c] = FALSE]
    /\ down' = [down EXCEPT ![c] = <<>>]
    /\ up' = [up EXCEPT ![c] = <<>>]
    /\ vad' = [vad EXCEPT ![c] = 0]
    /\ hearing' = [hearing EXCEPT ![c] = FALSE]
    /\ buffer' = [buffer EXCEPT ![c] = {}]
    /\ UNCHANGED <<said, work, pushed, emotion>>

-----------------------------------------------------------------------------
Init ==
    /\ live = [c \in Calls |-> TRUE]
    /\ said = [c \in Calls |-> 0] /\ talking = [c \in Calls |-> FALSE]
    /\ down = [c \in Calls |-> <<>>] /\ up = [c \in Calls |-> <<>>]
    /\ vad = [c \in Calls |-> 0] /\ hearing = [c \in Calls |-> FALSE]
    /\ buffer = [c \in Calls |-> {}]
    /\ tasks = <<>> /\ jobs = <<>> /\ results = <<>>
    /\ running = [w \in Workers |-> <<>>] /\ broken = FALSE
    /\ pushed = [c \in Calls |-> 0] /\ emotion = [c \in Calls |-> 0]

Next ==
    \/ \E c \in Calls : \/ Speaks(c) \/ Pauses(c) \/ Audio(c) \/ Detects(c)
                        \/ Started(c) \/ Stopped(c) \/ HangsUp(c)
    \/ Analyze \/ Resumes
    \/ \E w \in Workers : Takes(w) \/ Classifies(w) \/ Breaks(w)

Spec == Init /\ [][Next]_vars

\* The event loop runs its tasks, and the pool its jobs: classifying a buffer
\* is finite work.  Nothing is assumed of the callers, nor that a pool breaks.
Fairness ==
    /\ WF_vars(Analyze) /\ WF_vars(Resumes)
    /\ \A w \in Workers : WF_vars(Takes(w)) /\ WF_vars(Classifies(w))

FairSpec == Spec /\ Fairness

-----------------------------------------------------------------------------
(* Properties. *)

Pending == ToSet(tasks) \cup ToSet(jobs)
               \cup UNION {ToSet(running[w]) : w \in Workers}

\* The type invariant: what is collected and analysed is audio of a call, and
\* nothing is left with a pool that is broken.
TypeOK ==
    /\ live \in [Calls -> BOOLEAN] /\ talking \in [Calls -> BOOLEAN]
    /\ said \in [Calls -> Chunks] /\ vad \in [Calls -> Chunks]
    /\ down \in [Calls -> Seq(Chunks)] /\ hearing \in [Calls -> BOOLEAN]
    /\ buffer \in [Calls -> SUBSET Chunks]
    /\ Pending \subseteq Analysis
    /\ broken \in BOOLEAN
    /\ broken => jobs = <<>> /\ \A w \in Workers : running[w] = <<>>
    /\ pushed \in [Calls -> Chunks] /\ emotion \in [Calls -> Chunks]

\* What is classified as the emotion of an utterance is some audio, and none
\* of an earlier utterance, although the frames that delimit it come late.
NoOlderAudio ==
    \A a \in Pending :
        a.audio # {} /\ \A chunk \in a.audio \ {Silence} : a.n <= chunk

\* The emotions of a call are reported in the order of its utterances, also
\* when other calls' analyses come between or some are lost.
EmotionsInOrder == [][\A c \in Calls : pushed[c] <= pushed'[c]]_vars

\* No analysis is left waiting: each is answered, refused or failed, whatever
\* the pool goes through and whether or not its call still exists.
AnalysisEnds ==
    \A c \in Calls, n \in Chunks :
        (\E a \in Pending : a.call = c /\ a.n = n)
            ~> ~ \E a \in Pending : a.call = c /\ a.n = n

\* README.md:17: the detected emotion "automatically adjusts the Synthesizer
\* LLM's empathetic tone": it comes to the adapter, which puts it into the
\* state of the next turn.
EmotionReachesAdapter ==
    \A c \in Calls : (pushed[c] # 0) ~> (emotion[c] # 0 \/ ~live[c])
=============================================================================
