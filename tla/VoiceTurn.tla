------------------------------ MODULE VoiceTurn ------------------------------
(***************************************************************************)
(* One phone call as its frames see it: the caller's speech, the language  *)
(* detector and the user aggregator (which open a turn and broadcast an    *)
(* interruption), the LangGraph adapter, and the speech output.  The graph *)
(* run of the turn in progress is module AgentGraph's.                     *)
(*                                                                         *)
(* Frames travel in two FIFO queues, inq into the adapter and ttsq into    *)
(* the speech output.  An interruption overtakes what is queued: every     *)
(* frame carries in "epoch" the number of interruptions its sender had     *)
(* passed on before it, and a stage that has handled more interruptions    *)
(* than a frame's epoch drops the frame, unless it is of an                *)
(* uninterruptible kind.  Turn n is opened by the n-th interruption.       *)
(***************************************************************************)
EXTENDS AgentGraph, Sequences

CONSTANTS
    LangWords,          \* words a transcript needs to switch the language (3)
    MinWords,           \* words that barge in while the bot speaks (2)
    VoiceLang,          \* the language the TTS service is created with (hi-IN)
    TransferConfigured, \* the Vobiz credentials and PUBLIC_URL are set
    MaxTurns,           \* bound: user turns of a call
    MaxQueue            \* bound: no language switch beyond so many queued frames

ASSUME VoiceAssumption ==
    /\ LangWords \in Nat /\ MinWords \in Nat
    /\ MinWords <= LangWords
    /\ VoiceLang \in TtsLangs
    /\ TransferConfigured \in BOOLEAN
    /\ MaxTurns \in Nat /\ MaxQueue \in Nat

VARIABLES
    said,        \* user turns opened so far (interruptions broadcast)
    listening,   \* the user's turn is open
    botSpeaking, \* the flag of MinWordsUserTurnStartStrategy
    greet,       \* how much of the greeting is queued
    inq,         \* frames waiting for the adapter
    aEpoch,      \* interruptions the adapter has handled
    pc,          \* what the adapter's process task is suspended in
    turn,        \* the turn whose context it processes
    want,        \* final_lang_str of that turn
    handoff,     \* _handoff_status
    ttsq,        \* frames waiting for the speech output
    tEpoch,      \* interruptions the speech output has handled
    ttsLang,     \* the language the speech output is set to
    call         \* "live", "ended" by an EndFrame, or "gone" (caller left)

user    == <<said, listening, greet>>
adapter == <<aEpoch, pc, turn, want, handoff>>
speech  == <<tEpoch, ttsLang, botSpeaking>>
vars    == <<run, language, user, adapter, speech, inq, ttsq, call>>

Kinds == {"settings", "context", "greeting", "text", "ring", "end"}

Frame == [kind: Kinds, epoch: Nat, turn: Nat, lang: Langs, want: Langs]

Plain(kind, e, l) == [kind |-> kind, epoch |-> e, turn |-> e, lang |-> l,
                      want |-> l]

Settings(e, l) == Plain("settings", e, l)

Text(e) == [kind |-> "text", epoch |-> e, turn |-> turn, lang |-> run.lang,
            want |-> want]

\* Mutant: an EndFrame is dropped like any other frame.
InterruptibleEnd(f) == f.kind # "settings"

Interruptible(f) == f.kind \notin {"settings", "end"}

\* The first frame of a queue, once its stage has handled every interruption
\* that was sent before it.
Ready(q, epoch) == q # <<>> /\ Head(q).epoch <= epoch
Stale(f, epoch) == Interruptible(f) /\ f.epoch < epoch

-----------------------------------------------------------------------------
(* The caller, the language detector and the user aggregator. *)

\* Mutant: the word threshold of the detector is missing.
SwitchesOnAnyWord(n, l) == l # language

\* A final transcript of n words in language l: the detector first, then the
\* aggregator's turn-start strategy.
Switches(n, l) == n >= LangWords /\ l # language
Starts(n) == ~listening /\ n >= IF botSpeaking THEN MinWords ELSE 1

Hear(n, l) ==
    /\ call = "live"
    /\ Starts(n) => said < MaxTurns
    /\ Switches(n, l) => Len(inq) + Len(ttsq) < MaxQueue
    /\ language' = IF Switches(n, l) THEN l ELSE language
    /\ inq' = IF Switches(n, l) THEN Append(inq, Settings(said, l)) ELSE inq
    /\ said' = IF Starts(n) THEN said + 1 ELSE said
    /\ listening' = (listening \/ Starts(n))
    /\ botSpeaking' = (botSpeaking /\ ~Starts(n))
    /\ UNCHANGED <<run, greet, adapter, tEpoch, ttsLang, ttsq, call>>

\* The turn ends: the aggregator pushes the context with the user's message.
UserStops ==
    /\ call = "live" /\ listening
    /\ listening' = FALSE
    /\ inq' = Append(inq, Plain("context", said, DefaultLang))
    /\ UNCHANGED <<graphVars, said, greet, adapter, speech, ttsq, call>>

\* on_client_connected, 1.5 s after the connection: a settings frame, then
\* the text; a transcript may slip in between the two.
Greet ==
    /\ call = "live"
    /\ \/ /\ greet = "due"
          /\ greet' = "settings"
          /\ inq' = Append(inq, Settings(said, DefaultLang))
       \/ /\ greet = "settings"
          /\ greet' = "sent"
          /\ inq' = Append(inq, Plain("greeting", said, DefaultLang))
    /\ UNCHANGED <<graphVars, said, listening, adapter, speech, ttsq, call>>

-----------------------------------------------------------------------------
(* The adapter: a process task that takes one frame at a time. *)

AdapterTakes(kinds) ==
    /\ call = "live" /\ pc = "idle"
    /\ Ready(inq, aEpoch)
    /\ Head(inq).kind \in kinds
    /\ inq' = Tail(inq)

AdapterForwards ==
    /\ AdapterTakes({"settings", "greeting"})
    /\ ~Stale(Head(inq), aEpoch)
    /\ ttsq' = Append(ttsq, [Head(inq) EXCEPT !.epoch = aEpoch])
    /\ UNCHANGED <<graphVars, user, adapter, speech, call>>

AdapterDrops ==
    /\ AdapterTakes(Kinds)
    /\ Stale(Head(inq), aEpoch)
    /\ UNCHANGED <<graphVars, user, adapter, speech, ttsq, call>>

\* Mutant: no settings frame before the response ("Fix 7" undone).
StartTurnUntuned ==
    /\ AdapterTakes({"context"})
    /\ ~Stale(Head(inq), aEpoch)
    /\ pc' = "graph"
    /\ turn' = Head(inq).turn
    /\ want' = Supported(language)
    /\ run' = FreshRun(handoff)
    /\ UNCHANGED <<language, user, aEpoch, handoff, speech, ttsq, call>>

\* _process_context up to the first await of the stream.
StartTurn ==
    /\ AdapterTakes({"context"})
    /\ ~Stale(Head(inq), aEpoch)
    /\ pc' = "graph"
    /\ turn' = Head(inq).turn
    /\ want' = Supported(language)
    /\ ttsq' = Append(ttsq, Settings(aEpoch, Supported(language)))
    /\ run' = FreshRun(handoff)
    /\ UNCHANGED <<language, user, aEpoch, handoff, speech, call>>

RunGraph ==
    /\ call = "live" /\ pc = "graph"
    /\ GraphStep
    /\ UNCHANGED <<user, adapter, speech, inq, ttsq, call>>

\* Only the synthesizer's tokens become text frames.
StreamToken ==
    /\ call = "live" /\ pc = "graph"
    /\ \E n \in {"router", "synthesizer"} \cup Intents :
          /\ Token(n)
          /\ ttsq' = IF n = "synthesizer" THEN Append(ttsq, Text(aEpoch))
                     ELSE ttsq
    /\ UNCHANGED <<user, adapter, speech, inq, call>>

HangUp == <<Plain("ring", aEpoch, DefaultLang),
            Plain("end", aEpoch, DefaultLang)>>

\* _process_context is left: its local variables and the run are gone.
Rest == pc' = "idle" /\ run' = NoRun /\ want' = DefaultLang

\* The stream is exhausted: store the status and, for an accepted hand-off,
\* post the transfer; without the credentials there is nothing to post.
FinishTurn ==
    /\ call = "live" /\ pc = "graph" /\ run.node = "done"
    /\ handoff' = run.status
    /\ IF run.status = "Accepted" /\ TransferConfigured
       THEN pc' = "post" /\ UNCHANGED <<run, want, ttsq>>
       ELSE /\ Rest
            /\ ttsq' = IF run.status = "Accepted" THEN ttsq \o HangUp ELSE ttsq
    /\ UNCHANGED <<language, user, aEpoch, turn, speech, inq, call>>

\* Mutant: an exception of the stream ends the process task.
FailTurnFatal ==
    /\ call = "live" /\ pc = "graph" /\ run.node = "failed"
    /\ UNCHANGED vars

\* The exception leaves _process_context; the base class reports it.
FailTurn ==
    /\ call = "live" /\ pc = "graph" /\ run.node = "failed"
    /\ Rest
    /\ UNCHANGED <<language, user, aEpoch, turn, handoff, speech, inq, ttsq,
                   call>>

\* Mutant: a request that raises ends the hand-off.
PostReturnsOrRaises ==
    /\ call = "live" /\ pc = "post"
    /\ Rest
    /\ ttsq' \in {ttsq, ttsq \o HangUp}
    /\ UNCHANGED <<language, user, aEpoch, turn, handoff, speech, inq, call>>

\* The transfer request returned or raised: both lead to the ringback tone
\* and the EndFrame.
PostReturns ==
    /\ call = "live" /\ pc = "post"
    /\ Rest
    /\ ttsq' = ttsq \o HangUp
    /\ UNCHANGED <<language, user, aEpoch, turn, handoff, speech, inq, call>>

\* Mutant: the interruption is passed on, the turn is not cancelled.
AdapterInterruptedUncancelled ==
    /\ call = "live" /\ aEpoch < said
    /\ aEpoch' = aEpoch + 1
    /\ UNCHANGED <<graphVars, user, pc, turn, want, handoff, speech, inq, ttsq,
                   call>>

\* The next interruption: whatever _process_context awaits is cancelled, the
\* CancelledError is swallowed, and then the interruption is passed on.
AdapterInterrupted ==
    /\ call = "live" /\ aEpoch < said
    /\ aEpoch' = aEpoch + 1
    /\ Rest
    /\ UNCHANGED <<language, user, turn, handoff, speech, inq, ttsq, call>>

-----------------------------------------------------------------------------
(* The speech output: TTS service and output transport. *)

TtsTakes(kinds) ==
    /\ call = "live"
    /\ Ready(ttsq, tEpoch)
    /\ Head(ttsq).kind \in kinds
    /\ ttsq' = Tail(ttsq)

Configure ==
    /\ TtsTakes({"settings"})
    /\ ttsLang' = Head(ttsq).lang
    /\ UNCHANGED <<graphVars, user, adapter, tEpoch, botSpeaking, inq, call>>

Speak ==
    /\ TtsTakes({"text", "greeting", "ring"})
    /\ ~Stale(Head(ttsq), tEpoch)
    /\ botSpeaking' = TRUE
    /\ UNCHANGED <<graphVars, user, adapter, tEpoch, ttsLang, inq, call>>

TtsDrops ==
    /\ TtsTakes(Kinds)
    /\ Stale(Head(ttsq), tEpoch)
    /\ UNCHANGED <<graphVars, user, adapter, speech, inq, call>>

\* The pipeline stops: its tasks are cancelled and its queues dropped.
Stop(how) ==
    /\ call' = how
    /\ Rest
    /\ inq' = <<>> /\ ttsq' = <<>>
    /\ UNCHANGED <<language, user, aEpoch, turn, handoff, speech>>

HangsUp ==
    /\ call = "live"
    /\ Ready(ttsq, tEpoch)
    /\ Head(ttsq).kind = "end"
    /\ Stop("ended")

\* The last audio has been played.
BotStops ==
    /\ call = "live" /\ botSpeaking
    /\ botSpeaking' = FALSE
    /\ UNCHANGED <<graphVars, user, adapter, tEpoch, ttsLang, inq, ttsq, call>>

TtsInterrupted ==
    /\ call = "live" /\ tEpoch < aEpoch
    /\ tEpoch' = tEpoch + 1
    /\ botSpeaking' = FALSE
    /\ UNCHANGED <<graphVars, user, adapter, ttsLang, inq, ttsq, call>>

\* The caller hangs up, or Vobiz redirects the call: the worker is cancelled.
Disconnect ==
    /\ call = "live"
    /\ Stop("gone")

-----------------------------------------------------------------------------
Init ==
    /\ GraphInit
    /\ said = 0 /\ listening = FALSE /\ greet = "due"
    /\ aEpoch = 0 /\ pc = "idle" /\ turn = 0 /\ want = DefaultLang
    /\ handoff = "None"
    /\ tEpoch = 0 /\ ttsLang = VoiceLang /\ botSpeaking = FALSE
    /\ inq = <<>> /\ ttsq = <<>> /\ call = "live"

AdapterStep == AdapterForwards \/ AdapterDrops \/ StartTurn \/ FinishTurn
                  \/ FailTurn \/ PostReturns
TtsStep == Configure \/ Speak \/ TtsDrops \/ HangsUp

Next ==
    \/ \E n \in 1 .. LangWords, l \in Langs : Hear(n, l)
    \/ UserStops \/ Greet
    \/ AdapterForwards \/ AdapterDrops \/ StartTurn \/ RunGraph \/ StreamToken
    \/ FinishTurn \/ FailTurn \/ PostReturns \/ AdapterInterrupted
    \/ Configure \/ Speak \/ TtsDrops \/ HangsUp \/ BotStops \/ TtsInterrupted
    \/ Disconnect

Spec == Init /\ [][Next]_vars

\* Both stages are asyncio tasks of one event loop, and every call they wait
\* for has a timeout.  Nothing is assumed of the caller.
Fairness ==
    /\ WF_vars(AdapterStep) /\ WF_vars(RunGraph) /\ WF_vars(AdapterInterrupted)
    /\ WF_vars(TtsStep) /\ WF_vars(TtsInterrupted)

-----------------------------------------------------------------------------
(* Properties. *)

\* The type invariant: every variable of the call has its type.
TypeOK ==
    /\ GraphTypeOK
    /\ said \in Nat /\ listening \in BOOLEAN
    /\ greet \in {"due", "settings", "sent"}
    /\ inq \in Seq(Frame) /\ ttsq \in Seq(Frame)
    /\ aEpoch \in Nat /\ tEpoch \in Nat
    /\ pc \in {"idle", "graph", "post"}
    /\ turn \in Nat /\ want \in TtsLangs /\ handoff \in Statuses
    /\ ttsLang \in Langs /\ botSpeaking \in BOOLEAN
    /\ call \in {"live", "ended", "gone"}

\* The frame the speech output would speak next, if it took it now.
AboutToSpeak(kind) ==
    /\ call = "live"
    /\ Ready(ttsq, tEpoch)
    /\ Head(ttsq).kind = kind
    /\ ~Stale(Head(ttsq), tEpoch)

\* Every chunk of a reply is spoken while the TTS service is set to the
\* language _process_context pushed for that very turn, whatever settings
\* frames the detector and the greeting put into the pipeline meanwhile and
\* whatever interruptions drop (adapter.py:103-119).
SpokenInTurnLanguage ==
    AboutToSpeak("text") => ttsLang = Head(ttsq).want

\* A chunk written in another language than the one it is spoken in belongs
\* to a turn the caller has already talked over: the synthesizer rereads the
\* shared profile, and what changes the profile also opens a turn.
MismatchOnlyWhenSuperseded ==
    AboutToSpeak("text") =>
        \/ Head(ttsq).lang = ttsLang
        \/ said > Head(ttsq).turn

\* Once the speech output has handled a barge-in, nothing of the reply that
\* was interrupted is spoken any more, nor anything of an older one.
NoStaleSpeech ==
    AboutToSpeak("text") => Head(ttsq).turn = tEpoch

\* A turn the caller has finished is dealt with: the adapter comes to rest
\* with no frame waiting, or the caller goes on talking, or the call is over.
FinishedTurnIsHandled ==
    (~listening /\ inq # <<>>) ~> (\/ inq = <<>> /\ pc = "idle"
                                   \/ listening \/ call # "live")

\* A hand-off that the router accepted ends the call, whether or not the
\* transfer request succeeds, unless the caller talks on before the EndFrame
\* is out (adapter.py:147-182).
HandoffEndsCall ==
    (pc = "graph" /\ run.node = "done" /\ run.status = "Accepted")
        ~> (call # "live" \/ said > turn)

\* An EndFrame that was pushed ends the call, whatever barge-ins follow it.
EndFrameEndsCall ==
    (\E i \in DOMAIN ttsq : ttsq[i].kind = "end") ~> (call # "live")
=============================================================================
