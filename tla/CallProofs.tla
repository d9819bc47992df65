----------------------------- MODULE CallProofs ------------------------------
(***************************************************************************)
(* Theorems about a call, for any number of turns, words, languages,       *)
(* attempts and tokens, and unbounded queues.  First of module VoiceTurn:  *)
(* type correctness, no stale speech, the language of every spoken chunk.  *)
(* Then of module CallHistory: the call as the caller experiences it is a  *)
(* dialogue in the sense of module Dialogue, and nobody is hung up on      *)
(* without an accepted hand-off.                                           *)
(***************************************************************************)
EXTENDS CallHistory, AgentGraphProofs, SequenceTheorems

\* A frame built by Plain is a frame.
LEMMA PlainFrame ==
    ASSUME NEW kind \in Kinds, NEW e \in Nat, NEW l \in Langs
    PROVE  Plain(kind, e, l) \in Frame
BY DEF Plain, Frame

\* Appending, dropping the head and the hang-up frames keep a queue a queue.
LEMMA QueueTypes ==
    ASSUME NEW q \in Seq(Frame)
    PROVE  /\ \A f \in Frame : Append(q, f) \in Seq(Frame)
           /\ q # <<>> => Head(q) \in Frame /\ Tail(q) \in Seq(Frame)
           /\ aEpoch \in Nat => q \o HangUp \in Seq(Frame)
<1>1. ASSUME aEpoch \in Nat
      PROVE  HangUp \in Seq(Frame)
  <2>1. DefaultLang \in Langs
    BY GraphAssumption
  <2>2. /\ Plain("ring", aEpoch, DefaultLang) \in Frame
        /\ Plain("end", aEpoch, DefaultLang) \in Frame
    BY <1>1, <2>1, PlainFrame DEF Kinds
  <2> QED
    BY <2>2 DEF HangUp
<1>2. ASSUME NEW h \in Seq(Frame)
      PROVE  q \o h \in Seq(Frame)
  OBVIOUS
<1> QED
  BY <1>1, <1>2

\* The language the TTS service is set for is always one it supports.
LEMMA SupportedType ==
    ASSUME NEW l \in Langs
    PROVE  Supported(l) \in TtsLangs /\ Supported(l) \in Langs
BY GraphAssumption DEF Supported

\* Leaving _process_context keeps the types.
LEMMA RestType ==
    ASSUME Rest
    PROVE  pc' = "idle" /\ run' \in RunState /\ want' \in TtsLangs
BY NoRunType, GraphAssumption DEF Rest

-----------------------------------------------------------------------------
(* Type correctness. *)

\* A call begins with every variable of its type.
LEMMA InitType ==
    ASSUME Init
    PROVE  TypeOK
<1>1. run \in RunState /\ language \in Langs
  BY NoRunType, GraphAssumption DEF Init, GraphInit
<1>2. inq \in Seq(Frame) /\ ttsq \in Seq(Frame)
  BY DEF Init
<1>3. ttsLang \in Langs /\ want \in TtsLangs /\ handoff \in Statuses
  BY GraphAssumption, VoiceAssumption DEF Init, Statuses
<1> QED
  BY <1>1, <1>2, <1>3 DEF Init, TypeOK, GraphTypeOK

\* Every step of a call keeps every variable's type.
LEMMA NextType ==
    ASSUME TypeOK, [Next]_vars
    PROVE  TypeOK'
<1> USE DEF user, adapter, speech, graphVars
<1> DefaultLang \in Langs /\ DefaultLang \in TtsLangs
  BY GraphAssumption
<1>1. ASSUME NEW n \in 1 .. LangWords, NEW l \in Langs, Hear(n, l)
      PROVE  TypeOK'
  <2>1. Settings(said, l) \in Frame
    BY PlainFrame DEF Settings, Kinds, TypeOK
  <2>2. inq' \in Seq(Frame)
    BY <1>1, <2>1, QueueTypes DEF Hear, TypeOK
  <2>3. said' \in Nat /\ listening' \in BOOLEAN /\ botSpeaking' \in BOOLEAN
        /\ language' \in Langs
    BY <1>1 DEF Hear, TypeOK, GraphTypeOK
  <2> QED
    BY <1>1, <2>2, <2>3 DEF Hear, TypeOK, GraphTypeOK
<1>2. CASE UserStops
  <2>1. Plain("context", said, DefaultLang) \in Frame
    BY PlainFrame DEF Kinds, TypeOK
  <2> QED
    BY <1>2, <2>1, QueueTypes DEF UserStops, TypeOK, GraphTypeOK
<1>3. CASE Greet
  <2>1. /\ Settings(said, DefaultLang) \in Frame
        /\ Plain("greeting", said, DefaultLang) \in Frame
    BY PlainFrame DEF Settings, Kinds, TypeOK
  <2> QED
    BY <1>3, <2>1, QueueTypes DEF Greet, TypeOK, GraphTypeOK
<1>4. CASE AdapterForwards
  <2>1. Head(inq) \in Frame /\ inq' \in Seq(Frame)
    BY <1>4, QueueTypes DEF AdapterForwards, AdapterTakes, Ready, TypeOK
  <2>2. [Head(inq) EXCEPT !.epoch = aEpoch] \in Frame
    BY <2>1 DEF TypeOK, Frame
  <2> QED
    BY <1>4, <2>1, <2>2, QueueTypes DEF AdapterForwards, TypeOK, GraphTypeOK
<1>5. CASE AdapterDrops
  BY <1>5, QueueTypes DEF AdapterDrops, AdapterTakes, Ready, TypeOK,
     GraphTypeOK
<1>6. CASE StartTurn
  <2>1. Head(inq) \in Frame /\ inq' \in Seq(Frame)
    BY <1>6, QueueTypes DEF StartTurn, AdapterTakes, Ready, TypeOK
  <2>2. turn' \in Nat
    BY <1>6, <2>1 DEF StartTurn, Frame
  <2>3. want' \in TtsLangs /\ Settings(aEpoch, Supported(language)) \in Frame
    BY <1>6, SupportedType, PlainFrame DEF StartTurn, TypeOK, GraphTypeOK,
       Settings, Kinds
  <2>4. run' \in RunState
    BY <1>6, FreshRunType DEF StartTurn, TypeOK
  <2> QED
    BY <1>6, <2>1, <2>2, <2>3, <2>4, QueueTypes DEF StartTurn, TypeOK,
       GraphTypeOK
<1>7. CASE RunGraph
  <2>1. GraphTypeOK'
    BY <1>7, GraphStepType DEF RunGraph, TypeOK
  <2> QED
    BY <1>7, <2>1 DEF RunGraph, TypeOK
<1>8. CASE StreamToken
  <2>1. PICK n \in {"router", "synthesizer"} \cup Intents :
             /\ Token(n)
             /\ ttsq' = IF n = "synthesizer" THEN Append(ttsq, Text(aEpoch))
                        ELSE ttsq
    BY <1>8 DEF StreamToken
  <2>2. run.tokens + 1 \in 0 .. MaxTokens
    BY <2>1, GraphAssumption DEF Token, TypeOK, GraphTypeOK, RunState
  <2>3. GraphTypeOK'
    BY <2>1, <2>2 DEF Token, TypeOK, GraphTypeOK, RunState
  <2>4. Text(aEpoch) \in Frame
    BY GraphAssumption DEF Text, Frame, Kinds, TypeOK, GraphTypeOK, RunState
  <2>5. ttsq' \in Seq(Frame)
    BY <2>1, <2>4, QueueTypes DEF TypeOK
  <2> QED
    BY <1>8, <2>3, <2>5 DEF StreamToken, TypeOK
<1>9. CASE FinishTurn
  <2>1. run.status \in Statuses
    BY DEF TypeOK, GraphTypeOK, RunState
  <2>2. ttsq \o HangUp \in Seq(Frame)
    BY QueueTypes DEF TypeOK
  <2> QED
    BY <1>9, <2>1, <2>2, RestType DEF FinishTurn, TypeOK, GraphTypeOK
<1>10. CASE FailTurn
  BY <1>10, RestType DEF FailTurn, TypeOK, GraphTypeOK
<1>11. CASE PostReturns
  BY <1>11, RestType, QueueTypes DEF PostReturns, TypeOK, GraphTypeOK
<1>12. CASE AdapterInterrupted
  BY <1>12, RestType DEF AdapterInterrupted, TypeOK, GraphTypeOK
<1>13. CASE Configure
  <2>1. Head(ttsq) \in Frame /\ ttsq' \in Seq(Frame)
    BY <1>13, QueueTypes DEF Configure, TtsTakes, Ready, TypeOK
  <2>2. ttsLang' \in Langs
    BY <1>13, <2>1 DEF Configure, Frame
  <2> QED
    BY <1>13, <2>1, <2>2 DEF Configure, TypeOK, GraphTypeOK
<1>14. CASE Speak
  BY <1>14, QueueTypes DEF Speak, TtsTakes, Ready, TypeOK, GraphTypeOK
<1>15. CASE TtsDrops
  BY <1>15, QueueTypes DEF TtsDrops, TtsTakes, Ready, TypeOK, GraphTypeOK
<1>16. ASSUME NEW how \in {"ended", "gone"}, Stop(how)
       PROVE  TypeOK'
  BY <1>16, RestType DEF Stop, TypeOK, GraphTypeOK
<1>17. CASE BotStops
  BY <1>17 DEF BotStops, TypeOK, GraphTypeOK
<1>18. CASE TtsInterrupted
  <2>1. tEpoch' = tEpoch + 1 /\ botSpeaking' = FALSE
    BY <1>18 DEF TtsInterrupted
  <2>2. tEpoch + 1 \in Nat
    BY DEF TypeOK
  <2> QED
    BY <1>18, <2>1, <2>2 DEF TtsInterrupted, TypeOK, GraphTypeOK
<1>19. CASE UNCHANGED vars
  BY <1>19 DEF vars, TypeOK, GraphTypeOK
<1> QED
  BY <1>1, <1>2, <1>3, <1>4, <1>5, <1>6, <1>7, <1>8, <1>9, <1>10, <1>11,
     <1>12, <1>13, <1>14, <1>15, <1>16, <1>17, <1>18, <1>19
     DEF Next, HangsUp, Disconnect

\* Every variable of a call keeps its type, for all values of the constants.
THEOREM TypeCorrect == Spec => []TypeOK
BY InitType, NextType, PTL DEF Spec
-----------------------------------------------------------------------------
(* The inductive invariant of the speech properties. *)

\* A frame at position i of q will be handled with the speech output set to
\* l, when it is set to b now.
Tuned(q, b, i, l) ==
    \/ /\ b = l
       /\ \A k \in 1 .. (i - 1) : q[k].kind # "settings"
    \/ \E j \in 1 .. (i - 1) :
          /\ q[j].kind = "settings" /\ q[j].lang = l
          /\ \A k \in (j + 1) .. (i - 1) : q[k].kind # "settings"

\* Stages lag behind the broadcast interruptions in order, and the turn in
\* progress is the latest one the adapter knows of.
OrderInv ==
    /\ tEpoch <= aEpoch /\ aEpoch <= said
    /\ pc # "idle" => turn = aEpoch
    /\ listening /\ pc # "idle" => turn < said

\* What waits for the adapter: no context of the turn that is still open.
InqInv ==
    \A i \in 1 .. Len(inq) :
        /\ inq[i].kind \in {"settings", "context", "greeting"}
        /\ inq[i].kind = "context" =>
              /\ inq[i].turn = inq[i].epoch /\ inq[i].epoch <= said
              /\ listening => inq[i].epoch < said

\* What waits for the speech output: a text carries the epoch of its turn, and
\* is in the language it will be spoken in unless it has been talked over.
TtsqInv ==
    \A i \in 1 .. Len(ttsq) :
        /\ ttsq[i].kind # "context"
        /\ ttsq[i].kind = "text" =>
              /\ ttsq[i].turn = ttsq[i].epoch
              /\ ttsq[i].lang = ttsq[i].want \/ ttsq[i].turn < said
              /\ Tuned(ttsq, ttsLang, i, ttsq[i].want)

\* What the turn in progress will add: the next frame is spoken in the turn's
\* language, which the profile still names unless the turn is talked over.
TurnInv ==
    pc = "graph" =>
        /\ Tuned(ttsq, ttsLang, Len(ttsq) + 1, want)
        /\ want = Supported(language) \/ turn < said
        /\ run.node = "speaking" => run.lang = want \/ turn < said

SpeechInv == TypeOK /\ OrderInv /\ InqInv /\ TtsqInv /\ TurnInv

\* What a queue holds is a frame.
LEMMA ElementType ==
    ASSUME NEW q \in Seq(Frame), NEW i \in 1 .. Len(q)
    PROVE  q[i] \in Frame /\ q[i].want \in Langs /\ q[i].epoch \in Nat
<1>1. q[i] \in Frame
  OBVIOUS
<1> QED
  BY <1>1 DEF Frame

\* A later frame does not change what an earlier one is spoken in.
LEMMA TunedAppend ==
    ASSUME NEW q \in Seq(Frame), NEW f \in Frame, NEW b, NEW l,
           NEW i \in 1 .. (Len(q) + 1), Tuned(q, b, i, l)
    PROVE  Tuned(Append(q, f), b, i, l)
<1>1. \A k \in 1 .. (i - 1) : Append(q, f)[k] = q[k]
  OBVIOUS
<1> QED
  BY <1>1 DEF Tuned

\* After a frame of another kind the setting is what it was before it.
LEMMA TunedPast ==
    ASSUME NEW q \in Seq(Frame), NEW f \in Frame, NEW b, NEW l,
           Tuned(q, b, Len(q) + 1, l), f.kind # "settings"
    PROVE  Tuned(Append(q, f), b, Len(Append(q, f)) + 1, l)
<1>1. /\ Len(Append(q, f)) = Len(q) + 1
      /\ Append(q, f)[Len(q) + 1] = f
      /\ \A k \in 1 .. Len(q) : Append(q, f)[k] = q[k]
  OBVIOUS
<1> QED
  BY <1>1 DEF Tuned

\* After a settings frame it is that frame's language.
LEMMA TunedBySettings ==
    ASSUME NEW q \in Seq(Frame), NEW f \in Frame, NEW b,
           f.kind = "settings"
    PROVE  Tuned(Append(q, f), b, Len(Append(q, f)) + 1, f.lang)
<1>1. /\ Len(Append(q, f)) = Len(q) + 1
      /\ Append(q, f)[Len(q) + 1] = f
  OBVIOUS
<1> QED
  BY <1>1 DEF Tuned

\* Taking the head, and obeying it if it is a settings frame.
LEMMA TunedTail ==
    ASSUME NEW q \in Seq(Frame), q # <<>>, NEW b, NEW l,
           NEW i \in 1 .. Len(q), Tuned(q, b, i + 1, l)
    PROVE  Tuned(Tail(q), IF Head(q).kind = "settings" THEN Head(q).lang ELSE b,
                 i, l)
<1>1. /\ Head(q) = q[1]
      /\ \A k \in 1 .. (i - 1) : Tail(q)[k] = q[k + 1]
  OBVIOUS
<1>2. CASE b = l /\ \A k \in 1 .. i : q[k].kind # "settings"
  BY <1>1, <1>2 DEF Tuned
<1>3. ASSUME NEW j \in 1 .. i, q[j].kind = "settings", q[j].lang = l,
             \A k \in (j + 1) .. i : q[k].kind # "settings"
      PROVE  Tuned(Tail(q),
                   IF Head(q).kind = "settings" THEN Head(q).lang ELSE b, i, l)
  <2>1. CASE j = 1
    BY <1>1, <1>3, <2>1 DEF Tuned
  <2>2. CASE j > 1
    <3>1. j - 1 \in 1 .. (i - 1) /\ Tail(q)[j - 1] = q[j]
      BY <1>1, <2>2
    <3>2. \A k \in ((j - 1) + 1) .. (i - 1) : Tail(q)[k].kind # "settings"
      BY <1>1, <1>3
    <3> QED
      BY <1>3, <3>1, <3>2 DEF Tuned
  <2> QED
    BY <2>1, <2>2
<1> QED
  BY <1>2, <1>3 DEF Tuned

\* Appending a frame to the speech output's queue.
LEMMA TtsqAppend ==
    ASSUME TypeOK, TtsqInv, NEW f \in Frame, ttsq' = Append(ttsq, f),
           UNCHANGED <<ttsLang, said>>, f.kind # "context",
           f.kind = "text" => /\ f.turn = f.epoch
                              /\ f.lang = f.want \/ f.turn < said
                              /\ Tuned(ttsq, ttsLang, Len(ttsq) + 1, f.want)
    PROVE  TtsqInv'
<1>1. ttsq \in Seq(Frame)
  BY DEF TypeOK
<1>2. /\ Len(ttsq') = Len(ttsq) + 1
      /\ ttsq'[Len(ttsq) + 1] = f
      /\ \A k \in 1 .. Len(ttsq) : ttsq'[k] = ttsq[k]
  BY <1>1
<1>3. \A i \in 1 .. (Len(ttsq) + 1), l \in Langs :
         Tuned(ttsq, ttsLang, i, l) => Tuned(ttsq', ttsLang', i, l)
  BY <1>1, TunedAppend
<1>4. ASSUME NEW i \in 1 .. Len(ttsq)
      PROVE  ttsq[i] \in Frame /\ ttsq[i].want \in Langs
  BY <1>1, ElementType
<1>5. f.want \in Langs
  BY DEF Frame
<1> QED
  BY <1>1, <1>2, <1>3, <1>4, <1>5 DEF TtsqInv

\* Taking the head of the speech output's queue.
LEMMA TtsqTail ==
    ASSUME TypeOK, TtsqInv, ttsq # <<>>, ttsq' = Tail(ttsq), said' = said,
           ttsLang' = IF Head(ttsq).kind = "settings" THEN Head(ttsq).lang
                      ELSE ttsLang
    PROVE  /\ TtsqInv'
           /\ \A l \in Langs : Tuned(ttsq, ttsLang, Len(ttsq) + 1, l)
                                  => Tuned(ttsq', ttsLang', Len(ttsq') + 1, l)
<1>1. ttsq \in Seq(Frame)
  BY DEF TypeOK
<1>2. /\ Len(ttsq') = Len(ttsq) - 1
      /\ \A k \in 1 .. Len(ttsq') : ttsq'[k] = ttsq[k + 1]
  BY <1>1
<1>3. \A i \in 1 .. Len(ttsq), l \in Langs :
         Tuned(ttsq, ttsLang, i + 1, l) => Tuned(ttsq', ttsLang', i, l)
  BY <1>1, TunedTail
<1>4. ASSUME NEW i \in 1 .. Len(ttsq)
      PROVE  ttsq[i] \in Frame /\ ttsq[i].want \in Langs
  BY <1>1, ElementType
<1>5. TtsqInv'
  BY <1>1, <1>2, <1>3, <1>4 DEF TtsqInv
<1> QED
  BY <1>1, <1>2, <1>3, <1>5

\* Taking the head of the adapter's queue.
LEMMA InqTail ==
    ASSUME TypeOK, InqInv, inq # <<>>, inq' = Tail(inq),
           UNCHANGED <<said, listening>>
    PROVE  InqInv'
<1>1. inq \in Seq(Frame)
  BY DEF TypeOK
<1>2. /\ Len(inq') = Len(inq) - 1
      /\ \A k \in 1 .. Len(inq') : inq'[k] = inq[k + 1]
  BY <1>1
<1> QED
  BY <1>1, <1>2 DEF InqInv

\* Appending a frame to the adapter's queue; the user's turn may open, stay
\* or close.
LEMMA InqAppend ==
    ASSUME TypeOK, InqInv, NEW f \in Frame, inq' = Append(inq, f),
           f.kind \in {"settings", "context", "greeting"},
           f.kind = "context" => f.turn = f.epoch /\ f.epoch <= said',
           f.kind = "context" => ~listening',
           said' \in Nat, said <= said',
           listening' => listening \/ said < said'
    PROVE  InqInv'
<1>1. inq \in Seq(Frame)
  BY DEF TypeOK
<1>2. /\ Len(inq') = Len(inq) + 1
      /\ inq'[Len(inq) + 1] = f
      /\ \A k \in 1 .. Len(inq) : inq'[k] = inq[k]
  BY <1>1
<1>3. \A k \in 1 .. Len(inq) : inq[k].epoch \in Nat
  BY <1>1, ElementType
<1> QED
  BY <1>1, <1>2, <1>3 DEF InqInv, TypeOK

\* The speech invariant holds of a call that begins.
LEMMA InitSpeech ==
    ASSUME Init
    PROVE  SpeechInv
<1>1. TypeOK
  BY InitType
<1>2. OrderInv
  BY DEF Init, OrderInv
<1>3. InqInv /\ TtsqInv /\ TurnInv
  BY DEF Init, InqInv, TtsqInv, TurnInv
<1> QED
  BY <1>1, <1>2, <1>3 DEF SpeechInv

\* A transcript: the profile changes only together with a turn that opens or
\* is open, so the turn in progress is talked over.
LEMMA HearSpeech ==
    ASSUME SpeechInv, NEW n \in 1 .. LangWords, NEW l \in Langs, Hear(n, l),
           TypeOK'
    PROVE  SpeechInv'
<1> USE DEF SpeechInv, adapter, speech
<1>1. said' \in Nat /\ said \in Nat /\ said <= said'
  BY DEF Hear, TypeOK
<1>2. listening' => listening \/ said < said'
  BY <1>1 DEF Hear, TypeOK
<1>3. Settings(said, l) \in Frame /\ Settings(said, l).kind = "settings"
  BY PlainFrame DEF Settings, Plain, Kinds, TypeOK
<1>4. InqInv'
  <2>1. CASE Switches(n, l)
    BY <1>1, <1>2, <1>3, <2>1, InqAppend DEF Hear
  <2>2. CASE ~Switches(n, l)
    <3>1. inq' = inq
      BY <2>2 DEF Hear
    <3> QED
      BY <1>1, <1>2, <3>1, ElementType DEF InqInv, TypeOK
  <2> QED
    BY <2>1, <2>2
<1>5. OrderInv'
  BY <1>1, <1>2 DEF Hear, OrderInv, TypeOK
<1>6. TtsqInv'
  <2>1. \A k \in 1 .. Len(ttsq) : ttsq[k].turn < said => ttsq[k].turn < said'
    <3>1. \A k \in 1 .. Len(ttsq) : ttsq[k] \in Frame
      BY ElementType DEF TypeOK
    <3> QED
      BY <1>1, <3>1 DEF Frame
  <2>2. ttsq' = ttsq /\ ttsLang' = ttsLang
    BY DEF Hear
  <2> QED
    BY <2>1, <2>2 DEF TtsqInv, Tuned
<1>7. language' # language /\ pc # "idle" => turn < said'
  <2>1. language' # language => Switches(n, l)
    BY DEF Hear
  <2>2. Switches(n, l) /\ ~listening => said' = said + 1
    BY VoiceAssumption DEF Hear, Switches, Starts
  <2>3. pc # "idle" => turn <= said
    BY DEF OrderInv, TypeOK
  <2> QED
    BY <1>1, <2>1, <2>2, <2>3 DEF OrderInv, TypeOK
<1>8. TurnInv'
  <2>1. /\ UNCHANGED <<pc, run, ttsq, ttsLang, want, turn>>
    BY DEF Hear
  <2>2. turn < said => turn < said'
    BY <1>1 DEF TypeOK
  <2>3. ASSUME pc = "graph"
        PROVE  want = Supported(language') \/ turn < said'
    BY <1>7, <2>2, <2>3 DEF TurnInv
  <2> QED
    BY <2>1, <2>2, <2>3 DEF TurnInv, Tuned
<1> QED
  BY <1>4, <1>5, <1>6, <1>8

\* Steps that touch neither queue nor the user's turn keep what is said of
\* the queues.
LEMMA QueuesKept ==
    ASSUME InqInv, TtsqInv, UNCHANGED <<said, listening, ttsLang>>
    PROVE  (inq' = inq => InqInv') /\ (ttsq' = ttsq => TtsqInv')
BY DEF InqInv, TtsqInv, Tuned

\* Where the elements of a concatenation are.
LEMMA CatFacts ==
    ASSUME NEW q \in Seq(Frame), NEW h \in Seq(Frame), Len(h) = 2
    PROVE  /\ Len(q \o h) = Len(q) + 2
           /\ \A k \in 1 .. Len(q) : (q \o h)[k] = q[k]
           /\ (q \o h)[Len(q) + 1] = h[1]
           /\ (q \o h)[Len(q) + 2] = h[2]
<1>1. /\ Len(q \o h) = Len(q) + Len(h)
      /\ \A i \in 1 .. Len(q) + Len(h) :
            (q \o h)[i] = IF i <= Len(q) THEN q[i] ELSE h[i - Len(q)]
  BY ConcatProperties
<1> QED
  BY <1>1

\* The ringback tone and the EndFrame are no text.
LEMMA HangUpTtsq ==
    ASSUME TypeOK, TtsqInv, ttsq' = ttsq \o HangUp,
           UNCHANGED <<said, ttsLang>>
    PROVE  TtsqInv'
<1>1. ttsq \in Seq(Frame) /\ DefaultLang \in Langs /\ aEpoch \in Nat
  BY GraphAssumption DEF TypeOK
<1>2. /\ Len(ttsq') = Len(ttsq) + 2
      /\ \A k \in 1 .. Len(ttsq) : ttsq'[k] = ttsq[k]
      /\ ttsq'[Len(ttsq) + 1].kind = "ring"
      /\ ttsq'[Len(ttsq) + 2].kind = "end"
  <2>1. /\ HangUp \in Seq(Frame)
        /\ Len(HangUp) = 2
        /\ HangUp[1].kind = "ring" /\ HangUp[2].kind = "end"
    <3>1. /\ Plain("ring", aEpoch, DefaultLang) \in Frame
          /\ Plain("end", aEpoch, DefaultLang) \in Frame
      BY <1>1, PlainFrame DEF Kinds
    <3> QED
      BY <3>1 DEF HangUp, Plain
  <2> QED
    BY <1>1, <2>1, CatFacts
<1>3. ASSUME NEW i \in 1 .. Len(ttsq), NEW l,
             Tuned(ttsq, ttsLang, i, l)
      PROVE  Tuned(ttsq', ttsLang', i, l)
  <2>1. \A k \in 1 .. (i - 1) : ttsq'[k] = ttsq[k]
    BY <1>1, <1>2
  <2>2. ttsLang' = ttsLang
    OBVIOUS
  <2> QED
    BY <1>3, <2>1, <2>2 DEF Tuned
<1> QED
  BY <1>1, <1>2, <1>3 DEF TtsqInv

\* Every step of a call preserves the speech invariant.
LEMMA NextSpeech ==
    ASSUME SpeechInv, [Next]_vars
    PROVE  SpeechInv'
<1> USE DEF SpeechInv, user, adapter, speech, graphVars
<1>0. TypeOK'
  BY NextType
<1>1. ASSUME NEW n \in 1 .. LangWords, NEW l \in Langs, Hear(n, l)
      PROVE  SpeechInv'
  BY <1>0, <1>1, HearSpeech
<1>2. CASE UserStops
  <2>1. Plain("context", said, DefaultLang) \in Frame
    BY PlainFrame, GraphAssumption DEF Kinds, TypeOK
  <2>2. InqInv'
    BY <1>2, <2>1, InqAppend DEF UserStops, Plain, TypeOK
  <2>3. OrderInv' /\ TtsqInv' /\ TurnInv'
    BY <1>2 DEF UserStops, OrderInv, TtsqInv, TurnInv, Tuned
  <2> QED
    BY <1>0, <2>2, <2>3
<1>3. CASE Greet
  <2>1. /\ Settings(said, DefaultLang) \in Frame
        /\ Plain("greeting", said, DefaultLang) \in Frame
    BY PlainFrame, GraphAssumption DEF Settings, Kinds, TypeOK
  <2>2. InqInv'
    BY <1>3, <2>1, InqAppend DEF Greet, Settings, Plain, TypeOK
  <2>3. OrderInv' /\ TtsqInv' /\ TurnInv'
    BY <1>3 DEF Greet, OrderInv, TtsqInv, TurnInv, Tuned
  <2> QED
    BY <1>0, <2>2, <2>3
<1>4. CASE AdapterForwards
  <2>1. InqInv'
    BY <1>4, InqTail DEF AdapterForwards, AdapterTakes, Ready
  <2>2. Head(inq) \in Frame
    BY <1>4, QueueTypes DEF AdapterForwards, AdapterTakes, Ready, TypeOK
  <2> DEFINE f == [Head(inq) EXCEPT !.epoch = aEpoch]
  <2>3. f \in Frame /\ f.kind \in {"settings", "greeting"}
    BY <1>4, <2>2 DEF AdapterForwards, AdapterTakes, Frame, TypeOK
  <2>4. ttsq' = Append(ttsq, f) /\ UNCHANGED <<ttsLang, said>>
    BY <1>4 DEF AdapterForwards
  <2> HIDE DEF f
  <2>5. TtsqInv'
    BY <2>3, <2>4, TtsqAppend
  <2>6. OrderInv' /\ TurnInv'
    BY <1>4 DEF AdapterForwards, AdapterTakes, OrderInv, TurnInv
  <2> QED
    BY <1>0, <2>1, <2>5, <2>6
<1>5. CASE AdapterDrops
  <2>1. InqInv'
    BY <1>5, InqTail DEF AdapterDrops, AdapterTakes, Ready
  <2>2. OrderInv' /\ TtsqInv' /\ TurnInv'
    BY <1>5 DEF AdapterDrops, AdapterTakes, OrderInv, TtsqInv, TurnInv, Tuned
  <2> QED
    BY <1>0, <2>1, <2>2
<1>6. CASE StartTurn
  <2>1. InqInv'
    BY <1>6, InqTail DEF StartTurn, AdapterTakes, Ready
  <2>2. /\ Head(inq).kind = "context" /\ Head(inq).epoch = aEpoch
        /\ Head(inq).turn = aEpoch /\ (listening => aEpoch < said)
    <3>1. inq \in Seq(Frame) /\ inq # <<>>
      BY <1>6 DEF StartTurn, AdapterTakes, Ready, TypeOK
    <3>2. Head(inq) = inq[1] /\ 1 \in 1 .. Len(inq)
      BY <3>1
    <3>3. Head(inq).epoch \in Nat
      BY <3>1, <3>2, ElementType
    <3> QED
      BY <1>6, <3>2, <3>3 DEF StartTurn, AdapterTakes, Ready, Stale,
         Interruptible, InqInv, TypeOK
  <2> DEFINE f == Settings(aEpoch, Supported(language))
  <2>3. f \in Frame /\ f.kind = "settings" /\ f.lang = Supported(language)
    BY SupportedType, PlainFrame DEF Settings, Plain, Kinds, TypeOK,
       GraphTypeOK
  <2>4. ttsq' = Append(ttsq, f) /\ UNCHANGED <<ttsLang, said, language>>
    BY <1>6 DEF StartTurn
  <2> HIDE DEF f
  <2>5. TtsqInv'
    BY <2>3, <2>4, TtsqAppend
  <2>6. OrderInv'
    BY <1>6, <2>2 DEF StartTurn, OrderInv
  <2>7. Tuned(ttsq', ttsLang', Len(ttsq') + 1, want')
    BY <1>6, <2>3, <2>4, TunedBySettings DEF StartTurn, TypeOK
  <2>8. run'.node # "speaking"
    BY <1>6 DEF StartTurn, FreshRun
  <2>9. TurnInv'
    BY <1>6, <2>4, <2>7, <2>8 DEF StartTurn, TurnInv
  <2> QED
    BY <1>0, <2>1, <2>5, <2>6, <2>9
<1>7. CASE RunGraph
  <2>1. InqInv' /\ TtsqInv' /\ OrderInv'
    BY <1>7, QueuesKept DEF RunGraph, OrderInv
  <2>2. run'.node = "speaking" => run'.lang = Supported(language)
    <3>1. GraphTypeOK /\ GraphStep
      BY <1>7 DEF RunGraph, TypeOK
    <3> QED
      BY <3>1 DEF GraphStep, RouterReplies, RouterCrashes, WorkerReturns,
         WorkerRaises, SynthSkips, SynthCalls, SynthFinishes, SynthRaises,
         Route, Joined, GraphTypeOK, RunState, FailedRun, NoRun, FreshRun
  <2>3. language' = language
    BY <1>7 DEF RunGraph, GraphStep, RouterReplies, RouterCrashes,
       WorkerReturns, WorkerRaises, SynthSkips, SynthCalls, SynthFinishes,
       SynthRaises
  <2>4. TurnInv'
    BY <1>7, <2>2, <2>3 DEF RunGraph, TurnInv, Tuned
  <2> QED
    BY <1>0, <2>1, <2>4
<1>8. CASE StreamToken
  <2>1. PICK n \in {"router", "synthesizer"} \cup Intents :
             /\ Token(n)
             /\ ttsq' = IF n = "synthesizer" THEN Append(ttsq, Text(aEpoch))
                        ELSE ttsq
    BY <1>8 DEF StreamToken
  <2>2. /\ pc = "graph" /\ UNCHANGED <<pc, said, listening, turn, want,
                                       aEpoch, tEpoch, ttsLang, inq, language>>
        /\ run'.node = run.node /\ run'.lang = run.lang
    BY <1>8, <2>1 DEF StreamToken, Token, TypeOK, GraphTypeOK, RunState
  <2>3. InqInv' /\ OrderInv'
    BY <2>2 DEF InqInv, OrderInv
  <2>4. CASE n = "synthesizer"
    <3>1. run.node = "speaking"
      BY <2>1, <2>4, GraphAssumption DEF Token, Talking
    <3>2. Text(aEpoch) \in Frame
      BY GraphAssumption DEF Text, Frame, Kinds, TypeOK, GraphTypeOK, RunState
    <3> DEFINE f == Text(aEpoch)
    <3>3. /\ f.kind = "text" /\ f.turn = f.epoch
          /\ f.lang = f.want \/ f.turn < said
          /\ Tuned(ttsq, ttsLang, Len(ttsq) + 1, f.want)
      BY <2>2, <3>1 DEF Text, TurnInv, OrderInv
    <3>4. ttsq' = Append(ttsq, f) /\ f \in Frame
      BY <2>1, <2>4, <3>2
    <3> HIDE DEF f
    <3>5. TtsqInv'
      BY <2>2, <3>3, <3>4, TtsqAppend
    <3>6. Tuned(ttsq', ttsLang', Len(ttsq') + 1, want')
      BY <2>2, <3>3, <3>4, TunedPast DEF TypeOK, TurnInv
    <3>7. TurnInv'
      BY <2>2, <3>6 DEF TurnInv
    <3> QED
      BY <1>0, <2>3, <3>5, <3>7
  <2>5. CASE n # "synthesizer"
    <3>1. ttsq' = ttsq
      BY <2>1, <2>5
    <3>2. TtsqInv' /\ TurnInv'
      BY <2>2, <3>1 DEF TtsqInv, TurnInv, Tuned
    <3> QED
      BY <1>0, <2>3, <3>2
  <2> QED
    BY <2>4, <2>5
<1>9. CASE FinishTurn
  <2>1. UNCHANGED <<said, listening, ttsLang, inq, turn, aEpoch, tEpoch>>
        /\ pc = "graph" /\ pc' \in {"idle", "post"}
    BY <1>9 DEF FinishTurn, Rest
  <2>2. ttsq' = ttsq \/ ttsq' = ttsq \o HangUp
    BY <1>9 DEF FinishTurn
  <2>3. InqInv' /\ TtsqInv'
    BY <2>1, <2>2, QueuesKept, HangUpTtsq
  <2>4. OrderInv' /\ TurnInv'
    BY <2>1 DEF OrderInv, TurnInv
  <2> QED
    BY <1>0, <2>3, <2>4
<1>10. CASE FailTurn
  <2>1. InqInv' /\ TtsqInv'
    BY <1>10, QueuesKept DEF FailTurn
  <2> QED
    BY <1>0, <1>10, <2>1 DEF FailTurn, Rest, OrderInv, TurnInv
<1>11. CASE PostReturns
  <2>1. InqInv' /\ TtsqInv'
    BY <1>11, QueuesKept, HangUpTtsq DEF PostReturns
  <2> QED
    BY <1>0, <1>11, <2>1 DEF PostReturns, Rest, OrderInv, TurnInv
<1>12. CASE AdapterInterrupted
  <2>1. InqInv' /\ TtsqInv'
    BY <1>12, QueuesKept DEF AdapterInterrupted
  <2>2. OrderInv' /\ TurnInv'
    BY <1>12 DEF AdapterInterrupted, Rest, OrderInv, TurnInv, TypeOK
  <2> QED
    BY <1>0, <2>1, <2>2
<1>13. ASSUME ttsq # <<>>, ttsq' = Tail(ttsq),
              UNCHANGED <<graphVars, user, adapter, tEpoch, inq>>,
              ttsLang' = IF Head(ttsq).kind = "settings" THEN Head(ttsq).lang
                         ELSE ttsLang
       PROVE  SpeechInv'
  <2>1. TtsqInv' /\ InqInv' /\ OrderInv'
    BY <1>13, TtsqTail DEF InqInv, OrderInv
  <2>2. want \in Langs
    BY GraphAssumption DEF TypeOK
  <2>3. TurnInv'
    BY <1>13, <2>2, TtsqTail DEF TurnInv
  <2> QED
    BY <1>0, <2>1, <2>3
<1>14. CASE Configure
  BY <1>13, <1>14 DEF Configure, TtsTakes, Ready
<1>15. CASE Speak
  BY <1>13, <1>15 DEF Speak, TtsTakes, Ready
<1>16. CASE TtsDrops
  BY <1>13, <1>16 DEF TtsDrops, TtsTakes, Ready, Stale, Interruptible
<1>17. ASSUME NEW how \in {"ended", "gone"}, Stop(how)
       PROVE  SpeechInv'
  BY <1>0, <1>17 DEF Stop, Rest, OrderInv, InqInv, TtsqInv, TurnInv
<1>18. CASE BotStops
  <2>1. InqInv' /\ TtsqInv'
    BY <1>18, QueuesKept DEF BotStops
  <2> QED
    BY <1>0, <1>18, <2>1 DEF BotStops, OrderInv, TurnInv, Tuned
<1>19. CASE TtsInterrupted
  <2>1. InqInv' /\ TtsqInv'
    BY <1>19, QueuesKept DEF TtsInterrupted
  <2>2. tEpoch + 1 <= aEpoch
    BY <1>19 DEF TtsInterrupted, TypeOK
  <2>3. OrderInv' /\ TurnInv'
    BY <1>19, <2>2 DEF TtsInterrupted, OrderInv, TurnInv, Tuned
  <2> QED
    BY <1>0, <2>1, <2>3
<1>20. CASE UNCHANGED vars
  BY <1>0, <1>20 DEF vars, OrderInv, InqInv, TtsqInv, TurnInv, Tuned
<1> QED
  BY <1>1, <1>2, <1>3, <1>4, <1>5, <1>6, <1>7, <1>8, <1>9, <1>10, <1>11,
     <1>12, <1>14, <1>15, <1>16, <1>17, <1>18, <1>19, <1>20
     DEF Next, HangsUp, Disconnect

\* What the invariant says of the frame about to be spoken.
LEMMA SpeechFacts ==
    ASSUME SpeechInv
    PROVE  NoStaleSpeech /\ SpokenInTurnLanguage /\ MismatchOnlyWhenSuperseded
<1>1. SUFFICES ASSUME AboutToSpeak("text")
      PROVE  /\ Head(ttsq).turn = tEpoch
             /\ ttsLang = Head(ttsq).want
             /\ Head(ttsq).lang = ttsLang \/ said > Head(ttsq).turn
  BY DEF NoStaleSpeech, SpokenInTurnLanguage, MismatchOnlyWhenSuperseded
<1>2. ttsq \in Seq(Frame) /\ ttsq # <<>>
  BY <1>1 DEF SpeechInv, TypeOK, AboutToSpeak, Ready
<1>3. Head(ttsq) = ttsq[1] /\ 1 \in 1 .. Len(ttsq)
  BY <1>2
<1>4. Head(ttsq).epoch \in Nat /\ Head(ttsq).epoch = tEpoch
  BY <1>1, <1>2, <1>3, ElementType
     DEF AboutToSpeak, Ready, Stale, Interruptible, SpeechInv, TypeOK
<1>5. /\ Head(ttsq).turn = Head(ttsq).epoch
      /\ Head(ttsq).lang = Head(ttsq).want \/ Head(ttsq).turn < said
      /\ ttsLang = Head(ttsq).want
  BY <1>1, <1>3 DEF AboutToSpeak, SpeechInv, TtsqInv, Tuned
<1> QED
  BY <1>4, <1>5 DEF SpeechInv, TypeOK

\* No reply is heard once the speech output has handled a later barge-in.
THEOREM Silence == Spec => []NoStaleSpeech
BY InitSpeech, NextSpeech, SpeechFacts, PTL DEF Spec

\* Every chunk is spoken in the language its turn configured, and a chunk
\* written in another one has been talked over.
THEOREM SpeechLanguage ==
    Spec => [](SpokenInTurnLanguage /\ MismatchOnlyWhenSuperseded)
BY InitSpeech, NextSpeech, SpeechFacts, PTL DEF Spec

-----------------------------------------------------------------------------
(* The inductive invariant. *)

\* Turns are processed in the order in which they were opened, each once.
TurnsInv ==
    /\ turn <= said /\ (listening => turn < said)
    /\ \A i \in 1 .. Len(inq) : inq[i].kind = "context" =>
          /\ turn < inq[i].turn
          /\ \A j \in 1 .. (i - 1) :
                inq[j].kind = "context" => inq[j].turn < inq[i].turn

\* A run that has asked the synthesizer's LLM has not accepted a hand-off.
AnswerInv ==
    /\ run.node \in {"router", "workers"} => run.attempt = 0
    /\ run.node = "speaking" => run.attempt > 0
    /\ run.attempt > 0 => run.status # "Accepted"

\* What the caller has heard and is about to hear is of turns that were not
\* agreed to be handed off; the turn in progress has been heard of only if its
\* run has asked the LLM.
HeardInv ==
    /\ past.heard \in Nat /\ past.heard <= turn
    /\ \A t \in past.accepted : t \in Nat /\ t <= turn
    /\ \A i \in 1 .. Len(ttsq) : ttsq[i].kind = "text" =>
          /\ 0 < ttsq[i].turn /\ ttsq[i].turn <= turn
          /\ ttsq[i].turn \notin past.accepted
    /\ pc = "graph" =>
          /\ 0 < turn /\ turn \notin past.accepted
          /\ \/ run.node = "failed" \/ run.attempt > 0
             \/ /\ past.heard < turn
                /\ \A i \in 1 .. Len(ttsq) :
                      ttsq[i].kind = "text" => ttsq[i].turn < turn

\* A hand-off in progress, and an EndFrame, were agreed on.
EndInv ==
    /\ pc = "post" => past.accepted # {}
    /\ \A i \in 1 .. Len(ttsq) : ttsq[i].kind = "end" => past.accepted # {}

DialogueInv == TurnsInv /\ AnswerInv /\ HeardInv /\ EndInv

-----------------------------------------------------------------------------
(* The history variable. *)

\* Only the end of a stream adds an accepted turn.
LEMMA AcceptedFacts ==
    ASSUME past' = Record
    PROVE  /\ (pc' = pc \/ run.node # "done" \/ call' # call
                \/ aEpoch' # aEpoch) => past'.accepted = past.accepted
           /\ Finishing /\ run.status = "Accepted"
                => past'.accepted = past.accepted \cup {turn}
           /\ run.status # "Accepted" => past'.accepted = past.accepted
BY DEF Record, Finishing

\* Only taking a frame from the speech output's queue speaks.
LEMMA HeardFacts ==
    ASSUME past' = Record
    PROVE  /\ ~AboutToSpeak("text") => past'.heard = past.heard
           /\ ttsq' # Tail(ttsq) => past'.heard = past.heard
           /\ call' # call => past'.heard = past.heard
           /\ AboutToSpeak("text") /\ ttsq' = Tail(ttsq) /\ call' = call
                => past'.heard = Head(ttsq).turn
BY DEF Record

\* A queue that stays or grows has not lost its head.
LEMMA NotTail ==
    ASSUME TypeOK, AboutToSpeak("text")
    PROVE  /\ ttsq # Tail(ttsq)
           /\ \A f \in Frame : Append(ttsq, f) # Tail(ttsq)
           /\ ttsq \o HangUp # Tail(ttsq)
<1>1. ttsq \in Seq(Frame) /\ ttsq # <<>> /\ Len(ttsq) \in Nat
  BY DEF TypeOK, AboutToSpeak, Ready
<1>2. Len(Tail(ttsq)) = Len(ttsq) - 1
  BY <1>1
<1>3. \A f \in Frame : Len(Append(ttsq, f)) = Len(ttsq) + 1
  BY <1>1
<1>4. HangUp \in Seq(Frame) /\ Len(HangUp) = 2
  <2>1. DefaultLang \in Langs /\ aEpoch \in Nat
    BY GraphAssumption DEF TypeOK
  <2>2. /\ Plain("ring", aEpoch, DefaultLang) \in Frame
        /\ Plain("end", aEpoch, DefaultLang) \in Frame
    BY <2>1, PlainFrame DEF Kinds
  <2> QED
    BY <2>2 DEF HangUp
<1>5. Len(ttsq \o HangUp) = Len(ttsq) + 2
  BY <1>1, <1>4, CatFacts
<1>6. ASSUME NEW n \in Nat, NEW q, Len(q) = Len(ttsq) + n
      PROVE  q # Tail(ttsq)
  <2> DEFINE a == Len(q)
             b == Len(Tail(ttsq))
  <2>1. a # b
    <3>1. a = Len(ttsq) + n /\ b = Len(ttsq) - 1
      BY <1>2, <1>6
    <3> HIDE DEF a, b
    <3> QED
      BY <1>1, <3>1
  <2> QED
    BY ONLY <2>1, Zenon
<1>7. Len(ttsq) = Len(ttsq) + 0
  BY <1>1
<1> QED
  BY <1>3, <1>5, <1>6, <1>7

\* So the history does not change in a step that keeps or extends the queue.
LEMMA HeardKept ==
    ASSUME TypeOK, past' = Record,
           \/ ttsq' = ttsq \/ ttsq' = ttsq \o HangUp
           \/ \E f \in Frame : ttsq' = Append(ttsq, f)
    PROVE  past'.heard = past.heard
BY NotTail, HeardFacts

-----------------------------------------------------------------------------
(* The graph run. *)

LEMMA FreshAnswer ==
    ASSUME run' = NoRun \/ \E s \in Statuses : run' = FreshRun(s)
    PROVE  AnswerInv'
BY DEF AnswerInv, NoRun, FreshRun

\* No step takes back an attempt, except by failing.
LEMMA GraphAnswer ==
    ASSUME GraphTypeOK, AnswerInv, GraphStep
    PROVE  /\ AnswerInv'
           /\ run'.node = "failed" \/ run'.attempt >= run.attempt
<1> USE DEF AnswerInv
<1>1. CASE RouterReplies
  BY <1>1 DEF RouterReplies, GraphTypeOK, RunState, Route
<1>2. CASE RouterCrashes
  BY <1>2 DEF RouterCrashes, GraphTypeOK, RunState, Route
<1>3. ASSUME NEW w \in Intents, WorkerReturns(w)
      PROVE  AnswerInv' /\ run'.attempt >= run.attempt
  BY <1>3 DEF WorkerReturns, GraphTypeOK, RunState, Joined
<1>4. ASSUME NEW w \in Intents, WorkerRaises(w)
      PROVE  AnswerInv' /\ run'.node = "failed"
  BY <1>4 DEF WorkerRaises, FailedRun, NoRun, FreshRun
<1>5. CASE SynthSkips
  BY <1>5 DEF SynthSkips, GraphTypeOK, RunState
<1>6. CASE SynthCalls
  BY <1>6 DEF SynthCalls, GraphTypeOK, RunState
<1>7. CASE SynthFinishes
  BY <1>7 DEF SynthFinishes, GraphTypeOK, RunState
<1>8. ASSUME NEW retriable \in BOOLEAN, SynthRaises(retriable)
      PROVE  /\ AnswerInv'
             /\ run'.node = "failed" \/ run'.attempt >= run.attempt
  BY <1>8 DEF SynthRaises, GraphTypeOK, RunState, FailedRun, NoRun, FreshRun
<1> QED
  BY <1>1, <1>2, <1>3, <1>4, <1>5, <1>6, <1>7, <1>8 DEF GraphStep

-----------------------------------------------------------------------------
(* The queues. *)

\* Taking the head of the adapter's queue keeps the order of the turns.
LEMMA TurnsTail ==
    ASSUME TypeOK, TurnsInv, inq # <<>>, inq' = Tail(inq),
           UNCHANGED <<said, listening>>,
           \/ turn' = turn
           \/ Head(inq).kind = "context" /\ turn' = Head(inq).turn
                /\ turn' <= said /\ (listening => turn' < said)
    PROVE  TurnsInv'
<1>1. inq \in Seq(Frame)
  BY DEF TypeOK
<1>2. /\ Len(inq') = Len(inq) - 1
      /\ \A k \in 1 .. Len(inq') : inq'[k] = inq[k + 1]
      /\ Head(inq) = inq[1]
  BY <1>1
<1> QED
  BY <1>1, <1>2 DEF TurnsInv

\* A frame that is no context, or the context of the turn that closes, comes
\* last.
LEMMA TurnsAppend ==
    ASSUME TypeOK, TurnsInv, InqInv, NEW f \in Frame, inq' = Append(inq, f),
           f.kind = "context" => listening /\ f.turn = said,
           turn' = turn, said' \in Nat, said <= said',
           listening' => listening \/ said < said'
    PROVE  TurnsInv'
<1>1. inq \in Seq(Frame)
  BY DEF TypeOK
<1>2. /\ Len(inq') = Len(inq) + 1
      /\ inq'[Len(inq) + 1] = f
      /\ \A k \in 1 .. Len(inq) : inq'[k] = inq[k]
  BY <1>1
<1>3. \A k \in 1 .. Len(inq) : inq[k].epoch \in Nat /\ inq[k].turn \in Nat
  <2>1. \A k \in 1 .. Len(inq) : inq[k] \in Frame
    BY <1>1, ElementType
  <2> QED
    BY <2>1 DEF Frame
<1>4. listening => \A k \in 1 .. Len(inq) :
                      inq[k].kind = "context" => inq[k].turn < said
  BY DEF InqInv
<1>5. turn' <= said' /\ (listening' => turn' < said')
  BY DEF TurnsInv, TypeOK
<1>6. f.kind = "context" => turn < f.turn
  BY DEF TurnsInv
<1>7. ASSUME NEW i \in 1 .. Len(inq'), inq'[i].kind = "context"
      PROVE  /\ turn' < inq'[i].turn
             /\ \A j \in 1 .. (i - 1) :
                   inq'[j].kind = "context" => inq'[j].turn < inq'[i].turn
  <2>1. CASE i \in 1 .. Len(inq)
    BY <1>1, <1>2, <1>7, <2>1 DEF TurnsInv
  <2>2. CASE i = Len(inq) + 1
    BY <1>1, <1>2, <1>4, <1>6, <1>7, <2>2
  <2> QED
    BY <1>1, <1>2, <2>1, <2>2
<1> QED
  BY <1>5, <1>7 DEF TurnsInv

-----------------------------------------------------------------------------
(* One step of the call, seen by the caller. *)

\* What a frame that is appended to the speech output's queue may be.
LEMMA HeardAppend ==
    ASSUME SpeechInv, HeardInv, EndInv, NEW f \in Frame,
           ttsq' = Append(ttsq, f),
           f.kind # "end", f.kind = "text" => f.turn = turn,
           f.kind = "text" => pc = "graph" /\ run.attempt > 0,
           run'.node = run.node, run'.attempt = run.attempt,
           UNCHANGED <<turn, pc>>,
           past'.heard = past.heard, past'.accepted = past.accepted
    PROVE  HeardInv' /\ EndInv'
<1>1. ttsq \in Seq(Frame)
  BY DEF SpeechInv, TypeOK
<1>2. /\ Len(ttsq') = Len(ttsq) + 1
      /\ ttsq'[Len(ttsq) + 1] = f
      /\ \A k \in 1 .. Len(ttsq) : ttsq'[k] = ttsq[k]
  BY <1>1
<1>3. EndInv'
  BY <1>1, <1>2 DEF EndInv
<1>4. turn \in Nat /\ run.attempt \in Nat
  BY DEF SpeechInv, TypeOK, GraphTypeOK, RunState
<1> QED
  BY <1>1, <1>2, <1>3, <1>4 DEF HeardInv

\* Taking the head of the queue, spoken or not.
LEMMA HeardTail ==
    ASSUME SpeechInv, HeardInv, EndInv, ttsq # <<>>, ttsq' = Tail(ttsq),
           UNCHANGED <<run, turn, pc>>,
           \/ past'.heard = past.heard
           \/ Head(ttsq).kind = "text" /\ past'.heard = Head(ttsq).turn,
           past'.accepted = past.accepted
    PROVE  HeardInv' /\ EndInv'
<1>1. ttsq \in Seq(Frame)
  BY DEF SpeechInv, TypeOK
<1>2. /\ Len(ttsq') = Len(ttsq) - 1
      /\ \A k \in 1 .. Len(ttsq') : ttsq'[k] = ttsq[k + 1]
      /\ Head(ttsq) = ttsq[1] /\ 1 \in 1 .. Len(ttsq)
  BY <1>1
<1>3. ttsq[1] \in Frame /\ ttsq[1].turn \in Nat
  <2>1. ttsq[1] \in Frame
    BY <1>1, <1>2, ElementType
  <2> QED
    BY <2>1 DEF Frame
<1>4. EndInv'
  BY <1>1, <1>2 DEF EndInv
<1>5. turn \in Nat
  BY DEF SpeechInv, TypeOK
<1> QED
  BY <1>1, <1>2, <1>3, <1>4, <1>5 DEF HeardInv

\* The adapter comes to rest, after the ringback tone and the EndFrame of a
\* hand-off or without a word.
LEMMA HeardRest ==
    ASSUME SpeechInv, HeardInv, EndInv, Rest, turn' = turn,
           \/ ttsq' = ttsq \/ ttsq' = <<>>
           \/ ttsq' = ttsq \o HangUp /\ past'.accepted # {},
           past'.heard = past.heard,
           \/ past'.accepted = past.accepted
           \/ /\ past'.accepted = past.accepted \cup {turn}
              /\ pc = "graph" /\ run.node # "failed" /\ ~(run.attempt > 0)
    PROVE  HeardInv' /\ EndInv'
<1>1. ttsq \in Seq(Frame) /\ turn \in Nat /\ pc' = "idle"
  BY DEF SpeechInv, TypeOK, Rest
<1>2. \A i \in 1 .. Len(ttsq) : ttsq[i].turn \in Nat
  <2>1. \A i \in 1 .. Len(ttsq) : ttsq[i] \in Frame
    BY <1>1, ElementType
  <2> QED
    BY <2>1 DEF Frame
<1>3. /\ \A t \in past'.accepted : t \in Nat /\ t <= turn
      /\ past.accepted # {} => past'.accepted # {}
      /\ \A i \in 1 .. Len(ttsq) : ttsq[i].kind = "text" =>
            ttsq[i].turn \notin past'.accepted
  BY <1>1, <1>2 DEF HeardInv
<1>4. CASE ttsq' = ttsq \/ ttsq' = <<>>
  BY <1>1, <1>3, <1>4 DEF HeardInv, EndInv
<1>5. CASE ttsq' = ttsq \o HangUp /\ past'.accepted # {}
  <2>1. /\ HangUp \in Seq(Frame) /\ Len(HangUp) = 2
        /\ HangUp[1].kind = "ring" /\ HangUp[2].kind = "end"
    <3>1. DefaultLang \in Langs /\ aEpoch \in Nat
      BY GraphAssumption DEF SpeechInv, TypeOK
    <3>2. /\ Plain("ring", aEpoch, DefaultLang) \in Frame
          /\ Plain("end", aEpoch, DefaultLang) \in Frame
      BY <3>1, PlainFrame DEF Kinds
    <3> QED
      BY <3>2 DEF HangUp, Plain
  <2>2. /\ Len(ttsq') = Len(ttsq) + 2
        /\ \A k \in 1 .. Len(ttsq) : ttsq'[k] = ttsq[k]
        /\ ttsq'[Len(ttsq) + 1].kind = "ring"
        /\ ttsq'[Len(ttsq) + 2].kind = "end"
    BY <1>1, <1>5, <2>1, CatFacts
  <2>3. \A i \in 1 .. Len(ttsq') : ttsq'[i].kind = "text" =>
           i \in 1 .. Len(ttsq) /\ ttsq'[i] = ttsq[i]
    BY <1>1, <2>2
  <2>4. HeardInv'
    <3>1. past'.heard \in Nat /\ past'.heard <= turn'
      BY DEF HeardInv
    <3>2. \A i \in 1 .. Len(ttsq') : ttsq'[i].kind = "text" =>
             /\ 0 < ttsq'[i].turn /\ ttsq'[i].turn <= turn'
             /\ ttsq'[i].turn \notin past'.accepted
      BY <1>3, <2>3 DEF HeardInv
    <3> QED
      BY <1>1, <1>3, <3>1, <3>2 DEF HeardInv
  <2> QED
    BY <1>1, <1>5, <2>2, <2>4 DEF EndInv
<1> QED
  BY <1>4, <1>5

\* What the caller notices of a step that is no event of the dialogue.
Unnoticed == UNCHANGED <<said, tEpoch, past.heard, past.accepted, call>>

\* Steps of the caller, of the detector and of the greeting's timer.
LEMMA CallerSteps ==
    ASSUME SpeechInv, DialogueInv, past' = Record,
           \/ \E n \in 1 .. LangWords, l \in Langs : Hear(n, l)
           \/ UserStops \/ Greet \/ BotStops
    PROVE  /\ DialogueInv'
           /\ Unnoticed \/ Caller!Opens
<1> USE DEF SpeechInv, DialogueInv, graphVars, adapter, speech, user
<1>1. UNCHANGED <<run, turn, pc, aEpoch, ttsq, call, tEpoch>>
  BY DEF Hear, UserStops, Greet, BotStops
<1>2. past'.accepted = past.accepted /\ past'.heard = past.heard
  BY <1>1, AcceptedFacts, HeardKept
<1>3. AnswerInv' /\ HeardInv' /\ EndInv'
  BY <1>1, <1>2 DEF AnswerInv, HeardInv, EndInv
<1>4. ASSUME NEW n \in 1 .. LangWords, NEW l \in Langs, Hear(n, l)
      PROVE  TurnsInv' /\ (Unnoticed \/ Caller!Opens)
  <2>1. /\ said \in Nat /\ said' \in Nat /\ said <= said'
        /\ said' = said \/ said' = said + 1
        /\ listening' => listening \/ said < said'
    BY <1>4 DEF Hear, TypeOK
  <2>2. Settings(said, l) \in Frame /\ Settings(said, l).kind = "settings"
    BY <2>1, PlainFrame DEF Settings, Plain, Kinds
  <2>3. ASSUME inq' = Append(inq, Settings(said, l))
        PROVE  TurnsInv'
    <3>1. Settings(said, l).kind # "context"
      BY <2>2
    <3> QED
      BY <1>1, <2>1, <2>2, <2>3, <3>1, TurnsAppend
  <2>4. ASSUME inq' = inq
        PROVE  TurnsInv'
    BY <1>1, <2>1, <2>4 DEF TurnsInv, TypeOK
  <2>5. Unnoticed \/ Caller!Opens
    BY <1>1, <1>2, <2>1 DEF Unnoticed, Caller!Opens
  <2> QED
    BY <1>4, <2>3, <2>4, <2>5 DEF Hear
<1>5. CASE UserStops
  <2>1. said \in Nat /\ said' = said /\ ~listening' /\ listening
    BY <1>5 DEF UserStops, TypeOK
  <2>2. /\ Plain("context", said, DefaultLang) \in Frame
        /\ Plain("context", said, DefaultLang).turn = said
    BY <2>1, PlainFrame, GraphAssumption DEF Kinds, Plain
  <2>3. PICK f \in Frame : f.turn = said /\ inq' = Append(inq, f)
    BY <1>5, <2>2 DEF UserStops
  <2>4. TurnsInv'
    <3>1. said' \in Nat /\ said <= said' /\ turn' = turn
      BY <1>1, <2>1
    <3> QED
      BY <2>1, <2>3, <3>1, TurnsAppend
  <2> QED
    BY <1>1, <1>2, <1>3, <2>1, <2>4 DEF Unnoticed
<1>6. CASE Greet
  <2>1. said \in Nat /\ said' = said /\ listening' = listening
    BY <1>6 DEF Greet, TypeOK
  <2>2. PICK f \in {Settings(said, DefaultLang),
                   Plain("greeting", said, DefaultLang)} :
           inq' = Append(inq, f)
    BY <1>6 DEF Greet
  <2>3. f \in Frame /\ f.kind # "context"
    BY <2>1, PlainFrame, GraphAssumption DEF Settings, Kinds, Plain
  <2>4. TurnsInv'
    <3>1. said' \in Nat /\ said <= said' /\ turn' = turn
      BY <1>1, <2>1
    <3> QED
      BY <2>1, <2>2, <2>3, <3>1, TurnsAppend
  <2> QED
    BY <1>1, <1>2, <1>3, <2>1, <2>4 DEF Unnoticed
<1>7. CASE BotStops
  BY <1>1, <1>2, <1>3, <1>7 DEF BotStops, TurnsInv, Unnoticed
<1> QED
  BY <1>3, <1>4, <1>5, <1>6, <1>7

\* Steps of the adapter that leave the turn in progress alone, and its start.
LEMMA AdapterSteps ==
    ASSUME SpeechInv, DialogueInv, past' = Record,
           AdapterForwards \/ AdapterDrops \/ StartTurn
    PROVE  DialogueInv' /\ Unnoticed
<1> USE DEF SpeechInv, DialogueInv, graphVars, adapter, speech, user
<1>1. /\ UNCHANGED <<said, listening, tEpoch, aEpoch, call>>
      /\ inq # <<>> /\ inq' = Tail(inq) /\ pc = "idle"
  BY DEF AdapterForwards, AdapterDrops, StartTurn, AdapterTakes, Ready
<1>2. inq \in Seq(Frame) /\ Head(inq) = inq[1] /\ 1 \in 1 .. Len(inq)
  BY <1>1 DEF TypeOK
<1>3. inq[1] \in Frame
  BY <1>2, ElementType
<1>4. CASE AdapterForwards
  <2>1. /\ UNCHANGED <<run, turn, pc>> /\ Head(inq).kind \in {"settings", "greeting"}
        /\ ttsq' = Append(ttsq, [Head(inq) EXCEPT !.epoch = aEpoch])
    BY <1>4 DEF AdapterForwards, AdapterTakes
  <2>2. /\ [Head(inq) EXCEPT !.epoch = aEpoch] \in Frame
        /\ [Head(inq) EXCEPT !.epoch = aEpoch].kind \in {"settings", "greeting"}
    BY <1>2, <1>3, <2>1 DEF TypeOK, Frame
  <2>3. past'.heard = past.heard
    BY <2>1, <2>2, HeardKept
  <2>4. past'.accepted = past.accepted
    BY <2>1, AcceptedFacts
  <2>5. HeardInv' /\ EndInv'
    BY <2>1, <2>2, <2>3, <2>4, HeardAppend
  <2>6. AnswerInv' /\ TurnsInv'
    BY <1>1, <2>1, TurnsTail DEF AnswerInv
  <2> QED
    BY <1>1, <2>3, <2>4, <2>5, <2>6 DEF Unnoticed
<1>5. CASE AdapterDrops
  <2>1. UNCHANGED <<run, turn, pc, ttsq>>
    BY <1>5 DEF AdapterDrops
  <2>2. past'.heard = past.heard /\ past'.accepted = past.accepted
    BY <2>1, HeardKept, AcceptedFacts
  <2>3. HeardInv' /\ EndInv' /\ AnswerInv'
    BY <2>1, <2>2 DEF HeardInv, EndInv, AnswerInv
  <2>4. TurnsInv'
    BY <1>1, <2>1, TurnsTail
  <2> QED
    BY <1>1, <2>2, <2>3, <2>4 DEF Unnoticed
<1>6. CASE StartTurn
  <2>1. /\ Head(inq).kind = "context" /\ turn' = Head(inq).turn /\ pc' = "graph"
        /\ ttsq' = Append(ttsq, Settings(aEpoch, Supported(language)))
        /\ run' = FreshRun(handoff)
    BY <1>6 DEF StartTurn, AdapterTakes
  <2>2. /\ turn < turn' /\ turn \in Nat /\ turn' \in Nat
        /\ turn' <= said /\ (listening => turn' < said)
    <3>1. turn < inq[1].turn
      BY <1>2, <2>1 DEF TurnsInv
    <3>2. /\ inq[1].turn = inq[1].epoch /\ inq[1].epoch <= said
          /\ listening => inq[1].epoch < said
      BY <1>2, <2>1 DEF InqInv
    <3> QED
      BY <1>2, <1>3, <2>1, <3>1, <3>2 DEF TypeOK, Frame
  <2>3. TurnsInv'
    BY <1>1, <2>1, <2>2, TurnsTail
  <2>4. AnswerInv'
    BY <2>1, FreshAnswer DEF TypeOK
  <2>5. /\ Settings(aEpoch, Supported(language)) \in Frame
        /\ Settings(aEpoch, Supported(language)).kind = "settings"
    BY SupportedType, PlainFrame DEF TypeOK, GraphTypeOK, Settings, Plain, Kinds
  <2>6. past'.heard = past.heard /\ past'.accepted = past.accepted
    <3>1. past'.heard = past.heard
      BY <2>1, <2>5, HeardKept
    <3>2. past'.accepted = past.accepted
      BY <1>1 DEF Record, Finishing
    <3> QED
      BY <3>1, <3>2
  <2>7. ttsq \in Seq(Frame) /\ \A i \in 1 .. Len(ttsq) : ttsq[i].turn \in Nat
    <3>1. ttsq \in Seq(Frame) /\ \A i \in 1 .. Len(ttsq) : ttsq[i] \in Frame
      BY ElementType DEF TypeOK
    <3> QED
      BY <3>1 DEF Frame
  <2>8. \A i \in 1 .. Len(ttsq') :
           \/ i \in 1 .. Len(ttsq) /\ ttsq'[i] = ttsq[i]
           \/ ttsq'[i].kind = "settings"
    BY <2>1, <2>5, <2>7
  <2>9. EndInv'
    BY <2>1, <2>6, <2>8 DEF EndInv
  <2>10. HeardInv'
    <3>1. \A t \in past'.accepted : t \in Nat /\ t < turn'
      BY <2>2, <2>6 DEF HeardInv
    <3>2. past'.heard \in Nat /\ past'.heard < turn'
      BY <2>2, <2>6 DEF HeardInv
    <3>3. \A i \in 1 .. Len(ttsq') : ttsq'[i].kind = "text" =>
             /\ 0 < ttsq'[i].turn /\ ttsq'[i].turn < turn'
             /\ ttsq'[i].turn \notin past'.accepted
      BY <2>2, <2>6, <2>7, <2>8 DEF HeardInv
    <3>4. \A i \in 1 .. Len(ttsq') : ttsq'[i].kind = "text" =>
             ttsq'[i].turn \in Nat
      BY <2>7, <2>8
    <3> QED
      BY <2>2, <3>1, <3>2, <3>3, <3>4 DEF HeardInv
  <2> QED
    BY <1>1, <2>3, <2>4, <2>6, <2>9, <2>10 DEF Unnoticed
<1> QED
  BY <1>4, <1>5, <1>6

\* Steps of the run in progress.
LEMMA RunSteps ==
    ASSUME SpeechInv, DialogueInv, past' = Record, RunGraph \/ StreamToken
    PROVE  DialogueInv' /\ Unnoticed
<1> USE DEF SpeechInv, DialogueInv, graphVars, adapter, speech, user
<1>1. /\ UNCHANGED <<said, listening, tEpoch, aEpoch, call, turn, pc, inq>>
      /\ pc = "graph"
  BY DEF RunGraph, StreamToken
<1>2. past'.accepted = past.accepted
  BY <1>1, AcceptedFacts
<1>3. TurnsInv'
  BY <1>1 DEF TurnsInv
<1>4. CASE RunGraph
  <2>1. GraphStep /\ ttsq' = ttsq
    BY <1>4 DEF RunGraph
  <2>2. AnswerInv' /\ (run'.node = "failed" \/ run'.attempt >= run.attempt)
    BY <2>1, GraphAnswer DEF TypeOK
  <2>3. past'.heard = past.heard
    BY <2>1, HeardKept
  <2>4. run.attempt \in Nat /\ run'.attempt \in Nat /\ run.node # "failed"
    <3>1. GraphTypeOK'
      BY <2>1, GraphStepType DEF TypeOK
    <3> QED
      BY <2>1, <3>1 DEF TypeOK, GraphTypeOK, RunState, GraphStep,
         RouterReplies, RouterCrashes, WorkerReturns, WorkerRaises, SynthSkips,
         SynthCalls, SynthFinishes, SynthRaises
  <2>5. HeardInv' /\ EndInv'
    BY <1>1, <1>2, <2>1, <2>2, <2>3, <2>4 DEF HeardInv, EndInv
  <2> QED
    BY <1>1, <1>2, <1>3, <2>2, <2>3, <2>5 DEF Unnoticed
<1>5. CASE StreamToken
  <2>1. PICK n \in {"router", "synthesizer"} \cup Intents :
           /\ Token(n)
           /\ ttsq' = IF n = "synthesizer" THEN Append(ttsq, Text(aEpoch))
                      ELSE ttsq
    BY <1>5 DEF StreamToken
  <2>2. /\ run'.node = run.node /\ run'.attempt = run.attempt
        /\ run'.status = run.status
    BY <2>1 DEF Token, TypeOK, GraphTypeOK, RunState
  <2>3. AnswerInv'
    BY <2>2 DEF AnswerInv
  <2>4. CASE n = "synthesizer"
    <3>1. Text(aEpoch) \in Frame /\ Text(aEpoch).turn = turn
      BY GraphAssumption DEF Text, Frame, Kinds, TypeOK, GraphTypeOK, RunState
    <3>2. Text(aEpoch).kind = "text"
      BY DEF Text
    <3>3. run.node = "speaking"
      BY <2>1, <2>4, GraphAssumption DEF Token, Talking
    <3>4. run.attempt > 0
      BY <3>3 DEF AnswerInv
    <3>5. past'.heard = past.heard
      BY <2>1, <2>4, <3>1, HeardKept
    <3>6. HeardInv' /\ EndInv'
      BY <1>1, <1>2, <2>1, <2>2, <2>4, <3>1, <3>2, <3>4, <3>5, HeardAppend
    <3> QED
      BY <1>1, <1>2, <1>3, <2>3, <3>5, <3>6 DEF Unnoticed
  <2>5. CASE n # "synthesizer"
    <3>1. past'.heard = past.heard
      BY <2>1, <2>5, HeardKept
    <3>2. HeardInv' /\ EndInv'
      BY <1>1, <1>2, <2>1, <2>2, <2>5, <3>1 DEF HeardInv, EndInv
    <3> QED
      BY <1>1, <1>2, <1>3, <2>3, <3>1, <3>2 DEF Unnoticed
  <2> QED
    BY <2>4, <2>5
<1> QED
  BY <1>4, <1>5

\* Steps that end a turn; only a hand-off that was accepted is noticed.
LEMMA EndSteps ==
    ASSUME SpeechInv, DialogueInv, past' = Record,
           FinishTurn \/ FailTurn \/ PostReturns \/ AdapterInterrupted
    PROVE  /\ DialogueInv'
           /\ Unnoticed \/ Caller!Agrees
<1> USE DEF SpeechInv, DialogueInv, graphVars, adapter, speech, user
<1>1. UNCHANGED <<said, listening, tEpoch, call, turn, inq>>
  BY DEF FinishTurn, FailTurn, PostReturns, AdapterInterrupted
<1>2. TurnsInv'
  BY <1>1 DEF TurnsInv
<1>3. Rest => AnswerInv'
  BY FreshAnswer DEF Rest
<1>4. past'.heard = past.heard
  BY HeardKept DEF FinishTurn, FailTurn, PostReturns, AdapterInterrupted
<1>5. CASE FinishTurn
  <2>1. /\ pc = "graph" /\ run.node = "done" /\ pc' # "graph"
        /\ call' = call /\ aEpoch' = aEpoch
    BY <1>5 DEF FinishTurn, Rest
  <2>2. CASE run.status # "Accepted"
    <3>1. Rest /\ ttsq' = ttsq
      BY <1>5, <2>2 DEF FinishTurn
    <3>2. past'.accepted = past.accepted
      BY <2>2, AcceptedFacts
    <3>3. HeardInv' /\ EndInv'
      BY <1>1, <1>4, <3>1, <3>2, HeardRest
    <3> QED
      BY <1>1, <1>2, <1>3, <1>4, <3>1, <3>2, <3>3 DEF Unnoticed
  <2>3. CASE run.status = "Accepted"
    <3>1. past'.accepted = past.accepted \cup {turn}
      BY <2>1, <2>3, AcceptedFacts DEF Finishing
    <3>2. /\ ~(run.attempt > 0) /\ turn \in Nat
          /\ past.heard < turn /\ turn \notin past.accepted /\ turn <= said
      BY <2>1, <2>3 DEF AnswerInv, HeardInv, TurnsInv, TypeOK
    <3>3. Caller!Agrees
      <4>1. turn \in (past.heard + 1 .. said) \ past.accepted
        BY <3>2 DEF HeardInv, TypeOK
      <4> QED
        BY <1>1, <1>4, <3>1, <4>1 DEF Caller!Agrees
    <3>4. CASE TransferConfigured
      <4>1. pc' = "post" /\ UNCHANGED <<run, ttsq>>
        BY <1>5, <2>3, <3>4 DEF FinishTurn
      <4>2. AnswerInv'
        BY <4>1 DEF AnswerInv
      <4>3. \A i \in 1 .. Len(ttsq) : ttsq[i].kind = "text" =>
               ttsq[i].turn < turn
        BY <2>1, <3>2 DEF HeardInv
      <4>4. \A i \in 1 .. Len(ttsq) : ttsq[i].turn \in Nat
        <5>1. \A i \in 1 .. Len(ttsq) : ttsq[i] \in Frame
          BY ElementType DEF TypeOK
        <5> QED
          BY <5>1 DEF Frame
      <4>5. HeardInv'
        BY <1>1, <1>4, <3>1, <3>2, <4>1, <4>3, <4>4 DEF HeardInv
      <4>6. EndInv'
        BY <3>1, <4>1 DEF EndInv
      <4> QED
        BY <1>2, <3>3, <4>2, <4>5, <4>6
    <3>5. CASE ~TransferConfigured
      <4>1. Rest /\ ttsq' = ttsq \o HangUp
        BY <1>5, <2>3, <3>5 DEF FinishTurn
      <4>2. past'.accepted # {} /\ run.node # "failed"
        BY <2>1, <3>1
      <4>3. HeardInv' /\ EndInv'
        BY <1>1, <1>4, <2>1, <3>1, <3>2, <4>1, <4>2, HeardRest
      <4> QED
        BY <1>2, <1>3, <3>3, <4>1, <4>3
    <3> QED
      BY <3>4, <3>5
  <2> QED
    BY <2>2, <2>3
<1>6. CASE FailTurn
  <2>1. Rest /\ ttsq' = ttsq /\ run.node # "done"
    BY <1>6 DEF FailTurn
  <2>2. past'.accepted = past.accepted
    BY <2>1, AcceptedFacts
  <2>3. HeardInv' /\ EndInv'
    BY <1>1, <1>4, <2>1, <2>2, HeardRest
  <2> QED
    BY <1>1, <1>2, <1>3, <1>4, <2>1, <2>2, <2>3 DEF Unnoticed
<1>7. CASE PostReturns
  <2>1. Rest /\ ttsq' = ttsq \o HangUp /\ pc = "post"
    BY <1>7 DEF PostReturns
  <2>2. past'.accepted = past.accepted /\ past.accepted # {}
    BY <2>1 DEF Record, Finishing, EndInv
  <2>3. HeardInv' /\ EndInv'
    BY <1>1, <1>4, <2>1, <2>2, HeardRest
  <2> QED
    BY <1>1, <1>2, <1>3, <1>4, <2>1, <2>2, <2>3 DEF Unnoticed
<1>8. CASE AdapterInterrupted
  <2>1. Rest /\ ttsq' = ttsq /\ aEpoch' # aEpoch
    BY <1>8 DEF AdapterInterrupted, TypeOK
  <2>2. past'.accepted = past.accepted
    BY <2>1, AcceptedFacts
  <2>3. HeardInv' /\ EndInv'
    BY <1>1, <1>4, <2>1, <2>2, HeardRest
  <2> QED
    BY <1>1, <1>2, <1>3, <1>4, <2>1, <2>2, <2>3 DEF Unnoticed
<1> QED
  BY <1>5, <1>6, <1>7, <1>8

\* Steps of the speech output.
LEMMA TtsSteps ==
    ASSUME SpeechInv, DialogueInv, past' = Record,
           Configure \/ Speak \/ TtsDrops \/ TtsInterrupted
    PROVE  /\ DialogueInv'
           /\ Unnoticed \/ Caller!Replies \/ Caller!FallsSilent
<1> USE DEF SpeechInv, DialogueInv, graphVars, adapter, speech, user
<1>1. UNCHANGED <<run, said, listening, aEpoch, call, turn, pc, inq>>
  BY DEF Configure, Speak, TtsDrops, TtsInterrupted
<1>2. TurnsInv' /\ AnswerInv'
  BY <1>1 DEF TurnsInv, AnswerInv
<1>3. past'.accepted = past.accepted
  BY <1>1, AcceptedFacts
<1>4. ASSUME tEpoch' = tEpoch, ttsq # <<>>, ttsq' = Tail(ttsq),
             ~AboutToSpeak("text")
      PROVE  DialogueInv' /\ Unnoticed
  <2>1. past'.heard = past.heard
    BY <1>4, HeardFacts
  <2>2. HeardInv' /\ EndInv'
    BY <1>1, <1>3, <1>4, <2>1, HeardTail
  <2> QED
    BY <1>1, <1>2, <1>3, <1>4, <2>1, <2>2 DEF Unnoticed
<1>5. CASE Configure
  BY <1>4, <1>5 DEF Configure, TtsTakes, Ready, AboutToSpeak
<1>6. CASE TtsDrops
  BY <1>4, <1>6 DEF TtsDrops, TtsTakes, Ready, AboutToSpeak
<1>7. CASE Speak
  <2>1. /\ tEpoch' = tEpoch /\ ttsq # <<>> /\ ttsq' = Tail(ttsq) /\ call = "live"
        /\ Ready(ttsq, tEpoch) /\ ~Stale(Head(ttsq), tEpoch)
    BY <1>7 DEF Speak, TtsTakes, Ready
  <2>2. CASE Head(ttsq).kind # "text"
    BY <1>4, <2>1, <2>2 DEF AboutToSpeak
  <2>3. CASE Head(ttsq).kind = "text"
    <3>1. AboutToSpeak("text")
      BY <2>1, <2>3 DEF AboutToSpeak
    <3>2. past'.heard = Head(ttsq).turn
      BY <1>1, <2>1, <3>1, HeardFacts
    <3>3. Head(ttsq).turn = tEpoch
      BY <3>1, SpeechFacts DEF NoStaleSpeech
    <3>4. 0 < Head(ttsq).turn /\ Head(ttsq).turn \notin past.accepted
      <4>1. Head(ttsq) = ttsq[1] /\ 1 \in 1 .. Len(ttsq)
        BY <2>1 DEF TypeOK
      <4> QED
        BY <2>3, <4>1 DEF HeardInv
    <3>5. Caller!Replies
      BY <1>1, <1>3, <2>1, <3>2, <3>3, <3>4 DEF Caller!Replies
    <3>6. HeardInv' /\ EndInv'
      BY <1>1, <1>3, <2>1, <2>3, <3>2, HeardTail
    <3> QED
      BY <1>2, <3>5, <3>6
  <2> QED
    BY <2>2, <2>3
<1>8. CASE TtsInterrupted
  <2>1. tEpoch < aEpoch /\ tEpoch' = tEpoch + 1 /\ ttsq' = ttsq
    BY <1>8 DEF TtsInterrupted
  <2>2. past'.heard = past.heard
    BY <2>1, HeardKept
  <2>3. HeardInv' /\ EndInv'
    BY <1>1, <1>3, <2>1, <2>2 DEF HeardInv, EndInv
  <2>4. Caller!FallsSilent
    BY <1>1, <1>3, <2>1, <2>2 DEF Caller!FallsSilent, OrderInv, TypeOK
  <2> QED
    BY <1>2, <2>3, <2>4
<1> QED
  BY <1>5, <1>6, <1>7, <1>8

\* The end of the call.
LEMMA StopSteps ==
    ASSUME SpeechInv, DialogueInv, past' = Record, HangsUp \/ Disconnect
    PROVE  /\ DialogueInv'
           /\ Caller!AgentHangsUp \/ Caller!CallerLeaves
<1> USE DEF SpeechInv, DialogueInv, graphVars, adapter, speech, user
<1>1. PICK how \in {"ended", "gone"} :
         /\ call = "live" /\ Stop(how)
         /\ how = "ended" => ttsq # <<>> /\ Head(ttsq).kind = "end"
  BY DEF HangsUp, Disconnect, Ready
<1>2. /\ call' = how /\ call' # call /\ Rest /\ inq' = <<>> /\ ttsq' = <<>>
      /\ UNCHANGED <<said, listening, aEpoch, turn, tEpoch>>
  BY <1>1 DEF Stop
<1>3. past'.heard = past.heard /\ past'.accepted = past.accepted
  BY <1>2, HeardFacts, AcceptedFacts
<1>4. HeardInv' /\ EndInv'
  BY <1>2, <1>3, HeardRest
<1>5. TurnsInv' /\ AnswerInv'
  BY <1>2, FreshAnswer DEF TurnsInv, Rest
<1>6. CASE how = "ended"
  <2>1. Head(ttsq) = ttsq[1] /\ 1 \in 1 .. Len(ttsq)
    BY <1>1, <1>6 DEF TypeOK
  <2>2. past.accepted # {}
    BY <1>1, <1>6, <2>1 DEF EndInv
  <2> QED
    BY <1>2, <1>3, <1>4, <1>5, <1>6, <2>2 DEF Caller!AgentHangsUp
<1>7. CASE how = "gone"
  BY <1>2, <1>3, <1>4, <1>5, <1>7 DEF Caller!CallerLeaves
<1> QED
  BY <1>6, <1>7

\* Every step is an event of the dialogue or none.
LEMMA NextDialogue ==
    ASSUME SpeechInv, DialogueInv, HistoryNext
    PROVE  /\ DialogueInv'
           /\ [Caller!Next]_Caller!dialogueVars
<1>1. past' = Record /\ Next
  BY DEF HistoryNext
<1>2. call = "live"
  BY <1>1 DEF Next, Hear, UserStops, Greet, AdapterForwards, AdapterDrops,
     StartTurn, AdapterTakes, RunGraph, StreamToken, FinishTurn, FailTurn,
     PostReturns, AdapterInterrupted, Configure, Speak, TtsDrops, TtsTakes,
     HangsUp, BotStops, TtsInterrupted, Disconnect
<1>3. /\ DialogueInv'
      /\ \/ Unnoticed
         \/ Caller!Opens \/ Caller!FallsSilent \/ Caller!Replies
         \/ Caller!Agrees \/ Caller!AgentHangsUp \/ Caller!CallerLeaves
  BY <1>1, CallerSteps, AdapterSteps, RunSteps, EndSteps, TtsSteps, StopSteps
     DEF Next
<1> QED
  BY <1>2, <1>3 DEF Caller!Next, Caller!dialogueVars, Unnoticed

LEMMA InitDialogue ==
    ASSUME HistoryInit
    PROVE  SpeechInv /\ DialogueInv /\ Caller!Begin
<1>1. SpeechInv
  BY InitSpeech DEF HistoryInit
<1>2. DialogueInv
  BY DEF HistoryInit, Init, GraphInit, NoPast, NoRun, FreshRun, DialogueInv,
     TurnsInv, AnswerInv, HeardInv, EndInv
<1>3. Caller!Begin
  BY DEF HistoryInit, Init, NoPast, Caller!Begin
<1> QED
  BY <1>1, <1>2, <1>3

\* The invariant is inductive.
LEMMA StepInv ==
    ASSUME SpeechInv, DialogueInv, [HistoryNext]_<<vars, past>>
    PROVE  /\ (SpeechInv /\ DialogueInv)'
           /\ [Caller!Next]_Caller!dialogueVars
<1>1. SpeechInv'
  BY NextSpeech DEF HistoryNext
<1>2. CASE HistoryNext
  BY <1>1, <1>2, NextDialogue
<1>3. CASE UNCHANGED <<vars, past>>
  BY <1>1, <1>3 DEF vars, user, adapter, speech, DialogueInv, TurnsInv,
     AnswerInv, HeardInv, EndInv, Caller!dialogueVars
<1> QED
  BY <1>2, <1>3

-----------------------------------------------------------------------------
\* For any number of turns and any constants: queues, cancellations, retries
\* and failures of the pipeline never let the caller notice anything that is
\* not a dialogue.
THEOREM CallIsDialogue == HistorySpec => ImplementsDialogue
<1>1. HistoryInit => SpeechInv /\ DialogueInv /\ Caller!Begin
  BY InitDialogue
<1>2. SpeechInv /\ DialogueInv /\ [HistoryNext]_<<vars, past>>
        => (SpeechInv /\ DialogueInv)' /\ [Caller!Next]_Caller!dialogueVars
  BY StepInv
<1> QED
  BY <1>1, <1>2, PTL DEF HistorySpec, ImplementsDialogue, Caller!Spec

\* No reply of a handed-off turn is heard, and no EndFrame is under way unless
\* a run of the graph accepted a hand-off.
THEOREM HangUps == HistorySpec => []HangUpOnlyOnAcceptance
<1>1. SpeechInv /\ DialogueInv => HangUpOnlyOnAcceptance
  <2>1. SUFFICES ASSUME SpeechInv, DialogueInv
                 PROVE  HangUpOnlyOnAcceptance
    OBVIOUS
  <2>2. ttsq \in Seq(Frame) /\ DOMAIN ttsq = 1 .. Len(ttsq)
    BY <2>1 DEF SpeechInv, TypeOK
  <2>3. AboutToSpeak("text") => Head(ttsq) = ttsq[1] /\ 1 \in 1 .. Len(ttsq)
                                  /\ ttsq[1].kind = "text"
    BY <2>2 DEF AboutToSpeak, Ready
  <2> QED
    BY <2>1, <2>2, <2>3 DEF DialogueInv, HeardInv, EndInv,
       HangUpOnlyOnAcceptance
<1> QED
  BY <1>1, InitDialogue, StepInv, PTL DEF HistorySpec
=============================================================================
