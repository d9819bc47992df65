------------------------- MODULE WebCallClientProofs -------------------------
(***************************************************************************)
(* The safety of the browser page, for any number of calls.                *)
(***************************************************************************)
EXTENDS WebCallClient, FiniteSetTheorems, TLAPS

\* What ties the page's globals to the calls: the start button is there only
\* without a socket; the current call's prompt has its audio context; prompts
\* and streams are of calls whose socket was opened, and a call is given one
\* stream; and mediaStream holds a live stream, or the current call has none.
PageInv ==
    /\ start => ws = None
    /\ ws \in prompt => audio # None
    /\ \A c \in prompt \cup microphone \cup late :
          socket[c] \notin {"unused", "connecting"}
    /\ prompt \cap late = {}
    /\ mediaStream \in microphone \cup {None}
    /\ ws \in microphone => mediaStream # None

Inv == TypeOK /\ SocketIsCurrent /\ NotStranded /\ MicrophoneOff /\ PageInv

LEMMA InitInv ==
    ASSUME Init
    PROVE  Inv
<1>1. TypeOK /\ SocketIsCurrent /\ NotStranded /\ PageInv
  BY MaxCallsAssumption
     DEF Init, TypeOK, SocketIsCurrent, NotStranded, PageInv, Calls, None
<1>2. microphone \ {ws} = {} /\ late = {}
  BY DEF Init
<1>3. MicrophoneOff
  BY <1>2, FS_EmptySet DEF MicrophoneOff
<1> QED
  BY <1>1, <1>3 DEF Inv

\* A call is a positive number, and None is none.
LEMMA NoneIsNoCall == None \notin Calls
BY MaxCallsAssumption DEF None, Calls

\* There are finitely many calls, hence microphones.
LEMMA FinitelyMany ==
    ASSUME NEW S, S \subseteq Calls
    PROVE  IsFiniteSet(S) /\ Cardinality(S) \in Nat
<1>1. IsFiniteSet(Calls)
  BY MaxCallsAssumption, FS_Interval DEF Calls
<1> QED
  BY <1>1, FS_Subset, FS_CardinalityType

\* Microphones and late streams, before and after a step: more of them stay on
\* only as more streams come late.
LEMMA NoMoreOn ==
    ASSUME NEW on, NEW on1, NEW l, NEW l1,
           on \subseteq Calls, l1 \subseteq Calls, on1 \subseteq on, l \subseteq l1,
           Cardinality(on) <= Cardinality(l)
    PROVE  Cardinality(on1) <= Cardinality(l1)
<1>1. /\ IsFiniteSet(on) /\ IsFiniteSet(l1)
      /\ Cardinality(on) \in Nat /\ Cardinality(l1) \in Nat
      /\ Cardinality(on1) \in Nat /\ Cardinality(l) \in Nat
  BY FinitelyMany
<1>2. Cardinality(on1) <= Cardinality(on) /\ Cardinality(l) <= Cardinality(l1)
  BY <1>1, FS_Subset
<1> QED
  BY <1>1, <1>2

\* endCall, whichever event called it: all sockets but the current one have
\* been closed before, and that one is closed now.
LEMMA EndCallInv ==
    ASSUME Inv, NEW sockets, EndCall(sockets),
           sockets \in [Calls -> {"unused", "connecting", "open", "lost",
                                  "closing", "closed"}],
           \A c \in Calls : \/ sockets[c] = socket[c]
                            \/ sockets[c] = "closed"
    PROVE  Inv'
<1> USE NoneIsNoCall DEF Inv
<1>1. /\ socket' = [c \in Calls |->
                      IF c = ws /\ sockets[c] \in {"connecting", "open"}
                      THEN "closing" ELSE sockets[c]]
      /\ microphone' = microphone \ {mediaStream}
      /\ ws' = None /\ audio' = None /\ mediaStream' = None /\ nodes' = FALSE
      /\ start' = TRUE /\ end' = FALSE
      /\ prompt' = prompt /\ failed' = failed /\ late' = late
  BY DEF EndCall, history
<1>2. TypeOK'
  BY <1>1 DEF TypeOK
<1>3. SocketIsCurrent'
  BY <1>1 DEF SocketIsCurrent, TypeOK
<1>4. NotStranded'
  BY <1>1 DEF NotStranded
<1>5. PageInv'
  BY <1>1 DEF PageInv, TypeOK
<1>6. microphone \subseteq Calls /\ late \subseteq Calls /\ ws' \notin microphone'
  BY <1>1 DEF TypeOK
<1>7. ASSUME ws \in microphone
      PROVE  MicrophoneOff'
  <2>1. ws \in microphone /\ mediaStream \in microphone
    BY <1>7 DEF PageInv
  <2>2. IsFiniteSet(microphone)
    BY <1>6, FinitelyMany
  <2>3. Cardinality(microphone \ {ws}) = Cardinality(microphone) - 1
    BY <2>1, <2>2, FS_RemoveElement
  <2>4. Cardinality(microphone \ {mediaStream}) = Cardinality(microphone) - 1
    BY <2>1, <2>2, FS_RemoveElement
  <2>5. microphone' \ {ws'} = microphone \ {mediaStream}
    BY <1>1, <1>6
  <2> QED
    BY <1>1, <2>3, <2>4, <2>5 DEF MicrophoneOff
<1>8. ASSUME ws \notin microphone
      PROVE  MicrophoneOff'
  <2>1. microphone' \ {ws'} \subseteq microphone \ {ws}
    BY <1>1, <1>8
  <2> QED
    BY <1>1, <1>6, <2>1, NoMoreOn DEF MicrophoneOff
<1> QED
  BY <1>2, <1>3, <1>4, <1>5, <1>7, <1>8

LEMMA NextInv ==
    ASSUME Inv, [Next]_vars
    PROVE  Inv'
<1> USE NoneIsNoCall DEF Inv
<1>1. ASSUME NEW c \in Calls, StartCall(c)
      PROVE  Inv'
  <2>1. TypeOK'
    BY <1>1 DEF StartCall, TypeOK, history
  <2>2. SocketIsCurrent'
    BY <1>1 DEF StartCall, TypeOK, SocketIsCurrent
  <2>3. NotStranded'
    BY <1>1 DEF StartCall, TypeOK, NotStranded
  <2>4. PageInv'
    BY <1>1 DEF StartCall, TypeOK, PageInv, history
  <2>5. MicrophoneOff'
    <3>1. ws = None /\ microphone' = microphone /\ late' = late
      BY <1>1 DEF StartCall, PageInv, history
    <3>2. microphone \subseteq Calls /\ late \subseteq Calls
      BY DEF TypeOK
    <3> QED
      BY <3>1, <3>2, NoMoreOn DEF MicrophoneOff
  <2> QED
    BY <2>1, <2>2, <2>3, <2>4, <2>5
<1>2. ASSUME NEW c \in Calls, OnOpen(c)
      PROVE  Inv'
  <2>1. ws = c
    BY <1>2 DEF OnOpen, SocketIsCurrent
  <2>2. TypeOK'
    BY <1>2 DEF OnOpen, TypeOK
  <2>3. SocketIsCurrent'
    BY <1>2, <2>1 DEF OnOpen, TypeOK, SocketIsCurrent
  <2>4. NotStranded'
    BY <1>2, <2>1 DEF OnOpen, NotStranded, TypeOK
  <2>5. PageInv'
    BY <1>2, <2>1 DEF OnOpen, TypeOK, PageInv
  <2>6. MicrophoneOff'
    BY <1>2 DEF OnOpen, MicrophoneOff
  <2> QED
    BY <2>2, <2>3, <2>4, <2>5, <2>6
<1>3. ASSUME NEW c \in Calls, Granted(c)
      PROVE  Inv'
  <2>1. TypeOK'
    <3>1. /\ {ws', audio', mediaStream'} \subseteq Calls \cup {None}
          /\ prompt' \cup microphone' \cup failed' \cup late' \subseteq Calls
      BY <1>3 DEF Granted, TypeOK
    <3>2. {nodes', start', end'} \subseteq BOOLEAN
      BY <1>3, Zenon DEF Granted, TypeOK
    <3>3. nodes' => audio' # None
      BY <1>3 DEF Granted, TypeOK
    <3> QED
      BY <1>3, <3>1, <3>2, <3>3 DEF Granted, TypeOK
  <2>2. SocketIsCurrent'
    BY <1>3 DEF Granted, SocketIsCurrent
  <2>3. NotStranded'
    BY <1>3 DEF Granted, NotStranded
  <2>4. PageInv'
    BY <1>3 DEF Granted, PageInv, TypeOK
  <2>5. microphone \subseteq Calls /\ late \subseteq Calls /\ late' \subseteq Calls
    BY <2>1 DEF TypeOK
  <2>6. ASSUME ws = c \/ c \in microphone
        PROVE  MicrophoneOff'
    <3>1. microphone' \ {ws'} \subseteq microphone \ {ws} /\ late \subseteq late'
      BY <1>3, <2>6 DEF Granted
    <3> QED
      BY <2>5, <3>1, NoMoreOn DEF MicrophoneOff
  <2>7. ASSUME ws # c, c \notin microphone, c \notin late
        PROVE  MicrophoneOff'
    <3>1. /\ microphone' \ {ws'} = (microphone \ {ws}) \cup {c}
          /\ late' = late \cup {c}
      BY <1>3, <2>7 DEF Granted
    <3>2. IsFiniteSet(microphone \ {ws}) /\ IsFiniteSet(late)
      BY <2>5, FinitelyMany
    <3>3. /\ Cardinality((microphone \ {ws}) \cup {c})
               = Cardinality(microphone \ {ws}) + 1
          /\ Cardinality(late \cup {c}) = Cardinality(late) + 1
      BY <2>7, <3>2, FS_AddElement
    <3>4. Cardinality(microphone \ {ws}) \in Nat /\ Cardinality(late) \in Nat
      BY <3>2, FS_CardinalityType
    <3> QED
      BY <3>1, <3>3, <3>4 DEF MicrophoneOff
  <2>8. c \notin late
    BY <1>3 DEF Granted, PageInv
  <2> QED
    BY <2>1, <2>2, <2>3, <2>4, <2>6, <2>7, <2>8
<1>4. ASSUME NEW c \in Calls, Denied(c)
      PROVE  Inv'
  <2>1. TypeOK'
    BY <1>4 DEF Denied, TypeOK, page
  <2>2. SocketIsCurrent' /\ NotStranded' /\ PageInv' /\ MicrophoneOff'
    BY <1>4 DEF Denied, SocketIsCurrent, NotStranded, PageInv, MicrophoneOff,
       TypeOK, page
  <2> QED
    BY <2>1, <2>2
<1>5. ASSUME NEW c \in Calls, ServerCloses(c)
      PROVE  Inv'
  <2>1. TypeOK'
    BY <1>5 DEF ServerCloses, TypeOK, page, history
  <2>2. SocketIsCurrent' /\ NotStranded' /\ PageInv' /\ MicrophoneOff'
    BY <1>5 DEF ServerCloses, SocketIsCurrent, NotStranded, PageInv,
       MicrophoneOff, TypeOK, page, history
  <2> QED
    BY <2>1, <2>2
<1>6. ASSUME NEW c \in Calls, OnClose(c)
      PROVE  Inv'
  <2> DEFINE sockets == [socket EXCEPT ![c] = "closed"]
  <2>1. EndCall(sockets)
    BY <1>6 DEF OnClose
  <2>2. sockets \in [Calls -> {"unused", "connecting", "open", "lost",
                               "closing", "closed"}]
    BY DEF TypeOK
  <2>3. \A d \in Calls : \/ sockets[d] = socket[d]
                         \/ sockets[d] = "closed"
    BY DEF TypeOK
  <2> HIDE DEF sockets
  <2> QED
    BY <2>1, <2>2, <2>3, EndCallInv
<1>7. CASE EndClicked
  <2>1. socket \in [Calls -> {"unused", "connecting", "open", "lost",
                              "closing", "closed"}]
    BY DEF TypeOK
  <2> QED
    BY <1>7, <2>1, EndCallInv DEF EndClicked
<1>8. CASE UNCHANGED vars
  BY <1>8 DEF vars, page, browser, history, TypeOK, SocketIsCurrent,
     NotStranded, MicrophoneOff, PageInv
<1> QED
  BY <1>1, <1>2, <1>3, <1>4, <1>5, <1>6, <1>7, <1>8 DEF Next

\* For any number of calls, whatever order the browser's events come in and
\* wherever ws.onopen throws: the handlers of a call use their own socket, no
\* more microphones stay on than streams came late, and a page without a button
\* is setting up a call or failed to, and will have one back with the close
\* event of a socket (app.js:15-87, 126-151).
THEOREM PageSafety ==
    Spec => [](TypeOK /\ SocketIsCurrent /\ MicrophoneOff /\ NotStranded)
<1>1. Inv => TypeOK /\ SocketIsCurrent /\ MicrophoneOff /\ NotStranded
  BY DEF Inv
<1> QED
  BY <1>1, InitInv, NextInv, PTL DEF Spec
=============================================================================
