--------------------------- MODULE WebCallClient ---------------------------
(***************************************************************************)
(* The browser page of src/web_call_client/app.js: one set of global       *)
(* variables and two buttons, used by every call the user starts.  A       *)
(* handler runs to its end or to its await, and events come in any order   *)
(* the browser allows: the server may close a socket at any time, the user *)
(* may take any time to answer the microphone prompt, and the close event  *)
(* of a socket may come after the next call was started.                   *)
(*                                                                         *)
(* ws.onopen is asynchronous and nobody handles what it throws: it ends    *)
(* where it is, and the page stays as it was by then.  What startCall      *)
(* itself throws it undoes at once (89-93): such a click does nothing.     *)
(***************************************************************************)
EXTENDS Naturals, FiniteSets

CONSTANT MaxCalls   \* bound: calls started

ASSUME MaxCallsAssumption == MaxCalls \in Nat

VARIABLES
    ws,          \* the call whose socket the global ws is, or None
    audio,       \* the call audioContext was made for, or None
    mediaStream, \* the call whose microphone stream mediaStream is, or None
    nodes,       \* an audio graph is connected to processorNode
    start,       \* startBtn is visible
    end,         \* endBtn is visible
    socket,      \* the state of each call's socket
    prompt,      \* calls waiting for getUserMedia
    microphone,  \* calls whose stream has not been stopped
    failed,      \* history: calls whose ws.onopen threw
    late         \* history: calls given their stream when they were over

page    == <<ws, audio, mediaStream, nodes, start, end>>
browser == <<socket, prompt, microphone>>
history == <<failed, late>>
vars    == <<page, browser, history>>

None  == 0
Calls == 1 .. MaxCalls

-----------------------------------------------------------------------------
\* Mutant: the button stays while the call is being set up.
StartCallTwice(c) ==
    /\ start
    /\ socket[c] = "unused"
    /\ socket' = [socket EXCEPT ![c] = "connecting"]
    /\ ws' = c
    /\ UNCHANGED <<audio, mediaStream, nodes, start, end, prompt, microphone,
                   history>>

StartCall(c) ==
    /\ start
    /\ socket[c] = "unused"
    /\ start' = FALSE
    /\ socket' = [socket EXCEPT ![c] = "connecting"]
    /\ ws' = c
    /\ UNCHANGED <<audio, mediaStream, nodes, end, prompt, microphone, history>>

\* ws.onopen up to its await.  It throws where there is no AudioContext (35)
\* or none of this rate, or no navigator.mediaDevices (38).
OnOpen(c) ==
    /\ socket[c] = "connecting"
    /\ socket' = [socket EXCEPT ![c] = "open"]
    /\ \/ audio' = c /\ prompt' = prompt \cup {c} /\ UNCHANGED failed
       \/ audio' \in {audio, c} /\ failed' = failed \cup {c} /\ UNCHANGED prompt
    /\ UNCHANGED <<ws, mediaStream, nodes, start, end, microphone, late>>

\* The rest of ws.onopen: once it has stored the stream it connects it, or it
\* throws, without an audioContext always and with one if its nodes cannot be
\* made (39-41), as for a microphone of another rate.
Granted(c) ==
    /\ c \in prompt
    /\ prompt' = prompt \ {c}
    /\ microphone' = microphone \cup {c}
    /\ mediaStream' = c
    /\ late' = IF ws = c THEN late ELSE late \cup {c}
    /\ \/ audio # None /\ nodes' = TRUE /\ end' = TRUE /\ UNCHANGED failed
       \/ failed' = failed \cup {c} /\ UNCHANGED <<nodes, end>>
    /\ UNCHANGED <<ws, audio, start, socket>>

\* The rejection leaves ws.onopen.
Denied(c) ==
    /\ c \in prompt
    /\ prompt' = prompt \ {c}
    /\ failed' = failed \cup {c}
    /\ UNCHANGED <<page, socket, microphone, late>>

\* The server is not there, refuses, or hangs up.
ServerCloses(c) ==
    /\ socket[c] \in {"connecting", "open"}
    /\ socket' = [socket EXCEPT ![c] = "lost"]
    /\ UNCHANGED <<page, prompt, microphone, history>>

\* Mutant: the tracks of the stream are not stopped.
EndCallStreaming(sockets) ==
    /\ socket' = [c \in Calls |->
                    IF c = ws /\ sockets[c] \in {"connecting", "open"}
                    THEN "closing" ELSE sockets[c]]
    /\ ws' = None /\ audio' = None /\ mediaStream' = None /\ nodes' = FALSE
    /\ start' = TRUE /\ end' = FALSE
    /\ UNCHANGED <<prompt, microphone, history>>

\* Mutant: the audio nodes are not disconnected.
EndCallConnected(sockets) ==
    /\ socket' = [c \in Calls |->
                    IF c = ws /\ sockets[c] \in {"connecting", "open"}
                    THEN "closing" ELSE sockets[c]]
    /\ microphone' = microphone \ {mediaStream}
    /\ ws' = None /\ audio' = None /\ mediaStream' = None
    /\ start' = TRUE /\ end' = FALSE
    /\ UNCHANGED <<nodes, prompt, history>>

\* endCall, with the sockets as the event that called it left them.
EndCall(sockets) ==
    /\ socket' = [c \in Calls |->
                    IF c = ws /\ sockets[c] \in {"connecting", "open"}
                    THEN "closing" ELSE sockets[c]]
    /\ microphone' = microphone \ {mediaStream}
    /\ ws' = None /\ audio' = None /\ mediaStream' = None /\ nodes' = FALSE
    /\ start' = TRUE /\ end' = FALSE
    /\ UNCHANGED <<prompt, history>>

EndClicked == end /\ EndCall(socket)

\* Mutant: a close event ends the call only if it was not the page's doing.
OnCloseOfOpen(c) ==
    /\ socket[c] \in {"lost", "closing"}
    /\ LET closed == [socket EXCEPT ![c] = "closed"]
       IN  IF c \in microphone THEN EndCall(closed)
           ELSE socket' = closed /\ UNCHANGED <<page, prompt, microphone, history>>

\* Mutant: the close event waits for the handler that awaits the prompt.
OnCloseAfterPrompt(c) ==
    /\ socket[c] \in {"lost", "closing"}
    /\ c \notin prompt
    /\ EndCall([socket EXCEPT ![c] = "closed"])

\* ws.onclose: it does not ask whether ws is still its own socket.
OnClose(c) ==
    /\ socket[c] \in {"lost", "closing"}
    /\ EndCall([socket EXCEPT ![c] = "closed"])

-----------------------------------------------------------------------------
Init ==
    /\ ws = None /\ audio = None /\ mediaStream = None /\ nodes = FALSE
    /\ start = TRUE /\ end = FALSE
    /\ socket = [c \in Calls |-> "unused"]
    /\ prompt = {} /\ microphone = {} /\ failed = {} /\ late = {}

Next ==
    \/ \E c \in Calls : \/ StartCall(c) \/ OnOpen(c) \/ Granted(c) \/ Denied(c)
                        \/ ServerCloses(c) \/ OnClose(c)
    \/ EndClicked

Spec == Init /\ [][Next]_vars

\* The browser delivers every close event.  Nothing is assumed of the user or
\* of the server.
FairSpec == Spec /\ \A c \in Calls : WF_vars(OnClose(c))

-----------------------------------------------------------------------------
(* Properties. *)

\* The type invariant: globals, sockets and streams are of known calls, and
\* audio nodes are connected only in an audio context.
TypeOK ==
    /\ {ws, audio, mediaStream} \subseteq Calls \cup {None}
    /\ {nodes, start, end} \subseteq BOOLEAN /\ (nodes => audio # None)
    /\ socket \in [Calls -> {"unused", "connecting", "open", "lost", "closing",
                             "closed"}]
    /\ prompt \cup microphone \cup failed \cup late \subseteq Calls

\* A socket the page has not asked to close is the one in the global ws, and
\* there is none while a call can be started: the handlers of a call, which use
\* the global, talk to their own socket, and a call that an old close event
\* ends is ended whole, not left with a socket nobody refers to (app.js:85-87).
SocketIsCurrent ==
    \A c \in Calls : socket[c] \in {"connecting", "open"} => ws = c /\ ~start

\* The end of a call stops one stream.  So the microphones left on after their
\* calls are never more than the streams that came after theirs, however the
\* two get mixed up in mediaStream (app.js:38, 139-142): a call ended with no
\* such stream about leaves nothing on, and none leaves two.
MicrophoneOff ==
    Cardinality(microphone \ {ws}) <= Cardinality(late)

\* The page without a button still holds a socket whose close event will bring
\* one back; and if that socket is open, the user is being asked for the
\* microphone or ws.onopen has thrown.  The start of a call can strand the page
\* in no other way, whatever old prompts and close events come in between
\* (app.js:16, 25-87, 149).
NotStranded ==
    start \/ end \/ (ws # None /\ (\/ socket[ws] \in {"connecting", "lost"}
                                   \/ /\ socket[ws] = "open"
                                      /\ ws \in prompt \cup failed))

\* When the server is gone the page can be used again, whatever the page was
\* doing, even for a call whose ws.onopen threw.
LostCallIsOver ==
    \A c \in Calls : (socket[c] = "lost") ~> start
=============================================================================
