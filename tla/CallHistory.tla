---------------------------- MODULE CallHistory ----------------------------
(***************************************************************************)
(* VoiceTurn with a history variable, for the properties that compare a    *)
(* turn with what earlier turns decided or said.  The history restricts no *)
(* step of the call.                                                       *)
(***************************************************************************)
EXTENDS VoiceTurn

VARIABLE past

Past == [accepted: SUBSET Nat,  \* turns whose final state was "Accepted"
         offered: SUBSET Nat,   \* turns whose router decided to offer
         heard: Nat]            \* the turn of the last text spoken

NoPast == [accepted |-> {}, offered |-> {}, heard |-> 0]

Finishing == pc = "graph" /\ run.node = "done" /\ pc' # "graph" /\ call' = call
             /\ aEpoch' = aEpoch

Record ==
    [accepted |-> IF Finishing /\ run.status = "Accepted"
                  THEN past.accepted \cup {turn} ELSE past.accepted,
     offered  |-> IF pc = "graph" /\ run.node = "router"
                     /\ run'.node \in {"workers", "synthesizer"}
                     /\ run'.status = "Offered"
                  THEN past.offered \cup {turn} ELSE past.offered,
     heard    |-> IF AboutToSpeak("text") /\ ttsq' = Tail(ttsq) /\ call' = call
                  THEN Head(ttsq).turn ELSE past.heard]

HistoryInit == Init /\ past = NoPast
HistoryNext == Next /\ past' = Record
HistorySpec == HistoryInit /\ [][HistoryNext]_<<vars, past>>

FairHistorySpec == HistorySpec /\ Fairness

\* The call is a dialogue in the sense of module Dialogue: what the pipeline's
\* queues, cancellations and retries do is invisible to the caller.
Caller == INSTANCE Dialogue WITH
    opened <- said, silenced <- tEpoch, heard <- past.heard,
    accepted <- past.accepted, outcome <- call

ImplementsDialogue == Caller!Spec

-----------------------------------------------------------------------------
\* The caller never hears a reply of a turn in which the hand-off was
\* accepted, and an EndFrame is on its way only if some turn's graph accepted
\* one: nobody else is hung up on (nodes.py:191-193, adapter.py:147-182).
HangUpOnlyOnAcceptance ==
    /\ AboutToSpeak("text") => Head(ttsq).turn \notin past.accepted
    /\ (\E i \in DOMAIN ttsq : ttsq[i].kind = "end") => past.accepted # {}

\* The comment at adapter.py:186-187: an accepted hand-off hangs up even if
\* the caller barges in while it is carried out.
AcceptedHandoffHangsUp ==
    (past.accepted # {} /\ pc = "idle" /\ call = "live")
        => \E i \in DOMAIN ttsq : ttsq[i].kind = "end"

\* The router prompt at nodes.py:75: the status it is given says whether the
\* agent offered a hand-off; an offer the caller heard in the turn before is
\* not forgotten.
OfferIsRemembered ==
    (/\ pc = "graph" /\ run.node = "router"
     /\ past.heard + 1 = turn /\ past.heard \in past.offered)
        => run.status = "Offered"
=============================================================================
