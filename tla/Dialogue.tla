------------------------------ MODULE Dialogue ------------------------------
(***************************************************************************)
(* What a call promises the caller, without frames, queues or graph runs:  *)
(* a reply is heard only as the answer to the turn the speech output has   *)
(* last fallen silent for, a hand-off that was agreed on is not answered   *)
(* with speech, and the agent hangs up only after agreeing on one.         *)
(***************************************************************************)
EXTENDS Naturals

VARIABLES
    opened,    \* turns the caller has opened
    silenced,  \* turns the speech output has fallen silent for
    heard,     \* the turn whose reply was heard last
    accepted,  \* turns in which a hand-off was agreed on
    outcome    \* "live", "ended" by the agent, or "gone"

dialogueVars == <<opened, silenced, heard, accepted, outcome>>

Begin == /\ opened = 0 /\ silenced = 0 /\ heard = 0
         /\ accepted = {} /\ outcome = "live"

Opens == /\ opened' = opened + 1
         /\ UNCHANGED <<silenced, heard, accepted, outcome>>

FallsSilent == /\ silenced < opened
               /\ silenced' = silenced + 1
               /\ UNCHANGED <<opened, heard, accepted, outcome>>

Replies == /\ silenced > 0 /\ silenced \notin accepted
           /\ heard' = silenced
           /\ UNCHANGED <<opened, silenced, accepted, outcome>>

\* A turn is agreed on at most once, and never after its reply was heard.
Agrees == /\ \E t \in (heard + 1 .. opened) \ accepted :
                accepted' = accepted \cup {t}
          /\ UNCHANGED <<opened, silenced, heard, outcome>>

AgentHangsUp == /\ accepted # {} /\ outcome' = "ended"
                /\ UNCHANGED <<opened, silenced, heard, accepted>>

CallerLeaves == /\ outcome' = "gone"
                /\ UNCHANGED <<opened, silenced, heard, accepted>>

Next == /\ outcome = "live"
        /\ \/ Opens \/ FallsSilent \/ Replies \/ Agrees
           \/ AgentHangsUp \/ CallerLeaves

Spec == Begin /\ [][Next]_dialogueVars
=============================================================================
