---------------------------- MODULE CatalogStore ----------------------------
(***************************************************************************)
(* What the admin CMS promises of a table it edits: a save either replaces *)
(* the whole content by exactly the rows it carries, in one step and at    *)
(* most once, or leaves it alone, and a save that is acknowledged has      *)
(* replaced it.  A save that is not acknowledged may have done either.     *)
(***************************************************************************)
CONSTANTS
    Servers,  \* the processes that serve saves, one at a time each
    Row,      \* the rows a table can hold
    Initial   \* the content to begin with

VARIABLES
    content,  \* what readers of the table see
    save      \* the save each server works on

storeVars == <<content, save>>

Phases == {"idle", "working", "published", "acked"}

NoSave == [phase |-> "idle", rows |-> {}]

Init ==
    /\ content = Initial
    /\ save = [s \in Servers |-> NoSave]

Begin(s) ==
    /\ save[s].phase = "idle"
    /\ save'[s] \in [phase: {"working"}, rows: SUBSET Row]
    /\ save' = [save EXCEPT ![s] = save'[s]]
    /\ UNCHANGED content

\* The content is replaced; the server may learn of it, or not.
Publish(s) ==
    /\ save[s].phase = "working"
    /\ content' = save[s].rows
    /\ \E next \in {"published", "acked", "idle"} :
          save' = [save EXCEPT ![s] = [phase |-> next, rows |-> {}]]

Acknowledge(s) ==
    /\ save[s].phase = "published"
    /\ save' = [save EXCEPT ![s] = [phase |-> "acked", rows |-> {}]]
    /\ UNCHANGED content

\* The answer is given, or the save is given up.
End(s) ==
    /\ save[s].phase # "idle"
    /\ save' = [save EXCEPT ![s] = NoSave]
    /\ UNCHANGED content

Next == \E s \in Servers : Begin(s) \/ Publish(s) \/ Acknowledge(s) \/ End(s)

Spec == Init /\ [][Next]_storeVars
=============================================================================
