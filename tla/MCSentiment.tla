---------------------------- MODULE MCSentiment ----------------------------
(* Values of the constants that a .cfg file cannot write. *)
EXTENDS Sentiment

CONSTANTS c1, c2

MCUtterances == (c1 :> 2) @@ (c2 :> 1)
MCOneUtterance == c1 :> 1
=============================================================================
