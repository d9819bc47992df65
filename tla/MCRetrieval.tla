---------------------------- MODULE MCRetrieval ----------------------------
(* Values of the constants that a .cfg file cannot write. *)
EXTENDS Retrieval

MCResults == {<<>>, <<9>>, <<5, 1>>}
MCDocs    == {<<>>, <<1>>}
=============================================================================
