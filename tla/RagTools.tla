------------------------------ MODULE RagTools ------------------------------
(***************************************************************************)
(* The four retrieval tools of src/graph/tools.py, as programs run by one  *)
(* thread.  A task is the activation record of a tool; each operator below *)
(* gives the set of records a blocking call can leave it in.               *)
(*                                                                         *)
(* A row is its length in characters, a query result a sequence of rows,   *)
(* and an answer the length of the string the tool returns.  What the LLM  *)
(* calls and the queries return is a nondeterministic choice.              *)
(***************************************************************************)
EXTENDS Naturals, SequencesExt

CONSTANTS
    Limit,          \* the 2000 characters an answer is cut at
    Marker,         \* length of "\n...[TRUNCATED ...]"
    Message,        \* length of the fixed sentences of get_order_context
    FallbackLimit,  \* LIMIT 3 of the fallback queries
    SqlAttempts,    \* range(2) of get_order_context
    Results,        \* what a query can return: sequences of row lengths
    Docs            \* what a TOS lookup can return: at most one row

ASSUME ToolsAssumption ==
    /\ Limit \in Nat /\ Marker \in Nat \ {0} /\ Message \in 0 .. Limit
    /\ FallbackLimit \in Nat \ {0} /\ SqlAttempts \in Nat \ {0}
    /\ Results \subseteq Seq(Nat \ {0}) /\ <<>> \in Results
    /\ Docs \subseteq Seq(Nat \ {0}) /\ <<>> \in Docs

Tools == {"support", "orders", "catalog", "history"}

Pcs == {"client", "embed", "lock", "load", "faq", "filter", "hybrid",
        "semantic", "last", "sql", "run", "tickets", "answered", "raised"}

Task == [turn: Nat, tool: Tools, pc: Pcs, try: Nat, text: Nat]

NewTask(turn, tool) ==
    [turn |-> turn, tool |-> tool, pc |-> "client", try |-> 1, text |-> 0]

-----------------------------------------------------------------------------
(* The text of an answer. *)

\* Mutant: the row is appended before the length is compared.
AppendRowUnchecked(out, row) ==
    IF out.cut THEN out
    ELSE IF out.size > Limit THEN [size |-> out.size + Marker, cut |-> TRUE]
    ELSE [size |-> out.size + row + 1, cut |-> FALSE]

\* One pass of the loop over the rows; "cut" is its break.
AppendRow(out, row) ==
    IF out.cut THEN out
    ELSE IF out.size + row > Limit
         THEN [size |-> out.size + Marker, cut |-> TRUE]
         ELSE [size |-> out.size + row + 1, cut |-> FALSE]

\* .strip() takes off the last newline, or the one the marker begins with
\* when no row came before it.
Clip(rows) ==
    LET out == FoldLeft(AppendRow, [size |-> 0, cut |-> FALSE], rows)
    IN  CASE out.size = 0 -> 0
          [] out.cut /\ out.size > Marker -> out.size
          [] OTHER -> out.size - 1

\* The rows joined by newlines, without a limit.
Whole(rows) ==
    IF rows = <<>> THEN 0 ELSE FoldLeft(+, 0, rows) + Len(rows) - 1

Returns(k, text) == [k EXCEPT !.pc = "answered", !.try = 1, !.text = text]
Raises(k) == [k EXCEPT !.pc = "raised", !.try = 1]
Goes(k, pc) == [k EXCEPT !.pc = pc]
Rows(n) == {rows \in Results : Len(rows) <= n}

-----------------------------------------------------------------------------
(* get_support_context. *)

\* The FAQ rows in order of distance, each followed by the TOS document it
\* refers to, if it refers to one that exists.
WithDocs(faqs) ==
    {FlattenSeq([i \in DOMAIN faqs |-> <<faqs[i]>> \o docs[i]]) :
        docs \in [DOMAIN faqs -> Docs]}

\* encode(), the FAQ query and a TOS query for each row: any may raise.
Faq(k) ==
    {Raises(k)} \cup {Returns(k, Clip(rows)) :
                        rows \in UNION {WithDocs(faqs) : faqs \in Results}}

-----------------------------------------------------------------------------
(* get_catalog_context. *)

\* The list of categories, then the WHERE clause: the query may raise, while
\* an exception of the LLM call or of the parsing gives "1=1".
Filter(k) == {Raises(k), Goes(k, "embed")}

\* Mutant: an exception of the hybrid search is not caught.
HybridUncaught(k) ==
    {Raises(k), Goes(k, "semantic")}
    \cup {Returns(k, Clip(rows)) : rows \in Results}

\* encode() and the hybrid query: without rows, a clause other than "1=1" is
\* dropped.  When encode() raised, the fallback reads an unbound "vector", and
\* its own handler returns the empty text.
Hybrid(k) ==
    {Returns(k, 0), Goes(k, "last"), Goes(k, "semantic")}
    \cup {Returns(k, Clip(rows)) : rows \in Results}

\* Mutant: this path has no limit on its text either.
SemanticWhole(k) ==
    {Goes(k, "last")}
    \cup {Returns(k, Whole(rows)) : rows \in Rows(FallbackLimit)}

Semantic(k) == {Goes(k, "last")}
               \cup {Returns(k, Clip(rows)) : rows \in Rows(FallbackLimit)}

\* The handler's own query: its rows are joined without a limit.
Fallback(k) == {Returns(k, 0)}
               \cup {Returns(k, Whole(rows)) : rows \in Rows(FallbackLimit)}

-----------------------------------------------------------------------------
(* get_order_context and get_history_context. *)

\* The handler around an attempt: one more, or the apology.
FailedAttempt(k) ==
    IF k.try = SqlAttempts THEN Returns(k, Message)
    ELSE [k EXCEPT !.pc = "sql", !.try = @ + 1]

\* The LLM call raises, its answer does not parse, or the query is refused.
Sql(k) == {FailedAttempt(k), Goes(k, "run")}

Run(k) == {FailedAttempt(k)}
          \cup {Returns(k, IF rows = <<>> THEN Message ELSE Clip(rows)) :
                  rows \in Results}

Tickets(k) == {Raises(k)} \cup {Returns(k, Clip(rows)) : rows \in Results}

-----------------------------------------------------------------------------
\* Where a tool goes when get_client has returned, and when the embedding
\* model is there.
AfterClient(tool) == CASE tool = "support" -> "embed"
                       [] tool = "catalog" -> "filter"
                       [] tool = "orders"  -> "sql"
                       [] tool = "history" -> "tickets"

AfterModel(tool) == IF tool = "support" THEN "faq" ELSE "hybrid"

\* get_sentence_transformer raised: only the catalog has it in its try block.
ModelRaises(k) == IF k.tool = "support" THEN Raises(k) ELSE Returns(k, 0)

\* The next blocking call of a task, but for those on shared state.
CallOutcomes(k) ==
    CASE k.pc = "faq"      -> Faq(k)
      [] k.pc = "filter"   -> Filter(k)
      [] k.pc = "hybrid"   -> Hybrid(k)
      [] k.pc = "semantic" -> Semantic(k)
      [] k.pc = "last"     -> Fallback(k)
      [] k.pc = "sql"      -> Sql(k)
      [] k.pc = "run"      -> Run(k)
      [] k.pc = "tickets"  -> Tickets(k)
      [] OTHER -> {}

-----------------------------------------------------------------------------
(* References. *)

\* Where a clipped text ends: the longest prefix of the rows that fits when
\* joined, then the marker if rows are left (tools.py:27-33).
ClipReference(rows) ==
    LET fit == CHOOSE n \in 0 .. Len(rows) :
                 /\ Whole(SubSeq(rows, 1, n)) <= Limit
                 /\ n = Len(rows) \/ Whole(SubSeq(rows, 1, n + 1)) > Limit
    IN  IF fit = Len(rows) THEN Whole(rows)
        ELSE IF fit = 0 THEN Marker - 1
        ELSE Whole(SubSeq(rows, 1, fit)) + 1 + Marker

\* The longest clipped text: rows up to the limit, the newline after the last
\* of them, which the loop adds without counting it, and the marker.
TextBound == Limit + 1 + Marker
=============================================================================
