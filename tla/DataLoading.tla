---------------------------- MODULE DataLoading ----------------------------
(***************************************************************************)
(* The three scripts of src/db an operator runs by hand, one at a time and *)
(* in any order: migrate_specs rewrites the product file with              *)
(* specifications an LLM extracts, schema drops and creates the tables,    *)
(* and ingest fills them from the data files.  Any of them may stop        *)
(* between two steps (an exception, Ctrl-C, a crash) and be run again.     *)
(*                                                                         *)
(* The specs of a product are the number of the migration that extracted   *)
(* them; a table is the number of times the rows of its file are in it.    *)
(***************************************************************************)
EXTENDS Integers, Sequences, SequencesExt

CONSTANTS
    Products,       \* number of products in product_catalog_rag.json
    BatchSize,      \* 9
    MaxMigrations,  \* bound: runs of migrate_specs
    MaxIngests      \* bound: runs of ingest

ASSUME LoadingAssumption ==
    /\ Products \in Nat \ {0} /\ BatchSize \in Nat \ {0}
    /\ MaxMigrations \in Nat \ {0} /\ MaxIngests \in Nat

VARIABLES
    file,     \* the product file: can it be parsed, and the specs in it
    script,   \* the script that runs, and how far it has come
    data,     \* migrate_specs: the specs in memory
    runs,     \* migrations begun
    ingests,  \* ingests begun since the tables were last all dropped
    table,    \* copies of each table's rows, or Missing
    catalog   \* the specs of each load of product_catalog

vars == <<file, script, data, runs, ingests, table, catalog>>

Missing  == -1
NoSpecs  == 0
Specs    == [1 .. Products -> 0 .. MaxMigrations]

\* The order in which ingest fills the tables; schema drops and creates them
\* in the same order, and with them call_tickets, which ingest leaves alone.
Loaded == <<"customers", "order_history", "company_faqs", "company_tos",
            "product_catalog">>

\* Mutant: a table is missing from the list.
DroppedButOne == <<"customers", "order_history", "company_faqs",
                   "product_catalog", "call_tickets">>

Dropped == Append(Loaded, "call_tickets")
Created == Append(Loaded, "call_tickets")
Tables  == ToSet(Created)

Idle == [name |-> "none", at |-> 0]
At(name, n) == script = [name |-> name, at |-> n]
Go(name, n) == script' = [name |-> name, at |-> n]

\* Any exception or interruption ends a script where it is.
Stop ==
    /\ script # Idle
    /\ script' = Idle
    /\ UNCHANGED <<file, data, runs, ingests, table, catalog>>

-----------------------------------------------------------------------------
(* migrate_specs. *)

\* Mutant: the old specs are kept until new ones are extracted.
ReadKeepingSpecs ==
    /\ script = Idle /\ runs < MaxMigrations
    /\ file.whole
    /\ data' = file.specs
    /\ runs' = runs + 1
    /\ Go("clean", 0)
    /\ UNCHANGED <<file, ingests, table, catalog>>

\* A file that does not parse ends the script at once.
Read ==
    /\ script = Idle /\ runs < MaxMigrations
    /\ file.whole
    /\ data' = [p \in 1 .. Products |-> NoSpecs]
    /\ runs' = runs + 1
    /\ Go("clean", 0)
    /\ UNCHANGED <<file, ingests, table, catalog>>

\* open(..., 'w') truncates the file, json.dump then writes it: before the
\* first batch, and after the last.
Truncate ==
    /\ \E when \in {"clean", "save"} : At(when, 0) /\ Go(when, 1)
    /\ file' = [file EXCEPT !.whole = FALSE]
    /\ UNCHANGED <<data, runs, ingests, table, catalog>>

Dump ==
    /\ \/ At("clean", 1) /\ Go("batch", 1)
       \/ At("save", 1) /\ script' = Idle
    /\ file' = [whole |-> TRUE, specs |-> data]
    /\ UNCHANGED <<data, runs, ingests, table, catalog>>

Batch(i) == (i - 1) * BatchSize + 1 .. i * BatchSize
Batches  == (Products + BatchSize - 1) \div BatchSize

\* Mutant: one batch too many.
ExtractPastEnd ==
    /\ \E i \in 1 .. Batches + 1 :
          /\ At("batch", i)
          /\ data' \in {data, [p \in 1 .. Products |->
                                 IF p \in Batch(i) THEN runs ELSE data[p]]}
          /\ IF i <= Batches THEN Go("batch", i + 1) ELSE Go("save", 0)
    /\ UNCHANGED <<file, runs, ingests, table, catalog>>

\* The LLM's answer gives specs to every product of the batch (none, to one
\* it omits).  An exception is printed: of the call, it leaves the batch as it
\* was; of the loop over the products, the batch is filled up to there.
Extract ==
    /\ \E i \in 1 .. Batches, filled \in 0 .. BatchSize :
          /\ At("batch", i)
          /\ data' = [p \in 1 .. Products |->
                        IF p \in Batch(i) /\ p <= (i - 1) * BatchSize + filled
                        THEN runs ELSE data[p]]
          /\ IF i < Batches THEN Go("batch", i + 1) ELSE Go("save", 0)
    /\ UNCHANGED <<file, runs, ingests, table, catalog>>

-----------------------------------------------------------------------------
(* schema, with and without --reset. *)

Deploy(reset) ==
    /\ script = Idle
    /\ IF reset THEN Go("drop", 1) ELSE Go("create", 1)
    /\ UNCHANGED <<file, data, runs, ingests, table, catalog>>

Drop ==
    /\ \E i \in DOMAIN Dropped :
          /\ At("drop", i)
          /\ table' = [table EXCEPT ![Dropped[i]] = Missing]
          /\ catalog' = IF Dropped[i] = "product_catalog" THEN <<>> ELSE catalog
          /\ IF i < Len(Dropped)
             THEN Go("drop", i + 1) /\ UNCHANGED ingests
             ELSE Go("create", 1) /\ ingests' = 0
    /\ UNCHANGED <<file, data, runs>>

\* CREATE TABLE IF NOT EXISTS.
Create ==
    /\ \E i \in DOMAIN Created :
          /\ At("create", i)
          /\ table' = [table EXCEPT ![Created[i]] = IF @ = Missing THEN 0 ELSE @]
          /\ IF i < Len(Created) THEN Go("create", i + 1) ELSE script' = Idle
    /\ UNCHANGED <<file, data, runs, ingests, catalog>>

-----------------------------------------------------------------------------
(* ingest. *)

Ingest ==
    /\ script = Idle /\ ingests < MaxIngests
    /\ ingests' = ingests + 1
    /\ Go("insert", 1)
    /\ UNCHANGED <<file, data, runs, table, catalog>>

\* A missing table, or a product file that does not parse, raises.  An insert
\* whose answer is lost has its effect and ends the script.
Insert ==
    /\ \E i \in DOMAIN Loaded :
          /\ At("insert", i)
          /\ table[Loaded[i]] # Missing
          /\ table' = [table EXCEPT ![Loaded[i]] = @ + 1]
          /\ IF Loaded[i] = "product_catalog"
             THEN file.whole /\ catalog' = Append(catalog, file.specs)
             ELSE UNCHANGED catalog
          /\ \/ i < Len(Loaded) /\ Go("insert", i + 1)
             \/ script' = Idle
    /\ UNCHANGED <<file, data, runs, ingests>>

-----------------------------------------------------------------------------
\* The repository's file comes from a migration in which batches failed: it
\* has no specs for the products of the last two.
Init ==
    /\ \E failed \in SUBSET (1 .. Batches) :
          file = [whole |-> TRUE,
                  specs |-> [p \in 1 .. Products |->
                               IF \E i \in failed : p \in Batch(i)
                               THEN NoSpecs ELSE 1]]
    /\ script = Idle /\ data = [p \in 1 .. Products |-> NoSpecs]
    /\ runs = 1 /\ ingests = 0
    /\ table = [t \in Tables |-> Missing]
    /\ catalog = <<>>

Next ==
    \/ Read \/ Truncate \/ Dump \/ Extract
    \/ \E reset \in BOOLEAN : Deploy(reset)
    \/ Drop \/ Create
    \/ Ingest \/ Insert
    \/ Stop

Spec == Init /\ [][Next]_vars

-----------------------------------------------------------------------------
(* Properties. *)

\* Where a script can be.
Positions == {Idle} \cup [name: {"clean", "save"}, at: {0, 1}]
                    \cup [name: {"batch"}, at: 1 .. Batches]
                    \cup [name: {"drop"}, at: DOMAIN Dropped]
                    \cup [name: {"create"}, at: DOMAIN Created]
                    \cup [name: {"insert"}, at: DOMAIN Loaded]

\* The type invariant: file, memory and tables are well formed, and the script
\* that runs is at one of its own steps.
TypeOK ==
    /\ script \in Positions
    /\ file \in [whole: BOOLEAN, specs: Specs] /\ data \in Specs
    /\ runs \in 0 .. MaxMigrations /\ ingests \in 0 .. MaxIngests
    /\ table \in [Tables -> {Missing} \cup Nat]
    /\ catalog \in Seq(Specs)

SameRun(specs) ==
    \A p, q \in 1 .. Products :
        specs[p] # NoSpecs /\ specs[q] # NoSpecs => specs[p] = specs[q]

\* The product file, and each load of it into the catalog, holds the
\* specifications of one migration only, wherever earlier migrations stopped
\* and whichever of their batches failed (migrate_specs.py:36-43).
SpecsOfOneRun ==
    SameRun(file.specs) /\ \A i \in DOMAIN catalog : SameRun(catalog[i])

\* However many ingests stopped half-way, each left at most one more copy of a
\* table's rows, and what they left does not survive a complete reset: the
\* first ingest after it has loaded every table behind it exactly once
\* (ingest.py:16-80, schema.py:9-118).  Without the reset the copies add up.
RowsOncePerIngest ==
    /\ \A t \in Tables : table[t] <= ingests
    /\ \A i \in DOMAIN Loaded :
          At("insert", i) /\ ingests = 1 =>
             \A j \in 1 .. i - 1 : table[Loaded[j]] = 1
=============================================================================
