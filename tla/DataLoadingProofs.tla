-------------------------- MODULE DataLoadingProofs --------------------------
(***************************************************************************)
(* The data scripts, for any number of products, any batch size and any    *)
(* number of runs.                                                         *)
(***************************************************************************)
EXTENDS DataLoading, SequenceTheorems, TLAPS

\* While migrate_specs runs, what it has in memory is of this migration.
MemoryInv ==
    script.name \in {"clean", "batch", "save"} =>
        \A p \in 1 .. Products : data[p] \in {NoSpecs, runs}

\* A table is filled at most once by each ingest.  A reset that has not come
\* to its end has dropped a first part of the list; an ingest has filled a
\* first part and has its last part before it.
TableInv ==
    /\ \A t \in Tables : table[t] <= ingests
    /\ script.name = "drop" =>
          \A j \in DOMAIN Dropped : j < script.at => table[Dropped[j]] = Missing
    /\ script.name = "insert" =>
          \A j \in DOMAIN Loaded :
             /\ j >= script.at => table[Loaded[j]] < ingests
             /\ j < script.at => table[Loaded[j]] > 0

LoadingInv == TypeOK /\ SpecsOfOneRun /\ MemoryInv /\ TableInv

-----------------------------------------------------------------------------
(* The lists of tables. *)

LEMMA TableLists ==
    /\ DOMAIN Loaded = 1 .. 5 /\ Len(Loaded) = 5
    /\ DOMAIN Dropped = 1 .. 6 /\ Len(Dropped) = 6
    /\ Created = Dropped
    /\ \A i \in 1 .. 5 : Dropped[i] = Loaded[i]
    /\ \A i, j \in 1 .. 5 : i # j => Loaded[i] # Loaded[j]
<1> DEFINE names == {"customers", "order_history", "company_faqs",
                     "company_tos", "product_catalog", "call_tickets"}
<1>1. Loaded \in Seq(names) /\ Len(Loaded) = 5 /\ DOMAIN Loaded = 1 .. 5
  BY DEF Loaded
<1>2. \A i, j \in 1 .. 5 : i # j => Loaded[i] # Loaded[j]
  BY DEF Loaded
<1>3. "call_tickets" \in names
  OBVIOUS
<1> HIDE DEF names
<1>4. ASSUME NEW S, NEW s \in Seq(S), NEW x \in S, Len(s) = 5
      PROVE  /\ DOMAIN Append(s, x) = 1 .. 6 /\ Len(Append(s, x)) = 6
             /\ \A i \in 1 .. 5 : Append(s, x)[i] = s[i]
  <2>1. /\ Append(s, x) \in Seq(S)
        /\ Len(Append(s, x)) = Len(s) + 1
        /\ \A i \in 1 .. Len(s) : Append(s, x)[i] = s[i]
    BY AppendProperties
  <2>2. DOMAIN Append(s, x) = 1 .. Len(Append(s, x))
    BY <2>1, LenProperties
  <2> QED
    BY <1>4, <2>1, <2>2
<1>5. Created = Dropped
  BY DEF Created, Dropped
<1> QED
  BY <1>1, <1>2, <1>3, <1>4, <1>5 DEF Dropped

LEMMA TablesAreDropped ==
    /\ \A t \in Tables : \E j \in 1 .. 6 : t = Dropped[j]
    /\ \A j \in 1 .. 6 : Dropped[j] \in Tables
    /\ \A j \in 1 .. 5 : Loaded[j] \in Tables
<1>1. Tables = {Dropped[j] : j \in 1 .. 6}
  BY TableLists DEF Tables, ToSet
<1> QED
  BY <1>1, TableLists

\* There is at least one batch.
LEMMA SomeBatch == Batches \in Nat /\ 1 <= Batches
<1>1. ASSUME NEW b \in Nat \ {0}, NEW p \in Nat \ {0}
      PROVE  (p + b - 1) \div b \in Nat /\ 1 <= (p + b - 1) \div b
  OBVIOUS
<1> QED
  BY <1>1, LoadingAssumption DEF Batches

\* Where the steps of a script lead.
LEMMA PositionTypes ==
    /\ Idle \in Positions
    /\ \A n \in {"clean", "save"}, i \in {0, 1} :
          [name |-> n, at |-> i] \in Positions
    /\ \A i \in 1 .. Batches : [name |-> "batch", at |-> i] \in Positions
    /\ \A i \in 1 .. 6 : /\ [name |-> "drop", at |-> i] \in Positions
                         /\ [name |-> "create", at |-> i] \in Positions
    /\ \A i \in 1 .. 5 : [name |-> "insert", at |-> i] \in Positions
BY TableLists DEF Positions

-----------------------------------------------------------------------------
(* Preservation. *)

LEMMA InitInv ==
    ASSUME Init
    PROVE  LoadingInv
<1> USE LoadingAssumption
<1>1. PICK failed \in SUBSET (1 .. Batches) :
         file = [whole |-> TRUE,
                 specs |-> [p \in 1 .. Products |->
                              IF \E i \in failed : p \in Batch(i)
                              THEN NoSpecs ELSE 1]]
  BY DEF Init
<1>2. /\ script = Idle /\ data = [p \in 1 .. Products |-> NoSpecs]
      /\ runs = 1 /\ ingests = 0 /\ table = [t \in Tables |-> Missing]
      /\ catalog = <<>>
  BY DEF Init
<1>3. file.specs \in Specs /\ data \in Specs /\ SameRun(file.specs)
  BY <1>1, <1>2 DEF Specs, NoSpecs, SameRun
<1>4. TypeOK
  BY <1>1, <1>2, <1>3, PositionTypes DEF TypeOK, Missing
<1>5. MemoryInv /\ TableInv
  BY <1>2, TablesAreDropped DEF MemoryInv, TableInv, Idle, Missing
<1>6. SpecsOfOneRun
  BY <1>2, <1>3 DEF SpecsOfOneRun
<1> QED
  BY <1>4, <1>5, <1>6 DEF LoadingInv

\* migrate_specs changes the file and its own memory.
LEMMA MigrateInv ==
    ASSUME LoadingInv, Read \/ Truncate \/ Dump \/ Extract
    PROVE  LoadingInv'
<1> USE LoadingAssumption DEF LoadingInv
<1>1. UNCHANGED <<ingests, table, catalog>>
  BY DEF Read, Truncate, Dump, Extract
<1>2. CASE Read
  <2>1. /\ runs' = runs + 1 /\ runs < MaxMigrations /\ UNCHANGED file
        /\ data' = [p \in 1 .. Products |-> NoSpecs]
        /\ script' = [name |-> "clean", at |-> 0]
    BY <1>2 DEF Read, Go
  <2>2. data' \in Specs /\ runs' \in 0 .. MaxMigrations
    BY <2>1 DEF TypeOK, Specs, NoSpecs
  <2> QED
    BY <1>1, <2>1, <2>2, PositionTypes DEF TypeOK, SpecsOfOneRun, MemoryInv,
       TableInv
<1>3. CASE Truncate
  <2>1. PICK when \in {"clean", "save"} : At(when, 0) /\ Go(when, 1)
    BY <1>3 DEF Truncate
  <2>2. /\ script.name = when /\ script' = [name |-> when, at |-> 1]
        /\ file' = [file EXCEPT !.whole = FALSE] /\ UNCHANGED <<data, runs>>
    BY <1>3, <2>1 DEF At, Go, Truncate
  <2>3. file' \in [whole: BOOLEAN, specs: Specs] /\ file'.specs = file.specs
    BY <2>2 DEF TypeOK
  <2> QED
    BY <1>1, <2>2, <2>3, PositionTypes DEF TypeOK, SpecsOfOneRun, MemoryInv,
       TableInv
<1>4. CASE Dump
  <2>1. /\ script.name \in {"clean", "save"}
        /\ script' \in {Idle, [name |-> "batch", at |-> 1]}
        /\ file' = [whole |-> TRUE, specs |-> data] /\ UNCHANGED <<data, runs>>
    BY <1>4 DEF Dump, At, Go
  <2>2. SameRun(data)
    BY <2>1 DEF MemoryInv, SameRun
  <2>3. file' \in [whole: BOOLEAN, specs: Specs] /\ SameRun(file'.specs)
    BY <2>1, <2>2 DEF TypeOK
  <2>4. script' \in Positions
    BY <2>1, PositionTypes, SomeBatch
  <2>5. script'.name \in {"none", "batch"}
    BY <2>1 DEF Idle
  <2> QED
    BY <1>1, <2>1, <2>3, <2>4, <2>5 DEF TypeOK, SpecsOfOneRun, MemoryInv,
       TableInv
<1>5. CASE Extract
  <2>1. PICK i \in 1 .. Batches, filled \in 0 .. BatchSize :
           /\ At("batch", i)
           /\ data' = [p \in 1 .. Products |->
                         IF p \in Batch(i) /\ p <= (i - 1) * BatchSize + filled
                         THEN runs ELSE data[p]]
           /\ IF i < Batches THEN Go("batch", i + 1) ELSE Go("save", 0)
    BY <1>5 DEF Extract
  <2>2. script.name = "batch" /\ UNCHANGED <<file, runs>>
    BY <1>5, <2>1 DEF At, Extract
  <2>3. /\ script' \in Positions /\ script'.name \in {"batch", "save"}
    <3>1. CASE i < Batches
      <4>1. i + 1 \in 1 .. Batches
        BY <3>1, SomeBatch
      <4> QED
        BY <2>1, <3>1, <4>1, PositionTypes DEF Go
    <3>2. CASE ~(i < Batches)
      BY <2>1, <3>2, PositionTypes DEF Go
    <3> QED
      BY <3>1, <3>2
  <2>4. data' \in Specs /\ \A p \in 1 .. Products : data'[p] \in {NoSpecs, runs}
    BY <2>1, <2>2 DEF TypeOK, Specs, MemoryInv
  <2> QED
    BY <1>1, <2>2, <2>3, <2>4 DEF TypeOK, SpecsOfOneRun, MemoryInv, TableInv
<1> QED
  BY <1>2, <1>3, <1>4, <1>5

\* schema and ingest change the tables.
LEMMA TablesInv ==
    ASSUME LoadingInv,
           (\E reset \in BOOLEAN : Deploy(reset)) \/ Drop \/ Create \/ Ingest
    PROVE  LoadingInv'
<1> USE LoadingAssumption DEF LoadingInv
<1>1. UNCHANGED <<file, data, runs>>
  BY DEF Deploy, Drop, Create, Ingest
<1>2. /\ table \in [Tables -> {Missing} \cup Nat]
      /\ ingests \in 0 .. MaxIngests /\ Missing = -1
      /\ \A t \in Tables : table[t] \in Int /\ table[t] <= ingests
  BY DEF TypeOK, TableInv, Missing
<1>3. ASSUME NEW reset \in BOOLEAN, Deploy(reset)
      PROVE  LoadingInv'
  <2>1. /\ script' \in {[name |-> "drop", at |-> 1], [name |-> "create", at |-> 1]}
        /\ UNCHANGED <<ingests, table, catalog>>
    BY <1>3 DEF Deploy, Go
  <2>2. script' \in Positions
    BY <2>1, PositionTypes
  <2> QED
    BY <1>1, <1>2, <2>1, <2>2, TableLists DEF TypeOK, SpecsOfOneRun, MemoryInv,
       TableInv
<1>4. CASE Drop
  <2>1. PICK i \in DOMAIN Dropped :
           /\ At("drop", i)
           /\ table' = [table EXCEPT ![Dropped[i]] = Missing]
           /\ catalog' = IF Dropped[i] = "product_catalog" THEN <<>> ELSE catalog
           /\ IF i < Len(Dropped)
              THEN Go("drop", i + 1) /\ UNCHANGED ingests
              ELSE Go("create", 1) /\ ingests' = 0
    BY <1>4 DEF Drop
  <2>2. i \in 1 .. 6 /\ Dropped[i] \in Tables /\ script = [name |-> "drop", at |-> i]
    BY <2>1, TableLists, TablesAreDropped DEF At
  <2>3. /\ table' \in [Tables -> {Missing} \cup Nat]
        /\ table'[Dropped[i]] = Missing
        /\ \A t \in Tables : table'[t] \in {table[t], Missing}
    BY <1>2, <2>1, <2>2
  <2>4. \A j \in 1 .. 6 : j <= i => table'[Dropped[j]] = Missing
    BY <2>2, <2>3, TableLists, TablesAreDropped DEF TableInv
  <2>5. catalog' \in Seq(Specs) /\ \A k \in DOMAIN catalog' : SameRun(catalog'[k])
    BY <2>1 DEF TypeOK, SpecsOfOneRun
  <2>6. CASE i < 6
    <3>1. script' = [name |-> "drop", at |-> i + 1] /\ UNCHANGED ingests
      BY <2>1, <2>6, TableLists DEF Go
    <3>2. script' \in Positions
      BY <2>2, <2>6, <3>1, PositionTypes
    <3>3. TableInv'
      BY <1>2, <2>2, <2>3, <2>4, <3>1, TableLists DEF TableInv
    <3> QED
      BY <1>1, <2>3, <2>5, <3>1, <3>2, <3>3 DEF TypeOK, SpecsOfOneRun, MemoryInv
  <2>7. CASE i = 6
    <3>1. script' = [name |-> "create", at |-> 1] /\ ingests' = 0
      BY <2>1, <2>7, TableLists DEF Go
    <3>2. script' \in Positions
      BY <3>1, PositionTypes
    <3>3. \A t \in Tables : table'[t] = Missing
      BY <2>4, <2>7, TablesAreDropped
    <3>4. TableInv'
      BY <1>2, <3>1, <3>3 DEF TableInv
    <3> QED
      BY <1>1, <2>3, <2>5, <3>1, <3>2, <3>4 DEF TypeOK, SpecsOfOneRun, MemoryInv
  <2> QED
    BY <2>2, <2>6, <2>7
<1>5. CASE Create
  <2>1. PICK i \in DOMAIN Created :
           /\ At("create", i)
           /\ table' = [table EXCEPT ![Created[i]] = IF @ = Missing THEN 0 ELSE @]
           /\ IF i < Len(Created) THEN Go("create", i + 1) ELSE script' = Idle
    BY <1>5 DEF Create
  <2>2. i \in 1 .. 6 /\ Created[i] \in Tables /\ UNCHANGED <<ingests, catalog>>
    BY <1>5, <2>1, TableLists, TablesAreDropped DEF Create
  <2>3. /\ table' \in [Tables -> {Missing} \cup Nat]
        /\ \A t \in Tables : table'[t] \in {table[t], 0}
    BY <1>2, <2>1, <2>2
  <2>4. script' \in Positions /\ script'.name \in {"create", "none"}
    <3>1. CASE i < 6
      <4>1. script' = [name |-> "create", at |-> i + 1] /\ i + 1 \in 1 .. 6
        BY <2>1, <2>2, <3>1, TableLists DEF Go
      <4> QED
        BY <4>1, PositionTypes
    <3>2. CASE ~(i < 6)
      <4>1. script' = Idle
        BY <2>1, <2>2, <3>2, TableLists
      <4> QED
        BY <4>1, PositionTypes DEF Idle
    <3> QED
      BY <3>1, <3>2
  <2>5. TableInv'
    BY <1>2, <2>2, <2>3, <2>4 DEF TableInv
  <2> QED
    BY <1>1, <2>2, <2>3, <2>4, <2>5 DEF TypeOK, SpecsOfOneRun, MemoryInv
<1>6. CASE Ingest
  <2>1. /\ script' = [name |-> "insert", at |-> 1] /\ ingests' = ingests + 1
        /\ ingests < MaxIngests /\ UNCHANGED <<table, catalog>>
    BY <1>6 DEF Ingest, Go
  <2>2. script' \in Positions
    BY <2>1, PositionTypes
  <2>3. TableInv'
    BY <1>2, <2>1, TableLists, TablesAreDropped DEF TableInv
  <2> QED
    BY <1>1, <1>2, <2>1, <2>2, <2>3 DEF TypeOK, SpecsOfOneRun, MemoryInv
<1> QED
  BY <1>3, <1>4, <1>5, <1>6

LEMMA InsertInv ==
    ASSUME LoadingInv, Insert
    PROVE  LoadingInv'
<1> USE LoadingAssumption DEF LoadingInv
<1>1. PICK i \in DOMAIN Loaded :
         /\ At("insert", i)
         /\ table[Loaded[i]] # Missing
         /\ table' = [table EXCEPT ![Loaded[i]] = @ + 1]
         /\ IF Loaded[i] = "product_catalog"
            THEN file.whole /\ catalog' = Append(catalog, file.specs)
            ELSE UNCHANGED catalog
         /\ \/ i < Len(Loaded) /\ Go("insert", i + 1)
            \/ script' = Idle
  BY DEF Insert
<1>2. /\ i \in 1 .. 5 /\ Loaded[i] \in Tables
      /\ script = [name |-> "insert", at |-> i]
      /\ UNCHANGED <<file, data, runs, ingests>>
  BY <1>1, TableLists, TablesAreDropped DEF Insert, At
<1>3. /\ table \in [Tables -> {Missing} \cup Nat]
      /\ ingests \in Nat /\ Missing = -1
      /\ \A t \in Tables : table[t] \in Int /\ table[t] <= ingests
      /\ \A j \in 1 .. 5 : /\ j >= i => table[Loaded[j]] < ingests
                           /\ j < i => table[Loaded[j]] > 0
  <2>1. /\ table \in [Tables -> {Missing} \cup Nat]
        /\ ingests \in Nat /\ Missing = -1
        /\ \A t \in Tables : table[t] \in Int /\ table[t] <= ingests
    BY DEF TypeOK, TableInv, Missing
  <2>2. script.name = "insert" /\ script.at = i
    BY <1>2
  <2> QED
    BY <2>1, <2>2, TableLists DEF TableInv
<1>4. /\ table' \in [Tables -> {Missing} \cup Nat]
      /\ table'[Loaded[i]] = table[Loaded[i]] + 1
      /\ \A t \in Tables \ {Loaded[i]} : table'[t] = table[t]
  BY <1>1, <1>2, <1>3
<1>5. catalog' \in Seq(Specs) /\ \A k \in DOMAIN catalog' : SameRun(catalog'[k])
  <2>1. catalog \in Seq(Specs) /\ file.specs \in Specs
        /\ SameRun(file.specs) /\ \A k \in DOMAIN catalog : SameRun(catalog[k])
    BY DEF TypeOK, SpecsOfOneRun
  <2> QED
    BY <1>1, <2>1
<1>6. /\ script' \in Positions
      /\ script' \in {Idle, [name |-> "insert", at |-> i + 1]}
      /\ script'.name = "insert" => i < 5 /\ script'.at = i + 1
  BY <1>1, <1>2, TableLists, PositionTypes DEF Go, Idle
<1>7. TableInv'
  <2>1. \A t \in Tables : table'[t] <= ingests
    BY <1>2, <1>3, <1>4
  <2>2. ASSUME script'.name = "insert", NEW j \in 1 .. 5, j >= i + 1
        PROVE  table'[Loaded[j]] < ingests
    BY <1>2, <1>3, <1>4, <2>2, TableLists, TablesAreDropped
  <2>4. ASSUME NEW j \in 1 .. 5, j < i + 1
        PROVE  table'[Loaded[j]] > 0
    <3>1. table[Loaded[i]] \in Nat
      BY <1>1, <1>2, <1>3
    <3>2. CASE j = i
      BY <1>4, <3>1, <3>2
    <3>3. CASE j < i
      BY <1>2, <1>3, <1>4, <3>3, TableLists, TablesAreDropped
    <3> QED
      BY <1>2, <2>4, <3>2, <3>3
  <2>3. script'.name \in {"none", "insert"}
    BY <1>6 DEF Idle
  <2> QED
    BY <1>2, <1>6, <2>1, <2>2, <2>3, <2>4, TableLists DEF TableInv
<1>8. script'.name \notin {"clean", "batch", "save"}
  BY <1>6 DEF Idle
<1> QED
  BY <1>2, <1>4, <1>5, <1>6, <1>7, <1>8 DEF TypeOK, SpecsOfOneRun, MemoryInv

LEMMA NextInv ==
    ASSUME LoadingInv, [Next]_vars
    PROVE  LoadingInv'
<1>1. CASE Stop
  BY <1>1, PositionTypes DEF Stop, Idle, LoadingInv, TypeOK, SpecsOfOneRun,
     MemoryInv, TableInv
<1>2. CASE UNCHANGED vars
  BY <1>2 DEF vars, LoadingInv, TypeOK, SpecsOfOneRun, MemoryInv, TableInv
<1> QED
  BY <1>1, <1>2, MigrateInv, TablesInv, InsertInv DEF Next

\* Wherever the scripts stop and however often they are run again, the file
\* and each load of it hold the specifications of one migration, and what the
\* ingests that stopped left behind does not survive a reset
\* (migrate_specs.py:31-77, ingest.py:16-80, schema.py:9-118).
THEOREM LoadingSafety ==
    Spec => [](TypeOK /\ SpecsOfOneRun /\ RowsOncePerIngest)
<1>1. ASSUME LoadingInv
      PROVE  TypeOK /\ SpecsOfOneRun /\ RowsOncePerIngest
  <2>1. \A t \in Tables : table[t] \in Int /\ table[t] <= ingests
    BY <1>1 DEF LoadingInv, TableInv, TypeOK, Missing
  <2>2. ASSUME NEW i \in DOMAIN Loaded, At("insert", i), ingests = 1,
               NEW j \in 1 .. i - 1
        PROVE  table[Loaded[j]] = 1
    <3>1. j \in 1 .. 5 /\ j < i /\ Loaded[j] \in Tables
      BY TableLists, TablesAreDropped
    <3>2. table[Loaded[j]] > 0
      BY <1>1, <2>2, <3>1, TableLists DEF At, LoadingInv, TableInv
    <3> QED
      BY <2>1, <2>2, <3>1, <3>2
  <2> QED
    BY <1>1, <2>1, <2>2 DEF LoadingInv, RowsOncePerIngest
<1> QED
  BY <1>1, InitInv, NextInv, PTL DEF Spec
=============================================================================
