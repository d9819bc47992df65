------------------------- MODULE CatalogAdminProofs -------------------------
(***************************************************************************)
(* Proofs about the admin CMS for any number of servers, pages, records    *)
(* and saves: the swap is exclusive, keys are shared only after a stale    *)
(* save, and the whole implements the abstract store.                      *)
(***************************************************************************)
EXTENDS CatalogAdmin, FiniteSetTheorems, TLAPS

\* The rows of a save that have no key yet are finitely many.
LEMMA NewFinite ==
    ASSUME NEW rows \in SUBSET Row
    PROVE  Cardinality(New(rows)) \in Nat
<1> DEFINE Z == {[item |-> i, id |-> 0] : i \in Items}
           g == [i \in Items |-> [item |-> i, id |-> 0]]
<1>1. g \in Surjection(Items, Z)
  BY DEF Surjection
<1>2. IsFiniteSet(Z)
  BY <1>1, AdminAssumption, FS_Surjection
<1>3. New(rows) \in SUBSET Z
  BY DEF New, Row
<1>4. IsFiniteSet(New(rows))
  BY <1>2, <1>3, FS_Subset
<1> QED
  BY <1>4, FS_CardinalityType

\* The largest key is a number.
LEMMA LargestType ==
    ASSUME NEW rows \in SUBSET Row, NEW last \in Largest(Key(rows))
    PROVE  last \in Nat /\ \A r \in rows : r.id <= last
BY DEF Largest, Key, Row

\* Numbering turns rows into rows that all have a key; new keys are beyond
\* the last one, and no two of them are equal.
LEMMA NumberedFacts ==
    ASSUME NEW rows \in SUBSET Row, NEW last \in Nat,
           NEW f \in Numberings(rows, last)
    PROVE  /\ Numbered(rows, f) \in SUBSET Row
           /\ \A q \in New(rows) : f[q] \in Nat /\ f[q] > last
           /\ \A q, r \in New(rows) : f[q] = f[r] => q = r
<1> DEFINE n == Cardinality(New(rows))
<1>1. n \in Nat
  BY NewFinite
<1>2. f \in [New(rows) -> last + 1 .. last + n]
  BY DEF Numberings, Bijection, Injection, Surjection
<1>3. \A q, r \in New(rows) : f[q] = f[r] => q = r
  BY DEF Numberings, Bijection, Injection, IsInjective
<1>4. \A q \in New(rows) : f[q] \in Nat /\ f[q] > last
  <2> SUFFICES ASSUME NEW q \in New(rows) PROVE f[q] \in Nat /\ f[q] > last
    OBVIOUS
  <2>1. f[q] \in last + 1 .. last + n
    BY <1>2
  <2> HIDE DEF n
  <2> QED
    BY <2>1, <1>1
<1>5. \A q \in New(rows) : [q EXCEPT !.id = f[q]] \in Row
  BY <1>4 DEF New, Row
<1> QED
  BY <1>3, <1>4, <1>5 DEF Numbered, New

\* An idle server works on nothing.
LEMMA IdleType == Idle \in [pc: Pcs, page: Pages, rows: SUBSET Row]
<1>1. (CHOOSE p \in Pages : TRUE) \in Pages
  BY AdminAssumption
<1> QED
  BY <1>1 DEF Idle, Pcs

-----------------------------------------------------------------------------
(* Type correctness. *)

\* A command leaves tables behind, whatever it did.
LEMMA EffectType ==
    ASSUME TypeOK, NEW s \in Servers, Effect(s) \/ UNCHANGED <<live, temp>>
    PROVE  live' \in SUBSET Row /\ temp' \in [exists: BOOLEAN, rows: SUBSET Row]
<1> USE DEF TypeOK
<1>0. job[s].rows \in SUBSET Row
  OBVIOUS
<1>1. CASE UNCHANGED <<live, temp>>
  BY <1>1
<1>2. CASE Truncates(s)
  BY <1>2 DEF Truncates
<1>3. CASE Creates(s)
  BY <1>3 DEF Creates
<1>4. CASE Inserts(s)
  BY <1>0, <1>4 DEF Inserts
<1>5. CASE Exchanges(s)
  BY <1>5 DEF Exchanges
<1>6. CASE Drops(s)
  BY <1>6 DEF Drops, NoTable
<1> QED
  BY <1>1, <1>2, <1>3, <1>4, <1>5, <1>6 DEF Effect

\* A command that ends moves its server on to a known place.
LEMMA AfterType ==
    /\ DOMAIN After \subseteq Pcs
    /\ \A pc \in DOMAIN After : After[pc] \in Pcs
BY DEF After, Pcs, Holding

\* The CMS begins with every variable of its type.
LEMMA InitType ==
    ASSUME Init
    PROVE  TypeOK
<1>1. entered \in SUBSET Items
  BY AdminAssumption DEF Init, Row
<1> QED
  BY <1>1, AdminAssumption, IdleType DEF Init, TypeOK, NoTable

\* Every step of the CMS keeps every variable's type.
LEMMA NextType ==
    ASSUME TypeOK, [Next]_vars
    PROVE  TypeOK'
<1> USE DEF TypeOK
<1>1. ASSUME NEW p \in Pages, LoadData(p)
      PROVE  TypeOK'
  BY <1>1 DEF LoadData
<1>2. ASSUME NEW p \in Pages, AddRow(p)
      PROVE  TypeOK'
  <2>1. PICK i \in Items :
          page' = [page EXCEPT ![p].rows = @ \cup {[item |-> i, id |-> 0]}]
    BY <1>2 DEF AddRow
  <2>2. [item |-> i, id |-> 0] \in Row
    BY DEF Row
  <2> DEFINE shown == [page[p] EXCEPT !.rows =
                         @ \cup {[item |-> i, id |-> 0]}]
  <2>3. shown \in [rows: SUBSET Row, columns: BOOLEAN, reload: BOOLEAN]
    BY <2>2
  <2>4. page' = [page EXCEPT ![p] = shown]
    BY <2>1
  <2>5. page' \in [Pages -> [rows: SUBSET Row, columns: BOOLEAN,
                              reload: BOOLEAN]]
    <3> HIDE DEF shown
    <3> QED
      BY <2>3, <2>4
  <2> QED
    BY <1>2, <2>5 DEF AddRow
<1>3. ASSUME NEW p \in Pages, DeleteRow(p)
      PROVE  TypeOK'
  BY <1>3 DEF DeleteRow
<1>4. ASSUME NEW p \in Pages, SaveData(p)
      PROVE  TypeOK'
  BY <1>4 DEF SaveData, pages
<1>5. ASSUME NEW s \in Servers, BeginSave(s)
      PROVE  TypeOK'
  <2>1. PICK r \in sent, last \in Largest(Key(live)) :
          \E f \in Numberings(r.rows, last) :
            job' = [job EXCEPT ![s] =
                      [pc |-> IF r.rows = {} THEN "truncate" ELSE "create",
                       page |-> r.page, rows |-> Numbered(r.rows, f)]]
    BY <1>5 DEF BeginSave
  <2>2. PICK f \in Numberings(r.rows, last) :
          job' = [job EXCEPT ![s] =
                    [pc |-> IF r.rows = {} THEN "truncate" ELSE "create",
                     page |-> r.page, rows |-> Numbered(r.rows, f)]]
    BY <2>1
  <2>3. Numbered(r.rows, f) \in SUBSET Row
    BY LargestType, NumberedFacts
  <2>4. job' \in [Servers -> [pc: Pcs, page: Pages, rows: SUBSET Row]]
    BY <2>2, <2>3 DEF Pcs
  <2>5. sent' \subseteq sent /\ stale' \in BOOLEAN
    BY <1>5 DEF BeginSave
  <2> QED
    BY <1>5, <2>4, <2>5 DEF BeginSave
<1>6. ASSUME NEW s \in Servers, RejectSave(s)
      PROVE  TypeOK'
  BY <1>6 DEF RejectSave, Pcs
<1>7. ASSUME NEW s \in Servers, Command(s)
      PROVE  TypeOK'
  <2>1. job' \in [Servers -> [pc: Pcs, page: Pages, rows: SUBSET Row]]
    BY <1>7, AfterType DEF Command
  <2> QED
    BY <1>7, <2>1, EffectType DEF Command, pages
<1>8. ASSUME NEW s \in Servers, CommandFails(s)
      PROVE  TypeOK'
  <2>1. job' \in [Servers -> [pc: Pcs, page: Pages, rows: SUBSET Row]]
    <3>1. CASE job' = [job EXCEPT ![s].pc = "error"]
      BY <3>1 DEF Pcs
    <3>2. CASE job' = [job EXCEPT ![s] = Idle]
      BY <3>2, IdleType
    <3> QED
      BY <1>8, <3>1, <3>2 DEF CommandFails
  <2> QED
    BY <1>8, <2>1, EffectType DEF CommandFails, pages
<1>9. ASSUME NEW s \in Servers, Reply(s)
      PROVE  TypeOK'
  <2> DEFINE p == job[s].page
             b == page[p].reload \/ job[s].pc = "ok"
  <2>1. p \in Pages /\ b \in BOOLEAN
    OBVIOUS
  <2>2. page' = [page EXCEPT ![p].reload = b]
    BY <1>9 DEF Reply
  <2>3. page' \in [Pages -> [rows: SUBSET Row, columns: BOOLEAN,
                              reload: BOOLEAN]]
    <3> HIDE DEF p, b
    <3> QED
      BY <2>1, <2>2
  <2>4. job' \in [Servers -> [pc: Pcs, page: Pages, rows: SUBSET Row]]
    BY <1>9, IdleType DEF Reply
  <2> QED
    BY <1>9, <2>3, <2>4 DEF Reply
<1>10. ASSUME NEW s \in Servers, ReplyLost(s)
       PROVE  TypeOK'
  BY <1>10, IdleType DEF ReplyLost, pages
<1>11. CASE UNCHANGED vars
  BY <1>11 DEF vars, pages
<1> QED
  BY <1>1, <1>2, <1>3, <1>4, <1>5, <1>6, <1>7, <1>8, <1>9, <1>10, <1>11
     DEF Next

\* Types are right in every state, for all values of the constants.
THEOREM TypeCorrect == Spec => []TypeOK
BY InitType, NextType, PTL DEF Spec
-----------------------------------------------------------------------------
(* The swap. *)

\* SwapExclusive, and a shadow table is empty until its rows are inserted.
SwapInv ==
    /\ SwapExclusive
    /\ \A s \in Servers : job[s].pc = "insert" => temp.rows = {}

\* Steps that leave the shadow table alone and let no server enter the swap.
LEMMA SwapKept ==
    ASSUME SwapInv, temp' = temp,
           \A s \in Servers : job'[s] = job[s] \/ job'[s].pc \notin Holding
    PROVE  SwapInv'
BY DEF SwapInv, SwapExclusive, Holding

\* A server that leaves the swap, whatever its last command did to the tables.
LEMMA SwapLeft ==
    ASSUME TypeOK, SwapInv, NEW s \in Servers,
           job[s].pc \in DOMAIN After,
           Effect(s) \/ UNCHANGED <<live, temp>>,
           job'[s].pc \notin Holding,
           \A t \in Servers \ {s} : job'[t] = job[t]
    PROVE  SwapInv'
<1>1. CASE temp' = temp
  BY <1>1, SwapKept
<1>2. CASE temp' # temp
  <2>1. job[s].pc \in Holding \/ ~temp.exists
    BY <1>2 DEF Effect, Truncates, Creates, Inserts, Exchanges, Drops, Holding
  <2>2. \A t \in Servers \ {s} : job[t].pc \notin Holding
    BY <2>1 DEF SwapInv, SwapExclusive
  <2>3. \A t \in Servers : job'[t].pc \notin Holding
    BY <2>2
  <2> QED
    BY <2>3 DEF SwapInv, SwapExclusive, Holding
<1> QED
  BY <1>1, <1>2

\* The swap invariant holds when nothing has been saved yet.
LEMMA InitSwap == Init => SwapInv
BY DEF Init, SwapInv, SwapExclusive, Idle, Holding

\* Every step of the CMS preserves the swap invariant.
LEMMA NextSwap ==
    ASSUME TypeOK, SwapInv, [Next]_vars
    PROVE  SwapInv'
<1>0. \A s, t \in Servers : s # t => \A v : [job EXCEPT ![s] = v][t] = job[t]
  BY DEF TypeOK
<1>1. ASSUME NEW p \in Pages,
             LoadData(p) \/ AddRow(p) \/ DeleteRow(p) \/ SaveData(p)
      PROVE  SwapInv'
  <2>1. job' = job /\ temp' = temp
    BY <1>1 DEF LoadData, AddRow, DeleteRow, SaveData
  <2> QED
    BY <2>1, SwapKept
<1>2. ASSUME NEW s \in Servers, BeginSave(s) \/ RejectSave(s)
      PROVE  SwapInv'
  <2>0. /\ job' = [job EXCEPT ![s] = job'[s]]
        /\ job'[s].pc \in {"truncate", "create", "error"}
    <3>1. CASE BeginSave(s)
      <4>1. PICK r \in sent, last \in Largest(Key(live)) :
              \E f \in Numberings(r.rows, last) :
                job' = [job EXCEPT ![s] =
                          [pc |-> IF r.rows = {} THEN "truncate"
                                  ELSE "create",
                           page |-> r.page, rows |-> Numbered(r.rows, f)]]
        BY <3>1 DEF BeginSave
      <4>2. PICK f \in Numberings(r.rows, last) :
              job' = [job EXCEPT ![s] =
                        [pc |-> IF r.rows = {} THEN "truncate" ELSE "create",
                         page |-> r.page, rows |-> Numbered(r.rows, f)]]
        BY <4>1
      <4> QED
        BY <4>2 DEF TypeOK
    <3>2. CASE RejectSave(s)
      <4>1. PICK r \in sent : job' = [job EXCEPT ![s] =
                     [pc |-> "error", page |-> r.page, rows |-> {}]]
        BY <3>2 DEF RejectSave
      <4> QED
        BY <4>1 DEF TypeOK
    <3> QED
      BY <1>2, <3>1, <3>2
  <2>1. temp' = temp /\ \A t \in Servers \ {s} : job'[t] = job[t]
    BY <1>2, <2>0 DEF BeginSave, RejectSave, TypeOK
  <2>2. job'[s].pc \in {"truncate", "create", "error"}
    BY <2>0 DEF TypeOK
  <2>3. job'[s].pc \notin Holding
    BY <2>2 DEF Holding
  <2> QED
    BY <2>1, <2>3, SwapKept
<1>3. ASSUME NEW s \in Servers, Command(s)
      PROVE  SwapInv'
  <2>1. /\ job'[s] = [job[s] EXCEPT !.pc = After[job[s].pc]]
        /\ \A t \in Servers \ {s} : job'[t] = job[t]
    BY <1>3 DEF Command, TypeOK
  <2>2. job'[s].rows = job[s].rows /\ job'[s].pc = After[job[s].pc]
    BY <2>1 DEF TypeOK
  <2>3. CASE Truncates(s) \/ Drops(s)
    <3>1. job'[s].pc = "ok"
      BY <2>2, <2>3 DEF Truncates, Drops, After
    <3> QED
      BY <1>3, <2>1, <3>1, SwapLeft DEF Command, Holding
  <2>4. CASE Creates(s)
    <3>1. \A t \in Servers : job[t].pc \notin Holding
      BY <2>4 DEF Creates, SwapInv, SwapExclusive
    <3>2. \A t \in Servers \ {s} : job'[t].pc \notin Holding
      BY <2>1, <3>1
    <3>3. job'[s].pc = "insert" /\ temp'.exists /\ temp'.rows = {}
      BY <2>2, <2>4 DEF Creates, After
    <3> QED
      BY <3>2, <3>3 DEF SwapInv, SwapExclusive, Holding
  <2>5. CASE Inserts(s)
    <3>1. \A t \in Servers \ {s} : job'[t].pc \notin Holding
      BY <2>1, <2>5 DEF Inserts, SwapInv, SwapExclusive, Holding
    <3>2. job'[s].pc = "exchange"
      BY <2>2, <2>5 DEF Inserts, After
    <3>3. temp.rows = {} /\ temp' = [temp EXCEPT !.rows = @ \cup job[s].rows]
      BY <2>5 DEF Inserts, SwapInv
    <3>4. temp'.exists /\ temp'.rows = job[s].rows
      BY <3>3, <2>5 DEF Inserts, TypeOK
    <3> QED
      BY <2>2, <3>1, <3>2, <3>4 DEF SwapInv, SwapExclusive, Holding
  <2>6. CASE Exchanges(s)
    <3>1. \A t \in Servers \ {s} : job'[t].pc \notin Holding
      BY <2>1, <2>6 DEF Exchanges, SwapInv, SwapExclusive, Holding
    <3>2. job'[s].pc = "drop" /\ temp'.exists
      BY <2>2, <2>6 DEF Exchanges, After, TypeOK
    <3> QED
      BY <3>1, <3>2 DEF SwapInv, SwapExclusive, Holding
  <2> QED
    BY <1>3, <2>3, <2>4, <2>5, <2>6 DEF Command, Effect
<1>4. ASSUME NEW s \in Servers, CommandFails(s)
      PROVE  SwapInv'
  <2>1. \A t \in Servers \ {s} : job'[t] = job[t]
    BY <1>4 DEF CommandFails, TypeOK
  <2>2. job'[s].pc \notin Holding
    <3>1. CASE job' = [job EXCEPT ![s].pc = "error"]
      BY <3>1 DEF TypeOK, Holding
    <3>2. CASE job' = [job EXCEPT ![s] = Idle]
      BY <3>2 DEF TypeOK, Holding, Idle
    <3> QED
      BY <1>4, <3>1, <3>2 DEF CommandFails
  <2> QED
    BY <1>4, <2>1, <2>2, SwapLeft DEF CommandFails
<1>5. ASSUME NEW s \in Servers, Reply(s) \/ ReplyLost(s)
      PROVE  SwapInv'
  <2>1. temp' = temp /\ job' = [job EXCEPT ![s] = Idle]
    BY <1>5 DEF Reply, ReplyLost
  <2>2. Idle.pc \notin Holding
    BY DEF Idle, Holding
  <2>3. \A t \in Servers : job'[t] = job[t] \/ job'[t].pc \notin Holding
    BY <2>1, <2>2 DEF TypeOK
  <2> QED
    BY <2>1, <2>3, SwapKept
<1>6. CASE UNCHANGED vars
  BY <1>6, SwapKept DEF vars
<1> QED
  BY <1>1, <1>2, <1>3, <1>4, <1>5, <1>6 DEF Next

\* However many servers save the table at once, and whatever fails, at most
\* one is in the swap and it publishes its own rows (router.py:149-155).
THEOREM Swap == Spec => []SwapExclusive
<1>1. Init => TypeOK /\ SwapInv
  BY InitType, InitSwap
<1>2. TypeOK /\ SwapInv /\ [Next]_vars => (TypeOK /\ SwapInv)'
  BY NextType, NextSwap
<1>3. SwapInv => SwapExclusive
  BY DEF SwapInv
<1> QED
  BY <1>1, <1>2, <1>3, PTL DEF Spec
-----------------------------------------------------------------------------
(* The refinement. *)

\* A save that truncates carries no rows.
TruncInv == \A s \in Servers : job[s].pc = "truncate" => job[s].rows = {}

AbstractSave == [s \in Servers |-> Abstracted(job[s])]

\* The abstract counterpart of a step that changes one server's request.
LEMMA AbstractUpdate ==
    ASSUME TypeOK, NEW s \in Servers, NEW j, job' = [job EXCEPT ![s] = j]
    PROVE  AbstractSave' = [AbstractSave EXCEPT ![s] = Abstracted(j)]
BY DEF TypeOK, AbstractSave

\* A server that gives up its request, in whatever place it is.
LEMMA AbstractEnd ==
    ASSUME TypeOK, NEW s \in Servers, NEW j, job' = [job EXCEPT ![s] = j],
           j.pc \in {"idle", "error"}, live' = live
    PROVE  Store!Next \/ AbstractSave' = AbstractSave
<1>1. Abstracted(j) = [phase |-> "idle", rows |-> {}]
  BY DEF Abstracted
<1>2. AbstractSave' = [AbstractSave EXCEPT ![s] = [phase |-> "idle", rows |-> {}]]
  BY <1>1, AbstractUpdate
<1>3. CASE AbstractSave[s].phase = "idle"
  <2>1. AbstractSave[s] = [phase |-> "idle", rows |-> {}]
    BY <1>3 DEF AbstractSave, Abstracted
  <2> QED
    BY <1>2, <2>1 DEF AbstractSave
<1>4. CASE AbstractSave[s].phase # "idle"
  <2>1. Store!End(s)
    BY <1>2, <1>4 DEF Store!End, Store!NoSave, AbstractSave
  <2> QED
    BY <2>1 DEF Store!Next
<1> QED
  BY <1>3, <1>4

\* A save that truncates has no rows in any state after the step either.
LEMMA NextTrunc ==
    ASSUME TypeOK, TruncInv, [Next]_vars
    PROVE  TruncInv'
<1>1. ASSUME NEW p \in Pages,
             LoadData(p) \/ AddRow(p) \/ DeleteRow(p) \/ SaveData(p)
      PROVE  TruncInv'
  BY <1>1 DEF LoadData, AddRow, DeleteRow, SaveData, TruncInv
<1>2. ASSUME NEW s \in Servers, BeginSave(s)
      PROVE  TruncInv'
  <2>1. PICK r \in sent, last \in Largest(Key(live)) :
          \E f \in Numberings(r.rows, last) :
            job' = [job EXCEPT ![s] =
                      [pc |-> IF r.rows = {} THEN "truncate" ELSE "create",
                       page |-> r.page, rows |-> Numbered(r.rows, f)]]
    BY <1>2 DEF BeginSave
  <2>2. PICK f \in Numberings(r.rows, last) :
          job' = [job EXCEPT ![s] =
                    [pc |-> IF r.rows = {} THEN "truncate" ELSE "create",
                     page |-> r.page, rows |-> Numbered(r.rows, f)]]
    BY <2>1
  <2>3. r.rows = {} => Numbered(r.rows, f) = {}
    BY DEF Numbered, New
  <2>4. job'[s].pc = "truncate" => job'[s].rows = {}
    BY <2>2, <2>3 DEF TypeOK
  <2>5. \A t \in Servers \ {s} : job'[t] = job[t]
    BY <2>2 DEF TypeOK
  <2> QED
    BY <2>4, <2>5 DEF TruncInv
<1>3. ASSUME NEW s \in Servers, RejectSave(s)
      PROVE  TruncInv'
  BY <1>3 DEF RejectSave, TruncInv, TypeOK
<1>4. ASSUME NEW s \in Servers, Command(s)
      PROVE  TruncInv'
  <2>1. /\ job'[s].pc = After[job[s].pc]
        /\ \A t \in Servers \ {s} : job'[t] = job[t]
    BY <1>4 DEF Command, TypeOK
  <2>2. job'[s].pc # "truncate"
    BY <1>4, <2>1 DEF Command, After
  <2> QED
    BY <2>1, <2>2 DEF TruncInv
<1>5. ASSUME NEW s \in Servers, CommandFails(s) \/ Reply(s) \/ ReplyLost(s)
      PROVE  TruncInv'
  <2>1. \/ job' = [job EXCEPT ![s].pc = "error"]
        \/ job' = [job EXCEPT ![s] = Idle]
    BY <1>5 DEF CommandFails, Reply, ReplyLost
  <2>2. Idle.pc = "idle"
    BY DEF Idle
  <2> QED
    BY <2>1, <2>2 DEF TruncInv, TypeOK
<1>6. CASE UNCHANGED vars
  BY <1>6 DEF vars, TruncInv
<1> QED
  BY <1>1, <1>2, <1>3, <1>4, <1>5, <1>6 DEF Next

\* A server that publishes its rows in one command, and is answered, fails or
\* goes on to drop the shadow table.
LEMMA AbstractPublish ==
    ASSUME TypeOK, NEW s \in Servers, NEW j, job' = [job EXCEPT ![s] = j],
           job[s].pc \in {"truncate", "create", "insert", "exchange"},
           live' = job[s].rows,
           j.pc \in {"drop", "ok", "idle", "error"}
    PROVE  Store!Publish(s)
<1>1. AbstractSave[s] = [phase |-> "working", rows |-> job[s].rows]
  BY DEF AbstractSave, Abstracted
<1>2. PICK next \in {"published", "acked", "idle"} :
         Abstracted(j) = [phase |-> next, rows |-> {}]
  BY DEF Abstracted
<1>3. AbstractSave' = [AbstractSave EXCEPT ![s] =
                         [phase |-> next, rows |-> {}]]
  BY <1>2, AbstractUpdate
<1>4. AbstractSave[s].phase = "working" /\ live' = AbstractSave[s].rows
  BY <1>1
<1> QED
  BY <1>3, <1>4 DEF Store!Publish, AbstractSave

\* Every step of the CMS is a step of the abstract store or changes nothing
\* that the store shows.
LEMMA StoreStep ==
    ASSUME TypeOK, SwapInv, TruncInv, [Next]_vars
    PROVE  [Store!Next]_Store!storeVars
<1> SUFFICES \/ Store!Next
             \/ UNCHANGED <<live, AbstractSave>>
  BY DEF Store!storeVars, AbstractSave
<1>1. ASSUME NEW p \in Pages,
             LoadData(p) \/ AddRow(p) \/ DeleteRow(p) \/ SaveData(p)
      PROVE  UNCHANGED <<live, AbstractSave>>
  BY <1>1 DEF LoadData, AddRow, DeleteRow, SaveData, AbstractSave
<1>2. ASSUME NEW s \in Servers, BeginSave(s)
      PROVE  Store!Next
  <2>1. PICK r \in sent, last \in Largest(Key(live)) :
          \E f \in Numberings(r.rows, last) :
            job' = [job EXCEPT ![s] =
                      [pc |-> IF r.rows = {} THEN "truncate" ELSE "create",
                       page |-> r.page, rows |-> Numbered(r.rows, f)]]
    BY <1>2 DEF BeginSave
  <2>2. PICK f \in Numberings(r.rows, last) :
          job' = [job EXCEPT ![s] =
                    [pc |-> IF r.rows = {} THEN "truncate" ELSE "create",
                     page |-> r.page, rows |-> Numbered(r.rows, f)]]
    BY <2>1
  <2> DEFINE R == Numbered(r.rows, f)
             j == [pc |-> IF r.rows = {} THEN "truncate" ELSE "create",
                   page |-> r.page, rows |-> R]
  <2>3. R \in SUBSET Row
    BY LargestType, NumberedFacts DEF TypeOK
  <2>4. Abstracted(j) = [phase |-> "working", rows |-> R]
    BY DEF Abstracted
  <2>5. AbstractSave' = [AbstractSave EXCEPT ![s] = Abstracted(j)]
    BY <2>2, AbstractUpdate
  <2>6. AbstractSave[s].phase = "idle" /\ live' = live
    BY <1>2 DEF BeginSave, AbstractSave, Abstracted
  <2>7. /\ AbstractSave'[s] \in [phase: {"working"}, rows: SUBSET Row]
        /\ AbstractSave' = [AbstractSave EXCEPT ![s] = AbstractSave'[s]]
    <3>1. AbstractSave'[s] = Abstracted(j)
      <4> HIDE DEF R, j
      <4> QED
        BY <2>5 DEF AbstractSave
    <3>2. Abstracted(j) \in [phase: {"working"}, rows: SUBSET Row]
      BY <2>3, <2>4
    <3> HIDE DEF R, j
    <3> QED
      BY <2>5, <3>1, <3>2
  <2>8. Store!Begin(s)
    BY <2>6, <2>7 DEF Store!Begin, AbstractSave
  <2> QED
    BY <2>8 DEF Store!Next
<1>3. ASSUME NEW s \in Servers, RejectSave(s)
      PROVE  Store!Next \/ UNCHANGED <<live, AbstractSave>>
  <2>1. PICK r \in sent : job' = [job EXCEPT ![s] =
                 [pc |-> "error", page |-> r.page, rows |-> {}]]
    BY <1>3 DEF RejectSave
  <2> QED
    BY <1>3, <2>1, AbstractEnd DEF RejectSave
<1>4. ASSUME NEW s \in Servers, Command(s)
      PROVE  Store!Next \/ UNCHANGED <<live, AbstractSave>>
  <2> DEFINE j == [job[s] EXCEPT !.pc = After[job[s].pc]]
  <2>1. job' = [job EXCEPT ![s] = j]
    BY <1>4 DEF Command
  <2>2. j.pc = After[job[s].pc] /\ j.rows = job[s].rows
    BY DEF TypeOK
  <2>3. CASE Truncates(s) \/ Exchanges(s)
    <3>1. live' = job[s].rows
      BY <2>3 DEF Truncates, Exchanges, TruncInv, SwapInv, SwapExclusive
    <3>2. j.pc \in {"drop", "ok"}
      BY <2>2, <2>3 DEF Truncates, Exchanges, After
    <3>3. job[s].pc \in {"truncate", "exchange"}
      BY <2>3 DEF Truncates, Exchanges
    <3>4. Store!Publish(s)
      <4> HIDE DEF j
      <4> QED
        BY <2>1, <3>1, <3>2, <3>3, AbstractPublish
    <3> QED
      BY <3>4 DEF Store!Next
  <2>4. CASE Creates(s) \/ Inserts(s)
    <3>1. live' = live /\ job[s].pc \in {"create", "insert"}
      BY <2>4 DEF Creates, Inserts
    <3>2. j.pc \in {"insert", "exchange"}
      BY <2>2, <3>1 DEF After
    <3>3. Abstracted(j) = Abstracted(job[s])
      BY <2>2, <3>1, <3>2 DEF Abstracted
    <3>4. AbstractSave' = [AbstractSave EXCEPT ![s] = Abstracted(j)]
      <4> HIDE DEF j
      <4> QED
        BY <2>1, AbstractUpdate
    <3> QED
      BY <3>1, <3>3, <3>4 DEF AbstractSave
  <2>5. CASE Drops(s)
    <3>1. live' = live /\ job[s].pc = "drop" /\ j.pc = "ok"
      BY <2>2, <2>5 DEF Drops, After
    <3>2. AbstractSave' = [AbstractSave EXCEPT ![s] = Abstracted(j)]
      <4> HIDE DEF j
      <4> QED
        BY <2>1, AbstractUpdate
    <3>3. /\ AbstractSave[s] = [phase |-> "published", rows |-> {}]
          /\ Abstracted(j) = [phase |-> "acked", rows |-> {}]
      BY <3>1 DEF AbstractSave, Abstracted
    <3>4. AbstractSave' = [AbstractSave EXCEPT ![s] =
                             [phase |-> "acked", rows |-> {}]]
      BY <3>2, <3>3
    <3>5. Store!Acknowledge(s)
      BY <3>1, <3>3, <3>4 DEF Store!Acknowledge, AbstractSave
    <3> QED
      BY <3>5 DEF Store!Next
  <2> QED
    BY <1>4, <2>3, <2>4, <2>5 DEF Command, Effect
<1>5. ASSUME NEW s \in Servers, CommandFails(s)
      PROVE  Store!Next \/ UNCHANGED <<live, AbstractSave>>
  <2>1. PICK j \in {[job[s] EXCEPT !.pc = "error"], Idle} :
          job' = [job EXCEPT ![s] = j]
    BY <1>5 DEF CommandFails
  <2>2. j.pc \in {"idle", "error"}
    BY DEF Idle, TypeOK
  <2>3. CASE live' = live
    BY <2>1, <2>2, <2>3, AbstractEnd
  <2>4. CASE Truncates(s) \/ Exchanges(s)
    <3>1. live' = job[s].rows
      BY <2>4 DEF Truncates, Exchanges, TruncInv, SwapInv, SwapExclusive
    <3>2. job[s].pc \in {"truncate", "exchange"}
      BY <2>4 DEF Truncates, Exchanges
    <3>3. Store!Publish(s)
      BY <2>1, <2>2, <3>1, <3>2, AbstractPublish
    <3> QED
      BY <3>3 DEF Store!Next
  <2> QED
    BY <1>5, <2>3, <2>4
       DEF CommandFails, Effect, Creates, Inserts, Drops
<1>6. ASSUME NEW s \in Servers, Reply(s) \/ ReplyLost(s)
      PROVE  Store!Next \/ UNCHANGED <<live, AbstractSave>>
  <2>1. job' = [job EXCEPT ![s] = Idle] /\ live' = live
    BY <1>6 DEF Reply, ReplyLost
  <2>2. Idle.pc \in {"idle", "error"}
    BY DEF Idle
  <2> QED
    BY <2>1, <2>2, AbstractEnd
<1>7. CASE UNCHANGED vars
  BY <1>7 DEF vars, AbstractSave
<1> QED
  BY <1>1, <1>2, <1>3, <1>4, <1>5, <1>6, <1>7 DEF Next

\* Whatever fails between two commands and whoever else saves, readers see a
\* save replace the whole table in one step or not at all, and only a save
\* that has done so is acknowledged (router.py:142-157).
THEOREM Refinement == Spec => ImplementsStore
<1> DEFINE Inv == TypeOK /\ SwapInv /\ TruncInv
<1>1. Init => Inv
  <2>1. Init => TruncInv
    BY DEF Init, TruncInv, Idle
  <2> QED
    BY <2>1, InitType, InitSwap
<1>2. Inv /\ [Next]_vars => Inv'
  BY NextType, NextSwap, NextTrunc
<1>3. Init => Store!Init
  BY DEF Init, Store!Init, Store!NoSave, Abstracted, Idle
<1>4. Inv /\ [Next]_vars => [Store!Next]_Store!storeVars
  BY StoreStep
<1> QED
  BY <1>1, <1>2, <1>3, <1>4, PTL DEF Spec, ImplementsStore, Store!Spec
-----------------------------------------------------------------------------
(* Keys. *)

\* Rows that share a key are equal, among those that have one.
Apart(rows) == \A r, q \in rows : r.id # 0 /\ r.id = q.id => r = q

Keyed(rows) == Apart(rows) /\ \A r \in rows : r.id # 0

\* Before a stale save: stored rows, and rows about to be stored, all have a
\* key; rows of pages and requests may wait for one; no two rows share one.
KeysInv ==
    \/ stale
    \/ /\ Keyed(live) /\ Keyed(temp.rows)
       /\ \A s \in Servers : Keyed(job[s].rows)
       /\ \A p \in Pages : Apart(page[p].rows)
       /\ \A r \in sent : Apart(r.rows)

\* Rows numbered after all stored keys share no key, when every key they came
\* with is at most some stored one.
LEMMA NumberedKeyed ==
    ASSUME TypeOK, NEW rows \in SUBSET Row, NEW last \in Largest(Key(live)),
           NEW f \in Numberings(rows, last), Apart(rows),
           \A k \in Key(rows) \ {0} : \E n \in Key(live) : ~(k > n)
    PROVE  Keyed(Numbered(rows, f))
<1>1. last \in Nat /\ \A r \in live : r.id <= last
  BY LargestType DEF TypeOK
<1>2. /\ \A q \in New(rows) : f[q] \in Nat /\ f[q] > last
      /\ \A q, r \in New(rows) : f[q] = f[r] => q = r
  BY <1>1, NumberedFacts
<1>3. \A r \in rows \ New(rows) : r.id \in Nat /\ r.id # 0 /\ r.id <= last
  <2> SUFFICES ASSUME NEW r \in rows \ New(rows)
               PROVE  r.id \in Nat /\ r.id # 0 /\ r.id <= last
    OBVIOUS
  <2>1. r.id \in Key(rows) \ {0} /\ r.id \in Nat
    BY DEF New, Key, Row
  <2>2. PICK q \in live : ~(r.id > q.id)
    BY <2>1 DEF Key
  <2>3. q.id \in Nat /\ q.id <= last
    BY <1>1 DEF TypeOK, Row
  <2> QED
    BY <1>1, <2>1, <2>2, <2>3
<1>4. \A q \in New(rows) : [q EXCEPT !.id = f[q]].id = f[q]
  BY DEF New, Row
<1>5. \A r \in Numbered(rows, f) :
        \/ r \in rows \ New(rows)
        \/ \E q \in New(rows) : r = [q EXCEPT !.id = f[q]] /\ r.id = f[q]
  BY <1>4 DEF Numbered
<1>6. \A r \in Numbered(rows, f) : r.id # 0
  BY <1>1, <1>2, <1>3, <1>5
<1>7. ASSUME NEW r \in Numbered(rows, f), NEW q \in Numbered(rows, f),
             r.id = q.id
      PROVE  r = q
  <2>1. CASE r \in rows \ New(rows) /\ q \in rows \ New(rows)
    BY <1>3, <1>7, <2>1 DEF Apart
  <2>2. ASSUME NEW a \in New(rows), r = [a EXCEPT !.id = f[a]], r.id = f[a],
               NEW b \in New(rows), q = [b EXCEPT !.id = f[b]], q.id = f[b]
        PROVE  r = q
    BY <1>2, <1>7, <2>2
  <2>3. CASE \/ r \in rows \ New(rows) /\ \E b \in New(rows) : q.id = f[b]
             \/ q \in rows \ New(rows) /\ \E a \in New(rows) : r.id = f[a]
    BY <1>1, <1>2, <1>3, <1>7, <2>3
  <2> QED
    BY <1>5, <2>1, <2>2, <2>3
<1> QED
  BY <1>6, <1>7 DEF Keyed, Apart

\* The CMS begins with a table in which every row has a key of its own.
LEMMA InitKeys == Init => KeysInv
BY AdminAssumption DEF Init, KeysInv, Keyed, Apart, NoTable, Idle

\* What a command does to the tables keeps their keys apart.
LEMMA EffectKeys ==
    ASSUME SwapInv, TypeOK, KeysInv, NEW s \in Servers,
           Effect(s) \/ UNCHANGED <<live, temp>>
    PROVE  stale \/ (Keyed(live') /\ Keyed(temp'.rows))
<1>1. Keyed({})
  BY DEF Keyed, Apart
<1>2. CASE UNCHANGED <<live, temp>>
  BY <1>2 DEF KeysInv
<1>3. CASE Truncates(s)
  BY <1>1, <1>3 DEF Truncates, KeysInv
<1>4. CASE Creates(s)
  BY <1>1, <1>4 DEF Creates, KeysInv
<1>5. CASE Inserts(s)
  <2>1. temp'.rows = job[s].rows /\ live' = live
    BY <1>5 DEF Inserts, SwapInv, TypeOK
  <2> QED
    BY <2>1 DEF KeysInv
<1>6. CASE Exchanges(s)
  <2>1. live' = temp.rows /\ temp'.rows = live
    BY <1>6 DEF Exchanges, TypeOK
  <2> QED
    BY <2>1 DEF KeysInv
<1>7. CASE Drops(s)
  BY <1>1, <1>7 DEF Drops, NoTable, KeysInv
<1> QED
  BY <1>2, <1>3, <1>4, <1>5, <1>6, <1>7 DEF Effect

\* Every step keeps the keys apart until a save is stale.
LEMMA NextKeys ==
    ASSUME TypeOK, SwapInv, KeysInv, [Next]_vars
    PROVE  KeysInv'
<1> SUFFICES ASSUME ~stale' PROVE KeysInv'
  BY DEF KeysInv
<1>0. /\ Keyed({})
      /\ \A rows : Keyed(rows) => Apart(rows)
      /\ \A rows : \A part \in SUBSET rows : Apart(rows) => Apart(part)
  BY DEF Keyed, Apart
<1>1. ASSUME NEW p \in Pages, NEW rows, Apart(rows),
             \A o \in Pages \ {p} : page'[o].rows = page[o].rows,
             page'[p].rows = rows,
             UNCHANGED <<live, temp, sent, job, stale>>
      PROVE  KeysInv'
  BY <1>1 DEF KeysInv
<1>2. ASSUME NEW p \in Pages, LoadData(p)
      PROVE  KeysInv'
  <2>1. Apart(live)
    BY <1>0, <1>2 DEF KeysInv, LoadData
  <2>2. page'[p].rows = live /\ \A o \in Pages \ {p} : page'[o] = page[o]
    BY <1>2 DEF LoadData, TypeOK
  <2> QED
    BY <1>1, <1>2, <2>1, <2>2 DEF LoadData
<1>3. ASSUME NEW p \in Pages, AddRow(p)
      PROVE  KeysInv'
  <2>1. PICK i \in Items :
          page' = [page EXCEPT ![p].rows = @ \cup {[item |-> i, id |-> 0]}]
    BY <1>3 DEF AddRow
  <2>2. /\ page'[p].rows = page[p].rows \cup {[item |-> i, id |-> 0]}
        /\ \A o \in Pages \ {p} : page'[o] = page[o]
    BY <2>1 DEF TypeOK
  <2>3. Apart(page[p].rows)
    BY <1>3 DEF AddRow, KeysInv
  <2>4. Apart(page[p].rows \cup {[item |-> i, id |-> 0]})
    BY <2>3 DEF Apart
  <2> QED
    BY <1>1, <1>3, <2>2, <2>4 DEF AddRow
<1>4. ASSUME NEW p \in Pages, DeleteRow(p)
      PROVE  KeysInv'
  <2>1. PICK r \in page[p].rows : page' = [page EXCEPT ![p].rows = @ \ {r}]
    BY <1>4 DEF DeleteRow
  <2>2. /\ page'[p].rows = page[p].rows \ {r}
        /\ \A o \in Pages \ {p} : page'[o] = page[o]
    BY <2>1 DEF TypeOK
  <2>3. Apart(page[p].rows \ {r})
    BY <1>0, <1>4 DEF DeleteRow, KeysInv
  <2> QED
    BY <1>1, <1>4, <2>2, <2>3 DEF DeleteRow
<1>5. ASSUME NEW p \in Pages, SaveData(p)
      PROVE  KeysInv'
  <2>1. sent' = sent \cup {[no |-> saves', page |-> p, rows |-> page[p].rows]}
    BY <1>5 DEF SaveData
  <2>2. \A r \in sent' : r \in sent \/ r.rows = page[p].rows
    BY <2>1
  <2>3. \A r \in sent' : Apart(r.rows)
    BY <1>5, <2>2 DEF SaveData, KeysInv
  <2> QED
    BY <1>5, <2>3 DEF SaveData, KeysInv
<1>6. ASSUME NEW s \in Servers, BeginSave(s)
      PROVE  KeysInv'
  <2>1. PICK r \in sent :
          /\ sent' = sent \ {r}
          /\ stale' = \/ stale
                      \/ \E k \in Key(r.rows) \ {0} :
                            \A n \in Key(live) : k > n
          /\ \E last \in Largest(Key(live)) :
               \E f \in Numberings(r.rows, last) :
                 job' = [job EXCEPT ![s] =
                          [pc |-> IF r.rows = {} THEN "truncate" ELSE "create",
                           page |-> r.page, rows |-> Numbered(r.rows, f)]]
    BY <1>6 DEF BeginSave
  <2>2. PICK last \in Largest(Key(live)) :
          \E f \in Numberings(r.rows, last) :
            job' = [job EXCEPT ![s] =
                     [pc |-> IF r.rows = {} THEN "truncate" ELSE "create",
                      page |-> r.page, rows |-> Numbered(r.rows, f)]]
    BY <2>1
  <2>3. PICK f \in Numberings(r.rows, last) :
          job' = [job EXCEPT ![s] =
                   [pc |-> IF r.rows = {} THEN "truncate" ELSE "create",
                    page |-> r.page, rows |-> Numbered(r.rows, f)]]
    BY <2>2
  <2>4. /\ ~stale
        /\ \A k \in Key(r.rows) \ {0} : \E n \in Key(live) : ~(k > n)
    BY <2>1
  <2>5. r.rows \in SUBSET Row /\ Apart(r.rows)
    BY <2>1, <2>4 DEF KeysInv, TypeOK
  <2>6. Keyed(Numbered(r.rows, f))
    BY <2>4, <2>5, NumberedKeyed
  <2>7. /\ job'[s].rows = Numbered(r.rows, f)
        /\ \A t \in Servers \ {s} : job'[t] = job[t]
    BY <2>3 DEF TypeOK
  <2> QED
    BY <1>6, <2>1, <2>4, <2>6, <2>7 DEF BeginSave, KeysInv
<1>7. ASSUME NEW s \in Servers, RejectSave(s)
      PROVE  KeysInv'
  <2>1. /\ job'[s].rows = {}
        /\ \A t \in Servers \ {s} : job'[t] = job[t]
        /\ sent' \subseteq sent
    BY <1>7 DEF RejectSave, TypeOK
  <2> QED
    BY <1>0, <1>7, <2>1 DEF RejectSave, KeysInv
<1>8. ASSUME NEW s \in Servers, Command(s) \/ CommandFails(s)
      PROVE  KeysInv'
  <2>1. /\ job'[s].rows = job[s].rows \/ job'[s].rows = {}
        /\ \A t \in Servers \ {s} : job'[t] = job[t]
    BY <1>8 DEF Command, CommandFails, TypeOK, Idle
  <2>2. Keyed(live') /\ Keyed(temp'.rows)
    BY <1>8, EffectKeys DEF Command, CommandFails
  <2> QED
    BY <1>0, <1>8, <2>1, <2>2 DEF Command, CommandFails, KeysInv, pages
<1>9. ASSUME NEW s \in Servers, Reply(s)
      PROVE  KeysInv'
  <2>1. job[s].page \in Pages
    BY DEF TypeOK
  <2>2. \A p \in Pages : page'[p].rows = page[p].rows
    BY <1>9, <2>1 DEF Reply, TypeOK
  <2>3. /\ job'[s].rows = {}
        /\ \A t \in Servers \ {s} : job'[t] = job[t]
    BY <1>9 DEF Reply, TypeOK, Idle
  <2> QED
    BY <1>0, <1>9, <2>2, <2>3 DEF Reply, KeysInv
<1>10. ASSUME NEW s \in Servers, ReplyLost(s)
       PROVE  KeysInv'
  <2>1. /\ job'[s].rows = {}
        /\ \A t \in Servers \ {s} : job'[t] = job[t]
    BY <1>10 DEF ReplyLost, TypeOK, Idle
  <2> QED
    BY <1>0, <1>10, <2>1 DEF ReplyLost, KeysInv, pages
<1>11. CASE UNCHANGED vars
  BY <1>11 DEF vars, pages, KeysInv
<1> QED
  BY <1>2, <1>3, <1>4, <1>5, <1>6, <1>7, <1>8, <1>9, <1>10, <1>11 DEF Next

\* For any number of pages, servers and saves: rows of the table share a key
\* only after a save whose page still showed a key that the table had lost.
THEOREM Keys == Spec => []DuplicateOnlyIfStale
<1> DEFINE Inv == TypeOK /\ SwapInv /\ KeysInv
<1>1. Init => Inv
  BY InitType, InitSwap, InitKeys
<1>2. Inv /\ [Next]_vars => Inv'
  BY NextType, NextSwap, NextKeys
<1>3. Inv => DuplicateOnlyIfStale
  BY DEF KeysInv, Keyed, Apart, DuplicateOnlyIfStale
<1> QED
  BY <1>1, <1>2, <1>3, PTL DEF Spec
=============================================================================
