---------------------------- MODULE CatalogAdmin ----------------------------
(***************************************************************************)
(* The admin CMS: browser pages (templates/index.html) that load, edit and *)
(* save one table, the servers that handle their requests                  *)
(* (admin/router.py), and the ClickHouse table with its shadow table.      *)
(*                                                                         *)
(* save_data awaits nothing, so a server works on one save at a time; the  *)
(* router is mounted both in main.py and in the stand-alone admin/app.py,  *)
(* so there can be several servers.  Every ClickHouse command is a step of *)
(* its own and may raise, with or without having taken effect.             *)
(*                                                                         *)
(* A row is the record an admin entered and the number at the end of its   *)
(* key, 0 while it has none; the other columns are left out.               *)
(***************************************************************************)
EXTENDS Integers, FiniteSets, Functions

CONSTANTS
    Servers,   \* processes that serve the admin API
    Pages,     \* browser pages
    Items,     \* records an admin can enter
    Initial,   \* the table to begin with
    MaxSaves   \* bound: clicks on "Update ClickHouse"

Row == [item: Items, id: Nat]

ASSUME AdminAssumption ==
    /\ Initial \subseteq Row
    /\ \A r \in Initial : r.id # 0
    /\ \A r, q \in Initial : r.id = q.id => r = q
    /\ IsFiniteSet(Items) /\ Pages # {}
    /\ MaxSaves \in Nat

VARIABLES
    live,     \* the table that every reader queries
    temp,     \* the shadow table {table}_temp
    page,     \* what each page shows, and whether it is about to reload
    entered,  \* the records ever entered or stored
    sent,     \* save requests on their way
    saves,    \* how many were sent
    job,      \* the request each server handles
    stale     \* history: a save named a key beyond the largest one stored

pages == <<page, entered, sent, saves>>
vars  == <<live, temp, pages, job, stale>>

NoTable == [exists |-> FALSE, rows |-> {}]
Idle    == [pc |-> "idle", page |-> CHOOSE p \in Pages : TRUE, rows |-> {}]
Holding == {"insert", "exchange", "drop"}
Pcs     == {"idle", "truncate", "create", "ok", "error"} \cup Holding

Key(rows) == {r.id : r \in rows}

\* Mutant: numbering goes on from the number of rows.
LargestByCount(keys) == {Cardinality(keys)}

\* current_max of the scan: the largest stored key, 0 when there is none.
Largest(keys) == {n \in keys \cup {0} : \A k \in keys : k <= n}

New(rows) == {r \in rows : r.id = 0}

\* The ways to number the rows without a key, one after the other.
Numberings(rows, last) ==
    Bijection(New(rows), last + 1 .. last + Cardinality(New(rows)))

Numbered(rows, f) ==
    (rows \ New(rows)) \cup {[r EXCEPT !.id = f[r]] : r \in New(rows)}

-----------------------------------------------------------------------------
(* The browser page. *)

\* loadData: an empty answer clears the rows and keeps the columns.
LoadData(p) ==
    /\ page' = [page EXCEPT ![p] = [rows |-> live, reload |-> FALSE,
                                    columns |-> @.columns \/ live # {}]]
    /\ UNCHANGED <<live, temp, entered, sent, saves, job, stale>>

AddRow(p) ==
    /\ page[p].columns
    /\ \E i \in Items \ entered :
          /\ entered' = entered \cup {i}
          /\ page' = [page EXCEPT ![p].rows = @ \cup {[item |-> i, id |-> 0]}]
    /\ UNCHANGED <<live, temp, sent, saves, job, stale>>

DeleteRow(p) ==
    /\ \E r \in page[p].rows : page' = [page EXCEPT ![p].rows = @ \ {r}]
    /\ UNCHANGED <<live, temp, entered, sent, saves, job, stale>>

\* saveData posts what the page shows; nothing keeps the admin from editing,
\* loading or saving again before the answer, or from saving before loading.
SaveData(p) ==
    /\ saves < MaxSaves
    /\ saves' = saves + 1
    /\ sent' = sent \cup {[no |-> saves', page |-> p, rows |-> page[p].rows]}
    /\ UNCHANGED <<live, temp, page, entered, job, stale>>

-----------------------------------------------------------------------------
(* The server: save_data. *)

\* The scan of the stored keys, the new keys and the conversions.
BeginSave(s) ==
    /\ job[s].pc = "idle"
    /\ \E r \in sent :
          /\ sent' = sent \ {r}
          /\ stale' = \/ stale
                        \/ \E k \in Key(r.rows) \ {0} :
                              \A n \in Key(live) : k > n
          /\ \E last \in Largest(Key(live)) :
                \E f \in Numberings(r.rows, last) :
                   job' = [job EXCEPT ![s] =
                             [pc |-> IF r.rows = {} THEN "truncate"
                                     ELSE "create",
                              page |-> r.page, rows |-> Numbered(r.rows, f)]]
    /\ UNCHANGED <<live, temp, page, entered, saves>>

\* The scan or a conversion raises before any command is sent.
RejectSave(s) ==
    /\ job[s].pc = "idle"
    /\ \E r \in sent :
          /\ sent' = sent \ {r}
          /\ job' = [job EXCEPT ![s] =
                       [pc |-> "error", page |-> r.page, rows |-> {}]]
    /\ UNCHANGED <<live, temp, page, entered, saves, stale>>

Truncates(s) ==
    /\ job[s].pc = "truncate"
    /\ live' = {}
    /\ UNCHANGED temp

\* Mutant: a leftover shadow table is dropped first.
CreatesAfterDrop(s) ==
    /\ job[s].pc = "create"
    /\ temp' = [exists |-> TRUE, rows |-> {}]
    /\ UNCHANGED live

\* CREATE TABLE raises when the table exists.
Creates(s) ==
    /\ job[s].pc = "create"
    /\ ~temp.exists
    /\ temp' = [exists |-> TRUE, rows |-> {}]
    /\ UNCHANGED live

Inserts(s) ==
    /\ job[s].pc = "insert"
    /\ temp.exists
    /\ temp' = [temp EXCEPT !.rows = @ \cup job[s].rows]
    /\ UNCHANGED live

\* Mutant: the rows are copied into the table instead.
ExchangesByInsert(s) ==
    /\ job[s].pc = "exchange"
    /\ temp.exists
    /\ live' = live \cup temp.rows
    /\ UNCHANGED temp

Exchanges(s) ==
    /\ job[s].pc = "exchange"
    /\ temp.exists
    /\ live' = temp.rows
    /\ temp' = [temp EXCEPT !.rows = live]

Drops(s) ==
    /\ job[s].pc = "drop"
    /\ temp.exists
    /\ temp' = NoTable
    /\ UNCHANGED live

Effect(s) ==
    Truncates(s) \/ Creates(s) \/ Inserts(s) \/ Exchanges(s) \/ Drops(s)

\* Mutant: the handler ends without a return value.
AfterUnanswered == [truncate |-> "ok", create |-> "insert",
                    insert |-> "exchange", exchange |-> "drop",
                    drop |-> "none"]

After == [truncate |-> "ok", create |-> "insert", insert |-> "exchange",
          exchange |-> "drop", drop |-> "ok"]

Command(s) ==
    /\ job[s].pc \in DOMAIN After
    /\ Effect(s)
    /\ job' = [job EXCEPT ![s].pc = After[@]]
    /\ UNCHANGED <<pages, stale>>

\* The command raises, or the process dies in it; whether it took effect is
\* not known.  Nothing is undone: there is no handler around the commands.
CommandFails(s) ==
    /\ job[s].pc \in DOMAIN After
    /\ Effect(s) \/ UNCHANGED <<live, temp>>
    /\ \/ job' = [job EXCEPT ![s].pc = "error"]
       \/ job' = [job EXCEPT ![s] = Idle]
    /\ UNCHANGED <<pages, stale>>

\* The page reloads after an "ok" and keeps its rows after an error.
Reply(s) ==
    /\ job[s].pc \in {"ok", "error"}
    /\ job' = [job EXCEPT ![s] = Idle]
    /\ page' = [page EXCEPT ![job[s].page].reload = @ \/ job[s].pc = "ok"]
    /\ UNCHANGED <<live, temp, entered, sent, saves, stale>>

ReplyLost(s) ==
    /\ job[s].pc \in {"ok", "error"}
    /\ job' = [job EXCEPT ![s] = Idle]
    /\ UNCHANGED <<live, temp, pages, stale>>

-----------------------------------------------------------------------------
Init ==
    /\ live = Initial /\ temp = NoTable
    /\ page = [p \in Pages |-> [rows |-> {}, columns |-> FALSE,
                                reload |-> FALSE]]
    /\ entered = {r.item : r \in Initial}
    /\ sent = {} /\ saves = 0
    /\ job = [s \in Servers |-> Idle]
    /\ stale = FALSE

Next ==
    \/ \E p \in Pages : LoadData(p) \/ AddRow(p) \/ DeleteRow(p) \/ SaveData(p)
    \/ \E s \in Servers : \/ BeginSave(s) \/ RejectSave(s)
                          \/ Command(s) \/ CommandFails(s)
                          \/ Reply(s) \/ ReplyLost(s)

Spec == Init /\ [][Next]_vars

-----------------------------------------------------------------------------
(* Properties. *)

\* The type invariant of the pages, the servers and the two tables.
TypeOK ==
    /\ live \in SUBSET Row
    /\ temp \in [exists: BOOLEAN, rows: SUBSET Row]
    /\ page \in [Pages -> [rows: SUBSET Row, columns: BOOLEAN,
                           reload: BOOLEAN]]
    /\ entered \in SUBSET Items
    /\ sent \in SUBSET [no: Nat, page: Pages, rows: SUBSET Row]
    /\ saves \in Nat
    /\ job \in [Servers -> [pc: Pcs, page: Pages, rows: SUBSET Row]]
    /\ stale \in BOOLEAN

\* CREATE TABLE without IF NOT EXISTS is the lock of the shadow-table swap: of
\* any number of servers at most one is between its CREATE and its DROP, and
\* what it is about to exchange is its own rows (router.py:149-155).
SwapExclusive ==
    /\ \A s, t \in Servers :
          job[s].pc \in Holding /\ job[t].pc \in Holding => s = t
    /\ \A s \in Servers : job[s].pc \in Holding => temp.exists
    /\ \A s \in Servers : job[s].pc = "exchange" => temp.rows = job[s].rows

\* Two rows share a key only after a save from a page that still showed a key
\* beyond the largest one stored (router.py:61-76): the scan does not look at
\* the keys of the payload itself, so after such a save they do.
DuplicateOnlyIfStale ==
    stale \/ \A r, q \in live : r.id = q.id => r = q

\* plan.txt:47: an admin can add and delete records.  No save can, from the
\* moment a shadow table exists that no save in progress will drop.
SavePossible == temp.exists => \E s \in Servers : job[s].pc \in Holding

\* What a server's request is to the abstract store.
Abstracted(j) ==
    CASE j.pc \in {"truncate", "create", "insert", "exchange"} ->
           [phase |-> "working", rows |-> j.rows]
      [] j.pc = "drop" -> [phase |-> "published", rows |-> {}]
      [] j.pc = "ok"   -> [phase |-> "acked", rows |-> {}]
      [] OTHER         -> [phase |-> "idle", rows |-> {}]

Store == INSTANCE CatalogStore WITH
    content <- live, save <- [s \in Servers |-> Abstracted(job[s])]

\* The table's readers see each save happen as one replacement or not at all,
\* whatever fails in between, and an acknowledged save has happened.
ImplementsStore == Store!Spec
=============================================================================
