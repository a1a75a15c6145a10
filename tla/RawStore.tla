------------------------------ MODULE RawStore ------------------------------
(***************************************************************************)
(* The raw store of one system: the SQLite file that run_system            *)
(* (src/zentinull/ingest/runner.py) fills through the helpers of           *)
(* src/zentinull/ingestors/base.py.  It holds one table of records per     *)
(* feed and the change log field_history.                                  *)
(*                                                                         *)
(* A run visits the feeds of the system over ONE connection.  A full run   *)
(* replaces the table of each feed, an incremental run upserts into it.    *)
(* The model keeps what is committed (`disk') apart from what the          *)
(* connection sees (`work'): DDL outside a transaction commits on its own, *)
(* the first INSERT, UPDATE or DELETE opens a transaction, and only        *)
(* conn.commit() ends it well.                                             *)
(*                                                                         *)
(* A record's content is one value, that is one data field.  SHA-256 is    *)
(* taken to be injective: the id of a record without an id is its content. *)
(***************************************************************************)
EXTENDS Naturals, Sequences

CONSTANTS
  Feeds,      \* feeds of the system, each with a table of its own
  Keys,       \* non-empty ids a record can have
  NoId,       \* the id_path of a record resolves to nothing
  Vals,       \* contents
  Blanks,     \* the contents that _fh_clean takes for "no data"
  Nil,        \* no row, SQL NULL
  Absent,     \* no such table
  Batches,    \* what a fetch can return: sequences of rows
  Modes,      \* kinds of run: subset of {"full", "incremental"}
  MaxRuns     \* bound on the runs of one behaviour

Ids == Keys \cup Vals
Row == [id : Keys \cup {NoId}, val : Vals]

ASSUME ConstantsAssumption ==
  /\ Keys \cap Vals = {}
  /\ NoId \notin Keys
  /\ Blanks \subseteq Vals
  /\ Nil \notin Vals
  /\ Absent \notin [Ids -> Vals \cup {Nil}]
  /\ Batches \subseteq Seq(Row)
  /\ Modes \subseteq {"full", "incremental"}
  /\ MaxRuns \in Nat

ASSUME FeedsAssumption == Feeds # {}

VARIABLES
  disk,       \* what is committed: [table |-> ..., history |-> ...]
  work,       \* what the connection sees
  inTxn,      \* conn.in_transaction
  pc,         \* where run_system is
  mode,       \* the kind of the current run
  batch,      \* the number of the current run, its batch_id
  todo,       \* feeds the run has still to visit
  feed,       \* the feed it is at
  rows,       \* rows of the feed that are still to be written
  existing,   \* contents pre-fetched by upsert_raw_rows
  result,     \* result[f]: how the last visit of f ended
  reloaded    \* history variable: feeds that a full run has replaced

vars == <<disk, work, inTxn, pc, mode, batch, todo, feed, rows, existing,
          result, reloaded>>
store == <<disk, work, inTxn>>
run == <<mode, batch, todo, feed>>

Tables == [Ids -> Vals \cup {Nil}]
EmptyTable == [id \in Ids |-> Nil]

\* _fh_clean: NULL stands for every sentinel value.
Clean(v) == IF v \in Blanks THEN Nil ELSE v

\* A row of field_history; the batch number orders the rows of a record.
Change == [feed : Feeds, id : Ids, batch : 1 .. MaxRuns,
           old : Vals \cup {Nil}, new : Vals \cup {Nil}]

Store == [table : [Feeds -> Tables \cup {Absent}], history : SUBSET Change]

Points == {"idle", "feeds", "drop", "rename", "insert", "ensure", "purge",
           "upsert", "commit"}

\* The results "empty" and "failed" are both reported as 0 rows.
Results == {"none", "empty", "failed", "written"}

\* Types; the connection differs from the disk only inside a transaction,
\* and the table a feed is written to is there.
TypeOK ==
  /\ disk \in Store
  /\ work \in Store
  /\ inTxn \in BOOLEAN
  /\ ~inTxn => work = disk
  /\ pc \in Points
  /\ mode \in {"full", "incremental"}
  /\ batch \in 0 .. MaxRuns
  /\ todo \subseteq Feeds
  /\ feed \in Feeds
  /\ rows \subseteq Row
  /\ existing \in Tables
  /\ result \in [Feeds -> Results]
  /\ reloaded \subseteq Feeds
  /\ pc \in {"insert", "purge", "upsert", "commit"} => work.table[feed] # Absent

Init ==
  /\ disk = [table |-> [f \in Feeds |-> Absent], history |-> {}]
  /\ work = disk
  /\ inTxn = FALSE
  /\ pc = "idle"
  /\ mode = "full"
  /\ batch = 0
  /\ todo = {}
  /\ feed = CHOOSE f \in Feeds : TRUE
  /\ rows = {}
  /\ existing = EmptyTable
  /\ result = [f \in Feeds |-> "none"]
  /\ reloaded = {}

-----------------------------------------------------------------------------
(* Pure helpers.                                                           *)

\* The source_id a row is stored under: an empty id falls back to raw_hash.
StoreId(row) == IF row.id = NoId THEN row.val ELSE row.id

\* Duplicates by source_id keep the LAST occurrence.
LastWins(s) ==
  {s[i] : i \in {j \in DOMAIN s :
                   \A k \in DOMAIN s : k > j => StoreId(s[k]) # StoreId(s[j])}}

\* A table as one batch of deduplicated rows fills it.
TableOf(rs) ==
  [id \in Ids |-> IF \E r \in rs : StoreId(r) = id
                    THEN (CHOOSE r \in rs : StoreId(r) = id).val
                    ELSE Nil]

\* The row upsert_raw_rows takes for the existing one.  It looks the rows up
\* by their plain id, so a row without an id is never found.
Known(row) == IF row.id = NoId THEN Nil ELSE existing[row.id]

SetTable(db, f, t) == [db EXCEPT !.table[f] = t]

\* A statement outside a transaction is committed at once, inside it is not.
Ddl(db) ==
  /\ work' = db
  /\ disk' = IF inTxn THEN disk ELSE db
  /\ UNCHANGED inTxn

\* The first data statement opens a transaction.
Dml(db) ==
  /\ work' = db
  /\ inTxn' = TRUE
  /\ UNCHANGED disk

-----------------------------------------------------------------------------
(* run_system.                                                             *)

\* base.db() and the head of the loop over the feeds.
StartRun(m) ==
  /\ pc = "idle"
  /\ batch < MaxRuns
  /\ mode' = m
  /\ batch' = batch + 1
  /\ todo' = Feeds
  /\ pc' = "feeds"
  /\ result' = [f \in Feeds |-> "none"]
  /\ UNCHANGED <<store, feed, rows, existing, reloaded>>

\* Mutant: an empty fetch is written like any other.
WriteNothing(f) ==
  /\ pc = "feeds"
  /\ f \in todo
  /\ todo' = todo \ {f}
  /\ feed' = f
  /\ result' = [result EXCEPT ![f] = "empty"]
  /\ pc' = IF mode = "full" THEN "drop" ELSE "ensure"
  /\ UNCHANGED <<store, mode, batch, rows, existing, reloaded>>

\* strategy_fn raised, or returned nothing: the store is not touched.
FetchNothing(f) ==
  /\ pc = "feeds"
  /\ f \in todo
  /\ todo' = todo \ {f}
  /\ result' = [result EXCEPT ![f] = "empty"]
  /\ UNCHANGED <<store, pc, mode, batch, feed, rows, existing, reloaded>>

\* strategy_fn returned rows.  Both writers deduplicate them first.
FetchRows(f, s) ==
  /\ pc = "feeds"
  /\ f \in todo
  /\ s # << >>
  /\ todo' = todo \ {f}
  /\ feed' = f
  /\ rows' = LastWins(s)
  /\ pc' = IF mode = "full" THEN "drop" ELSE "ensure"
  /\ UNCHANGED <<store, mode, batch, existing, result, reloaded>>

\* create_raw_store: DROP TABLE of the live table (the _tmp table is ready).
DropTable ==
  /\ pc = "drop"
  /\ Ddl(SetTable(work, feed, Absent))
  /\ reloaded' = reloaded \cup {feed}
  /\ pc' = "rename"
  /\ UNCHANGED <<run, rows, existing, result>>

\* create_raw_store: ALTER TABLE _tmp RENAME, and the unique index.
RenameTmp ==
  /\ pc = "rename"
  /\ Ddl(SetTable(work, feed, EmptyTable))
  /\ pc' = "insert"
  /\ UNCHANGED <<run, rows, existing, result, reloaded>>

\* insert_raw_rows: one executemany.
InsertRows ==
  /\ pc = "insert"
  /\ Dml(SetTable(work, feed, TableOf(rows)))
  /\ rows' = {}
  /\ pc' = "commit"
  /\ UNCHANGED <<run, existing, result, reloaded>>

\* Mutant: the table is created anew although it is there.
RecreateTable ==
  /\ pc = "ensure"
  /\ Ddl(SetTable(work, feed, EmptyTable))
  /\ pc' = "purge"
  /\ UNCHANGED <<run, rows, existing, result, reloaded>>

\* ensure_raw_store: CREATE TABLE IF NOT EXISTS.
EnsureTable ==
  /\ pc = "ensure"
  /\ Ddl(IF work.table[feed] = Absent THEN SetTable(work, feed, EmptyTable) ELSE work)
  /\ pc' = "purge"
  /\ UNCHANGED <<run, rows, existing, result, reloaded>>

\* upsert_raw_rows: the retention DELETE, which opens the transaction and so
\* keeps other writers out, and the pre-fetch of the existing rows.
PurgeAndPrefetch ==
  /\ pc = "purge"
  /\ \E cutoff \in 1 .. batch :
       Dml([work EXCEPT !.history = {c \in @ : c.batch >= cutoff}])
  /\ existing' = work.table[feed]
  /\ pc' = "upsert"
  /\ UNCHANGED <<run, rows, result, reloaded>>

\* The content is the one stored: nothing is written.
SkipRow(row) ==
  /\ pc = "upsert"
  /\ row \in rows
  /\ Known(row) = row.val
  /\ rows' = rows \ {row}
  /\ UNCHANGED <<store, pc, run, existing, result, reloaded>>

\* Mutant: the change of a content is not logged.
NoHistory(row, old) == {}

\* Mutant: a content that becomes "no data" is not a change.
HistoryOfData(row, old) ==
  IF Clean(row.val) = Nil \/ Clean(old) = Clean(row.val) THEN {}
  ELSE {[feed |-> feed, id |-> StoreId(row), batch |-> batch,
         old |-> Clean(old), new |-> Clean(row.val)]}

\* capture_field_history: the row it writes for a content that replaces
\* another, or nothing when both are the same after cleaning.
HistoryOf(row, old) ==
  IF Clean(old) = Clean(row.val) THEN {}
  ELSE {[feed |-> feed, id |-> StoreId(row), batch |-> batch,
         old |-> Clean(old), new |-> Clean(row.val)]}

\* The content changed: the change is logged, then the row updated.
UpdateRow(row) ==
  /\ pc = "upsert"
  /\ row \in rows
  /\ Known(row) \notin {Nil, row.val}
  /\ Dml([work EXCEPT !.table[feed][StoreId(row)] = row.val,
                      !.history = @ \cup HistoryOf(row, Known(row))])
  /\ rows' = rows \ {row}
  /\ UNCHANGED <<pc, run, existing, result, reloaded>>

\* A row that was not found is inserted, if the unique index lets it in.
InsertRow(row) ==
  /\ pc = "upsert"
  /\ row \in rows
  /\ Known(row) = Nil
  /\ work.table[feed][StoreId(row)] = Nil
  /\ Dml([work EXCEPT !.table[feed][StoreId(row)] = row.val])
  /\ rows' = rows \ {row}
  /\ UNCHANGED <<pc, run, existing, result, reloaded>>

UpsertDone ==
  /\ pc = "upsert"
  /\ rows = {}
  /\ existing' = EmptyTable
  /\ pc' = "commit"
  /\ UNCHANGED <<store, run, rows, result, reloaded>>

\* conn.commit() after the feed was written: it commits whatever the
\* transaction holds.
CommitFeed ==
  /\ pc = "commit"
  /\ disk' = work
  /\ inTxn' = FALSE
  /\ pc' = "feeds"
  /\ result' = [result EXCEPT ![feed] = "written"]
  /\ UNCHANGED <<work, run, rows, existing, reloaded>>

\* The except clause around the write: it logs and goes on to the next feed
\* over the same connection, without a rollback.
Abandon(txn) ==
  /\ result' = [result EXCEPT ![feed] = "failed"]
  /\ rows' = {}
  /\ existing' = EmptyTable
  /\ pc' = "feeds"
  /\ inTxn' = txn
  /\ UNCHANGED <<disk, work, run, reloaded>>

\* Another connection has the database locked: a DDL statement fails, or the
\* first data statement does after its implicit BEGIN.
WriteBusy ==
  \/ pc \in {"drop", "rename", "ensure"} /\ Abandon(inTxn)
  \/ pc \in {"insert", "purge"} /\ Abandon(TRUE)

\* The row is taken for new but its hash id is there: UNIQUE constraint.
UniqueViolation(row) ==
  /\ pc = "upsert"
  /\ row \in rows
  /\ Known(row) = Nil
  /\ work.table[feed][StoreId(row)] # Nil
  /\ Abandon(TRUE)

\* Mutant: the transaction is forgotten but not rolled back.
DisconnectWithoutRollback ==
  /\ inTxn' = FALSE
  /\ rows' = {}
  /\ existing' = EmptyTable
  /\ pc' = "idle"
  /\ UNCHANGED <<disk, work, result, reloaded>>

\* What is left of the store when the connection goes away.
Disconnect ==
  /\ work' = disk
  /\ inTxn' = FALSE
  /\ rows' = {}
  /\ existing' = EmptyTable
  /\ pc' = "idle"
  /\ UNCHANGED <<disk, result, reloaded>>

\* conn.close() after the last feed: an open transaction is rolled back.
CloseConnection ==
  /\ pc = "feeds"
  /\ todo = {}
  /\ Disconnect
  /\ UNCHANGED run

\* The process dies between any two statements.
Crash ==
  /\ pc # "idle"
  /\ Disconnect
  /\ todo' = {}
  /\ UNCHANGED <<mode, batch, feed>>

Next ==
  \/ \E m \in Modes : StartRun(m)
  \/ \E f \in Feeds : FetchNothing(f) \/ \E s \in Batches : FetchRows(f, s)
  \/ DropTable
  \/ RenameTmp
  \/ InsertRows
  \/ EnsureTable
  \/ PurgeAndPrefetch
  \/ \E row \in rows :
       SkipRow(row) \/ UpdateRow(row) \/ InsertRow(row) \/ UniqueViolation(row)
  \/ UpsertDone
  \/ CommitFeed
  \/ WriteBusy
  \/ CloseConnection
  \/ Crash

Spec == Init /\ [][Next]_vars

-----------------------------------------------------------------------------
(* Properties.                                                             *)

Later(c, d) == c.feed = d.feed /\ c.id = d.id /\ c.batch < d.batch
Latest(history, c) == \A d \in history : ~Later(c, d)
Between(history, c, d) == {e \in history : Later(c, e) /\ Later(e, d)}

\* The changes of one record link up: what a change replaced is what the one
\* before it had put there.
Linked(history, f) ==
  \A c, d \in history :
    c.feed = f /\ Later(c, d) /\ Between(history, c, d) = {} => c.new = d.old

\* The latest change of a record put there what the table holds.
EndsAt(history, table, f) ==
  \A c \in history :
    c.feed = f /\ Latest(history, c)
      => /\ table # Absent
         /\ table[c.id] # Nil
         /\ Clean(table[c.id]) = c.new

\* The committed log of a feed that only incremental runs have written reads
\* as one chain per record that ends at the committed content, through
\* retention, failing writes whose transaction the next feed commits, and
\* crashes (base.py:296-379, runner.py:209-229).
HistoryIsChain ==
  \A f \in Feeds \ reloaded :
    Linked(disk.history, f) /\ EndsAt(disk.history, disk.table[f], f)

\* Record id of feed f is committed with content v.
Holds(db, f, id, v) == db.table[f] # Absent /\ db.table[f][id] = v

\* No incremental run changes the cleaned content of a committed record
\* without committing, in the same transaction, the change of exactly that
\* old to exactly that new content (base.py:360-369).
ChangesAreLogged ==
  [][\A f \in Feeds, id \in Ids : \A v, w \in Vals :
       /\ mode = "incremental"
       /\ Holds(disk, f, id, v) /\ Holds(disk', f, id, w)
       /\ Clean(v) # Clean(w)
       => \E c \in disk'.history \ disk.history :
            c.feed = f /\ c.id = id /\ c.old = Clean(v) /\ c.new = Clean(w)]_vars

\* An incremental run never loses a committed record, wherever it fails or
\* crashes: only full runs drop rows (base.py:142-147, ensure_raw_store).
IncrementalKeepsRecords ==
  [][\A f \in Feeds, id \in Ids : \A v \in Vals :
       mode = "incremental" /\ Holds(disk, f, id, v)
         => \E w \in Vals : Holds(disk', f, id, w)]_vars

\* A feed whose fetch failed or came back empty keeps its committed table,
\* also when the run goes on and commits its other feeds (runner.py:195-207,
\* "Don't touch existing table on transient failure").
EmptyFetchKeepsTable ==
  [][\A f \in Feeds : disk'.table[f] # disk.table[f] => result[f] # "empty"]_vars

\* run_system returns "rows written per feed. 0 on empty fetch, error"
\* (runner.py:150): once a feed is reported as failed, the run commits
\* nothing more to its table.  The code does not keep it: the rows written
\* before the error stay in the transaction that the next feed commits.
FailedFeedWritesNothing ==
  [][\A f \in Feeds : disk'.table[f] # disk.table[f] => result[f] # "failed"]_vars

\* create_raw_store "uses the same atomic tmp-swap pattern" (base.py:121): a
\* reader finds the old table or the whole new one, never none and never the
\* fresh empty one.  The code does not keep it: every statement commits.
SwapIsAtomic ==
  [][\A f \in Feeds :
       disk.table[f] # Absent /\ mode = "full"
         => disk'.table[f] \notin {Absent, EmptyTable}]_vars
=============================================================================
