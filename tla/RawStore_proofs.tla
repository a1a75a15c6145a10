--------------------------- MODULE RawStore_proofs ---------------------------
(***************************************************************************)
(* Proofs about the raw store of one system, for any feeds, ids, contents  *)
(* and number of runs.                                                     *)
(***************************************************************************)
EXTENDS RawStore, TLAPS

\* What a program point says about the kind of run and the feed it is at.
Control ==
  /\ pc = "idle" => ~inTxn
  /\ pc # "idle" => batch \in 1 .. MaxRuns
  /\ pc \in {"drop", "rename", "insert"} => mode = "full"
  /\ pc \in {"ensure", "purge", "upsert"} => mode = "incremental"
  /\ pc \in {"rename", "insert"} => feed \in reloaded
  /\ pc \notin {"idle", "feeds"} => feed \notin todo /\ result[feed] = "none"
  /\ \A f \in todo : result[f] = "none" /\ work.table[f] = disk.table[f]
  /\ \A f \in Feeds : result[f] = "empty" => work.table[f] = disk.table[f]

\* The rows still to be written: one per source_id, as in the store, which
\* nothing in this run has touched for them.
Pending ==
  /\ \A r, s \in rows : StoreId(r) = StoreId(s) => r = s
  /\ pc \in {"ensure", "purge"} => work.table[feed] = disk.table[feed]
                                   \/ disk.table[feed] = Absent
  /\ pc = "upsert" => \A r \in rows :
       /\ r.id # NoId => existing[r.id] = work.table[feed][r.id]
       /\ disk.table[feed] # Absent
            => disk.table[feed][StoreId(r)] = work.table[feed][StoreId(r)]

\* The current run has logged no change of a feed it has not visited, nor of
\* a row that is still to be written.
Settled(c) ==
  /\ c.batch <= batch
  /\ c.batch = batch => c.feed \notin todo
  /\ c.batch = batch /\ c.feed = feed =>
       /\ pc \notin {"ensure", "purge"}
       /\ pc = "upsert" => \A r \in rows : c.id # StoreId(r)

Unlogged(history) == \A c \in history : Settled(c)

ChainOf(db) ==
  \A f \in Feeds \ reloaded :
    Linked(db.history, f) /\ EndsAt(db.history, db.table[f], f)

\* What the transaction of an incremental run would commit is logged in it.
LogInv ==
  mode = "incremental" =>
    \A f \in Feeds, id \in Ids : \A v \in Vals :
      Holds(disk, f, id, v) =>
        \E w \in Vals :
          /\ Holds(work, f, id, w)
          /\ Clean(v) # Clean(w) =>
               \E c \in work.history \ disk.history :
                 /\ c.feed = f /\ c.id = id /\ c.batch = batch
                 /\ c.old = Clean(v) /\ c.new = Clean(w)

\* The inductive invariant.
IInv ==
  /\ TypeOK
  /\ Control
  /\ Pending
  /\ Unlogged(work.history) /\ Unlogged(disk.history)
  /\ ChainOf(work) /\ ChainOf(disk)
  /\ LogInv

-----------------------------------------------------------------------------
(* The operators of the model.                                             *)

LEMMA StoreIdType ==
  ASSUME NEW r \in Row
  PROVE  StoreId(r) \in Ids /\ (r.id # NoId => r.id \in Ids /\ StoreId(r) = r.id)
  BY DEF StoreId, Row, Ids

\* Deduplication returns rows of the batch, one per source_id.
LEMMA LastWinsUnique ==
  ASSUME NEW s \in Seq(Row)
  PROVE  /\ LastWins(s) \subseteq Row
         /\ \A q, r \in LastWins(s) : StoreId(q) = StoreId(r) => q = r
<1>1. LastWins(s) \subseteq Row
  BY DEF LastWins
<1>2. ASSUME NEW q \in LastWins(s), NEW r \in LastWins(s), StoreId(q) = StoreId(r)
      PROVE  q = r
  <2>1. PICK i \in DOMAIN s : q = s[i] /\ \A k \in DOMAIN s : k > i => StoreId(s[k]) # StoreId(s[i])
    BY DEF LastWins
  <2>2. PICK j \in DOMAIN s : r = s[j] /\ \A k \in DOMAIN s : k > j => StoreId(s[k]) # StoreId(s[j])
    BY DEF LastWins
  <2>3. i \in Nat /\ j \in Nat /\ ~(j > i) /\ ~(i > j)
    BY <1>2, <2>1, <2>2
  <2> QED
    BY <2>1, <2>2, <2>3
<1> QED
  BY <1>1, <1>2

LEMMA TableOfType ==
  ASSUME NEW rs \in SUBSET Row
  PROVE  TableOf(rs) \in Tables
<1> SUFFICES ASSUME NEW id \in Ids, \E r \in rs : StoreId(r) = id
             PROVE  (CHOOSE r \in rs : StoreId(r) = id).val \in Vals
  BY DEF TableOf, Tables
<1>1. (CHOOSE r \in rs : StoreId(r) = id) \in rs
  OBVIOUS
<1> QED
  BY <1>1 DEF Row

LEMMA SetTableFacts ==
  ASSUME NEW db \in Store, NEW f \in Feeds, NEW t \in Tables \cup {Absent}
  PROVE  /\ SetTable(db, f, t) \in Store
         /\ SetTable(db, f, t).history = db.history
         /\ SetTable(db, f, t).table = [db.table EXCEPT ![f] = t]
  BY DEF SetTable, Store

LEMMA EmptyTableType == EmptyTable \in Tables /\ EmptyTable # Absent
  BY ConstantsAssumption DEF EmptyTable, Tables

LEMMA CleanType == \A v \in Vals \cup {Nil} : Clean(v) \in Vals \cup {Nil}
  BY DEF Clean

\* A statement that gives the table of the current feed the value t.
LEMMA DdlFacts ==
  ASSUME TypeOK, NEW t \in Tables \cup {Absent}, Ddl(SetTable(work, feed, t))
  PROVE  /\ work' \in Store /\ disk' \in Store
         /\ inTxn' = inTxn
         /\ inTxn => disk' = disk
         /\ ~inTxn => disk' = work'
         /\ work'.history = work.history /\ disk'.history = disk.history
         /\ work'.table = [work.table EXCEPT ![feed] = t]
         /\ work'.table[feed] = t
         /\ \A f \in Feeds \ {feed} :
              work'.table[f] = work.table[f] /\ disk'.table[f] = disk.table[f]
<1>1. work \in Store /\ disk \in Store /\ feed \in Feeds /\ (~inTxn => work = disk)
  BY DEF TypeOK
<1>2. /\ work' = SetTable(work, feed, t)
      /\ inTxn' = inTxn
      /\ inTxn => disk' = disk
      /\ ~inTxn => disk' = work'
  BY DEF Ddl
<1>3. /\ work' \in Store
      /\ work'.history = work.history
      /\ work'.table = [work.table EXCEPT ![feed] = t]
  BY <1>1, <1>2, SetTableFacts
<1>4. work.table \in [Feeds -> Tables \cup {Absent}]
  BY <1>1 DEF Store
<1>5. work'.table[feed] = t /\ \A f \in Feeds \ {feed} : work'.table[f] = work.table[f]
  BY <1>1, <1>3, <1>4
<1> QED
  BY <1>1, <1>2, <1>3, <1>5

\* Replacing the table of a feed, inside a transaction.
LEMMA InsertRowsFacts ==
  ASSUME TypeOK, InsertRows
  PROVE  /\ work' \in Store /\ disk' = disk /\ inTxn' = TRUE
         /\ work'.history = work.history
         /\ work'.table[feed] # Absent
         /\ \A f \in Feeds \ {feed} : work'.table[f] = work.table[f]
<1>1. work \in Store /\ feed \in Feeds /\ TableOf(rows) \in Tables
  BY TableOfType DEF TypeOK
<1>2. work' = SetTable(work, feed, TableOf(rows)) /\ disk' = disk /\ inTxn' = TRUE
  BY DEF InsertRows, Dml
<1>3. /\ work' \in Store
      /\ work'.history = work.history
      /\ work'.table = [work.table EXCEPT ![feed] = TableOf(rows)]
  BY <1>1, <1>2, SetTableFacts
<1>4. work.table \in [Feeds -> Tables \cup {Absent}]
  BY <1>1 DEF Store
<1>5. TableOf(rows) # Absent
  BY <1>1, ConstantsAssumption DEF Tables
<1> QED
  BY <1>1, <1>2, <1>3, <1>4, <1>5

LEMMA PurgeFacts ==
  ASSUME TypeOK, PurgeAndPrefetch
  PROVE  /\ work' \in Store /\ disk' = disk /\ inTxn' = TRUE
         /\ work'.table = work.table
         /\ existing' = work.table[feed] /\ existing' \in Tables
         /\ \E cutoff \in 1 .. batch :
              work'.history = {c \in work.history : c.batch >= cutoff}
<1>1. work \in Store /\ feed \in Feeds /\ work.table[feed] # Absent
  BY DEF TypeOK, PurgeAndPrefetch
<1>2. PICK cutoff \in 1 .. batch :
        Dml([work EXCEPT !.history = {c \in @ : c.batch >= cutoff}])
  BY DEF PurgeAndPrefetch
<1>3. /\ work' \in Store
      /\ work'.table = work.table
      /\ work'.history = {c \in work.history : c.batch >= cutoff}
  BY <1>1, <1>2 DEF Dml, Store
<1>4. work.table[feed] \in Tables
  BY <1>1 DEF Store
<1> QED
  BY <1>2, <1>3, <1>4 DEF PurgeAndPrefetch, Dml

\* Writing a row of a batch touches that row of the table only.
LEMMA UpdateRowFacts ==
  ASSUME TypeOK, Control, NEW row \in rows, UpdateRow(row) \/ InsertRow(row)
  PROVE  /\ work' \in Store /\ disk' = disk /\ inTxn' = TRUE
         /\ StoreId(row) \in Ids /\ row.val \in Vals
         /\ work.table[feed] \in Tables
         /\ work'.table = [work.table EXCEPT ![feed] = [@ EXCEPT ![StoreId(row)] = row.val]]
         /\ work'.table[feed] # Absent
         /\ work'.table[feed][StoreId(row)] = row.val
         /\ \A id \in Ids \ {StoreId(row)} : work'.table[feed][id] = work.table[feed][id]
         /\ \A f \in Feeds \ {feed} : work'.table[f] = work.table[f]
         /\ work'.history = work.history \cup
              (IF UpdateRow(row) THEN HistoryOf(row, Known(row)) ELSE {})
<1> DEFINE h == HistoryOf(row, Known(row))
<1>1. work \in Store /\ feed \in Feeds /\ row \in Row /\ pc = "upsert"
  BY DEF TypeOK, UpdateRow, InsertRow
<1>2. work.table[feed] \in Tables /\ work.table[feed] # Absent
      /\ work.table \in [Feeds -> Tables \cup {Absent}]
  BY <1>1 DEF TypeOK, Store
<1>3. StoreId(row) \in Ids /\ row.val \in Vals /\ Known(row) \in Vals \cup {Nil}
  BY <1>1, StoreIdType DEF Row, Known, TypeOK, Tables
<1>4. h \in SUBSET Change
  <2>1. batch \in 1 .. MaxRuns
    BY <1>1 DEF Control
  <2> QED
    BY <1>1, <1>3, <2>1, CleanType DEF HistoryOf, Change
<1>5. /\ disk' = disk /\ inTxn' = TRUE
      /\ work' = [table |-> work'.table, history |-> work'.history]
      /\ work'.table = [work.table EXCEPT ![feed] = [@ EXCEPT ![StoreId(row)] = row.val]]
      /\ work'.history = work.history \cup (IF UpdateRow(row) THEN h ELSE {})
  <2>1. CASE UpdateRow(row)
    <3>1. /\ work' = [work EXCEPT !.table[feed][StoreId(row)] = row.val, !.history = @ \cup h]
          /\ disk' = disk /\ inTxn' = TRUE
      BY <2>1 DEF UpdateRow, Dml
    <3> QED
      BY <1>1, <2>1, <3>1 DEF Store
  <2>2. CASE ~UpdateRow(row)
    <3>1. /\ work' = [work EXCEPT !.table[feed][StoreId(row)] = row.val]
          /\ disk' = disk /\ inTxn' = TRUE
      BY <2>2 DEF InsertRow, Dml
    <3> QED
      BY <1>1, <2>2, <3>1 DEF Store
  <2> QED
    BY <2>1, <2>2
<1>6. [work.table[feed] EXCEPT ![StoreId(row)] = row.val] \in Tables
  BY <1>2, <1>3 DEF Tables
<1>7. /\ work'.table[feed] = [work.table[feed] EXCEPT ![StoreId(row)] = row.val]
      /\ \A f \in Feeds \ {feed} : work'.table[f] = work.table[f]
  BY <1>1, <1>2, <1>5
<1>8. /\ work'.table[feed] # Absent
      /\ work'.table[feed][StoreId(row)] = row.val
      /\ \A id \in Ids \ {StoreId(row)} : work'.table[feed][id] = work.table[feed][id]
  BY <1>2, <1>3, <1>6, <1>7, ConstantsAssumption DEF Tables
<1>9. work' \in Store
  <2>1. work'.table \in [Feeds -> Tables \cup {Absent}]
    BY <1>1, <1>2, <1>5, <1>6
  <2>2. work'.history \in SUBSET Change
    BY <1>1, <1>4, <1>5 DEF Store
  <2> QED
    BY <1>5, <2>1, <2>2 DEF Store
<1> QED
  BY <1>2, <1>3, <1>5, <1>7, <1>8, <1>9

-----------------------------------------------------------------------------
(* Types and control.                                                      *)

LEMMA InitIInv == Init => IInv
<1> SUFFICES ASSUME Init PROVE IInv
  OBVIOUS
<1> USE DEF Init
<1>1. disk \in Store /\ work \in Store /\ disk.history = {} /\ work = disk
      /\ \A f \in Feeds : disk.table[f] = Absent
  BY DEF Store
<1>2. TypeOK
  <2>1. feed \in Feeds
    BY FeedsAssumption
  <2>2. batch \in 0 .. MaxRuns
    BY ConstantsAssumption
  <2> QED
    BY <1>1, <2>1, <2>2, EmptyTableType DEF TypeOK, Points, Results
<1>3. Control /\ Pending
  BY <1>1, EmptyTableType DEF Control, Pending
<1>4. Unlogged(work.history) /\ Unlogged(disk.history)
  BY <1>1 DEF Unlogged
<1>5. ChainOf(work) /\ ChainOf(disk)
  BY <1>1 DEF ChainOf, Linked, EndsAt
<1>6. LogInv
  BY <1>1 DEF LogInv
<1> QED
  BY <1>2, <1>3, <1>4, <1>5, <1>6 DEF IInv

\* A statement on the table of the current feed leaves the others alone.
LEMMA OthersUntouched ==
  ASSUME TypeOK, Control, pc \notin {"idle", "feeds"},
         \A f \in Feeds \ {feed} :
           work'.table[f] = work.table[f] /\ disk'.table[f] = disk.table[f],
         UNCHANGED <<todo, result>>
  PROVE  /\ \A f \in todo' : result'[f] = "none" /\ work'.table[f] = disk'.table[f]
         /\ \A f \in Feeds : result'[f] = "empty" => work'.table[f] = disk'.table[f]
<1>1. feed \notin todo /\ result[feed] = "none" /\ todo \subseteq Feeds
  BY DEF Control, TypeOK
<1> QED
  BY <1>1 DEF Control

\* Every step keeps the types and what the program points say.
LEMMA TypeStep == IInv /\ [Next]_vars => TypeOK' /\ Control'
<1> SUFFICES ASSUME TypeOK, Control, [Next]_vars PROVE TypeOK' /\ Control'
  BY DEF IInv
<1> USE ConstantsAssumption, EmptyTableType DEF TypeOK, Control, Points, Results
<1>0. /\ disk.table \in [Feeds -> Tables \cup {Absent}]
      /\ work.table \in [Feeds -> Tables \cup {Absent}]
      /\ work.history \subseteq Change
  BY DEF Store
<1>1. ASSUME NEW m \in Modes, StartRun(m) PROVE TypeOK' /\ Control'
  BY <1>1 DEF StartRun, store
<1>2. ASSUME NEW f \in Feeds, FetchNothing(f) PROVE TypeOK' /\ Control'
  BY <1>2 DEF FetchNothing, store
<1>3. ASSUME NEW f \in Feeds, NEW s \in Batches, FetchRows(f, s) PROVE TypeOK' /\ Control'
  BY <1>3, LastWinsUnique DEF FetchRows, store
<1>4. CASE DropTable
  <2>1. Ddl(SetTable(work, feed, Absent)) /\ pc = "drop" /\ pc' = "rename"
        /\ reloaded' = reloaded \cup {feed} /\ UNCHANGED <<run, rows, existing, result>>
    BY <1>4 DEF DropTable
  <2>2. TypeOK'
    BY <2>1, DdlFacts DEF run
  <2>3. Control'
    BY <2>1, DdlFacts, OthersUntouched DEF run
  <2> QED
    BY <2>2, <2>3
<1>5. CASE RenameTmp
  <2>1. Ddl(SetTable(work, feed, EmptyTable)) /\ pc = "rename" /\ pc' = "insert"
        /\ UNCHANGED <<run, rows, existing, result, reloaded>>
    BY <1>5 DEF RenameTmp
  <2>2. TypeOK'
    BY <2>1, DdlFacts DEF run
  <2>3. Control'
    BY <2>1, DdlFacts, OthersUntouched DEF run
  <2> QED
    BY <2>2, <2>3
<1>6. CASE InsertRows
  BY <1>6, InsertRowsFacts DEF InsertRows, run
<1>7. CASE EnsureTable
  <2>1. CASE work.table[feed] = Absent
    <3>1. Ddl(SetTable(work, feed, EmptyTable)) /\ pc = "ensure" /\ pc' = "purge"
          /\ UNCHANGED <<run, rows, existing, result, reloaded>>
      BY <1>7, <2>1 DEF EnsureTable
    <3>2. TypeOK'
      BY <3>1, DdlFacts DEF run
    <3>3. Control'
      BY <3>1, DdlFacts, OthersUntouched DEF run
    <3> QED
      BY <3>2, <3>3
  <2>2. CASE work.table[feed] # Absent
    BY <1>7, <2>2 DEF EnsureTable, run, Ddl
  <2> QED
    BY <2>1, <2>2
<1>8. CASE PurgeAndPrefetch
  BY <1>8, PurgeFacts DEF PurgeAndPrefetch, run
<1>9. ASSUME NEW row \in rows, SkipRow(row) PROVE TypeOK' /\ Control'
  BY <1>9 DEF SkipRow, run, store
<1>10. ASSUME NEW row \in rows, UpdateRow(row) PROVE TypeOK' /\ Control'
  BY <1>10, UpdateRowFacts DEF UpdateRow, run
<1>11. ASSUME NEW row \in rows, InsertRow(row) PROVE TypeOK' /\ Control'
  BY <1>11, UpdateRowFacts DEF InsertRow, run
<1>12. ASSUME NEW row \in rows, UniqueViolation(row) PROVE TypeOK' /\ Control'
  BY <1>12 DEF UniqueViolation, Abandon, run
<1>13. CASE UpsertDone
  BY <1>13 DEF UpsertDone, run, store
<1>14. CASE CommitFeed
  BY <1>14 DEF CommitFeed, run
<1>15. CASE WriteBusy
  BY <1>15 DEF WriteBusy, Abandon, run
<1>16. CASE CloseConnection \/ Crash
  BY <1>16 DEF CloseConnection, Crash, Disconnect, run
<1>17. CASE UNCHANGED vars
  BY <1>17 DEF vars
<1> QED
  BY <1>1, <1>2, <1>3, <1>4, <1>5, <1>6, <1>7, <1>8, <1>9, <1>10, <1>11, <1>12,
     <1>13, <1>14, <1>15, <1>16, <1>17 DEF Next

-----------------------------------------------------------------------------
(* The rows still to be written.                                           *)

LEMMA PendingStep == IInv /\ [Next]_vars => Pending'
<1> SUFFICES ASSUME IInv, [Next]_vars PROVE Pending'
  OBVIOUS
<1> USE DEF Pending
<1>0. TypeOK /\ Control /\ Pending /\ rows \subseteq Row
  BY DEF IInv, TypeOK
<1>1. ASSUME NEW m \in Modes, StartRun(m) PROVE Pending'
  BY <1>0, <1>1 DEF StartRun, store
<1>2. ASSUME NEW f \in Feeds, FetchNothing(f) PROVE Pending'
  BY <1>0, <1>2 DEF FetchNothing, store
<1>3. ASSUME NEW f \in Feeds, NEW s \in Batches, FetchRows(f, s) PROVE Pending'
  <2>1. s \in Seq(Row)
    BY ConstantsAssumption
  <2> QED
    BY <1>0, <1>3, <2>1, LastWinsUnique DEF FetchRows, store, Control
<1>4. CASE DropTable \/ RenameTmp \/ InsertRows
  BY <1>0, <1>4 DEF DropTable, RenameTmp, InsertRows, run
<1>5. CASE EnsureTable
  <2>1. CASE work.table[feed] = Absent
    <3>1. Ddl(SetTable(work, feed, EmptyTable)) /\ pc = "ensure" /\ pc' = "purge"
          /\ UNCHANGED <<run, rows, existing>>
      BY <1>5, <2>1 DEF EnsureTable
    <3>2. work'.table[feed] = EmptyTable
          /\ (inTxn => disk' = disk) /\ (~inTxn => disk' = work')
      BY <1>0, <3>1, DdlFacts, EmptyTableType
    <3> QED
      BY <1>0, <2>1, <3>1, <3>2 DEF run
  <2>2. CASE work.table[feed] # Absent
    BY <1>0, <1>5, <2>2 DEF EnsureTable, run, Ddl, TypeOK
  <2> QED
    BY <2>1, <2>2
<1>6. CASE PurgeAndPrefetch
  BY <1>0, <1>6, PurgeFacts, StoreIdType DEF PurgeAndPrefetch, run
<1>7. ASSUME NEW row \in rows, SkipRow(row) PROVE Pending'
  BY <1>0, <1>7 DEF SkipRow, run, store
<1>8. ASSUME NEW row \in rows, UpdateRow(row) \/ InsertRow(row) PROVE Pending'
  <2>1. /\ rows' = rows \ {row} /\ pc = "upsert" /\ pc' = pc
        /\ UNCHANGED <<run, existing>>
    BY <1>8 DEF UpdateRow, InsertRow
  <2>2. /\ disk' = disk
        /\ \A id \in Ids \ {StoreId(row)} : work'.table[feed][id] = work.table[feed][id]
    BY <1>0, <1>8, UpdateRowFacts
  <2>3. ASSUME NEW r \in rows'
        PROVE  /\ StoreId(r) \in Ids \ {StoreId(row)}
               /\ r.id # NoId => r.id = StoreId(r)
    BY <1>0, <2>1, StoreIdType
  <2> QED
    BY <1>0, <2>1, <2>2, <2>3 DEF run
<1>9. ASSUME NEW row \in rows, UniqueViolation(row) PROVE Pending'
  BY <1>9 DEF UniqueViolation, Abandon
<1>10. CASE UpsertDone \/ CommitFeed
  BY <1>0, <1>10 DEF UpsertDone, CommitFeed, run, store
<1>11. CASE WriteBusy
  BY <1>11 DEF WriteBusy, Abandon
<1>12. CASE CloseConnection \/ Crash
  BY <1>12 DEF CloseConnection, Crash, Disconnect
<1>13. CASE UNCHANGED vars
  BY <1>0, <1>13 DEF vars
<1> QED
  BY <1>1, <1>2, <1>3, <1>4, <1>5, <1>6, <1>7, <1>8, <1>9, <1>10, <1>11, <1>12,
     <1>13 DEF Next

-----------------------------------------------------------------------------
(* The log of the current run.                                             *)

\* A change in the log stays settled.
LEMMA SettledStep ==
  ASSUME IInv, [Next]_vars, NEW c \in Change, Settled(c)
  PROVE  Settled(c)'
<1> USE DEF Settled
<1>0. TypeOK /\ Control /\ batch \in Nat /\ c.batch \in Nat /\ feed \in Feeds
  BY ConstantsAssumption DEF IInv, TypeOK, Change
<1>1. ASSUME NEW m \in Modes, StartRun(m) PROVE Settled(c)'
  BY <1>0, <1>1 DEF StartRun, store
<1>2. ASSUME NEW f \in Feeds, FetchNothing(f) PROVE Settled(c)'
  BY <1>0, <1>2 DEF FetchNothing, store
<1>3. ASSUME NEW f \in Feeds, NEW s \in Batches, FetchRows(f, s) PROVE Settled(c)'
  BY <1>0, <1>3 DEF FetchRows, store
<1>4. CASE DropTable \/ RenameTmp \/ InsertRows \/ EnsureTable \/ PurgeAndPrefetch
  BY <1>0, <1>4 DEF DropTable, RenameTmp, InsertRows, EnsureTable, PurgeAndPrefetch, run
<1>5. ASSUME NEW row \in rows, SkipRow(row) \/ UpdateRow(row) \/ InsertRow(row)
      PROVE  Settled(c)'
  BY <1>0, <1>5 DEF SkipRow, UpdateRow, InsertRow, run
<1>6. ASSUME NEW row \in rows, UniqueViolation(row) PROVE Settled(c)'
  BY <1>0, <1>6 DEF UniqueViolation, Abandon, run
<1>7. CASE UpsertDone \/ CommitFeed
  BY <1>0, <1>7 DEF UpsertDone, CommitFeed, run
<1>8. CASE WriteBusy
  BY <1>0, <1>8 DEF WriteBusy, Abandon, run
<1>9. CASE CloseConnection \/ Crash
  BY <1>0, <1>9 DEF CloseConnection, Crash, Disconnect, run
<1>10. CASE UNCHANGED vars
  BY <1>10 DEF vars
<1> QED
  BY <1>1, <1>2, <1>3, <1>4, <1>5, <1>6, <1>7, <1>8, <1>9, <1>10 DEF Next

\* Only UpdateRow adds to the log; the disk only takes it over.
LEMMA LogGrowth ==
  ASSUME IInv, [Next]_vars
  PROVE  /\ \/ work'.history \subseteq work.history
            \/ work'.history = disk.history
            \/ \E row \in rows :
                 UpdateRow(row) /\ work'.history = work.history \cup HistoryOf(row, Known(row))
         /\ disk'.history \in {disk.history, work.history}
<1>0. TypeOK /\ Control /\ work.history \subseteq Change
  BY DEF IInv, TypeOK, Store
<1>1. CASE UNCHANGED store
  BY <1>1 DEF store
<1>2. CASE DropTable
  BY <1>0, <1>2, DdlFacts DEF DropTable
<1>3. CASE RenameTmp
  BY <1>0, <1>3, DdlFacts, EmptyTableType DEF RenameTmp
<1>4. CASE EnsureTable
  <2>1. CASE work.table[feed] = Absent
    BY <1>0, <1>4, <2>1, DdlFacts, EmptyTableType DEF EnsureTable
  <2>2. CASE work.table[feed] # Absent
    BY <1>0, <1>4, <2>2 DEF EnsureTable, Ddl, TypeOK
  <2> QED
    BY <2>1, <2>2
<1>5. CASE InsertRows
  BY <1>0, <1>5, InsertRowsFacts
<1>6. CASE PurgeAndPrefetch
  BY <1>0, <1>6, PurgeFacts
<1>7. ASSUME NEW row \in rows, UpdateRow(row) PROVE work'.history = work.history \cup HistoryOf(row, Known(row)) /\ disk' = disk
  BY <1>0, <1>7, UpdateRowFacts
<1>8. ASSUME NEW row \in rows, InsertRow(row) PROVE work'.history = work.history /\ disk' = disk
  <2>1. ~UpdateRow(row)
    BY <1>8 DEF InsertRow, UpdateRow
  <2> QED
    BY <1>0, <1>8, <2>1, UpdateRowFacts
<1>9. CASE CommitFeed \/ WriteBusy \/ CloseConnection \/ Crash
  BY <1>9 DEF CommitFeed, WriteBusy, Abandon, CloseConnection, Crash, Disconnect
<1>10. ASSUME NEW row \in rows, UniqueViolation(row) PROVE UNCHANGED <<disk, work>>
  BY <1>10 DEF UniqueViolation, Abandon
<1>11. ASSUME ~UNCHANGED store,
              ~(DropTable \/ RenameTmp \/ EnsureTable \/ InsertRows \/ PurgeAndPrefetch),
              ~(CommitFeed \/ WriteBusy \/ CloseConnection \/ Crash)
       PROVE  \E row \in rows : UpdateRow(row) \/ InsertRow(row) \/ UniqueViolation(row)
  BY <1>11 DEF Next, vars, store, StartRun, FetchNothing, FetchRows, SkipRow, UpsertDone
<1> QED
  BY <1>1, <1>2, <1>3, <1>4, <1>5, <1>6, <1>7, <1>8, <1>9, <1>10, <1>11

LEMMA UnloggedStep ==
  IInv /\ [Next]_vars => Unlogged(work.history)' /\ Unlogged(disk.history)'
<1> SUFFICES ASSUME IInv, [Next]_vars
             PROVE  Unlogged(work.history)' /\ Unlogged(disk.history)'
  OBVIOUS
<1>1. /\ work.history \subseteq Change /\ disk.history \subseteq Change
      /\ \A c \in work.history \cup disk.history : Settled(c)
  BY DEF IInv, TypeOK, Store, Unlogged
<1>2. \A c \in work.history \cup disk.history : Settled(c)'
  BY <1>1, SettledStep
<1>3. ASSUME NEW row \in rows, UpdateRow(row), NEW c \in HistoryOf(row, Known(row))
      PROVE  Settled(c)'
  <2>1. c.batch = batch /\ c.feed = feed /\ c.id = StoreId(row)
    BY <1>3 DEF HistoryOf
  <2>2. pc = "upsert" /\ feed \notin todo /\ rows' = rows \ {row}
        /\ UNCHANGED <<pc, run>> /\ batch \in Nat
    BY <1>3, ConstantsAssumption DEF IInv, TypeOK, Control, UpdateRow
  <2>3. \A r \in rows' : StoreId(r) # StoreId(row)
    BY <1>3, <2>2 DEF IInv, Pending
  <2> QED
    BY <2>1, <2>2, <2>3 DEF Settled, run
<1> QED
  BY <1>1, <1>2, <1>3, LogGrowth DEF Unlogged

-----------------------------------------------------------------------------
(* The chain of changes.                                                   *)

\* Retention drops the oldest changes only, which breaks no chain.
LEMMA PurgeKeepsChain ==
  ASSUME NEW h \in SUBSET Change, NEW t, NEW f \in Feeds, NEW cutoff \in Nat,
         Linked(h, f), EndsAt(h, t, f)
  PROVE  /\ Linked({c \in h : c.batch >= cutoff}, f)
         /\ EndsAt({c \in h : c.batch >= cutoff}, t, f)
<1> DEFINE g == {c \in h : c.batch >= cutoff}
<1>1. \A c \in h : c.batch \in Nat
  BY DEF Change
<1>2. ASSUME NEW c \in g, NEW d \in h, Later(c, d) PROVE d \in g
  BY <1>1, <1>2 DEF Later
<1>3. ASSUME NEW c \in g, NEW d \in g, c.feed = f, Later(c, d), Between(g, c, d) = {}
      PROVE  c.new = d.old
  <2>1. Between(h, c, d) = {}
    BY <1>2, <1>3 DEF Between
  <2> QED
    BY <1>3, <2>1 DEF Linked
<1>4. ASSUME NEW c \in g, c.feed = f, Latest(g, c)
      PROVE  t # Absent /\ t[c.id] # Nil /\ Clean(t[c.id]) = c.new
  <2>1. Latest(h, c)
    BY <1>2, <1>4 DEF Latest
  <2> QED
    BY <1>4, <2>1 DEF EndsAt
<1> QED
  BY <1>3, <1>4 DEF Linked, EndsAt

\* A change n that is later than all others of its record, and starts from
\* the content of the table, prolongs the chain.
LEMMA ChangeProlongsChain ==
  ASSUME NEW h \in SUBSET Change, NEW t \in Tables, NEW t2 \in Tables,
         NEW f \in Feeds, NEW n \in Change,
         Linked(h, f), EndsAt(h, t, f),
         n.feed = f,
         \A c \in h : c.feed = f /\ c.id = n.id => c.batch < n.batch,
         Clean(t[n.id]) = n.old,
         t2[n.id] # Nil, Clean(t2[n.id]) = n.new,
         \A id \in Ids \ {n.id} : t2[id] = t[id]
  PROVE  Linked(h \cup {n}, f) /\ EndsAt(h \cup {n}, t2, f)
<1> DEFINE g == h \cup {n}
<1>1. /\ n.batch \in Nat /\ \A c \in h : c.batch \in Nat /\ c.id \in Ids
      /\ t2 # Absent
  BY ConstantsAssumption DEF Change, Tables
<1>2. \A d \in g : ~Later(n, d)
  BY <1>1 DEF Later
<1>3. ASSUME NEW c \in g, NEW d \in g, c.feed = f, Later(c, d), Between(g, c, d) = {}
      PROVE  c.new = d.old
  <2>1. c \in h
    BY <1>2, <1>3
  <2>2. CASE d \in h
    <3>1. Between(h, c, d) = {}
      BY <1>3 DEF Between
    <3> QED
      BY <1>3, <2>1, <2>2, <3>1 DEF Linked
  <2>3. CASE d = n
    <3>1. ASSUME NEW e \in h, Later(c, e) PROVE FALSE
      BY <1>3, <2>3, <3>1 DEF Later, Between
    <3>2. Latest(h, c)
      BY <3>1 DEF Latest
    <3>3. Clean(t[c.id]) = c.new /\ c.id = n.id
      BY <1>3, <2>1, <2>3, <3>2 DEF EndsAt, Later
    <3> QED
      BY <2>3, <3>3
  <2> QED
    BY <2>2, <2>3
<1>4. ASSUME NEW c \in g, c.feed = f, Latest(g, c)
      PROVE  t2 # Absent /\ t2[c.id] # Nil /\ Clean(t2[c.id]) = c.new
  <2>1. CASE c = n
    BY <1>1, <2>1
  <2>2. CASE c # n
    <3>1. c \in h /\ Latest(h, c) /\ ~Later(c, n)
      BY <1>4, <2>2 DEF Latest
    <3>2. c.id # n.id
      BY <1>4, <3>1 DEF Later
    <3> QED
      BY <1>1, <1>4, <3>1, <3>2 DEF EndsAt
  <2> QED
    BY <2>1, <2>2
<1> QED
  BY <1>3, <1>4 DEF Linked, EndsAt

\* What a step can do to the committed store: nothing, take the transaction
\* over, or the effect of one statement outside a transaction.
LEMMA DiskStep ==
  ASSUME IInv, [Next]_vars
  PROVE  /\ \/ disk' = disk
            \/ CommitFeed /\ disk' = work
            \/ ~inTxn /\ disk' = work' /\ (DropTable \/ RenameTmp \/ EnsureTable)
         /\ reloaded \subseteq reloaded'
<1>1. CASE DropTable \/ RenameTmp \/ EnsureTable
  BY <1>1 DEF DropTable, RenameTmp, EnsureTable, Ddl
<1>2. CASE InsertRows \/ PurgeAndPrefetch
  BY <1>2 DEF InsertRows, PurgeAndPrefetch, Dml
<1>3. ASSUME NEW row \in rows,
             SkipRow(row) \/ UpdateRow(row) \/ InsertRow(row) \/ UniqueViolation(row)
      PROVE  disk' = disk /\ reloaded' = reloaded
  BY <1>3 DEF SkipRow, UpdateRow, InsertRow, UniqueViolation, Abandon, Dml, store
<1>4. CASE CommitFeed
  BY <1>4 DEF CommitFeed
<1>5. CASE WriteBusy \/ CloseConnection \/ Crash
  BY <1>5 DEF WriteBusy, Abandon, CloseConnection, Crash, Disconnect
<1>6. CASE UpsertDone \/ UNCHANGED vars
  BY <1>6 DEF UpsertDone, store, vars
<1>7. ASSUME NEW m \in Modes, StartRun(m) PROVE disk' = disk /\ reloaded' = reloaded
  BY <1>7 DEF StartRun, store
<1>8. ASSUME NEW f \in Feeds, FetchNothing(f) \/ \E s \in Batches : FetchRows(f, s)
      PROVE  disk' = disk /\ reloaded' = reloaded
  BY <1>8 DEF FetchNothing, FetchRows, store
<1> QED
  BY <1>1, <1>2, <1>3, <1>4, <1>5, <1>6, <1>7, <1>8 DEF Next

LEMMA ChainStep == IInv /\ [Next]_vars => ChainOf(work)' /\ ChainOf(disk)'
<1> SUFFICES ASSUME IInv, [Next]_vars PROVE ChainOf(work)' /\ ChainOf(disk)'
  OBVIOUS
<1>0. /\ TypeOK /\ Control /\ ChainOf(work) /\ ChainOf(disk)
      /\ work.history \subseteq Change /\ feed \in Feeds
      /\ work.table \in [Feeds -> Tables \cup {Absent}]
      /\ reloaded \subseteq reloaded'
  BY DiskStep DEF IInv, TypeOK, Store
<1>1. ASSUME work' \in {work, disk} PROVE ChainOf(work)'
  BY <1>0, <1>1 DEF ChainOf
<1>2. ASSUME work'.history = work.history, feed \in reloaded',
             \A f \in Feeds \ {feed} : work'.table[f] = work.table[f]
      PROVE  ChainOf(work)'
  BY <1>0, <1>2 DEF ChainOf
<1>3. ASSUME DropTable \/ RenameTmp \/ InsertRows PROVE ChainOf(work)'
  <2>1. feed \in reloaded'
    BY <1>0, <1>3 DEF DropTable, RenameTmp, InsertRows, Control
  <2>2. /\ work'.history = work.history
        /\ \A f \in Feeds \ {feed} : work'.table[f] = work.table[f]
    BY <1>0, <1>3, DdlFacts, InsertRowsFacts, EmptyTableType DEF DropTable, RenameTmp
  <2> QED
    BY <1>2, <2>1, <2>2
<1>4. ASSUME EnsureTable PROVE ChainOf(work)'
  <2>1. CASE work.table[feed] = Absent
    <3>1. /\ work'.history = work.history /\ work'.table[feed] = EmptyTable
          /\ \A f \in Feeds \ {feed} : work'.table[f] = work.table[f]
      BY <1>0, <1>4, <2>1, DdlFacts, EmptyTableType DEF EnsureTable
    <3>2. ASSUME NEW f \in Feeds \ reloaded
          PROVE  Linked(work'.history, f) /\ EndsAt(work'.history, work'.table[f], f)
      BY <1>0, <2>1, <3>1, <3>2 DEF ChainOf, EndsAt
    <3> QED
      BY <1>0, <3>2 DEF ChainOf
  <2>2. CASE work.table[feed] # Absent
    BY <1>1, <1>4, <2>2 DEF EnsureTable, Ddl
  <2> QED
    BY <2>1, <2>2
<1>5. ASSUME PurgeAndPrefetch PROVE ChainOf(work)'
  <2>1. PICK cutoff \in Nat : work'.history = {c \in work.history : c.batch >= cutoff}
    BY <1>0, <1>5, PurgeFacts
  <2>2. work'.table = work.table
    BY <1>0, <1>5, PurgeFacts
  <2>3. ASSUME NEW f \in Feeds \ reloaded
        PROVE  Linked(work'.history, f) /\ EndsAt(work'.history, work'.table[f], f)
    <3>1. Linked(work.history, f) /\ EndsAt(work.history, work.table[f], f)
      BY <1>0, <2>3 DEF ChainOf
    <3>2. /\ Linked({c \in work.history : c.batch >= cutoff}, f)
          /\ EndsAt({c \in work.history : c.batch >= cutoff}, work.table[f], f)
      BY <1>0, <3>1, PurgeKeepsChain
    <3> QED
      BY <2>1, <2>2, <3>2
  <2> QED
    BY <1>0, <2>3 DEF ChainOf
<1>6. ASSUME NEW row \in rows, UpdateRow(row) PROVE ChainOf(work)'
  <2> DEFINE id == StoreId(row)
             t  == work.table[feed]
             t2 == work'.table[feed]
             h  == work.history
  <2>1. /\ row \in Row /\ row.id # NoId /\ id = row.id /\ pc = "upsert"
        /\ Known(row) = t[id] /\ Known(row) \in Vals /\ row.val \in Vals
    <3>1. /\ row \in Row /\ pc = "upsert" /\ Known(row) # Nil
          /\ existing \in Tables
      BY <1>0, <1>6 DEF UpdateRow, TypeOK
    <3>2. row.id # NoId /\ Known(row) = existing[row.id]
      BY <3>1 DEF Known
    <3>3. existing[row.id] = t[row.id]
      BY <1>6, <3>1, <3>2 DEF IInv, Pending
    <3> QED
      BY <3>1, <3>2, <3>3, StoreIdType DEF Row, Tables
  <2>2. /\ id \in Ids /\ t \in Tables /\ t2 = [t EXCEPT ![id] = row.val]
        /\ t2 \in Tables /\ t2[id] = row.val
        /\ \A i \in Ids \ {id} : t2[i] = t[i]
        /\ \A f \in Feeds \ {feed} : work'.table[f] = work.table[f]
        /\ work'.history = h \cup HistoryOf(row, Known(row))
    <3>1. /\ id \in Ids /\ t \in Tables /\ row.val \in Vals
          /\ work'.table = [work.table EXCEPT ![feed] = [t EXCEPT ![id] = row.val]]
          /\ \A f \in Feeds \ {feed} : work'.table[f] = work.table[f]
          /\ work'.history = h \cup HistoryOf(row, Known(row))
      BY <1>0, <1>6, UpdateRowFacts
    <3>2. t2 = [t EXCEPT ![id] = row.val]
      BY <1>0, <3>1
    <3> QED
      BY <3>1, <3>2 DEF Tables
  <2>3. \A c \in HistoryOf(row, Known(row)) : c.feed = feed
    BY DEF HistoryOf
  <2>4. ASSUME NEW f \in Feeds \ reloaded, f # feed
        PROVE  Linked(work'.history, f) /\ EndsAt(work'.history, work'.table[f], f)
    <3>1. Linked(h, f) /\ EndsAt(h, work'.table[f], f)
      BY <1>0, <2>2, <2>4 DEF ChainOf
    <3>2. \A c \in work'.history : c.feed = f => c \in h
      BY <2>2, <2>3, <2>4
    <3>3. \A c, d \in h : c.feed = f => Between(h, c, d) = Between(work'.history, c, d)
      BY <2>2, <3>2 DEF Between, Later
    <3>4. \A c \in h : c.feed = f /\ Latest(work'.history, c) => Latest(h, c)
      BY <2>2 DEF Latest
    <3>5. Linked(work'.history, f)
      BY <3>1, <3>2, <3>3 DEF Linked, Later
    <3>6. EndsAt(work'.history, work'.table[f], f)
      BY <3>1, <3>2, <3>4 DEF EndsAt
    <3> QED
      BY <3>5, <3>6
  <2>5. ASSUME feed \notin reloaded
        PROVE  Linked(work'.history, feed) /\ EndsAt(work'.history, t2, feed)
    <3>1. Linked(h, feed) /\ EndsAt(h, t, feed)
      BY <1>0, <2>5 DEF ChainOf
    <3>2. CASE Clean(Known(row)) = Clean(row.val)
      <4>1. work'.history = h
        BY <2>2, <3>2 DEF HistoryOf
      <4>2. t2 # Absent /\ \A c \in h : c.id \in Ids
        BY <1>0, <2>2, ConstantsAssumption DEF Tables, Change
      <4>3. row.val # Nil
        BY <2>1, ConstantsAssumption
      <4>4. ASSUME NEW c \in h, c.feed = feed, Latest(h, c)
            PROVE  t2 # Absent /\ t2[c.id] # Nil /\ Clean(t2[c.id]) = c.new
        <5>1. t[c.id] # Nil /\ Clean(t[c.id]) = c.new /\ c.id \in Ids
          BY <3>1, <4>2, <4>4 DEF EndsAt
        <5>2. CASE c.id = id
          BY <2>1, <2>2, <3>2, <4>2, <4>3, <5>1, <5>2
        <5>3. CASE c.id # id
          BY <2>2, <4>2, <5>1, <5>3
        <5> QED
          BY <5>2, <5>3
      <4>5. EndsAt(h, t2, feed)
        BY <4>4 DEF EndsAt
      <4> QED
        BY <3>1, <4>1, <4>5
    <3>3. CASE Clean(Known(row)) # Clean(row.val)
      <4> DEFINE n == [feed |-> feed, id |-> id, batch |-> batch,
                       old |-> Clean(Known(row)), new |-> Clean(row.val)]
      <4>1. work'.history = h \cup {n}
        BY <2>2, <3>3 DEF HistoryOf
      <4>2. n \in Change
        BY <1>0, <2>1, <2>2, CleanType DEF Change, Control
      <4>3. ASSUME NEW c \in h, c.feed = feed, c.id = id PROVE c.batch < batch
        <5>1. Settled(c) /\ c.batch \in Nat /\ batch \in Nat
          BY <1>0, <4>3, ConstantsAssumption DEF IInv, Unlogged, Change, TypeOK
        <5>2. c.batch # batch
          BY <1>6, <2>1, <4>3, <5>1 DEF Settled
        <5> QED
          BY <5>1, <5>2 DEF Settled
      <4>4. t2[id] # Nil
        BY <2>1, <2>2, ConstantsAssumption
      <4>5. /\ n.feed = feed /\ n.id = id /\ n.batch = batch
            /\ n.old = Clean(t[id]) /\ n.new = Clean(t2[id])
        BY <2>1, <2>2
      <4>6. Linked(h \cup {n}, feed) /\ EndsAt(h \cup {n}, t2, feed)
        <5> HIDE DEF n, id, t, t2, h
        <5>1. h \in SUBSET Change
          BY <1>0 DEF h
        <5>2. /\ t \in Tables /\ t2 \in Tables
              /\ \A i \in Ids \ {n.id} : t2[i] = t[i]
          BY <2>2, <4>5
        <5>3. \A c \in h : c.feed = feed /\ c.id = n.id => c.batch < n.batch
          BY <4>3, <4>5
        <5>4. Clean(t[n.id]) = n.old /\ t2[n.id] # Nil /\ Clean(t2[n.id]) = n.new
          BY <4>4, <4>5
        <5> QED
          BY <1>0, <3>1, <4>2, <4>5, <5>1, <5>2, <5>3, <5>4, ChangeProlongsChain
      <4> QED
        BY <4>1, <4>6
    <3> QED
      BY <3>2, <3>3
  <2> QED
    BY <1>0, <2>4, <2>5 DEF ChainOf
<1>7. ASSUME NEW row \in rows, InsertRow(row) PROVE ChainOf(work)'
  <2>1. /\ work'.history = work.history /\ work'.table[feed] # Absent
        /\ work.table[feed][StoreId(row)] = Nil
        /\ \A id \in Ids \ {StoreId(row)} : work'.table[feed][id] = work.table[feed][id]
        /\ \A f \in Feeds \ {feed} : work'.table[f] = work.table[f]
    BY <1>0, <1>7, UpdateRowFacts DEF InsertRow, UpdateRow
  <2>2. ASSUME NEW f \in Feeds \ reloaded
        PROVE  Linked(work'.history, f) /\ EndsAt(work'.history, work'.table[f], f)
    BY <1>0, <2>1, <2>2 DEF ChainOf, EndsAt, Change
  <2> QED
    BY <1>0, <2>2 DEF ChainOf
<1>8. ASSUME WriteBusy \/ CommitFeed \/ CloseConnection \/ Crash PROVE ChainOf(work)'
  BY <1>1, <1>8 DEF WriteBusy, Abandon, CommitFeed, CloseConnection, Crash, Disconnect
<1>9. ASSUME NEW row \in rows, UniqueViolation(row) \/ SkipRow(row) PROVE ChainOf(work)'
  BY <1>1, <1>9 DEF UniqueViolation, Abandon, SkipRow, store
<1>10. ASSUME UpsertDone \/ UNCHANGED vars PROVE ChainOf(work)'
  BY <1>1, <1>10 DEF UpsertDone, store, vars
<1>11. ASSUME NEW m \in Modes, StartRun(m) PROVE ChainOf(work)'
  BY <1>1, <1>11 DEF StartRun, store
<1>12. ASSUME NEW f \in Feeds, FetchNothing(f) \/ \E s \in Batches : FetchRows(f, s)
       PROVE  ChainOf(work)'
  BY <1>1, <1>12 DEF FetchNothing, FetchRows, store
<1>13. ChainOf(work)'
  BY <1>3, <1>4, <1>5, <1>6, <1>7, <1>8, <1>9, <1>10, <1>11, <1>12 DEF Next
<1>14. ChainOf(disk)'
  <2>1. CASE disk' \in {disk, work}
    BY <1>0, <2>1 DEF ChainOf
  <2>2. CASE disk' = work'
    BY <1>13, <2>2 DEF ChainOf
  <2> QED
    BY <2>1, <2>2, DiskStep
<1> QED
  BY <1>13, <1>14

-----------------------------------------------------------------------------
(* The transaction of an incremental run.                                  *)

\* What the transaction holds for record id of feed f, whose committed
\* content is v.
Logged(f, id, v) ==
  \E w \in Vals :
    /\ Holds(work, f, id, w)
    /\ Clean(v) # Clean(w) =>
         \E c \in work.history \ disk.history :
           /\ c.feed = f /\ c.id = id /\ c.batch = batch
           /\ c.old = Clean(v) /\ c.new = Clean(w)

LEMMA LogInvIsLogged ==
  LogInv <=> (mode = "incremental" =>
                \A f \in Feeds, id \in Ids : \A v \in Vals :
                  Holds(disk, f, id, v) => Logged(f, id, v))
  BY DEF LogInv, Logged

LEMMA LogStep == IInv /\ [Next]_vars => LogInv'
<1> SUFFICES ASSUME IInv, [Next]_vars PROVE LogInv'
  OBVIOUS
<1>0. TypeOK /\ Control /\ LogInv /\ feed \in Feeds /\ work.history \subseteq Change
  BY DEF IInv, TypeOK, Store
<1>1. ASSUME work' = disk' PROVE LogInv'
  BY <1>1 DEF LogInv
<1>2. ASSUME UNCHANGED <<disk, work, mode, batch>> PROVE LogInv'
  BY <1>0, <1>2 DEF LogInv, Holds
<1>3. ASSUME mode' # "incremental" PROVE LogInv'
  BY <1>3 DEF LogInv
<1>4. ASSUME NEW f \in Feeds, NEW id \in Ids,
             disk' = disk, batch' = batch, mode' = mode, mode = "incremental",
             \A v \in Vals : Holds(work, f, id, v) => Holds(work', f, id, v),
             \A c \in work.history : c.batch = batch => c \in work'.history
      PROVE  \A v \in Vals : Holds(disk', f, id, v) => Logged(f, id, v)'
  <2>1. \A v \in Vals : Holds(disk, f, id, v) => Logged(f, id, v)
    BY <1>0, <1>4, LogInvIsLogged
  <2> QED
    BY <1>4, <2>1 DEF Logged
<1>5. ASSUME NEW m \in Modes, StartRun(m) PROVE LogInv'
  BY <1>0, <1>1, <1>5 DEF StartRun, store, TypeOK, Control
<1>6. ASSUME DropTable \/ RenameTmp \/ InsertRows PROVE LogInv'
  BY <1>0, <1>3, <1>6 DEF DropTable, RenameTmp, InsertRows, run, Control
<1>7. ASSUME EnsureTable PROVE LogInv'
  <2>1. CASE ~inTxn
    BY <1>1, <1>7, <2>1 DEF EnsureTable, Ddl
  <2>2. CASE work.table[feed] # Absent
    BY <1>0, <1>2, <1>7, <2>2 DEF EnsureTable, Ddl, run, TypeOK
  <2>3. CASE inTxn /\ work.table[feed] = Absent
    <3>1. /\ disk' = disk /\ work'.history = work.history
          /\ \A f \in Feeds \ {feed} : work'.table[f] = work.table[f]
          /\ batch' = batch /\ mode' = mode /\ mode = "incremental"
      BY <1>0, <1>7, <2>3, DdlFacts, EmptyTableType DEF EnsureTable, run, Control
    <3>2. \A f \in Feeds, id \in Ids, v \in Vals :
            Holds(work, f, id, v) => Holds(work', f, id, v)
      BY <2>3, <3>1 DEF Holds
    <3>3. \A f \in Feeds, id \in Ids : \A v \in Vals :
            Holds(disk', f, id, v) => Logged(f, id, v)'
      BY <1>4, <3>1, <3>2
    <3> QED
      BY <3>3 DEF LogInv, Logged
  <2> QED
    BY <2>1, <2>2, <2>3
<1>8. ASSUME PurgeAndPrefetch PROVE LogInv'
  <2>1. PICK cutoff \in 1 .. batch : work'.history = {c \in work.history : c.batch >= cutoff}
    BY <1>0, <1>8, PurgeFacts
  <2>2. /\ disk' = disk /\ work'.table = work.table
        /\ batch' = batch /\ mode' = mode /\ mode = "incremental"
    BY <1>0, <1>8, PurgeFacts DEF PurgeAndPrefetch, run, Control
  <2>3. \A c \in work.history : c.batch = batch => c \in work'.history
    BY <1>0, <2>1, ConstantsAssumption DEF TypeOK
  <2>4. \A f \in Feeds, id \in Ids, v \in Vals :
          Holds(work, f, id, v) => Holds(work', f, id, v)
    BY <2>2 DEF Holds
  <2>5. \A f \in Feeds, id \in Ids : \A v \in Vals :
          Holds(disk', f, id, v) => Logged(f, id, v)'
    BY <1>4, <2>2, <2>3, <2>4
  <2> QED
    BY <2>5 DEF LogInv, Logged
<1>9. ASSUME NEW row \in rows, UpdateRow(row) \/ InsertRow(row) PROVE LogInv'
  <2> DEFINE rid == StoreId(row)
  <2>1. /\ disk' = disk /\ batch' = batch /\ mode' = mode /\ mode = "incremental"
        /\ pc = "upsert" /\ row \in Row
    BY <1>0, <1>9, UpdateRowFacts DEF UpdateRow, InsertRow, run, Control, TypeOK
  <2>2. /\ rid \in Ids /\ row.val \in Vals
        /\ work.table[feed] # Absent /\ work'.table[feed] # Absent
        /\ work'.table[feed][rid] = row.val
        /\ \A id \in Ids \ {rid} : work'.table[feed][id] = work.table[feed][id]
        /\ \A f \in Feeds \ {feed} : work'.table[f] = work.table[f]
        /\ work.history \subseteq work'.history
        /\ UpdateRow(row) => HistoryOf(row, Known(row)) \subseteq work'.history
    BY <1>0, <1>9, <2>1, UpdateRowFacts DEF TypeOK
  <2>3. ASSUME NEW f \in Feeds, NEW id \in Ids, f # feed \/ id # rid
        PROVE  \A v \in Vals : Holds(disk', f, id, v) => Logged(f, id, v)'
    <3>1. \A v \in Vals : Holds(work, f, id, v) => Holds(work', f, id, v)
      BY <2>2, <2>3 DEF Holds
    <3> QED
      BY <1>4, <2>1, <2>2, <3>1
  <2>4. ASSUME NEW f \in Feeds, NEW id \in Ids, f = feed, id = rid,
               NEW v \in Vals, Holds(disk', f, id, v)
        PROVE  Logged(f, id, v)'
    <3>1. v = work.table[feed][rid]
      BY <1>9, <2>1, <2>4 DEF Holds, IInv, Pending
    <3>2. UpdateRow(row)
      BY <1>9, <3>1, ConstantsAssumption DEF InsertRow
    <3>3. Known(row) = v
      <4>1. Known(row) # Nil
        BY <3>2 DEF UpdateRow
      <4>2. row.id # NoId /\ Known(row) = existing[row.id] /\ rid = row.id
        BY <2>1, <4>1, StoreIdType DEF Known
      <4> QED
        BY <1>9, <2>1, <3>1, <4>2 DEF IInv, Pending
    <3>4. Holds(work', f, id, row.val)
      BY <2>2, <2>4 DEF Holds
    <3>5. ASSUME Clean(v) # Clean(row.val)
          PROVE  \E c \in work'.history \ disk'.history :
                   /\ c.feed = f /\ c.id = id /\ c.batch = batch'
                   /\ c.old = Clean(v) /\ c.new = Clean(row.val)
      <4> DEFINE n == [feed |-> feed, id |-> rid, batch |-> batch,
                       old |-> Clean(v), new |-> Clean(row.val)]
      <4>1. n \in work'.history
        BY <2>2, <3>2, <3>3, <3>5 DEF HistoryOf
      <4>2. n \notin disk.history
        <5>1. ~Settled(n)
          BY <1>9, <2>1 DEF Settled
        <5> QED
          BY <5>1 DEF IInv, Unlogged
      <4> QED
        BY <2>1, <2>4, <4>1, <4>2
    <3> QED
      BY <2>2, <3>4, <3>5 DEF Logged
  <2>5. \A f \in Feeds, id \in Ids : \A v \in Vals :
          Holds(disk', f, id, v) => Logged(f, id, v)'
    BY <2>3, <2>4
  <2> QED
    BY <2>5 DEF LogInv, Logged
<1>10. ASSUME CommitFeed \/ CloseConnection \/ Crash PROVE LogInv'
  BY <1>1, <1>10 DEF CommitFeed, CloseConnection, Crash, Disconnect
<1>11. ASSUME WriteBusy \/ UpsertDone \/ UNCHANGED vars PROVE LogInv'
  BY <1>2, <1>11 DEF WriteBusy, Abandon, UpsertDone, run, store, vars
<1>12. ASSUME NEW row \in rows, SkipRow(row) \/ UniqueViolation(row) PROVE LogInv'
  BY <1>2, <1>12 DEF SkipRow, UniqueViolation, Abandon, run, store
<1>13. ASSUME NEW f \in Feeds, FetchNothing(f) \/ \E s \in Batches : FetchRows(f, s)
       PROVE  LogInv'
  BY <1>2, <1>13 DEF FetchNothing, FetchRows, store
<1> QED
  BY <1>5, <1>6, <1>7, <1>8, <1>9, <1>10, <1>11, <1>12, <1>13 DEF Next

LEMMA NextIInv == IInv /\ [Next]_vars => IInv'
  BY TypeStep, PendingStep, UnloggedStep, ChainStep, LogStep DEF IInv

\* The inductive invariant holds in every reachable state.
THEOREM Invariance == Spec => []IInv
  BY InitIInv, NextIInv, PTL DEF Spec

-----------------------------------------------------------------------------
\* Every variable keeps its type, the connection differs from the disk only
\* inside a transaction, and the table that is written to exists.
THEOREM TypeCorrect == Spec => []TypeOK
<1>1. IInv => TypeOK
  BY DEF IInv
<1> QED
  BY <1>1, Invariance, PTL

\* The committed log of a feed no full run has replaced reads as one chain
\* per record, which ends at the record's committed content.
THEOREM HistoryTheorem == Spec => []HistoryIsChain
<1>1. IInv => HistoryIsChain
  BY DEF IInv, ChainOf, HistoryIsChain
<1> QED
  BY <1>1, Invariance, PTL

\* No incremental run commits another content of a record without committing
\* the change of exactly that old to exactly that new content with it.
THEOREM LoggingTheorem == Spec => ChangesAreLogged
<1>1. IInv /\ [Next]_vars
        => [\A f \in Feeds, id \in Ids : \A v, w \in Vals :
              /\ mode = "incremental"
              /\ Holds(disk, f, id, v) /\ Holds(disk', f, id, w)
              /\ Clean(v) # Clean(w)
              => \E c \in disk'.history \ disk.history :
                   c.feed = f /\ c.id = id /\ c.old = Clean(v) /\ c.new = Clean(w)]_vars
  <2> SUFFICES ASSUME IInv, [Next]_vars,
                      NEW f \in Feeds, NEW id \in Ids, NEW v \in Vals, NEW w \in Vals,
                      mode = "incremental",
                      Holds(disk, f, id, v), Holds(disk', f, id, w),
                      Clean(v) # Clean(w)
               PROVE  \E c \in disk'.history \ disk.history :
                        c.feed = f /\ c.id = id /\ c.old = Clean(v) /\ c.new = Clean(w)
    OBVIOUS
  <2>1. CASE disk' = disk
    BY <2>1 DEF Holds
  <2>2. CASE disk' = work
    BY <2>2 DEF IInv, LogInv, Holds
  <2>3. CASE ~inTxn /\ disk' = work' /\ (DropTable \/ RenameTmp \/ EnsureTable)
    <3>1. work = disk /\ EnsureTable /\ TypeOK
      BY <2>3 DEF IInv, TypeOK, Control, DropTable, RenameTmp
    <3>2. CASE work.table[feed] = Absent
      <4>1. f # feed
        BY <3>1, <3>2 DEF Holds
      <4>2. disk'.table[f] = disk.table[f]
        BY <3>1, <3>2, <4>1, DdlFacts, EmptyTableType DEF EnsureTable
      <4> QED
        BY <4>2 DEF Holds
    <3>3. CASE work.table[feed] # Absent
      BY <2>3, <3>1, <3>3 DEF EnsureTable, Ddl, Holds
    <3> QED
      BY <3>2, <3>3
  <2> QED
    BY <2>1, <2>2, <2>3, DiskStep
<1> QED
  BY <1>1, Invariance, PTL DEF Spec, ChangesAreLogged

\* No step of an incremental run, a crash included, loses a committed record.
THEOREM RecordsTheorem == Spec => IncrementalKeepsRecords
<1>1. IInv /\ [Next]_vars
        => [\A f \in Feeds, id \in Ids : \A v \in Vals :
              mode = "incremental" /\ Holds(disk, f, id, v)
                => \E w \in Vals : Holds(disk', f, id, w)]_vars
  <2> SUFFICES ASSUME IInv, [Next]_vars,
                      NEW f \in Feeds, NEW id \in Ids, NEW v \in Vals,
                      mode = "incremental", Holds(disk, f, id, v)
               PROVE  \E w \in Vals : Holds(disk', f, id, w)
    OBVIOUS
  <2>1. CASE disk' = disk
    BY <2>1
  <2>2. CASE disk' = work
    BY <2>2 DEF IInv, LogInv
  <2>3. CASE ~inTxn /\ disk' = work' /\ (DropTable \/ RenameTmp \/ EnsureTable)
    <3>1. work = disk /\ EnsureTable /\ TypeOK
      BY <2>3 DEF IInv, TypeOK, Control, DropTable, RenameTmp
    <3>2. CASE work.table[feed] = Absent
      <4>1. f # feed
        BY <3>1, <3>2 DEF Holds
      <4>2. disk'.table[f] = disk.table[f]
        BY <3>1, <3>2, <4>1, DdlFacts, EmptyTableType DEF EnsureTable
      <4> QED
        BY <4>2 DEF Holds
    <3>3. CASE work.table[feed] # Absent
      BY <2>3, <3>1, <3>3 DEF EnsureTable, Ddl
    <3> QED
      BY <3>2, <3>3
  <2> QED
    BY <2>1, <2>2, <2>3, DiskStep
<1> QED
  BY <1>1, Invariance, PTL DEF Spec, IncrementalKeepsRecords

\* A feed whose fetch failed or came back empty keeps its committed table.
THEOREM EmptyFetchTheorem == Spec => EmptyFetchKeepsTable
<1>1. IInv /\ [Next]_vars
        => [\A f \in Feeds : disk'.table[f] # disk.table[f] => result[f] # "empty"]_vars
  <2> SUFFICES ASSUME IInv, [Next]_vars, NEW f \in Feeds, result[f] = "empty"
               PROVE  disk'.table[f] = disk.table[f]
    OBVIOUS
  <2>1. CASE disk' \in {disk, work}
    BY <2>1 DEF IInv, Control
  <2>2. CASE ~inTxn /\ disk' = work' /\ (DropTable \/ RenameTmp \/ EnsureTable)
    <3>1. f # feed /\ TypeOK
      BY <2>2 DEF IInv, Control, DropTable, RenameTmp, EnsureTable
    <3>2. CASE EnsureTable /\ work.table[feed] # Absent
      BY <2>2, <3>1, <3>2 DEF EnsureTable, Ddl, TypeOK
    <3>3. CASE ~(EnsureTable /\ work.table[feed] # Absent)
      BY <2>2, <3>1, <3>3, DdlFacts, EmptyTableType DEF DropTable, RenameTmp, EnsureTable
    <3> QED
      BY <3>2, <3>3
  <2> QED
    BY <2>1, <2>2, DiskStep
<1> QED
  BY <1>1, Invariance, PTL DEF Spec, EmptyFetchKeepsTable

\* FailedFeedWritesNothing fails in one way only: rows of a failed feed reach
\* its committed table with the commit of another feed of the same run, never
\* through a statement of their own, the close or a crash.
THEOREM FailedCommitTheorem ==
  Spec => [][\A f \in Feeds :
               disk'.table[f] # disk.table[f] /\ result[f] = "failed"
                 => inTxn /\ CommitFeed /\ feed # f]_vars
<1>1. IInv /\ [Next]_vars
        => [\A f \in Feeds :
              disk'.table[f] # disk.table[f] /\ result[f] = "failed"
                => inTxn /\ CommitFeed /\ feed # f]_vars
  <2> SUFFICES ASSUME IInv, [Next]_vars, NEW f \in Feeds,
                      disk'.table[f] # disk.table[f], result[f] = "failed"
               PROVE  inTxn /\ CommitFeed /\ feed # f
    OBVIOUS
  <2>1. TypeOK /\ Control
    BY DEF IInv
  <2>2. CASE CommitFeed /\ disk' = work
    <3>1. result[feed] = "none"
      BY <2>1, <2>2 DEF Control, CommitFeed
    <3>2. inTxn
      BY <2>1, <2>2 DEF TypeOK
    <3> QED BY <2>2, <3>1, <3>2
  <2>3. CASE ~inTxn /\ disk' = work' /\ (DropTable \/ RenameTmp \/ EnsureTable)
    <3>1. f # feed
      BY <2>1, <2>3 DEF Control, DropTable, RenameTmp, EnsureTable
    <3>2. CASE EnsureTable /\ work.table[feed] # Absent
      BY <2>1, <2>3, <3>2 DEF EnsureTable, Ddl, TypeOK
    <3>3. CASE ~(EnsureTable /\ work.table[feed] # Absent)
      BY <2>1, <2>3, <3>1, <3>3, DdlFacts, EmptyTableType
         DEF DropTable, RenameTmp, EnsureTable
    <3> QED BY <3>2, <3>3
  <2> QED
    BY <2>2, <2>3, DiskStep
<1> QED
  BY <1>1, Invariance, PTL DEF Spec

\* A run that commits no feed after a failed one keeps what it reports.
THEOREM FailedTheorem ==
  Spec /\ [][CommitFeed => \A f \in Feeds : result[f] # "failed"]_vars
    => FailedFeedWritesNothing
<1>1. /\ [\A f \in Feeds :
            disk'.table[f] # disk.table[f] /\ result[f] = "failed"
              => inTxn /\ CommitFeed /\ feed # f]_vars
      /\ [CommitFeed => \A f \in Feeds : result[f] # "failed"]_vars
      => [\A f \in Feeds : disk'.table[f] # disk.table[f] => result[f] # "failed"]_vars
  OBVIOUS
<1> QED
  BY <1>1, FailedCommitTheorem, PTL DEF FailedFeedWritesNothing

-----------------------------------------------------------------------------
(* What a full run does to the table it replaces.                          *)

\* Between feeds an open transaction holds writes of failed feeds only.
LeftOpen ==
  \A f \in Feeds : work.table[f] # disk.table[f] =>
    \/ result[f] = "failed"
    \/ f = feed /\ pc \notin {"idle", "feeds"}

\* A full run has rows for the table that it drops.
Filling ==
  /\ pc \in {"drop", "rename", "insert"} => rows # {}
  /\ pc = "rename" => work.table[feed] = Absent
  /\ pc = "commit" /\ mode = "full" => work.table[feed] # EmptyTable

LEMMA LastWinsSome ==
  ASSUME NEW s \in Seq(Row), s # << >>
  PROVE  LastWins(s) # {}
<1>1. Len(s) \in DOMAIN s /\ \A k \in DOMAIN s : ~(k > Len(s))
  OBVIOUS
<1>2. s[Len(s)] \in LastWins(s)
  BY <1>1 DEF LastWins
<1> QED BY <1>2

LEMMA TableOfSome ==
  ASSUME NEW rs \in SUBSET Row, rs # {}
  PROVE  TableOf(rs) # EmptyTable
<1>1. PICK r \in rs : TRUE
  OBVIOUS
<1> DEFINE id == StoreId(r)
           s == CHOOSE q \in rs : StoreId(q) = id
<1>2. id \in Ids
  BY StoreIdType
<1>3. s \in rs
  OBVIOUS
<1>4. TableOf(rs)[id] = s.val
  BY <1>2 DEF TableOf
<1>5. s.val \in Vals
  BY <1>3 DEF Row
<1>6. EmptyTable[id] = Nil
  BY <1>2 DEF EmptyTable
<1> HIDE DEF id, s
<1> QED BY <1>4, <1>5, <1>6, ConstantsAssumption

LEMMA SwapStep ==
  ASSUME IInv, LeftOpen, Filling, [Next]_vars
  PROVE  LeftOpen' /\ Filling'
<1> DEFINE Good == LeftOpen' /\ Filling'
<1>0. /\ TypeOK /\ Control
      /\ feed \in Feeds /\ work \in Store /\ disk \in Store
      /\ work.table \in [Feeds -> Tables \cup {Absent}]
      /\ result \in [Feeds -> Results]
      /\ ~inTxn => work = disk
  BY DEF IInv, TypeOK, Store
<1>1. CASE DropTable
  BY <1>0, <1>1, DdlFacts DEF DropTable, run, LeftOpen, Filling
<1>2. CASE RenameTmp
  BY <1>0, <1>2, DdlFacts, EmptyTableType DEF RenameTmp, run, LeftOpen, Filling
<1>3. CASE InsertRows
  <2>1. TableOf(rows) # EmptyTable
    BY <1>0, <1>3, TableOfSome DEF InsertRows, Filling, TypeOK
  <2>2. /\ work' = SetTable(work, feed, TableOf(rows)) /\ disk' = disk
        /\ pc' = "commit" /\ UNCHANGED <<feed, result>>
    BY <1>3 DEF InsertRows, Dml, run
  <2>3. work'.table = [work.table EXCEPT ![feed] = TableOf(rows)]
    BY <1>0, <2>2, SetTableFacts, TableOfType DEF TypeOK
  <2> QED
    BY <1>0, <2>1, <2>2, <2>3 DEF LeftOpen, Filling
<1>4. CASE EnsureTable
  <2>1. pc' = "purge" /\ UNCHANGED <<feed, result>>
    BY <1>4 DEF EnsureTable, run
  <2>2. \A f \in Feeds \ {feed} :
          work'.table[f] = work.table[f] /\ disk'.table[f] = disk.table[f]
    <3>1. CASE work.table[feed] = Absent
      BY <1>0, <1>4, <3>1, DdlFacts, EmptyTableType DEF EnsureTable
    <3>2. CASE work.table[feed] # Absent
      BY <1>0, <1>4, <3>2 DEF EnsureTable, Ddl
    <3> QED BY <3>1, <3>2
  <2> QED
    BY <1>0, <1>4, <2>1, <2>2 DEF EnsureTable, LeftOpen, Filling
<1>5. CASE PurgeAndPrefetch
  <2>1. work'.table = work.table /\ disk' = disk
    BY <1>0, <1>5 DEF PurgeAndPrefetch, Dml, Store
  <2> QED
    BY <1>5, <2>1 DEF PurgeAndPrefetch, run, LeftOpen, Filling
<1>6. ASSUME NEW row \in rows, SkipRow(row) PROVE Good
  BY <1>6 DEF SkipRow, store, run, LeftOpen, Filling
<1>7. ASSUME NEW row \in rows, UpdateRow(row) \/ InsertRow(row) PROVE Good
  <2>1. \A f \in Feeds \ {feed} : work'.table[f] = work.table[f]
    BY <1>0, <1>7, UpdateRowFacts
  <2>2. /\ disk' = disk /\ pc = "upsert" /\ pc' = "upsert"
        /\ UNCHANGED <<feed, result>>
    BY <1>7 DEF UpdateRow, InsertRow, Dml, run
  <2> QED
    BY <1>0, <2>1, <2>2 DEF LeftOpen, Filling
<1>8. CASE UpsertDone
  BY <1>0, <1>8 DEF UpsertDone, store, run, Control, LeftOpen, Filling
<1>9. CASE CommitFeed
  BY <1>9 DEF CommitFeed, LeftOpen, Filling
<1>10. ASSUME NEW txn \in BOOLEAN, Abandon(txn) PROVE Good
  BY <1>0, <1>10 DEF Abandon, run, LeftOpen, Filling
<1>11. CASE WriteBusy
  BY <1>0, <1>10, <1>11 DEF WriteBusy, TypeOK
<1>12. ASSUME NEW row \in rows, UniqueViolation(row) PROVE Good
  BY <1>10, <1>12 DEF UniqueViolation
<1>13. CASE CloseConnection \/ Crash
  BY <1>13 DEF CloseConnection, Crash, Disconnect, LeftOpen, Filling
<1>14. ASSUME NEW m \in Modes, StartRun(m) PROVE Good
  BY <1>0, <1>14 DEF StartRun, store, Control, LeftOpen, Filling
<1>15. ASSUME NEW f \in Feeds, FetchNothing(f) PROVE Good
  BY <1>0, <1>15 DEF FetchNothing, store, Control, LeftOpen, Filling
<1>16. ASSUME NEW f \in Feeds, NEW s \in Batches, FetchRows(f, s) PROVE Good
  <2>1. LastWins(s) # {}
    BY <1>16, LastWinsSome, ConstantsAssumption DEF FetchRows
  <2> QED
    BY <1>16, <2>1 DEF FetchRows, store, LeftOpen, Filling
<1>17. CASE UNCHANGED vars
  BY <1>17 DEF vars, LeftOpen, Filling
<1> QED
  BY <1>1, <1>2, <1>3, <1>4, <1>5, <1>6, <1>7, <1>8, <1>9, <1>11, <1>12, <1>13,
     <1>14, <1>15, <1>16, <1>17 DEF Next

\* SwapIsAtomic fails in two ways only: a committed table goes, or is emptied,
\* with the DROP of its own swap outside a transaction, or, when its swap has
\* failed half-way inside the transaction that an earlier failure left open,
\* with the commit of a later feed.
THEOREM SwapTheorem ==
  Spec => [][\A f \in Feeds :
               /\ mode = "full" /\ disk.table[f] # Absent
               /\ disk'.table[f] # disk.table[f]
               /\ disk'.table[f] \in {Absent, EmptyTable}
               => \/ ~inTxn /\ DropTable /\ f = feed
                  \/ inTxn /\ CommitFeed /\ f # feed /\ result[f] = "failed"]_vars
<1> DEFINE Ways(f) == \/ ~inTxn /\ DropTable /\ f = feed
                      \/ inTxn /\ CommitFeed /\ f # feed /\ result[f] = "failed"
           Lost(f) == /\ mode = "full" /\ disk.table[f] # Absent
                      /\ disk'.table[f] # disk.table[f]
                      /\ disk'.table[f] \in {Absent, EmptyTable}
<1>1. Init => LeftOpen /\ Filling
  BY DEF Init, LeftOpen, Filling
<1>2. IInv /\ LeftOpen /\ Filling /\ [Next]_vars => (LeftOpen /\ Filling)'
  BY SwapStep
<1>3. IInv /\ LeftOpen /\ Filling /\ [Next]_vars => [\A f \in Feeds : Lost(f) => Ways(f)]_vars
  <2> SUFFICES ASSUME IInv, LeftOpen, Filling, [Next]_vars, NEW f \in Feeds, Lost(f)
               PROVE  Ways(f)
    OBVIOUS
  <2>1. TypeOK /\ Control
    BY DEF IInv
  <2>2. CASE CommitFeed /\ disk' = work
    <3>1. inTxn
      BY <2>1, <2>2 DEF TypeOK
    <3>2. f # feed
      BY <2>1, <2>2 DEF TypeOK, CommitFeed, Filling
    <3>3. result[f] = "failed"
      BY <2>2, <3>2 DEF LeftOpen
    <3> QED BY <2>2, <3>1, <3>2, <3>3
  <2>3. CASE ~inTxn /\ DropTable
    <3>1. f = feed
      BY <2>1, <2>3, DdlFacts DEF DropTable
    <3> QED BY <2>3, <3>1
  <2>4. CASE ~inTxn /\ RenameTmp
    <3>1. f = feed
      BY <2>1, <2>4, DdlFacts, EmptyTableType DEF RenameTmp
    <3> QED BY <2>1, <2>4, <3>1 DEF TypeOK, Filling, RenameTmp
  <2>5. ~EnsureTable
    BY <2>1 DEF Control, EnsureTable
  <2> QED
    BY <2>2, <2>3, <2>4, <2>5, DiskStep
<1> QED
  BY <1>1, <1>2, <1>3, Invariance, PTL DEF Spec
=============================================================================
