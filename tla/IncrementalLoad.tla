-------------------------- MODULE IncrementalLoad --------------------------
(***************************************************************************)
(* The upsert of a sync, run_incremental_load: the rows of the CSV files   *)
(* of some systems go into source_records of mesh.duckdb one by one, each  *)
(* under the cluster its key already has or under a fresh temporary one,   *)
(* and the devices table is rebuilt from all rows at the end.              *)
(*                                                                         *)
(* The connection is in autocommit mode: every DELETE, INSERT and CREATE   *)
(* is on disk when it returns, and the load can stop between any two.      *)
(* Only one load runs at a time and no full load runs next to it; when     *)
(* that fails is the matter of PipelineLock and MeshPipeline.              *)
(*                                                                         *)
(* A row is a key, a cluster and a content.  A key is a source and a       *)
(* source id.  A record without a source id has the empty text in the CSV  *)
(* of a sync, and NULL in a mesh that was loaded from clusters.csv: DuckDB *)
(* reads an empty field as NULL, which equals nothing.                     *)
(***************************************************************************)
EXTENDS Naturals, Sequences

CONSTANTS
  Systems,    \* systems with a CSV file of their own
  Sources,    \* values of the source column
  SystemOf,   \* SystemOf[x]: the system whose feeds give source x
  Ids,        \* source ids
  EmptyId,    \* the empty source id of a CSV file
  NullId,     \* the NULL source id of a database table
  Vals,       \* contents of a record
  SplinkIds,  \* cluster ids of entity resolution
  NoCluster,  \* not a cluster id
  MaxRows,    \* bound on the rows of a CSV file and of a full load
  MaxNew,     \* bound on the temporary cluster ids of one behaviour
  MaxCrashes  \* bound on the interrupted loads of one behaviour

\* The ids new-<system>-<8 hex digits>; two calls of uuid4 never agree.
NewIds == 1 .. MaxNew
Clusters == SplinkIds \cup NewIds

ASSUME ConstantsAssumption ==
  /\ SystemOf \in [Sources -> Systems]
  /\ EmptyId \notin Ids
  /\ NullId \notin Ids \cup {EmptyId}
  /\ MaxRows \in Nat
  /\ MaxNew \in Nat \ {0}
  /\ MaxCrashes \in Nat
  /\ SplinkIds \cap Nat = {}
  /\ NoCluster \notin Clusters

CsvKeys == Sources \X (Ids \cup {EmptyId})
MeshKeys == Sources \X (Ids \cup {NullId})
Keys == Sources \X (Ids \cup {EmptyId, NullId})

Row == [key : Keys, cluster : Clusters, val : Vals]
CsvRow == [key : CsvKeys, val : Vals]

VARIABLES
  exists,    \* mesh.duckdb exists
  records,   \* rows of its source_records table
  devices,   \* rows of its devices table
  status,    \* stage incremental_load in status.json
  pc,        \* where the load is
  todo,      \* systems the load has not opened the CSV file of
  csv,       \* rows of the CSV file being read
  line,      \* the next of them
  cluster,   \* cluster_by_key, the clusters known for the keys of the system
  news,      \* temporary cluster ids handed out
  crashes    \* interrupted loads

vars == <<exists, records, devices, status, pc, todo, csv, line, cluster,
          news, crashes>>

RowsOf(t, k) == {r \in t : r.key = k}
ClustersOf(t, k) == {r.cluster : r \in RowsOf(t, k)}

\* build_devices_sql: one row per cluster, an aggregate of its records.
DevicesOf(t) ==
  {[id |-> c, members |-> {r \in t : r.cluster = c}] :
     c \in {r.cluster : r \in t}}

\* The files export_source writes for a system: any rows of its sources, an
\* id at most once per source except the empty one.
CsvFiles == [s \in Systems |->
  {f \in UNION {[1 .. n -> CsvRow] : n \in 0 .. MaxRows} :
     /\ \A i \in DOMAIN f : SystemOf[f[i].key[1]] = s
     /\ \A i, j \in DOMAIN f :
          f[i].key = f[j].key /\ i # j => f[i].key[2] = EmptyId}]

\* Tables of a few rows.
TablesOf(S) == UNION {{{f[i] : i \in 1 .. n} : f \in [1 .. n -> S]} :
                        n \in 0 .. MaxRows}

\* What a full load can make of clusters.csv: rows with resolved clusters, a
\* record without an id under NULL.
LoadedTables ==
  TablesOf([key : MeshKeys, cluster : SplinkIds, val : Vals])

\* What older versions left behind: a key may have several rows, some of them
\* under a temporary cluster.
OldTables ==
  {t \in TablesOf([key : Sources \X Ids, cluster : SplinkIds \cup {1},
                   val : Vals]) :
     \A r, s \in t : r.cluster = 1 /\ s.cluster = 1 => r.key = s.key}

\* Types; a key has a cluster in memory only while its system is loaded.
TypeOK ==
  /\ exists \in BOOLEAN
  /\ records \subseteq Row
  /\ devices \subseteq [id : Clusters, members : SUBSET Row]
  /\ status \in {"none", "running", "done"}
  /\ pc \in {"idle", "systems", "delete", "insert", "close"}
  /\ todo \subseteq Systems
  /\ csv \in Seq(CsvRow)
  /\ line \in 1 .. Len(csv) + 1
  /\ pc = "insert" => line <= Len(csv)
  /\ cluster \in [Keys -> Clusters \cup {NoCluster}]
  /\ news \in 0 .. MaxNew
  /\ crashes \in 0 .. MaxCrashes

Nothing == [k \in Keys |-> NoCluster]

\* No mesh, or one of an older version.
Init ==
  /\ exists \in BOOLEAN
  /\ records \in IF exists THEN OldTables ELSE {{}}
  /\ devices = DevicesOf(records)
  /\ status = "none"
  /\ pc = "idle"
  /\ todo = {}
  /\ csv = <<>>
  /\ line = 1
  /\ cluster = Nothing
  /\ news = IF \E r \in records : r.cluster = 1 THEN 1 ELSE 0
  /\ crashes = 0

tables == <<exists, records, devices>>
reading == <<todo, csv, line, cluster>>

-----------------------------------------------------------------------------

\* A full load puts a new mesh in place of the old one.
FullLoad ==
  /\ pc = "idle"
  /\ records' \in LoadedTables
  /\ devices' = DevicesOf(records')
  /\ exists' = TRUE
  /\ UNCHANGED <<status, pc, reading, news, crashes>>

\* Mutant: the stage is not marked as running.
OpenUnreported ==
  /\ pc = "idle" /\ exists
  /\ todo' \in SUBSET Systems
  /\ pc' = "systems"
  /\ UNCHANGED <<tables, status, csv, line, cluster, news, crashes>>

\* record_start and connect; without a mesh the load returns at once.
Open ==
  /\ pc = "idle" /\ exists
  /\ todo' \in SUBSET Systems
  /\ status' = "running"
  /\ pc' = "systems"
  /\ UNCHANGED <<tables, csv, line, cluster, news, crashes>>

\* Mutant: a temporary cluster is taken before a resolved one.
PreferTemporary(S) == IF S \cap NewIds # {} THEN S \cap NewIds ELSE S

\* The clusters of a key's rows that the key can keep: a temporary one only
\* when there is no other.
Preferred(S) == IF S \cap SplinkIds # {} THEN S \cap SplinkIds ELSE S

\* Mutant: clusters are looked up by source id alone.
KnownById(s) == [k \in Keys |->
  LET S == {r.cluster : r \in {q \in records : q.key[2] = k[2]}} IN
  IF SystemOf[k[1]] = s /\ S # {} THEN CHOOSE c \in Preferred(S) : TRUE
                                ELSE NoCluster]

\* cluster_by_key for the sources of system s.  Of several clusters of the
\* same sort a key keeps the first the query returns.
Known(s) == [k \in Keys |->
  LET S == ClustersOf(records, k) IN
  IF SystemOf[k[1]] = s /\ S # {} THEN CHOOSE c \in Preferred(S) : TRUE
                                ELSE NoCluster]

\* The CSV file of the next system, and the clusters its keys have in the
\* mesh, read in one query before the first row is written.  A missing file
\* is skipped, which an empty one does as well.
OpenCsv(s) ==
  /\ pc = "systems" /\ s \in todo
  /\ todo' = todo \ {s}
  /\ csv' \in CsvFiles[s]
  /\ line' = 1
  /\ cluster' = Known(s)
  /\ pc' = "delete"
  /\ UNCHANGED <<tables, status, news, crashes>>

\* Mutant: the rows the mesh has of the key stay.
DeleteNothing ==
  /\ pc = "delete" /\ line <= Len(csv)
  /\ LET k == csv[line].key IN
       IF cluster[k] # NoCluster
         THEN UNCHANGED <<cluster, news>>
         ELSE /\ news < MaxNew
              /\ news' = news + 1
              /\ cluster' = [cluster EXCEPT ![k] = news + 1]
  /\ pc' = "insert"
  /\ UNCHANGED <<tables, status, todo, csv, line, crashes>>

\* The next row of the file: its key keeps its cluster or gets a temporary
\* one, and the rows the mesh has of the key go.
Delete ==
  /\ pc = "delete" /\ line <= Len(csv)
  /\ LET k == csv[line].key IN
     /\ IF cluster[k] # NoCluster
          THEN UNCHANGED <<cluster, news>>
          ELSE /\ news < MaxNew
               /\ news' = news + 1
               /\ cluster' = [cluster EXCEPT ![k] = news + 1]
     /\ records' = records \ RowsOf(records, k)
  /\ pc' = "insert"
  /\ UNCHANGED <<exists, devices, status, todo, csv, line, crashes>>

\* ... and the row comes in their place.
Insert ==
  /\ pc = "insert"
  /\ LET r == csv[line] IN
       records' = records \cup
         {[key |-> r.key, cluster |-> cluster[r.key], val |-> r.val]}
  /\ line' = line + 1
  /\ pc' = "delete"
  /\ UNCHANGED <<exists, devices, status, todo, csv, cluster, news, crashes>>

\* Mutant: the line number survives the file.
CloseWithoutReset ==
  /\ pc = "delete" /\ line > Len(csv)
  /\ csv' = <<>>
  /\ cluster' = Nothing
  /\ pc' = "systems"
  /\ UNCHANGED <<tables, status, todo, line, news, crashes>>

\* The end of the file.
CloseCsv ==
  /\ pc = "delete" /\ line > Len(csv)
  /\ csv' = <<>>
  /\ line' = 1
  /\ cluster' = Nothing
  /\ pc' = "systems"
  /\ UNCHANGED <<tables, status, todo, news, crashes>>

\* After the last file the devices table is built anew.
BuildDevices ==
  /\ pc = "systems" /\ todo = {}
  /\ devices' = DevicesOf(records)
  /\ pc' = "close"
  /\ UNCHANGED <<exists, records, status, reading, news, crashes>>

\* CHECKPOINT, close and record_done.
Done ==
  /\ pc = "close"
  /\ status' = "done"
  /\ pc' = "idle"
  /\ UNCHANGED <<tables, reading, news, crashes>>

\* A statement that raises, or the process dies: what was committed stays,
\* and so does the status.
Crash ==
  /\ pc # "idle" /\ crashes < MaxCrashes
  /\ crashes' = crashes + 1
  /\ pc' = "idle"
  /\ todo' = {}
  /\ csv' = <<>>
  /\ line' = 1
  /\ cluster' = Nothing
  /\ UNCHANGED <<tables, status, news>>

Next ==
  \/ FullLoad \/ Open \/ Delete \/ Insert \/ CloseCsv \/ BuildDevices \/ Done
  \/ Crash
  \/ \E s \in Systems : OpenCsv(s)

Spec == Init /\ [][Next]_vars

-----------------------------------------------------------------------------
(* Properties.                                                             *)

\* The clusters the mesh lists a key in; a key whose rows the load has just
\* deleted is listed where it is going to insert it.
Owner == [k \in Keys |->
  IF pc = "insert" /\ k = csv[line].key
    THEN {cluster[k]}
    ELSE ClustersOf(records, k)]

Registry == INSTANCE ClusterRegistry WITH owner <- Owner

\* Between full loads a known record never changes a resolved cluster for
\* another, a new record never joins a cluster, and a crash costs at most
\* one record: the load implements ClusterRegistry (cluster_by_key and the
\* DELETE and INSERT of run_incremental_load).
ImplementsRegistry == Registry!Spec

\* When a CSV file has been read, the mesh has exactly one row of every key in
\* it, with the content of the key's last line ("True upsert").
EveryRowUpserted ==
  pc = "delete" /\ line > Len(csv) =>
    \A i \in DOMAIN csv :
      (\A j \in DOMAIN csv : csv[j].key = csv[i].key => j <= i)
        => \E c \in Clusters : RowsOf(records, csv[i].key) =
             {[key |-> csv[i].key, cluster |-> c, val |-> csv[i].val]}

\* A sync never makes one device of two records: a temporary cluster has the
\* rows of one key (the uuid of the new- ids, and the lookup by source and id).
NoMergeWithoutSplink ==
  \A r, s \in records :
    r.cluster = s.cluster /\ r.cluster \in NewIds => r.key = s.key

\* A load that status.json reports as done has left a devices table that lists
\* the clusters of source_records and no others, with all their records.
DoneMeansRebuilt == status = "done" => devices = DevicesOf(records)

\* The missing id of a table row and of a CSV row are the same text.
Text(k) == IF k[2] = NullId THEN <<k[1], EmptyId>> ELSE k

\* "keeps exactly one row per (source, source_id)": when a file has been read
\* into a mesh, no record of it has two rows there.  The code keeps the rows
\* that a full load left under a NULL source_id.
OneRowPerRecord ==
  pc = "delete" /\ line > Len(csv) =>
    \A i \in DOMAIN csv : \A r, s \in records :
      Text(r.key) = csv[i].key /\ Text(s.key) = csv[i].key => r = s
=============================================================================
