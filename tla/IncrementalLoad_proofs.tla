----------------------- MODULE IncrementalLoad_proofs -----------------------
(***************************************************************************)
(* Proofs about the incremental load, for any systems, sources, ids,       *)
(* contents, files and number of interrupted loads.                        *)
(***************************************************************************)
EXTENDS IncrementalLoad, TLAPS

\* In the load of a file, what is in memory is right for the mesh on disk: a
\* key is unknown when the mesh does not list it, else its cluster is one the
\* key may keep.
Memory ==
  pc \in {"delete", "insert"} =>
    \A i \in DOMAIN csv : LET k == csv[i].key IN
      IF Owner[k] = {} THEN cluster[k] = NoCluster
                       ELSE cluster[k] \in Preferred(Owner[k])

\* Between a DELETE and its INSERT the key has a cluster and no row.
Deleted ==
  pc = "insert" =>
    /\ cluster[csv[line].key] \in Clusters
    /\ RowsOf(records, csv[line].key) = {}

\* No temporary cluster in use is one that is still to be handed out.
Fresh == \A k \in Keys : \A c \in Owner[k] \cap NewIds : c <= news

\* A temporary cluster has one key.
Unshared ==
  \A j, k \in Keys : \A c \in NewIds : c \in Owner[j] /\ c \in Owner[k] => j = k

\* The lines that have been read are in the mesh, unless a later line of the
\* same key has been read or is being written.
Upserted ==
  pc \in {"delete", "insert"} =>
    \A i \in 1 .. line - 1 :
      /\ \A j \in i + 1 .. line - 1 : csv[j].key # csv[i].key
      /\ pc = "insert" => csv[line].key # csv[i].key
      => \E c \in Clusters : RowsOf(records, csv[i].key) =
           {[key |-> csv[i].key, cluster |-> c, val |-> csv[i].val]}

\* The devices table is right where the status depends on it.
Rebuilt ==
  /\ pc # "idle" => status = "running"
  /\ pc = "close" \/ status = "done" => devices = DevicesOf(records)

IInv ==
  /\ TypeOK
  /\ Memory
  /\ Deleted
  /\ Fresh
  /\ Unshared
  /\ Upserted
  /\ Rebuilt

-----------------------------------------------------------------------------
(* Tables.                                                                 *)

\* Rows taken from a set are rows of that set.
LEMMA TablesType ==
  ASSUME NEW S, NEW t \in TablesOf(S)
  PROVE  t \subseteq S
<1>1. PICK n \in 0 .. MaxRows : t \in {{f[i] : i \in 1 .. n} : f \in [1 .. n -> S]}
  BY DEF TablesOf
<1>2. PICK f \in [1 .. n -> S] : t = {f[i] : i \in 1 .. n}
  BY <1>1
<1> QED BY <1>2

\* Every table the model starts or loads is one of source_records.
LEMMA LoadedType ==
  ASSUME NEW t \in LoadedTables
  PROVE  /\ t \subseteq Row
         /\ \A r \in t : r.cluster \in SplinkIds
<1>1. t \subseteq [key : MeshKeys, cluster : SplinkIds, val : Vals]
  BY TablesType DEF LoadedTables
<1> QED BY <1>1 DEF Row, MeshKeys, Keys, Clusters

LEMMA OldType ==
  ASSUME NEW t \in OldTables
  PROVE  /\ t \subseteq Row
         /\ \A r \in t : r.cluster \in SplinkIds \cup {1}
         /\ \A r, s \in t : r.cluster = 1 /\ s.cluster = 1 => r.key = s.key
<1>1. t \subseteq [key : Sources \X Ids, cluster : SplinkIds \cup {1}, val : Vals]
  BY TablesType DEF OldTables
<1>2. 1 \in Clusters
  BY ConstantsAssumption DEF Clusters, NewIds
<1>3. t \subseteq Row
  BY <1>1, <1>2 DEF Row, Keys, Clusters
<1>4. \A r \in t : r.cluster \in SplinkIds \cup {1}
  BY <1>1
<1>5. \A r, s \in t : r.cluster = 1 /\ s.cluster = 1 => r.key = s.key
  BY DEF OldTables
<1> QED BY <1>3, <1>4, <1>5

\* A group of the devices table is a cluster with rows.
LEMMA DevicesType ==
  ASSUME NEW t, t \subseteq Row
  PROVE  DevicesOf(t) \subseteq [id : Clusters, members : SUBSET Row]
BY DEF DevicesOf, Row

\* The clusters of a key are those of its rows.
LEMMA ClustersIn ==
  ASSUME NEW t, NEW k, NEW c
  PROVE  c \in ClustersOf(t, k) <=> \E r \in t : r.key = k /\ r.cluster = c
BY DEF ClustersOf, RowsOf

LEMMA ClustersType ==
  ASSUME NEW t, t \subseteq Row, NEW k
  PROVE  ClustersOf(t, k) \subseteq Clusters
BY DEF ClustersOf, RowsOf, Row

\* A key may keep one of its clusters, a resolved one if it has any.
LEMMA PreferredKeeps ==
  ASSUME NEW S
  PROVE  /\ Preferred(S) \subseteq S
         /\ S # {} => Preferred(S) # {}
         /\ \A c \in Preferred(S) : S \cap SplinkIds # {} => c \in SplinkIds
         /\ \A c : c \in Preferred({c})
BY DEF Preferred

\* Deleting the rows of one key leaves the others.
LEMMA DeleteRows ==
  ASSUME NEW t, NEW k, NEW j
  PROVE  RowsOf(t \ RowsOf(t, k), j) = IF j = k THEN {} ELSE RowsOf(t, j)
BY DEF RowsOf

-----------------------------------------------------------------------------
(* The state.                                                              *)

\* The key of a line is a key.
LEMMA RowKey ==
  ASSUME NEW f \in Seq(CsvRow), NEW i \in DOMAIN f
  PROVE  f[i].key \in Keys /\ f[i].val \in Vals
<1>1. f[i] \in CsvRow
  OBVIOUS
<1> QED BY <1>1 DEF CsvRow, CsvKeys, Keys

LEMMA LineKey ==
  ASSUME TypeOK, NEW i \in DOMAIN csv
  PROVE  csv[i].key \in Keys /\ csv[i].val \in Vals
BY RowKey DEF TypeOK

\* A file that is opened is a sequence of rows.
LEMMA FileType ==
  ASSUME NEW s \in Systems, NEW f \in CsvFiles[s]
  PROVE  f \in Seq(CsvRow)
<1>1. PICK n \in 0 .. MaxRows : f \in [1 .. n -> CsvRow]
  BY DEF CsvFiles
<1> QED BY <1>1, ConstantsAssumption

\* What a key can keep is a cluster of its rows.
LEMMA KnownType ==
  ASSUME TypeOK, NEW s \in Systems, NEW k \in Keys
  PROVE  /\ Known(s)[k] \in Clusters \cup {NoCluster}
         /\ SystemOf[k[1]] = s =>
              IF ClustersOf(records, k) = {}
                THEN Known(s)[k] = NoCluster
                ELSE Known(s)[k] \in Preferred(ClustersOf(records, k))
<1> DEFINE S == ClustersOf(records, k)
<1>1. S \subseteq Clusters
  BY ClustersType DEF TypeOK
<1>2. Known(s)[k] = IF SystemOf[k[1]] = s /\ S # {}
                      THEN CHOOSE c \in Preferred(S) : TRUE
                      ELSE NoCluster
  BY DEF Known
<1>3. S # {} => (CHOOSE c \in Preferred(S) : TRUE) \in Preferred(S)
  BY PreferredKeeps
<1>4. Preferred(S) \subseteq Clusters
  BY <1>1, PreferredKeeps
<1> HIDE DEF S
<1>5. QED BY <1>2, <1>3, <1>4 DEF S

\* The mesh lists keys in clusters.
LEMMA OwnerType ==
  ASSUME TypeOK, Deleted
  PROVE  /\ Owner \in [Keys -> SUBSET Clusters]
         /\ pc # "insert" => Owner = [k \in Keys |-> ClustersOf(records, k)]
<1>1. \A k \in Keys : ClustersOf(records, k) \subseteq Clusters
  BY ClustersType DEF TypeOK
<1> QED BY <1>1 DEF Owner, Deleted

\* As long as neither the table nor the writing of a row changes, the mesh
\* lists the same.
LEMMA SameOwner ==
  ASSUME records' = records, pc # "insert", pc' # "insert"
  PROVE  Owner' = Owner
BY DEF Owner

-----------------------------------------------------------------------------
(* Each action keeps the invariant.                                        *)

LEMMA InitStep ==
  ASSUME Init
  PROVE  IInv
<1>1. \A r \in records : r.cluster \in SplinkIds \cup {1}
  BY OldType DEF Init
<1>2. records \subseteq Row
  BY OldType DEF Init
<1>3. TypeOK
  <2>1. devices \subseteq [id : Clusters, members : SUBSET Row]
    BY <1>2, DevicesType DEF Init
  <2>2. Nothing \in [Keys -> Clusters \cup {NoCluster}]
    BY DEF Nothing
  <2>3. <<>> \in Seq(CsvRow) /\ Len(<<>>) = 0
    OBVIOUS
  <2> QED BY <1>2, <2>1, <2>2, <2>3, ConstantsAssumption DEF Init, TypeOK
<1>4. Memory /\ Deleted /\ Upserted /\ Rebuilt
  BY DEF Init, Memory, Deleted, Upserted, Rebuilt
<1>5. \A k \in Keys, c \in NewIds :
        c \in Owner[k] => \E r \in records : r.key = k /\ r.cluster = c
  BY ClustersIn DEF Init, Owner
<1>6. \A c \in SplinkIds : c \notin NewIds
  BY ConstantsAssumption DEF NewIds
<1>7. Fresh
  BY <1>1, <1>5, <1>6, ConstantsAssumption DEF Fresh, Init, NewIds
<1>8. \A r, s \in records : r.cluster = 1 /\ s.cluster = 1 => r.key = s.key
  BY OldType DEF Init
<1>9. Unshared
  BY <1>1, <1>5, <1>6, <1>8 DEF Unshared
<1> QED BY <1>3, <1>4, <1>7, <1>9 DEF IInv

LEMMA FullLoadStep ==
  ASSUME IInv, FullLoad
  PROVE  IInv'
<1>1. /\ records' \subseteq Row
      /\ \A r \in records' : r.cluster \in SplinkIds
  BY LoadedType DEF FullLoad
<1>2. TypeOK'
  <2>1. devices' \subseteq [id : Clusters, members : SUBSET Row]
    BY <1>1, DevicesType DEF FullLoad
  <2> QED BY <1>1, <2>1 DEF IInv, TypeOK, FullLoad, reading
<1>3. Memory' /\ Deleted' /\ Upserted'
  BY DEF FullLoad, Memory, Deleted, Upserted
<1>4. Rebuilt'
  BY DEF IInv, Rebuilt, FullLoad, DevicesOf
<1>5. \A c \in SplinkIds : c \notin NewIds
  BY ConstantsAssumption DEF NewIds
<1>6. \A k \in Keys : \A c \in NewIds : c \notin Owner'[k]
  <2>1. Owner' = [k \in Keys |-> ClustersOf(records', k)]
    BY DEF Owner, FullLoad
  <2> QED BY <1>1, <1>5, <2>1, ClustersIn
<1>7. Fresh' /\ Unshared'
  BY <1>6 DEF Fresh, Unshared
<1> QED BY <1>2, <1>3, <1>4, <1>7 DEF IInv

\* A step that leaves the listing and the counter alone keeps what is said
\* about temporary clusters.
LEMMA SameListing ==
  ASSUME Fresh, Unshared, Owner' = Owner, news' = news
  PROVE  Fresh' /\ Unshared'
BY DEF Fresh, Unshared

LEMMA OpenStep ==
  ASSUME IInv, Open
  PROVE  IInv'
<1>1. TypeOK'
  BY DEF IInv, TypeOK, Open, tables
<1>2. Memory' /\ Deleted' /\ Upserted'
  BY DEF Open, Memory, Deleted, Upserted
<1>3. Rebuilt'
  BY DEF Open, Rebuilt
<1>4. Fresh' /\ Unshared'
  BY SameOwner, SameListing DEF IInv, Open, tables
<1> QED BY <1>1, <1>2, <1>3, <1>4 DEF IInv

LEMMA OpenCsvStep ==
  ASSUME IInv, NEW s \in Systems, OpenCsv(s)
  PROVE  IInv'
<1>1. csv' \in Seq(CsvRow)
  BY FileType DEF OpenCsv
<1>2. TypeOK'
  <2>1. Known(s) \in [Keys -> Clusters \cup {NoCluster}]
    <3>1. Known(s) = [k \in Keys |-> Known(s)[k]]
      BY DEF Known
    <3> QED BY <3>1, KnownType DEF IInv
  <2>2. Len(csv') \in Nat
    BY <1>1
  <2> QED BY <1>1, <2>1, <2>2 DEF IInv, TypeOK, OpenCsv, tables
<1>3. Owner' = [k \in Keys |-> ClustersOf(records, k)]
  BY DEF OpenCsv, Owner, tables
<1>4. Memory'
  <2> SUFFICES ASSUME NEW i \in DOMAIN csv'
               PROVE  LET k == csv'[i].key IN
                        IF Owner'[k] = {} THEN cluster'[k] = NoCluster
                                          ELSE cluster'[k] \in Preferred(Owner'[k])
    BY DEF Memory
  <2>1. csv'[i].key \in Keys
    BY <1>1, RowKey
  <2>2. SystemOf[csv'[i].key[1]] = s
    <3>1. csv' \in CsvFiles[s]
      BY DEF OpenCsv
    <3> QED BY <3>1 DEF CsvFiles
  <2>3. cluster' = Known(s)
    BY DEF OpenCsv
  <2> QED BY <1>3, <2>1, <2>2, <2>3, KnownType DEF IInv
<1>5. Deleted' /\ Upserted'
  BY DEF OpenCsv, Deleted, Upserted
<1>6. Rebuilt'
  BY DEF IInv, OpenCsv, Rebuilt, tables
<1>7. Fresh' /\ Unshared'
  BY SameOwner, SameListing DEF IInv, OpenCsv, tables
<1> QED BY <1>2, <1>4, <1>5, <1>6, <1>7 DEF IInv

LEMMA CloseCsvStep ==
  ASSUME IInv, CloseCsv
  PROVE  IInv'
<1>1. TypeOK'
  <2>1. <<>> \in Seq(CsvRow) /\ Len(<<>>) = 0
    OBVIOUS
  <2>2. Nothing \in [Keys -> Clusters \cup {NoCluster}]
    BY DEF Nothing
  <2> QED BY <2>1, <2>2 DEF IInv, TypeOK, CloseCsv, tables
<1>2. Memory' /\ Deleted' /\ Upserted'
  BY DEF CloseCsv, Memory, Deleted, Upserted
<1>3. Rebuilt'
  BY DEF IInv, CloseCsv, Rebuilt, tables
<1>4. Fresh' /\ Unshared'
  BY SameOwner, SameListing DEF IInv, CloseCsv, tables
<1> QED BY <1>1, <1>2, <1>3, <1>4 DEF IInv

LEMMA BuildDevicesStep ==
  ASSUME IInv, BuildDevices
  PROVE  IInv'
<1>1. TypeOK'
  BY DevicesType DEF IInv, TypeOK, BuildDevices, reading
<1>2. Memory' /\ Deleted' /\ Upserted'
  BY DEF BuildDevices, Memory, Deleted, Upserted
<1>3. Rebuilt'
  BY DEF IInv, BuildDevices, Rebuilt, DevicesOf
<1>4. Fresh' /\ Unshared'
  BY SameOwner, SameListing DEF IInv, BuildDevices
<1> QED BY <1>1, <1>2, <1>3, <1>4 DEF IInv

LEMMA DoneStep ==
  ASSUME IInv, Done
  PROVE  IInv'
<1>1. TypeOK'
  BY DEF IInv, TypeOK, Done, tables, reading
<1>2. Memory' /\ Deleted' /\ Upserted'
  BY DEF Done, Memory, Deleted, Upserted
<1>3. Rebuilt'
  BY DEF IInv, Done, Rebuilt, DevicesOf, tables
<1>4. Fresh' /\ Unshared'
  BY SameOwner, SameListing DEF IInv, Done, tables
<1> QED BY <1>1, <1>2, <1>3, <1>4 DEF IInv

\* A crash between DELETE and INSERT drops the key from the listing.
LEMMA CrashOwner ==
  ASSUME IInv, Crash
  PROVE  Owner' = IF pc = "insert"
                    THEN [Owner EXCEPT ![csv[line].key] = {}]
                    ELSE Owner
<1>1. Owner' = [k \in Keys |-> ClustersOf(records, k)]
  BY DEF Crash, Owner, tables
<1>2. CASE pc # "insert"
  BY <1>1, <1>2, OwnerType DEF IInv
<1>3. CASE pc = "insert"
  <2>1. ClustersOf(records, csv[line].key) = {}
    BY <1>3 DEF IInv, Deleted, ClustersOf
  <2> QED BY <1>1, <1>3, <2>1 DEF Owner
<1> QED BY <1>2, <1>3

LEMMA CrashStep ==
  ASSUME IInv, Crash
  PROVE  IInv'
<1>1. TypeOK'
  <2>1. <<>> \in Seq(CsvRow) /\ Len(<<>>) = 0
    OBVIOUS
  <2>2. Nothing \in [Keys -> Clusters \cup {NoCluster}]
    BY DEF Nothing
  <2> QED BY <2>1, <2>2, ConstantsAssumption DEF IInv, TypeOK, Crash, tables
<1>2. Memory' /\ Deleted' /\ Upserted'
  BY DEF Crash, Memory, Deleted, Upserted
<1>3. Rebuilt'
  BY DEF IInv, Crash, Rebuilt, DevicesOf, tables
<1>4. \A k \in Keys : Owner'[k] \subseteq Owner[k]
  BY CrashOwner, OwnerType DEF IInv
<1>5. Fresh' /\ Unshared'
  BY <1>4 DEF IInv, Fresh, Unshared, Crash
<1> QED BY <1>1, <1>2, <1>3, <1>5 DEF IInv

-----------------------------------------------------------------------------
(* The two statements that write a row.                                    *)

\* After a DELETE the mesh lists the key of the line in the cluster the load
\* has for it, and nothing else has changed.
LEMMA DeleteOwner ==
  ASSUME IInv, Delete
  PROVE  LET k == csv[line].key IN
         /\ k \in Keys
         /\ Owner' = [Owner EXCEPT ![k] = {cluster'[k]}]
         /\ cluster' \in [Keys -> Clusters \cup {NoCluster}]
         /\ cluster'[k] \in Clusters
         /\ \A j \in Keys \ {k} : cluster'[j] = cluster[j]
         /\ \/ /\ Owner[k] # {}
               /\ cluster'[k] \in Preferred(Owner[k])
               /\ news' = news
            \/ /\ Owner[k] = {}
               /\ cluster'[k] = news + 1
               /\ news < MaxNew
               /\ news' = news + 1
<1> DEFINE k == csv[line].key
<1>1. line \in DOMAIN csv
  BY DEF IInv, TypeOK, Delete
<1>2. k \in Keys
  BY <1>1, LineKey DEF IInv
<1>3. Owner = [j \in Keys |-> ClustersOf(records, j)]
  BY OwnerType DEF IInv, Delete
<1>4. Owner' = [j \in Keys |-> IF j = k THEN {cluster'[k]}
                                       ELSE ClustersOf(records', j)]
  BY DEF Owner, Delete
<1>5. \A j \in Keys \ {k} : ClustersOf(records', j) = ClustersOf(records, j)
  BY DeleteRows DEF Delete, ClustersOf
<1>6. Owner' = [Owner EXCEPT ![k] = {cluster'[k]}]
  BY <1>2, <1>3, <1>4, <1>5
<1>7. IF Owner[k] = {} THEN cluster[k] = NoCluster
                       ELSE cluster[k] \in Preferred(Owner[k])
  BY <1>1 DEF IInv, Memory, Delete
<1>8. Owner[k] \subseteq Clusters
  BY <1>2, OwnerType DEF IInv
<1>9. CASE cluster[k] = NoCluster
  <2>1. Owner[k] = {}
    BY <1>7, <1>8, <1>9, PreferredKeeps, ConstantsAssumption
  <2>2. news < MaxNew /\ news' = news + 1
    BY <1>9 DEF Delete
  <2>3. news + 1 \in Clusters
    BY <2>2, ConstantsAssumption DEF Clusters, NewIds, IInv, TypeOK
  <2>4. cluster' = [cluster EXCEPT ![k] = news + 1]
    BY <1>9 DEF Delete
  <2> QED BY <1>2, <1>6, <2>1, <2>2, <2>3, <2>4 DEF IInv, TypeOK
<1>10. CASE cluster[k] # NoCluster
  <2>1. cluster' = cluster /\ news' = news
    BY <1>10 DEF Delete
  <2>2. Owner[k] # {} /\ cluster[k] \in Preferred(Owner[k])
    BY <1>7, <1>10
  <2>3. cluster[k] \in Clusters
    BY <1>8, <2>2, PreferredKeeps
  <2> QED BY <1>2, <1>6, <2>1, <2>2, <2>3 DEF IInv, TypeOK
<1> QED BY <1>9, <1>10

\* After an INSERT the row is there, and the listing is the same.
LEMMA InsertOwner ==
  ASSUME IInv, Insert
  PROVE  /\ line \in DOMAIN csv
         /\ csv[line].key \in Keys
         /\ cluster[csv[line].key] \in Clusters
         /\ Owner' = Owner
         /\ \A k \in Keys :
              RowsOf(records', k) =
                IF k = csv[line].key
                  THEN {[key |-> k, cluster |-> cluster[k], val |-> csv[line].val]}
                  ELSE RowsOf(records, k)
<1> DEFINE k == csv[line].key
<1>1. line \in DOMAIN csv
  BY DEF IInv, TypeOK, Insert
<1>2. k \in Keys
  BY <1>1, LineKey DEF IInv
<1>3. cluster[k] \in Clusters /\ RowsOf(records, k) = {}
  BY DEF IInv, Deleted, Insert
<1> DEFINE row == [key |-> k, cluster |-> cluster[k], val |-> csv[line].val]
<1>4. records' = records \cup {row} /\ row.key = k /\ row.cluster = cluster[k]
  BY DEF Insert
<1>5. ASSUME NEW j \in Keys
      PROVE  RowsOf(records', j) =
               IF j = k
                 THEN {[key |-> j, cluster |-> cluster[j], val |-> csv[line].val]}
                 ELSE RowsOf(records, j)
  <2>1. CASE j = k
    <3>1. RowsOf(records', j) = {row}
      <4> HIDE DEF row, k
      <4> QED BY <1>3, <1>4, <2>1 DEF RowsOf
    <3> QED BY <2>1, <3>1
  <2>2. CASE j # k
    <3> HIDE DEF row, k
    <3> QED BY <1>4, <2>2 DEF RowsOf
  <2> QED BY <2>1, <2>2
<1>6. ASSUME NEW j \in Keys
      PROVE  ClustersOf(records', j) =
               IF j = k THEN {cluster[j]} ELSE ClustersOf(records, j)
  <2>1. ClustersOf(records, k) = {}
    BY <1>3 DEF ClustersOf
  <2> HIDE DEF row, k
  <2>2. CASE j = k
    BY <1>4, <2>1, <2>2 DEF ClustersOf, RowsOf
  <2>3. CASE j # k
    BY <1>4, <2>3 DEF ClustersOf, RowsOf
  <2> QED BY <2>2, <2>3
<1>7. Owner' = Owner
  BY <1>6 DEF Owner, Insert
<1> QED BY <1>1, <1>2, <1>3, <1>5, <1>7

LEMMA DeleteStep ==
  ASSUME IInv, Delete
  PROVE  IInv'
<1> DEFINE k == csv[line].key
           d == cluster'[k]
<1>1. /\ line \in DOMAIN csv
      /\ csv' = csv /\ line' = line /\ pc' = "insert"
      /\ records' = records \ RowsOf(records, k)
  BY DEF IInv, TypeOK, Delete
<1>2. /\ k \in Keys
      /\ Owner' = [Owner EXCEPT ![k] = {d}]
      /\ cluster' \in [Keys -> Clusters \cup {NoCluster}]
      /\ d \in Clusters
      /\ \A j \in Keys \ {k} : cluster'[j] = cluster[j]
      /\ \/ Owner[k] # {} /\ d \in Preferred(Owner[k]) /\ news' = news
         \/ Owner[k] = {} /\ d = news + 1 /\ news < MaxNew /\ news' = news + 1
  BY DeleteOwner
<1>3. Owner \in [Keys -> SUBSET Clusters]
  BY OwnerType DEF IInv
<1>4. Preferred(Owner[k]) \subseteq Owner[k]
  BY PreferredKeeps
<1> HIDE DEF d
<1>5. TypeOK'
  <2>1. news' \in 0 .. MaxNew
    BY <1>2, ConstantsAssumption DEF IInv, TypeOK
  <2>2. line' <= Len(csv')
    BY <1>1 DEF Delete
  <2> QED BY <1>1, <1>2, <2>1, <2>2 DEF IInv, TypeOK, Delete
<1>6. Memory'
  <2> SUFFICES ASSUME NEW i \in DOMAIN csv
               PROVE  LET m == csv[i].key IN
                        IF Owner'[m] = {} THEN cluster'[m] = NoCluster
                                          ELSE cluster'[m] \in Preferred(Owner'[m])
    BY <1>1 DEF Memory
  <2>1. csv[i].key \in Keys
    BY LineKey DEF IInv
  <2>2. CASE csv[i].key = k
    <3>1. d \in Preferred({d})
      BY PreferredKeeps
    <3> QED BY <1>2, <1>3, <2>2, <3>1 DEF d
  <2>3. CASE csv[i].key # k
    BY <1>2, <1>3, <2>1, <2>3 DEF IInv, Memory, Delete
  <2> QED BY <2>2, <2>3
<1>7. Deleted'
  BY <1>1, <1>2 DEF Deleted, RowsOf, d
<1>8. Fresh'
  BY <1>2, <1>3, <1>4, ConstantsAssumption DEF IInv, TypeOK, Fresh, NewIds
<1>9. Unshared'
  <2> SUFFICES ASSUME NEW i \in Keys, NEW j \in Keys, NEW c \in NewIds,
                      c \in Owner'[i], c \in Owner'[j]
               PROVE  i = j
    BY DEF Unshared
  <2>1. CASE i # k /\ j # k
    BY <1>2, <1>3, <2>1 DEF IInv, Unshared
  <2>2. ASSUME NEW m \in Keys, m # k, c \in Owner'[m] PROVE c # d
    <3>1. c \in Owner[m]
      BY <1>2, <1>3, <2>2
    <3>2. c <= news
      BY <3>1 DEF IInv, Fresh
    <3>3. CASE Owner[k] # {} /\ d \in Preferred(Owner[k])
      BY <1>2, <1>4, <2>2, <3>1, <3>3 DEF IInv, Unshared
    <3>4. CASE d = news + 1
      BY <3>2, <3>4 DEF NewIds, IInv, TypeOK
    <3> QED BY <1>2, <3>3, <3>4
  <2> QED BY <1>2, <1>3, <2>1, <2>2
<1>10. Upserted'
  <2> SUFFICES ASSUME NEW i \in 1 .. line - 1,
                      \A j \in i + 1 .. line - 1 : csv[j].key # csv[i].key,
                      k # csv[i].key
               PROVE  \E c \in Clusters : RowsOf(records', csv[i].key) =
                        {[key |-> csv[i].key, cluster |-> c, val |-> csv[i].val]}
    BY <1>1 DEF Upserted
  <2>1. RowsOf(records', csv[i].key) = RowsOf(records, csv[i].key)
    BY <1>1, DeleteRows
  <2> QED BY <2>1 DEF IInv, Upserted, Delete
<1>11. Rebuilt'
  BY DEF IInv, Rebuilt, Delete
<1> QED BY <1>5, <1>6, <1>7, <1>8, <1>9, <1>10, <1>11 DEF IInv

LEMMA InsertStep ==
  ASSUME IInv, Insert
  PROVE  IInv'
<1> DEFINE k == csv[line].key
<1>1. /\ line \in DOMAIN csv
      /\ k \in Keys
      /\ cluster[k] \in Clusters
      /\ Owner' = Owner
      /\ \A j \in Keys :
           RowsOf(records', j) =
             IF j = k
               THEN {[key |-> j, cluster |-> cluster[j], val |-> csv[line].val]}
               ELSE RowsOf(records, j)
  BY InsertOwner
<1>2. /\ csv' = csv /\ line' = line + 1 /\ pc' = "delete"
      /\ cluster' = cluster /\ news' = news
  BY DEF Insert
<1>3. TypeOK'
  <2>1. [key |-> k, cluster |-> cluster[k], val |-> csv[line].val] \in Row
    BY <1>1, LineKey DEF IInv, Row
  <2>2. records' \subseteq Row
    BY <2>1 DEF Insert, IInv, TypeOK
  <2>3. line' \in 1 .. Len(csv') + 1
    BY <1>1, <1>2 DEF IInv, TypeOK
  <2> QED BY <1>2, <2>2, <2>3 DEF IInv, TypeOK, Insert
<1>4. Memory'
  BY <1>1, <1>2 DEF IInv, Memory, Insert
<1>5. Deleted'
  BY <1>2 DEF Deleted
<1>6. Fresh' /\ Unshared'
  BY <1>1, <1>2, SameListing DEF IInv
<1>7. Upserted'
  <2> SUFFICES ASSUME NEW i \in 1 .. line,
                      \A j \in i + 1 .. line : csv[j].key # csv[i].key
               PROVE  \E c \in Clusters : RowsOf(records', csv[i].key) =
                        {[key |-> csv[i].key, cluster |-> c, val |-> csv[i].val]}
    <3>1. line \in Nat
      BY DEF IInv, TypeOK
    <3> QED BY <1>2, <3>1 DEF Upserted
  <2>1. line \in Nat /\ i \in DOMAIN csv
    BY <1>1 DEF IInv, TypeOK
  <2>2. csv[i].key \in Keys
    BY <2>1, LineKey DEF IInv
  <2>3. CASE i = line
    BY <1>1, <2>3
  <2>4. CASE i # line
    <3>1. i \in 1 .. line - 1 /\ line \in i + 1 .. line
      BY <2>1, <2>4
    <3>2. csv[line].key # csv[i].key
      BY <3>1
    <3>3. \A j \in i + 1 .. line - 1 : csv[j].key # csv[i].key
      BY <2>1
    <3>4. \E c \in Clusters : RowsOf(records, csv[i].key) =
             {[key |-> csv[i].key, cluster |-> c, val |-> csv[i].val]}
      BY <3>1, <3>2, <3>3 DEF IInv, Upserted, Insert
    <3> QED BY <1>1, <2>2, <3>2, <3>4
  <2> QED BY <2>3, <2>4
<1>8. Rebuilt'
  BY DEF IInv, Rebuilt, Insert
<1> QED BY <1>3, <1>4, <1>5, <1>6, <1>7, <1>8 DEF IInv

LEMMA StutterStep ==
  ASSUME IInv, UNCHANGED vars
  PROVE  IInv'
<1>1. Owner' = Owner
  BY DEF vars, Owner
<1>2. TypeOK' /\ Deleted' /\ Rebuilt'
  BY DEF vars, IInv, TypeOK, Deleted, Rebuilt, DevicesOf
<1>3. Memory' /\ Fresh' /\ Unshared' /\ Upserted'
  BY <1>1 DEF vars, IInv, Memory, Fresh, Unshared, Upserted
<1> QED BY <1>2, <1>3 DEF IInv

-----------------------------------------------------------------------------
(* The theorems.                                                           *)

\* IInv is an invariant.
THEOREM Invariance == Spec => []IInv
<1>1. Init => IInv
  BY InitStep
<1>2. IInv /\ [Next]_vars => IInv'
  <2> SUFFICES ASSUME IInv, [Next]_vars
               PROVE  IInv'
    OBVIOUS
  <2>1. CASE FullLoad BY <2>1, FullLoadStep
  <2>2. CASE Open BY <2>2, OpenStep
  <2>3. ASSUME NEW s \in Systems, OpenCsv(s) PROVE IInv'
    BY <2>3, OpenCsvStep
  <2>4. CASE Delete BY <2>4, DeleteStep
  <2>5. CASE Insert BY <2>5, InsertStep
  <2>6. CASE CloseCsv BY <2>6, CloseCsvStep
  <2>7. CASE BuildDevices BY <2>7, BuildDevicesStep
  <2>8. CASE Done BY <2>8, DoneStep
  <2>9. CASE Crash BY <2>9, CrashStep
  <2>10. CASE UNCHANGED vars BY <2>10, StutterStep
  <2> QED BY <2>1, <2>2, <2>3, <2>4, <2>5, <2>6, <2>7, <2>8, <2>9, <2>10 DEF Next
<1> QED BY <1>1, <1>2, PTL DEF Spec

\* Every variable keeps its type.
THEOREM TypeCorrect == Spec => []TypeOK
<1>1. IInv => TypeOK
  BY DEF IInv
<1> QED BY <1>1, Invariance, PTL

\* However often syncs are interrupted, a file that has been read to its end is
\* in the mesh with one row for each of its keys.
THEOREM UpsertTheorem == Spec => []EveryRowUpserted
<1>1. IInv => EveryRowUpserted
  <2> SUFFICES ASSUME IInv, pc = "delete", line > Len(csv),
                      NEW i \in DOMAIN csv,
                      \A j \in DOMAIN csv : csv[j].key = csv[i].key => j <= i
               PROVE  \E c \in Clusters : RowsOf(records, csv[i].key) =
                        {[key |-> csv[i].key, cluster |-> c, val |-> csv[i].val]}
    BY DEF EveryRowUpserted
  <2>1. DOMAIN csv = 1 .. Len(csv) /\ Len(csv) \in Nat /\ line - 1 = Len(csv)
    BY DEF IInv, TypeOK
  <2>2. i \in 1 .. line - 1
    BY <2>1
  <2>3. \A j \in i + 1 .. line - 1 : csv[j].key # csv[i].key
    BY <2>1
  <2> QED BY <2>2, <2>3 DEF IInv, Upserted
<1> QED BY <1>1, Invariance, PTL

\* No sync ever puts two records under one temporary cluster.
THEOREM NoMergeTheorem == Spec => []NoMergeWithoutSplink
<1>1. IInv => NoMergeWithoutSplink
  <2> SUFFICES ASSUME IInv, NEW r \in records, NEW s \in records,
                      r.cluster = s.cluster, r.cluster \in NewIds
               PROVE  r.key = s.key
    BY DEF NoMergeWithoutSplink
  <2>1. ASSUME NEW q \in records PROVE q.key \in Keys /\ q.cluster \in Owner[q.key]
    <3>1. q.key \in Keys
      BY DEF IInv, TypeOK, Row
    <3>2. q.cluster \in ClustersOf(records, q.key)
      BY ClustersIn
    <3>3. pc = "insert" => q.key # csv[line].key
      BY DEF IInv, Deleted, RowsOf
    <3> QED BY <3>1, <3>2, <3>3 DEF Owner
  <2> QED BY <2>1 DEF IInv, Unshared
<1> QED BY <1>1, Invariance, PTL

\* A load that is reported done has rebuilt the devices from the records, and
\* nothing has touched either since but another full load.
THEOREM DoneTheorem == Spec => []DoneMeansRebuilt
<1>1. IInv => DoneMeansRebuilt
  BY DEF IInv, Rebuilt, DoneMeansRebuilt
<1> QED BY <1>1, Invariance, PTL

-----------------------------------------------------------------------------
(* What the table promises but for NULL ids.                               *)

\* The mesh has at most one row under the key of a line that has been read.
OneRow ==
  pc \in {"delete", "insert"} =>
    \A i \in 1 .. line - 1 : \A r, s \in RowsOf(records, csv[i].key) : r = s

LEMMA OneRowStep ==
  ASSUME IInv, OneRow, [Next]_vars
  PROVE  OneRow'
<1>1. CASE Delete
  BY <1>1 DEF OneRow, Delete, RowsOf
<1>2. CASE Insert
  <2> DEFINE k == csv[line].key
  <2>1. /\ line \in DOMAIN csv
        /\ \A j \in Keys : RowsOf(records', j) =
             IF j = k
               THEN {[key |-> j, cluster |-> cluster[j], val |-> csv[line].val]}
               ELSE RowsOf(records, j)
    BY <1>2, InsertOwner
  <2>2. /\ pc = "insert" /\ csv' = csv /\ line' = line + 1
        /\ line \in Nat /\ DOMAIN csv = 1 .. Len(csv) /\ Len(csv) \in Nat
    BY <1>2 DEF Insert, IInv, TypeOK
  <2> SUFFICES ASSUME NEW i \in 1 .. line,
                      NEW r \in RowsOf(records', csv[i].key),
                      NEW s \in RowsOf(records', csv[i].key)
               PROVE  r = s
    <3>1. 1 .. line' - 1 = 1 .. line
      BY <2>2
    <3> QED BY <2>2, <3>1 DEF OneRow
  <2>3. csv[i].key \in Keys
    BY <2>1, <2>2, LineKey DEF IInv
  <2>4. CASE csv[i].key = k
    BY <2>1, <2>3, <2>4
  <2>5. CASE csv[i].key # k
    <3>1. i \in 1 .. line - 1
      BY <2>2, <2>5
    <3> QED BY <2>1, <2>2, <2>3, <2>5, <3>1 DEF OneRow
  <2> QED BY <2>4, <2>5
<1>3. ASSUME NEW s \in Systems, OpenCsv(s) PROVE OneRow'
  BY <1>3 DEF OneRow, OpenCsv
<1>4. CASE FullLoad \/ Open \/ CloseCsv \/ BuildDevices \/ Done \/ Crash
  BY <1>4 DEF OneRow, FullLoad, Open, CloseCsv, BuildDevices, Done, Crash
<1>5. CASE UNCHANGED vars
  BY <1>5 DEF OneRow, vars
<1> QED BY <1>1, <1>2, <1>3, <1>4, <1>5 DEF Next

\* No other record has two rows: in a mesh without a NULL source_id a file that
\* has been read leaves one row per record, whatever rows an older version left
\* under its keys.
THEOREM OnlyNullDoublesTheorem ==
  Spec => []((\A r \in records : r.key[2] # NullId) => OneRowPerRecord)
<1> DEFINE NoNull == \A r \in records : r.key[2] # NullId
<1>1. Init => OneRow
  BY DEF Init, OneRow
<1>2. IInv /\ OneRow /\ [Next]_vars => OneRow'
  BY OneRowStep
<1>3. IInv /\ OneRow => (NoNull => OneRowPerRecord)
  <2> SUFFICES ASSUME IInv, OneRow, NoNull, pc = "delete", line > Len(csv),
                      NEW i \in DOMAIN csv, NEW r \in records, NEW s \in records,
                      Text(r.key) = csv[i].key, Text(s.key) = csv[i].key
               PROVE  r = s
    BY DEF OneRowPerRecord
  <2>1. i \in 1 .. line - 1
    BY DEF IInv, TypeOK
  <2>2. r.key = csv[i].key /\ s.key = csv[i].key
    BY DEF Text
  <2> QED BY <2>1, <2>2 DEF OneRow, RowsOf
<1> QED BY <1>1, <1>2, <1>3, Invariance, PTL DEF Spec

-----------------------------------------------------------------------------
(* The load implements the cluster registry.                               *)

LEMMA RegistryInit ==
  ASSUME Init
  PROVE  Registry!Init
<1>1. IInv
  BY InitStep
<1>2. Owner \in [Keys -> SUBSET Clusters]
  BY <1>1, OwnerType DEF IInv
<1>3. \A j, k \in Keys : Owner[j] \cap Owner[k] \cap NewIds # {} => j = k
  BY <1>1 DEF IInv, Unshared
<1> QED BY <1>2, <1>3 DEF Registry!Init, Init, Clusters

LEMMA RegistryResolve ==
  ASSUME IInv, FullLoad
  PROVE  Registry!Resolve
<1>1. \A r \in records' : r.cluster \in SplinkIds
  BY LoadedType DEF FullLoad
<1>2. Owner' = [k \in Keys |-> ClustersOf(records', k)]
  BY DEF Owner, FullLoad
<1>3. \A k \in Keys : ClustersOf(records', k) \subseteq SplinkIds
  BY <1>1, ClustersIn
<1> QED BY <1>2, <1>3 DEF Registry!Resolve, FullLoad

LEMMA RegistryDelete ==
  ASSUME IInv, Delete
  PROVE  \E k \in Keys : Registry!Add(k) \/ Registry!Settle(k)
<1> DEFINE k == csv[line].key
           d == cluster'[k]
<1>1. /\ k \in Keys
      /\ Owner' = [Owner EXCEPT ![k] = {d}]
      /\ d \in Clusters
      /\ \/ Owner[k] # {} /\ d \in Preferred(Owner[k]) /\ news' = news
         \/ Owner[k] = {} /\ d = news + 1 /\ news < MaxNew /\ news' = news + 1
  BY DeleteOwner
<1>2. crashes' = crashes
  BY DEF Delete
<1> HIDE DEF k, d
<1>3. CASE Owner[k] # {} /\ d \in Preferred(Owner[k])
  <2>1. d \in Owner[k] /\ (Owner[k] \cap SplinkIds # {} => d \in SplinkIds)
    BY <1>3, PreferredKeeps
  <2>2. Registry!Settle(k)
    BY <1>1, <1>2, <2>1 DEF Registry!Settle
  <2> QED BY <1>1, <2>2
<1>4. CASE Owner[k] = {} /\ d = news + 1 /\ news < MaxNew
  <2>1. news \in Nat
    BY DEF IInv, TypeOK
  <2>2. d \in NewIds
    BY <1>4, <2>1, ConstantsAssumption DEF NewIds
  <2>3. \A j \in Keys : d \notin Owner[j]
    BY <1>4, <2>1, <2>2 DEF IInv, Fresh
  <2>4. Registry!Add(k)
    BY <1>1, <1>2, <1>4, <2>2, <2>3 DEF Registry!Add
  <2> QED BY <1>1, <2>4
<1> QED BY <1>1, <1>3, <1>4

LEMMA RegistryCrash ==
  ASSUME IInv, Crash
  PROVE  Registry!Crash
<1>1. crashes' = crashes + 1
  BY DEF Crash
<1>2. CASE pc = "insert"
  <2>1. csv[line].key \in Keys
    BY <1>2, LineKey DEF IInv, TypeOK
  <2>2. Owner' = [Owner EXCEPT ![csv[line].key] = {}]
    BY <1>2, CrashOwner
  <2> QED BY <1>1, <2>1, <2>2 DEF Registry!Crash
<1>3. CASE pc # "insert"
  BY <1>1, <1>3, CrashOwner DEF Registry!Crash
<1> QED BY <1>2, <1>3

\* Whatever the files and however often syncs are interrupted, a sync gives a
\* record another cluster only where ClusterRegistry allows it.
THEOREM Implementation == Spec => ImplementsRegistry
<1>1. Init => Registry!Init
  BY RegistryInit
<1>2. IInv /\ [Next]_vars => [Registry!Next]_<<Owner, crashes>>
  <2> SUFFICES ASSUME IInv, [Next]_vars
               PROVE  [Registry!Next]_<<Owner, crashes>>
    OBVIOUS
  <2>1. CASE FullLoad
    BY <2>1, RegistryResolve DEF Registry!Next
  <2>2. CASE Open
    BY <2>2, SameOwner DEF Open, tables
  <2>3. ASSUME NEW s \in Systems, OpenCsv(s)
        PROVE  [Registry!Next]_<<Owner, crashes>>
    BY <2>3, SameOwner DEF OpenCsv, tables
  <2>4. CASE Delete
    BY <2>4, RegistryDelete DEF Registry!Next
  <2>5. CASE Insert
    <3>1. crashes' = crashes
      BY <2>5 DEF Insert
    <3> QED BY <2>5, <3>1, InsertOwner
  <2>6. CASE CloseCsv
    BY <2>6, SameOwner DEF CloseCsv, tables
  <2>7. CASE BuildDevices
    BY <2>7, SameOwner DEF BuildDevices
  <2>8. CASE Done
    BY <2>8, SameOwner DEF Done, tables
  <2>9. CASE Crash
    BY <2>9, RegistryCrash DEF Registry!Next
  <2>10. CASE UNCHANGED vars
    BY <2>10 DEF vars, Owner
  <2> QED BY <2>1, <2>2, <2>3, <2>4, <2>5, <2>6, <2>7, <2>8, <2>9, <2>10 DEF Next
<1> QED BY <1>1, <1>2, Invariance, PTL DEF Spec, ImplementsRegistry, Registry!Spec
=============================================================================
