------------------------ MODULE MeshPipeline_proofs ------------------------
(***************************************************************************)
(* Proofs about the mesh, for any number of full runs and syncs, files,    *)
(* generations and faults, when no worker run goes past the lock and the   *)
(* lock excludes; and of what is left where worker runs do go past it.     *)
(***************************************************************************)
EXTENDS MeshPipeline, TLAPS

\* A run that is under way has the lock, so there is one at most.
Locked == \A r \in Runs : pc[r] # "idle" => lock = r

\* No generation is ahead of the last one written.
Counted ==
  /\ csv <= gens
  /\ \A i \in Inodes : file[i].records <= gens

\* The stages from Splink's writing until clusters.csv is loaded.
Using == {"clusters", "validate", "load", "connect", "records"}

\* A run that is alone with clusters.csv has a whole one, no older than the mesh,
\* and from load on the annotations belong to it.
Inputs ==
  \A r \in Runs :
    /\ pc[r] \in Using /\ alone[r] => orphans.writing = 0
    /\ pc[r] \in Using \ {"clusters"} /\ alone[r]
         => csv # None /\ (mesh # NoInode => file[mesh].records <= csv)
    /\ pc[r] \in {"load", "connect", "records"} /\ alone[r] => notes = csv

\* A file whose clusters.csv was its maker's own is consistent ...
Consistent(f) == f.own => f.records # None /\ f.annotations = f.records

\* ... and at least as new as the mesh.
UpToDate(f) == f.own /\ mesh # NoInode => file[mesh].records <= f.records

\* What run_load has put into the tmp file so far.
Building ==
  \A r \in Runs :
    /\ pc[r] \in {"records", "annotate"} => fd[r] = tmp
    /\ pc[r] = "records" => file[tmp] = NewFile
    /\ pc[r] = "annotate" =>
         /\ file[tmp].links = {} /\ UpToDate(file[tmp])
         /\ file[tmp].own => file[tmp].records # None /\ file[tmp].records = notes
    /\ pc[r] = "replace" /\ tmp # NoInode =>
         /\ file[tmp].links = {} /\ UpToDate(file[tmp])
         /\ file[tmp].built /\ Consistent(file[tmp])

\* The mesh is not the tmp file, and it is finished and consistent.
Served ==
  mesh # NoInode =>
    /\ mesh # tmp
    /\ file[mesh].built
    /\ Consistent(file[mesh])
    /\ file[mesh].links \subseteq {file[mesh].records}

\* The stages after the load work on the mesh.
Writing ==
  \A r \in Runs :
    /\ pc[r] \in {"views", "links", "upsert"} => fd[r] = mesh
    /\ pc[r] \in {"views", "link", "links", "upsert"} => mesh # NoInode
    /\ pc[r] \in {"link", "links"} => found[r] = file[mesh].records

\* Without a fault, a mesh without views is one the current run has just put
\* there.
Viewed ==
  mesh # NoInode /\ faults = 0 /\ ~file[mesh].views
    => \E r \in Runs : pc[r] \in {"valentine", "views"}

\* Without a fault there is no orphan, and every run is alone.
Undisturbed ==
  faults = 0 =>
    /\ orphans = [computing |-> 0, writing |-> 0]
    /\ \A r \in Runs :
         /\ pc[r] \in Using => alone[r]
         /\ pc[r] \in {"annotate", "replace"} /\ tmp # NoInode => file[tmp].own
    /\ mesh # NoInode => file[mesh].own

IInv ==
  /\ TypeOK
  /\ Locked
  /\ Counted
  /\ Inputs
  /\ Building
  /\ Served
  /\ Writing
  /\ Viewed
  /\ Undisturbed

-----------------------------------------------------------------------------

\* When a run is under way, all others are idle.
LEMMA Alone ==
  ASSUME Locked, NEW r \in Runs, pc[r] # "idle"
  PROVE  /\ lock = r
         /\ \A s \in Runs : s # r => pc[s] = "idle"
BY DEF Locked

\* A run that ends leaves the lock to nobody.
LEMMA Handover ==
  ASSUME IInv, NEW r \in Runs, pc[r] # "idle", Release(r), Goto(r, "idle")
  PROVE  /\ lock' = NoRun
         /\ pc' = [s \in Runs |-> "idle"]
<1>1. lock = r /\ \A s \in Runs : s # r => pc[s] = "idle"
  BY Alone DEF IInv
<1> QED BY <1>1 DEF IInv, TypeOK, Release, Goto

\* A run that goes on is still the only one.
LEMMA Onward ==
  ASSUME IInv, NEW r \in Runs, pc[r] # "idle", NEW stage \in Stages,
         stage # "idle", Goto(r, stage), lock' = lock
  PROVE  /\ pc' \in [Runs -> Stages]
         /\ pc'[r] = stage
         /\ \A s \in Runs : s # r => pc[s] = "idle" /\ pc'[s] = "idle"
         /\ Locked'
<1>1. lock = r /\ \A s \in Runs : s # r => pc[s] = "idle"
  BY Alone DEF IInv
<1>2. pc' = [pc EXCEPT ![r] = stage]
  BY DEF Goto
<1> QED BY <1>1, <1>2 DEF IInv, TypeOK, Locked

\* A step that leaves the files alone, to a stage that makes no mesh.
LEMMA Frame ==
  ASSUME IInv, UNCHANGED <<inputs, names, file>>, faults' = 0 => faults = 0,
         \A s \in Runs : pc'[s] \notin Using \cup {"annotate", "replace"}
  PROVE  Counted' /\ Inputs' /\ Building' /\ Served' /\ Undisturbed'
<1>1. Counted'
  BY DEF IInv, Counted, inputs
<1>2. Inputs' /\ Building'
  BY DEF Inputs, Building, Using
<1>3. Served'
  BY DEF IInv, Served, Consistent, names
<1>4. Undisturbed'
  BY DEF IInv, Undisturbed, inputs, names
<1> QED BY <1>1, <1>2, <1>3, <1>4

LEMMA InitStep ==
  ASSUME Init
  PROVE  IInv
<1>1. TypeOK
  BY ConstantsAssumption DEF Init, TypeOK, Stages, None, File, NewFile
<1>2. Locked /\ Inputs /\ Building /\ Served /\ Writing /\ Viewed
  BY DEF Init, Locked, Inputs, Building, Served, Writing, Viewed, Using
<1>3. Counted
  BY DEF Init, Counted, None, NewFile
<1>4. Undisturbed
  BY DEF Init, Undisturbed, Using
<1> QED BY <1>1, <1>2, <1>3, <1>4 DEF IInv

LEMMA EnterStep ==
  ASSUME WorkerRuns = {}, IInv, NEW r \in Runs, Enter(r)
  PROVE  IInv'
<1>1. lock = NoRun /\ lock' = r
  BY DEF Enter
<1>2. \A s \in Runs : pc[s] = "idle"
  BY <1>1, ConstantsAssumption DEF IInv, Locked
<1>3. PICK stage \in {"open", "splink"} : pc' = [pc EXCEPT ![r] = stage]
  BY DEF Enter, Goto
<1>4. TypeOK'
  BY <1>1, <1>2, <1>3 DEF IInv, TypeOK, Enter, inputs, names, Stages
<1>5. Locked' /\ Writing'
  BY <1>1, <1>2, <1>3 DEF Locked, Writing
<1>6. Counted' /\ Inputs' /\ Building' /\ Served' /\ Undisturbed'
  <2>1. \A s \in Runs : pc'[s] \notin Using \cup {"annotate", "replace"}
    BY <1>2, <1>3 DEF IInv, TypeOK, Using
  <2> QED BY <2>1, Frame DEF Enter
<1>7. Viewed'
  BY <1>2 DEF IInv, Viewed, Enter, names
<1> QED BY <1>4, <1>5, <1>6, <1>7 DEF IInv

LEMMA BeginClustersStep ==
  ASSUME IInv, NEW r \in Runs, BeginClusters(r)
  PROVE  IInv'
<1>1. /\ pc'[r] = "clusters"
      /\ pc' \in [Runs -> Stages]
      /\ \A s \in Runs : s # r => pc[s] = "idle" /\ pc'[s] = "idle"
      /\ Locked'
  BY Onward DEF BeginClusters, Stages
<1>2. TypeOK'
  BY <1>1, ConstantsAssumption DEF IInv, TypeOK, BeginClusters, names, None
<1>3. Inputs'
  <2>1. alone'[r] => ~(orphans.writing > 0)
    BY Zenon DEF BeginClusters, OthersWrite
  <2>2. orphans.writing \in Nat /\ orphans' = orphans
    BY DEF IInv, TypeOK, BeginClusters
  <2> QED BY <1>1, <2>1, <2>2 DEF Inputs, Using
<1>4. Building'
  BY <1>1 DEF Building
<1>5. Served'
  BY <1>1 DEF IInv, Served, BeginClusters, names, Consistent
<1>6. Writing'
  BY <1>1 DEF Writing
<1>7. Viewed'
  BY <1>1 DEF IInv, Viewed, BeginClusters, names
<1>8. Counted'
  BY DEF IInv, TypeOK, Counted, BeginClusters, None
<1>9. Undisturbed'
  <2>1. \A s \in Runs \ {r} : pc[s] # "clusters"
    BY <1>1
  <2>2. orphans.writing = 0 => ~(orphans.writing > 0)
    OBVIOUS
  <2>3. orphans.writing = 0 => alone'[r]
    BY <2>1, <2>2, Zenon DEF BeginClusters, OthersWrite
  <2> QED BY <1>1, <2>3 DEF IInv, Undisturbed, BeginClusters, names, Using
<1> QED BY <1>1, <1>2, <1>3, <1>4, <1>5, <1>6, <1>7, <1>8, <1>9 DEF IInv

LEMMA EndClustersStep ==
  ASSUME WorkerRuns = {}, IInv, NEW r \in Runs, EndClusters(r)
  PROVE  IInv'
<1>1. /\ pc'[r] = "validate"
      /\ pc' \in [Runs -> Stages]
      /\ \A s \in Runs : s # r => pc[s] = "idle" /\ pc'[s] = "idle"
      /\ Locked'
  BY Onward DEF EndClusters, Stages
<1> /\ csv \in Nat /\ gens \in Nat /\ alone \in [Runs -> BOOLEAN]
    /\ mesh # NoInode => mesh \in Inodes /\ file[mesh].records \in Nat
    /\ \A i \in Inodes : file[i].records \in Nat
  BY DEF IInv, TypeOK, File
<1>a. /\ gens' = gens + 1 /\ gens < MaxGen /\ csv' \in {None, gens + 1}
      /\ alone[r] => csv' = gens + 1
      /\ UNCHANGED <<lock, fd, notes, orphans, alone, names, file, found, faults>>
  BY DEF EndClusters, Written
<1>2. TypeOK'
  BY <1>1, <1>a, ConstantsAssumption DEF IInv, TypeOK, EndClusters, names, None
<1>8. Counted'
  BY <1>a DEF IInv, Counted, None
<1>3. Inputs'
  <2>1. alone[r] => orphans.writing = 0
    BY DEF IInv, Inputs, Using, EndClusters
  <2>2. mesh # NoInode => file[mesh].records <= gens
    BY DEF IInv, Counted
  <2> QED BY <1>1, <1>a, <2>1, <2>2 DEF Inputs, Using, None, names
<1>4. Building'
  BY <1>1 DEF Building
<1>5. Served'
  BY <1>a DEF IInv, Served, names, Consistent
<1>6. Writing'
  BY <1>1 DEF Writing
<1>7. Viewed'
  BY <1>1, <1>a DEF EndClusters, IInv, Viewed, names
<1>9. Undisturbed'
  <2>1. faults = 0 => alone[r]
    BY DEF IInv, Undisturbed, Using, EndClusters
  <2> QED BY <1>1, <1>a, <2>1 DEF IInv, Undisturbed, names, Using
<1> QED BY <1>1, <1>2, <1>3, <1>4, <1>5, <1>6, <1>7, <1>8, <1>9 DEF IInv

LEMMA ValidateStep ==
  ASSUME IInv, NEW r \in Runs, Validate(r)
  PROVE  IInv'
<1>1. /\ pc'[r] = "load"
      /\ pc' \in [Runs -> Stages]
      /\ \A s \in Runs : s # r => pc[s] = "idle" /\ pc'[s] = "idle"
      /\ Locked'
  BY Onward DEF Validate, Stages
<1>2. TypeOK'
  BY <1>1 DEF IInv, TypeOK, Validate, names
<1>3. Inputs'
  BY <1>1 DEF IInv, Inputs, Validate, names, Using
<1>4. Building'
  BY <1>1 DEF Building
<1>5. Served'
  BY <1>1 DEF IInv, Served, Validate, names, Consistent
<1>6. Writing'
  BY <1>1 DEF Writing
<1>7. Viewed'
  BY <1>1 DEF IInv, Viewed, Validate, names
<1>8. Counted'
  BY DEF IInv, Counted, Validate
<1>9. Undisturbed'
  BY <1>1 DEF IInv, Undisturbed, Validate, names, Using
<1> QED BY <1>1, <1>2, <1>3, <1>4, <1>5, <1>6, <1>7, <1>8, <1>9 DEF IInv

LEMMA UnlinkStaleTmpStep ==
  ASSUME IInv, NEW r \in Runs, UnlinkStaleTmp(r)
  PROVE  IInv'
<1>1. /\ pc'[r] = "connect"
      /\ pc' \in [Runs -> Stages]
      /\ \A s \in Runs : s # r => pc[s] = "idle" /\ pc'[s] = "idle"
      /\ Locked'
  BY Onward DEF UnlinkStaleTmp, Stages
<1>2. TypeOK'
  BY <1>1 DEF IInv, TypeOK, UnlinkStaleTmp, inputs
<1>3. Inputs'
  BY <1>1 DEF IInv, Inputs, UnlinkStaleTmp, inputs, Using
<1>4. Building'
  BY <1>1 DEF Building
<1>5. Served'
  BY <1>1 DEF IInv, Served, UnlinkStaleTmp, inputs, Consistent
<1>6. Writing'
  BY <1>1 DEF Writing
<1>7. Viewed'
  BY <1>1 DEF IInv, Viewed, UnlinkStaleTmp
<1>8. Counted'
  BY DEF IInv, Counted, UnlinkStaleTmp, inputs
<1>9. Undisturbed'
  BY <1>1 DEF IInv, Undisturbed, UnlinkStaleTmp, inputs, Using
<1> QED BY <1>1, <1>2, <1>3, <1>4, <1>5, <1>6, <1>7, <1>8, <1>9 DEF IInv

LEMMA ConnectTmpStep ==
  ASSUME IInv, NEW r \in Runs, ConnectTmp(r)
  PROVE  IInv'
<1>1. /\ pc'[r] = "records"
      /\ pc' \in [Runs -> Stages]
      /\ \A s \in Runs : s # r => pc[s] = "idle" /\ pc'[s] = "idle"
      /\ Locked'
  BY Onward DEF ConnectTmp, Stages
<1>2. PICK i \in Inodes :
        /\ Free(i)
        /\ fd' = [fd EXCEPT ![r] = i]
        /\ tmp' = i
        /\ file' = [file EXCEPT ![i] = NewFile]
  BY DEF ConnectTmp, Connect
<1>a. /\ NewFile \in File /\ file \in [Inodes -> File] /\ gens \in Nat
      /\ UNCHANGED <<lock, inputs, mesh, found, faults>>
  BY ConstantsAssumption DEF NewFile, File, None, IInv, TypeOK, ConnectTmp
<1>b. mesh # NoInode => mesh # i /\ mesh \in Inodes /\ file'[mesh] = file[mesh]
  BY <1>2, <1>a DEF Free, IInv, TypeOK
<1>3. TypeOK'
  <2>1. file' \in [Inodes -> File]
    BY <1>2, <1>a
  <2>2. fd' \in [Runs -> Inodes \cup {NoInode}] /\ fd'[r] # NoInode
    BY <1>2, ConstantsAssumption DEF IInv, TypeOK
  <2>3. \A q \in Runs : q # r => fd'[q] = fd[q]
    BY <1>2 DEF IInv, TypeOK
  <2> QED BY <1>1, <1>2, <1>a, <2>1, <2>2, <2>3 DEF IInv, TypeOK, inputs
<1>4. Inputs'
  BY <1>1, <1>a, <1>b DEF IInv, Inputs, ConnectTmp, inputs, Using
<1>5. Building'
  BY <1>1, <1>2, <1>a DEF IInv, TypeOK, Building
<1>6. Served'
  BY <1>2, <1>a, <1>b DEF IInv, Served, Consistent
<1>7. Writing'
  BY <1>1 DEF Writing
<1>8. Viewed' /\ Undisturbed'
  BY <1>1, <1>a, <1>b DEF IInv, Viewed, Undisturbed, ConnectTmp, inputs, Using
<1>9. Counted'
  BY <1>2, <1>a DEF IInv, Counted, inputs, NewFile, None
<1> QED BY <1>1, <1>3, <1>4, <1>5, <1>6, <1>7, <1>8, <1>9 DEF IInv

LEMMA LoadRecordsStep ==
  ASSUME IInv, NEW r \in Runs, LoadRecords(r)
  PROVE  IInv'
<1>1. /\ pc'[r] = "annotate"
      /\ pc' \in [Runs -> Stages]
      /\ \A s \in Runs : s # r => pc[s] = "idle" /\ pc'[s] = "idle"
      /\ Locked'
  BY Onward DEF LoadRecords, Stages
<1>a. /\ fd[r] = tmp /\ tmp \in Inodes /\ file[tmp] = NewFile /\ mesh # tmp
      /\ file \in [Inodes -> File] /\ csv \in 0 .. MaxGen /\ alone[r] \in BOOLEAN
  BY DEF IInv, TypeOK, LoadRecords, Building, Served, inputs
<1>b. /\ file' = [file EXCEPT ![tmp] = [NewFile EXCEPT !.records = csv, !.own = alone[r]]]
      /\ UNCHANGED <<lock, fd, csv, notes, gens, orphans, alone, mesh, tmp, found, faults>>
  BY <1>a DEF LoadRecords, inputs, names
<1>c. /\ file'[tmp].records = csv /\ file'[tmp].own = alone[r] /\ file'[tmp].links = {}
      /\ file' \in [Inodes -> File]
      /\ \A i \in Inodes : i # tmp => file'[i] = file[i]
      /\ mesh # NoInode => file'[mesh] = file[mesh]
  BY <1>a, <1>b, ConstantsAssumption DEF NewFile, File, None, IInv, TypeOK
<1>2. TypeOK'
  BY <1>1, <1>b, <1>c DEF IInv, TypeOK, LoadRecords
<1>3. Inputs'
  BY <1>1 DEF Inputs, Using
<1>4. Building'
  <2>1. alone[r] => /\ csv # None /\ notes = csv
                    /\ mesh # NoInode => file[mesh].records <= csv
    BY DEF IInv, Inputs, LoadRecords, Using
  <2> QED BY <1>1, <1>a, <1>b, <1>c, <2>1 DEF Building, UpToDate
<1>5. Served'
  BY <1>b, <1>c DEF IInv, Served, Consistent
<1>6. Writing'
  BY <1>1 DEF Writing
<1>7. Viewed'
  BY <1>1, <1>b, <1>c DEF LoadRecords, IInv, Viewed
<1>8. Counted'
  BY <1>a, <1>b, <1>c DEF IInv, Counted
<1>9. Undisturbed'
  <2>1. faults = 0 => alone[r]
    BY DEF IInv, Undisturbed, Using, LoadRecords
  <2> QED BY <1>1, <1>b, <1>c, <2>1 DEF IInv, Undisturbed, Using
<1> QED BY <1>1, <1>2, <1>3, <1>4, <1>5, <1>6, <1>7, <1>8, <1>9 DEF IInv

LEMMA LoadAnnotationsStep ==
  ASSUME IInv, NEW r \in Runs, LoadAnnotations(r)
  PROVE  IInv'
<1>1. /\ pc'[r] = "replace"
      /\ pc' \in [Runs -> Stages]
      /\ \A s \in Runs : s # r => pc[s] = "idle" /\ pc'[s] = "idle"
      /\ Locked'
  BY Onward DEF LoadAnnotations, Stages
<1>a. /\ fd[r] = tmp /\ tmp \in Inodes /\ mesh # tmp
      /\ file \in [Inodes -> File] /\ notes \in 0 .. MaxGen
  BY DEF IInv, TypeOK, LoadAnnotations, Building, Served
<1>b. /\ file' = [file EXCEPT ![tmp] = [file[tmp] EXCEPT !.annotations = notes, !.built = TRUE]]
      /\ fd' = [fd EXCEPT ![r] = NoInode]
      /\ UNCHANGED <<lock, csv, notes, gens, orphans, alone, mesh, tmp, found, faults>>
  BY <1>a DEF LoadAnnotations, Close, inputs, names
<1>c. /\ file'[tmp].records = file[tmp].records /\ file'[tmp].own = file[tmp].own
      /\ file'[tmp].links = file[tmp].links /\ file'[tmp].built /\ file'[tmp].annotations = notes
      /\ file' \in [Inodes -> File]
      /\ \A i \in Inodes : i # tmp => file'[i] = file[i]
      /\ mesh # NoInode => file'[mesh] = file[mesh]
  <2>1. [file[tmp] EXCEPT !.annotations = notes, !.built = TRUE] \in File
    BY <1>a DEF File
  <2>2. file'[tmp] = [file[tmp] EXCEPT !.annotations = notes, !.built = TRUE]
    BY <1>a, <1>b
  <2>3. file' \in [Inodes -> File] /\ \A i \in Inodes : i # tmp => file'[i] = file[i]
    BY <1>a, <1>b, <2>1
  <2>4. mesh # NoInode => file'[mesh] = file[mesh]
    BY <1>a, <2>3 DEF IInv, TypeOK
  <2> QED BY <1>a, <2>2, <2>3, <2>4 DEF File
<1>2. TypeOK'
  BY <1>1, <1>b, <1>c DEF IInv, TypeOK, LoadAnnotations
<1>3. Inputs'
  BY <1>1 DEF Inputs, Using
<1>4. Building'
  BY <1>1, <1>a, <1>b, <1>c DEF IInv, Building, LoadAnnotations, UpToDate, Consistent
<1>5. Served'
  BY <1>b, <1>c DEF IInv, Served, Consistent
<1>6. Writing'
  BY <1>1 DEF Writing
<1>7. Viewed'
  BY <1>1, <1>b, <1>c DEF LoadAnnotations, IInv, Viewed
<1>8. Counted'
  BY <1>a, <1>b, <1>c DEF IInv, Counted
<1>9. Undisturbed'
  BY <1>1, <1>a, <1>b, <1>c, ConstantsAssumption
  DEF IInv, Undisturbed, LoadAnnotations, Using
<1> QED BY <1>1, <1>2, <1>3, <1>4, <1>5, <1>6, <1>7, <1>8, <1>9 DEF IInv

LEMMA ReplaceStep ==
  ASSUME WorkerRuns = {}, IInv, NEW r \in Runs, Replace(r)
  PROVE  IInv'
<1>1. /\ pc'[r] = "valentine"
      /\ pc' \in [Runs -> Stages]
      /\ \A s \in Runs : s # r => pc[s] = "idle" /\ pc'[s] = "idle"
      /\ Locked'
  BY Onward DEF Replace, Stages
<1>a. /\ pc[r] = "replace" /\ tmp \in Inodes /\ mesh' = tmp /\ tmp' = NoInode
      /\ UNCHANGED <<lock, fd, inputs, file, found, faults>>
  BY DEF Replace, IInv, TypeOK
<1>b. file[tmp].links = {} /\ file[tmp].built /\ Consistent(file[tmp])
  BY <1>a, ConstantsAssumption DEF IInv, Building
<1>2. TypeOK'
  BY <1>1, <1>a DEF IInv, TypeOK, Replace, inputs
<1>3. Inputs'
  BY <1>1 DEF Inputs, Using
<1>4. Building'
  BY <1>1 DEF Building
<1>5. Served'
  BY <1>a, <1>b, ConstantsAssumption DEF Served, Consistent
<1>6. Writing'
  BY <1>1 DEF Writing
<1>7. Viewed'
  BY <1>1 DEF Viewed
<1>8. Counted'
  BY <1>a DEF IInv, Counted, inputs
<1>9. Undisturbed'
  BY <1>1, <1>a, ConstantsAssumption DEF IInv, Undisturbed, inputs, Using
<1> QED BY <1>1, <1>2, <1>3, <1>4, <1>5, <1>6, <1>7, <1>8, <1>9 DEF IInv

LEMMA OpenForViewsStep ==
  ASSUME IInv, NEW r \in Runs, OpenForViews(r)
  PROVE  IInv'
<1>1. /\ pc'[r] = "views"
      /\ pc' \in [Runs -> Stages]
      /\ \A s \in Runs : s # r => pc[s] = "idle" /\ pc'[s] = "idle"
      /\ Locked'
  BY Onward DEF OpenForViews, Stages
<1>2. TypeOK'
  BY <1>1 DEF IInv, TypeOK, OpenForViews, inputs, names, Connect
<1>3. Counted' /\ Inputs' /\ Building' /\ Served' /\ Undisturbed'
  <2>1. \A s \in Runs : pc'[s] \notin Using \cup {"annotate", "replace"}
    BY <1>1 DEF Using
  <2> QED BY <2>1, Frame DEF OpenForViews
<1>4. Writing'
  BY <1>1 DEF IInv, TypeOK, Writing, OpenForViews, names, Connect
<1>5. Viewed'
  BY <1>1 DEF Viewed
<1> QED BY <1>1, <1>2, <1>3, <1>4, <1>5 DEF IInv

LEMMA CreateViewsStep ==
  ASSUME IInv, NEW r \in Runs, CreateViews(r)
  PROVE  IInv'
<1>1. /\ pc'[r] = "attach"
      /\ pc' \in [Runs -> Stages]
      /\ \A s \in Runs : s # r => pc[s] = "idle" /\ pc'[s] = "idle"
      /\ Locked'
  BY Onward DEF CreateViews, Stages
<1>a. /\ fd[r] = mesh /\ mesh \in Inodes /\ file \in [Inodes -> File]
  BY DEF IInv, TypeOK, CreateViews, Writing
<1>b. /\ file' = [file EXCEPT ![mesh].views = TRUE] /\ fd' = [fd EXCEPT ![r] = NoInode]
      /\ UNCHANGED <<lock, inputs, names, found, faults>>
  BY <1>a DEF CreateViews, Close
<1>c. /\ file' \in [Inodes -> File] /\ file'[mesh].views
      /\ file'[mesh] = [file[mesh] EXCEPT !.views = TRUE]
      /\ \A i \in Inodes : file'[i].records = file[i].records
  <2>1. [file[mesh] EXCEPT !.views = TRUE] \in File
    BY <1>a DEF File
  <2>2. file' = [file EXCEPT ![mesh] = [file[mesh] EXCEPT !.views = TRUE]]
    BY <1>a, <1>b
  <2>3. file'[mesh] = [file[mesh] EXCEPT !.views = TRUE] /\ file' \in [Inodes -> File]
    BY <1>a, <2>1, <2>2
  <2>4. file'[mesh].views /\ file'[mesh].records = file[mesh].records
    BY <1>a, <2>3 DEF File
  <2>5. \A i \in Inodes : i # mesh => file'[i] = file[i]
    BY <1>a, <2>2
  <2> QED BY <2>3, <2>4, <2>5
<1>2. TypeOK'
  BY <1>1, <1>b, <1>c DEF IInv, TypeOK, CreateViews, inputs, names
<1>3. Inputs'
  BY <1>1 DEF Inputs, Using
<1>4. Building'
  BY <1>1 DEF Building
<1>5. Served'
  BY <1>a, <1>b, <1>c DEF IInv, Served, names, Consistent, File
<1>6. Writing'
  BY <1>1 DEF Writing
<1>7. Viewed'
  BY <1>b, <1>c DEF Viewed, names
<1>8. Counted'
  BY <1>b, <1>c DEF IInv, Counted, inputs
<1>9. Undisturbed'
  BY <1>1, <1>a, <1>b, <1>c DEF IInv, Undisturbed, inputs, names, Using, File
<1> QED BY <1>1, <1>2, <1>3, <1>4, <1>5, <1>6, <1>7, <1>8, <1>9 DEF IInv

LEMMA ResolveLinksStep ==
  ASSUME IInv, NEW r \in Runs, ResolveLinks(r)
  PROVE  IInv'
<1>1. /\ pc'[r] = "link"
      /\ pc' \in [Runs -> Stages]
      /\ \A s \in Runs : s # r => pc[s] = "idle" /\ pc'[s] = "idle"
      /\ Locked'
  BY Onward DEF ResolveLinks, Stages
<1>2. TypeOK'
  BY <1>1 DEF IInv, TypeOK, ResolveLinks, inputs, names, File
<1>3. Counted' /\ Inputs' /\ Building' /\ Served' /\ Undisturbed'
  <2>1. \A s \in Runs : pc'[s] \notin Using \cup {"annotate", "replace"}
    BY <1>1 DEF Using
  <2> QED BY <2>1, Frame DEF ResolveLinks
<1>4. Writing'
  BY <1>1 DEF IInv, TypeOK, Writing, ResolveLinks, names
<1>5. Viewed'
  BY <1>1 DEF IInv, Viewed, ResolveLinks, names
<1> QED BY <1>1, <1>2, <1>3, <1>4, <1>5 DEF IInv

LEMMA SkipAttachStep ==
  ASSUME IInv, NEW r \in Runs, SkipAttach(r)
  PROVE  IInv'
<1>1. /\ pc'[r] = "leave"
      /\ pc' \in [Runs -> Stages]
      /\ \A s \in Runs : s # r => pc[s] = "idle" /\ pc'[s] = "idle"
      /\ Locked'
  BY Onward DEF SkipAttach, Stages
<1>2. TypeOK'
  BY <1>1 DEF IInv, TypeOK, SkipAttach, inputs, names
<1>3. Counted' /\ Inputs' /\ Building' /\ Served' /\ Undisturbed'
  <2>1. \A s \in Runs : pc'[s] \notin Using \cup {"annotate", "replace"}
    BY <1>1 DEF Using
  <2> QED BY <2>1, Frame DEF SkipAttach
<1>4. Writing'
  BY <1>1 DEF Writing
<1>5. Viewed'
  BY <1>1 DEF IInv, Viewed, SkipAttach, names
<1> QED BY <1>1, <1>2, <1>3, <1>4, <1>5 DEF IInv

LEMMA OpenForLinksStep ==
  ASSUME IInv, NEW r \in Runs, OpenForLinks(r)
  PROVE  IInv'
<1>1. /\ pc'[r] = "links"
      /\ pc' \in [Runs -> Stages]
      /\ \A s \in Runs : s # r => pc[s] = "idle" /\ pc'[s] = "idle"
      /\ Locked'
  BY Onward DEF OpenForLinks, Stages
<1>2. TypeOK'
  BY <1>1 DEF IInv, TypeOK, OpenForLinks, inputs, names, Connect
<1>3. Counted' /\ Inputs' /\ Building' /\ Served' /\ Undisturbed'
  <2>1. \A s \in Runs : pc'[s] \notin Using \cup {"annotate", "replace"}
    BY <1>1 DEF Using
  <2> QED BY <2>1, Frame DEF OpenForLinks
<1>4. Writing'
  BY <1>1 DEF IInv, TypeOK, Writing, OpenForLinks, names, Connect
<1>5. Viewed'
  BY <1>1 DEF IInv, Viewed, OpenForLinks, names
<1> QED BY <1>1, <1>2, <1>3, <1>4, <1>5 DEF IInv

LEMMA WriteLinksStep ==
  ASSUME IInv, NEW r \in Runs, WriteLinks(r)
  PROVE  IInv'
<1>1. /\ pc'[r] = "attach"
      /\ pc' \in [Runs -> Stages]
      /\ \A s \in Runs : s # r => pc[s] = "idle" /\ pc'[s] = "idle"
      /\ Locked'
  BY Onward DEF WriteLinks, Stages
<1>a. /\ fd[r] = mesh /\ mesh \in Inodes /\ mesh # NoInode /\ file \in [Inodes -> File]
      /\ found[r] = file[mesh].records /\ found[r] \in 0 .. MaxGen
  BY DEF IInv, TypeOK, WriteLinks, Writing
<1>b. /\ file' = [file EXCEPT ![mesh].links = @ \cup {found[r]}] /\ fd' = [fd EXCEPT ![r] = NoInode]
      /\ UNCHANGED <<lock, inputs, names, found, faults>>
  BY <1>a DEF WriteLinks, Close
<1>c. /\ file' \in [Inodes -> File]
      /\ file'[mesh] = [file[mesh] EXCEPT !.links = @ \cup {found[r]}]
      /\ \A i \in Inodes : file'[i].records = file[i].records /\ file'[i].views = file[i].views
                           /\ file'[i].own = file[i].own
  <2>1. file[mesh].links \cup {found[r]} \in SUBSET (0 .. MaxGen)
    BY <1>a DEF File
  <2> QED BY <1>a, <1>b, <2>1 DEF File
<1>2. TypeOK'
  BY <1>1, <1>b, <1>c DEF IInv, TypeOK, WriteLinks, inputs, names
<1>3. Inputs'
  BY <1>1 DEF Inputs, Using
<1>4. Building'
  BY <1>1 DEF Building
<1>5. Served'
  BY <1>a, <1>b, <1>c DEF IInv, Served, names, Consistent, File
<1>6. Writing'
  BY <1>1 DEF Writing
<1>7. Viewed'
  BY <1>1, <1>a, <1>b, <1>c DEF WriteLinks, IInv, Viewed, names
<1>8. Counted'
  BY <1>b, <1>c DEF IInv, Counted, inputs
<1>9. Undisturbed'
  BY <1>1, <1>a, <1>b, <1>c DEF IInv, Undisturbed, inputs, names, Using
<1> QED BY <1>1, <1>2, <1>3, <1>4, <1>5, <1>6, <1>7, <1>8, <1>9 DEF IInv

LEMMA UpsertStep ==
  ASSUME IInv, NEW r \in Runs, Upsert(r)
  PROVE  IInv'
<1>1. /\ pc'[r] = "leave"
      /\ pc' \in [Runs -> Stages]
      /\ \A s \in Runs : s # r => pc[s] = "idle" /\ pc'[s] = "idle"
      /\ Locked'
  BY Onward DEF Upsert, Stages
<1>2. TypeOK'
  BY <1>1 DEF IInv, TypeOK, Upsert, inputs, names, Close
<1>3. Counted' /\ Inputs' /\ Building' /\ Served' /\ Undisturbed'
  <2>1. \A s \in Runs : pc'[s] \notin Using \cup {"annotate", "replace"}
    BY <1>1 DEF Using
  <2> QED BY <2>1, Frame DEF Upsert
<1>4. Writing'
  BY <1>1 DEF Writing
<1>5. Viewed'
  BY <1>1 DEF IInv, Viewed, Upsert, names
<1> QED BY <1>1, <1>2, <1>3, <1>4, <1>5 DEF IInv

\* Without a mesh a sync ends at once.
LEMMA OpenMeshStep ==
  ASSUME IInv, NEW r \in Runs, OpenMesh(r)
  PROVE  IInv'
<1>1. PICK stage \in {"leave", "upsert"} :
        /\ Goto(r, stage)
        /\ IF stage = "upsert" THEN mesh # NoInode /\ Connect(r, mesh)
                              ELSE UNCHANGED fd
  BY DEF OpenMesh
<1>2. /\ pc'[r] = stage
      /\ pc' \in [Runs -> Stages]
      /\ \A s \in Runs : s # r => pc[s] = "idle" /\ pc'[s] = "idle"
      /\ Locked'
  BY <1>1, Onward DEF OpenMesh, Stages
<1>3. TypeOK'
  <2>1. CASE stage = "upsert"
    <3>1. mesh \in Inodes /\ fd' = [fd EXCEPT ![r] = mesh]
      BY <1>1, <2>1 DEF Connect, IInv, TypeOK
    <3> QED BY <1>2, <2>1, <3>1, ConstantsAssumption DEF IInv, TypeOK, OpenMesh, inputs, names
  <2>2. CASE stage = "leave"
    BY <1>1, <1>2, <2>2 DEF IInv, TypeOK, OpenMesh, inputs, names
  <2> QED BY <2>1, <2>2
<1>4. Counted' /\ Inputs' /\ Building' /\ Served' /\ Undisturbed'
  <2>1. \A s \in Runs : pc'[s] \notin Using \cup {"annotate", "replace"}
    BY <1>2 DEF Using
  <2> QED BY <2>1, Frame DEF OpenMesh
<1>5. Writing'
  <2>1. pc'[r] = "upsert" => mesh' # NoInode /\ fd'[r] = mesh'
    BY <1>1, <1>2 DEF Connect, IInv, TypeOK, OpenMesh, names
  <2> QED BY <1>2, <2>1 DEF Writing
<1>6. Viewed'
  BY <1>2 DEF IInv, Viewed, OpenMesh, names
<1> QED BY <1>2, <1>3, <1>4, <1>5, <1>6 DEF IInv

LEMMA LeaveStep ==
  ASSUME IInv, NEW r \in Runs, Leave(r)
  PROVE  IInv'
<1>1. lock' = NoRun /\ pc' = [s \in Runs |-> "idle"]
  BY Handover DEF Leave
<1>2. TypeOK'
  BY <1>1, Alone DEF IInv, TypeOK, Leave, inputs, names, Stages
<1>3. Locked' /\ Writing'
  BY <1>1 DEF Locked, Writing
<1>4. Counted' /\ Inputs' /\ Building' /\ Served' /\ Undisturbed'
  <2>1. \A s \in Runs : pc'[s] \notin Using \cup {"annotate", "replace"}
    BY <1>1 DEF Using
  <2> QED BY <2>1, Frame DEF Leave
<1>5. Viewed'
  BY Alone DEF IInv, Viewed, Leave, names
<1> QED BY <1>2, <1>3, <1>4, <1>5 DEF IInv

\* A fault leaves the mesh as it is.
LEMMA FaultStep ==
  ASSUME IInv, NEW r \in Runs, StageFails(r) \/ Crash(r)
  PROVE  IInv'
<1>1. /\ pc[r] # "idle" /\ Release(r) /\ Goto(r, "idle") /\ Close(r)
      /\ faults < MaxFaults /\ faults' = faults + 1
      /\ tmp' \in {tmp, NoInode}
      /\ UNCHANGED <<csv, notes, gens, alone, mesh, file, found>>
  BY DEF StageFails, Crash, inputs, names
<1>2. lock' = NoRun /\ pc' = [s \in Runs |-> "idle"]
  BY <1>1, Handover
<1>3. orphans' \in [computing : Nat, writing : Nat]
  BY DEF IInv, TypeOK, StageFails, Crash, inputs
<1>4. faults' \in 0 .. MaxFaults /\ faults' # 0
  BY <1>1, ConstantsAssumption DEF IInv, TypeOK
<1>5. TypeOK'
  <2>1. fd' = [fd EXCEPT ![r] = NoInode]
    BY <1>1 DEF Close
  <2>2. \A s \in Runs : fd'[s] = NoInode
    BY <1>1, <2>1, Alone DEF IInv, TypeOK
  <2> QED BY <1>1, <1>2, <1>3, <1>4, <2>1, <2>2 DEF IInv, TypeOK, Stages
<1>6. Locked' /\ Inputs' /\ Building' /\ Writing'
  BY <1>2 DEF Locked, Inputs, Building, Writing, Using
<1>7. Counted' /\ Served'
  BY <1>1 DEF IInv, Counted, Served, Consistent
<1>8. Viewed' /\ Undisturbed'
  BY <1>4 DEF Viewed, Undisturbed
<1> QED BY <1>5, <1>6, <1>7, <1>8 DEF IInv

\* An orphan takes clusters.csv from the run that makes a mesh.
LEMMA OrphanStep ==
  ASSUME IInv, OrphanBegins \/ OrphanEnds
  PROVE  IInv'
<1>1. UNCHANGED <<lock, pc, fd, notes, names, file, found, faults>>
  BY DEF OrphanBegins, OrphanEnds
<1>2. /\ csv \in Nat /\ gens \in Nat /\ orphans \in [computing : Nat, writing : Nat]
      /\ alone \in [Runs -> BOOLEAN]
      /\ mesh # NoInode => mesh \in Inodes
  BY DEF IInv, TypeOK
<1>3. /\ orphans' \in [computing : Nat, writing : Nat]
      /\ csv' \in 0 .. MaxGen /\ gens' \in 0 .. MaxGen /\ gens <= gens' /\ csv' <= gens'
      /\ alone' \in [Runs -> BOOLEAN]
  <2>1. CASE OrphanBegins
    BY <1>2, <2>1, ConstantsAssumption DEF OrphanBegins, IInv, TypeOK, None
  <2>2. CASE OrphanEnds
    <3>1. csv' \in {None, gens + 1} /\ gens' = gens + 1 /\ gens < MaxGen /\ alone' = alone
      BY <2>2 DEF OrphanEnds, Written
    <3>2. orphans' \in [computing : Nat, writing : Nat]
      BY <1>2, <2>2 DEF OrphanEnds
    <3> QED BY <1>2, <3>1, <3>2, ConstantsAssumption DEF None
  <2> QED BY <2>1, <2>2
<1>4. TypeOK'
  BY <1>1, <1>3 DEF IInv, TypeOK, names
<1>5. Locked' /\ Writing' /\ Viewed'
  BY <1>1 DEF IInv, Locked, Writing, Viewed, names
<1>6. Counted'
  BY <1>1, <1>2, <1>3 DEF IInv, TypeOK, File, Counted
<1>7. ASSUME NEW r \in Runs, pc'[r] \in Using PROVE ~alone'[r]
  <2>1. CASE OrphanBegins
    BY <2>1 DEF OrphanBegins
  <2>2. CASE OrphanEnds
    BY <1>1, <1>2, <1>7, <2>2 DEF OrphanEnds, IInv, Inputs
  <2> QED BY <2>1, <2>2
<1>8. Inputs'
  BY <1>7 DEF Inputs, Using
<1>9. Building' /\ Served'
  BY <1>1 DEF IInv, Building, Served, UpToDate, Consistent, names
<1>10. Undisturbed'
  <2>1. orphans = [computing |-> 0, writing |-> 0] => orphans.computing = 0 /\ orphans.writing = 0
    OBVIOUS
  <2>2. orphans.computing > 0 \/ orphans.writing > 0
    BY DEF OrphanBegins, OrphanEnds
  <2>3. orphans # [computing |-> 0, writing |-> 0]
    BY <2>1, <2>2
  <2> QED BY <1>1, <2>3 DEF IInv, Undisturbed
<1> QED BY <1>4, <1>5, <1>6, <1>8, <1>9, <1>10 DEF IInv

LEMMA StutterStep ==
  ASSUME IInv, UNCHANGED vars
  PROVE  IInv'
<1>1. TypeOK' /\ Locked' /\ Counted' /\ Inputs' /\ Writing'
  BY DEF vars, IInv, TypeOK, Locked, Counted, Inputs, Writing
<1>2. Building' /\ Served'
  BY DEF vars, IInv, Building, Served, UpToDate, Consistent
<1>3. Viewed' /\ Undisturbed'
  BY DEF vars, IInv, Viewed, Undisturbed
<1> QED BY <1>1, <1>2, <1>3 DEF IInv

\* A step under the invariant.
LEMMA NextStep ==
  ASSUME WorkerRuns = {}, IInv, [Next]_vars
  PROVE  IInv'
<1>1. ASSUME NEW r \in Runs, Step(r) PROVE IInv'
  <2>1. CASE Enter(r) BY <2>1, EnterStep
  <2>2. CASE BeginClusters(r) BY <2>2, BeginClustersStep
  <2>3. CASE EndClusters(r) BY <2>3, EndClustersStep
  <2>4. CASE Validate(r) BY <2>4, ValidateStep
  <2>5. CASE UnlinkStaleTmp(r) BY <2>5, UnlinkStaleTmpStep
  <2>6. CASE ConnectTmp(r) BY <2>6, ConnectTmpStep
  <2>7. CASE LoadRecords(r) BY <2>7, LoadRecordsStep
  <2>8. CASE LoadAnnotations(r) BY <2>8, LoadAnnotationsStep
  <2>9. CASE Replace(r) BY <2>9, ReplaceStep
  <2>10. CASE OpenForViews(r) BY <2>10, OpenForViewsStep
  <2>11. CASE CreateViews(r) BY <2>11, CreateViewsStep
  <2>12. CASE ResolveLinks(r) BY <2>12, ResolveLinksStep
  <2>13. CASE SkipAttach(r) BY <2>13, SkipAttachStep
  <2>14. CASE OpenForLinks(r) BY <2>14, OpenForLinksStep
  <2>15. CASE WriteLinks(r) BY <2>15, WriteLinksStep
  <2>16. CASE OpenMesh(r) BY <2>16, OpenMeshStep
  <2>17. CASE Upsert(r) BY <2>17, UpsertStep
  <2>18. CASE Leave(r) BY <2>18, LeaveStep
  <2> QED BY <1>1, <2>1, <2>2, <2>3, <2>4, <2>5, <2>6, <2>7, <2>8, <2>9,
             <2>10, <2>11, <2>12, <2>13, <2>14, <2>15, <2>16, <2>17, <2>18
          DEF Step
<1>2. ASSUME NEW r \in Runs, StageFails(r) \/ Crash(r) PROVE IInv'
  BY <1>2, FaultStep
<1>3. CASE OrphanBegins \/ OrphanEnds
  BY <1>3, OrphanStep
<1> QED BY <1>1, <1>2, <1>3, StutterStep DEF Next

-----------------------------------------------------------------------------
(* The theorems.                                                           *)

\* Without runs that go past the lock, IInv is an invariant.
THEOREM Invariance == WorkerRuns = {} => (Spec => []IInv)
<1> SUFFICES ASSUME WorkerRuns = {} PROVE Spec => []IInv
  OBVIOUS
<1>1. Init => IInv
  BY InitStep
<1>2. IInv /\ [Next]_vars => IInv'
  BY NextStep
<1> QED BY <1>1, <1>2, PTL DEF Spec

\* However many runs, failures and crashes: what is served is a finished build.
THEOREM FinishedTheorem == WorkerRuns = {} => (Spec => []MeshIsFinished)
<1>1. IInv => MeshIsFinished
  BY DEF IInv, Served, MeshIsFinished
<1> QED BY <1>1, Invariance, PTL

\* Views, links and upserts always go to the file that is served.
THEOREM WritersTheorem == WorkerRuns = {} => (Spec => []WritesReachTheMesh)
<1>1. IInv => WritesReachTheMesh
  BY DEF IInv, Writing, WritesReachTheMesh
<1> QED BY <1>1, Invariance, PTL

\* The cluster ids that the attachments of the served mesh refer to are always
\* those of its own records, and so are those of its annotations, unless the
\* Splink of a dead run wrote clusters.csv next to the run that made it.
THEOREM ReferencesTheorem == WorkerRuns = {} => (Spec => []ReferencesResolve)
<1>1. IInv => ReferencesResolve
  BY DEF IInv, Served, Consistent, ReferencesResolve
<1> QED BY <1>1, Invariance, PTL

\* Between runs, as long as none failed, the served mesh has its views and its
\* own annotations.
THEOREM CompleteTheorem == WorkerRuns = {} => (Spec => []QuietMeshIsComplete)
<1>1. IInv => QuietMeshIsComplete
  BY DEF IInv, Served, Consistent, Viewed, Undisturbed, QuietMeshIsComplete
<1> QED BY <1>1, Invariance, PTL

\* What MeshNeverGoesBack says of a step.
Forward == mesh # NoInode =>
  /\ mesh' # NoInode
  /\ file'[mesh'].own => file'[mesh'].records >= file[mesh].records

\* No step takes the mesh away, or puts an older one in its place that a run
\* alone with clusters.csv has made.
THEOREM ProgressTheorem == WorkerRuns = {} => (Spec => MeshNeverGoesBack)
<1>1. ASSUME IInv, [Next]_vars, mesh # NoInode
      PROVE  /\ mesh' # NoInode
             /\ file'[mesh'].own => file'[mesh'].records >= file[mesh].records
  <2> USE DEF Forward
  <2>1. /\ mesh \in Inodes /\ file[mesh] \in File /\ file[mesh].records \in Nat
        /\ \A i \in Inodes : file[i].records \in Nat
    BY <1>1 DEF IInv, TypeOK, File
  <2>2. ASSUME NEW r \in Runs, Replace(r)
        PROVE  Forward
    <3>1. /\ tmp \in Inodes /\ mesh' = tmp /\ file' = file /\ tmp # NoInode
          /\ pc[r] = "replace"
      BY <1>1, <2>2 DEF Replace, IInv, TypeOK
    <3>2. UpToDate(file[tmp])
      BY <1>1, <3>1 DEF IInv, Building
    <3> QED BY <1>1, <2>1, <3>1, <3>2 DEF UpToDate
  <2>3. ASSUME UNCHANGED mesh, file'[mesh].records = file[mesh].records
        PROVE  Forward
    BY <1>1, <2>1, <2>3
  <2>4. ASSUME NEW r \in Runs, ConnectTmp(r)
        PROVE  Forward
    <3>1. mesh' = mesh /\ file'[mesh] = file[mesh]
      BY <1>1, <2>1, <2>4 DEF ConnectTmp, Free, IInv, TypeOK
    <3> QED BY <2>3, <3>1
  <2>5. ASSUME NEW r \in Runs,
               LoadRecords(r) \/ LoadAnnotations(r) \/ CreateViews(r) \/ WriteLinks(r)
        PROVE  Forward
    <3>1. CASE LoadRecords(r) \/ LoadAnnotations(r)
      <4>1. fd[r] = tmp /\ mesh # tmp
        BY <1>1, <3>1 DEF LoadRecords, LoadAnnotations, IInv, Building, Served
      <4>2. mesh' = mesh /\ file'[mesh].records = file[mesh].records
        BY <1>1, <2>1, <3>1, <4>1
        DEF LoadRecords, LoadAnnotations, names, IInv, TypeOK
      <4> QED BY <2>3, <4>2
    <3>2. CASE CreateViews(r)
      <4>1. mesh' = mesh /\ file'[mesh].records = file[mesh].records
        BY <1>1, <2>1, <3>2 DEF CreateViews, names, IInv, TypeOK, File
      <4> QED BY <2>3, <4>1
    <3>3. CASE WriteLinks(r)
      <4>1. mesh' = mesh /\ file'[mesh].records = file[mesh].records
        BY <1>1, <2>1, <3>3 DEF WriteLinks, names, IInv, TypeOK, File
      <4> QED BY <2>3, <4>1
    <3> QED BY <2>5, <3>1, <3>2, <3>3
  <2>6. ASSUME mesh' = mesh, file' = file
        PROVE  Forward
    BY <2>3, <2>6
  <2> HIDE DEF Forward
  <2>7. ASSUME NEW r \in Runs,
               Enter(r) \/ BeginClusters(r) \/ EndClusters(r) \/ Validate(r) \/ UnlinkStaleTmp(r)
        PROVE  Forward
    BY <2>6, <2>7 DEF Enter, BeginClusters, EndClusters, Validate, UnlinkStaleTmp, names
  <2>8. ASSUME NEW r \in Runs,
               \/ OpenForViews(r) \/ ResolveLinks(r) \/ SkipAttach(r) \/ OpenForLinks(r)
               \/ OpenMesh(r) \/ Upsert(r) \/ Leave(r) \/ StageFails(r) \/ Crash(r)
        PROVE  Forward
    BY <2>6, <2>8
    DEF OpenForViews, ResolveLinks, SkipAttach, OpenForLinks, OpenMesh, Upsert, Leave,
        StageFails, Crash, names
  <2>9. ASSUME OrphanBegins \/ OrphanEnds PROVE Forward
    BY <2>6, <2>9 DEF OrphanBegins, OrphanEnds, names
  <2>10. ASSUME UNCHANGED vars PROVE Forward
    BY <2>6, <2>10 DEF vars
  <2>11. ASSUME NEW r \in Runs, Step(r) PROVE Forward
    BY <2>2, <2>4, <2>5, <2>7, <2>8, <2>11 DEF Step
  <2>12. ASSUME NEW r \in Runs, StageFails(r) \/ Crash(r) PROVE Forward
    BY <2>8, <2>12
  <2>13. Forward
    BY <1>1, <2>9, <2>10, <2>11, <2>12 DEF Next
  <2> QED BY <1>1, <2>13 DEF Forward
<1>2. IInv /\ [Next]_vars =>
        [mesh # NoInode =>
           /\ mesh' # NoInode
           /\ file'[mesh'].own => file'[mesh'].records >= file[mesh].records]_vars
  BY <1>1
<1> QED BY <1>2, Invariance, PTL DEF Spec, MeshNeverGoesBack

-----------------------------------------------------------------------------
(* With worker runs, which go past the lock.                               *)

\* A step changes the types of no variable, whoever takes it.
LEMMA TypeStep ==
  ASSUME TypeOK, [Next]_vars
  PROVE  TypeOK'
<1>1. ASSUME NEW r \in Runs, Enter(r) \/ Leave(r) PROVE TypeOK'
  BY <1>1 DEF TypeOK, Enter, Leave, Release, Goto, Stages, inputs, names
<1>2. ASSUME NEW r \in Runs, BeginClusters(r) \/ EndClusters(r) \/ Validate(r) PROVE TypeOK'
  <2>1. CASE BeginClusters(r)
    <3>1. alone' \in [Runs -> BOOLEAN]
      BY <2>1 DEF BeginClusters
    <3> QED
      BY <2>1, <3>1, ConstantsAssumption DEF TypeOK, BeginClusters, Goto, Stages, None, names
  <2>2. CASE EndClusters(r)
    <3>1. csv' \in {None, gens + 1} /\ gens' = gens + 1 /\ gens < MaxGen
      BY <2>2 DEF EndClusters, Written
    <3> QED
      BY <2>2, <3>1, ConstantsAssumption DEF TypeOK, EndClusters, Goto, Stages, None, names
  <2>3. CASE Validate(r)
    BY <2>3 DEF TypeOK, Validate, Goto, Stages, names
  <2> QED
    BY <1>2, <2>1, <2>2, <2>3
<1>3. ASSUME NEW r \in Runs, UnlinkStaleTmp(r) PROVE TypeOK'
  BY <1>3 DEF TypeOK, UnlinkStaleTmp, Goto, Stages, inputs
<1>4. ASSUME NEW r \in Runs, ConnectTmp(r) PROVE TypeOK'
  <2>1. PICK i \in Inodes : /\ fd' = [fd EXCEPT ![r] = i] /\ tmp' = i
                            /\ file' = [file EXCEPT ![i] = NewFile]
    BY <1>4 DEF ConnectTmp, Connect
  <2>2. NewFile \in File
    BY ConstantsAssumption DEF NewFile, File, None
  <2>3. file' \in [Inodes -> File] /\ fd' \in [Runs -> Inodes \cup {NoInode}]
    BY <2>1, <2>2 DEF TypeOK
  <2>4. /\ pc' = [pc EXCEPT ![r] = "records"] /\ i # NoInode
        /\ UNCHANGED <<lock, csv, notes, gens, orphans, alone, mesh, found, faults>>
    BY <1>4, ConstantsAssumption DEF ConnectTmp, Goto, inputs
  <2> QED
    BY <2>1, <2>3, <2>4 DEF TypeOK, Stages
<1>5. ASSUME NEW r \in Runs, LoadRecords(r) \/ LoadAnnotations(r) \/ CreateViews(r) \/ WriteLinks(r)
      PROVE  TypeOK'
  <2>1. /\ fd[r] \in Inodes /\ file \in [Inodes -> File] /\ found[r] \in 0 .. MaxGen
        /\ csv \in 0 .. MaxGen /\ notes \in 0 .. MaxGen /\ alone[r] \in BOOLEAN
    BY <1>5 DEF TypeOK, LoadRecords, LoadAnnotations, CreateViews, WriteLinks
  <2>2. file' \in [Inodes -> File]
    <3>1. CASE LoadRecords(r)
      BY <2>1, <3>1 DEF LoadRecords, File
    <3>2. CASE LoadAnnotations(r)
      BY <2>1, <3>2 DEF LoadAnnotations, File
    <3>3. CASE CreateViews(r)
      BY <2>1, <3>3 DEF CreateViews, File
    <3>4. CASE WriteLinks(r)
      BY <2>1, <3>4 DEF WriteLinks, File
    <3> QED
      BY <1>5, <3>1, <3>2, <3>3, <3>4
  <2>3. CASE LoadRecords(r)
    BY <2>2, <2>3 DEF TypeOK, LoadRecords, Goto, Stages, inputs, names
  <2>4. CASE LoadAnnotations(r) \/ CreateViews(r) \/ WriteLinks(r)
    <3>1. PICK stage \in {"replace", "attach"} : pc' = [pc EXCEPT ![r] = stage]
      BY <2>4 DEF LoadAnnotations, CreateViews, WriteLinks, Goto
    <3>2. /\ fd' = [fd EXCEPT ![r] = NoInode]
          /\ UNCHANGED <<lock, csv, notes, gens, orphans, alone, mesh, tmp, found, faults>>
      BY <2>4 DEF LoadAnnotations, CreateViews, WriteLinks, Close, inputs, names
    <3> QED
      BY <2>2, <3>1, <3>2 DEF TypeOK, Stages
  <2> QED
    BY <1>5, <2>3, <2>4
<1>6. ASSUME NEW r \in Runs, Replace(r) PROVE TypeOK'
  BY <1>6 DEF TypeOK, Replace, Goto, Stages, inputs
<1>7. ASSUME NEW r \in Runs, OpenForViews(r) \/ OpenForLinks(r) \/ OpenMesh(r) PROVE TypeOK'
  <2>1. mesh # NoInode => mesh \in Inodes
    BY DEF TypeOK
  <2>2. CASE OpenForViews(r) \/ OpenForLinks(r)
    BY <2>1, <2>2 DEF TypeOK, OpenForViews, OpenForLinks, Connect, Goto, Stages, inputs, names
  <2>3. CASE OpenMesh(r)
    BY <2>1, <2>3 DEF TypeOK, OpenMesh, Connect, Goto, Stages, inputs, names
  <2> QED
    BY <1>7, <2>2, <2>3
<1>8. ASSUME NEW r \in Runs, ResolveLinks(r) \/ SkipAttach(r) \/ Upsert(r) PROVE TypeOK'
  <2>1. mesh # NoInode => file[mesh].records \in 0 .. MaxGen
    BY DEF TypeOK, File
  <2>2. CASE ResolveLinks(r)
    BY <2>1, <2>2 DEF TypeOK, ResolveLinks, Goto, Stages, inputs, names
  <2>3. CASE SkipAttach(r) \/ Upsert(r)
    BY <2>3 DEF TypeOK, SkipAttach, Upsert, Close, Goto, Stages, inputs, names
  <2> QED
    BY <1>8, <2>2, <2>3
<1>9. ASSUME NEW r \in Runs, StageFails(r) \/ Crash(r) PROVE TypeOK'
  <2>1. /\ pc' = [pc EXCEPT ![r] = "idle"] /\ fd' = [fd EXCEPT ![r] = NoInode]
        /\ lock' \in {lock, NoRun} /\ tmp' \in {tmp, NoInode} /\ faults' = faults + 1
        /\ faults < MaxFaults /\ UNCHANGED <<csv, notes, gens, alone, mesh, file, found>>
    BY <1>9 DEF StageFails, Crash, Goto, Close, Release, inputs, names
  <2>2. orphans' \in [computing : Nat, writing : Nat]
    BY <1>9 DEF TypeOK, StageFails, Crash, inputs
  <2> QED
    BY <2>1, <2>2, ConstantsAssumption DEF TypeOK, Stages
<1>10. CASE OrphanBegins
  <2>1. orphans' \in [computing : Nat, writing : Nat] /\ alone' \in [Runs -> BOOLEAN]
    BY <1>10 DEF TypeOK, OrphanBegins
  <2> QED
    BY <1>10, <2>1, ConstantsAssumption DEF TypeOK, OrphanBegins, None, names
<1>11. CASE OrphanEnds
  <2>1. orphans' \in [computing : Nat, writing : Nat]
    BY <1>11 DEF TypeOK, OrphanEnds
  <2>2. csv' \in {None, gens + 1} /\ gens' = gens + 1 /\ gens < MaxGen
    BY <1>11 DEF OrphanEnds, Written
  <2> QED
    BY <1>11, <2>1, <2>2, ConstantsAssumption DEF TypeOK, OrphanEnds, None, names
<1>12. CASE UNCHANGED vars
  BY <1>12 DEF TypeOK, vars
<1> QED
  BY <1>1, <1>2, <1>3, <1>4, <1>5, <1>6, <1>7, <1>8, <1>9, <1>10, <1>11, <1>12 DEF Next, Step

\* Every variable keeps its type, and a file is open exactly in the stages that
\* write one (pipeline.py:409-676).
THEOREM TypeCorrect == Spec => []TypeOK
<1>1. Init => TypeOK
  BY InitStep DEF IInv
<1>2. TypeOK /\ [Next]_vars => TypeOK'
  BY TypeStep
<1> QED BY <1>1, <1>2, PTL DEF Spec

\* The stages of run_load, and those from Splink's writing to its end.
Load == {"load", "connect", "records", "annotate", "replace"}
Make == Load \cup {"clusters", "validate"}

LoadsApart == \A r, s \in Runs : pc[r] \in Load /\ pc[s] \in Load => r = s
MakesApart == \A r, s \in Runs : pc[r] \in Make /\ pc[s] \in Make => r = s

\* The load under way has the tmp file, which is finished before it is renamed.
LoadInv ==
  /\ TypeOK
  /\ mesh # NoInode => mesh # tmp /\ file[mesh].built
  /\ \A r \in Runs : pc[r] \in {"records", "annotate"} => fd[r] = tmp
  /\ \A r \in Runs : pc[r] = "replace" /\ tmp # NoInode => file[tmp].built

LEMMA LoadStep ==
  ASSUME LoadInv, LoadsApart, LoadsApart', [Next]_vars
  PROVE  LoadInv'
<1>1. TypeOK /\ TypeOK'
  BY TypeStep DEF LoadInv
<1>2. ASSUME NEW r \in Runs, UnlinkStaleTmp(r) PROVE LoadInv'
  <2>1. pc[r] = "load" /\ tmp' = NoInode /\ pc' = [pc EXCEPT ![r] = "connect"] /\ UNCHANGED <<mesh, fd, file>>
    BY <1>2 DEF UnlinkStaleTmp, Goto
  <2>2. \A s \in Runs : s # r => pc[s] \notin Load
    BY <2>1 DEF LoadsApart, Load
  <2> QED
    BY <1>1, <2>1, <2>2 DEF LoadInv, TypeOK, Load
<1>3. ASSUME NEW r \in Runs, ConnectTmp(r) PROVE LoadInv'
  <2>1. PICK i \in Inodes : /\ Free(i) /\ tmp' = i /\ fd' = [fd EXCEPT ![r] = i]
                            /\ file' = [file EXCEPT ![i] = NewFile]
    BY <1>3 DEF ConnectTmp, Connect
  <2>2. pc[r] = "connect" /\ pc' = [pc EXCEPT ![r] = "records"] /\ mesh' = mesh
    BY <1>3 DEF ConnectTmp, Goto
  <2>3. \A s \in Runs : s # r => pc[s] \notin Load
    BY <2>2 DEF LoadsApart, Load
  <2>4. mesh # i
    BY <2>1 DEF Free
  <2> QED
    BY <1>1, <2>1, <2>2, <2>3, <2>4 DEF LoadInv, TypeOK, Load
<1>4. ASSUME NEW r \in Runs, LoadRecords(r) \/ LoadAnnotations(r) PROVE LoadInv'
  <2>1. /\ pc[r] \in {"records", "annotate"} /\ fd[r] = tmp /\ tmp \in Inodes /\ mesh # tmp
        /\ UNCHANGED <<mesh, tmp>>
    BY <1>1, <1>4, ConstantsAssumption DEF LoadInv, TypeOK, LoadRecords, LoadAnnotations, names
  <2>2. \A s \in Runs : s # r => pc[s] \notin Load
    BY <2>1 DEF LoadsApart, Load
  <2>3. CASE LoadRecords(r)
    <3>1. /\ pc' = [pc EXCEPT ![r] = "annotate"] /\ fd' = fd
          /\ file' = [file EXCEPT ![tmp].records = csv, ![tmp].own = alone[r]]
      BY <2>1, <2>3 DEF LoadRecords, Goto
    <3> QED
      BY <1>1, <2>1, <2>2, <3>1 DEF LoadInv, TypeOK, Load
  <2>4. CASE LoadAnnotations(r)
    <3>1. /\ pc' = [pc EXCEPT ![r] = "replace"] /\ fd' = [fd EXCEPT ![r] = NoInode]
          /\ file' = [file EXCEPT ![tmp].annotations = notes, ![tmp].built = TRUE]
      BY <2>1, <2>4 DEF LoadAnnotations, Goto, Close
    <3>2. file'[tmp].built /\ \A i \in Inodes : i # tmp => file'[i] = file[i]
      BY <1>1, <2>1, <3>1 DEF TypeOK, File
    <3> QED
      BY <1>1, <2>1, <2>2, <3>1, <3>2 DEF LoadInv, TypeOK, Load
  <2> QED
    BY <1>4, <2>3, <2>4
<1>5. ASSUME NEW r \in Runs, Replace(r) PROVE LoadInv'
  <2>1. /\ pc[r] = "replace" /\ tmp # NoInode /\ mesh' = tmp /\ tmp' = NoInode /\ UNCHANGED <<fd, file>>
        /\ \E stage \in {"leave", "valentine"} : pc' = [pc EXCEPT ![r] = stage]
    BY <1>5 DEF Replace, Goto
  <2>2. \A s \in Runs : s # r => pc[s] \notin Load
    BY <2>1 DEF LoadsApart, Load
  <2> QED
    BY <1>1, <2>1, <2>2 DEF LoadInv, TypeOK, Load
<1>6. ASSUME NEW r \in Runs, CreateViews(r) \/ WriteLinks(r) PROVE LoadInv'
  <2>1. /\ pc[r] \in {"views", "links"} /\ pc' = [pc EXCEPT ![r] = "attach"]
        /\ fd' = [fd EXCEPT ![r] = NoInode] /\ UNCHANGED <<mesh, tmp>>
    BY <1>6 DEF CreateViews, WriteLinks, Goto, Close, names
  <2>2. \A i \in Inodes : file'[i].built = file[i].built
    BY <1>1, <1>6 DEF CreateViews, WriteLinks, TypeOK, File
  <2> QED
    BY <1>1, <2>1, <2>2 DEF LoadInv, TypeOK
<1>7. ASSUME NEW r \in Runs, StageFails(r) PROVE LoadInv'
  <2>1. /\ pc' = [pc EXCEPT ![r] = "idle"] /\ fd' = [fd EXCEPT ![r] = NoInode]
        /\ UNCHANGED <<mesh, file>>
        /\ tmp' = tmp \/ (tmp' = NoInode /\ pc[r] \in Load)
    BY <1>7 DEF StageFails, Goto, Close, Load
  <2>2. tmp' # tmp => \A s \in Runs : s # r => pc[s] \notin Load
    BY <2>1 DEF LoadsApart
  <2> QED
    BY <1>1, <2>1, <2>2 DEF LoadInv, TypeOK, Load
<1>8. ASSUME UNCHANGED <<mesh, tmp, file>>,
             \E r \in Runs, stage \in Stages \ {"records", "annotate", "replace"} :
                /\ pc' = [pc EXCEPT ![r] = stage]
                /\ \A s \in Runs : s # r => fd'[s] = fd[s]
      PROVE  LoadInv'
  BY <1>1, <1>8 DEF LoadInv, TypeOK
<1>9. ASSUME NEW r \in Runs, Enter(r) \/ Leave(r) \/ BeginClusters(r) \/ EndClusters(r) \/ Validate(r)
      PROVE  LoadInv'
  BY <1>8, <1>9
  DEF Enter, Leave, BeginClusters, EndClusters, Validate, Goto, Stages, names
<1>10. ASSUME NEW r \in Runs, OpenForViews(r) \/ OpenForLinks(r) \/ OpenMesh(r) \/ ResolveLinks(r)
                               \/ SkipAttach(r) \/ Upsert(r) \/ Crash(r)
       PROVE  LoadInv'
  <2>1. UNCHANGED <<mesh, tmp, file>>
    BY <1>10 DEF OpenForViews, OpenForLinks, OpenMesh, ResolveLinks, SkipAttach, Upsert, Crash, names
  <2>2. PICK stage \in Stages \ {"records", "annotate", "replace"} : pc' = [pc EXCEPT ![r] = stage]
    BY <1>10 DEF OpenForViews, OpenForLinks, OpenMesh, ResolveLinks, SkipAttach, Upsert, Crash, Goto, Stages
  <2>3. \A s \in Runs : s # r => fd'[s] = fd[s]
    BY <1>1, <1>10
    DEF OpenForViews, OpenForLinks, OpenMesh, ResolveLinks, SkipAttach, Upsert, Crash, Connect, Close, TypeOK
  <2> QED
    BY <1>8, <2>1, <2>2, <2>3
<1>11. CASE OrphanBegins \/ OrphanEnds
  BY <1>1, <1>11 DEF LoadInv, OrphanBegins, OrphanEnds, names
<1>12. CASE UNCHANGED vars
  BY <1>1, <1>12 DEF LoadInv, vars
<1> QED
  BY <1>2, <1>3, <1>4, <1>5, <1>6, <1>7, <1>9, <1>10, <1>11, <1>12 DEF Next, Step

\* Whatever gets past the lock: as long as no two loads overlap, what is served
\* is a finished build (pipeline.py:415-462, worker.py:88).
THEOREM ApartFinishedTheorem == Spec /\ []LoadsApart => []MeshIsFinished
<1>1. Init => LoadInv
  <2> SUFFICES ASSUME Init PROVE LoadInv
    OBVIOUS
  <2>1. TypeOK
    BY InitStep DEF IInv
  <2> QED
    BY <2>1 DEF Init, LoadInv
<1>2. LoadInv /\ LoadsApart /\ LoadsApart' /\ [Next]_vars => LoadInv'
  BY LoadStep
<1>3. LoadInv => MeshIsFinished
  BY DEF LoadInv, MeshIsFinished
<1> QED BY <1>1, <1>2, <1>3, PTL DEF Spec

\* The run that makes a mesh and is alone with clusters.csv has one that is no
\* older than the mesh, and then a tmp file that is not.
MakeInv ==
  /\ Counted
  /\ \A r \in Runs :
       /\ pc[r] \in Using /\ alone[r] => orphans.writing = 0
       /\ pc[r] \in Using \ {"clusters"} /\ alone[r] /\ mesh # NoInode
            => file[mesh].records <= csv
       /\ pc[r] \in {"annotate", "replace"} /\ tmp # NoInode => UpToDate(file[tmp])

LEMMA MakeStep ==
  ASSUME LoadInv, MakeInv, MakesApart, MakesApart', [Next]_vars
  PROVE  MakeInv' /\ Forward
<1>1. TypeOK /\ TypeOK'
  BY TypeStep DEF LoadInv
<1>2. /\ \A i \in Inodes : file[i].records \in Nat
      /\ csv \in Nat /\ gens \in Nat /\ orphans.writing \in Nat
      /\ mesh # NoInode => mesh \in Inodes
  BY <1>1 DEF TypeOK, File
<1>3. ASSUME NEW r \in Runs, pc[r] \in Make PROVE \A s \in Runs : s # r => pc[s] \notin Make
  BY <1>3 DEF MakesApart
<1>4. ASSUME NEW r \in Runs, BeginClusters(r) PROVE MakeInv' /\ Forward
  <2>1. /\ pc[r] = "splink" /\ pc' = [pc EXCEPT ![r] = "clusters"] /\ csv' = None
        /\ UNCHANGED <<gens, orphans, mesh, tmp, file>>
    BY <1>4 DEF BeginClusters, Goto, names
  <2>2. \A s \in Runs : s # r => pc'[s] \notin Make
    BY <1>1, <2>1 DEF MakesApart, Make, TypeOK
  <2>3. alone'[r] => ~(orphans.writing > 0)
    BY <1>4, Zenon DEF BeginClusters, OthersWrite
  <2>4. Counted' /\ Forward
    BY <1>2, <2>1 DEF MakeInv, Counted, None, Forward
  <2>5. \A s \in Runs \ {r} : pc'[s] \notin Using \cup {"annotate", "replace"}
    BY <2>2 DEF Make, Load, Using
  <2> QED
    BY <1>1, <1>2, <2>1, <2>3, <2>4, <2>5 DEF MakeInv, TypeOK, Using
<1>5. ASSUME NEW r \in Runs, EndClusters(r) PROVE MakeInv' /\ Forward
  <2>1. /\ pc[r] = "clusters" /\ gens' = gens + 1 /\ csv' \in {None, gens + 1}
        /\ alone[r] => csv' = gens + 1
        /\ UNCHANGED <<alone, orphans, mesh, tmp, file>>
        /\ \E stage \in {"load", "validate"} : pc' = [pc EXCEPT ![r] = stage]
    BY <1>1, <1>5 DEF EndClusters, Written, Goto, names, TypeOK
  <2>2. \A s \in Runs : s # r => pc[s] \notin Make
    BY <1>3, <2>1 DEF Make
  <2>3. Counted' /\ Forward
    BY <1>2, <2>1 DEF MakeInv, Counted, None, Forward
  <2>4. mesh # NoInode => file[mesh].records <= gens
    BY <1>2 DEF MakeInv, Counted
  <2>5. /\ \A s \in Runs \ {r} : pc'[s] \notin Using \cup {"annotate", "replace"}
        /\ pc'[r] \in {"load", "validate"}
    BY <1>1, <2>1, <2>2 DEF Make, Load, Using, TypeOK
  <2> QED
    BY <1>2, <2>1, <2>3, <2>4, <2>5 DEF MakeInv, Using
<1>6. ASSUME NEW r \in Runs, UnlinkStaleTmp(r) \/ Validate(r) PROVE MakeInv' /\ Forward
  <2>1. /\ pc[r] \in {"load", "validate"} /\ UNCHANGED <<csv, gens, orphans, alone, mesh, file>>
        /\ \E stage \in {"load", "connect"} : pc' = [pc EXCEPT ![r] = stage]
    BY <1>6 DEF UnlinkStaleTmp, Validate, Goto, names, inputs
  <2>2. \A s \in Runs : s # r => pc[s] \notin Make
    BY <1>3, <2>1 DEF Make, Load
  <2>3. Counted' /\ Forward
    BY <1>2, <2>1 DEF MakeInv, Counted, Forward
  <2>4. /\ \A s \in Runs \ {r} : pc'[s] \notin Using \cup {"annotate", "replace"}
        /\ pc'[r] \in {"load", "connect"}
    BY <1>1, <2>1, <2>2 DEF Make, Load, Using, TypeOK
  <2> QED
    BY <2>1, <2>3, <2>4 DEF MakeInv, Using
<1>7. ASSUME NEW r \in Runs, ConnectTmp(r) PROVE MakeInv' /\ Forward
  <2>1. PICK i \in Inodes : Free(i) /\ tmp' = i /\ file' = [file EXCEPT ![i] = NewFile]
    BY <1>7 DEF ConnectTmp
  <2>2. /\ pc[r] = "connect" /\ pc' = [pc EXCEPT ![r] = "records"]
        /\ UNCHANGED <<csv, gens, orphans, alone, mesh>>
    BY <1>7 DEF ConnectTmp, Goto, inputs
  <2>3. \A s \in Runs : s # r => pc[s] \notin Make
    BY <1>3, <2>2 DEF Make, Load
  <2>4. mesh # NoInode => mesh # i /\ file'[mesh] = file[mesh]
    BY <1>1, <1>2, <2>1 DEF Free, TypeOK
  <2>5. Counted'
    BY <1>1, <1>2, <2>1, <2>2 DEF MakeInv, Counted, NewFile, None, TypeOK
  <2>6. Forward
    BY <1>2, <2>2, <2>4 DEF Forward
  <2>7. /\ \A s \in Runs \ {r} : pc'[s] \notin Using \cup {"annotate", "replace"}
        /\ pc'[r] = "records"
    BY <1>1, <2>2, <2>3 DEF Make, Load, Using, TypeOK
  <2> QED
    BY <2>2, <2>4, <2>5, <2>6, <2>7 DEF MakeInv, Using
<1>8. ASSUME NEW r \in Runs, LoadRecords(r) PROVE MakeInv' /\ Forward
  <2>1. /\ pc[r] = "records" /\ fd[r] = tmp /\ tmp \in Inodes /\ mesh # tmp
        /\ UNCHANGED <<mesh, tmp, csv, gens, orphans, alone>>
    BY <1>1, <1>8, ConstantsAssumption DEF LoadInv, TypeOK, LoadRecords, names, inputs
  <2>2. \A s \in Runs : s # r => pc[s] \notin Make
    BY <1>3, <2>1 DEF Make, Load
  <2>3. \A i \in Inodes : i # tmp => file'[i] = file[i]
    BY <1>1, <1>8, <2>1 DEF LoadRecords, TypeOK
  <2>4. file'[tmp].records = csv /\ file'[tmp].own = alone[r]
    BY <1>1, <1>8, <2>1 DEF LoadRecords, TypeOK, File
  <2>5. Counted'
    BY <1>2, <2>1, <2>3, <2>4 DEF MakeInv, Counted
  <2>6. Forward
    BY <1>2, <2>1, <2>3 DEF Forward
  <2>7. /\ \A s \in Runs \ {r} : pc'[s] \notin Using \cup {"annotate", "replace"}
        /\ pc'[r] = "annotate"
    BY <1>1, <1>8, <2>2 DEF LoadRecords, Goto, Make, Load, Using, TypeOK
  <2>8. alone[r] /\ mesh # NoInode => file[mesh].records <= csv
    BY <2>1 DEF MakeInv, Using
  <2> QED
    BY <1>2, <2>1, <2>3, <2>4, <2>5, <2>6, <2>7, <2>8 DEF MakeInv, Using, UpToDate
<1>9. ASSUME NEW r \in Runs, LoadAnnotations(r) PROVE MakeInv' /\ Forward
  <2>1. /\ pc[r] = "annotate" /\ fd[r] = tmp /\ tmp \in Inodes /\ tmp # NoInode /\ mesh # tmp
        /\ UNCHANGED <<mesh, tmp, csv, gens, orphans, alone>>
    BY <1>1, <1>9, ConstantsAssumption DEF LoadInv, TypeOK, LoadAnnotations, names, inputs
  <2>2. \A s \in Runs : s # r => pc[s] \notin Make
    BY <1>3, <2>1 DEF Make, Load
  <2>3. \A i \in Inodes : file'[i].records = file[i].records /\ file'[i].own = file[i].own
    BY <1>1, <1>9, <2>1 DEF LoadAnnotations, TypeOK, File
  <2>4. Counted'
    BY <1>2, <2>1, <2>3 DEF MakeInv, Counted
  <2>5. Forward
    BY <1>2, <2>1, <2>3 DEF Forward
  <2>6. /\ \A s \in Runs \ {r} : pc'[s] \notin Using \cup {"annotate", "replace"}
        /\ pc'[r] = "replace"
    BY <1>1, <1>9, <2>2 DEF LoadAnnotations, Goto, Make, Load, Using, TypeOK
  <2>7. UpToDate(file[tmp])
    BY <2>1 DEF MakeInv
  <2> QED
    BY <1>2, <2>1, <2>3, <2>4, <2>5, <2>6, <2>7 DEF MakeInv, Using, UpToDate
<1>10. ASSUME NEW r \in Runs, Replace(r) PROVE MakeInv' /\ Forward
  <2>1. /\ pc[r] = "replace" /\ tmp # NoInode /\ mesh' = tmp /\ tmp' = NoInode /\ tmp \in Inodes
        /\ UNCHANGED <<csv, gens, orphans, alone, file>>
        /\ \E stage \in {"leave", "valentine"} : pc' = [pc EXCEPT ![r] = stage]
    BY <1>1, <1>10 DEF Replace, Goto, inputs, TypeOK
  <2>2. UpToDate(file[tmp])
    BY <2>1 DEF MakeInv
  <2>3. \A s \in Runs : s # r => pc[s] \notin Make
    BY <1>3, <2>1 DEF Make, Load
  <2>4. \A s \in Runs : pc'[s] \notin Using \cup {"annotate", "replace"}
    BY <1>1, <2>1, <2>3 DEF Make, Load, Using, TypeOK
  <2>5. Counted' /\ Forward
    BY <1>2, <2>1, <2>2 DEF MakeInv, Counted, Forward, UpToDate
  <2> QED
    BY <2>4, <2>5 DEF MakeInv, Using
<1>11. ASSUME UNCHANGED <<csv, gens, alone, mesh>>, tmp' \in {tmp, NoInode},
              \A i \in Inodes : file'[i].records = file[i].records /\ file'[i].own = file[i].own,
              NEW r \in Runs, NEW stage \in Stages \ (Using \cup {"annotate", "replace"}),
              pc' = [pc EXCEPT ![r] = stage],
              orphans'.writing = orphans.writing \/ pc[r] = "clusters"
       PROVE  MakeInv' /\ Forward
  <2>1. \A s \in Runs : pc'[s] \in Using \cup {"annotate", "replace"} => s # r /\ pc'[s] = pc[s]
    BY <1>1, <1>11 DEF TypeOK
  <2>2. Counted' /\ Forward
    BY <1>2, <1>11 DEF MakeInv, Counted, Forward
  <2>3. ASSUME NEW s \in Runs, pc'[s] \in Using PROVE orphans'.writing = orphans.writing
    <3>1. s # r /\ pc[s] \in Make
      BY <2>1, <2>3 DEF Using, Make, Load
    <3>2. pc[r] \notin Make
      BY <1>3, <3>1
    <3> QED BY <1>11, <3>2 DEF Make
  <2>4. ASSUME NEW s \in Runs, pc'[s] \in {"annotate", "replace"}, tmp' # NoInode
        PROVE  UpToDate(file[tmp])' /\ tmp' = tmp
    <3>1. UpToDate(file[tmp]) /\ tmp' = tmp /\ tmp \in Inodes
      BY <1>1, <1>11, <2>1, <2>4 DEF MakeInv, TypeOK
    <3> QED BY <1>2, <1>11, <3>1 DEF UpToDate
  <2> QED
    BY <1>2, <1>11, <2>1, <2>2, <2>3, <2>4 DEF MakeInv, Using
<1>12. ASSUME NEW r \in Runs, \/ Enter(r) \/ Leave(r) \/ OpenForViews(r) \/ OpenForLinks(r) \/ OpenMesh(r)
                              \/ ResolveLinks(r) \/ SkipAttach(r) \/ Upsert(r) \/ Crash(r) \/ StageFails(r)
       PROVE  MakeInv' /\ Forward
  <2>1. UNCHANGED <<csv, gens, alone, mesh, file>> /\ tmp' \in {tmp, NoInode}
    BY <1>12
    DEF Enter, Leave, OpenForViews, OpenForLinks, OpenMesh, ResolveLinks, SkipAttach, Upsert, Crash,
        StageFails, names, inputs
  <2>2. PICK stage \in Stages \ (Using \cup {"annotate", "replace"}) : pc' = [pc EXCEPT ![r] = stage]
    BY <1>12
    DEF Enter, Leave, OpenForViews, OpenForLinks, OpenMesh, ResolveLinks, SkipAttach, Upsert, Crash,
        StageFails, Goto, Stages, Using
  <2>3. orphans'.writing = orphans.writing \/ pc[r] = "clusters"
    <3>1. CASE Crash(r)
      BY <1>1, <3>1 DEF Crash, TypeOK
    <3>2. CASE ~Crash(r)
      BY <1>12, <3>2
      DEF Enter, Leave, OpenForViews, OpenForLinks, OpenMesh, ResolveLinks, SkipAttach, Upsert,
          StageFails, inputs
    <3> QED BY <3>1, <3>2
  <2> QED
    BY <1>11, <2>1, <2>2, <2>3
<1>13. ASSUME NEW r \in Runs, CreateViews(r) \/ WriteLinks(r) PROVE MakeInv' /\ Forward
  <2>1. UNCHANGED <<csv, gens, alone, orphans, mesh, tmp>> /\ pc' = [pc EXCEPT ![r] = "attach"]
    BY <1>13 DEF CreateViews, WriteLinks, Goto, names, inputs
  <2>2. \A i \in Inodes : file'[i].records = file[i].records /\ file'[i].own = file[i].own
    BY <1>1, <1>13 DEF CreateViews, WriteLinks, TypeOK, File
  <2>3. "attach" \in Stages \ (Using \cup {"annotate", "replace"})
    BY DEF Stages, Using
  <2> QED
    BY <1>11, <2>1, <2>2, <2>3
<1>14. CASE OrphanBegins \/ OrphanEnds
  <2>1. UNCHANGED <<pc, mesh, tmp, file>>
    BY <1>14 DEF OrphanBegins, OrphanEnds, names
  <2>2. gens <= gens' /\ csv' <= gens' /\ gens' \in Nat
    <3>1. CASE OrphanBegins
      BY <1>2, <3>1 DEF OrphanBegins, None
    <3>2. CASE OrphanEnds
      <4>1. csv' \in {None, gens + 1} /\ gens' = gens + 1
        BY <3>2 DEF OrphanEnds, Written
      <4> QED BY <1>2, <4>1 DEF None
    <3> QED BY <1>14, <3>1, <3>2
  <2>3. Counted' /\ Forward
    BY <1>2, <2>1, <2>2 DEF MakeInv, Counted, Forward
  <2>4. ASSUME NEW r \in Runs, pc'[r] \in Using PROVE ~alone'[r]
    <3>1. CASE OrphanBegins
      BY <3>1 DEF OrphanBegins
    <3>2. CASE OrphanEnds
      BY <1>2, <2>1, <2>4, <3>2 DEF OrphanEnds, MakeInv
    <3> QED BY <1>14, <3>1, <3>2
  <2> QED
    BY <2>1, <2>3, <2>4 DEF MakeInv, Using, UpToDate
<1>15. CASE UNCHANGED vars
  <2>1. MakeInv'
    BY <1>15 DEF MakeInv, Counted, UpToDate, vars
  <2> QED
    BY <1>2, <1>15, <2>1 DEF Forward, vars
<1> QED
  BY <1>4, <1>5, <1>6, <1>7, <1>8, <1>9, <1>10, <1>12, <1>13, <1>14, <1>15 DEF Next, Step

\* Whatever gets past the lock: as long as no two runs make a mesh at a time, from
\* Splink's writing to the rename, the mesh never goes back by a run that no
\* orphan disturbed.
THEOREM ApartProgressTheorem == Spec /\ []MakesApart => MeshNeverGoesBack
<1>1. Init => LoadInv /\ MakeInv
  <2> SUFFICES ASSUME Init PROVE LoadInv /\ MakeInv
    OBVIOUS
  <2>1. TypeOK /\ Counted
    BY InitStep DEF IInv
  <2> QED
    BY <2>1 DEF Init, LoadInv, MakeInv, Using
<1>2. MakesApart => LoadsApart
  BY DEF MakesApart, LoadsApart, Make
<1>3. LoadInv /\ MakeInv /\ MakesApart /\ MakesApart' /\ [Next]_vars
        => (LoadInv /\ MakeInv)' /\ Forward
  <2>1. MakesApart' => LoadsApart'
    BY DEF MakesApart, LoadsApart, Make
  <2> QED
    BY <1>2, <2>1, LoadStep, MakeStep
<1>4. LoadInv /\ MakeInv /\ MakesApart /\ MakesApart' /\ [Next]_vars =>
        [mesh # NoInode =>
           /\ mesh' # NoInode
           /\ file'[mesh'].own => file'[mesh'].records >= file[mesh].records]_vars
  BY <1>3 DEF Forward
<1>5. LoadInv /\ MakeInv /\ MakesApart /\ MakesApart' /\ [Next]_vars => (LoadInv /\ MakeInv)'
  BY <1>3
<1> QED BY <1>1, <1>4, <1>5, PTL DEF Spec, MeshNeverGoesBack

\* Under the lock, no two runs make a mesh at a time: it is the worker's runs
\* alone that the theorems above need the condition for.
THEOREM LockKeepsApart == WorkerRuns = {} => (Spec => []MakesApart)
<1>1. IInv => MakesApart
  BY DEF IInv, Locked, MakesApart, Make, Load
<1> QED BY <1>1, Invariance, PTL
=============================================================================
