---------------------------- MODULE MeshPipeline ----------------------------
(***************************************************************************)
(* The runs that produce data/mesh.duckdb, the database the API serves:    *)
(*                                                                         *)
(*  - full runs, run_pipeline: splink, validate, load, valentine, attach;  *)
(*  - syncs, run_incremental_sync: they upsert into the mesh in place;     *)
(*  - worker runs, _run_full_pipeline of worker.py: splink and load.       *)
(*                                                                         *)
(* Full runs and syncs take pipeline.lock, worker runs do not.  Here the   *)
(* lock is one variable, as if it excluded; what it really does is in      *)
(* PipelineLock.  Every run is taken to be a process of its own.           *)
(*                                                                         *)
(* Splink is a subprocess.  A run that fails kills it, but nothing ties it *)
(* to a run that dies (streaming.py:70): it goes on as an orphan, and      *)
(* writes clusters.csv whenever it is done, whoever has the lock by then.  *)
(*                                                                         *)
(* A file is an inode, and `mesh' and `tmp' are the inodes that the names  *)
(* mesh.duckdb and mesh.duckdb.tmp stand for.  What a file holds is told   *)
(* by generations: generation g is the g-th clusters.csv that Splink       *)
(* wrote, whose cluster ids no other generation has.                       *)
(***************************************************************************)
EXTENDS Naturals

CONSTANTS
  FullRuns,   \* callers of run_pipeline
  SyncRuns,   \* callers of run_incremental_sync
  WorkerRuns, \* callers of _run_full_pipeline
  NoRun,      \* nobody
  Inodes,     \* inodes the file system can hand out
  NoInode,    \* the name does not exist, no file is open
  MaxGen,     \* bound on the clusters.csv written in one behaviour
  MaxFaults   \* bound on the failures and crashes of one behaviour

Runs == FullRuns \cup SyncRuns \cup WorkerRuns

ASSUME ConstantsAssumption ==
  /\ SyncRuns \cap (FullRuns \cup WorkerRuns) = {}
  /\ FullRuns \cap WorkerRuns = {}
  /\ NoRun \notin Runs
  /\ NoInode \notin Inodes
  /\ MaxGen \in Nat
  /\ MaxFaults \in Nat

VARIABLES
  lock,     \* the run that has pipeline.lock
  pc,       \* pc[r]: the stage run r is in
  fd,       \* fd[r]: the database file r has open for writing
  csv,      \* generation of clusters.csv, None when it is not whole
  notes,    \* generation cluster_annotations.csv was computed from
  orphans,  \* Splink subprocesses of dead runs that compute, and that write
  alone,    \* alone[r]: nobody else has written clusters.csv since r began to
  mesh,     \* the inode named mesh.duckdb
  tmp,      \* the inode named mesh.duckdb.tmp
  file,     \* file[i]: what the database file i holds
  found,    \* found[r]: generation of the cluster ids r has resolved links to
  gens,     \* generations so far
  faults    \* failures and crashes so far

vars == <<lock, pc, fd, csv, notes, orphans, alone, mesh, tmp, file, found, gens, faults>>
names == <<mesh, tmp>>
inputs == <<csv, notes, gens, orphans, alone>>

None == 0
Gens == 1 .. MaxGen

Stages == {"idle", "splink", "clusters", "validate", "load", "connect",
           "records", "annotate", "replace", "valentine", "views", "attach",
           "link", "links", "open", "upsert", "leave"}

\* A database file: whether run_load has finished it, the generations its
\* source_records, cluster_annotations and attachments belong to, whether the
\* valentine stage has created the views; and whether the run that made it was
\* alone with clusters.csv until it had loaded it.
File == [built : BOOLEAN, records : 0 .. MaxGen, annotations : 0 .. MaxGen,
         links : SUBSET (0 .. MaxGen), views : BOOLEAN, own : BOOLEAN]

NewFile == [built |-> FALSE, records |-> None, annotations |-> None,
            links |-> {}, views |-> FALSE, own |-> FALSE]

\* Types; a file is open exactly in the stages that write one.
TypeOK ==
  /\ lock \in Runs \cup {NoRun}
  /\ pc \in [Runs -> Stages]
  /\ fd \in [Runs -> Inodes \cup {NoInode}]
  /\ \A r \in Runs : fd[r] # NoInode <=>
       pc[r] \in {"records", "annotate", "views", "links", "upsert"}
  /\ csv \in 0 .. MaxGen
  /\ notes \in 0 .. MaxGen
  /\ orphans \in [computing : Nat, writing : Nat]
  /\ alone \in [Runs -> BOOLEAN]
  /\ mesh \in Inodes \cup {NoInode}
  /\ tmp \in Inodes \cup {NoInode}
  /\ file \in [Inodes -> File]
  /\ found \in [Runs -> 0 .. MaxGen]
  /\ gens \in 0 .. MaxGen
  /\ faults \in 0 .. MaxFaults

Init ==
  /\ lock = NoRun
  /\ pc = [r \in Runs |-> "idle"]
  /\ fd = [r \in Runs |-> NoInode]
  /\ csv = None
  /\ notes = None
  /\ orphans = [computing |-> 0, writing |-> 0]
  /\ alone = [r \in Runs |-> FALSE]
  /\ mesh = NoInode
  /\ tmp = NoInode
  /\ file = [i \in Inodes |-> NewFile]
  /\ found = [r \in Runs |-> None]
  /\ gens = 0
  /\ faults = 0

Goto(r, stage) == pc' = [pc EXCEPT ![r] = stage]

\* duckdb.connect for writing: refused while another process writes the file.
Connect(r, i) ==
  /\ \A s \in Runs : fd[s] # i
  /\ fd' = [fd EXCEPT ![r] = i]

Close(r) == fd' = [fd EXCEPT ![r] = NoInode]

\* An inode that no name and no open file refers to can be handed out again.
Free(i) == i \notin {mesh, tmp} /\ \A r \in Runs : fd[r] # i

-----------------------------------------------------------------------------
(* Entering and leaving a run.                                             *)

\* Mutant: nobody looks at the lock.
EnterUnlocked(r) ==
  /\ pc[r] = "idle"
  /\ lock' = IF r \in WorkerRuns THEN lock ELSE r
  /\ Goto(r, IF r \in SyncRuns THEN "open" ELSE "splink")
  /\ UNCHANGED <<fd, inputs, names, file, found, faults>>

\* Full runs and syncs need the lock, worker runs just start.  Ingest and
\* export, which come first, do not touch the files of this module.
Enter(r) ==
  /\ pc[r] = "idle"
  /\ r \notin WorkerRuns => lock = NoRun
  /\ lock' = IF r \in WorkerRuns THEN lock ELSE r
  /\ Goto(r, IF r \in SyncRuns THEN "open" ELSE "splink")
  /\ UNCHANGED <<fd, inputs, names, file, found, faults>>

Release(r) == lock' = IF lock = r THEN NoRun ELSE lock

Leave(r) ==
  /\ pc[r] = "leave"
  /\ Release(r)
  /\ Goto(r, "idle")
  /\ UNCHANGED <<fd, inputs, names, file, found, faults>>

-----------------------------------------------------------------------------
(* splink and validate.                                                    *)

OthersWrite(r) == orphans.writing > 0 \/ \E s \in Runs \ {r} : pc[s] = "clusters"

\* The subprocess starts to write clusters.csv over the old one.
BeginClusters(r) ==
  /\ pc[r] = "splink"
  /\ csv' = None
  /\ alone' = [s \in Runs |-> s = r /\ ~OthersWrite(r)]
  /\ Goto(r, "clusters")
  /\ UNCHANGED <<lock, fd, notes, gens, orphans, names, file, found, faults>>

\* The writer of generation g is done.  What two wrote at a time is whole only
\* if the last of them happens to have overwritten all of it.
Written(g, undisturbed, others) ==
  csv' \in IF undisturbed THEN {g} ELSE IF others THEN {None} ELSE {None, g}

\* clusters.csv is written.  Only run_pipeline validates it.
EndClusters(r) ==
  /\ pc[r] = "clusters"
  /\ gens < MaxGen
  /\ gens' = gens + 1
  /\ Written(gens + 1, alone[r], OthersWrite(r))
  /\ Goto(r, IF r \in WorkerRuns THEN "load" ELSE "validate")
  /\ UNCHANGED <<lock, fd, notes, orphans, alone, names, file, found, faults>>

\* The Splink of a run that has died does the same, at any time.
OrphanBegins ==
  /\ orphans.computing > 0
  /\ orphans' = [computing |-> orphans.computing - 1, writing |-> orphans.writing + 1]
  /\ csv' = None
  /\ alone' = [r \in Runs |-> FALSE]
  /\ UNCHANGED <<lock, pc, fd, notes, gens, names, file, found, faults>>

OrphanEnds ==
  /\ orphans.writing > 0
  /\ gens < MaxGen
  /\ gens' = gens + 1
  /\ orphans' = [orphans EXCEPT !.writing = @ - 1]
  /\ Written(gens + 1, FALSE, orphans.writing > 1 \/ \E r \in Runs : pc[r] = "clusters")
  /\ UNCHANGED <<lock, pc, fd, notes, alone, names, file, found, faults>>

\* Mutant: the annotations of the previous run are kept.
SkipValidate(r) ==
  /\ pc[r] = "validate"
  /\ Goto(r, "load")
  /\ UNCHANGED <<lock, fd, inputs, names, file, found, faults>>

\* validate_clusters reads clusters.csv and writes cluster_annotations.csv.
Validate(r) ==
  /\ pc[r] = "validate"
  /\ notes' = csv
  /\ Goto(r, "load")
  /\ UNCHANGED <<lock, fd, csv, gens, orphans, alone, names, file, found, faults>>

-----------------------------------------------------------------------------
(* run_load.                                                               *)

\* A stale tmp file is unlinked.
UnlinkStaleTmp(r) ==
  /\ pc[r] = "load"
  /\ tmp' = NoInode
  /\ Goto(r, "connect")
  /\ UNCHANGED <<lock, fd, inputs, mesh, file, found, faults>>

\* Mutant: the mesh is built in its place.
ConnectMesh(r) ==
  /\ pc[r] = "connect"
  /\ \E i \in Inodes :
       /\ Free(i)
       /\ Connect(r, i)
       /\ mesh' = i
       /\ tmp' = i
       /\ file' = [file EXCEPT ![i] = NewFile]
  /\ Goto(r, "records")
  /\ UNCHANGED <<lock, inputs, found, faults>>

\* duckdb.connect(tmp) creates the file.  (If there is one again, another run
\* has made it: it is locked or its tables are there, and the load fails.)
ConnectTmp(r) ==
  /\ pc[r] = "connect"
  /\ tmp = NoInode
  /\ \E i \in Inodes :
       /\ Free(i)
       /\ Connect(r, i)
       /\ tmp' = i
       /\ file' = [file EXCEPT ![i] = NewFile]
  /\ Goto(r, "records")
  /\ UNCHANGED <<lock, inputs, mesh, found, faults>>

\* source_records from clusters.csv, devices and the empty tables.
LoadRecords(r) ==
  /\ pc[r] = "records"
  /\ file' = [file EXCEPT ![fd[r]].records = csv, ![fd[r]].own = alone[r]]
  /\ Goto(r, "annotate")
  /\ UNCHANGED <<lock, fd, inputs, names, found, faults>>

\* The bridges, cluster_annotations among them, the indexes, the checkpoint;
\* the file is finished and closed.
LoadAnnotations(r) ==
  /\ pc[r] = "annotate"
  /\ file' = [file EXCEPT ![fd[r]].annotations = notes, ![fd[r]].built = TRUE]
  /\ Close(r)
  /\ Goto(r, "replace")
  /\ UNCHANGED <<lock, inputs, names, found, faults>>

\* Mutant: the old mesh is removed before the new one is renamed.
UnlinkBeforeReplace(r) ==
  /\ pc[r] = "replace"
  /\ IF mesh # NoInode
       THEN mesh' = NoInode /\ UNCHANGED <<tmp, pc>>
       ELSE /\ tmp # NoInode
            /\ mesh' = tmp
            /\ tmp' = NoInode
            /\ Goto(r, IF r \in WorkerRuns THEN "leave" ELSE "valentine")
  /\ UNCHANGED <<lock, fd, inputs, file, found, faults>>

\* os.replace(tmp, mesh) moves the NAME, whichever file it stands for by now.
\* A worker run ends here.
Replace(r) ==
  /\ pc[r] = "replace"
  /\ tmp # NoInode
  /\ mesh' = tmp
  /\ tmp' = NoInode
  /\ Goto(r, IF r \in WorkerRuns THEN "leave" ELSE "valentine")
  /\ UNCHANGED <<lock, fd, inputs, file, found, faults>>

-----------------------------------------------------------------------------
(* run_valentine_stage and run_attach.                                     *)

OpenForViews(r) ==
  /\ pc[r] = "valentine"
  /\ mesh # NoInode
  /\ Connect(r, mesh)
  /\ Goto(r, "views")
  /\ UNCHANGED <<lock, inputs, names, file, found, faults>>

\* Mutant: the views are forgotten.
CloseWithoutViews(r) ==
  /\ pc[r] = "views"
  /\ Close(r)
  /\ Goto(r, "attach")
  /\ UNCHANGED <<lock, inputs, names, file, found, faults>>

CreateViews(r) ==
  /\ pc[r] = "views"
  /\ file' = [file EXCEPT ![fd[r]].views = TRUE]
  /\ Close(r)
  /\ Goto(r, "attach")
  /\ UNCHANGED <<lock, inputs, names, found, faults>>

\* resolve_feed_attachments: the links of a feed, resolved against the mesh
\* through read-only connections of its own.
ResolveLinks(r) ==
  /\ pc[r] = "attach"
  /\ mesh # NoInode
  /\ found' = [found EXCEPT ![r] = file[mesh].records]
  /\ Goto(r, "link")
  /\ UNCHANGED <<lock, fd, inputs, names, file, faults>>

\* The feeds that are left resolve to nothing, or resolving raised, or there
\* are none.
SkipAttach(r) ==
  /\ pc[r] = "attach"
  /\ Goto(r, "leave")
  /\ UNCHANGED <<lock, fd, inputs, names, file, found, faults>>

OpenForLinks(r) ==
  /\ pc[r] = "link"
  /\ mesh # NoInode
  /\ Connect(r, mesh)
  /\ Goto(r, "links")
  /\ UNCHANGED <<lock, inputs, names, file, found, faults>>

\* The links of the feed are deleted and inserted; those of other feeds stay.
\* The next feed is resolved anew.
WriteLinks(r) ==
  /\ pc[r] = "links"
  /\ file' = [file EXCEPT ![fd[r]].links = @ \cup {found[r]}]
  /\ Close(r)
  /\ Goto(r, "attach")
  /\ UNCHANGED <<lock, inputs, names, found, faults>>

-----------------------------------------------------------------------------
(* run_incremental_sync.                                                   *)

\* run_incremental_load connects to the mesh, if there is one.
OpenMesh(r) ==
  /\ pc[r] = "open"
  /\ IF mesh = NoInode
       THEN Goto(r, "leave") /\ UNCHANGED fd
       ELSE Goto(r, "upsert") /\ Connect(r, mesh)
  /\ UNCHANGED <<lock, inputs, names, file, found, faults>>

\* Mutant: the connection is left open.
UpsertWithoutClose(r) ==
  /\ pc[r] = "upsert"
  /\ Goto(r, "leave")
  /\ UNCHANGED <<lock, fd, inputs, names, file, found, faults>>

\* The upserts keep the cluster ids; the inside is in IncrementalLoad.
Upsert(r) ==
  /\ pc[r] = "upsert"
  /\ Close(r)
  /\ Goto(r, "leave")
  /\ UNCHANGED <<lock, inputs, names, file, found, faults>>

-----------------------------------------------------------------------------
(* Failures.                                                               *)

\* A stage raises: the connection is closed, the load unlinks the tmp NAME,
\* and the finally block releases the lock.
StageFails(r) ==
  /\ pc[r] \notin {"idle", "leave"}
  /\ faults < MaxFaults
  /\ faults' = faults + 1
  /\ tmp' = IF pc[r] \in {"records", "annotate", "replace"} THEN NoInode ELSE tmp
  /\ Close(r)
  /\ Release(r)
  /\ Goto(r, "idle")
  /\ UNCHANGED <<inputs, mesh, file, found>>

\* The process dies: the files stay as they are, the kernel drops the lock, and
\* Splink, if it was running, goes on.
Crash(r) ==
  /\ pc[r] # "idle"
  /\ faults < MaxFaults
  /\ faults' = faults + 1
  /\ \/ UNCHANGED orphans
     \/ pc[r] = "splink" /\ orphans' = [orphans EXCEPT !.computing = @ + 1]
     \/ pc[r] = "clusters" /\ orphans' = [orphans EXCEPT !.writing = @ + 1]
  /\ Close(r)
  /\ Release(r)
  /\ Goto(r, "idle")
  /\ UNCHANGED <<csv, notes, gens, alone, names, file, found>>

Step(r) ==
  \/ Enter(r)
  \/ BeginClusters(r)
  \/ EndClusters(r)
  \/ Validate(r)
  \/ UnlinkStaleTmp(r)
  \/ ConnectTmp(r)
  \/ LoadRecords(r)
  \/ LoadAnnotations(r)
  \/ Replace(r)
  \/ OpenForViews(r)
  \/ CreateViews(r)
  \/ ResolveLinks(r)
  \/ SkipAttach(r)
  \/ OpenForLinks(r)
  \/ WriteLinks(r)
  \/ OpenMesh(r)
  \/ Upsert(r)
  \/ Leave(r)

Next ==
  \/ \E r \in Runs : Step(r) \/ StageFails(r) \/ Crash(r)
  \/ OrphanBegins
  \/ OrphanEnds

Spec == Init /\ [][Next]_vars

-----------------------------------------------------------------------------
\* "Builds mesh in data/mesh.duckdb.tmp, then atomically renames to
\* mesh.duckdb" (pipeline.py:415): what the name stands for is always a
\* finished database, whatever failed.
MeshIsFinished == mesh # NoInode => file[mesh].built

\* Nobody writes into a database that a newer one has replaced: views, links
\* and upserts go to the file that is served.
WritesReachTheMesh ==
  \A r \in Runs : pc[r] \in {"views", "links", "upsert"} => fd[r] = mesh

\* The served mesh was built from a whole clusters.csv, and the cluster ids
\* that its annotations refer to are those of its own source_records, although
\* they come from other files and other moments, unless an orphan wrote
\* clusters.csv in between; the attachments refer to its own even then
\* (pipeline.py:540-545, 638-676).
ReferencesResolve ==
  mesh # NoInode =>
    /\ file[mesh].own => /\ file[mesh].records # None
                         /\ file[mesh].annotations = file[mesh].records
    /\ file[mesh].links \subseteq {file[mesh].records}

\* When no run is under way and none has failed, the served mesh has been
\* through all stages that come after the load.
QuietMeshIsComplete ==
  mesh # NoInode /\ faults = 0 /\ (\A r \in Runs : pc[r] = "idle")
    => file[mesh].views /\ file[mesh].annotations = file[mesh].records

\* Once there is a mesh there always is one, and a step never puts an older
\* generation in the place of a newer one: a run that no orphan disturbed has
\* the newest clusters, though orphans may have written others meanwhile.
MeshNeverGoesBack ==
  [][mesh # NoInode =>
       /\ mesh' # NoInode
       /\ file'[mesh'].own => file'[mesh'].records >= file[mesh].records]_vars
=============================================================================
