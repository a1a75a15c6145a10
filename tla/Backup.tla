------------------------------ MODULE Backup ------------------------------
(***************************************************************************)
(* create_backup (cli/backup.py) next to writers of the files it copies.   *)
(* A database is a file of pages and a write-ahead log beside it: a commit *)
(* goes to the log, and a checkpoint moves it into the pages.  The backup  *)
(* checkpoints every SQLite file, then copies the files, page after page   *)
(* and without their logs, under no lock.                                  *)
(*                                                                         *)
(* SQLite and DuckDB (external): a checkpoint beside an open writer may    *)
(* move nothing, which no exception tells; the last close of a file ends   *)
(* in a checkpoint; a writer that dies leaves its log, and the next open   *)
(* takes it in.  Abstracted: a commit changes every page, the contents are *)
(* the number of the commit; the CSV files, which have no log.             *)
(***************************************************************************)
EXTENDS Naturals, Sequences

CONSTANTS Sqlite,      \* data/*.sqlite
          Mesh,        \* mesh.duckdb
          Pages,       \* of every file
          MaxCommits   \* bound: commits to a file

BackupAssumption == Pages \in Nat /\ MaxCommits \in Nat

Files == Sqlite \cup {Mesh}
PageNumbers == 1 .. Pages

VARIABLES
    pages,   \* per file and page: the commit it is of
    log,     \* per file: the commit at the end of its log, or 0 for an empty log
    commits, \* per file: commits so far
    open,    \* the files that a writer has open
    stage,   \* "idle", "checkpoint", "copy", "written"
    todo,    \* the files that the stage has still to do
    copy,    \* per file: the pages copied so far, in order
    listed,  \* manifest.json: the files with "copied": true
    quiet    \* per file: without a writer since the backup began, its log taken
             \* in (SQLite) or empty from the start (the mesh)

backupVars == <<pages, log, commits, open, stage, todo, copy, listed, quiet>>

BackupInit ==
    /\ pages = [f \in Files |-> [i \in PageNumbers |-> 0]]
    /\ log = [f \in Files |-> 0]
    /\ commits = [f \in Files |-> 0]
    /\ open = {} /\ stage = "idle" /\ todo = {}
    /\ copy = [f \in Files |-> <<>>]
    /\ listed = {} /\ quiet = {}

Checkpointed(f) ==
    IF log[f] = 0 THEN pages ELSE [pages EXCEPT ![f] = [i \in PageNumbers |-> log[f]]]

----------------------------------------------------------------------------
(* A sync or a load that writes file f. *)

Writer == UNCHANGED <<stage, todo, copy, listed>>

\* Opening takes in what a dead writer has left in the log.
OpenWriter(f) ==
    /\ f \notin open /\ open' = open \cup {f}
    /\ pages' = Checkpointed(f) /\ log' = [log EXCEPT ![f] = 0]
    /\ quiet' = quiet \ {f}
    /\ UNCHANGED commits /\ Writer

Commit(f) ==
    /\ f \in open /\ commits[f] < MaxCommits
    /\ commits' = [commits EXCEPT ![f] = @ + 1]
    /\ log' = [log EXCEPT ![f] = commits'[f]]
    /\ UNCHANGED <<pages, open, quiet>> /\ Writer

\* An automatic checkpoint moves a page.
MovePage(f) ==
    /\ f \in open /\ log[f] # 0
    /\ \E i \in PageNumbers : pages[f][i] # log[f] /\ pages' = [pages EXCEPT ![f][i] = log[f]]
    /\ UNCHANGED <<log, commits, open, quiet>> /\ Writer

CloseWriter(f) ==
    /\ f \in open /\ open' = open \ {f}
    /\ pages' = Checkpointed(f) /\ log' = [log EXCEPT ![f] = 0]
    /\ UNCHANGED <<commits, quiet>> /\ Writer

CrashWriter(f) ==
    /\ f \in open /\ open' = open \ {f}
    /\ UNCHANGED <<pages, log, commits, quiet>> /\ Writer

----------------------------------------------------------------------------
(* create_backup. *)

Start ==
    /\ stage = "idle" /\ stage' = "checkpoint"
    /\ todo' = Sqlite
    /\ quiet' = {f \in Files \ open : f = Mesh => log[f] = 0}
    /\ UNCHANGED <<pages, log, commits, open, copy, listed>>

\* Mutant: the files are copied as they are.
SkipCheckpoint(f) ==
    /\ stage = "checkpoint" /\ f \in todo
    /\ todo' = todo \ {f}
    /\ UNCHANGED <<pages, log, commits, open, stage, copy, listed, quiet>>

\* PRAGMA wal_checkpoint(TRUNCATE): all, or next to a writer perhaps nothing,
\* or it raises, which is logged.
Checkpoint(f) ==
    /\ stage = "checkpoint" /\ f \in todo
    /\ \/ pages' = Checkpointed(f) /\ log' = [log EXCEPT ![f] = 0] /\ UNCHANGED quiet
       \/ quiet' = quiet \ {f} /\ UNCHANGED <<pages, log>>
    /\ todo' = todo \ {f}
    /\ UNCHANGED <<commits, open, stage, copy, listed>>

BeginCopies ==
    /\ stage = "checkpoint" /\ todo = {}
    /\ stage' = "copy" /\ todo' = Files
    /\ UNCHANGED <<pages, log, commits, open, copy, listed, quiet>>

\* The SQLite files come first, then the mesh.
Turn(f) == stage = "copy" /\ f \in todo /\ (f = Mesh => todo = {Mesh})

CopyPage(f) ==
    /\ Turn(f) /\ Len(copy[f]) < Pages
    /\ \A g \in todo \ {f} : copy[g] = <<>>
    /\ copy' = [copy EXCEPT ![f] = Append(@, pages[f][Len(@) + 1])]
    /\ UNCHANGED <<pages, log, commits, open, stage, todo, listed, quiet>>

EndCopy(f) ==
    /\ Turn(f) /\ Len(copy[f]) = Pages
    /\ listed' = listed \cup {f} /\ todo' = todo \ {f}
    /\ UNCHANGED <<pages, log, commits, open, stage, copy, quiet>>

\* shutil.copy2 raises: the manifest says so, the next file is copied.
CopyFails(f) ==
    /\ Turn(f) /\ \A g \in todo \ {f} : copy[g] = <<>>
    /\ todo' = todo \ {f}
    /\ UNCHANGED <<pages, log, commits, open, stage, copy, listed, quiet>>

WriteManifest ==
    /\ stage = "copy" /\ todo = {}
    /\ stage' = "written"
    /\ UNCHANGED <<pages, log, commits, open, todo, copy, listed, quiet>>

----------------------------------------------------------------------------

BackupNext ==
    \/ \E f \in Files : OpenWriter(f) \/ Commit(f) \/ MovePage(f) \/ CloseWriter(f) \/ CrashWriter(f)
    \/ Start \/ BeginCopies \/ WriteManifest
    \/ \E f \in Files : Checkpoint(f) \/ CopyPage(f) \/ EndCopy(f) \/ CopyFails(f)

BackupSpec == BackupInit /\ [][BackupNext]_backupVars

BackupTypeOK ==
    /\ pages \in [Files -> [PageNumbers -> 0 .. MaxCommits]]
    /\ log \in [Files -> 0 .. MaxCommits] /\ commits \in [Files -> 0 .. MaxCommits]
    /\ open \subseteq Files /\ todo \subseteq Files /\ listed \subseteq Files
    /\ quiet \subseteq Files
    /\ stage \in {"idle", "checkpoint", "copy", "written"}
    /\ copy \in [Files -> Seq(0 .. MaxCommits)] /\ \A f \in Files : Len(copy[f]) <= Pages

\* A file that manifest.json lists as copied is, page for page, the last commit
\* there was, if nobody wrote the file while the backup ran and its checkpoint
\* did not fail: also when a writer that died before had left commits in the log
\* of a SQLite file.  A copy next
\* to a writer has no such guarantee, and neither has a mesh with a log left
\* behind, which is not copied (backup.py:57-97).
QuietBackupIsComplete ==
    \A f \in listed \cap quiet : copy[f] = [i \in PageNumbers |-> commits[f]]
=============================================================================
