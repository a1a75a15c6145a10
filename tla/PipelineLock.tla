---------------------------- MODULE PipelineLock ----------------------------
(***************************************************************************)
(* The lock file that guards run_pipeline and run_incremental_sync         *)
(* (src/zentinull/cli/pipeline.py).  Both functions follow one protocol on *)
(* data/pipeline.lock:                                                     *)
(*                                                                         *)
(*    open(path, "w")  ->  flock(LOCK_EX | LOCK_NB)  ->  write the pid     *)
(*    ... the stages ...                                                   *)
(*    close (which drops the flock)  ->  unlink(path)                      *)
(*                                                                         *)
(* flock locks the inode that was opened while unlink removes a name, so   *)
(* the model keeps the two apart: `path' is the inode that the name        *)
(* pipeline.lock stands for, `fd' the inode each run has open.  The pid in *)
(* the file serves only the wording of the refusal and is left out.        *)
(***************************************************************************)
EXTENDS Naturals

CONSTANTS
  Runs,      \* runs of the two functions (a process, or a thread of the worker)
  Inodes,    \* inodes the file system can hand out
  NoRun,     \* nobody
  NoInode,   \* the name pipeline.lock does not exist
  MaxCrashes \* bound on the crashes of one behaviour

ASSUME ConstantsAssumption ==
  /\ NoRun \notin Runs
  /\ NoInode \notin Inodes
  /\ MaxCrashes \in Nat

VARIABLES
  pc,        \* pc[r]: how far run r is in the protocol
  fd,        \* fd[r]: the inode r has open
  path,      \* the inode named pipeline.lock
  holder,    \* holder[i]: the run whose flock is on inode i
  crashes,   \* crashes so far
  unclean    \* since the last unlink a run has ended without its own?

lockVars == <<pc, fd, path, holder, crashes, unclean>>

\* Program points: before open, after open, after flock, inside the stages,
\* after a refused flock, after close but before unlink.
Points == {"idle", "opened", "locked", "working", "refused", "closed"}

\* A run owns the lock from its flock to its close.
Owns(r) == pc[r] \in {"locked", "working"}

\* Types; and a run has the file open exactly from its open to its close.
LockTypeOK ==
  /\ pc \in [Runs -> Points]
  /\ fd \in [Runs -> Inodes \cup {NoInode}]
  /\ \A r \in Runs : fd[r] = NoInode <=> pc[r] \in {"idle", "closed"}
  /\ path \in Inodes \cup {NoInode}
  /\ holder \in [Inodes -> Runs \cup {NoRun}]
  /\ crashes \in 0 .. MaxCrashes
  /\ unclean \in BOOLEAN

LockInit ==
  /\ pc = [r \in Runs |-> "idle"]
  /\ fd = [r \in Runs |-> NoInode]
  /\ path = NoInode
  /\ holder = [i \in Inodes |-> NoRun]
  /\ crashes = 0
  /\ unclean = FALSE

Goto(r, point) == pc' = [pc EXCEPT ![r] = point]

\* An inode that no name and no open file refers to can be handed out again.
FreeInode(i) == i # path /\ \A r \in Runs : fd[r] # i

-----------------------------------------------------------------------------
\* Mutant: a mode that does not create the file.
OpenWithoutCreate(r) ==
  /\ pc[r] = "idle"
  /\ fd' = [fd EXCEPT ![r] = path]
  /\ Goto(r, "opened")
  /\ UNCHANGED <<path, holder, crashes, unclean>>

\* open(lock_path, "w"): creates the file unless it is there, before any lock
\* is taken.
OpenLockFile(r) ==
  /\ pc[r] = "idle"
  /\ \E i \in Inodes :
       /\ IF path = NoInode THEN FreeInode(i) ELSE i = path
       /\ path' = i
       /\ fd' = [fd EXCEPT ![r] = i]
  /\ Goto(r, "opened")
  /\ UNCHANGED <<holder, crashes, unclean>>

\* Mutant: a lock that never refuses, as _try_flock is where fcntl is missing.
FlockAlways(r) ==
  /\ pc[r] = "opened"
  /\ holder' = [holder EXCEPT ![fd[r]] = r]
  /\ Goto(r, "locked")
  /\ UNCHANGED <<fd, path, crashes, unclean>>

\* _try_flock returns True: nobody has locked the inode that r opened.
Flock(r) ==
  /\ pc[r] = "opened"
  /\ holder[fd[r]] = NoRun
  /\ holder' = [holder EXCEPT ![fd[r]] = r]
  /\ Goto(r, "locked")
  /\ UNCHANGED <<fd, path, crashes, unclean>>

\* _try_flock returns False, and the OSError handler takes over.
FlockRefused(r) ==
  /\ pc[r] = "opened"
  /\ holder[fd[r]] # NoRun
  /\ Goto(r, "refused")
  /\ UNCHANGED <<fd, path, holder, crashes, unclean>>

\* lock_file.write(str(os.getpid())) and flush.
WritePid(r) ==
  /\ pc[r] = "locked"
  /\ Goto(r, "working")
  /\ UNCHANGED <<fd, path, holder, crashes, unclean>>

\* Mutant: a lock that outlives the open file.
CloseKeepsFlock(r) ==
  /\ fd' = [fd EXCEPT ![r] = NoInode]
  /\ UNCHANGED holder

\* close, by the program or by the kernel: the flock goes with the open file.
CloseFile(r) ==
  /\ fd' = [fd EXCEPT ![r] = NoInode]
  /\ holder' = [i \in Inodes |-> IF holder[i] = r THEN NoRun ELSE holder[i]]

\* The write of the pid fails (a full disk).  have_lock is already set, so the
\* finally block closes first; the pid is still in the file object's buffer,
\* and close tries once more to write it.  With the disk still full close
\* raises, outside the suppress, and the unlink is never reached; the file is
\* closed all the same, and the flock gone.
WritePidFails(r) ==
  /\ pc[r] = "locked"
  /\ CloseFile(r)
  /\ \/ Goto(r, "closed") /\ UNCHANGED unclean
     \/ Goto(r, "idle") /\ unclean' = TRUE
  /\ UNCHANGED <<path, crashes>>

\* The handler raises RuntimeError, and the finally block closes without
\* unlinking, since have_lock is False.
ReportRefusal(r) ==
  /\ pc[r] = "refused"
  /\ CloseFile(r)
  /\ Goto(r, "idle")
  /\ UNCHANGED <<path, crashes, unclean>>

\* Mutant: the run that is done leaves its file behind.
CloseWithoutUnlink(r) ==
  /\ pc[r] = "working"
  /\ CloseFile(r)
  /\ Goto(r, "idle")
  /\ UNCHANGED <<path, crashes, unclean>>

\* The stages end, well or with an exception: finally closes the file first.
CloseLockFile(r) ==
  /\ pc[r] = "working"
  /\ CloseFile(r)
  /\ Goto(r, "closed")
  /\ UNCHANGED <<path, crashes, unclean>>

\* ... and then unlinks the NAME, whatever inode it stands for by now
\* (a missing file is suppressed).
UnlinkLockFile(r) ==
  /\ pc[r] = "closed"
  /\ path' = NoInode /\ unclean' = FALSE
  /\ Goto(r, "idle")
  /\ UNCHANGED <<fd, holder, crashes>>

\* The process dies: the kernel closes its file, the name stays behind.
Crash(r) ==
  /\ pc[r] # "idle"
  /\ crashes < MaxCrashes
  /\ crashes' = crashes + 1 /\ unclean' = TRUE
  /\ CloseFile(r)
  /\ Goto(r, "idle")
  /\ UNCHANGED path

\* The steps of one run of the protocol when the pid can be written.
Step(r) ==
  \/ OpenLockFile(r)
  \/ Flock(r)
  \/ FlockRefused(r)
  \/ WritePid(r)
  \/ ReportRefusal(r)
  \/ CloseLockFile(r)
  \/ UnlinkLockFile(r)

LockNext == \E r \in Runs : Step(r) \/ WritePidFails(r) \/ Crash(r)

LockSpec == LockInit /\ [][LockNext]_lockVars

\* Runs are started again and again (cron, the worker's 10 s loop), and a
\* started run is scheduled: no step waits for another run, flock being
\* non-blocking.  Nothing is assumed of crashes and of failing writes.
LockFairness == \A r \in Runs : WF_lockVars(Step(r))

FairLockSpec == LockSpec /\ LockFairness

-----------------------------------------------------------------------------
\* What the docstring of run_pipeline promises (pipeline.py:894): never two
\* runs between their flock and their close.  The code does not keep it.
MutualExclusion ==
  \A r, s \in Runs : Owns(r) /\ Owns(s) => r = s

\* Two runs that do overlap have locked different inodes, so at most one of
\* them holds the file that the name stands for: every overlap goes through
\* an inode whose name was unlinked (pipeline.py:873-877, 965-969).
OverlapOnlyOnUnlinkedFile ==
  \A r, s \in Runs :
    Owns(r) /\ Owns(s) /\ r # s => fd[r] # fd[s] /\ (fd[r] # path \/ fd[s] # path)

\* Only a run that crashed, or could not write its pid twice over, leaves the
\* lock file, and only until the next unlink: otherwise the name is gone when
\* nobody is inside the protocol any more, whichever runs refused, locked or
\* unlinked in between (pipeline.py:871-879, 963-971).
LeftoverNeedsFault ==
  (\A r \in Runs : pc[r] = "idle") /\ ~unclean => path = NoInode

\* A run is turned away only while another run really owns the lock on the
\* file it opened: a file left by a crashed run refuses nobody, although
\* the message asks to delete it "if stale" (pipeline.py:824-834).
RefusedOnlyByOwner ==
  [][\A r \in Runs :
       pc[r] = "opened" /\ pc'[r] = "refused"
         => \E s \in Runs \ {r} : Owns(s) /\ fd[s] = fd[r]]_lockVars

\* However often runs crash, are refused or fail to write their pid, the
\* lock never jams: again and again some run gets it (pipeline.py:820-827).
LockNeverJams == []<>(\E r \in Runs : Owns(r))
=============================================================================
