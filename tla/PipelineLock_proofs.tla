------------------------ MODULE PipelineLock_proofs ------------------------
(***************************************************************************)
(* Proofs about the lock file of the pipeline, for any number of runs,     *)
(* inodes and crashes.                                                     *)
(***************************************************************************)
EXTENDS PipelineLock, TLAPS

\* The kernel's view and the runs' view of the lock agree: i is locked by r
\* exactly when r owns the lock and has i open.
HolderInv ==
  \A i \in Inodes, r \in Runs : holder[i] = r <=> Owns(r) /\ fd[r] = i

\* Unless a run ended without its unlink, somebody is still going to unlink the
\* file: a run that has it open and is not refused, or one about to unlink.
UnlinkerInv ==
  ~unclean /\ path # NoInode
    => \E r \in Runs :
         \/ pc[r] = "closed"
         \/ pc[r] \in {"opened", "locked", "working"} /\ fd[r] = path

\* The inductive invariant.
IInv == LockTypeOK /\ HolderInv /\ UnlinkerInv

\* Closing leaves the lock records of the other runs alone.
LEMMA CloseFileHolder ==
  ASSUME IInv, NEW r \in Runs, CloseFile(r),
         pc' \in [Runs -> Points],
         pc'[r] \in {"idle", "closed"},
         \A s \in Runs \ {r} : pc'[s] = pc[s]
  PROVE  HolderInv' /\ fd' \in [Runs -> Inodes \cup {NoInode}]
                    /\ holder' \in [Inodes -> Runs \cup {NoRun}]
                    /\ \A s \in Runs : fd'[s] = NoInode <=> pc'[s] \in {"idle", "closed"}
  BY ConstantsAssumption
     DEF IInv, LockTypeOK, HolderInv, CloseFile, Owns, Points

LEMMA InitIInv == LockInit => IInv
<1> SUFFICES ASSUME LockInit PROVE IInv
  OBVIOUS
<1>1. unclean \in BOOLEAN
  BY Zenon DEF LockInit
<1>2. LockTypeOK
  BY <1>1, ConstantsAssumption DEF LockInit, LockTypeOK, Points
<1>3. HolderInv
  BY ConstantsAssumption DEF LockInit, HolderInv, Owns
<1>4. UnlinkerInv
  BY DEF LockInit, UnlinkerInv
<1> QED
  BY <1>2, <1>3, <1>4 DEF IInv

LEMMA NextIInv == IInv /\ [LockNext]_lockVars => IInv'
<1> SUFFICES ASSUME IInv, [LockNext]_lockVars PROVE IInv'
  OBVIOUS
<1> USE ConstantsAssumption DEF IInv, Points
<1>1. ASSUME NEW r \in Runs, OpenLockFile(r) PROVE IInv'
  <2>1. PICK i \in Inodes :
          /\ IF path = NoInode THEN FreeInode(i) ELSE i = path
          /\ path' = i
          /\ fd' = [fd EXCEPT ![r] = i]
    BY <1>1 DEF OpenLockFile
  <2>2. pc[r] = "idle" /\ pc' = [pc EXCEPT ![r] = "opened"]
        /\ UNCHANGED <<holder, crashes, unclean>>
    BY <1>1 DEF OpenLockFile, Goto
  <2>3. LockTypeOK'
    BY <2>1, <2>2 DEF LockTypeOK
  <2>4. HolderInv'
    BY <2>1, <2>2 DEF HolderInv, Owns, LockTypeOK
  <2>5. UnlinkerInv'
    BY <2>1, <2>2 DEF UnlinkerInv, LockTypeOK
  <2> QED
    BY <2>3, <2>4, <2>5
<1>2. ASSUME NEW r \in Runs, Flock(r) PROVE IInv'
  <2> USE <1>2 DEF Flock, Goto
  <2>1. LockTypeOK'
    BY DEF LockTypeOK
  <2>2. HolderInv'
    BY DEF HolderInv, Owns, LockTypeOK
  <2>3. UnlinkerInv'
    BY DEF UnlinkerInv, LockTypeOK
  <2> QED
    BY <2>1, <2>2, <2>3
<1>3. ASSUME NEW r \in Runs, FlockRefused(r) PROVE IInv'
  <2> USE <1>3 DEF FlockRefused, Goto
  <2>1. LockTypeOK'
    BY DEF LockTypeOK
  <2>2. HolderInv'
    BY DEF HolderInv, Owns, LockTypeOK
  <2>3. UnlinkerInv'
    \* The run that refuses r will unlink in its place.
    <3>1. fd[r] \in Inodes /\ holder[fd[r]] \in Runs
      BY DEF LockTypeOK
    <3>2. PICK s \in Runs : Owns(s) /\ fd[s] = fd[r]
      BY <3>1 DEF HolderInv
    <3> QED BY <3>2 DEF UnlinkerInv, Owns, LockTypeOK
  <2> QED
    BY <2>1, <2>2, <2>3
<1>4. ASSUME NEW r \in Runs, WritePid(r) PROVE IInv'
  <2> USE <1>4 DEF WritePid, Goto
  <2>1. LockTypeOK'
    BY DEF LockTypeOK
  <2>2. HolderInv'
    BY DEF HolderInv, Owns, LockTypeOK
  <2>3. UnlinkerInv'
    BY DEF UnlinkerInv, LockTypeOK
  <2> QED
    BY <2>1, <2>2, <2>3
<1>5. ASSUME NEW r \in Runs, WritePidFails(r) \/ CloseLockFile(r) PROVE IInv'
  <2>1. /\ CloseFile(r) /\ UNCHANGED <<path, crashes>>
        /\ \/ pc' = [pc EXCEPT ![r] = "closed"] /\ UNCHANGED unclean
           \/ pc' = [pc EXCEPT ![r] = "idle"] /\ unclean' = TRUE
    BY <1>5 DEF WritePidFails, CloseLockFile, Goto
  <2>2. HolderInv' /\ LockTypeOK'
    BY <2>1, CloseFileHolder DEF LockTypeOK
  <2>3. UnlinkerInv'
    BY <2>1 DEF UnlinkerInv, LockTypeOK
  <2> QED
    BY <2>2, <2>3
<1>6. ASSUME NEW r \in Runs, ReportRefusal(r) PROVE IInv'
  <2>1. /\ CloseFile(r) /\ pc[r] = "refused" /\ pc' = [pc EXCEPT ![r] = "idle"]
        /\ UNCHANGED <<path, crashes, unclean>>
    BY <1>6 DEF ReportRefusal, Goto
  <2>2. HolderInv' /\ LockTypeOK'
    BY <2>1, CloseFileHolder DEF LockTypeOK
  <2>3. UnlinkerInv'
    BY <2>1 DEF UnlinkerInv, LockTypeOK, CloseFile
  <2> QED
    BY <2>2, <2>3
<1>7. ASSUME NEW r \in Runs, UnlinkLockFile(r) PROVE IInv'
  <2> USE <1>7 DEF UnlinkLockFile, Goto
  <2>1. LockTypeOK'
    BY DEF LockTypeOK
  <2>2. HolderInv'
    BY DEF HolderInv, Owns, LockTypeOK
  <2>3. UnlinkerInv'
    BY DEF UnlinkerInv
  <2> QED
    BY <2>1, <2>2, <2>3
<1>8. ASSUME NEW r \in Runs, Crash(r) PROVE IInv'
  <2>1. /\ CloseFile(r) /\ pc' = [pc EXCEPT ![r] = "idle"]
        /\ crashes < MaxCrashes /\ crashes' = crashes + 1 /\ unclean' = TRUE /\ UNCHANGED path
    BY <1>8 DEF Crash, Goto
  <2>2. HolderInv' /\ LockTypeOK'
    BY <2>1, CloseFileHolder DEF LockTypeOK
  <2>3. UnlinkerInv'
    BY <2>1 DEF UnlinkerInv, LockTypeOK
  <2> QED
    BY <2>2, <2>3
<1>9. CASE UNCHANGED lockVars
  BY <1>9 DEF lockVars, LockTypeOK, HolderInv, UnlinkerInv, Owns
<1> QED
  BY <1>1, <1>2, <1>3, <1>4, <1>5, <1>6, <1>7, <1>8, <1>9 DEF LockNext, Step

\* The inductive invariant holds in every reachable state.
THEOREM Invariance == LockSpec => []IInv
  BY InitIInv, NextIInv, PTL DEF LockSpec

-----------------------------------------------------------------------------
\* Every variable keeps its type, and a run has the lock file open exactly
\* between its open and its close.
THEOREM TypeCorrect == LockSpec => []LockTypeOK
<1>1. IInv => LockTypeOK
  BY DEF IInv
<1> QED
  BY <1>1, Invariance, PTL

\* Two runs that are inside the lock at once have locked different inodes,
\* and at most one of them the file that pipeline.lock names: the only way
\* past the lock is the unlink of a file another run has open.
THEOREM OverlapTheorem == LockSpec => []OverlapOnlyOnUnlinkedFile
<1>1. IInv => OverlapOnlyOnUnlinkedFile
  <2> SUFFICES ASSUME IInv, NEW r \in Runs, NEW s \in Runs, Owns(r), Owns(s), r # s
               PROVE  fd[r] # fd[s]
    BY DEF OverlapOnlyOnUnlinkedFile
  <2>1. fd[r] \in Inodes /\ fd[s] \in Inodes
    BY DEF IInv, LockTypeOK, Owns
  <2> QED
    BY <2>1 DEF IInv, HolderInv
<1> QED
  BY <1>1, Invariance, PTL

\* When nobody is inside the protocol, a file is there only if a run crashed, or
\* failed twice to write its pid, since the last unlink.
THEOREM LeftoverTheorem == LockSpec => []LeftoverNeedsFault
<1>1. IInv => LeftoverNeedsFault
  BY DEF IInv, UnlinkerInv, LeftoverNeedsFault
<1> QED
  BY <1>1, Invariance, PTL

\* A run is refused only by another live run that has the same file locked.
THEOREM RefusalTheorem == LockSpec => RefusedOnlyByOwner
<1>1. IInv /\ [LockNext]_lockVars
        => [\A r \in Runs :
              pc[r] = "opened" /\ pc'[r] = "refused"
                => \E s \in Runs \ {r} : Owns(s) /\ fd[s] = fd[r]]_lockVars
  <2> SUFFICES ASSUME IInv, LockNext,
                      NEW r \in Runs, pc[r] = "opened", pc'[r] = "refused"
               PROVE  \E s \in Runs \ {r} : Owns(s) /\ fd[s] = fd[r]
    BY DEF lockVars
  <2>1. FlockRefused(r)
    BY DEF LockNext, Step, OpenLockFile, Flock, FlockRefused, WritePid, WritePidFails,
           ReportRefusal, CloseLockFile, UnlinkLockFile, Crash, Goto, IInv, LockTypeOK
  <2>2. fd[r] \in Inodes /\ holder[fd[r]] \in Runs
    BY <2>1 DEF FlockRefused, IInv, LockTypeOK
  <2> QED
    BY <2>2 DEF IInv, HolderInv, Owns
<1> QED
  BY <1>1, Invariance, PTL DEF LockSpec, RefusedOnlyByOwner

-----------------------------------------------------------------------------
(* What the unlink costs.                                                  *)

\* r unlinks the name of a file that another run has open.
UnlinksOpenFile(r) ==
  UnlinkLockFile(r) /\ path # NoInode /\ \E s \in Runs : fd[s] = path

\* Every open file is the one that pipeline.lock names.
OneFile == \A r \in Runs : fd[r] # NoInode => fd[r] = path

LEMMA OneFileStep ==
  ASSUME LockTypeOK, OneFile, [LockNext]_lockVars, [\A r \in Runs : ~UnlinksOpenFile(r)]_lockVars
  PROVE  OneFile'
<1>1. ASSUME NEW r \in Runs, OpenLockFile(r) PROVE OneFile'
  <2>1. PICK i \in Inodes :
          /\ path = NoInode \/ i = path
          /\ path' = i
          /\ fd' = [fd EXCEPT ![r] = i]
    BY <1>1 DEF OpenLockFile
  <2> QED
    BY <2>1 DEF OneFile, LockTypeOK
<1>2. ASSUME NEW r \in Runs, Flock(r) \/ FlockRefused(r) \/ WritePid(r) PROVE OneFile'
  BY <1>2 DEF OneFile, Flock, FlockRefused, WritePid
<1>3. ASSUME NEW r \in Runs,
             WritePidFails(r) \/ ReportRefusal(r) \/ CloseLockFile(r) \/ Crash(r)
      PROVE  OneFile'
  <2>1. path' = path /\ fd' = [fd EXCEPT ![r] = NoInode]
    BY <1>3 DEF WritePidFails, ReportRefusal, CloseLockFile, Crash, CloseFile
  <2> QED
    BY <2>1 DEF OneFile, LockTypeOK
<1>4. ASSUME NEW r \in Runs, UnlinkLockFile(r) PROVE OneFile'
  <2>1. pc'[r] = "idle" /\ pc[r] = "closed" /\ fd' = fd
    BY <1>4 DEF UnlinkLockFile, Goto, LockTypeOK
  <2>2. ~UnlinksOpenFile(r)
    BY <2>1 DEF lockVars
  <2>3. ASSUME NEW s \in Runs PROVE fd[s] = NoInode
    BY <1>4, <2>2 DEF UnlinksOpenFile, OneFile
  <2> QED
    BY <2>1, <2>3 DEF OneFile
<1>5. CASE UNCHANGED lockVars
  BY <1>5 DEF OneFile, lockVars
<1> QED
  BY <1>1, <1>2, <1>3, <1>4, <1>5 DEF LockNext, Step

\* The unlink of an open file is all that is wrong with the lock: while no run
\* does that, no two are inside, whatever crashes, refusals and leftover files.
THEOREM ExclusionTheorem ==
  LockSpec /\ [][\A r \in Runs : ~UnlinksOpenFile(r)]_lockVars => []MutualExclusion
<1>1. LockInit => OneFile
  BY DEF LockInit, OneFile
<1>2. LockTypeOK /\ OneFile /\ [LockNext]_lockVars /\ [\A r \in Runs : ~UnlinksOpenFile(r)]_lockVars
        => OneFile'
  BY OneFileStep
<1>3. OneFile /\ OverlapOnlyOnUnlinkedFile /\ LockTypeOK => MutualExclusion
  BY DEF OneFile, OverlapOnlyOnUnlinkedFile, MutualExclusion, Owns, LockTypeOK
<1> QED
  BY <1>1, <1>2, <1>3, TypeCorrect, OverlapTheorem, PTL DEF LockSpec
=============================================================================
