----------------------------- MODULE MCService -----------------------------
(***************************************************************************)
(* Service, Streaming and PipelineLock for TLC.  A pipeline run under      *)
(* Service starts Splink through Streaming and takes the lock file as      *)
(* PipelineLock does, step by step, what Service has as one step; they     *)
(* share nothing else, so each behaviour is one of Service, of Streaming   *)
(* or of PipelineLock, as part says, while the server has exited, the call *)
(* has returned and the runs of the lock rest: one works, the others have  *)
(* not started.                                                            *)
(***************************************************************************)
EXTENDS Service, Streaming, PipelineLock

CONSTANTS sp, me, r1, i1

VARIABLE part

MCGroups == <<sp, me>>

\* An inode is always left for a lock file to be created.
ASSUME ServiceAssumption /\ StreamingAssumption /\ Cardinality(Inodes) > Cardinality(Runs)

ServerParked ==
    /\ mode = "worker" /\ process = "exited" /\ mesh = 0
    /\ writer = "none" /\ lock = "none" /\ due = {} /\ stop = FALSE /\ running = FALSE
    /\ loop = [at |-> "off", place |-> 1]
    /\ job = NoJob /\ trigger = [step |-> "none", queued |-> 0]
    /\ db = FALSE /\ request = NoRequest

StreamParked ==
    /\ caller = Returned /\ child = "reaped" /\ code = TRUE /\ helper = "none"
    /\ pipe = 0 /\ written = 0 /\ reader = "ended" /\ lines = 0 /\ alarms = 0

LockParked ==
    /\ pc = [r \in Runs |-> IF r = r1 THEN "working" ELSE "idle"]
    /\ fd = [r \in Runs |-> IF r = r1 THEN i1 ELSE NoInode]
    /\ path = i1 /\ holder = [i \in Inodes |-> IF i = i1 THEN r1 ELSE NoRun]
    /\ crashes = 0 /\ unclean = FALSE

MCInit ==
    \/ part = "server" /\ Init /\ StreamParked /\ LockParked
    \/ part = "stream" /\ StreamInit /\ ServerParked /\ LockParked
    \/ part = "lock" /\ LockInit /\ ServerParked /\ StreamParked

MCNext ==
    \/ part = "server" /\ Next /\ UNCHANGED <<part, streamVars, lockVars>>
    \/ part = "stream" /\ StreamNext /\ UNCHANGED <<part, vars, lockVars>>
    \/ part = "lock" /\ LockNext /\ UNCHANGED <<part, vars, streamVars>>

\* The runs that rest take no step: the fairness of the lock is for its part.
LockPartFairness == \A r \in Runs : WF_lockVars(part = "lock" /\ Step(r))

MCSpec ==
    /\ MCInit /\ [][MCNext]_<<part, vars, streamVars, lockVars>>
    /\ Fairness /\ StreamFairness /\ LockPartFairness
=============================================================================
