--------------------------- MODULE Service_proofs ---------------------------
(***************************************************************************)
(* Proofs about Service, for any groups, numbers of versions, of queued    *)
(* runs and of connections: a process that ends by itself leaves nothing   *)
(* behind, one that is killed neither lock nor open file, and an answer    *)
(* over one connection is of one mesh; and about Streaming:                *)
(* a run_streaming that has ended has waited, and has all of the output.   *)
(***************************************************************************)
EXTENDS Service, Streaming, SequenceTheorems, TLAPS

InJob == {"ingest", "connect", "write"}

\* Who has the lock and the file: the thread whose step says so.
Held ==
  /\ lock = "sync" <=> job.step \in InJob
  /\ lock = "trigger" <=> trigger.step # "none"
  /\ writer = "sync" <=> job.step = "write"
  /\ writer = "trigger" <=> trigger.step = "write"

\* The loop's thread has a job only while the loop awaits it, or the process
\* waits for it; the executors are empty where the process has ended or died.
Owned ==
  /\ job # NoJob => (process = "up" /\ loop.at = "await") \/ process = "stopping"
  /\ process \in {"starting", "exited", "killed"} => trigger = [step |-> "none", queued |-> 0]
  /\ request.phase # "none" => mode = "server" /\ process = "up"

\* A handler of the first kind connects once.
Once ==
  /\ request.conn # 0 => writer = None
  /\ request.kind = "query" =>
       /\ request.left \in {0, 1}
       /\ request.left = 1 => request.conn = 0 /\ request.seen = {}
       /\ request.conn # 0 => request.seen = {}
       /\ \A v, w \in request.seen : v = w

\* TypeOK in two halves, which want different provers.
Flags == stop \in BOOLEAN /\ running \in BOOLEAN /\ db \in BOOLEAN

Loops == [at : {"off", "top", "check", "await", "sleep", "ended"}, place : 1 .. Len(Schedule)]

Jobs == [task : Tasks \cup {None},
         step : {"none", "start", "ingest", "connect", "write", "ok", "raised"}]

Triggers == [step : {"none", "build", "annotate", "write"}, queued : 0 .. MaxQueued]

Phases == {"none", "queued", "running", "answered"}
Codes == {0, 200, 404, 500, 503, 504}

Requests == [phase : Phases, kind : {None} \cup Kinds, left : Nat,
             conn : 0 .. Versions, seen : SUBSET (1 .. Versions), code : Codes]

Shapes ==
  /\ mode \in {"server", "worker"} /\ process \in {"starting", "up", "stopping", "exited", "killed"}
  /\ mesh \in 0 .. Versions
  /\ writer \in {None, "sync", "trigger"} /\ lock \in {None, "sync", "trigger", "other"}
  /\ due \subseteq Tasks
  /\ loop \in Loops /\ job \in Jobs /\ trigger \in Triggers /\ request \in Requests

\* The inductive invariant.
IInv == Flags /\ Shapes /\ Held /\ Owned /\ Once

LEMMA Types == TypeOK <=> Flags /\ Shapes
  BY DEF TypeOK, Flags, Shapes, Loops, Jobs, Triggers, Requests, Phases, Kinds, Codes

LEMMA Places ==
  ASSUME ServiceAssumption
  PROVE  /\ Len(Schedule) \in Nat /\ Len(Schedule) >= 1
         /\ \A i \in 1 .. Len(Schedule) : Schedule[i] \in Tasks
<1>1. Groups \in Seq(Tasks) /\ Splink \in Tasks
  <2>1. Groups \in Seq(Systems) /\ Systems \subseteq Tasks
    BY DEF ServiceAssumption, Tasks
  <2> QED
    BY <2>1 DEF Tasks
<1>2. Schedule \in Seq(Tasks) /\ Len(Schedule) = Len(Groups) + 1
  BY <1>1 DEF Schedule
<1> QED
  BY <1>1, <1>2

LEMMA InitIInv == ASSUME ServiceAssumption PROVE Init => IInv
<1> SUFFICES ASSUME Init PROVE IInv
  OBVIOUS
<1>1. Flags
  BY DEF Init, Flags
<1>2. Shapes
  <2>1. /\ 1 \in 1 .. Len(Schedule) /\ 0 \in 0 .. MaxQueued /\ mesh \in 0 .. Versions
        /\ 0 \in Nat /\ 0 \in 0 .. Versions
    BY Places DEF Init, ServiceAssumption
  <2> QED
    BY <2>1 DEF Init, Shapes, Loops, Jobs, Triggers, Requests, Phases, Kinds, Codes, NoJob, NoRequest
<1>3. Held /\ Owned /\ Once
  BY DEF Init, Held, InJob, Owned, Once, NoJob, NoRequest, None
<1> QED
  BY <1>1, <1>2, <1>3 DEF IInv

----------------------------------------------------------------------------
(* The invariant is inductive.                                             *)

\* A commit or a replacement makes a version.
LEMMA NewMesh ==
  ASSUME ServiceAssumption, mesh \in 0 .. Versions
  PROVE  Changed(mesh) \in 0 .. Versions
  BY DEF Changed, ServiceAssumption

\* Start and stop.
LEMMA StartStopIInv ==
  ASSUME ServiceAssumption, IInv,
         StartUp \/ Signal \/ Shutdown \/ Exit \/ Killed \/ Restart
  PROVE  IInv'
<1>1. ASSUME StartUp PROVE IInv'
  <2>1. Flags'
    BY <1>1 DEF IInv, Flags, StartUp, NoJob
  <2>2. Shapes'
    BY <1>1, Places DEF IInv, Shapes, Loops, StartUp, NoJob
  <2>3. Held' /\ Owned' /\ Once'
    BY <1>1 DEF IInv, Shapes, Loops, Jobs, Triggers, Requests, Phases, Kinds,
           Held, InJob, Owned, Once, StartUp, NoJob
  <2> QED
    BY <2>1, <2>2, <2>3 DEF IInv
<1>2. ASSUME Signal PROVE IInv'
  <2>1. Flags'
    BY <1>2 DEF IInv, Flags, Signal, NoJob
  <2>2. Shapes'
    BY <1>2 DEF IInv, Shapes, Signal, NoJob
  <2>3. Held' /\ Owned' /\ Once'
    BY <1>2 DEF IInv, Shapes, Loops, Jobs, Triggers, Requests, Phases, Kinds,
           Held, InJob, Owned, Once, Signal, NoJob
  <2> QED
    BY <2>1, <2>2, <2>3 DEF IInv
<1>3. ASSUME Shutdown PROVE IInv'
  <2>1. Flags'
    BY <1>3 DEF IInv, Flags, Shutdown, NoJob
  <2>2. Shapes'
    BY <1>3, Places DEF IInv, Shapes, Loops, Shutdown, NoJob
  <2>3. Held' /\ Owned' /\ Once'
    BY <1>3 DEF IInv, Shapes, Loops, Jobs, Triggers, Requests, Phases, Kinds,
           Held, InJob, Owned, Once, Shutdown, NoJob
  <2> QED
    BY <2>1, <2>2, <2>3 DEF IInv
<1>4. ASSUME Exit PROVE IInv'
  <2>1. Flags'
    BY <1>4 DEF IInv, Flags, Exit, NoJob
  <2>2. Shapes'
    BY <1>4, Places DEF IInv, Shapes, Loops, Jobs, Exit, NoJob
  <2>3. Held' /\ Owned' /\ Once'
    BY <1>4 DEF IInv, Shapes, Loops, Jobs, Triggers, Requests, Phases, Kinds,
           Held, InJob, Owned, Once, Exit, NoJob
  <2> QED
    BY <2>1, <2>2, <2>3 DEF IInv
<1>5. ASSUME Restart PROVE IInv'
  <2>1. Flags'
    BY <1>5 DEF IInv, Flags, Restart, NoJob
  <2>2. Shapes'
    BY <1>5 DEF IInv, Shapes, Restart, NoJob
  <2>3. Held' /\ Owned' /\ Once'
    BY <1>5 DEF IInv, Shapes, Loops, Jobs, Triggers, Requests, Phases, Kinds,
           Held, InJob, Owned, Once, Restart, NoJob
  <2> QED
    BY <2>1, <2>2, <2>3 DEF IInv
<1>6. ASSUME Killed PROVE IInv'
  <2>1. Flags'
    BY <1>6 DEF IInv, Flags, Killed, NoJob
  <2>2. Shapes'
    <3>1. job' \in Jobs /\ trigger' \in Triggers
      BY <1>6 DEF Killed, Jobs, Triggers, NoJob, ServiceAssumption
    <3>2. mesh' \in 0 .. Versions
      BY <1>6, NewMesh DEF Killed, IInv, Shapes
    <3> QED
      BY <1>6, <3>1, <3>2 DEF IInv, Shapes, Killed
  <2>3. Held' /\ Owned' /\ Once'
    BY <1>6 DEF IInv, Shapes, Held, InJob, Owned, Once, Killed, NoJob, None
  <2> QED
    BY <2>1, <2>2, <2>3 DEF IInv
<1> QED
  BY <1>1, <1>2, <1>3, <1>4, <1>5, <1>6

\* The loop hands out one job at a time.
LEMMA LoopIInv ==
  ASSUME ServiceAssumption, IInv,
         TopOfPass \/ StartTask \/ SkipTask \/ TaskDone \/ TaskFailed \/ Wake
  PROVE  IInv'
<1>1. ASSUME TopOfPass PROVE IInv'
  <2>1. Flags'
    BY <1>1 DEF IInv, Flags, TopOfPass, LoopStep, Onwards, Task, NoJob
  <2>2. Shapes'
    BY <1>1, Places DEF IInv, Shapes, Loops, TopOfPass, LoopStep, Onwards, Task, NoJob
  <2>3. Held' /\ Owned' /\ Once'
    BY <1>1 DEF IInv, Shapes, Loops, Jobs, Triggers, Requests, Phases, Kinds,
           Held, InJob, Owned, Once, TopOfPass, LoopStep, Onwards, Task, NoJob
  <2> QED
    BY <2>1, <2>2, <2>3 DEF IInv
<1>2. ASSUME StartTask PROVE IInv'
  <2>1. Flags'
    BY <1>2 DEF IInv, Flags, StartTask, LoopStep, Onwards, Task, NoJob
  <2>2. Shapes'
    BY <1>2, Places DEF IInv, Shapes, Loops, Jobs, StartTask, LoopStep, Onwards, Task, NoJob
  <2>3. Held' /\ Owned' /\ Once'
    BY <1>2 DEF IInv, Shapes, Loops, Jobs, Triggers, Requests, Phases, Kinds,
           Held, InJob, Owned, Once, StartTask, LoopStep, Onwards, Task, NoJob
  <2> QED
    BY <2>1, <2>2, <2>3 DEF IInv
<1>3. ASSUME SkipTask PROVE IInv'
  <2>1. Flags'
    BY <1>3 DEF IInv, Flags, SkipTask, LoopStep, Onwards, Task, NoJob
  <2>2. Shapes'
    BY <1>3, Places DEF IInv, Shapes, Loops, SkipTask, LoopStep, Onwards, Task, NoJob
  <2>3. Held' /\ Owned' /\ Once'
    BY <1>3 DEF IInv, Shapes, Loops, Jobs, Triggers, Requests, Phases, Kinds,
           Held, InJob, Owned, Once, SkipTask, LoopStep, Onwards, Task, NoJob
  <2> QED
    BY <2>1, <2>2, <2>3 DEF IInv
<1>4. ASSUME TaskDone PROVE IInv'
  <2>1. Flags'
    BY <1>4 DEF IInv, Flags, TaskDone, LoopStep, Onwards, Task, NoJob
  <2>2. Shapes'
    BY <1>4, Places DEF IInv, Shapes, Loops, Jobs, TaskDone, LoopStep, Onwards, Task, NoJob
  <2>3. Held' /\ Owned' /\ Once'
    BY <1>4 DEF IInv, Shapes, Loops, Jobs, Triggers, Requests, Phases, Kinds,
           Held, InJob, Owned, Once, TaskDone, LoopStep, Onwards, Task, NoJob
  <2> QED
    BY <2>1, <2>2, <2>3 DEF IInv
<1>5. ASSUME TaskFailed PROVE IInv'
  <2>1. Flags'
    BY <1>5 DEF IInv, Flags, TaskFailed, LoopStep, Onwards, Task, NoJob
  <2>2. Shapes'
    BY <1>5, Places DEF IInv, Shapes, Loops, Jobs, TaskFailed, LoopStep, Onwards, Task, NoJob
  <2>3. Held' /\ Owned' /\ Once'
    BY <1>5 DEF IInv, Shapes, Loops, Jobs, Triggers, Requests, Phases, Kinds,
           Held, InJob, Owned, Once, TaskFailed, LoopStep, Onwards, Task, NoJob
  <2> QED
    BY <2>1, <2>2, <2>3 DEF IInv
<1>6. ASSUME Wake PROVE IInv'
  <2>1. Flags'
    BY <1>6 DEF IInv, Flags, Wake, LoopStep, Onwards, Task, NoJob
  <2>2. Shapes'
    BY <1>6, Places DEF IInv, Shapes, Loops, Wake, LoopStep, Onwards, Task, NoJob
  <2>3. Held' /\ Owned' /\ Once'
    BY <1>6 DEF IInv, Shapes, Loops, Jobs, Triggers, Requests, Phases, Kinds,
           Held, InJob, Owned, Once, Wake, LoopStep, Onwards, Task, NoJob
  <2> QED
    BY <2>1, <2>2, <2>3 DEF IInv
<1> QED
  BY <1>1, <1>2, <1>3, <1>4, <1>5, <1>6

\* The loop's thread takes and gives back the lock and the file.
LEMMA JobIInv ==
  ASSUME ServiceAssumption, IInv,
         SyncTakesLock \/ SyncRefused \/ SyncIngests \/ SyncExportFails \/ SyncFindsNoMesh \/ SyncConnects \/ SyncConnectFails \/ SyncWrites \/ FullRuns
  PROVE  IInv'
<1>1. ASSUME SyncTakesLock PROVE IInv'
  <2>1. Flags'
    BY <1>1 DEF IInv, Flags, SyncTakesLock, JobStep, NoJob, None
  <2>2. Shapes'
    BY <1>1 DEF IInv, Shapes, Jobs, SyncTakesLock, JobStep, NoJob, None
  <2>3. Held' /\ Owned' /\ Once'
    BY <1>1 DEF IInv, Shapes, Loops, Jobs, Triggers, Requests, Phases, Kinds,
           Held, InJob, Owned, Once, SyncTakesLock, JobStep, NoJob, None
  <2> QED
    BY <2>1, <2>2, <2>3 DEF IInv
<1>2. ASSUME SyncRefused PROVE IInv'
  <2>1. Flags'
    BY <1>2 DEF IInv, Flags, SyncRefused, JobStep, NoJob, None
  <2>2. Shapes'
    BY <1>2 DEF IInv, Shapes, Jobs, SyncRefused, JobStep, NoJob, None
  <2>3. Held' /\ Owned' /\ Once'
    BY <1>2 DEF IInv, Shapes, Loops, Jobs, Triggers, Requests, Phases, Kinds,
           Held, InJob, Owned, Once, SyncRefused, JobStep, NoJob, None
  <2> QED
    BY <2>1, <2>2, <2>3 DEF IInv
<1>3. ASSUME SyncIngests PROVE IInv'
  <2>1. Flags'
    BY <1>3 DEF IInv, Flags, SyncIngests, JobStep, NoJob, None
  <2>2. Shapes'
    BY <1>3 DEF IInv, Shapes, Jobs, SyncIngests, JobStep, NoJob, None
  <2>3. Held' /\ Owned' /\ Once'
    BY <1>3 DEF IInv, Shapes, Loops, Jobs, Triggers, Requests, Phases, Kinds,
           Held, InJob, Owned, Once, SyncIngests, JobStep, NoJob, None
  <2> QED
    BY <2>1, <2>2, <2>3 DEF IInv
<1>4. ASSUME SyncExportFails PROVE IInv'
  <2>1. Flags'
    BY <1>4 DEF IInv, Flags, SyncExportFails, JobStep, NoJob, None
  <2>2. Shapes'
    BY <1>4 DEF IInv, Shapes, Jobs, SyncExportFails, JobStep, NoJob, None
  <2>3. Held' /\ Owned' /\ Once'
    BY <1>4 DEF IInv, Shapes, Loops, Jobs, Triggers, Requests, Phases, Kinds,
           Held, InJob, Owned, Once, SyncExportFails, JobStep, NoJob, None
  <2> QED
    BY <2>1, <2>2, <2>3 DEF IInv
<1>5. ASSUME SyncFindsNoMesh PROVE IInv'
  <2>1. Flags'
    BY <1>5 DEF IInv, Flags, SyncFindsNoMesh, JobStep, NoJob, None
  <2>2. Shapes'
    BY <1>5 DEF IInv, Shapes, Jobs, SyncFindsNoMesh, JobStep, NoJob, None
  <2>3. Held' /\ Owned' /\ Once'
    BY <1>5 DEF IInv, Shapes, Loops, Jobs, Triggers, Requests, Phases, Kinds,
           Held, InJob, Owned, Once, SyncFindsNoMesh, JobStep, NoJob, None
  <2> QED
    BY <2>1, <2>2, <2>3 DEF IInv
<1>6. ASSUME SyncConnects PROVE IInv'
  <2>1. Flags'
    BY <1>6 DEF IInv, Flags, SyncConnects, JobStep, NoJob, None
  <2>2. Shapes'
    BY <1>6 DEF IInv, Shapes, Jobs, SyncConnects, JobStep, NoJob, None
  <2>3. Held' /\ Owned' /\ Once'
    BY <1>6 DEF IInv, Shapes, Loops, Jobs, Triggers, Requests, Phases, Kinds,
           Held, InJob, Owned, Once, SyncConnects, JobStep, NoJob, None
  <2> QED
    BY <2>1, <2>2, <2>3 DEF IInv
<1>7. ASSUME SyncConnectFails PROVE IInv'
  <2>1. Flags'
    BY <1>7 DEF IInv, Flags, SyncConnectFails, JobStep, NoJob, None
  <2>2. Shapes'
    BY <1>7 DEF IInv, Shapes, Jobs, SyncConnectFails, JobStep, NoJob, None
  <2>3. Held' /\ Owned' /\ Once'
    BY <1>7 DEF IInv, Shapes, Loops, Jobs, Triggers, Requests, Phases, Kinds,
           Held, InJob, Owned, Once, SyncConnectFails, JobStep, NoJob, None
  <2> QED
    BY <2>1, <2>2, <2>3 DEF IInv
<1>8. ASSUME SyncWrites PROVE IInv'
  <2>1. Flags'
    BY <1>8 DEF IInv, Flags, SyncWrites, JobStep, NoJob, None
  <2>2. Shapes'
    BY <1>8, NewMesh DEF IInv, Shapes, Jobs, SyncWrites, JobStep, NoJob, None
  <2>3. Held' /\ Owned' /\ Once'
    BY <1>8 DEF IInv, Shapes, Loops, Jobs, Triggers, Requests, Phases, Kinds,
           Held, InJob, Owned, Once, SyncWrites, JobStep, NoJob, None
  <2> QED
    BY <2>1, <2>2, <2>3 DEF IInv
<1>9. ASSUME FullRuns PROVE IInv'
  <2>1. Flags'
    BY <1>9 DEF IInv, Flags, FullRuns, JobStep, NoJob, None
  <2>2. Shapes'
    BY <1>9, NewMesh DEF IInv, Shapes, Jobs, FullRuns, JobStep, NoJob, None
  <2>3. Held' /\ Owned' /\ Once'
    BY <1>9 DEF IInv, Shapes, Loops, Jobs, Triggers, Requests, Phases, Kinds,
           Held, InJob, Owned, Once, FullRuns, JobStep, NoJob, None
  <2> QED
    BY <2>1, <2>2, <2>3 DEF IInv
<1> QED
  BY <1>1, <1>2, <1>3, <1>4, <1>5, <1>6, <1>7, <1>8, <1>9

\* So does the thread of the pipeline executor.
LEMMA TriggerIInv ==
  ASSUME ServiceAssumption, IInv,
         TriggerStarts \/ TriggerBuilds \/ TriggerConnects \/ TriggerConnectFails \/ TriggerEnds
  PROVE  IInv'
<1>1. ASSUME TriggerStarts PROVE IInv'
  <2>1. Flags'
    BY <1>1 DEF IInv, Flags, TriggerStarts, TriggerStep, NoJob, None
  <2>2. Shapes'
    BY <1>1 DEF IInv, Shapes, Triggers, ServiceAssumption, TriggerStarts, TriggerStep, NoJob, None
  <2>3. Held' /\ Owned' /\ Once'
    BY <1>1 DEF IInv, Shapes, Loops, Jobs, Triggers, Requests, Phases, Kinds,
           Held, InJob, Owned, Once, TriggerStarts, TriggerStep, NoJob, None
  <2> QED
    BY <2>1, <2>2, <2>3 DEF IInv
<1>2. ASSUME TriggerBuilds PROVE IInv'
  <2>1. Flags'
    BY <1>2 DEF IInv, Flags, TriggerBuilds, TriggerStep, NoJob, None
  <2>2. Shapes'
    BY <1>2, NewMesh DEF IInv, Shapes, Triggers, TriggerBuilds, TriggerStep, NoJob, None
  <2>3. Held' /\ Owned' /\ Once'
    BY <1>2 DEF IInv, Shapes, Loops, Jobs, Triggers, Requests, Phases, Kinds,
           Held, InJob, Owned, Once, TriggerBuilds, TriggerStep, NoJob, None
  <2> QED
    BY <2>1, <2>2, <2>3 DEF IInv
<1>3. ASSUME TriggerConnects PROVE IInv'
  <2>1. Flags'
    BY <1>3 DEF IInv, Flags, TriggerConnects, TriggerStep, NoJob, None
  <2>2. Shapes'
    BY <1>3 DEF IInv, Shapes, Triggers, TriggerConnects, TriggerStep, NoJob, None
  <2>3. Held' /\ Owned' /\ Once'
    BY <1>3 DEF IInv, Shapes, Loops, Jobs, Triggers, Requests, Phases, Kinds,
           Held, InJob, Owned, Once, TriggerConnects, TriggerStep, NoJob, None
  <2> QED
    BY <2>1, <2>2, <2>3 DEF IInv
<1>4. ASSUME TriggerConnectFails PROVE IInv'
  <2>1. Flags'
    BY <1>4 DEF IInv, Flags, TriggerConnectFails, TriggerStep, NoJob, None
  <2>2. Shapes'
    BY <1>4 DEF IInv, Shapes, Triggers, TriggerConnectFails, TriggerStep, NoJob, None
  <2>3. Held' /\ Owned' /\ Once'
    BY <1>4 DEF IInv, Shapes, Loops, Jobs, Triggers, Requests, Phases, Kinds,
           Held, InJob, Owned, Once, TriggerConnectFails, TriggerStep, NoJob, None
  <2> QED
    BY <2>1, <2>2, <2>3 DEF IInv
<1>5. ASSUME TriggerEnds PROVE IInv'
  <2>1. Flags'
    BY <1>5 DEF IInv, Flags, TriggerEnds, TriggerStep, NoJob, None
  <2>2. Shapes'
    BY <1>5, NewMesh DEF IInv, Shapes, Triggers, TriggerEnds, TriggerStep, NoJob, None
  <2>3. Held' /\ Owned' /\ Once'
    BY <1>5 DEF IInv, Shapes, Loops, Jobs, Triggers, Requests, Phases, Kinds,
           Held, InJob, Owned, Once, TriggerEnds, TriggerStep, NoJob, None
  <2> QED
    BY <2>1, <2>2, <2>3 DEF IInv
<1> QED
  BY <1>1, <1>2, <1>3, <1>4, <1>5

\* Another process takes the lock only where nobody has it.
LEMMA OtherIInv ==
  ASSUME ServiceAssumption, IInv,
         OtherTakesLock \/ OtherReplaces \/ OtherFails
  PROVE  IInv'
<1>1. ASSUME OtherTakesLock PROVE IInv'
  <2>1. Flags'
    BY <1>1 DEF IInv, Flags, OtherTakesLock, OtherStep, NoJob, None
  <2>2. Shapes'
    BY <1>1 DEF IInv, Shapes, OtherTakesLock, OtherStep, NoJob, None
  <2>3. Held' /\ Owned' /\ Once'
    BY <1>1 DEF IInv, Shapes, Loops, Jobs, Triggers, Requests, Phases, Kinds,
           Held, InJob, Owned, Once, OtherTakesLock, OtherStep, NoJob, None
  <2> QED
    BY <2>1, <2>2, <2>3 DEF IInv
<1>2. ASSUME OtherReplaces PROVE IInv'
  <2>1. Flags'
    BY <1>2 DEF IInv, Flags, OtherReplaces, OtherStep, NoJob, None
  <2>2. Shapes'
    BY <1>2, NewMesh DEF IInv, Shapes, OtherReplaces, OtherStep, NoJob, None
  <2>3. Held' /\ Owned' /\ Once'
    BY <1>2 DEF IInv, Shapes, Loops, Jobs, Triggers, Requests, Phases, Kinds,
           Held, InJob, Owned, Once, OtherReplaces, OtherStep, NoJob, None
  <2> QED
    BY <2>1, <2>2, <2>3 DEF IInv
<1>3. ASSUME OtherFails PROVE IInv'
  <2>1. Flags'
    BY <1>3 DEF IInv, Flags, OtherFails, OtherStep, NoJob, None
  <2>2. Shapes'
    BY <1>3 DEF IInv, Shapes, OtherFails, OtherStep, NoJob, None
  <2>3. Held' /\ Owned' /\ Once'
    BY <1>3 DEF IInv, Shapes, Loops, Jobs, Triggers, Requests, Phases, Kinds,
           Held, InJob, Owned, Once, OtherFails, OtherStep, NoJob, None
  <2> QED
    BY <2>1, <2>2, <2>3 DEF IInv
<1> QED
  BY <1>1, <1>2, <1>3

\* What a request is made of.
LEMMA RequestFields ==
  ASSUME request \in Requests
  PROVE  \E ph \in Phases, kd \in {None} \cup Kinds,
            lf \in Nat, cn \in 0 .. Versions, sn \in SUBSET (1 .. Versions),
            cd \in Codes :
           request = [phase |-> ph, kind |-> kd, left |-> lf, conn |-> cn, seen |-> sn, code |-> cd]
<1>1. request = [phase |-> request.phase, kind |-> request.kind, left |-> request.left,
                 conn |-> request.conn, seen |-> request.seen, code |-> request.code]
  BY DEF Requests
<1> QED
  BY <1>1 DEF Requests

\* What an answer makes of a request.
LEMMA AnsweredFields ==
  ASSUME NEW status
  PROVE  Answered(status) = [phase |-> "answered", kind |-> None, left |-> 0, conn |-> 0,
                             seen |-> {}, code |-> status]
<1>1. Answered(status) = [[phase |-> "none", kind |-> None, left |-> 0, conn |-> 0, seen |-> {},
                           code |-> 0] EXCEPT !.phase = "answered", !.code = status]
  BY Zenon DEF Answered, NoRequest
<1> QED
  BY <1>1

\* Requests are worked on one connection after the other.
LEMMA RequestIInv ==
  ASSUME ServiceAssumption, IInv,
         \/ \E kind \in Kinds : Arrive(kind)
         \/ HandleRun \/ HandleWithoutDb \/ HandleQuery \/ OpenConnection \/ OpenFails \/ ReadAndClose \/ NotFound \/ Finish \/ Depart
  PROVE  IInv'
<1>1. ASSUME NEW kind \in Kinds, Arrive(kind) PROVE IInv'
  <2>1. Flags'
    BY <1>1 DEF IInv, Flags, Arrive, RequestStep
  <2>2. Connects(kind) \in Nat /\ 0 \in 0 .. Versions
    BY DEF Connects, ServiceAssumption
  <2>3. request' \in Requests
    <3>1. request' = [phase |-> "queued", kind |-> kind, left |-> Connects(kind),
                      conn |-> 0, seen |-> {}, code |-> 0]
      BY <1>1 DEF Arrive, NoRequest
    <3> QED
      BY <2>2, <3>1 DEF Requests, Phases, Kinds, Codes
  <2>4. Shapes'
    BY <1>1, <2>3 DEF IInv, Shapes, Arrive, RequestStep
  <2>5. Held' /\ Owned' /\ Once'
    BY <1>1, <2>2 DEF IInv, Shapes, Held, Owned, Once, Arrive, RequestStep, NoRequest, Connects
  <2> QED
    BY <2>1, <2>4, <2>5 DEF IInv
<1>2. ASSUME HandleRun PROVE IInv'
  <2>1. Flags'
    BY <1>2 DEF IInv, Flags, HandleRun, RequestStep, Answered
  <2>2. 0 \in Nat /\ 0 \in 0 .. Versions
    BY DEF ServiceAssumption
  <2>3. PICK ph \in Phases, kd \in {None} \cup Kinds, lf \in Nat, cn \in 0 .. Versions,
            sn \in SUBSET (1 .. Versions), cd \in Codes :
           request = [phase |-> ph, kind |-> kd, left |-> lf, conn |-> cn, seen |-> sn, code |-> cd]
    BY RequestFields DEF IInv, Shapes
  <2>4. request' = 
         [phase |-> "answered", kind |-> None, left |-> 0, conn |-> 0, seen |-> {}, code |-> 200]
    <3>1. request' = Answered(200)
      BY <1>2, Zenon DEF HandleRun
    <3> QED
      BY <2>3, <3>1, AnsweredFields
  <2>5. request' \in Requests
    BY <2>4, <2>2 DEF Requests, Phases, Kinds, Codes
  <2>6. trigger' \in Triggers
    BY <1>2 DEF IInv, Shapes, Triggers, ServiceAssumption, HandleRun, RequestStep, Answered
  <2>7. Shapes'
    BY <1>2, <2>5, <2>6 DEF IInv, Shapes, HandleRun, RequestStep, Answered
  <2>8. Held' /\ Owned'
    BY <1>2 DEF IInv, Shapes, Requests, Phases, Kinds, Triggers, Held, Owned, HandleRun, RequestStep, Answered
  <2>9. Once'
    BY <2>4 DEF Once, None
  <2> QED
    BY <2>1, <2>7, <2>8, <2>9 DEF IInv
<1>3. ASSUME HandleWithoutDb PROVE IInv'
  <2>1. Flags'
    BY <1>3 DEF IInv, Flags, HandleWithoutDb, RequestStep, Answered
  <2>2. 0 \in Nat /\ 0 \in 0 .. Versions
    BY DEF ServiceAssumption
  <2>3. PICK ph \in Phases, kd \in {None} \cup Kinds, lf \in Nat, cn \in 0 .. Versions,
            sn \in SUBSET (1 .. Versions), cd \in Codes :
           request = [phase |-> ph, kind |-> kd, left |-> lf, conn |-> cn, seen |-> sn, code |-> cd]
    BY RequestFields DEF IInv, Shapes
  <2>4. request' = 
         [phase |-> "answered", kind |-> None, left |-> 0, conn |-> 0, seen |-> {}, code |-> 503]
    <3>1. request' = Answered(503)
      BY <1>3, Zenon DEF HandleWithoutDb
    <3> QED
      BY <2>3, <3>1, AnsweredFields
  <2>5. request' \in Requests
    BY <2>4, <2>2 DEF Requests, Phases, Kinds, Codes
  <2>6. Shapes'
    BY <1>3, <2>5 DEF IInv, Shapes, HandleWithoutDb, RequestStep, Answered
  <2>7. Held' /\ Owned'
    BY <1>3 DEF IInv, Shapes, Requests, Phases, Kinds, Triggers, Held, Owned, HandleWithoutDb, RequestStep, Answered
  <2>8. Once'
    BY <2>4 DEF Once, None
  <2> QED
    BY <2>1, <2>6, <2>7, <2>8 DEF IInv
<1>4. ASSUME HandleQuery PROVE IInv'
  <2>1. Flags'
    BY <1>4 DEF IInv, Flags, HandleQuery, RequestStep
  <2>2. PICK ph \in Phases, kd \in {None} \cup Kinds, lf \in Nat, cn \in 0 .. Versions,
            sn \in SUBSET (1 .. Versions), cd \in Codes :
           request = [phase |-> ph, kind |-> kd, left |-> lf, conn |-> cn, seen |-> sn, code |-> cd]
    BY RequestFields DEF IInv, Shapes
  <2>3. request' = 
         [phase |-> "running", kind |-> kd, left |-> lf, conn |-> cn, seen |-> sn, code |-> cd]
    BY <1>4, <2>2 DEF HandleQuery, RequestStep
  <2>4. request' \in Requests
    BY <2>3 DEF Requests, Phases, Kinds, Codes
  <2>5. Shapes'
    BY <1>4, <2>4 DEF IInv, Shapes, HandleQuery, RequestStep
  <2>6. Held' /\ Owned'
    BY <1>4 DEF IInv, Shapes, Requests, Phases, Kinds, Triggers, Held, Owned, HandleQuery, RequestStep
  <2>7. Once'
    BY <1>4 DEF IInv, Shapes, Requests, Kinds, Once, HandleQuery, RequestStep
  <2> QED
    BY <2>1, <2>5, <2>6, <2>7 DEF IInv
<1>5. ASSUME OpenConnection PROVE IInv'
  <2>1. Flags'
    BY <1>5 DEF IInv, Flags, OpenConnection, RequestStep
  <2>2. PICK ph \in Phases, kd \in {None} \cup Kinds, lf \in Nat, cn \in 0 .. Versions,
            sn \in SUBSET (1 .. Versions), cd \in Codes :
           request = [phase |-> ph, kind |-> kd, left |-> lf, conn |-> cn, seen |-> sn, code |-> cd]
    BY RequestFields DEF IInv, Shapes
  <2>3. request' = 
         [phase |-> "running", kind |-> kd, left |-> lf - 1, conn |-> mesh, seen |-> sn, code |-> cd]
    BY <1>5, <2>2 DEF OpenConnection, RequestStep
  <2>4. request' \in Requests
    <3>1. lf - 1 \in Nat /\ mesh \in 0 .. Versions
      BY <1>5, <2>2 DEF OpenConnection, IInv, Shapes, ServiceAssumption
    <3> QED
      BY <2>3, <3>1 DEF Requests, Phases, Kinds, Codes
  <2>5. Shapes'
    BY <1>5, <2>4 DEF IInv, Shapes, OpenConnection, RequestStep
  <2>6. Held' /\ Owned'
    BY <1>5 DEF IInv, Shapes, Requests, Phases, Kinds, Triggers, Held, Owned, OpenConnection, RequestStep
  <2>7. Once'
    BY <1>5 DEF IInv, Shapes, Requests, Kinds, Once, OpenConnection, RequestStep
  <2> QED
    BY <2>1, <2>5, <2>6, <2>7 DEF IInv
<1>6. ASSUME OpenFails PROVE IInv'
  <2>1. Flags'
    BY <1>6 DEF IInv, Flags, OpenFails, RequestStep, Answered
  <2>2. 0 \in Nat /\ 0 \in 0 .. Versions
    BY DEF ServiceAssumption
  <2>3. PICK ph \in Phases, kd \in {None} \cup Kinds, lf \in Nat, cn \in 0 .. Versions,
            sn \in SUBSET (1 .. Versions), cd \in Codes :
           request = [phase |-> ph, kind |-> kd, left |-> lf, conn |-> cn, seen |-> sn, code |-> cd]
    BY RequestFields DEF IInv, Shapes
  <2>4. request' = 
         [phase |-> "answered", kind |-> None, left |-> 0, conn |-> 0, seen |-> {}, code |-> 500]
    <3>1. request' = Answered(500)
      BY <1>6 DEF OpenFails
    <3> QED
      BY <2>3, <3>1, AnsweredFields
  <2>5. request' \in Requests
    BY <2>4, <2>2 DEF Requests, Phases, Kinds, Codes
  <2>6. Shapes'
    BY <1>6, <2>5 DEF IInv, Shapes, OpenFails, RequestStep, Answered
  <2>7. Held' /\ Owned'
    BY <1>6 DEF IInv, Shapes, Requests, Phases, Kinds, Triggers, Held, Owned, OpenFails, RequestStep, Answered
  <2>8. Once'
    BY <2>4 DEF Once, None
  <2> QED
    BY <2>1, <2>6, <2>7, <2>8 DEF IInv
<1>7. ASSUME ReadAndClose PROVE IInv'
  <2>1. Flags'
    BY <1>7 DEF IInv, Flags, ReadAndClose, RequestStep
  <2>2. 0 \in Nat /\ 0 \in 0 .. Versions
    BY DEF ServiceAssumption
  <2>3. PICK ph \in Phases, kd \in {None} \cup Kinds, lf \in Nat, cn \in 0 .. Versions,
            sn \in SUBSET (1 .. Versions), cd \in Codes :
           request = [phase |-> ph, kind |-> kd, left |-> lf, conn |-> cn, seen |-> sn, code |-> cd]
    BY RequestFields DEF IInv, Shapes
  <2>4. request' = 
         [phase |-> "running", kind |-> kd, left |-> lf, conn |-> 0, seen |-> sn \cup {cn}, code |-> cd]
    BY <1>7, <2>3 DEF ReadAndClose, RequestStep
  <2>5. request' \in Requests
    BY <2>4, <2>2, <1>7, <2>3 DEF Requests, Phases, Kinds, Codes, ReadAndClose
  <2>6. Shapes'
    BY <1>7, <2>5 DEF IInv, Shapes, ReadAndClose, RequestStep
  <2>7. Held' /\ Owned'
    BY <1>7 DEF IInv, Shapes, Requests, Phases, Kinds, Triggers, Held, Owned, ReadAndClose, RequestStep
  <2>8. Once'
    BY <1>7 DEF IInv, Shapes, Requests, Kinds, Once, ReadAndClose, RequestStep
  <2> QED
    BY <2>1, <2>6, <2>7, <2>8 DEF IInv
<1>8. ASSUME Finish PROVE IInv'
  <2>1. Flags'
    BY <1>8 DEF IInv, Flags, Finish, RequestStep, Answered
  <2>2. 0 \in Nat /\ 0 \in 0 .. Versions
    BY DEF ServiceAssumption
  <2>3. PICK ph \in Phases, kd \in {None} \cup Kinds, lf \in Nat, cn \in 0 .. Versions,
            sn \in SUBSET (1 .. Versions), cd \in Codes :
           request = [phase |-> ph, kind |-> kd, left |-> lf, conn |-> cn, seen |-> sn, code |-> cd]
    BY RequestFields DEF IInv, Shapes
  <2>4. \E status \in {200, 504} : request' = 
         [phase |-> "answered", kind |-> None, left |-> 0, conn |-> 0, seen |-> {}, code |-> status]
    <3>1. PICK status \in {200, 504} : request' = Answered(status)
      BY <1>8 DEF Finish
    <3>2. request' = [phase |-> "answered", kind |-> None, left |-> 0,
                      conn |-> 0, seen |-> {}, code |-> status]
      BY <2>3, <3>1, AnsweredFields
    <3> QED
      BY <3>2
  <2>5. request' \in Requests
    BY <2>4, <2>2 DEF Requests, Phases, Kinds, Codes
  <2>6. Shapes'
    BY <1>8, <2>5 DEF IInv, Shapes, Finish, RequestStep, Answered
  <2>7. Held' /\ Owned'
    BY <1>8 DEF IInv, Shapes, Requests, Phases, Kinds, Triggers, Held, Owned, Finish, RequestStep, Answered
  <2>8. Once'
    BY <2>4 DEF Once, None
  <2> QED
    BY <2>1, <2>6, <2>7, <2>8 DEF IInv
<1>9. ASSUME Depart PROVE IInv'
  <2>1. Flags'
    BY <1>9 DEF IInv, Flags, Depart, RequestStep, NoRequest
  <2>2. 0 \in Nat /\ 0 \in 0 .. Versions
    BY DEF ServiceAssumption
  <2>3. request' = 
         [phase |-> "none", kind |-> None, left |-> 0, conn |-> 0, seen |-> {}, code |-> 0]
    BY <1>9 DEF Depart, RequestStep, NoRequest
  <2>4. request' \in Requests
    BY <2>3, <2>2 DEF Requests, Phases, Kinds, Codes
  <2>5. Shapes'
    BY <1>9, <2>4 DEF IInv, Shapes, Depart, RequestStep, NoRequest
  <2>6. Held' /\ Owned'
    BY <1>9 DEF IInv, Shapes, Requests, Phases, Kinds, Triggers, Held, Owned, Depart, RequestStep, NoRequest
  <2>7. Once'
    BY <1>9 DEF IInv, Shapes, Requests, Kinds, Once, Depart, RequestStep, NoRequest
  <2> QED
    BY <2>1, <2>5, <2>6, <2>7 DEF IInv
<1>10. ASSUME NotFound PROVE IInv'
  <2>1. Flags'
    BY <1>10 DEF IInv, Flags, NotFound, RequestStep, Answered
  <2>2. 0 \in Nat /\ 0 \in 0 .. Versions
    BY DEF ServiceAssumption
  <2>3. PICK ph \in Phases, kd \in {None} \cup Kinds, lf \in Nat, cn \in 0 .. Versions,
            sn \in SUBSET (1 .. Versions), cd \in Codes :
           request = [phase |-> ph, kind |-> kd, left |-> lf, conn |-> cn, seen |-> sn, code |-> cd]
    BY RequestFields DEF IInv, Shapes
  <2>4. request' = 
         [phase |-> "answered", kind |-> None, left |-> 0, conn |-> 0, seen |-> {}, code |-> 404]
    <3>1. request' = Answered(404)
      BY <1>10 DEF NotFound
    <3> QED
      BY <2>3, <3>1, AnsweredFields
  <2>5. request' \in Requests
    BY <2>4, <2>2 DEF Requests, Phases, Kinds, Codes
  <2>6. Shapes'
    BY <1>10, <2>5 DEF IInv, Shapes, NotFound, RequestStep, Answered
  <2>7. Held' /\ Owned'
    BY <1>10 DEF IInv, Shapes, Requests, Phases, Kinds, Triggers, Held, Owned, NotFound, RequestStep, Answered
  <2>8. Once'
    BY <2>4 DEF Once, None
  <2> QED
    BY <2>1, <2>6, <2>7, <2>8 DEF IInv
<1> QED
  BY <1>1, <1>2, <1>3, <1>4, <1>5, <1>6, <1>7, <1>8, <1>9, <1>10

LEMMA NextIInv == ASSUME ServiceAssumption PROVE IInv /\ [Next]_vars => IInv'
<1> SUFFICES ASSUME IInv, [Next]_vars PROVE IInv'
  OBVIOUS
<1>1. ASSUME NEW t \in Tasks, Elapse(t) PROVE IInv'
  <2>1. Flags'
    BY <1>1 DEF IInv, Flags, Elapse
  <2>2. Shapes'
    BY <1>1 DEF IInv, Shapes, Elapse
  <2>3. Held' /\ Owned' /\ Once'
    BY <1>1 DEF IInv, Held, Owned, Once, Elapse
  <2> QED
    BY <2>1, <2>2, <2>3 DEF IInv
<1>2. CASE UNCHANGED vars
  <2>1. Flags'
    BY <1>2 DEF IInv, Flags, vars
  <2>2. Shapes' /\ Held' /\ Owned' /\ Once'
    BY <1>2 DEF IInv, Shapes, Held, Owned, Once, vars
  <2> QED
    BY <2>1, <2>2 DEF IInv
<1>3. CASE StartUp \/ Signal \/ Shutdown \/ Exit \/ Killed \/ Restart
  BY <1>3, StartStopIInv
<1>4. CASE Loop
  BY <1>4, LoopIInv DEF Loop
<1>5. CASE Job
  BY <1>5, JobIInv DEF Job
<1>6. CASE Trigger
  BY <1>6, TriggerIInv DEF Trigger
<1>7. CASE OtherTakesLock \/ OtherReplaces \/ OtherFails
  BY <1>7, OtherIInv
<1>8. CASE Handle \/ Depart \/ \E kind \in Kinds : Arrive(kind)
  BY <1>8, RequestIInv DEF Handle
<1> QED
  BY <1>1, <1>2, <1>3, <1>4, <1>5, <1>6, <1>7, <1>8 DEF Next

LEMMA SpecIInv == ASSUME ServiceAssumption PROVE Spec => []IInv
<1>1. Init => IInv
  BY InitIInv
<1>2. IInv /\ [Next]_vars => IInv'
  BY NextIInv
<1> QED
  BY <1>1, <1>2, PTL DEF Spec

----------------------------------------------------------------------------

\* Every variable keeps its type.
THEOREM TypeCorrect == ASSUME ServiceAssumption PROVE Spec => []TypeOK
<1>1. IInv => TypeOK
  BY Types DEF IInv
<1> QED
  BY <1>1, SpecIInv, PTL

\* An answer made over one connection is of one version of the mesh, whatever
\* the threads and other processes commit and replace meanwhile (db.py:46-50).
THEOREM AnswerTheorem == ASSUME ServiceAssumption PROVE Spec => []AnswerOfOneMesh
<1>1. IInv => AnswerOfOneMesh
  BY DEF IInv, Once, AnswerOfOneMesh
<1> QED
  BY <1>1, SpecIInv, PTL

\* A process that ends by itself leaves no run behind, whatever it was in the
\* middle of, and neither it nor a server killed by SIGTERM leaves the lock or
\* the mesh taken (server.py:56-60).
THEOREM ExitTheorem == ASSUME ServiceAssumption PROVE Spec => []ExitLeavesNothing
<1>1. ASSUME IInv PROVE ExitLeavesNothing
  <2>1. ASSUME process \in {"exited", "killed"}
        PROVE  job = NoJob /\ trigger = [step |-> "none", queued |-> 0]
    BY <1>1, <2>1 DEF IInv, Owned
  <2>2. ASSUME process \in {"exited", "killed"}
        PROVE  lock \notin {"sync", "trigger"} /\ writer = None
    BY <1>1, <2>1, <2>2 DEF IInv, Held, InJob, Shapes, NoJob
  <2> QED
    BY <2>1, <2>2 DEF ExitLeavesNothing
<1> QED
  BY <1>1, SpecIInv, PTL

----------------------------------------------------------------------------
(* run_streaming, for a pipe of any size, any output and any number of     *)
(* interrupts.                                                             *)
\* No line is lost or made up between the writers and output_lines.
Counted == lines + pipe = written

\* The waits have come back for the child.
Waited ==
  caller \in {"joining", Returned, "failed", "interrupted", "timed out"} => child = "reaped"

\* The reader starts after the child, and ends after everybody who can write.
Drained ==
  /\ caller \in {"start", "not started", "popened"} => reader = "none"
  /\ reader = "ended" => pipe = 0 /\ child # "running" /\ helper # "alive"

\* Nobody returns but through the join.
Joined == caller = Returned => reader \in {"ended", "failed"}

\* The counters and their bounds.
Counters ==
  /\ Capacity \in Nat /\ MaxLines \in Nat /\ MaxAlarms \in Nat
  /\ pipe \in 0 .. Capacity /\ written \in 0 .. MaxLines /\ lines \in 0 .. MaxLines
  /\ alarms \in 0 .. MaxAlarms

\* The inductive invariant.
StreamInv == StreamTypeOK /\ Counted /\ Waited /\ Drained /\ Joined

LEMMA InitStream == ASSUME StreamingAssumption PROVE StreamInit => StreamInv
  BY DEF StreamingAssumption, StreamInit, StreamInv, StreamTypeOK, Counted, Waited, Drained, Joined, Ends, Returned

LEMMA StreamCounters == ASSUME StreamingAssumption, StreamInv PROVE Counters /\ Counted
<1>1. Capacity \in Nat /\ MaxLines \in Nat /\ MaxAlarms \in Nat
  BY DEF StreamingAssumption
<1>2. /\ pipe \in 0 .. Capacity /\ written \in 0 .. MaxLines /\ lines \in 0 .. MaxLines
      /\ alarms \in 0 .. MaxAlarms /\ Counted
  BY DEF StreamInv, StreamTypeOK
<1> QED
  BY <1>1, <1>2 DEF Counters

\* A step of the caller touches no line.
LEMMA CallerStream ==
  ASSUME StreamingAssumption, StreamInv,
         Popen \/ StartReader \/ WaitReturns \/ WaitExpires \/ JoinReturns \/ Kill \/ Reap \/ Interrupt
  PROVE  StreamInv'
<1>0. ASSUME Interrupt PROVE alarms' \in 0 .. MaxAlarms
  <2>1. alarms < MaxAlarms /\ alarms' = alarms + 1
    BY <1>0 DEF Interrupt
  <2> QED
    BY <2>1, StreamCounters DEF Counters
<1> USE DEF StreamInv, Counted, Waited, Drained, Joined, StreamTypeOK, Ends, Returned
<1>1. CASE Popen
  BY <1>1 DEF Popen
<1>2. CASE StartReader
  BY <1>2 DEF StartReader
<1>3. CASE WaitReturns
  BY <1>3 DEF WaitReturns
<1>4. CASE WaitExpires
  BY <1>4 DEF WaitExpires
<1>5. CASE JoinReturns
  BY <1>5 DEF JoinReturns
<1>6. CASE Kill
  BY <1>6 DEF Kill
<1>7. CASE Reap
  BY <1>7 DEF Reap
<1>8. CASE Interrupt
  <2>1. alarms' \in 0 .. MaxAlarms
    BY <1>0, <1>8
  <2> QED
    BY <1>8, <2>1 DEF Interrupt
<1> HIDE DEF StreamInv
<1> QED
  BY <1>1, <1>2, <1>3, <1>4, <1>5, <1>6, <1>7, <1>8

\* A line goes from the pipe to output_lines; the end is seen only when the
\* pipe is empty and its writers are gone.
LEMMA ReaderStream ==
  ASSUME StreamingAssumption, StreamInv, ReadLine \/ ReadFails \/ ReadEnds
  PROVE  StreamInv'
<1>0. ASSUME ReadLine
      PROVE  pipe' \in 0 .. Capacity /\ lines' \in 0 .. MaxLines /\ lines' + pipe' = written'
  BY <1>0, StreamCounters DEF ReadLine, Counters, Counted
<1> USE DEF StreamInv, Counted, Waited, Drained, Joined, StreamTypeOK
<1>1. CASE ReadLine
  <2>1. pipe' \in 0 .. Capacity /\ lines' \in 0 .. MaxLines /\ lines' + pipe' = written'
    BY <1>0, <1>1
  <2> QED
    BY <1>1, <2>1 DEF ReadLine
<1>2. CASE ReadFails
  BY <1>2 DEF ReadFails
<1>3. CASE ReadEnds
  BY <1>3 DEF ReadEnds
<1> HIDE DEF StreamInv
<1> QED
  BY <1>1, <1>2, <1>3

\* Nobody writes, and no helper starts, once the reader has seen the end.
LEMMA CommandStream ==
  ASSUME StreamingAssumption, StreamInv, WriteLine \/ StartHelper \/ ChildExits \/ HelperExits
  PROVE  StreamInv'
<1>0. ASSUME WriteLine
      PROVE  pipe' \in 0 .. Capacity /\ written' \in 0 .. MaxLines /\ lines' + pipe' = written'
  BY <1>0, StreamCounters DEF WriteLine, Counters, Counted
<1> USE DEF StreamInv, Counted, Waited, Drained, Joined, StreamTypeOK
<1>1. CASE WriteLine
  <2>1. pipe' \in 0 .. Capacity /\ written' \in 0 .. MaxLines /\ lines' + pipe' = written'
    BY <1>0, <1>1
  <2> QED
    BY <1>1, <2>1 DEF WriteLine
<1>2. CASE StartHelper
  BY <1>2 DEF StartHelper
<1>3. CASE ChildExits
  BY <1>3 DEF ChildExits
<1>4. CASE HelperExits
  BY <1>4 DEF HelperExits
<1> HIDE DEF StreamInv
<1> QED
  BY <1>1, <1>2, <1>3, <1>4

LEMMA NextStream == ASSUME StreamingAssumption PROVE StreamInv /\ [StreamNext]_streamVars => StreamInv'
<1> SUFFICES ASSUME StreamInv, [StreamNext]_streamVars PROVE StreamInv'
  OBVIOUS
<1>1. CASE StreamNext
  BY <1>1, CallerStream, ReaderStream, CommandStream DEF StreamNext
<1>2. CASE UNCHANGED streamVars
  BY <1>2 DEF streamVars, StreamInv, Counted, Waited, Drained, Joined, StreamTypeOK
<1> QED
  BY <1>1, <1>2

LEMMA StreamInvariant == ASSUME StreamingAssumption PROVE StreamSpec => []StreamInv
<1>1. StreamInit => StreamInv
  BY InitStream
<1>2. StreamInv /\ [StreamNext]_streamVars => StreamInv'
  BY NextStream
<1> QED
  BY <1>1, <1>2, PTL DEF StreamSpec

----------------------------------------------------------------------------

\* The variables have their types, whatever fits into the pipe
\* (cli/streaming.py:66-118).
THEOREM StreamTypeCorrect == ASSUME StreamingAssumption PROVE StreamSpec => []StreamTypeOK
<1>1. StreamInv => StreamTypeOK
  BY DEF StreamInv
<1> QED
  BY <1>1, StreamInvariant, PTL

\* A run_streaming that has ended has waited for its child, and one that has
\* returned has all of the output, from the child and from whatever the child
\* started, unless the reader thread died (cli/streaming.py:82-116).
THEOREM EndTheorem == ASSUME StreamingAssumption PROVE StreamSpec => []EndMeansDone
<1>1. StreamInv => EndMeansDone
  <2> SUFFICES ASSUME StreamInv PROVE EndMeansDone
    OBVIOUS
  <2>1. caller \in Ends \ {"abandoned", "not started"} => child = "reaped"
    BY DEF StreamInv, Waited, Ends
  <2>2. ASSUME reader = "ended" PROVE lines = written /\ helper # "alive"
    <3>1. pipe = 0 /\ helper # "alive"
      BY <2>2 DEF StreamInv, Drained
    <3> QED
      BY <3>1, StreamCounters DEF Counters, Counted
  <2> QED
    BY <2>1, <2>2 DEF StreamInv, Joined, EndMeansDone
<1> QED
  BY <1>1, StreamInvariant, PTL
=============================================================================
