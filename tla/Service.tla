------------------------------ MODULE Service ------------------------------
(***************************************************************************)
(* One process that refreshes the mesh and, as a server, answers from it:  *)
(* the scheduler loop (worker.py), the API around it (api/server.py,       *)
(* api/router.py, the connections of api/db.py) and the two threads that   *)
(* they hand pipeline work to.  Loop and request handlers share one event  *)
(* loop; a handler queries the mesh without awaiting, so that nothing else *)
(* of the event loop runs meanwhile, the 30 s deadline included.  Another  *)
(* process may hold pipeline.lock and replace the mesh.                    *)
(*                                                                         *)
(* DuckDB (external): in one process a file is open either for reading or  *)
(* for writing; the second connect raises.  An open connection keeps the   *)
(* file that it opened when the name is given to another one.              *)
(*                                                                         *)
(* Abstracted: intervals (a task is due or not), the contents of the mesh  *)
(* (a version that every commit and every replacement changes, told apart  *)
(* from the last Versions - 1), the stages inside a load (MeshPipeline).   *)
(***************************************************************************)
EXTENDS Naturals, Sequences, SequencesExt

CONSTANTS Groups,       \* _SOURCE_GROUPS: the systems, in order
          Versions,     \* bound: versions of the mesh told apart
          MaxQueued,    \* bound: pipeline runs that wait in the executor
          MaxConnects   \* bound: connections that one trace makes

Systems == ToSet(Groups)

ServiceAssumption ==
    /\ Groups \in Seq(Systems)
    /\ Versions \in Nat \ {0} /\ MaxQueued \in Nat /\ MaxConnects \in Nat \ {0}

Splink == "splink"
Tasks == Systems \cup {Splink}
Schedule == Append(Groups, Splink)      \* what a pass looks at, in order

None == "none"

VARIABLES
    mode,     \* "server", or "worker": python -m zentinull.worker
    process,  \* "starting", "up", "stopping", "exited", "killed"
    mesh,     \* the version under the name mesh.duckdb; 0: there is none
    writer,   \* the thread that has mesh.duckdb open for writing
    lock,     \* who has pipeline.lock
    due,      \* the tasks whose interval has passed since last_run
    stop,     \* state.should_stop
    loop,     \* the loop: where it is, and at which place of the schedule
    running,  \* state.running
    job,      \* what the loop's executor thread does: a task and its step
    trigger,  \* _pipeline_executor: the step of its thread, the runs that wait
    db,       \* is app.state.db a MeshDB?
    request   \* the request that the event loop works on

vars == <<mode, process, mesh, writer, lock, due, stop, loop, running, job,
          trigger, db, request>>

NoJob == [task |-> None, step |-> "none"]
NoRequest == [phase |-> "none", kind |-> None, left |-> 0, conn |-> 0, seen |-> {}, code |-> 0]

\* The requests told apart: over one connection (a lookup, a batch, a search, a
\* dashboard, a list), over a lookup's and one more (timeline, attachments,
\* history, metric-summary) or two more (metrics, stats), a trace, and the one
\* that starts a pipeline run.
Kinds == {"query", "timeline", "metrics", "trace", "run"}

\* A mesh that has changed.
Changed(m) == 1 + (m % Versions)

Init ==
    /\ mode \in {"server", "worker"} /\ process = "starting"
    /\ mesh \in {0, 1}
    /\ writer = None /\ lock = None
    /\ due = Tasks
    /\ stop = FALSE /\ running = FALSE
    /\ loop = [at |-> "off", place |-> 1]
    /\ job = NoJob
    /\ trigger = [step |-> "none", queued |-> 0]
    /\ db = FALSE
    /\ request = NoRequest

\* The event loop is free: no handler is in the middle of its queries.
Free == request.phase # "running"

----------------------------------------------------------------------------
(* Start and stop: lifespan, and the signals of the worker. *)

\* app.state.db is decided once, before the scheduler starts.
StartUp ==
    /\ process = "starting"
    /\ process' = "up"
    /\ db' = (mode = "server" /\ mesh # 0)
    /\ due' = Tasks /\ running' = FALSE
    /\ loop' = [at |-> "top", place |-> 1]
    /\ UNCHANGED <<mode, mesh, writer, lock, stop, job, trigger, request>>

\* SIGTERM in a worker is only noted; the loop looks at it once per pass.
Signal ==
    /\ mode = "worker" /\ process = "up"
    /\ stop' = TRUE
    /\ UNCHANGED <<mode, process, mesh, writer, lock, due, loop, running, job, trigger, db, request>>

\* A server that shuts down cancels the loop, wherever it awaits; finally
\* clears running, and the executor's thread knows nothing of it.
Shutdown ==
    /\ mode = "server" /\ process = "up" /\ request.phase = "none"
    /\ loop.at \in {"await", "sleep"}
    /\ process' = "stopping"
    /\ loop' = [loop EXCEPT !.at = "off"]
    /\ running' = FALSE
    /\ UNCHANGED <<mode, mesh, writer, lock, due, stop, job, trigger, db, request>>

\* Mutant: a process that nothing kills does not wait for its threads.
ExitAtOnce ==
    /\ process = "stopping" \/ (mode = "worker" /\ loop.at = "ended")
    /\ process' = "exited"
    /\ job' = NoJob /\ stop' = FALSE
    /\ loop' = [loop EXCEPT !.at = "off"]
    /\ UNCHANGED <<mode, mesh, writer, lock, due, running, trigger, db, request>>

\* A worker told to stop, and a server that stops for a SIGINT, end as
\* interpreters do: they wait for the threads of both executors, and for the
\* runs that are queued.
Exit ==
    /\ \/ process = "stopping"
       \/ mode = "worker" /\ process = "up" /\ loop.at = "ended"
    /\ job.step \in {"none", "ok", "raised"}
    /\ trigger.step = "none" /\ trigger.queued = 0
    /\ process' = "exited"
    /\ job' = NoJob /\ stop' = FALSE
    /\ loop' = [loop EXCEPT !.at = "off"]
    /\ UNCHANGED <<mode, mesh, writer, lock, due, running, trigger, db, request>>

\* A run that may have committed some of its statements, or replaced the mesh,
\* by now.
Committing ==
    writer # None \/ trigger.step = "build" \/ job = [task |-> Splink, step |-> "start"]

\* A server that stops for a SIGTERM: when the lifespan is over, uvicorn raises
\* the signal again, now with its default action, and the threads die where they
\* are.  The system closes their files, and so drops the lock.
Killed ==
    /\ mode = "server" /\ process = "stopping"
    /\ process' = "killed"
    /\ mesh' = mesh \/ (Committing /\ mesh' = Changed(mesh))
    /\ writer' = None
    /\ lock' = IF lock = "other" THEN lock ELSE None
    /\ job' = NoJob /\ trigger' = [step |-> "none", queued |-> 0]
    /\ UNCHANGED <<mode, due, stop, loop, running, db, request>>

Restart ==
    /\ process \in {"exited", "killed"}
    /\ process' = "starting"
    /\ UNCHANGED <<mode, mesh, writer, lock, due, stop, loop, running, job, trigger, db, request>>

----------------------------------------------------------------------------
(* The loop. *)

LoopStep == Free /\ process = "up"
    /\ UNCHANGED <<mode, process, mesh, writer, lock, stop, trigger, db, request>>

\* Mutant: while True.
TopOfEveryPass ==
    /\ LoopStep /\ loop.at = "top"
    /\ loop' = [at |-> "check", place |-> 1]
    /\ UNCHANGED <<due, running, job>>

\* while not state.should_stop.
TopOfPass ==
    /\ LoopStep /\ loop.at = "top"
    /\ loop' = [at |-> IF stop THEN "ended" ELSE "check", place |-> 1]
    /\ UNCHANGED <<due, running, job>>

Task == Schedule[loop.place]

\* Mutant: a pass looks for one more task than there are.
OnwardsTooFar == IF loop.place > Len(Schedule) THEN [at |-> "sleep", place |-> 1]
                 ELSE [at |-> "check", place |-> loop.place + 1]

Onwards == IF loop.place = Len(Schedule) THEN [at |-> "sleep", place |-> 1]
           ELSE [at |-> "check", place |-> loop.place + 1]

\* should_run and not running: the task goes to the executor.
StartTask ==
    /\ LoopStep /\ loop.at = "check"
    /\ Task \in due /\ ~running
    /\ running' = TRUE
    /\ job' = [task |-> Task, step |-> "start"]
    /\ loop' = [loop EXCEPT !.at = "await"]
    /\ UNCHANGED due

SkipTask ==
    /\ LoopStep /\ loop.at = "check"
    /\ Task \notin due \/ running
    /\ loop' = Onwards
    /\ UNCHANGED <<due, running, job>>

\* The await returns: last_run is now.
TaskDone ==
    /\ LoopStep /\ loop.at = "await" /\ job.step = "ok"
    /\ due' = due \ {Task}
    /\ running' = FALSE /\ job' = NoJob
    /\ loop' = Onwards

\* Mutant: the failure path forgets state.running.
TaskFailedStillRunning ==
    /\ LoopStep /\ loop.at = "await" /\ job.step = "raised"
    /\ job' = NoJob
    /\ loop' = Onwards
    /\ UNCHANGED <<due, running>>

\* The await raises: last_run stays, so the next pass tries again.
TaskFailed ==
    /\ LoopStep /\ loop.at = "await" /\ job.step = "raised"
    /\ running' = FALSE /\ job' = NoJob
    /\ loop' = Onwards
    /\ UNCHANGED due

\* After asyncio.sleep(10).
Wake ==
    /\ LoopStep /\ loop.at = "sleep"
    /\ loop' = [loop EXCEPT !.at = "top"]
    /\ UNCHANGED <<due, running, job>>

\* The interval of a task passes.
Elapse(t) ==
    /\ process = "up" /\ t \in Tasks \ due
    /\ due' = due \cup {t}
    /\ UNCHANGED <<mode, process, mesh, writer, lock, stop, loop, running, job, trigger, db, request>>

----------------------------------------------------------------------------
(* The executor thread of the loop: run_incremental_sync, or export, Splink *)
(* and load without the lock.                                               *)

JobStep(from, to) ==
    /\ job.step = from
    /\ job' = [job EXCEPT !.step = to]
    /\ UNCHANGED <<mode, process, due, stop, loop, running, trigger, db, request>>

Sync == job.task \in Systems

SyncTakesLock ==
    /\ Sync /\ lock = None /\ lock' = "sync"
    /\ JobStep("start", "ingest")
    /\ UNCHANGED <<mesh, writer>>

SyncRefused ==
    /\ Sync /\ lock # None
    /\ JobStep("start", "raised")
    /\ UNCHANGED <<mesh, writer, lock>>

\* The ingest of the system, whose failure is swallowed, and its export, whose
\* failure is not.
SyncIngests ==
    /\ JobStep("ingest", "connect")
    /\ UNCHANGED <<mesh, writer, lock>>

SyncExportFails ==
    /\ JobStep("ingest", "raised")
    /\ lock' = None
    /\ UNCHANGED <<mesh, writer>>

\* Without a mesh a sync has nothing to do, and says so: 0 devices.
SyncFindsNoMesh ==
    /\ mesh = 0
    /\ JobStep("connect", "ok")
    /\ lock' = None
    /\ UNCHANGED <<mesh, writer>>

SyncConnects ==
    /\ mesh # 0 /\ writer = None /\ request.conn = 0
    /\ JobStep("connect", "write")
    /\ writer' = "sync"
    /\ UNCHANGED <<mesh, lock>>

\* DuckDB refuses: a query, or the other thread, has the mesh open.
SyncConnectFails ==
    /\ mesh # 0 /\ (writer # None \/ request.conn # 0)
    /\ JobStep("connect", "raised")
    /\ lock' = None
    /\ UNCHANGED <<mesh, writer>>

\* The upsert commits statement by statement, to its end or to a failure.
SyncWrites ==
    /\ JobStep("write", "ok") \/ JobStep("write", "raised")
    /\ mesh' = Changed(mesh) /\ writer' = None /\ lock' = None

\* Splink and the load: the mesh is replaced, or an exception leaves it.
FullRuns ==
    /\ job.task = Splink
    /\ \/ JobStep("start", "ok") /\ mesh' = Changed(mesh)
       \/ JobStep("start", "raised") /\ UNCHANGED mesh
    /\ UNCHANGED <<writer, lock>>

----------------------------------------------------------------------------
(* The thread of _pipeline_executor: run_pipeline, one call after the other. *)

TriggerStep(from, to) ==
    /\ trigger.step = from
    /\ trigger' = [trigger EXCEPT !.step = to]
    /\ UNCHANGED <<mode, process, due, stop, loop, running, job, db, request>>

\* Another run under way refuses this one, and nobody is told.
TriggerStarts ==
    /\ trigger.step = "none" /\ trigger.queued > 0
    /\ \/ lock = None /\ lock' = "trigger"
          /\ trigger' = [step |-> "build", queued |-> trigger.queued - 1]
       \/ lock # None /\ UNCHANGED lock
          /\ trigger' = [step |-> "none", queued |-> trigger.queued - 1]
    /\ UNCHANGED <<mode, process, mesh, writer, due, stop, loop, running, job, db, request>>

TriggerBuilds ==
    /\ \/ TriggerStep("build", "annotate") /\ mesh' = Changed(mesh) /\ UNCHANGED lock
       \/ TriggerStep("build", "none") /\ lock' = None /\ UNCHANGED mesh
    /\ UNCHANGED writer

\* valentine and attach open the new mesh for writing.
TriggerConnects ==
    /\ writer = None /\ request.conn = 0
    /\ TriggerStep("annotate", "write")
    /\ writer' = "trigger"
    /\ UNCHANGED <<mesh, lock>>

TriggerConnectFails ==
    /\ writer # None \/ request.conn # 0
    /\ TriggerStep("annotate", "none")
    /\ lock' = None
    /\ UNCHANGED <<mesh, writer>>

TriggerEnds ==
    /\ TriggerStep("write", "none")
    /\ mesh' = Changed(mesh) /\ writer' = None /\ lock' = None

----------------------------------------------------------------------------
(* Another process. *)

OtherStep == UNCHANGED <<mode, process, writer, due, stop, loop, running, job, trigger, db, request>>

OtherTakesLock == lock = None /\ lock' = "other" /\ OtherStep /\ UNCHANGED mesh
OtherReplaces == lock = "other" /\ mesh' = Changed(mesh) /\ lock' = None /\ OtherStep
OtherFails == lock = "other" /\ lock' = None /\ OtherStep /\ UNCHANGED mesh

----------------------------------------------------------------------------
(* Requests. *)

RequestStep == UNCHANGED <<mode, process, mesh, writer, lock, due, stop, loop, running, job, db>>

\* Mutant: a lookup resolves the query over one connection and builds the story
\* over another.
ConnectsTwice(kind) ==
    CASE kind \in {"query", "timeline"} -> 2 [] kind = "metrics" -> 3
      [] kind = "trace" -> MaxConnects [] OTHER -> 0

\* How many connections a handler makes, one after the other.
Connects(kind) ==
    CASE kind = "query" -> 1 [] kind = "timeline" -> 2 [] kind = "metrics" -> 3
      [] kind = "trace" -> MaxConnects [] OTHER -> 0

Arrive(kind) ==
    /\ mode = "server" /\ process = "up" /\ request.phase = "none"
    /\ request' = [NoRequest EXCEPT !.phase = "queued", !.kind = kind, !.left = Connects(kind)]
    /\ RequestStep /\ UNCHANGED trigger

\* What it was answered from is in request until then.
Answered(code) == [NoRequest EXCEPT !.phase = "answered", !.code = code]

\* POST /pipeline/run: a run is queued and the answer says that it has started.
HandleRun ==
    /\ request.phase = "queued" /\ request.kind = "run"
    /\ trigger.queued < MaxQueued
    /\ trigger' = [trigger EXCEPT !.queued = @ + 1]
    /\ request' = Answered(200)
    /\ RequestStep

\* _db raises 503; /health answers "degraded" where others answer 503 or 500.
HandleWithoutDb ==
    /\ request.phase = "queued" /\ request.kind # "run" /\ ~db
    /\ request' = Answered(503)
    /\ RequestStep /\ UNCHANGED trigger

HandleQuery ==
    /\ request.phase = "queued" /\ request.kind # "run" /\ db
    /\ request' = [request EXCEPT !.phase = "running"]
    /\ RequestStep /\ UNCHANGED trigger

\* _conn.
OpenConnection ==
    /\ request.phase = "running" /\ request.conn = 0 /\ request.left > 0 /\ writer = None
    /\ request' = [request EXCEPT !.conn = mesh, !.left = @ - 1]
    /\ RequestStep /\ UNCHANGED trigger

\* The connect raises.
OpenFails ==
    /\ request.phase = "running" /\ request.conn = 0 /\ request.left > 0 /\ writer # None
    /\ request' = Answered(500)
    /\ RequestStep /\ UNCHANGED trigger

\* The statements of one connection, and its close.
ReadAndClose ==
    /\ request.phase = "running" /\ request.conn # 0
    /\ request' = [request EXCEPT !.seen = @ \cup {request.conn}, !.conn = 0]
    /\ RequestStep /\ UNCHANGED trigger

\* The first connection, that of the lookup, finds nothing.
NotFound ==
    /\ request.phase = "running" /\ request.conn # 0 /\ request.seen = {}
    /\ request' = Answered(404)
    /\ RequestStep /\ UNCHANGED trigger

\* Mutant: a query that took too long is made again.
FinishOrRetry ==
    /\ request.phase = "running" /\ request.conn = 0 /\ request.left = 0
    /\ \/ request' = Answered(200)
       \/ request' = [request EXCEPT !.phase = "queued", !.left = 1, !.seen = {}]
    /\ RequestStep /\ UNCHANGED trigger

\* The answer, or 504 if the timer of wait_for has run out by now.
Finish ==
    /\ request.phase = "running" /\ request.conn = 0 /\ request.left = 0
    /\ \E code \in {200, 504} : request' = Answered(code)
    /\ RequestStep /\ UNCHANGED trigger

Depart ==
    /\ request.phase = "answered"
    /\ request' = NoRequest
    /\ RequestStep /\ UNCHANGED trigger

----------------------------------------------------------------------------

Loop == TopOfPass \/ StartTask \/ SkipTask \/ TaskDone \/ TaskFailed \/ Wake

Job == \/ SyncTakesLock \/ SyncRefused \/ SyncIngests \/ SyncExportFails
       \/ SyncFindsNoMesh \/ SyncConnects \/ SyncConnectFails \/ SyncWrites \/ FullRuns

Trigger == \/ TriggerStarts \/ TriggerBuilds \/ TriggerConnects
           \/ TriggerConnectFails \/ TriggerEnds

Handle == \/ HandleRun \/ HandleWithoutDb \/ HandleQuery \/ OpenConnection
          \/ OpenFails \/ ReadAndClose \/ NotFound \/ Finish

Next ==
    \/ StartUp \/ Signal \/ Shutdown \/ Exit \/ Killed \/ Restart
    \/ Loop \/ \E t \in Tasks : Elapse(t)
    \/ Job \/ Trigger \/ Handle
    \/ OtherTakesLock \/ OtherReplaces \/ OtherFails
    \/ \E kind \in Kinds : Arrive(kind)
    \/ Depart

\* The threads run; the event loop takes its callbacks in the order they came,
\* so the loop has its turn however many requests there are; time passes.
\* Nobody need send a request, stop the process or start it again.
Fairness ==
    /\ WF_vars(StartUp \/ Exit)
    /\ SF_vars(Loop) /\ \A t \in Tasks : WF_vars(Elapse(t))
    /\ WF_vars(Job) /\ WF_vars(Trigger) /\ WF_vars(Handle \/ Depart)

Spec == Init /\ [][Next]_vars /\ Fairness

----------------------------------------------------------------------------

TypeOK ==
    /\ mode \in {"server", "worker"}
    /\ process \in {"starting", "up", "stopping", "exited", "killed"}
    /\ mesh \in 0 .. Versions
    /\ writer \in {None, "sync", "trigger"} /\ lock \in {None, "sync", "trigger", "other"}
    /\ due \subseteq Tasks /\ stop \in BOOLEAN /\ running \in BOOLEAN
    /\ loop \in [at : {"off", "top", "check", "await", "sleep", "ended"},
                 place : 1 .. Len(Schedule)]
    /\ job \in [task : Tasks \cup {None},
                step : {"none", "start", "ingest", "connect", "write", "ok", "raised"}]
    /\ trigger \in [step : {"none", "build", "annotate", "write"}, queued : 0 .. MaxQueued]
    /\ db \in BOOLEAN
    /\ request \in [phase : {"none", "queued", "running", "answered"},
                    kind : {None} \cup Kinds, left : Nat,
                    conn : 0 .. Versions, seen : SUBSET (1 .. Versions),
                    code : {0, 200, 404, 500, 503, 504}]

\* What a handler answers over one connection is of one version of the mesh,
\* though a sync commits statement by statement and a load replaces the file,
\* and no statement of it runs beside a writer of this process (db.py:46-50,
\* router.py:101-213).
AnswerOfOneMesh ==
    request.kind = "query" =>
        /\ \A v \in request.seen : request.conn \in {0, v}
        /\ \A v, w \in request.seen : v = w
        /\ request.conn # 0 => writer = None

\* "Single connection per request" (db.py:1): all that a request is answered
\* from is what one connection sees, so of one version of the mesh.
SingleConnection == \A v, w \in request.seen \cup ({request.conn} \ {0}) : v = w

\* As long as the process stays up and is not told to stop, every system is
\* synced, and Splink run, again and again: no failure of a sync, no refusal by
\* the lock or by DuckDB, and no request keeps one out for ever (worker.py:117-143).
EveryTaskTriedAgain ==
    <>[](process = "up" /\ ~stop) => \A t \in Tasks : []<>(job.task = t)

\* A worker that was told to stop ends, and so does a server that shuts down: a
\* run under way, the queue of runs and a lock held elsewhere keep neither up for
\* ever (worker.py:117, server.py:56-60).
StopEnds == (stop \/ process = "stopping") ~> (process \in {"exited", "killed"})

\* Every request is answered, by a deadline or by the query that outlasts it
\* (server.py:111-144).
RequestsAnswered == (request.phase = "queued") ~> (request.phase = "answered")

\* A process that ends by itself, a worker after any signal or a server after
\* SIGINT, has carried out the run under way and every run that it answered
\* "started" to; one that ends, by itself or by SIGTERM, leaves neither the lock
\* nor the mesh taken, though nothing in the code gives them back when it is
\* killed (server.py:56-60, worker.py:100-107, router.py:92-94).
ExitLeavesNothing ==
    /\ process = "exited" => job = NoJob /\ trigger = [step |-> "none", queued |-> 0]
    /\ process \in {"exited", "killed"} => lock \notin {"sync", "trigger"} /\ writer = None
=============================================================================
