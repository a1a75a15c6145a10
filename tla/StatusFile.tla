---------------------------- MODULE StatusFile ----------------------------
(***************************************************************************)
(* status.json as cli/status.py keeps it: one file, an advisory flock on   *)
(* its descriptor (shared to read, exclusive to update), and an update     *)
(* that reads, changes the parsed data in memory, writes it over the file  *)
(* from offset 0 and only then cuts the file to the new length.  A process *)
(* may die between any two system calls; the kernel then closes the        *)
(* descriptor, which gives the lock back.                                  *)
(*                                                                         *)
(* Abstracted: time stamps, durations, row counts and the wording of       *)
(* errors; a file over the 1 MB that os.read is asked for.                 *)
(* MCData extends this module beside OAuthToken: hence StatusInit etc.     *)
(***************************************************************************)
EXTENDS Naturals, FiniteSets

CONSTANTS Process, Stage, Source,
          MaxCalls          \* bound: calls that all processes together make

None == "none"

StatusAssumption == None \notin Process /\ MaxCalls \in Nat

----------------------------------------------------------------------------
(* The data, and what each call of the public API makes of it. *)

Absent == [status |-> "absent", error |-> FALSE, stats |-> FALSE]

Entry == [status : {"absent", "running", "ok", "fail"}, error : BOOLEAN, stats : BOOLEAN]

Data == [stages : [Stage -> Entry], freshness : SUBSET Source,
         baseline : BOOLEAN, full : BOOLEAN]

Default == [stages |-> [s \in Stage |-> Absent], freshness |-> {},
            baseline |-> FALSE, full |-> FALSE]

Operation == [kind : {"start", "done", "fail"}, on : Stage]
                \cup [kind : {"freshness"}, on : Source]
                \cup [kind : {"baseline", "get"}, on : {None}]

IsUpdate(op) == op.kind # "get"

\* record_start puts a new entry in the place of the old one.
RecordStart(s, d) ==
    [d EXCEPT !.stages[s] = [status |-> "running", error |-> FALSE, stats |-> FALSE]]

\* record_done and record_fail update the entry: what they do not name stays.
RecordDone(s, d) ==
    [d EXCEPT !.stages[s] = [@ EXCEPT !.status = "ok", !.stats = TRUE],
              !.full = @ \/ s = "load"]

RecordFail(s, d) ==
    [d EXCEPT !.stages[s] = [@ EXCEPT !.status = "fail", !.error = TRUE]]

RecordFreshness(src, d) == [d EXCEPT !.freshness = @ \cup {src}]

RecordCoverageBaseline(d) == [d EXCEPT !.baseline = TRUE]

Apply(op, d) ==
    CASE op.kind = "start"     -> RecordStart(op.on, d)
      [] op.kind = "done"      -> RecordDone(op.on, d)
      [] op.kind = "fail"      -> RecordFail(op.on, d)
      [] op.kind = "freshness" -> RecordFreshness(op.on, d)
      [] op.kind = "baseline"  -> RecordCoverageBaseline(d)
      [] OTHER                 -> d

\* Can the text that op writes be shorter than what is in the file?  Only
\* when it replaces something; a file that did not parse may have any length.
MayShrink(op, f) ==
    \/ f.text # "whole"
    \/ op.kind \in {"start", "done", "fail"} /\ f.data.stages[op.on] # Absent
    \/ op.kind = "freshness" /\ op.on \in f.data.freshness
    \/ op.kind = "baseline" /\ f.data.baseline

----------------------------------------------------------------------------

VARIABLES
    file,   \* exists; the data last written; its text: whole, followed by the
            \* tail of an older one, or cut short by a full disk
    owner,  \* the process with the exclusive flock, or None
    shared, \* the processes with a shared flock
    pc,     \* per process: where in the call it is
    op,     \* per process: the call
    base,   \* per process: what the update parsed
    answer, \* per process: what the call returns
    calls   \* calls made so far, up to MaxCalls

statusVars == <<file, owner, shared, pc, op, base, answer, calls>>

\* What json.loads makes of the file: an empty or a torn one is the default.
Parse(f) == IF f.text = "whole" THEN f.data ELSE Default

Get == [kind |-> "get", on |-> None]

Said(what) == [said |-> what]
Value(d) == [said |-> "value", data |-> d]

StatusInit ==
    /\ file = [exists |-> FALSE, data |-> Default, text |-> "whole"]
    /\ owner = None
    /\ shared = {}
    /\ pc = [p \in Process |-> "idle"]
    /\ op = [p \in Process |-> Get]
    /\ base = [p \in Process |-> Default]
    /\ answer = [p \in Process |-> Said("nothing")]
    /\ calls = 0

Goto(p, l) == pc' = [pc EXCEPT ![p] = l]

Call(p, o) ==
    /\ pc[p] = "idle" /\ calls < MaxCalls
    /\ calls' = calls + 1
    /\ op' = [op EXCEPT ![p] = o]
    /\ Goto(p, "open")
    /\ UNCHANGED <<file, owner, shared, base, answer>>

\* os.open: an update creates the file, a getter answers the default without it.
OpenFile(p) ==
    /\ pc[p] = "open"
    /\ \/ /\ IsUpdate(op[p])
          /\ file' = [file EXCEPT !.exists = TRUE]
          /\ Goto(p, "lock")
          /\ UNCHANGED answer
       \/ /\ ~IsUpdate(op[p]) /\ file.exists
          /\ Goto(p, "lock")
          /\ UNCHANGED <<file, answer>>
       \/ /\ ~IsUpdate(op[p]) /\ ~file.exists
          /\ answer' = [answer EXCEPT ![p] = Value(Default)]
          /\ Goto(p, "return")
          /\ UNCHANGED file
    /\ UNCHANGED <<owner, shared, op, base, calls>>

\* Mutant: no lock, as where fcntl is missing.
NoFlock(p) ==
    /\ pc[p] = "lock"
    /\ Goto(p, "read")
    /\ UNCHANGED <<file, owner, shared, op, base, answer, calls>>

\* fcntl.flock, exclusive for an update and shared for a getter.
Flock(p) ==
    /\ pc[p] = "lock"
    /\ owner = None
    /\ \/ /\ IsUpdate(op[p]) /\ shared = {}
          /\ owner' = p
          /\ UNCHANGED shared
       \/ /\ ~IsUpdate(op[p])
          /\ shared' = shared \cup {p}
          /\ UNCHANGED owner
    /\ Goto(p, "read")
    /\ UNCHANGED <<file, op, base, answer, calls>>

\* os.read and json.loads of an update: the data it will change.
ReadForUpdate(p) ==
    /\ pc[p] = "read" /\ IsUpdate(op[p])
    /\ base' = [base EXCEPT ![p] = Parse(file)]
    /\ Goto(p, "write")
    /\ UNCHANGED <<file, owner, shared, op, answer, calls>>

\* os.read and json.loads of a getter: its answer.
ReadForGet(p) ==
    /\ pc[p] = "read" /\ ~IsUpdate(op[p])
    /\ answer' = [answer EXCEPT ![p] = Value(Parse(file))]
    /\ Goto(p, "close")
    /\ UNCHANGED <<file, owner, shared, op, base, calls>>

\* os.write of the new text over the old one, which may be longer.  Its count
\* is not looked at: a disk that fills up takes only the start of the text.
Write(p) ==
    /\ pc[p] = "write"
    /\ \E t \in {"whole", "short"} \cup {x \in {"tail"} : MayShrink(op[p], file)} :
          file' = [exists |-> TRUE, data |-> Apply(op[p], base[p]), text |-> t]
    /\ Goto(p, "truncate")
    /\ UNCHANGED <<owner, shared, op, base, answer, calls>>

\* os.write raises: the call fails, the file is as it was.
WriteFails(p) ==
    /\ pc[p] = "write"
    /\ answer' = [answer EXCEPT ![p] = Said("failed")]
    /\ Goto(p, "close")
    /\ UNCHANGED <<file, owner, shared, op, base, calls>>

\* os.ftruncate to the length of the new text cuts a tail, and mends no more.
Truncate(p) ==
    /\ pc[p] = "truncate"
    /\ file' = [file EXCEPT !.text = IF @ = "tail" THEN "whole" ELSE @]
    /\ answer' = [answer EXCEPT ![p] = Said("stored")]
    /\ Goto(p, "close")
    /\ UNCHANGED <<owner, shared, op, base, calls>>

Unlock(p) ==
    /\ owner' = IF owner = p THEN None ELSE owner
    /\ shared' = shared \ {p}

\* os.close gives the lock back.
CloseFile(p) ==
    /\ pc[p] = "close"
    /\ Unlock(p)
    /\ Goto(p, "return")
    /\ UNCHANGED <<file, op, base, answer, calls>>

Return(p) ==
    /\ pc[p] = "return"
    /\ Goto(p, "idle")
    /\ UNCHANGED <<file, owner, shared, op, base, answer, calls>>

\* The process is killed inside the call.
Crash(p) ==
    /\ pc[p] \notin {"idle", "dead"}
    /\ Unlock(p)
    /\ Goto(p, "dead")
    /\ UNCHANGED <<file, op, base, answer, calls>>

StatusStep(p) ==
    \/ \E o \in Operation : Call(p, o)
    \/ OpenFile(p) \/ Flock(p)
    \/ ReadForUpdate(p) \/ ReadForGet(p)
    \/ Write(p) \/ WriteFails(p) \/ Truncate(p)
    \/ CloseFile(p) \/ Return(p)
    \/ Crash(p)

StatusNext == \E p \in Process : StatusStep(p)

StatusSpec == StatusInit /\ [][StatusNext]_statusVars

----------------------------------------------------------------------------

StatusTypeOK ==
    /\ file \in [exists : BOOLEAN, data : Data, text : {"whole", "tail", "short"}]
    /\ owner \in Process \cup {None}
    /\ shared \in SUBSET Process
    /\ pc \in [Process -> {"idle", "open", "lock", "read", "write", "truncate",
                           "close", "return", "dead"}]
    /\ op \in [Process -> Operation]
    /\ base \in [Process -> Data]
    /\ answer \in [Process -> [said : {"nothing", "stored", "failed"}]
                              \cup [said : {"value"}, data : Data]]
    /\ calls \in 0 .. MaxCalls

\* The register that the file stands for: between write and ftruncate the update
\* has not happened yet.
Committed ==
    IF owner # None /\ pc[owner] = "truncate" THEN base[owner] ELSE Parse(file)

CallOf(p) ==
    CASE pc[p] = "idle" -> [phase |-> "idle"]
      [] pc[p] = "dead" -> [phase |-> "dead"]
      [] pc[p] \in {"close", "return"} ->
            [phase |-> "done", op |-> op[p], answer |-> answer[p]]
      [] OTHER -> [phase |-> "pending", op |-> op[p]]

Register == INSTANCE StatusRegister WITH
    Empty <- Default, value <- Committed, call <- [p \in Process |-> CallOf(p)]

\* The file, its lock and its torn writes together behave as one register:
\* no update is lost by two processes that record at the same time, no
\* getter sees half a text, and only a process that dies inside an update,
\* or a disk that is full, can empty the status, and then all of it
\* (_lock_and_update and _read, status.py:37-75).
ImplementsRegister == Register!Spec
=============================================================================
