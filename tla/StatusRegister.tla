-------------------------- MODULE StatusRegister --------------------------
(***************************************************************************)
(* What cli/status.py promises its callers: "process-safe" (status.py:1).  *)
(* The status is one register.  Every record_* call that returns has       *)
(* changed it once, in one indivisible step between its call and its       *)
(* return; every getter returns the value the register had at one instant  *)
(* of the call.  A call that raises has changed nothing.  There are two    *)
(* losses, and both are total: a process that dies inside a record_* call  *)
(* leaves the register as it was, as the call would have left it, or       *)
(* empty; and a record_* call on a full disk may empty it.                 *)
(***************************************************************************)
CONSTANTS Process,         \* command line, worker, API server
          Operation,       \* the calls of the public API
          Empty,           \* the default structure
          IsUpdate(_),     \* record_* as opposed to get_*
          Apply(_, _)      \* the value after an update of a value

VARIABLES value,           \* the status on disk, as its readers see it
          call             \* per process: the call under way, its phase, its answer

vars == <<value, call>>

Said(what) == [said |-> what]
Value(v) == [said |-> "value", data |-> v]

Idle == [phase |-> "idle"]

Init ==
    /\ value = Empty
    /\ call = [p \in Process |-> Idle]

\* A process calls record_* or get_*.
Invoke(p, op) ==
    /\ call[p].phase = "idle"
    /\ call' = [call EXCEPT ![p] = [phase |-> "pending", op |-> op]]
    /\ UNCHANGED value

\* The update happens, at once; on a full disk it empties the register.
Update(p) ==
    /\ call[p].phase = "pending"
    /\ IsUpdate(call[p].op)
    /\ value' \in {Apply(call[p].op, value), Empty}
    /\ call' = [call EXCEPT ![p] = [phase |-> "done", op |-> @.op, answer |-> Said("stored")]]

\* A write that raises changes nothing.
Fail(p) ==
    /\ call[p].phase = "pending"
    /\ IsUpdate(call[p].op)
    /\ call' = [call EXCEPT ![p] = [phase |-> "done", op |-> @.op, answer |-> Said("failed")]]
    /\ UNCHANGED value

\* A getter sees the value of this instant.
Observe(p) ==
    /\ call[p].phase = "pending"
    /\ ~IsUpdate(call[p].op)
    /\ call' = [call EXCEPT ![p] = [phase |-> "done", op |-> @.op, answer |-> Value(value)]]
    /\ UNCHANGED value

Return(p) ==
    /\ call[p].phase = "done"
    /\ call' = [call EXCEPT ![p] = Idle]
    /\ UNCHANGED value

\* The process dies: a pending update may have happened, or torn the file.
Die(p) ==
    /\ call[p].phase \in {"pending", "done"}
    /\ call' = [call EXCEPT ![p] = [phase |-> "dead"]]
    /\ \/ UNCHANGED value
       \/ /\ call[p].phase = "pending"
          /\ IsUpdate(call[p].op)
          /\ value' \in {Apply(call[p].op, value), Empty}

Next ==
    \E p \in Process :
        \/ \E op \in Operation : Invoke(p, op)
        \/ Update(p)
        \/ Fail(p)
        \/ Observe(p)
        \/ Return(p)
        \/ Die(p)

Spec == Init /\ [][Next]_vars
=============================================================================
