----------------------------- MODULE Streaming -----------------------------
(***************************************************************************)
(* run_streaming (cli/streaming.py): a caller starts a child whose output  *)
(* goes into a pipe, a daemon thread reads the pipe line by line, and the  *)
(* caller waits for the child with a limit and then for the reader without *)
(* one.  The child may start a process of its own, which inherits the      *)
(* pipe and which nobody kills.                                            *)
(*                                                                         *)
(* Abstracted: the lines (a count of them tells a lost one), the terminal  *)
(* and the log they are copied to, the time that the limit is about.       *)
(* MCService extends this module beside Service: hence StreamInit etc.     *)
(***************************************************************************)
EXTENDS Naturals

CONSTANTS Capacity,    \* lines that fit into the pipe
          MaxLines,    \* bound: lines written in all
          MaxAlarms    \* bound: KeyboardInterrupts

StreamingAssumption ==
    /\ Capacity \in Nat \ {0} /\ MaxLines \in Nat /\ MaxAlarms \in Nat

VARIABLES
    caller,  \* where run_streaming is, or how it ended
    child,   \* "none", "running", "zombie" until somebody waits for it, "reaped"
    code,    \* did the child exit with 0?
    helper,  \* the process that the child started: "none", "alive", "dead"
    pipe,    \* lines in the pipe
    written, \* lines written, by both
    reader,  \* "none", "reading", "ended" at the end of the file, "failed"
    lines,   \* len(output_lines)
    alarms   \* KeyboardInterrupts so far

streamVars == <<caller, child, code, helper, pipe, written, reader, lines, alarms>>

Returned == "returned"
Ends == {Returned, "failed", "timed out", "interrupted", "abandoned", "not started"}

StreamInit ==
    /\ caller = "start" /\ child = "none" /\ code = TRUE /\ helper = "none"
    /\ pipe = 0 /\ written = 0
    /\ reader = "none" /\ lines = 0 /\ alarms = 0

----------------------------------------------------------------------------
(* The caller. *)

\* subprocess.Popen, which raises when there is no such command.
Popen ==
    /\ caller = "start"
    /\ \/ child' = "running" /\ caller' = "popened"
       \/ caller' = "not started" /\ UNCHANGED child
    /\ UNCHANGED <<code, helper, pipe, written, reader, lines, alarms>>

\* reader.start(); a thread that cannot be started raises.
StartReader ==
    /\ caller = "popened"
    /\ \/ reader' = "reading" /\ caller' = "waiting"
       \/ caller' = "except" /\ UNCHANGED reader
    /\ UNCHANGED <<child, code, helper, pipe, written, lines, alarms>>

\* process.wait(timeout) sees that the child has exited.
WaitReturns ==
    /\ caller = "waiting" /\ child = "zombie"
    /\ child' = "reaped"
    /\ caller' = "joining"
    /\ UNCHANGED <<code, helper, pipe, written, reader, lines, alarms>>

\* Mutant: process.wait() without a limit.
WaitUnlimited == caller = "waiting" /\ FALSE /\ UNCHANGED streamVars

\* The limit passes; the child may have exited since wait looked last.
WaitExpires ==
    /\ caller = "waiting"
    /\ caller' = "except timeout"
    /\ UNCHANGED <<child, code, helper, pipe, written, reader, lines, alarms>>

\* Mutant: the reader is not joined.
ReturnWithoutJoin ==
    /\ caller = "joining"
    /\ caller' = IF code THEN Returned ELSE "failed"
    /\ UNCHANGED <<child, code, helper, pipe, written, reader, lines, alarms>>

\* reader.join() has no limit; a reader that died of an exception has ended too.
JoinReturns ==
    /\ caller = "joining" /\ reader \in {"ended", "failed"}
    /\ caller' = IF code THEN Returned ELSE "failed"
    /\ UNCHANGED <<child, code, helper, pipe, written, reader, lines, alarms>>

\* process.kill(), in either handler.  A child that was waited for is let be.
Kill ==
    /\ caller \in {"except", "except timeout"}
    /\ child' = IF child = "running" THEN "zombie" ELSE child
    /\ code' = IF child = "running" THEN FALSE ELSE code
    /\ caller' = IF caller = "except" THEN "reaping" ELSE "reaping timeout"
    /\ UNCHANGED <<helper, pipe, written, reader, lines, alarms>>

\* process.wait() after it, and the exception.
Reap ==
    /\ caller \in {"reaping", "reaping timeout"} /\ child \in {"zombie", "reaped"}
    /\ child' = "reaped"
    /\ caller' = IF caller = "reaping" THEN "interrupted" ELSE "timed out"
    /\ UNCHANGED <<code, helper, pipe, written, reader, lines, alarms>>

\* Ctrl-C: "except BaseException" covers the waits, and nothing covers a
\* handler, nor the lines between Popen and the try.
Interrupt ==
    /\ alarms < MaxAlarms
    /\ \/ caller \in {"popened", "waiting", "joining"} /\ caller' = "except"
       \/ caller \in {"popened", "except", "except timeout", "reaping", "reaping timeout"}
          /\ caller' = "abandoned"
    /\ alarms' = alarms + 1
    /\ UNCHANGED <<child, code, helper, pipe, written, reader, lines>>

----------------------------------------------------------------------------
(* The reader thread. *)

\* for raw_line in out: output_lines.append.
ReadLine ==
    /\ reader = "reading" /\ pipe > 0
    /\ pipe' = pipe - 1 /\ lines' = lines + 1
    /\ UNCHANGED <<caller, child, code, helper, written, reader, alarms>>

\* A line that does not decode ends the thread, and the pipe stays open.
ReadFails ==
    /\ reader = "reading" /\ pipe > 0
    /\ reader' = "failed"
    /\ UNCHANGED <<caller, child, code, helper, pipe, written, lines, alarms>>

\* End of file: the pipe is empty and nobody can write to it any more.
ReadEnds ==
    /\ reader = "reading" /\ pipe = 0 /\ child # "running" /\ helper # "alive"
    /\ reader' = "ended"
    /\ UNCHANGED <<caller, child, code, helper, pipe, written, lines, alarms>>

----------------------------------------------------------------------------
(* The child and its helper: what they do is up to the command. *)

WriteLine ==
    /\ child = "running" \/ helper = "alive"
    /\ pipe < Capacity /\ written < MaxLines
    /\ pipe' = pipe + 1 /\ written' = written + 1
    /\ UNCHANGED <<caller, child, code, helper, reader, lines, alarms>>

StartHelper ==
    /\ child = "running" /\ helper = "none"
    /\ helper' = "alive"
    /\ UNCHANGED <<caller, child, code, pipe, written, reader, lines, alarms>>

ChildExits ==
    /\ child = "running"
    /\ child' = "zombie" /\ code' \in BOOLEAN
    /\ UNCHANGED <<caller, helper, pipe, written, reader, lines, alarms>>

HelperExits ==
    /\ helper = "alive"
    /\ helper' = "dead"
    /\ UNCHANGED <<caller, child, code, pipe, written, reader, lines, alarms>>

----------------------------------------------------------------------------

Call == Popen \/ StartReader \/ WaitReturns \/ WaitExpires \/ JoinReturns \/ Kill \/ Reap

Read == ReadLine \/ ReadFails \/ ReadEnds

StreamNext ==
    \/ Popen \/ StartReader \/ WaitReturns \/ WaitExpires
    \/ JoinReturns \/ Kill \/ Reap \/ Interrupt
    \/ ReadLine \/ ReadFails \/ ReadEnds
    \/ WriteLine \/ StartHelper \/ ChildExits \/ HelperExits

\* The caller and its thread go on when they can; the command may do anything,
\* and need not end.
StreamFairness == WF_streamVars(Call) /\ WF_streamVars(Read)

StreamSpec == StreamInit /\ [][StreamNext]_streamVars /\ StreamFairness

----------------------------------------------------------------------------

StreamTypeOK ==
    /\ caller \in Ends \cup {"start", "popened", "waiting", "joining", "except",
                             "except timeout", "reaping", "reaping timeout"}
    /\ child \in {"none", "running", "zombie", "reaped"}
    /\ code \in BOOLEAN
    /\ helper \in {"none", "alive", "dead"}
    /\ pipe \in 0 .. Capacity /\ written \in 0 .. MaxLines /\ lines \in 0 .. MaxLines
    /\ reader \in {"none", "reading", "ended", "failed"}
    /\ alarms \in 0 .. MaxAlarms

\* However run_streaming ends, a child it started has exited and was waited for,
\* unless a Ctrl-C struck outside the try or in a handler (streaming.py:66-110);
\* and when it returns, output_lines has every line that the child and its
\* helper will ever have written, unless the reader thread died of one of them.
EndMeansDone ==
    /\ caller \in Ends \ {"abandoned", "not started"} => child = "reaped"
    /\ caller = Returned /\ reader # "failed" => lines = written /\ helper # "alive"

\* run_streaming ends, whatever the child does: the limit sees to that.  Only
\* a helper that outlives the child and keeps the pipe can hold it up for ever
\* in the join after a child that exited in time (streaming.py:96-97).
CallEnds == <>(caller \in Ends) \/ <>[](caller = "joining" /\ helper = "alive")
=============================================================================
