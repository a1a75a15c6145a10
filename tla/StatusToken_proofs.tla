------------------------- MODULE StatusToken_proofs -------------------------
(***************************************************************************)
(* Proofs about the two files that several processes write: that           *)
(* status.json with its flock implements StatusRegister, for any number of *)
(* processes, stages, sources and calls; and, for any number of processes, *)
(* any lifetime and any margin that covers the delay of a reply, that what *)
(* get_headers believes is true and that the refresh token is kept.        *)
(***************************************************************************)
EXTENDS StatusFile, OAuthToken, TLAPS

----------------------------------------------------------------------------
(* The status file.                                                        *)

StatusPoints == {"idle", "open", "lock", "read", "write", "truncate", "close", "return", "dead"}

\* What the proof needs of the types.
StatusShape ==
  /\ pc \in [Process -> StatusPoints]
  /\ op \in [Process -> Operation]
  /\ DOMAIN base = Process /\ DOMAIN answer = Process
  /\ owner \in Process \cup {None} /\ shared \subseteq Process

\* The lock excludes: an update owns it, a getter shares it.
Locked ==
  /\ \A p \in Process :
       /\ pc[p] \in {"read", "write", "truncate"} /\ IsUpdate(op[p]) => owner = p
       /\ owner = p => IsUpdate(op[p]) /\ pc[p] \in {"read", "write", "truncate", "close"}
       /\ pc[p] = "read" /\ ~IsUpdate(op[p]) => p \in shared
       /\ pc[p] \in {"write", "truncate"} => IsUpdate(op[p])
  /\ owner # None => shared = {}

\* An update writes what it makes of the data it read, and nobody wrote since.
Based ==
  \A p \in Process :
    /\ pc[p] = "write" => base[p] = Parse(file)
    /\ pc[p] = "truncate" => file.data = Apply(op[p], base[p])

\* Before its first update there is no file, and nobody has it open.
Unborn ==
  ~file.exists => /\ Parse(file) = Default
                  /\ \A p \in Process : pc[p] \notin {"lock", "read", "write", "truncate"}

Fields == file = [exists |-> file.exists, data |-> file.data, text |-> file.text]

\* The inductive invariant.
StatusInv == StatusShape /\ Locked /\ Based /\ Unborn /\ Fields

LEMMA InitStatus == ASSUME StatusAssumption PROVE StatusInit => StatusInv
<1> SUFFICES ASSUME StatusInit PROVE StatusInv
  OBVIOUS
<1>1. StatusShape
  BY DEF StatusInit, StatusShape, StatusPoints, Operation, Get
<1>2. Locked
  BY DEF StatusInit, Locked, StatusAssumption
<1>3. Based /\ Unborn /\ Fields
  BY DEF StatusInit, Based, Unborn, Parse, Fields
<1> QED
  BY <1>1, <1>2, <1>3 DEF StatusInv

----------------------------------------------------------------------------
(* The invariant is inductive. *)

\* Steps that leave the file and the data alone.
LEMMA QuietStatus ==
  ASSUME StatusAssumption, StatusInv, NEW p \in Process,
         \/ \E o \in Operation : Call(p, o)
         \/ Flock(p) \/ ReadForGet(p) \/ WriteFails(p) \/ CloseFile(p) \/ Return(p) \/ Crash(p)
  PROVE  StatusInv'
<1> USE DEF StatusInv, StatusShape, Locked, Based, Unborn, Fields, StatusPoints, StatusAssumption
<1>1. CASE \E o \in Operation : Call(p, o)
  BY <1>1 DEF Call, Goto, Parse
<1>2. CASE Flock(p)
  BY <1>2 DEF Flock, Goto, Parse
<1>3. CASE ReadForGet(p)
  BY <1>3 DEF ReadForGet, Goto, Parse
<1>4. CASE WriteFails(p)
  BY <1>4 DEF WriteFails, Goto, Parse
<1>5. CASE CloseFile(p)
  BY <1>5 DEF CloseFile, Goto, Unlock, Parse
<1>6. CASE Return(p)
  BY <1>6 DEF Return, Goto, Parse
<1>7. CASE Crash(p)
  BY <1>7 DEF Crash, Goto, Unlock, Parse
<1> HIDE DEF StatusInv
<1> QED
  BY <1>1, <1>2, <1>3, <1>4, <1>5, <1>6, <1>7

\* Opening creates an empty file, which parses to the default.
LEMMA OpenStatus ==
  ASSUME StatusAssumption, StatusInv, NEW p \in Process, OpenFile(p)
  PROVE  StatusInv'
<1>1. Parse(file)' = Parse(file) /\ file'.data = file.data /\ (file.exists => file'.exists)
  BY DEF StatusInv, Fields, OpenFile, Parse
<1>2. StatusShape' /\ Locked'
  BY DEF StatusInv, StatusShape, Locked, OpenFile, Goto, StatusPoints, StatusAssumption
<1>3. Based'
  BY <1>1 DEF StatusInv, StatusShape, Based, OpenFile, Goto
<1>4. ASSUME file.exists PROVE Unborn'
  BY <1>1, <1>4 DEF Unborn
<1>5. ASSUME ~file.exists, IsUpdate(op[p]) PROVE Unborn'
  <2>1. file'.exists
    BY <1>5 DEF StatusInv, Fields, OpenFile
  <2> QED
    BY <2>1 DEF Unborn
<1>6. ASSUME ~file.exists, ~IsUpdate(op[p]) PROVE Unborn'
  BY <1>1, <1>6 DEF StatusInv, StatusShape, Unborn, OpenFile, Goto
<1>7. Fields'
  BY DEF StatusInv, Fields, OpenFile
<1> QED
  BY <1>2, <1>3, <1>4, <1>5, <1>6, <1>7 DEF StatusInv

\* Only the owner of the lock reads to write, writes and truncates: for the
\* others nothing changes that they have read.
LEMMA UpdateStatus ==
  ASSUME StatusAssumption, StatusInv, NEW p \in Process,
         ReadForUpdate(p) \/ Write(p) \/ Truncate(p)
  PROVE  StatusInv'
<1>1. StatusShape' /\ Locked' /\ Unborn' /\ Fields'
  BY DEF StatusInv, StatusShape, Locked, Unborn, Fields, ReadForUpdate, Write, Truncate, Goto, StatusPoints,
         Parse, StatusAssumption
<1>2. \A q \in Process \ {p} : pc'[q] \notin {"write", "truncate"}
  BY DEF StatusInv, StatusShape, Locked, ReadForUpdate, Write, Truncate, Goto
<1>3. ASSUME ReadForUpdate(p) PROVE Based'
  BY <1>2, <1>3 DEF StatusInv, StatusShape, Based, ReadForUpdate, Goto, Parse
<1>4. ASSUME Write(p) PROVE Based'
  BY <1>2, <1>4 DEF StatusInv, StatusShape, Based, Write, Goto
<1>5. ASSUME Truncate(p) PROVE Based'
  BY <1>2, <1>5 DEF StatusInv, StatusShape, Based, Truncate, Goto
<1> QED
  BY <1>1, <1>3, <1>4, <1>5 DEF StatusInv

LEMMA NextStatus == ASSUME StatusAssumption PROVE StatusInv /\ [StatusNext]_statusVars => StatusInv'
<1> SUFFICES ASSUME StatusInv, [StatusNext]_statusVars PROVE StatusInv'
  OBVIOUS
<1>1. ASSUME NEW p \in Process, StatusStep(p) PROVE StatusInv'
  BY <1>1, QuietStatus, OpenStatus, UpdateStatus DEF StatusStep
<1>2. CASE UNCHANGED statusVars
  BY <1>2 DEF statusVars, StatusInv, StatusShape, Locked, Based, Unborn, Fields, Parse
<1> QED
  BY <1>1, <1>2 DEF StatusNext

----------------------------------------------------------------------------
(* Every step is a step of the register, or none.                          *)

\* Where an update stands before its ftruncate, the register has the data that
\* it read; elsewhere it has what the file says.
LEMMA CommittedValue ==
  ASSUME StatusAssumption, StatusInv
  PROVE  /\ \A p \in Process : pc[p] = "truncate" => Committed = base[p]
         /\ (\A p \in Process : pc[p] # "truncate") => Committed = Parse(file)
<1>1. \A p \in Process : pc[p] = "truncate" => owner = p /\ owner # None
  BY DEF StatusInv, Locked, StatusAssumption
<1>2. owner = None \/ owner \in Process
  BY DEF StatusInv, StatusShape
<1> QED
  BY <1>1, <1>2 DEF Committed

\* While one process is in its critical section, no other is.
LEMMA Alone ==
  ASSUME StatusAssumption, StatusInv, NEW p \in Process,
         \/ pc[p] \in {"write", "truncate"}
         \/ pc[p] = "read"
  PROVE  \A q \in Process \ {p} : pc[q] # "truncate" /\ (owner = q => FALSE)
  BY DEF StatusInv, Locked, StatusAssumption, StatusShape

\* A step of p is a step of its own call, and of no other.
LEMMA OwnCall ==
  ASSUME StatusInv, NEW p \in Process, StatusStep(p)
  PROVE  [q \in Process |-> CallOf(q)]' = [[q \in Process |-> CallOf(q)] EXCEPT ![p] = CallOf(p)']
<1>1. \A q \in Process \ {p} : /\ pc'[q] = pc[q] /\ op'[q] = op[q] /\ answer'[q] = answer[q]
  BY DEF StatusInv, StatusShape, StatusStep, Call, OpenFile, Flock, ReadForUpdate, ReadForGet, Write, WriteFails,
         Truncate, CloseFile, Return, Crash, Goto
<1>2. \A q \in Process \ {p} : CallOf(q)' = CallOf(q)
  BY <1>1 DEF CallOf
<1> QED
  BY <1>2

\* Outside write and ftruncate the register keeps its value.
LEMMA KeepsValue ==
  ASSUME StatusAssumption, StatusInv, StatusInv', NEW p \in Process,
         \/ \E o \in Operation : Call(p, o)
         \/ OpenFile(p) \/ Flock(p) \/ ReadForUpdate(p) \/ ReadForGet(p)
         \/ WriteFails(p) \/ CloseFile(p) \/ Return(p)
  PROVE  Committed' = Committed
<1>1. Parse(file)' = Parse(file)
  BY DEF StatusInv, Fields, Call, OpenFile, Flock, ReadForUpdate, ReadForGet, WriteFails,
         CloseFile, Return, Parse
<1>2. \A q \in Process : pc'[q] = "truncate" <=> pc[q] = "truncate"
  BY DEF StatusInv, StatusShape, Call, OpenFile, Flock, ReadForUpdate, ReadForGet, WriteFails, CloseFile, Return, Goto
<1>3. \A q \in Process : pc[q] = "truncate" => base'[q] = base[q]
  BY DEF StatusInv, StatusShape, Call, OpenFile, Flock, ReadForUpdate, ReadForGet, WriteFails, CloseFile, Return
<1>4. /\ \A q \in Process : pc'[q] = "truncate" => Committed' = base'[q]
      /\ (\A q \in Process : pc'[q] # "truncate") => Committed' = Parse(file)'
  <2>1. /\ \A q \in Process : pc'[q] = "truncate" => owner' = q /\ owner' # None
        /\ owner' = None \/ owner' \in Process
    BY DEF StatusInv, Locked, StatusShape, StatusAssumption
  <2> QED
    BY <2>1 DEF Committed
<1> QED
  BY <1>1, <1>2, <1>3, <1>4, CommittedValue

LEMMA CallStep ==
  ASSUME StatusAssumption, StatusInv, StatusInv', NEW p \in Process, NEW o \in Operation, Call(p, o)
  PROVE  Register!Invoke(p, o)
<1>1. Committed' = Committed
  BY KeepsValue
<1>2. [q \in Process |-> CallOf(q)]' = [[q \in Process |-> CallOf(q)] EXCEPT ![p] = CallOf(p)']
  BY OwnCall DEF StatusStep
<1>3. CallOf(p).phase = "idle" /\ CallOf(p)' = [phase |-> "pending", op |-> o]
  BY DEF StatusInv, StatusShape, Call, Goto, CallOf
<1> QED
  BY <1>1, <1>2, <1>3 DEF Register!Invoke

\* Flock, the read of an update and close are invisible to the caller.
LEMMA SilentStep ==
  ASSUME StatusAssumption, StatusInv, StatusInv', NEW p \in Process,
         Flock(p) \/ ReadForUpdate(p) \/ CloseFile(p) \/ (OpenFile(p) /\ (IsUpdate(op[p]) \/ file.exists))
  PROVE  UNCHANGED <<Committed, [q \in Process |-> CallOf(q)]>>
<1>1. Committed' = Committed
  BY KeepsValue
<1>2. [q \in Process |-> CallOf(q)]' = [[q \in Process |-> CallOf(q)] EXCEPT ![p] = CallOf(p)']
  BY OwnCall DEF StatusStep
<1>3. CallOf(p)' = CallOf(p)
  BY DEF StatusInv, StatusShape, Flock, ReadForUpdate, CloseFile, OpenFile, Goto, CallOf
<1> QED
  BY <1>1, <1>2, <1>3

\* A getter answers what the register has: no update is in its middle, or there
\* is no file at all.
LEMMA ObserveStep ==
  ASSUME StatusAssumption, StatusInv, StatusInv', NEW p \in Process,
         ReadForGet(p) \/ (OpenFile(p) /\ ~IsUpdate(op[p]) /\ ~file.exists)
  PROVE  Register!Observe(p)
<1>1. Committed' = Committed
  BY KeepsValue
<1>2. [q \in Process |-> CallOf(q)]' = [[q \in Process |-> CallOf(q)] EXCEPT ![p] = CallOf(p)']
  BY OwnCall DEF StatusStep
<1>3. \A q \in Process : pc[q] # "truncate"
  <2>1. CASE ReadForGet(p)
    BY <2>1, Alone DEF ReadForGet
  <2>2. CASE ~file.exists
    BY <2>2 DEF StatusInv, Unborn
  <2> QED
    BY <2>1, <2>2
<1>4. Committed = Parse(file)
  BY <1>3, CommittedValue
<1>5. CallOf(p)' = [phase |-> "done", op |-> op[p], answer |-> Value(Committed)]
  BY <1>4 DEF StatusInv, StatusShape, Unborn, ReadForGet, OpenFile, Goto, CallOf
<1>6. CallOf(p) = [phase |-> "pending", op |-> op[p]] /\ ~IsUpdate(op[p])
  BY DEF ReadForGet, OpenFile, CallOf
<1>7. CallOf(p).op = op[p] /\ CallOf(p).phase = "pending" /\ [q \in Process |-> CallOf(q)][p] = CallOf(p)
  BY <1>6
<1>8. Register!Value(Committed) = Value(Committed)
  BY DEF Register!Value, Value
<1> QED
  BY <1>1, <1>2, <1>5, <1>6, <1>7, <1>8 DEF Register!Observe

LEMMA FailStep ==
  ASSUME StatusAssumption, StatusInv, StatusInv', NEW p \in Process, WriteFails(p)
  PROVE  Register!Fail(p)
<1>1. Committed' = Committed
  BY KeepsValue
<1>2. [q \in Process |-> CallOf(q)]' = [[q \in Process |-> CallOf(q)] EXCEPT ![p] = CallOf(p)']
  BY OwnCall DEF StatusStep
<1>3. CallOf(p)' = [phase |-> "done", op |-> op[p], answer |-> Said("failed")]
  BY DEF StatusInv, StatusShape, WriteFails, Goto, CallOf
<1>4. CallOf(p) = [phase |-> "pending", op |-> op[p]] /\ IsUpdate(op[p])
  BY DEF StatusInv, Locked, WriteFails, CallOf
<1>5. CallOf(p).op = op[p] /\ CallOf(p).phase = "pending" /\ [q \in Process |-> CallOf(q)][p] = CallOf(p)
  BY <1>4
<1>6. Register!Said("failed") = Said("failed")
  BY DEF Register!Said, Said
<1> QED
  BY <1>1, <1>2, <1>3, <1>4, <1>5, <1>6 DEF Register!Fail

LEMMA ReturnStep ==
  ASSUME StatusAssumption, StatusInv, StatusInv', NEW p \in Process, Return(p)
  PROVE  Register!Return(p)
<1>1. Committed' = Committed
  BY KeepsValue
<1>2. [q \in Process |-> CallOf(q)]' = [[q \in Process |-> CallOf(q)] EXCEPT ![p] = CallOf(p)']
  BY OwnCall DEF StatusStep
<1>3. CallOf(p).phase = "done" /\ CallOf(p)' = [phase |-> "idle"]
  BY DEF StatusInv, StatusShape, Return, Goto, CallOf
<1> QED
  BY <1>1, <1>2, <1>3 DEF Register!Return, Register!Idle

\* The bytes that are written count from the ftruncate on.
LEMMA WriteStep ==
  ASSUME StatusAssumption, StatusInv, StatusInv', NEW p \in Process, Write(p)
  PROVE  UNCHANGED <<Committed, [q \in Process |-> CallOf(q)]>>
<1>1. [q \in Process |-> CallOf(q)]' = [[q \in Process |-> CallOf(q)] EXCEPT ![p] = CallOf(p)']
  BY OwnCall DEF StatusStep
<1>2. CallOf(p)' = CallOf(p)
  BY DEF StatusInv, StatusShape, Write, Goto, CallOf
<1>3. Committed = Parse(file)
  BY Alone, CommittedValue DEF Write
<1>4. Committed' = base[p]
  BY DEF StatusInv, StatusShape, Locked, Write, Goto, Committed, StatusAssumption
<1>5. base[p] = Parse(file)
  BY DEF StatusInv, Based, Write
<1> QED
  BY <1>1, <1>2, <1>3, <1>4, <1>5

\* The ftruncate is where the update happens.
LEMMA TruncateStep ==
  ASSUME StatusAssumption, StatusInv, StatusInv', NEW p \in Process, Truncate(p)
  PROVE  Register!Update(p)
<1>1. [q \in Process |-> CallOf(q)]' = [[q \in Process |-> CallOf(q)] EXCEPT ![p] = CallOf(p)']
  BY OwnCall DEF StatusStep
<1>2. Committed = base[p]
  BY CommittedValue DEF Truncate
<1>3. Committed' = Parse(file)'
  <2>1. owner' = p /\ owner' \in Process /\ pc'[p] = "close" /\ p # None
    BY DEF StatusInv, StatusShape, Locked, Truncate, Goto, StatusAssumption
  <2> QED
    BY <2>1 DEF Committed
<1>4. Parse(file)' \in {Apply(op[p], base[p]), Default}
  BY DEF StatusInv, Based, Fields, Truncate, Parse
<1>5. CallOf(p)' = [phase |-> "done", op |-> op[p], answer |-> Said("stored")]
  BY DEF StatusInv, StatusShape, Truncate, Goto, CallOf
<1>6. CallOf(p) = [phase |-> "pending", op |-> op[p]] /\ IsUpdate(op[p])
  BY DEF StatusInv, Locked, Truncate, CallOf
<1>7. CallOf(p).op = op[p] /\ CallOf(p).phase = "pending" /\ [q \in Process |-> CallOf(q)][p] = CallOf(p)
  BY <1>6
<1>8. Register!Said("stored") = Said("stored")
  BY DEF Register!Said, Said
<1> QED
  BY <1>1, <1>2, <1>3, <1>4, <1>5, <1>6, <1>7, <1>8 DEF Register!Update

\* A process that dies between write and ftruncate has made its update, or torn
\* the file; anywhere else it leaves the register alone.
LEMMA CrashStep ==
  ASSUME StatusAssumption, StatusInv, StatusInv', NEW p \in Process, Crash(p)
  PROVE  Register!Die(p)
<1>1. [q \in Process |-> CallOf(q)]' = [[q \in Process |-> CallOf(q)] EXCEPT ![p] = CallOf(p)']
  BY OwnCall DEF StatusStep
<1>2. CallOf(p).phase \in {"pending", "done"} /\ CallOf(p)' = [phase |-> "dead"]
  BY DEF StatusInv, StatusShape, StatusPoints, Crash, Goto, CallOf
<1>3. \A q \in Process \ {p} : pc'[q] = pc[q] /\ (owner = q => owner' = q)
  BY DEF StatusInv, StatusShape, Crash, Goto, Unlock
<1>4. file' = file /\ base' = base /\ pc'[p] = "dead" /\ Parse(file)' = Parse(file)
  BY DEF StatusInv, StatusShape, Crash, Goto, Parse
<1>5. CASE pc[p] = "truncate"
  <2>1. Committed = base[p] /\ Committed' = Parse(file)
    <3>1. owner = p /\ owner' = None
      BY <1>5 DEF StatusInv, Locked, Crash, Unlock
    <3> QED
      BY <1>4, <1>5, <3>1, CommittedValue DEF Committed
  <2>2. Parse(file) \in {Apply(op[p], base[p]), Default}
    BY <1>5 DEF StatusInv, Based, Parse
  <2>3. CallOf(p) = [phase |-> "pending", op |-> op[p]] /\ IsUpdate(op[p])
    BY <1>5 DEF StatusInv, Locked, CallOf
  <2> QED
    BY <1>1, <1>2, <2>1, <2>2, <2>3 DEF Register!Die
<1>6. CASE pc[p] # "truncate"
  <2>1. \A q \in Process : (pc[q] = "truncate" <=> pc'[q] = "truncate")
    BY <1>3, <1>4, <1>6
  <2>2. /\ \A q \in Process : pc'[q] = "truncate" => Committed' = base'[q]
        /\ (\A q \in Process : pc'[q] # "truncate") => Committed' = Parse(file)'
    <3>1. /\ \A q \in Process : pc'[q] = "truncate" => owner' = q /\ owner' # None
          /\ owner' = None \/ owner' \in Process
      BY DEF StatusInv, Locked, StatusShape, StatusAssumption
    <3> QED
      BY <3>1 DEF Committed
  <2>3. Committed' = Committed
    BY <1>4, <2>1, <2>2, CommittedValue
  <2> QED
    BY <1>1, <1>2, <2>3 DEF Register!Die
<1> QED
  BY <1>5, <1>6

----------------------------------------------------------------------------

LEMMA InitRegister == ASSUME StatusAssumption PROVE StatusInit => Register!Init
<1> SUFFICES ASSUME StatusInit PROVE Register!Init
  OBVIOUS
<1>1. Committed = Default
  BY DEF StatusInit, Committed, Parse
<1>2. \A p \in Process : CallOf(p) = [phase |-> "idle"]
  BY DEF StatusInit, CallOf
<1> QED
  BY <1>1, <1>2 DEF Register!Init, Register!Idle

LEMMA StepRegister ==
  ASSUME StatusAssumption, StatusInv, StatusInv', [StatusNext]_statusVars
  PROVE  [Register!Next]_(Register!vars)
<1>1. ASSUME NEW p \in Process, NEW o \in Operation, Call(p, o) PROVE Register!Next
  BY <1>1, CallStep DEF Register!Next
<1>2. ASSUME NEW p \in Process, StatusStep(p), ~(\E o \in Operation : Call(p, o))
      PROVE  Register!Next \/ UNCHANGED Register!vars
  <2>1. CASE Flock(p) \/ ReadForUpdate(p) \/ CloseFile(p) \/ (OpenFile(p) /\ (IsUpdate(op[p]) \/ file.exists))
    BY <2>1, SilentStep DEF Register!vars
  <2>2. CASE ReadForGet(p) \/ (OpenFile(p) /\ ~IsUpdate(op[p]) /\ ~file.exists)
    BY <2>2, ObserveStep DEF Register!Next
  <2>3. CASE Write(p)
    BY <2>3, WriteStep DEF Register!vars
  <2>4. CASE WriteFails(p)
    BY <2>4, FailStep DEF Register!Next
  <2>5. CASE Truncate(p)
    BY <2>5, TruncateStep DEF Register!Next
  <2>6. CASE Return(p)
    BY <2>6, ReturnStep DEF Register!Next
  <2>7. CASE Crash(p)
    BY <2>7, CrashStep DEF Register!Next
  <2> QED
    BY <1>2, <2>1, <2>2, <2>3, <2>4, <2>5, <2>6, <2>7 DEF StatusStep
<1>3. CASE UNCHANGED statusVars
  <2>1. Committed' = Committed
    BY <1>3 DEF statusVars, Committed, Parse
  <2>2. \A p \in Process : CallOf(p)' = CallOf(p)
    BY <1>3 DEF statusVars, CallOf
  <2> QED
    BY <2>1, <2>2 DEF Register!vars
<1> QED
  BY <1>1, <1>2, <1>3 DEF StatusNext

\* status.json with its flock, its overwriting and its late truncation is one
\* register: whatever the processes and however they die, a call that returns
\* took effect at one instant (cli/status.py:37-75).
THEOREM Implementation == ASSUME StatusAssumption PROVE StatusSpec => ImplementsRegister
<1>1. StatusInit => StatusInv
  BY InitStatus
<1>2. StatusInv /\ [StatusNext]_statusVars => StatusInv'
  BY NextStatus
<1>3. StatusInit => Register!Init
  BY InitRegister
<1>4. StatusInv /\ StatusInv' /\ [StatusNext]_statusVars => [Register!Next]_(Register!vars)
  BY StepRegister
<1> QED
  BY <1>1, <1>2, <1>3, <1>4, PTL DEF StatusSpec, ImplementsRegister, Register!Spec

----------------------------------------------------------------------------
(* Types of the status file.                                               *)

LEMMA EntryTypes ==
  ASSUME NEW o \in Operation, NEW d \in Data
  PROVE  Apply(o, d) \in Data
<1>1. /\ d = [stages |-> d.stages, freshness |-> d.freshness, baseline |-> d.baseline, full |-> d.full]
      /\ d.stages \in [Stage -> Entry] /\ d.freshness \in SUBSET Source
      /\ d.baseline \in BOOLEAN /\ d.full \in BOOLEAN
  BY DEF Data
<1>2. ASSUME NEW stages \in [Stage -> Entry], NEW full \in BOOLEAN
      PROVE  [d EXCEPT !.stages = stages] \in Data /\ [d EXCEPT !.stages = stages, !.full = full] \in Data
  BY <1>1 DEF Data
<1>3. ASSUME o.kind \in {"start", "done", "fail"}
      PROVE  /\ o.on \in Stage
             /\ d.stages[o.on] = [status |-> d.stages[o.on].status, error |-> d.stages[o.on].error,
                                  stats |-> d.stages[o.on].stats]
             /\ d.stages[o.on].error \in BOOLEAN /\ d.stages[o.on].stats \in BOOLEAN
  <2>1. o.on \in Stage
    BY <1>3 DEF Operation
  <2>2. d.stages[o.on] \in Entry
    BY <1>1, <2>1
  <2> QED
    BY <2>1, <2>2 DEF Entry
<1>4. CASE o.kind = "start"
  <2>1. [d.stages EXCEPT ![o.on] = [status |-> "running", error |-> FALSE, stats |-> FALSE]] \in [Stage -> Entry]
    BY <1>1, <1>3, <1>4 DEF Entry
  <2> QED
    BY <1>1, <1>4, <2>1 DEF Apply, RecordStart, Data
<1>5. CASE o.kind = "done"
  <2>1. [d.stages[o.on] EXCEPT !.status = "ok", !.stats = TRUE] \in Entry
    BY <1>3, <1>5 DEF Entry
  <2>2. [d.stages EXCEPT ![o.on] = [@ EXCEPT !.status = "ok", !.stats = TRUE]] \in [Stage -> Entry]
    BY <1>1, <1>3, <1>5, <2>1
  <2>3. (d.full \/ o.on = "load") \in BOOLEAN
    OBVIOUS
  <2> QED
    BY <1>1, <1>5, <2>2, <2>3 DEF Apply, RecordDone, Data
<1>6. CASE o.kind = "fail"
  <2>1. [d.stages[o.on] EXCEPT !.status = "fail", !.error = TRUE] \in Entry
    BY <1>3, <1>6 DEF Entry
  <2>2. [d.stages EXCEPT ![o.on] = [@ EXCEPT !.status = "fail", !.error = TRUE]] \in [Stage -> Entry]
    BY <1>1, <1>3, <1>6, <2>1
  <2> QED
    BY <1>1, <1>6, <2>2 DEF Apply, RecordFail, Data
<1>7. CASE o.kind = "freshness"
  <2>1. d.freshness \cup {o.on} \in SUBSET Source
    BY <1>1, <1>7 DEF Operation
  <2> QED
    BY <1>1, <1>7, <2>1 DEF Apply, RecordFreshness, Data
<1>8. CASE o.kind \in {"baseline", "get"}
  BY <1>1, <1>8 DEF Apply, RecordCoverageBaseline, Data
<1> QED
  BY <1>4, <1>5, <1>6, <1>7, <1>8 DEF Operation

\* What a process is told.
Answers == [said : {"nothing", "stored", "failed"}] \cup [said : {"value"}, data : Data]

LEMMA ParseTypes ==
  ASSUME StatusTypeOK
  PROVE  Parse(file) \in Data /\ Default \in Data
<1>1. Default \in Data
  BY DEF Default, Data, Absent, Entry
<1> QED
  BY <1>1 DEF StatusTypeOK, Parse

LEMMA StepStatusTypes ==
  ASSUME StatusAssumption, StatusTypeOK, NEW p \in Process, StatusStep(p)
  PROVE  StatusTypeOK'
<1> USE DEF StatusTypeOK, Goto
<1>1. Parse(file) \in Data /\ Default \in Data
  BY ParseTypes
<1>2. ASSUME NEW d \in Data, NEW said \in {"nothing", "stored", "failed"}
      PROVE  Value(d) \in Answers /\ Said(said) \in Answers
  BY DEF Value, Said, Answers
<1>3. answer \in [Process -> Answers]
  BY DEF Answers
<1>4. /\ file = [exists |-> file.exists, data |-> file.data, text |-> file.text]
      /\ file.exists \in BOOLEAN /\ file.data \in Data /\ file.text \in {"whole", "tail", "short"}
  OBVIOUS
<1>5. ASSUME NEW a \in Answers
      PROVE  [answer EXCEPT ![p] = a] \in [Process -> [said : {"nothing", "stored", "failed"}]
                                                       \cup [said : {"value"}, data : Data]]
  BY <1>3, <1>5 DEF Answers
<1>6. ASSUME NEW o \in Operation, Call(p, o) PROVE StatusTypeOK'
  BY <1>6 DEF Call, StatusAssumption
<1>7. ASSUME OpenFile(p) PROVE StatusTypeOK'
  <2>1. file' \in [exists : BOOLEAN, data : Data, text : {"whole", "tail", "short"}]
    BY <1>4, <1>7 DEF OpenFile
  <2>2. answer' = answer \/ answer' = [answer EXCEPT ![p] = Value(Default)]
    BY <1>7 DEF OpenFile
  <2>3. answer' \in [Process -> [said : {"nothing", "stored", "failed"}] \cup [said : {"value"}, data : Data]]
    BY <1>1, <1>2, <1>5, <2>2
  <2> QED
    BY <1>7, <2>1, <2>3 DEF OpenFile
<1>8. ASSUME Flock(p) PROVE StatusTypeOK'
  BY <1>8 DEF Flock
<1>9. ASSUME ReadForUpdate(p) PROVE StatusTypeOK'
  BY <1>1, <1>9 DEF ReadForUpdate
<1>10. ASSUME ReadForGet(p) PROVE StatusTypeOK'
  <2>1. answer' \in [Process -> [said : {"nothing", "stored", "failed"}] \cup [said : {"value"}, data : Data]]
    BY <1>1, <1>2, <1>5, <1>10 DEF ReadForGet
  <2> QED
    BY <1>10, <2>1 DEF ReadForGet
<1>11. ASSUME Write(p) PROVE StatusTypeOK'
  <2>1. Apply(op[p], base[p]) \in Data
    BY EntryTypes
  <2>2. file' \in [exists : BOOLEAN, data : Data, text : {"whole", "tail", "short"}]
    BY <1>11, <2>1 DEF Write
  <2> QED
    BY <1>11, <2>2 DEF Write
<1>12. ASSUME WriteFails(p) PROVE StatusTypeOK'
  <2>1. answer' \in [Process -> [said : {"nothing", "stored", "failed"}] \cup [said : {"value"}, data : Data]]
    BY <1>1, <1>2, <1>5, <1>12 DEF WriteFails
  <2> QED
    BY <1>12, <2>1 DEF WriteFails
<1>13. ASSUME Truncate(p) PROVE StatusTypeOK'
  <2>1. answer' \in [Process -> [said : {"nothing", "stored", "failed"}] \cup [said : {"value"}, data : Data]]
    BY <1>1, <1>2, <1>5, <1>13 DEF Truncate
  <2>2. file' \in [exists : BOOLEAN, data : Data, text : {"whole", "tail", "short"}]
    BY <1>4, <1>13 DEF Truncate
  <2> QED
    BY <1>13, <2>1, <2>2 DEF Truncate
<1>14. ASSUME CloseFile(p) \/ Return(p) \/ Crash(p) PROVE StatusTypeOK'
  BY <1>14 DEF CloseFile, Return, Crash, Unlock
<1> QED
  BY <1>6, <1>7, <1>8, <1>9, <1>10, <1>11, <1>12, <1>13, <1>14 DEF StatusStep

\* Types of the status file and of the calls on it (cli/status.py:49-246).
THEOREM StatusTypeCorrect == ASSUME StatusAssumption PROVE StatusSpec => []StatusTypeOK
<1>1. StatusInit => StatusTypeOK
  BY DEF StatusInit, StatusTypeOK, StatusAssumption, Get, Said, Operation, Default, Data, Absent, Entry
<1>2. StatusTypeOK /\ [StatusNext]_statusVars => StatusTypeOK'
  <2> SUFFICES ASSUME StatusTypeOK, [StatusNext]_statusVars PROVE StatusTypeOK'
    OBVIOUS
  <2>1. CASE UNCHANGED statusVars
    BY <2>1 DEF statusVars, StatusTypeOK
  <2> QED
    BY <2>1, StepStatusTypes DEF StatusNext
<1> QED
  BY <1>1, <1>2, PTL DEF StatusSpec

----------------------------------------------------------------------------
(* The token file.                                                         *)

Parts == {"pc", "access", "refresh", "until", "sure", "reply", "sent", "rotated", "target"}

Points == {"new", "ready", "request", "reply", "save", "write", "replace"}

Shape ==
  /\ DOMAIN auth = Client
  /\ \A p \in Client : DOMAIN auth[p] = Parts /\ auth[p].pc \in Points
  /\ now \in Nat /\ granted \in Token /\ expiry \in [Token -> Nat]
  /\ \A t \in Token : t > granted => expiry[t] = 0

\* Whoever holds an expiry for sure holds one that is not too late.
Holds(access, until) == access \in Token /\ until \in Nat /\ until <= expiry[access]

SureFile(f) == f.text = "whole" /\ f.tells = "at" => Holds(f.access, f.at)

Sure ==
  /\ SureFile(stored) /\ SureFile(tmp)
  /\ \A p \in Client :
       /\ auth[p].sure => Holds(auth[p].access, auth[p].until)
       /\ At(p, "new") => ~auth[p].sure
       /\ Saving(p) => auth[p].sure
       /\ At(p, "reply") =>
            /\ auth[p].reply \in Token /\ auth[p].sent \in Nat
            /\ auth[p].sent <= now /\ now <= auth[p].sent + MaxDelay
            /\ expiry[auth[p].reply] >= auth[p].sent + Lifetime

\* The inductive invariant of BelievedTokenIsValid.
SureInv == Shape /\ Sure

LEMMA InitSure == ASSUME OAuthAssumption PROVE TokenInit => SureInv
<1> SUFFICES ASSUME TokenInit PROVE SureInv
  OBVIOUS
<1>1. 0 \in Token
  BY DEF OAuthAssumption, Token
<1>2. Shape
  BY <1>1 DEF TokenInit, Shape, New, Parts, Points
<1>3. SureFile(stored) /\ SureFile(tmp)
  BY <1>1 DEF TokenInit, SureFile, Holds, NoFile
<1>4. Sure
  BY <1>3 DEF TokenInit, Sure, New, At, Saving
<1> QED
  BY <1>2, <1>4 DEF SureInv

----------------------------------------------------------------------------
(* The invariant is inductive.                                             *)

\* What is true of every object is so after a step of p if it is so of p's.
LEMMA SetShape ==
  ASSUME Shape, NEW p \in Client, NEW a, Set(p, a), DOMAIN a = Parts, a.pc \in Points
  PROVE  /\ auth'[p] = a
         /\ \A q \in Client \ {p} : auth'[q] = auth[q]
         /\ DOMAIN auth' = Client
         /\ \A q \in Client : DOMAIN auth'[q] = Parts /\ auth'[q].pc \in Points
  BY DEF Shape, Set

\* Steps that neither give nor read nor write a token.
LEMMA QuietSure ==
  ASSUME OAuthAssumption, SureInv, NEW p \in Client,
         Expired(p) \/ RefreshFails(p) \/ ReplyLost(p) \/ SaveFails(p) \/ Restart(p)
  PROVE  SureInv'
<1>1. PICK a : /\ Set(p, a) /\ DOMAIN a = Parts /\ a.pc \in {"new", "ready", "request"}
               /\ a.pc = "new" => ~a.sure
               /\ a.sure => auth[p].sure /\ a.access = auth[p].access /\ a.until = auth[p].until
  <2>1. DOMAIN New = Parts /\ New.pc = "new" /\ ~New.sure
    BY DEF New, Parts
  <2>2. CASE Restart(p)
    BY <2>1, <2>2 DEF Restart
  <2>3. CASE Expired(p)
    <3> DEFINE a == [auth[p] EXCEPT !.pc = "request"]
    <3>1. DOMAIN a = Parts /\ a.pc = "request" /\ a.sure = auth[p].sure /\ a.access = auth[p].access
          /\ a.until = auth[p].until
      BY DEF SureInv, Shape, Parts
    <3> QED
      BY <2>3, <3>1 DEF Expired
  <2>4. CASE RefreshFails(p) \/ ReplyLost(p)
    <3> DEFINE a == [auth[p] EXCEPT !.pc = "ready"]
    <3>1. DOMAIN a = Parts /\ a.pc = "ready" /\ a.sure = auth[p].sure /\ a.access = auth[p].access
          /\ a.until = auth[p].until
      BY DEF SureInv, Shape, Parts
    <3> QED
      BY <2>4, <3>1 DEF RefreshFails, ReplyLost
  <2>5. CASE SaveFails(p)
    <3> DEFINE a == [auth[p] EXCEPT !.pc = "ready", !.target = "none"]
    <3>1. DOMAIN a = Parts /\ a.pc = "ready" /\ a.sure = auth[p].sure /\ a.access = auth[p].access
          /\ a.until = auth[p].until
      BY DEF SureInv, Shape, Parts
    <3> QED
      BY <2>5, <3>1 DEF SaveFails
  <2> QED
    BY <2>2, <2>3, <2>4, <2>5
<1>2. UNCHANGED <<now, granted, expiry, stored>> /\ tmp' = tmp
  BY DEF Expired, RefreshFails, ReplyLost, SaveFails, Restart
<1>3. /\ auth'[p] = a /\ \A q \in Client \ {p} : auth'[q] = auth[q]
      /\ DOMAIN auth' = Client
      /\ \A q \in Client : DOMAIN auth'[q] = Parts /\ auth'[q].pc \in Points
  BY <1>1, SetShape DEF SureInv, Points
<1>4. Shape'
  BY <1>2, <1>3 DEF SureInv, Shape
<1>5. Sure'
  BY <1>1, <1>2, <1>3 DEF SureInv, Sure, SureFile, Holds, At, Saving
<1> QED
  BY <1>4, <1>5 DEF SureInv

\* A loaded token is sure only where the file says when it expires.
LEMMA LoadSure ==
  ASSUME OAuthAssumption, SureInv, NEW p \in Client, LoadToken(p)
  PROVE  SureInv'
<1>1. PICK a : /\ Set(p, a) /\ DOMAIN a = Parts /\ a.pc = "ready"
               /\ a.sure => /\ stored.text = "whole" /\ stored.tells = "at"
                            /\ a.access = stored.access /\ a.until = stored.at
  <2>1. DOMAIN auth[p] = Parts /\ ~auth[p].sure
    BY DEF SureInv, Shape, Sure, LoadToken
  <2> DEFINE ready == [auth[p] EXCEPT !.pc = "ready"]
             found == [auth[p] EXCEPT !.pc = "ready", !.access = stored.access, !.refresh = stored.refresh]
             at == [found EXCEPT !.until = stored.at, !.sure = TRUE]
  <2>2. DOMAIN ready = Parts /\ ready.pc = "ready" /\ ~ready.sure
    BY <2>1 DEF Parts
  <2>3. DOMAIN found = Parts /\ found.pc = "ready" /\ ~found.sure /\ found.access = stored.access
    BY <2>1 DEF Parts
  <2>4. DOMAIN at = Parts /\ at.pc = "ready" /\ at.until = stored.at /\ at.access = stored.access
    BY <2>3 DEF Parts
  <2>5. ASSUME NEW u PROVE LET b == [found EXCEPT !.until = u]
                           IN DOMAIN b = Parts /\ b.pc = "ready" /\ ~b.sure
    BY <2>3 DEF Parts
  <2> DEFINE in == [found EXCEPT !.until = now + Lifetime - Margin]
             no == [found EXCEPT !.until = now + DefaultLife]
  <2>6. Set(p, CASE stored.text # "whole" -> ready
                 [] stored.text = "whole" /\ stored.tells = "at" -> at
                 [] stored.text = "whole" /\ stored.tells = "in" -> in
                 [] OTHER -> no)
    BY DEF LoadToken
  <2>7. /\ DOMAIN in = Parts /\ in.pc = "ready" /\ ~in.sure
         /\ DOMAIN no = Parts /\ no.pc = "ready" /\ ~no.sure
    BY <2>5
  <2> HIDE DEF ready, found, at, in, no
  <2>8. CASE stored.text # "whole"
    <3>1. Set(p, ready)
      BY <2>8, <2>6
    <3> QED
      BY <3>1, <2>2
  <2>9. CASE stored.text = "whole" /\ stored.tells = "at"
    <3>1. Set(p, at)
      BY <2>9, <2>6
    <3> QED
      BY <3>1, <2>4, <2>9
  <2>10. CASE stored.text = "whole" /\ stored.tells # "at"
    <3>1. Set(p, in) \/ Set(p, no)
      BY <2>10, <2>6
    <3> QED
      BY <3>1, <2>7
  <2> QED
    BY <2>8, <2>9, <2>10
<1>2. UNCHANGED <<now, granted, expiry, stored, tmp>>
  BY DEF LoadToken
<1>3. /\ auth'[p] = a /\ \A q \in Client \ {p} : auth'[q] = auth[q]
      /\ DOMAIN auth' = Client
      /\ \A q \in Client : DOMAIN auth'[q] = Parts /\ auth'[q].pc \in Points
  BY <1>1, SetShape DEF SureInv, Points
<1>4. Shape'
  BY <1>2, <1>3 DEF SureInv, Shape
<1>5. Sure'
  BY <1>1, <1>2, <1>3 DEF SureInv, Sure, SureFile, Holds, At, Saving
<1> QED
  BY <1>4, <1>5 DEF SureInv

\* A new token takes nothing from the others.
LEMMA GrantSure ==
  ASSUME OAuthAssumption, SureInv, NEW p \in Client, Grant(p)
  PROVE  SureInv'
<1> DEFINE a == [auth[p] EXCEPT !.pc = "reply", !.reply = granted', !.sent = now,
                                !.rotated = rotates /\ auth[p].refresh # NoGrant]
<1>1. /\ DOMAIN a = Parts /\ a.pc = "reply" /\ a.reply = granted' /\ a.sent = now
      /\ a.sure = auth[p].sure /\ a.access = auth[p].access /\ a.until = auth[p].until
  BY DEF SureInv, Shape, Parts
<1>2. Set(p, a)
  BY DEF Grant
<1> HIDE DEF a
<1>3. /\ auth'[p] = a /\ \A q \in Client \ {p} : auth'[q] = auth[q]
      /\ DOMAIN auth' = Client
      /\ \A q \in Client : DOMAIN auth'[q] = Parts /\ auth'[q].pc \in Points
  BY <1>1, <1>2, SetShape DEF SureInv, Points
<1>4. UNCHANGED <<now, stored, tmp>>
  BY DEF Grant
<1>5. /\ granted' = granted + 1 /\ granted' \in Token /\ now + Lifetime \in Nat
      /\ expiry' = [expiry EXCEPT ![granted'] = now + Lifetime]
  BY DEF Grant, Token, OAuthAssumption, SureInv, Shape
<1>6. /\ expiry' \in [Token -> Nat] /\ expiry'[granted'] = now + Lifetime
      /\ \A t \in Token : t # granted' => expiry'[t] = expiry[t]
      /\ \A t \in Token : expiry[t] <= expiry'[t]
      /\ \A t \in Token : t > granted' => expiry'[t] = 0
  <2>1. expiry \in [Token -> Nat] /\ expiry[granted'] = 0 /\ granted \in Nat
        /\ \A t \in Token : t \in Nat /\ (t > granted => expiry[t] = 0)
    BY <1>5 DEF SureInv, Shape, Token, OAuthAssumption
  <2> QED
    BY <1>5, <2>1
<1>7. Shape'
  BY <1>3, <1>4, <1>5, <1>6 DEF SureInv, Shape
<1>8. \A access, until : Holds(access, until) => Holds(access, until)'
  <2>1. \A t \in Token : expiry[t] \in Nat /\ expiry'[t] \in Nat
    BY <1>6 DEF SureInv, Shape
  <2> QED
    BY <1>6, <2>1 DEF Holds
<1>9. Sure'
  <2>1. SureFile(stored)' /\ SureFile(tmp)'
    BY <1>4, <1>8 DEF SureInv, Sure, SureFile
  <2>2. \A q \in Client : (auth[q].sure => Holds(auth[q].access, auth[q].until))'
    BY <1>1, <1>3, <1>8 DEF SureInv, Sure
  <2>3. \A q \in Client : (At(q, "new") => ~auth[q].sure)' /\ (Saving(q) => auth[q].sure)'
    BY <1>1, <1>3 DEF SureInv, Sure, At, Saving
  <2>4. \A q \in Client \ {p} : At(q, "reply")' =>
          /\ auth'[q].reply \in Token /\ auth'[q].sent \in Nat
          /\ auth'[q].sent <= now' /\ now' <= auth'[q].sent + MaxDelay
          /\ expiry'[auth'[q].reply] >= auth'[q].sent + Lifetime
    <3> SUFFICES ASSUME NEW q \in Client \ {p}, At(q, "reply")'
                 PROVE  /\ auth[q].reply \in Token /\ auth[q].sent \in Nat
                        /\ auth[q].sent <= now /\ now <= auth[q].sent + MaxDelay
                        /\ expiry'[auth[q].reply] >= auth[q].sent + Lifetime
      BY <1>3, <1>4
    <3>1. /\ auth[q].reply \in Token /\ auth[q].sent \in Nat
          /\ auth[q].sent <= now /\ now <= auth[q].sent + MaxDelay
          /\ expiry[auth[q].reply] >= auth[q].sent + Lifetime
      BY <1>3 DEF SureInv, Sure, At
    <3>2. expiry[auth[q].reply] <= expiry'[auth[q].reply] /\ expiry[auth[q].reply] \in Nat
          /\ expiry'[auth[q].reply] \in Nat
      BY <1>6, <3>1 DEF SureInv, Shape
    <3> QED
      BY <3>1, <3>2 DEF OAuthAssumption
  <2>5. /\ auth'[p].reply \in Token /\ auth'[p].sent \in Nat
        /\ auth'[p].sent <= now' /\ now' <= auth'[p].sent + MaxDelay
        /\ expiry'[auth'[p].reply] >= auth'[p].sent + Lifetime
    BY <1>1, <1>3, <1>4, <1>5, <1>6 DEF SureInv, Shape, OAuthAssumption
  <2> QED
    BY <2>1, <2>2, <2>3, <2>4, <2>5 DEF Sure
<1> QED
  BY <1>7, <1>9 DEF SureInv

\* The margin covers the way of the reply.
LEMMA ReplySure ==
  ASSUME OAuthAssumption, SureInv, NEW p \in Client, Reply(p)
  PROVE  SureInv'
<1> DEFINE a == [auth[p] EXCEPT !.pc = "save", !.access = auth[p].reply,
                                !.refresh = IF auth[p].rotated THEN auth[p].reply ELSE @,
                                !.until = now + Lifetime - Margin, !.sure = TRUE]
<1>1. /\ DOMAIN a = Parts /\ a.pc = "save" /\ a.access = auth[p].reply
      /\ a.until = now + Lifetime - Margin /\ a.sure
  BY DEF SureInv, Shape, Parts
<1>2. Set(p, a)
  BY DEF Reply
<1> HIDE DEF a
<1>3. /\ auth'[p] = a /\ \A q \in Client \ {p} : auth'[q] = auth[q]
      /\ DOMAIN auth' = Client
      /\ \A q \in Client : DOMAIN auth'[q] = Parts /\ auth'[q].pc \in Points
  BY <1>1, <1>2, SetShape DEF SureInv, Points
<1>4. UNCHANGED <<now, granted, expiry, stored, tmp>>
  BY DEF Reply
<1>5. Holds(a.access, a.until)
  <2>1. /\ auth[p].reply \in Token /\ auth[p].sent \in Nat
        /\ now \in Nat /\ now <= auth[p].sent + MaxDelay
        /\ expiry[auth[p].reply] >= auth[p].sent + Lifetime
        /\ expiry[auth[p].reply] \in Nat
    BY DEF SureInv, Shape, Sure, Reply, At
  <2> QED
    BY <1>1, <2>1 DEF Holds, OAuthAssumption
<1>6. Shape'
  BY <1>3, <1>4 DEF SureInv, Shape
<1>7. Sure'
  BY <1>1, <1>3, <1>4, <1>5 DEF SureInv, Sure, SureFile, Holds, At, Saving
<1> QED
  BY <1>6, <1>7 DEF SureInv

\* What _save_token writes is sure.
LEMMA SaveSure ==
  ASSUME OAuthAssumption, SureInv, NEW p \in Client, OpenTmp(p) \/ WriteTmp(p)
  PROVE  SureInv'
<1>1. PICK a : /\ Set(p, a) /\ DOMAIN a = Parts /\ a.pc \in {"write", "replace"}
               /\ a.sure /\ a.access = auth[p].access /\ a.until = auth[p].until
  <2>1. auth[p].sure /\ DOMAIN auth[p] = Parts
    BY DEF SureInv, Shape, Sure, Saving, At, OpenTmp, WriteTmp
  <2>2. CASE OpenTmp(p)
    <3> DEFINE a == [auth[p] EXCEPT !.pc = "write", !.target = "tmp"]
    <3>1. DOMAIN a = Parts /\ a.pc = "write" /\ a.sure /\ a.access = auth[p].access
          /\ a.until = auth[p].until
      BY <2>1 DEF Parts
    <3> QED
      BY <2>2, <3>1 DEF OpenTmp
  <2>3. CASE WriteTmp(p)
    <3> DEFINE a == [auth[p] EXCEPT !.pc = "replace"]
    <3>1. DOMAIN a = Parts /\ a.pc = "replace" /\ a.sure /\ a.access = auth[p].access
          /\ a.until = auth[p].until
      BY <2>1 DEF Parts
    <3> QED
      BY <2>3, <3>1 DEF WriteTmp
  <2> QED
    BY <2>2, <2>3
<1>2. UNCHANGED <<now, granted, expiry>>
  BY DEF OpenTmp, WriteTmp
<1>3. /\ auth'[p] = a /\ \A q \in Client \ {p} : auth'[q] = auth[q]
      /\ DOMAIN auth' = Client
      /\ \A q \in Client : DOMAIN auth'[q] = Parts /\ auth'[q].pc \in Points
  BY <1>1, SetShape DEF SureInv, Points
<1>4. stored' \in {stored, Text(p), Torn} /\ tmp' \in {tmp, Text(p), Torn}
  BY DEF OpenTmp, WriteTmp
<1>5. SureFile(stored) /\ SureFile(tmp) /\ SureFile(Text(p)) /\ SureFile(Torn)
  <2>1. Holds(auth[p].access, auth[p].until)
    BY DEF SureInv, Sure, Saving, At, OpenTmp, WriteTmp
  <2> QED
    BY <2>1 DEF SureInv, Sure, SureFile, Text, Torn, NoFile
<1>6. Shape'
  BY <1>2, <1>3 DEF SureInv, Shape
<1>7. SureFile(stored)' /\ SureFile(tmp)'
  BY <1>2, <1>4, <1>5 DEF SureFile, Holds
<1>8. Sure'
  <2>1. Holds(auth[p].access, auth[p].until)
    BY DEF SureInv, Sure, Saving, At, OpenTmp, WriteTmp
  <2> QED
    BY <1>1, <1>2, <1>3, <1>7, <2>1 DEF SureInv, Sure, Holds, At, Saving
<1> QED
  BY <1>6, <1>8 DEF SureInv

\* A renamed file has the text it had.
LEMMA ReplaceSure ==
  ASSUME OAuthAssumption, SureInv, NEW p \in Client, ReplaceFile(p)
  PROVE  SureInv'
<1> DEFINE a == [auth[p] EXCEPT !.pc = "ready", !.target = "none"]
<1>1. DOMAIN a = Parts /\ a.pc = "ready" /\ a.sure = auth[p].sure /\ a.access = auth[p].access
      /\ a.until = auth[p].until
  BY DEF SureInv, Shape, Parts
<1>2. \A q \in Client \ {p} : LET b == Renamed(auth[q]) IN
         /\ DOMAIN b = Parts /\ b.pc = auth[q].pc /\ b.sure = auth[q].sure /\ b.access = auth[q].access
         /\ b.until = auth[q].until /\ b.reply = auth[q].reply /\ b.sent = auth[q].sent
  BY DEF SureInv, Shape, Parts, Renamed
<1>3. auth' = [q \in Client |-> IF q = p THEN a ELSE Renamed(auth[q])]
  BY DEF ReplaceFile
<1> HIDE DEF a
<1>4. /\ auth'[p] = a /\ \A q \in Client \ {p} : auth'[q] = Renamed(auth[q])
      /\ DOMAIN auth' = Client
  BY <1>3
<1>5. UNCHANGED <<now, granted, expiry>> /\ stored' = tmp /\ tmp' = NoFile
  BY DEF ReplaceFile
<1>6. Shape'
  BY <1>1, <1>2, <1>4, <1>5 DEF SureInv, Shape, Points
<1>7. SureFile(stored)' /\ SureFile(tmp)'
  BY <1>5 DEF SureInv, Sure, SureFile, Holds, NoFile
<1>8. Sure'
  <2>1. \A q \in Client \ {p} :
          /\ auth'[q].pc = auth[q].pc /\ auth'[q].sure = auth[q].sure
          /\ auth'[q].access = auth[q].access /\ auth'[q].until = auth[q].until
          /\ auth'[q].reply = auth[q].reply /\ auth'[q].sent = auth[q].sent
    BY <1>2, <1>4
  <2> QED
    BY <1>1, <1>4, <1>5, <1>7, <2>1 DEF SureInv, Sure, Holds, At, Saving
<1> QED
  BY <1>6, <1>8 DEF SureInv

LEMMA TickSure ==
  ASSUME OAuthAssumption, SureInv, Tick
  PROVE  SureInv'
<1>1. Shape'
  BY DEF SureInv, Shape, Tick
<1>2. SureFile(stored)' /\ SureFile(tmp)'
  BY DEF SureInv, Sure, SureFile, Holds, Tick
<1>3. Sure'
  BY <1>2 DEF SureInv, Sure, Shape, Holds, At, Saving, Tick, OAuthAssumption
<1> QED
  BY <1>1, <1>3 DEF SureInv

LEMMA NextSure == ASSUME OAuthAssumption PROVE SureInv /\ [TokenNext]_tokenVars => SureInv'
<1> SUFFICES ASSUME SureInv, [TokenNext]_tokenVars PROVE SureInv'
  OBVIOUS
<1>1. ASSUME NEW p \in Client, TokenStep(p) PROVE SureInv'
  BY <1>1, QuietSure, LoadSure, GrantSure, ReplySure, SaveSure, ReplaceSure DEF TokenStep
<1>2. CASE UNCHANGED tokenVars
  BY <1>2 DEF tokenVars, SureInv, Shape, Sure, SureFile, Holds, At, Saving
<1> QED
  BY <1>1, <1>2, TickSure DEF TokenNext

\* A token that get_headers gives out as good is good at the provider, as long
\* as the margin covers the delay of a reply (auth.py:75-82, 122).
THEOREM BelievedTheorem == ASSUME OAuthAssumption PROVE TokenSpec => []BelievedTokenIsValid
<1>1. SureInv => BelievedTokenIsValid
  BY DEF SureInv, Shape, Sure, Holds, BelievedTokenIsValid
<1>2. TokenInit => SureInv
  BY InitSure
<1>3. SureInv /\ [TokenNext]_tokenVars => SureInv'
  BY NextSure
<1> QED
  BY <1>1, <1>2, <1>3, PTL DEF TokenSpec

\* The objects of the processes.
Auths == [pc : Points, access : Token \cup {NoGrant}, refresh : Token \cup {NoGrant}, until : Nat,
          sure : BOOLEAN, reply : Token \cup {NoGrant}, sent : Nat, rotated : BOOLEAN,
          target : {"none", "tmp", "file"}]

LEMMA StepTokenTypes ==
  ASSUME OAuthAssumption, TokenTypeOK, NEW p \in Client, TokenStep(p)
  PROVE  TokenTypeOK'
<1> DEFINE a == auth[p]
<1>1. auth \in [Client -> Auths]
  BY DEF TokenTypeOK, Auths, Points
<1>2. /\ a = [pc |-> a.pc, access |-> a.access, refresh |-> a.refresh, until |-> a.until, sure |-> a.sure,
              reply |-> a.reply, sent |-> a.sent, rotated |-> a.rotated, target |-> a.target]
      /\ a.pc \in Points /\ a.access \in Token \cup {NoGrant} /\ a.refresh \in Token \cup {NoGrant}
      /\ a.until \in Nat /\ a.sure \in BOOLEAN /\ a.reply \in Token \cup {NoGrant} /\ a.sent \in Nat
      /\ a.rotated \in BOOLEAN /\ a.target \in {"none", "tmp", "file"}
  <2>1. a \in Auths
    BY <1>1
  <2> QED
    BY <2>1 DEF Auths
<1>3. /\ Lifetime \in Nat /\ Margin \in Nat /\ DefaultLife \in Nat /\ MaxTime \in Nat /\ MaxGrants \in Nat
      /\ Margin <= Lifetime /\ now \in Nat /\ now + Lifetime - Margin \in Nat /\ now + DefaultLife \in Nat
  BY DEF OAuthAssumption, TokenTypeOK
<1>4. stored.access \in Token \cup {NoGrant} /\ stored.refresh \in Token \cup {NoGrant} /\ stored.at \in Nat
  BY DEF TokenTypeOK, Contents
<1>5. NoFile \in Contents /\ Torn \in Contents /\ Text(p) \in Contents
  BY <1>2, <1>3 DEF NoFile, Torn, Text, Contents
<1>6. ASSUME NEW b \in Auths, Set(p, b) PROVE auth' \in [Client -> Auths]
  BY <1>1, <1>6 DEF Set
<1>7. ASSUME Grant(p) PROVE granted' \in Token
  <2>1. granted \in 0 .. MaxGrants
    BY DEF TokenTypeOK, Token
  <2>2. granted < MaxGrants /\ granted' = granted + 1
    BY <1>7 DEF Grant
  <2>3. granted' \in 0 .. MaxGrants
    BY <1>3, <2>1, <2>2
  <2> QED
    BY <2>3 DEF Token
<1>8. auth' \in [Client -> Auths]
  <2>1. CASE LoadToken(p)
    <3> DEFINE found == [a EXCEPT !.pc = "ready", !.access = stored.access, !.refresh = stored.refresh]
    <3>1. /\ found \in Auths /\ [found EXCEPT !.until = stored.at, !.sure = TRUE] \in Auths
          /\ [found EXCEPT !.until = now + Lifetime - Margin] \in Auths
          /\ [found EXCEPT !.until = now + DefaultLife] \in Auths /\ [a EXCEPT !.pc = "ready"] \in Auths
      BY <1>2, <1>3, <1>4 DEF Auths, Points
    <3>2. \E b \in Auths : Set(p, b)
      BY <2>1, <3>1, Zenon DEF LoadToken
    <3> QED
      BY <1>6, <3>2
  <2>2. CASE Expired(p)
    <3>1. [a EXCEPT !.pc = "request"] \in Auths
      BY <1>2 DEF Auths, Points
    <3> QED
      BY <1>6, <2>2, <3>1 DEF Expired
  <2>3. CASE RefreshFails(p) \/ ReplyLost(p)
    <3>1. [a EXCEPT !.pc = "ready"] \in Auths
      BY <1>2 DEF Auths, Points
    <3> QED
      BY <1>6, <2>3, <3>1 DEF RefreshFails, ReplyLost
  <2>4. CASE Grant(p)
    <3> DEFINE rotated == rotates /\ a.refresh # NoGrant
    <3>1. granted' \in Token /\ rotated \in BOOLEAN
      BY <1>7, <2>4
    <3>2. [a EXCEPT !.pc = "reply", !.reply = granted', !.sent = now, !.rotated = rotated] \in Auths
      BY <1>2, <1>3, <3>1 DEF Auths, Points
    <3> QED
      BY <1>6, <2>4, <3>2 DEF Grant
  <2>5. CASE Reply(p)
    <3>1. [a EXCEPT !.pc = "save", !.access = a.reply, !.refresh = IF a.rotated THEN a.reply ELSE @,
                    !.until = now + Lifetime - Margin, !.sure = TRUE] \in Auths
      BY <1>2, <1>3 DEF Auths, Points
    <3> QED
      BY <1>6, <2>5, <3>1 DEF Reply
  <2>6. CASE OpenTmp(p)
    <3>1. [a EXCEPT !.pc = "write", !.target = "tmp"] \in Auths
      BY <1>2 DEF Auths, Points
    <3> QED
      BY <1>6, <2>6, <3>1 DEF OpenTmp
  <2>7. CASE WriteTmp(p)
    <3>1. [a EXCEPT !.pc = "replace"] \in Auths
      BY <1>2 DEF Auths, Points
    <3> QED
      BY <1>6, <2>7, <3>1 DEF WriteTmp
  <2>8. CASE ReplaceFile(p)
    <3>1. [a EXCEPT !.pc = "ready", !.target = "none"] \in Auths
      BY <1>2 DEF Auths, Points
    <3>2. ASSUME NEW b \in Auths PROVE Renamed(b) \in Auths
      BY DEF Renamed, Auths
    <3> QED
      BY <1>1, <2>8, <3>1, <3>2 DEF ReplaceFile
  <2>9. CASE SaveFails(p)
    <3>1. [a EXCEPT !.pc = "ready", !.target = "none"] \in Auths
      BY <1>2 DEF Auths, Points
    <3> QED
      BY <1>6, <2>9, <3>1 DEF SaveFails
  <2>10. CASE Restart(p)
    <3>1. New \in Auths
      BY DEF New, Auths, Points
    <3> QED
      BY <1>6, <2>10, <3>1 DEF Restart
  <2> QED
    BY <2>1, <2>2, <2>3, <2>4, <2>5, <2>6, <2>7, <2>8, <2>9, <2>10 DEF TokenStep
<1>9. stored' \in Contents /\ tmp' \in Contents
  <2>1. CASE WriteTmp(p)
    BY <1>5, <2>1 DEF WriteTmp, TokenTypeOK
  <2>2. CASE OpenTmp(p) \/ ReplaceFile(p)
    BY <1>5, <2>2 DEF OpenTmp, ReplaceFile, TokenTypeOK
  <2>3. CASE ~WriteTmp(p) /\ ~OpenTmp(p) /\ ~ReplaceFile(p)
    BY <2>3 DEF TokenStep, LoadToken, Expired, RefreshFails, Grant, ReplyLost, Reply, SaveFails, Restart,
                TokenTypeOK
  <2> QED
    BY <2>1, <2>2, <2>3
<1>10. live' \in Token \cup {NoGrant} /\ expiry' \in [Token -> Nat] /\ granted' \in Token
  <2>1. CASE Grant(p)
    <3>1. granted' \in Token /\ now + Lifetime \in Nat
      BY <1>3, <1>7, <2>1
    <3> QED
      BY <2>1, <3>1 DEF Grant, TokenTypeOK
  <2>2. CASE ~Grant(p)
    BY <2>2 DEF TokenStep, LoadToken, Expired, RefreshFails, ReplyLost, Reply, OpenTmp, WriteTmp, ReplaceFile,
                SaveFails, Restart, TokenTypeOK
  <2> QED
    BY <2>1, <2>2
<1>11. now' \in 0 .. MaxTime /\ rotates' \in BOOLEAN
  BY DEF TokenStep, LoadToken, Expired, RefreshFails, Grant, ReplyLost, Reply, OpenTmp, WriteTmp, ReplaceFile,
         SaveFails, Restart, TokenTypeOK
<1>12. mishap' \in BOOLEAN /\ overlap' \in BOOLEAN
  BY <1>2 DEF TokenStep, LoadToken, Expired, RefreshFails, Grant, ReplyLost, Reply, OpenTmp, WriteTmp,
              ReplaceFile, SaveFails, Restart, TokenTypeOK
<1> QED
  BY <1>8, <1>9, <1>10, <1>11, <1>12 DEF TokenTypeOK, Auths, Points

\* Types of the token file and of the objects that share it (auth.py:35-140).
THEOREM TokenTypeCorrect == ASSUME OAuthAssumption PROVE TokenSpec => []TokenTypeOK
<1>1. TokenInit => TokenTypeOK
  <2> SUFFICES ASSUME TokenInit PROVE TokenTypeOK
    OBVIOUS
  <2>1. 0 \in Token /\ 0 \in 0 .. MaxTime
    BY DEF OAuthAssumption, Token
  <2>2. NoFile \in Contents /\ stored \in Contents
    BY <2>1 DEF TokenInit, NoFile, Contents
  <2>3. stored.refresh \in Token \cup {NoGrant}
    BY <2>2 DEF Contents
  <2> QED
    BY <2>1, <2>2, <2>3 DEF TokenInit, TokenTypeOK, New
<1>2. TokenTypeOK /\ [TokenNext]_tokenVars => TokenTypeOK'
  <2> SUFFICES ASSUME TokenTypeOK, [TokenNext]_tokenVars PROVE TokenTypeOK'
    OBVIOUS
  <2>1. CASE Tick
    BY <2>1 DEF Tick, TokenTypeOK, OAuthAssumption
  <2>2. CASE UNCHANGED tokenVars
    BY <2>2 DEF tokenVars, TokenTypeOK
  <2> QED
    BY <2>1, <2>2, StepTokenTypes DEF TokenNext
<1> QED
  BY <1>1, <1>2, PTL DEF TokenSpec

----------------------------------------------------------------------------
(* RefreshTokenKept.                                                       *)

\* Between a grant and the end of its save, and the refresh token it is to save.
InFlight(p) == At(p, "reply") \/ Saving(p)

Newest(p) == IF At(p, "reply") /\ auth[p].rotated THEN auth[p].reply ELSE auth[p].refresh

\* A new refresh token is none of those that anybody knows.
Known == (0 .. granted) \cup {NoGrant}

Ranges ==
  /\ live \in Known /\ stored.refresh \in Known /\ tmp.refresh \in Known
  /\ \A p \in Client :
       /\ auth[p].refresh \in Known
       /\ At(p, "new") => auth[p].refresh = NoGrant /\ ~auth[p].rotated
       /\ At(p, "reply") => auth[p].reply \in 0 .. granted

Quiet == ~mishap /\ ~overlap

\* One save at a time, whose temporary file is its own.
OneSave ==
  /\ \A p, q \in Client : Saving(p) /\ Saving(q) => p = q
  /\ \A p \in Client :
       /\ At(p, "write") => auth[p].target = "tmp" /\ tmp = Torn
       /\ At(p, "replace") => tmp = Text(p)
  /\ stored.text # "torn"

\* Where there was no refresh token, there never is one.
NoToken ==
  live = NoGrant =>
    /\ stored.refresh = NoGrant
    /\ \A p \in Client : auth[p].refresh = NoGrant /\ ~auth[p].rotated

\* A provider that keeps its refresh token: everybody has it.
Static ==
  live # NoGrant /\ ~rotates =>
    /\ stored.text = "whole" /\ stored.refresh = live
    /\ \A p \in Client : ~auth[p].rotated /\ (At(p, "new") \/ auth[p].refresh = live)

\* A provider that rotates: the one process that has been given the new token
\* is in flight, and nobody else can be; or the file has it.
Rotating ==
  live # NoGrant /\ rotates =>
    /\ stored.text = "whole" /\ stored.refresh # NoGrant
    /\ \A p \in Client : At(p, "new") \/ auth[p].refresh # NoGrant
    /\ \A p \in Client : InFlight(p) =>
         /\ auth[p].rotated /\ Newest(p) = live /\ stored.refresh # live
         /\ \A q \in Client \ {p} : ~InFlight(q) /\ auth[q].refresh # live
    /\ (\A p \in Client : ~InFlight(p)) => stored.refresh = live

\* The inductive invariant of RefreshTokenKept.
Kept == Ranges /\ (Quiet => OneSave /\ NoToken /\ Static /\ Rotating)

LEMMA InitKept == ASSUME OAuthAssumption PROVE TokenInit => Kept
<1> SUFFICES ASSUME TokenInit PROVE Kept
  OBVIOUS
<1>1. \A p \in Client : auth[p] = New
  BY DEF TokenInit
<1>2. stored.refresh \in {0, NoGrant} /\ live = stored.refresh /\ stored.text # "torn"
      /\ (live # NoGrant => stored.text = "whole") /\ tmp.refresh = NoGrant
  BY DEF TokenInit, NoFile
<1>3. 0 \in Known /\ NoGrant \in Known
  BY DEF TokenInit, Known
<1>4. Ranges
  BY <1>1, <1>2, <1>3 DEF Ranges, At, New
<1>5. OneSave /\ NoToken /\ Static /\ Rotating
  BY <1>1, <1>2 DEF OneSave, NoToken, Static, Rotating, InFlight, At, Saving, New
<1> QED
  BY <1>4, <1>5 DEF Kept

\* Steps after which p is not in flight, and which lose no new token quietly.
LEMMA QuietKept ==
  ASSUME OAuthAssumption, Shape, Kept, NEW p \in Client,
         Expired(p) \/ RefreshFails(p) \/ ReplyLost(p) \/ SaveFails(p) \/ Restart(p)
  PROVE  Kept'
<1>1. PICK a : /\ Set(p, a) /\ DOMAIN a = Parts /\ a.pc \in {"new", "ready", "request"}
               /\ \/ a.refresh = auth[p].refresh /\ a.rotated = auth[p].rotated /\ a.pc # "new" /\ ~At(p, "new")
                  \/ a.refresh = NoGrant /\ ~a.rotated /\ a.pc = "new"
               /\ Quiet' => Quiet /\ (InFlight(p) => ~auth[p].rotated)
  <2>1. DOMAIN New = Parts /\ New.pc = "new" /\ New.refresh = NoGrant /\ ~New.rotated
    BY DEF New, Parts
  <2>2. CASE Restart(p)
    BY <2>1, <2>2 DEF Restart, Quiet, InFlight
  <2>3. CASE Expired(p)
    <3> DEFINE a == [auth[p] EXCEPT !.pc = "request"]
    <3>1. DOMAIN a = Parts /\ a.pc = "request" /\ a.refresh = auth[p].refresh /\ a.rotated = auth[p].rotated
      BY DEF Shape, Parts
    <3> QED
      BY <2>3, <3>1 DEF Expired, Quiet, InFlight, At, Saving
  <2>4. CASE RefreshFails(p) \/ ReplyLost(p)
    <3> DEFINE a == [auth[p] EXCEPT !.pc = "ready"]
    <3>1. DOMAIN a = Parts /\ a.pc = "ready" /\ a.refresh = auth[p].refresh /\ a.rotated = auth[p].rotated
      BY DEF Shape, Parts
    <3>2. Set(p, a) /\ ~At(p, "new")
      BY <2>4 DEF RefreshFails, ReplyLost, At
    <3>3. Quiet' => Quiet /\ (InFlight(p) => ~auth[p].rotated)
      <4>1. CASE RefreshFails(p)
        BY <4>1 DEF RefreshFails, Quiet, InFlight, At, Saving
      <4>2. CASE ReplyLost(p)
        BY <4>2 DEF ReplyLost, Quiet
      <4> QED
        BY <2>4, <4>1, <4>2
    <3> HIDE DEF a
    <3> QED
      BY <3>1, <3>2, <3>3
  <2>5. CASE SaveFails(p)
    <3> DEFINE a == [auth[p] EXCEPT !.pc = "ready", !.target = "none"]
    <3>1. DOMAIN a = Parts /\ a.pc = "ready" /\ a.refresh = auth[p].refresh /\ a.rotated = auth[p].rotated
      BY DEF Shape, Parts
    <3> QED
      BY <2>5, <3>1 DEF SaveFails, Quiet, InFlight, At, Saving
  <2> QED
    BY <2>2, <2>3, <2>4, <2>5
<1>2. UNCHANGED <<granted, live, rotates, stored, tmp>>
  BY DEF Expired, RefreshFails, ReplyLost, SaveFails, Restart
<1>3. auth'[p] = a /\ \A q \in Client \ {p} : auth'[q] = auth[q]
  BY <1>1, SetShape DEF Points
<1>4. Ranges'
  BY <1>1, <1>2, <1>3 DEF Kept, Ranges, Known, At
<1>5. ASSUME Quiet' PROVE OneSave' /\ NoToken' /\ Static' /\ Rotating'
  <2>1. Quiet /\ OneSave /\ NoToken /\ Static /\ Rotating /\ (InFlight(p) => ~auth[p].rotated)
    BY <1>1, <1>5 DEF Kept
  <2>2. OneSave'
    BY <1>1, <1>2, <1>3, <2>1 DEF OneSave, At, Saving, Text
  <2>3. NoToken' /\ Static'
    BY <1>1, <1>2, <1>3, <2>1 DEF NoToken, Static, At
  <2>4. Rotating'
    BY <1>1, <1>2, <1>3, <2>1 DEF Rotating, InFlight, Newest, At, Saving
  <2> QED
    BY <2>2, <2>3, <2>4
<1> QED
  BY <1>4, <1>5 DEF Kept

\* A load takes the refresh token that the file has.
LEMMA LoadKept ==
  ASSUME OAuthAssumption, Shape, Kept, NEW p \in Client, LoadToken(p)
  PROVE  Kept'
<1>1. PICK a : /\ Set(p, a) /\ DOMAIN a = Parts /\ a.pc = "ready" /\ ~a.rotated
               /\ IF stored.text = "whole" THEN a.refresh = stored.refresh ELSE a.refresh = NoGrant
  <2>1. DOMAIN auth[p] = Parts /\ ~auth[p].rotated /\ auth[p].refresh = NoGrant
    BY DEF Shape, Kept, Ranges, LoadToken
  <2> DEFINE ready == [auth[p] EXCEPT !.pc = "ready"]
             found == [auth[p] EXCEPT !.pc = "ready", !.access = stored.access, !.refresh = stored.refresh]
             at == [found EXCEPT !.until = stored.at, !.sure = TRUE]
             in == [found EXCEPT !.until = now + Lifetime - Margin]
             no == [found EXCEPT !.until = now + DefaultLife]
  <2>2. Set(p, CASE stored.text # "whole" -> ready
                 [] stored.text = "whole" /\ stored.tells = "at" -> at
                 [] stored.text = "whole" /\ stored.tells = "in" -> in
                 [] OTHER -> no)
    BY DEF LoadToken
  <2>3. DOMAIN ready = Parts /\ ready.pc = "ready" /\ ready.refresh = NoGrant /\ ~ready.rotated
    BY <2>1 DEF Parts
  <2>4. DOMAIN found = Parts /\ found.pc = "ready" /\ found.refresh = stored.refresh /\ ~found.rotated
    BY <2>1 DEF Parts
  <2>5. DOMAIN at = Parts /\ at.pc = "ready" /\ at.refresh = stored.refresh /\ ~at.rotated
    BY <2>4 DEF Parts
  <2>6. /\ DOMAIN in = Parts /\ in.pc = "ready" /\ in.refresh = stored.refresh /\ ~in.rotated
        /\ DOMAIN no = Parts /\ no.pc = "ready" /\ no.refresh = stored.refresh /\ ~no.rotated
    BY <2>4 DEF Parts
  <2> HIDE DEF ready, found, at, in, no
  <2>7. CASE stored.text # "whole"
    <3>1. Set(p, ready)
      BY <2>2, <2>7
    <3> QED
      BY <3>1, <2>3, <2>7
  <2>8. CASE stored.text = "whole"
    <3>1. Set(p, at) \/ Set(p, in) \/ Set(p, no)
      BY <2>2, <2>8
    <3> QED
      BY <3>1, <2>5, <2>6, <2>8
  <2> QED
    BY <2>7, <2>8
<1>2. UNCHANGED <<granted, live, rotates, stored, tmp, mishap, overlap>>
  BY DEF LoadToken
<1>3. auth'[p] = a /\ \A q \in Client \ {p} : auth'[q] = auth[q]
  BY <1>1, SetShape DEF Points
<1>4. Ranges'
  BY <1>1, <1>2, <1>3 DEF Kept, Ranges, Known, At
<1>5. ASSUME Quiet' PROVE OneSave' /\ NoToken' /\ Static' /\ Rotating'
  <2>1. Quiet /\ OneSave /\ NoToken /\ Static /\ Rotating /\ ~InFlight(p)
    BY <1>2, <1>5 DEF Kept, Quiet, LoadToken, InFlight, At, Saving
  <2>2. OneSave'
    BY <1>1, <1>2, <1>3, <2>1 DEF OneSave, At, Saving, Text
  <2>3. NoToken' /\ Static'
    BY <1>1, <1>2, <1>3, <2>1 DEF NoToken, Static, At
  <2>4. Rotating'
    BY <1>1, <1>2, <1>3, <2>1 DEF Rotating, InFlight, Newest, At, Saving
  <2> QED
    BY <2>2, <2>3, <2>4
<1> QED
  BY <1>4, <1>5 DEF Kept

\* With rotation the refresh token is good for one grant.
LEMMA GrantKept ==
  ASSUME OAuthAssumption, Shape, Kept, NEW p \in Client, Grant(p)
  PROVE  Kept'
<1> DEFINE a == [auth[p] EXCEPT !.pc = "reply", !.reply = granted', !.sent = now,
                                !.rotated = rotates /\ auth[p].refresh # NoGrant]
<1>1. /\ DOMAIN a = Parts /\ a.pc = "reply" /\ a.reply = granted' /\ a.refresh = auth[p].refresh
      /\ a.rotated <=> rotates /\ auth[p].refresh # NoGrant
  BY DEF Shape, Parts
<1>2. Set(p, a)
  BY DEF Grant
<1> HIDE DEF a
<1>3. auth'[p] = a /\ \A q \in Client \ {p} : auth'[q] = auth[q]
  BY <1>1, <1>2, SetShape DEF Points
<1>4. UNCHANGED <<rotates, stored, tmp, mishap, overlap>> /\ At(p, "request")
      /\ auth[p].refresh \in {live, NoGrant}
      /\ live' = IF rotates /\ auth[p].refresh # NoGrant THEN granted' ELSE live
  BY DEF Grant
<1>5. granted \in Nat /\ granted' = granted + 1 /\ granted' <= MaxGrants /\ NoGrant = MaxGrants + 1
      /\ MaxGrants \in Nat
  BY DEF Grant, Shape, Token, NoGrant, OAuthAssumption
<1>6. granted' \in Nat /\ granted' \notin Known /\ granted' \in 0 .. granted' /\ Known \subseteq Known'
      /\ granted' \in Known' /\ NoGrant' = NoGrant
  BY <1>5 DEF Known
<1>7. Ranges'
  <2>1. live' \in Known' /\ stored'.refresh \in Known' /\ tmp'.refresh \in Known'
    BY <1>4, <1>6 DEF Kept, Ranges
  <2>2. \A q \in Client : auth'[q].refresh \in Known'
    BY <1>1, <1>3, <1>6 DEF Kept, Ranges
  <2>3. \A q \in Client : At(q, "new")' => auth'[q].refresh = NoGrant /\ ~auth'[q].rotated
    BY <1>1, <1>3 DEF Kept, Ranges, At
  <2>4. \A q \in Client : At(q, "reply")' => auth'[q].reply \in 0 .. granted'
    BY <1>1, <1>3, <1>5, <1>6 DEF Kept, Ranges, At
  <2> QED
    BY <1>6, <2>1, <2>2, <2>3, <2>4 DEF Ranges
<1>8. ASSUME Quiet' PROVE OneSave' /\ NoToken' /\ Static' /\ Rotating'
  <2>1. Quiet /\ OneSave /\ NoToken /\ Static /\ Rotating
    BY <1>4, <1>8 DEF Kept, Quiet
  <2>2. OneSave'
    BY <1>1, <1>3, <1>4, <2>1 DEF OneSave, At, Saving, Text
  <2>3. NoToken' /\ Static'
    BY <1>1, <1>3, <1>4, <1>6, <2>1 DEF NoToken, Static, At, Known
  <2>4. Rotating'
    <3>1. CASE ~rotates
      BY <1>4, <3>1 DEF Rotating
    <3>2. CASE rotates /\ live = NoGrant
      BY <1>4, <2>1, <3>2 DEF Rotating, NoToken
    <3>3. CASE rotates /\ live # NoGrant
      <4>1. auth[p].refresh = live /\ live' = granted' /\ a.rotated
        BY <1>1, <1>4, <2>1, <3>3 DEF Rotating, At
      <4>2. \A q \in Client : q # p => ~InFlight(q)
        BY <2>1, <3>3, <4>1 DEF Rotating
      <4>3. \A q \in Client : auth[q].refresh # live'
        BY <1>6, <4>1 DEF Kept, Ranges
      <4>4. stored.refresh # live'
        BY <1>6, <4>1 DEF Kept, Ranges
      <4>5. \A q \in Client : q # p => ~InFlight(q)' /\ auth'[q].refresh # live'
        BY <1>3, <4>2, <4>3 DEF InFlight, At, Saving
      <4>6. InFlight(p)' /\ auth'[p].rotated /\ Newest(p)' = live'
        BY <1>1, <1>3, <4>1 DEF InFlight, Newest, At
      <4>7. \A q \in Client : At(q, "new")' \/ auth'[q].refresh # NoGrant'
        BY <1>1, <1>3, <1>6, <2>1, <3>3, <4>1 DEF Rotating, At
      <4>8. stored'.text = "whole" /\ stored'.refresh # NoGrant'
        BY <1>4, <1>6, <2>1, <3>3 DEF Rotating
      <4> QED
        BY <1>4, <4>4, <4>5, <4>6, <4>7, <4>8 DEF Rotating
    <3> QED
      BY <3>1, <3>2, <3>3
  <2> QED
    BY <2>2, <2>3, <2>4
<1> QED
  BY <1>7, <1>8 DEF Kept

\* The reply puts the new token in the object; from now on it is to be saved.
LEMMA ReplyKept ==
  ASSUME OAuthAssumption, Shape, Kept, NEW p \in Client, Reply(p)
  PROVE  Kept'
<1> DEFINE a == [auth[p] EXCEPT !.pc = "save", !.access = auth[p].reply,
                                !.refresh = IF auth[p].rotated THEN auth[p].reply ELSE @,
                                !.until = now + Lifetime - Margin, !.sure = TRUE]
<1>1. /\ DOMAIN a = Parts /\ a.pc = "save" /\ a.rotated = auth[p].rotated
      /\ a.refresh = IF auth[p].rotated THEN auth[p].reply ELSE auth[p].refresh
  BY DEF Shape, Parts
<1>2. Set(p, a)
  BY DEF Reply
<1> HIDE DEF a
<1>3. auth'[p] = a /\ \A q \in Client \ {p} : auth'[q] = auth[q]
  BY <1>1, <1>2, SetShape DEF Points
<1>4. UNCHANGED <<granted, live, rotates, stored, tmp, mishap>> /\ At(p, "reply")
      /\ (~overlap' => ~overlap /\ \A q \in Client \ {p} : ~Saving(q))
  BY DEF Reply
<1>5. a.refresh = Newest(p)
  BY <1>1, <1>4 DEF Newest
<1>6. Ranges'
  BY <1>1, <1>3, <1>4 DEF Kept, Ranges, Known, At
<1>7. ASSUME Quiet' PROVE OneSave' /\ NoToken' /\ Static' /\ Rotating'
  <2>1. /\ Quiet /\ OneSave /\ NoToken /\ Static /\ Rotating
        /\ \A q \in Client \ {p} : ~Saving(q)
    BY <1>4, <1>7 DEF Kept, Quiet
  <2>2. OneSave'
    BY <1>1, <1>3, <1>4, <2>1 DEF OneSave, At, Saving
  <2>3. NoToken' /\ Static'
    BY <1>1, <1>3, <1>4, <2>1 DEF NoToken, Static, At
  <2>4. \A q \in Client : InFlight(q)' <=> InFlight(q)
    BY <1>1, <1>3, <1>4 DEF InFlight, At, Saving
  <2>5. \A q \in Client : InFlight(q) => Newest(q)' = Newest(q) /\ auth'[q].rotated = auth[q].rotated
    BY <1>1, <1>3, <1>5 DEF Newest, At
  <2>6. Rotating'
    <3> SUFFICES ASSUME live # NoGrant, rotates PROVE Rotating'
      BY <1>4 DEF Rotating
    <3>1. InFlight(p) /\ Newest(p) = live
      BY <1>4, <2>1 DEF InFlight, Rotating
    <3>2. \A q \in Client \ {p} : auth'[q].refresh = auth[q].refresh /\ (At(q, "new")' <=> At(q, "new"))
      BY <1>3 DEF At
    <3>3. \A q \in Client \ {p} : ~InFlight(q)
      BY <2>1, <3>1 DEF Rotating
    <3> QED
      BY <1>3, <1>4, <1>5, <2>1, <2>4, <2>5, <3>1, <3>2, <3>3 DEF Rotating
  <2> QED
    BY <2>2, <2>3, <2>6
<1> QED
  BY <1>6, <1>7 DEF Kept

\* The one save writes the temporary file that it opened.
LEMMA SaveKept ==
  ASSUME OAuthAssumption, Shape, Kept, NEW p \in Client, OpenTmp(p) \/ WriteTmp(p)
  PROVE  Kept'
<1>1. PICK a : /\ Set(p, a) /\ DOMAIN a = Parts /\ a.rotated = auth[p].rotated
               /\ a.refresh = auth[p].refresh /\ a.access = auth[p].access /\ a.until = auth[p].until
               /\ \/ OpenTmp(p) /\ a.pc = "write" /\ a.target = "tmp"
                  \/ WriteTmp(p) /\ a.pc = "replace"
  <2>1. CASE OpenTmp(p)
    <3> DEFINE a == [auth[p] EXCEPT !.pc = "write", !.target = "tmp"]
    <3>1. /\ DOMAIN a = Parts /\ a.pc = "write" /\ a.target = "tmp" /\ a.rotated = auth[p].rotated
          /\ a.refresh = auth[p].refresh /\ a.access = auth[p].access /\ a.until = auth[p].until
      BY DEF Shape, Parts
    <3>2. Set(p, a)
      BY <2>1 DEF OpenTmp
    <3> HIDE DEF a
    <3> QED
      BY <2>1, <3>1, <3>2
  <2>2. CASE WriteTmp(p)
    <3> DEFINE a == [auth[p] EXCEPT !.pc = "replace"]
    <3>1. /\ DOMAIN a = Parts /\ a.pc = "replace" /\ a.rotated = auth[p].rotated
          /\ a.refresh = auth[p].refresh /\ a.access = auth[p].access /\ a.until = auth[p].until
      BY DEF Shape, Parts
    <3>2. Set(p, a)
      BY <2>2 DEF WriteTmp
    <3> HIDE DEF a
    <3> QED
      BY <2>2, <3>1, <3>2
  <2> QED
    BY <2>1, <2>2
<1>2. UNCHANGED <<granted, live, rotates, mishap, overlap>>
  BY DEF OpenTmp, WriteTmp
<1>3. auth'[p] = a /\ \A q \in Client \ {p} : auth'[q] = auth[q]
  BY <1>1, SetShape DEF Points
<1>4. At(p, "save") \/ At(p, "write")
  BY DEF OpenTmp, WriteTmp
<1>5. Ranges'
  <2>1. stored' \in {stored, Text(p), Torn} /\ tmp' \in {tmp, Text(p), Torn}
    BY DEF OpenTmp, WriteTmp
  <2>2. stored'.refresh \in Known /\ tmp'.refresh \in Known
    BY <2>1 DEF Kept, Ranges, Text, Torn, NoFile, Known
  <2> QED
    BY <1>1, <1>2, <1>3, <2>2 DEF Kept, Ranges, Known, At
<1>6. ASSUME Quiet' PROVE OneSave' /\ NoToken' /\ Static' /\ Rotating'
  <2>1. Quiet /\ OneSave /\ NoToken /\ Static /\ Rotating /\ Saving(p)
    BY <1>2, <1>4, <1>6 DEF Kept, Quiet, Saving, At
  <2>2. stored' = stored /\ Text(p)' = Text(p)
        /\ \/ auth'[p].pc = "write" /\ auth'[p].target = "tmp" /\ tmp' = Torn
           \/ auth'[p].pc = "replace" /\ tmp' = Text(p)
    <3>1. Text(p)' = Text(p)
      BY <1>1, <1>3 DEF Text
    <3>2. CASE OpenTmp(p) /\ a.pc = "write" /\ a.target = "tmp"
      BY <1>3, <3>1, <3>2 DEF OpenTmp
    <3>3. CASE WriteTmp(p) /\ a.pc = "replace"
      <4>1. auth[p].target = "tmp" /\ tmp.text = "torn"
        BY <2>1, <3>3 DEF OneSave, WriteTmp, Torn, NoFile
      <4>2. tmp' = Text(p) /\ stored' = stored
        BY <3>3, <4>1 DEF WriteTmp
      <4> QED
        BY <1>3, <3>1, <3>3, <4>2
    <3> QED
      BY <1>1, <3>2, <3>3
  <2>3. OneSave'
    BY <1>3, <2>1, <2>2 DEF OneSave, At, Saving
  <2>4. NoToken' /\ Static'
    BY <1>1, <1>2, <1>3, <1>4, <2>1, <2>2 DEF NoToken, Static, At
  <2>5. Rotating'
    BY <1>1, <1>2, <1>3, <1>4, <2>1, <2>2 DEF Rotating, InFlight, Newest, At, Saving
  <2> QED
    BY <2>3, <2>4, <2>5
<1> QED
  BY <1>5, <1>6 DEF Kept

\* The rename puts the new token where a restart looks for it.
LEMMA ReplaceKept ==
  ASSUME OAuthAssumption, Shape, Kept, NEW p \in Client, ReplaceFile(p)
  PROVE  Kept'
<1> DEFINE a == [auth[p] EXCEPT !.pc = "ready", !.target = "none"]
<1>1. a.pc = "ready" /\ a.rotated = auth[p].rotated /\ a.refresh = auth[p].refresh
  BY DEF Shape, Parts
<1>2. \A q \in Client \ {p} : LET b == Renamed(auth[q]) IN
         /\ b.pc = auth[q].pc /\ b.refresh = auth[q].refresh /\ b.rotated = auth[q].rotated
         /\ b.reply = auth[q].reply
  BY DEF Shape, Parts, Renamed
<1>3. auth' = [q \in Client |-> IF q = p THEN a ELSE Renamed(auth[q])]
  BY DEF ReplaceFile
<1> HIDE DEF a
<1>4. /\ auth'[p].pc = "ready" /\ auth'[p].rotated = auth[p].rotated /\ auth'[p].refresh = auth[p].refresh
      /\ \A q \in Client \ {p} :
           /\ auth'[q].pc = auth[q].pc /\ auth'[q].refresh = auth[q].refresh
           /\ auth'[q].rotated = auth[q].rotated /\ auth'[q].reply = auth[q].reply
  BY <1>1, <1>2, <1>3
<1>5. UNCHANGED <<granted, live, rotates, mishap, overlap>> /\ stored' = tmp /\ tmp' = NoFile
      /\ At(p, "replace")
  BY DEF ReplaceFile
<1>6. Ranges'
  BY <1>4, <1>5 DEF Kept, Ranges, Known, At, NoFile
<1>7. ASSUME Quiet' PROVE OneSave' /\ NoToken' /\ Static' /\ Rotating'
  <2>1. Quiet /\ OneSave /\ NoToken /\ Static /\ Rotating /\ Saving(p) /\ InFlight(p)
    BY <1>5, <1>7 DEF Kept, Quiet, Saving, At, InFlight
  <2>2. stored'.text = "whole" /\ stored'.refresh = auth[p].refresh
    BY <1>5, <2>1 DEF OneSave, Text
  <2>3. \A q \in Client \ {p} : ~Saving(q)
    BY <2>1 DEF OneSave
  <2>4. OneSave'
    BY <1>4, <2>2, <2>3 DEF OneSave, At, Saving
  <2>5. NoToken' /\ Static'
    BY <1>4, <1>5, <2>1, <2>2 DEF NoToken, Static, At
  <2>6. Rotating'
    <3> SUFFICES ASSUME live # NoGrant, rotates PROVE Rotating'
      BY <1>5 DEF Rotating
    <3>1. auth[p].refresh = live /\ \A q \in Client \ {p} : ~InFlight(q)
      BY <1>5, <2>1 DEF Rotating, Newest, At
    <3>2. \A q \in Client : ~InFlight(q)'
      BY <1>4, <3>1 DEF InFlight, At, Saving
    <3> QED
      BY <1>4, <1>5, <2>1, <2>2, <3>1, <3>2 DEF Rotating, At
  <2> QED
    BY <2>4, <2>5, <2>6
<1> QED
  BY <1>6, <1>7 DEF Kept

LEMMA NextKept == ASSUME OAuthAssumption PROVE Shape /\ Kept /\ [TokenNext]_tokenVars => Kept'
<1> SUFFICES ASSUME Shape, Kept, [TokenNext]_tokenVars PROVE Kept'
  OBVIOUS
<1>1. ASSUME NEW p \in Client, TokenStep(p) PROVE Kept'
  BY <1>1, QuietKept, LoadKept, GrantKept, ReplyKept, SaveKept, ReplaceKept DEF TokenStep
<1>2. CASE Tick \/ UNCHANGED tokenVars
  <2>1. UNCHANGED <<granted, live, rotates, stored, tmp, mishap, overlap, auth>>
    BY <1>2 DEF Tick, tokenVars
  <2>2. Ranges'
    BY <2>1 DEF Kept, Ranges, Known, At
  <2>3. Quiet' => OneSave' /\ NoToken' /\ Static' /\ Rotating'
    BY <2>1 DEF Kept, Quiet, OneSave, NoToken, Static, Rotating, InFlight, Newest, At, Saving, Text
  <2> QED
    BY <2>2, <2>3 DEF Kept
<1> QED
  BY <1>1, <1>2 DEF TokenNext

\* The token file keeps the refresh token that the provider takes, as long as
\* no new one is lost on its way and no two saves meet (auth.py:85-95, 139).
THEOREM RefreshTheorem == ASSUME OAuthAssumption PROVE TokenSpec => []RefreshTokenKept
<1>1. Kept => RefreshTokenKept
  <2> SUFFICES ASSUME Kept, \A p \in Client : ~At(p, "reply") /\ ~Saving(p), ~mishap, ~overlap
               PROVE  stored.refresh = live /\ stored.text # "torn"
    BY DEF RefreshTokenKept
  <2>1. OneSave /\ NoToken /\ Static /\ Rotating
    BY DEF Kept, Quiet
  <2> QED
    BY <2>1 DEF OneSave, NoToken, Static, Rotating, InFlight
<1>2. TokenInit => SureInv /\ Kept
  BY InitSure, InitKept
<1>3. SureInv /\ Kept /\ [TokenNext]_tokenVars => SureInv' /\ Kept'
  BY NextSure, NextKept DEF SureInv
<1> QED
  BY <1>1, <1>2, <1>3, PTL DEF TokenSpec
=============================================================================
