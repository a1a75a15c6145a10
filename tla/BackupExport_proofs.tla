------------------------ MODULE BackupExport_proofs ------------------------
(***************************************************************************)
(* Proofs about the copies of data that others make while it changes: a    *)
(* backup, for any SQLite files, pages and commits, and devices.csv, for   *)
(* any raw records and exports.                                            *)
(***************************************************************************)
EXTENDS Backup, Export, WellFoundedInduction, SequenceTheorems, TLAPS

----------------------------------------------------------------------------
(* The backup.                                                             *)

Whole(commit) == [i \in PageNumbers |-> commit]

\* A file whose log is empty has its last commit in every page; a log ends in
\* the last commit.
Contents ==
  \A f \in Files :
    /\ log[f] = 0 => pages[f] = Whole(commits[f])
    /\ log[f] # 0 => log[f] = commits[f]

\* Nobody has a quiet file open, and its log is empty unless its checkpoint is
\* still to come.
Quiet ==
  \A f \in quiet :
    /\ f \notin open
    /\ log[f] = 0 \/ (stage = "checkpoint" /\ f \in todo)

\* What is copied of a quiet file is of its last commit; a listed file is
\* copied to its end, and is not copied again.
Copied ==
  /\ stage \in {"idle", "checkpoint"} => listed = {} /\ \A f \in Files : copy[f] = <<>>
  /\ \A f \in quiet : \A i \in 1 .. Len(copy[f]) : copy[f][i] = commits[f]
  /\ \A f \in listed : Len(copy[f]) = Pages /\ f \notin todo

\* The inductive invariant of the backup.
BackupInv == BackupTypeOK /\ Contents /\ Quiet /\ Copied

LEMMA InitBackup == ASSUME BackupAssumption PROVE BackupInit => BackupInv
<1> SUFFICES ASSUME BackupInit PROVE BackupInv
  OBVIOUS
<1>1. MaxCommits \in Nat /\ Pages \in Nat
  BY DEF BackupAssumption
<1>2. BackupTypeOK
  <2>1. copy \in [Files -> Seq(0 .. MaxCommits)] /\ \A f \in Files : Len(copy[f]) <= Pages
    BY <1>1 DEF BackupInit
  <2>2. 0 \in 0 .. MaxCommits
    BY <1>1
  <2> QED
    BY <2>1, <2>2 DEF BackupInit, BackupTypeOK
<1>3. Contents /\ Quiet /\ Copied
  BY DEF BackupInit, Contents, Whole, Quiet, Copied
<1> QED
  BY <1>2, <1>3 DEF BackupInv

\* What a checkpoint makes of the pages.
LEMMA CheckpointLemma ==
  ASSUME BackupAssumption, BackupInv, NEW f \in Files
  PROVE  /\ Checkpointed(f) \in [Files -> [PageNumbers -> 0 .. MaxCommits]]
         /\ [log EXCEPT ![f] = 0] \in [Files -> 0 .. MaxCommits]
         /\ \A g \in Files \ {f} : [log EXCEPT ![f] = 0][g] = log[g] /\ Checkpointed(f)[g] = pages[g]
         /\ [log EXCEPT ![f] = 0][f] = 0
         /\ Checkpointed(f)[f] = Whole(commits[f])
<1>1. pages \in [Files -> [PageNumbers -> 0 .. MaxCommits]] /\ log \in [Files -> 0 .. MaxCommits]
  BY DEF BackupInv, BackupTypeOK
<1>2. 0 \in 0 .. MaxCommits
  BY DEF BackupAssumption
<1>3. log[f] # 0 => log[f] = commits[f]
  BY DEF BackupInv, Contents
<1>4. log[f] = 0 => pages[f] = Whole(commits[f])
  BY DEF BackupInv, Contents
<1>5. [i \in PageNumbers |-> log[f]] \in [PageNumbers -> 0 .. MaxCommits]
  BY <1>1
<1> QED
  BY <1>1, <1>2, <1>3, <1>4, <1>5 DEF Checkpointed, Whole

\* The pages and the log after a checkpoint of f.
LEMMA AfterCheckpoint ==
  ASSUME BackupAssumption, BackupInv, NEW f \in Files,
         pages' = Checkpointed(f), log' = [log EXCEPT ![f] = 0], UNCHANGED commits
  PROVE  /\ pages' \in [Files -> [PageNumbers -> 0 .. MaxCommits]] /\ log' \in [Files -> 0 .. MaxCommits]
         /\ Contents'
         /\ log'[f] = 0 /\ \A g \in Files : log[g] = 0 => log'[g] = 0
<1>1. /\ pages' \in [Files -> [PageNumbers -> 0 .. MaxCommits]] /\ log' \in [Files -> 0 .. MaxCommits]
      /\ log'[f] = 0 /\ pages'[f] = Whole(commits[f])
      /\ \A g \in Files \ {f} : log'[g] = log[g] /\ pages'[g] = pages[g]
  BY CheckpointLemma
<1>2. Contents'
  BY <1>1 DEF Contents, BackupInv
<1> QED
  BY <1>1, <1>2

\* A writer's steps: a quiet file is closed, and opening one ends its quiet.
LEMMA WriterBackup ==
  ASSUME BackupAssumption, BackupInv, NEW f \in Files,
         OpenWriter(f) \/ Commit(f) \/ MovePage(f) \/ CloseWriter(f) \/ CrashWriter(f)
  PROVE  BackupInv'
<1>0. MaxCommits \in Nat /\ Pages \in Nat
  BY DEF BackupAssumption
<1>1. CASE OpenWriter(f) \/ CloseWriter(f)
  <2>1. pages' = Checkpointed(f) /\ log' = [log EXCEPT ![f] = 0] /\ UNCHANGED commits
    BY <1>1 DEF OpenWriter, CloseWriter
  <2>2. /\ pages' \in [Files -> [PageNumbers -> 0 .. MaxCommits]] /\ log' \in [Files -> 0 .. MaxCommits]
        /\ Contents'
        /\ \A g \in Files : log[g] = 0 => log'[g] = 0
    BY <2>1, AfterCheckpoint
  <2>3. /\ quiet' \subseteq quiet /\ open' \subseteq open \cup {f} /\ (f \in open' => f \notin quiet')
        /\ UNCHANGED <<commits, stage, todo, copy, listed>>
    BY <1>1 DEF OpenWriter, CloseWriter, Writer
  <2>4. BackupTypeOK'
    BY <2>2, <2>3 DEF BackupInv, BackupTypeOK
  <2>5. Quiet' /\ Copied'
    BY <2>2, <2>3 DEF BackupInv, BackupTypeOK, Quiet, Copied
  <2> QED
    BY <2>2, <2>4, <2>5 DEF BackupInv
<1>2. CASE Commit(f)
  <2> USE DEF BackupInv, Contents, Quiet, Copied, BackupTypeOK, Writer
  <2>1. commits'[f] = commits[f] + 1 /\ commits'[f] \in 0 .. MaxCommits /\ commits'[f] # 0
    BY <1>0, <1>2 DEF Commit
  <2>2. /\ commits' \in [Files -> 0 .. MaxCommits] /\ log' \in [Files -> 0 .. MaxCommits]
        /\ log'[f] = commits'[f]
        /\ \A g \in Files \ {f} : commits'[g] = commits[g] /\ log'[g] = log[g]
    BY <1>2, <2>1 DEF Commit
  <2> QED
    BY <1>2, <2>1, <2>2 DEF Commit
<1>3. CASE MovePage(f)
  <2> USE DEF BackupInv, BackupTypeOK
  <2>1. PICK i \in PageNumbers : pages' = [pages EXCEPT ![f][i] = log[f]]
    BY <1>3 DEF MovePage
  <2>2. log[f] \in 0 .. MaxCommits /\ log[f] # 0
    BY <1>3 DEF MovePage
  <2>3. pages' \in [Files -> [PageNumbers -> 0 .. MaxCommits]] /\ \A g \in Files \ {f} : pages'[g] = pages[g]
    BY <2>1, <2>2
  <2>4. BackupTypeOK' /\ Contents'
    BY <1>3, <2>2, <2>3 DEF MovePage, Contents, Writer
  <2>5. Quiet' /\ Copied'
    BY <1>3 DEF MovePage, Quiet, Copied, Writer
  <2> QED
    BY <2>4, <2>5
<1>4. CASE CrashWriter(f)
  BY <1>4 DEF CrashWriter, BackupInv, Contents, Quiet, Copied, BackupTypeOK, Writer
<1> QED
  BY <1>1, <1>2, <1>3, <1>4

\* create_backup up to the copies.
LEMMA BeginBackup ==
  ASSUME BackupAssumption, BackupInv, Start \/ BeginCopies \/ WriteManifest \/ \E f \in Files : Checkpoint(f)
  PROVE  BackupInv'
<1>1. CASE Start
  <2> USE DEF Start, BackupInv
  <2>1. BackupTypeOK' /\ Contents'
    BY <1>1 DEF BackupTypeOK, Contents, Files
  <2>2. ASSUME NEW f \in quiet' PROVE log'[f] = 0 \/ f \in todo'
    BY <1>1, <2>2 DEF Files
  <2>3. Quiet'
    BY <1>1, <2>2 DEF Quiet
  <2>4. Copied'
    BY <1>1 DEF Copied
  <2> QED
    BY <2>1, <2>3, <2>4
<1>2. CASE BeginCopies \/ WriteManifest
  BY <1>2 DEF BeginCopies, WriteManifest, BackupInv, Contents, Quiet, Copied, BackupTypeOK
<1>3. ASSUME NEW f \in Files, Checkpoint(f) PROVE BackupInv'
  <2>1. /\ stage = "checkpoint" /\ todo' = todo \ {f} /\ UNCHANGED <<commits, open, stage, copy, listed>>
        /\ quiet' \subseteq quiet
    BY <1>3 DEF Checkpoint
  <2>2. /\ pages' \in [Files -> [PageNumbers -> 0 .. MaxCommits]] /\ log' \in [Files -> 0 .. MaxCommits]
        /\ Contents'
        /\ (log'[f] = 0 \/ f \notin quiet') /\ \A g \in Files : log[g] = 0 => log'[g] = 0
    <3>1. CASE pages' = Checkpointed(f) /\ log' = [log EXCEPT ![f] = 0]
      BY <2>1, <3>1, AfterCheckpoint
    <3>2. CASE quiet' = quiet \ {f} /\ UNCHANGED <<pages, log>>
      BY <2>1, <3>2 DEF BackupInv, BackupTypeOK, Contents
    <3> QED
      BY <1>3, <3>1, <3>2 DEF Checkpoint
  <2>3. BackupTypeOK'
    BY <2>1, <2>2 DEF BackupInv, BackupTypeOK
  <2>4. Quiet' /\ Copied'
    BY <2>1, <2>2 DEF BackupInv, BackupTypeOK, Quiet, Copied
  <2> QED
    BY <2>2, <2>3, <2>4 DEF BackupInv
<1> QED
  BY <1>1, <1>2, <1>3

\* The copies.
LEMMA CopyBackup ==
  ASSUME BackupAssumption, BackupInv, NEW f \in Files, CopyPage(f) \/ EndCopy(f) \/ CopyFails(f)
  PROVE  BackupInv'
<1>0. MaxCommits \in Nat /\ Pages \in Nat
  BY DEF BackupAssumption
<1> USE DEF BackupInv, Contents, Quiet, Copied, BackupTypeOK, Turn
<1>1. CASE CopyPage(f)
  <2> DEFINE n == Len(copy[f])
             page == pages[f][n + 1]
  <2>1. n \in Nat /\ n + 1 \in PageNumbers /\ page \in 0 .. MaxCommits
    BY <1>0, <1>1 DEF CopyPage, PageNumbers
  <2>2. /\ copy'[f] = Append(copy[f], page) /\ \A g \in Files \ {f} : copy'[g] = copy[g]
    BY <1>1 DEF CopyPage
  <2>3. /\ copy'[f] \in Seq(0 .. MaxCommits) /\ Len(copy'[f]) = n + 1 /\ n + 1 <= Pages
        /\ copy'[f][n + 1] = page /\ \A i \in 1 .. n : copy'[f][i] = copy[f][i]
    BY <1>0, <1>1, <2>1, <2>2 DEF CopyPage
  <2>4. f \in quiet => page = commits[f]
    BY <1>1, <2>1 DEF CopyPage, Whole
  <2>5. ASSUME f \in quiet PROVE \A i \in 1 .. Len(copy'[f]) : copy'[f][i] = commits[f]
    <3>1. \A i \in 1 .. n : copy[f][i] = commits[f]
      BY <2>5
    <3>2. 1 .. n + 1 = (1 .. n) \cup {n + 1}
      BY <2>1
    <3> QED
      BY <2>3, <2>4, <2>5, <3>1, <3>2
  <2>6. /\ stage = "copy" /\ f \in todo /\ DOMAIN copy' = Files
        /\ UNCHANGED <<pages, log, commits, open, stage, todo, listed, quiet>>
    BY <1>1 DEF CopyPage
  <2>7. \A g \in Files : copy'[g] \in Seq(0 .. MaxCommits) /\ Len(copy'[g]) <= Pages
    BY <2>2, <2>3
  <2>8. copy' \in [Files -> Seq(0 .. MaxCommits)]
    <3>1. copy' = [g \in Files |-> copy'[g]]
      BY <1>1 DEF CopyPage
    <3> QED
      BY <2>7, <3>1
  <2>9. BackupTypeOK' /\ Contents' /\ Quiet'
    BY <2>6, <2>7, <2>8
  <2>10. Copied'
    <3>1. \A g \in listed : g \in Files \ {f} /\ Len(copy'[g]) = Pages
      BY <2>2, <2>6
    <3>2. ASSUME NEW g \in quiet PROVE \A i \in 1 .. Len(copy'[g]) : copy'[g][i] = commits[g]
      <4>1. CASE g = f
        BY <2>5, <3>2, <4>1
      <4>2. CASE g # f
        <5>1. copy'[g] = copy[g]
          BY <2>2, <3>2, <4>2
        <5> QED
          BY <3>2, <5>1
      <4> QED
        BY <4>1, <4>2
    <3> QED
      BY <2>6, <3>1, <3>2
  <2> QED
    BY <2>9, <2>10
<1>2. CASE EndCopy(f)
  BY <1>2 DEF EndCopy
<1>3. CASE CopyFails(f)
  BY <1>3 DEF CopyFails
<1> QED
  BY <1>1, <1>2, <1>3

LEMMA NextBackup == ASSUME BackupAssumption PROVE BackupInv /\ [BackupNext]_backupVars => BackupInv'
<1> SUFFICES ASSUME BackupInv, [BackupNext]_backupVars PROVE BackupInv'
  OBVIOUS
<1>1. CASE BackupNext
  BY <1>1, WriterBackup, BeginBackup, CopyBackup DEF BackupNext
<1>2. CASE UNCHANGED backupVars
  BY <1>2 DEF backupVars, BackupInv, Contents, Quiet, Copied, BackupTypeOK
<1> QED
  BY <1>1, <1>2

LEMMA SpecBackup == ASSUME BackupAssumption PROVE BackupSpec => []BackupInv
<1>1. BackupInit => BackupInv
  BY InitBackup
<1>2. BackupInv /\ [BackupNext]_backupVars => BackupInv'
  BY NextBackup
<1> QED
  BY <1>1, <1>2, PTL DEF BackupSpec

\* The variables have their types (cli/backup.py:45-138).
THEOREM BackupTypeCorrect == ASSUME BackupAssumption PROVE BackupSpec => []BackupTypeOK
<1>1. BackupInv => BackupTypeOK
  BY DEF BackupInv
<1> QED
  BY <1>1, SpecBackup, PTL

\* A file that is listed, and that nobody wrote meanwhile, is copied page for
\* page as of its last commit (cli/backup.py:57-97).
THEOREM QuietTheorem == ASSUME BackupAssumption PROVE BackupSpec => []QuietBackupIsComplete
<1>1. ASSUME BackupAssumption, BackupInv PROVE QuietBackupIsComplete
  <2> SUFFICES ASSUME NEW f \in listed \cap quiet PROVE copy[f] = [i \in PageNumbers |-> commits[f]]
    BY DEF QuietBackupIsComplete
  <2>1. copy[f] \in Seq(0 .. MaxCommits) /\ Len(copy[f]) = Pages
    BY <1>1 DEF BackupInv, BackupTypeOK, Copied
  <2>2. \A i \in 1 .. Pages : copy[f][i] = commits[f]
    BY <1>1, <2>1 DEF BackupInv, Copied
  <2> QED
    BY <2>1, <2>2 DEF PageNumbers
<1> QED
  BY <1>1, SpecBackup, PTL

----------------------------------------------------------------------------
(* devices.csv.                                                            *)

\* The tmp file is the last export that was written to its end, or a later one
\* that is torn.
Tmp ==
  csvTmp # Missing =>
    /\ csvTmp.at \in Nat /\ csvTmp.whole \in BOOLEAN /\ csvTmp.at > 0
    /\ IF csvTmp.whole THEN csvTmp.at = written ELSE csvTmp.at > written

\* devices.csv is whole, and it is the last export where there is no tmp file.
Csv ==
  csv # Missing =>
    /\ csv.at \in 1 .. written /\ csv.whole = TRUE
    /\ csvTmp = Missing => csv.at = written

\* Where the export under way is.
Exporting ==
  /\ exporting \in {"open", "write"} => written < export
  /\ exporting = "write" => csvTmp # Missing /\ csvTmp.whole = FALSE
  /\ exporting \in {"unlink", "rename"} => csvTmp # Missing /\ csvTmp.whole = TRUE

\* The inductive invariant of the export.
ExportInv == ExportTypeOK /\ Tmp /\ Csv /\ Exporting /\ SplinkReadsNewest

LEMMA ExportBound == ASSUME ExportAssumption PROVE MaxExports \in Nat
  BY Zenon DEF ExportAssumption

LEMMA InitExport == ASSUME ExportAssumption PROVE ExportInit => ExportInv
<1> SUFFICES ASSUME ExportInit PROVE ExportInv
  OBVIOUS
<1>1. ExportTypeOK
  BY ExportBound DEF ExportInit, ExportTypeOK
<1>2. Tmp /\ Csv /\ Exporting
  BY DEF ExportInit, Tmp, Csv, Exporting
<1>3. SplinkReadsNewest
  BY DEF ExportInit, SplinkReadsNewest, Unseen, Missing
<1> QED
  BY <1>1, <1>2, <1>3 DEF ExportInv

\* Splink reads the better of the two files.
LEMMA ReadsExport == ASSUME ExportAssumption, ExportInv, SplinkReads PROVE ExportInv'
<1> DEFINE read == IF csv = Missing \/ csvTmp.at > csv.at THEN csvTmp ELSE csv
<1>1. seen' = [file |-> read, latest |-> written]
  BY DEF SplinkReads
<1>2. written \in Nat
  BY ExportBound DEF ExportInv, ExportTypeOK
<1>3. Missing.at = 0
  BY DEF Missing
<1>4. read.at >= written /\ (read.at = written <=> read.whole)
  <2>1. CASE csv = Missing
    BY <1>2, <2>1 DEF SplinkReads, ExportInv, Tmp
  <2>2. CASE csv # Missing /\ csvTmp = Missing
    BY <1>2, <1>3, <2>2 DEF ExportInv, Csv
  <2>3. CASE csv # Missing /\ csvTmp # Missing
    BY <1>2, <2>3 DEF ExportInv, Csv, Tmp
  <2> QED
    BY <2>1, <2>2, <2>3
<1>5. seen' # Unseen
  <2>1. seen'.file = read /\ Unseen.file = Missing
    BY <1>1 DEF Unseen
  <2>2. read # Missing
    BY <1>3 DEF SplinkReads, ExportInv, Csv, Tmp
  <2> QED
    BY <2>1, <2>2
<1>6. SplinkReadsNewest'
  BY <1>1, <1>4, <1>5 DEF SplinkReadsNewest
<1> QED
  BY <1>6 DEF SplinkReads, ExportInv, ExportTypeOK, Tmp, Csv, Exporting

LEMMA StepExport ==
  ASSUME ExportAssumption, ExportInv,
         Ingest \/ ReadTables \/ OpenCsvTmp \/ WriteRows \/ UnlinkCsv \/ RenameTmp \/ SwapRefused \/ End \/ ExportCrash
  PROVE  ExportInv'
<1>0. MaxExports \in Nat /\ export \in 0 .. MaxExports /\ written \in 0 .. export
  BY ExportBound DEF ExportInv, ExportTypeOK
<1>1. SplinkReadsNewest'
  BY DEF ExportInv, SplinkReadsNewest, Ingest, ReadTables, OpenCsvTmp, WriteRows, UnlinkCsv, RenameTmp,
         SwapRefused, End, ExportCrash
<1> USE DEF ExportInv, ExportTypeOK, Tmp, Csv, Exporting
<1>2. CASE Ingest
  BY <1>1, <1>2 DEF Ingest
<1>3. CASE ReadTables
  BY <1>0, <1>1, <1>3 DEF ReadTables
<1>4. CASE OpenCsvTmp
  BY <1>0, <1>1, <1>4 DEF OpenCsvTmp, Missing
<1>5. CASE WriteRows
  BY <1>0, <1>1, <1>5 DEF WriteRows, Missing
<1>6. CASE UnlinkCsv
  BY <1>1, <1>6 DEF UnlinkCsv
<1>7. CASE RenameTmp
  BY <1>0, <1>1, <1>7 DEF RenameTmp
<1>8. CASE SwapRefused
  BY <1>1, <1>8 DEF SwapRefused
<1>9. CASE End
  BY <1>1, <1>9 DEF End
<1>10. CASE ExportCrash
  BY <1>1, <1>10 DEF ExportCrash
<1> QED
  BY <1>2, <1>3, <1>4, <1>5, <1>6, <1>7, <1>8, <1>9, <1>10

LEMMA NextExport == ASSUME ExportAssumption PROVE ExportInv /\ [ExportNext]_exportVars => ExportInv'
<1> SUFFICES ASSUME ExportInv, [ExportNext]_exportVars PROVE ExportInv'
  OBVIOUS
<1>1. CASE ExportNext
  BY <1>1, ReadsExport, StepExport DEF ExportNext
<1>2. CASE UNCHANGED exportVars
  BY <1>2 DEF exportVars, ExportInv, ExportTypeOK, Tmp, Csv, Exporting, SplinkReadsNewest
<1> QED
  BY <1>1, <1>2

LEMMA SpecExport == ASSUME ExportAssumption PROVE ExportSpec => []ExportInv
<1>1. ExportInit => ExportInv
  BY InitExport
<1>2. ExportInv /\ [ExportNext]_exportVars => ExportInv'
  BY NextExport
<1> QED
  BY <1>1, <1>2, PTL DEF ExportSpec

\* The variables have their types, and devices.csv is away while the tmp file
\* takes its place (export_for_splink.py:62-135).
THEOREM ExportTypeCorrect == ASSUME ExportAssumption PROVE ExportSpec => []ExportTypeOK
<1>1. ExportInv => ExportTypeOK
  BY DEF ExportInv
<1> QED
  BY <1>1, SpecExport, PTL

\* Splink reads the newest export that was written to its end, but for the torn
\* file of one that crashed (run_splink.py:12).
THEOREM NewestTheorem == ASSUME ExportAssumption PROVE ExportSpec => []SplinkReadsNewest
<1>1. ExportInv => SplinkReadsNewest
  BY DEF ExportInv
<1> QED
  BY <1>1, SpecExport, PTL

----------------------------------------------------------------------------
(* The rows.                                                               *)

LEMMA LeastNat == ASSUME NEW S \in SUBSET Nat, S # {} PROVE \E m \in S : \A x \in S : m <= x
<1> DEFINE Less == {p \in Nat \X Nat : p[1] < p[2]}
<1>1. Less = OpToRel(<, Nat)
  BY DEF OpToRel
<1>2. IsWellFoundedOn(Less, Nat)
  BY <1>1, NatLessThanWellFounded, Zenon
<1>3. \A x, y \in Nat : <<y, x>> \in Less <=> y < x
  OBVIOUS
<1> HIDE DEF Less
<1>4. PICK m \in S : \A y \in S : ~(<<y, m>> \in Less)
  BY <1>2, WFMin, Zenon
<1>5. ASSUME NEW y \in S PROVE m <= y
  <2>1. ~(y < m)
    BY <1>3, <1>4
  <2> QED
    BY <2>1
<1> QED
  BY <1>5

\* What the n-th text adds to a joined one.
Added(texts, left, joined, n) ==
  IF texts[n] \in left THEN joined
  ELSE IF joined = <<>> THEN texts[n]
  ELSE joined \o <<",">> \o texts[n]

LEMMA InRange == ASSUME NEW T, NEW q \in Seq(T), NEW i \in 1 .. Len(q) PROVE q[i] \in Range(q)
  BY DEF Range

\* Two sequences with something between them.
LEMMA Concat ==
  ASSUME NEW T, NEW c \in T, NEW s \in Seq(T), NEW t \in Seq(T)
  PROVE  s \o <<c>> \o t \in Seq(T) /\ Range(s \o <<c>> \o t) = Range(s) \cup {c} \cup Range(t)
<1> DEFINE u == s \o <<c>> \o t
<1>1. /\ u \in Seq(T) /\ Len(u) = Len(s) + 1 + Len(t) /\ u[Len(s) + 1] = c
      /\ \A i \in 1 .. Len(s) : u[i] = s[i]
      /\ \A i \in 1 .. Len(t) : u[Len(s) + 1 + i] = t[i]
  OBVIOUS
<1> HIDE DEF u
<1>2. ASSUME NEW i \in 1 .. Len(u) PROVE u[i] \in Range(s) \cup {c} \cup Range(t)
  <2>1. CASE i <= Len(s)
    BY <1>1, <2>1 DEF Range
  <2>2. CASE i = Len(s) + 1
    BY <1>1, <2>2
  <2>3. CASE i > Len(s) + 1
    <3>1. PICK k \in 1 .. Len(t) : i = Len(s) + 1 + k
      <4>1. i - Len(s) - 1 \in 1 .. Len(t) /\ i = Len(s) + 1 + (i - Len(s) - 1)
        BY <1>1, <2>3
      <4> QED
        BY <4>1
    <3>2. u[i] = t[k]
      BY <1>1, <3>1
    <3> QED
      BY <3>2 DEF Range
  <2> QED
    BY <1>1, <2>1, <2>2, <2>3
<1>3. ASSUME NEW i \in 1 .. Len(s) PROVE s[i] \in Range(u)
  <2>1. i \in 1 .. Len(u) /\ u[i] = s[i]
    BY <1>1
  <2>2. u[i] \in Range(u)
    BY <1>1, <2>1, InRange
  <2> QED
    BY <2>1, <2>2
<1>4. ASSUME NEW i \in 1 .. Len(t) PROVE t[i] \in Range(u)
  <2> DEFINE k == Len(s) + 1 + i
  <2>1. k \in 1 .. Len(u) /\ u[k] = t[i]
    BY <1>1
  <2> HIDE DEF k
  <2>2. u[k] \in Range(u)
    BY <1>1, <2>1, InRange
  <2> QED
    BY <2>1, <2>2
<1>5. c \in Range(u)
  <2> DEFINE k == Len(s) + 1
  <2>1. k \in 1 .. Len(u) /\ u[k] = c
    BY <1>1
  <2> HIDE DEF k
  <2>2. u[k] \in Range(u)
    BY <1>1, <2>1, InRange
  <2> QED
    BY <2>1, <2>2
<1>6. Range(u) \subseteq Range(s) \cup {c} \cup Range(t)
  BY <1>1, <1>2 DEF Range
<1>7. Range(s) \subseteq Range(u) /\ Range(t) \subseteq Range(u)
  BY <1>3, <1>4 DEF Range
<1>8. Range(u) = Range(s) \cup {c} \cup Range(t)
  BY <1>5, <1>6, <1>7
<1> QED
  BY <1>1, <1>8 DEF u

LEMMA TextConcat ==
  ASSUME ExportAssumption, NEW s \in RawText, NEW t \in RawText
  PROVE  s \o <<",">> \o t \in RawText /\ Range(s \o <<",">> \o t) = Range(s) \cup {","} \cup Range(t)
<1>1. "," \in Vocabulary
  BY Zenon DEF ExportAssumption
<1>2. s \in Seq(Vocabulary) /\ t \in Seq(Vocabulary)
  BY DEF RawText
<1>3. \A c \in Vocabulary : /\ s \o <<c>> \o t \in Seq(Vocabulary)
                            /\ Range(s \o <<c>> \o t) = Range(s) \cup {c} \cup Range(t)
  BY <1>2, Concat
<1> QED
  BY <1>1, <1>3, Zenon DEF RawText

LEMMA AddedType ==
  ASSUME ExportAssumption, NEW texts \in Seq(RawText), NEW left, NEW joined \in RawText, NEW n \in 1 .. Len(texts)
  PROVE  Added(texts, left, joined, n) \in RawText
<1>1. texts[n] \in RawText
  OBVIOUS
<1>2. joined \o <<",">> \o texts[n] \in RawText
  BY <1>1, TextConcat, Zenon
<1> QED
  BY <1>1, <1>2, Zenon DEF Added

\* The first m steps of a join.
Runs(g, texts, left, m) ==
  /\ g[0] = <<>>
  /\ \A n \in 1 .. m : g[n] = Added(texts, left, g[n - 1], n)

\* The recursion of Join has a solution: there is no least prefix without one.
LEMMA JoinExists ==
  ASSUME ExportAssumption, NEW texts \in Seq(RawText), NEW left
  PROVE  \E g \in [0 .. Len(texts) -> RawText] : Runs(g, texts, left, Len(texts))
<1> DEFINE Exists(m) == \E g \in [0 .. m -> RawText] : Runs(g, texts, left, m)
           Bad == {m \in 0 .. Len(texts) : ~Exists(m)}
<1>1. Len(texts) \in Nat
  OBVIOUS
<1>2. Exists(0)
  <2> DEFINE g == [n \in 0 .. 0 |-> <<>>]
  <2>0. <<>> \in RawText
    BY DEF RawText
  <2>1. g \in [0 .. 0 -> RawText] /\ g[0] = <<>>
    BY <2>0
  <2>2. 1 .. 0 = {}
    OBVIOUS
  <2> QED
    BY <2>1, <2>2 DEF Runs
<1>3. ASSUME NEW m \in 1 .. Len(texts), Exists(m - 1) PROVE Exists(m)
  <2>1. PICK g \in [0 .. m - 1 -> RawText] : Runs(g, texts, left, m - 1)
    BY <1>3
  <2> DEFINE h == [n \in 0 .. m |-> IF n = m THEN Added(texts, left, g[m - 1], m) ELSE g[n]]
  <2>2. Added(texts, left, g[m - 1], m) \in RawText
    <3>1. g[m - 1] \in RawText
      OBVIOUS
    <3> QED
      BY <3>1, AddedType
  <2>3. h \in [0 .. m -> RawText]
    BY <2>2
  <2>4. h[m] = Added(texts, left, g[m - 1], m) /\ \A n \in 0 .. m - 1 : h[n] = g[n]
    OBVIOUS
  <2> HIDE DEF h
  <2>5. h[0] = <<>>
    BY <2>1, <2>4 DEF Runs
  <2>6. ASSUME NEW n \in 1 .. m PROVE h[n] = Added(texts, left, h[n - 1], n)
    <3>1. h[n - 1] = g[n - 1]
      BY <2>4
    <3>2. CASE n = m
      BY <2>4, <3>1, <3>2
    <3>3. CASE n # m
      <4>1. n \in 1 .. m - 1 /\ n \in 0 .. m - 1
        BY <3>3
      <4> QED
        BY <2>1, <2>4, <3>1, <4>1 DEF Runs
    <3> QED
      BY <3>2, <3>3
  <2> QED
    BY <2>3, <2>5, <2>6 DEF Runs
<1> HIDE DEF Exists
<1>4. Bad = {}
  <2> SUFFICES ASSUME Bad # {} PROVE FALSE
    OBVIOUS
  <2>1. Bad \in SUBSET Nat
    BY <1>1
  <2>2. PICK m \in Bad : \A x \in Bad : m <= x
    BY <2>1, LeastNat
  <2>3. m \in 1 .. Len(texts) /\ m - 1 \in 0 .. Len(texts) /\ ~(m <= m - 1)
    BY <1>1, <1>2
  <2> QED
    BY <1>3, <2>2, <2>3
<1>5. Exists(Len(texts))
  BY <1>1, <1>4
<1> QED
  BY <1>5 DEF Exists

\* So Join is the last of its steps.
LEMMA JoinRuns ==
  ASSUME ExportAssumption, NEW texts \in Seq(RawText), NEW left
  PROVE  \E g : Runs(g, texts, left, Len(texts)) /\ Join(texts, left) = g[Len(texts)]
<1> DEFINE joined == CHOOSE j : j = [n \in 0 .. Len(texts) |->
             IF n = 0 THEN <<>>
             ELSE IF texts[n] \in left THEN j[n - 1]
             ELSE IF j[n - 1] = <<>> THEN texts[n]
             ELSE j[n - 1] \o <<",">> \o texts[n]]
<1>1. Join(texts, left) = joined[Len(texts)]
  BY Zenon DEF Join
<1>2. PICK g \in [0 .. Len(texts) -> RawText] : Runs(g, texts, left, Len(texts))
  BY JoinExists
<1>3. g = [n \in 0 .. Len(texts) |->
             IF n = 0 THEN <<>>
             ELSE IF texts[n] \in left THEN g[n - 1]
             ELSE IF g[n - 1] = <<>> THEN texts[n]
             ELSE g[n - 1] \o <<",">> \o texts[n]]
  <2> DEFINE h == [n \in 0 .. Len(texts) |-> IF n = 0 THEN <<>> ELSE Added(texts, left, g[n - 1], n)]
  <2>1. g = h
    BY <1>2 DEF Runs
  <2> QED
    BY <2>1, Zenon DEF h, Added
<1>4. joined = [n \in 0 .. Len(texts) |->
             IF n = 0 THEN <<>>
             ELSE IF texts[n] \in left THEN joined[n - 1]
             ELSE IF joined[n - 1] = <<>> THEN texts[n]
             ELSE joined[n - 1] \o <<",">> \o texts[n]]
  BY <1>3, Zenon
<1> HIDE DEF joined
<1>5. Runs(joined, texts, left, Len(texts))
  <2>1. joined = [n \in 0 .. Len(texts) |-> IF n = 0 THEN <<>> ELSE Added(texts, left, joined[n - 1], n)]
    BY <1>4, Zenon DEF Added
  <2>2. joined[0] = <<>>
    <3>1. 0 \in 0 .. Len(texts)
      OBVIOUS
    <3> QED
      BY <2>1, <3>1, Zenon
  <2>3. ASSUME NEW n \in 1 .. Len(texts) PROVE joined[n] = Added(texts, left, joined[n - 1], n)
    <3>1. n \in 0 .. Len(texts) /\ n # 0
      OBVIOUS
    <3> QED
      BY <2>1, <3>1, Zenon
  <2> QED
    BY <2>2, <2>3 DEF Runs
<1> QED
  BY <1>1, <1>5

LEMMA OneRange == ASSUME NEW c PROVE Range(<<c>>) = {c}
  BY DEF Range

LEMMA EmptyWords == Words(<<>>) = {}
  BY DEF Words, Range

LEMMA PlaceholderWords == \A t \in Placeholder : Words(t) = {}
<1>1. Words(<<"--">>) = {}
  BY OneRange DEF Words
<1> QED
  BY <1>1, EmptyWords, Zenon DEF Placeholder

LEMMA WordsOf ==
  ASSUME ExportAssumption
  PROVE  /\ Words(<<>>) = {}
         /\ \A t \in Placeholder : Words(t) = {}
         /\ \A s, t \in RawText : Words(s \o <<",">> \o t) = Words(s) \cup Words(t)
<1>1. Words(<<>>) = {}
  BY DEF Words, Range
<1>2. Words(<<"--">>) = {}
  BY OneRange DEF Words
<1>3. ASSUME NEW s \in RawText, NEW t \in RawText
      PROVE  Words(s \o <<",">> \o t) = Words(s) \cup Words(t)
  <2>1. Range(s \o <<",">> \o t) = Range(s) \cup {","} \cup Range(t)
    BY TextConcat
  <2> QED
    BY <2>1 DEF Words
<1> QED
  BY <1>1, <1>2, <1>3, Zenon DEF Placeholder

LEMMA UnionStep ==
  ASSUME NEW texts, NEW m \in Nat \ {0}
  PROVE  UNION {Words(texts[i]) : i \in 1 .. m} = (UNION {Words(texts[i]) : i \in 1 .. m - 1}) \cup Words(texts[m])
<1> DEFINE A == UNION {Words(texts[i]) : i \in 1 .. m}
           B == UNION {Words(texts[i]) : i \in 1 .. m - 1}
<1>1. \A i : i \in 1 .. m <=> i \in 1 .. m - 1 \/ i = m
  OBVIOUS
<1>2. \A w : w \in A <=> \E i \in 1 .. m : w \in Words(texts[i])
  BY Zenon
<1>3. \A w : w \in B <=> \E i \in 1 .. m - 1 : w \in Words(texts[i])
  BY Zenon
<1> HIDE DEF A, B
<1>4. \A w : w \in A <=> w \in B \/ w \in Words(texts[m])
  BY <1>1, <1>2, <1>3, Zenon
<1>5. A = B \cup Words(texts[m])
  BY <1>4
<1> QED
  BY <1>5 DEF A, B

\* A joined text has the words of the texts that were joined, all of them and no
\* others, however many there are and whatever they are (walker.py:44-88).
THEOREM JoinWords ==
  ASSUME ExportAssumption, NEW texts \in Seq(RawText), NEW left \in SUBSET Placeholder
  PROVE  /\ Join(texts, left) \in RawText
         /\ Words(Join(texts, left)) = UNION {Words(texts[i]) : i \in 1 .. Len(texts)}
<1>1. PICK g : Runs(g, texts, left, Len(texts)) /\ Join(texts, left) = g[Len(texts)]
  BY JoinRuns
<1> DEFINE Good(m) == g[m] \in RawText /\ Words(g[m]) = UNION {Words(texts[i]) : i \in 1 .. m}
           Bad == {m \in 0 .. Len(texts) : ~Good(m)}
<1>2. Len(texts) \in Nat
  OBVIOUS
<1>3. Good(0)
  <2>1. <<>> \in RawText
    BY DEF RawText
  <2>4. Words(<<>>) = {}
    BY WordsOf
  <2>5. 1 .. 0 = {}
    OBVIOUS
  <2>2. g[0] = <<>>
    BY <1>1 DEF Runs
  <2>3. UNION {Words(texts[i]) : i \in 1 .. 0} = {}
    BY <2>5, Zenon
  <2> QED
    BY <2>1, <2>2, <2>3, <2>4, Zenon
<1>4. ASSUME NEW m \in 1 .. Len(texts), Good(m - 1) PROVE Good(m)
  <2> DEFINE before == g[m - 1]
             text == texts[m]
  <2>1. before \in RawText /\ text \in RawText
    BY <1>4
  <2>2. g[m] = Added(texts, left, before, m)
    BY <1>1 DEF Runs
  <2>3. g[m] \in RawText
    BY <2>1, <2>2, AddedType
  <2>4. Words(g[m]) = Words(before) \cup Words(text)
    <3>1. Added(texts, left, before, m) =
            IF text \in left THEN before ELSE IF before = <<>> THEN text ELSE before \o <<",">> \o text
      BY DEF Added
    <3> HIDE DEF before, text
    <3>2. CASE text \in left
      <4>1. Words(text) = {}
        BY <3>2, WordsOf
      <4> QED
        BY <2>2, <3>1, <3>2, <4>1
    <3>3. CASE text \notin left /\ before = <<>>
      <4>1. Words(before) = {}
        BY <3>3, WordsOf
      <4> QED
        BY <2>2, <3>1, <3>3, <4>1
    <3>4. CASE text \notin left /\ before # <<>>
      <4>1. Words(before \o <<",">> \o text) = Words(before) \cup Words(text)
        BY <2>1, WordsOf
      <4> QED
        BY <2>2, <3>1, <3>4, <4>1
    <3> QED
      BY <3>2, <3>3, <3>4
  <2>5. UNION {Words(texts[i]) : i \in 1 .. m} = (UNION {Words(texts[i]) : i \in 1 .. m - 1}) \cup Words(text)
    BY UnionStep
  <2>6. Words(before) = UNION {Words(texts[i]) : i \in 1 .. m - 1}
    BY <1>4
  <2> QED
    BY <2>3, <2>4, <2>5, <2>6
<1> HIDE DEF Good
<1>5. Bad = {}
  <2> SUFFICES ASSUME Bad # {} PROVE FALSE
    OBVIOUS
  <2>1. Bad \in SUBSET Nat
    BY <1>2
  <2>2. PICK m \in Bad : \A x \in Bad : m <= x
    BY <2>1, LeastNat
  <2>3. m \in 1 .. Len(texts) /\ m - 1 \in 0 .. Len(texts) /\ ~(m <= m - 1)
    BY <1>2, <1>3
  <2> QED
    BY <1>4, <2>2, <2>3
<1>6. Good(Len(texts))
  BY <1>2, <1>5
<1> QED
  BY <1>1, <1>6 DEF Good

\* A field of an anchor's spec.
IsField(field, f) ==
  /\ \E n \in Nat : DOMAIN field.paths = 1 .. n
  /\ field.transform \in {"", "lower", "mac", "first_of_list", "serial"}
  /\ field.transform = "serial" => f = "serial_number"
  /\ f \notin {"name_clean", "mac_clean", "name_fallback", "os_family"}

LEMMA FlatWords ==
  ASSUME ExportAssumption, NEW value \in RawValue
  PROVE  /\ Flat(value) \in RawText
         /\ \A left \in SUBSET Placeholder :
              Join(value.items, left) \in RawText /\ Words(Join(value.items, left)) = Words(Flat(value))
<1>1. value.items \in Seq(RawText)
  BY DEF RawValue
<1>2. {<<>>} \in SUBSET Placeholder /\ Placeholder \in SUBSET Placeholder
  BY DEF Placeholder
<1>3. PICK own \in SUBSET Placeholder : Flat(value) = Join(value.items, own)
  BY <1>2 DEF Flat
<1> QED
  BY <1>1, <1>3, JoinWords, Zenon

LEMMA FoundTexts ==
  ASSUME ExportAssumption, NEW record, record \in [DOMAIN record -> RawValue],
         NEW paths, NEW n \in Nat, DOMAIN paths = 1 .. n
  PROVE  /\ Found(record, paths) \in Seq(RawText) /\ DOMAIN Found(record, paths) = 1 .. n
         /\ \A i \in 1 .. n :
              Found(record, paths)[i] =
                IF paths[i] \in DOMAIN record THEN Join(record[paths[i]].items, Placeholder) ELSE <<>>
<1> DEFINE found == Found(record, paths)
<1>1. found = [i \in 1 .. n |->
                 IF paths[i] \in DOMAIN record THEN Join(record[paths[i]].items, Placeholder) ELSE <<>>]
  BY DEF Found
<1>2. ASSUME NEW i \in 1 .. n PROVE found[i] \in RawText
  <2>1. CASE paths[i] \in DOMAIN record
    <3>1. record[paths[i]] \in RawValue
      BY <2>1
    <3>2. Join(record[paths[i]].items, Placeholder) \in RawText
      BY <3>1, FlatWords
    <3> QED
      BY <1>1, <2>1, <3>2
  <2>2. CASE paths[i] \notin DOMAIN record
    <3>1. <<>> \in RawText
      BY DEF RawText
    <3> QED
      BY <1>1, <2>2, <3>1
  <2> QED
    BY <2>1, <2>2
<1>3. DOMAIN found = 1 .. n
  BY <1>1
<1>4. \A i \in 1 .. n :
        found[i] = IF paths[i] \in DOMAIN record THEN Join(record[paths[i]].items, Placeholder) ELSE <<>>
  BY <1>1
<1> HIDE DEF found
<1>5. found \in [1 .. n -> RawText]
  <2>1. found = [i \in 1 .. n |-> found[i]]
    BY <1>1
  <2> QED
    BY <1>2, <2>1
<1>6. found \in Seq(RawText)
  BY <1>5
<1> QED
  BY <1>3, <1>4, <1>6 DEF found

\* A value of several paths stays in its first place.
Distinct(found) ==
  [i \in DOMAIN found |-> IF \E j \in 1 .. i - 1 : found[j] = found[i] THEN <<>> ELSE found[i]]

LEMMA DistinctTexts ==
  ASSUME NEW found \in Seq(RawText)
  PROVE  /\ Distinct(found) \in Seq(RawText)
         /\ \A i \in DOMAIN found : \E j \in 1 .. Len(Distinct(found)) : Distinct(found)[j] = found[i]
         /\ \A j \in 1 .. Len(Distinct(found)) :
              Distinct(found)[j] = <<>> \/ \E i \in DOMAIN found : Distinct(found)[j] = found[i]
<1>1. Len(found) \in Nat /\ DOMAIN found = 1 .. Len(found)
  OBVIOUS
<1> DEFINE distinct == Distinct(found)
<1>2. distinct = [i \in 1 .. Len(found) |-> IF \E j \in 1 .. i - 1 : found[j] = found[i] THEN <<>> ELSE found[i]]
  BY <1>1 DEF Distinct
<1>3. distinct \in [1 .. Len(found) -> RawText]
  <2>1. <<>> \in RawText
    BY DEF RawText
  <2>2. \A i \in 1 .. Len(found) : found[i] \in RawText
    BY <1>1
  <2> QED
    BY <1>2, <2>1, <2>2
<1>4. distinct \in Seq(RawText) /\ Len(distinct) = Len(found)
  BY <1>1, <1>3
<1>5. ASSUME NEW i \in 1 .. Len(found) PROVE \E j \in 1 .. Len(found) : distinct[j] = found[i]
  <2> DEFINE Same == {j \in 1 .. Len(found) : found[j] = found[i]}
  <2>1. Same \in SUBSET Nat /\ Same # {}
    BY <1>1
  <2>2. PICK j \in Same : \A k \in Same : j <= k
    BY <2>1, LeastNat
  <2>3. ~ \E k \in 1 .. j - 1 : found[k] = found[j]
    BY <1>1, <2>2
  <2>4. distinct[j] = found[j]
    BY <1>2, <2>2, <2>3
  <2> QED
    BY <2>2, <2>4
<1>6. \A j \in 1 .. Len(found) : distinct[j] = <<>> \/ distinct[j] = found[j]
  BY <1>2
<1> HIDE DEF distinct
<1>7. \A j \in 1 .. Len(distinct) : distinct[j] = <<>> \/ \E i \in DOMAIN found : distinct[j] = found[i]
  BY <1>1, <1>4, <1>6
<1>8. \A i \in DOMAIN found : \E j \in 1 .. Len(distinct) : distinct[j] = found[i]
  BY <1>1, <1>4, <1>5
<1> QED
  BY <1>4, <1>7, <1>8 DEF distinct

\* What is extracted of a field, before its transform, has the words at its paths,
\* all of them and no others.
LEMMA ExtractedWords ==
  ASSUME ExportAssumption, NEW record, record \in [DOMAIN record -> RawValue],
         NEW spec, NEW n \in Nat, DOMAIN spec.paths = 1 .. n
  PROVE  \E result \in RawText :
           /\ ExtractField(record, spec) = IF result = <<>> THEN <<>> ELSE Transform(spec.transform, result)
           /\ Words(result) = WordsAt(record, Range(spec.paths))
<1> DEFINE found == Found(record, spec.paths)
           result == Join(Distinct(found), Placeholder)
<1>1. /\ found \in Seq(RawText) /\ DOMAIN found = 1 .. n
      /\ \A i \in 1 .. n :
           found[i] = IF spec.paths[i] \in DOMAIN record THEN Join(record[spec.paths[i]].items, Placeholder) ELSE <<>>
  BY FoundTexts
<1>2. ExtractField(record, spec) = IF result = <<>> THEN <<>> ELSE Transform(spec.transform, result)
  BY Zenon DEF ExtractField, Distinct
<1> HIDE DEF found
<1>3. /\ Distinct(found) \in Seq(RawText)
      /\ \A i \in DOMAIN found : \E j \in 1 .. Len(Distinct(found)) : Distinct(found)[j] = found[i]
      /\ \A j \in 1 .. Len(Distinct(found)) :
           Distinct(found)[j] = <<>> \/ \E i \in DOMAIN found : Distinct(found)[j] = found[i]
  BY <1>1, DistinctTexts
<1> DEFINE distinct == Distinct(found)
<1> HIDE DEF distinct
<1>4. /\ result \in RawText
      /\ Words(result) = UNION {Words(distinct[i]) : i \in 1 .. Len(distinct)}
  BY <1>3, JoinWords DEF distinct
<1> HIDE DEF result
<1>5. ASSUME NEW p \in Range(spec.paths) \cap DOMAIN record PROVE Words(Flat(record[p])) \subseteq Words(result)
  <2>1. PICK i \in 1 .. n : spec.paths[i] = p
    BY DEF Range
  <2>2. found[i] = Join(record[p].items, Placeholder)
    BY <1>1, <2>1
  <2>3. record[p] \in RawValue
    OBVIOUS
  <2>4. Words(found[i]) = Words(Flat(record[p]))
    BY <2>2, <2>3, FlatWords
  <2>5. PICK j \in 1 .. Len(distinct) : distinct[j] = found[i]
    BY <1>1, <1>3 DEF distinct
  <2>6. Words(distinct[j]) \subseteq UNION {Words(distinct[k]) : k \in 1 .. Len(distinct)}
    BY Zenon
  <2> QED
    BY <1>4, <2>4, <2>5, <2>6
<1>6. ASSUME NEW j \in 1 .. Len(distinct) PROVE Words(distinct[j]) \subseteq WordsAt(record, Range(spec.paths))
  <2>1. CASE distinct[j] = <<>>
    BY <2>1, EmptyWords
  <2>2. CASE \E i \in 1 .. n : distinct[j] = found[i] /\ spec.paths[i] \in DOMAIN record
    <3>1. PICK i \in 1 .. n : distinct[j] = found[i] /\ spec.paths[i] \in DOMAIN record
      BY <2>2
    <3>2. PICK p : p = spec.paths[i]
      OBVIOUS
    <3>3. p \in Range(spec.paths) \cap DOMAIN record /\ record[p] \in RawValue
      BY <3>1, <3>2 DEF Range
    <3>4. distinct[j] = Join(record[p].items, Placeholder)
      BY <1>1, <3>1, <3>2
    <3>5. Words(distinct[j]) = Words(Flat(record[p]))
      BY <3>3, <3>4, FlatWords
    <3> QED
      BY <3>3, <3>5, Zenon DEF WordsAt
  <2> QED
    BY <1>1, <1>3, <2>1, <2>2 DEF distinct
<1>7. Words(result) = WordsAt(record, Range(spec.paths))
  <2>1. WordsAt(record, Range(spec.paths)) \subseteq Words(result)
    BY <1>5, Zenon DEF WordsAt
  <2>2. Words(result) \subseteq WordsAt(record, Range(spec.paths))
    <3> DEFINE all == UNION {Words(distinct[i]) : i \in 1 .. Len(distinct)}
    <3>1. all \subseteq WordsAt(record, Range(spec.paths))
      BY <1>6, Zenon
    <3> QED
      BY <1>4, <3>1
  <2> QED
    BY <2>1, <2>2
<1> QED
  BY <1>2, <1>4, <1>7

LEMMA TailRange ==
  ASSUME NEW T, NEW t \in Seq(T), t # <<>>
  PROVE  /\ Tail(t) \in Seq(T)
         /\ Range(t) \subseteq {Head(t)} \cup Range(Tail(t))
         /\ Range(Tail(t)) \subseteq Range(t)
<1>1. Len(t) \in Nat /\ Len(t) > 0
  OBVIOUS
<1>2. /\ Tail(t) \in Seq(T) /\ Len(Tail(t)) = Len(t) - 1 /\ Head(t) = t[1]
      /\ \A i \in 1 .. Len(t) - 1 : Tail(t)[i] = t[i + 1]
  OBVIOUS
<1>3. ASSUME NEW i \in 1 .. Len(t), i # 1 PROVE t[i] \in Range(Tail(t))
  <2>1. i - 1 \in 1 .. Len(t) - 1 /\ (i - 1) + 1 = i
    BY <1>1, <1>3
  <2>2. Tail(t)[i - 1] = t[i]
    BY <1>2, <2>1
  <2>3. i - 1 \in DOMAIN Tail(t)
    BY <1>2, <2>1
  <2> QED
    BY <2>2, <2>3 DEF Range
<1>4. ASSUME NEW i \in 1 .. Len(t) - 1 PROVE Tail(t)[i] \in Range(t)
  <2>1. i + 1 \in 1 .. Len(t) /\ Tail(t)[i] = t[i + 1]
    BY <1>1, <1>2
  <2> QED
    BY <2>1, InRange
<1> QED
  BY <1>1, <1>2, <1>3, <1>4 DEF Range

\* A placeholder has no words, and a serial number loses its prefix or that it is
\* a fill-in.
LEMMA NormalizedWords ==
  /\ \A t \in RawText : Words(StripSentinels(t)) = Words(t)
  /\ \A t \in RawText : /\ NormalizeSerial(t) \in RawText
                        /\ Words(t) \ {"SN-", "0000-..."} \subseteq Words(NormalizeSerial(t))
<1>1. ASSUME NEW t \in Placeholder PROVE Words(t) = {}
  BY PlaceholderWords
<1>2. ASSUME NEW t \in RawText PROVE Words(StripSentinels(t)) = Words(t)
  BY <1>1, EmptyWords DEF StripSentinels
<1>3. ASSUME NEW t \in RawText
      PROVE  NormalizeSerial(t) \in RawText /\ Words(t) \ {"SN-", "0000-..."} \subseteq Words(NormalizeSerial(t))
  <2>1. CASE t \in Placeholder \cup {<<"0000-...">>}
    <3>1. NormalizeSerial(t) = <<>>
      BY <2>1, Zenon DEF NormalizeSerial
    <3>2. <<>> \in RawText
      BY DEF RawText
    <3>3. Words(<<"0000-...">>) \subseteq {"0000-..."}
      BY OneRange DEF Words
    <3>4. Words(t) \subseteq {"0000-..."}
      BY <1>1, <2>1, <3>3, Zenon
    <3> QED
      BY <3>1, <3>2, <3>4
  <2>2. CASE t \notin Placeholder \cup {<<"0000-...">>} /\ Head(t) = "SN-"
    <3>1. NormalizeSerial(t) = Tail(t)
      BY <2>2, Zenon DEF NormalizeSerial
    <3>2. t # <<>> /\ t \in Seq(Vocabulary)
      BY <2>2 DEF Placeholder, RawText
    <3>3. Tail(t) \in Seq(Vocabulary) /\ Range(t) \subseteq {Head(t)} \cup Range(Tail(t))
      BY <3>2, TailRange
    <3>4. Range(t) \ {"SN-"} \subseteq Range(Tail(t))
      BY <2>2, <3>3
    <3> QED
      BY <3>1, <3>3, <3>4 DEF RawText, Words
  <2>3. CASE t \notin Placeholder \cup {<<"0000-...">>} /\ Head(t) # "SN-"
    BY <2>3, Zenon DEF NormalizeSerial
  <2> QED
    BY <2>1, <2>2, <2>3
<1> QED
  BY <1>2, <1>3

LEMMA PrefixRange ==
  ASSUME NEW T, NEW t \in Seq(T), NEW n \in 0 .. Len(t)
  PROVE  SubSeq(t, 1, n) \in Seq(T) /\ Range(SubSeq(t, 1, n)) \subseteq Range(t)
<1> DEFINE u == SubSeq(t, 1, n)
<1>1. u \in Seq(T) /\ Len(u) = n /\ \A i \in 1 .. n : u[i] = t[i]
  OBVIOUS
<1>2. n \in Nat /\ n <= Len(t)
  OBVIOUS
<1> HIDE DEF u
<1>3. ASSUME NEW i \in 1 .. Len(u) PROVE u[i] \in Range(t)
  <2>1. i \in 1 .. Len(t) /\ u[i] = t[i]
    BY <1>1, <1>2
  <2> QED
    BY <2>1, InRange
<1> QED
  BY <1>1, <1>3 DEF u, Range

LEMMA MinIn == ASSUME NEW S \in SUBSET Nat, S # {} PROVE Min(S) \in S
  BY LeastNat DEF Min

\* The normalisers take words away and add none.
Part(t, of) == t \in RawText /\ Words(t) \subseteq Words(of)

LEMMA PrefixPart == ASSUME NEW t \in RawText, NEW n \in 0 .. Len(t) PROVE Part(SubSeq(t, 1, n), t)
<1>1. t \in Seq(Vocabulary)
  BY DEF RawText
<1>2. SubSeq(t, 1, n) \in Seq(Vocabulary) /\ Range(SubSeq(t, 1, n)) \subseteq Range(t)
  BY <1>1, PrefixRange
<1> QED
  BY <1>2 DEF Part, RawText, Words

LEMMA EmptyPart == ASSUME NEW t PROVE Part(<<>>, t)
<1>1. <<>> \in RawText
  BY DEF RawText
<1> QED
  BY <1>1, EmptyWords DEF Part

LEMMA BeforePart == ASSUME NEW t \in RawText, NEW token PROVE Part(Before(t, token), t)
<1> DEFINE places == {i \in 1 .. Len(t) : t[i] = token}
           at == IF places # {} THEN Min(places) ELSE 0
<1>1. Before(t, token) = IF at = 0 THEN t ELSE SubSeq(t, 1, at - 1)
  BY Zenon DEF Before, SelectInSeq
<1>2. Len(t) \in Nat
  BY DEF RawText
<1>3. places # {} => Min(places) \in places
  BY <1>2, MinIn
<1>4. at = 0 \/ at - 1 \in 0 .. Len(t)
  BY <1>2, <1>3
<1> HIDE DEF at
<1>5. CASE at = 0
  BY <1>1, <1>5 DEF Part
<1>6. CASE at # 0
  BY <1>1, <1>4, <1>6, PrefixPart
<1> QED
  BY <1>5, <1>6

LEMMA NormalizeParts ==
  ASSUME NEW t \in RawText
  PROVE  /\ Part(StripSentinels(t), t)
         /\ Part(NormalizeName(t), t)
         /\ Part(NormalizeMac(t), t)
         /\ Part(NormalizeSerial(t), t)
<1>1. t \in Seq(Vocabulary) /\ Len(t) \in Nat /\ DOMAIN t = 1 .. Len(t)
  BY DEF RawText
<1>2. Part(t, t)
  BY DEF Part
<1>3. Part(StripSentinels(t), t)
  BY <1>2, EmptyPart DEF StripSentinels
<1>4. Part(NormalizeName(t), t)
  <2> DEFINE label == Before(t, ".")
  <2>1. Part(label, t)
    BY BeforePart
  <2>2. Part(Front(label), t)
    <3>1. label \in RawText /\ Len(label) \in Nat
      BY <2>1 DEF Part, RawText
    <3> HIDE DEF label
    <3>2. CASE label = <<>>
      <4>1. Front(label) = <<>>
        BY <3>2 DEF Front
      <4> QED
        BY <4>1, EmptyPart
    <3>3. CASE label # <<>>
      <4>1. Len(label) - 1 \in 0 .. Len(label)
        BY <3>1, <3>3 DEF RawText
      <4>2. Part(Front(label), label)
        BY <3>1, <4>1, PrefixPart DEF Front
      <4> QED
        BY <2>1, <4>2 DEF Part
    <3> QED
      BY <3>2, <3>3
  <2>3. NormalizeName(t) \in {<<>>, label, Front(label)}
    BY Zenon DEF NormalizeName
  <2> QED
    BY <2>1, <2>2, <2>3, EmptyPart, Zenon
<1>5. Part(NormalizeMac(t), t)
  <2> DEFINE valid == {i \in DOMAIN t : /\ t[i] \in MACs
                                        /\ i > 1 => t[i - 1] = ","
                                        /\ i < Len(t) => t[i + 1] = ","}
  <2>1. NormalizeMac(t) = IF valid = {} THEN <<>> ELSE <<t[Min(valid)]>>
    BY Zenon DEF NormalizeMac
  <2>2. valid # {} => Min(valid) \in 1 .. Len(t)
    <3>1. valid \subseteq DOMAIN t
      BY Zenon
    <3> HIDE DEF valid
    <3>2. 1 .. Len(t) \subseteq Nat
      OBVIOUS
    <3> QED
      BY <1>1, <3>1, <3>2, MinIn
  <2> HIDE DEF valid
  <2>3. ASSUME valid # {} PROVE Part(<<t[Min(valid)]>>, t)
    <3>1. PICK i \in 1 .. Len(t) : i = Min(valid)
      BY <2>2, <2>3
    <3>2. t[i] \in Range(t) /\ <<t[i]>> \in Seq(Vocabulary)
      BY <1>1, InRange
    <3>3. Range(<<t[i]>>) = {t[i]}
      BY OneRange
    <3> QED
      BY <3>1, <3>2, <3>3 DEF Part, Words, RawText
  <2> QED
    BY <2>1, <2>3, EmptyPart
<1>6. Part(NormalizeSerial(t), t)
  <2>1. CASE NormalizeSerial(t) = <<>>
    BY <2>1, EmptyPart
  <2>2. CASE NormalizeSerial(t) = t
    BY <1>2, <2>2
  <2>3. CASE NormalizeSerial(t) = Tail(t) /\ t # <<>>
    <3>1. Tail(t) \in Seq(Vocabulary) /\ Range(Tail(t)) \subseteq Range(t)
      BY <1>1, <2>3, TailRange
    <3> QED
      BY <2>3, <3>1 DEF Part, Words, RawText
  <2> QED
    BY <2>1, <2>2, <2>3 DEF NormalizeSerial, Placeholder
<1> QED
  BY <1>3, <1>4, <1>5, <1>6

LEMMA TransformParts ==
  ASSUME NEW t \in RawText, NEW name
  PROVE  Part(Transform(name, t), t)
<1>1. /\ Part(t, t) /\ Part(Before(t, ","), t)
      /\ Part(NormalizeMac(t), t) /\ Part(NormalizeSerial(t), t)
  BY BeforePart, NormalizeParts DEF Part
<1>2. Transform(name, t) \in {t, Before(t, ","), NormalizeMac(t), NormalizeSerial(t)}
  BY Zenon DEF Transform
<1> QED
  BY <1>1, <1>2, Zenon

IsFeed(feed) == \A f \in DOMAIN feed.spec : IsField(feed.spec[f], f)

\* What the walk has for a field that normalize_record looks at.
FieldOf(record, feed, f) == IF f \in DOMAIN feed.spec THEN ExtractField(record, feed.spec[f]) ELSE <<>>

\* The columns of a row, one by one.
LEMMA RowColumns ==
  ASSUME NEW record, NEW feed
  PROVE  /\ DOMAIN Row(record, feed) =
              DOMAIN feed.spec \cup {"source_id", "serial_number", "name_clean", "mac_clean", "name_fallback"}
         /\ Row(record, feed)["source_id"] = SourceId(record, feed)
         /\ Row(record, feed)["serial_number"] =
              StripSentinels(NormalizeSerial(FieldOf(record, feed, "serial_number")))
         /\ Row(record, feed)["name_clean"] = NormalizeName(FieldOf(record, feed, "name"))
         /\ Row(record, feed)["mac_clean"] = NormalizeMac(FieldOf(record, feed, "mac_address"))
         /\ Row(record, feed)["name_fallback"] \in {<<>>, NormalizeName(FieldOf(record, feed, "name"))}
         /\ \A f \in DOMAIN feed.spec
                      \ {"source_id", "serial_number", "name_clean", "mac_clean", "name_fallback"} :
              Row(record, feed)[f] = StripSentinels(FieldOf(record, feed, f))
<1> DEFINE rec == WalkFeed(record, feed)
           row == Row(record, feed)
           field(f) == IF f \in DOMAIN rec THEN rec[f] ELSE <<>>
           serial == NormalizeSerial(field("serial_number"))
           name == NormalizeName(field("name"))
           mac == NormalizeMac(field("mac_address"))
           fallback == IF serial = <<>> /\ mac = <<>> THEN name ELSE <<>>
           Named == {"source_id", "serial_number", "name_clean", "mac_clean", "name_fallback"}
<1>1. rec = [f \in DOMAIN feed.spec \cup {"source_id"} |->
               IF f = "source_id" THEN SourceId(record, feed) ELSE ExtractField(record, feed.spec[f])]
  BY Zenon DEF WalkFeed
<1>2. row = [c \in DOMAIN rec \cup {"serial_number", "name_clean", "mac_clean", "name_fallback"} |->
               CASE c = "source_id" -> rec[c]
                 [] c = "serial_number" -> StripSentinels(serial)
                 [] c = "name_clean" -> name
                 [] c = "mac_clean" -> mac
                 [] c = "name_fallback" -> fallback
                 [] OTHER -> StripSentinels(rec[c])]
  BY Zenon DEF Row, NormalizeRecord
<1> HIDE DEF rec
<1>3. DOMAIN rec = DOMAIN feed.spec \cup {"source_id"}
  BY <1>1, Zenon
<1>4. ASSUME NEW f, f # "source_id" PROVE field(f) = FieldOf(record, feed, f)
  BY <1>1, <1>3, <1>4 DEF FieldOf
<1>5. /\ serial = NormalizeSerial(FieldOf(record, feed, "serial_number"))
      /\ name = NormalizeName(FieldOf(record, feed, "name"))
      /\ mac = NormalizeMac(FieldOf(record, feed, "mac_address"))
      /\ fallback \in {<<>>, name}
  <2>1. "serial_number" # "source_id" /\ "name" # "source_id" /\ "mac_address" # "source_id"
    OBVIOUS
  <2> QED
    BY <1>4, <2>1, Zenon
<1>6. ASSUME NEW f \in DOMAIN feed.spec, f # "source_id" PROVE rec[f] = FieldOf(record, feed, f)
  BY <1>1, <1>3, <1>6 DEF FieldOf
<1>7. rec["source_id"] = SourceId(record, feed)
  BY <1>1
<1> HIDE DEF row, serial, name, mac, fallback
<1>8. DOMAIN row = DOMAIN feed.spec \cup Named
  <2>1. DOMAIN row = DOMAIN rec \cup {"serial_number", "name_clean", "mac_clean", "name_fallback"}
    BY <1>2, Zenon
  <2> QED
    BY <1>3, <2>1
<1>9. /\ row["source_id"] = rec["source_id"]
      /\ row["serial_number"] = StripSentinels(serial)
      /\ row["name_clean"] = name
      /\ row["mac_clean"] = mac
      /\ row["name_fallback"] = fallback
  BY <1>2, <1>3
<1>10. ASSUME NEW f \in DOMAIN feed.spec \ Named PROVE row[f] = StripSentinels(FieldOf(record, feed, f))
  <2>1. row[f] = StripSentinels(rec[f])
    BY <1>2, <1>3, <1>10
  <2> QED
    BY <1>6, <1>10, <2>1
<1> QED
  BY <1>5, <1>7, <1>8, <1>9, <1>10 DEF row

LEMMA FieldParts ==
  ASSUME ExportAssumption, NEW feed, IsFeed(feed), NEW record, record \in [DOMAIN record -> RawValue],
         NEW f
  PROVE  /\ FieldOf(record, feed, f) \in RawText
         /\ Words(FieldOf(record, feed, f)) \subseteq WordsAt(record, PathsOf(feed, f))
<1>1. CASE f \notin DOMAIN feed.spec
  <2>1. FieldOf(record, feed, f) = <<>> /\ <<>> \in RawText
    BY <1>1 DEF FieldOf, RawText
  <2> QED
    BY <2>1, EmptyWords
<1>2. CASE f \in DOMAIN feed.spec
  <2> DEFINE extracted == ExtractField(record, feed.spec[f])
             at == WordsAt(record, Range(feed.spec[f].paths))
  <2>1. FieldOf(record, feed, f) = extracted /\ WordsAt(record, PathsOf(feed, f)) = at
    BY <1>2, Zenon DEF FieldOf, PathsOf
  <2>2. PICK n \in Nat : DOMAIN feed.spec[f].paths = 1 .. n
    BY <1>2 DEF IsFeed, IsField
  <2>3. PICK result \in RawText :
             /\ extracted = IF result = <<>> THEN <<>> ELSE Transform(feed.spec[f].transform, result)
             /\ Words(result) = at
    BY <2>2, ExtractedWords
  <2> HIDE DEF extracted, at
  <2>4. Part(extracted, result)
    BY <2>3, TransformParts, EmptyPart
  <2> QED
    BY <2>1, <2>3, <2>4 DEF Part
<1> QED
  BY <1>1, <1>2

LEMMA SourceIdWords ==
  ASSUME ExportAssumption, NEW feed, NEW record, record \in [DOMAIN record -> RawValue]
  PROVE  Words(SourceId(record, feed)) = WordsAt(record, {feed.id})
<1>1. CASE feed.id \in DOMAIN record
  <2>1. PICK value : value = record[feed.id]
    OBVIOUS
  <2>2. value \in RawValue
    BY <1>1, <2>1
  <2>3. SourceId(record, feed) = Join(value.items, {<<>>}) /\ {<<>>} \in SUBSET Placeholder
    BY <1>1, <2>1 DEF SourceId, Placeholder
  <2>4. Words(SourceId(record, feed)) = Words(Flat(value))
    BY <2>2, <2>3, FlatWords, Zenon
  <2>5. {feed.id} \cap DOMAIN record = {feed.id}
    BY <1>1
  <2>6. WordsAt(record, {feed.id}) = Words(Flat(value))
    BY <2>1, <2>5 DEF WordsAt
  <2> QED
    BY <2>4, <2>6
<1>2. CASE feed.id \notin DOMAIN record
  <2>1. SourceId(record, feed) = <<>>
    BY <1>2 DEF SourceId
  <2>2. {feed.id} \cap DOMAIN record = {}
    BY <1>2
  <2>3. WordsAt(record, {feed.id}) = {}
    BY <2>2, Zenon DEF WordsAt
  <2> QED
    BY <2>1, <2>3, EmptyWords
<1> QED
  BY <1>1, <1>2

\* The manifest says which field a derived column is of.
LEMMA Origins ==
  ASSUME NEW feed
  PROVE  /\ OriginPaths(feed, "source_id") = {feed.id}
         /\ OriginPaths(feed, "serial_number") = PathsOf(feed, "serial_number")
         /\ OriginPaths(feed, "name_clean") = PathsOf(feed, "name")
         /\ OriginPaths(feed, "mac_clean") = PathsOf(feed, "mac_address")
         /\ OriginPaths(feed, "name_fallback") = PathsOf(feed, "name")
         /\ \A f : f \notin {"source_id", "name_clean", "mac_clean", "name_fallback", "os_family"} =>
                      OriginPaths(feed, f) = PathsOf(feed, f)
<1> DEFINE derived == DEVICE_PROFILE.derived
<1>1. derived = [name_clean |-> "name", mac_clean |-> "mac_address", name_fallback |-> "name", os_family |-> "os"]
  BY Zenon DEF DEVICE_PROFILE
<1>2. \A c : OriginPaths(feed, c) =
               IF c = "source_id" THEN {feed.id}
               ELSE PathsOf(feed, IF c \in DOMAIN derived THEN derived[c] ELSE c)
  BY Zenon DEF OriginPaths
<1> HIDE DEF derived
<1>3. /\ DOMAIN derived = {"name_clean", "mac_clean", "name_fallback", "os_family"}
      /\ derived["name_clean"] = "name" /\ derived["mac_clean"] = "mac_address"
      /\ derived["name_fallback"] = "name"
  BY <1>1
<1> QED
  BY <1>2, <1>3

Comma == ","

\* A text that begins with another: all of it, or it and more after a comma.
Extends(r, t) ==
  /\ r \in RawText
  /\ \/ r = t
     \/ Len(r) > Len(t) /\ r[Len(t) + 1] = Comma /\ \A i \in 1 .. Len(t) : r[i] = t[i]

LEMMA JoinedExtends ==
  ASSUME NEW T, NEW c \in T, NEW t \in Seq(T), NEW r \in Seq(T), NEW s \in Seq(T),
         r = t \/ (Len(r) > Len(t) /\ r[Len(t) + 1] = c /\ \A i \in 1 .. Len(t) : r[i] = t[i])
  PROVE  /\ Len(r \o <<c>> \o s) > Len(t)
         /\ (r \o <<c>> \o s)[Len(t) + 1] = c
         /\ \A i \in 1 .. Len(t) : (r \o <<c>> \o s)[i] = t[i]
<1> DEFINE u == r \o <<c>> \o s
<1>1. /\ Len(u) = Len(r) + 1 + Len(s) /\ u[Len(r) + 1] = c
      /\ \A i \in 1 .. Len(r) : u[i] = r[i]
      /\ Len(r) \in Nat /\ Len(s) \in Nat /\ Len(t) \in Nat
  OBVIOUS
<1> HIDE DEF u
<1>2. Len(u) > Len(t) /\ u[Len(t) + 1] = c /\ \A i \in 1 .. Len(t) : u[i] = t[i]
  <2>1. CASE r = t
    BY <1>1, <2>1
  <2>2. CASE Len(r) > Len(t) /\ r[Len(t) + 1] = c /\ \A i \in 1 .. Len(t) : r[i] = t[i]
    <3>1. Len(t) + 1 \in 1 .. Len(r) /\ \A i \in 1 .. Len(t) : i \in 1 .. Len(r)
      BY <1>1, <2>2
    <3> QED
      BY <1>1, <2>2, <3>1
  <2> QED
    BY <2>1, <2>2
<1> QED
  BY <1>2 DEF u

LEMMA ExtendsMore ==
  ASSUME ExportAssumption, NEW t \in RawText, NEW r, Extends(r, t), NEW s \in RawText
  PROVE  Extends(r \o <<Comma>> \o s, t)
<1>1. Comma \in Vocabulary
  BY Zenon DEF ExportAssumption, Comma
<1>2. \A c \in Vocabulary :
        \/ r = t
        \/ Len(r) > Len(t) /\ r[Len(t) + 1] = c /\ \A i \in 1 .. Len(t) : r[i] = t[i]
        => /\ Len(r \o <<c>> \o s) > Len(t)
           /\ (r \o <<c>> \o s)[Len(t) + 1] = c
           /\ \A i \in 1 .. Len(t) : (r \o <<c>> \o s)[i] = t[i]
  <2>1. t \in Seq(Vocabulary) /\ r \in Seq(Vocabulary) /\ s \in Seq(Vocabulary)
    BY DEF Extends, RawText
  <2> QED
    BY <2>1, JoinedExtends
<1>3. r \o <<Comma>> \o s \in RawText
  BY TextConcat, Zenon DEF Extends, Comma
<1> QED
  BY <1>1, <1>2, <1>3, Zenon DEF Extends

LEMMA ExtendsWords ==
  ASSUME NEW t \in RawText, NEW r, Extends(r, t)
  PROVE  /\ Words(t) \subseteq Words(r)
         /\ t # <<>> => r # <<>>
<1>1. t \in Seq(Vocabulary) /\ r \in Seq(Vocabulary) /\ Len(t) \in Nat /\ Len(r) \in Nat
  BY DEF Extends, RawText
<1>2. Len(t) <= Len(r) /\ \A i \in 1 .. Len(t) : r[i] = t[i]
  BY <1>1 DEF Extends
<1>3. \A i \in 1 .. Len(t) : t[i] \in Range(r)
  <2> TAKE i \in 1 .. Len(t)
  <2>1. i \in 1 .. Len(r) /\ r[i] = t[i]
    BY <1>1, <1>2
  <2> QED
    BY <1>1, <2>1, InRange
<1>4. Range(t) \subseteq Range(r)
  BY <1>1, <1>3 DEF Range
<1>5. t # <<>> => r # <<>>
  <2>1. t # <<>> => Len(t) > 0
    BY <1>1
  <2>2. Len(<<>>) = 0
    OBVIOUS
  <2> QED
    BY <1>1, <1>2, <2>1, <2>2
<1> QED
  BY <1>4, <1>5 DEF Words

\* The first text that is not empty begins what is joined.
LEMMA JoinBegins ==
  ASSUME ExportAssumption, NEW texts \in Seq(RawText), NEW first \in 1 .. Len(texts),
         \A j \in 1 .. first - 1 : texts[j] = <<>>, texts[first] \notin Placeholder
  PROVE  Extends(Join(texts, Placeholder), texts[first])
<1>1. PICK g : Runs(g, texts, Placeholder, Len(texts)) /\ Join(texts, Placeholder) = g[Len(texts)]
  BY JoinRuns
<1> DEFINE text == texts[first]
           Good(m) == /\ m < first => g[m] = <<>>
                      /\ m >= first => Extends(g[m], text)
           Bad == {m \in 0 .. Len(texts) : ~Good(m)}
<1>2. Len(texts) \in Nat /\ first \in Nat /\ first > 0 /\ first <= Len(texts)
  OBVIOUS
<1>3. <<>> \in Placeholder /\ text # <<>> /\ text \in RawText
  BY DEF Placeholder
<1>4. Good(0)
  BY <1>1, <1>2 DEF Runs
<1>5. ASSUME NEW m \in 1 .. Len(texts), Good(m - 1) PROVE Good(m)
  <2>1. g[m] = Added(texts, Placeholder, g[m - 1], m)
    BY <1>1 DEF Runs
  <2>2. g[m] = IF texts[m] \in Placeholder THEN g[m - 1]
               ELSE IF g[m - 1] = <<>> THEN texts[m]
               ELSE g[m - 1] \o <<Comma>> \o texts[m]
    BY <2>1, Zenon DEF Added, Comma
  <2>3. CASE m < first
    <3>1. texts[m] = <<>> /\ g[m - 1] = <<>>
      BY <1>5, <2>3
    <3> QED
      BY <1>3, <2>2, <2>3, <3>1
  <2>4. CASE m = first
    <3>1. g[m - 1] = <<>> /\ texts[m] \notin Placeholder
      BY <1>5, <2>4
    <3>2. g[m] = text
      BY <2>2, <2>4, <3>1
    <3> QED
      BY <1>3, <2>4, <3>2 DEF Extends
  <2>5. CASE m > first
    <3>1. Extends(g[m - 1], text)
      BY <1>5, <2>5
    <3>2. texts[m] \in RawText
      OBVIOUS
    <3> HIDE DEF text
    <3>3. Extends(g[m - 1] \o <<Comma>> \o texts[m], text)
      BY <1>3, <3>1, <3>2, ExtendsMore
    <3>4. g[m - 1] # <<>>
      BY <1>3, <3>1, ExtendsWords
    <3>5. Extends(g[m], text)
      BY <2>2, <3>1, <3>3, <3>4
    <3> QED
      BY <2>5, <3>5 DEF text
  <2> QED
    BY <1>2, <2>3, <2>4, <2>5
<1> HIDE DEF Good
<1>6. Bad = {}
  <2> SUFFICES ASSUME Bad # {} PROVE FALSE
    OBVIOUS
  <2>1. Bad \in SUBSET Nat
    BY <1>2
  <2>2. PICK m \in Bad : \A x \in Bad : m <= x
    BY <2>1, LeastNat
  <2>3. m \in 1 .. Len(texts) /\ m - 1 \in 0 .. Len(texts) /\ ~(m <= m - 1)
    BY <1>2, <1>4
  <2> QED
    BY <1>5, <2>2, <2>3
<1>7. Good(Len(texts))
  BY <1>2, <1>6
<1> QED
  BY <1>1, <1>2, <1>7 DEF Good

\* The least of a set stays it when greater ones are added.
LEMMA SameMin ==
  ASSUME NEW S \in SUBSET Nat, S # {}, NEW L \in SUBSET Nat, S \subseteq L,
         \A x \in L \ S : \A y \in S : y < x
  PROVE  Min(S) = Min(L)
<1>1. PICK m \in S : \A x \in S : m <= x
  BY LeastNat
<1>2. \A x \in L : m <= x
  BY <1>1
<1>3. \A x \in S : (\A y \in S : x <= y) => x = m
  BY <1>1
<1>4. \A x \in L : (\A y \in L : x <= y) => x = m
  BY <1>1, <1>2
<1>5. Min(S) = CHOOSE x \in S : \A y \in S : x <= y
  BY Zenon DEF Min
<1>6. Min(L) = CHOOSE x \in L : \A y \in L : x <= y
  BY Zenon DEF Min
<1>7. Min(S) = m
  BY <1>1, <1>3, <1>5
<1>8. Min(L) = m
  BY <1>1, <1>2, <1>4, <1>6
<1> QED
  BY <1>7, <1>8

LEMMA BeforeBegins ==
  ASSUME NEW t \in RawText, NEW r, Extends(r, t)
  PROVE  Before(r, Comma) = Before(t, Comma)
<1> SUFFICES ASSUME r # t PROVE Before(r, Comma) = Before(t, Comma)
  OBVIOUS
<1>1. /\ r \in Seq(Vocabulary) /\ t \in Seq(Vocabulary)
      /\ Len(t) \in Nat /\ Len(r) \in Nat /\ Len(r) > Len(t)
      /\ r[Len(t) + 1] = Comma
      /\ \A i \in 1 .. Len(t) : r[i] = t[i]
  BY DEF Extends, RawText
<1> DEFINE In(u) == {i \in 1 .. Len(u) : u[i] = Comma}
           at(u) == IF In(u) # {} THEN Min(In(u)) ELSE 0
<1>2. \A u : Before(u, Comma) = IF at(u) = 0 THEN u ELSE SubSeq(u, 1, at(u) - 1)
  BY Zenon DEF Before, SelectInSeq
<1>3. In(t) \in SUBSET Nat /\ In(r) \in SUBSET Nat /\ In(t) \subseteq In(r)
  BY <1>1
<1>4. Len(t) + 1 \in In(r) /\ \A x \in In(r) \ In(t) : x > Len(t)
  BY <1>1
<1>5. \A x \in In(t) : x <= Len(t) /\ x # 0
  BY <1>1
<1>5a. \A x \in In(r) : x # 0
  BY <1>1
<1> HIDE DEF In
<1>6. CASE In(t) # {}
  <2>1. \A x \in In(r) \ In(t) : \A y \in In(t) : y < x
    BY <1>1, <1>3, <1>4, <1>5
  <2>2. Min(In(t)) = Min(In(r))
    BY <1>3, <1>6, <2>1, SameMin
  <2>3. PICK n \in In(t) : n = Min(In(t))
    BY <1>3, <1>6, MinIn
  <2>4. at(t) = n /\ at(r) = n /\ n # 0
    BY <1>3, <1>5, <1>6, <2>2, <2>3
  <2>5. Before(t, Comma) = SubSeq(t, 1, n - 1) /\ Before(r, Comma) = SubSeq(r, 1, n - 1)
    <3>1. at(t) # 0 /\ at(r) # 0
      BY <2>4
    <3> HIDE DEF at
    <3> QED
      BY <1>2, <2>4, <3>1
  <2>6. n - 1 \in 0 .. Len(t) /\ n - 1 \in 0 .. Len(r)
    BY <1>1, <1>3, <1>5, <2>3
  <2>7. SubSeq(t, 1, n - 1) = SubSeq(r, 1, n - 1)
    BY <1>1, <2>6
  <2> QED
    BY <2>5, <2>7
<1>7. CASE In(t) = {}
  <2>1. \A x \in In(r) : Len(t) + 1 <= x
    BY <1>1, <1>3, <1>4, <1>7
  <2>2. PICK n \in In(r) : n = Min(In(r))
    BY <1>3, <1>4, MinIn
  <2>3. \A x \in In(r) : n <= x
    <3>1. PICK m \in In(r) : \A x \in In(r) : m <= x
      BY <1>3, <1>4, LeastNat
    <3> QED
      BY <1>3, <2>2, <3>1 DEF Min
  <2>4. n = Len(t) + 1
    BY <1>1, <1>3, <1>4, <2>1, <2>3
  <2>5. at(t) = 0 /\ at(r) = n /\ n # 0
    BY <1>4, <1>5a, <1>7, <2>2
  <2>6. Before(t, Comma) = t /\ Before(r, Comma) = SubSeq(r, 1, n - 1)
    BY <1>2, <2>5, Zenon
  <2>7. SubSeq(r, 1, Len(t)) = t
    BY <1>1
  <2> QED
    BY <1>1, <2>4, <2>6, <2>7
<1> QED
  BY <1>6, <1>7

LEMMA MacBegins ==
  ASSUME NEW t \in RawText, NEW r, Extends(r, t)
  PROVE  NormalizeMac(t) = <<>> \/ NormalizeMac(r) = NormalizeMac(t)
<1> SUFFICES ASSUME r # t PROVE NormalizeMac(t) = <<>> \/ NormalizeMac(r) = NormalizeMac(t)
  OBVIOUS
<1>1. /\ Len(t) \in Nat /\ Len(r) \in Nat /\ Len(r) > Len(t)
      /\ DOMAIN t = 1 .. Len(t) /\ DOMAIN r = 1 .. Len(r)
      /\ r[Len(t) + 1] = Comma
      /\ \A i \in 1 .. Len(t) : r[i] = t[i]
  BY DEF Extends, RawText
<1> DEFINE valid(u) == {i \in DOMAIN u : /\ u[i] \in MACs
                                         /\ i > 1 => u[i - 1] = Comma
                                         /\ i < Len(u) => u[i + 1] = Comma}
<1>2. \A u : NormalizeMac(u) = IF valid(u) = {} THEN <<>> ELSE <<u[Min(valid(u))]>>
  BY Zenon DEF NormalizeMac, Comma
<1>3. valid(t) \in SUBSET Nat /\ valid(r) \in SUBSET Nat
  BY <1>1
<1>4. ASSUME NEW i \in 1 .. Len(t) PROVE i \in valid(t) <=> i \in valid(r)
  <2>1. i \in DOMAIN t /\ i \in DOMAIN r /\ r[i] = t[i]
    BY <1>1
  <2>2. i > 1 => r[i - 1] = t[i - 1]
    BY <1>1
  <2>3. IF i < Len(t) THEN r[i + 1] = t[i + 1] ELSE r[i + 1] = Comma
    <3>1. CASE i < Len(t)
      BY <1>1, <3>1
    <3>2. CASE ~(i < Len(t))
      <4>1. i = Len(t)
        <5>1. Len(t) \in Nat
          BY <1>1
        <5> QED
          BY <3>2, <5>1
      <4> QED
        BY <1>1, <3>2, <4>1
    <3> QED
      BY <3>1, <3>2
  <2>4. i < Len(r)
    BY <1>1
  <2> QED
    BY <2>1, <2>2, <2>3, <2>4
<1>5. \A i \in valid(t) : i \in 1 .. Len(t)
  BY <1>1
<1>6. \A i \in valid(r) : i \in 1 .. Len(r)
  BY <1>1
<1> HIDE DEF valid
<1>7. CASE valid(t) = {}
  BY <1>2, <1>7
<1>8. CASE valid(t) # {}
  <2>1. valid(t) \subseteq valid(r)
    BY <1>4, <1>5
  <2>2. \A x \in valid(r) \ valid(t) : \A y \in valid(t) : y < x
    BY <1>1, <1>4, <1>5, <1>6
  <2>3. Min(valid(t)) = Min(valid(r))
    BY <1>3, <1>8, <2>1, <2>2, SameMin
  <2>4. PICK n \in valid(t) : n = Min(valid(t))
    BY <1>3, <1>8, MinIn
  <2>5. r[n] = t[n]
    BY <1>1, <1>5
  <2>6. NormalizeMac(t) = <<t[n]>> /\ NormalizeMac(r) = <<r[n]>>
    BY <1>2, <1>8, <2>1, <2>3, <2>4
  <2> QED
    BY <2>5, <2>6
<1> QED
  BY <1>7, <1>8

\* What a transform makes of the first value is in what it makes of them all.
LEMMA TransformBegins ==
  ASSUME ExportAssumption, NEW t \in RawText, NEW r, Extends(r, t), NEW name
  PROVE  /\ r \in RawText
         /\ Words(Transform(name, t)) \ {"SN-", "0000-..."} \subseteq Words(Transform(name, r))
         /\ name # "serial" => Words(Transform(name, t)) \subseteq Words(Transform(name, r))
<1>1. r \in RawText
  BY DEF Extends
<1>2. Words(t) \subseteq Words(r)
  BY ExtendsWords
<1>3. NormalizeMac(t) = <<>> \/ NormalizeMac(r) = NormalizeMac(t)
  BY MacBegins
<1>4. Before(r, Comma) = Before(t, Comma)
  BY BeforeBegins
<1>5. Words(NormalizeMac(t)) \subseteq Words(NormalizeMac(r))
  BY <1>3, EmptyWords
<1>6. Words(NormalizeSerial(t)) \ {"SN-", "0000-..."} \subseteq Words(NormalizeSerial(r))
  <2>1. Words(NormalizeSerial(t)) \subseteq Words(t)
    BY NormalizeParts DEF Part
  <2>2. Words(r) \ {"SN-", "0000-..."} \subseteq Words(NormalizeSerial(r))
    BY <1>1, NormalizedWords
  <2> QED
    BY <1>2, <2>1, <2>2
<1>7. CASE name = "serial"
  <2>1. Transform(name, t) = NormalizeSerial(t) /\ Transform(name, r) = NormalizeSerial(r)
    BY <1>7 DEF Transform
  <2> QED
    BY <1>1, <1>6, <1>7, <2>1
<1>8. CASE name # "serial"
  <2>1. CASE name = "mac"
    <3>1. Transform(name, t) = NormalizeMac(t) /\ Transform(name, r) = NormalizeMac(r)
      BY <2>1 DEF Transform
    <3> QED
      BY <1>1, <1>5, <3>1
  <2>2. CASE name = "first_of_list"
    <3>1. Transform(name, t) = Before(t, Comma) /\ Transform(name, r) = Before(r, Comma)
      BY <2>2, Zenon DEF Transform, Comma
    <3> QED
      BY <1>1, <1>4, <3>1
  <2>3. CASE name \notin {"mac", "first_of_list"}
    <3>1. Transform(name, t) = t /\ Transform(name, r) = r
      BY <1>8, <2>3 DEF Transform
    <3> QED
      BY <1>1, <1>2, <3>1
  <2> QED
    BY <2>1, <2>2, <2>3
<1> QED
  BY <1>7, <1>8

\* What is extracted of a field begins with the first value at its paths.
LEMMA ExtractedBegins ==
  ASSUME ExportAssumption, NEW record, record \in [DOMAIN record -> RawValue],
         NEW spec, NEW n \in Nat, DOMAIN spec.paths = 1 .. n,
         NEW i \in 1 .. n, \A j \in 1 .. i - 1 : Found(record, spec.paths)[j] = <<>>,
         Found(record, spec.paths)[i] \notin Placeholder
  PROVE  \E result \in RawText : /\ ExtractField(record, spec) = Transform(spec.transform, result)
                                 /\ Extends(result, Found(record, spec.paths)[i])
<1> DEFINE found == Found(record, spec.paths)
           distinct == Distinct(found)
           result == Join(distinct, Placeholder)
<1>1. found \in Seq(RawText) /\ DOMAIN found = 1 .. n
  BY FoundTexts
<1>2. ExtractField(record, spec) = IF result = <<>> THEN <<>> ELSE Transform(spec.transform, result)
  BY Zenon DEF ExtractField, Distinct
<1>3. /\ \A j \in 1 .. i - 1 : found[j] = <<>>
      /\ found[i] \notin Placeholder
  OBVIOUS
<1>4. found[i] # <<>>
  BY <1>3 DEF Placeholder
<1> HIDE DEF found
<1>5. distinct = [k \in 1 .. n |-> IF \E j \in 1 .. k - 1 : found[j] = found[k] THEN <<>> ELSE found[k]]
  BY <1>1 DEF Distinct
<1>6. distinct \in Seq(RawText) /\ Len(distinct) = n
  <2>1. distinct \in Seq(RawText)
    BY <1>1, DistinctTexts
  <2>2. DOMAIN distinct = 1 .. n
    BY <1>5
  <2> QED
    BY <2>1, <2>2
<1>7. \A j \in 1 .. i - 1 : distinct[j] = <<>>
  BY <1>3, <1>5
<1>8. distinct[i] = found[i]
  <2>1. ~ \E j \in 1 .. i - 1 : found[j] = found[i]
    BY <1>3, <1>4
  <2> QED
    BY <1>5, <2>1
<1> HIDE DEF distinct
<1>9. Extends(result, found[i])
  <2>1. i \in 1 .. Len(distinct) /\ distinct[i] \notin Placeholder
    BY <1>3, <1>6, <1>8
  <2>2. Extends(Join(distinct, Placeholder), distinct[i])
    BY <1>6, <1>7, <2>1, JoinBegins
  <2> QED
    BY <1>8, <2>2
<1> HIDE DEF result
<1>10. result \in RawText /\ result # <<>>
  <2>1. found[i] \in RawText
    BY <1>1
  <2> QED
    BY <1>4, <1>9, <2>1, ExtendsWords DEF Extends
<1>11. ExtractField(record, spec) = Transform(spec.transform, result)
  BY <1>2, <1>10
<1> QED
  BY <1>9, <1>10, <1>11 DEF found

\* Of any record and any spec that extracts fields as the manifest's do, each
\* column has the first value that its field finds, transformed
\* (walker.py:91-130, export_for_splink.py:40-60).
THEOREM FieldsAreFilled ==
  ASSUME ExportAssumption, NEW feed, IsFeed(feed), NEW record, record \in [DOMAIN record -> RawValue],
         NEW f \in DOMAIN feed.spec \ {"source_id"}
  PROVE  Filled(record, feed, f)
<1> DEFINE spec == feed.spec[f]
           found == Found(record, spec.paths)
           extracted == ExtractField(record, spec)
           column == Row(record, feed)[f]
           trimmed == {"SN-", "0000-..."}
<1>1. IsField(spec, f)
  BY DEF IsFeed
<1>2. PICK n \in Nat : DOMAIN spec.paths = 1 .. n
  BY <1>1 DEF IsField
<1>3. found \in Seq(RawText) /\ DOMAIN found = 1 .. n
  BY <1>2, FoundTexts
<1>4. column = StripSentinels(IF f = "serial_number" THEN NormalizeSerial(extracted) ELSE extracted)
  <2>1. f \notin {"source_id", "name_clean", "mac_clean", "name_fallback"}
    BY <1>1 DEF IsField
  <2>2. FieldOf(record, feed, f) = extracted
    BY DEF FieldOf
  <2>3. f = "serial_number" => column = StripSentinels(NormalizeSerial(extracted))
    BY <2>2, RowColumns, Zenon
  <2>4. ASSUME f # "serial_number" PROVE column = StripSentinels(extracted)
    <3>1. f \in DOMAIN feed.spec
                   \ {"source_id", "serial_number", "name_clean", "mac_clean", "name_fallback"}
      BY <2>1, <2>4
    <3>2. column = StripSentinels(FieldOf(record, feed, f))
      BY <3>1, RowColumns, Zenon
    <3> QED
      BY <2>2, <3>2
  <2> QED
    BY <2>3, <2>4
<1>5. ASSUME NEW i \in DOMAIN found, \A j \in 1 .. i - 1 : found[j] = <<>>
      PROVE  Words(Transform(spec.transform, found[i])) \ Trimmed(f) \subseteq Words(column)
  <2>1. i \in 1 .. n /\ found[i] \in RawText
    BY <1>3
  <2>2. CASE found[i] \in Placeholder
    <3>1. Words(Transform(spec.transform, found[i])) \subseteq Words(found[i])
      BY <2>1, TransformParts DEF Part
    <3>2. Words(found[i]) = {}
      BY <2>2, PlaceholderWords
    <3> QED
      BY <3>1, <3>2
  <2>3. CASE found[i] \notin Placeholder
    <3>1. PICK result \in RawText : extracted = Transform(spec.transform, result) /\ Extends(result, found[i])
      BY <1>2, <1>5, <2>1, <2>3, ExtractedBegins
    <3> HIDE DEF found, extracted, column, spec
    <3>2. extracted \in RawText
      BY <3>1, TransformParts DEF Part
    <3>3. /\ Words(Transform(spec.transform, found[i])) \ trimmed \subseteq Words(extracted)
          /\ spec.transform # "serial" => Words(Transform(spec.transform, found[i])) \subseteq Words(extracted)
      BY <2>1, <3>1, TransformBegins
    <3>4. CASE f = "serial_number"
      <4>1. Words(extracted) \ trimmed \subseteq Words(column)
        BY <1>4, <3>2, <3>4, NormalizedWords
      <4>2. Trimmed(f) = trimmed
        BY <3>4 DEF Trimmed
      <4> QED
        BY <3>3, <4>1, <4>2
    <3>5. CASE f # "serial_number"
      <4>1. spec.transform # "serial"
        BY <1>1, <3>5 DEF IsField
      <4>2. Words(column) = Words(extracted)
        BY <1>4, <3>2, <3>5, NormalizedWords
      <4> QED
        BY <3>3, <4>1, <4>2
    <3> QED
      BY <3>4, <3>5
  <2> QED
    BY <2>2, <2>3
<1> HIDE DEF extracted, column
<1> QED
  BY <1>5, Zenon DEF Filled, column

\* Any path that no field is for has its value in the extra attributes
\* (walker.py:133-171).
LEMMA ExtrasAreKept ==
  ASSUME NEW feed, NEW record, NEW p \in DOMAIN record, Lower(p) \notin Excluded(feed)
  PROVE  Words(Flat(record[p])) \subseteq UNION {Words(t) : t \in Range(ExtraAttributes(record, feed))}
<1>1. CASE Flat(record[p]) # <<>>
  <2>1. Flat(record[p]) \in Range(ExtraAttributes(record, feed))
    BY <1>1 DEF ExtraAttributes, Range
  <2> QED
    BY <2>1, Zenon
<1>2. CASE Flat(record[p]) = <<>>
  <2>1. Words(Flat(record[p])) = {}
    BY <1>2, EmptyWords
  <2> QED
    BY <2>1
<1> QED
  BY <1>1, <1>2

\* Of any record and any such spec, no column has a word of another field
\* (walker.py:91-171, export_for_splink.py:40-60).
THEOREM RowsAreAuthentic ==
  ASSUME ExportAssumption, NEW feed, IsFeed(feed), NEW record, record \in [DOMAIN record -> RawValue]
  PROVE  Authentic(record, feed)
<1> DEFINE row == Row(record, feed)
           fieldOf(f) == FieldOf(record, feed, f)
           Named == {"source_id", "serial_number", "name_clean", "mac_clean", "name_fallback"}
<1>1. ASSUME NEW f, NEW t, Part(t, fieldOf(f)) PROVE Words(t) \subseteq WordsAt(record, PathsOf(feed, f))
  BY <1>1, FieldParts DEF Part
<1>2. ASSUME NEW f
      PROVE  /\ Part(NormalizeName(fieldOf(f)), fieldOf(f)) /\ Part(NormalizeMac(fieldOf(f)), fieldOf(f))
             /\ Part(StripSentinels(fieldOf(f)), fieldOf(f)) /\ Part(<<>>, fieldOf(f))
             /\ Part(StripSentinels(NormalizeSerial(fieldOf(f))), fieldOf(f))
  <2>1. fieldOf(f) \in RawText
    BY FieldParts
  <2> HIDE DEF fieldOf
  <2>2. Part(NormalizeSerial(fieldOf(f)), fieldOf(f))
    BY <2>1, NormalizeParts
  <2>3. Part(StripSentinels(NormalizeSerial(fieldOf(f))), NormalizeSerial(fieldOf(f)))
    BY <2>2, NormalizeParts DEF Part
  <2>4. Part(StripSentinels(NormalizeSerial(fieldOf(f))), fieldOf(f))
    BY <2>2, <2>3 DEF Part
  <2> QED
    BY <2>1, <2>4, NormalizeParts, EmptyPart
<1>3. ASSUME NEW c \in DOMAIN row PROVE Words(row[c]) \subseteq WordsAt(record, OriginPaths(feed, c))
  <2>1. CASE c = "source_id"
    <3>1. row[c] = SourceId(record, feed)
      BY <2>1, RowColumns, Zenon
    <3>2. Words(row[c]) = WordsAt(record, {feed.id})
      BY <3>1, SourceIdWords
    <3> QED
      BY <2>1, <3>2, Origins
  <2>2. CASE c = "serial_number"
    <3>1. Part(row[c], fieldOf("serial_number"))
      BY <1>2, <2>2, RowColumns, Zenon
    <3>2. Words(row[c]) \subseteq WordsAt(record, PathsOf(feed, "serial_number"))
      BY <1>1, <3>1, Zenon
    <3> QED
      BY <2>2, <3>2, Origins
  <2>3. CASE c = "name_clean"
    <3>1. Part(row[c], fieldOf("name"))
      BY <1>2, <2>3, RowColumns, Zenon
    <3>2. Words(row[c]) \subseteq WordsAt(record, PathsOf(feed, "name"))
      BY <1>1, <3>1, Zenon
    <3> QED
      BY <2>3, <3>2, Origins
  <2>4. CASE c = "mac_clean"
    <3>1. Part(row[c], fieldOf("mac_address"))
      BY <1>2, <2>4, RowColumns, Zenon
    <3>2. Words(row[c]) \subseteq WordsAt(record, PathsOf(feed, "mac_address"))
      BY <1>1, <3>1, Zenon
    <3> QED
      BY <2>4, <3>2, Origins
  <2>5. CASE c = "name_fallback"
    <3>1. Part(row[c], fieldOf("name"))
      BY <1>2, <2>5, RowColumns, Zenon
    <3>2. Words(row[c]) \subseteq WordsAt(record, PathsOf(feed, "name"))
      BY <1>1, <3>1, Zenon
    <3> QED
      BY <2>5, <3>2, Origins
  <2>6. CASE c \notin Named
    <3>1. c \in DOMAIN feed.spec \ Named
      BY <2>6, RowColumns
    <3>2. row[c] = StripSentinels(fieldOf(c))
      BY <3>1, RowColumns, Zenon
    <3>3. c # "os_family"
      BY <3>1 DEF IsFeed, IsField
    <3>4. OriginPaths(feed, c) = PathsOf(feed, c)
      BY <2>6, <3>3, Origins
    <3> QED
      BY <1>1, <1>2, <3>2, <3>4, Zenon
  <2> QED
    BY <2>1, <2>2, <2>3, <2>4, <2>5, <2>6
<1> QED
  BY <1>3, Zenon DEF Authentic

\* The lengths of paths, and what the constructors of the manifest make.
LEMMA FieldsOfPaths ==
  ASSUME NEW f, f \notin {"name_clean", "mac_clean", "name_fallback", "os_family"}
  PROVE  /\ \A a : IsField(Paths(<<a>>), f) /\ IsField(FieldSpec(<<a>>, "lower"), f)
                   /\ IsField(FieldSpec(<<a>>, "first_of_list"), f)
         /\ \A a, b : /\ IsField(Paths(<<a, b>>), f) /\ IsField(FieldSpec(<<a, b>>, ""), f)
                      /\ IsField(FieldSpec(<<a, b>>, "mac"), f)
         /\ \A a, b, c : IsField(Paths(<<a, b, c>>), f)
         /\ \A a, b, c, d : IsField(Paths(<<a, b, c, d>>), f)
         /\ f = "serial_number" =>
              /\ \A a : IsField(FieldSpec(<<a>>, "serial"), f)
              /\ \A a, b : IsField(FieldSpec(<<a, b>>, "serial"), f)
              /\ \A a, b, c : IsField(FieldSpec(<<a, b, c>>, "serial"), f)
<1>1. /\ \A a : DOMAIN <<a>> = 1 .. 1
      /\ \A a, b : DOMAIN <<a, b>> = 1 .. 2
      /\ \A a, b, c : DOMAIN <<a, b, c>> = 1 .. 3
      /\ \A a, b, c, d : DOMAIN <<a, b, c, d>> = 1 .. 4
  OBVIOUS
<1>2. 1 \in Nat /\ 2 \in Nat /\ 3 \in Nat /\ 4 \in Nat
  OBVIOUS
<1>3. ASSUME NEW p, NEW n \in Nat, DOMAIN p = 1 .. n
      PROVE  /\ \A t \in {"", "lower", "mac", "first_of_list"} : IsField(FieldSpec(p, t), f)
             /\ IsField(Paths(p), f)
             /\ f = "serial_number" => IsField(FieldSpec(p, "serial"), f)
  <2>1. Paths(p).paths = p /\ Paths(p).transform = ""
    BY DEF Paths
  <2>2. \A t : FieldSpec(p, t).paths = p /\ FieldSpec(p, t).transform = t
    BY DEF FieldSpec
  <2>3. \A t \in {"", "lower", "mac", "first_of_list"} : t # "serial"
    OBVIOUS
  <2> QED
    BY <1>3, <2>1, <2>2, <2>3, Zenon DEF IsField
<1> QED
  BY <1>1, <1>2, <1>3, Zenon

\* The specs of the manifest are such, one by one.
LEMMA Feed_sp_devices == IsFeed(AssetFeeds["sp_devices"])
<1> DEFINE spec == AssetFeeds["sp_devices"].spec
<1>1. DOMAIN spec = {"source_id", "name", "serial_number", "mac_address", "asset_tag",
                     "manufacturer", "model", "assigned_user", "os"}
  BY Zenon DEF AssetFeeds, Anchor
<1>2. /\ IsField(spec["source_id"], "source_id")
      /\ IsField(spec["name"], "name")
      /\ IsField(spec["serial_number"], "serial_number")
      /\ IsField(spec["mac_address"], "mac_address")
      /\ IsField(spec["asset_tag"], "asset_tag")
      /\ IsField(spec["manufacturer"], "manufacturer")
      /\ IsField(spec["model"], "model")
      /\ IsField(spec["assigned_user"], "assigned_user")
      /\ IsField(spec["os"], "os")
  BY FieldsOfPaths, Zenon DEF AssetFeeds, Anchor
<1> HIDE DEF spec
<1>3. \A f \in DOMAIN spec : IsField(spec[f], f)
  BY <1>1, <1>2, Zenon
<1> QED
  BY <1>3 DEF spec, IsFeed

LEMMA Feed_me_ec == IsFeed(AssetFeeds["me_ec"])
<1> DEFINE spec == AssetFeeds["me_ec"].spec
<1>1. DOMAIN spec = {"source_id", "name", "serial_number", "mac_address", "manufacturer", "model",
                     "os", "os_version", "assigned_user", "ip_address"}
  BY Zenon DEF AssetFeeds, Anchor
<1>2. /\ IsField(spec["source_id"], "source_id")
      /\ IsField(spec["name"], "name")
      /\ IsField(spec["serial_number"], "serial_number")
      /\ IsField(spec["mac_address"], "mac_address")
      /\ IsField(spec["manufacturer"], "manufacturer")
      /\ IsField(spec["model"], "model")
      /\ IsField(spec["os"], "os")
      /\ IsField(spec["os_version"], "os_version")
      /\ IsField(spec["assigned_user"], "assigned_user")
      /\ IsField(spec["ip_address"], "ip_address")
  BY FieldsOfPaths, Zenon DEF AssetFeeds, Anchor
<1> HIDE DEF spec
<1>3. \A f \in DOMAIN spec : IsField(spec[f], f)
  BY <1>1, <1>2, Zenon
<1> QED
  BY <1>3 DEF spec, IsFeed

LEMMA Feed_me_mdm == IsFeed(AssetFeeds["me_mdm"])
<1> DEFINE spec == AssetFeeds["me_mdm"].spec
<1>1. DOMAIN spec = {"source_id", "name", "serial_number", "mac_address", "manufacturer", "model",
                     "os", "os_version", "assigned_user", "imei", "mdm_latitude", "mdm_longitude",
                     "mdm_horizontal_accuracy", "mdm_location_address", "mdm_located_time"}
  BY Zenon DEF AssetFeeds, Anchor
<1>2. /\ IsField(spec["source_id"], "source_id")
      /\ IsField(spec["name"], "name")
      /\ IsField(spec["serial_number"], "serial_number")
      /\ IsField(spec["mac_address"], "mac_address")
      /\ IsField(spec["manufacturer"], "manufacturer")
      /\ IsField(spec["model"], "model")
      /\ IsField(spec["os"], "os")
      /\ IsField(spec["os_version"], "os_version")
      /\ IsField(spec["assigned_user"], "assigned_user")
      /\ IsField(spec["imei"], "imei")
      /\ IsField(spec["mdm_latitude"], "mdm_latitude")
      /\ IsField(spec["mdm_longitude"], "mdm_longitude")
      /\ IsField(spec["mdm_horizontal_accuracy"], "mdm_horizontal_accuracy")
      /\ IsField(spec["mdm_location_address"], "mdm_location_address")
      /\ IsField(spec["mdm_located_time"], "mdm_located_time")
  BY FieldsOfPaths, Zenon DEF AssetFeeds, Anchor
<1> HIDE DEF spec
<1>3. \A f \in DOMAIN spec : IsField(spec[f], f)
  BY <1>1, <1>2, Zenon
<1> QED
  BY <1>3 DEF spec, IsFeed

LEMMA Feed_fg_clients == IsFeed(NetworkFeeds["fg_clients"])
<1> DEFINE spec == NetworkFeeds["fg_clients"].spec
<1>1. DOMAIN spec = {"source_id", "name", "mac_address", "ip_address", "manufacturer", "model",
                     "os", "os_version", "assigned_user"}
  BY Zenon DEF NetworkFeeds, Anchor
<1>2. /\ IsField(spec["source_id"], "source_id")
      /\ IsField(spec["name"], "name")
      /\ IsField(spec["mac_address"], "mac_address")
      /\ IsField(spec["ip_address"], "ip_address")
      /\ IsField(spec["manufacturer"], "manufacturer")
      /\ IsField(spec["model"], "model")
      /\ IsField(spec["os"], "os")
      /\ IsField(spec["os_version"], "os_version")
      /\ IsField(spec["assigned_user"], "assigned_user")
  BY FieldsOfPaths, Zenon DEF NetworkFeeds, Anchor
<1> HIDE DEF spec
<1>3. \A f \in DOMAIN spec : IsField(spec[f], f)
  BY <1>1, <1>2, Zenon
<1> QED
  BY <1>3 DEF spec, IsFeed

LEMMA Feed_fg_dhcp == IsFeed(NetworkFeeds["fg_dhcp"])
<1> DEFINE spec == NetworkFeeds["fg_dhcp"].spec
<1>1. DOMAIN spec = {"source_id", "name", "mac_address", "ip_address"}
  BY Zenon DEF NetworkFeeds, Anchor
<1>2. /\ IsField(spec["source_id"], "source_id")
      /\ IsField(spec["name"], "name")
      /\ IsField(spec["mac_address"], "mac_address")
      /\ IsField(spec["ip_address"], "ip_address")
  BY FieldsOfPaths, Zenon DEF NetworkFeeds, Anchor
<1> HIDE DEF spec
<1>3. \A f \in DOMAIN spec : IsField(spec[f], f)
  BY <1>1, <1>2, Zenon
<1> QED
  BY <1>3 DEF spec, IsFeed

LEMMA Feed_zbx_hosts == IsFeed(NetworkFeeds["zbx_hosts"])
<1> DEFINE spec == NetworkFeeds["zbx_hosts"].spec
<1>1. DOMAIN spec = {"source_id", "name", "ip_address", "os", "os_version", "serial_number",
                     "mac_address", "model", "asset_tag"}
  BY Zenon DEF NetworkFeeds, Anchor
<1>2. /\ IsField(spec["source_id"], "source_id")
      /\ IsField(spec["name"], "name")
      /\ IsField(spec["ip_address"], "ip_address")
      /\ IsField(spec["os"], "os")
      /\ IsField(spec["os_version"], "os_version")
      /\ IsField(spec["serial_number"], "serial_number")
      /\ IsField(spec["mac_address"], "mac_address")
      /\ IsField(spec["model"], "model")
      /\ IsField(spec["asset_tag"], "asset_tag")
  BY FieldsOfPaths, Zenon DEF NetworkFeeds, Anchor
<1> HIDE DEF spec
<1>3. \A f \in DOMAIN spec : IsField(spec[f], f)
  BY <1>1, <1>2, Zenon
<1> QED
  BY <1>3 DEF spec, IsFeed

LEMMA Feed_ad_computers == IsFeed(NetworkFeeds["ad_computers"])
<1> DEFINE spec == NetworkFeeds["ad_computers"].spec
<1>1. DOMAIN spec = {"source_id", "name", "serial_number", "manufacturer", "model", "os",
                     "os_version", "assigned_user"}
  BY Zenon DEF NetworkFeeds, Anchor
<1>2. /\ IsField(spec["source_id"], "source_id")
      /\ IsField(spec["name"], "name")
      /\ IsField(spec["serial_number"], "serial_number")
      /\ IsField(spec["manufacturer"], "manufacturer")
      /\ IsField(spec["model"], "model")
      /\ IsField(spec["os"], "os")
      /\ IsField(spec["os_version"], "os_version")
      /\ IsField(spec["assigned_user"], "assigned_user")
  BY FieldsOfPaths, Zenon DEF NetworkFeeds, Anchor
<1> HIDE DEF spec
<1>3. \A f \in DOMAIN spec : IsField(spec[f], f)
  BY <1>1, <1>2, Zenon
<1> QED
  BY <1>3 DEF spec, IsFeed

LEMMA Feed_sdp_assets == IsFeed(NetworkFeeds["sdp_assets"])
<1> DEFINE spec == NetworkFeeds["sdp_assets"].spec
<1>1. DOMAIN spec = {"source_id", "name", "serial_number", "mac_address", "asset_tag",
                     "manufacturer", "model", "os", "assigned_user"}
  BY Zenon DEF NetworkFeeds, Anchor
<1>2. /\ IsField(spec["source_id"], "source_id")
      /\ IsField(spec["name"], "name")
      /\ IsField(spec["serial_number"], "serial_number")
      /\ IsField(spec["mac_address"], "mac_address")
      /\ IsField(spec["asset_tag"], "asset_tag")
      /\ IsField(spec["manufacturer"], "manufacturer")
      /\ IsField(spec["model"], "model")
      /\ IsField(spec["os"], "os")
      /\ IsField(spec["assigned_user"], "assigned_user")
  BY FieldsOfPaths, Zenon DEF NetworkFeeds, Anchor
<1> HIDE DEF spec
<1>3. \A f \in DOMAIN spec : IsField(spec[f], f)
  BY <1>1, <1>2, Zenon
<1> QED
  BY <1>3 DEF spec, IsFeed

LEMMA AnchorsAreFeeds == ASSUME NEW k \in DOMAIN AnchorSpecs PROVE IsFeed(AnchorSpecs[k])
<1>1. DOMAIN AssetFeeds = {"sp_devices", "me_ec", "me_mdm"}
  BY Zenon DEF AssetFeeds
<1>2. DOMAIN NetworkFeeds = {"fg_clients", "fg_dhcp", "zbx_hosts", "ad_computers", "sdp_assets"}
  BY Zenon DEF NetworkFeeds
<1>3. /\ DOMAIN AnchorSpecs = DOMAIN AssetFeeds \cup DOMAIN NetworkFeeds
      /\ AnchorSpecs[k] = IF k \in DOMAIN AssetFeeds THEN AssetFeeds[k] ELSE NetworkFeeds[k]
  BY DEF AnchorSpecs
<1>4. ASSUME NEW a \in DOMAIN AssetFeeds PROVE IsFeed(AssetFeeds[a])
  BY <1>1, Feed_sp_devices, Feed_me_ec, Feed_me_mdm, Zenon
<1>5. ASSUME NEW a \in DOMAIN NetworkFeeds PROVE IsFeed(NetworkFeeds[a])
  BY <1>2, Feed_fg_clients, Feed_fg_dhcp, Feed_zbx_hosts, Feed_ad_computers, Feed_sdp_assets, Zenon
<1> QED
  BY <1>3, <1>4, <1>5

\* Whatever is read, written or seen is a raw record that the table has held.
RowsAreRaw ==
  /\ rows \in RawRecords \cup {Later, NoRow}
  /\ csv.rows \in RawRecords \cup {Later, NoRow}
  /\ csvTmp.rows \in RawRecords \cup {Later, NoRow}
  /\ seen.file.rows \in RawRecords \cup {Later, NoRow}

LEMMA RowsExport == ASSUME ExportAssumption PROVE ExportSpec => []RowsAreRaw
<1>1. ExportInit => RowsAreRaw
  BY DEF ExportInit, RowsAreRaw, Missing, Unseen
<1>2. ExportInv /\ RowsAreRaw /\ [ExportNext]_exportVars => RowsAreRaw'
  <2> SUFFICES ASSUME ExportInv, RowsAreRaw, [ExportNext]_exportVars PROVE RowsAreRaw'
    OBVIOUS
  <2>1. table \in RawRecords \cup {Later, NoRow}
    BY DEF ExportInv, ExportTypeOK
  <2>2. Missing.rows = NoRow
    BY DEF Missing
  <2>3. CASE Ingest \/ ReadTables \/ OpenCsvTmp \/ WriteRows \/ SwapRefused \/ ExportCrash
    BY <2>1, <2>3 DEF RowsAreRaw, Ingest, ReadTables, OpenCsvTmp, WriteRows, SwapRefused, ExportCrash
  <2>4. CASE UnlinkCsv \/ RenameTmp \/ End
    BY <2>2, <2>4 DEF RowsAreRaw, UnlinkCsv, RenameTmp, End
  <2>5. CASE SplinkReads
    BY <2>5 DEF RowsAreRaw, SplinkReads
  <2>6. CASE UNCHANGED exportVars
    BY <2>6 DEF RowsAreRaw, exportVars
  <2> QED
    BY <2>3, <2>4, <2>5, <2>6 DEF ExportNext
<1> QED
  BY <1>1, <1>2, SpecExport, PTL DEF ExportSpec

\* In a row that Splink reads each field has its value, the id and the extra
\* attributes too, and no column anything of a field that is not its own,
\* whatever the records are (export_for_splink.py:62-135, walker.py:44-171).
THEOREM EveryFieldTheorem == ASSUME ExportAssumption PROVE ExportSpec => []SplinkSeesEveryField
<1>1. RowsAreRaw => SplinkSeesEveryField
  <2> SUFFICES ASSUME RowsAreRaw, seen.file.rows # NoRow PROVE SplinkSeesEveryField
    BY DEF SplinkSeesEveryField
  <2>1. PICK raw \in RawRecords \cup {Later} : seen.file.rows = raw
    BY DEF RowsAreRaw
  <2>2. IsRaw(raw)
    BY <2>1, Zenon DEF ExportAssumption
  <2>3. raw[1] \in DOMAIN AnchorSpecs /\ raw[2] \in [DOMAIN raw[2] -> RawValue]
    BY <2>2, Zenon DEF IsRaw
  <2> DEFINE feed == AnchorSpecs[raw[1]]
             record == raw[2]
  <2>4. IsFeed(feed)
    BY <2>3, AnchorsAreFeeds
  <2>5. feed = AnchorSpecs[seen.file.rows[1]] /\ record = seen.file.rows[2]
    BY <2>1
  <2> HIDE DEF feed
  <2>6. \A f \in DOMAIN feed.spec \ {"source_id"} : Filled(record, feed, f)
    BY <2>3, <2>4, FieldsAreFilled
  <2>7. Words(Row(record, feed)["source_id"]) = WordsAt(record, {feed.id})
    <3>1. Row(record, feed)["source_id"] = SourceId(record, feed)
      BY RowColumns, Zenon
    <3>2. record \in [DOMAIN record -> RawValue]
      BY <2>3
    <3>3. Words(SourceId(record, feed)) = WordsAt(record, {feed.id})
      BY <3>2, SourceIdWords
    <3> QED
      BY <3>1, <3>3
  <2>8. \A p \in DOMAIN record :
           \/ Lower(p) \in Excluded(feed)
           \/ Words(Flat(record[p])) \subseteq UNION {Words(t) : t \in Range(ExtraAttributes(record, feed))}
    BY ExtrasAreKept, Zenon
  <2>9. Authentic(record, feed)
    BY <2>3, <2>4, RowsAreAuthentic
  <2>10. WordsAt(record, {feed.id}) \subseteq Words(Row(record, feed)["source_id"])
    BY <2>7
  <2> HIDE DEF record
  <2> QED
    BY <2>5, <2>6, <2>8, <2>9, <2>10, Zenon DEF SplinkSeesEveryField
<1> QED
  BY <1>1, RowsExport, PTL
=============================================================================
