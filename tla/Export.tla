------------------------------- MODULE Export -------------------------------
(***************************************************************************)
(* The export: a raw record is walked by the spec of its feed, normalised  *)
(* and written to devices.csv, which Splink reads (manifest/walker.py,     *)
(* normalizer.py, export_for_splink.py, scripts/run_splink.py).            *)
(*                                                                         *)
(* A text is a sequence of tokens: words, "," and ".", a serial prefix     *)
(* "SN-", an asset suffix "(id)", the placeholder "--", the fill-in serial *)
(* "0000-..." and the MAC of zeros "00:00".  A raw value is a list of      *)
(* texts, or one; a raw record has values at its dotted paths.             *)
(*                                                                         *)
(* Abstracted: spelling (a MAC or a word is one token however written),    *)
(* lists of objects, the families of operating systems.  Records of one    *)
(* table do not touch each other: a table has one record, or none.         *)
(***************************************************************************)
EXTENDS Manifest, FiniteSetsExt

CONSTANTS RawRecords,   \* <<feed key, record>>: what a raw table may hold at first
          Later,        \* <<feed key, record>>: what the next ingest makes of it
          Lower(_),     \* str.lower, of paths
          Vocabulary,   \* the tokens of a text
          MACs,         \* tokens that are a valid MAC
          MaxExports    \* bound: exports begun

AnchorSpecs ==
    [k \in DOMAIN AssetFeeds \cup DOMAIN NetworkFeeds |->
        IF k \in DOMAIN AssetFeeds THEN AssetFeeds[k] ELSE NetworkFeeds[k]]

RawText == Seq(Vocabulary)

RawValue == [list : BOOLEAN, items : Seq(RawText)]

IsRaw(raw) ==
    /\ raw = <<raw[1], raw[2]>> /\ raw[1] \in DOMAIN AnchorSpecs
    /\ raw[2] \in [DOMAIN raw[2] -> RawValue]

ExportAssumption ==
    /\ MaxExports \in Nat /\ "," \in Vocabulary
    /\ \A raw \in RawRecords \cup {Later} : IsRaw(raw)

Placeholder == {<<>>, <<"--">>}

StripSentinels(text) == IF text \in Placeholder THEN <<>> ELSE text

\* The texts but those left out, with commas between them.
Join(texts, left) ==
    LET joined[n \in 0 .. Len(texts)] ==
            IF n = 0 THEN <<>>
            ELSE IF texts[n] \in left THEN joined[n - 1]
            ELSE IF joined[n - 1] = <<>> THEN texts[n]
            ELSE joined[n - 1] \o <<",">> \o texts[n]
    IN joined[Len(texts)]

\* s.split(token)[0]
Before(text, token) ==
    LET at == SelectInSeq(text, LAMBDA t : t = token)
    IN IF at = 0 THEN text ELSE SubSeq(text, 1, at - 1)

----------------------------------------------------------------------------
(* normalizer.py, and transforms.py as far as an anchor's spec has them    *)

NormalizeName(text) ==
    LET label == Before(text, ".")
    IN CASE text \in Placeholder -> <<>>
         [] label # <<>> /\ label[Len(label)] = "(id)" -> Front(label)
         [] OTHER -> label

\* The first member of a comma-separated list that is a MAC and no fill-in.
NormalizeMac(text) ==
    LET valid == {i \in DOMAIN text : /\ text[i] \in MACs
                                      /\ i > 1 => text[i - 1] = ","
                                      /\ i < Len(text) => text[i + 1] = ","}
    IN IF valid = {} THEN <<>> ELSE <<text[Min(valid)]>>

\* One prefix goes, not two: normalising again may change the text again.
NormalizeSerial(text) ==
    IF text \in Placeholder \cup {<<"0000-...">>} THEN <<>>
    ELSE IF Head(text) = "SN-" THEN Tail(text)
    ELSE text

\* "lower" leaves words what they are.
Transform(name, text) ==
    CASE name = "mac" -> NormalizeMac(text)
      [] name = "serial" -> NormalizeSerial(text)
      [] name = "first_of_list" -> Before(text, ",")
      [] OTHER -> text

----------------------------------------------------------------------------
(* walker.py                                                               *)

Found(record, paths) ==
    [i \in DOMAIN paths |->
        IF paths[i] \in DOMAIN record THEN Join(record[paths[i]].items, Placeholder) ELSE <<>>]

\* Mutant: a later path takes the place of an earlier one.
ExtractLast(record, spec) ==
    LET found == Found(record, spec.paths)
        last == SelectLastInSeq(found, LAMBDA t : t # <<>>)
    IN IF last = 0 THEN <<>> ELSE Transform(spec.transform, found[last])

\* Every distinct value of every path, joined, then transformed.
ExtractField(record, spec) ==
    LET found == Found(record, spec.paths)
        distinct == [i \in DOMAIN found |->
                        IF \E j \in 1 .. i - 1 : found[j] = found[i] THEN <<>> ELSE found[i]]
        result == Join(distinct, Placeholder)
    IN IF result = <<>> THEN <<>> ELSE Transform(spec.transform, result)

\* A list keeps its placeholders here and in an id, a single value does not.
Flat(value) == Join(value.items, IF value.list THEN {<<>>} ELSE Placeholder)

SystemColumns == {"id", "ingested_at", "raw_json", "source_id", "raw_hash", "remote_updated_at", "fetched_at"}

PathsOf(feed, field) == IF field \in DOMAIN feed.spec THEN Range(feed.spec[field].paths) ELSE {}

MappedPaths(feed) == {feed.id} \cup UNION {PathsOf(feed, f) : f \in DOMAIN feed.spec}

Excluded(feed) == {Lower(p) : p \in MappedPaths(feed)} \cup SystemColumns

ExtraAttributes(record, feed) ==
    LET extra == {p \in DOMAIN record : Lower(p) \notin Excluded(feed) /\ Flat(record[p]) # <<>>}
    IN [p \in extra |-> Flat(record[p])]

\* A single placeholder is an id as well.
SourceId(record, feed) == IF feed.id \in DOMAIN record THEN Join(record[feed.id].items, {<<>>}) ELSE <<>>

\* The id takes the place of what the spec has for it.
WalkFeed(record, feed) ==
    [f \in DOMAIN feed.spec \cup {"source_id"} |->
        IF f = "source_id" THEN SourceId(record, feed) ELSE ExtractField(record, feed.spec[f])]

\* Columns without a value are left out.
NormalizeRecord(rec) ==
    LET field(f) == IF f \in DOMAIN rec THEN rec[f] ELSE <<>>
        serial == NormalizeSerial(field("serial_number"))
        name == NormalizeName(field("name"))
        mac == NormalizeMac(field("mac_address"))
    IN [c \in DOMAIN rec \cup {"serial_number", "name_clean", "mac_clean", "name_fallback"} |->
           CASE c = "source_id" -> rec[c]
             [] c = "serial_number" -> StripSentinels(serial)
             [] c = "name_clean" -> name
             [] c = "mac_clean" -> mac
             [] c = "name_fallback" -> IF serial = <<>> /\ mac = <<>> THEN name ELSE <<>>
             [] OTHER -> StripSentinels(rec[c])]

\* The row of the CSV file, but for its extra attributes.
Row(record, feed) == NormalizeRecord(WalkFeed(record, feed))

----------------------------------------------------------------------------
(* export(), and the choice of run_splink.py between its files             *)

VARIABLES table,      \* the raw table: <<feed key, record>>, or NoRow
          csv,        \* devices.csv
          csvTmp,     \* devices.csv.tmp
          exporting,  \* where the export is
          rows,       \* what it has read
          export,     \* exports begun
          written,    \* the last one that has written its rows
          seen        \* the file Splink has read last, and what was written then

exportVars == <<table, csv, csvTmp, exporting, rows, export, written, seen>>

NoRow == <<>>
Missing == [at |-> 0, whole |-> FALSE, rows |-> NoRow]
Unseen == [file |-> Missing, latest |-> 0]

ExportInit ==
    /\ table \in RawRecords
    /\ csv = Missing /\ csvTmp = Missing /\ seen = Unseen
    /\ exporting = "no" /\ rows = NoRow
    /\ export = 0 /\ written = 0

\* An ingest between two exports; or the table is gone, or cannot be read.
Ingest ==
    /\ exporting = "no" /\ table \in RawRecords
    /\ table' \in {Later, NoRow}
    /\ UNCHANGED <<csv, csvTmp, exporting, rows, export, written, seen>>

ReadTables ==
    /\ exporting = "no" /\ export < MaxExports
    /\ export' = export + 1 /\ rows' = table /\ exporting' = "open"
    /\ UNCHANGED <<table, csv, csvTmp, written, seen>>

OpenCsvTmp ==
    /\ exporting = "open"
    /\ csvTmp' = [at |-> export, whole |-> FALSE, rows |-> NoRow]
    /\ exporting' = "write"
    /\ UNCHANGED <<table, csv, rows, export, written, seen>>

WriteRows ==
    /\ exporting = "write"
    /\ csvTmp' = [at |-> export, whole |-> TRUE, rows |-> rows]
    /\ written' = export /\ exporting' = "unlink"
    /\ UNCHANGED <<table, csv, rows, export, seen>>

UnlinkCsv ==
    /\ exporting = "unlink"
    /\ csv' = Missing /\ exporting' = "rename"
    /\ UNCHANGED <<table, csvTmp, rows, export, written, seen>>

RenameTmp ==
    /\ exporting = "rename"
    /\ csv' = csvTmp /\ csvTmp' = Missing /\ exporting' = "end"
    /\ UNCHANGED <<table, rows, export, written, seen>>

\* devices.csv is locked by a program that reads it: the tmp file stays.
SwapRefused ==
    /\ exporting \in {"unlink", "rename"}
    /\ exporting' = "end"
    /\ UNCHANGED <<table, csv, csvTmp, rows, export, written, seen>>

\* An export without rows leaves no devices.csv, or raises where it is locked.
End ==
    /\ exporting = "end" /\ exporting' = "no"
    /\ csv' \in IF rows = NoRow THEN {Missing, csv} ELSE {csv}
    /\ UNCHANGED <<table, csvTmp, rows, export, written, seen>>

ExportCrash ==
    /\ exporting # "no" /\ exporting' = "no"
    /\ UNCHANGED <<table, csv, csvTmp, rows, export, written, seen>>

\* Mutant: devices.csv is read whenever it is there.
SplinkReadsCsv ==
    /\ exporting = "no"
    /\ csv # Missing \/ csvTmp # Missing
    /\ seen' = [file |-> IF csv = Missing THEN csvTmp ELSE csv, latest |-> written]
    /\ UNCHANGED <<table, csv, csvTmp, exporting, rows, export, written>>

\* The tmp file if it is newer; without any file the script ends.
SplinkReads ==
    /\ exporting = "no"
    /\ csv # Missing \/ csvTmp # Missing
    /\ seen' = [file |-> IF csv = Missing \/ csvTmp.at > csv.at THEN csvTmp ELSE csv,
                latest |-> written]
    /\ UNCHANGED <<table, csv, csvTmp, exporting, rows, export, written>>

ExportNext ==
    \/ Ingest \/ ReadTables \/ OpenCsvTmp \/ WriteRows \/ UnlinkCsv \/ RenameTmp \/ SwapRefused
    \/ End \/ ExportCrash \/ SplinkReads

ExportSpec == ExportInit /\ [][ExportNext]_exportVars

----------------------------------------------------------------------------

ExportTypeOK ==
    /\ table \in RawRecords \cup {Later, NoRow}
    /\ exporting \in {"no", "open", "write", "unlink", "rename", "end"}
    /\ export \in 0 .. MaxExports /\ written \in 0 .. export
    /\ exporting \in {"unlink", "rename"} => csvTmp.whole /\ written = export
    /\ exporting = "rename" => csv = Missing

Words(text) == Range(text) \ {",", "--"}

\* Of a serial number, the prefix and the fill-in go.
Trimmed(field) == IF field = "serial_number" THEN {"SN-", "0000-..."} ELSE {}

\* The column of a field has, transformed, the value of the first of its paths
\* that has one; of the values of later paths nothing is said.
Filled(record, feed, field) ==
    LET spec == feed.spec[field]
        found == Found(record, spec.paths)
    IN \A i \in DOMAIN found :
          (\A j \in 1 .. i - 1 : found[j] = <<>>) =>
              Words(Transform(spec.transform, found[i])) \ Trimmed(field) \subseteq Words(Row(record, feed)[field])

\* The paths a column is for: the manifest says what each derived one is from.
OriginPaths(feed, column) ==
    IF column = "source_id" THEN {feed.id}
    ELSE PathsOf(feed, IF column \in DOMAIN DEVICE_PROFILE.derived THEN DEVICE_PROFILE.derived[column] ELSE column)

WordsAt(record, paths) == UNION {Words(Flat(record[p])) : p \in paths \cap DOMAIN record}

\* No column has a word that is not at one of its paths.
Authentic(record, feed) ==
    \A c \in DOMAIN Row(record, feed) :
        Words(Row(record, feed)[c]) \subseteq WordsAt(record, OriginPaths(feed, c))

\* What Splink reads is the newest export that was written to its end.  Only an
\* export that crashed while it wrote leaves a newer, torn file, which
\* run_splink.py prefers (run_splink.py:12).
SplinkReadsNewest ==
    /\ seen.file.at >= seen.latest
    /\ seen.file.at = seen.latest <=> seen.file.whole \/ seen = Unseen

\* In a row that Splink reads each field has its value, and the id, though they
\* are read, joined, transformed and normalised; a path that no field is for has
\* its value in the extra attributes, but for one whose name in small letters is
\* that of a mapped one or of a column of the raw store (walker.py:144-166); and
\* no column has anything of a field that is not its own
\* (export_for_splink.py:62-135, walker.py:44-171).
SplinkSeesEveryField ==
    seen.file.rows # NoRow =>
        LET feed == AnchorSpecs[seen.file.rows[1]]
            record == seen.file.rows[2]
            extra == ExtraAttributes(record, feed)
        IN /\ \A f \in DOMAIN feed.spec \ {"source_id"} : Filled(record, feed, f)
           /\ WordsAt(record, {feed.id}) \subseteq Words(Row(record, feed)["source_id"])
           /\ \A p \in DOMAIN record :
                 \/ Lower(p) \in Excluded(feed)
                 \/ Words(Flat(record[p])) \subseteq UNION {Words(t) : t \in Range(extra)}
           /\ Authentic(record, feed)
=============================================================================
