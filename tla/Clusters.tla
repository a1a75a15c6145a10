------------------------------ MODULE Clusters ------------------------------
(***************************************************************************)
(* What the mesh says of a cluster of source records: the devices table    *)
(* (api/schema.py), the source of truth and the drift of a device story    *)
(* (resolve/sot.py, api/db.py), the annotations of the validation          *)
(* (resolve/validate.py).                                                  *)
(*                                                                         *)
(* A mesh is the sequence of its source records, in the order the database *)
(* returns them.  A text is a number, ordered as texts are; 0 is the empty *)
(* one.  The cleaned and the raw form of a name or a MAC are one value, and *)
(* so are the two cases of a letter.                                       *)
(***************************************************************************)
EXTENDS Manifest, FiniteSetsExt

CONSTANT Prefixed   \* a function: serials that still have a prefix, and what they are without

\* The values of the source column: feed keys, shortened by _FEED_SOURCE_MAP.
FeedSource ==
    [sp_devices |-> "sp", me_ec |-> "me_ec", me_mdm |-> "me_mdm", fg_clients |-> "fg",
     fg_dhcp |-> "fg_dhcp", zbx_hosts |-> "zbx", ad_computers |-> "ad", sdp_assets |-> "sdp"]

\* ORDER BY source
SourceOrder == <<"ad", "fg", "fg_dhcp", "me_ec", "me_mdm", "sdp", "sp", "zbx">>

\* A source record.
MeshRow ==
    [cluster : Nat \ {0}, source : Range(SourceOrder), source_id : Nat, name : Nat, mac_address : Nat,
     serial_number : Nat, asset_tag : Nat, manufacturer : Nat, model : Nat, os : Nat, os_family : Nat,
     os_version : Nat, assigned_user : Nat, ip_address : Nat, imei : Nat]

TextFields ==
    {"source_id", "name", "mac_address", "serial_number", "asset_tag", "manufacturer", "model", "os",
     "os_family", "os_version", "assigned_user", "ip_address", "imei"}

Records(mesh, c) == {i \in DOMAIN mesh : mesh[i].cluster = c}

ClustersIn(mesh) == {mesh[i].cluster : i \in DOMAIN mesh}

SourcesOf(mesh, c) == {mesh[i].source : i \in Records(mesh, c)}

Values(mesh, c, f) == {mesh[i][f] : i \in Records(mesh, c)} \ {0}

ValuesOfSource(mesh, c, f, source) ==
    {mesh[i][f] : i \in {i \in Records(mesh, c) : mesh[i].source = source}} \ {0}

----------------------------------------------------------------------------
(* build_devices_sql                                                       *)

\* Mutant: the secondary source is asked first.
ColumnSwapped(mesh, c, f) ==
    LET sot == DEVICE_PROFILE.sot[f]
        primary == ValuesOfSource(mesh, c, f, sot[2])
        secondary == ValuesOfSource(mesh, c, f, sot[1])
    IN IF primary # {} THEN Max(primary)
       ELSE IF secondary # {} THEN Max(secondary)
       ELSE IF Values(mesh, c, f) # {} THEN Min(Values(mesh, c, f)) ELSE 0

\* COALESCE(MAX of the primary source, MAX of the secondary, MIN of any, '')
Column(mesh, c, f) ==
    LET sot == DEVICE_PROFILE.sot[f]
        primary == ValuesOfSource(mesh, c, f, sot[1])
        secondary == ValuesOfSource(mesh, c, f, sot[2])
    IN IF primary # {} THEN Max(primary)
       ELSE IF secondary # {} THEN Max(secondary)
       ELSE IF Values(mesh, c, f) # {} THEN Min(Values(mesh, c, f)) ELSE 0

\* The name has no column: device_name is the least one, or '(unnamed)'.
DeviceName(mesh, c) == IF Values(mesh, c, "name") = {} THEN 0 ELSE Min(Values(mesh, c, "name"))

----------------------------------------------------------------------------
(* _build_story                                                            *)

\* src_records: of several records of a source, the last with a value.  A
\* derived field has a column (os_family) but is no data field of a story.
SourceValue(mesh, c, f, source) ==
    LET with == {i \in Records(mesh, c) : /\ mesh[i].source = source /\ mesh[i][f] # 0
                                          /\ f \notin DOMAIN DEVICE_PROFILE.derived}
    IN IF with = {} THEN 0 ELSE mesh[Max(with)][f]

\* The keys of the coverage are systems: a source that is none has coverage 0.
Coverage(source) == IF source \in DOMAIN SYSTEMS THEN SYSTEMS[source].coverage ELSE 0

Place(source) == CHOOSE i \in DOMAIN SourceOrder : SourceOrder[i] = source

\* sorted(source_records, key=-coverage) keeps the order of the records.
ByCoverage(a, b) ==
    \/ Coverage(a) > Coverage(b)
    \/ Coverage(a) = Coverage(b) /\ Place(a) <= Place(b)

SotResolve(mesh, c, f) ==
    LET primary == DEVICE_PROFILE.sot[f][1]
        secondary == DEVICE_PROFILE.sot[f][2]
        with == {s \in SourcesOf(mesh, c) : SourceValue(mesh, c, f, s) # 0}
        Answer(s, priority) == [value |-> SourceValue(mesh, c, f, s), source |-> s, priority |-> priority]
    IN CASE primary \in with -> Answer(primary, "primary")
         [] primary \notin with /\ secondary \in with -> Answer(secondary, "secondary")
         [] with = {} -> [value |-> 0, source |-> "", priority |-> "none"]
         [] OTHER -> Answer(CHOOSE s \in with : \A t \in with : ByCoverage(s, t), "best_effort")

DriftVerdict(mesh, c, f) ==
    LET with == {s \in SourcesOf(mesh, c) : SourceValue(mesh, c, f, s) # 0}
        unique == {SourceValue(mesh, c, f, s) : s \in with}
    IN CASE Cardinality(with) >= 2 -> IF Cardinality(unique) = 1 THEN "MATCH" ELSE "MISMATCH"
         [] Cardinality(with) = 1 -> "SINGLE_SOURCE"
         [] OTHER -> "none"

----------------------------------------------------------------------------
(* validate_clusters and the drift of anomalies()                          *)

WithoutPrefix(v) == IF v \in DOMAIN Prefixed THEN Prefixed[v] ELSE v

Serials(mesh, c) == {WithoutPrefix(v) : v \in Values(mesh, c, "serial_number")}

SerialConflicts(mesh) == {c \in ClustersIn(mesh) : Cardinality(Serials(mesh, c)) > 1}

SplitIdentities(mesh) ==
    {v \in UNION {Serials(mesh, c) : c \in ClustersIn(mesh)} :
        Cardinality({c \in ClustersIn(mesh) : v \in Serials(mesh, c)}) > 1}

HardwareDrift(mesh) ==
    {c \in ClustersIn(mesh) : Cardinality(Values(mesh, c, "serial_number")) > 1}

----------------------------------------------------------------------------

\* The table, the story and the checks were written apart, and agree on every
\* cluster and field this far:
\*   the table and the story have a value when some record has one, and it is
\*   the value of a record;
\*   where the first source of the priority has one value only, both take it,
\*   and name no other source;
\*   a mismatch, or a conflict of the validation, is drift, and drift that is
\*   no mismatch lies within a source; drift that is no conflict is a prefix;
\*   two records with one serial in two clusters are a split identity.
\* No side is taken on the derived fields, of which the story has no value, nor
\* on a cluster without a value of the first source: the table takes the least
\* one and the story that of the highest coverage, where
\* PLAN_SENTINEL_PORT.md:200 wants one answer; nor on a source "me" (PrimaryWins).
ViewsAgree(mesh, f) ==
    /\ \A c \in ClustersIn(mesh) :
          LET column == Column(mesh, c, f)
              sot == SotResolve(mesh, c, f)
              values == Values(mesh, c, f)
              first == DEVICE_PROFILE.sot[f][1]
              derived == f \in DOMAIN DEVICE_PROFILE.derived
              own == ValuesOfSource(mesh, c, f, first)
          IN /\ column = 0 <=> values = {}
             /\ derived \/ (sot.value = 0 <=> values = {})
             /\ {column, sot.value} \subseteq values \cup {0}
             /\ Cardinality(own) = 1 =>
                   /\ column \in own
                   /\ derived \/ (sot.value \in own /\ sot.source = first)
    /\ f = "serial_number" =>
          /\ SerialConflicts(mesh) \subseteq HardwareDrift(mesh)
          /\ \A c \in HardwareDrift(mesh) \ SerialConflicts(mesh) :
                Values(mesh, c, f) \cap DOMAIN Prefixed # {}
          /\ \A c \in ClustersIn(mesh) :
                DriftVerdict(mesh, c, f) = "MISMATCH" => c \in HardwareDrift(mesh)
          /\ \A c \in HardwareDrift(mesh) :
                DriftVerdict(mesh, c, f) # "MISMATCH" =>
                    \E s \in SourcesOf(mesh, c) : Cardinality(ValuesOfSource(mesh, c, f, s)) > 1
          /\ \A i, j \in DOMAIN mesh :
                /\ mesh[i].serial_number = mesh[j].serial_number /\ mesh[i].serial_number # 0
                /\ mesh[i].cluster # mesh[j].cluster
                => WithoutPrefix(mesh[i].serial_number) \in SplitIdentities(mesh)

SourcesOfSystem(system) ==
    {FeedSource[k] : k \in {k \in DOMAIN FeedSource : MANIFEST.feeds[k].system = system}}

\* "per-field (primary_source, secondary_source)", with ("me", "sp") of serials
\* for example (manifest/types.py:171): the primary source is asked first.
PrimaryWins(mesh, f) ==
    f \notin DOMAIN DEVICE_PROFILE.derived =>
        \A c \in ClustersIn(mesh) :
            (\E s \in SourcesOfSystem(DEVICE_PROFILE.sot[f][1]) : ValuesOfSource(mesh, c, f, s) # {})
                => SotResolve(mesh, c, f).priority = "primary"
=============================================================================
