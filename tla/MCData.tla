------------------------------- MODULE MCData -------------------------------
(***************************************************************************)
(* The parts that keep or read data, for TLC.  They share nothing, so each *)
(* behaviour is one of StatusFile, OAuthToken, Backup or Export, or it is  *)
(* one question to the operators of FetchStrategies, Manifest, Clusters,   *)
(* Attachments or MeshQueries; what another part has stays as it is.       *)
(***************************************************************************)
EXTENDS StatusFile, OAuthToken, Backup, Export, Questions

CONSTANTS p1, p2, load, sp, mesh

VARIABLE part

----------------------------------------------------------------------------
(* A text of Export is a sequence of tokens.                               *)

One(text) == [list |-> FALSE, items |-> <<text>>]
Many(texts) == [list |-> TRUE, items |-> texts]

Names == {<<>>, <<"--">>, <<"pc", ".", "corp">>, <<"pc", "(id)">>}
SerialTexts == {<<>>, <<"x">>, <<"SN-", "SN-", "y">>, <<"0000-...">>}
HostMacs == {<<>>, <<"00:00">>, <<"m1">>, <<"m2", ",", "m1">>}

EndpointRecords ==
    {[resource_id |-> One(<<"7">>), name |-> One(n), servicetag |-> One(s), serial_number |-> One(<<"x">>),
      mac_address |-> One(a), MACADDRESS |-> Many(<<<<"m1">>, <<"--">>>>)] :
        n \in Names, s \in SerialTexts, a \in {<<>>, <<"00:00">>, <<"m2", ",", "m1">>}}

HostRecords ==
    {"hostid" :> One(<<"7">>) @@ "host" :> One(<<"pc", ".", "corp">>) @@ "inventory.macaddress_a" :> One(a)
        @@ "inventory.macaddress_b" :> One(<<"m2">>) @@ "inventory.serial_no_a" :> One(s) :
        a \in HostMacs, s \in SerialTexts}

UnmappedRecord ==
    [resource_id |-> One(<<>>), owner |-> One(<<"ann">>), MAC_ADDRESS |-> One(<<"m1">>), id |-> One(<<"9">>),
     tags |-> Many(<< <<"a">>, <<"--">>, <<"b">> >>)]

\* Fields with one path and with several, a list of which the first is kept, ids
\* that no column is read from, and an id under the name of a system column.
PhoneRecords ==
    {[device_id |-> One(<<"7">>), DEVICEID |-> One(<<"8">>), serial_number |-> One(s), model |-> One(<<"x">>),
      MODEL |-> One(m), imei |-> Many(<< <<"a">>, <<"b">> >>), latitude |-> One(<<"--">>)] :
        s \in SerialTexts, m \in {<<>>, <<"x">>, <<"z">>}}

ComputerRecords ==
    {[sAMAccountName |-> One(i), dNSHostName |-> One(<<"pc", ".", "corp">>), managedBy |-> Many(<< <<"ann">>, <<"bob">> >>),
      manufacturer |-> One(<<"dell">>)] : i \in {<<>>, <<"--">>, <<"pc">>}}

SharePointRecord ==
    "id" :> One(<<"7">>) @@ "fields.ETHMAC" :> One(<<"m1">>) @@ "fields.WLANMAC" :> One(<<"m2">>)
        @@ "fields.ManufacturerString" :> One(<<"dell">>) @@ "source_id" :> One(<<"x">>)

MCRawRecords ==
    {<<"me_ec", r>> : r \in EndpointRecords \cup {UnmappedRecord}} \cup {<<"zbx_hosts", r>> : r \in HostRecords}
    \cup {<<"me_mdm", r>> : r \in PhoneRecords} \cup {<<"ad_computers", r>> : r \in ComputerRecords}
    \cup {<<"sp_devices", SharePointRecord>>}

MCVocabulary ==
    {",", ".", "--", "SN-", "(id)", "0000-...", "00:00", "m1", "m2", "pc", "corp", "host", "x", "y", "z", "7", "8", "9",
     "a", "b", "ann", "bob", "dell"}

\* Of the paths that differ by case only.
MCLower(path) == CASE path = "MAC_ADDRESS" -> "mac_address"
                   [] path = "MACADDRESS" -> "macaddress"
                   [] path = "DEVICEID" -> "deviceid"
                   [] path = "MODEL" -> "model"
                   [] OTHER -> path

MCLater == <<"me_ec", [resource_id |-> One(<<"8">>), name |-> One(<<"host">>)]>>

\* Texts of a mesh: 1 ann, 2 pc1, 3 pc10, 4 a MAC, 5 10.0.0.1, 6 10.0.0.12,
\* 7 A7, 8 ann@corp; clusters 21, 22 and 23, whose id has a capital.
MCPrefixed == 3 :> 1
MCWithin == {<<2, 3>>, <<5, 6>>, <<1, 8>>}

\* Texts of an attachment: 3 a short word, 4 one with a digit, 9 five words and
\* 10 the URL of a document about 1.
MCTokens == 9 :> <<3, 2, 5, 1, 4>>
MCTokenLength == <<8, 7, 5, 5, 6, 0, 0, 0, 0, 30>>
MCEmployeeName == 10 :> 1

----------------------------------------------------------------------------
(* Questions                                                               *)

EmptyRow ==
    [cluster |-> 21, source |-> "sp"]
    @@ [f \in TextFields |-> 0]

RowOf(c, s, values) == [cluster |-> c, source |-> s] @@ values @@ EmptyRow

UpTo(n, S) == UNION {[1 .. k -> S] : k \in 1 .. n}

FewReplies ==
    [kind : {"page"}, rows : 0 .. 2, more : BOOLEAN]
    \cup [kind : {"empty", "error", "refused"}, rows : {0}, more : {FALSE}]

\* A row that is no list: two of the loops would take its keys for rows.
FetchQuestions ==
    [about : {"fetch"}, server : UpTo(3, FewReplies), strategy : FetchKinds]
    \cup [about : {"fetch"}, server : {<<[kind |-> "object", rows |-> 1, more |-> FALSE]>>},
          strategy : {"rest_json", "rest_json_path", "json_rpc"}]
    \cup [about : {"fetch"}, strategy : {"sdp_cursor"},
          server : UpTo(2, FewReplies \cup [kind : {"object"}, rows : {1}, more : BOOLEAN])]

DetailQuestions ==
    LET two == {[k \in K |-> "list"] : K \in {{"os"}, {"id"}, {"id", "os"}}}
        answers == [ok : BOOLEAN, detail : {{}, {"os", "ram"}}, location : {{}, {"os", "lat"}}, odd : {"none"}]
                       \cup [ok : BOOLEAN, detail : {{"os"}}, location : {{}}, odd : {"row", "location"}]
    IN [about : {"details"}, list : [1 .. 2 -> two], replies : [1 .. 2 -> answers], max : 0 .. 2]

\* The default manifest with one thing wrong.
Broken ==
    LET m == MANIFEST
        feed == m.feeds.sp_devices
        device == m.profiles.device
        Feed(f) == [m EXCEPT !.feeds.sp_devices = f]
        Profile(p) == [m EXCEPT !.profiles.device = p]
        Linked(l) == [m EXCEPT !.feeds.sp_devicenotes.links = <<l>>]
        link == DeviceLink
    IN {m,
        Feed([feed EXCEPT !.system = "sap"]), Feed([feed EXCEPT !.profile = "person"]),
        Feed([feed EXCEPT !.id = ""]), Feed([feed EXCEPT !.role = "context"]),
        Feed([feed EXCEPT !.spec = "colour" :> Paths(<<"colour">>) @@ @]),
        Feed([feed EXCEPT !.spec = "os_family" :> Paths(<<"os">>) @@ @]),
        Feed([feed EXCEPT !.spec.name = FieldSpec(<<"Title">>, "upper")]),
        Feed([feed EXCEPT !.spec.name = Paths(<<"Title", "name">>)]),
        [m EXCEPT !.systems.ad.strategy = "ldaps"], [m EXCEPT !.systems.ad.auth = "kerberos"],
        Linked([link EXCEPT !.to = "person"]), Linked([link EXCEPT !.on = "colour"]),
        Linked([link EXCEPT !.scope = {"sp_vlans"}]), Linked([link EXCEPT !.scope = {"sap"}]),
        Linked([link EXCEPT !.strategy = "guess"]), Linked([link EXCEPT !.transform = "upper"]),
        Profile([device EXCEPT !.comparisons = <<"colour">>]), Profile([device EXCEPT !.blocking = <<"colour">>]),
        Profile([device EXCEPT !.sot = "name" :> <<"sap", "">> @@ @]),
        Profile([device EXCEPT !.sot = "colour" :> <<"sp", "">> @@ @]),
        Profile([device EXCEPT !.fields = SelectSeq(@, LAMBDA f : f # "os_family")]),
        Profile([device EXCEPT !.fields = SelectSeq(@, LAMBDA f : f # "model")]),
        [m EXCEPT !.profiles = "machine" :> [device EXCEPT !.name = "machine"]],
        [m EXCEPT !.profiles = "machine" :> [device EXCEPT !.name = "machine"],
                  !.feeds = [k \in DOMAIN @ |-> [@[k] EXCEPT
                                !.profile = IF @ = "device" THEN "machine" ELSE @,
                                !.links = [i \in DOMAIN @ |-> [@[i] EXCEPT !.to = "machine"]]]]]}

ManifestQuestions == [about : {"manifest"}, manifest : Broken]

\* A field with the sources (me, sp), one with (zbx, fg) and a derived one.
ClusterQuestions ==
    LET Valued(c, s, v) == RowOf(c, s, "serial_number" :> v @@ "ip_address" :> v @@ "os_family" :> v)
    IN {[about |-> "clusters", field |-> f, mesh |-> <<Valued(21, s, u), Valued(c, t, v), Valued(d, r, w)>>] :
           f \in {"serial_number", "ip_address", "os_family"}, c \in {21, 22}, d \in {21, 22},
           s \in {"me_ec", "sp", "fg", "zbx"}, t \in {"me_ec", "sp", "fg", "zbx"}, r \in {"sp", "fg"},
           u \in 0 .. 3, v \in 0 .. 3, w \in 0 .. 3}

Described ==
    {"name" :> 2, "name" :> 3 @@ "assigned_user" :> 8, "name" :> 1, "serial_number" :> 2,
     "mac_address" :> 4 @@ "ip_address" :> 5, "ip_address" :> 6 @@ "assigned_user" :> 1,
     "asset_tag" :> 7, "model" :> 7 @@ "assigned_user" :> 3}

Meshes ==
    {<<RowOf(21, "sp", a), RowOf(c, "me_ec", b), RowOf(d, "sp", e)>> :
        a \in Described, b \in Described, e \in Described, c \in {21, 23}, d \in {22, 23}}

NamedMeshes ==
    {<<RowOf(21, "sp", "name" :> a), RowOf(22, "sp", "name" :> b), RowOf(23, "zbx", "name" :> c), RowOf(d, s, "name" :> 3)>> :
        a \in {0, 2}, b \in {0, 2}, c \in {0, 2}, d \in 21 .. 23, s \in {"sp", "zbx"}}

TracedMeshes ==
    {<<RowOf(21, "sp", "assigned_user" :> 1 @@ "ip_address" :> 5), RowOf(22, "sp", "assigned_user" :> u),
       RowOf(c, "zbx", "assigned_user" :> v)>> : u \in {0, 1}, v \in {1, 8}, c \in {22, 23}}

AttachedRows == [cluster : 21 .. 23, feed : {"sp_devicenotes"}, value : {1, 2}]

AllSources == {"ad", "fg", "fg_dhcp", "me_ec", "me_mdm", "sdp", "sp", "zbx"}

Vlans == {[name |-> 1, first |-> 5, last |-> 5], [name |-> 1, first |-> 4, last |-> 6],
          [name |-> 2, first |-> 6, last |-> 6]}

Changes == {<<k, i>> : k \in DOMAIN FeedSource, i \in {1, 2}}

Items == {[host |-> h, metric |-> "cpu", at |-> t, value |-> v] : h \in {1, 5}, t \in {0, 2}, v \in {NoNumber, 1}}
            \cup {[host |-> 1, metric |-> "cpu", at |-> 3, value |-> 2],
                  [host |-> 6, metric |-> "ram", at |-> 3, value |-> 1]}

MeshQuestions ==
    [about : {"lookup"}, mesh : Meshes, text : {0, 1, 2, 4, 5, 7, 21, 23}]
    \cup [about : {"counters"}, mesh : Meshes \cup NamedMeshes]
    \cup [about : {"pages"}, mesh : NamedMeshes, minSources : {1, 2}, source : {"", "sp"}, limit : 0 .. 2]
    \cup [about : {"trace"}, mesh : TracedMeshes, later : TracedMeshes, cluster : {21, 23},
          attached : {{}, AttachedRows} \cup {{a, b} : a \in AttachedRows, b \in AttachedRows}, vlans : {Vlans}]
    \cup {[about |-> "history", changes |-> Changes, mesh |-> <<RowOf(21, s, "source_id" :> 1), RowOf(c, t, "source_id" :> i)>>] :
             s \in AllSources, t \in AllSources, c \in {21, 22}, i \in {1, 2}}
    \cup {[about |-> "metrics", hosts |-> 1 :> 2 @@ 5 :> 3, items |-> Items, now |-> 4, hours |-> h,
           mesh |-> <<RowOf(21, s, "source_id" :> 1 @@ "name" :> 2), RowOf(c, "zbx", "source_id" :> i @@ "name" :> n)>>] :
             s \in {"sp", "zbx"}, c \in {21, 22}, i \in {1, 5}, n \in {2, 3}, h \in 0 .. 3}

LinkMeshes ==
    {<<RowOf(21, s, f :> 1), RowOf(c, t, g :> v), RowOf(22, "sp", "manufacturer" :> 2 @@ "asset_tag" :> 4)>> :
        s \in {"sp", "zbx"}, t \in {"sp", "zbx", "sdp"}, c \in {21, 22}, v \in 1 .. 3,
        f \in {"source_id", "assigned_user"}, g \in {"source_id", "name", "assigned_user"}}

FeedLinks ==
    {AttachmentFeeds[k].links : k \in DOMAIN AttachmentFeeds}
    \cup {[AttachmentFeeds.sdp_requests.links EXCEPT ![1].multi = FALSE]}

\* One record, with values where the links of the feed look for them.
LinkedRecords(links) ==
    LET texts == [{links[i].field : i \in DOMAIN links} ->
                     IF Len(links) = 1 THEN {0, 1, 2, 4, 9, 10} ELSE {0, 1, 3}]
    IN {{[source_id |-> 1, text |-> t @@ [f \in LinkFields |-> 0]]} : t \in texts}

LinkQuestions ==
    UNION {[about : {"links"}, links : {links}, mesh : LinkMeshes, records : LinkedRecords(links)] :
              links \in FeedLinks}

\* The questions are of the sets that the theorems about them speak of, and the
\* default manifest loads and fails nowhere.
ASSUME StatusAssumption /\ OAuthAssumption /\ BackupAssumption /\ ExportAssumption
ASSUME FetchAssumption /\ AttachAssumption /\ QueryAssumption
ASSUME FetchQuestions \subseteq FetchQuestion /\ DetailQuestions \subseteq DetailQuestion
ASSUME ClusterQuestions \subseteq ClusterQuestion /\ LinkQuestions \subseteq LinkQuestion
ASSUME MeshQuestions \subseteq MeshQuestion
ASSUME LoadManifest(MANIFEST) # <<>> /\ Failures(LoadManifest(MANIFEST)[1]) = {}

----------------------------------------------------------------------------

\* Of the states a part may start in, another part keeps one.
TokenParked == TokenInit /\ rotates = FALSE /\ stored = NoFile
CsvParked == ExportInit /\ table = <<"me_ec", UnmappedRecord>>

Init ==
    /\ part \in {"status", "token", "backup", "csv", "questions"}
    /\ StatusInit /\ BackupInit /\ question = Nothing
    /\ IF part = "token" THEN TokenInit ELSE TokenParked
    /\ IF part = "csv" THEN ExportInit ELSE CsvParked

Asks == part = "questions" /\ question = Nothing

AskFetch == Asks /\ question' \in FetchQuestions \cup DetailQuestions
AskManifest == Asks /\ question' \in ManifestQuestions
AskClusters == Asks /\ question' \in ClusterQuestions
AskMesh == Asks /\ question' \in MeshQuestions
AskLinks == Asks /\ question' \in LinkQuestions

Next ==
    \/ part = "status" /\ StatusNext /\ UNCHANGED <<part, tokenVars, backupVars, exportVars, question>>
    \/ part = "token" /\ TokenNext /\ UNCHANGED <<part, statusVars, backupVars, exportVars, question>>
    \/ part = "backup" /\ BackupNext /\ UNCHANGED <<part, statusVars, tokenVars, exportVars, question>>
    \/ part = "csv" /\ ExportNext /\ UNCHANGED <<part, statusVars, tokenVars, backupVars, question>>
    \/ /\ AskFetch \/ AskManifest \/ AskClusters \/ AskMesh \/ AskLinks
       /\ UNCHANGED <<part, statusVars, tokenVars, backupVars, exportVars>>

Spec == Init /\ [][Next]_<<part, statusVars, tokenVars, backupVars, exportVars, question>>

=============================================================================
