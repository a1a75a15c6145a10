---------------------------- MODULE MeshQueries ----------------------------
(***************************************************************************)
(* What the API answers from a mesh (api/db.py, api/router.py): the lookup *)
(* of a device, the search, the pages of clusters, the counters, the trace *)
(* graph, the history and the metrics of a device.                         *)
(*                                                                         *)
(* An answer that SQL leaves open (LIMIT 1 among equals, an order with     *)
(* ties) is the set of the answers it may give.                            *)
(*                                                                         *)
(* Abstracted: the limits on lists of 20 and more, the payload of records. *)
(***************************************************************************)
EXTENDS Clusters

CONSTANTS Within,     \* <<part, text>>: texts within others, but for themselves and the empty one
          Upper,      \* cluster ids with a capital letter
          MACTexts,   \* texts that are a MAC
          Addresses,  \* texts that are one IP address
          HostIds     \* the ids of the hosts whose names are known

\* Nothing lies within the empty text.
QueryAssumption == \A p \in Within : p[2] # 0

Like(text, q) == q = 0 \/ q = text \/ <<q, text>> \in Within

SourceCount(mesh, c) == Cardinality(SourcesOf(mesh, c))

\* The columns of the devices table.
Device(mesh, c, f) == IF f = "name" THEN DeviceName(mesh, c) ELSE Column(mesh, c, f)

\* ORDER BY source_count DESC LIMIT 1, and ORDER BY 1 LIMIT 1
Best(mesh, cs) == {c \in cs : \A d \in cs : SourceCount(mesh, d) <= SourceCount(mesh, c)}
Least(cs) == IF cs = {} THEN {} ELSE {Min(cs)}

----------------------------------------------------------------------------
(* _resolve_cluster and search                                             *)

LookupFields == {"name", "serial_number", "manufacturer", "model", "os", "assigned_user",
                 "ip_address", "mac_address"}
SearchFields == LookupFields \cup {"os_version", "asset_tag"}

\* An unnamed device is called '(unnamed)': it has no empty name to be asked for.
Equals(mesh, f, q) == {c \in ClustersIn(mesh) : Device(mesh, c, f) = q /\ (f = "name" => q # 0)}

\* Records with the text in one of the fields; the devices of the last step.
Holding(mesh, fields, q) ==
    {c \in ClustersIn(mesh) : \E i \in Records(mesh, c) : \E f \in fields : Like(mesh[i][f], q)}

\* The steps of the cascade.  The query is put in lower case, the ids are not.
LookupSteps(mesh, q) ==
    << (ClustersIn(mesh) \ Upper) \cap {q},
       Best(mesh, Equals(mesh, "name", q)),
       Best(mesh, Equals(mesh, "serial_number", q)),
       IF q \in MACTexts THEN Best(mesh, Equals(mesh, "mac_address", q)) ELSE {},
       IF q \in MACTexts THEN Least({c \in ClustersIn(mesh) : q \in Values(mesh, c, "mac_address")}) ELSE {},
       Least(Holding(mesh, {"ip_address"}, q)),
       Best(mesh, {c \in ClustersIn(mesh) : Like(Column(mesh, c, "assigned_user"), q)}),
       Best(mesh, Holding(mesh, LookupFields, q)) >>

\* Mutant: the last step is left out.
ResolveClusterByKeys(mesh, q) ==
    LET steps == Front(LookupSteps(mesh, q))
        found == {i \in DOMAIN steps : steps[i] # {}}
    IN IF found = {} THEN {} ELSE steps[Min(found)]

\* The clusters a lookup may answer with; none is a 404.
ResolveCluster(mesh, q) ==
    LET steps == LookupSteps(mesh, q)
        found == {i \in DOMAIN steps : steps[i] # {}}
    IN IF found = {} THEN {} ELSE steps[Min(found)]

\* search without a field: the columns of the devices, not their records.
Search(mesh, q) ==
    {c \in ClustersIn(mesh) : \E f \in SearchFields : Like(Device(mesh, c, f), q)}

----------------------------------------------------------------------------
(* list_clusters                                                           *)

Rank(mesh, c) == <<SourceCount(mesh, c), DeviceName(mesh, c)>>

\* ORDER BY source_count DESC, device_name
Orders(mesh, cs) ==
    {s \in SetToSeqs(cs) : \A i, j \in DOMAIN s : i < j =>
        LET a == Rank(mesh, s[i]) b == Rank(mesh, s[j])
        IN a[1] > b[1] \/ (a[1] = b[1] /\ a[2] <= b[2])}

Listed(mesh, minSources, source) ==
    {c \in ClustersIn(mesh) : /\ SourceCount(mesh, c) >= minSources
                              /\ source = "" \/ source \in SourcesOf(mesh, c)}

\* The pages that one request may be answered with.
Page(mesh, cs, limit, offset) ==
    {SubSeq(s, offset + 1, Min({offset + limit, Len(s)})) : s \in Orders(mesh, cs)}

----------------------------------------------------------------------------
(* dashboard, mesh_stats, anomalies                                        *)

Devices(mesh, P(_)) == Cardinality({c \in ClustersIn(mesh) : P(c)})

RecordsPerSource(mesh) ==
    [s \in {mesh[i].source : i \in DOMAIN mesh} |-> Cardinality({i \in DOMAIN mesh : mesh[i].source = s})]

SourceCountDist(mesh) ==
    [n \in {SourceCount(mesh, c) : c \in ClustersIn(mesh)} |-> Devices(mesh, LAMBDA c : SourceCount(mesh, c) = n)]

\* device_name is never '': the coverage of names counts the unnamed too.
Dashboard(mesh) ==
    [clusters |-> Cardinality(ClustersIn(mesh)), records |-> Len(mesh),
     multi_source |-> Devices(mesh, LAMBDA c : SourceCount(mesh, c) > 1),
     singletons |-> Devices(mesh, LAMBDA c : SourceCount(mesh, c) = 1),
     serial |-> Devices(mesh, LAMBDA c : Column(mesh, c, "serial_number") # 0),
     name |-> Cardinality(ClustersIn(mesh))]

MeshStats(mesh) ==
    LET singles == Devices(mesh, LAMBDA c : SourceCount(mesh, c) = 1)
    IN [singletons |-> singles, multi_source |-> Cardinality(ClustersIn(mesh)) - singles,
        by_source_count |-> SourceCountDist(mesh), records_per_source |-> RecordsPerSource(mesh)]

Anomalies(mesh) ==
    [singletons |-> Devices(mesh, LAMBDA c : SourceCount(mesh, c) = 1),
     no_name |-> Devices(mesh, LAMBDA c : DeviceName(mesh, c) = 0),
     no_serial |-> Devices(mesh, LAMBDA c : Column(mesh, c, "serial_number") = 0),
     hardware_drift |-> Cardinality(HardwareDrift(mesh))]

----------------------------------------------------------------------------
(* device_trace: the device is read from one mesh, what it is linked to    *)
(* over connections opened later, perhaps to another mesh.                 *)

\* vlans: records with a name and the first and last address.
DeviceVlans(mesh, c, vlans) ==
    {v \in vlans : \E ip \in Values(mesh, c, "ip_address") \cap Addresses : v.first <= ip /\ ip <= v.last}

LinkedByUser(mesh, later, c) ==
    LET user == Column(mesh, c, "assigned_user")
    IN {d \in ClustersIn(later) \ {c} : user # 0 /\ Column(later, d, "assigned_user") = user}

\* attached: the rows of the attachments table, [cluster, feed, value].
LinkedByAttachment(later, attached, c) ==
    LET values == {a.value : a \in {a \in attached : a.cluster = c}} \ {0}
    IN {a \in attached : /\ a.cluster \in ClustersIn(later) \ {c}
                         /\ a.value \in values}

\* <<>> when the cluster is gone; otherwise nodes and the targets of edges,
\* which all start at the device.  A device of an attachment is a node unless it
\* is there already.
DeviceTrace(mesh, later, attached, vlans, c) ==
    LET user == Column(mesh, c, "assigned_user")
        byUser == LinkedByUser(mesh, later, c)
        byAttachment == LinkedByAttachment(later, attached, c)
        vlanIds == {<<"vlan", v.name>> : v \in DeviceVlans(later, c, vlans)}
        users == IF user = 0 THEN {} ELSE {<<"user", user>>}
        more == {a.cluster : a \in byAttachment} \ ({c} \cup byUser)
    IN IF c \notin ClustersIn(mesh) THEN <<>>
       ELSE << [devices |-> <<c>> \o SetToSeq(byUser) \o SetToSeq(more),
                others |-> users \cup vlanIds,
                edges |-> {<<"device", d>> : d \in byUser \cup {a.cluster : a \in byAttachment}}
                              \cup users \cup vlanIds] >>

----------------------------------------------------------------------------
(* field_history and metrics                                               *)

\* Changes are stored under the feed's key (ingest/runner.py:218) and joined by
\* the source of the records; changes: <<feed key, source_id>>.
DeviceHistory(mesh, changes, c) ==
    {h \in changes : \E i \in Records(mesh, c) : mesh[i].source = h[1] /\ mesh[i].source_id = h[2]}

\* _load_zbx_metrics: by the id of the host, or by its name.  hosts: id to name.
ClustersOfHost(mesh, hosts, host) ==
    LET byId == {i \in DOMAIN mesh : mesh[i].source = "zbx" /\ mesh[i].source_id = host}
        byName == {i \in DOMAIN mesh : /\ mesh[i].source = "zbx" /\ host \in DOMAIN hosts
                                       /\ hosts[host] # 0 /\ mesh[i].name = hosts[host]}
    IN {mesh[i].cluster : i \in IF byId # {} THEN byId ELSE byName}

\* Items without a host, a time or a known host are left out: the ways to load
\* them.  value NoNumber is kept as a text.
NoNumber == 0

LoadMetrics(mesh, hosts, items) ==
    LET loaded == {t \in items : t.at # 0 /\ ClustersOfHost(mesh, hosts, t.host) # {}}
        of == {f \in [loaded -> ClustersIn(mesh)] :
                  \A t \in loaded : f[t] \in ClustersOfHost(mesh, hosts, t.host)}
    IN {{[cluster |-> f[t], metric |-> t.metric, at |-> t.at, value |-> t.value] : t \in loaded} : f \in of}

\* hours = 0 stands for all of them here, and in the summary for none.
DeviceMetrics(metrics, c, now, hours) ==
    {m \in metrics : m.cluster = c /\ (hours > 0 => m.at + hours >= now)}

Newest(ms) == {m \in ms : \A n \in ms : n.at <= m.at}

MetricSummary(metrics, c, now, hours) ==
    LET numbers == {m \in metrics : m.cluster = c /\ m.value # NoNumber /\ m.at + hours >= now}
    IN [name \in {m.metric : m \in numbers} |->
           LET of == {m \in numbers : m.metric = name}
           IN [count |-> Cardinality(of), latest |-> Newest(of)]]

DeviceStats(metrics, c) ==
    LET numbers == {m \in metrics : m.cluster = c /\ m.value # NoNumber}
    IN [name \in {m.metric : m \in numbers} |-> Newest({m \in numbers : m.metric = name})]

----------------------------------------------------------------------------

\* What a lookup answers holds the text, and it finds whatever a record or a
\* device has in a field it looks at; an exact column of a device is never passed
\* over for a text that holds the query; and in a mesh without merged records a
\* lookup answers with a device of the search, or by id.  No side is taken on
\* the asset tag and the version, which the search looks at and the lookup does
\* not (db.py:157-170), though router.py:126 names the asset tag.
LookupAgrees(mesh, q) ==
    LET answers == ResolveCluster(mesh, q)
        exact == {c \in ClustersIn(mesh) : \E f \in {"name", "serial_number"} : q = Device(mesh, c, f)}
    IN /\ answers \subseteq ({q} \cap ClustersIn(mesh)) \cup Holding(mesh, SearchFields, q)
       /\ Holding(mesh, LookupFields, q) # {} => answers # {}
       /\ q # 0 /\ exact # {} => answers \subseteq exact \cup {q}
       /\ answers = {} => \A c \in ClustersIn(mesh) : \A f \in LookupFields : ~Like(Device(mesh, c, f), q)
       /\ Len(mesh) = Cardinality(ClustersIn(mesh)) => answers \subseteq Search(mesh, q) \cup {q}

\* A walk through the pages of any filter sees every cluster once, unless two
\* clusters have as many sources and one name: then each page may break the tie
\* its own way.
PagesAgree(mesh, minSources, source, limit) ==
    LET cs == Listed(mesh, minSources, source)
        ties == {c \in cs : \E d \in cs \ {c} : Rank(mesh, c) = Rank(mesh, d)}
    IN \A first \in Page(mesh, cs, limit, 0) :
       \A rest \in Page(mesh, cs, Cardinality(cs), limit) :
          /\ Len(first) + Len(rest) = Cardinality(cs)
          /\ Range(first) \cap Range(rest) \subseteq ties
          /\ cs \ (Range(first) \cup Range(rest)) \subseteq ties

Total(count) == Cardinality(UNION {{x} \X (1 .. count[x]) : x \in DOMAIN count})

\* The three reports count the same mesh the same way, and every device and
\* record is counted once; of the names the coverage says nothing.
CountersAgree(mesh) ==
    LET d == Dashboard(mesh) s == MeshStats(mesh) a == Anomalies(mesh)
    IN /\ d.singletons = s.singletons /\ s.singletons = a.singletons
       /\ d.multi_source = s.multi_source
       /\ d.serial + a.no_serial = d.clusters
       /\ d.name - a.no_name <= d.clusters
       /\ Total(s.records_per_source) = d.records
       /\ Total(s.by_source_count) = d.clusters
       /\ a.hardware_drift <= d.serial

\* The graph of a trace has no device twice, an edge to every node but its own
\* device and to nothing else, whatever happens to the mesh meanwhile; and of
\* one mesh, devices are linked to each other both ways.
TraceAgrees(mesh, later, attached, vlans, c) ==
    LET trace == DeviceTrace(mesh, later, attached, vlans, c)
    IN /\ trace = <<>> <=> c \notin ClustersIn(mesh)
       /\ trace # <<>> =>
             /\ IsInjective(trace[1].devices)
             /\ trace[1].edges = {<<"device", d>> : d \in Range(trace[1].devices) \ {c}} \cup trace[1].others
             /\ mesh = later => \A d \in Range(trace[1].devices) :
                   c \in Range(DeviceTrace(mesh, mesh, attached, vlans, d)[1].devices)

\* The history of a device has no change of another device's records, and of the
\* feeds whose key is their source (me_ec, me_mdm, fg_dhcp) it has every one.
\* Changes of the other feeds are stored under a key that the join does not find
\* ("sp_devices", where the records say "sp"); DATA_CORRELATION.md:395-408 counts
\* on them, and no side is taken on them.
HistoryAgrees(mesh, changes) ==
    \A h \in changes :
        LET owners == {mesh[i].cluster : i \in {i \in DOMAIN mesh :
                          mesh[i].source = FeedSource[h[1]] /\ mesh[i].source_id = h[2]}}
            shown == {c \in ClustersIn(mesh) : h \in DeviceHistory(mesh, changes, c)}
        IN /\ shown \subseteq owners
           /\ FeedSource[h[1]] = h[1] => owners \subseteq shown

\* A metric is loaded into one cluster, with a zbx record, and the views of one
\* metrics table agree: the summary's newest number is the one of the stats, and
\* the list of as many hours has all that the summary counts.  A request reads
\* the views over a connection each (router.py:325-351): that an answer shows
\* views of one table is not claimed here, and Service says when it may not.
MetricsAgree(mesh, hosts, items, now, hours) ==
    \A metrics \in LoadMetrics(mesh, hosts, items) : \A c \in ClustersIn(mesh) :
        LET summary == MetricSummary(metrics, c, now, hours)
        IN /\ DeviceMetrics(metrics, c, now, 0) # {} => "zbx" \in SourcesOf(mesh, c)
           /\ \A name \in DOMAIN summary :
                 /\ summary[name].latest = DeviceStats(metrics, c)[name]
                 /\ summary[name].count <=
                       Cardinality({m \in DeviceMetrics(metrics, c, now, hours) : m.metric = name})
=============================================================================
