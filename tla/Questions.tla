----------------------------- MODULE Questions -----------------------------
(***************************************************************************)
(* Every question that can be put to the parts that keep no state, and     *)
(* what the answers promise.  A behaviour asks one question: there is one  *)
(* for each question, which is how a property of an operator becomes an    *)
(* invariant.  The sets of questions are those that the code is asked, of  *)
(* any size; MCData asks the ones of a small instance.                     *)
(***************************************************************************)
EXTENDS FetchStrategies, MeshQueries, Attachments

VARIABLE question

Nothing == [about |-> "nothing"]

\* The behaviours that ask one of the questions Q, or none.
Asking(Q) == question = Nothing /\ [][question = Nothing /\ question' \in Q]_question

----------------------------------------------------------------------------
(* ingest/strategies/                                                      *)

\* An object in the place of the rows is left out where a loop would take its
\* keys for rows, and of an LDAP search, which has none.
FetchQuestion ==
    {q \in [about : {"fetch"}, strategy : FetchKinds, server : Seq(Replies)] :
        q.strategy \in {"page_param", "paging.next", "ldap"} =>
            \A k \in DOMAIN q.server : q.server[k].kind # "object"}

DetailQuestion ==
    {q \in [about : {"details"}, list : Seq(ListRows), replies : Seq(DetailReplies), max : Nat] :
        Len(q.list) = Len(q.replies)}

\* A fetch returns everything or nothing, but for named exceptions, and details
\* lose nothing of the list or all of it (ingest/strategies/).
FetchIsWholeOrNothing ==
    /\ question.about = "fetch" =>
          WholeOrNothing(question.strategy, question.server, Fetch(question.strategy, question.server))
    /\ question.about = "details" => DetailsOnlyAdd(question.list, question.replies, question.max)

----------------------------------------------------------------------------
(* manifest/                                                               *)

\* A manifest that loads fails a later stage only in what _validate does not
\* look at (manifest/__init__.py:139-248).
LoadedManifestRuns ==
    question.about = "manifest" =>
        LET loaded == LoadManifest(question.manifest)
        IN loaded # <<>> => \A f \in Failures(loaded[1]) : Unchecked(loaded[1], f)

----------------------------------------------------------------------------
(* api/, resolve/                                                          *)

ClusterQuestion == [about : {"clusters"}, field : DOMAIN DEVICE_PROFILE.sot, mesh : Seq(MeshRow)]

\* Table, story and validation agree on a cluster (schema.py:38-98, sot.py:11-50,
\* db.py:296-345, validate.py:47-97).
ClusterViewsAgree == question.about = "clusters" => ViewsAgree(question.mesh, question.field)

\* The primary source of a field wins in the story (manifest/types.py:171,
\* projects/default/manifest.py:137-150; sot.py:27-31, export_for_splink.py:26-35).
PrimarySourceWins == question.about = "clusters" => PrimaryWins(question.mesh, question.field)

\* The links of a feed read different fields, and a record has its own id.
LinkQuestion ==
    {q \in [about : {"links"}, mesh : Seq(MeshRow), links : Seq(Links),
            records : SUBSET [source_id : Nat, text : [LinkFields -> DOMAIN TokenLength \cup {0}]]] :
        /\ q.links # <<>>
        /\ \A i, j \in DOMAIN q.links : q.links[i].field = q.links[j].field => i = j
        /\ \A r, s \in q.records : r.source_id = s.source_id => r = s}

\* Records are attached to clusters that hold the value their link reads, and a
\* document to the cluster of the employee it names (resolve/attach.py:126-308,
\* manifest.py:523-526).
LinksAreJustified ==
    question.about = "links" =>
        /\ LinksJustified(question.links, question.mesh, question.records)
        /\ \A url \in DOMAIN EmployeeName : DocsFollowEmployees(question.mesh, url)

\* A link joins against the field it names (manifest/types.py:81;
\* attach.py:78-118, 263).
LinksJoinOnTheirField ==
    question.about = "links" => LinksJoined(question.links, question.mesh, question.records)

\* A host sends finitely many items.
MeshQuestion ==
    [about : {"lookup"}, mesh : Seq(MeshRow), text : Nat]
    \cup [about : {"counters"}, mesh : Seq(MeshRow)]
    \cup [about : {"pages"}, mesh : Seq(MeshRow), minSources : Nat, source : Range(SourceOrder) \cup {""},
          limit : Nat]
    \cup [about : {"trace"}, mesh : Seq(MeshRow), later : Seq(MeshRow), cluster : Nat,
          attached : SUBSET [cluster : Nat, feed : DOMAIN AttachmentFeeds, value : Nat],
          vlans : SUBSET [name : Nat, first : Nat, last : Nat]]
    \cup [about : {"history"}, mesh : Seq(MeshRow), changes : SUBSET ((DOMAIN FeedSource) \X Nat)]
    \cup {q \in [about : {"metrics"}, mesh : Seq(MeshRow), hosts : [HostIds -> Nat],
                items : SUBSET [host : Nat, metric : STRING, at : Nat, value : Nat], now : Nat, hours : Nat] :
              IsFiniteSet(q.items)}

\* Lookup and search, the pages, the reports, the trace, the history and the
\* metrics of the API say the same of one mesh (db.py:104-1168).
QueriesAgree ==
    /\ question.about = "lookup" => LookupAgrees(question.mesh, question.text)
    /\ question.about = "counters" => CountersAgree(question.mesh)
    /\ question.about = "pages" =>
          PagesAgree(question.mesh, question.minSources, question.source, question.limit)
    /\ question.about = "trace" =>
          TraceAgrees(question.mesh, question.later, question.attached, question.vlans, question.cluster)
    /\ question.about = "history" => HistoryAgrees(question.mesh, question.changes)
    /\ question.about = "metrics" =>
          MetricsAgree(question.mesh, question.hosts, question.items, question.now, question.hours)
=============================================================================
