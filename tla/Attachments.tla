---------------------------- MODULE Attachments ----------------------------
(***************************************************************************)
(* Which clusters the records of an attachment feed are linked to          *)
(* (resolve/attach.py), for the feeds and links of the manifest.           *)
(*                                                                         *)
(* A mesh is that of Clusters.  A text is a number, 0 the empty one, in    *)
(* lower case and stripped.  A raw record is [source_id, text]: text has   *)
(* the values of its fields.                                               *)
(*                                                                         *)
(* Abstracted: the confidence of a link, which is 1.0, or 0.9 of a token   *)
(* (a token has no dot left that would make it 0.7, attach.py:166).        *)
(***************************************************************************)
EXTENDS Clusters

CONSTANTS Tokens,        \* a function: texts of several tokens to the sequence of them
          TokenLength,   \* a function: the tokens to their lengths
          WithDigit,     \* tokens with a digit
          RejectWords,   \* _REJECT_WORDS
          EmployeeName   \* a function: the URLs of documents to the names in them

\* A text is one that has a length, or 0; the tokens of a text are texts; the
\* empty text is no URL.
AttachAssumption ==
    /\ TokenLength \in [DOMAIN TokenLength -> Nat]
    /\ \A text \in DOMAIN Tokens : Tokens[text] \in Seq(DOMAIN TokenLength)
    /\ 0 \notin DOMAIN EmployeeName

LinkFields == UNION {{link.field : link \in Range(AttachmentFeeds[k].links)} : k \in DOMAIN AttachmentFeeds}

Links ==
    [field : LinkFields, to : STRING, on : STRING, strategy : STRING, transform : STRING, multi : BOOLEAN,
     scope : SUBSET DOMAIN FeedSource]

MinTokenLength == 4
MinSingleTokenLength == 6

\* The columns of the keyspace.
KeyFields == {"source_id", "name", "mac_address", "serial_number", "asset_tag", "assigned_user"}

Keys(row) == {row[f] : f \in KeyFields} \ {0}

InScope(mesh, scope) ==
    {i \in DOMAIN mesh : scope = {} \/ mesh[i].source \in {FeedSource[k] : k \in scope}}

\* Mutant: the sources of the scope are looked for by the keys of the feeds.
KeyspaceByFeed(mesh, scope) ==
    LET rows == {i \in DOMAIN mesh : scope = {} \/ mesh[i].source \in scope}
    IN [v \in UNION {Keys(mesh[i]) : i \in rows} |->
           mesh[Max({i \in rows : v \in Keys(mesh[i])})].cluster]

\* build_keyspace: of several rows with a value the last has it.
Keyspace(mesh, scope) ==
    LET rows == InScope(mesh, scope)
    IN [v \in UNION {Keys(mesh[i]) : i \in rows} |->
           mesh[Max({i \in rows : v \in Keys(mesh[i])})].cluster]

\* build_reject_lists
RejectLists(mesh) == {mesh[i].manufacturer : i \in DOMAIN mesh} \cup {mesh[i].os : i \in DOMAIN mesh}

RawTokens(text) == IF text \in DOMAIN Tokens THEN Tokens[text] ELSE <<text>>

\* _tokenize: the places of the words that it keeps.
Tokenize(text) ==
    {i \in DOMAIN RawTokens(text) :
        LET t == RawTokens(text)[i]
        IN /\ TokenLength[t] >= MinTokenLength
           /\ TokenLength[t] >= MinSingleTokenLength \/ t \in WithDigit}

----------------------------------------------------------------------------
(* The resolvers: the clusters of a text                                   *)

Lookup(keyspace, text) == IF text \in DOMAIN keyspace THEN {keyspace[text]} ELSE {}

ResolveExact(text, keyspace) == Lookup(keyspace, text)

\* An unknown transform leaves the text as it is.
Normalized(link, text) ==
    IF link.transform # "employee_name_from_url" THEN text
    ELSE IF text \in DOMAIN EmployeeName THEN EmployeeName[text] ELSE 0

ResolveNormalized(link, text, keyspace) == Lookup(keyspace, Normalized(link, text))

\* The first token of a cluster stands for it; without multi the cluster with
\* the longest has it.
ResolveExtractFuzzy(link, text, keyspace, reject) ==
    LET words == RawTokens(text)
        found == {i \in Tokenize(text) : words[i] \in DOMAIN keyspace \ reject}
        clusters == {keyspace[words[i]] : i \in found}
        first == [c \in clusters |-> Min({i \in found : keyspace[words[i]] = c})]
        length == [c \in clusters |-> TokenLength[words[first[c]]]]
    IN IF link.multi THEN clusters
       ELSE {c \in clusters : \A d \in clusters :
                length[d] < length[c] \/ (length[d] = length[c] /\ first[c] <= first[d])}

Resolve(link, text, keyspace, reject) ==
    IF text = 0 THEN {}
    ELSE CASE link.strategy = "exact" -> ResolveExact(text, keyspace)
           [] link.strategy = "normalized" -> ResolveNormalized(link, text, keyspace)
           [] link.strategy = "extract_fuzzy" -> ResolveExtractFuzzy(link, text, keyspace, reject)
           [] OTHER -> {}

\* resolve_feed_attachments: one keyspace, of the first link's scope, serves all
\* the links of a feed.
ResolveFeedAttachments(links, mesh, records) ==
    LET keyspace == Keyspace(mesh, links[1].scope)
        reject == RejectWords \cup RejectLists(mesh)
        rows(record, link) ==
            {[cluster |-> c, source_id |-> record.source_id, field |-> link.field] :
                c \in Resolve(link, record.text[link.field], keyspace, reject)}
    IN UNION {rows(record, link) : record \in records, link \in Range(links)}

----------------------------------------------------------------------------

\* The texts a value may be found by.
KeysOfValue(link, text) ==
    IF text = 0 THEN {}
    ELSE CASE link.strategy = "extract_fuzzy" -> {RawTokens(text)[i] : i \in Tokenize(text)}
           [] link.strategy = "normalized" -> {Normalized(link, text)}
           [] link.strategy = "exact" -> {text}
           [] OTHER -> {}

Holders(mesh, scope, v) == {mesh[i].cluster : i \in {i \in InScope(mesh, scope) : v \in Keys(mesh[i])}}

\* A link on the cleaned name: the two forms of a name are one value here.
JoinField(link) == IF link.on = "name_clean" THEN "name" ELSE link.on

\* The clusters that a link declares for a value: those of a record in its scope
\* with the value in the field it is joined on (manifest/types.py:81-86).
Declared(mesh, link, v) ==
    {mesh[i].cluster : i \in {i \in InScope(mesh, link.scope) : mesh[i][JoinField(link)] = v}}

\* A record is attached to a cluster only where a source record of it in the
\* scope has the value the link reads; to one cluster at most, unless the link
\* is multi; and where one cluster has the value, in the field the link is
\* joined on and in no other cluster's keys, to that one.
\* The code and the comments differ beyond that, and no side is taken: on a
\* value in another key column than `on', on a link whose scope is not that of
\* the first link of the feed (attach.py:263) or is empty (types.py:85), and on
\* a value of two clusters, where the last row wins and attach.py:206 says that
\* there is none.
LinksJustified(links, mesh, records) ==
    LET reject == RejectWords \cup RejectLists(mesh)
        rows == ResolveFeedAttachments(links, mesh, records)
        found(record, link) == {r.cluster : r \in {r \in rows : /\ r.source_id = record.source_id
                                                                /\ r.field = link.field}}
    IN \A record \in records : \A link \in {link \in Range(links) : link.scope = links[1].scope} :
          LET text == record.text[link.field]
              clusters == found(record, link)
          IN /\ \A c \in clusters : \E v \in KeysOfValue(link, text) : c \in Holders(mesh, link.scope, v)
             /\ ~link.multi => Cardinality(clusters) <= 1
             /\ \A v \in KeysOfValue(link, text) \ {0} :
                   /\ Cardinality(Declared(mesh, link, v)) = 1
                   /\ Holders(mesh, link.scope, v) = Declared(mesh, link, v)
                   /\ IF link.strategy = "extract_fuzzy" THEN link.multi /\ v \notin reject
                      ELSE link.scope # {}
                   => Declared(mesh, link, v) \subseteq clusters

\* "on: anchor field to join against" (manifest/types.py:81): a record is attached
\* to clusters that the link declares.
LinksJoined(links, mesh, records) ==
    \A r \in ResolveFeedAttachments(links, mesh, records) :
        \E record \in records : \E link \in Range(links) :
            /\ r.source_id = record.source_id /\ r.field = link.field
            /\ \E v \in KeysOfValue(link, record.text[link.field]) : r.cluster \in Declared(mesh, link, v)

\* "the result is looked up against assigned_user ... so docs link to the same
\* clusters the employee already attaches to" (manifest.py:523): a document and
\* the employee it names are attached to the same cluster.
DocsFollowEmployees(mesh, url) ==
    LET name == EmployeeName[url]
        doc == [source_id |-> 1, text |-> [webUrl |-> url]]
        employee == [source_id |-> 1,
                     text |-> [f \in {"fields.BusEmailAddress", "fields.ReadName", "fields.MLUsername"} |->
                                  IF f = "fields.ReadName" THEN name ELSE 0]]
        clusters(feed, record) == {r.cluster : r \in ResolveFeedAttachments(feed.links, mesh, {record})}
    IN clusters(AttachmentFeeds.sp_employeedocs, doc) = clusters(AttachmentFeeds.sp_employees, employee)
=============================================================================
