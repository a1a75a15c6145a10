-------------------------- MODULE FetchStrategies --------------------------
(***************************************************************************)
(* What the strategies of ingest/strategies/ return for what a server      *)
(* answers.  A server is the sequence of its replies to the requests for   *)
(* page 1, 2, ...; a row is the page and the place it has there.           *)
(*                                                                         *)
(* Abstracted: URLs, headers, the wrapper around the rows of a reply.  A   *)
(* server that answers every page number, or whose next links run in a     *)
(* circle, keeps two of the loops going for ever and is left out; so is an *)
(* object in the place of their rows, whose keys they would take for rows. *)
(***************************************************************************)
EXTENDS Naturals, SequencesExt, FiniteSetsExt

CONSTANTS PageSize,       \* row_count
          MaxStartIndex,  \* MAX_START_INDEX
          SizeLimit,      \* of an LDAP search
          RowKeys         \* the keys of rows and of their details

FetchAssumption ==
    /\ PageSize \in Nat \ {0} /\ MaxStartIndex \in Nat /\ SizeLimit \in Nat
    /\ "id" \in RowKeys

\* A reply: "page" with rows; "object" with one row that is no list; "empty"
\* (204 or no text); "error" (an HTTP status, whose body is JSON all the same);
\* "refused" (requests.RequestException: no answer).
Replies ==
    [kind : {"page"}, rows : Nat, more : BOOLEAN]
    \cup [kind : {"object"}, rows : {1}, more : BOOLEAN]
    \cup [kind : {"empty", "error", "refused"}, rows : {0}, more : {FALSE}]

NoContent == [kind |-> "empty", rows |-> 0, more |-> FALSE]
ErrorBody == <<0, 0>>

ReplyTo(server, k) == IF k \in DOMAIN server THEN server[k] ELSE NoContent

RowsOf(server, k) == [i \in 1 .. server[k].rows |-> <<k, i>>]

FirstPages(server, n) == FlattenSeq([k \in 1 .. n |-> RowsOf(server, k)])

Nonempty(r) == r.kind = "page" /\ r.rows > 0

First(server, Ends(_)) == Min({k \in 1 .. Len(server) + 1 : Ends(ReplyTo(server, k))})

----------------------------------------------------------------------------

\* Mutant: an HTTP error ends the loop like an empty page.
PageParamUnchecked(server) ==
    LET k == First(server, LAMBDA r : ~Nonempty(r)) IN FirstPages(server, k - 1)

\* _fetch_page_param: up to a page without rows or a request without an answer;
\* an HTTP error takes back everything.
FetchPageParam(server) ==
    LET k == First(server, LAMBDA r : ~Nonempty(r))
    IN IF ReplyTo(server, k).kind = "error" THEN <<>> ELSE FirstPages(server, k - 1)

\* _fetch_paging_next: while there is a next link; a body that is not JSON, as
\* an empty one, takes back everything too.
FetchPagingNext(server) ==
    LET k == First(server, LAMBDA r : ~Nonempty(r) \/ ~r.more)
        r == ReplyTo(server, k)
    IN CASE Nonempty(r) -> FirstPages(server, k)
         [] ~Nonempty(r) /\ r.kind \in {"page", "refused"} -> FirstPages(server, k - 1)
         [] OTHER -> <<>>

\* sdp_cursor_fetch: while the server says that it has more and fills its pages,
\* up to the cap; any exception takes back everything.
SdpCursorFetch(server) ==
    LET Next(k) == 1 + k * PageSize
        Stops(k) == LET r == ReplyTo(server, k) IN
            r.kind \notin {"page", "object"} \/ ~r.more \/ r.rows < PageSize \/ Next(k) > MaxStartIndex
        k == Min({i \in 1 .. Len(server) + 1 : Stops(i)})
    IN IF ReplyTo(server, k).kind \in {"page", "object"} THEN FirstPages(server, k) ELSE <<>>

\* rest_json_fetch: one request, whose status nobody looks at.  Only the path
\* to the rows, where there is one, does not lead into the body of an error.
RestJsonFetch(server, path) ==
    LET r == ReplyTo(server, 1)
    IN CASE r.kind = "page" -> RowsOf(server, 1)
         [] r.kind = "object" -> << <<1, 1>> >>
         [] r.kind = "error" /\ ~path -> <<ErrorBody>>
         [] OTHER -> <<>>

\* json_rpc_fetch: the status and the error member are looked at.
JsonRpcFetch(server) ==
    LET r == ReplyTo(server, 1)
    IN CASE r.kind = "page" -> RowsOf(server, 1)
         [] r.kind = "object" -> << <<1, 1>> >>
         [] OTHER -> <<>>

\* ldap_fetch: one search, cut at its size limit without a word.
LdapFetch(server) ==
    IF ReplyTo(server, 1).kind = "page"
    THEN SubSeq(RowsOf(server, 1), 1, Min({SizeLimit, server[1].rows})) ELSE <<>>

FetchKinds ==
    {"page_param", "paging.next", "sdp_cursor", "rest_json", "rest_json_path", "json_rpc", "ldap"}

Fetch(strategy, server) ==
    CASE strategy = "page_param" -> FetchPageParam(server)
      [] strategy = "paging.next" -> FetchPagingNext(server)
      [] strategy = "sdp_cursor" -> SdpCursorFetch(server)
      [] strategy = "rest_json" -> RestJsonFetch(server, FALSE)
      [] strategy = "rest_json_path" -> RestJsonFetch(server, TRUE)
      [] strategy = "json_rpc" -> JsonRpcFetch(server)
      [] OTHER -> LdapFetch(server)

----------------------------------------------------------------------------
(* paged_json_detail_fetch: after the list, a request per row for its      *)
(* detail and one for its location.  A row is a function from the keys it  *)
(* has to where the value comes from; replies gives, row by row, the keys  *)
(* of the detail, or that there is none, the keys of the location, and     *)
(* what is no object where the code takes it for one: the row itself, or   *)
(* the location reply or a member of its list.                             *)

ListRows == UNION {[K -> {"list"}] : K \in SUBSET RowKeys}

DetailReplies ==
    [ok : BOOLEAN, detail : SUBSET RowKeys, location : SUBSET RowKeys, odd : {"none", "row", "location"}]

Keep(row, keys, from) ==
    [k \in DOMAIN row \cup keys |-> IF k \in DOMAIN row THEN row[k] ELSE from]

Overwrite(row, keys, from) ==
    [k \in DOMAIN row \cup keys |-> IF k \in keys THEN from ELSE row[k]]

\* The details of rows so far: detail_count.
Counted(rows, replies, n) ==
    Cardinality({i \in 1 .. n : "id" \in DOMAIN rows[i] /\ replies[i].ok})

\* No list is returned: an AttributeError that nothing here catches.
Raised == <<>>

\* A detail adds what the row has not; detail_max stops only the locations,
\* which replace what the row has.
PagedJsonDetailFetch(rows, replies, max) ==
    LET HasId(i) == "id" \in DOMAIN rows[i]
        Located(i) == HasId(i) /\ (max > 0 => Counted(rows, replies, i) < max)
        Detailed(i) == IF HasId(i) /\ replies[i].ok THEN Keep(rows[i], replies[i].detail, "detail") ELSE rows[i]
        Raises(i) == replies[i].odd = "row" \/ (replies[i].odd = "location" /\ Located(i))
    IN IF \E i \in DOMAIN rows : Raises(i) THEN Raised
       ELSE <<[i \in DOMAIN rows |->
                 IF Located(i) THEN Overwrite(Detailed(i), replies[i].location, "location") ELSE Detailed(i)]>>

----------------------------------------------------------------------------

AllRows(server) == FirstPages(server, Len(server))

\* Why a list may be cut short without being empty.
Excused(strategy, server, n) ==
    \/ strategy \in {"page_param", "paging.next"} /\ ReplyTo(server, n + 1).kind \in {"refused", "empty"}
    \/ strategy \in {"page_param", "paging.next"} /\ ReplyTo(server, n + 1).kind \in {"page", "object"}
         /\ ~Nonempty(ReplyTo(server, n + 1))
    \/ strategy \in {"paging.next", "sdp_cursor"} /\ n > 0 /\ ~server[n].more
    \/ strategy = "sdp_cursor" /\ n > 0 /\ (server[n].rows < PageSize \/ 1 + n * PageSize > MaxStartIndex)
    \/ strategy \in {"rest_json", "rest_json_path", "json_rpc"} /\ n = 1

\* What a strategy returns is everything the server has, in its order, or
\* nothing, with no more than these exceptions: a page list that ends in the
\* middle, at a page without rows or, in two strategies, at a request without
\* an answer, as though it were whole (paged_json.py:37, 76); an LDAP search
\* at its limit; and, of rest_json without a path, the body of an error.
WholeOrNothing(strategy, server, rows) ==
    \/ rows = <<>>
    \/ strategy = "rest_json" /\ server[1].kind = "error" /\ rows = <<ErrorBody>>
    \/ strategy = "ldap" /\ rows = SubSeq(RowsOf(server, 1), 1, Len(rows))
                         /\ (Len(rows) < server[1].rows => Len(rows) = SizeLimit)
    \/ \E n \in 1 .. Len(server) :
          /\ \A k \in 1 .. n : server[k].kind \in {"page", "object"}
          /\ rows = FirstPages(server, n)
          /\ n < Len(server) => Excused(strategy, server, n)

\* Details lose no row and no value of the list, though a location may replace
\* one; or they lose the whole list, which takes a row or a location reply that
\* is no object (paged_json_detail.py:75-125).
DetailsOnlyAdd(rows, replies, max) ==
    LET result == PagedJsonDetailFetch(rows, replies, max)
    IN IF result = Raised THEN \E i \in DOMAIN rows : replies[i].odd # "none"
       ELSE /\ Len(result[1]) = Len(rows)
            /\ \A i \in DOMAIN rows : \A k \in DOMAIN rows[i] :
                  /\ k \in DOMAIN result[1][i]
                  /\ result[1][i][k] = rows[i][k] \/ k \in replies[i].location
=============================================================================
