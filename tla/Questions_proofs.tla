-------------------------- MODULE Questions_proofs --------------------------
(***************************************************************************)
(* What the answers to every question promise: the fetch strategies, the   *)
(* manifest, the views of a cluster, the attachments and the queries of    *)
(* the API, for servers, manifests, meshes and feeds of any size.          *)
(*                                                                         *)
(* An operator is proved of every question of its kind; that a behaviour   *)
(* keeps the promise is then one step.  Where the code takes the least or  *)
(* the greatest of a set, its minimum is that of a set of naturals, and    *)
(* its maximum exists because a sequence has only so many values.          *)
(***************************************************************************)
EXTENDS Questions, FiniteSetTheorems, FunctionTheorems, WellFoundedInduction, SequenceTheorems, TLAPS

----------------------------------------------------------------------------
(* Least and greatest                                                      *)

\* A set of naturals has a least element.
LEMMA NatMin ==
    ASSUME NEW S \in SUBSET Nat, S # {}
    PROVE  Min(S) \in S /\ \A x \in S : Min(S) <= x
<1> DEFINE Less == {p \in Nat \X Nat : p[1] < p[2]}
<1>1. Less = OpToRel(<, Nat)
    BY DEF OpToRel
<1>2. IsWellFoundedOn(Less, Nat)
    BY <1>1, NatLessThanWellFounded, Zenon
<1>3. \A x, y \in Nat : <<y, x>> \in Less <=> y < x
    OBVIOUS
<1> HIDE DEF Less
<1>4. PICK m \in S : \A y \in S : ~(<<y, m>> \in Less)
    BY <1>2, WFMin, Zenon
<1>5. ASSUME NEW y \in S PROVE m <= y
  <2>1. ~(y < m)
      BY <1>3, <1>4
  <2> QED
      BY <2>1
<1> QED
    BY <1>5 DEF Min

\* A bounded set of naturals has a greatest element.
LEMMA NatMax ==
    ASSUME NEW S \in SUBSET Nat, S # {}, NEW b \in Nat, \A x \in S : x <= b
    PROVE  Max(S) \in S /\ \A x \in S : x <= Max(S)
<1> DEFINE T == {b - x : x \in S}
<1>1. T \in SUBSET Nat /\ T # {}
  <2>1. \A x \in S : b - x \in Nat
      OBVIOUS
  <2> QED
      BY <2>1, Zenon
<1> HIDE DEF T
<1>2. Min(T) \in T /\ \A t \in T : Min(T) <= t
    BY <1>1, NatMin
<1>3. PICK m \in S : Min(T) = b - m
    BY <1>2 DEF T
<1>4. ASSUME NEW x \in S PROVE x <= m
  <2>1. b - x \in T
      BY DEF T
  <2>2. b - m <= b - x
      BY <1>2, <1>3, <2>1
  <2> QED
      BY <2>2
<1> QED
    BY <1>4 DEF Max

\* Finitely many naturals are bounded.
LEMMA Bounded ==
    ASSUME NEW n \in Nat, NEW D \in SUBSET (1 .. n), NEW f \in [D -> Nat]
    PROVE  \E b \in Nat : \A i \in D : f[i] <= b
<1> DEFINE Below(k) == \E b \in Nat : \A i \in D : i <= k => f[i] <= b
           Bad == {k \in Nat : ~Below(k)}
<1>1. Below(0)
    OBVIOUS
<1>2. ASSUME NEW k \in Nat, Below(k) PROVE Below(k + 1)
  <2>1. PICK b \in Nat : \A i \in D : i <= k => f[i] <= b
      BY <1>2
  <2>2. CASE k + 1 \in D
    <3>1. f[k + 1] \in Nat
        BY <2>2
    <3>2. PICK c \in Nat : b <= c /\ f[k + 1] <= c
        BY <3>1
    <3>3. ASSUME NEW i \in D, i <= k + 1 PROVE f[i] <= c
      <4>1. i \in Nat /\ f[i] \in Nat
          OBVIOUS
      <4> QED
          BY <2>1, <3>1, <3>2, <3>3, <4>1
    <3> QED
        BY <3>3
  <2>3. CASE k + 1 \notin D
    <3>1. ASSUME NEW i \in D, i <= k + 1 PROVE f[i] <= b
        BY <2>1, <2>3, <3>1
    <3> QED
        BY <3>1
  <2> QED
      BY <2>2, <2>3
<1>3. Bad = {}
  <2>1. SUFFICES ASSUME Bad # {} PROVE FALSE
      OBVIOUS
  <2>2. Bad \in SUBSET Nat /\ \A k \in Nat : k \in Bad <=> ~Below(k)
      OBVIOUS
  <2> HIDE DEF Bad, Below
  <2>3. Min(Bad) \in Bad /\ \A k \in Bad : Min(Bad) <= k
      BY <2>1, <2>2, NatMin
  <2>4. PICK m \in Nat : m \in Bad /\ \A k \in Bad : m <= k
      BY <2>2, <2>3
  <2>5. m # 0 /\ m - 1 \in Nat
      BY <1>1, <2>2, <2>4
  <2>6. m - 1 \notin Bad
      BY <2>4, <2>5
  <2>7. Below(m - 1) /\ ~Below(m)
      BY <2>2, <2>4, <2>5, <2>6
  <2>8. Below(m - 1 + 1)
      BY <1>2, <2>5, <2>7
  <2>9. m - 1 + 1 = m
      OBVIOUS
  <2> QED
      BY <2>7, <2>8, <2>9, Zenon
<1>4. Below(n)
    BY <1>3
<1> QED
    BY <1>4

----------------------------------------------------------------------------
(* ingest/strategies/                                                      *)

\* The requests at which a loop may end: the one after the last reply, if none
\* before it.
LEMMA LeastRequest ==
    ASSUME NEW n \in Nat, NEW S \in SUBSET (1 .. n + 1), n + 1 \in S
    PROVE  /\ Min(S) \in S /\ Min(S) \in 1 .. n + 1
           /\ \A k \in 1 .. n : k < Min(S) => k \notin S
<1>1. S \in SUBSET Nat /\ S # {}
    OBVIOUS
<1>2. Min(S) \in S /\ \A x \in S : Min(S) <= x
    BY <1>1, NatMin
<1>3. PICK m \in Nat : m = Min(S)
    BY <1>1, <1>2
<1>4. m \in S /\ m \in 1 .. n + 1 /\ \A k \in 1 .. n : k < m => k \notin S
    BY <1>2, <1>3
<1> QED
    BY <1>3, <1>4

\* What the replies of a server are.
LEMMA ReplyTypes ==
    ASSUME NEW server \in Seq(Replies), NEW k \in Nat \ {0}
    PROVE  /\ k \in DOMAIN server <=> k <= Len(server)
           /\ k <= Len(server) => ReplyTo(server, k) = server[k] /\ server[k] \in Replies
           /\ k > Len(server) => ReplyTo(server, k) = NoContent
           /\ ReplyTo(server, k) \in Replies
           /\ ReplyTo(server, k).kind \in {"page", "object", "empty", "error", "refused"}
           /\ ReplyTo(server, k).rows \in Nat /\ ReplyTo(server, k).more \in BOOLEAN
           /\ ReplyTo(server, k).kind = "object" => ReplyTo(server, k).rows = 1
<1>1. k \in DOMAIN server <=> k <= Len(server)
    OBVIOUS
<1>2. ReplyTo(server, k) \in Replies
  <2>1. NoContent \in [kind : {"empty", "error", "refused"}, rows : {0}, more : {FALSE}]
      BY DEF NoContent
  <2>2. NoContent \in Replies
      BY <2>1 DEF Replies
  <2> QED
      BY <1>1, <2>2 DEF ReplyTo
<1>3. ASSUME NEW r \in Replies
      PROVE  /\ r.kind \in {"page", "object", "empty", "error", "refused"}
             /\ r.rows \in Nat /\ r.more \in BOOLEAN
             /\ r.kind = "object" => r.rows = 1
  <2>1. CASE r \in [kind : {"page"}, rows : Nat, more : BOOLEAN]
      BY <2>1
  <2>2. CASE r \in [kind : {"object"}, rows : {1}, more : BOOLEAN]
      BY <2>2
  <2>3. CASE r \in [kind : {"empty", "error", "refused"}, rows : {0}, more : {FALSE}]
    <3>1. r.kind \in {"empty", "error", "refused"} /\ r.rows \in {0}
        BY <2>3
    <3>2. r.more \in {FALSE}
        BY <2>3, Zenon
    <3>3. r.more \in BOOLEAN
        BY <3>2, Zenon
    <3> QED
        BY <3>1, <3>3
  <2> QED
      BY <2>1, <2>2, <2>3 DEF Replies
<1>4. k <= Len(server) => server[k] \in Replies
    BY <1>1
<1> QED
    BY <1>1, <1>2, <1>3, <1>4 DEF ReplyTo

\* No page, and the first page.
LEMMA FewPages ==
    ASSUME NEW server
    PROVE  /\ FirstPages(server, 0) = <<>>
           /\ FirstPages(server, 1) = RowsOf(server, 1)
<1> DEFINE none == [k \in 1 .. 0 |-> RowsOf(server, k)]
           one == [k \in 1 .. 1 |-> RowsOf(server, k)]
           flatten == CHOOSE f : f = [i \in 1 .. Len(one) |-> IF i = 1 THEN one[i] ELSE f[i - 1] \o one[i]]
<1>1. none = <<>> /\ Len(none) = 0
    OBVIOUS
<1>2. FirstPages(server, 0) = <<>>
    BY <1>1 DEF FirstPages, FlattenSeq
<1>3. Len(one) = 1 /\ one[1] = RowsOf(server, 1)
    OBVIOUS
<1> HIDE DEF one
<1>4. FlattenSeq(one) = flatten[Len(one)]
    BY <1>3 DEF FlattenSeq
<1>5. flatten = [i \in 1 .. Len(one) |-> IF i = 1 THEN one[i] ELSE flatten[i - 1] \o one[i]]
  <2> DEFINE g == [i \in 1 .. Len(one) |-> one[i]]
  <2>1. g = [i \in 1 .. Len(one) |-> IF i = 1 THEN one[i] ELSE g[i - 1] \o one[i]]
      BY <1>3
  <2> HIDE DEF g
  <2> QED
      BY <2>1, Zenon
<1> HIDE DEF flatten
<1>6. flatten[1] = one[1]
    BY <1>3, <1>5
<1>7. FirstPages(server, 1) = FlattenSeq(one)
    BY DEF FirstPages, one
<1> QED
    BY <1>2, <1>3, <1>4, <1>6, <1>7

\* Of a loop that took its pages up to n, and may stop there, the rows are whole.
LEMMA LoopIsWhole ==
    ASSUME NEW server \in Seq(Replies), NEW strategy, NEW n \in 0 .. Len(server),
           \A k \in 1 .. n : ReplyTo(server, k).kind \in {"page", "object"},
           n > 0 /\ n < Len(server) => Excused(strategy, server, n)
    PROVE  WholeOrNothing(strategy, server, FirstPages(server, n))
<1>1. CASE n = 0
    BY <1>1, FewPages DEF WholeOrNothing
<1>2. CASE n > 0
  <2>1. \A k \in 1 .. n : server[k].kind \in {"page", "object"}
    <3>1. ASSUME NEW k \in 1 .. n PROVE server[k].kind \in {"page", "object"}
      <4>1. ReplyTo(server, k) = server[k]
          BY ReplyTypes
      <4> QED
          BY <4>1
    <3> QED
        BY <3>1
  <2>2. n \in 1 .. Len(server)
      BY <1>2
  <2> QED
      BY <1>2, <2>1, <2>2 DEF WholeOrNothing
<1> QED
    BY <1>1, <1>2

LEMMA PageParamIsWhole ==
    ASSUME NEW server \in Seq(Replies)
    PROVE  WholeOrNothing("page_param", server, FetchPageParam(server))
<1> DEFINE S == {k \in 1 .. Len(server) + 1 : ~Nonempty(ReplyTo(server, k))}
<1>1. Len(server) + 1 \in S
    BY ReplyTypes DEF Nonempty, NoContent
<1>2. \A k \in 1 .. Len(server) : k \notin S => Nonempty(ReplyTo(server, k))
    OBVIOUS
<1>3. \A k \in S : ~Nonempty(ReplyTo(server, k))
    OBVIOUS
<1>4. S \in SUBSET (1 .. Len(server) + 1)
    OBVIOUS
<1>5. FetchPageParam(server) =
          IF ReplyTo(server, Min(S)).kind = "error" THEN <<>> ELSE FirstPages(server, Min(S) - 1)
    BY DEF FetchPageParam, First
<1> HIDE DEF S
<1>6. PICK k \in 1 .. Len(server) + 1 :
          /\ k = Min(S) /\ k \in S
          /\ \A i \in 1 .. Len(server) : i < k => i \notin S
    BY <1>1, <1>4, LeastRequest
<1>7. CASE ReplyTo(server, k).kind = "error"
    BY <1>5, <1>6, <1>7 DEF WholeOrNothing
<1>8. CASE ReplyTo(server, k).kind # "error"
  <2>1. \A i \in 1 .. k - 1 : ReplyTo(server, i).kind \in {"page", "object"}
      BY <1>2, <1>6 DEF Nonempty
  <2>2. Excused("page_param", server, k - 1)
    <3>1. ~Nonempty(ReplyTo(server, k)) /\ k = k - 1 + 1
        BY <1>3, <1>6
    <3>2. ReplyTo(server, k).kind \in {"page", "object", "empty", "refused"}
        BY <1>8, ReplyTypes
    <3> QED
        BY <3>1, <3>2 DEF Excused
  <2>3. WholeOrNothing("page_param", server, FirstPages(server, k - 1))
      BY <2>1, <2>2, LoopIsWhole
  <2> QED
      BY <1>5, <1>6, <1>8, <2>3
<1> QED
    BY <1>7, <1>8

LEMMA PagingNextIsWhole ==
    ASSUME NEW server \in Seq(Replies)
    PROVE  WholeOrNothing("paging.next", server, FetchPagingNext(server))
<1> DEFINE S == {k \in 1 .. Len(server) + 1 : ~Nonempty(ReplyTo(server, k)) \/ ~ReplyTo(server, k).more}
           r == ReplyTo(server, Min(S))
<1>1. Len(server) + 1 \in S
    BY ReplyTypes DEF Nonempty, NoContent
<1>2. \A k \in 1 .. Len(server) : k \notin S => Nonempty(ReplyTo(server, k))
    OBVIOUS
<1>3. \A k \in S : Nonempty(ReplyTo(server, k)) => ~ReplyTo(server, k).more
    OBVIOUS
<1>4. S \in SUBSET (1 .. Len(server) + 1)
    OBVIOUS
<1>5. FetchPagingNext(server) =
          CASE Nonempty(r) -> FirstPages(server, Min(S))
            [] ~Nonempty(r) /\ r.kind \in {"page", "refused"} -> FirstPages(server, Min(S) - 1)
            [] OTHER -> <<>>
    BY DEF FetchPagingNext, First
<1> HIDE DEF S
<1>6. PICK k \in 1 .. Len(server) + 1 :
          /\ k = Min(S) /\ k \in S
          /\ \A i \in 1 .. Len(server) : i < k => i \notin S
    BY <1>1, <1>4, LeastRequest
<1>7. \A i \in 1 .. k - 1 : ReplyTo(server, i).kind \in {"page", "object"}
    BY <1>2, <1>6 DEF Nonempty
<1>8. CASE Nonempty(r)
  <2>1. k <= Len(server) /\ ReplyTo(server, k) = server[k] /\ ~server[k].more
      BY <1>3, <1>6, <1>8, ReplyTypes DEF Nonempty, NoContent
  <2>2. \A i \in 1 .. k : ReplyTo(server, i).kind \in {"page", "object"}
      BY <1>6, <1>7, <1>8 DEF Nonempty
  <2>3. Excused("paging.next", server, k)
      BY <2>1 DEF Excused
  <2>4. WholeOrNothing("paging.next", server, FirstPages(server, k))
      BY <2>1, <2>2, <2>3, LoopIsWhole
  <2>5. FetchPagingNext(server) = FirstPages(server, Min(S))
    <3> HIDE DEF r
    <3> QED
        BY <1>5, <1>8
  <2> QED
      BY <1>6, <2>4, <2>5, Zenon
<1>9. CASE ~Nonempty(r) /\ r.kind \in {"page", "refused"}
  <2>1. Excused("paging.next", server, k - 1)
    <3>1. ~Nonempty(ReplyTo(server, k)) /\ k = k - 1 + 1 /\ ReplyTo(server, k).kind \in {"page", "refused"}
        BY <1>6, <1>9
    <3> QED
        BY <3>1 DEF Excused
  <2>2. WholeOrNothing("paging.next", server, FirstPages(server, k - 1))
      BY <1>7, <2>1, LoopIsWhole
  <2> QED
      BY <1>5, <1>6, <1>9, <2>2
<1>10. CASE ~Nonempty(r) /\ r.kind \notin {"page", "refused"}
    BY <1>5, <1>10 DEF WholeOrNothing
<1> QED
    BY <1>8, <1>9, <1>10

LEMMA SdpCursorIsWhole ==
    ASSUME FetchAssumption, NEW server \in Seq(Replies)
    PROVE  WholeOrNothing("sdp_cursor", server, SdpCursorFetch(server))
<1> DEFINE Goes(k) == LET r == ReplyTo(server, k) IN
               r.kind \in {"page", "object"} /\ r.more /\ ~(r.rows < PageSize)
                   /\ ~(1 + k * PageSize > MaxStartIndex)
           S == {k \in 1 .. Len(server) + 1 : ~Goes(k)}
<1>1. Len(server) + 1 \in S
    BY ReplyTypes DEF NoContent
<1>2. \A k \in 1 .. Len(server) : k \notin S => ReplyTo(server, k).kind \in {"page", "object"}
    OBVIOUS
<1>3. \A k \in S : ~Goes(k)
    OBVIOUS
<1>4. S \in SUBSET (1 .. Len(server) + 1)
    OBVIOUS
<1>5. S = {k \in 1 .. Len(server) + 1 :
              LET r == ReplyTo(server, k) IN
                  \/ r.kind \notin {"page", "object"}
                  \/ ~r.more
                  \/ r.rows < PageSize
                  \/ 1 + k * PageSize > MaxStartIndex}
    OBVIOUS
<1>6. SdpCursorFetch(server) =
          IF ReplyTo(server, Min(S)).kind \in {"page", "object"} THEN FirstPages(server, Min(S)) ELSE <<>>
    BY <1>5, Zenon DEF SdpCursorFetch
<1> HIDE DEF S
<1>7. PICK k \in 1 .. Len(server) + 1 :
          /\ k = Min(S) /\ k \in S
          /\ \A i \in 1 .. Len(server) : i < k => i \notin S
    BY <1>1, <1>4, LeastRequest
<1>8. \A i \in 1 .. k - 1 : ReplyTo(server, i).kind \in {"page", "object"}
    BY <1>2, <1>7
<1>9. CASE ReplyTo(server, k).kind \in {"page", "object"}
  <2>1. k <= Len(server) /\ ReplyTo(server, k) = server[k]
      BY <1>9, ReplyTypes DEF NoContent
  <2>2. \A i \in 1 .. k : ReplyTo(server, i).kind \in {"page", "object"}
      BY <1>8, <1>9
  <2>3. Excused("sdp_cursor", server, k)
    <3>1. ~Goes(k)
        BY <1>3, <1>7
    <3> QED
        BY <1>9, <2>1, <3>1 DEF Excused
  <2>4. WholeOrNothing("sdp_cursor", server, FirstPages(server, k))
      BY <2>1, <2>2, <2>3, LoopIsWhole
  <2> QED
      BY <1>6, <1>7, <1>9, <2>4
<1>10. CASE ReplyTo(server, k).kind \notin {"page", "object"}
    BY <1>6, <1>7, <1>10 DEF WholeOrNothing
<1> QED
    BY <1>9, <1>10

\* A single request returns its page.
LEMMA OnePageIsWhole ==
    ASSUME NEW server \in Seq(Replies), NEW strategy \in {"rest_json", "rest_json_path", "json_rpc"},
           ReplyTo(server, 1).kind \in {"page", "object"}
    PROVE  WholeOrNothing(strategy, server, RowsOf(server, 1))
<1>1. 1 \in 0 .. Len(server)
    BY ReplyTypes DEF NoContent
<1>2. \A k \in 1 .. 1 : ReplyTo(server, k).kind \in {"page", "object"}
    OBVIOUS
<1>3. Excused(strategy, server, 1)
    BY DEF Excused
<1>4. WholeOrNothing(strategy, server, FirstPages(server, 1))
    BY <1>1, <1>2, <1>3, LoopIsWhole
<1> QED
    BY <1>4, FewPages

\* The object in the place of the rows is the one row of its page.
LEMMA ObjectIsARow ==
    ASSUME NEW server \in Seq(Replies), ReplyTo(server, 1).kind = "object"
    PROVE  RowsOf(server, 1) = << <<1, 1>> >>
<1>1. server[1].rows = 1
    BY ReplyTypes DEF NoContent
<1> QED
    BY <1>1 DEF RowsOf

LEMMA RequestsAreWhole ==
    ASSUME NEW server \in Seq(Replies)
    PROVE  /\ WholeOrNothing("rest_json", server, RestJsonFetch(server, FALSE))
           /\ WholeOrNothing("rest_json_path", server, RestJsonFetch(server, TRUE))
           /\ WholeOrNothing("json_rpc", server, JsonRpcFetch(server))
<1> DEFINE r == ReplyTo(server, 1)
<1>1. CASE r.kind \in {"page", "object"}
  <2>1. /\ RestJsonFetch(server, FALSE) = RowsOf(server, 1)
        /\ RestJsonFetch(server, TRUE) = RowsOf(server, 1)
        /\ JsonRpcFetch(server) = RowsOf(server, 1)
      BY <1>1, ObjectIsARow DEF RestJsonFetch, JsonRpcFetch
  <2> QED
      BY <1>1, <2>1, OnePageIsWhole
<1>2. CASE r.kind = "error"
  <2>1. server[1].kind = "error"
      BY <1>2, ReplyTypes DEF NoContent
  <2>2. /\ RestJsonFetch(server, FALSE) = <<ErrorBody>>
        /\ RestJsonFetch(server, TRUE) = <<>>
        /\ JsonRpcFetch(server) = <<>>
      BY <1>2 DEF RestJsonFetch, JsonRpcFetch
  <2> QED
      BY <2>1, <2>2 DEF WholeOrNothing
<1>3. CASE r.kind \notin {"page", "object", "error"}
  <2>1. /\ RestJsonFetch(server, FALSE) = <<>>
        /\ RestJsonFetch(server, TRUE) = <<>>
        /\ JsonRpcFetch(server) = <<>>
      BY <1>3 DEF RestJsonFetch, JsonRpcFetch
  <2> QED
      BY <2>1 DEF WholeOrNothing
<1> QED
    BY <1>1, <1>2, <1>3

\* A search is cut at its limit, and only there.
LEMMA LdapIsWhole ==
    ASSUME FetchAssumption, NEW server \in Seq(Replies)
    PROVE  WholeOrNothing("ldap", server, LdapFetch(server))
<1>1. CASE ReplyTo(server, 1).kind = "page"
  <2> DEFINE n == Min({SizeLimit, server[1].rows})
  <2>1. SizeLimit \in Nat /\ server[1].rows \in Nat
      BY <1>1, ReplyTypes DEF FetchAssumption, NoContent
  <2>2. n \in {SizeLimit, server[1].rows} /\ n <= SizeLimit /\ n <= server[1].rows
      BY <2>1, NatMin
  <2>3. LdapFetch(server) = SubSeq(RowsOf(server, 1), 1, n)
      BY <1>1 DEF LdapFetch
  <2> HIDE DEF n
  <2>4. RowsOf(server, 1) \in Seq((1 .. 1) \X Nat) /\ Len(RowsOf(server, 1)) = server[1].rows
      BY <2>1 DEF RowsOf
  <2>5. Len(LdapFetch(server)) = n
      BY <2>1, <2>2, <2>3, <2>4
  <2>6. n < server[1].rows => n = SizeLimit
      BY <2>1, <2>2
  <2> QED
      BY <2>3, <2>5, <2>6 DEF WholeOrNothing
<1>2. CASE ReplyTo(server, 1).kind # "page"
    BY <1>2 DEF LdapFetch, WholeOrNothing
<1> QED
    BY <1>1, <1>2

\* Every strategy returns everything that its server has, or nothing, but for
\* the named exceptions (ingest/strategies/).
THEOREM StrategiesAreWhole ==
    ASSUME FetchAssumption, NEW server \in Seq(Replies), NEW strategy \in FetchKinds
    PROVE  WholeOrNothing(strategy, server, Fetch(strategy, server))
<1>1. CASE strategy = "page_param"
    BY <1>1, PageParamIsWhole DEF Fetch
<1>2. CASE strategy = "paging.next"
    BY <1>2, PagingNextIsWhole DEF Fetch
<1>3. CASE strategy = "sdp_cursor"
    BY <1>3, SdpCursorIsWhole DEF Fetch
<1>4. CASE strategy \in {"rest_json", "rest_json_path", "json_rpc"}
    BY <1>4, RequestsAreWhole DEF Fetch
<1>5. CASE strategy = "ldap"
    BY <1>5, LdapIsWhole DEF Fetch
<1> QED
    BY <1>1, <1>2, <1>3, <1>4, <1>5 DEF FetchKinds

\* Details lose no row and no value of the list, but what a location replaces,
\* or the whole list, over a row or a location reply that is no object
\* (paged_json_detail.py:75-125).
THEOREM DetailsAreAdded ==
    ASSUME NEW rows \in Seq(ListRows), NEW replies, NEW max
    PROVE  DetailsOnlyAdd(rows, replies, max)
<1> DEFINE HasId(i) == "id" \in DOMAIN rows[i]
           Located(i) == HasId(i) /\ (max > 0 => Counted(rows, replies, i) < max)
           Detailed(i) == IF HasId(i) /\ replies[i].ok THEN Keep(rows[i], replies[i].detail, "detail") ELSE rows[i]
           Raises(i) == replies[i].odd = "row" \/ (replies[i].odd = "location" /\ Located(i))
           Result(i) == IF Located(i) THEN Overwrite(Detailed(i), replies[i].location, "location") ELSE Detailed(i)
           list == [i \in DOMAIN rows |-> Result(i)]
           result == PagedJsonDetailFetch(rows, replies, max)
<1>1. result = IF \E i \in DOMAIN rows : Raises(i) THEN Raised ELSE <<list>>
    BY Zenon DEF PagedJsonDetailFetch
<1>2. DOMAIN rows = 1 .. Len(rows) /\ Len(rows) \in Nat
    OBVIOUS
<1>3. Len(list) = Len(rows)
  <2> HIDE DEF Result
  <2>1. DOMAIN list = 1 .. Len(rows)
      BY <1>2
  <2>2. list \in Seq({list[i] : i \in DOMAIN list})
      BY <1>2, <2>1
  <2> QED
      BY <1>2, <2>1, <2>2
<1>4. ASSUME NEW i \in DOMAIN rows, NEW k \in DOMAIN rows[i]
      PROVE  k \in DOMAIN list[i] /\ (list[i][k] = rows[i][k] \/ k \in replies[i].location)
  <2>1. k \in DOMAIN Detailed(i) /\ Detailed(i)[k] = rows[i][k]
      BY DEF Keep
  <2>2. k \in DOMAIN Overwrite(Detailed(i), replies[i].location, "location")
      BY <2>1 DEF Overwrite
  <2>3. k \notin replies[i].location =>
            Overwrite(Detailed(i), replies[i].location, "location")[k] = Detailed(i)[k]
      BY <2>1 DEF Overwrite
  <2> HIDE DEF Detailed, Located
  <2>4. k \in DOMAIN Result(i) /\ (Result(i)[k] = rows[i][k] \/ k \in replies[i].location)
      BY <2>1, <2>2, <2>3
  <2> HIDE DEF Result
  <2>5. list[i] = Result(i)
      OBVIOUS
  <2> QED
      BY <2>4, <2>5, Zenon
<1>5. CASE \E i \in DOMAIN rows : Raises(i)
  <2>1. result = Raised
      BY <1>1, <1>5, Zenon
  <2>2. PICK i \in DOMAIN rows : replies[i].odd \in {"row", "location"}
    <3>1. PICK i \in DOMAIN rows : Raises(i)
        BY <1>5
    <3>2. replies[i].odd = "row" \/ replies[i].odd = "location"
        BY <3>1, Zenon
    <3> QED
        BY <3>2
  <2>3. replies[i].odd # "none"
      BY <2>2
  <2> HIDE DEF result
  <2> QED
      BY <2>1, <2>3, Zenon DEF DetailsOnlyAdd, result
<1>6. CASE ~ \E i \in DOMAIN rows : Raises(i)
  <2> HIDE DEF list
  <2>1. result = <<list>>
      BY <1>1, <1>6, Zenon
  <2>2. result # Raised /\ result[1] = list
      BY <2>1 DEF Raised
  <2> HIDE DEF result
  <2> QED
      BY <1>3, <1>4, <2>2, Zenon DEF DetailsOnlyAdd, result
<1> QED
    BY <1>5, <1>6

\* A fetch returns everything or nothing, but for named exceptions, and details
\* lose nothing of the list or all of it, whatever a server answers (ingest/strategies/).
THEOREM FetchTheorem ==
    ASSUME FetchAssumption
    PROVE  Asking(FetchQuestion \cup DetailQuestion) => []FetchIsWholeOrNothing
<1>1. question = Nothing => FetchIsWholeOrNothing
    BY DEF Nothing, FetchIsWholeOrNothing
<1>2. ASSUME question' \in FetchQuestion \cup DetailQuestion PROVE FetchIsWholeOrNothing'
  <2>1. CASE question' \in FetchQuestion
    <3>1. /\ question'.about = "fetch" /\ question'.server \in Seq(Replies)
          /\ question'.strategy \in FetchKinds
        BY <2>1 DEF FetchQuestion
    <3>2. WholeOrNothing(question'.strategy, question'.server,
                         Fetch(question'.strategy, question'.server))
        BY <3>1, StrategiesAreWhole
    <3> QED
        BY <3>1, <3>2 DEF FetchIsWholeOrNothing
  <2>2. CASE question' \in DetailQuestion
    <3>1. /\ question'.about = "details" /\ question'.list \in Seq(ListRows)
          /\ question'.replies \in Seq(DetailReplies) /\ question'.max \in Nat
          /\ Len(question'.list) = Len(question'.replies)
        BY <2>2 DEF DetailQuestion
    <3>2. DetailsOnlyAdd(question'.list, question'.replies, question'.max)
        BY <3>1, DetailsAreAdded
    <3> QED
        BY <3>1, <3>2 DEF FetchIsWholeOrNothing
  <2> QED
      BY <1>2, <2>1, <2>2
<1>3. FetchIsWholeOrNothing /\ UNCHANGED question => FetchIsWholeOrNothing'
    BY DEF FetchIsWholeOrNothing
<1> QED
    BY <1>1, <1>2, <1>3, PTL DEF Asking

----------------------------------------------------------------------------
(* manifest/                                                               *)

LEMMA IngestRuns ==
    ASSUME NEW m, Validate(m), NEW f \in IngestFailures(m)
    PROVE  Unchecked(m, f)
<1>1. ASSUME NEW s \in DOMAIN m.systems, m.systems[s].strategy \notin Strategies PROVE FALSE
    BY <1>1 DEF Validate, StrategiesExist
<1>2. ASSUME NEW k \in DOMAIN m.feeds \ UNION {SystemFeeds(m, s) : s \in DOMAIN m.systems} PROVE FALSE
  <2>1. m.feeds[k].system \in DOMAIN m.systems
      BY <1>2 DEF Validate, SystemsExist
  <2>2. k \in SystemFeeds(m, m.feeds[k].system)
      BY <1>2 DEF SystemFeeds
  <2> QED
      BY <1>2, <2>1, <2>2
<1>3. f[1] = "auth"
  <2>1. f \in {<<"auth", s>> : s \in {s \in DOMAIN m.systems : m.systems[s].auth \notin AuthKinds}}
      BY <1>1, <1>2, Zenon DEF IngestFailures
  <2> QED
      BY <2>1
<1> QED
    BY <1>3 DEF Unchecked

LEMMA ExportRuns ==
    ASSUME NEW m, Validate(m), NEW f \in ExportFailures(m)
    PROVE  Unchecked(m, f)
<1>1. CASE "device" \notin DOMAIN m.profiles
    BY <1>1 DEF ExportFailures, Unchecked
<1>2. CASE "device" \in DOMAIN m.profiles
  <2> DEFINE device == m.profiles["device"]
             written == Computed \cup UNION {DOMAIN m.feeds[k].spec : k \in AnchorFeeds(m, "device")}
             keys == Range(device.blocking) \cup Range(device.deterministic) \cup Range(device.em_passes)
  <2>1. \/ f \in {<<"column", g>> : g \in written \ Range(device.fields)}
        \/ f \in {<<"compared", g>> : g \in Range(device.comparisons) \ Range(device.fields)}
        \/ f \in {<<"blocked", g>> : g \in keys \ Range(device.fields)}
      BY <1>2, Zenon DEF ExportFailures
  <2>2. Columns(device) = Range(device.fields) \cup DOMAIN device.derived
      BY DEF Columns
  <2>3. written \subseteq Computed \cup Columns(device)
      BY <1>2 DEF Validate, SpecsMatchProfiles
  <2>4. keys \subseteq Columns(device)
      BY <1>2 DEF Validate, ProfilesAreClosed
  <2> HIDE DEF written, keys
  <2>5. CASE f \in {<<"column", g>> : g \in written \ Range(device.fields)}
    <3>1. PICK g \in written \ Range(device.fields) : f = <<"column", g>>
        BY <2>5
    <3>2. g \in Computed \cup DOMAIN device.derived
        BY <2>2, <2>3, <3>1
    <3> QED
        BY <3>1, <3>2 DEF Unchecked
  <2>6. CASE f \in {<<"compared", g>> : g \in Range(device.comparisons) \ Range(device.fields)}
      BY <2>6 DEF Unchecked
  <2>7. CASE f \in {<<"blocked", g>> : g \in keys \ Range(device.fields)}
    <3>1. PICK g \in keys \ Range(device.fields) : f = <<"blocked", g>>
        BY <2>7
    <3>2. g \in DOMAIN device.derived
        BY <2>2, <2>4, <3>1
    <3> QED
        BY <3>1, <3>2 DEF Unchecked
  <2> QED
      BY <2>1, <2>5, <2>6, <2>7
<1> QED
    BY <1>1, <1>2

LEMMA AttachRuns ==
    ASSUME NEW m, Validate(m), NEW f \in AttachFailures(m)
    PROVE  Unchecked(m, f)
<1>1. ASSUME NEW k \in (UNION {link.scope : link \in LinksOf(m)})
                          \ {k \in DOMAIN m.feeds : m.feeds[k].role = "anchor"}
      PROVE  FALSE
  <2>1. PICK link \in LinksOf(m) : k \in link.scope
      OBVIOUS
  <2>2. k \in AnchorFeeds(m, m.profiles[link.to].name)
      BY <2>1 DEF Validate, LinksResolve
  <2>3. k \in {j \in DOMAIN m.feeds : m.feeds[j].role = "anchor"}
      BY <2>2 DEF AnchorFeeds
  <2> QED
      BY <2>3
<1>2. ASSUME NEW link \in LinksOf(m), link.transform \notin Transforms \cup {""} PROVE FALSE
    BY <1>2 DEF Validate, TransformsExist
<1>3. f[1] = "link"
  <2>1. f \in {<<"link", link.strategy>> : link \in {l \in LinksOf(m) : l.strategy \notin LinkStrategies}}
      BY <1>1, <1>2, Zenon DEF AttachFailures
  <2> QED
      BY <2>1
<1> QED
    BY <1>3 DEF Unchecked

\* A manifest that is loaded, whatever it says, fails a later stage only in what
\* _validate does not look at (manifest/__init__.py:139-248).
THEOREM ManifestTheorem ==
    ASSUME NEW Q
    PROVE  Asking(Q) => []LoadedManifestRuns
<1>1. question = Nothing => LoadedManifestRuns
    BY DEF Nothing, LoadedManifestRuns
<1>2. ASSUME question' \in Q PROVE LoadedManifestRuns'
  <2> DEFINE n == NormalizeFeeds(question.manifest)'
             loaded == LoadManifest(question.manifest)'
  <2>1. SUFFICES ASSUME loaded # <<>> PROVE \A f \in Failures(loaded[1]) : Unchecked(loaded[1], f)
      BY DEF LoadedManifestRuns
  <2>2. loaded = IF Validate(n) THEN <<n>> ELSE <<>>
      BY DEF LoadManifest
  <2> HIDE DEF n, loaded
  <2>3. Validate(n) /\ loaded[1] = n
      BY <2>1, <2>2
  <2>4. \A f \in Failures(n) : Unchecked(n, f)
      BY <2>3, IngestRuns, ExportRuns, AttachRuns DEF Failures
  <2> QED
      BY <2>3, <2>4
<1>3. LoadedManifestRuns /\ UNCHANGED question => LoadedManifestRuns'
    BY DEF LoadedManifestRuns
<1> QED
    BY <1>1, <1>2, <1>3, PTL DEF Asking

----------------------------------------------------------------------------
(* api/, resolve/: the rows of a mesh                                      *)

\* The fields with a source of truth are among the texts of a row.
LEMMA SotFields ==
    ASSUME NEW f \in DOMAIN DEVICE_PROFILE.sot
    PROVE  f \in TextFields
BY DEF DEVICE_PROFILE, TextFields

LEMMA DerivedFields ==
    DOMAIN DEVICE_PROFILE.derived = {"name_clean", "mac_clean", "name_fallback", "os_family"}
BY DEF DEVICE_PROFILE

LEMMA SourceNames ==
    /\ DOMAIN SourceOrder = 1 .. 8
    /\ Range(SourceOrder) = {"ad", "fg", "fg_dhcp", "me_ec", "me_mdm", "sdp", "sp", "zbx"}
<1>1. DOMAIN SourceOrder = 1 .. 8
    BY DEF SourceOrder
<1>2. \A i \in 1 .. 8 : i \in {1, 2, 3, 4, 5, 6, 7, 8}
    OBVIOUS
<1>3. Range(SourceOrder) = {SourceOrder[i] : i \in {1, 2, 3, 4, 5, 6, 7, 8}}
    BY <1>1, <1>2 DEF Range
<1>4. /\ SourceOrder[1] = "ad" /\ SourceOrder[2] = "fg" /\ SourceOrder[3] = "fg_dhcp"
      /\ SourceOrder[4] = "me_ec" /\ SourceOrder[5] = "me_mdm" /\ SourceOrder[6] = "sdp"
      /\ SourceOrder[7] = "sp" /\ SourceOrder[8] = "zbx"
    BY DEF SourceOrder
<1> QED
    BY <1>1, <1>3, <1>4

LEMMA RowTypes ==
    ASSUME NEW mesh \in Seq(MeshRow), NEW i \in DOMAIN mesh
    PROVE  /\ \A f \in TextFields : mesh[i][f] \in Nat
           /\ mesh[i].cluster \in Nat \ {0} /\ mesh[i].source \in Range(SourceOrder)
<1>1. mesh[i] \in MeshRow
    OBVIOUS
<1> HIDE DEF MeshRow
<1>2. ASSUME NEW r \in MeshRow
      PROVE  /\ \A f \in TextFields : r[f] \in Nat
             /\ r.cluster \in Nat \ {0} /\ r.source \in Range(SourceOrder)
  <2>1. r.cluster \in Nat \ {0} /\ r.source \in Range(SourceOrder)
      BY DEF MeshRow
  <2>2. /\ r.source_id \in Nat /\ r.name \in Nat /\ r.mac_address \in Nat /\ r.serial_number \in Nat
        /\ r.asset_tag \in Nat /\ r.manufacturer \in Nat /\ r.model \in Nat /\ r.os \in Nat
        /\ r.os_family \in Nat /\ r.os_version \in Nat /\ r.assigned_user \in Nat
        /\ r.ip_address \in Nat /\ r.imei \in Nat
      BY DEF MeshRow
  <2>3. \A f \in TextFields : r[f] \in Nat
      BY <2>2 DEF TextFields
  <2> QED
      BY <2>1, <2>3
<1> QED
    BY <1>1, <1>2

\* Image: finitely many things have finitely many values.
LEMMA FiniteImage ==
    ASSUME NEW S, IsFiniteSet(S), NEW g, DOMAIN g = S
    PROVE  IsFiniteSet({g[x] : x \in S})
<1> DEFINE T == {g[x] : x \in S}
           h == [x \in S |-> g[x]]
<1>1. h \in Surjection(S, T)
    BY DEF Surjection
<1> HIDE DEF h, T
<1>2. IsFiniteSet(T)
    BY <1>1, FS_Surjection, Zenon
<1> QED
    BY <1>2 DEF T

\* More than one: two that differ.
LEMMA MoreThanOne ==
    ASSUME NEW S, IsFiniteSet(S)
    PROVE  /\ Cardinality(S) \in Nat
           /\ Cardinality(S) = 0 <=> S = {}
           /\ Cardinality(S) = 1 <=> \E x : S = {x}
           /\ Cardinality(S) > 1 <=> \E x, y \in S : x # y
<1>1. Cardinality(S) \in Nat
    BY FS_CardinalityType
<1>2. Cardinality(S) = 0 <=> S = {}
    BY FS_EmptySet
<1>3. Cardinality(S) = 1 <=> \E x : S = {x}
    BY FS_Singleton
<1>4. (\E x, y \in S : x # y) <=> S # {} /\ ~(\E x : S = {x})
    OBVIOUS
<1>5. Cardinality(S) > 1 <=> Cardinality(S) # 0 /\ Cardinality(S) # 1
    BY <1>1
<1> QED
    BY <1>1, <1>2, <1>3, <1>4, <1>5

\* The records of a cluster, the sources and values of them are finitely many,
\* and a value is a number above 0.
LEMMA MeshIsFinite ==
    ASSUME NEW mesh \in Seq(MeshRow), NEW c, NEW f \in TextFields
    PROVE  /\ IsFiniteSet(Records(mesh, c)) /\ Records(mesh, c) \in SUBSET (1 .. Len(mesh))
           /\ IsFiniteSet(ClustersIn(mesh))
           /\ IsFiniteSet(SourcesOf(mesh, c)) /\ SourcesOf(mesh, c) \subseteq Range(SourceOrder)
           /\ IsFiniteSet(Values(mesh, c, f)) /\ Values(mesh, c, f) \in SUBSET (Nat \ {0})
           /\ \E b \in Nat : \A v \in Values(mesh, c, f) : v <= b
<1>1. PICK n \in Nat : n = Len(mesh) /\ DOMAIN mesh = 1 .. n
    OBVIOUS
<1>2. IsFiniteSet(1 .. n)
    BY FS_Interval
<1>3. Records(mesh, c) \in SUBSET (1 .. n)
    BY <1>1 DEF Records
<1>4. IsFiniteSet(Records(mesh, c))
    BY <1>2, <1>3, FS_Subset
<1>5. IsFiniteSet(ClustersIn(mesh))
  <2> DEFINE g == [i \in 1 .. n |-> mesh[i].cluster]
  <2>1. IsFiniteSet({g[i] : i \in 1 .. n})
      BY <1>2, FiniteImage
  <2>2. ClustersIn(mesh) = {g[i] : i \in 1 .. n}
      BY <1>1 DEF ClustersIn
  <2> QED
      BY <2>1, <2>2
<1>6. IsFiniteSet(SourcesOf(mesh, c))
  <2> DEFINE g == [i \in Records(mesh, c) |-> mesh[i].source]
  <2>1. IsFiniteSet({g[i] : i \in Records(mesh, c)})
      BY <1>4, FiniteImage
  <2>2. SourcesOf(mesh, c) = {g[i] : i \in Records(mesh, c)}
      BY DEF SourcesOf
  <2> QED
      BY <2>1, <2>2
<1>7. SourcesOf(mesh, c) \subseteq Range(SourceOrder)
    BY <1>1, <1>3, RowTypes DEF SourcesOf
<1> DEFINE g == [i \in Records(mesh, c) |-> mesh[i][f]]
<1>8. \A i \in Records(mesh, c) : mesh[i][f] \in Nat
    BY <1>1, <1>3, RowTypes
<1>9. Values(mesh, c, f) \in SUBSET (Nat \ {0})
    BY <1>8 DEF Values
<1>10. g \in [Records(mesh, c) -> Nat]
    BY <1>8
<1>11. PICK b \in Nat : \A i \in Records(mesh, c) : g[i] <= b
    BY <1>3, <1>10, Bounded
<1>12. \A v \in Values(mesh, c, f) : v <= b
    BY <1>11 DEF Values
<1>13. IsFiniteSet(Values(mesh, c, f))
    BY <1>9, <1>12, FS_BoundedSetOfNaturals
<1> QED
    BY <1>1, <1>3, <1>4, <1>5, <1>6, <1>7, <1>9, <1>12, <1>13

----------------------------------------------------------------------------
(* The views of a cluster                                                  *)

LEMMA OwnValues ==
    ASSUME NEW mesh \in Seq(MeshRow), NEW c, NEW f \in TextFields, NEW source
    PROVE  /\ ValuesOfSource(mesh, c, f, source) \subseteq Values(mesh, c, f)
           /\ ValuesOfSource(mesh, c, f, source) \in SUBSET Nat
           /\ IsFiniteSet(ValuesOfSource(mesh, c, f, source))
<1>1. ValuesOfSource(mesh, c, f, source) \subseteq Values(mesh, c, f)
    BY DEF ValuesOfSource, Values
<1> QED
    BY <1>1, MeshIsFinite, FS_Subset

\* A column is a value of the cluster, of its first source where that has one.
LEMMA ColumnValue ==
    ASSUME NEW mesh \in Seq(MeshRow), NEW c, NEW f \in TextFields
    PROVE  /\ Column(mesh, c, f) = 0 <=> Values(mesh, c, f) = {}
           /\ Column(mesh, c, f) \in Values(mesh, c, f) \cup {0}
           /\ LET own == ValuesOfSource(mesh, c, f, DEVICE_PROFILE.sot[f][1])
              IN own # {} => Column(mesh, c, f) \in own
<1> DEFINE first == ValuesOfSource(mesh, c, f, DEVICE_PROFILE.sot[f][1])
           second == ValuesOfSource(mesh, c, f, DEVICE_PROFILE.sot[f][2])
           values == Values(mesh, c, f)
<1>1. first \subseteq values /\ second \subseteq values
    BY OwnValues
<1>2. values \in SUBSET Nat /\ 0 \notin values
    BY MeshIsFinite
<1>3. Column(mesh, c, f) = IF first # {} THEN Max(first) ELSE IF second # {} THEN Max(second)
                           ELSE IF values # {} THEN Min(values) ELSE 0
    BY DEF Column
<1> HIDE DEF first, second, values
<1>4. PICK b \in Nat : \A v \in values : v <= b
    BY MeshIsFinite DEF values
<1>5. first # {} => Max(first) \in first
    BY <1>1, <1>2, <1>4, NatMax
<1>6. second # {} => Max(second) \in second
    BY <1>1, <1>2, <1>4, NatMax
<1>7. values # {} => Min(values) \in values
    BY <1>2, NatMin
<1>8. /\ Column(mesh, c, f) = 0 <=> values = {}
      /\ Column(mesh, c, f) \in values \cup {0}
      /\ first # {} => Column(mesh, c, f) \in first
    BY <1>1, <1>2, <1>3, <1>5, <1>6, <1>7
<1> QED
    BY <1>8 DEF first, values

\* A story has a value of a source when the source has one, unless the field is
\* derived.
LEMMA StoryValue ==
    ASSUME NEW mesh \in Seq(MeshRow), NEW c, NEW f \in TextFields, NEW source
    PROVE  LET own == ValuesOfSource(mesh, c, f, source)
               value == SourceValue(mesh, c, f, source)
           IN /\ value \in own \cup {0}
              /\ value # 0 <=> own # {} /\ f \notin DOMAIN DEVICE_PROFILE.derived
              /\ own # {} => source \in SourcesOf(mesh, c)
<1> DEFINE with == {i \in Records(mesh, c) : /\ mesh[i].source = source /\ mesh[i][f] # 0
                                             /\ f \notin DOMAIN DEVICE_PROFILE.derived}
           own == ValuesOfSource(mesh, c, f, source)
           value == SourceValue(mesh, c, f, source)
<1>1. with \in SUBSET (1 .. Len(mesh)) /\ Len(mesh) \in Nat
    BY MeshIsFinite
<1>2. own = {mesh[i][f] : i \in {j \in Records(mesh, c) : mesh[j].source = source}} \ {0}
    BY DEF ValuesOfSource
<1>3. value = IF with = {} THEN 0 ELSE mesh[Max(with)][f]
    BY DEF SourceValue
<1>4. with # {} <=> own # {} /\ f \notin DOMAIN DEVICE_PROFILE.derived
    BY <1>2
<1>5. \A i \in with : mesh[i][f] \in own /\ mesh[i][f] # 0
    BY <1>2
<1> HIDE DEF with
<1>6. with # {} => Max(with) \in with
  <2>1. with \in SUBSET Nat /\ \A i \in with : i <= Len(mesh)
      BY <1>1
  <2> QED
      BY <1>1, <2>1, NatMax
<1>7. own # {} => source \in SourcesOf(mesh, c)
    BY <1>2 DEF SourcesOf
<1> HIDE DEF own, value
<1>8. value \in own \cup {0} /\ (value # 0 <=> with # {})
    BY <1>3, <1>5, <1>6
<1> QED
    BY <1>4, <1>7, <1>8 DEF own, value

\* A value of the cluster is one of a source's, and the other way round.
LEMMA ValuesAreOwn ==
    ASSUME NEW mesh, NEW c, NEW f
    PROVE  \A v : v \in Values(mesh, c, f)
                  <=> \E source \in SourcesOf(mesh, c) : v \in ValuesOfSource(mesh, c, f, source)
BY DEF Values, ValuesOfSource, SourcesOf

LEMMA Places ==
    ASSUME NEW source \in Range(SourceOrder)
    PROVE  Place(source) \in 1 .. 8 /\ Coverage(source) \in 0 .. 60
<1>1. Place(source) \in 1 .. 8
    BY SourceNames DEF Place, Range
<1>2. /\ SYSTEMS.sp.coverage = 55 /\ SYSTEMS.me.coverage = 50 /\ SYSTEMS.fg.coverage = 40
      /\ SYSTEMS.zbx.coverage = 45 /\ SYSTEMS.ad.coverage = 60 /\ SYSTEMS.sdp.coverage = 30
    BY DEF SYSTEMS, System
<1>3. DOMAIN SYSTEMS = {"sp", "me", "fg", "zbx", "ad", "sdp"}
    BY DEF SYSTEMS
<1>4. Coverage(source) \in 0 .. 60
    BY <1>2, <1>3 DEF Coverage
<1> QED
    BY <1>1, <1>4

\* Of some sources one comes before the others.
LEMMA FirstByCoverage ==
    ASSUME NEW with \in SUBSET Range(SourceOrder), with # {}
    PROVE  \E s \in with : \A t \in with : ByCoverage(s, t)
<1> DEFINE Key(s) == 9 * (60 - Coverage(s)) + Place(s)
           keys == {Key(s) : s \in with}
<1>1. \A s \in with : Place(s) \in 1 .. 8 /\ Coverage(s) \in 0 .. 60
    BY Places
<1>2. \A s \in with : Key(s) \in Nat
    BY <1>1
<1>3. keys \in SUBSET Nat /\ keys # {}
    BY <1>2
<1>4. Min(keys) \in keys /\ \A k \in keys : Min(keys) <= k
    BY <1>3, NatMin
<1>5. PICK s \in with : \A t \in with : Key(s) <= Key(t)
    BY <1>4
<1>6. ASSUME NEW t \in with PROVE ByCoverage(s, t)
  <2>1. Key(s) <= Key(t)
      BY <1>5
  <2>2. /\ Place(s) \in 1 .. 8 /\ Coverage(s) \in 0 .. 60
        /\ Place(t) \in 1 .. 8 /\ Coverage(t) \in 0 .. 60
      BY <1>1
  <2>3. \A p, q \in 1 .. 8 : \A a, b \in 0 .. 60 :
            9 * (60 - a) + p <= 9 * (60 - b) + q => a > b \/ (a = b /\ p <= q)
      OBVIOUS
  <2> QED
      BY <2>1, <2>2, <2>3 DEF ByCoverage
<1> QED
    BY <1>6

\* The answer of the story is a value of the cluster, and of the first source
\* where that has one.
LEMMA SotValue ==
    ASSUME NEW mesh \in Seq(MeshRow), NEW c, NEW f \in TextFields
    PROVE  LET sot == SotResolve(mesh, c, f)
               first == DEVICE_PROFILE.sot[f][1]
               own == ValuesOfSource(mesh, c, f, first)
               derived == f \in DOMAIN DEVICE_PROFILE.derived
           IN /\ sot.value = 0 <=> Values(mesh, c, f) = {} \/ derived
              /\ sot.value \in Values(mesh, c, f) \cup {0}
              /\ own # {} /\ ~derived => sot.value \in own /\ sot.source = first
<1> DEFINE first == DEVICE_PROFILE.sot[f][1]
           second == DEVICE_PROFILE.sot[f][2]
           derived == f \in DOMAIN DEVICE_PROFILE.derived
           V(s) == SourceValue(mesh, c, f, s)
           own(s) == ValuesOfSource(mesh, c, f, s)
           values == Values(mesh, c, f)
           with == {s \in SourcesOf(mesh, c) : V(s) # 0}
           Answer(s, priority) == [value |-> V(s), source |-> s, priority |-> priority]
           best == CHOOSE s \in with : \A t \in with : ByCoverage(s, t)
           sot == SotResolve(mesh, c, f)
<1>1. sot = CASE first \in with -> Answer(first, "primary")
              [] first \notin with /\ second \in with -> Answer(second, "secondary")
              [] with = {} -> [value |-> 0, source |-> "", priority |-> "none"]
              [] OTHER -> Answer(best, "best_effort")
    BY Zenon DEF SotResolve
<1>2. \A s : /\ V(s) \in own(s) \cup {0}
             /\ V(s) # 0 <=> own(s) # {} /\ ~derived
             /\ own(s) # {} => s \in SourcesOf(mesh, c)
             /\ own(s) \subseteq values
    BY StoryValue, OwnValues
<1>3. with # {} <=> values # {} /\ ~derived
    BY <1>2, ValuesAreOwn
<1>4. with # {} => best \in with
  <2>1. with \in SUBSET Range(SourceOrder)
      BY MeshIsFinite
  <2> HIDE DEF with
  <2> QED
      BY <2>1, FirstByCoverage
<1>5. \A s \in with : s \in SourcesOf(mesh, c) /\ V(s) # 0 /\ V(s) \in own(s) /\ V(s) \in values
    BY <1>2
<1>6. first \in with <=> own(first) # {} /\ ~derived
    BY <1>2
<1>7. 0 \notin values
    BY DEF Values
<1> HIDE DEF first, second, derived, V, own, values, with, best, sot
<1>8. /\ sot.value = 0 <=> with = {}
      /\ sot.value \in values \cup {0}
      /\ first \in with => sot.value \in own(first) /\ sot.source = first
  <2>1. CASE first \in with
      BY <1>1, <1>5, <2>1
  <2>2. CASE first \notin with /\ second \in with
      BY <1>1, <1>5, <2>2
  <2>3. CASE with = {}
      BY <1>1, <2>3
  <2>4. CASE first \notin with /\ second \notin with /\ with # {}
      BY <1>1, <1>4, <1>5, <2>4
  <2> QED
      BY <2>1, <2>2, <2>3, <2>4
<1>9. /\ sot.value = 0 <=> values = {} \/ derived
      /\ own(first) # {} /\ ~derived => sot.value \in own(first) /\ sot.source = first
    BY <1>3, <1>6, <1>8
<1> QED
    BY <1>8, <1>9 DEF first, own, values, derived, sot

\* The table and the story agree.
LEMMA ColumnAndStoryAgree ==
    ASSUME NEW mesh \in Seq(MeshRow), NEW c, NEW f \in TextFields
    PROVE  LET column == Column(mesh, c, f)
               sot == SotResolve(mesh, c, f)
               values == Values(mesh, c, f)
               first == DEVICE_PROFILE.sot[f][1]
               derived == f \in DOMAIN DEVICE_PROFILE.derived
               own == ValuesOfSource(mesh, c, f, first)
           IN /\ column = 0 <=> values = {}
              /\ derived \/ (sot.value = 0 <=> values = {})
              /\ {column, sot.value} \subseteq values \cup {0}
              /\ Cardinality(own) = 1 =>
                    /\ column \in own
                    /\ derived \/ (sot.value \in own /\ sot.source = first)
<1> DEFINE column == Column(mesh, c, f)
           sot == SotResolve(mesh, c, f)
           values == Values(mesh, c, f)
           first == DEVICE_PROFILE.sot[f][1]
           derived == f \in DOMAIN DEVICE_PROFILE.derived
           own == ValuesOfSource(mesh, c, f, first)
<1>1. /\ column = 0 <=> values = {}
      /\ column \in values \cup {0}
      /\ own # {} => column \in own
    BY ColumnValue
<1>2. /\ sot.value = 0 <=> values = {} \/ derived
      /\ sot.value \in values \cup {0}
      /\ own # {} /\ ~derived => sot.value \in own /\ sot.source = first
    BY SotValue
<1>3. Cardinality(own) = 1 => own # {}
    BY OwnValues, MoreThanOne
<1> HIDE DEF column, sot, values, first, derived, own
<1>4. {column, sot.value} \subseteq values \cup {0}
    BY <1>1, <1>2
<1>5. Cardinality(own) = 1 =>
          /\ column \in own
          /\ derived \/ (sot.value \in own /\ sot.source = first)
    BY <1>1, <1>2, <1>3
<1>6. (column = 0 <=> values = {}) /\ (derived \/ (sot.value = 0 <=> values = {}))
    BY <1>1, <1>2
<1> QED
    BY <1>4, <1>5, <1>6 DEF column, sot, values, first, derived, own

----------------------------------------------------------------------------
(* Drift, conflicts and split identities                                   *)

LEMMA SerialsAreFinite ==
    ASSUME NEW mesh \in Seq(MeshRow), NEW c
    PROVE  IsFiniteSet(Serials(mesh, c)) /\ IsFiniteSet(Values(mesh, c, "serial_number"))
<1> DEFINE values == Values(mesh, c, "serial_number")
           g == [v \in values |-> WithoutPrefix(v)]
<1>1. IsFiniteSet(values)
    BY MeshIsFinite DEF TextFields
<1>2. IsFiniteSet({g[v] : v \in values})
    BY <1>1, FiniteImage
<1>3. Serials(mesh, c) = {g[v] : v \in values}
    BY DEF Serials
<1> QED
    BY <1>1, <1>2, <1>3

\* A conflict of the validation is drift, and drift that is none is a prefix.
LEMMA ConflictsAreDrift ==
    ASSUME NEW mesh \in Seq(MeshRow)
    PROVE  /\ SerialConflicts(mesh) \subseteq HardwareDrift(mesh)
           /\ \A c \in HardwareDrift(mesh) \ SerialConflicts(mesh) :
                 Values(mesh, c, "serial_number") \cap DOMAIN Prefixed # {}
<1>1. ASSUME NEW c \in SerialConflicts(mesh) PROVE c \in HardwareDrift(mesh)
  <2>1. PICK x \in Serials(mesh, c), y \in Serials(mesh, c) : x # y
      BY SerialsAreFinite, MoreThanOne DEF SerialConflicts
  <2>2. PICK u \in Values(mesh, c, "serial_number"), v \in Values(mesh, c, "serial_number") :
            x = WithoutPrefix(u) /\ y = WithoutPrefix(v)
      BY DEF Serials
  <2>3. Cardinality(Values(mesh, c, "serial_number")) > 1
      BY <2>1, <2>2, SerialsAreFinite, MoreThanOne
  <2> QED
      BY <2>3 DEF SerialConflicts, HardwareDrift
<1>2. ASSUME NEW c \in HardwareDrift(mesh) \ SerialConflicts(mesh)
      PROVE  Values(mesh, c, "serial_number") \cap DOMAIN Prefixed # {}
  <2>1. PICK u \in Values(mesh, c, "serial_number"), v \in Values(mesh, c, "serial_number") : u # v
      BY SerialsAreFinite, MoreThanOne DEF HardwareDrift
  <2>2. ~(Cardinality(Serials(mesh, c)) > 1)
      BY DEF HardwareDrift, SerialConflicts
  <2>3. WithoutPrefix(u) = WithoutPrefix(v)
    <3>1. WithoutPrefix(u) \in Serials(mesh, c) /\ WithoutPrefix(v) \in Serials(mesh, c)
        BY DEF Serials
    <3> QED
        BY <2>2, <3>1, SerialsAreFinite, MoreThanOne
  <2> QED
      BY <2>1, <2>3 DEF WithoutPrefix
<1> QED
    BY <1>1, <1>2

\* A mismatch is drift, and drift that is none lies within a source.
LEMMA MismatchesAreDrift ==
    ASSUME NEW mesh \in Seq(MeshRow), NEW c \in ClustersIn(mesh)
    PROVE  /\ DriftVerdict(mesh, c, "serial_number") = "MISMATCH" => c \in HardwareDrift(mesh)
           /\ c \in HardwareDrift(mesh) /\ DriftVerdict(mesh, c, "serial_number") # "MISMATCH"
                 => \E s \in SourcesOf(mesh, c) :
                       Cardinality(ValuesOfSource(mesh, c, "serial_number", s)) > 1
<1> DEFINE f == "serial_number"
           V(s) == SourceValue(mesh, c, f, s)
           own(s) == ValuesOfSource(mesh, c, f, s)
           values == Values(mesh, c, f)
           with == {s \in SourcesOf(mesh, c) : V(s) # 0}
           unique == {V(s) : s \in with}
           verdict == DriftVerdict(mesh, c, f)
<1>1. f \in TextFields /\ f \notin DOMAIN DEVICE_PROFILE.derived
    BY DerivedFields DEF TextFields
<1>2. \A s : /\ V(s) \in own(s) \cup {0}
             /\ V(s) # 0 <=> own(s) # {}
             /\ own(s) # {} => s \in SourcesOf(mesh, c)
             /\ own(s) \subseteq values
    BY <1>1, StoryValue, OwnValues
<1>3. verdict = CASE Cardinality(with) >= 2 -> IF Cardinality(unique) = 1 THEN "MATCH" ELSE "MISMATCH"
                  [] Cardinality(with) = 1 -> "SINGLE_SOURCE"
                  [] OTHER -> "none"
    BY Zenon DEF DriftVerdict
<1>4. IsFiniteSet(with)
    BY <1>1, MeshIsFinite, FS_Subset
<1>5. IsFiniteSet(values)
    BY <1>1, MeshIsFinite
<1>6. unique \subseteq values
    BY <1>2
<1>7. IsFiniteSet(unique)
    BY <1>5, <1>6, FS_Subset
<1>8. \A s : IsFiniteSet(own(s))
    BY <1>1, OwnValues
<1>9. c \in HardwareDrift(mesh) <=> Cardinality(values) > 1
    BY DEF HardwareDrift
<1>10. ASSUME Cardinality(with) >= 2, Cardinality(unique) # 1 PROVE Cardinality(values) > 1
  <2>1. with # {}
      BY <1>4, <1>10, MoreThanOne
  <2>2. unique # {}
      BY <2>1
  <2> HIDE DEF with, unique, values
  <2>3. Cardinality(unique) > 1
      BY <1>7, <1>10, <2>2, MoreThanOne
  <2>4. PICK x \in unique, y \in unique : x # y
      BY <1>7, <2>3, MoreThanOne
  <2> QED
      BY <1>5, <1>6, <2>4, MoreThanOne
<1>11. ASSUME Cardinality(values) > 1, ~(Cardinality(with) >= 2 /\ Cardinality(unique) # 1)
       PROVE  \E s \in SourcesOf(mesh, c) : Cardinality(own(s)) > 1
  <2>1. PICK u \in values, v \in values : u # v
      BY <1>5, <1>11, MoreThanOne
  <2>2. PICK s \in SourcesOf(mesh, c), t \in SourcesOf(mesh, c) : u \in own(s) /\ v \in own(t)
      BY ValuesAreOwn
  <2>3. s \in with /\ t \in with
      BY <1>2, <2>2
  <2>4. V(s) \in own(s) /\ V(t) \in own(t)
      BY <1>2, <2>2
  <2>5. V(s) \in unique /\ V(t) \in unique
      BY <2>3
  <2> HIDE DEF own, V, with, unique
  <2>6. CASE s = t
      BY <1>8, <2>1, <2>2, <2>6, MoreThanOne
  <2>7. CASE s # t
    <3>1. Cardinality(with) \in Nat /\ Cardinality(with) > 1
        BY <1>4, <2>3, <2>7, MoreThanOne
    <3>2. Cardinality(unique) = 1
        BY <1>11, <3>1
    <3>3. V(s) = V(t)
        BY <1>7, <2>5, <3>2, MoreThanOne
    <3>4. V(s) # u \/ V(t) # v
        BY <2>1, <3>3
    <3> QED
        BY <1>8, <2>2, <2>4, <3>4, MoreThanOne
  <2> QED
      BY <2>6, <2>7
<1> HIDE DEF with, unique, values, own, V
<1>12. verdict = "MISMATCH" <=> Cardinality(with) >= 2 /\ Cardinality(unique) # 1
    BY <1>3
<1> HIDE DEF verdict
<1>13. /\ verdict = "MISMATCH" => c \in HardwareDrift(mesh)
       /\ c \in HardwareDrift(mesh) /\ verdict # "MISMATCH"
             => \E s \in SourcesOf(mesh, c) : Cardinality(own(s)) > 1
    BY <1>9, <1>10, <1>11, <1>12
<1> QED
    BY <1>13 DEF verdict, own

\* Two records with one serial in two clusters are a split identity.
LEMMA SplitsAreFound ==
    ASSUME NEW mesh \in Seq(MeshRow), NEW i \in DOMAIN mesh, NEW j \in DOMAIN mesh,
           mesh[i].serial_number = mesh[j].serial_number, mesh[i].serial_number # 0,
           mesh[i].cluster # mesh[j].cluster
    PROVE  WithoutPrefix(mesh[i].serial_number) \in SplitIdentities(mesh)
<1> DEFINE v == WithoutPrefix(mesh[i].serial_number)
           c == mesh[i].cluster
           d == mesh[j].cluster
           having == {e \in ClustersIn(mesh) : v \in Serials(mesh, e)}
<1>1. mesh[i]["serial_number"] = mesh[i].serial_number /\ mesh[j]["serial_number"] = mesh[j].serial_number
    OBVIOUS
<1>2. /\ mesh[i].serial_number \in Values(mesh, c, "serial_number")
      /\ mesh[i].serial_number \in Values(mesh, d, "serial_number")
    BY <1>1 DEF Values, Records
<1>3. v \in Serials(mesh, c) /\ v \in Serials(mesh, d)
    BY <1>2 DEF Serials
<1>4. c \in ClustersIn(mesh) /\ d \in ClustersIn(mesh)
    BY DEF ClustersIn
<1>5. c \in having /\ d \in having /\ c # d
    BY <1>3, <1>4
<1>6. IsFiniteSet(having)
  <2>1. IsFiniteSet(ClustersIn(mesh))
      BY MeshIsFinite DEF TextFields
  <2> QED
      BY <2>1, FS_Subset
<1>7. Cardinality(having) > 1
  <2> HIDE DEF having, c, d
  <2> QED
      BY <1>5, <1>6, MoreThanOne
<1>8. v \in UNION {Serials(mesh, e) : e \in ClustersIn(mesh)}
    BY <1>3, <1>4
<1> HIDE DEF v, c, d
<1>9. v \in SplitIdentities(mesh)
    BY <1>7, <1>8 DEF SplitIdentities
<1> QED
    BY <1>9 DEF v

\* The devices table, the story of a device and the validation agree on every
\* cluster and field (api/schema.py:38-98, resolve/sot.py:11-50,
\* api/db.py:296-345, resolve/validate.py:47-97).
THEOREM ViewsTheorem ==
    ASSUME NEW mesh \in Seq(MeshRow), NEW f \in DOMAIN DEVICE_PROFILE.sot
    PROVE  ViewsAgree(mesh, f)
<1>1. f \in TextFields
    BY SotFields
<1>2. \A c \in ClustersIn(mesh) :
          LET column == Column(mesh, c, f)
              sot == SotResolve(mesh, c, f)
              values == Values(mesh, c, f)
              first == DEVICE_PROFILE.sot[f][1]
              derived == f \in DOMAIN DEVICE_PROFILE.derived
              own == ValuesOfSource(mesh, c, f, first)
          IN /\ column = 0 <=> values = {}
             /\ derived \/ (sot.value = 0 <=> values = {})
             /\ {column, sot.value} \subseteq values \cup {0}
             /\ Cardinality(own) = 1 =>
                   /\ column \in own
                   /\ derived \/ (sot.value \in own /\ sot.source = first)
    BY <1>1, ColumnAndStoryAgree
<1>3. /\ SerialConflicts(mesh) \subseteq HardwareDrift(mesh)
      /\ \A c \in HardwareDrift(mesh) \ SerialConflicts(mesh) :
            Values(mesh, c, "serial_number") \cap DOMAIN Prefixed # {}
    BY ConflictsAreDrift
<1>4. \A c \in ClustersIn(mesh) :
          DriftVerdict(mesh, c, "serial_number") = "MISMATCH" => c \in HardwareDrift(mesh)
    BY MismatchesAreDrift
<1>5. \A c \in HardwareDrift(mesh) :
          DriftVerdict(mesh, c, "serial_number") # "MISMATCH" =>
              \E s \in SourcesOf(mesh, c) : Cardinality(ValuesOfSource(mesh, c, "serial_number", s)) > 1
    BY MismatchesAreDrift DEF HardwareDrift
<1>6. \A i, j \in DOMAIN mesh :
          /\ mesh[i].serial_number = mesh[j].serial_number /\ mesh[i].serial_number # 0
          /\ mesh[i].cluster # mesh[j].cluster
          => WithoutPrefix(mesh[i].serial_number) \in SplitIdentities(mesh)
    BY SplitsAreFound
<1> QED
    BY <1>2, <1>3, <1>4, <1>5, <1>6, Zenon DEF ViewsAgree

\* Whatever mesh is asked about, its views agree.
THEOREM ClustersTheorem == Asking(ClusterQuestion) => []ClusterViewsAgree
<1>1. question = Nothing => ClusterViewsAgree
    BY DEF Nothing, ClusterViewsAgree
<1>2. ASSUME question' \in ClusterQuestion PROVE ClusterViewsAgree'
  <2>1. question'.mesh \in Seq(MeshRow) /\ question'.field \in DOMAIN DEVICE_PROFILE.sot
      BY <1>2 DEF ClusterQuestion
  <2>2. ViewsAgree(question'.mesh, question'.field)
      BY <2>1, ViewsTheorem
  <2> QED
      BY <2>2 DEF ClusterViewsAgree
<1>3. ClusterViewsAgree /\ UNCHANGED question => ClusterViewsAgree'
    BY DEF ClusterViewsAgree
<1> QED
    BY <1>1, <1>2, <1>3, PTL DEF Asking

----------------------------------------------------------------------------
(* resolve/attach.py                                                       *)

LEMMA AtMostOne ==
    ASSUME NEW S, \A x, y \in S : x = y
    PROVE  Cardinality(S) <= 1
<1>1. CASE S = {}
    BY <1>1, FS_EmptySet
<1>2. CASE S # {}
  <2>1. PICK x : S = {x}
      BY <1>2
  <2> QED
      BY <2>1, FS_Singleton
<1> QED
    BY <1>1, <1>2

\* The keyspace has the values that are held, each for one of its holders.
LEMMA KeyspaceHolds ==
    ASSUME NEW mesh \in Seq(MeshRow), NEW scope, NEW v
    PROVE  LET keyspace == Keyspace(mesh, scope)
               holders == Holders(mesh, scope, v)
           IN /\ v \in DOMAIN keyspace <=> holders # {}
              /\ v \in DOMAIN keyspace => keyspace[v] \in holders
              /\ Cardinality(holders) = 1 => v \in DOMAIN keyspace /\ holders = {keyspace[v]}
<1> DEFINE keyspace == Keyspace(mesh, scope)
           holders == Holders(mesh, scope, v)
           rows == {i \in InScope(mesh, scope) : v \in Keys(mesh[i])}
<1>1. holders = {mesh[i].cluster : i \in rows}
    BY DEF Holders
<1>2. v \in DOMAIN keyspace <=> rows # {}
    BY DEF Keyspace
<1>3. v \in DOMAIN keyspace => keyspace[v] = mesh[Max(rows)].cluster
    BY DEF Keyspace
<1>4. PICK n \in Nat : DOMAIN mesh = 1 .. n
    OBVIOUS
<1>5. rows \in SUBSET (1 .. n)
    BY <1>4 DEF InScope
<1>6. IsFiniteSet(holders)
  <2>1. holders \subseteq ClustersIn(mesh)
      BY <1>1, <1>4, <1>5 DEF ClustersIn
  <2>2. IsFiniteSet(ClustersIn(mesh))
      BY MeshIsFinite DEF TextFields
  <2> QED
      BY <2>1, <2>2, FS_Subset
<1> HIDE DEF rows, keyspace, holders
<1>7. rows # {} => Max(rows) \in rows
  <2>1. rows \in SUBSET Nat /\ \A i \in rows : i <= n
      BY <1>5
  <2> QED
      BY <2>1, NatMax
<1>8. /\ v \in DOMAIN keyspace <=> holders # {}
      /\ v \in DOMAIN keyspace => keyspace[v] \in holders
    BY <1>1, <1>2, <1>3, <1>7
<1>9. Cardinality(holders) = 1 => \E h : holders = {h}
    BY <1>6, MoreThanOne
<1>10. Cardinality(holders) = 1 => v \in DOMAIN keyspace /\ holders = {keyspace[v]}
    BY <1>8, <1>9
<1> QED
    BY <1>8, <1>10 DEF keyspace, holders

\* The tokens of a text are texts, and its places are numbers.
LEMMA TokenTypes ==
    ASSUME AttachAssumption, NEW text \in DOMAIN TokenLength
    PROVE  /\ RawTokens(text) \in Seq(DOMAIN TokenLength)
           /\ Tokenize(text) \in SUBSET Nat
           /\ \A i \in Tokenize(text) : TokenLength[RawTokens(text)[i]] \in Nat
<1>1. RawTokens(text) \in Seq(DOMAIN TokenLength)
  <2>1. CASE text \in DOMAIN Tokens
      BY <2>1 DEF RawTokens, AttachAssumption
  <2>2. CASE text \notin DOMAIN Tokens
    <3>1. <<text>> \in Seq(DOMAIN TokenLength)
        OBVIOUS
    <3> QED
        BY <2>2, <3>1 DEF RawTokens
  <2> QED
      BY <2>1, <2>2
<1>2. Tokenize(text) \subseteq DOMAIN RawTokens(text)
    BY DEF Tokenize
<1>3. \A i \in DOMAIN RawTokens(text) : i \in Nat /\ TokenLength[RawTokens(text)[i]] \in Nat
    BY <1>1 DEF AttachAssumption
<1> QED
    BY <1>1, <1>2, <1>3

\* Without multi one cluster is left: the one with the longest first token, or
\* of two such the one whose token comes first.
LEMMA FuzzyIsUnique ==
    ASSUME AttachAssumption, NEW text \in DOMAIN TokenLength, NEW link, ~link.multi, NEW keyspace, NEW reject
    PROVE  Cardinality(ResolveExtractFuzzy(link, text, keyspace, reject)) <= 1
<1> DEFINE words == RawTokens(text)
           found == {i \in Tokenize(text) : words[i] \in DOMAIN keyspace \ reject}
           clusters == {keyspace[words[i]] : i \in found}
           places(c) == {i \in found : keyspace[words[i]] = c}
           first == [c \in clusters |-> Min(places(c))]
           length == [c \in clusters |-> TokenLength[words[first[c]]]]
           chosen == {c \in clusters : \A d \in clusters :
                         length[d] < length[c] \/ (length[d] = length[c] /\ first[c] <= first[d])}
<1>1. ResolveExtractFuzzy(link, text, keyspace, reject) = chosen
    BY Zenon DEF ResolveExtractFuzzy
<1>2. found \in SUBSET Nat /\ \A i \in found : TokenLength[words[i]] \in Nat
    BY TokenTypes
<1>3. ASSUME NEW c \in clusters
      PROVE  first[c] \in places(c) /\ first[c] \in Nat /\ length[c] \in Nat
  <2>1. places(c) \in SUBSET Nat /\ places(c) # {}
      BY <1>2
  <2>2. first[c] = Min(places(c)) /\ length[c] = TokenLength[words[first[c]]]
      OBVIOUS
  <2> HIDE DEF first, length
  <2>3. first[c] \in places(c)
      BY <2>1, <2>2, NatMin
  <2> QED
      BY <1>2, <2>2, <2>3
<1>4. ASSUME NEW c \in chosen, NEW d \in chosen PROVE c = d
  <2>1. /\ length[d] < length[c] \/ (length[d] = length[c] /\ first[c] <= first[d])
        /\ length[c] < length[d] \/ (length[c] = length[d] /\ first[d] <= first[c])
        /\ c \in clusters /\ d \in clusters
      OBVIOUS
  <2> HIDE DEF first, length, clusters, chosen
  <2>2. first[c] = first[d]
      BY <1>3, <2>1
  <2>3. keyspace[words[first[c]]] = c /\ keyspace[words[first[d]]] = d
      BY <1>3, <2>1
  <2> QED
      BY <2>2, <2>3
<1> HIDE DEF chosen
<1> QED
    BY <1>1, <1>4, AtMostOne

\* What one link of one record resolves to is justified.
LEMMA ResolveIsJustified ==
    ASSUME AttachAssumption, NEW mesh \in Seq(MeshRow), NEW scope, NEW reject,
           NEW link, NEW text \in DOMAIN TokenLength \cup {0}
    PROVE  LET clusters == Resolve(link, text, Keyspace(mesh, scope), reject)
           IN /\ \A c \in clusters : \E v \in KeysOfValue(link, text) : c \in Holders(mesh, scope, v)
              /\ ~(link.multi /\ link.strategy = "extract_fuzzy") => Cardinality(clusters) <= 1
              /\ \A v \in KeysOfValue(link, text) \ {0} :
                    /\ Cardinality(Holders(mesh, scope, v)) = 1
                    /\ link.strategy = "extract_fuzzy" => link.multi /\ v \notin reject
                    => Holders(mesh, scope, v) \subseteq clusters
<1> DEFINE keyspace == Keyspace(mesh, scope)
           H(v) == Holders(mesh, scope, v)
           clusters == Resolve(link, text, keyspace, reject)
           keys == KeysOfValue(link, text)
<1>1. \A v : /\ v \in DOMAIN keyspace => keyspace[v] \in H(v)
             /\ Cardinality(H(v)) = 1 => v \in DOMAIN keyspace /\ H(v) = {keyspace[v]}
    BY KeyspaceHolds
<1> HIDE DEF keyspace, H
<1>2. CASE text = 0 \/ link.strategy \notin {"exact", "normalized", "extract_fuzzy"}
  <2>1. clusters = {} /\ keys = {}
      BY <1>2 DEF Resolve, KeysOfValue
  <2>2. Cardinality(clusters) <= 1
      BY <2>1, AtMostOne
  <2> HIDE DEF clusters, keys
  <2>3. /\ \A c \in clusters : \E v \in keys : c \in H(v)
        /\ \A v \in keys \ {0} : H(v) \subseteq clusters
      BY <2>1
  <2> QED
      BY <2>2, <2>3 DEF clusters, keys, H, keyspace
<1>3. CASE text # 0 /\ link.strategy \in {"exact", "normalized"}
  <2> DEFINE key == IF link.strategy = "exact" THEN text ELSE Normalized(link, text)
  <2>1. clusters = Lookup(keyspace, key) /\ keys = {key}
      BY <1>3 DEF Resolve, ResolveExact, ResolveNormalized, KeysOfValue
  <2> HIDE DEF key, clusters, keys
  <2>2. clusters = IF key \in DOMAIN keyspace THEN {keyspace[key]} ELSE {}
      BY <2>1 DEF Lookup
  <2>3. Cardinality(clusters) <= 1
      BY <2>2, AtMostOne
  <2>4. /\ \A c \in clusters : \E v \in keys : c \in H(v)
        /\ \A v \in keys \ {0} : Cardinality(H(v)) = 1 => H(v) \subseteq clusters
      BY <1>1, <2>1, <2>2
  <2> QED
      BY <2>3, <2>4 DEF clusters, keys, H, keyspace
<1>4. CASE text # 0 /\ link.strategy = "extract_fuzzy"
  <2> DEFINE words == RawTokens(text)
             found == {i \in Tokenize(text) : words[i] \in DOMAIN keyspace \ reject}
             all == {keyspace[words[i]] : i \in found}
  <2>1. clusters = ResolveExtractFuzzy(link, text, keyspace, reject) /\ keys = {words[i] : i \in Tokenize(text)}
      BY <1>4 DEF Resolve, KeysOfValue
  <2>2. clusters \subseteq all /\ (link.multi => clusters = all)
      BY <2>1 DEF ResolveExtractFuzzy
  <2>3. ~link.multi => Cardinality(clusters) <= 1
      BY <1>4, <2>1, FuzzyIsUnique
  <2>4. \A c \in all : \E v \in keys : c \in H(v)
      BY <1>1, <2>1
  <2>5. \A v \in keys \ {0} : Cardinality(H(v)) = 1 /\ v \notin reject => H(v) \subseteq all
      BY <1>1, <2>1
  <2> HIDE DEF words, found, all, clusters, keys
  <2>6. /\ \A c \in clusters : \E v \in keys : c \in H(v)
        /\ ~link.multi => Cardinality(clusters) <= 1
        /\ \A v \in keys \ {0} :
              Cardinality(H(v)) = 1 /\ link.multi /\ v \notin reject => H(v) \subseteq clusters
      BY <2>2, <2>3, <2>4, <2>5
  <2> QED
      BY <1>4, <2>6 DEF clusters, keys, H, keyspace
<1> QED
    BY <1>2, <1>3, <1>4

\* The links of a feed read different fields, and a record has its own id.
OneFieldEach(links) == \A i, j \in DOMAIN links : links[i].field = links[j].field => i = j
OwnIds(records) == \A r, s \in records : r.source_id = s.source_id => r = s

\* The clusters that the rows of a record and a link name.
FoundIn(rows, record, link) ==
    {r.cluster : r \in {r \in rows : /\ r.source_id = record.source_id
                                    /\ r.field = link.field}}

\* The rows a record has of a feed come from its own links.
LEMMA FoundByLink ==
    ASSUME NEW mesh, NEW links, OneFieldEach(links), NEW records, OwnIds(records),
           NEW record \in records, NEW link \in Range(links)
    PROVE  FoundIn(ResolveFeedAttachments(links, mesh, records), record, link)
           = Resolve(link, record.text[link.field], Keyspace(mesh, links[1].scope),
                     RejectWords \cup RejectLists(mesh))
<1> DEFINE clusters(s, l) == Resolve(l, s.text[l.field], Keyspace(mesh, links[1].scope),
                                     RejectWords \cup RejectLists(mesh))
           rows(s, l) == {[cluster |-> c, source_id |-> s.source_id, field |-> l.field] : c \in clusters(s, l)}
           all == ResolveFeedAttachments(links, mesh, records)
<1>1. all = UNION {rows(s, l) : s \in records, l \in Range(links)}
    BY DEF ResolveFeedAttachments
<1>2. \A l \in Range(links) : l.field = link.field => l = link
    BY DEF Range, OneFieldEach
<1> HIDE DEF clusters, all
<1>3. ASSUME NEW r \in all, r.source_id = record.source_id, r.field = link.field
      PROVE  r.cluster \in clusters(record, link)
  <2>1. PICK s \in records, l \in Range(links) : r \in rows(s, l)
      BY <1>1
  <2>2. PICK c \in clusters(s, l) : r = [cluster |-> c, source_id |-> s.source_id, field |-> l.field]
      BY <2>1
  <2>3. s = record /\ l = link
      BY <1>2, <1>3, <2>2 DEF OwnIds
  <2> QED
      BY <2>2, <2>3
<1>4. ASSUME NEW c \in clusters(record, link)
      PROVE  \E r \in all : r.source_id = record.source_id /\ r.field = link.field /\ r.cluster = c
  <2> DEFINE r == [cluster |-> c, source_id |-> record.source_id, field |-> link.field]
  <2>1. r \in rows(record, link)
      OBVIOUS
  <2> HIDE DEF r, rows
  <2>2. r \in all
      BY <1>1, <2>1
  <2>3. r.source_id = record.source_id /\ r.field = link.field /\ r.cluster = c
      BY DEF r
  <2> QED
      BY <2>2, <2>3
<1>5. FoundIn(all, record, link) = clusters(record, link)
    BY <1>3, <1>4 DEF FoundIn
<1> QED
    BY <1>5 DEF all, clusters

\* Every link of a feed is justified by what the mesh holds (attach.py:126-308).
THEOREM JustifiedTheorem ==
    ASSUME AttachAssumption, NEW mesh \in Seq(MeshRow), NEW links \in Seq(Links), OneFieldEach(links),
           NEW records \in SUBSET [source_id : Nat, text : [LinkFields -> DOMAIN TokenLength \cup {0}]],
           OwnIds(records)
    PROVE  LinksJustified(links, mesh, records)
<1> DEFINE scope == links[1].scope
           reject == RejectWords \cup RejectLists(mesh)
           rows == ResolveFeedAttachments(links, mesh, records)
           found(record, link) == FoundIn(rows, record, link)
<1>1. ASSUME NEW record \in records, NEW link \in Range(links)
      PROVE  /\ found(record, link) = Resolve(link, record.text[link.field], Keyspace(mesh, scope), reject)
             /\ record.text[link.field] \in DOMAIN TokenLength \cup {0}
  <2>1. found(record, link) = Resolve(link, record.text[link.field], Keyspace(mesh, scope), reject)
      BY FoundByLink, Zenon
  <2>2. link.field \in LinkFields
    <3>1. link \in Links
        BY DEF Range
    <3> QED
        BY <3>1 DEF Links
  <2>3. record.text \in [LinkFields -> DOMAIN TokenLength \cup {0}]
      OBVIOUS
  <2> QED
      BY <2>1, <2>2, <2>3
<1>2. ASSUME NEW record \in records, NEW link \in Range(links), link.scope = scope
      PROVE  LET text == record.text[link.field]
                 clusters == found(record, link)
             IN /\ \A c \in clusters : \E v \in KeysOfValue(link, text) : c \in Holders(mesh, link.scope, v)
                /\ ~link.multi => Cardinality(clusters) <= 1
                /\ \A v \in KeysOfValue(link, text) \ {0} :
                      /\ Cardinality(Declared(mesh, link, v)) = 1
                      /\ Holders(mesh, link.scope, v) = Declared(mesh, link, v)
                      /\ IF link.strategy = "extract_fuzzy" THEN link.multi /\ v \notin reject
                         ELSE link.scope # {}
                      => Declared(mesh, link, v) \subseteq clusters
  <2> DEFINE text == record.text[link.field]
             clusters == found(record, link)
             H(v) == Holders(mesh, link.scope, v)
             D(v) == Declared(mesh, link, v)
             keys == KeysOfValue(link, text)
  <2>1. text \in DOMAIN TokenLength \cup {0} /\ clusters = Resolve(link, text, Keyspace(mesh, link.scope), reject)
      BY <1>1, <1>2
  <2>2. /\ \A c \in clusters : \E v \in keys : c \in H(v)
        /\ ~(link.multi /\ link.strategy = "extract_fuzzy") => Cardinality(clusters) <= 1
        /\ \A v \in keys \ {0} :
              /\ Cardinality(H(v)) = 1
              /\ link.strategy = "extract_fuzzy" => link.multi /\ v \notin reject
              => H(v) \subseteq clusters
    <3> HIDE DEF found, reject, scope, text, clusters
    <3> QED
        BY <2>1, ResolveIsJustified
  <2> HIDE DEF clusters, H, D, keys, text, reject
  <2>3. /\ \A c \in clusters : \E v \in keys : c \in H(v)
        /\ ~link.multi => Cardinality(clusters) <= 1
        /\ \A v \in keys \ {0} :
              /\ Cardinality(D(v)) = 1
              /\ H(v) = D(v)
              /\ IF link.strategy = "extract_fuzzy" THEN link.multi /\ v \notin reject ELSE link.scope # {}
              => D(v) \subseteq clusters
      BY <2>2
  <2> QED
      BY <2>3 DEF clusters, H, D, keys, text
<1> QED
    BY <1>2, Zenon DEF LinksJustified, FoundIn

----------------------------------------------------------------------------
(* Documents and employees                                                 *)

\* The clusters of the rows of a record are those its links resolve to.
LEMMA ClustersOfRecord ==
    ASSUME NEW mesh, NEW links, NEW record
    PROVE  {r.cluster : r \in ResolveFeedAttachments(links, mesh, {record})}
           = UNION {Resolve(link, record.text[link.field], Keyspace(mesh, links[1].scope),
                            RejectWords \cup RejectLists(mesh)) : link \in Range(links)}
<1> DEFINE clusters(l) == Resolve(l, record.text[l.field], Keyspace(mesh, links[1].scope),
                                  RejectWords \cup RejectLists(mesh))
           row(l, c) == [cluster |-> c, source_id |-> record.source_id, field |-> l.field]
           rows(l) == {row(l, c) : c \in clusters(l)}
           all == ResolveFeedAttachments(links, mesh, {record})
<1>1. all = UNION {rows(l) : l \in Range(links)}
  <2> DEFINE of(s, l) == {[cluster |-> c, source_id |-> s.source_id, field |-> l.field] :
                             c \in Resolve(l, s.text[l.field], Keyspace(mesh, links[1].scope),
                                           RejectWords \cup RejectLists(mesh))}
  <2>1. all = UNION {of(s, l) : s \in {record}, l \in Range(links)}
      BY DEF ResolveFeedAttachments
  <2>2. \A l : of(record, l) = rows(l)
      BY Zenon
  <2> HIDE DEF all, of, rows
  <2> QED
      BY <2>1, <2>2
<1> HIDE DEF clusters, all
<1>2. ASSUME NEW r \in all PROVE \E l \in Range(links) : r.cluster \in clusters(l)
    BY <1>1
<1>3. ASSUME NEW l \in Range(links), NEW c \in clusters(l) PROVE \E r \in all : r.cluster = c
  <2>1. row(l, c) \in rows(l)
      OBVIOUS
  <2>2. row(l, c).cluster = c
      OBVIOUS
  <2> HIDE DEF row, rows
  <2> QED
      BY <1>1, <2>1, <2>2
<1>4. {r.cluster : r \in all} = UNION {clusters(l) : l \in Range(links)}
    BY <1>2, <1>3
<1> QED
    BY <1>4 DEF all, clusters

\* The keyspace has no empty value.
LEMMA NoEmptyKey ==
    ASSUME NEW mesh, NEW scope
    PROVE  0 \notin DOMAIN Keyspace(mesh, scope)
BY DEF Keyspace, Keys

\* A document is attached where the employee is that it names (manifest.py:523).
THEOREM DocumentsTheorem ==
    ASSUME AttachAssumption, NEW mesh, NEW url \in DOMAIN EmployeeName
    PROVE  DocsFollowEmployees(mesh, url)
<1> DEFINE docs == AttachmentFeeds.sp_employeedocs.links
           employees == AttachmentFeeds.sp_employees.links
           webUrl == Link("webUrl", "assigned_user", "normalized", "employee_name_from_url", TRUE, UserFeeds)
           OfUser(field) == Link(field, "assigned_user", "exact", "", FALSE, UserFeeds)
           name == EmployeeName[url]
           doc == [source_id |-> 1, text |-> [webUrl |-> url]]
           employee == [source_id |-> 1,
                        text |-> [f \in {"fields.BusEmailAddress", "fields.ReadName", "fields.MLUsername"} |->
                                     IF f = "fields.ReadName" THEN name ELSE 0]]
           keyspace == Keyspace(mesh, UserFeeds)
           reject == RejectWords \cup RejectLists(mesh)
           clusters(links, record) == {r.cluster : r \in ResolveFeedAttachments(links, mesh, {record})}
<1>1. docs = <<webUrl>>
    BY DEF AttachmentFeeds, Attachment
<1>2. employees = <<OfUser("fields.BusEmailAddress"), OfUser("fields.ReadName"), OfUser("fields.MLUsername")>>
    BY DEF AttachmentFeeds, Attachment
<1>3. /\ \A f : OfUser(f).field = f /\ OfUser(f).strategy = "exact" /\ OfUser(f).scope = UserFeeds
      /\ webUrl.field = "webUrl" /\ webUrl.strategy = "normalized" /\ webUrl.scope = UserFeeds
      /\ webUrl.transform = "employee_name_from_url"
    BY DEF Link
<1>4. doc.text["webUrl"] = url
    OBVIOUS
<1>5. /\ employee.text["fields.BusEmailAddress"] = 0 /\ employee.text["fields.MLUsername"] = 0
      /\ employee.text["fields.ReadName"] = name
    OBVIOUS
<1> HIDE DEF docs, employees, webUrl, OfUser, name, doc, employee, keyspace, reject
<1>6. clusters(docs, doc) = Resolve(webUrl, url, keyspace, reject)
  <2>1. Range(docs) = {webUrl} /\ docs[1] = webUrl
      BY <1>1 DEF Range
  <2>2. clusters(docs, doc)
            = UNION {Resolve(link, doc.text[link.field], keyspace, reject) : link \in Range(docs)}
    <3>1. keyspace = Keyspace(mesh, docs[1].scope)
        BY <1>3, <2>1 DEF keyspace
    <3>2. clusters(docs, doc)
              = UNION {Resolve(link, doc.text[link.field], Keyspace(mesh, docs[1].scope), reject) :
                          link \in Range(docs)}
        BY ClustersOfRecord, Zenon DEF reject
    <3> QED
        BY <3>1, <3>2, Zenon
  <2>3. clusters(docs, doc) = Resolve(webUrl, doc.text[webUrl.field], keyspace, reject)
      BY <2>1, <2>2
  <2> QED
      BY <1>3, <1>4, <2>3
<1>7. clusters(employees, employee) = Resolve(OfUser("fields.ReadName"), name, keyspace, reject)
  <2>1. /\ Range(employees) = {OfUser("fields.BusEmailAddress"), OfUser("fields.ReadName"),
                               OfUser("fields.MLUsername")}
        /\ employees[1] = OfUser("fields.BusEmailAddress")
    <3>1. DOMAIN employees = {1, 2, 3}
        BY <1>2
    <3>2. /\ employees[1] = OfUser("fields.BusEmailAddress")
          /\ employees[2] = OfUser("fields.ReadName")
          /\ employees[3] = OfUser("fields.MLUsername")
        BY <1>2
    <3> QED
        BY <3>1, <3>2 DEF Range
  <2>2. clusters(employees, employee)
            = UNION {Resolve(link, employee.text[link.field], keyspace, reject) : link \in Range(employees)}
      BY <1>3, <2>1, ClustersOfRecord DEF keyspace, reject
  <2>3. \A link : Resolve(link, 0, keyspace, reject) = {}
      BY DEF Resolve
  <2> QED
      BY <1>3, <1>5, <2>1, <2>2, <2>3
<1>8. Resolve(webUrl, url, keyspace, reject) = Lookup(keyspace, name)
  <2>1. url # 0
      BY DEF AttachAssumption
  <2>2. Normalized(webUrl, url) = name
      BY <1>3 DEF Normalized, name
  <2> QED
      BY <1>3, <2>1, <2>2 DEF Resolve, ResolveNormalized
<1>9. Resolve(OfUser("fields.ReadName"), name, keyspace, reject) = Lookup(keyspace, name)
  <2>1. CASE name = 0
      BY <2>1, NoEmptyKey DEF Resolve, Lookup, keyspace
  <2>2. CASE name # 0
      BY <1>3, <2>2 DEF Resolve, ResolveExact
  <2> QED
      BY <2>1, <2>2
<1>10. clusters(docs, doc) = clusters(employees, employee)
    BY <1>6, <1>7, <1>8, <1>9
<1> QED
    BY <1>10, Zenon DEF DocsFollowEmployees, docs, employees, doc, employee, name

\* Whatever feed, records and mesh are asked about, the links are justified, and
\* documents follow their employees.
THEOREM LinksTheorem ==
    ASSUME AttachAssumption
    PROVE  Asking(LinkQuestion) => []LinksAreJustified
<1>1. question = Nothing => LinksAreJustified
    BY DEF Nothing, LinksAreJustified
<1>2. ASSUME question' \in LinkQuestion PROVE LinksAreJustified'
  <2>1. /\ question'.mesh \in Seq(MeshRow) /\ question'.links \in Seq(Links)
        /\ question'.records \in SUBSET [source_id : Nat, text : [LinkFields -> DOMAIN TokenLength \cup {0}]]
        /\ OneFieldEach(question'.links) /\ OwnIds(question'.records)
      BY <1>2 DEF LinkQuestion, OneFieldEach, OwnIds
  <2>2. LinksJustified(question'.links, question'.mesh, question'.records)
      BY <2>1, JustifiedTheorem
  <2>3. \A url \in DOMAIN EmployeeName : DocsFollowEmployees(question'.mesh, url)
      BY DocumentsTheorem
  <2> QED
      BY <2>2, <2>3 DEF LinksAreJustified
<1>3. LinksAreJustified /\ UNCHANGED question => LinksAreJustified'
    BY DEF LinksAreJustified
<1> QED
    BY <1>1, <1>2, <1>3, PTL DEF Asking

----------------------------------------------------------------------------
(* api/db.py: the lookup and the search                                    *)

LEMMA Interval ==
    ASSUME NEW n \in Nat
    PROVE  IsFiniteSet(1 .. n) /\ Cardinality(1 .. n) = n
<1>1. 1 \in Int /\ n \in Int
    OBVIOUS
<1>2. IsFiniteSet(1 .. n) /\ Cardinality(1 .. n) = IF 1 > n THEN 0 ELSE n - 1 + 1
    BY <1>1, FS_Interval, Zenon
<1> QED
    BY <1>2

\* A cluster has a record, and from one to eight sources.
LEMMA ClusterIsHeld ==
    ASSUME NEW mesh \in Seq(MeshRow), NEW c \in ClustersIn(mesh)
    PROVE  /\ Records(mesh, c) # {}
           /\ c \in Nat
           /\ SourceCount(mesh, c) \in 1 .. 8
<1>1. Records(mesh, c) # {} /\ c \in Nat
    BY RowTypes DEF ClustersIn, Records
<1>2. SourcesOf(mesh, c) # {}
    BY <1>1 DEF SourcesOf
<1>3. IsFiniteSet(SourcesOf(mesh, c)) /\ SourcesOf(mesh, c) \subseteq Range(SourceOrder)
    BY MeshIsFinite DEF TextFields
<1>4. IsFiniteSet(Range(SourceOrder)) /\ Cardinality(Range(SourceOrder)) <= 8
  <2> DEFINE g == [i \in 1 .. 8 |-> SourceOrder[i]]
  <2>1. IsFiniteSet(1 .. 8) /\ Cardinality(1 .. 8) = 8
    <3>1. 8 \in Nat
        OBVIOUS
    <3> QED
        BY <3>1, Interval, Zenon
  <2>2. g \in Surjection(1 .. 8, Range(SourceOrder))
      BY SourceNames DEF Surjection, Range
  <2> HIDE DEF g
  <2> QED
      BY <2>1, <2>2, FS_Surjection
<1>5. Cardinality(SourcesOf(mesh, c)) <= Cardinality(Range(SourceOrder))
    BY <1>3, <1>4, FS_Subset
<1>6. Cardinality(SourcesOf(mesh, c)) \in Nat /\ Cardinality(SourcesOf(mesh, c)) # 0
    BY <1>2, <1>3, MoreThanOne
<1>7. Cardinality(Range(SourceOrder)) \in Nat
    BY <1>4, FS_CardinalityType
<1>8. Cardinality(SourcesOf(mesh, c)) \in 1 .. 8
    BY <1>4, <1>5, <1>6, <1>7
<1> QED
    BY <1>1, <1>8 DEF SourceCount

\* The device column is a value of the cluster, and 0 only without any.
LEMMA DeviceValue ==
    ASSUME NEW mesh \in Seq(MeshRow), NEW c, NEW f \in TextFields
    PROVE  /\ Device(mesh, c, f) \in Values(mesh, c, f) \cup {0}
           /\ Device(mesh, c, f) = 0 <=> Values(mesh, c, f) = {}
<1>1. CASE f = "name"
  <2> DEFINE names == Values(mesh, c, "name")
  <2>1. names \in SUBSET Nat /\ 0 \notin names
      BY <1>1, MeshIsFinite
  <2>2. Device(mesh, c, f) = IF names = {} THEN 0 ELSE Min(names)
      BY <1>1 DEF Device, DeviceName
  <2> HIDE DEF names
  <2>3. names # {} => Min(names) \in names
      BY <2>1, NatMin
  <2> QED
      BY <1>1, <2>1, <2>2, <2>3 DEF names
<1>2. CASE f # "name"
    BY <1>2, ColumnValue DEF Device
<1> QED
    BY <1>1, <1>2

\* What a device's column is like, a record of it is.
LEMMA DeviceIsHeld ==
    ASSUME QueryAssumption, NEW mesh \in Seq(MeshRow), NEW c \in ClustersIn(mesh), NEW f \in TextFields,
           NEW q, Like(Device(mesh, c, f), q)
    PROVE  \E i \in Records(mesh, c) : Like(mesh[i][f], q)
<1>1. CASE Device(mesh, c, f) \in Values(mesh, c, f)
    BY <1>1 DEF Values
<1>2. CASE Device(mesh, c, f) = 0
  <2>1. q = 0
      BY <1>2 DEF Like, QueryAssumption
  <2> QED
      BY <2>1, ClusterIsHeld DEF Like
<1> QED
    BY <1>1, <1>2, DeviceValue

LEMMA BestIsSome ==
    ASSUME NEW mesh \in Seq(MeshRow), NEW cs \in SUBSET ClustersIn(mesh)
    PROVE  Best(mesh, cs) \subseteq cs /\ (cs # {} => Best(mesh, cs) # {})
<1> DEFINE counts == {SourceCount(mesh, c) : c \in cs}
<1>1. counts \in SUBSET Nat /\ \A n \in counts : n <= 8
    BY ClusterIsHeld
<1>2. counts # {} => Max(counts) \in counts /\ \A n \in counts : n <= Max(counts)
  <2> HIDE DEF counts
  <2> QED
      BY <1>1, NatMax
<1>3. cs # {} => \E c \in cs : \A d \in cs : SourceCount(mesh, d) <= SourceCount(mesh, c)
    BY <1>2
<1> QED
    BY <1>3 DEF Best

LEMMA LeastIsSome ==
    ASSUME NEW cs \in SUBSET Nat
    PROVE  Least(cs) \subseteq cs /\ (cs # {} => Least(cs) # {})
BY NatMin DEF Least

LEMMA ClustersAreNumbers ==
    ASSUME NEW mesh \in Seq(MeshRow)
    PROVE  ClustersIn(mesh) \subseteq Nat
BY ClusterIsHeld

\* The cascade, step by step.
LEMMA CascadeSteps ==
    ASSUME NEW mesh, NEW q
    PROVE  /\ DOMAIN LookupSteps(mesh, q) = 1 .. 8
           /\ LookupSteps(mesh, q)[1] = (ClustersIn(mesh) \ Upper) \cap {q}
           /\ LookupSteps(mesh, q)[2] = Best(mesh, Equals(mesh, "name", q))
           /\ LookupSteps(mesh, q)[3] = Best(mesh, Equals(mesh, "serial_number", q))
           /\ LookupSteps(mesh, q)[4] \in {{}, Best(mesh, Equals(mesh, "mac_address", q))}
           /\ LookupSteps(mesh, q)[5]
                \in {{}, Least({c \in ClustersIn(mesh) : q \in Values(mesh, c, "mac_address")})}
           /\ LookupSteps(mesh, q)[6] = Least(Holding(mesh, {"ip_address"}, q))
           /\ LookupSteps(mesh, q)[7]
                = Best(mesh, {c \in ClustersIn(mesh) : Like(Column(mesh, c, "assigned_user"), q)})
           /\ LookupSteps(mesh, q)[8] = Best(mesh, Holding(mesh, LookupFields, q))
BY DEF LookupSteps

\* The answer is that of the first step with one.
LEMMA FirstStep ==
    ASSUME NEW mesh, NEW q
    PROVE  LET steps == LookupSteps(mesh, q)
               answers == ResolveCluster(mesh, q)
           IN /\ answers = {} <=> \A i \in 1 .. 8 : steps[i] = {}
              /\ answers # {} => \E i \in 1 .. 8 :
                     answers = steps[i] /\ \A j \in 1 .. 8 : j < i => steps[j] = {}
<1> DEFINE steps == LookupSteps(mesh, q)
           found == {i \in DOMAIN steps : steps[i] # {}}
           answers == ResolveCluster(mesh, q)
<1>1. DOMAIN steps = 1 .. 8
    BY CascadeSteps
<1>2. answers = IF found = {} THEN {} ELSE steps[Min(found)]
    BY DEF ResolveCluster
<1>3. \A i : i \in found <=> i \in 1 .. 8 /\ steps[i] # {}
    BY <1>1
<1> HIDE DEF steps, found, answers
<1>4. found \in SUBSET Nat
    BY <1>3
<1>5. found # {} => Min(found) \in found /\ \A i \in found : Min(found) <= i
    BY <1>4, NatMin
<1>6. CASE found = {}
    BY <1>2, <1>3, <1>6 DEF steps, answers
<1>7. CASE found # {}
  <2>1. PICK k \in 1 .. 8 : k = Min(found) /\ k \in found
      BY <1>3, <1>5, <1>7
  <2>2. answers = steps[k] /\ answers # {}
      BY <1>2, <1>3, <1>7, <2>1
  <2>3. \A j \in 1 .. 8 : j < k => steps[j] = {}
      BY <1>3, <1>5, <1>7, <2>1
  <2> QED
      BY <2>1, <2>2, <2>3 DEF steps, answers
<1> QED
    BY <1>6, <1>7

\* What a step finds holds the text, and so it is with a lookup.
LEMMA StepsHold ==
    ASSUME QueryAssumption, NEW mesh \in Seq(MeshRow), NEW q, NEW k \in 1 .. 8
    PROVE  LookupSteps(mesh, q)[k] \subseteq ({q} \cap ClustersIn(mesh)) \cup Holding(mesh, LookupFields, q)
<1> DEFINE steps == LookupSteps(mesh, q)
           holding == Holding(mesh, LookupFields, q)
<1>1. ASSUME NEW c \in ClustersIn(mesh), NEW f \in LookupFields, NEW i \in Records(mesh, c), Like(mesh[i][f], q)
      PROVE  c \in holding
    BY <1>1 DEF Holding
<1>2. LookupFields \subseteq TextFields
    BY DEF LookupFields, TextFields
<1>3. ASSUME NEW c \in ClustersIn(mesh), NEW f \in LookupFields, Like(Device(mesh, c, f), q)
      PROVE  c \in holding
    BY <1>1, <1>2, <1>3, DeviceIsHeld
<1>4. \A f \in LookupFields : Equals(mesh, f, q) \subseteq holding
    BY <1>3 DEF Equals, Like
<1>5. steps[1] \subseteq {q} \cap ClustersIn(mesh)
  <2>1. steps[1] = (ClustersIn(mesh) \ Upper) \cap {q}
      BY CascadeSteps, Zenon
  <2> HIDE DEF steps
  <2> QED
      BY <2>1
<1>6. steps[2] \cup steps[3] \cup steps[4] \subseteq holding
  <2>1. {"name", "serial_number", "mac_address"} \subseteq LookupFields
      BY DEF LookupFields
  <2>2. \A f : Equals(mesh, f, q) \subseteq ClustersIn(mesh)
      BY DEF Equals
  <2>3. \A f : Best(mesh, Equals(mesh, f, q)) \subseteq Equals(mesh, f, q)
      BY <2>2, BestIsSome
  <2>4. /\ steps[2] = Best(mesh, Equals(mesh, "name", q))
        /\ steps[3] = Best(mesh, Equals(mesh, "serial_number", q))
        /\ steps[4] \in {{}, Best(mesh, Equals(mesh, "mac_address", q))}
      BY CascadeSteps, Zenon
  <2> HIDE DEF steps, holding
  <2> QED
      BY <1>4, <2>1, <2>3, <2>4
<1>7. steps[5] \subseteq holding
  <2> DEFINE owners == {c \in ClustersIn(mesh) : q \in Values(mesh, c, "mac_address")}
  <2>1. Least(owners) \subseteq owners
      BY ClustersAreNumbers, LeastIsSome
  <2>2. owners \subseteq holding
      BY <1>1 DEF Values, Like, LookupFields
  <2> HIDE DEF owners, holding
  <2>3. steps[5] \in {{}, Least(owners)}
      BY CascadeSteps, Zenon DEF owners
  <2> QED
      BY <2>1, <2>2, <2>3
<1>8. steps[6] \subseteq holding
  <2>1. Holding(mesh, {"ip_address"}, q) \subseteq holding /\ Holding(mesh, {"ip_address"}, q) \subseteq Nat
      BY ClustersAreNumbers DEF Holding, LookupFields
  <2>2. Least(Holding(mesh, {"ip_address"}, q)) \subseteq Holding(mesh, {"ip_address"}, q)
      BY <2>1, LeastIsSome
  <2>3. steps[6] = Least(Holding(mesh, {"ip_address"}, q))
      BY CascadeSteps, Zenon
  <2> HIDE DEF holding, steps
  <2> QED
      BY <2>1, <2>2, <2>3
<1>9. steps[7] \subseteq holding
  <2> DEFINE users == {c \in ClustersIn(mesh) : Like(Column(mesh, c, "assigned_user"), q)}
  <2>1. users \subseteq holding
      BY <1>3 DEF LookupFields, Device
  <2>2. Best(mesh, users) \subseteq users
      BY BestIsSome
  <2>3. steps[7] = Best(mesh, users)
    <3>1. \A m, t : LookupSteps(m, t)[7]
                     = Best(m, {c \in ClustersIn(m) : Like(Column(m, c, "assigned_user"), t)})
        BY DEF LookupSteps
    <3> QED
        BY <3>1
  <2> HIDE DEF users, holding, steps
  <2> QED
      BY <2>1, <2>2, <2>3
<1>10. steps[8] \subseteq holding
  <2>1. holding \subseteq ClustersIn(mesh)
      BY DEF Holding
  <2>2. Best(mesh, holding) \subseteq holding
      BY <2>1, BestIsSome
  <2>3. steps[8] = Best(mesh, holding)
      BY CascadeSteps, Zenon
  <2> HIDE DEF holding, steps
  <2> QED
      BY <2>2, <2>3
<1> HIDE DEF steps, holding
<1>11. steps[k] \subseteq ({q} \cap ClustersIn(mesh)) \cup holding
  <2>1. k \in {1, 2, 3, 4, 5, 6, 7, 8}
      OBVIOUS
  <2> QED
      BY <1>5, <1>6, <1>7, <1>8, <1>9, <1>10, <2>1
<1> QED
    BY <1>11 DEF steps, holding

LEMMA AnswersHold ==
    ASSUME QueryAssumption, NEW mesh \in Seq(MeshRow), NEW q
    PROVE  LET answers == ResolveCluster(mesh, q)
           IN /\ answers \subseteq ({q} \cap ClustersIn(mesh)) \cup Holding(mesh, LookupFields, q)
              /\ Holding(mesh, LookupFields, q) # {} => answers # {}
<1> DEFINE answers == ResolveCluster(mesh, q)
           steps == LookupSteps(mesh, q)
           holding == Holding(mesh, LookupFields, q)
<1>1. /\ answers = {} <=> \A i \in 1 .. 8 : steps[i] = {}
      /\ answers # {} => \E i \in 1 .. 8 : answers = steps[i]
    BY FirstStep
<1>2. \A i \in 1 .. 8 : steps[i] \subseteq ({q} \cap ClustersIn(mesh)) \cup holding
    BY StepsHold
<1>3. holding # {} => steps[8] # {}
  <2>1. holding \subseteq ClustersIn(mesh)
      BY DEF Holding
  <2>2. steps[8] = Best(mesh, holding)
      BY CascadeSteps
  <2> HIDE DEF holding, steps
  <2> QED
      BY <2>1, <2>2, BestIsSome
<1> HIDE DEF answers, steps, holding
<1>4. /\ answers \subseteq ({q} \cap ClustersIn(mesh)) \cup holding
      /\ holding # {} => answers # {}
    BY <1>1, <1>2, <1>3
<1> QED
    BY <1>4 DEF answers, holding

\* An exact name or serial is never passed over.
LEMMA ExactComesFirst ==
    ASSUME NEW mesh \in Seq(MeshRow), NEW q, q # 0,
           NEW exact, exact = {c \in ClustersIn(mesh) : \E f \in {"name", "serial_number"} : q = Device(mesh, c, f)},
           exact # {}
    PROVE  ResolveCluster(mesh, q) \subseteq exact \cup {q}
<1> DEFINE answers == ResolveCluster(mesh, q)
           steps == LookupSteps(mesh, q)
           named == Equals(mesh, "name", q)
           numbered == Equals(mesh, "serial_number", q)
<1>1. answers # {} => \E i \in 1 .. 8 : answers = steps[i] /\ \A j \in 1 .. 8 : j < i => steps[j] = {}
    BY FirstStep
<1>2. named \subseteq exact /\ numbered \subseteq exact /\ exact = named \cup numbered
    BY DEF Equals
<1>3. steps[2] \subseteq named /\ (named # {} => steps[2] # {})
  <2>1. named \subseteq ClustersIn(mesh)
      BY DEF Equals
  <2>2. steps[2] = Best(mesh, named)
      BY CascadeSteps, Zenon
  <2> HIDE DEF named, steps
  <2> QED
      BY <2>1, <2>2, BestIsSome
<1>4. steps[3] \subseteq numbered /\ (numbered # {} => steps[3] # {})
  <2>1. numbered \subseteq ClustersIn(mesh)
      BY DEF Equals
  <2>2. steps[3] = Best(mesh, numbered)
      BY CascadeSteps, Zenon
  <2> HIDE DEF numbered, steps
  <2> QED
      BY <2>1, <2>2, BestIsSome
<1>5. steps[1] \subseteq {q}
  <2>1. steps[1] = (ClustersIn(mesh) \ Upper) \cap {q}
      BY CascadeSteps, Zenon
  <2> HIDE DEF steps
  <2> QED
      BY <2>1
<1> HIDE DEF answers, steps, named, numbered
<1>6. SUFFICES ASSUME answers # {} PROVE answers \subseteq exact \cup {q}
    BY DEF answers
<1>7. PICK i \in 1 .. 8 : answers = steps[i] /\ \A j \in 1 .. 8 : j < i => steps[j] = {}
    BY <1>1, <1>6
<1>8. i <= 3
  <2>1. steps[2] # {} \/ steps[3] # {}
      BY <1>2, <1>3, <1>4
  <2> QED
      BY <1>7, <2>1
<1>9. i = 1 \/ i = 2 \/ i = 3
    BY <1>8
<1> QED
    BY <1>2, <1>3, <1>4, <1>5, <1>7, <1>9

\* Where no records are merged a device has what its record has.
LEMMA SingleRecords ==
    ASSUME NEW mesh \in Seq(MeshRow), Len(mesh) = Cardinality(ClustersIn(mesh)),
           NEW c \in ClustersIn(mesh), NEW i \in Records(mesh, c), NEW f \in TextFields
    PROVE  Device(mesh, c, f) = mesh[i][f]
<1> DEFINE g == [k \in 1 .. Len(mesh) |-> mesh[k].cluster]
<1>1. PICK n \in Nat : n = Len(mesh) /\ DOMAIN mesh = 1 .. n
    OBVIOUS
<1>2. IsFiniteSet(1 .. n) /\ Cardinality(1 .. n) = n
    BY Interval
<1>3. Cardinality(1 .. n) = Cardinality(ClustersIn(mesh))
    BY <1>1, <1>2
<1>4. g \in Surjection(1 .. n, ClustersIn(mesh))
    BY <1>1 DEF Surjection, ClustersIn
<1>5. g \in Injection(1 .. n, ClustersIn(mesh))
  <2> HIDE DEF g
  <2> QED
      BY <1>2, <1>3, <1>4, FS_Surjection
<1>6. \A j, k \in 1 .. n : mesh[j].cluster = mesh[k].cluster => j = k
    BY <1>1, <1>5 DEF Injection, IsInjective
<1>7. Records(mesh, c) = {i}
    BY <1>1, <1>6 DEF Records
<1>8. Values(mesh, c, f) = {mesh[i][f]} \ {0}
    BY <1>7 DEF Values
<1> QED
    BY <1>8, DeviceValue

\* A lookup and the search find what they promise, of any text in any mesh
\* (db.py:104-180, 376-439).
THEOREM LookupTheorem ==
    ASSUME QueryAssumption, NEW mesh \in Seq(MeshRow), NEW q
    PROVE  LookupAgrees(mesh, q)
<1> DEFINE answers == ResolveCluster(mesh, q)
           holding == Holding(mesh, LookupFields, q)
           exact == {c \in ClustersIn(mesh) : \E f \in {"name", "serial_number"} : q = Device(mesh, c, f)}
<1>1. /\ answers \subseteq ({q} \cap ClustersIn(mesh)) \cup holding
      /\ holding # {} => answers # {}
    BY AnswersHold, Zenon
<1>2. q # 0 /\ exact # {} => answers \subseteq exact \cup {q}
  <2> HIDE DEF answers
  <2>1. \A e : e = exact /\ e # {} /\ q # 0 => answers \subseteq e \cup {q}
      BY ExactComesFirst DEF answers
  <2> QED
      BY <2>1, Zenon
<1>3. SearchFields \subseteq TextFields /\ LookupFields \subseteq SearchFields
    BY DEF SearchFields, LookupFields, TextFields
<1>4. ASSUME answers = {}, NEW c \in ClustersIn(mesh), NEW f \in LookupFields
      PROVE  ~Like(Device(mesh, c, f), q)
  <2>1. SUFFICES ASSUME Like(Device(mesh, c, f), q) PROVE FALSE
      OBVIOUS
  <2>2. \E i \in Records(mesh, c) : Like(mesh[i][f], q)
      BY <1>3, <2>1, DeviceIsHeld
  <2>3. c \in holding
      BY <2>2 DEF Holding
  <2> QED
      BY <1>1, <1>4, <2>3
<1>5. ASSUME Len(mesh) = Cardinality(ClustersIn(mesh)), NEW c \in answers
      PROVE  c \in Search(mesh, q) \cup {q}
  <2>1. SUFFICES ASSUME c \in holding PROVE c \in Search(mesh, q)
      BY <1>1
  <2>2. PICK i \in Records(mesh, c), f \in LookupFields : c \in ClustersIn(mesh) /\ Like(mesh[i][f], q)
      BY <2>1 DEF Holding
  <2>3. Device(mesh, c, f) = mesh[i][f]
      BY <1>3, <1>5, <2>2, SingleRecords
  <2> QED
      BY <1>3, <2>2, <2>3 DEF Search
<1>6. holding \subseteq Holding(mesh, SearchFields, q)
    BY <1>3 DEF Holding
<1> HIDE DEF answers, holding, exact
<1>7. /\ answers \subseteq ({q} \cap ClustersIn(mesh)) \cup Holding(mesh, SearchFields, q)
      /\ holding # {} => answers # {}
      /\ q # 0 /\ exact # {} => answers \subseteq exact \cup {q}
      /\ answers = {} => \A c \in ClustersIn(mesh) : \A f \in LookupFields : ~Like(Device(mesh, c, f), q)
      /\ Len(mesh) = Cardinality(ClustersIn(mesh)) => answers \subseteq Search(mesh, q) \cup {q}
    BY <1>1, <1>2, <1>4, <1>5, <1>6
<1> QED
    BY <1>7, Zenon DEF LookupAgrees, answers, holding, exact

----------------------------------------------------------------------------
(* api/db.py: the counters                                                 *)

LEMMA IsOneToOne ==
    ASSUME NEW A, NEW B, NEW f \in [A -> B], \A s, t \in A : f[s] = f[t] => s = t,
           \A b \in B : \E s \in A : f[s] = b
    PROVE  f \in Bijection(A, B)
BY DEF Bijection, Injection, Surjection, IsInjective

\* Counted class by class, a finite set is counted once.
LEMMA Classes ==
    ASSUME NEW S, IsFiniteSet(S), NEW key, DOMAIN key = S, NEW count,
           DOMAIN count = {key[s] : s \in S},
           \A k \in DOMAIN count : count[k] = Cardinality({s \in S : key[s] = k})
    PROVE  Total(count) = Cardinality(S)
<1> DEFINE class(k) == {s \in S : key[s] = k}
           number(k) == CHOOSE f : f \in Bijection(class(k), 1 .. count[k])
           T == UNION {{k} \X (1 .. count[k]) : k \in DOMAIN count}
           g == [s \in S |-> <<key[s], number(key[s])[s]>>]
<1>1. ASSUME NEW k \in DOMAIN count
      PROVE  number(k) \in Bijection(class(k), 1 .. count[k])
  <2>1. IsFiniteSet(class(k)) /\ count[k] = Cardinality(class(k))
      BY FS_Subset
  <2> HIDE DEF class
  <2>2. ExistsBijection(1 .. count[k], class(k))
      BY <2>1, FS_CardinalityType
  <2>3. ExistsBijection(class(k), 1 .. count[k])
      BY <2>2, Fun_ExistsBijSymmetric
  <2> QED
      BY <2>3 DEF ExistsBijection
<1> HIDE DEF number
<1>2. ASSUME NEW k \in DOMAIN count
      PROVE  /\ \A s \in S : key[s] = k => number(k)[s] \in 1 .. count[k]
             /\ \A s, t \in S : key[s] = k /\ key[t] = k /\ number(k)[s] = number(k)[t] => s = t
             /\ \A i \in 1 .. count[k] : \E s \in S : key[s] = k /\ number(k)[s] = i
  <2>1. \A s : s \in class(k) <=> s \in S /\ key[s] = k
      OBVIOUS
  <2> HIDE DEF class
  <2>2. PICK A, B, f : A = class(k) /\ B = 1 .. count[k] /\ f = number(k)
      OBVIOUS
  <2>3. f \in Bijection(A, B)
      BY <1>1, <2>2
  <2>4. /\ f \in [A -> B]
        /\ \A s, t \in A : f[s] = f[t] => s = t
        /\ \A i \in B : \E s \in A : f[s] = i
      BY <2>3 DEF Bijection, Injection, Surjection, IsInjective
  <2> QED
      BY <2>1, <2>2, <2>4
<1>3. \A s \in S : key[s] \in DOMAIN count
    OBVIOUS
<1>4. \A p : p \in T <=> \E k \in DOMAIN count : \E i \in 1 .. count[k] : p = <<k, i>>
    OBVIOUS
<1> HIDE DEF T
<1>5. g \in [S -> T]
    BY <1>2, <1>3, <1>4
<1>6. \A s, t \in S : g[s] = g[t] => s = t
    BY <1>2, <1>3
<1>7. \A p \in T : \E s \in S : g[s] = p
    BY <1>2, <1>4
<1> HIDE DEF g
<1>8. ExistsBijection(S, T)
  <2>1. g \in Bijection(S, T)
      BY <1>5, <1>6, <1>7, IsOneToOne
  <2> QED
      BY <2>1 DEF ExistsBijection
<1>9. Cardinality(T) = Cardinality(S)
    BY <1>8, FS_Bijection
<1> QED
    BY <1>9 DEF Total, T

\* What is split in two is counted in two.
LEMMA InTwo ==
    ASSUME NEW S, IsFiniteSet(S), NEW A \in SUBSET S, NEW B \in SUBSET S, A \cup B = S, A \cap B = {}
    PROVE  Cardinality(A) + Cardinality(B) = Cardinality(S) /\ Cardinality(A) \in Nat /\ Cardinality(B) \in Nat
<1>1. IsFiniteSet(A) /\ IsFiniteSet(B)
    BY FS_Subset
<1>2. Cardinality(A) \in Nat /\ Cardinality(B) \in Nat /\ Cardinality(S) \in Nat
    BY <1>1, FS_CardinalityType
<1>3. S \ A = B /\ S \cap A = A
    OBVIOUS
<1>4. Cardinality(S \ A) = Cardinality(S) - Cardinality(S \cap A)
    BY FS_Difference
<1> QED
    BY <1>2, <1>3, <1>4

\* A device has a serial number in the table when a record of it has one.
LEMMA DriftHasSerial ==
    ASSUME NEW mesh \in Seq(MeshRow), NEW c \in HardwareDrift(mesh)
    PROVE  c \in ClustersIn(mesh) /\ Column(mesh, c, "serial_number") # 0
<1>1. "serial_number" \in TextFields /\ "serial_number" # "name"
    BY DEF TextFields
<1>2. c \in ClustersIn(mesh) /\ Cardinality(Values(mesh, c, "serial_number")) > 1
    BY DEF HardwareDrift
<1>3. Values(mesh, c, "serial_number") # {}
  <2>1. SUFFICES ASSUME Values(mesh, c, "serial_number") = {} PROVE FALSE
      OBVIOUS
  <2>2. Cardinality(Values(mesh, c, "serial_number")) = 0
      BY <2>1, FS_EmptySet
  <2> QED
      BY <1>2, <2>2
<1> QED
    BY <1>1, <1>2, <1>3, DeviceValue DEF Device

\* The dashboard, the statistics and the anomalies count one mesh alike
\* (db.py:441-686).
THEOREM CountersTheorem ==
    ASSUME NEW mesh \in Seq(MeshRow)
    PROVE  CountersAgree(mesh)
<1> DEFINE cs == ClustersIn(mesh)
           single == {c \in cs : SourceCount(mesh, c) = 1}
           several == {c \in cs : SourceCount(mesh, c) > 1}
           with == {c \in cs : Column(mesh, c, "serial_number") # 0}
           without == {c \in cs : Column(mesh, c, "serial_number") = 0}
           unnamed == {c \in cs : DeviceName(mesh, c) = 0}
           d == Dashboard(mesh)
           s == MeshStats(mesh)
           a == Anomalies(mesh)
<1>1. /\ d.singletons = Cardinality(single) /\ d.multi_source = Cardinality(several)
      /\ d.serial = Cardinality(with) /\ d.clusters = Cardinality(cs) /\ d.records = Len(mesh)
      /\ d.name = Cardinality(cs)
    BY DEF Dashboard, Devices
<1>2. /\ s.singletons = Cardinality(single) /\ s.multi_source = Cardinality(cs) - Cardinality(single)
      /\ s.by_source_count = SourceCountDist(mesh) /\ s.records_per_source = RecordsPerSource(mesh)
    BY DEF MeshStats, Devices
<1>3. /\ a.singletons = Cardinality(single) /\ a.no_name = Cardinality(unnamed)
      /\ a.no_serial = Cardinality(without) /\ a.hardware_drift = Cardinality(HardwareDrift(mesh))
    BY DEF Anomalies, Devices
<1>4. IsFiniteSet(cs)
    BY MeshIsFinite DEF TextFields
<1>5. Cardinality(single) + Cardinality(several) = Cardinality(cs) /\ Cardinality(single) \in Nat
      /\ Cardinality(several) \in Nat
  <2>1. single \cup several = cs
      BY ClusterIsHeld
  <2>2. single \cap several = {}
      OBVIOUS
  <2> HIDE DEF cs
  <2> QED
      BY <1>4, <2>1, <2>2, InTwo
<1>6. Cardinality(with) + Cardinality(without) = Cardinality(cs) /\ Cardinality(with) \in Nat
  <2>1. with \cup without = cs /\ with \cap without = {}
      OBVIOUS
  <2> HIDE DEF cs
  <2> QED
      BY <1>4, <2>1, InTwo
<1>7. Cardinality(unnamed) \in Nat /\ Cardinality(cs) \in Nat
    BY <1>4, FS_Subset, FS_CardinalityType
<1>8. Cardinality(HardwareDrift(mesh)) <= Cardinality(with)
  <2>1. IsFiniteSet(with) /\ HardwareDrift(mesh) \in SUBSET with
      BY <1>4, FS_Subset, DriftHasSerial
  <2> QED
      BY <2>1, FS_Subset
<1>9. Total(SourceCountDist(mesh)) = Cardinality(cs)
  <2> DEFINE key == [c \in cs |-> SourceCount(mesh, c)]
             count == SourceCountDist(mesh)
  <2>1. DOMAIN count = {key[c] : c \in cs}
      BY DEF SourceCountDist
  <2>2. \A n \in DOMAIN count : count[n] = Cardinality({c \in cs : key[c] = n})
    <3>1. ASSUME NEW n \in DOMAIN count PROVE count[n] = Cardinality({c \in cs : key[c] = n})
      <4>1. count[n] = Cardinality({c \in cs : SourceCount(mesh, c) = n})
          BY <3>1 DEF SourceCountDist, Devices
      <4>2. {c \in cs : SourceCount(mesh, c) = n} = {c \in cs : key[c] = n}
          OBVIOUS
      <4> QED
          BY <4>1, <4>2, Zenon
    <3> QED
        BY <3>1
  <2>3. DOMAIN key = cs
      OBVIOUS
  <2> HIDE DEF key, count, cs
  <2> QED
      BY <1>4, <2>1, <2>2, <2>3, Classes DEF count
<1>10. Total(RecordsPerSource(mesh)) = Len(mesh)
  <2> DEFINE key == [i \in DOMAIN mesh |-> mesh[i].source]
             count == RecordsPerSource(mesh)
  <2>1. PICK n \in Nat : n = Len(mesh) /\ DOMAIN mesh = 1 .. n
      OBVIOUS
  <2>2. IsFiniteSet(DOMAIN mesh) /\ Cardinality(DOMAIN mesh) = Len(mesh)
      BY <2>1, Interval
  <2>3. DOMAIN count = {key[i] : i \in DOMAIN mesh}
      BY DEF RecordsPerSource
  <2>4. \A x \in DOMAIN count : count[x] = Cardinality({i \in DOMAIN mesh : key[i] = x})
    <3>1. ASSUME NEW x \in DOMAIN count PROVE count[x] = Cardinality({i \in DOMAIN mesh : key[i] = x})
      <4>1. count[x] = Cardinality({i \in DOMAIN mesh : mesh[i].source = x})
          BY <3>1 DEF RecordsPerSource
      <4>2. {i \in DOMAIN mesh : mesh[i].source = x} = {i \in DOMAIN mesh : key[i] = x}
          OBVIOUS
      <4> QED
          BY <4>1, <4>2, Zenon
    <3> QED
        BY <3>1
  <2>5. DOMAIN key = DOMAIN mesh
      OBVIOUS
  <2> HIDE DEF key, count
  <2> QED
      BY <2>2, <2>3, <2>4, <2>5, Classes DEF count
<1> HIDE DEF cs, single, several, with, without, unnamed, d, s, a
<1>11. /\ d.singletons = s.singletons /\ s.singletons = a.singletons
       /\ d.multi_source = s.multi_source
       /\ d.serial + a.no_serial = d.clusters
       /\ d.name - a.no_name <= d.clusters
       /\ Total(s.records_per_source) = d.records
       /\ Total(s.by_source_count) = d.clusters
       /\ a.hardware_drift <= d.serial
  <2>1. d.singletons = s.singletons /\ s.singletons = a.singletons
      BY <1>1, <1>2, <1>3
  <2>2. d.multi_source = s.multi_source
      BY <1>1, <1>2, <1>5, <1>7
  <2>3. d.serial + a.no_serial = d.clusters
      BY <1>1, <1>3, <1>6
  <2>4. d.name - a.no_name <= d.clusters
      BY <1>1, <1>3, <1>7
  <2>5. Total(s.records_per_source) = d.records /\ Total(s.by_source_count) = d.clusters
      BY <1>1, <1>2, <1>9, <1>10
  <2>6. a.hardware_drift <= d.serial
      BY <1>1, <1>3, <1>8
  <2> QED
      BY <2>1, <2>2, <2>3, <2>4, <2>5, <2>6
<1> QED
    BY <1>11 DEF CountersAgree, d, s, a

----------------------------------------------------------------------------
(* api/db.py: the pages of clusters                                        *)

\* The clusters that come before another, whatever the order among equals.
Ahead(mesh, cs, c) ==
    {d \in cs : \/ SourceCount(mesh, d) > SourceCount(mesh, c)
                \/ /\ SourceCount(mesh, d) = SourceCount(mesh, c)
                   /\ DeviceName(mesh, d) < DeviceName(mesh, c)}

Untied(mesh, cs, c) == \A d \in cs \ {c} : Rank(mesh, c) # Rank(mesh, d)

LEMMA RankTypes ==
    ASSUME NEW mesh \in Seq(MeshRow), NEW c \in ClustersIn(mesh)
    PROVE  SourceCount(mesh, c) \in Nat /\ DeviceName(mesh, c) \in Nat
<1>1. "name" \in TextFields
    BY DEF TextFields
<1>2. Device(mesh, c, "name") \in Values(mesh, c, "name") \cup {0} /\ Values(mesh, c, "name") \subseteq Nat
    BY <1>1, DeviceValue, MeshIsFinite
<1>3. DeviceName(mesh, c) \in Nat
    BY <1>2 DEF Device
<1> QED
    BY <1>3, ClusterIsHeld

\* An order of clusters has each of them once, and in order.
LEMMA OrdersAreWhole ==
    ASSUME NEW mesh \in Seq(MeshRow), NEW cs \in SUBSET ClustersIn(mesh), NEW s \in Orders(mesh, cs),
           NEW n, n = Cardinality(cs)
    PROVE  /\ n \in Nat /\ s \in [1 .. n -> cs]
           /\ \A i, j \in 1 .. n : s[i] = s[j] => i = j
           /\ \A c \in cs : \E i \in 1 .. n : s[i] = c
           /\ \A i, j \in 1 .. n : i < j =>
                 \/ SourceCount(mesh, s[i]) > SourceCount(mesh, s[j])
                 \/ /\ SourceCount(mesh, s[i]) = SourceCount(mesh, s[j])
                    /\ DeviceName(mesh, s[i]) <= DeviceName(mesh, s[j])
<1>1. IsFiniteSet(cs) /\ n \in Nat
  <2>1. IsFiniteSet(ClustersIn(mesh))
      BY MeshIsFinite DEF TextFields
  <2>2. IsFiniteSet(cs)
      BY <2>1, FS_Subset
  <2> QED
      BY <2>2, FS_CardinalityType
<1>2. s \in SetToSeqs(cs)
    BY DEF Orders
<1>3. s \in [1 .. n -> cs] /\ \A i, j \in 1 .. n : s[i] = s[j] => i = j
    BY <1>2 DEF SetToSeqs
<1>4. \A i, j \in 1 .. n : i < j =>
          \/ SourceCount(mesh, s[i]) > SourceCount(mesh, s[j])
          \/ /\ SourceCount(mesh, s[i]) = SourceCount(mesh, s[j])
             /\ DeviceName(mesh, s[i]) <= DeviceName(mesh, s[j])
    BY <1>3 DEF Orders, Rank
<1>5. s \in Injection(1 .. n, cs)
    BY <1>3 DEF Injection, IsInjective
<1>6. Cardinality(1 .. n) = Cardinality(cs)
    BY <1>1, Interval
<1>7. s \in Surjection(1 .. n, cs)
    BY <1>1, <1>5, <1>6, FS_Injection
<1>8. \A c \in cs : \E i \in 1 .. n : s[i] = c
    BY <1>7 DEF Surjection
<1> QED
    BY <1>1, <1>3, <1>4, <1>8

\* A cluster that is not tied has one place in every order.
LEMMA OwnPlace ==
    ASSUME NEW mesh \in Seq(MeshRow), NEW cs \in SUBSET ClustersIn(mesh), NEW s \in Orders(mesh, cs),
           NEW i \in 1 .. Cardinality(cs), Untied(mesh, cs, s[i])
    PROVE  i = Cardinality(Ahead(mesh, cs, s[i])) + 1
<1>1. PICK n : n = Cardinality(cs)
    OBVIOUS
<1>2. /\ n \in Nat /\ s \in [1 .. n -> cs]
      /\ \A j, k \in 1 .. n : s[j] = s[k] => j = k
      /\ \A c \in cs : \E j \in 1 .. n : s[j] = c
      /\ \A j, k \in 1 .. n : j < k =>
            \/ SourceCount(mesh, s[j]) > SourceCount(mesh, s[k])
            \/ /\ SourceCount(mesh, s[j]) = SourceCount(mesh, s[k])
               /\ DeviceName(mesh, s[j]) <= DeviceName(mesh, s[k])
    BY <1>1, OrdersAreWhole
<1> DEFINE g == [j \in 1 .. i - 1 |-> s[j]]
           ahead == Ahead(mesh, cs, s[i])
<1>3. i \in 1 .. n /\ i \in Nat /\ s[i] \in cs
    BY <1>1, <1>2
<1>4. \A d \in cs : SourceCount(mesh, d) \in Nat /\ DeviceName(mesh, d) \in Nat
    BY RankTypes
<1>5. ASSUME NEW j \in 1 .. n
      PROVE  s[j] \in ahead <=> j < i
  <2>1. s[j] \in cs
      BY <1>2
  <2>2. CASE j < i
    <3>1. s[j] # s[i]
        BY <1>2, <1>3, <2>2
    <3>2. SourceCount(mesh, s[j]) # SourceCount(mesh, s[i]) \/ DeviceName(mesh, s[j]) # DeviceName(mesh, s[i])
        BY <2>1, <3>1 DEF Untied, Rank
    <3>3. \/ SourceCount(mesh, s[j]) > SourceCount(mesh, s[i])
          \/ /\ SourceCount(mesh, s[j]) = SourceCount(mesh, s[i])
             /\ DeviceName(mesh, s[j]) <= DeviceName(mesh, s[i])
        BY <1>2, <1>3, <2>2
    <3> QED
        BY <1>3, <1>4, <2>1, <2>2, <3>2, <3>3 DEF Ahead
  <2>3. CASE j = i
      BY <1>3, <1>4, <2>3 DEF Ahead
  <2>4. CASE i < j
    <3>1. \/ SourceCount(mesh, s[i]) > SourceCount(mesh, s[j])
          \/ /\ SourceCount(mesh, s[i]) = SourceCount(mesh, s[j])
             /\ DeviceName(mesh, s[i]) <= DeviceName(mesh, s[j])
        BY <1>2, <1>3, <2>4
    <3> QED
        BY <1>3, <1>4, <2>1, <2>4, <3>1 DEF Ahead
  <2> QED
      BY <1>3, <2>2, <2>3, <2>4
<1>6. ahead \subseteq cs
    BY DEF Ahead
<1>7. 1 .. i - 1 \subseteq 1 .. n
    BY <1>2, <1>3
<1> HIDE DEF ahead
<1>8. g \in [1 .. i - 1 -> ahead]
    BY <1>3, <1>5, <1>7
<1>9. \A j, k \in 1 .. i - 1 : g[j] = g[k] => j = k
    BY <1>2, <1>7
<1>10. \A d \in ahead : \E j \in 1 .. i - 1 : g[j] = d
  <2>1. ASSUME NEW d \in ahead PROVE \E j \in 1 .. i - 1 : g[j] = d
    <3>1. PICK j \in 1 .. n : s[j] = d
        BY <1>2, <1>6
    <3>2. j \in 1 .. i - 1
        BY <1>3, <1>5, <3>1
    <3> QED
        BY <3>1, <3>2
  <2> QED
      BY <2>1
<1> HIDE DEF g
<1>11. ExistsBijection(1 .. i - 1, ahead)
  <2>1. g \in Bijection(1 .. i - 1, ahead)
      BY <1>8, <1>9, <1>10, IsOneToOne
  <2> QED
      BY <2>1 DEF ExistsBijection
<1>12. IsFiniteSet(1 .. i - 1) /\ Cardinality(1 .. i - 1) = i - 1
  <2>1. i - 1 \in Nat
      BY <1>3
  <2> QED
      BY <2>1, Interval
<1>13. Cardinality(ahead) = i - 1
    BY <1>11, <1>12, FS_Bijection
<1> QED
    BY <1>3, <1>13 DEF ahead

\* A walk through the pages sees every untied cluster once (db.py:688-712).
THEOREM PagesTheorem ==
    ASSUME NEW mesh \in Seq(MeshRow), NEW minSources, NEW source, NEW limit \in Nat
    PROVE  PagesAgree(mesh, minSources, source, limit)
<1> DEFINE cs == Listed(mesh, minSources, source)
           ties == {c \in cs : \E d \in cs \ {c} : Rank(mesh, c) = Rank(mesh, d)}
<1>1. cs \in SUBSET ClustersIn(mesh)
  <2>1. ASSUME NEW c \in cs PROVE c \in ClustersIn(mesh)
      BY Zenon DEF Listed
  <2> HIDE DEF cs
  <2> QED
      BY <2>1
<1>2. PICK n : n = Cardinality(cs)
    OBVIOUS
<1> HIDE DEF cs
<1>3. ASSUME NEW s \in Orders(mesh, cs)
      PROVE  /\ n \in Nat /\ s \in [1 .. n -> cs] /\ Len(s) = n
             /\ \A c \in cs : \E i \in 1 .. n : s[i] = c
  <2>1. /\ n \in Nat /\ s \in [1 .. n -> cs]
        /\ \A c \in cs : \E i \in 1 .. n : s[i] = c
      BY <1>1, <1>2, OrdersAreWhole
  <2>2. Len(s) = n
      BY <2>1
  <2> QED
      BY <2>1, <2>2
<1>4. ASSUME NEW s \in Orders(mesh, cs), NEW t \in Orders(mesh, cs),
             NEW i \in 1 .. n, NEW j \in 1 .. n, s[i] = t[j], s[i] \notin ties
      PROVE  i = j
  <2>1. s[i] \in cs
      BY <1>3
  <2>2. Untied(mesh, cs, s[i])
      BY <1>4, <2>1 DEF Untied
  <2>3. i = Cardinality(Ahead(mesh, cs, s[i])) + 1
      BY <1>1, <1>2, <2>2, OwnPlace
  <2>4. j = Cardinality(Ahead(mesh, cs, t[j])) + 1
      BY <1>1, <1>2, <1>4, <2>2, OwnPlace
  <2> QED
      BY <1>4, <2>3, <2>4
<1>5. ASSUME NEW first \in Page(mesh, cs, limit, 0), NEW rest \in Page(mesh, cs, n, limit)
      PROVE  /\ Len(first) + Len(rest) = n
             /\ Range(first) \cap Range(rest) \subseteq ties
             /\ cs \ (Range(first) \cup Range(rest)) \subseteq ties
  <2>14. PICK s \in Orders(mesh, cs) : first = SubSeq(s, 0 + 1, Min({0 + limit, Len(s)}))
      BY DEF Page
  <2>15. PICK t \in Orders(mesh, cs) : rest = SubSeq(t, limit + 1, Min({limit + n, Len(t)}))
      BY DEF Page
  <2>1. /\ n \in Nat /\ s \in [1 .. n -> cs] /\ Len(s) = n
        /\ \A c \in cs : \E i \in 1 .. n : s[i] = c
      BY <1>3
  <2>2. /\ t \in [1 .. n -> cs] /\ Len(t) = n
        /\ \A c \in cs : \E i \in 1 .. n : t[i] = c
      BY <1>3
  <2>3. PICK m \in Nat : m = Min({0 + limit, Len(s)}) /\ m = (IF limit <= n THEN limit ELSE n)
    <3>1. {0 + limit, Len(s)} \in SUBSET Nat /\ {0 + limit, Len(s)} # {}
        BY <2>1
    <3>2. /\ Min({0 + limit, Len(s)}) \in {0 + limit, Len(s)}
          /\ \A k \in {0 + limit, Len(s)} : Min({0 + limit, Len(s)}) <= k
        BY <3>1, NatMin
    <3> QED
        BY <2>1, <3>2
  <2>4. Min({limit + n, Len(t)}) = n
    <3>1. {limit + n, Len(t)} \in SUBSET Nat /\ {limit + n, Len(t)} # {}
        BY <2>1, <2>2
    <3>2. /\ Min({limit + n, Len(t)}) \in {limit + n, Len(t)}
          /\ \A k \in {limit + n, Len(t)} : Min({limit + n, Len(t)}) <= k
        BY <3>1, NatMin
    <3> QED
        BY <2>1, <2>2, <3>2
  <2>5. first = SubSeq(s, 1, m) /\ rest = SubSeq(t, limit + 1, n)
    <3>1. 0 + 1 = 1
        OBVIOUS
    <3>2. Min({0 + limit, Len(s)}) = m
        BY <2>3
    <3>3. first = SubSeq(s, 0 + 1, m)
        BY <2>14, <3>2, Zenon
    <3>4. rest = SubSeq(t, limit + 1, n)
        BY <2>15, <2>4, Zenon
    <3> QED
        BY <3>1, <3>3, <3>4, Zenon
  <2>6. /\ first \in Seq(cs) /\ Len(first) = m /\ \A i \in 1 .. m : first[i] = s[i]
    <3>1. \A i \in 1 .. m : s[i] \in cs
        BY <2>1, <2>3
    <3>2. /\ SubSeq(s, 1, m) \in Seq(cs)
          /\ Len(SubSeq(s, 1, m)) = IF 1 <= m THEN m - 1 + 1 ELSE 0
          /\ \A i \in 1 .. m - 1 + 1 : SubSeq(s, 1, m)[i] = s[1 + i - 1]
        BY <3>1, SubSeqProperties
    <3>3. /\ first \in Seq(cs)
          /\ Len(first) = IF 1 <= m THEN m - 1 + 1 ELSE 0
          /\ \A i \in 1 .. m - 1 + 1 : first[i] = s[1 + i - 1]
        BY <2>5, <3>2, Zenon
    <3>4. m - 1 + 1 = m /\ (1 <= m \/ m = 0) /\ \A i \in 1 .. m : 1 + i - 1 = i
        BY <2>3
    <3> QED
        BY <3>3, <3>4
  <2>7. /\ rest \in Seq(cs) /\ Len(rest) = n - m
        /\ \A i \in 1 .. n - m : rest[i] = t[m + i]
    <3>1. \A i \in limit + 1 .. n : t[i] \in cs
        BY <2>1, <2>2
    <3>2. /\ SubSeq(t, limit + 1, n) \in Seq(cs)
          /\ Len(SubSeq(t, limit + 1, n)) = IF limit + 1 <= n THEN n - (limit + 1) + 1 ELSE 0
          /\ \A i \in 1 .. n - (limit + 1) + 1 : SubSeq(t, limit + 1, n)[i] = t[limit + 1 + i - 1]
        BY <2>1, <3>1, SubSeqProperties
    <3>3. /\ rest \in Seq(cs)
          /\ Len(rest) = IF limit + 1 <= n THEN n - (limit + 1) + 1 ELSE 0
          /\ \A i \in 1 .. n - (limit + 1) + 1 : rest[i] = t[limit + 1 + i - 1]
        BY <2>5, <3>2, Zenon
    <3>4. CASE limit <= n
      <4>1. m = limit /\ n - (limit + 1) + 1 = n - m
          BY <2>1, <2>3, <3>4
      <4>2. \A i \in 1 .. n - m : limit + 1 + i - 1 = m + i
          BY <2>1, <4>1
      <4> QED
          BY <2>1, <3>3, <3>4, <4>1, <4>2
    <3>5. CASE ~(limit <= n)
      <4>1. m = n /\ n - m = 0 /\ ~(limit + 1 <= n)
          BY <2>1, <2>3, <3>5
      <4> QED
          BY <3>3, <4>1
    <3> QED
        BY <3>4, <3>5
  <2>8. \A c : c \in Range(first) <=> \E i \in 1 .. m : c = s[i]
      BY <2>6 DEF Range
  <2>9. \A c : c \in Range(rest) <=> \E i \in 1 .. n - m : c = t[m + i]
    <3>1. DOMAIN rest = 1 .. n - m
        BY <2>7
    <3> QED
        BY <2>7, <3>1, Zenon DEF Range
  <2>10. m <= n /\ m \in Nat /\ n \in Nat
      BY <2>1, <2>3
  <2>11. Len(first) + Len(rest) = n
      BY <2>6, <2>7, <2>10
  <2>12. ASSUME NEW c \in Range(first) \cap Range(rest) PROVE c \in ties
    <3>1. PICK i \in 1 .. m : c = s[i]
        BY <2>8, <2>12
    <3>2. PICK k \in 1 .. n - m : c = t[m + k]
        BY <2>9, <2>12
    <3>3. i \in 1 .. n /\ m + k \in 1 .. n /\ i # m + k
        BY <2>10
    <3> QED
        BY <1>4, <3>1, <3>2, <3>3
  <2>13. ASSUME NEW c \in cs, c \notin Range(first), c \notin Range(rest) PROVE c \in ties
    <3>1. PICK i \in 1 .. n : c = s[i]
        BY <2>1
    <3>2. PICK j \in 1 .. n : c = t[j]
        BY <2>2
    <3>3. i \notin 1 .. m
        BY <2>8, <2>13, <3>1
    <3>4. \A k \in 1 .. n - m : j # m + k
        BY <2>9, <2>13, <3>2
    <3>5. j - m \notin 1 .. n - m
        BY <2>10, <3>4
    <3>6. i # j
        BY <2>10, <3>3, <3>5
    <3>7. s[i] = t[j]
        BY <3>1, <3>2
    <3>8. s[i] \in ties
        BY <1>4, <3>6, <3>7
    <3> QED
        BY <3>1, <3>8
  <2> QED
      BY <2>11, <2>12, <2>13
<1> HIDE DEF ties
<1>6. \A first \in Page(mesh, cs, limit, 0) : \A rest \in Page(mesh, cs, Cardinality(cs), limit) :
          /\ Len(first) + Len(rest) = Cardinality(cs)
          /\ Range(first) \cap Range(rest) \subseteq ties
          /\ cs \ (Range(first) \cup Range(rest)) \subseteq ties
    BY <1>2, <1>5
<1> QED
    BY <1>6, Zenon DEF PagesAgree, cs, ties

----------------------------------------------------------------------------
(* api/db.py: the trace                                                    *)

\* A sequence of a finite set has each element once.
LEMMA EachOnce ==
    ASSUME NEW S, IsFiniteSet(S)
    PROVE  SetToSeq(S) \in Seq(S) /\ IsInjective(SetToSeq(S)) /\ Range(SetToSeq(S)) = S
<1>1. PICK n : n = Cardinality(S)
    OBVIOUS
<1>2. n \in Nat /\ ExistsBijection(1 .. n, S)
    BY <1>1, FS_CardinalityType
<1>3. \E f \in [1 .. n -> S] : IsInjective(f)
    BY <1>2 DEF ExistsBijection, Bijection, Injection
<1>4. SetToSeq(S) \in [1 .. n -> S] /\ IsInjective(SetToSeq(S))
    BY <1>1, <1>3, Zenon DEF SetToSeq
<1>5. PICK s : s = SetToSeq(S)
    OBVIOUS
<1>6. s \in Injection(1 .. n, S)
    BY <1>4, <1>5 DEF Injection
<1>7. Cardinality(1 .. n) = Cardinality(S)
    BY <1>1, <1>2, Interval
<1>8. s \in Surjection(1 .. n, S)
    BY <1>6, <1>7, FS_Injection
<1>9. Range(s) = S
    BY <1>8 DEF Surjection, Range
<1>10. s \in Seq(S)
    BY <1>2, <1>4, <1>5
<1> QED
    BY <1>4, <1>5, <1>9, <1>10

LEMMA WiderSeq ==
    ASSUME NEW S, NEW T, S \subseteq T, NEW s \in Seq(S)
    PROVE  s \in Seq(T)
<1>1. PICK n \in Nat : s \in [1 .. n -> S]
    BY LenProperties
<1>2. s \in [1 .. n -> T]
    BY <1>1
<1> QED
    BY <1>2

LEMMA BothOnce ==
    ASSUME NEW S, NEW s \in Seq(S), NEW t \in Seq(S), IsInjective(s), IsInjective(t),
           Range(s) \cap Range(t) = {}
    PROVE  s \o t \in Seq(S) /\ IsInjective(s \o t) /\ Range(s \o t) = Range(s) \cup Range(t)
<1>1. PICK m \in Nat, n \in Nat : m = Len(s) /\ n = Len(t) /\ DOMAIN s = 1 .. m /\ DOMAIN t = 1 .. n
    OBVIOUS
<1>2. PICK u : u = s \o t
    OBVIOUS
<1>3. /\ u \in Seq(S) /\ DOMAIN u = 1 .. m + n
      /\ \A i \in 1 .. m : u[i] = s[i]
      /\ \A i \in 1 .. n : u[m + i] = t[i]
  <2>1. /\ u \in Seq(S) /\ Len(u) = m + n
        /\ \A i \in 1 .. m + n : u[i] = IF i <= m THEN s[i] ELSE t[i - m]
      BY <1>1, <1>2, ConcatProperties
  <2>2. DOMAIN u = 1 .. m + n
      BY <2>1
  <2>3. \A i \in 1 .. m : i \in 1 .. m + n /\ i <= m
      BY <1>1
  <2>4. \A i \in 1 .. n : m + i \in 1 .. m + n /\ ~(m + i <= m) /\ m + i - m = i
      BY <1>1
  <2>5. ASSUME NEW i \in 1 .. n PROVE u[m + i] = t[i]
      BY <2>1, <2>4
  <2> QED
      BY <2>1, <2>2, <2>3, <2>5
<1>4. ASSUME NEW i \in 1 .. m + n
      PROVE  i \in 1 .. m \/ \E k \in 1 .. n : i = m + k
  <2>1. CASE i <= m
      BY <1>1, <2>1
  <2>2. CASE ~(i <= m)
    <3>1. i - m \in 1 .. n /\ i = m + (i - m)
        BY <1>1, <2>2
    <3> QED
        BY <3>1
  <2> QED
      BY <2>1, <2>2
<1>5. /\ \A i \in 1 .. m : s[i] \in Range(s)
      /\ \A i \in 1 .. n : t[i] \in Range(t)
    BY <1>1 DEF Range
<1>6. \A i, j \in 1 .. m + n : u[i] = u[j] => i = j
  <2>1. SUFFICES ASSUME NEW i \in 1 .. m + n, NEW j \in 1 .. m + n, u[i] = u[j] PROVE i = j
      OBVIOUS
  <2>2. CASE i \in 1 .. m /\ j \in 1 .. m
      BY <1>1, <1>3, <2>1, <2>2 DEF IsInjective
  <2>3. CASE i \in 1 .. m /\ j \notin 1 .. m
    <3>1. PICK k \in 1 .. n : j = m + k
        BY <1>4, <2>3
    <3> QED
        BY <1>3, <1>5, <2>1, <2>3, <3>1
  <2>4. CASE i \notin 1 .. m /\ j \in 1 .. m
    <3>1. PICK k \in 1 .. n : i = m + k
        BY <1>4, <2>4
    <3> QED
        BY <1>3, <1>5, <2>1, <2>4, <3>1
  <2>5. CASE i \notin 1 .. m /\ j \notin 1 .. m
    <3>1. PICK k \in 1 .. n : i = m + k
        BY <1>4, <2>5
    <3>2. PICK l \in 1 .. n : j = m + l
        BY <1>4, <2>5
    <3>3. k = l
      <4>1. t[k] = t[l]
          BY <1>3, <2>1, <3>1, <3>2
      <4>2. k \in DOMAIN t /\ l \in DOMAIN t
          BY <1>1
      <4> QED
          BY <4>1, <4>2 DEF IsInjective
    <3> QED
        BY <3>1, <3>2, <3>3
  <2> QED
      BY <2>2, <2>3, <2>4, <2>5
<1>7. ASSUME NEW x PROVE x \in Range(u) <=> x \in Range(s) \/ x \in Range(t)
  <2>1. x \in Range(u) <=> \E i \in 1 .. m + n : x = u[i]
      BY <1>3 DEF Range
  <2>2. x \in Range(s) <=> \E i \in 1 .. m : x = s[i]
      BY <1>1 DEF Range
  <2>3. x \in Range(t) <=> \E i \in 1 .. n : x = t[i]
      BY <1>1 DEF Range
  <2>4. \A i \in 1 .. m : i \in 1 .. m + n
      BY <1>1
  <2>5. \A i \in 1 .. n : m + i \in 1 .. m + n
      BY <1>1
  <2> QED
      BY <1>3, <1>4, <2>1, <2>2, <2>3, <2>4, <2>5
<1>8. u \in Seq(S) /\ IsInjective(u) /\ Range(u) = Range(s) \cup Range(t)
    BY <1>3, <1>6, <1>7 DEF IsInjective
<1> QED
    BY <1>2, <1>8

\* What a device is linked to, by its user and by attachments.
Linked(mesh, later, attached, c) ==
    LinkedByUser(mesh, later, c) \cup {a.cluster : a \in LinkedByAttachment(later, attached, c)}

LEMMA TraceParts ==
    ASSUME NEW mesh, NEW later \in Seq(MeshRow), NEW attached, NEW vlans, NEW c \in ClustersIn(mesh), c \in Nat,
           NEW trace, trace = DeviceTrace(mesh, later, attached, vlans, c)
    PROVE  /\ trace # <<>>
           /\ IsInjective(trace[1].devices)
           /\ Range(trace[1].devices) = {c} \cup Linked(mesh, later, attached, c)
           /\ trace[1].edges = {<<"device", d>> : d \in Linked(mesh, later, attached, c)} \cup trace[1].others
<1> DEFINE byUser == LinkedByUser(mesh, later, c)
           attachedTo == {a.cluster : a \in LinkedByAttachment(later, attached, c)}
           more == attachedTo \ ({c} \cup byUser)
           user == Column(mesh, c, "assigned_user")
           vlanIds == {<<"vlan", v.name>> : v \in DeviceVlans(later, c, vlans)}
           users == IF user = 0 THEN {} ELSE {<<"user", user>>}
           devices == <<c>> \o SetToSeq(byUser) \o SetToSeq(more)
           edges == {<<"device", d>> : d \in byUser \cup attachedTo} \cup users \cup vlanIds
<1>1. trace = << [devices |-> devices, others |-> users \cup vlanIds, edges |-> edges] >>
    BY Zenon DEF DeviceTrace
<1>2. byUser \subseteq ClustersIn(later) /\ c \notin byUser
    BY DEF LinkedByUser
<1>3. attachedTo \subseteq ClustersIn(later) /\ c \notin attachedTo
    BY DEF LinkedByAttachment
<1>4. edges = {<<"device", d>> : d \in byUser \cup attachedTo} \cup (users \cup vlanIds)
    BY Zenon
<1>5. Linked(mesh, later, attached, c) = byUser \cup attachedTo
    BY Zenon DEF Linked
<1> HIDE DEF byUser, attachedTo, vlanIds, users
<1>6. IsFiniteSet(ClustersIn(later)) /\ ClustersIn(later) \subseteq Nat
    BY MeshIsFinite, ClustersAreNumbers DEF TextFields
<1>7. IsFiniteSet(byUser) /\ IsFiniteSet(more)
    BY <1>2, <1>3, <1>6, FS_Subset
<1> HIDE DEF more
<1>8. PICK s, t : s = SetToSeq(byUser) /\ t = SetToSeq(more)
    OBVIOUS
<1>9. /\ s \in Seq(byUser) /\ IsInjective(s) /\ Range(s) = byUser
      /\ t \in Seq(more) /\ IsInjective(t) /\ Range(t) = more
    BY <1>7, <1>8, EachOnce
<1>10. byUser \subseteq Nat /\ more \subseteq Nat
    BY <1>2, <1>3, <1>6 DEF more
<1>11. s \in Seq(Nat) /\ t \in Seq(Nat) /\ <<c>> \in Seq(Nat)
  <2>1. s \in Seq(Nat)
      BY <1>9, <1>10, WiderSeq
  <2>2. t \in Seq(Nat)
      BY <1>9, <1>10, WiderSeq
  <2> QED
      BY <2>1, <2>2
<1>12. IsInjective(<<c>>) /\ Range(<<c>>) = {c}
    BY DEF IsInjective, Range
<1>13. <<c>> \o s \in Seq(Nat) /\ IsInjective(<<c>> \o s) /\ Range(<<c>> \o s) = {c} \cup byUser
  <2>1. Range(<<c>>) \cap Range(s) = {}
      BY <1>2, <1>9, <1>12
  <2>2. PICK o : o = <<c>>
      OBVIOUS
  <2>3. o \in Seq(Nat) /\ IsInjective(o) /\ Range(o) = {c} /\ Range(o) \cap Range(s) = {}
      BY <1>11, <1>12, <2>1, <2>2
  <2>4. o \o s \in Seq(Nat) /\ IsInjective(o \o s) /\ Range(o \o s) = Range(o) \cup Range(s)
      BY <1>9, <1>11, <2>3, BothOnce
  <2> QED
      BY <1>9, <2>2, <2>3, <2>4
<1>14. IsInjective((<<c>> \o s) \o t) /\ Range((<<c>> \o s) \o t) = {c} \cup byUser \cup more
  <2>1. PICK o : o = <<c>> \o s
      OBVIOUS
  <2>2. o \in Seq(Nat) /\ IsInjective(o) /\ Range(o) = {c} \cup byUser
      BY <1>13, <2>1
  <2>3. Range(o) \cap Range(t) = {}
      BY <1>9, <2>2 DEF more
  <2>4. IsInjective(o \o t) /\ Range(o \o t) = Range(o) \cup Range(t)
      BY <1>9, <1>11, <2>2, <2>3, BothOnce
  <2> QED
      BY <1>9, <2>1, <2>2, <2>4
<1>15. IsInjective(devices) /\ Range(devices) = {c} \cup byUser \cup more
    BY <1>8, <1>14, Zenon
<1>16. {c} \cup byUser \cup more = {c} \cup (byUser \cup attachedTo)
    BY DEF more
<1> HIDE DEF devices, edges
<1>17. trace # <<>> /\ trace[1].devices = devices /\ trace[1].edges = edges
       /\ trace[1].others = users \cup vlanIds
    BY <1>1
<1> QED
    BY <1>4, <1>5, <1>15, <1>16, <1>17

\* Links go both ways, and never from a device to itself.
LEMMA LinksGoBothWays ==
    ASSUME NEW mesh, NEW attached, NEW c \in ClustersIn(mesh), NEW d \in Linked(mesh, mesh, attached, c)
    PROVE  d \in ClustersIn(mesh) /\ d # c /\ c \in Linked(mesh, mesh, attached, d)
<1>1. CASE d \in LinkedByUser(mesh, mesh, c)
    BY <1>1 DEF LinkedByUser, Linked
<1>2. CASE d \in {a.cluster : a \in LinkedByAttachment(mesh, attached, c)}
  <2>1. PICK a \in attached : /\ a.cluster = d /\ d \in ClustersIn(mesh) /\ d # c
                              /\ a.value \in {b.value : b \in {b \in attached : b.cluster = c}} \ {0}
      BY <1>2 DEF LinkedByAttachment
  <2>2. PICK b \in attached : b.cluster = c /\ b.value = a.value /\ b.value # 0
      BY <2>1
  <2>3. b \in LinkedByAttachment(mesh, attached, d)
      BY <2>1, <2>2 DEF LinkedByAttachment
  <2> QED
      BY <2>1, <2>2, <2>3 DEF Linked
<1> QED
    BY <1>1, <1>2 DEF Linked

\* The graph of a trace is one, and links go both ways (db.py:971-1168).
THEOREM TraceTheorem ==
    ASSUME NEW mesh \in Seq(MeshRow), NEW later \in Seq(MeshRow), NEW attached, NEW vlans, NEW c
    PROVE  TraceAgrees(mesh, later, attached, vlans, c)
<1> DEFINE trace == DeviceTrace(mesh, later, attached, vlans, c)
           linked == Linked(mesh, later, attached, c)
<1>1. CASE c \notin ClustersIn(mesh)
    BY <1>1, Zenon DEF DeviceTrace, TraceAgrees
<1>2. CASE c \in ClustersIn(mesh)
  <2>1. /\ trace # <<>>
        /\ IsInjective(trace[1].devices)
        /\ Range(trace[1].devices) = {c} \cup linked
        /\ trace[1].edges = {<<"device", d>> : d \in linked} \cup trace[1].others
    <3>1. c \in Nat
        BY <1>2, ClusterIsHeld
    <3>2. PICK t : t = trace
        OBVIOUS
    <3>3. /\ t # <<>>
          /\ IsInjective(t[1].devices)
          /\ Range(t[1].devices) = {c} \cup linked
          /\ t[1].edges = {<<"device", d>> : d \in linked} \cup t[1].others
      <4>1. t # <<>>
          BY <1>2, <3>1, <3>2, TraceParts
      <4>2. IsInjective(t[1].devices)
          BY <1>2, <3>1, <3>2, TraceParts
      <4>3. Range(t[1].devices) = {c} \cup linked
          BY <1>2, <3>1, <3>2, TraceParts
      <4>4. t[1].edges = {<<"device", d>> : d \in linked} \cup t[1].others
          BY <1>2, <3>1, <3>2, TraceParts
      <4> QED
          BY <4>1, <4>2, <4>3, <4>4
    <3> HIDE DEF trace, linked
    <3> QED
        BY <3>2, <3>3
  <2>2. c \notin linked
      BY DEF Linked, LinkedByUser, LinkedByAttachment
  <2>3. ASSUME mesh = later, NEW d \in {c} \cup linked
        PROVE  c \in Range(DeviceTrace(mesh, mesh, attached, vlans, d)[1].devices)
    <3>1. d \in ClustersIn(mesh) /\ c \in {d} \cup Linked(mesh, mesh, attached, d)
        BY <1>2, <2>3, LinksGoBothWays
    <3>2. d \in Nat
        BY <3>1, ClusterIsHeld
    <3>3. PICK t : t = DeviceTrace(mesh, mesh, attached, vlans, d)
        OBVIOUS
    <3>4. Range(t[1].devices) = {d} \cup Linked(mesh, mesh, attached, d)
        BY <3>1, <3>2, <3>3, TraceParts
    <3> QED
        BY <3>1, <3>3, <3>4
  <2> HIDE DEF trace, linked
  <2>4. linked = Range(trace[1].devices) \ {c}
      BY <2>1, <2>2
  <2>5. /\ IsInjective(trace[1].devices)
        /\ trace[1].edges = {<<"device", d>> : d \in Range(trace[1].devices) \ {c}} \cup trace[1].others
        /\ mesh = later => \A d \in Range(trace[1].devices) :
              c \in Range(DeviceTrace(mesh, mesh, attached, vlans, d)[1].devices)
      BY <2>1, <2>3, <2>4
  <2> QED
      BY <1>2, <2>1, <2>5, Zenon DEF TraceAgrees, trace
<1> QED
    BY <1>1, <1>2

----------------------------------------------------------------------------
(* api/db.py: the history and the metrics                                  *)

\* A feed whose key is not its source shares it with no other.
LEMMA KeysAndSources ==
    ASSUME NEW key \in DOMAIN FeedSource
    PROVE  FeedSource[key] = key \/ key \notin Range(SourceOrder)
<1>1. key \in {"sp_devices", "me_ec", "me_mdm", "fg_clients", "fg_dhcp", "zbx_hosts", "ad_computers", "sdp_assets"}
    BY DEF FeedSource
<1>2. Range(SourceOrder) = {"ad", "fg", "fg_dhcp", "me_ec", "me_mdm", "sdp", "sp", "zbx"}
    BY SourceNames
<1>3. CASE key \in {"me_ec", "me_mdm", "fg_dhcp"}
    BY <1>3 DEF FeedSource
<1>4. CASE key \notin {"me_ec", "me_mdm", "fg_dhcp"}
    BY <1>1, <1>2, <1>4
<1> QED
    BY <1>3, <1>4

\* The history of a device has the changes of the feeds whose key is their
\* source, and of no others (ingest/runner.py:218).
THEOREM HistoryTheorem ==
    ASSUME NEW mesh \in Seq(MeshRow), NEW changes \in SUBSET ((DOMAIN FeedSource) \X Nat)
    PROVE  HistoryAgrees(mesh, changes)
<1> DEFINE owners(key, id) ==
               {mesh[i].cluster : i \in {i \in DOMAIN mesh :
                   mesh[i].source = FeedSource[key] /\ mesh[i].source_id = id}}
           shown(h) == {c \in ClustersIn(mesh) : h \in DeviceHistory(mesh, changes, c)}
<1>1. ASSUME NEW h \in changes
      PROVE  /\ shown(h) \subseteq owners(h[1], h[2])
             /\ FeedSource[h[1]] = h[1] => owners(h[1], h[2]) \subseteq shown(h)
  <2>1. h[1] \in DOMAIN FeedSource
      OBVIOUS
  <2>2. \A c : c \in shown(h) <=> \E i \in DOMAIN mesh :
                 mesh[i].cluster = c /\ mesh[i].source = h[1] /\ mesh[i].source_id = h[2]
      BY DEF DeviceHistory, Records, ClustersIn
  <2> HIDE DEF shown
  <2>3. CASE FeedSource[h[1]] = h[1]
    <3>1. \A c : c \in owners(h[1], h[2]) <=> \E i \in DOMAIN mesh :
                 mesh[i].cluster = c /\ mesh[i].source = h[1] /\ mesh[i].source_id = h[2]
        BY <2>3
    <3> HIDE DEF owners
    <3> QED
        BY <2>2, <3>1
  <2>4. CASE FeedSource[h[1]] # h[1]
    <3>1. \A i \in DOMAIN mesh : mesh[i].source # h[1]
        BY <2>1, <2>4, KeysAndSources, RowTypes
    <3>2. shown(h) = {}
        BY <2>2, <3>1
    <3> QED
        BY <2>4, <3>2
  <2> QED
      BY <2>3, <2>4
<1> QED
    BY <1>1, Zenon DEF HistoryAgrees

\* Items of one host are loaded into a cluster with a zbx record of its.
LEMMA MetricsOfHosts ==
    ASSUME NEW mesh \in Seq(MeshRow), NEW hosts, NEW items, IsFiniteSet(items),
           items \in SUBSET [host : Nat, metric : STRING, at : Nat, value : Nat],
           NEW metrics \in LoadMetrics(mesh, hosts, items)
    PROVE  /\ IsFiniteSet(metrics)
           /\ \A m \in metrics : m.at \in Nat /\ "zbx" \in SourcesOf(mesh, m.cluster)
<1> DEFINE loaded == {t \in items : t.at # 0 /\ ClustersOfHost(mesh, hosts, t.host) # {}}
<1>1. PICK f \in [loaded -> ClustersIn(mesh)] :
          /\ \A t \in loaded : f[t] \in ClustersOfHost(mesh, hosts, t.host)
          /\ metrics = {[cluster |-> f[t], metric |-> t.metric, at |-> t.at, value |-> t.value] : t \in loaded}
    BY DEF LoadMetrics
<1>2. loaded \subseteq items
    OBVIOUS
<1> HIDE DEF loaded
<1> DEFINE g == [t \in loaded |-> [cluster |-> f[t], metric |-> t.metric, at |-> t.at, value |-> t.value]]
<1>3. IsFiniteSet(loaded)
    BY <1>2, FS_Subset
<1>4. IsFiniteSet({g[t] : t \in loaded})
  <2>1. DOMAIN g = loaded
      OBVIOUS
  <2> HIDE DEF g
  <2> QED
      BY <1>3, <2>1, FiniteImage
<1>5. metrics = {g[t] : t \in loaded}
    BY <1>1
<1>6. ASSUME NEW m \in metrics PROVE m.at \in Nat /\ "zbx" \in SourcesOf(mesh, m.cluster)
  <2>1. PICK t \in loaded : m = [cluster |-> f[t], metric |-> t.metric, at |-> t.at, value |-> t.value]
      BY <1>1
  <2>2. m.at = t.at /\ m.cluster = f[t]
      BY <2>1
  <2>3. f[t] \in ClustersOfHost(mesh, hosts, t.host)
      BY <1>1
  <2>4. \E i \in DOMAIN mesh : mesh[i].source = "zbx" /\ mesh[i].cluster = f[t]
      BY <2>3 DEF ClustersOfHost
  <2> QED
      BY <1>2, <2>2, <2>4 DEF SourcesOf, Records
<1> QED
    BY <1>4, <1>5, <1>6

\* A window that has any of the numbers has the newest of them all.
LEMMA NewestInWindow ==
    ASSUME NEW A, \A m \in A : m.at \in Nat, NEW now \in Nat, NEW hours \in Nat,
           {m \in A : m.at + hours >= now} # {}
    PROVE  Newest({m \in A : m.at + hours >= now}) = Newest(A)
<1> DEFINE B == {m \in A : m.at + hours >= now}
<1>1. ASSUME NEW m \in Newest(B) PROVE m \in Newest(A)
  <2>1. m \in A /\ m.at + hours >= now /\ \A n \in B : n.at <= m.at
      BY DEF Newest
  <2>2. ASSUME NEW n \in A PROVE n.at <= m.at
    <3>1. CASE n \in B
        BY <2>1, <3>1
    <3>2. CASE n \notin B
        BY <2>1, <3>2
    <3> QED
        BY <3>1, <3>2
  <2> QED
      BY <2>1, <2>2 DEF Newest
<1>2. ASSUME NEW m \in Newest(A) PROVE m \in Newest(B)
  <2>1. m \in A /\ \A n \in A : n.at <= m.at
      BY DEF Newest
  <2>2. PICK b \in B : b \in A /\ b.at + hours >= now
      OBVIOUS
  <2>3. m \in B
      BY <2>1, <2>2
  <2> QED
      BY <2>1, <2>3 DEF Newest
<1> QED
    BY <1>1, <1>2

\* The views of the metrics agree (db.py:714-799, 929-969;
\* cli/pipeline.py:292-402).
THEOREM MetricsTheorem ==
    ASSUME NEW mesh \in Seq(MeshRow), NEW hosts, NEW now \in Nat, NEW hours \in Nat,
           NEW items \in SUBSET [host : Nat, metric : STRING, at : Nat, value : Nat], IsFiniteSet(items)
    PROVE  MetricsAgree(mesh, hosts, items, now, hours)
<1>1. ASSUME NEW metrics \in LoadMetrics(mesh, hosts, items), NEW c \in ClustersIn(mesh),
             NEW summary, summary = MetricSummary(metrics, c, now, hours)
      PROVE  /\ DeviceMetrics(metrics, c, now, 0) # {} => "zbx" \in SourcesOf(mesh, c)
             /\ \A name \in DOMAIN summary :
                   /\ summary[name].latest = DeviceStats(metrics, c)[name]
                   /\ summary[name].count <=
                         Cardinality({m \in DeviceMetrics(metrics, c, now, hours) : m.metric = name})
  <2>1. IsFiniteSet(metrics) /\ \A m \in metrics : m.at \in Nat /\ "zbx" \in SourcesOf(mesh, m.cluster)
      BY MetricsOfHosts
  <2>2. DeviceMetrics(metrics, c, now, 0) # {} => "zbx" \in SourcesOf(mesh, c)
      BY <2>1 DEF DeviceMetrics
  <2>3. ASSUME NEW name \in DOMAIN summary
        PROVE  /\ summary[name].latest = DeviceStats(metrics, c)[name]
               /\ summary[name].count <=
                     Cardinality({m \in DeviceMetrics(metrics, c, now, hours) : m.metric = name})
    <3> DEFINE numbers == {m \in metrics : m.cluster = c /\ m.value # NoNumber}
               recent == {m \in metrics : m.cluster = c /\ m.value # NoNumber /\ m.at + hours >= now}
               A == {m \in numbers : m.metric = name}
               B == {m \in recent : m.metric = name}
               listed == {m \in DeviceMetrics(metrics, c, now, hours) : m.metric = name}
    <3>1. name \in {m.metric : m \in recent} /\ summary[name] = [count |-> Cardinality(B), latest |-> Newest(B)]
        BY <1>1 DEF MetricSummary
    <3>2. name \in {m.metric : m \in numbers}
        BY <3>1
    <3>3. DeviceStats(metrics, c)[name] = Newest(A)
        BY <3>2 DEF DeviceStats
    <3>4. B # {}
        BY <3>1
    <3>5. B = {m \in A : m.at + hours >= now} /\ \A m \in A : m.at \in Nat
        BY <2>1
    <3>6. B \subseteq listed /\ listed \subseteq metrics
        BY DEF DeviceMetrics
    <3> HIDE DEF A, B, listed
    <3>7. Newest(B) = Newest(A)
      <4>1. PICK X, Y : X = A /\ Y = B
          OBVIOUS
      <4>2. Y = {m \in X : m.at + hours >= now} /\ (\A m \in X : m.at \in Nat) /\ Y # {}
          BY <3>4, <3>5, <4>1
      <4>3. Newest({m \in X : m.at + hours >= now}) = Newest(X)
        <5>1. {m \in X : m.at + hours >= now} # {}
            BY <4>2
        <5> QED
            BY <4>2, <5>1, NewestInWindow
      <4> QED
          BY <4>1, <4>2, <4>3
    <3>8. IsFiniteSet(listed)
        BY <2>1, <3>6, FS_Subset
    <3>9. Cardinality(B) <= Cardinality(listed)
        BY <3>6, <3>8, FS_Subset
    <3>10. summary[name].latest = Newest(B) /\ summary[name].count = Cardinality(B)
        BY <3>1
    <3>11. summary[name].latest = DeviceStats(metrics, c)[name] /\ summary[name].count <= Cardinality(listed)
        BY <3>3, <3>7, <3>9, <3>10
    <3> QED
        BY <3>11 DEF listed
  <2> QED
      BY <2>2, <2>3
<1> QED
    BY <1>1, Zenon DEF MetricsAgree

\* What a question of each kind is of.
LEMMA QuestionTypes ==
    ASSUME NEW q \in MeshQuestion
    PROVE  /\ q.mesh \in Seq(MeshRow)
           /\ q.about = "pages" => q.limit \in Nat
           /\ q.about = "trace" => q.later \in Seq(MeshRow)
           /\ q.about = "history" => q.changes \in SUBSET ((DOMAIN FeedSource) \X Nat)
           /\ q.about = "metrics" =>
                 /\ q.now \in Nat /\ q.hours \in Nat
                 /\ q.items \in SUBSET [host : Nat, metric : STRING, at : Nat, value : Nat]
                 /\ IsFiniteSet(q.items)
<1> DEFINE lookups == [about : {"lookup"}, mesh : Seq(MeshRow), text : Nat]
           counters == [about : {"counters"}, mesh : Seq(MeshRow)]
           pages == [about : {"pages"}, mesh : Seq(MeshRow), minSources : Nat,
                     source : Range(SourceOrder) \cup {""}, limit : Nat]
           traces == [about : {"trace"}, mesh : Seq(MeshRow), later : Seq(MeshRow), cluster : Nat,
                      attached : SUBSET [cluster : Nat, feed : DOMAIN AttachmentFeeds, value : Nat],
                      vlans : SUBSET [name : Nat, first : Nat, last : Nat]]
           histories == [about : {"history"}, mesh : Seq(MeshRow), changes : SUBSET ((DOMAIN FeedSource) \X Nat)]
           Loads == [about : {"metrics"}, mesh : Seq(MeshRow), hosts : [HostIds -> Nat],
                     items : SUBSET [host : Nat, metric : STRING, at : Nat, value : Nat], now : Nat, hours : Nat]
           loads == {r \in Loads : IsFiniteSet(r.items)}
<1>1. q \in lookups \cup counters \cup pages \cup traces \cup histories \cup loads
    BY Zenon DEF MeshQuestion
<1>2. q \in lookups => q.mesh \in Seq(MeshRow) /\ q.about = "lookup"
    OBVIOUS
<1>3. q \in counters => q.mesh \in Seq(MeshRow) /\ q.about = "counters"
    OBVIOUS
<1>4. q \in pages => q.mesh \in Seq(MeshRow) /\ q.about = "pages" /\ q.limit \in Nat
  <2>1. \A S, L : q \in [about : {"pages"}, mesh : Seq(MeshRow), minSources : Nat, source : S, limit : L] =>
            q.mesh \in Seq(MeshRow) /\ q.about = "pages" /\ q.limit \in L
      OBVIOUS
  <2> QED
      BY <2>1, Zenon
<1>5. q \in traces => q.mesh \in Seq(MeshRow) /\ q.about = "trace" /\ q.later \in Seq(MeshRow)
    OBVIOUS
<1>6. q \in histories => /\ q.mesh \in Seq(MeshRow) /\ q.about = "history"
                         /\ q.changes \in SUBSET ((DOMAIN FeedSource) \X Nat)
    OBVIOUS
<1>7. q \in loads => /\ q.mesh \in Seq(MeshRow) /\ q.about = "metrics" /\ q.now \in Nat /\ q.hours \in Nat
                     /\ q.items \in SUBSET [host : Nat, metric : STRING, at : Nat, value : Nat]
                     /\ IsFiniteSet(q.items)
    OBVIOUS
<1> HIDE DEF lookups, counters, pages, traces, histories, loads
<1> QED
    BY <1>1, <1>2, <1>3, <1>4, <1>5, <1>6, <1>7

\* Whatever mesh, text, page, device, changes and items are asked about, the
\* queries agree.
THEOREM QueriesTheorem ==
    ASSUME QueryAssumption
    PROVE  Asking(MeshQuestion) => []QueriesAgree
<1>1. question = Nothing => QueriesAgree
    BY DEF Nothing, QueriesAgree
<1>2. ASSUME question' \in MeshQuestion PROVE QueriesAgree'
  <2>1. question'.about = "lookup" => LookupAgrees(question'.mesh, question'.text)
    <3>1. SUFFICES ASSUME question'.about = "lookup" PROVE LookupAgrees(question'.mesh, question'.text)
        OBVIOUS
    <3>2. question'.mesh \in Seq(MeshRow)
        BY <1>2, <3>1, QuestionTypes
    <3> QED
        BY <3>2, LookupTheorem
  <2>2. question'.about = "counters" => CountersAgree(question'.mesh)
    <3>1. SUFFICES ASSUME question'.about = "counters" PROVE CountersAgree(question'.mesh)
        OBVIOUS
    <3>2. question'.mesh \in Seq(MeshRow)
        BY <1>2, <3>1, QuestionTypes
    <3> QED
        BY <3>2, CountersTheorem
  <2>3. question'.about = "pages" =>
            PagesAgree(question'.mesh, question'.minSources, question'.source, question'.limit)
    <3>1. SUFFICES ASSUME question'.about = "pages"
                   PROVE  PagesAgree(question'.mesh, question'.minSources, question'.source, question'.limit)
        OBVIOUS
    <3>2. question'.mesh \in Seq(MeshRow) /\ question'.limit \in Nat
        BY <1>2, <3>1, QuestionTypes
    <3> QED
        BY <3>2, PagesTheorem
  <2>4. question'.about = "trace" =>
            TraceAgrees(question'.mesh, question'.later, question'.attached, question'.vlans, question'.cluster)
    <3>1. SUFFICES ASSUME question'.about = "trace"
                   PROVE  TraceAgrees(question'.mesh, question'.later, question'.attached, question'.vlans,
                                      question'.cluster)
        OBVIOUS
    <3>2. question'.mesh \in Seq(MeshRow) /\ question'.later \in Seq(MeshRow)
        BY <1>2, <3>1, QuestionTypes
    <3> QED
        BY <3>2, TraceTheorem
  <2>5. question'.about = "history" => HistoryAgrees(question'.mesh, question'.changes)
    <3>1. SUFFICES ASSUME question'.about = "history" PROVE HistoryAgrees(question'.mesh, question'.changes)
        OBVIOUS
    <3>2. question'.mesh \in Seq(MeshRow) /\ question'.changes \in SUBSET ((DOMAIN FeedSource) \X Nat)
        BY <1>2, <3>1, QuestionTypes
    <3> QED
        BY <3>2, HistoryTheorem
  <2>6. question'.about = "metrics" =>
            MetricsAgree(question'.mesh, question'.hosts, question'.items, question'.now, question'.hours)
    <3>1. SUFFICES ASSUME question'.about = "metrics"
                   PROVE  MetricsAgree(question'.mesh, question'.hosts, question'.items, question'.now,
                                       question'.hours)
        OBVIOUS
    <3>2. /\ question'.mesh \in Seq(MeshRow) /\ question'.now \in Nat /\ question'.hours \in Nat
          /\ question'.items \in SUBSET [host : Nat, metric : STRING, at : Nat, value : Nat]
          /\ IsFiniteSet(question'.items)
        BY <1>2, <3>1, QuestionTypes
    <3> QED
        BY <3>2, MetricsTheorem
  <2> QED
      BY <2>1, <2>2, <2>3, <2>4, <2>5, <2>6 DEF QueriesAgree
<1>3. QueriesAgree /\ UNCHANGED question => QueriesAgree'
    BY DEF QueriesAgree
<1> QED
    BY <1>1, <1>2, <1>3, PTL DEF Asking

----------------------------------------------------------------------------
=============================================================================
