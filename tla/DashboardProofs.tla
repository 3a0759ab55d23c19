--------------------------- MODULE DashboardProofs ---------------------------
(***************************************************************************)
(* The dashboard, for any number of projects, rows and requests under way:  *)
(* what a screen shows between loads is what its URL names, a list of pages *)
(* leaves nothing out, what the page is told is noticed, and an edit        *)
(* touches only the fields the operator touched.                            *)
(***************************************************************************)
EXTENDS Dashboard, FiniteSetTheorems, FunctionTheorems, SequenceTheorems,
        WellFoundedInduction, TLAPS

-----------------------------------------------------------------------------
(* use-sequenced-request.js: the gate, as all four screens use it. *)

Reads == {"load", "refresh", "get", "list"}
Request == [ownSeq : Nat, loading : BOOLEAN, error : BOOLEAN]

\* A reading call is current exactly when it is the last run of its request.
GateInv ==
    /\ gate \in Nat /\ listRequest \in Request
    /\ \A c \in calls : c.kind \in Reads =>
          /\ c.seq \in Nat /\ c.mine \in Nat
          /\ c.seq <= gate /\ c.mine <= listRequest.ownSeq
          /\ c.seq = gate <=> c.mine = listRequest.ownSeq

\* A run claims the next number, and no older call is current any more.
LEMMA GateClaimed ==
    ASSUME GateInv, NEW c, gate' = gate + 1,
           listRequest' = [ownSeq |-> listRequest.ownSeq + 1, loading |-> TRUE, error |-> FALSE],
           c.seq = gate', c.mine = listRequest'.ownSeq, \A d \in calls' : d \in calls \/ d = c
    PROVE  /\ GateInv' /\ listRequest'.loading
           /\ \A d \in calls' : d.kind \in Reads /\ d.seq = gate' => d = c
  BY DEF GateInv, Request

\* A run that ends lowers the loading flag exactly when it is current.
LEMMA GateSettled ==
    ASSUME GateInv, NEW c \in calls, c.kind \in Reads, NEW failed \in BOOLEAN, gate' = gate,
           calls' \subseteq calls,
           listRequest' = [listRequest EXCEPT
               !.error = IF failed /\ c.seq = gate THEN TRUE ELSE @,
               !.loading = IF c.mine = listRequest.ownSeq THEN FALSE ELSE @]
    PROVE  /\ GateInv'
           /\ c.seq = gate => ~listRequest'.loading /\ (failed => listRequest'.error)
           /\ c.seq # gate => listRequest' = listRequest
  BY DEF GateInv, Request

\* Nothing is claimed and nothing ends.
LEMMA GateKept ==
    ASSUME GateInv, UNCHANGED <<gate, listRequest>>,
           \A d \in calls' : d.kind \in Reads =>
               \E c \in calls : d.kind = c.kind /\ d.seq = c.seq /\ d.mine = c.mine
    PROVE  GateInv'
  BY DEF GateInv

-----------------------------------------------------------------------------
(* The deliveries screen. *)

ListCall == {"kind", "seq", "mine", "view", "cursor", "counted", "early", "at", "body"}
ListInv ==
    /\ GateInv
    /\ \A c \in calls : DOMAIN c = ListCall
    /\ "view" \in DOMAIN store /\ store.view = route
    /\ \A c \in calls : c.kind \in Reads /\ c.seq = gate => c.view = route
    /\ Deliveries!ListIsOfRoute

\* The first load of the screen is under way.
LEMMA ListInit == Deliveries!DeliveryInit => ListInv
  <1> SUFFICES ASSUME Deliveries!DeliveryInit PROVE ListInv
    OBVIOUS
  <1> DEFINE c == Deliveries!Call("load", 1, 1, route, Deliveries!NoCursor, {}, FALSE)
  <1>1. /\ gate = 1 /\ listRequest = [ownSeq |-> 1, loading |-> TRUE, error |-> FALSE]
        /\ calls = {c} /\ "view" \in DOMAIN store /\ store.view = route
    <2>1. gate = 1 /\ listRequest = Deliveries!started(Deliveries!Quiet)
      BY DEF Deliveries!DeliveryInit
    <2>2. listRequest = [ownSeq |-> 1, loading |-> TRUE, error |-> FALSE]
      BY <2>1 DEF Deliveries!started, Deliveries!Quiet
    <2>3. calls = {c}
      BY DEF Deliveries!DeliveryInit
    <2>4. "view" \in DOMAIN store /\ store.view = route
      BY DEF Deliveries!DeliveryInit, Deliveries!Empty
    <2> QED
      BY <2>1, <2>2, <2>3, <2>4
  <1>2. c.seq = 1 /\ c.mine = 1 /\ c.view = route /\ DOMAIN c = ListCall
    BY DEF Deliveries!Call, ListCall
  <1> HIDE DEF c
  <1> QED
    BY <1>1, <1>2 DEF ListInv, GateInv, Request, Deliveries!ListIsOfRoute, Deliveries!Shown

\* load, for the view the URL names afterwards.
LEMMA ListLoads ==
    ASSUME ListInv, NEW s, NEW kind \in {"load", "refresh"}, "view" \in DOMAIN s,
           Deliveries!load(s, route', kind)
    PROVE  ListInv'
  <1> DEFINE c == Deliveries!Call(kind, gate', listRequest'.ownSeq, route', Deliveries!NoCursor,
                                 s.pendingIds, FALSE)
  <1>1. /\ store' = [s EXCEPT !.view = route'] /\ gate' = gate + 1
        /\ listRequest' = [ownSeq |-> listRequest.ownSeq + 1, loading |-> TRUE, error |-> FALSE]
        /\ calls' = calls \cup {c}
    BY DEF Deliveries!load, Deliveries!claimed, Deliveries!started
  <1>2. c.seq = gate' /\ c.mine = listRequest'.ownSeq /\ c.view = route' /\ DOMAIN c = ListCall
    BY DEF Deliveries!Call, ListCall
  <1> HIDE DEF c
  <1>3. /\ GateInv' /\ listRequest'.loading
        /\ \A d \in calls' : d.kind \in Reads /\ d.seq = gate' => d = c
    BY <1>1, <1>2, GateClaimed DEF ListInv
  <1> QED
    BY <1>1, <1>2, <1>3 DEF ListInv, Deliveries!ListIsOfRoute, Deliveries!Shown

\* The steps that neither load nor navigate.
LEMMA ListKept ==
    ASSUME ListInv, UNCHANGED <<route, under, gate, listRequest>>,
           store' = store \/ ("view" \in DOMAIN store' /\ store'.view = store.view),
           \A d \in calls' : DOMAIN d = ListCall,
           \A d \in calls' : d.kind \in Reads =>
               \E c \in calls :
                   d.kind = c.kind /\ d.seq = c.seq /\ d.mine = c.mine /\ d.view = c.view
    PROVE  ListInv'
  <1>1. GateInv'
    BY GateKept DEF ListInv
  <1> QED
    BY <1>1 DEF ListInv, Deliveries!ListIsOfRoute, Deliveries!Shown

\* Every step of the deliveries screen keeps its list the one of the URL.
LEMMA ListStep == ASSUME ListInv, Deliveries!DeliveryNext PROVE ListInv'
  <1> USE DEF Deliveries!serverVars, Deliveries!listVars
  <1>0. /\ GateInv /\ \A c \in calls : DOMAIN c = ListCall
        /\ "view" \in DOMAIN store /\ store.view = route
    BY DEF ListInv
  <1>1. ASSUME UNCHANGED <<route, under, gate, listRequest, calls>>,
               store' = store \/ ("view" \in DOMAIN store' /\ store'.view = store.view)
        PROVE  ListInv'
    BY <1>0, <1>1, ListKept
  <1>2. ASSUME NEW i \in Ids, Deliveries!publish(i) PROVE ListInv'
    BY <1>1, <1>2 DEF Deliveries!publish
  <1>3. ASSUME NEW i \in Ids, NEW status,
               Deliveries!attempting(i) \/ Deliveries!attempted(i, status)
        PROVE  ListInv'
    BY <1>1, <1>3 DEF Deliveries!attempting, Deliveries!attempted, Deliveries!Became
  <1>4. ASSUME NEW c \in calls, Deliveries!answered(c) PROVE ListInv'
    <2>1. PICK body : calls' = (calls \ {c}) \cup {[c EXCEPT !.at = "ok", !.body = body]}
      BY <1>4 DEF Deliveries!answered
    <2> DEFINE d == [c EXCEPT !.at = "ok", !.body = body]
    <2>2. /\ DOMAIN d = ListCall /\ d.kind = c.kind /\ d.seq = c.seq /\ d.mine = c.mine
          /\ d.view = c.view
      BY <1>0 DEF ListCall
    <2> HIDE DEF d
    <2>3. \A e \in calls' : e \in calls \/ e = d
      BY <2>1 DEF d
    <2>4. UNCHANGED <<route, under, gate, listRequest, store>>
      BY <1>4 DEF Deliveries!answered
    <2> QED
      BY <1>0, <2>2, <2>3, <2>4, ListKept
  <1>5. ASSUME NEW c \in calls, Deliveries!loaded(c) PROVE ListInv'
    <2>1. /\ c.kind \in Reads /\ calls' = calls \ {c} /\ gate' = gate /\ route' = route
          /\ listRequest' = [listRequest EXCEPT
                 !.error = IF c.at = "sent" /\ c.seq = gate THEN TRUE ELSE @,
                 !.loading = IF c.mine = listRequest.ownSeq THEN FALSE ELSE @]
      BY <1>5 DEF Deliveries!loaded, Deliveries!settled, Deliveries!isCurrent, Reads
    <2>2. /\ GateInv'
          /\ c.seq = gate => (c.at = "sent" => listRequest'.error)
          /\ c.seq # gate => listRequest' = listRequest
      BY <1>0, <2>1, GateSettled
    <2>3. CASE c.seq # gate
      <3>1. UNCHANGED <<store, under>>
        BY <1>5, <2>3 DEF Deliveries!loaded, Deliveries!isCurrent
      <3> QED
        BY <1>0, <2>1, <2>2, <2>3, <3>1, ListKept
    <2>4. CASE c.seq = gate
      <3>1. "view" \in DOMAIN store' /\ store'.view = store.view
        BY <1>0, <1>5, <2>4 DEF Deliveries!loaded, Deliveries!isCurrent, Deliveries!settlePending
      <3>2. c.at # "sent" => under' = c.view
        BY <1>5, <2>4 DEF Deliveries!loaded, Deliveries!isCurrent
      <3>3. c.view = route
        BY <2>1, <2>4 DEF ListInv
      <3> QED
        BY <2>1, <2>2, <2>4, <3>1, <3>2, <3>3
        DEF ListInv, Deliveries!ListIsOfRoute, Deliveries!Shown
    <2> QED
      BY <2>3, <2>4
  <1>6. ASSUME NEW c \in calls, Deliveries!appended(c) PROVE ListInv'
    <2>1. /\ UNCHANGED <<route, under, gate, listRequest>> /\ calls' \subseteq calls
          /\ store' = store \/ ("view" \in DOMAIN store' /\ store'.view = store.view)
      BY <1>0, <1>6 DEF Deliveries!appended
    <2> QED
      BY <1>0, <2>1, ListKept
  <1>7. ASSUME NEW v \in Deliveries!Views, Deliveries!navigate(v) PROVE ListInv'
    <2>1. PICK s : "view" \in DOMAIN s /\ Deliveries!load(s, v, "load") /\ route' = v
      BY <1>0, <1>7 DEF Deliveries!navigate, Deliveries!reset
    <2> QED
      BY <2>1, ListLoads
  <1>8. ASSUME NEW kind \in {"load", "refresh"}, Deliveries!refresh(kind), route' = route
        PROVE  ListInv'
    BY <1>0, <1>8, ListLoads DEF Deliveries!refresh
  <1>9. ASSUME Deliveries!loadMore PROVE ListInv'
    <2>1. PICK d : /\ calls' = calls \cup {d} /\ d.kind = "more" /\ DOMAIN d = ListCall
                   /\ UNCHANGED <<route, under, gate, listRequest, store>>
      <3>1. \A seq, mine, v, cursor, early :
               LET d == Deliveries!Call("more", seq, mine, v, cursor, {}, early)
               IN  d.kind = "more" /\ DOMAIN d = ListCall
        BY DEF Deliveries!Call, ListCall
      <3> QED
        BY <1>9, <3>1 DEF Deliveries!loadMore
    <2> QED
      BY <1>0, <2>1, ListKept DEF Reads
  <1>10. ASSUME Deliveries!applyRealtime PROVE ListInv'
    BY <1>0, <1>1, <1>10 DEF Deliveries!applyRealtime, Deliveries!patch, Deliveries!noteUnknown
  <1>11. ASSUME Deliveries!dismissPending PROVE ListInv'
    BY <1>0, <1>1, <1>11 DEF Deliveries!dismissPending
  <1>12. ASSUME Deliveries!openConfirm \/ Deliveries!closeConfirm \/ Deliveries!runBulkReplay
         PROVE  ListInv'
    BY <1>1, <1>12 DEF Deliveries!openConfirm, Deliveries!closeConfirm, Deliveries!runBulkReplay
  <1>13. ASSUME Deliveries!applyPending \/ Deliveries!bulkAnswered PROVE ListInv'
    BY <1>8, <1>13 DEF Deliveries!applyPending, Deliveries!bulkAnswered
  <1> QED
    BY <1>2, <1>3, <1>4, <1>5, <1>6, <1>7, <1>9, <1>10, <1>11, <1>12, <1>13
    DEF Deliveries!DeliveryNext

-----------------------------------------------------------------------------
(* The pages of the deliveries list. *)

Statuses == {"none", "PENDING", "IN_FLIGHT", "SKIPPED", "FAILED_PERMANENTLY"} \cup Outcomes
DeliveryRow == [at : Nat, project : Projects \cup {NoProject}, status : Statuses]
Line == [id : Ids, at : Nat, status : Statuses]

\* What the screen and the answers on their way hold of a row stays true of the rows R of
\* the database: a row keeps its time and its id.
Key(R, i) == [id |-> i, at |-> R[i].at]
Fits(R, r) == R[r.id].at > 0 /\ r.at = R[r.id].at
Lines(R, s) == s \in Seq(Line) /\ \A k \in 1 .. Len(s) : Fits(R, s[k])
Ordered(s) == \A j, k \in 1 .. Len(s) : j < k => Deliveries!Newer(s[j], s[k])
Ends(s, cursor) ==
    cursor # Deliveries!NoCursor => s # << >> /\ cursor = Deliveries!encodeCursor(s[Len(s)])
On(s) == {s[k].id : k \in 1 .. Len(s)}
Below(R, s, cursor) ==
    {i \in Ids : cursor # Deliveries!NoCursor /\ Deliveries!Newer(s[Len(s)], Key(R, i))}

\* The rows a view is of, and those of them that the page was told of last.
There(R) == {i \in Ids : R[i].at > 0}
Matches(R, v) ==
    {i \in There(R) : R[i].project = v.project /\ (v.status # "" => R[i].status = v.status)}
News(R, T, v) == {i \in Matches(R, v) : T[i] # "none" /\ R[i].status = T[i]}

\* An answer of the API: a page of what matched and is older than the cursor.
Answers(R, b, cursor) ==
    /\ Lines(R, b.page) /\ Ordered(b.page) /\ Ends(b.page, b.nextCursor)
    /\ cursor # Deliveries!NoCursor =>
          \A k \in 1 .. Len(b.page) : Deliveries!olderThan(cursor, b.page[k])
    /\ b.matching \subseteq There(R)
    /\ \A i \in b.matching :
          cursor = Deliveries!NoCursor \/ Deliveries!olderThan(cursor, Key(R, i)) =>
          i \in On(b.page) \cup Below(R, b.page, b.nextCursor)

Event == [id : Ids, status : Outcomes]
StoreFields == {"items", "nextCursor", "pendingIds", "view"}
PageTypes ==
    /\ rows \in [Ids -> DeliveryRow] /\ route \in Deliveries!Views
    /\ wire \in Seq(Event) /\ \A k \in 1 .. Len(wire) : wire[k].id \in There(rows)
    /\ DOMAIN told = Ids /\ \A i \in Ids : told[i] # "none" => i \in There(rows)
    /\ DOMAIN store = StoreFields /\ moreRequest \in Request
    /\ Lines(rows, store.items) /\ Ends(store.items, store.nextCursor)

\* One load is current at most, and the list is loading while it is under way.  One page
\* is under way at most, and if it is current and was asked for between loads it goes on
\* where the list ends.
LoadCalls == {"load", "refresh"}
Following(c) == c.kind = "more" /\ c.seq = gate /\ ~c.early
Reading(c) == c.kind \in LoadCalls /\ c.seq = gate
CallsInv ==
    /\ \A c \in calls : /\ c.kind \in LoadCalls \cup {"more"}
                        /\ c.kind \in LoadCalls => c.cursor = Deliveries!NoCursor
                        /\ c.at = "sent" \/ (c.at = "ok" /\ Answers(rows, c.body, c.cursor))
    /\ \A c \in calls : Reading(c) =>
          listRequest.loading /\ \A d \in calls : Reading(d) => d = c
    /\ \A c \in calls : c.kind = "more" =>
          /\ moreRequest.loading /\ c.seq \in Nat /\ c.seq <= gate
          /\ \A d \in calls : d.kind = "more" => d = c
    /\ \A c \in calls : Following(c) =>
          /\ ~listRequest.loading /\ c.view = store.view
          /\ c.cursor = store.nextCursor /\ c.cursor # Deliveries!NoCursor

\* What an answer must hold for the list to stay whole once it is applied.
Clean == Deliveries!Shown /\ ~crossed
AnswersInv ==
    /\ \A c \in calls : Reading(c) /\ c.at = "ok" =>
          News(rows, told, c.view) \subseteq
              c.body.matching \cup (store.pendingIds \ c.counted) \cup On(store.items) \cup c.counted
    /\ Clean => \A c \in calls : Following(c) /\ c.at = "ok" =>
          /\ base \subseteq c.body.matching
          /\ News(rows, told, c.view) \subseteq
                 c.body.matching \cup On(store.items) \cup store.pendingIds \cup missed

\* The list of the screen.
ScreenInv ==
    /\ base \subseteq Matches(rows, under)
    /\ Clean =>
          /\ Ordered(store.items)
          /\ base \subseteq On(store.items) \cup Below(rows, store.items, store.nextCursor)
          /\ News(rows, told, route) \subseteq
                 On(store.items) \cup store.pendingIds \cup missed
                     \cup Below(rows, store.items, store.nextCursor)

PageInv == PageTypes /\ CallsInv /\ AnswersInv /\ ScreenInv
-----------------------------------------------------------------------------
(* keyset.js: rows are read newest first, a page at a time. *)

Sorts(s, S) ==
    /\ \A r \in S : \E k \in DOMAIN s : s[k] = r
    /\ \A j, k \in DOMAIN s : j < k => Deliveries!Newer(s[j], s[k])
Sortable(S) == \E s \in [1 .. Cardinality(S) -> S] : Sorts(s, S)
Keyed(S) ==
    /\ \A r \in S : r.at \in Nat /\ r.id \in Nat
    /\ \A a, b \in S : a.id = b.id => a = b

\* A set of numbers that is not empty has a least one.
LEMMA LeastOf ==
    ASSUME NEW S \in SUBSET Nat, S # {}
    PROVE  \E i \in S : \A j \in S : i <= j
  <1>1. PICK x \in S : \A y \in S : ~ (<<y, x>> \in OpToRel(<, Nat))
    BY NatLessThanWellFounded, WFMin, Zenon
  <1>2. \A y \in S : ~(y < x)
    BY <1>1 DEF OpToRel
  <1> QED
    BY <1>2

\* The order of the database is total on rows that differ, and transitive.
LEMMA NewerTotal ==
    ASSUME NEW S, Keyed(S), NEW a \in S, NEW b \in S, a # b
    PROVE  Deliveries!Newer(a, b) \/ Deliveries!Newer(b, a)
  BY DEF Keyed, Deliveries!Newer

LEMMA NewerTransitive ==
    ASSUME NEW a, NEW b, NEW c, a.at \in Nat, b.at \in Nat, c.at \in Nat,
           a.id \in Nat, b.id \in Nat, c.id \in Nat,
           Deliveries!Newer(a, b), Deliveries!Newer(b, c)
    PROVE  Deliveries!Newer(a, c)
  BY DEF Deliveries!Newer

\* One more row has a place among rows that are in order.
LEMMA SortInserts ==
    ASSUME NEW S, Keyed(S), NEW x \in S, NEW n \in Nat \ {0},
           NEW s \in [1 .. n - 1 -> S \ {x}], Sorts(s, S \ {x})
    PROVE  \E t \in [1 .. n -> S] : Sorts(t, S)
  <1> DEFINE P == {k \in 1 .. n : k = n \/ Deliveries!Newer(x, s[k])}
  <1>1. PICK p \in P : \A j \in P : p <= j
    <2>1. P \in SUBSET Nat /\ n \in P
      OBVIOUS
    <2> QED
      BY <2>1, LeastOf
  <1>2. p \in 1 .. n /\ \A k \in 1 .. n - 1 : s[k] \in S /\ s[k] # x
    BY <1>1
  <1>3. ASSUME NEW k \in 1 .. n - 1, k < p PROVE Deliveries!Newer(s[k], x)
    <2>1. ~Deliveries!Newer(x, s[k])
      BY <1>1, <1>2, <1>3
    <2> QED
      BY <1>2, <2>1, NewerTotal
  <1>4. ASSUME NEW k \in 1 .. n - 1, p <= k PROVE Deliveries!Newer(x, s[k])
    <2>1. p \in 1 .. n - 1 /\ Deliveries!Newer(x, s[p])
      BY <1>1, <1>4
    <2>2. CASE k = p
      BY <2>1, <2>2
    <2>3. CASE p < k
      <3>1. Deliveries!Newer(s[p], s[k])
        BY <2>1, <2>3 DEF Sorts
      <3> QED
        BY <1>2, <2>1, <3>1, NewerTransitive DEF Keyed
    <2> QED
      BY <1>2, <1>4, <2>2, <2>3
  <1> HIDE DEF P
  <1> DEFINE t == [k \in 1 .. n |-> IF k < p THEN s[k] ELSE IF k = p THEN x ELSE s[k - 1]]
  <1>5. t \in [1 .. n -> S]
    BY <1>2
  <1>6. ASSUME NEW r \in S PROVE \E k \in 1 .. n : t[k] = r
    <2>1. CASE r = x
      BY <1>2, <2>1
    <2>2. CASE r # x
      <3>1. PICK k \in 1 .. n - 1 : s[k] = r
        BY <2>2 DEF Sorts
      <3>2. k < p => t[k] = r
        BY <1>2, <3>1
      <3>3. p <= k => k + 1 \in 1 .. n /\ t[k + 1] = r
        BY <1>2, <3>1
      <3>4. k \in 1 .. n /\ (k < p \/ p <= k)
        BY <1>2, <3>1
      <3> HIDE DEF t
      <3> QED
        BY <3>2, <3>3, <3>4
    <2> QED
      BY <2>1, <2>2
  <1>7. ASSUME NEW j \in 1 .. n, NEW k \in 1 .. n, j < k PROVE Deliveries!Newer(t[j], t[k])
    <2>0. \A a, b \in 1 .. n - 1 : a < b => Deliveries!Newer(s[a], s[b])
      BY DEF Sorts
    <2>1. CASE k < p
      BY <1>2, <1>7, <2>0, <2>1
    <2>2. CASE k = p
      BY <1>2, <1>3, <1>7, <2>2
    <2>3. CASE p < k /\ j < p
      <3>1. j < k - 1 \/ j = k - 1
        BY <1>2, <1>7, <2>3
      <3>2. t[j] = s[j] /\ t[k] = s[k - 1] /\ j \in 1 .. n - 1 /\ k - 1 \in 1 .. n - 1
        BY <1>2, <1>7, <2>3
      <3>3. Deliveries!Newer(s[j], x) /\ Deliveries!Newer(x, s[k - 1])
        BY <1>2, <1>3, <1>4, <2>3, <3>2
      <3> QED
        BY <1>2, <3>2, <3>3, NewerTransitive DEF Keyed
    <2>4. CASE j = p
      BY <1>2, <1>4, <1>7, <2>4
    <2>5. CASE p < j
      BY <1>2, <1>7, <2>0, <2>5
    <2> QED
      BY <1>2, <2>1, <2>2, <2>3, <2>4, <2>5
  <1> HIDE DEF t
  <1> QED
    BY <1>5, <1>6, <1>7 DEF Sorts

\* Any finite set of rows can be put in order.
LEMMA SortExists ==
    ASSUME NEW T, IsFiniteSet(T), Keyed(T)
    PROVE  Sortable(T)
  <1> DEFINE Bad == {n \in Nat : \E S \in SUBSET T : Cardinality(S) = n /\ ~Sortable(S)}
  <1>0. \A S \in SUBSET T : IsFiniteSet(S) /\ Cardinality(S) \in Nat
    BY FS_Subset, FS_CardinalityType
  <1>1. SUFFICES ASSUME ~Sortable(T) PROVE FALSE
    OBVIOUS
  <1>2. Bad \in SUBSET Nat /\ Bad # {}
    BY <1>0, <1>1
  <1>3. PICK n \in Bad : \A m \in Bad : n <= m
    BY <1>2, LeastOf
  <1>4. PICK S \in SUBSET T : Cardinality(S) = n /\ ~Sortable(S)
    BY <1>3
  <1>5. CASE S = {}
    <2>1. [k \in 1 .. 0 |-> 0] \in [1 .. 0 -> S] /\ Cardinality(S) = 0
      BY <1>5, FS_EmptySet
    <2>2. Sorts([k \in 1 .. 0 |-> 0], S)
      BY <1>5 DEF Sorts
    <2> QED
      BY <1>4, <2>1, <2>2 DEF Sortable
  <1>6. CASE S # {}
    <2>1. PICK x : x \in S
      BY <1>6
    <2>2. n \in Nat \ {0} /\ Cardinality(S \ {x}) = n - 1
      BY <1>0, <1>3, <1>4, <1>6, <2>1, FS_RemoveElement, FS_EmptySet
    <2>3. Sortable(S \ {x})
      <3>1. n - 1 \in Nat /\ ~(n <= n - 1)
        BY <2>2
      <3>2. n - 1 \notin Bad
        BY <1>3, <3>1
      <3> QED
        BY <1>4, <2>2, <3>1, <3>2
    <2>4. PICK s \in [1 .. n - 1 -> S \ {x}] : Sorts(s, S \ {x})
      BY <2>2, <2>3 DEF Sortable
    <2>5. Keyed(S)
      BY DEF Keyed
    <2> QED
      BY <1>4, <2>1, <2>2, <2>4, <2>5, SortInserts DEF Sortable
  <1> QED
    BY <1>5, <1>6

\* orderBy: what the database returns for a set of rows.
LEMMA NewestFirstSorts ==
    ASSUME NEW S, IsFiniteSet(S), Keyed(S)
    PROVE  LET s == Deliveries!NewestFirst(S)
           IN  s \in [1 .. Cardinality(S) -> S] /\ Sorts(s, S)
  <1>1. Cardinality(S) = Deliveries!Cardinality(S)
    BY DEF Cardinality, Deliveries!Cardinality
  <1> DEFINE N == 1 .. Deliveries!Cardinality(S)
  <1>2. \E s \in [N -> S] : Sorts(s, S)
    BY <1>1, SortExists DEF Sortable
  <1>3. Deliveries!NewestFirst(S) = CHOOSE s \in [N -> S] : Sorts(s, S)
    BY Zenon DEF Deliveries!NewestFirst, Sorts
  <1> HIDE DEF N
  <1>4. Deliveries!NewestFirst(S) \in [N -> S] /\ Sorts(Deliveries!NewestFirst(S), S)
    BY <1>2, <1>3, Zenon
  <1> QED
    BY <1>1, <1>4 DEF N

\* paginate: the first rows, and whether there are more.
LEMMA Paginated ==
    ASSUME NEW S, NEW n \in Nat, NEW s \in [1 .. n -> S]
    PROVE  LET found == Deliveries!paginate(s, PageSize)
               m == IF n > PageSize THEN PageSize ELSE n
           IN  /\ found.page \in Seq(S) /\ Len(found.page) = m
               /\ \A k \in 1 .. m : found.page[k] = s[k]
               /\ found.nextCursor = IF n > PageSize
                                     THEN Deliveries!encodeCursor(s[m])
                                     ELSE Deliveries!NoCursor
  <1>0. PageSize \in Nat \ {0}
    BY ListAssumption
  <1>1. s \in Seq(S) /\ Len(s) = n
    BY SeqDef, LenProperties
  <1>2. CASE n > PageSize
    <2> DEFINE t == SubSeq(s, 1, PageSize)
    <2>1. t \in Seq(S) /\ Len(t) = PageSize /\ \A k \in 1 .. PageSize : t[k] = s[k]
      <3>1. \A k \in 1 .. PageSize : s[k] \in S
        BY <1>0, <1>2
      <3>2. /\ t \in Seq(S) /\ Len(t) = IF 1 <= PageSize THEN PageSize - 1 + 1 ELSE 0
            /\ \A k \in 1 .. PageSize - 1 + 1 : t[k] = s[1 + k - 1]
        BY <1>0, <3>1, SubSeqProperties
      <3> HIDE DEF t
      <3> QED
        BY <1>0, <3>2
    <2>2. Deliveries!paginate(s, PageSize) =
              [page |-> t, nextCursor |-> Deliveries!encodeCursor(t[Len(t)])]
      BY <1>1, <1>2 DEF Deliveries!paginate
    <2> HIDE DEF t
    <2> QED
      BY <1>0, <1>2, <2>1, <2>2
  <1>3. CASE ~(n > PageSize)
    <2>1. Deliveries!paginate(s, PageSize) = [page |-> s, nextCursor |-> Deliveries!NoCursor]
      BY <1>1, <1>3 DEF Deliveries!paginate
    <2> QED
      BY <1>1, <1>3, <2>1
  <1> QED
    BY <1>2, <1>3


\* The rows of a set of ids, as the database knows them.
LEMMA ViewsKeyed ==
    ASSUME rows \in [Ids -> DeliveryRow], NEW M \in SUBSET There(rows)
    PROVE  LET S == {Deliveries!deliveryListView(i) : i \in M}
           IN  /\ IsFiniteSet(S) /\ Keyed(S)
               /\ \A r \in S : /\ r \in Line /\ Fits(rows, r) /\ r.id \in M
                               /\ r = Deliveries!deliveryListView(r.id)
  <1> DEFINE S == {Deliveries!deliveryListView(i) : i \in M}
  <1>1. M \in SUBSET Ids /\ Ids \subseteq Nat /\ IsFiniteSet(Ids)
    BY ListAssumption DEF There
  <1>2. IsFiniteSet(M)
    BY <1>1, FS_Subset
  <1>3. ASSUME NEW i \in M
        PROVE  LET r == Deliveries!deliveryListView(i)
               IN  r.id = i /\ r \in Line /\ Fits(rows, r)
    BY <1>1 DEF Deliveries!deliveryListView, Line, DeliveryRow, Fits, There
  <1>4. \A r \in S : /\ r.id \in M /\ r \in Line /\ Fits(rows, r)
                     /\ r = Deliveries!deliveryListView(r.id)
    BY <1>3
  <1>5. IsFiniteSet(S)
    <2> DEFINE f == [i \in M |-> Deliveries!deliveryListView(i)]
    <2>1. f \in Surjection(M, S)
      BY DEF Surjection
    <2> QED
      BY <1>2, <2>1, FS_Surjection
  <1>6. Keyed(S)
    <2>1. \A r \in S : r.at \in Nat /\ r.id \in Nat
      BY <1>1, <1>4 DEF Line
    <2>2. \A a, b \in S : a.id = b.id => a = b
      <3> HIDE DEF S
      <3> QED
        BY <1>4
    <2> QED
      BY <2>1, <2>2 DEF Keyed
  <1> QED
    BY <1>4, <1>5, <1>6

\* filterWhere: the rows of a view.
LEMMA FilterMatches ==
    ASSUME NEW v
    PROVE  /\ {i \in Ids : Deliveries!filterWhere(v, i)} = Matches(rows, v)
           /\ \A i : Deliveries!filterWhere(v, i) <=> i \in Matches(rows, v)
  BY DEF Deliveries!filterWhere, Deliveries!Existing, Matches, There

\* The list of the API answers with a page that leaves no row out.
LEMMA ListAnswers ==
    ASSUME rows \in [Ids -> DeliveryRow], NEW v, NEW cursor
    PROVE  /\ Answers(rows, Deliveries!list(v, cursor), cursor)
           /\ Deliveries!list(v, cursor).matching = Matches(rows, v)
  <1> DEFINE V(i) == Deliveries!deliveryListView(i)
             older(r) == cursor = Deliveries!NoCursor \/ Deliveries!olderThan(cursor, r)
             matching == Matches(rows, v)
             M == {i \in matching : older(V(i))}
             S == {V(i) : i \in M}
             s == Deliveries!NewestFirst(S)
             n == Cardinality(S)
             m == IF n > PageSize THEN PageSize ELSE n
             found == Deliveries!paginate(s, PageSize)
             b == Deliveries!list(v, cursor)
  <1>1. b = [page |-> found.page, nextCursor |-> found.nextCursor, matching |-> matching]
    BY FilterMatches, Zenon DEF Deliveries!list
  <1>2. matching \subseteq There(rows) /\ M \in SUBSET There(rows)
    BY DEF Matches
  <1>3. /\ IsFiniteSet(S) /\ Keyed(S)
        /\ \A r \in S : r \in Line /\ Fits(rows, r) /\ r.id \in M /\ r = V(r.id)
    BY <1>2, ViewsKeyed
  <1>4. \A i \in Ids : /\ V(i).id = i
                       /\ \A r : Deliveries!Newer(r, V(i)) <=> Deliveries!Newer(r, Key(rows, i))
                       /\ older(V(i)) <=> older(Key(rows, i))
    BY DEF Deliveries!deliveryListView, Key, Deliveries!Newer, Deliveries!olderThan
  <1>5. \A i \in matching : older(Key(rows, i)) => V(i) \in S
    BY <1>2, <1>4 DEF There
  <1>6. \A r \in S : older(r)
    <2>1. \A i \in M : older(V(i))
      OBVIOUS
    <2> HIDE DEF S, M, older, V
    <2> QED
      BY <1>3, <2>1
  <1>7. /\ n \in Nat /\ s \in [1 .. n -> S] /\ Sorts(s, S)
        /\ PageSize \in Nat \ {0} /\ m \in Nat /\ m <= n
        /\ n > PageSize => m = PageSize /\ m \in 1 .. n
        /\ ~(n > PageSize) => m = n
    <2> HIDE DEF S
    <2>1. n \in Nat
      BY <1>3, FS_CardinalityType
    <2>2. s \in [1 .. n -> S] /\ Sorts(s, S)
      BY <1>3, NewestFirstSorts
    <2> QED
      BY <2>1, <2>2, ListAssumption
  <1> HIDE DEF S, M, matching, older, s, n
  <1>8. /\ found.page \in Seq(S) /\ Len(found.page) = m
        /\ \A k \in 1 .. m : found.page[k] = s[k]
        /\ found.nextCursor = IF n > PageSize THEN Deliveries!encodeCursor(s[m])
                              ELSE Deliveries!NoCursor
    BY <1>7, Paginated
  <1> HIDE DEF found, m, b
  <1>9. /\ b.page \in Seq(S) /\ Len(b.page) = m /\ b.matching = matching
        /\ \A k \in 1 .. m : b.page[k] = s[k] /\ s[k] \in S
        /\ b.nextCursor = IF n > PageSize THEN Deliveries!encodeCursor(s[m])
                          ELSE Deliveries!NoCursor
    BY <1>1, <1>7, <1>8
  <1>10. n > PageSize => b.nextCursor # Deliveries!NoCursor
    <2>1. \A r \in S : r.at # 0
      BY <1>3 DEF Fits, DeliveryRow
    <2> QED
      BY <1>7, <1>9, <2>1 DEF Deliveries!encodeCursor, Deliveries!NoCursor
  <1>11. Lines(rows, b.page)
    <2>1. S \subseteq Line
      BY <1>3
    <2>2. b.page \in Seq(Line)
      BY <1>9, <2>1, SeqMonotonic
    <2> QED
      BY <1>3, <1>9, <2>2 DEF Lines
  <1>12. Ordered(b.page)
    <2>1. \A j, k \in 1 .. n : j < k => Deliveries!Newer(s[j], s[k])
      BY <1>7 DEF Sorts
    <2>2. \A j \in 1 .. m : j \in 1 .. n
      BY <1>7
    <2> QED
      BY <1>9, <2>1, <2>2 DEF Ordered
  <1>13. Ends(b.page, b.nextCursor)
    <2>1. ASSUME n > PageSize
          PROVE  b.page # << >> /\ b.nextCursor = Deliveries!encodeCursor(b.page[Len(b.page)])
      <3>1. m \in 1 .. m /\ Len(b.page) # 0
        BY <1>7, <1>9, <2>1
      <3> QED
        BY <1>9, <2>1, <3>1, EmptySeq
    <2> QED
      BY <1>9, <2>1 DEF Ends
  <1>14. \A k \in 1 .. Len(b.page) : older(b.page[k])
    BY <1>6, <1>9
  <1>15. ASSUME NEW i \in matching, older(Key(rows, i))
         PROVE  i \in On(b.page) \cup Below(rows, b.page, b.nextCursor)
    <2>1. V(i) \in S /\ V(i).id = i /\ i \in Ids
      BY <1>2, <1>4, <1>5, <1>15 DEF There
    <2>2. PICK k \in 1 .. n : s[k] = V(i)
      BY <1>7, <2>1 DEF Sorts
    <2>3. CASE k <= m
      <3>1. k \in 1 .. Len(b.page) /\ b.page[k].id = i
        BY <1>7, <1>9, <2>1, <2>2, <2>3
      <3> QED
        BY <3>1 DEF On
    <2>4. CASE ~(k <= m)
      <3>1. n > PageSize /\ m < k /\ m \in 1 .. n /\ m \in 1 .. m
        BY <1>7, <2>2, <2>4
      <3>2. Deliveries!Newer(s[m], V(i))
        BY <1>7, <2>2, <3>1 DEF Sorts
      <3> QED
        BY <1>4, <1>9, <1>10, <2>1, <3>1, <3>2 DEF Below
    <2> QED
      BY <2>3, <2>4
  <1>16. Answers(rows, b, cursor)
    BY <1>2, <1>9, <1>11, <1>12, <1>13, <1>14, <1>15 DEF Answers, older
  <1> QED
    BY <1>9, <1>16 DEF b, matching

-----------------------------------------------------------------------------
(* The rows of the database change under the screen. *)

\* A row that is there keeps its time.
Grown(R, Q) == \A i \in There(R) : i \in There(Q) /\ Q[i].at = R[i].at

LEMMA GrownKeeps ==
    ASSUME NEW R, NEW Q, Grown(R, Q)
    PROVE  /\ \A s : Lines(R, s) => Lines(Q, s)
           /\ \A s, cursor : \A i \in There(R) :
                 i \in Below(R, s, cursor) <=> i \in Below(Q, s, cursor)
           /\ \A b, cursor : Answers(R, b, cursor) => Answers(Q, b, cursor)
  <1>1. \A i \in There(R) : Key(R, i) = Key(Q, i) /\ i \in There(Q) /\ i \in Ids
    BY DEF Grown, Key, There
  <1>2. ASSUME NEW s, Lines(R, s) PROVE Lines(Q, s)
    <2> SUFFICES ASSUME NEW k \in 1 .. Len(s) PROVE Fits(Q, s[k])
      BY <1>2 DEF Lines
    <2>1. s[k] \in Line /\ Fits(R, s[k])
      BY <1>2, ElementOfSeq DEF Lines
    <2>2. s[k].id \in There(R)
      BY <2>1 DEF Line, Fits, There
    <2> QED
      BY <2>1, <2>2 DEF Fits, Grown, There
  <1>3. ASSUME NEW s, NEW cursor, NEW i \in There(R)
        PROVE  i \in Below(R, s, cursor) <=> i \in Below(Q, s, cursor)
    BY <1>1 DEF Below
  <1>4. ASSUME NEW b, NEW cursor, Answers(R, b, cursor) PROVE Answers(Q, b, cursor)
    <2>1. Lines(Q, b.page)
      BY <1>2, <1>4 DEF Answers
    <2>2. b.matching \subseteq There(R) /\ There(R) \subseteq There(Q)
      BY <1>1, <1>4 DEF Answers
    <2>3. \A i \in b.matching :
             cursor = Deliveries!NoCursor \/ Deliveries!olderThan(cursor, Key(Q, i)) =>
             i \in On(b.page) \cup Below(Q, b.page, b.nextCursor)
      BY <1>1, <1>3, <1>4, <2>2 DEF Answers
    <2> QED
      BY <1>4, <2>1, <2>2, <2>3 DEF Answers
  <1> QED
    BY <1>2, <1>3, <1>4

\* The steps of the API and of the workers, which leave the page alone.
LEMMA ServerKeeps ==
    ASSUME PageInv,
           UNCHANGED <<route, store, gate, listRequest, moreRequest, calls, under, crossed,
                       missed>>,
           rows' \in [Ids -> DeliveryRow], Grown(rows, rows'),
           wire' \in Seq(Event), \A k \in 1 .. Len(wire') : wire'[k].id \in There(rows'),
           DOMAIN told' = Ids,
           \A i \in Ids : told'[i] # "none" => told'[i] = told[i] /\ rows'[i] = rows[i],
           base' \subseteq base, base' \subseteq Matches(rows', under)
    PROVE  PageInv'
  <1>0. PageTypes /\ CallsInv /\ AnswersInv /\ ScreenInv
    BY DEF PageInv
  <1>1. /\ There(rows) \subseteq There(rows') /\ \A s : Lines(rows, s) => Lines(rows', s)
        /\ \A b, cursor : Answers(rows, b, cursor) => Answers(rows', b, cursor)
        /\ \A s, cursor : \A i \in There(rows) :
              i \in Below(rows, s, cursor) <=> i \in Below(rows', s, cursor)
    BY GrownKeeps DEF Grown
  <1>2. \A v : News(rows', told', v) \subseteq News(rows, told, v) /\ News(rows, told, v) \subseteq There(rows)
    BY <1>0 DEF News, Matches, There, PageTypes
  <1>3. base \subseteq There(rows)
    BY <1>0 DEF ScreenInv, Matches
  <1>4. PageTypes'
    BY <1>0, <1>1 DEF PageTypes
  <1>5. CallsInv'
    BY <1>0, <1>1 DEF CallsInv, Reading, Following
  <1>6. AnswersInv'
    <2>1. Clean' = Clean
      BY DEF Clean, Deliveries!Shown
    <2> QED
      BY <1>0, <1>2, <2>1 DEF AnswersInv, Reading, Following
  <1>7. ScreenInv'
    <2>1. Clean' = Clean
      BY DEF Clean, Deliveries!Shown
    <2> QED
      BY <1>0, <1>1, <1>2, <1>3, <2>1 DEF ScreenInv
  <1> QED
    BY <1>4, <1>5, <1>6, <1>7 DEF PageInv

\* create: one more row, or none.
LEMMA CreateGrows ==
    ASSUME PageTypes, NEW i \in Ids, NEW p \in Projects, Deliveries!create(i, p)
    PROVE  /\ rows' \in [Ids -> DeliveryRow] /\ Grown(rows, rows')
           /\ \A j \in Ids : j \in There(rows) => rows'[j] = rows[j]
  <1>1. PICK at \in {1, 2} :
           /\ i \notin Deliveries!Existing
           /\ rows' = [rows EXCEPT ![i] = [at |-> at, project |-> p, status |-> "PENDING"]]
    BY DEF Deliveries!create
  <1>2. i \notin There(rows)
    BY <1>1 DEF There, Deliveries!Existing
  <1>3. rows' \in [Ids -> DeliveryRow]
    BY <1>1 DEF PageTypes, DeliveryRow, Statuses
  <1>4. \A j \in Ids : j # i => rows'[j] = rows[j]
    BY <1>1 DEF PageTypes
  <1> QED
    BY <1>2, <1>3, <1>4 DEF Grown, There

LEMMA CreateKeeps ==
    ASSUME PageInv, rows' = rows \/ \E i \in Ids, p \in Projects : Deliveries!create(i, p),
           UNCHANGED <<wire, route, store, gate, listRequest, moreRequest, calls, under, base,
                       crossed, told, missed>>
    PROVE  PageInv'
  <1>1. PageTypes /\ base \subseteq Matches(rows, under)
    BY DEF PageInv, ScreenInv
  <1>2. /\ rows' \in [Ids -> DeliveryRow] /\ Grown(rows, rows')
        /\ \A j \in Ids : j \in There(rows) => rows'[j] = rows[j]
    <2>1. CASE rows' = rows
      BY <1>1, <2>1 DEF PageTypes, Grown
    <2>2. CASE \E i \in Ids, p \in Projects : Deliveries!create(i, p)
      BY <1>1, <2>2, CreateGrows
    <2> QED
      BY <2>1, <2>2
  <1>3. base' \subseteq Matches(rows', under)
    BY <1>1, <1>2 DEF Matches, Grown, There
  <1>4. \A k \in 1 .. Len(wire') : wire'[k].id \in There(rows')
    BY <1>1, <1>2 DEF PageTypes, Grown
  <1>5. \A i \in Ids : told'[i] # "none" => told'[i] = told[i] /\ rows'[i] = rows[i]
    BY <1>1, <1>2 DEF PageTypes
  <1> QED
    BY <1>1, <1>2, <1>3, <1>4, <1>5, ServerKeeps DEF PageTypes

\* A worker takes a delivery or settles an attempt.
LEMMA BecameKeeps ==
    ASSUME PageInv, NEW i \in Deliveries!Existing, NEW status \in Statuses,
           Deliveries!Became(i, status),
           wire' = wire \/ (status \in Outcomes /\ Deliveries!emit([id |-> i, status |-> status]))
    PROVE  PageInv'
  <1>0. PageTypes /\ base \subseteq Matches(rows, under)
    BY DEF PageInv, ScreenInv
  <1>1. /\ rows' = [rows EXCEPT ![i].status = status] /\ told' = [told EXCEPT ![i] = "none"]
        /\ base' = IF under.status = "" THEN base ELSE base \ {i}
        /\ UNCHANGED <<route, store, gate, listRequest, moreRequest, calls, under, crossed, missed>>
    BY DEF Deliveries!Became
  <1>2. i \in Ids /\ i \in There(rows)
    BY DEF Deliveries!Existing, There
  <1>3. /\ rows' \in [Ids -> DeliveryRow]
        /\ \A j \in Ids : /\ rows'[j].at = rows[j].at /\ rows'[j].project = rows[j].project
                          /\ j # i => rows'[j] = rows[j]
    BY <1>0, <1>1, <1>2 DEF PageTypes, DeliveryRow
  <1>4. There(rows') = There(rows) /\ Grown(rows, rows')
    BY <1>3 DEF Grown, There
  <1>5. base' \subseteq Matches(rows', under)
    BY <1>0, <1>1, <1>3, <1>4 DEF Matches, There
  <1>6. wire' \in Seq(Event) /\ \A k \in 1 .. Len(wire') : wire'[k].id \in There(rows')
    <2>1. CASE wire' = wire
      BY <1>0, <1>4, <2>1 DEF PageTypes
    <2>2. CASE status \in Outcomes /\ wire' = Append(wire, [id |-> i, status |-> status])
      <3> DEFINE e == [id |-> i, status |-> status]
      <3>1. e \in Event /\ e.id = i /\ wire' = Append(wire, e)
        BY <1>2, <2>2 DEF Event
      <3> HIDE DEF e
      <3>2. wire \in Seq(Event) /\ \A k \in 1 .. Len(wire) : wire[k].id \in There(rows)
        BY <1>0 DEF PageTypes
      <3>3. /\ wire' \in Seq(Event) /\ Len(wire') = Len(wire) + 1 /\ Len(wire) \in Nat
            /\ \A k \in 1 .. Len(wire) : wire'[k] = wire[k]
            /\ wire'[Len(wire) + 1] = e
        BY <3>1, <3>2, AppendProperties, LenProperties
      <3>4. \A k \in 1 .. Len(wire') : k \in 1 .. Len(wire) \/ k = Len(wire) + 1
        BY <3>3
      <3> QED
        BY <1>2, <1>4, <3>1, <3>2, <3>3, <3>4
    <2> QED
      BY <2>1, <2>2 DEF Deliveries!emit
  <1>7. /\ DOMAIN told' = Ids
        /\ \A j \in Ids : told'[j] # "none" => told'[j] = told[j] /\ rows'[j] = rows[j]
    BY <1>0, <1>1, <1>3 DEF PageTypes
  <1>8. base' \subseteq base
    BY <1>1
  <1> QED
    BY <1>1, <1>3, <1>4, <1>5, <1>6, <1>7, <1>8, ServerKeeps

-----------------------------------------------------------------------------
(* The requests of the screen. *)

\* load: the answers that are under way are superseded, and the list is loading.
LEMMA LoadKeeps ==
    ASSUME PageInv, GateInv, NEW s, NEW v \in Deliveries!Views, NEW kind \in LoadCalls,
           Deliveries!load(s, v, kind), route' = v, UNCHANGED <<rows, wire, under, base, crossed>>,
           DOMAIN s = StoreFields, Lines(rows, s.items), Ends(s.items, s.nextCursor),
           DOMAIN told' = Ids, \A i \in Ids : told'[i] # "none" => told'[i] = told[i]
    PROVE  PageInv'
  <1>0. PageTypes /\ CallsInv /\ ScreenInv
    BY DEF PageInv
  <1> DEFINE c == Deliveries!Call(kind, gate', listRequest'.ownSeq, v, Deliveries!NoCursor,
                                 s.pendingIds, FALSE)
  <1>1. /\ store' = [s EXCEPT !.view = v] /\ gate' = gate + 1 /\ gate \in Nat
        /\ listRequest'.loading /\ moreRequest' = [moreRequest EXCEPT !.error = FALSE]
        /\ calls' = calls \cup {c}
    BY DEF Deliveries!load, Deliveries!claimed, Deliveries!started, GateInv
  <1>2. c.kind = kind /\ c.cursor = Deliveries!NoCursor /\ c.at = "sent"
    BY DEF Deliveries!Call
  <1> HIDE DEF c
  <1>3. kind # "more" /\ LoadCalls \subseteq Reads
    BY DEF LoadCalls, Reads
  <1>4. \A d \in calls : d.seq # gate'
    BY <1>0, <1>1, <1>3 DEF GateInv, CallsInv
  <1>5. moreRequest' \in Request /\ moreRequest'.loading = moreRequest.loading
    BY <1>0, <1>1 DEF PageTypes, Request
  <1>6. PageTypes'
    <2>1. /\ DOMAIN store' = StoreFields /\ store'.items = s.items
          /\ store'.nextCursor = s.nextCursor
      BY <1>1 DEF StoreFields
    <2> QED
      BY <1>0, <1>5, <2>1 DEF PageTypes
  <1>7. CallsInv'
    <2>1. /\ \A d \in calls' : Reading(d)' => d = c
          /\ \A d \in calls' : ~Following(d)'
      BY <1>1, <1>2, <1>3, <1>4 DEF Reading, Following
    <2>2. \A d \in calls' : /\ d.kind \in LoadCalls \cup {"more"}
                            /\ d.kind \in LoadCalls => d.cursor = Deliveries!NoCursor
                            /\ d.at = "sent" \/ (d.at = "ok" /\ Answers(rows', d.body, d.cursor))
      BY <1>0, <1>1, <1>2 DEF CallsInv
    <2>3. \A d \in calls' : d.kind = "more" =>
             /\ moreRequest'.loading /\ d.seq \in Nat /\ d.seq <= gate'
             /\ \A e \in calls' : e.kind = "more" => e = d
      BY <1>0, <1>1, <1>2, <1>3, <1>5 DEF CallsInv
    <2> QED
      BY <1>1, <2>1, <2>2, <2>3 DEF CallsInv
  <1>8. ~Clean'
    BY <1>1 DEF Clean, Deliveries!Shown
  <1>9. AnswersInv'
    BY <1>1, <1>2, <1>4, <1>8 DEF AnswersInv, Reading
  <1>10. ScreenInv'
    BY <1>0, <1>8 DEF ScreenInv
  <1> QED
    BY <1>6, <1>7, <1>9, <1>10 DEF PageInv

\* loadMore, up to the request.
LEMMA MoreKeeps == ASSUME PageInv, GateInv, Deliveries!loadMore PROVE PageInv'
  <1>0. PageTypes /\ CallsInv /\ AnswersInv /\ ScreenInv
    BY DEF PageInv
  <1> DEFINE c == Deliveries!Call("more", gate, moreRequest'.ownSeq, store.view,
                                 store.nextCursor, {}, listRequest.loading)
  <1>1. /\ moreRequest' = [ownSeq |-> moreRequest.ownSeq + 1, loading |-> TRUE, error |-> FALSE]
        /\ calls' = calls \cup {c} /\ ~moreRequest.loading
        /\ store.nextCursor # Deliveries!NoCursor
        /\ UNCHANGED <<rows, wire, route, store, gate, listRequest, under, base, crossed, told,
                       missed>>
    BY DEF Deliveries!loadMore, Deliveries!started, Deliveries!followed, Deliveries!OlderOffered,
           Deliveries!serverVars
  <1>2. /\ c.kind = "more" /\ c.seq = gate /\ c.view = store.view /\ c.at = "sent"
        /\ c.cursor = store.nextCursor /\ c.early = listRequest.loading
    BY DEF Deliveries!Call
  <1> HIDE DEF c
  <1>3. gate \in Nat /\ listRequest.loading \in BOOLEAN
    BY DEF GateInv, Request
  <1>4. PageTypes'
    BY <1>0, <1>1 DEF PageTypes, Request
  <1>5. "more" \notin LoadCalls /\ \A d \in calls : d.kind # "more"
    BY <1>0, <1>1 DEF LoadCalls, CallsInv
  <1>6. CallsInv'
    BY <1>0, <1>1, <1>2, <1>3, <1>5 DEF CallsInv, Reading, Following
  <1>7. Clean' = Clean
    BY <1>1 DEF Clean, Deliveries!Shown
  <1>8. AnswersInv'
    BY <1>0, <1>1, <1>2, <1>7 DEF AnswersInv, Reading, Following
  <1>9. ScreenInv'
    BY <1>0, <1>1, <1>7 DEF ScreenInv
  <1> QED
    BY <1>4, <1>6, <1>8, <1>9 DEF PageInv

\* The API reads the rows for a request.
LEMMA AnsweredKeeps ==
    ASSUME PageInv, ListInv, NEW c \in calls, Deliveries!answered(c)
    PROVE  PageInv'
  <1>0. PageTypes /\ CallsInv /\ AnswersInv /\ ScreenInv
    BY DEF PageInv
  <1> DEFINE b == Deliveries!list(c.view, c.cursor)
             e == [c EXCEPT !.at = "ok", !.body = b]
  <1>1. /\ calls' = (calls \ {c}) \cup {e}
        /\ UNCHANGED <<rows, wire, route, store, gate, listRequest, moreRequest, under, base,
                       crossed, told, missed>>
    BY DEF Deliveries!answered, Deliveries!serverVars
  <1>2. Answers(rows, b, c.cursor) /\ b.matching = Matches(rows, c.view)
    BY <1>0, ListAnswers DEF PageTypes
  <1> HIDE DEF b
  <1>3. /\ e.kind = c.kind /\ e.seq = c.seq /\ e.view = c.view /\ e.cursor = c.cursor
        /\ e.early = c.early /\ e.counted = c.counted /\ e.at = "ok" /\ e.body = b
    BY DEF ListInv, ListCall
  <1> HIDE DEF e
  <1>4. PageTypes'
    BY <1>0, <1>1 DEF PageTypes
  <1>5. CallsInv'
    BY <1>0, <1>1, <1>2, <1>3 DEF CallsInv, Reading, Following
  <1>6. Clean' = Clean
    BY <1>1 DEF Clean, Deliveries!Shown
  <1>7. \A v : News(rows, told, v) \subseteq Matches(rows, v)
    BY DEF News
  <1>8. Clean /\ Following(c) => base \subseteq Matches(rows, c.view)
    <2>1. Following(c) => c.view = store.view
      BY <1>0 DEF CallsInv
    <2>2. Clean => under = route /\ store.view = route
      BY DEF Clean, ListInv, Deliveries!ListIsOfRoute
    <2> QED
      BY <1>0, <2>1, <2>2 DEF ScreenInv
  <1>9. AnswersInv'
    BY <1>0, <1>1, <1>2, <1>3, <1>6, <1>7, <1>8 DEF AnswersInv, Reading, Following
  <1>10. ScreenInv'
    BY <1>0, <1>1, <1>6 DEF ScreenInv
  <1> QED
    BY <1>4, <1>5, <1>9, <1>10 DEF PageInv

\* load, after the request: the list is the page that was read.
LEMMA LoadedKeeps ==
    ASSUME PageInv, ListInv, NEW c \in calls, Deliveries!loaded(c)
    PROVE  PageInv'
  <1>0. PageTypes /\ CallsInv /\ AnswersInv /\ ScreenInv /\ GateInv
    BY DEF PageInv, ListInv
  <1>1. /\ c.kind \in LoadCalls /\ c.kind \in Reads /\ calls' = calls \ {c}
        /\ UNCHANGED <<rows, wire, route, gate, moreRequest, told>>
        /\ listRequest' = [listRequest EXCEPT
               !.error = IF c.at = "sent" /\ c.seq = gate THEN TRUE ELSE @,
               !.loading = IF c.mine = listRequest.ownSeq THEN FALSE ELSE @]
    BY DEF Deliveries!loaded, Deliveries!settled, Deliveries!isCurrent, Deliveries!serverVars,
           Reads, LoadCalls
  <1>2. /\ c.seq = gate => (c.at = "sent" => listRequest'.error)
        /\ c.seq # gate => listRequest' = listRequest
    BY <1>0, <1>1, GateSettled
  <1>3. CASE c.seq # gate
    <2>1. UNCHANGED <<store, under, base, crossed, missed>>
      BY <1>3 DEF Deliveries!loaded, Deliveries!isCurrent
    <2>2. Clean' = Clean
      BY <1>2, <1>3, <2>1 DEF Clean, Deliveries!Shown
    <2>3. PageTypes'
      BY <1>0, <1>1, <2>1 DEF PageTypes
    <2>4. CallsInv'
      BY <1>0, <1>1, <1>2, <1>3, <2>1 DEF CallsInv, Reading, Following
    <2>5. AnswersInv'
      BY <1>0, <1>1, <2>1, <2>2 DEF AnswersInv, Reading, Following
    <2>6. ScreenInv'
      BY <1>0, <1>1, <2>1, <2>2 DEF ScreenInv
    <2> QED
      BY <2>3, <2>4, <2>5, <2>6 DEF PageInv
  <1>4. CASE c.seq = gate
    <2>1. \A d \in calls' : ~Reading(d)' /\ ~Following(d)'
      BY <1>0, <1>1, <1>4 DEF CallsInv, Reading, Following
    <2>2. AnswersInv'
      BY <2>1 DEF AnswersInv
    <2>3. CallsInv'
      BY <1>0, <1>1, <2>1 DEF CallsInv
    <2>4. CASE c.at = "sent"
      <3>1. /\ store' = [store EXCEPT !.items = <<>>, !.nextCursor = Deliveries!NoCursor]
            /\ UNCHANGED <<under, base, crossed>>
        BY <1>4, <2>4 DEF Deliveries!loaded, Deliveries!isCurrent
      <3>2. /\ DOMAIN store' = StoreFields /\ store'.items = <<>>
            /\ store'.nextCursor = Deliveries!NoCursor
        BY <1>0, <3>1 DEF PageTypes, StoreFields
      <3>3. Lines(rows, <<>>)
        BY EmptySeq DEF Lines
      <3>4. PageTypes'
        BY <1>0, <1>1, <3>2, <3>3 DEF PageTypes, Ends
      <3>5. ScreenInv'
        BY <1>0, <1>1, <1>2, <1>4, <2>4, <3>1 DEF ScreenInv, Clean, Deliveries!Shown
      <3> QED
        BY <2>2, <2>3, <3>4, <3>5 DEF PageInv
    <2>5. CASE c.at # "sent"
      <3>1. c.at = "ok" /\ Answers(rows, c.body, Deliveries!NoCursor) /\ c.view = route
        BY <1>0, <1>1, <1>4, <2>5 DEF CallsInv, ListInv
      <3>2. /\ store' = [store EXCEPT !.items = c.body.page, !.nextCursor = c.body.nextCursor,
                                      !.pendingIds = store.pendingIds \ c.counted]
            /\ under' = c.view
            /\ base' = {i \in c.body.matching : Deliveries!filterWhere(c.view, i)}
        <4>1. /\ store' = Deliveries!settlePending(
                              [store EXCEPT !.items = c.body.page,
                                            !.nextCursor = c.body.nextCursor], c.counted)
              /\ under' = c.view
              /\ base' = {i \in c.body.matching : Deliveries!filterWhere(c.view, i)}
          BY <1>4, <2>5 DEF Deliveries!loaded, Deliveries!isCurrent
        <4>2. DOMAIN store = StoreFields
          BY <1>0 DEF PageTypes
        <4> QED
          BY <4>1, <4>2 DEF Deliveries!settlePending, StoreFields
      <3>3. /\ DOMAIN store' = StoreFields /\ store'.items = c.body.page
            /\ store'.nextCursor = c.body.nextCursor
            /\ store'.pendingIds = store.pendingIds \ c.counted
        BY <1>0, <3>2 DEF PageTypes, StoreFields
      <3>4. PageTypes'
        BY <1>0, <1>1, <3>1, <3>3 DEF PageTypes, Answers
      <3>5. c.body.matching \subseteq On(c.body.page)
                                        \cup Below(rows, c.body.page, c.body.nextCursor)
        BY <3>1 DEF Answers
      <3>6. base' \subseteq c.body.matching /\ base' \subseteq Matches(rows, c.view)
        BY <3>2, FilterMatches
      <3>7. News(rows, told, route) \subseteq
                c.body.matching \cup (store.pendingIds \ c.counted) \cup missed'
        <4>1. News(rows, told, route) \subseteq
                  c.body.matching \cup (store.pendingIds \ c.counted)
                      \cup On(store.items) \cup c.counted
          BY <1>0, <1>1, <1>4, <3>1 DEF AnswersInv, Reading
        <4>2. missed' = Deliveries!ToldLate(c) \cap (c.counted \cup Deliveries!Known(store))
          BY <1>4, <2>5 DEF Deliveries!loaded, Deliveries!isCurrent
        <4>3. Deliveries!Known(store) = On(store.items)
          <5>1. DOMAIN store.items = 1 .. Len(store.items)
            BY <1>0, LenProperties DEF PageTypes, Lines
          <5> QED
            BY <5>1 DEF Deliveries!Known, On
        <4>4. News(rows, told, route) \ c.body.matching \subseteq Deliveries!ToldLate(c)
          BY <3>1, FilterMatches DEF Deliveries!ToldLate, News, Matches, There
        <4> QED
          BY <4>1, <4>2, <4>3, <4>4
      <3>8. ScreenInv'
        BY <1>1, <3>1, <3>2, <3>3, <3>5, <3>6, <3>7 DEF ScreenInv, Answers
      <3> QED
        BY <2>2, <2>3, <3>4, <3>8 DEF PageInv
    <2> QED
      BY <2>4, <2>5
  <1> QED
    BY <1>3, <1>4

\* One page after another.
LEMMA PagesJoin ==
    ASSUME NEW R, NEW s, NEW t, NEW next,
           Lines(R, s), Lines(R, t), Ends(t, next)
    PROVE  /\ Lines(R, s \o t) /\ Ends(s \o t, next) /\ On(s \o t) = On(s) \cup On(t)
           /\ Below(R, s \o t, next) = Below(R, t, next)
           /\ Ordered(s) /\ Ordered(t) /\ s # << >>
                 /\ (\A k \in 1 .. Len(t) : Deliveries!Newer(s[Len(s)], t[k]))
              => Ordered(s \o t)
  <1> DEFINE u == s \o t
             m == Len(s)
             n == Len(t)
  <1>1. /\ u \in Seq(Line) /\ Len(u) = m + n /\ m \in Nat /\ n \in Nat
        /\ s \in Seq(Line) /\ t \in Seq(Line)
        /\ \A k \in 1 .. m + n : u[k] = IF k <= m THEN s[k] ELSE t[k - m]
    BY ConcatProperties, LenProperties DEF Lines
  <1> HIDE DEF u
  <1>2. \A k \in 1 .. m : k \in 1 .. m + n /\ u[k] = s[k]
    BY <1>1
  <1>3. ASSUME NEW k \in 1 .. n PROVE m + k \in 1 .. m + n /\ u[m + k] = t[k]
    <2> HIDE DEF m, n
    <2>1. m + k \in 1 .. m + n /\ ~(m + k <= m) /\ (m + k) - m = k
      BY <1>1
    <2> QED
      BY <1>1, <2>1
  <1>4. \A k \in 1 .. m + n : k \in 1 .. m \/ (k - m \in 1 .. n /\ k = m + (k - m))
    BY <1>1
  <1> HIDE DEF m, n
  <1>5. Lines(R, u)
    BY <1>1, <1>2, <1>3, <1>4 DEF Lines, m, n
  <1>6. On(u) = On(s) \cup On(t)
    <2>1. \A k \in 1 .. m + n : u[k].id \in On(s) \cup On(t)
      BY <1>2, <1>3, <1>4 DEF On, m, n
    <2>2. /\ \A k \in 1 .. m : s[k].id \in On(u)
          /\ \A k \in 1 .. n : t[k].id \in On(u)
      BY <1>1, <1>2, <1>3 DEF On
    <2> QED
      BY <1>1, <2>1, <2>2 DEF On, m, n
  <1>7. t # << >> => u # << >> /\ u[Len(u)] = t[Len(t)]
    <2> SUFFICES ASSUME t # << >> PROVE u # << >> /\ u[Len(u)] = t[Len(t)]
      OBVIOUS
    <2>1. n \in Nat \ {0}
      BY <1>1, EmptySeq DEF n
    <2>2. Len(u) # 0 /\ n \in 1 .. n
      BY <1>1, <2>1
    <2> QED
      BY <1>1, <1>3, <2>2, EmptySeq DEF n
  <1>8. Ends(u, next) /\ Below(R, u, next) = Below(R, t, next)
    BY <1>7 DEF Ends, Below
  <1>9. ASSUME Ordered(s), Ordered(t), s # << >>,
               \A k \in 1 .. Len(t) : Deliveries!Newer(s[Len(s)], t[k])
        PROVE  Ordered(u)
    <2> SUFFICES ASSUME NEW j \in 1 .. m + n, NEW k \in 1 .. m + n, j < k
                 PROVE  Deliveries!Newer(u[j], u[k])
      BY <1>1 DEF Ordered
    <2>1. CASE k <= m
      <3>1. j \in 1 .. m /\ k \in 1 .. m
        BY <1>1, <2>1
      <3> QED
        BY <1>2, <1>9, <3>1 DEF Ordered, m
    <2>2. CASE ~(j <= m)
      <3>1. j - m \in 1 .. n /\ k - m \in 1 .. n /\ j - m < k - m
        BY <1>1, <2>2
      <3>2. u[j] = t[j - m] /\ u[k] = t[k - m]
        BY <1>1, <2>2
      <3> QED
        BY <1>9, <3>1, <3>2 DEF Ordered, n
    <2>3. CASE j <= m /\ ~(k <= m)
      <3>1. j \in 1 .. m /\ m \in 1 .. m /\ k - m \in 1 .. n
        BY <1>1, <2>3
      <3>2. u[j] = s[j] /\ u[k] = t[k - m]
        BY <1>1, <2>3
      <3>3. j = m \/ Deliveries!Newer(s[j], s[m])
        BY <1>1, <1>9, <3>1 DEF Ordered, m
      <3>4. Deliveries!Newer(s[m], t[k - m])
        BY <1>9, <3>1 DEF m, n
      <3>5. s[j] \in Line /\ s[m] \in Line /\ t[k - m] \in Line
        BY <1>1, <3>1, ElementOfSeq DEF m, n
      <3>6. \A r \in Line : r.at \in Nat /\ r.id \in Nat
        BY ListAssumption DEF Line
      <3> QED
        BY <3>2, <3>3, <3>4, <3>5, <3>6, NewerTransitive
    <2> QED
      BY <1>1, <2>1, <2>2, <2>3
  <1> QED
    BY <1>5, <1>6, <1>8, <1>9 DEF u

\* loadMore, after the request: the page goes on where the list ends, or the list is marked.
LEMMA AppendedKeeps ==
    ASSUME PageInv, ListInv, NEW c \in calls, Deliveries!appended(c)
    PROVE  PageInv'
  <1>0. PageTypes /\ CallsInv /\ AnswersInv /\ ScreenInv
    BY DEF PageInv
  <1>1. /\ c.kind = "more" /\ calls' = calls \ {c}
        /\ UNCHANGED <<rows, wire, route, gate, listRequest, under, base, told, missed>>
        /\ moreRequest' = [moreRequest EXCEPT
               !.error = IF c.at = "sent" /\ c.seq = gate THEN TRUE ELSE @,
               !.loading = IF c.mine = moreRequest.ownSeq THEN FALSE ELSE @]
    BY DEF Deliveries!appended, Deliveries!settled, Deliveries!isCurrent, Deliveries!serverVars
  <1>2. moreRequest' \in Request
    BY <1>0, <1>1 DEF PageTypes, Request
  <1>3. \A d \in calls' : d.kind # "more" /\ ~Following(d)'
    BY <1>0, <1>1 DEF CallsInv, Following
  <1>4. CallsInv'
    BY <1>0, <1>1, <1>3 DEF CallsInv, Reading
  <1>5. CASE ~(c.seq = gate /\ c.at = "ok")
    <2>1. UNCHANGED <<store, crossed>>
      BY <1>5 DEF Deliveries!appended, Deliveries!isCurrent
    <2>2. Clean' = Clean
      BY <1>1, <2>1 DEF Clean, Deliveries!Shown
    <2>3. PageTypes' /\ ScreenInv'
      BY <1>0, <1>1, <1>2, <2>1, <2>2 DEF PageTypes, ScreenInv
    <2>4. AnswersInv'
      BY <1>0, <1>1, <1>3, <2>1 DEF AnswersInv, Reading
    <2> QED
      BY <1>4, <2>3, <2>4 DEF PageInv
  <1>6. CASE c.seq = gate /\ c.at = "ok"
    <2> DEFINE s == store.items
               t == c.body.page
               next == c.body.nextCursor
    <2>1. /\ store' = [store EXCEPT !.items = s \o t, !.nextCursor = next]
          /\ crossed' = (crossed \/ c.early)
      BY <1>6 DEF Deliveries!appended, Deliveries!isCurrent
    <2>2. /\ DOMAIN store' = StoreFields /\ store'.items = s \o t
          /\ store'.nextCursor = next /\ store'.pendingIds = store.pendingIds
      BY <1>0, <2>1 DEF PageTypes, StoreFields
    <2>3. /\ Lines(rows, s) /\ Ends(s, store.nextCursor) /\ Answers(rows, c.body, c.cursor)
          /\ Lines(rows, t) /\ Ordered(t) /\ Ends(t, next)
      BY <1>0, <1>6 DEF PageTypes, CallsInv, Answers
    <2>4. /\ Lines(rows, s \o t) /\ Ends(s \o t, next) /\ On(s \o t) = On(s) \cup On(t)
          /\ Below(rows, s \o t, next) = Below(rows, t, next)
          /\ Ordered(s) /\ Ordered(t) /\ s # << >>
                /\ (\A k \in 1 .. Len(t) : Deliveries!Newer(s[Len(s)], t[k]))
             => Ordered(s \o t)
      <3> HIDE DEF s, t, next
      <3> QED
        BY <2>3, PagesJoin, Zenon
    <2>5. PageTypes'
      BY <1>0, <1>1, <1>2, <2>2, <2>4 DEF PageTypes
    <2>6. AnswersInv'
      BY <1>0, <1>1, <1>3, <2>2, <2>4 DEF AnswersInv, Reading
    <2>7. ASSUME Clean'
          PROVE  /\ Ordered(s \o t)
                 /\ base \subseteq On(s \o t) \cup Below(rows, s \o t, next)
                 /\ News(rows, told, route) \subseteq
                       On(s \o t) \cup store.pendingIds \cup missed \cup Below(rows, s \o t, next)
      <3>1. Clean /\ ~c.early /\ Following(c)
        BY <1>1, <1>6, <2>1, <2>7 DEF Clean, Deliveries!Shown, Following
      <3>2. /\ c.view = route /\ c.cursor = store.nextCursor /\ c.cursor # Deliveries!NoCursor
        BY <1>0, <3>1 DEF CallsInv, ListInv
      <3>3. s # << >> /\ c.cursor = Deliveries!encodeCursor(s[Len(s)])
        BY <2>3, <3>2 DEF Ends
      <3>4. \A r : Deliveries!olderThan(c.cursor, r) <=> Deliveries!Newer(s[Len(s)], r)
        <4>1. s[Len(s)] \in Line
          <5>1. Len(s) \in Nat \ {0} /\ s \in Seq(Line)
            BY <2>3, <3>3, EmptySeq DEF Lines
          <5> QED
            BY <5>1, ElementOfSeq
        <4>2. c.cursor.at = s[Len(s)].at /\ c.cursor.id = s[Len(s)].id
          BY <3>3 DEF Deliveries!encodeCursor
        <4> QED
          BY <4>2 DEF Deliveries!olderThan, Deliveries!Newer
      <3>5. Ordered(s \o t)
        <4>1. \A k \in 1 .. Len(t) : Deliveries!Newer(s[Len(s)], t[k])
          BY <2>3, <3>2, <3>4 DEF Answers
        <4>2. Ordered(s)
          BY <1>0, <3>1 DEF ScreenInv
        <4> QED
          BY <2>3, <2>4, <3>3, <4>1, <4>2
      <3>6. \A i \in c.body.matching \cap Below(rows, s, store.nextCursor) :
               i \in On(t) \cup Below(rows, t, next)
        BY <2>3, <3>4 DEF Answers, Below
      <3>7. /\ base \subseteq c.body.matching
            /\ News(rows, told, route) \subseteq
                  c.body.matching \cup On(s) \cup store.pendingIds \cup missed
        BY <1>0, <1>6, <3>1, <3>2 DEF AnswersInv
      <3>8. /\ base \subseteq On(s) \cup Below(rows, s, store.nextCursor)
            /\ News(rows, told, route) \subseteq
                  On(s) \cup store.pendingIds \cup missed \cup Below(rows, s, store.nextCursor)
        BY <1>0, <3>1 DEF ScreenInv
      <3> HIDE DEF s, t, next
      <3> QED
        BY <2>4, <3>5, <3>6, <3>7, <3>8
    <2>8. ScreenInv'
      BY <1>0, <1>1, <2>2, <2>7 DEF ScreenInv
    <2> QED
      BY <1>4, <2>5, <2>6, <2>8 DEF PageInv
  <1> QED
    BY <1>5, <1>6

-----------------------------------------------------------------------------
(* What the page is told. *)

\* A line takes the status of an event: nothing else of it changes.
LEMMA Patched ==
    ASSUME PageTypes, NEW i, NEW status \in Statuses
    PROVE  LET s == Deliveries!patch(store, i, status)
           IN  /\ DOMAIN s = StoreFields /\ s.nextCursor = store.nextCursor
               /\ s.pendingIds = store.pendingIds /\ s.view = store.view
               /\ Lines(rows, s.items) /\ Ends(s.items, s.nextCursor)
               /\ On(s.items) = On(store.items)
               /\ Ordered(store.items) => Ordered(s.items)
               /\ Below(rows, s.items, s.nextCursor) = Below(rows, store.items, store.nextCursor)
  <1> DEFINE s == Deliveries!patch(store, i, status)
             u == store.items
             w == s.items
             n == Len(u)
  <1>1. /\ u \in Seq(Line) /\ DOMAIN u = 1 .. n /\ n \in Nat /\ DOMAIN store = StoreFields
        /\ Lines(rows, u) /\ Ends(u, store.nextCursor)
        /\ \A k \in 1 .. n : u[k] \in Line
    BY LenProperties, ElementOfSeq DEF PageTypes, Lines
  <1>2. /\ DOMAIN s = StoreFields /\ s.nextCursor = store.nextCursor
        /\ s.pendingIds = store.pendingIds /\ s.view = store.view
        /\ w = [k \in 1 .. n |-> IF u[k].id = i THEN [u[k] EXCEPT !.status = status] ELSE u[k]]
    BY <1>1 DEF Deliveries!patch, StoreFields
  <1> HIDE DEF s, u
  <1>3. \A k \in 1 .. n : w[k] \in Line /\ w[k].id = u[k].id /\ w[k].at = u[k].at
    BY <1>1, <1>2 DEF Line
  <1>4. w \in Seq(Line) /\ Len(w) = n
    <2>1. w \in [1 .. n -> Line]
      BY <1>2, <1>3
    <2> HIDE DEF w, n
    <2>2. w \in Seq(Line)
      BY <1>1, <2>1, SeqDef
    <2> QED
      BY <1>1, <2>1, <2>2, LenProperties
  <1> HIDE DEF w, n
  <1>5. Lines(rows, w)
    BY <1>1, <1>3, <1>4 DEF Lines, Fits, n
  <1>6. /\ u # << >> => n \in 1 .. n /\ w # << >>
        /\ u = << >> => w = << >>
    BY <1>1, <1>4, EmptySeq DEF n
  <1>7. Ends(w, s.nextCursor)
    BY <1>1, <1>2, <1>3, <1>4, <1>6 DEF Ends, Deliveries!encodeCursor, n
  <1>8. On(w) = On(u)
    BY <1>3, <1>4 DEF On, n
  <1>9. Ordered(u) => Ordered(w)
    BY <1>3, <1>4 DEF Ordered, Deliveries!Newer, n
  <1>10. Below(rows, w, s.nextCursor) = Below(rows, u, store.nextCursor)
    BY <1>1, <1>2, <1>3, <1>4, <1>6 DEF Below, Ends, Deliveries!Newer, n
  <1> QED
    BY <1>2, <1>5, <1>7, <1>8, <1>9, <1>10 DEF s, u, w

\* applyRealtime: an event is on screen or counted afterwards.
LEMMA EventKeeps == ASSUME PageInv, Deliveries!applyRealtime PROVE PageInv'
  <1>0. PageTypes /\ CallsInv /\ AnswersInv /\ ScreenInv
    BY DEF PageInv
  <1> DEFINE e == Head(wire)
             known == e.id \in Deliveries!Known(store)
  <1>1. /\ wire # << >> /\ wire' = Tail(wire)
        /\ UNCHANGED <<rows, route, gate, listRequest, moreRequest, calls, under, base, crossed>>
        /\ store' = IF known THEN Deliveries!patch(store, e.id, e.status)
                    ELSE Deliveries!noteUnknown(store, e.id)
        /\ told' = [told EXCEPT ![e.id] = e.status]
        /\ missed' = missed \ {e.id}
    BY DEF Deliveries!applyRealtime
  <1>2. wire \in Seq(Event) /\ \A k \in 1 .. Len(wire) : wire[k].id \in There(rows)
    BY <1>0 DEF PageTypes
  <1>3. /\ wire' \in Seq(Event) /\ \A k \in 1 .. Len(wire') : wire'[k].id \in There(rows)
    BY <1>1, <1>2, HeadTailProperties, LenProperties, EmptySeq
  <1>4. e.id \in There(rows) /\ e.id \in Ids /\ e.status \in Statuses
    <2>1. e \in Event /\ e = wire[1] /\ 1 \in 1 .. Len(wire)
      BY <1>1, <1>2, HeadTailProperties, EmptySeq
    <2> QED
      BY <1>2, <2>1 DEF Event, Statuses
  <1>5. known <=> e.id \in On(store.items)
    <2>1. DOMAIN store.items = 1 .. Len(store.items)
      BY <1>0, LenProperties DEF PageTypes, Lines
    <2> QED
      BY <2>1 DEF Deliveries!Known, On
  <1> HIDE DEF known
  <1>6. /\ DOMAIN store' = StoreFields /\ store'.nextCursor = store.nextCursor
        /\ store'.view = store.view
        /\ Lines(rows, store'.items) /\ Ends(store'.items, store'.nextCursor)
        /\ On(store'.items) = On(store.items)
        /\ Ordered(store.items) => Ordered(store'.items)
        /\ Below(rows, store'.items, store'.nextCursor)
               = Below(rows, store.items, store.nextCursor)
        /\ store.pendingIds \subseteq store'.pendingIds
        /\ ~known => e.id \in store'.pendingIds
    <2>1. CASE known
      BY <1>0, <1>1, <1>4, <2>1, Patched
    <2>2. CASE ~known
      <3>1. store' = [store EXCEPT !.pendingIds = store.pendingIds \cup {e.id}]
        BY <1>1, <2>2 DEF Deliveries!noteUnknown
      <3> QED
        BY <1>0, <2>2, <3>1 DEF PageTypes, StoreFields
    <2> QED
      BY <2>1, <2>2
  <1>7. /\ DOMAIN told' = Ids /\ \A i \in Ids : i # e.id => told'[i] = told[i]
        /\ e.id \in On(store'.items) \cup store'.pendingIds /\ missed' = missed \ {e.id}
    BY <1>0, <1>1, <1>4, <1>5, <1>6 DEF PageTypes
  <1> HIDE DEF e
  <1>8. \A v : News(rows, told', v) \subseteq News(rows, told, v) \cup {e.id}
    BY <1>7 DEF News, Matches, There
  <1>9. Clean' = Clean
    BY <1>1 DEF Clean, Deliveries!Shown
  <1>10. PageTypes'
    BY <1>0, <1>1, <1>3, <1>4, <1>6, <1>7 DEF PageTypes
  <1>11. CallsInv'
    BY <1>0, <1>1, <1>6 DEF CallsInv, Reading, Following
  <1>12. AnswersInv'
    <2>1. ASSUME NEW c \in calls, Reading(c), c.at = "ok"
          PROVE  News(rows, told', c.view) \subseteq
                     c.body.matching \cup (store'.pendingIds \ c.counted)
                         \cup On(store'.items) \cup c.counted
      BY <1>0, <1>6, <1>7, <1>8, <2>1 DEF AnswersInv
    <2>2. ASSUME Clean, NEW c \in calls, Following(c), c.at = "ok"
          PROVE  /\ base \subseteq c.body.matching
                 /\ News(rows, told', c.view) \subseteq
                        c.body.matching \cup On(store'.items) \cup store'.pendingIds \cup missed'
      BY <1>0, <1>6, <1>7, <1>8, <2>2 DEF AnswersInv
    <2>3. \A c : Reading(c)' = Reading(c) /\ Following(c)' = Following(c)
      BY <1>1 DEF Reading, Following
    <2> QED
      BY <1>1, <1>9, <2>1, <2>2, <2>3 DEF AnswersInv
  <1>13. ScreenInv'
    BY <1>0, <1>1, <1>6, <1>7, <1>8, <1>9 DEF ScreenInv
  <1> QED
    BY <1>10, <1>11, <1>12, <1>13 DEF PageInv

\* dismissPending: the operator has seen what was counted.
LEMMA DismissKeeps == ASSUME PageInv, Deliveries!dismissPending PROVE PageInv'
  <1>0. PageTypes /\ CallsInv /\ AnswersInv /\ ScreenInv
    BY DEF PageInv
  <1>1. /\ store' = [store EXCEPT !.pendingIds = {}] /\ told' = [i \in Ids |-> "none"]
        /\ UNCHANGED <<rows, wire, route, gate, listRequest, moreRequest, calls, under, base,
                       crossed, missed>>
    BY DEF Deliveries!dismissPending, Deliveries!Untold, Deliveries!serverVars
  <1>2. /\ DOMAIN store' = StoreFields /\ store'.items = store.items
        /\ store'.nextCursor = store.nextCursor /\ store'.view = store.view
    BY <1>0, <1>1 DEF PageTypes, StoreFields
  <1>3. \A v : News(rows, told', v) = {}
    BY <1>1 DEF News, Matches, There
  <1>4. Clean' = Clean
    BY <1>1 DEF Clean, Deliveries!Shown
  <1>5. PageTypes'
    BY <1>0, <1>1, <1>2 DEF PageTypes
  <1>6. CallsInv'
    BY <1>0, <1>1, <1>2 DEF CallsInv, Reading, Following
  <1>7. AnswersInv'
    BY <1>0, <1>1, <1>3, <1>4 DEF AnswersInv, Reading, Following
  <1>8. ScreenInv'
    BY <1>0, <1>1, <1>2, <1>3, <1>4 DEF ScreenInv
  <1> QED
    BY <1>5, <1>6, <1>7, <1>8 DEF PageInv

-----------------------------------------------------------------------------
(* The screen, from its first load on. *)

LEMMA PageInit == Deliveries!DeliveryInit => PageInv
  <1> SUFFICES ASSUME Deliveries!DeliveryInit PROVE PageInv
    OBVIOUS
  <1> DEFINE c == Deliveries!Call("load", 1, 1, route, Deliveries!NoCursor, {}, FALSE)
  <1>1. /\ wire = <<>> /\ gate = 1 /\ calls = {c} /\ base = {} /\ route \in Deliveries!Views
        /\ listRequest = Deliveries!started(Deliveries!Quiet) /\ moreRequest = Deliveries!Quiet
        /\ store = [items |-> <<>>, nextCursor |-> Deliveries!NoCursor, pendingIds |-> {},
                    view |-> route]
        /\ told = [i \in Ids |-> "none"] /\ Deliveries!DeliveryRows
    BY DEF Deliveries!DeliveryInit, Deliveries!Empty, Deliveries!Untold
  <1>2. /\ c.kind = "load" /\ c.seq = 1 /\ c.at = "sent" /\ c.cursor = Deliveries!NoCursor
    BY DEF Deliveries!Call
  <1> HIDE DEF c
  <1>3. listRequest.loading /\ moreRequest \in Request
    BY <1>1 DEF Deliveries!started, Deliveries!Quiet, Request
  <1>4. rows \in [Ids -> DeliveryRow]
    <2>1. PICK there \in SUBSET Ids :
             rows = [i \in Ids |->
                 IF i \in there
                 THEN [at |-> 1, project |-> route.project, status |-> "FAILED_PERMANENTLY"]
                 ELSE [at |-> 0, project |-> NoProject, status |-> "none"]]
      BY <1>1 DEF Deliveries!DeliveryRows
    <2>2. route.project \in Projects
      BY <1>1 DEF Deliveries!Views
    <2> QED
      BY <2>1, <2>2 DEF DeliveryRow, Statuses
  <1>5. PageTypes
    <2>1. /\ Lines(rows, <<>>) /\ wire \in Seq(Event) /\ Len(wire) = 0
      BY <1>1, EmptySeq DEF Lines
    <2> QED
      BY <1>1, <1>3, <1>4, <2>1 DEF PageTypes, StoreFields, Ends
  <1>6. CallsInv
    BY <1>1, <1>2, <1>3 DEF CallsInv, LoadCalls, Reading, Following
  <1>7. ~Clean
    BY <1>3 DEF Clean, Deliveries!Shown
  <1>8. AnswersInv /\ ScreenInv
    BY <1>1, <1>2, <1>7 DEF AnswersInv, ScreenInv
  <1> QED
    BY <1>5, <1>6, <1>8 DEF PageInv

\* Every step of the screen, of the API and of the workers.
LEMMA PageStep == ASSUME PageInv, ListInv, Deliveries!DeliveryNext PROVE PageInv'
  <1> USE DEF Deliveries!serverVars, Deliveries!listVars
  <1>0. /\ PageTypes /\ GateInv /\ route \in Deliveries!Views /\ store.view = route
        /\ DOMAIN store = StoreFields /\ Lines(rows, store.items)
        /\ Ends(store.items, store.nextCursor)
    BY DEF PageInv, ListInv, PageTypes
  <1>1. ASSUME rows' = rows \/ \E i \in Ids, p \in Projects : Deliveries!create(i, p),
               UNCHANGED <<wire, route, store, gate, listRequest, moreRequest, calls, under,
                           base, crossed, told, missed>>
        PROVE  PageInv'
    BY <1>1, CreateKeeps
  <1>2. ASSUME NEW i \in Ids, Deliveries!publish(i) PROVE PageInv'
    BY <1>1, <1>2 DEF Deliveries!publish
  <1>3. ASSUME NEW i \in Ids, Deliveries!attempting(i) PROVE PageInv'
    BY <1>3, BecameKeeps DEF Deliveries!attempting, Statuses
  <1>4. ASSUME NEW i \in Ids, NEW status \in Outcomes, Deliveries!attempted(i, status)
        PROVE  PageInv'
    BY <1>4, BecameKeeps DEF Deliveries!attempted, Statuses
  <1>5. ASSUME NEW s, NEW v \in Deliveries!Views, NEW kind \in LoadCalls,
               Deliveries!load(s, v, kind), route' = v, UNCHANGED <<rows, wire, under, base, crossed>>,
               s = store \/ s = Deliveries!reset(store),
               told' = told \/ told' = Deliveries!Untold
        PROVE  PageInv'
    <2>1. DOMAIN s = StoreFields /\ Lines(rows, s.items) /\ Ends(s.items, s.nextCursor)
      <3>1. Lines(rows, <<>>)
        BY EmptySeq DEF Lines
      <3>2. CASE s = Deliveries!reset(store)
        <4>1. /\ DOMAIN s = StoreFields /\ s.items = <<>>
              /\ s.nextCursor = Deliveries!NoCursor
          BY <1>0, <3>2 DEF Deliveries!reset, StoreFields
        <4> QED
          BY <3>1, <4>1 DEF Ends
      <3> QED
        BY <1>0, <1>5, <3>2
    <2>2. DOMAIN told' = Ids /\ \A i \in Ids : told'[i] # "none" => told'[i] = told[i]
      BY <1>0, <1>5 DEF PageTypes, Deliveries!Untold
    <2> QED
      BY <1>0, <1>5, <2>1, <2>2, LoadKeeps
  <1>6. ASSUME NEW v \in Deliveries!Views, Deliveries!navigate(v) PROVE PageInv'
    <2>1. PICK s : /\ Deliveries!load(s, v, "load") /\ route' = v
                   /\ s = store \/ s = Deliveries!reset(store)
      BY <1>6 DEF Deliveries!navigate
    <2>2. "load" \in LoadCalls /\ UNCHANGED <<rows, wire, under, base, crossed>>
          /\ (told' = told \/ told' = Deliveries!Untold)
      BY <1>6 DEF Deliveries!navigate, LoadCalls
    <2> QED
      BY <1>5, <2>1, <2>2
  <1>7. ASSUME Deliveries!applyPending \/ Deliveries!bulkAnswered PROVE PageInv'
    <2>1. PICK kind \in LoadCalls : Deliveries!load(store, route, kind)
      BY <1>0, <1>7 DEF Deliveries!applyPending, Deliveries!bulkAnswered, Deliveries!refresh,
                        LoadCalls
    <2>2. route' = route /\ told' = told /\ UNCHANGED <<rows, wire, under, base, crossed>>
      BY <1>7 DEF Deliveries!applyPending, Deliveries!bulkAnswered
    <2> QED
      BY <1>0, <1>5, <2>1, <2>2
  <1>8. ASSUME Deliveries!openConfirm \/ Deliveries!closeConfirm \/ Deliveries!runBulkReplay
        PROVE  PageInv'
    <2>1. CASE Deliveries!openConfirm \/ Deliveries!closeConfirm
      BY <1>1, <2>1 DEF Deliveries!openConfirm, Deliveries!closeConfirm
    <2>2. CASE Deliveries!runBulkReplay
      <3>1. rows' = rows \/ \E i \in Ids : Deliveries!create(i, route.project)
        BY <2>2 DEF Deliveries!runBulkReplay, Deliveries!bulkReplay
      <3>2. route.project \in Projects
        BY <1>0 DEF Deliveries!Views
      <3> QED
        BY <1>1, <2>2, <3>1, <3>2 DEF Deliveries!runBulkReplay
    <2> QED
      BY <1>8, <2>1, <2>2
  <1> QED
    BY <1>0, <1>2, <1>3, <1>4, <1>6, <1>7, <1>8, MoreKeeps, AnsweredKeeps, LoadedKeeps,
       AppendedKeeps, EventKeeps, DismissKeeps
    DEF Deliveries!DeliveryNext

\* What the screen shows between loads.
LEMMA PageShows ==
    ASSUME PageInv, ListInv
    PROVE  Deliveries!ListHasNoHoles /\ Deliveries!ToldIsNoticed
  <1>1. /\ store.items \in Seq(Line) /\ DOMAIN store.items = 1 .. Len(store.items)
        /\ Len(store.items) \in Nat /\ Ends(store.items, store.nextCursor)
    BY LenProperties DEF PageInv, PageTypes, Lines
  <1>2. Deliveries!Known(store) = On(store.items)
    BY <1>1 DEF Deliveries!Known, On
  <1>3. \A i \in Below(rows, store.items, store.nextCursor) :
           /\ store.nextCursor # Deliveries!NoCursor
           /\ Deliveries!Newer(Deliveries!Last, Deliveries!deliveryListView(i))
    BY DEF Below, Deliveries!Last, Deliveries!Newer, Deliveries!deliveryListView, Key
  <1>4. ASSUME Clean PROVE Deliveries!Whole
    <2>1. /\ Ordered(store.items)
          /\ base \subseteq On(store.items) \cup Below(rows, store.items, store.nextCursor)
      BY <1>4 DEF PageInv, ScreenInv
    <2>2. \A k \in 1 .. Len(store.items) - 1 :
             Deliveries!Newer(store.items[k], store.items[k + 1])
      BY <1>1, <2>1 DEF Ordered
    <2> QED
      BY <1>2, <1>3, <2>1, <2>2 DEF Deliveries!Whole
  <1>5. ASSUME Clean, NEW i \in Ids, Deliveries!News(i)
        PROVE  Deliveries!Noticed(i) \/ i \in missed
    <2>1. i \in News(rows, told, route)
      BY <1>5, FilterMatches DEF Deliveries!Matches, Deliveries!News, News
    <2> QED
      BY <1>2, <1>3, <1>5, <2>1 DEF PageInv, ScreenInv, Deliveries!Noticed
  <1> QED
    BY <1>4, <1>5 DEF Clean, Deliveries!ListHasNoHoles, Deliveries!ToldIsNoticed

-----------------------------------------------------------------------------
(* The panel of a delivery. *)

DetailCall == {"kind", "id", "seq", "mine", "at", "body"}
DetailInv ==
    /\ GateInv
    /\ \A c \in calls : DOMAIN c = DetailCall
    /\ "delivery" \in DOMAIN panel
    /\ \A c \in calls : c.kind = "get" =>
          /\ c.seq = gate /\ route # NoDelivery => c.id = route
          /\ c.at = "sent" \/ (c.at = "ok" /\ c.body.id = c.id)
    /\ \A c \in calls : c.kind \in {"get", "replay"}
    /\ Detail!DetailIsOfRoute

\* The panel is mounted with its first request under way.
LEMMA DetailInits == Detail!DetailInit => DetailInv
  <1> SUFFICES ASSUME Detail!DetailInit PROVE DetailInv
    OBVIOUS
  <1> DEFINE c == Detail!Call("get", route, 1, 1)
  <1>1. gate = 1 /\ calls = {c} /\ listRequest = Detail!started(Detail!Quiet)
        /\ "delivery" \in DOMAIN panel
    BY DEF Detail!DetailInit
  <1>2. listRequest = [ownSeq |-> 1, loading |-> TRUE, error |-> FALSE]
    BY <1>1 DEF Detail!started, Detail!Quiet
  <1>3. /\ c.seq = 1 /\ c.mine = 1 /\ c.id = route /\ c.kind = "get" /\ c.at = "sent"
        /\ DOMAIN c = DetailCall
    BY DEF Detail!Call, DetailCall
  <1> HIDE DEF c
  <1> QED
    BY <1>1, <1>2, <1>3 DEF DetailInv, GateInv, Request, Detail!DetailIsOfRoute

\* load, for the delivery the URL names afterwards.
LEMMA DetailLoads == ASSUME DetailInv, Detail!load(route') PROVE DetailInv'
  <1> DEFINE c == Detail!Call("get", route', gate', listRequest'.ownSeq)
  <1>1. /\ gate' = gate + 1 /\ calls' = calls \cup {c}
        /\ listRequest' = [ownSeq |-> listRequest.ownSeq + 1, loading |-> TRUE, error |-> FALSE]
        /\ "delivery" \in DOMAIN panel'
    BY DEF Detail!load, Detail!claimed, Detail!started, DetailInv
  <1>2. /\ c.seq = gate' /\ c.mine = listRequest'.ownSeq /\ c.id = route' /\ c.kind = "get"
        /\ c.at = "sent" /\ DOMAIN c = DetailCall
    BY DEF Detail!Call, DetailCall
  <1> HIDE DEF c
  <1>3. /\ GateInv' /\ listRequest'.loading
        /\ \A d \in calls' : d.kind \in Reads /\ d.seq = gate' => d = c
    BY <1>1, <1>2, GateClaimed DEF DetailInv
  <1> QED
    BY <1>1, <1>2, <1>3 DEF DetailInv, Detail!DetailIsOfRoute, Reads

\* The steps that neither load nor navigate.
LEMMA DetailKept ==
    ASSUME DetailInv, UNCHANGED <<route, gate, listRequest>>, "delivery" \in DOMAIN panel',
           panel'.delivery = panel.delivery,
           \A d \in calls' : d \in calls \/
               /\ DOMAIN d = DetailCall
               /\ d.kind = "replay" \/
                     /\ d.kind = "get" /\ d.at = "ok" /\ d.body.id = d.id
                     /\ \E c \in calls :
                           c.kind = "get" /\ d.id = c.id /\ d.seq = c.seq /\ d.mine = c.mine
    PROVE  DetailInv'
  <1>1. GateInv'
    BY GateKept DEF DetailInv, Reads
  <1> QED
    BY <1>1 DEF DetailInv, Detail!DetailIsOfRoute

\* Every step of the panel keeps it on the delivery of the URL.
LEMMA DetailStep == ASSUME DetailInv, Detail!DetailNext PROVE DetailInv'
  <1>0. /\ GateInv /\ (\A c \in calls : DOMAIN c = DetailCall) /\ "delivery" \in DOMAIN panel
    BY DEF DetailInv
  <1>1. ASSUME UNCHANGED <<route, gate, listRequest>>, calls' \subseteq calls,
               panel' = panel \/ ("delivery" \in DOMAIN panel' /\ panel'.delivery = panel.delivery)
        PROVE  DetailInv'
    BY <1>0, <1>1, DetailKept
  <1>2. ASSUME NEW c \in calls, Detail!get(c) PROVE DetailInv'
    <2> DEFINE d == [c EXCEPT !.at = "ok", !.body = Detail!deliveryView(c.id)]
    <2>1. /\ UNCHANGED <<route, gate, listRequest, panel>> /\ c.kind = "get"
          /\ calls' = (calls \ {c}) \cup {d}
      BY <1>2 DEF Detail!get, Detail!Answer
    <2>2. /\ DOMAIN d = DetailCall /\ d.kind = c.kind /\ d.id = c.id /\ d.seq = c.seq
          /\ d.mine = c.mine /\ d.at = "ok" /\ d.body.id = c.id
      BY <1>0 DEF DetailCall, Detail!deliveryView
    <2> HIDE DEF d
    <2> QED
      BY <1>0, <2>1, <2>2, DetailKept
  <1>3. ASSUME NEW c \in calls, Detail!replayOf(c) PROVE DetailInv'
    <2>1. PICK at, body : /\ UNCHANGED <<route, gate, listRequest, panel>> /\ c.kind = "replay"
                          /\ calls' = (calls \ {c}) \cup {[c EXCEPT !.at = at, !.body = body]}
      BY <1>3 DEF Detail!replayOf, Detail!Answer
    <2>2. /\ DOMAIN [c EXCEPT !.at = at, !.body = body] = DetailCall
          /\ [c EXCEPT !.at = at, !.body = body].kind = c.kind
      BY <1>0 DEF DetailCall
    <2> QED
      BY <1>0, <2>1, <2>2, DetailKept
  <1>4. ASSUME NEW c \in calls, Detail!loaded(c) PROVE DetailInv'
    <2>1. /\ c.kind = "get" /\ calls' = calls \ {c} /\ gate' = gate /\ route' = route
          /\ listRequest' = [listRequest EXCEPT
                 !.error = IF c.at = "sent" /\ c.seq = gate THEN TRUE ELSE @,
                 !.loading = IF c.mine = listRequest.ownSeq THEN FALSE ELSE @]
      BY <1>4 DEF Detail!loaded, Detail!settled, Detail!isCurrent
    <2>2. /\ GateInv'
          /\ c.seq = gate => (c.at = "sent" => listRequest'.error)
          /\ c.seq # gate => listRequest' = listRequest
      BY <1>0, <2>1, GateSettled DEF Reads
    <2>3. CASE c.seq # gate
      <3>1. panel' = panel
        BY <1>4, <2>3 DEF Detail!loaded, Detail!isCurrent
      <3> QED
        BY <1>1, <2>1, <2>2, <2>3, <3>1
    <2>4. CASE c.seq = gate
      <3>1. "delivery" \in DOMAIN panel' /\ (c.at = "ok" => panel'.delivery = c.body)
        BY <1>0, <1>4, <2>4 DEF Detail!loaded, Detail!isCurrent
      <3> QED
        BY <2>1, <2>2, <2>4, <3>1 DEF DetailInv, Detail!DetailIsOfRoute
    <2> QED
      BY <2>3, <2>4
  <1>5. ASSUME NEW c \in calls, Detail!replayed(c) PROVE DetailInv'
    BY <1>0, <1>1, <1>5 DEF Detail!replayed
  <1>6. ASSUME NEW i \in Ids, Detail!watchDeliveryId(i) PROVE DetailInv'
    BY <1>6, DetailLoads DEF Detail!watchDeliveryId
  <1>7. ASSUME NEW i \in Ids, NEW status, Detail!attempted(i, status) PROVE DetailInv'
    BY <1>1, <1>7 DEF Detail!attempted
  <1>8. ASSUME Detail!retry PROVE DetailInv'
    BY <1>8, DetailLoads DEF Detail!retry
  <1>9. ASSUME Detail!replay PROVE DetailInv'
    <2>1. /\ Detail!Call("replay", route, 0, 0).kind = "replay"
          /\ DOMAIN Detail!Call("replay", route, 0, 0) = DetailCall
      BY DEF Detail!Call, DetailCall
    <2>2. /\ UNCHANGED <<route, gate, listRequest>> /\ "delivery" \in DOMAIN panel'
          /\ panel'.delivery = panel.delivery
          /\ calls' = calls \cup {Detail!Call("replay", route, 0, 0)}
      BY <1>0, <1>9 DEF Detail!replay
    <2> QED
      BY <2>1, <2>2, DetailKept
  <1>10. ASSUME Detail!close PROVE DetailInv'
    BY <1>10 DEF Detail!close, DetailInv, GateInv, Detail!DetailIsOfRoute
  <1> QED
    BY <1>2, <1>3, <1>4, <1>5, <1>6, <1>7, <1>8, <1>9, <1>10 DEF Detail!DetailNext

-----------------------------------------------------------------------------
(* The tables of the settings. *)

TableCall == {"kind", "id", "from", "project", "seq", "mine", "adds", "at", "rows"}
TableInv ==
    /\ GateInv
    /\ \A c \in calls : DOMAIN c = TableCall /\ c.kind \in {"list", "add", "drop"}
    /\ "rows" \in DOMAIN list
    /\ \A c \in calls : c.kind = "list" =>
          /\ c.seq = gate /\ route # NoProject => c.project = route
          /\ \A r \in c.rows : r.project = c.project
    /\ Settings!TableIsOfRoute

\* The first load of the section is under way.
LEMMA TableInits == Settings!ManagedInit => TableInv
  <1> SUFFICES ASSUME Settings!ManagedInit PROVE TableInv
    OBVIOUS
  <1> DEFINE c == Settings!Call("list", NoItem, route, route, 1, 1, FALSE)
  <1>1. gate = 1 /\ calls = {c} /\ listRequest = Settings!started(Settings!Quiet)
        /\ "rows" \in DOMAIN list
    BY DEF Settings!ManagedInit
  <1>2. listRequest = [ownSeq |-> 1, loading |-> TRUE, error |-> FALSE]
    BY <1>1 DEF Settings!started, Settings!Quiet
  <1>3. /\ c.seq = 1 /\ c.mine = 1 /\ c.project = route /\ c.kind = "list" /\ c.rows = {}
        /\ DOMAIN c = TableCall
    BY DEF Settings!Call, TableCall
  <1> HIDE DEF c
  <1> QED
    BY <1>1, <1>2, <1>3 DEF TableInv, GateInv, Request, Settings!TableIsOfRoute

\* load, for the project the URL names afterwards.
LEMMA TableLoads ==
    ASSUME TableInv, NEW others \in SUBSET calls, NEW adds, Settings!load(route', others, adds),
           "rows" \in DOMAIN list'
    PROVE  TableInv'
  <1> DEFINE c == Settings!Call("list", NoItem, route', route', gate', listRequest'.ownSeq, adds)
  <1>1. /\ gate' = gate + 1 /\ calls' = others \cup {c}
        /\ listRequest' = [ownSeq |-> listRequest.ownSeq + 1, loading |-> TRUE, error |-> FALSE]
    BY DEF Settings!load, Settings!claimed, Settings!started
  <1>2. /\ c.seq = gate' /\ c.mine = listRequest'.ownSeq /\ c.project = route' /\ c.kind = "list"
        /\ c.rows = {} /\ DOMAIN c = TableCall
    BY DEF Settings!Call, TableCall
  <1> HIDE DEF c
  <1>3. /\ GateInv' /\ listRequest'.loading
        /\ \A d \in calls' : d.kind \in Reads /\ d.seq = gate' => d = c
    BY <1>1, <1>2, GateClaimed DEF TableInv
  <1> QED
    BY <1>1, <1>2, <1>3 DEF TableInv, Settings!TableIsOfRoute, Reads

\* The steps that neither load nor navigate.
LEMMA TableKept ==
    ASSUME TableInv, UNCHANGED <<route, gate, listRequest>>, "rows" \in DOMAIN list',
           \A r \in list'.rows : \E old \in list.rows : r.project = old.project,
           \A d \in calls' : d \in calls \/
               /\ DOMAIN d = TableCall
               /\ d.kind \in {"add", "drop"} \/
                     /\ d.kind = "list" /\ \A r \in d.rows : r.project = d.project
                     /\ \E c \in calls : /\ c.kind = "list" /\ d.project = c.project
                                         /\ d.seq = c.seq /\ d.mine = c.mine
    PROVE  TableInv'
  <1>1. GateInv'
    BY GateKept DEF TableInv, Reads
  <1> QED
    BY <1>1 DEF TableInv, Settings!TableIsOfRoute

\* Every step of the settings keeps the table that of the project in the URL.
LEMMA TableStep == ASSUME TableInv, Settings!ManagedNext PROVE TableInv'
  <1>0. /\ GateInv /\ (\A c \in calls : DOMAIN c = TableCall) /\ "rows" \in DOMAIN list
    BY DEF TableInv
  <1>1. ASSUME UNCHANGED <<route, gate, listRequest>>, calls' \subseteq calls,
               "rows" \in DOMAIN list', list'.rows = list.rows
        PROVE  TableInv'
    BY <1>0, <1>1, TableKept
  <1>2. ASSUME NEW c \in calls, Settings!Serving(c) PROVE TableInv'
    <2>1. UNCHANGED <<route, gate, listRequest, list>>
      BY <1>2 DEF Settings!Serving
    <2>2. PICK at, rs : /\ calls' = (calls \ {c}) \cup {[c EXCEPT !.at = at, !.rows = rs]}
                        /\ c.kind = "list" => \A r \in rs : r.project = c.project
      <3>1. CASE Settings!serveList(c)
        <4> DEFINE rs == {Settings!Row(c.project, i) :
                             i \in {j \in Items : held[c.project][j] # "none"}}
        <4>1. PICK at : calls' = (calls \ {c}) \cup {[c EXCEPT !.at = at, !.rows = rs]}
          BY <3>1 DEF Settings!serveList, Settings!Answered
        <4>2. \A r \in rs : r.project = c.project
          BY DEF Settings!Row
        <4> HIDE DEF rs
        <4> QED
          BY <4>1, <4>2
      <3>2. CASE Settings!serveAdd(c) \/ Settings!serveRemove(c) \/ Settings!serveRevoke(c)
        <4>1. c.kind # "list"
          BY <3>2 DEF Settings!serveAdd, Settings!serveRemove, Settings!serveRevoke
        <4>2. \E rs : Settings!Answered(c, rs)
          BY <3>2 DEF Settings!serveAdd, Settings!serveRemove, Settings!serveRevoke
        <4> QED
          BY <4>1, <4>2 DEF Settings!Answered
      <3> QED
        BY <1>2, <3>1, <3>2 DEF Settings!Serving
    <2> DEFINE d == [c EXCEPT !.at = at, !.rows = rs]
    <2>3. /\ DOMAIN d = TableCall /\ d.kind = c.kind /\ d.project = c.project /\ d.seq = c.seq
          /\ d.mine = c.mine /\ d.rows = rs
      BY <1>0 DEF TableCall
    <2>4. calls' = (calls \ {c}) \cup {d}
      BY <2>2
    <2> HIDE DEF d
    <2>5. c.kind \in {"list", "add", "drop"}
      BY DEF TableInv
    <2> QED
      BY <1>0, <2>1, <2>2, <2>3, <2>4, <2>5, TableKept
  <1>3. ASSUME NEW c \in calls, Settings!loaded(c) PROVE TableInv'
    <2>1. /\ c.kind = "list" /\ calls' = calls \ {c} /\ gate' = gate /\ route' = route
          /\ listRequest' = [listRequest EXCEPT
                 !.error = IF c.at # "ok" /\ c.seq = gate THEN TRUE ELSE @,
                 !.loading = IF c.mine = listRequest.ownSeq THEN FALSE ELSE @]
      BY <1>3 DEF Settings!loaded, Settings!settled, Settings!isCurrent
    <2>2. GateInv' /\ (c.seq # gate => listRequest' = listRequest)
      BY <1>0, <2>1, GateSettled DEF Reads
    <2>3. "rows" \in DOMAIN list' /\ list'.rows = IF c.seq # gate THEN list.rows
                                                  ELSE IF c.at = "ok" THEN c.rows ELSE {}
      BY <1>0, <1>3 DEF Settings!loaded, Settings!isCurrent
    <2>4. CASE c.seq # gate
      BY <1>1, <2>1, <2>2, <2>3, <2>4
    <2>5. CASE c.seq = gate
      BY <2>1, <2>2, <2>3, <2>5 DEF TableInv, Settings!TableIsOfRoute
    <2> QED
      BY <2>4, <2>5
  <1>4. ASSUME NEW c \in calls, Settings!confirmed(c) PROVE TableInv'
    <2>1. CASE Settings!revoked(c)
      <3>1. /\ UNCHANGED <<route, gate, listRequest>> /\ calls' \subseteq calls
            /\ "rows" \in DOMAIN list'
            /\ \A r \in list'.rows : \E old \in list.rows : r.project = old.project
        BY <1>0, <2>1 DEF Settings!revoked, Settings!Closed
      <3> QED
        BY <3>1, TableKept
    <2>2. CASE Settings!removed(c)
      <3>1. "rows" \in DOMAIN list' /\ list'.rows = list.rows
        BY <1>0, <2>2 DEF Settings!removed, Settings!Closed
      <3>2. CASE c.id = Self
        BY <2>2, <3>1, <3>2
        DEF Settings!removed, TableInv, GateInv, Settings!TableIsOfRoute
      <3>3. CASE c.id # Self
        BY <2>2, <3>1, <3>3, TableLoads DEF Settings!removed
      <3> QED
        BY <3>2, <3>3
    <2>3. CASE Settings!failed(c)
      BY <1>0, <1>1, <2>3 DEF Settings!failed
    <2> QED
      BY <1>4, <2>1, <2>2, <2>3 DEF Settings!confirmed
  <1>5. ASSUME NEW c \in calls, Settings!added(c) PROVE TableInv'
    <2>1. "rows" \in DOMAIN list' /\ list'.rows = list.rows /\ route' = route
      BY <1>0, <1>5 DEF Settings!added
    <2>2. CASE c.at = "ok"
      <3>1. Settings!load(route', calls \ {c}, TRUE)
        BY <1>5, <2>1, <2>2 DEF Settings!added
      <3>2. calls \ {c} \in SUBSET calls
        OBVIOUS
      <3> QED
        BY <2>1, <3>1, <3>2, TableLoads
    <2>3. CASE c.at # "ok"
      BY <1>1, <1>5, <2>1, <2>3 DEF Settings!added
    <2> QED
      BY <2>2, <2>3
  <1>6. ASSUME NEW l, Settings!Shows(l), "rows" \in DOMAIN l, l.rows = list.rows PROVE TableInv'
    BY <1>1, <1>6 DEF Settings!Shows
  <1>7. ASSUME NEW l, NEW d, Settings!runAction(l, d), "rows" \in DOMAIN l, l.rows = list.rows,
               d.kind \in {"add", "drop"}, DOMAIN d = TableCall
        PROVE  TableInv'
    BY <1>0, <1>7, TableKept DEF Settings!runAction
  <1>9. ASSUME NEW row, Settings!ask(row) PROVE TableInv'
    BY <1>0, <1>6, <1>9 DEF Settings!ask
  <1>10. ASSUME NEW i \in Items, NEW empty \in BOOLEAN, Settings!add(i, empty) PROVE TableInv'
    <2> DEFINE l == [list EXCEPT !.adding = TRUE, !.addError = FALSE]
               d == Settings!Call("add", i, route, route, 0, begun', FALSE)
    <2>1. CASE empty
      <3>1. Settings!Shows([list EXCEPT !.addError = TRUE])
        BY <1>10, <2>1 DEF Settings!add
      <3> QED
        BY <1>0, <1>6, <3>1
    <2>2. CASE ~empty
      <3>1. Settings!runAction(l, d)
        BY <1>10, <2>2 DEF Settings!add
      <3>2. "rows" \in DOMAIN l /\ l.rows = list.rows
        BY <1>0
      <3>3. d.kind = "add" /\ DOMAIN d = TableCall
        BY DEF Settings!Call, TableCall
      <3> HIDE DEF l, d
      <3> QED
        BY <1>7, <3>1, <3>2, <3>3
    <2> QED
      BY <2>1, <2>2
  <1>11. ASSUME NEW project \in Projects, Settings!navigate(project) PROVE TableInv'
    BY <1>0, <1>11, TableLoads DEF Settings!navigate
  <1>12. ASSUME Settings!cancel \/ Settings!dismissRevealedKey PROVE TableInv'
    BY <1>0, <1>6, <1>12 DEF Settings!cancel, Settings!dismissRevealedKey
  <1>13. ASSUME Settings!confirm PROVE TableInv'
    <2> DEFINE l == [list EXCEPT !.pending = TRUE, !.actionError = FALSE]
               d == Settings!Call("drop", list.target.id, list.target.project, route, 0, begun',
                                  FALSE)
    <2>1. Settings!runAction(l, d)
      BY <1>13 DEF Settings!confirm
    <2>2. "rows" \in DOMAIN l /\ l.rows = list.rows
      BY <1>0
    <2>3. d.kind = "drop" /\ DOMAIN d = TableCall
      BY DEF Settings!Call, TableCall
    <2> HIDE DEF l, d
    <2> QED
      BY <1>7, <2>1, <2>2, <2>3
  <1> QED
    BY <1>2, <1>3, <1>4, <1>5, <1>9, <1>10, <1>11, <1>12, <1>13 DEF Settings!ManagedNext

-----------------------------------------------------------------------------
(* The endpoints screen: rows, calls and forms. *)

Pattern == Types \cup {EndpointsScreen!BadType}
FormFields == {"url", "description", "eventTypes", "rate"}
RowFields == FormFields \cup {"project", "status", "secret", "history"}
Row(r) == RowFields \subseteq DOMAIN r /\ r.eventTypes \in Seq(Pattern)
Item(i) == Row(i) /\ "id" \in DOMAIN i
Patch(p) == "eventTypes" \in DOMAIN p => p.eventTypes \in Seq(Pattern)

EndpointCall == {"kind", "id", "project", "patch", "seq", "mine", "at", "body"}
Submits == {"create", "update"}
RowCalls == Submits \cup {"enable", "disable", "rotate", "test", "delete"}
Call(c) ==
    /\ DOMAIN c = EndpointCall /\ c.kind \in RowCalls \cup {"list"} /\ Patch(c.patch)
    /\ \A b \in c.body : Item(b) /\ (c.kind = "list" => b.project = c.project)
    /\ c.kind # "list" /\ c.at = "ok" => \E b : c.body = {b} /\ b.id = c.id

\* A form: fields it does not count as touched are as they were when it was opened.
Form(f) ==
    /\ DOMAIN f = {"target", "was", "values", "draft", "draftError", "errors", "formError",
                   "submitting", "touched"}
    /\ DOMAIN f.values = FormFields /\ DOMAIN f.was = FormFields
    /\ f.values.eventTypes \in Seq(Pattern) /\ f.draft \in Seq(Pattern) /\ Len(f.draft) <= 2
    /\ \A g \in FormFields \ f.touched : f.values[g] = f.was[g]

\* What the dialog does to an open form.
Follows(g, f) ==
    /\ Form(g) /\ g.target = f.target /\ g.was = f.was /\ f.touched \subseteq g.touched
    /\ g.submitting = f.submitting

\* The fields that a form may write.
Own(f) == f.touched \cup EndpointsScreen!PaddedFields(f)

\* A row after an update is a row, and keeps what the patch does not name.
LEMMA MergedRow ==
    ASSUME NEW p, NEW r, Row(r), Patch(p)
    PROVE  /\ Row(EndpointsScreen!Merged(p, r))
           /\ DOMAIN EndpointsScreen!Merged(p, r) = DOMAIN p \cup DOMAIN r
           /\ \A f \in DOMAIN r \ DOMAIN p : EndpointsScreen!Merged(p, r)[f] = r[f]
  <1> DEFINE m == EndpointsScreen!Merged(p, r)
  <1>1. /\ DOMAIN m = DOMAIN p \cup DOMAIN r
        /\ \A f \in DOMAIN p \cup DOMAIN r : m[f] = IF f \in DOMAIN p THEN p[f] ELSE r[f]
    BY DEF EndpointsScreen!Merged
  <1> HIDE DEF m
  <1>2. "eventTypes" \in DOMAIN r
    BY DEF Row, RowFields, FormFields
  <1>3. m.eventTypes \in Seq(Pattern)
    BY <1>1, <1>2 DEF Row, Patch
  <1>4. Row(m)
    BY <1>1, <1>3 DEF Row
  <1> QED
    BY <1>1, <1>4 DEF m

\* The answer of a call carries the id of its endpoint.
LEMMA MergedId ==
    ASSUME NEW e, NEW r, Row(r)
    PROVE  /\ Item(EndpointsScreen!Merged([id |-> e], r))
           /\ EndpointsScreen!Merged([id |-> e], r).id = e
           /\ EndpointsScreen!Merged([id |-> e], r).project = r.project
  <1> DEFINE p == [id |-> e]
             m == EndpointsScreen!Merged(p, r)
  <1>1. DOMAIN p = {"id"} /\ p.id = e
    OBVIOUS
  <1> HIDE DEF p
  <1>2. /\ DOMAIN m = DOMAIN p \cup DOMAIN r
        /\ \A f \in DOMAIN p \cup DOMAIN r : m[f] = IF f \in DOMAIN p THEN p[f] ELSE r[f]
    BY DEF EndpointsScreen!Merged
  <1> HIDE DEF m
  <1>3. "eventTypes" \in DOMAIN r /\ "project" \in DOMAIN r
    BY DEF Row, RowFields, FormFields
  <1>4. /\ m.id = e /\ m.project = r.project /\ m.eventTypes = r.eventTypes
        /\ DOMAIN m = {"id"} \cup DOMAIN r
    BY <1>1, <1>2, <1>3
  <1>5. Item(m)
    BY <1>4 DEF Item, Row
  <1> QED
    BY <1>4, <1>5 DEF m, p

\* The secret of a body is dropped, and nothing else.
LEMMA Stripped ==
    ASSUME NEW b, Item(b)
    PROVE  /\ Item(EndpointsScreen!stripSecret(b))
           /\ EndpointsScreen!stripSecret(b).id = b.id
           /\ EndpointsScreen!stripSecret(b).project = b.project
  BY DEF Item, Row, RowFields, FormFields, EndpointsScreen!stripSecret

\* What the API lists of an endpoint.
LEMMA Viewed ==
    ASSUME NEW e \in Endpoints, Row(endpoints[e])
    PROVE  /\ Item(EndpointsScreen!endpointView(e))
           /\ EndpointsScreen!endpointView(e).project = endpoints[e].project
  <1> DEFINE r == [endpoints[e] EXCEPT !.secret = EndpointsScreen!NoSecret]
  <1>1. Row(r) /\ r.project = endpoints[e].project
    BY DEF Row, RowFields, FormFields
  <1> HIDE DEF r
  <1>2. EndpointsScreen!endpointView(e) = EndpointsScreen!Merged([id |-> e], r)
    BY DEF EndpointsScreen!endpointView, r
  <1> QED
    BY <1>1, <1>2, MergedId

\* addFromDraft takes a prefix of the draft, which may be empty.
LEMMA DraftIsTaken ==
    ASSUME NEW f, Form(f)
    PROVE  \E n \in 0 .. Len(f.draft) : EndpointsScreen!addFromDraft(f) =
              [f EXCEPT !.values.eventTypes = f.values.eventTypes \o SubSeq(f.draft, 1, n),
                        !.draft = SubSeq(f.draft, n + 1, Len(f.draft)),
                        !.draftError = n < Len(f.draft),
                        !.touched = IF n > 0 THEN f.touched \cup {"eventTypes"} ELSE f.touched]
  <1> DEFINE types == f.values.eventTypes
             problem(k) == EndpointsScreen!eventTypeProblem(types \o SubSeq(f.draft, 1, k - 1),
                                                            f.draft[k])
             fits(n) == \A k \in 1 .. n : ~problem(k)
             ends(n) == fits(n) /\ (n = Len(f.draft) \/ ~fits(n + 1))
             taken == CHOOSE n \in 0 .. Len(f.draft) : ends(n)
  <1>1. Len(f.draft) \in 0 .. 2
    <2>1. f.draft \in Seq(Pattern) /\ Len(f.draft) <= 2
      BY DEF Form
    <2>2. PICK n \in Nat : n = Len(f.draft)
      <3>1. Len(f.draft) \in Nat
        BY <2>1, LenProperties
      <3> QED
        BY <3>1
    <2>3. n <= 2
      BY <2>1, <2>2
    <2>4. n \in 0 .. 2
      BY <2>3
    <2> QED
      BY <2>2, <2>4
  <1>2. \E n \in 0 .. Len(f.draft) : ends(n)
    <2> HIDE DEF problem
    <2>1. CASE Len(f.draft) = 0
      BY <2>1
    <2>2. CASE Len(f.draft) = 1
      <3>1. fits(0) /\ 0 + 1 = 1
        OBVIOUS
      <3>2. ends(0) \/ ends(1)
        BY <2>2, <3>1
      <3> QED
        BY <2>2, <3>2
    <2>3. CASE Len(f.draft) = 2
      <3>1. fits(0) /\ 0 + 1 = 1 /\ 1 + 1 = 2
        OBVIOUS
      <3>2. ends(0) \/ ends(1) \/ ends(2)
        BY <2>3, <3>1
      <3> QED
        BY <2>3, <3>2
    <2> QED
      BY <1>1, <2>1, <2>2, <2>3
  <1> HIDE DEF ends
  <1>3. taken \in 0 .. Len(f.draft)
    BY <1>2
  <1>4. EndpointsScreen!addFromDraft(f) =
              [f EXCEPT !.values.eventTypes = f.values.eventTypes \o SubSeq(f.draft, 1, taken),
                        !.draft = SubSeq(f.draft, taken + 1, Len(f.draft)),
                        !.draftError = taken < Len(f.draft),
                        !.touched = IF taken > 0 THEN f.touched \cup {"eventTypes"}
                                    ELSE f.touched]
    BY DEF EndpointsScreen!addFromDraft, ends
  <1> HIDE DEF taken
  <1> QED
    BY <1>3, <1>4

\* submit and the draft's button: the chips that are added touch the types.
LEMMA DraftFollows ==
    ASSUME NEW f, Form(f) PROVE Follows(EndpointsScreen!addFromDraft(f), f)
  <1>1. PICK n \in 0 .. Len(f.draft) : EndpointsScreen!addFromDraft(f) =
              [f EXCEPT !.values.eventTypes = f.values.eventTypes \o SubSeq(f.draft, 1, n),
                        !.draft = SubSeq(f.draft, n + 1, Len(f.draft)),
                        !.draftError = n < Len(f.draft),
                        !.touched = IF n > 0 THEN f.touched \cup {"eventTypes"} ELSE f.touched]
    BY DraftIsTaken
  <1> DEFINE types == f.values.eventTypes
             added == types \o SubSeq(f.draft, 1, n)
             rest == SubSeq(f.draft, n + 1, Len(f.draft))
             g == EndpointsScreen!addFromDraft(f)
  <1>2. types \in Seq(Pattern) /\ f.draft \in Seq(Pattern) /\ Len(f.draft) <= 2
    BY DEF Form
  <1>3. Len(f.draft) \in Nat /\ \A i \in 1 .. Len(f.draft) : f.draft[i] \in Pattern
    BY <1>2, LenProperties, ElementOfSeq
  <1>4. SubSeq(f.draft, 1, n) \in Seq(Pattern) /\ (n = 0 => SubSeq(f.draft, 1, n) = << >>)
    <2>1. CASE n = 0
      BY <2>1, SubSeqEmpty, EmptySeq
    <2>2. CASE n # 0
      BY <1>3, <2>2, SubSeqProperties
    <2> QED
      BY <2>1, <2>2
  <1>5. added \in Seq(Pattern) /\ (n = 0 => added = types)
    <2>1. added \in Seq(Pattern)
      BY <1>2, <1>4, ConcatProperties
    <2>2. types \o << >> = types
      BY <1>2, ConcatEmptySeq
    <2> QED
      BY <1>4, <2>1, <2>2
  <1>6. rest \in Seq(Pattern) /\ Len(rest) <= 2
    <2>1. CASE n = Len(f.draft)
      <3>1. rest = << >>
        BY <1>3, <2>1, SubSeqEmpty
      <3>2. << >> \in Seq(Pattern) /\ Len(<< >>) <= 2
        BY EmptySeq
      <3> HIDE DEF rest
      <3> QED
        BY <3>1, <3>2
    <2>2. CASE n # Len(f.draft)
      <3>1. rest \in Seq(Pattern) /\ Len(rest) = Len(f.draft) - (n + 1) + 1
        BY <1>3, <2>2, SubSeqProperties
      <3> QED
        BY <1>2, <1>3, <3>1
    <2> QED
      BY <2>1, <2>2
  <1> HIDE DEF added, rest
  <1>7. g = [f EXCEPT !.values.eventTypes = added, !.draft = rest, !.draftError = n < Len(f.draft),
                      !.touched = IF n > 0 THEN f.touched \cup {"eventTypes"} ELSE f.touched]
    BY <1>1 DEF added, rest
  <1> HIDE DEF g
  <1>8. /\ DOMAIN g = DOMAIN f /\ g.target = f.target /\ g.was = f.was /\ g.draft = rest
        /\ g.submitting = f.submitting
        /\ g.touched = IF n > 0 THEN f.touched \cup {"eventTypes"} ELSE f.touched
        /\ g.values = [f.values EXCEPT !.eventTypes = added]
    BY <1>7 DEF Form
  <1>9. /\ DOMAIN g.values = FormFields /\ g.values.eventTypes = added
        /\ \A h \in FormFields : h # "eventTypes" => g.values[h] = f.values[h]
    BY <1>8 DEF Form, FormFields
  <1>10. \A h \in FormFields \ g.touched : g.values[h] = g.was[h]
    <2>1. \A h \in FormFields \ f.touched : f.values[h] = f.was[h]
      BY DEF Form
    <2>2. n = 0 \/ n > 0
      OBVIOUS
    <2> QED
      BY <1>5, <1>8, <1>9, <2>1, <2>2
  <1>11. Form(g)
    BY <1>5, <1>6, <1>8, <1>9, <1>10 DEF Form
  <1>12. f.touched \subseteq g.touched
    BY <1>8
  <1> QED
    BY <1>8, <1>11, <1>12 DEF Follows, g

\* Typing touches the field typed into.
LEMMA TypedFollows ==
    ASSUME NEW f, Form(f), NEW field \in FormFields \ {"eventTypes"}, NEW value
    PROVE  Follows(EndpointsScreen!typed(f, field, value), f)
  <1> DEFINE g == EndpointsScreen!typed(f, field, value)
  <1>1. /\ DOMAIN g = DOMAIN f /\ g.target = f.target /\ g.was = f.was /\ g.draft = f.draft
        /\ g.submitting = f.submitting /\ g.touched = f.touched \cup {field}
        /\ g.values = [f.values EXCEPT ![field] = value]
    BY DEF Form, EndpointsScreen!typed
  <1> HIDE DEF g
  <1> QED
    BY <1>1 DEF Form, Follows, FormFields, g

\* trim() changes the texts of a form, and no field for another.
LEMMA Trimmed ==
    ASSUME NEW v, DOMAIN v = FormFields
    PROVE  /\ DOMAIN EndpointsScreen!trimmed(v) = FormFields
           /\ EndpointsScreen!trimmed(v).eventTypes = v.eventTypes
           /\ \A w : DOMAIN w = FormFields =>
                 \A f \in FormFields : w[f] = v[f] =>
                     EndpointsScreen!trimmed(w)[f] = EndpointsScreen!trimmed(v)[f]
  BY DEF EndpointsScreen!trimmed, FormFields

\* What the form sends: no event types but its own, and in an edit no field but its own.
LEMMA Sent ==
    ASSUME NEW f, Form(f)
    PROVE  /\ Patch(EndpointsScreen!buildCreateBody(f)) /\ Patch(EndpointsScreen!buildPatch(f))
           /\ DOMAIN EndpointsScreen!buildPatch(f) \subseteq Own(f)
  <1> DEFINE t == EndpointsScreen!trimmed(f.values)
  <1>1. DOMAIN f.values = FormFields /\ DOMAIN f.was = FormFields
    BY DEF Form
  <1>2. t.eventTypes \in Seq(Pattern)
    BY <1>1, Trimmed DEF Form
  <1>3. \A g \in FormFields : f.values[g] = f.was[g] => t[g] = EndpointsScreen!trimmed(f.was)[g]
    BY <1>1, Trimmed
  <1> HIDE DEF t
  <1>4. EndpointsScreen!buildPatch(f) =
            [g \in {h \in EndpointsScreen!Fields : t[h] # f.was[h] /\ (h = "rate" => t[h] # "")}
                |-> t[g]]
    BY DEF EndpointsScreen!buildPatch, t
  <1>5. EndpointsScreen!buildCreateBody(f) =
            [g \in EndpointsScreen!Fields \ {h \in {"description", "rate"} : t[h] = ""} |-> t[g]]
    BY DEF EndpointsScreen!buildCreateBody, t
  <1>6. Patch(EndpointsScreen!buildCreateBody(f)) /\ Patch(EndpointsScreen!buildPatch(f))
    BY <1>2, <1>4, <1>5 DEF Patch
  <1>7. DOMAIN EndpointsScreen!buildPatch(f) \subseteq Own(f)
    <2> SUFFICES ASSUME NEW g \in FormFields, t[g] # f.was[g], g \notin f.touched
                 PROVE  g \in EndpointsScreen!PaddedFields(f)
      BY <1>4 DEF Own, EndpointsScreen!Fields, FormFields
    <2>1. EndpointsScreen!trimmed(f.was)[g] # f.was[g]
      BY <1>3 DEF Form
    <2> QED
      BY <2>1 DEF EndpointsScreen!PaddedFields, EndpointsScreen!Fields, FormFields
  <1> QED
    BY <1>6, <1>7

\* A form that follows another has its fields for its own, and the other's.
LEMMA OwnGrows ==
    ASSUME NEW f, NEW g, g.was = f.was, f.touched \subseteq g.touched
    PROVE  /\ EndpointsScreen!PaddedFields(g) = EndpointsScreen!PaddedFields(f)
           /\ Own(f) \subseteq Own(g)
  BY DEF Own, EndpointsScreen!PaddedFields

\* A draft is typed.
LEMMA DraftTyped ==
    ASSUME NEW f, Form(f), NEW draft \in EndpointsScreen!Drafts
    PROVE  Follows(EndpointsScreen!typedDraft(f, draft), f)
  <1> DEFINE g == EndpointsScreen!typedDraft(f, draft)
  <1>1. /\ DOMAIN g = DOMAIN f /\ g.target = f.target /\ g.was = f.was /\ g.draft = draft
        /\ g.submitting = f.submitting /\ g.touched = f.touched /\ g.values = f.values
    BY DEF Form, EndpointsScreen!typedDraft
  <1>2. draft \in Seq(Pattern) /\ Len(draft) <= 2
    <2>1. CASE draft = <<EndpointsScreen!BadType>>
      BY <2>1 DEF Pattern
    <2>2. CASE \E a \in Types, b \in Types : draft = <<a, b>>
      BY <2>2 DEF Pattern
    <2> QED
      BY <2>1, <2>2 DEF EndpointsScreen!Drafts
  <1> HIDE DEF g
  <1> QED
    BY <1>1, <1>2 DEF Form, Follows, g

\* Removing a chip touches the types.
LEMMA RemovedFollows ==
    ASSUME NEW f, Form(f), NEW k \in DOMAIN f.values.eventTypes
    PROVE  Follows(EndpointsScreen!removeEventType(f, k), f)
  <1> DEFINE g == EndpointsScreen!removeEventType(f, k)
             types == f.values.eventTypes
             left == SubSeq(types, 1, k - 1) \o SubSeq(types, k + 1, Len(types))
  <1>1. types \in Seq(Pattern)
    BY DEF Form
  <1>2. /\ Len(types) \in Nat /\ k \in 1 .. Len(types)
        /\ \A i \in 1 .. Len(types) : types[i] \in Pattern
    BY <1>1, LenProperties, ElementOfSeq
  <1>3. SubSeq(types, 1, k - 1) \in Seq(Pattern)
    <2>1. CASE k = 1
      BY <2>1, SubSeqEmpty, EmptySeq
    <2>2. CASE k # 1
      BY <1>2, <2>2, SubSeqProperties
    <2> QED
      BY <2>1, <2>2
  <1>4. SubSeq(types, k + 1, Len(types)) \in Seq(Pattern)
    <2>1. CASE k = Len(types)
      BY <1>2, <2>1, SubSeqEmpty, EmptySeq
    <2>2. CASE k # Len(types)
      BY <1>2, <2>2, SubSeqProperties
    <2> QED
      BY <2>1, <2>2
  <1>5. left \in Seq(Pattern)
    BY <1>3, <1>4, ConcatProperties
  <1>6. g = [f EXCEPT !.values.eventTypes = left, !.draftError = FALSE,
                      !.touched = f.touched \cup {"eventTypes"}]
    BY DEF EndpointsScreen!removeEventType
  <1> HIDE DEF g, left
  <1>7. /\ DOMAIN g = DOMAIN f /\ g.target = f.target /\ g.was = f.was /\ g.draft = f.draft
        /\ g.submitting = f.submitting /\ g.touched = f.touched \cup {"eventTypes"}
        /\ g.values = [f.values EXCEPT !.eventTypes = left]
    BY <1>6 DEF Form
  <1> QED
    BY <1>5, <1>7 DEF Form, Follows, FormFields, g

\* An endpoint that is created, or there from the start.
LEMMA FreshRow ==
    ASSUME NEW p, NEW r, DOMAIN p = FormFields, p.eventTypes = << >>,
           DOMAIN r = {"project", "status", "secret", "history"}
    PROVE  /\ Row(EndpointsScreen!Merged(p, r))
           /\ EndpointsScreen!Merged(p, r).project = r.project
  <1> DEFINE m == EndpointsScreen!Merged(p, r)
  <1>1. /\ DOMAIN m = DOMAIN p \cup DOMAIN r
        /\ \A f \in DOMAIN p \cup DOMAIN r : m[f] = IF f \in DOMAIN p THEN p[f] ELSE r[f]
    BY DEF EndpointsScreen!Merged
  <1> HIDE DEF m
  <1>2. m.eventTypes = << >> /\ m.project = r.project /\ DOMAIN m = RowFields
    BY <1>1 DEF RowFields, FormFields
  <1>3. << >> \in Seq(Pattern)
    BY EmptySeq
  <1>4. Row(m)
    BY <1>2, <1>3 DEF Row
  <1> QED
    BY <1>2, <1>4 DEF m

\* What the variables of the screen hold.
ViewFields == {"form", "busy", "reveal", "deleteTarget", "deleting", "offer"}
EndpointTypes ==
    /\ DOMAIN endpoints = Endpoints /\ \A e \in Endpoints : Row(endpoints[e])
    /\ \A c \in calls : Call(c)
    /\ DOMAIN endpointStore = {"items", "loaded"} /\ \A i \in endpointStore.items : Item(i)
    /\ DOMAIN view = ViewFields /\ (view.form = EndpointsScreen!NoForm \/ Form(view.form))
    /\ DOMAIN theirs = FormFields

\* The rows are of the project of the URL, and so will be those of the current request.
RowsInv ==
    /\ GateInv
    /\ \A c \in calls : c.kind = "list" /\ c.seq = gate => c.project = route
    /\ \A i \in endpointStore.items : i.project = route \/ i.id \in strays

\* A submitted form stays open and waits for its one call, which carries its own
\* fields.
FormInv ==
    /\ \A c \in calls : c.kind \in Submits =>
          /\ view.form # EndpointsScreen!NoForm /\ view.form.submitting
          /\ c.kind = "create" => view.form.target \notin Endpoints
          /\ c.kind = "update" =>
                c.id = view.form.target /\ DOMAIN c.patch \subseteq Own(view.form)
    /\ \A c, d \in calls : c.kind \in Submits /\ d.kind \in Submits => c = d
    /\ EndpointsScreen!EditTouchesOnlyItsFields

EndpointInv == EndpointTypes /\ RowsInv /\ FormInv

\* The step leaves the request of the list alone, or answers it.
LEMMA RowsKept ==
    ASSUME RowsInv, EndpointTypes', UNCHANGED <<route, gate, listRequest>>,
           \A d \in calls' : d.kind = "list" =>
               \E c \in calls : /\ c.kind = "list" /\ d.project = c.project
                                /\ d.seq = c.seq /\ d.mine = c.mine,
           \A i \in endpointStore'.items : i.project = route \/ i.id \in strays'
    PROVE  RowsInv'
  <1>1. \A d \in calls' : d.kind \in Reads => d.kind = "list"
    BY DEF EndpointTypes, Call, RowCalls, Submits, Reads
  <1>2. GateInv'
    BY <1>1, GateKept DEF RowsInv
  <1> QED
    BY <1>2 DEF RowsInv

\* The step neither submits nor answers a form; the form may be edited.
LEMMA FormKept ==
    ASSUME FormInv, UNCHANGED <<endpoints, theirs>>,
           \A d \in calls' : d.kind \in Submits => d \in calls,
           \/ view'.form = view.form
           \/ view.form # EndpointsScreen!NoForm /\ Follows(view'.form, view.form)
    PROVE  FormInv'
  <1>1. CASE view'.form = view.form
    BY <1>1 DEF FormInv, EndpointsScreen!EditTouchesOnlyItsFields, EndpointsScreen!isEdit, Own
  <1>2. CASE view.form # EndpointsScreen!NoForm /\ Follows(view'.form, view.form)
    <2>1. view'.form # EndpointsScreen!NoForm
      BY <1>2 DEF Follows, Form, EndpointsScreen!NoForm
    <2>2. /\ view'.form.target = view.form.target /\ view'.form.submitting = view.form.submitting
          /\ Own(view.form) \subseteq Own(view'.form)
      BY <1>2, OwnGrows DEF Follows
    <2> QED
      BY <2>1, <2>2 DEF Own, FormInv, EndpointsScreen!EditTouchesOnlyItsFields, EndpointsScreen!isEdit
  <1> QED
    BY <1>1, <1>2

\* The screen is opened, with the first load under way or the rows there.
LEMMA EndpointInits == EndpointsScreen!EndpointInit => EndpointInv
  <1> SUFFICES ASSUME EndpointsScreen!EndpointInit PROVE EndpointInv
    OBVIOUS
  <1> DEFINE c == EndpointsScreen!Call("list", NoEndpoint, route, EndpointsScreen!None, 1, 1)
             p(description) == [EndpointsScreen!Defaults EXCEPT
                                    !.url = CHOOSE u \in Urls \ GuardedUrls : TRUE,
                                    !.description = description]
             r(project, history) == [project |-> project, status |-> "ACTIVE", secret |-> 1,
                                     history |-> history]
  <1>1. PICK there \in SUBSET Endpoints, history \in BOOLEAN,
            description \in EndpointsScreen!Descriptions :
           endpoints = [e \in Endpoints |->
               EndpointsScreen!Merged(p(description),
                                      r(IF e \in there THEN route ELSE NoProject, history))]
    BY DEF EndpointsScreen!EndpointInit
  <1>2. \A d : DOMAIN p(d) = FormFields /\ p(d).eventTypes = << >>
    BY DEF EndpointsScreen!Defaults, FormFields
  <1>3. \A project, h : /\ DOMAIN r(project, h) = {"project", "status", "secret", "history"}
                        /\ r(project, h).project = project
    OBVIOUS
  <1> HIDE DEF p, r
  <1>4. /\ DOMAIN endpoints = Endpoints /\ \A e \in Endpoints : Row(endpoints[e])
        /\ \A e \in EndpointsScreen!Existing : e \in Endpoints /\ endpoints[e].project = route
    <2>1. ASSUME NEW e \in Endpoints
          PROVE  /\ Row(endpoints[e])
                 /\ endpoints[e].project = IF e \in there THEN route ELSE NoProject
      <3> DEFINE q == r(IF e \in there THEN route ELSE NoProject, history)
      <3>1. endpoints[e] = EndpointsScreen!Merged(p(description), q)
        BY <1>1
      <3>2. /\ DOMAIN q = {"project", "status", "secret", "history"}
            /\ q.project = IF e \in there THEN route ELSE NoProject
        BY <1>3
      <3> HIDE DEF q
      <3> QED
        BY <1>2, <3>1, <3>2, FreshRow
    <2>2. DOMAIN endpoints = Endpoints
      BY <1>1
    <2> QED
      BY <2>1, <2>2 DEF EndpointsScreen!Existing
  <1>5. /\ view.form = EndpointsScreen!NoForm /\ DOMAIN view = ViewFields
        /\ gate = 1 /\ DOMAIN theirs = FormFields
    <2>1. view = [form |-> EndpointsScreen!NoForm, busy |-> EndpointsScreen!Idle,
                  reveal |-> EndpointsScreen!NoSecret, deleteTarget |-> EndpointsScreen!NoTarget,
                  deleting |-> FALSE, offer |-> NoEndpoint]
      BY DEF EndpointsScreen!EndpointInit
    <2>2. gate = 1 /\ theirs = EndpointsScreen!Untouched
      BY DEF EndpointsScreen!EndpointInit
    <2> QED
      BY <2>1, <2>2 DEF ViewFields, EndpointsScreen!Untouched, EndpointsScreen!Fields, FormFields
  <1>6. /\ Call(c) /\ c.kind = "list" /\ c.seq = 1 /\ c.mine = 1 /\ c.project = route
    BY DEF EndpointsScreen!Call, Call, EndpointCall, Patch, EndpointsScreen!None
  <1> HIDE DEF c
  <1>7. /\ calls = {} \/ calls = {c}
        /\ listRequest \in Request /\ (calls = {c} => listRequest.ownSeq = 1)
        /\ DOMAIN endpointStore = {"items", "loaded"}
        /\ \A i \in endpointStore.items : Item(i) /\ i.project = route
    <2>1. CASE /\ endpointStore = EndpointsScreen!reset
               /\ listRequest = EndpointsScreen!started(EndpointsScreen!Quiet)
               /\ calls = {c}
      BY <2>1 DEF EndpointsScreen!reset, EndpointsScreen!started, EndpointsScreen!Quiet, Request
    <2>2. CASE /\ endpointStore = [items |-> {EndpointsScreen!endpointView(e) :
                                                  e \in EndpointsScreen!Existing},
                                   loaded |-> route]
               /\ listRequest = [EndpointsScreen!Quiet EXCEPT !.ownSeq = 1]
               /\ calls = {}
      <3>1. \A e \in EndpointsScreen!Existing : /\ Item(EndpointsScreen!endpointView(e))
                                                /\ EndpointsScreen!endpointView(e).project = route
        BY <1>4, Viewed
      <3>2. listRequest = [ownSeq |-> 1, loading |-> FALSE, error |-> FALSE]
        BY <2>2 DEF EndpointsScreen!Quiet
      <3> QED
        <4>1. listRequest \in Request /\ listRequest.ownSeq = 1
          BY <3>2 DEF Request
        <4>2. calls = {} /\ DOMAIN endpointStore = {"items", "loaded"}
          BY <2>2
        <4>3. \A i \in endpointStore.items : Item(i) /\ i.project = route
          BY <2>2, <3>1
        <4> QED
          BY <4>1, <4>2, <4>3
    <2> QED
      BY <2>1, <2>2 DEF EndpointsScreen!EndpointInit, c
  <1>8. EndpointTypes
    BY <1>4, <1>5, <1>6, <1>7 DEF EndpointTypes
  <1>9. RowsInv
    BY <1>5, <1>6, <1>7 DEF RowsInv, GateInv
  <1>10. FormInv
    <2>1. ~EndpointsScreen!isEdit
      BY <1>5, DashboardAssumption DEF EndpointsScreen!isEdit, EndpointsScreen!NoForm
    <2> QED
      BY <1>6, <1>7, <2>1 DEF FormInv, EndpointsScreen!EditTouchesOnlyItsFields, Submits
  <1> QED
    BY <1>8, <1>9, <1>10 DEF EndpointInv

\* The API answers: the call stays what it is, and a row keeps the fields of the form,
\* except for what an update carries and for a row that is created.
LEMMA Served ==
    ASSUME EndpointTypes, NEW c \in calls, EndpointsScreen!Serving(c)
    PROVE  /\ \E d : /\ calls' = (calls \ {c}) \cup {d} /\ Call(d)
                     /\ d.kind = c.kind /\ d.id = c.id /\ d.project = c.project
                     /\ d.patch = c.patch /\ d.seq = c.seq /\ d.mine = c.mine
           /\ DOMAIN endpoints' = Endpoints /\ \A e \in Endpoints : Row(endpoints'[e])
           /\ \A e \in Endpoints, f \in FormFields :
                 \/ endpoints'[e][f] = endpoints[e][f]
                 \/ c.kind = "create"
                 \/ c.kind = "update" /\ e = c.id /\ f \in DOMAIN c.patch
  <1>1. /\ Call(c) /\ DOMAIN endpoints = Endpoints /\ \A e \in Endpoints : Row(endpoints[e])
    BY DEF EndpointTypes
  <1> DEFINE Kept(d) == /\ d.kind = c.kind /\ d.id = c.id /\ d.project = c.project
                        /\ d.patch = c.patch /\ d.seq = c.seq /\ d.mine = c.mine
  <1>2. ASSUME EndpointsScreen!Refuses(c), c.kind # "list"
        PROVE  /\ \E d : calls' = (calls \ {c}) \cup {d} /\ Call(d) /\ Kept(d)
               /\ endpoints' = endpoints
    <2> DEFINE d == [c EXCEPT !.at = "refused"]
    <2>1. Kept(d) /\ DOMAIN d = EndpointCall /\ d.body = c.body /\ d.at = "refused"
      BY <1>1 DEF Call, EndpointCall
    <2>2. calls' = (calls \ {c}) \cup {d} /\ endpoints' = endpoints
      BY <1>2 DEF EndpointsScreen!Refuses
    <2> HIDE DEF d
    <2>3. Call(d)
      BY <1>1, <1>2, <2>1 DEF Call
    <2> QED
      BY <2>1, <2>2, <2>3
  <1>3. ASSUME NEW row, NEW body, EndpointsScreen!Serves(c, row, body),
               c.kind # "list", Item(body), body.id = c.id
        PROVE  /\ \E d : calls' = (calls \ {c}) \cup {d} /\ Call(d) /\ Kept(d)
               /\ endpoints' = [endpoints EXCEPT ![c.id] = row]
    <2>1. PICK at : calls' = (calls \ {c}) \cup {[c EXCEPT !.at = at, !.body = {body}]}
      BY <1>3 DEF EndpointsScreen!Serves
    <2> DEFINE d == [c EXCEPT !.at = at, !.body = {body}]
    <2>2. Kept(d) /\ DOMAIN d = EndpointCall /\ d.body = {body}
      BY <1>1 DEF Call, EndpointCall
    <2>3. calls' = (calls \ {c}) \cup {d}
      BY <2>1
    <2> HIDE DEF d
    <2>4. Call(d)
      BY <1>1, <1>3, <2>2 DEF Call
    <2>5. endpoints' = [endpoints EXCEPT ![c.id] = row]
      BY <1>3 DEF EndpointsScreen!Serves
    <2> QED
      BY <2>2, <2>3, <2>4, <2>5
  <1>4. CASE EndpointsScreen!serveList(c)
    <2> DEFINE body == {EndpointsScreen!endpointView(e) : e \in {d \in EndpointsScreen!Existing :
                                                      endpoints[d].project = c.project}}
               d == [c EXCEPT !.at = "ok", !.body = body]
    <2>1. c.kind = "list" /\ calls' = (calls \ {c}) \cup {d} /\ endpoints' = endpoints
      BY <1>4 DEF EndpointsScreen!serveList
    <2>2. \A b \in body : Item(b) /\ b.project = c.project
      BY <1>1, Viewed DEF EndpointsScreen!Existing
    <2> HIDE DEF body
    <2>3. Kept(d) /\ DOMAIN d = EndpointCall /\ d.body = body
      BY <1>1 DEF Call, EndpointCall
    <2> HIDE DEF d
    <2>4. Call(d)
      BY <1>1, <2>1, <2>2, <2>3 DEF Call
    <2> QED
      BY <1>1, <2>1, <2>3, <2>4
  <1>5. CASE EndpointsScreen!serveCreate(c)
    <2> DEFINE new == [project |-> c.project, status |-> "ACTIVE", secret |-> 1, history |-> FALSE]
               fresh == EndpointsScreen!Merged(EndpointsScreen!Defaults, new)
               row == EndpointsScreen!Merged(c.patch, fresh)
               body == EndpointsScreen!Merged([id |-> c.id], row)
    <2>1. /\ c.kind = "create"
          /\ EndpointsScreen!Refuses(c) \/ EndpointsScreen!Serves(c, row, body)
      BY <1>5 DEF EndpointsScreen!serveCreate
    <2>2. DOMAIN new = {"project", "status", "secret", "history"}
      OBVIOUS
    <2>3. DOMAIN EndpointsScreen!Defaults = FormFields /\ EndpointsScreen!Defaults.eventTypes = << >>
      BY DEF EndpointsScreen!Defaults, FormFields
    <2> HIDE DEF new
    <2>4. Row(fresh)
      BY <2>2, <2>3, FreshRow
    <2> HIDE DEF fresh
    <2>5. Row(row)
      BY <1>1, <2>4, MergedRow DEF Call
    <2> HIDE DEF row
    <2>6. Item(body) /\ body.id = c.id
      BY <2>5, MergedId
    <2> HIDE DEF body
    <2>7. CASE EndpointsScreen!Refuses(c)
      BY <1>1, <1>2, <2>1, <2>7
    <2>8. CASE EndpointsScreen!Serves(c, row, body)
      <3>1. /\ \E d : calls' = (calls \ {c}) \cup {d} /\ Call(d) /\ Kept(d)
            /\ endpoints' = [endpoints EXCEPT ![c.id] = row]
        BY <1>3, <2>1, <2>5, <2>6, <2>8
      <3> QED
        BY <1>1, <2>1, <2>5, <3>1
    <2> QED
      BY <2>1, <2>7, <2>8
  <1>6. CASE EndpointsScreen!serve(c)
    <2> DEFINE row == endpoints[c.id]
               patched == EndpointsScreen!Merged(c.patch, row)
               after == CASE c.kind \in {"update", "create"} -> patched
                          [] c.kind = "enable"  -> [row EXCEPT !.status = "ACTIVE"]
                          [] c.kind = "disable" -> [row EXCEPT !.status = "DISABLED"]
                          [] c.kind = "rotate"  -> [row EXCEPT !.secret = @ + 1]
                          [] c.kind = "test"    -> [row EXCEPT !.history = TRUE]
                          [] c.kind = "delete"  -> [row EXCEPT !.project = NoProject]
               shown == EndpointsScreen!Merged([id |-> c.id], after)
               body == IF c.kind = "rotate" THEN shown ELSE EndpointsScreen!stripSecret(shown)
    <2>1. /\ c.kind # "list" /\ c.id \in Endpoints
          /\ EndpointsScreen!Refuses(c) \/ EndpointsScreen!Serves(c, after, body)
      BY <1>6 DEF EndpointsScreen!serve, EndpointsScreen!Existing
    <2>2. Row(row)
      BY <1>1, <2>1
    <2>3. /\ Row(patched) /\ \A f \in DOMAIN row \ DOMAIN c.patch : patched[f] = row[f]
      <3> HIDE DEF row
      <3> QED
        BY <1>1, <2>2, MergedRow DEF Call
    <2> HIDE DEF patched
    <2>4. /\ Row(after)
          /\ \A f \in FormFields : \/ after[f] = row[f]
                                   \/ c.kind = "create"
                                   \/ c.kind = "update" /\ f \in DOMAIN c.patch
      <3> HIDE DEF row
      <3>1. CASE c.kind \in Submits
        <4>1. after = patched
          BY <3>1 DEF Submits
        <4> HIDE DEF after
        <4> QED
          BY <2>2, <2>3, <3>1, <4>1 DEF Submits, Row, RowFields
      <3>2. CASE c.kind \notin Submits
        <4>1. \E g \in {"status", "secret", "history", "project"} :
                 \E v : after = [row EXCEPT ![g] = v]
          BY <1>1, <2>1, <3>2 DEF Call, RowCalls, Submits
        <4>2. PICK g \in {"status", "secret", "history", "project"} :
                 \E v : after = [row EXCEPT ![g] = v]
          BY <4>1
        <4> HIDE DEF after
        <4> QED
          BY <2>2, <4>2 DEF Row, RowFields, FormFields
      <3> QED
        BY <3>1, <3>2
    <2> HIDE DEF row, after
    <2>5. Item(shown) /\ shown.id = c.id
      BY <2>4, MergedId
    <2> HIDE DEF shown
    <2>6. Item(body) /\ body.id = c.id
      BY <2>5, Stripped
    <2> HIDE DEF body
    <2>7. CASE EndpointsScreen!Refuses(c)
      BY <1>1, <1>2, <2>1, <2>7
    <2>8. CASE EndpointsScreen!Serves(c, after, body)
      <3>1. /\ \E d : calls' = (calls \ {c}) \cup {d} /\ Call(d) /\ Kept(d)
            /\ endpoints' = [endpoints EXCEPT ![c.id] = after]
        BY <1>3, <2>1, <2>6, <2>8
      <3> QED
        BY <1>1, <2>1, <2>4, <3>1 DEF row
    <2> QED
      BY <2>1, <2>7, <2>8
  <1> QED
    BY <1>4, <1>5, <1>6 DEF EndpointsScreen!Serving

\* The API answers a call of the screen.
LEMMA ServingKeeps ==
    ASSUME EndpointInv, NEW c \in calls, EndpointsScreen!Serving(c) PROVE EndpointInv'
  <1>0. /\ EndpointTypes /\ RowsInv /\ FormInv
        /\ UNCHANGED <<route, endpointStore, view, gate, listRequest, theirs, strays>>
    BY DEF EndpointInv, EndpointsScreen!Serving
  <1>1. PICK d : /\ calls' = (calls \ {c}) \cup {d} /\ Call(d)
                 /\ d.kind = c.kind /\ d.id = c.id /\ d.project = c.project
                 /\ d.patch = c.patch /\ d.seq = c.seq /\ d.mine = c.mine
    BY <1>0, Served
  <1>2. /\ DOMAIN endpoints' = Endpoints /\ \A e \in Endpoints : Row(endpoints'[e])
        /\ \A e \in Endpoints, f \in FormFields :
              \/ endpoints'[e][f] = endpoints[e][f]
              \/ c.kind = "create"
              \/ c.kind = "update" /\ e = c.id /\ f \in DOMAIN c.patch
    BY <1>0, Served
  <1>3. EndpointTypes'
    BY <1>0, <1>1, <1>2 DEF EndpointTypes
  <1>4. RowsInv'
    <2>1. \A i \in endpointStore'.items : i.project = route \/ i.id \in strays'
      BY <1>0 DEF RowsInv
    <2> QED
      BY <1>0, <1>1, <1>3, <2>1, RowsKept
  <1>5. EndpointsScreen!EditTouchesOnlyItsFields'
    <2> SUFFICES ASSUME view.form.target \in Endpoints, NEW f \in FormFields \ Own(view.form)
                 PROVE  theirs[f] \subseteq {endpoints'[view.form.target][f]}
      BY <1>0 DEF EndpointsScreen!EditTouchesOnlyItsFields, EndpointsScreen!isEdit,
                  EndpointsScreen!Fields, FormFields, Own
    <2>1. theirs[f] \subseteq {endpoints[view.form.target][f]}
      BY <1>0 DEF FormInv, EndpointsScreen!EditTouchesOnlyItsFields, EndpointsScreen!isEdit,
                  EndpointsScreen!Fields, FormFields, Own
    <2>2. c.kind # "create"
      BY <1>0 DEF FormInv, Submits
    <2>3. c.kind = "update" => f \notin DOMAIN c.patch
      BY <1>0 DEF FormInv, Submits
    <2> QED
      BY <1>2, <2>1, <2>2, <2>3
  <1>6. FormInv'
    BY <1>0, <1>1, <1>5 DEF FormInv
  <1> QED
    BY <1>3, <1>4, <1>6 DEF EndpointInv

\* The rows change under the form: what the other owner writes is recorded.
LEMMA OthersKeep ==
    ASSUME EndpointInv, NEW e \in Endpoints,
           \/ EndpointsScreen!workerDisables(e)
           \/ \E f \in DOMAIN EndpointsScreen!OtherEdits :
                 \E v \in EndpointsScreen!OtherEdits[f] : EndpointsScreen!otherOwner(e, f, v)
    PROVE  EndpointInv'
  <1>0. EndpointTypes /\ RowsInv /\ FormInv
    BY DEF EndpointInv
  <1>1. ASSUME UNCHANGED <<route, endpointStore, view, gate, listRequest, calls, strays>>,
               DOMAIN theirs' = FormFields, NEW f \in RowFields, NEW v,
               f = "eventTypes" => v \in Seq(Pattern),
               endpoints' = [endpoints EXCEPT ![e][f] = v],
               EndpointsScreen!EditTouchesOnlyItsFields'
        PROVE  EndpointInv'
    <2>1. DOMAIN endpoints' = Endpoints /\ \A d \in Endpoints : Row(endpoints'[d])
      BY <1>0, <1>1 DEF EndpointTypes, Row, RowFields
    <2>2. EndpointTypes'
      BY <1>0, <1>1, <2>1 DEF EndpointTypes
    <2>3. RowsInv'
      BY <1>0, <1>1 DEF RowsInv, GateInv
    <2>4. FormInv'
      BY <1>0, <1>1 DEF FormInv
    <2> QED
      BY <2>2, <2>3, <2>4 DEF EndpointInv
  <1>2. CASE EndpointsScreen!workerDisables(e)
    <2>1. /\ UNCHANGED <<route, endpointStore, view, gate, listRequest, calls, strays, theirs>>
          /\ endpoints' = [endpoints EXCEPT ![e]["status"] = "DISABLED"]
      BY <1>2 DEF EndpointsScreen!workerDisables
    <2>2. EndpointsScreen!EditTouchesOnlyItsFields'
      BY <1>0, <2>1 DEF FormInv, EndpointsScreen!EditTouchesOnlyItsFields,
                        EndpointsScreen!isEdit, EndpointsScreen!Fields, EndpointTypes
    <2>3. "status" \in RowFields /\ "status" # "eventTypes" /\ DOMAIN theirs' = FormFields
      BY <1>0, <2>1 DEF EndpointTypes, RowFields
    <2> QED
      BY <1>1, <2>1, <2>2, <2>3
  <1>3. ASSUME NEW f \in DOMAIN EndpointsScreen!OtherEdits,
               NEW v \in EndpointsScreen!OtherEdits[f], EndpointsScreen!otherOwner(e, f, v)
        PROVE  EndpointInv'
    <2>1. f \in FormFields /\ (f = "eventTypes" => v \in Seq(Pattern))
      <3>1. f \in FormFields
        BY DEF EndpointsScreen!OtherEdits, FormFields
      <3>2. f = "eventTypes" => v = << >> \/ \E t \in Types : v = <<t>>
        <4>1. EndpointsScreen!OtherEdits["eventTypes"] = {<<>>} \cup {<<t>> : t \in Types}
          BY DEF EndpointsScreen!OtherEdits
        <4> QED
          BY <4>1
      <3>3. << >> \in Seq(Pattern) /\ \A t \in Types : <<t>> \in Seq(Pattern)
        BY EmptySeq DEF Pattern
      <3> QED
        BY <3>1, <3>2, <3>3
    <2>2. /\ UNCHANGED <<route, endpointStore, view, gate, listRequest, calls, strays>>
          /\ endpoints' = [endpoints EXCEPT ![e][f] = v]
          /\ theirs' = IF view.form.target = e THEN [theirs EXCEPT ![f] = {v}] ELSE theirs
      BY <1>3 DEF EndpointsScreen!otherOwner
    <2>3. EndpointsScreen!EditTouchesOnlyItsFields'
      <3> SUFFICES ASSUME view.form.target \in Endpoints, NEW g \in FormFields \ Own(view.form)
                   PROVE  theirs'[g] \subseteq {endpoints'[view.form.target][g]}
        BY <2>2 DEF EndpointsScreen!EditTouchesOnlyItsFields, EndpointsScreen!isEdit,
                    EndpointsScreen!Fields, FormFields, Own
      <3>1. theirs[g] \subseteq {endpoints[view.form.target][g]}
        BY <1>0 DEF FormInv, EndpointsScreen!EditTouchesOnlyItsFields, EndpointsScreen!isEdit,
                    EndpointsScreen!Fields, FormFields, Own
      <3>2. /\ DOMAIN theirs = FormFields /\ DOMAIN endpoints = Endpoints
            /\ FormFields \subseteq DOMAIN endpoints[e]
        BY <1>0 DEF EndpointTypes, Row, RowFields
      <3> QED
        BY <2>1, <2>2, <3>1, <3>2
    <2>4. DOMAIN theirs' = FormFields
      BY <1>0, <2>2 DEF EndpointTypes
    <2> QED
      BY <1>1, <2>1, <2>2, <2>3, <2>4 DEF RowFields, FormFields
  <1> QED
    BY <1>2, <1>3

\* load, for the project the URL names afterwards.
LEMMA EndpointLoads ==
    ASSUME EndpointInv, NEW s, NEW force, EndpointsScreen!load(s, route', force),
           force \/ s.items = {}, DOMAIN s = {"items", "loaded"},
           \A i \in s.items : Item(i) /\ (i.project = route' \/ i.id \in strays'),
           UNCHANGED <<endpoints, theirs>>, view' = view \/ view' = [view EXCEPT !.offer = NoEndpoint]
    PROVE  EndpointInv'
  <1>0. EndpointTypes /\ RowsInv /\ FormInv
    BY DEF EndpointInv
  <1> DEFINE c == EndpointsScreen!Call("list", NoEndpoint, route', EndpointsScreen!None, gate',
                                       listRequest'.ownSeq)
  <1>1. /\ gate' = gate + 1 /\ calls' = calls \cup {c} /\ endpointStore' = s
        /\ listRequest' = [ownSeq |-> listRequest.ownSeq + 1, loading |-> TRUE, error |-> FALSE]
    BY DEF EndpointsScreen!load, EndpointsScreen!claimed, EndpointsScreen!started
  <1>2. /\ c.seq = gate' /\ c.mine = listRequest'.ownSeq /\ c.project = route' /\ c.kind = "list"
        /\ Call(c)
    BY DEF EndpointsScreen!Call, Call, EndpointCall, Patch, EndpointsScreen!None
  <1> HIDE DEF c
  <1>3. DOMAIN view' = ViewFields /\ view'.form = view.form
    BY <1>0 DEF EndpointTypes, ViewFields
  <1>4. EndpointTypes'
    BY <1>0, <1>1, <1>2, <1>3 DEF EndpointTypes
  <1>5. /\ GateInv' /\ \A d \in calls' : d.kind \in Reads /\ d.seq = gate' => d = c
    BY <1>0, <1>1, <1>2, GateClaimed DEF RowsInv
  <1>6. RowsInv'
    BY <1>1, <1>2, <1>5 DEF RowsInv, Reads
  <1>7. FormInv'
    BY <1>0, <1>1, <1>2, <1>3, FormKept DEF Submits
  <1> QED
    BY <1>4, <1>6, <1>7 DEF EndpointInv

\* The steps that leave the form, the rows of the API and the request of the list alone.
LEMMA EndpointKept ==
    ASSUME EndpointInv, UNCHANGED <<route, gate, listRequest, endpoints, theirs>>,
           DOMAIN view' = ViewFields, view'.form = view.form,
           \A d \in calls' : d \in calls \/ (Call(d) /\ d.kind \notin Submits \cup {"list"}),
           DOMAIN endpointStore' = {"items", "loaded"},
           \A i \in endpointStore'.items : Item(i) /\ (i.project = route \/ i.id \in strays')
    PROVE  EndpointInv'
  <1>0. EndpointTypes /\ RowsInv /\ FormInv
    BY DEF EndpointInv
  <1>1. EndpointTypes'
    BY <1>0 DEF EndpointTypes
  <1>2. RowsInv'
    BY <1>0, <1>1, RowsKept
  <1>3. FormInv'
    BY <1>0, FormKept
  <1> QED
    BY <1>1, <1>2, <1>3 DEF EndpointInv

\* The row of an answer replaces the row of the list; one of a project that was left is
\* counted as such.
LEMMA StoredRows ==
    ASSUME EndpointInv, NEW c \in calls, c.kind # "list", EndpointsScreen!Stored(c)
    PROVE  /\ DOMAIN endpointStore' = {"items", "loaded"}
           /\ \A i \in endpointStore'.items : Item(i) /\ (i.project = route \/ i.id \in strays')
  <1>1. /\ Call(c) /\ DOMAIN endpointStore = {"items", "loaded"}
        /\ \A i \in endpointStore.items : Item(i) /\ (i.project = route \/ i.id \in strays)
    BY DEF EndpointInv, EndpointTypes, RowsInv
  <1>2. CASE c.at # "ok" \/ c.kind = "test"
    BY <1>1, <1>2 DEF EndpointsScreen!Stored
  <1>3. CASE ~(c.at # "ok" \/ c.kind = "test") /\ c.kind = "delete"
    BY <1>1, <1>3 DEF EndpointsScreen!Stored
  <1>4. CASE ~(c.at # "ok" \/ c.kind = "test") /\ c.kind # "delete"
    <2> DEFINE b == EndpointsScreen!Body(c)
               shown == EndpointsScreen!stripSecret(b)
    <2>1. c.body = {b} /\ b.id = c.id
      BY <1>1, <1>4 DEF Call, EndpointsScreen!Body
    <2>2. Item(b)
      BY <1>1, <2>1 DEF Call
    <2> HIDE DEF b
    <2>3. Item(shown) /\ shown.id = c.id /\ shown.project = b.project
      BY <2>1, <2>2, Stripped
    <2> HIDE DEF shown
    <2>4. /\ endpointStore' = [endpointStore EXCEPT !.items =
                 {i \in endpointStore.items : i.id # shown.id} \cup {shown}]
          /\ strays' = IF b.project = route THEN strays ELSE strays \cup {c.id}
      BY <1>4 DEF EndpointsScreen!Stored, EndpointsScreen!upsert, shown, b
    <2> QED
      BY <1>1, <2>3, <2>4
  <1> QED
    BY <1>2, <1>3, <1>4

\* A call on a row, sent by a button.
LEMMA RowCall ==
    ASSUME NEW kind \in RowCalls, NEW id, NEW project, NEW mine
    PROVE  LET d == EndpointsScreen!Call(kind, id, project, EndpointsScreen!None, 0, mine)
           IN  Call(d) /\ d.kind = kind
  BY DEF EndpointsScreen!Call, Call, EndpointCall, Patch, EndpointsScreen!None, RowCalls, Submits

\* load, after its request.
LEMMA EndpointLoaded ==
    ASSUME EndpointInv, NEW c \in calls, EndpointsScreen!loaded(c) PROVE EndpointInv'
  <1>0. EndpointTypes /\ RowsInv /\ FormInv
    BY DEF EndpointInv
  <1>1. /\ c.kind = "list" /\ calls' = calls \ {c} /\ UNCHANGED <<gate, route, endpoints, theirs, view>>
        /\ listRequest' = [listRequest EXCEPT
               !.error = IF c.at = "sent" /\ c.seq = gate THEN TRUE ELSE @,
               !.loading = IF c.mine = listRequest.ownSeq THEN FALSE ELSE @]
    BY DEF EndpointsScreen!loaded, EndpointsScreen!settled, EndpointsScreen!isCurrent
  <1>2. GateInv'
    BY <1>0, <1>1, GateSettled DEF Reads, RowsInv
  <1>3. /\ DOMAIN endpointStore' = {"items", "loaded"}
        /\ \A i \in endpointStore'.items : Item(i) /\ (i.project = route \/ i.id \in strays')
    <2>1. CASE c.seq = gate /\ c.at = "ok"
      <3>1. endpointStore' = [items |-> c.body, loaded |-> c.project]
        BY <2>1 DEF EndpointsScreen!loaded, EndpointsScreen!isCurrent
      <3>2. \A b \in c.body : Item(b) /\ b.project = c.project
        BY <1>0, <1>1 DEF EndpointTypes, Call
      <3>3. c.project = route
        BY <1>0, <1>1, <2>1 DEF RowsInv
      <3> QED
        BY <3>1, <3>2, <3>3
    <2>2. CASE ~(c.seq = gate /\ c.at = "ok")
      <3>1. UNCHANGED <<endpointStore, strays>>
        BY <2>2 DEF EndpointsScreen!loaded, EndpointsScreen!isCurrent
      <3> QED
        BY <1>0, <3>1 DEF EndpointTypes, RowsInv
    <2> QED
      BY <2>1, <2>2
  <1>4. EndpointTypes'
    BY <1>0, <1>1, <1>3 DEF EndpointTypes
  <1>5. RowsInv'
    BY <1>0, <1>1, <1>2, <1>3 DEF RowsInv
  <1>6. FormInv'
    BY <1>0, <1>1, FormKept
  <1> QED
    BY <1>4, <1>5, <1>6 DEF EndpointInv

\* submit: the call of an edit carries fields that were touched.
LEMMA SubmitKeeps == ASSUME EndpointInv, EndpointsScreen!submit PROVE EndpointInv'
  <1>0. EndpointTypes /\ RowsInv /\ FormInv
    BY DEF EndpointInv
  <1> DEFINE f == view.form
             added == EndpointsScreen!addFromDraft(f)
             checked == [added EXCEPT !.formError = FALSE,
                                      !.errors = EndpointsScreen!validate(added)]
  <1>1. /\ f # EndpointsScreen!NoForm /\ ~f.submitting
        /\ UNCHANGED <<endpoints, route, endpointStore, gate, listRequest, theirs, strays>>
    BY DEF EndpointsScreen!submit
  <1>2. Form(f) /\ DOMAIN view = ViewFields
    BY <1>0, <1>1 DEF EndpointTypes
  <1>3. \A d \in calls : d.kind \notin Submits
    BY <1>0, <1>1 DEF FormInv
  <1>4. Follows(added, f)
    <2> HIDE DEF f
    <2> QED
      BY <1>2, DraftFollows
  <1>5. CASE added.draftError \/ checked.errors # {}
    <2>1. /\ view' = [view EXCEPT !.form = IF added.draftError THEN added ELSE checked]
          /\ calls' = calls
      BY <1>5 DEF EndpointsScreen!submit
    <2> HIDE DEF added
    <2>2. Follows(checked, f)
      BY <1>4 DEF Follows, Form
    <2> HIDE DEF checked
    <2>3. DOMAIN view' = ViewFields /\ Follows(view'.form, view.form)
      BY <1>2, <1>4, <2>1, <2>2 DEF ViewFields
    <2>4. EndpointTypes'
      BY <1>0, <1>1, <2>1, <2>3 DEF EndpointTypes, Follows
    <2>5. RowsInv'
      BY <1>0, <1>1, <2>1 DEF RowsInv, GateInv
    <2>6. FormInv'
      BY <1>0, <1>1, <2>1, <2>3, FormKept
    <2> QED
      BY <2>4, <2>5, <2>6 DEF EndpointInv
  <1>6. CASE ~(added.draftError \/ checked.errors # {})
    <2> DEFINE sent == [checked EXCEPT !.submitting = TRUE]
    <2>1. /\ view' = [view EXCEPT !.form = sent]
          /\ \E id \in IF EndpointsScreen!isEdit THEN {f.target}
                       ELSE Endpoints \ EndpointsScreen!Existing :
                calls' = calls \cup
                   {IF EndpointsScreen!isEdit
                    THEN EndpointsScreen!Call("update", id, route,
                                              EndpointsScreen!buildPatch(checked), 0, begun')
                    ELSE EndpointsScreen!Call("create", id, route,
                                              EndpointsScreen!buildCreateBody(checked), 0, begun')}
      BY <1>6 DEF EndpointsScreen!submit
    <2> HIDE DEF added
    <2>2. /\ Form(checked) /\ checked.target = f.target /\ checked.was = f.was
          /\ f.touched \subseteq checked.touched
      BY <1>4 DEF Follows, Form
    <2> HIDE DEF checked
    <2>3. /\ Form(sent) /\ sent.target = f.target /\ sent.submitting
          /\ sent.touched = checked.touched /\ sent.was = f.was
      BY <2>2 DEF Form
    <2> HIDE DEF sent
    <2>4. DOMAIN view' = ViewFields /\ view'.form = sent
      BY <1>2, <2>1 DEF ViewFields
    <2>5. PICK d : /\ calls' = calls \cup {d} /\ Call(d) /\ d.kind \in Submits
                   /\ d.kind = "create" => f.target \notin Endpoints
                   /\ d.kind = "update" =>
                         d.id = f.target /\ DOMAIN d.patch \subseteq Own(checked)
      <3>1. CASE EndpointsScreen!isEdit
        <4> DEFINE p == EndpointsScreen!buildPatch(checked)
                   d == EndpointsScreen!Call("update", f.target, route, p, 0, begun')
        <4>1. calls' = calls \cup {d}
          BY <2>1, <3>1
        <4>2. Patch(p) /\ DOMAIN p \subseteq Own(checked)
          BY <2>2, Sent
        <4> HIDE DEF p
        <4>3. Call(d) /\ d.kind = "update" /\ d.id = f.target /\ d.patch = p
          BY <4>2 DEF EndpointsScreen!Call, Call, EndpointCall, RowCalls, Submits
        <4> HIDE DEF d
        <4> QED
          BY <4>1, <4>2, <4>3 DEF Submits
      <3>2. CASE ~EndpointsScreen!isEdit
        <4> DEFINE p == EndpointsScreen!buildCreateBody(checked)
        <4>1. PICK id : calls' = calls \cup
                          {EndpointsScreen!Call("create", id, route, p, 0, begun')}
          BY <2>1, <3>2
        <4> DEFINE d == EndpointsScreen!Call("create", id, route, p, 0, begun')
        <4>2. Patch(p)
          BY <2>2, Sent
        <4> HIDE DEF p
        <4>3. Call(d) /\ d.kind = "create"
          BY <4>2 DEF EndpointsScreen!Call, Call, EndpointCall, RowCalls, Submits
        <4>4. calls' = calls \cup {d} /\ f.target \notin Endpoints
          BY <3>2, <4>1 DEF EndpointsScreen!isEdit
        <4> HIDE DEF d
        <4> QED
          BY <4>3, <4>4 DEF Submits
      <3> QED
        BY <3>1, <3>2
    <2>6. EndpointTypes'
      BY <1>0, <1>1, <2>3, <2>4, <2>5 DEF EndpointTypes
    <2>7. RowsInv'
      <3>1. d.kind # "list"
        BY <2>5 DEF Submits
      <3>2. \A i \in endpointStore'.items : i.project = route \/ i.id \in strays'
        BY <1>0, <1>1 DEF RowsInv
      <3> QED
        BY <1>0, <1>1, <2>5, <2>6, <3>1, <3>2, RowsKept
    <2> HIDE DEF f
    <2>11. Own(f) \subseteq Own(sent) /\ Own(checked) \subseteq Own(sent)
      BY <2>2, <2>3, OwnGrows
    <2>8. EndpointsScreen!EditTouchesOnlyItsFields'
      BY <1>0, <1>1, <2>2, <2>3, <2>4, <2>11
      DEF f, Own, FormInv, EndpointsScreen!EditTouchesOnlyItsFields, EndpointsScreen!isEdit
    <2>9. sent # EndpointsScreen!NoForm
      BY <2>3 DEF Form, EndpointsScreen!NoForm
    <2>10. FormInv'
      BY <1>3, <2>3, <2>4, <2>5, <2>8, <2>9, <2>11 DEF FormInv
    <2> QED
      BY <2>6, <2>7, <2>10 DEF EndpointInv
  <1> QED
    BY <1>5, <1>6

\* submit, after its request: the form closes, or may be submitted again.
LEMMA SubmittedKeeps ==
    ASSUME EndpointInv, NEW c \in calls, EndpointsScreen!submitted(c) PROVE EndpointInv'
  <1>0. EndpointTypes /\ RowsInv /\ FormInv
    BY DEF EndpointInv
  <1>1. /\ c.kind \in Submits /\ calls' = calls \ {c} /\ EndpointsScreen!Stored(c)
        /\ UNCHANGED <<endpoints, route, gate, listRequest, theirs>>
    BY DEF EndpointsScreen!submitted, Submits
  <1>2. \A d \in calls' : d \in calls /\ d.kind \notin Submits
    BY <1>0, <1>1 DEF FormInv
  <1>3. /\ DOMAIN endpointStore' = {"items", "loaded"}
        /\ \A i \in endpointStore'.items : Item(i) /\ (i.project = route \/ i.id \in strays')
    BY <1>1, StoredRows DEF Submits
  <1> DEFINE f == view.form
             left == EndpointsScreen!applyServerError([f EXCEPT !.submitting = FALSE],
                                        IF c.at = "refused" THEN {"url"} ELSE {})
  <1>4. /\ DOMAIN view = ViewFields /\ Form(f)
        /\ f.target \in Endpoints => \A h \in EndpointsScreen!Fields \ Own(f) :
              theirs[h] \subseteq {endpoints[f.target][h]}
    BY <1>0, <1>1 DEF EndpointTypes, FormInv, EndpointsScreen!EditTouchesOnlyItsFields,
                      EndpointsScreen!isEdit, Own
  <1>5. Form(left) /\ left.target = f.target /\ Own(f) \subseteq Own(left)
    <2> HIDE DEF f
    <2>1. Form(left) /\ left.target = f.target /\ left.touched = f.touched /\ left.was = f.was
      BY <1>4 DEF Form, EndpointsScreen!applyServerError
    <2> HIDE DEF left
    <2> QED
      BY <2>1, OwnGrows
  <1>6. /\ DOMAIN view' = ViewFields
        /\ view'.form = IF c.at = "ok" THEN EndpointsScreen!NoForm ELSE left
    <2> HIDE DEF left
    <2>1. \/ /\ c.at = "ok"
             /\ \E reveal, offer : view' = [view EXCEPT !.form = EndpointsScreen!NoForm,
                                                        !.reveal = reveal, !.offer = offer]
          \/ c.at # "ok" /\ view' = [view EXCEPT !.form = left]
      BY DEF EndpointsScreen!submitted, left
    <2> QED
      BY <1>4, <2>1 DEF ViewFields
  <1> HIDE DEF left
  <1>7. EndpointTypes'
    BY <1>0, <1>1, <1>2, <1>3, <1>5, <1>6 DEF EndpointTypes
  <1>8. RowsInv'
    BY <1>0, <1>1, <1>2, <1>3, <1>7, RowsKept
  <1>9. EndpointsScreen!EditTouchesOnlyItsFields'
    <2>1. EndpointsScreen!NoForm.target \notin Endpoints
      BY DashboardAssumption DEF EndpointsScreen!NoForm
    <2> QED
      BY <1>1, <1>4, <1>5, <1>6, <2>1
      DEF EndpointsScreen!EditTouchesOnlyItsFields, EndpointsScreen!isEdit, Own
  <1>10. FormInv'
    BY <1>2, <1>9 DEF FormInv
  <1> QED
    BY <1>7, <1>8, <1>10 DEF EndpointInv

\* The form is opened on a row of the list or on nothing, or closed.
LEMMA FormOpens ==
    ASSUME EndpointInv, UNCHANGED <<endpoints, route, endpointStore, gate, listRequest, calls, strays>>,
           NEW form, view' = [view EXCEPT !.form = form],
           view.form = EndpointsScreen!NoForm \/ ~view.form.submitting,
           \/ form = EndpointsScreen!NoForm /\ theirs' = theirs
           \/ Form(form) /\ theirs' = EndpointsScreen!Untouched
    PROVE  EndpointInv'
  <1>0. EndpointTypes /\ RowsInv /\ FormInv
    BY DEF EndpointInv
  <1>1. \A d \in calls' : d.kind \notin Submits
    BY <1>0 DEF FormInv
  <1>2. DOMAIN view' = ViewFields /\ view'.form = form
    BY <1>0 DEF EndpointTypes, ViewFields
  <1>3. DOMAIN theirs' = FormFields
    BY <1>0 DEF EndpointTypes, EndpointsScreen!Untouched, EndpointsScreen!Fields, FormFields
  <1>4. EndpointTypes'
    BY <1>0, <1>2, <1>3 DEF EndpointTypes
  <1>5. RowsInv'
    BY <1>0 DEF RowsInv, GateInv
  <1>6. EndpointsScreen!EditTouchesOnlyItsFields'
    <2>1. EndpointsScreen!NoForm.target \notin Endpoints
      BY DashboardAssumption DEF EndpointsScreen!NoForm
    <2>2. \A h \in EndpointsScreen!Fields : EndpointsScreen!Untouched[h] = {}
      BY DEF EndpointsScreen!Untouched
    <2> QED
      BY <1>2, <2>1, <2>2 DEF EndpointsScreen!EditTouchesOnlyItsFields, EndpointsScreen!isEdit
  <1>7. FormInv'
    BY <1>1, <1>6 DEF FormInv
  <1> QED
    BY <1>4, <1>5, <1>7 DEF EndpointInv

\* A form as it is opened.
LEMMA OpenedForm ==
    ASSUME NEW target, NEW values, DOMAIN values = FormFields, values.eventTypes \in Seq(Pattern)
    PROVE  Form(EndpointsScreen!opened(target, values))
  <1>1. << >> \in Seq(Pattern) /\ Len(<< >>) <= 2
    BY EmptySeq
  <1> QED
    BY <1>1 DEF Form, EndpointsScreen!opened

\* Every step of the endpoints screen.
LEMMA EndpointStep == ASSUME EndpointInv, EndpointsScreen!EndpointNext PROVE EndpointInv'
  <1>0. /\ EndpointTypes /\ DOMAIN view = ViewFields
        /\ view.form = EndpointsScreen!NoForm \/ Form(view.form)
        /\ DOMAIN endpointStore = {"items", "loaded"}
        /\ \A i \in endpointStore.items : Item(i) /\ (i.project = route \/ i.id \in strays)
    BY DEF EndpointInv, EndpointTypes, RowsInv
  <1>1. ASSUME NEW v, EndpointsScreen!Shows(v), DOMAIN v = ViewFields, v.form = view.form
        PROVE  EndpointInv'
    BY <1>0, <1>1, EndpointKept DEF EndpointsScreen!Shows
  <1>2. ASSUME NEW id, NEW action \in {"test", "rotate", "enable", "disable"},
               EndpointsScreen!withBusy(id, action)
        PROVE  EndpointInv'
    <2> DEFINE d == EndpointsScreen!Call(action, id, route, EndpointsScreen!None, 0, begun')
    <2>1. /\ UNCHANGED <<route, gate, listRequest, endpoints, theirs, endpointStore, strays>>
          /\ DOMAIN view' = ViewFields /\ view'.form = view.form /\ calls' = calls \cup {d}
      BY <1>0, <1>2 DEF EndpointsScreen!withBusy, ViewFields
    <2>2. Call(d) /\ d.kind = action
      BY RowCall DEF RowCalls
    <2> HIDE DEF d
    <2> QED
      BY <1>0, <2>1, <2>2, EndpointKept DEF Submits
  <1>3. ASSUME NEW c \in calls, EndpointsScreen!actionDone(c) \/ EndpointsScreen!deleted(c)
        PROVE  EndpointInv'
    <2>1. /\ c.kind # "list" /\ EndpointsScreen!Stored(c) /\ calls' = calls \ {c}
          /\ UNCHANGED <<route, gate, listRequest, endpoints, theirs>>
          /\ DOMAIN view' = ViewFields /\ view'.form = view.form
      BY <1>0, <1>3 DEF EndpointsScreen!actionDone, EndpointsScreen!deleted, ViewFields
    <2> QED
      BY <1>0, <2>1, StoredRows, EndpointKept
  <1>4. ASSUME NEW e \in Endpoints, EndpointsScreen!markDisabled(e) PROVE EndpointInv'
    <2> DEFINE marked(i) == IF i.id = e THEN [i EXCEPT !.status = "DISABLED"] ELSE i
    <2>1. /\ UNCHANGED <<route, gate, listRequest, endpoints, theirs, view, calls, strays>>
          /\ endpointStore' = [endpointStore EXCEPT !.items =
                                   {marked(i) : i \in endpointStore.items}]
      BY <1>4 DEF EndpointsScreen!markDisabled
    <2>2. ASSUME NEW i \in endpointStore.items
          PROVE  Item(marked(i)) /\ marked(i).project = i.project /\ marked(i).id = i.id
      BY <1>0 DEF Item, Row, RowFields, FormFields
    <2> HIDE DEF marked
    <2>3. /\ DOMAIN endpointStore' = {"items", "loaded"}
          /\ endpointStore'.items = {marked(i) : i \in endpointStore.items}
      BY <1>0, <2>1
    <2>4. \A i \in endpointStore'.items : Item(i) /\ (i.project = route \/ i.id \in strays')
      BY <1>0, <2>1, <2>2, <2>3
    <2> QED
      BY <1>0, <2>1, <2>3, <2>4, EndpointKept
  <1>5. ASSUME NEW item \in endpointStore.items,
               \/ \E a \in {"test", "rotate", "enable", "disable"} :
                     EndpointsScreen!rowAction(item, a)
               \/ EndpointsScreen!askDelete(item)
        PROVE  EndpointInv'
    BY <1>0, <1>1, <1>2, <1>5
    DEF EndpointsScreen!rowAction, EndpointsScreen!askDelete, ViewFields
  <1>6. ASSUME NEW item \in endpointStore.items, EndpointsScreen!openEdit(item)
        PROVE  EndpointInv'
    <2> DEFINE form == EndpointsScreen!opened(item.id, EndpointsScreen!Values(item))
    <2>1. EndpointsScreen!OpenForm(form) /\ Item(item)
      BY <1>0, <1>6 DEF EndpointsScreen!openEdit
    <2>2. Form(form)
      <3>1. /\ DOMAIN EndpointsScreen!Values(item) = FormFields
            /\ EndpointsScreen!Values(item).eventTypes \in Seq(Pattern)
        BY <2>1 DEF EndpointsScreen!Values, EndpointsScreen!Fields, FormFields, Item, Row
      <3> QED
        BY <3>1, OpenedForm
    <2> HIDE DEF form
    <2> QED
      BY <2>1, <2>2, FormOpens DEF EndpointsScreen!OpenForm, EndpointsScreen!Modal
  <1>7. ASSUME EndpointsScreen!openCreate PROVE EndpointInv'
    <2> DEFINE values == [EndpointsScreen!Defaults EXCEPT !.rate = ""]
               form == EndpointsScreen!opened("new", values)
    <2>1. EndpointsScreen!OpenForm(form)
      BY <1>7 DEF EndpointsScreen!openCreate
    <2>2. DOMAIN values = FormFields /\ values.eventTypes = << >>
      BY DEF EndpointsScreen!Defaults, FormFields
    <2> HIDE DEF values
    <2>3. << >> \in Seq(Pattern)
      BY EmptySeq
    <2>4. Form(form)
      BY <2>2, <2>3, OpenedForm
    <2> HIDE DEF form
    <2> QED
      BY <2>1, <2>4, FormOpens DEF EndpointsScreen!OpenForm, EndpointsScreen!Modal
  <1>8. ASSUME EndpointsScreen!closeForm PROVE EndpointInv'
    BY <1>8, FormOpens DEF EndpointsScreen!closeForm, EndpointsScreen!Shows
  <1>9. ASSUME NEW form, EndpointsScreen!Typing(form), view.form # EndpointsScreen!NoForm,
               Follows(form, view.form)
        PROVE  EndpointInv'
    <2>1. /\ UNCHANGED <<endpoints, route, endpointStore, gate, listRequest, calls, theirs, strays>>
          /\ DOMAIN view' = ViewFields /\ view'.form = form
      BY <1>0, <1>9 DEF EndpointsScreen!Typing, ViewFields
    <2>2. EndpointTypes'
      BY <1>0, <1>9, <2>1 DEF EndpointTypes, Follows
    <2>3. RowsInv'
      BY <2>1 DEF EndpointInv, RowsInv, GateInv
    <2>4. FormInv'
      BY <1>9, <2>1, FormKept DEF EndpointInv
    <2> QED
      BY <2>2, <2>3, <2>4 DEF EndpointInv
  <1>10. ASSUME EndpointsScreen!editForm PROVE EndpointInv'
    <2> DEFINE f == view.form
    <2>1. f # EndpointsScreen!NoForm /\ Form(f)
      BY <1>0, <1>10 DEF EndpointsScreen!editForm
    <2>2. DOMAIN EndpointsScreen!Inputs \subseteq FormFields \ {"eventTypes"}
      BY DEF EndpointsScreen!Inputs, FormFields
    <2>3. ASSUME NEW field \in DOMAIN EndpointsScreen!Inputs, NEW v,
                 EndpointsScreen!Typing(EndpointsScreen!typed(f, field, v))
          PROVE  EndpointInv'
      BY <1>9, <2>1, <2>2, <2>3, TypedFollows
    <2>4. ASSUME NEW draft \in EndpointsScreen!Drafts,
                 EndpointsScreen!Typing(EndpointsScreen!addFromDraft(
                                            EndpointsScreen!typedDraft(f, draft)))
          PROVE  EndpointInv'
      <3> DEFINE g == EndpointsScreen!typedDraft(f, draft)
                 h == EndpointsScreen!addFromDraft(g)
      <3>1. Follows(g, f)
        BY <2>1, DraftTyped
      <3>2. EndpointsScreen!Typing(h)
        BY <2>4
      <3> HIDE DEF g
      <3>3. Follows(h, g)
        BY <3>1, DraftFollows DEF Follows
      <3> HIDE DEF h
      <3>4. Follows(h, f)
        BY <3>1, <3>3 DEF Follows
      <3> QED
        BY <1>9, <2>1, <3>2, <3>4
    <2>5. ASSUME NEW k \in DOMAIN f.values.eventTypes,
                 EndpointsScreen!Typing(EndpointsScreen!removeEventType(f, k))
          PROVE  EndpointInv'
      BY <1>9, <2>1, <2>5, RemovedFollows
    <2> QED
      BY <1>10, <2>3, <2>4, <2>5 DEF EndpointsScreen!editForm
  <1>11. ASSUME EndpointsScreen!noticeAction PROVE EndpointInv'
    BY <1>2, <1>11 DEF EndpointsScreen!noticeAction
  <1>12. ASSUME EndpointsScreen!keepIt \/ EndpointsScreen!acknowledge PROVE EndpointInv'
    BY <1>0, <1>1, <1>12 DEF EndpointsScreen!keepIt, EndpointsScreen!acknowledge, ViewFields
  <1>13. ASSUME EndpointsScreen!confirmDelete PROVE EndpointInv'
    <2> DEFINE d == EndpointsScreen!Call("delete", view.deleteTarget.id, route,
                                         EndpointsScreen!None, 0, begun')
    <2>1. /\ UNCHANGED <<route, gate, listRequest, endpoints, theirs, endpointStore, strays>>
          /\ DOMAIN view' = ViewFields /\ view'.form = view.form /\ calls' = calls \cup {d}
      BY <1>0, <1>13 DEF EndpointsScreen!confirmDelete, ViewFields
    <2>2. Call(d) /\ d.kind = "delete"
      BY RowCall DEF RowCalls
    <2> HIDE DEF d
    <2> QED
      BY <1>0, <2>1, <2>2, EndpointKept DEF Submits
  <1>14. ASSUME EndpointsScreen!retry PROVE EndpointInv'
    <2>1. /\ EndpointsScreen!load(endpointStore, route', TRUE) /\ endpointStore.items = {}
          /\ UNCHANGED <<endpoints, theirs, view>>
      BY <1>14 DEF EndpointsScreen!retry
    <2> QED
      BY <1>0, <2>1, EndpointLoads
  <1>15. ASSUME NEW project \in Projects, EndpointsScreen!navigate(project) PROVE EndpointInv'
    <2>1. /\ EndpointsScreen!load(EndpointsScreen!reset, route', FALSE)
          /\ UNCHANGED <<endpoints, theirs>> /\ view' = [view EXCEPT !.offer = NoEndpoint]
      BY <1>15 DEF EndpointsScreen!navigate
    <2>2. /\ EndpointsScreen!reset.items = {}
          /\ DOMAIN EndpointsScreen!reset = {"items", "loaded"}
      BY DEF EndpointsScreen!reset
    <2> QED
      BY <2>1, <2>2, EndpointLoads
  <1>16. ASSUME NEW c \in calls, EndpointsScreen!Serving(c) \/ EndpointsScreen!loaded(c)
                                 \/ EndpointsScreen!submitted(c)
         PROVE  EndpointInv'
    BY <1>16, ServingKeeps, EndpointLoaded, SubmittedKeeps
  <1>17. ASSUME NEW e \in Endpoints,
                \/ EndpointsScreen!workerDisables(e)
                \/ \E f \in DOMAIN EndpointsScreen!OtherEdits :
                      \E v \in EndpointsScreen!OtherEdits[f] : EndpointsScreen!otherOwner(e, f, v)
         PROVE  EndpointInv'
    BY <1>17, OthersKeep
  <1> QED
    BY <1>3, <1>4, <1>5, <1>6, <1>7, <1>8, <1>10, <1>11, <1>12, <1>13, <1>14, <1>15, <1>16,
       <1>17, SubmitKeeps DEF EndpointsScreen!EndpointNext

-----------------------------------------------------------------------------
(* The four screens. *)

DashboardInv ==
    /\ page = "deliveries" => ListInv /\ PageInv
    /\ page = "delivery" => DetailInv
    /\ page = "endpoints" => EndpointInv
    /\ page = "settings" => TableInv

\* The variables that the invariant of a screen reads stay as they are.
LEMMA DashboardStutters == ASSUME DashboardInv, UNCHANGED vars PROVE DashboardInv'
  <1> USE DEF vars, screenVars, listOnly, endpointOnly, managedOnly
  <1>1. GateInv => GateInv'
    BY DEF GateInv
  <1>2. ListInv /\ PageInv => ListInv' /\ PageInv'
    <2>1. ListInv => ListInv'
      BY <1>1 DEF ListInv, Deliveries!ListIsOfRoute, Deliveries!Shown
    <2>2. Clean' = Clean
      BY DEF Clean, Deliveries!Shown
    <2>3. PageTypes /\ CallsInv => PageTypes' /\ CallsInv'
      BY DEF PageTypes, CallsInv, Reading, Following
    <2>4. AnswersInv /\ ScreenInv => AnswersInv' /\ ScreenInv'
      BY <2>2 DEF AnswersInv, ScreenInv, Reading, Following
    <2> QED
      BY <2>1, <2>3, <2>4 DEF PageInv
  <1>3. DetailInv => DetailInv'
    BY <1>1 DEF DetailInv, Detail!DetailIsOfRoute
  <1>4. EndpointInv => EndpointInv'
    BY <1>1 DEF EndpointInv, EndpointTypes, RowsInv, FormInv,
                EndpointsScreen!EditTouchesOnlyItsFields, EndpointsScreen!isEdit
  <1>5. TableInv => TableInv'
    BY <1>1 DEF TableInv, Settings!TableIsOfRoute
  <1> QED
    BY <1>2, <1>3, <1>4, <1>5 DEF DashboardInv

\* Whichever screen is open.
LEMMA DashboardHolds == Spec => []DashboardInv
  <1>1. Init => DashboardInv
    BY ListInit, PageInit, DetailInits, EndpointInits, TableInits DEF Init, DashboardInv
  <1>2. DashboardInv /\ [Next]_vars => DashboardInv'
    <2> SUFFICES ASSUME DashboardInv, Next PROVE DashboardInv'
      BY DashboardStutters
    <2>1. CASE page = "deliveries" /\ page' = page /\ Deliveries!DeliveryNext
      BY <2>1, ListStep, PageStep DEF DashboardInv
    <2>2. CASE page = "delivery" /\ page' = page /\ Detail!DetailNext
      BY <2>2, DetailStep DEF DashboardInv
    <2>3. CASE page = "endpoints" /\ page' = page /\ EndpointsScreen!EndpointNext
      BY <2>3, EndpointStep DEF DashboardInv
    <2>4. CASE page = "settings" /\ page' = page /\ Settings!ManagedNext
      BY <2>4, TableStep DEF DashboardInv
    <2> QED
      BY <2>1, <2>2, <2>3, <2>4 DEF Next
  <1> QED
    BY <1>1, <1>2, PTL DEF Spec

\* use-sequenced-request.js: on every screen, whatever order the answers of superseded
\* and current requests arrive in, what is shown between loads is what the URL names.
THEOREM Shown == Spec => []ShownIsOfRoute
  <1>1. DashboardInv => ShownIsOfRoute
    BY DEF DashboardInv, ListInv, DetailInv, EndpointInv, RowsInv, TableInv, ShownIsOfRoute,
           EndpointsScreen!RowsAreOfRoute
  <1> QED
    BY <1>1, DashboardHolds, PTL

\* keyset.js and use-sequenced-request.js: for any rows of any times, any filters and any
\* size of a page, the pages that are appended one by one are in order and leave no row out
\* that matched all along, however answers, failures, other loads and the attempts of the
\* workers cross; the exception is a page that was asked for while the list was loading.
THEOREM NoHoles == Spec => []ListHasNoHoles
  <1>1. DashboardInv => ListHasNoHoles
    BY PageShows DEF DashboardInv, ListHasNoHoles
  <1> QED
    BY <1>1, DashboardHolds, PTL

\* deliveries.js: what an event tells of a delivery of the view is on screen, counted, or
\* on an older page, whichever events, reloads and pages cross; the exceptions are the
\* deliveries a reload dropped that had read their rows before the event came.
THEOREM Noticed == Spec => []ToldIsNoticed
  <1>1. DashboardInv => ToldIsNoticed
    BY PageShows DEF DashboardInv, ToldIsNoticed
  <1> QED
    BY <1>1, DashboardHolds, PTL

\* EndpointFormDialog.vue: however often the form is edited and submitted, and whatever
\* calls cross it, no field it did not touch is taken back from another owner; the exception
\* is a text that was stored with white space around it.
THEOREM EditsAreOwn == Spec => []EditTouchesOnlyItsFields
  <1>1. DashboardInv => EditTouchesOnlyItsFields
    BY DEF DashboardInv, EndpointInv, FormInv, EditTouchesOnlyItsFields
  <1> QED
    BY <1>1, DashboardHolds, PTL
=============================================================================
