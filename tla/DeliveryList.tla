---------------------------- MODULE DeliveryList ----------------------------
(* The deliveries screen: the list of the API, the deliveries store with its   *)
(* sequenced requests and realtime events, and the controls of the view.       *)
(* Requests are answered and their answers applied in any order, or fail.      *)
EXTENDS SequencedRequest, Keyset

CONSTANTS
    Ids,            \* delivery ids, ordered as the database orders them
    Projects, NoProject,
    Outcomes,       \* statuses an attempt of a worker ends with
    Filters,        \* statuses to filter by, "" for none
    PageSize,       \* 50 in the store
    MaxWire,        \* events on their way to the page
    MaxCalls        \* requests the operator causes

VARIABLES
    rows,           \* [Ids -> [at, project, status]], at = 0 before the row exists
    wire,           \* events emitted to the room of the page: [id, status]
    route,          \* the URL: [project, status]
    store,          \* items, nextCursor, pendingIds, and the view they were asked for
    gate, listRequest, moreRequest,
    calls,          \* requests under way
    bulk,           \* the bulk replay control
    begun,          \* requests begun so far
    under, base,    \* history: the view the list was read for, its rows that match it since
    crossed,        \* history: a page asked for while the list was loading was appended
    told,           \* history: what the page was told of a row that has not changed since
    missed          \* history: told while the list was read too early, and dropped by it

serverVars == <<rows, wire>>
listVars == <<route, store, gate, listRequest, moreRequest, calls, bulk, under, base, crossed, told,
              missed>>
deliveryVars == <<serverVars, listVars, begun>>

Terminal == {"SUCCEEDED", "FAILED_PERMANENTLY", "SKIPPED"}
Replayable == Terminal
Existing == {i \in Ids : rows[i].at > 0}
NoBody == [page |-> <<>>, nextCursor |-> NoCursor, matching |-> {}]
Empty == [items |-> <<>>, nextCursor |-> NoCursor, pendingIds |-> {}, view |-> route]
-----------------------------------------------------------------------------
(* The API *)

filterWhere(view, i) ==
    /\ i \in Existing /\ rows[i].project = view.project
    /\ view.status # "" => rows[i].status = view.status

deliveryListView(i) == [id |-> i, at |-> rows[i].at, status |-> rows[i].status]

list(view, cursor) ==
    LET matching == {i \in Ids : filterWhere(view, i)}
        older == {i \in matching : cursor = NoCursor \/ olderThan(cursor, deliveryListView(i))}
        found == paginate(NewestFirst({deliveryListView(i) : i \in older}), PageSize)
    IN  [page |-> found.page, nextCursor |-> found.nextCursor, matching |-> matching]

\* A new row is not older than any other: published, replayed or replayed in bulk.
create(i, project) ==
    \E at \in {1, 2} :
        /\ i \notin Existing /\ \A j \in Existing : rows[j].at <= at
        /\ rows' = [rows EXCEPT ![i] = [at |-> at, project |-> project, status |-> "PENDING"]]

publish(i) ==
    /\ \E p \in Projects : create(i, p)
    /\ UNCHANGED <<wire, listVars, begun>>

\* createThrottle: the budget of a project and a second may be spent.
allow == Len(wire) < MaxWire

\* The bridge: an event that was published reaches the room, unless it is over the budget
\* or the page is offline.
emit(event) ==
    \/ allow /\ wire' = Append(wire, event)
    \/ UNCHANGED wire

\* The status of a row changes, at a commit of a worker or of the sweeper.  What the page
\* was told of it is out of date from here on, and a list of one status has lost it.
Became(i, status) ==
    /\ rows' = [rows EXCEPT ![i].status = status]
    /\ told' = [told EXCEPT ![i] = "none"]
    /\ base' = IF under.status = "" THEN base ELSE base \ {i}
    /\ UNCHANGED <<route, store, gate, listRequest, moreRequest, calls, bulk, begun, under, crossed,
                   missed>>

\* A worker takes a delivery, or skips it as its endpoint is disabled: no event tells.
attempting(i) ==
    /\ i \in Existing /\ rows[i].status \notin Terminal
    /\ \/ rows[i].status # "IN_FLIGHT" /\ Became(i, "IN_FLIGHT")
       \/ Became(i, "SKIPPED")
    /\ UNCHANGED wire

\* A worker settles an attempt and publishes the event for it.  The sweeper that claims a
\* stuck delivery for a retry is the same step with its event dropped.
attempted(i, status) ==
    /\ i \in Existing /\ rows[i].status = "IN_FLIGHT"
    /\ Became(i, status) /\ emit([id |-> i, status |-> status])

\* bulkReplay: the newest matching rows, of which those that are over are replayed.
bulkReplay(view) ==
    LET originals == {i \in Ids : filterWhere(view, i)}
        replayable == {i \in originals : rows[i].status \in Replayable}
    IN  IF replayable = {} \/ Existing = Ids THEN UNCHANGED rows
        ELSE \E i \in Ids : create(i, view.project)
-----------------------------------------------------------------------------
(* The store *)

reset(s) == [s EXCEPT !.items = <<>>, !.nextCursor = NoCursor, !.pendingIds = {}]

settlePending_All(s, counted) == [s EXCEPT !.pendingIds = {}]

\* Every id counted before a reload is settled by that reload.
settlePending(s, counted) == [s EXCEPT !.pendingIds = @ \ counted]

Call(kind, seq, mine, view, cursor, counted, early) ==
    [kind |-> kind, seq |-> seq, mine |-> mine, view |-> view, cursor |-> cursor,
     counted |-> counted, early |-> early, at |-> "sent", body |-> NoBody]

\* load, up to the request; kind is "refresh" for the load a bulk replay waits for.
load(s, view, kind) ==
    /\ store' = [s EXCEPT !.view = view]
    /\ gate' = claimed(gate)
    /\ listRequest' = started(listRequest)
    /\ moreRequest' = [moreRequest EXCEPT !.error = FALSE]
    /\ calls' = calls \cup {Call(kind, gate', listRequest'.ownSeq, view, NoCursor,
                                 s.pendingIds, FALSE)}
    /\ begun' = begun + 1

\* The view offers older rows below those it shows, while a reload is under way too.
OlderOffered == store.items # <<>> /\ store.nextCursor # NoCursor

loadMore ==
    /\ begun < MaxCalls
    /\ OlderOffered /\ ~moreRequest.loading
    /\ moreRequest' = started(moreRequest)
    /\ calls' = calls \cup {Call("more", followed(gate), moreRequest'.ownSeq, store.view,
                                 store.nextCursor, {}, listRequest.loading)}
    /\ begun' = begun + 1
    /\ UNCHANGED <<serverVars, route, store, gate, listRequest, bulk, under, base, crossed, told,
                   missed>>

\* The API reads the rows.  A call that ends without an answer has failed.
answered(c) ==
    /\ c.at = "sent"
    /\ calls' = (calls \ {c}) \cup {[c EXCEPT !.at = "ok", !.body = list(c.view, c.cursor)]}
    /\ UNCHANGED <<serverVars, route, store, gate, listRequest, moreRequest, bulk, begun,
                   under, base, crossed, told, missed>>

Known(s) == {s.items[k].id : k \in DOMAIN s.items}

\* The page has been told of rows of the view that the answer was read too early to hold.
ToldLate(c) == {i \in Ids \ c.body.matching : filterWhere(c.view, i) /\ rows[i].status = told[i]}

\* load, after the request: onSuccess, onError, or nothing when it was superseded.
loaded(c) ==
    /\ c \in calls /\ c.kind \in {"load", "refresh"}
    /\ calls' = calls \ {c}
    /\ listRequest' = settled(listRequest, c, gate, c.at = "sent")
    /\ bulk' = IF c.kind = "refresh" THEN "idle" ELSE bulk
    /\ CASE ~isCurrent(c, gate) -> UNCHANGED <<store, under, base, crossed, missed>>
         [] isCurrent(c, gate) /\ c.at = "sent" ->
              /\ store' = [store EXCEPT !.items = <<>>, !.nextCursor = NoCursor]
              /\ UNCHANGED <<under, base, crossed, missed>>
         [] OTHER ->
              /\ store' = settlePending([store EXCEPT !.items = c.body.page,
                                                      !.nextCursor = c.body.nextCursor],
                                        c.counted)
              /\ under' = c.view /\ crossed' = FALSE
              /\ base' = {i \in c.body.matching : filterWhere(c.view, i)}
              /\ missed' = ToldLate(c) \cap (c.counted \cup Known(store))
    /\ UNCHANGED <<serverVars, route, gate, moreRequest, begun, told>>

\* loadMore, after the request.
appended(c) ==
    /\ c \in calls /\ c.kind = "more"
    /\ calls' = calls \ {c}
    /\ moreRequest' = settled(moreRequest, c, gate, c.at = "sent")
    /\ IF isCurrent(c, gate) /\ c.at = "ok"
       THEN /\ store' = [store EXCEPT !.items = @ \o c.body.page,
                                      !.nextCursor = c.body.nextCursor]
            /\ crossed' = (crossed \/ c.early)
       ELSE UNCHANGED <<store, crossed>>
    /\ UNCHANGED <<serverVars, route, gate, listRequest, bulk, begun, under, base, told,
                   missed>>

patch(s, i, status) ==
    [s EXCEPT !.items = [k \in DOMAIN @ |-> IF @[k].id = i THEN [@[k] EXCEPT !.status = status]
                                                           ELSE @[k]]]

\* Counted, not inserted: the list must not move while it is being read.
noteUnknown(s, i) == [s EXCEPT !.pendingIds = @ \cup {i}]

\* The page handles the next event of the socket.
applyRealtime ==
    LET event == Head(wire)
        known == event.id \in Known(store)
    IN  /\ wire # <<>>
        /\ wire' = Tail(wire)
        /\ store' = IF known THEN patch(store, event.id, event.status)
                    ELSE noteUnknown(store, event.id)
        /\ told' = [told EXCEPT ![event.id] = event.status]
        /\ missed' = missed \ {event.id}
        /\ UNCHANGED <<rows, route, gate, listRequest, moreRequest, calls, bulk, begun,
                       under, base, crossed>>

Untold == [i \in Ids |-> "none"]

PendingOffered == store.pendingIds # {}
RetryOffered == listRequest.error

dismissPending ==
    /\ PendingOffered
    /\ store' = [store EXCEPT !.pendingIds = {}]
    /\ told' = Untold
    /\ UNCHANGED <<serverVars, route, gate, listRequest, moreRequest, calls, bulk, begun,
                   under, base, crossed, missed>>

refresh(kind) == load(store, store.view, kind)
-----------------------------------------------------------------------------
(* The view *)

\* Another filter (update, clear, toggleStatus) or another project is chosen.  AppShell
\* resets the store when the project changes, before the view loads it again.
navigate(view) ==
    LET switched == view.project # route.project
    IN  /\ view # route /\ begun < MaxCalls
        /\ route' = view
        /\ load(IF switched THEN reset(store) ELSE store, view, "load")
        /\ told' = IF switched THEN Untold ELSE told
        /\ UNCHANGED <<serverVars, bulk, under, base, crossed, missed>>

\* "Show them" of the counted deliveries, and "Try again" of a failed list.
applyPending ==
    /\ begun < MaxCalls /\ (PendingOffered \/ RetryOffered)
    /\ refresh("load")
    /\ UNCHANGED <<serverVars, route, bulk, under, base, crossed, told, missed>>

\* The button of the bulk replay needs rows on screen; the dialog asks first.
openConfirm ==
    /\ bulk = "idle" /\ store.items # <<>> /\ begun < MaxCalls
    /\ bulk' = "confirm"
    /\ UNCHANGED <<serverVars, route, store, gate, listRequest, moreRequest, calls, begun,
                   under, base, crossed, told, missed>>

\* runBulkReplay sends the filters of the route, and the API replays; a call that fails
\* leaves the dialog as it is.
runBulkReplay ==
    /\ bulk = "confirm" /\ bulk' = "replayed"
    /\ bulkReplay(route)
    /\ UNCHANGED <<wire, route, store, gate, listRequest, moreRequest, calls, begun,
                   under, base, crossed, told, missed>>

\* After the call the dialog closes and the list is read again, with the filters of the
\* store.
bulkAnswered ==
    /\ bulk = "replayed" /\ bulk' = "refreshing"
    /\ refresh("refresh")
    /\ UNCHANGED <<serverVars, route, under, base, crossed, told, missed>>

closeConfirm ==
    /\ bulk = "confirm"
    /\ bulk' = "idle"
    /\ UNCHANGED <<serverVars, route, store, gate, listRequest, moreRequest, calls, begun,
                   under, base, crossed, told, missed>>
-----------------------------------------------------------------------------
Views == [project : Projects, status : Filters]

\* Rows that are there when the screen is opened: all are over, and of one millisecond.
DeliveryRows ==
    \E there \in SUBSET Ids :
        /\ Cardinality(there) = Cardinality(Ids) - 1
        /\ rows = [i \in Ids |->
              IF i \in there THEN [at |-> 1, project |-> route.project,
                                   status |-> "FAILED_PERMANENTLY"]
              ELSE [at |-> 0, project |-> NoProject, status |-> "none"]]

\* The screen is opened: its first load is under way (loadAll, immediate).
DeliveryInit ==
    /\ route \in {v \in Views : v.status = ""}
    /\ DeliveryRows
    /\ wire = <<>>
    /\ store = Empty
    /\ gate = 1 /\ listRequest = started(Quiet) /\ moreRequest = Quiet
    /\ calls = {Call("load", 1, 1, route, NoCursor, {}, FALSE)}
    /\ bulk = "idle"
    /\ begun = 1
    /\ under = route /\ base = {} /\ crossed = FALSE /\ told = Untold
    /\ missed = {}

DeliveryNext ==
    \/ \E i \in Ids : publish(i) \/ attempting(i)
    \/ \E i \in Ids, status \in Outcomes : attempted(i, status)
    \/ \E c \in calls : answered(c) \/ loaded(c) \/ appended(c)
    \/ \E view \in Views : navigate(view)
    \/ loadMore \/ applyRealtime \/ dismissPending \/ applyPending
    \/ openConfirm \/ runBulkReplay \/ bulkAnswered \/ closeConfirm
-----------------------------------------------------------------------------
Shown == ~listRequest.loading /\ ~listRequest.error

\* use-sequenced-request.js: "The gate decides who may write the result".  Whatever order
\* answers arrive in, a list that is not being loaded is the list of the route.
ListIsOfRoute == Shown => under = route

Matches(i) == filterWhere(route, i)
Last == store.items[Len(store.items)]

\* keyset.js: without the tie-break "a page boundary that lands inside a group of
\* same-millisecond rows would repeat or skip them".  The rows on screen are in strict
\* order, and none that has matched ever since the list was read is missing above the last
\* one.  (A delivery that is attempted between two pages leaves the list of RETRYING ones
\* for a while, and the page on which it would have been.)
Whole ==
    /\ \A k \in 1 .. Len(store.items) - 1 : Newer(store.items[k], store.items[k + 1])
    /\ \A i \in base : Matches(i) /\ i \notin Known(store) =>
          /\ store.nextCursor # NoCursor
          /\ store.items # <<>> => Newer(Last, deliveryListView(i))

\* The list of the screen is whole, unless a page that was asked for while the list was
\* being loaded has been appended to it.
ListHasNoHoles == Shown => Whole \/ crossed

\* use-sequenced-request.js: "a page appended after a reload has replaced the list would
\* corrupt it".
ListNeverCorrupted == Shown => Whole

\* What the page was told of a delivery of this view, and is still so.
News(i) == told[i] # "none" /\ Matches(i) /\ rows[i].status = told[i]

\* A delivery is on screen, counted, or on an older page.
Noticed(i) ==
    \/ i \in Known(store) \cup store.pendingIds
    \/ store.nextCursor # NoCursor /\ Newer(Last, deliveryListView(i))

\* deliveries.js: a delivery that is not on screen "is counted, not inserted".  Every news
\* is noticed, but for that of a delivery that was on screen, or counted, when a reload
\* began, that came after the reload had read the rows, and that the reload dropped.
ToldIsNoticed ==
    Shown /\ ~crossed =>
    \A i \in Ids : News(i) => Noticed(i) \/ i \in missed
=============================================================================
