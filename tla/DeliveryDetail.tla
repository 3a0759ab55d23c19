--------------------------- MODULE DeliveryDetail ---------------------------
(* The panel of one delivery: the route names the delivery, a sequenced        *)
(* request reads it, and a replay of it is asked for and answered while the    *)
(* operator may already look at another one.                                   *)
EXTENDS SequencedRequest

CONSTANTS
    Ids, NoDelivery,
    Outcomes,       \* statuses an attempt of a worker ends with
    MaxCalls        \* requests the operator causes

VARIABLES
    rows,           \* the deliveries of the database, as in DeliveryList
    route,          \* the delivery the URL names, NoDelivery for the list
    panel,          \* [delivery, replaying, replayed, replayError]
    gate, detailRequest, calls, begun

detailVars == <<rows, route, panel, gate, detailRequest, calls, begun>>

InProgress == {"PENDING", "IN_FLIGHT"}
Replayable == {"SUCCEEDED", "FAILED_PERMANENTLY", "SKIPPED"}
Existing == {i \in Ids : rows[i].at > 0}
NoBody == [id |-> NoDelivery, status |-> "none"]

Call(kind, id, seq, mine) ==
    [kind |-> kind, id |-> id, seq |-> seq, mine |-> mine, at |-> "sent", body |-> NoBody]
Answer(c, at, body) == calls' = (calls \ {c}) \cup {[c EXCEPT !.at = at, !.body = body]}
-----------------------------------------------------------------------------
(* The API.  A call that is refused or lost stays unanswered, and fails. *)

deliveryView(i) == [id |-> i, status |-> rows[i].status]
loadForCaller(i) == i \in Existing

get(c) ==
    /\ c.kind = "get" /\ c.at = "sent" /\ loadForCaller(c.id)
    /\ Answer(c, "ok", deliveryView(c.id))
    /\ UNCHANGED <<rows, route, panel, gate, detailRequest, begun>>

\* A new row next to the original; the answer needs the publish that follows.
replayOf(c) ==
    /\ c.kind = "replay" /\ c.at = "sent"
    /\ loadForCaller(c.id) /\ rows[c.id].status \in Replayable
    /\ \E i \in Ids \ Existing :
          /\ rows' = [rows EXCEPT ![i] = [rows[c.id] EXCEPT !.status = "PENDING"]]
          /\ \E at \in {"ok", "unpublished"} : Answer(c, at, [id |-> i, status |-> "PENDING"])
    /\ UNCHANGED <<route, panel, gate, detailRequest, begun>>

\* An attempt of a worker.
attempted(i, status) ==
    /\ i \in Existing /\ rows[i].status \in {"PENDING", "RETRYING"} /\ rows[i].status # status
    /\ rows' = [rows EXCEPT ![i].status = status]
    /\ UNCHANGED <<route, panel, gate, detailRequest, calls, begun>>
-----------------------------------------------------------------------------
(* The panel *)

load(i) ==
    /\ begun < MaxCalls /\ begun' = begun + 1
    /\ panel' = [panel EXCEPT !.replayed = NoDelivery, !.replayError = FALSE]
    /\ gate' = claimed(gate)
    /\ detailRequest' = started(detailRequest)
    /\ calls' = calls \cup {Call("get", i, gate', detailRequest'.ownSeq)}

\* The watcher of deliveryId: a row of the list, the link to a replay, the history.
watchDeliveryId(i) == route # NoDelivery /\ i # route /\ route' = i /\ load(i) /\ UNCHANGED rows

\* "Try again" of both error states.
retry == detailRequest.error /\ ~detailRequest.loading /\ load(route) /\ UNCHANGED <<rows, route>>

loaded(c) ==
    /\ c.kind = "get"
    /\ calls' = calls \ {c}
    /\ detailRequest' = settled(detailRequest, c, gate, c.at = "sent")
    /\ panel' = IF ~isCurrent(c, gate) THEN panel
                ELSE [panel EXCEPT !.delivery = IF c.at = "ok" THEN c.body ELSE NoBody]
    /\ UNCHANGED <<rows, route, gate, begun>>

replayBlocked == panel.delivery.status \in InProgress

\* The button is there with a delivery, and inert while one replay is under way.
ReplayOffered == route # NoDelivery /\ panel.delivery # NoBody /\ ~replayBlocked /\ ~panel.replaying

\* replay asks for the delivery of the route, which is not yet the one on screen while
\* the panel loads.
replay ==
    /\ ReplayOffered /\ begun < MaxCalls /\ begun' = begun + 1
    /\ panel' = [panel EXCEPT !.replaying = TRUE, !.replayError = FALSE]
    /\ calls' = calls \cup {Call("replay", route, 0, 0)}
    /\ UNCHANGED <<rows, route, gate, detailRequest>>

replayed(c) ==
    /\ c.kind = "replay"
    /\ calls' = calls \ {c}
    /\ panel' = IF c.at = "ok" THEN [panel EXCEPT !.replaying = FALSE, !.replayed = c.body.id]
                ELSE [panel EXCEPT !.replaying = FALSE, !.replayError = TRUE]
    /\ UNCHANGED <<rows, route, gate, detailRequest, begun>>

\* close, and the link back to the list: what is still answered is not seen.
close ==
    /\ route # NoDelivery /\ route' = NoDelivery
    /\ UNCHANGED <<rows, panel, gate, detailRequest, calls, begun>>
-----------------------------------------------------------------------------
\* The panel is mounted: the watcher is immediate.
DetailInit ==
    /\ route \in Existing
    /\ panel = [delivery |-> NoBody, replaying |-> FALSE, replayed |-> NoDelivery,
                replayError |-> FALSE]
    /\ gate = 1 /\ detailRequest = started(Quiet) /\ begun = 1
    /\ calls = {Call("get", route, 1, 1)}

DetailNext ==
    \/ \E c \in calls : get(c) \/ replayOf(c) \/ loaded(c) \/ replayed(c)
    \/ \E i \in Ids : watchDeliveryId(i)
    \/ \E i \in Ids, status \in Outcomes : attempted(i, status)
    \/ retry \/ replay \/ close

\* Whatever order answers arrive in, a panel that is not loading shows the delivery the
\* URL names.
DetailIsOfRoute ==
    route # NoDelivery /\ ~detailRequest.loading /\ ~detailRequest.error =>
        panel.delivery.id = route
=============================================================================
