-------------------------------- MODULE Ingest --------------------------------
(***************************************************************************)
(* The API calls that create deliveries: publishEvent of                    *)
(* backend/src/api/services/publish-service.js, replay and bulkReplay of    *)
(* backend/src/api/services/delivery-service.js.  Each reads, then inserts  *)
(* in one statement or transaction, then publishes one message per PENDING  *)
(* row, awaiting each.                                                      *)
(***************************************************************************)
EXTENDS DeliveryState

bystanders == <<handler, sweeper, retention, announced, enables, sweeps>>

FreshDeliveries == {d \in Deliveries : delivery[d].status = "ABSENT"}

\* Bound: the model has a delivery id left for every row that is planned.
HasRoom(n) ==
    n + Cardinality(UNION {request[q].plan : q \in Requests})
        <= Cardinality(FreshDeliveries)

Plans(r, newEvent, rows) ==
    request' = [request EXCEPT ![r] =
        [pc |-> "commit", newEvent |-> newEvent, plan |-> rows, todo |-> {}]]

\* The endpoints named in the call, or the ones whose subscription matches; an
\* empty or unknown set is refused before anything changes.  Their status is
\* read here and used in the transaction.
PublishEvent(r) ==
    /\ request[r].pc = "idle"
    /\ \E e \in Events, targets \in (SUBSET Endpoints) \ {{}} :
          /\ event[e] = "ABSENT" /\ \A q \in Requests : request[q].newEvent # e
          /\ HasRoom(Cardinality(targets))
          /\ \A x \in targets : endpoint[x].status # "REMOVED"
          /\ Plans(r, e,
                {[from |-> {}, endpointId |-> x, eventId |-> e,
                  status |-> IF endpoint[x].status = "ACTIVE"
                             THEN "PENDING" ELSE "SKIPPED"] : x \in targets})
    /\ UNCHANGED <<tables, broker, bystanders, faults>>

\* replay of one delivery, and bulkReplay of the ones a filter selects up to the
\* limit; a delivery in another status is refused, or left out of the bulk.
Replay(r) ==
    /\ "replay" \in Environment
    /\ request[r].pc = "idle"
    /\ \E originals \in SUBSET {d \in Deliveries :
                                   delivery[d].status \in REPLAYABLE_STATUSES} :
          /\ Cardinality(originals) \in 1 .. BULK_REPLAY_LIMIT
          /\ HasRoom(Cardinality(originals))
          /\ Plans(r, NoEvent,
                {[from |-> {d}, endpointId |-> delivery[d].endpointId,
                  eventId |-> delivery[d].eventId, status |-> "PENDING"] :
                     d \in originals})
    /\ UNCHANGED <<tables, broker, bystanders, faults>>

\* The foreign keys of the rows: the endpoint must exist, and the event unless
\* this transaction creates it.
ForeignKeysHold(r) ==
    \A row \in request[r].plan :
        /\ endpoint[row.endpointId].status # "REMOVED"
        /\ row.eventId = request[r].newEvent \/ event[row.eventId] = "STORED"

Inserted(row) ==
    [status |-> row.status, attemptCount |-> 0, endpointId |-> row.endpointId,
     eventId |-> row.eventId, overdue |-> FALSE]

\* The ids are drawn here rather than before the read: they are fresh either way.
CommitRows(r) ==
    /\ request[r].pc = "commit"
    /\ ForeignKeysHold(r)
    /\ \E id \in [request[r].plan -> FreshDeliveries] :
          /\ \A x, y \in request[r].plan : id[x] = id[y] => x = y
          /\ delivery' = [d \in Deliveries |->
                IF \E row \in request[r].plan : id[row] = d
                THEN Inserted(CHOOSE row \in request[r].plan : id[row] = d)
                ELSE delivery[d]]
          /\ request' = [request EXCEPT ![r] = [@ EXCEPT
                !.pc = "publish", !.plan = {},
                !.todo = {id[row] : row \in {x \in request[r].plan :
                                                x.status = "PENDING"}}]]
    /\ event' = [e \in Events |-> IF e = request[r].newEvent THEN "STORED"
                                                             ELSE event[e]]
    /\ UNCHANGED <<attempts, endpoint, broker, bystanders, faults>>

\* A foreign key is gone: the insert rejects as a whole.
CommitRejected(r) ==
    /\ request[r].pc = "commit"
    /\ ~ForeignKeysHold(r)
    /\ request' = [request EXCEPT ![r] = IdleRequest]
    /\ UNCHANGED <<tables, broker, bystanders, faults>>

PublishRow(r) ==
    /\ request[r].pc = "publish"
    /\ \E d \in request[r].todo :
          /\ publishDelivery(d, 1)
          /\ request' = [request EXCEPT ![r].todo = @ \ {d}]
    /\ UNCHANGED <<tables, bystanders, faults>>

Respond_WithoutWaiting(r) ==
    /\ request[r].pc = "publish"
    /\ request' = [request EXCEPT ![r] = IdleRequest]
    /\ UNCHANGED <<tables, broker, bystanders, faults>>

\* The call answers once every message was confirmed.
Respond(r) ==
    /\ request[r].pc = "publish"
    /\ request[r].todo = {}
    /\ request' = [request EXCEPT ![r] = IdleRequest]
    /\ UNCHANGED <<tables, broker, bystanders, faults>>

\* A publish rejects, or the API process dies: the rows stay without a message.
PublishFails(r) ==
    /\ request[r].pc = "publish"
    /\ request[r].todo # {}
    /\ Occurs("api_failure")
    /\ request' = [request EXCEPT ![r] = IdleRequest]
    /\ UNCHANGED <<tables, broker, bystanders>>

RequestStep(r) == CommitRows(r) \/ CommitRejected(r) \/ PublishRow(r) \/ Respond(r)

=============================================================================
