---------------------------- MODULE DeliveryState ----------------------------
(***************************************************************************)
(* The state every process of hook-tracker shares while it moves a webhook *)
(* delivery: the tables of backend/prisma/schema.prisma, the queues        *)
(* shared/queue/topology.js declares, and the local state of the processes *)
(* between two awaits.  The modules Ingest, Worker, StuckSweeper and       *)
(* Housekeeping hold the processes' actions and DeliveryPipeline composes  *)
(* them.                                                                   *)
(*                                                                         *)
(* A step of the model is the code from one await to the next, so every    *)
(* value read before an await may be stale when it is used.                *)
(***************************************************************************)
EXTENDS Retry, FiniteSets

CONSTANTS
    Deliveries, Endpoints, Events,  \* ids that newId() hands out, each once
    Handlers,       \* prefetch slots of all the workers together
    Sweepers,       \* running stuck sweepers
    Requests,       \* concurrent publish and replay calls of the API
    MsgIds,         \* identities of the copies of one message
    NoMessage,      \* what an idle handler holds
    NoEvent,        \* the event a replay creates
    ENDPOINT_AUTO_DISABLE_THRESHOLD,
    BULK_REPLAY_LIMIT,
    SweepBatch,     \* batchSize of the sweeper
    Environment,    \* the operator actions and failures that occur
    MaxFaults,      \* bound: failures in a behaviour
    MaxSweeps,      \* bound: passes of the sweepers that find a stuck row
    MaxEnables      \* bound: times an operator enables an endpoint

\* Operator actions, and failures of the processes and of the network:
\*   worker_crash     a worker dies and the broker requeues what it held
\*   connection_loss  a worker loses the broker while its handler runs on
\*   handler_error    an await of a handler rejects (database, Redis, broker)
\*   sweeper_crash    the scheduler dies or its database call rejects
\*   sweep_publish_error  a publish of the sweeper is refused
\*   api_failure      a publish of the API is refused, or the API dies
\*   backlog          a message waits longer than STUCK_DELIVERY_MINUTES
Operations == {"replay", "admin", "retention", "throttle"}
Failures == {"worker_crash", "connection_loss", "handler_error",
             "sweeper_crash", "sweep_publish_error", "api_failure", "backlog"}

ASSUME StateAssumption ==
    /\ Environment \subseteq Operations \cup Failures
    /\ ENDPOINT_AUTO_DISABLE_THRESHOLD \in Nat \ {0}
    /\ BULK_REPLAY_LIMIT \in Nat \ {0}
    /\ SweepBatch \in Nat \ {0}
    /\ MaxFaults \in Nat
    /\ MaxSweeps \in Nat
    /\ MaxEnables \in Nat
    /\ Endpoints # {} /\ Events # {}
    /\ NoEvent \notin Events
    /\ IsFiniteSet(Handlers)

VARIABLES
    delivery,       \* the deliveries table
    attempts,       \* the delivery_attempts table, by delivery
    endpoint,       \* the endpoints table
    event,          \* the webhook_events table
    queue,          \* webhook.delivery
    parked,         \* webhook.retry.* and webhook.throttle.10s
    deadLettered,   \* deliveries that were ever routed to webhook.dlq
    handler,        \* handleDelivery calls in progress
    sweeper,        \* stuck sweeps in progress
    request,        \* API calls in progress
    retention,      \* the batch a retention pass is about to delete
    announced,      \* endpoint.disabled announcements, by endpoint
    enables,        \* enable calls, by endpoint
    sweeps,         \* passes of the sweepers so far
    faults          \* failures so far

tables  == <<delivery, attempts, endpoint, event>>
broker  == <<queue, parked, deadLettered>>
counters == <<announced, enables, sweeps, faults>>
vars == <<tables, broker, handler, sweeper, request, retention, counters>>

(***************************************************************************)
(* Tables                                                                  *)
(***************************************************************************)
TERMINAL_STATUSES == {"SUCCEEDED", "FAILED_PERMANENTLY", "SKIPPED"}
REPLAYABLE_STATUSES == TERMINAL_STATUSES \cup {"RETRYING"}
OPEN_STATUSES == {"PENDING", "IN_FLIGHT", "RETRYING"}
DELIVERY_STATUS == OPEN_STATUSES \cup TERMINAL_STATUSES

\* A row that was not created yet, or that retention removed, is not found.
NOT_FOUND == {"ABSENT", "DELETED"}

\* overdue is the time predicate of stuckDeliveryFilter: nextAttemptAt, or
\* createdAt where it is null, lies before the cutoff.
DeliveryRow == [status : DELIVERY_STATUS \cup NOT_FOUND, attemptCount : Nat,
                endpointId : Endpoints, eventId : Events, overdue : BOOLEAN]
AttemptRow == [number : Nat \ {0}, result : {"SUCCESS"} \cup FAILURE]
EndpointRow == [status : {"ACTIVE", "DISABLED", "REMOVED"},
                consecutiveFailures : Nat]

Exists(d) == delivery[d].status \notin NOT_FOUND
Open(d) == delivery[d].status \in OPEN_STATUSES
Terminal(d) == delivery[d].status \in TERMINAL_STATUSES

SetStatus(d, status) == delivery' = [delivery EXCEPT ![d].status = status]

(***************************************************************************)
(* Broker                                                                  *)
(***************************************************************************)
Message == [id : MsgIds, deliveryId : Deliveries, attempt : Nat \ {0},
            redelivered : BOOLEAN]

Busy(h) == handler[h].pc # "idle"

\* Identities tell the copies of one message apart, so they are reused.
UsedIds(d, attempt) ==
    {m.id : m \in {x \in queue \cup parked :
                      x.deliveryId = d /\ x.attempt = attempt}}
        \cup {handler[h].msg.id :
                 h \in {x \in Handlers : /\ Busy(x)
                                         /\ handler[x].msg.deliveryId = d
                                         /\ handler[x].msg.attempt = attempt}}
FreeIds(d, attempt) == MsgIds \ UsedIds(d, attempt)

\* The broker takes a message only while the model has an identity left for it.
CanPublish(d, attempt) == FreeIds(d, attempt) # {}

\* The code refuses an attempt below one; TypeOK shows that none is passed.
messageFor(d, attempt) ==
    [id |-> CHOOSE i \in FreeIds(d, attempt) : TRUE, deliveryId |-> d,
     attempt |-> attempt, redelivered |-> FALSE]

publishDelivery(d, attempt) ==
    /\ CanPublish(d, attempt)
    /\ queue' = queue \cup {messageFor(d, attempt)}
    /\ UNCHANGED <<parked, deadLettered>>

publishParked(d, attempt) ==
    /\ CanPublish(d, attempt)
    /\ parked' = parked \cup {messageFor(d, attempt)}
    /\ UNCHANGED <<queue, deadLettered>>

\* A nack with requeue, and what the broker does with the unacked messages of
\* a channel that went away.
Requeue(m) == queue' = queue \cup {[m EXCEPT !.redelivered = TRUE]}

\* A parked message's TTL runs out and the queue's dead-letter exchange routes
\* it to webhook.delivery, where it is a new message.
Expire ==
    /\ \E m \in parked :
          /\ parked' = parked \ {m}
          /\ queue' = queue \cup {m}
    /\ UNCHANGED <<tables, deadLettered, handler, sweeper, request, retention,
                   counters>>

(***************************************************************************)
(* Processes                                                               *)
(***************************************************************************)
HandlerPc == {"idle", "find", "skip", "take", "throttle", "mark", "send",
              "commit_success", "commit_retry", "publish_retry",
              "commit_failure", "disable", "dead_letter", "announce",
              "settled", "done", "catch"}

\* result is the classified answer of the attempt and disable the outcome of
\* the conditional update.  connected is false once the channel is closed.
HandlerState == [pc : HandlerPc, msg : Message \cup {NoMessage},
                 result : {"SUCCESS"} \cup FAILURE, disable : BOOLEAN,
                 connected : BOOLEAN]
IdleHandler == [pc |-> "idle", msg |-> NoMessage, result |-> "SUCCESS",
                disable |-> FALSE, connected |-> TRUE]

\* A row of the sweeper's findMany, kept while the pass walks the batch.
StuckRow == [id : Deliveries, attemptCount : Nat]
SweeperState == [pc : {"idle", "claim", "publish", "release"},
                 todo : SUBSET StuckRow, cur : SUBSET StuckRow]
IdleSweeper == [pc |-> "idle", todo |-> {}, cur |-> {}]

\* A row an API call is about to insert: from is the replayed delivery.
NewRow == [from : SUBSET Deliveries, endpointId : Endpoints,
           eventId : Events, status : {"PENDING", "SKIPPED"}]
RequestState == [pc : {"idle", "commit", "publish"}, newEvent : Events \cup {NoEvent},
                 plan : SUBSET NewRow, todo : SUBSET Deliveries]
IdleRequest == [pc |-> "idle", newEvent |-> NoEvent, plan |-> {}, todo |-> {}]

Occurs(failure) ==
    /\ failure \in Environment
    /\ faults < MaxFaults
    /\ faults' = faults + 1

\* Somebody holds, or is about to queue, a message of the delivery.
Carried(d) ==
    \/ \E m \in queue \cup parked : m.deliveryId = d
    \/ \E h \in Handlers : Busy(h) /\ handler[h].msg.deliveryId = d
    \/ \E s \in Sweepers : sweeper[s].pc = "publish"
                              /\ \E t \in sweeper[s].cur : t.id = d
    \/ \E r \in Requests : d \in request[r].todo

\* The sweeper's cutoff passes the row's timestamp: because nothing carries the
\* row any more, or because its message waited for too long.  Only the sweeper
\* reads overdue, and only of an IN_FLIGHT row, so time is let pass there.
Age(d) ==
    /\ delivery[d].status = "IN_FLIGHT" /\ ~delivery[d].overdue
    /\ IF Carried(d) THEN Occurs("backlog") ELSE UNCHANGED faults
    /\ delivery' = [delivery EXCEPT ![d].overdue = TRUE]
    /\ UNCHANGED <<attempts, endpoint, event, broker, handler, sweeper, request,
                   retention, announced, enables, sweeps>>

=============================================================================
