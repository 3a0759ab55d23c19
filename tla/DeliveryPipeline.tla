--------------------------- MODULE DeliveryPipeline ---------------------------
(***************************************************************************)
(* hook-tracker's delivery pipeline: the API, the workers, the stuck        *)
(* sweeper, retention and the operator around one database and one broker.  *)
(***************************************************************************)
EXTENDS Ingest, Worker, StuckSweeper, Housekeeping

NewDelivery == [status |-> "ABSENT", attemptCount |-> 0,
                endpointId |-> CHOOSE e \in Endpoints : TRUE,
                eventId |-> CHOOSE e \in Events : TRUE, overdue |-> FALSE]

Init ==
    /\ delivery = [d \in Deliveries |-> NewDelivery]
    /\ attempts = [d \in Deliveries |-> {}]
    /\ endpoint = [e \in Endpoints |->
                      [status |-> "ACTIVE", consecutiveFailures |-> 0]]
    /\ event = [e \in Events |-> "ABSENT"]
    /\ queue = {} /\ parked = {} /\ deadLettered = {}
    /\ handler = [h \in Handlers |-> IdleHandler]
    /\ sweeper = [s \in Sweepers |-> IdleSweeper]
    /\ request = [r \in Requests |-> IdleRequest]
    /\ retention = {}
    /\ announced = [e \in Endpoints |-> 0]
    /\ enables = [e \in Endpoints |-> 0]
    /\ sweeps = 0 /\ faults = 0

\* Nothing is left to do: every queue is empty and every process is idle.
Quiet ==
    /\ queue = {} /\ parked = {}
    /\ \A h \in Handlers : ~Busy(h)
    /\ \A s \in Sweepers : sweeper[s].pc = "idle"
    /\ \A r \in Requests : request[r].pc = "idle"
    /\ UNCHANGED vars

Next ==
    \/ \E r \in Requests :
          PublishEvent(r) \/ Replay(r) \/ RequestStep(r) \/ PublishFails(r)
    \/ \E h \in Handlers :
          \/ Consume(h) \/ HandlerStep(h)
          \/ HandlerError(h) \/ WorkerCrash(h) \/ ConnectionLoss(h)
    \/ \E s \in Sweepers : SweeperStep(s) \/ RecoverFails(s) \/ SweeperCrash(s)
    \/ \E e \in Endpoints :
          EnableEndpoint(e) \/ DisableEndpoint(e) \/ RemoveEndpoint(e)
    \/ \E d \in Deliveries : Age(d)
    \/ SelectStale \/ DeleteStale \/ Expire \/ Quiet

Spec == Init /\ [][Next]_vars

\* Processes that run keep running: a handler, an API call and a sweep go on, the
\* broker expires parked messages and offers queued ones, the timers fire.  A
\* refilling bucket does not refuse the same message for ever.
Fairness ==
    /\ \A h \in Handlers :
          /\ WF_vars(Consume(h)) /\ WF_vars(HandlerStep(h))
          /\ SF_vars(TakeToken(h, TRUE))
    /\ \A s \in Sweepers : WF_vars(SweeperStep(s))
    /\ \A r \in Requests : WF_vars(RequestStep(r))
    /\ WF_vars(Expire) /\ WF_vars(DeleteStale)
    /\ \A d \in Deliveries : WF_vars(Age(d))

FairSpec == Spec /\ Fairness

(***************************************************************************)
(* Invariants                                                              *)
(***************************************************************************)

\* Every table, queue and process holds values of its type, and a handler has a
\* message exactly while it is busy.
TypeOK ==
    /\ delivery \in [Deliveries -> DeliveryRow]
    /\ attempts \in [Deliveries -> SUBSET AttemptRow]
    /\ endpoint \in [Endpoints -> EndpointRow]
    /\ event \in [Events -> {"ABSENT", "STORED", "DELETED"}]
    /\ queue \subseteq Message /\ parked \subseteq Message
    /\ deadLettered \subseteq Deliveries
    /\ handler \in [Handlers -> HandlerState]
    /\ \A h \in Handlers : Busy(h) => handler[h].msg \in Message
    /\ sweeper \in [Sweepers -> SweeperState]
    /\ request \in [Requests -> RequestState]
    /\ retention \subseteq Events
    /\ announced \in [Endpoints -> Nat]
    /\ enables \in [Endpoints -> Nat]
    /\ sweeps \in Nat /\ faults \in Nat

Recorded(d, n) == \E a \in attempts[d] : a.number = n

\* README.md: "every one of them is a row".  The attempts of a delivery are
\* numbered without a gap, and the count in its row names a recorded attempt.
NoGaps(d) ==
    /\ \A a \in attempts[d] : a.number = 1 \/ Recorded(d, a.number - 1)
    /\ delivery[d].attemptCount = 0 \/ Recorded(d, delivery[d].attemptCount)

\* A final status is backed by the attempt that justifies it: a success by a 2xx
\* answer, a permanent failure by a permanent answer or by the last attempt of
\* the ladder.
OutcomeJustified(d) ==
    /\ delivery[d].status = "SUCCEEDED" =>
          \E a \in attempts[d] : a.result = "SUCCESS"
    /\ delivery[d].status = "FAILED_PERMANENTLY" =>
          \E a \in attempts[d] :
             \/ a.result = PERMANENT
             \/ a.result = RETRYABLE /\ a.number >= MAX_ATTEMPTS

\* The audit trail of every delivery that retention has not removed is complete,
\* whatever crashed, was repeated or was recovered on the way.
AuditTrail ==
    \A d \in Deliveries : Exists(d) => NoGaps(d) /\ OutcomeJustified(d)

\* A handler that has not yet published, recorded or found a final outcome.
Responsible(h) ==
    handler[h].pc \in {"find", "skip", "take", "throttle", "mark", "send",
                       "commit_success", "commit_retry", "publish_retry",
                       "commit_failure"}

\* Whoever will move the delivery on: a queued or parked message, a handler, a
\* sweeper or an API call about to publish, or the stuck sweeper's next pass.
Pursued(d) ==
    \/ delivery[d].status = "IN_FLIGHT"
    \/ \E m \in queue \cup parked : m.deliveryId = d
    \/ \E h \in Handlers : Responsible(h) /\ DeliveryOf(h) = d
    \/ \E h \in Handlers : At(h, "catch") /\ ~GivesUp(h) /\ DeliveryOf(h) = d
    \/ \E s \in Sweepers : /\ sweeper[s].pc \in {"publish", "release"}
                           /\ \E t \in sweeper[s].cur : t.id = d
    \/ \E r \in Requests : d \in request[r].todo

\* docs/architecture.md, "at-least-once": no delivery is left open with nothing
\* that will move it on.
NoLostDelivery == \A d \in Deliveries : Open(d) => Pursued(d)

\* docs/architecture.md, section 5: a delivery that failed for good is routed to
\* webhook.dlq, or its handler is about to do so.
FailedIsDeadLettered ==
    \A d \in Deliveries :
        delivery[d].status = "FAILED_PERMANENTLY" =>
            \/ d \in deadLettered
            \/ \E h \in Handlers : /\ handler[h].pc \in {"disable", "dead_letter"}
                                   /\ DeliveryOf(h) = d

\* docs/architecture.md, section 10: at the threshold the endpoint moves to
\* DISABLED.  While it has not, a handler is on its way to the conditional update.
ThresholdDisables ==
    \A e \in Endpoints :
        CrossedThreshold(e) =>
            \E h \in Handlers : At(h, "disable") /\ EndpointOf(DeliveryOf(h)) = e

\* docs/architecture.md, section 10: the disable is announced once however many
\* workers cross the threshold together, until an operator enables the endpoint.
Announcing(e) == {h \in Handlers : /\ Busy(h) /\ handler[h].disable
                                   /\ handler[h].pc \in {"dead_letter", "announce"}
                                   /\ EndpointOf(DeliveryOf(h)) = e}
DisableAnnouncedOnce ==
    \A e \in Endpoints :
        announced[e] + Cardinality(Announcing(e)) <= 1 + enables[e]

\* Without failures one thing carries a delivery at a time, until its handler has
\* settled: a second copy would let two workers attempt it side by side.
Carriers(d) ==
    {m \in queue \cup parked : m.deliveryId = d}
        \cup {h \in Handlers : /\ Responsible(h) \/ At(h, "catch")
                               /\ DeliveryOf(h) = d}
        \cup {s \in Sweepers : /\ sweeper[s].pc = "publish"
                               /\ \E t \in sweeper[s].cur : t.id = d}
        \cup {r \in Requests : d \in request[r].todo}
SingleCarrier == \A d \in Deliveries : Cardinality(Carriers(d)) <= 1

(***************************************************************************)
(* Action and liveness properties                                          *)
(***************************************************************************)

\* worker.js: "One requeue, then the message is acked and the row is left
\* IN_FLIGHT for the stuck sweeper".
GivenUpIsSwept ==
    [][\A h \in Handlers :
          At(h, "catch") /\ GivesUp(h) /\ handler'[h].pc = "idle" =>
              ~Open(DeliveryOf(h)) \/ delivery[DeliveryOf(h)].status = "IN_FLIGHT"]_vars

\* Without failures the pipeline implements the life of a delivery: the rows of
\* the deliveries table, read through this mapping, take its steps only.
LifecycleState == [d \in Deliveries |->
    CASE delivery[d].status = "ABSENT"             -> "absent"
      [] delivery[d].status \in OPEN_STATUSES      -> "open"
      [] delivery[d].status = "SUCCEEDED"          -> "succeeded"
      [] delivery[d].status = "FAILED_PERMANENTLY" -> "failed"
      [] delivery[d].status = "SKIPPED"            -> "skipped"
      [] delivery[d].status = "DELETED"            -> "purged"]
Life == INSTANCE DeliveryLifecycle WITH
    state <- LifecycleState,
    tried <- [d \in Deliveries |-> delivery[d].attemptCount]
Lifecycle == Life!LifecycleSpec

\* Every accepted delivery reaches a final status, unless retention removes it.
Settles ==
    \A d \in Deliveries : Open(d) ~> ~Open(d)

\* worker.js and architecture.md, section 6: a row that its handlers left
\* IN_FLIGHT is picked up by the stuck sweeper.
AbandonedIsRecovered ==
    \A d \in Deliveries :
        delivery[d].status = "IN_FLIGHT" ~> delivery[d].status # "IN_FLIGHT"

\* stuck-sweeper.js: "Nothing consumes a RETRYING row without a message behind it".
\* A claimed row gets its message, is put back to IN_FLIGHT for the next pass, or
\* was settled by a worker meanwhile.
ClaimIsHonoured ==
    \A d \in Deliveries :
        (\E s \in Sweepers : \E t \in sweeper[s].cur : t.id = d) ~>
            \/ ~Open(d) \/ delivery[d].status = "IN_FLIGHT"
            \/ \E m \in queue \cup parked : m.deliveryId = d

=============================================================================
