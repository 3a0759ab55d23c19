-------------------------------- MODULE Worker --------------------------------
(***************************************************************************)
(* The worker: the consumer of backend/src/worker/worker.js and the        *)
(* handler of backend/src/worker/handle-delivery.js, one action per stretch *)
(* between two awaits.  A handler is one prefetch slot.                     *)
(***************************************************************************)
EXTENDS DeliveryState

DeliveryOf(h) == handler[h].msg.deliveryId
AttemptOf(h) == handler[h].msg.attempt
EndpointOf(d) == delivery[d].endpointId

At(h, pc) == handler[h].pc = pc
Goto(h, pc) == handler' = [handler EXCEPT ![h].pc = pc]

\* prisma.delivery.update of a row that is gone rejects, and so does a
\* transaction that holds one: nothing is written and the handler throws.
Throws(h) == Goto(h, "catch") /\ UNCHANGED <<tables, broker>>

elsewhere == <<sweeper, request, retention, enables, sweeps>>

(***************************************************************************)
(* The consumer                                                            *)
(***************************************************************************)
Consume(h) ==
    /\ At(h, "idle")
    /\ \E m \in queue :
          /\ queue' = queue \ {m}
          /\ handler' = [handler EXCEPT ![h] =
                            [IdleHandler EXCEPT !.pc = "find", !.msg = m]]
    /\ UNCHANGED <<tables, parked, deadLettered, elsewhere, announced, faults>>

\* An ack on a channel that is gone throws out of the consumer and ends the
\* process; the broker had already requeued the message.
Ack(h) ==
    /\ At(h, "done") \/ At(h, "settled")
    /\ handler' = [handler EXCEPT ![h] = IdleHandler]
    /\ UNCHANGED <<tables, broker, elsewhere, announced, faults>>

\* The consumer's catch: one requeue, then the message is given up.
GivesUp(h) == handler[h].msg.redelivered

Catch(h) ==
    /\ At(h, "catch")
    /\ handler' = [handler EXCEPT ![h] = IdleHandler]
    /\ IF GivesUp(h) \/ ~handler[h].connected
       THEN UNCHANGED queue
       ELSE Requeue(handler[h].msg)
    /\ UNCHANGED <<tables, parked, deadLettered, elsewhere, announced, faults>>

(***************************************************************************)
(* handleDelivery                                                          *)
(***************************************************************************)
FindDelivery(h) ==
    /\ At(h, "find")
    /\ LET d == DeliveryOf(h)
       IN  Goto(h, IF ~Exists(d) \/ Terminal(d) THEN "done"
                   ELSE IF endpoint[EndpointOf(d)].status = "DISABLED"
                        THEN "skip"
                        ELSE "take")
    /\ UNCHANGED <<tables, broker, elsewhere, announced, faults>>

SkipDisabled(h) ==
    /\ At(h, "skip")
    /\ LET d == DeliveryOf(h)
       IN  IF ~Exists(d)
           THEN Throws(h)
           ELSE /\ SetStatus(d, "SKIPPED")
                /\ Goto(h, "settled")
                /\ UNCHANGED <<attempts, endpoint, event, broker>>
    /\ UNCHANGED <<elsewhere, announced, faults>>

\* The bucket's answer is a choice: the pipeline does not model its clock.
TakeToken(h, allowed) ==
    /\ At(h, "take")
    /\ allowed \/ "throttle" \in Environment
    /\ Goto(h, IF allowed THEN "mark" ELSE "throttle")
    /\ UNCHANGED <<tables, broker, elsewhere, announced, faults>>

ThrottledAttempt_Counts(h) == AttemptOf(h) + 1

\* Parking keeps the attempt number: it is not an attempt.
ThrottledAttempt(h) == AttemptOf(h)

PublishThrottle(h) ==
    /\ At(h, "throttle")
    /\ IF ~handler[h].connected
       THEN Throws(h)
       ELSE /\ publishParked(DeliveryOf(h), ThrottledAttempt(h))
            /\ Goto(h, "settled")
            /\ UNCHANGED tables
    /\ UNCHANGED <<elsewhere, announced, faults>>

\* Unconditional: the status is not part of the predicate.
MarkInFlight(h) ==
    /\ At(h, "mark")
    /\ LET d == DeliveryOf(h)
       IN  IF ~Exists(d)
           THEN Throws(h)
           ELSE /\ SetStatus(d, "IN_FLIGHT")
                /\ Goto(h, "send")
                /\ UNCHANGED <<attempts, endpoint, event, broker>>
    /\ UNCHANGED <<elsewhere, announced, faults>>

\* The target is resolved and the request sent.  A refused target is permanent
\* and an unresolved one retryable; an answer is classified by its status.
Send(h, result) ==
    /\ At(h, "send")
    /\ handler' = [handler EXCEPT
          ![h].result = result,
          ![h].pc = IF result = "SUCCESS" THEN "commit_success"
                    ELSE IF nextRetryLevel(result, AttemptOf(h), Undefined)
                               = NoLevel
                         THEN "commit_failure"
                         ELSE "commit_retry"]
    /\ UNCHANGED <<tables, broker, elsewhere, announced, faults>>

attemptRow(h) == [number |-> AttemptOf(h), result |-> handler[h].result]

(***************************************************************************)
(* The three outcomes                                                      *)
(***************************************************************************)
CommitAttempt(h, row) ==
    /\ attempts' = [attempts EXCEPT ![DeliveryOf(h)] = @ \cup {attemptRow(h)}]
    /\ delivery' = [delivery EXCEPT ![DeliveryOf(h)] = row]

FinaliseSuccess(h) ==
    /\ At(h, "commit_success")
    /\ LET d == DeliveryOf(h)
       IN  IF ~Exists(d)
           THEN Throws(h)
           ELSE /\ CommitAttempt(h, [delivery[d] EXCEPT
                         !.status = "SUCCEEDED", !.attemptCount = AttemptOf(h)])
                /\ endpoint' = [endpoint EXCEPT
                         ![EndpointOf(d)].consecutiveFailures = 0]
                /\ Goto(h, "settled")
                /\ UNCHANGED <<event, broker>>
    /\ UNCHANGED <<elsewhere, announced, faults>>

\* nextAttemptAt moves into the future, so the row is not overdue any more.
FinaliseRetry(h) ==
    /\ At(h, "commit_retry")
    /\ LET d == DeliveryOf(h)
       IN  IF ~Exists(d)
           THEN Throws(h)
           ELSE /\ CommitAttempt(h, [delivery[d] EXCEPT
                         !.status = "RETRYING", !.attemptCount = AttemptOf(h),
                         !.overdue = FALSE])
                /\ Goto(h, "publish_retry")
                /\ UNCHANGED <<endpoint, event, broker>>
    /\ UNCHANGED <<elsewhere, announced, faults>>

\* The bug the comment in finaliseRetry warns of: the ack comes first.
PublishRetry_AckFirst(h) ==
    /\ At(h, "publish_retry")
    /\ handler[h].msg # NoMessage
    /\ \/ /\ publishParked(DeliveryOf(h), AttemptOf(h) + 1)
          /\ Goto(h, "settled")
          /\ UNCHANGED tables
       \/ /\ "worker_crash" \in Environment
          /\ handler' = [handler EXCEPT ![h] = IdleHandler]
          /\ UNCHANGED <<tables, broker>>
    /\ UNCHANGED <<elsewhere, announced, faults>>

\* Published after the commit and before the ack.
PublishRetry(h) ==
    /\ At(h, "publish_retry")
    /\ IF ~handler[h].connected
       THEN Throws(h)
       ELSE /\ publishParked(DeliveryOf(h), AttemptOf(h) + 1)
            /\ Goto(h, "settled")
            /\ UNCHANGED tables
    /\ UNCHANGED <<elsewhere, announced, faults>>

FinaliseFailure(h) ==
    /\ At(h, "commit_failure")
    /\ LET d == DeliveryOf(h)
       IN  IF ~Exists(d)
           THEN Throws(h)
           ELSE /\ CommitAttempt(h, [delivery[d] EXCEPT
                         !.status = "FAILED_PERMANENTLY",
                         !.attemptCount = AttemptOf(h)])
                /\ endpoint' = [endpoint EXCEPT
                         ![EndpointOf(d)].consecutiveFailures = @ + 1]
                /\ Goto(h, "disable")
                /\ UNCHANGED <<event, broker>>
    /\ UNCHANGED <<elsewhere, announced, faults>>

CrossedThreshold_AnyStatus(e) ==
    endpoint[e].consecutiveFailures >= ENDPOINT_AUTO_DISABLE_THRESHOLD

\* The conditional updateMany: only the update that flips the row matches.
CrossedThreshold(e) ==
    /\ endpoint[e].status = "ACTIVE"
    /\ endpoint[e].consecutiveFailures >= ENDPOINT_AUTO_DISABLE_THRESHOLD

DisableAtThreshold(h) ==
    /\ At(h, "disable")
    /\ LET e == EndpointOf(DeliveryOf(h))
       IN  /\ endpoint' = [endpoint EXCEPT ![e].status =
                              IF CrossedThreshold(e) THEN "DISABLED" ELSE @]
           /\ handler' = [handler EXCEPT ![h].pc = "dead_letter",
                                         ![h].disable = CrossedThreshold(e)]
    /\ UNCHANGED <<delivery, attempts, event, broker, elsewhere, announced,
                   faults>>

PublishDeadLetter_OnlyOnDisable(h) ==
    /\ At(h, "dead_letter")
    /\ deadLettered' = IF handler[h].disable
                       THEN deadLettered \cup {DeliveryOf(h)} ELSE deadLettered
    /\ Goto(h, IF handler[h].disable THEN "announce" ELSE "settled")
    /\ UNCHANGED <<tables, queue, parked, elsewhere, announced, faults>>

PublishDeadLetter(h) ==
    /\ At(h, "dead_letter")
    /\ IF ~handler[h].connected
       THEN Throws(h)
       ELSE /\ deadLettered' = deadLettered \cup {DeliveryOf(h)}
            /\ Goto(h, IF handler[h].disable THEN "announce" ELSE "settled")
            /\ UNCHANGED <<tables, queue, parked>>
    /\ UNCHANGED <<elsewhere, announced, faults>>

\* The realtime event and the alert; neither can throw.
AnnounceDisable(h) ==
    /\ At(h, "announce")
    /\ announced' = [announced EXCEPT ![EndpointOf(DeliveryOf(h))] = @ + 1]
    /\ Goto(h, "settled")
    /\ UNCHANGED <<tables, broker, elsewhere, faults>>

(***************************************************************************)
(* Failures of a worker                                                    *)
(***************************************************************************)
\* Where an await can reject.  At "settled" and "announce" it is the await that
\* led there, which took effect and was reported as failed.
Awaiting == HandlerPc \ {"idle", "done", "catch"}

HandlerError(h) ==
    /\ handler[h].pc \in Awaiting
    /\ Occurs("handler_error")
    /\ Goto(h, "catch")
    /\ UNCHANGED <<tables, broker, elsewhere, announced>>

WorkerCrash(h) ==
    /\ Busy(h)
    /\ Occurs("worker_crash")
    /\ handler' = [handler EXCEPT ![h] = IdleHandler]
    /\ IF handler[h].connected THEN Requeue(handler[h].msg)
                               ELSE UNCHANGED queue
    /\ UNCHANGED <<tables, parked, deadLettered, elsewhere, announced>>

\* The channel closes under a running handler: the broker requeues the message
\* and the handler goes on, writing to the database, until it needs the broker.
ConnectionLoss(h) ==
    /\ Busy(h) /\ handler[h].connected
    /\ Occurs("connection_loss")
    /\ handler' = [handler EXCEPT ![h].connected = FALSE]
    /\ Requeue(handler[h].msg)
    /\ UNCHANGED <<tables, parked, deadLettered, elsewhere, announced>>

HandlerStep(h) ==
    \/ Ack(h) \/ Catch(h) \/ FindDelivery(h) \/ SkipDisabled(h)
    \/ \E allowed \in BOOLEAN : TakeToken(h, allowed)
    \/ PublishThrottle(h) \/ MarkInFlight(h)
    \/ \E result \in {"SUCCESS"} \cup FAILURE : Send(h, result)
    \/ FinaliseSuccess(h) \/ FinaliseRetry(h) \/ PublishRetry(h)
    \/ FinaliseFailure(h) \/ DisableAtThreshold(h) \/ PublishDeadLetter(h)
    \/ AnnounceDisable(h)

=============================================================================
