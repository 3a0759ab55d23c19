------------------------ MODULE DeliveryPipelineProofs ------------------------
(***************************************************************************)
(* Theorems of DeliveryPipeline, for every value of its constants.          *)
(***************************************************************************)
EXTENDS DeliveryPipeline, TLAPS

-----------------------------------------------------------------------------
(* Facts about the operators of the model. *)

\* A message the publisher makes is a message of the broker.
LEMMA MessageForType ==
    ASSUME NEW d \in Deliveries, NEW n \in Nat \ {0}, CanPublish(d, n)
    PROVE  /\ messageFor(d, n) \in Message
           /\ messageFor(d, n).deliveryId = d
           /\ messageFor(d, n).attempt = n
  <1>1. PICK i \in FreeIds(d, n) : TRUE
    BY DEF CanPublish
  <1>2. (CHOOSE x \in FreeIds(d, n) : TRUE) \in FreeIds(d, n)
    BY <1>1
  <1>3. (CHOOSE x \in FreeIds(d, n) : TRUE) \in MsgIds
    BY <1>2 DEF FreeIds
  <1> QED
    BY <1>3 DEF messageFor, Message

\* The publisher's effect on the queues, with the message it adds named.
LEMMA PublishDeliveryEffect ==
    ASSUME NEW d \in Deliveries, NEW n \in Nat \ {0}, publishDelivery(d, n)
    PROVE  \E m \in Message : /\ m.deliveryId = d /\ m.attempt = n
                              /\ queue' = queue \cup {m}
                              /\ parked' = parked
                              /\ deadLettered' = deadLettered
  BY MessageForType DEF publishDelivery

\* The same for the retry and throttle queues.
LEMMA PublishParkedEffect ==
    ASSUME NEW d \in Deliveries, NEW n \in Nat \ {0}, publishParked(d, n)
    PROVE  \E m \in Message : /\ m.deliveryId = d /\ m.attempt = n
                              /\ parked' = parked \cup {m}
                              /\ queue' = queue
                              /\ deadLettered' = deadLettered
  BY MessageForType DEF publishParked

\* A requeued message differs from the original in its redelivered flag only.
LEMMA RequeueEffect ==
    ASSUME NEW m \in Message, Requeue(m)
    PROVE  \E n \in Message : /\ n.deliveryId = m.deliveryId
                              /\ n.attempt = m.attempt
                              /\ queue' = queue \cup {n}
  BY DEF Requeue, Message

-----------------------------------------------------------------------------
(* Type correctness. *)

\* The initial state has the types.
LEMMA InitType == Init => TypeOK
  BY StateAssumption
     DEF Init, TypeOK, NewDelivery, IdleHandler, IdleSweeper, IdleRequest,
         DeliveryRow, EndpointRow, HandlerState, HandlerPc, SweeperState,
         RequestState, FAILURE, RETRYABLE, PERMANENT, DELIVERY_STATUS,
         NOT_FOUND, Busy

\* Every action keeps the types.
LEMMA TypeStep == TypeOK /\ [Next]_vars => TypeOK'
  <1> SUFFICES ASSUME TypeOK, [Next]_vars PROVE TypeOK'
    OBVIOUS
  <1> USE DEF TypeOK
  <1>1. ASSUME NEW r \in Requests, PublishEvent(r) PROVE TypeOK'
    BY <1>1 DEF PublishEvent, Plans, RequestState, NewRow, tables, broker,
                bystanders, Busy
  <1>2. ASSUME NEW r \in Requests, Replay(r) PROVE TypeOK'
    BY <1>2 DEF Replay, Plans, RequestState, NewRow, tables, broker,
                bystanders, Busy, DeliveryRow
  <1>3. ASSUME NEW r \in Requests, CommitRows(r) PROVE TypeOK'
    <2> DEFINE plan == request[r].plan
    <2>1. PICK id \in [plan -> FreshDeliveries] :
             /\ delivery' = [d \in Deliveries |->
                   IF \E row \in plan : id[row] = d
                   THEN Inserted(CHOOSE row \in plan : id[row] = d)
                   ELSE delivery[d]]
             /\ request' = [request EXCEPT ![r] = [@ EXCEPT
                   !.pc = "publish", !.plan = {},
                   !.todo = {id[row] : row \in {x \in plan : x.status = "PENDING"}}]]
      BY <1>3 DEF CommitRows
    <2>2. plan \subseteq NewRow
      BY DEF RequestState
    <2>3. ASSUME NEW d \in Deliveries PROVE delivery'[d] \in DeliveryRow
      <3>1. CASE \E row \in plan : id[row] = d
        <4>1. PICK row \in plan : row = CHOOSE x \in plan : id[x] = d
          BY <3>1
        <4>2. delivery'[d] = Inserted(row)
          BY <2>1, <3>1, <4>1
        <4>3. row \in NewRow
          BY <2>2, <4>1
        <4> QED
          BY <4>2, <4>3 DEF Inserted, NewRow, DeliveryRow, DELIVERY_STATUS,
                            OPEN_STATUSES, TERMINAL_STATUSES
      <3>2. CASE ~\E row \in plan : id[row] = d
        BY <2>1, <3>2
      <3> QED
        BY <3>1, <3>2
    <2>4. delivery' \in [Deliveries -> DeliveryRow]
      BY <2>1, <2>3
    <2>5. {id[row] : row \in {x \in plan : x.status = "PENDING"}} \subseteq Deliveries
      BY <2>1 DEF FreshDeliveries
    <2>6. request' \in [Requests -> RequestState]
      <3> DEFINE ids == {id[row] : row \in {x \in plan : x.status = "PENDING"}}
      <3>1. [request[r] EXCEPT !.pc = "publish", !.plan = {}, !.todo = ids]
               \in RequestState
        <4> HIDE DEF ids
        <4> QED
          BY <2>5 DEF RequestState, ids
      <3> QED
        BY <2>1, <3>1
    <2>7. event' \in [Events -> {"ABSENT", "STORED", "DELETED"}]
      BY <1>3 DEF CommitRows
    <2> QED
      BY <1>3, <2>4, <2>6, <2>7 DEF CommitRows, broker, bystanders, Busy
  <1>4. ASSUME NEW r \in Requests,
               CommitRejected(r) \/ Respond(r) \/ PublishFails(r)
        PROVE  TypeOK'
    BY <1>4 DEF CommitRejected, Respond, PublishFails, Occurs, IdleRequest,
                RequestState, tables, broker, bystanders, Busy
  <1>5. ASSUME NEW r \in Requests, PublishRow(r) PROVE TypeOK'
    <2>1. PICK d \in request[r].todo : /\ publishDelivery(d, 1)
                                       /\ request' = [request EXCEPT ![r].todo = @ \ {d}]
      BY <1>5 DEF PublishRow
    <2>2. d \in Deliveries
      BY <2>1 DEF RequestState
    <2>3. queue' \subseteq Message /\ parked' = parked /\ deadLettered' = deadLettered
      BY <2>1, <2>2, PublishDeliveryEffect
    <2> QED
      BY <1>5, <2>1, <2>3 DEF PublishRow, RequestState, tables, bystanders, Busy
  <1>6. ASSUME NEW h \in Handlers, Consume(h) PROVE TypeOK'
    <2>1. PICK m \in queue :
             /\ queue' = queue \ {m}
             /\ handler' = [handler EXCEPT ![h] =
                               [IdleHandler EXCEPT !.pc = "find", !.msg = m]]
      BY <1>6 DEF Consume
    <2>2. [IdleHandler EXCEPT !.pc = "find", !.msg = m] \in HandlerState
      BY <2>1 DEF IdleHandler, HandlerState, HandlerPc, FAILURE
    <2>3. [IdleHandler EXCEPT !.pc = "find", !.msg = m].msg \in Message
      BY <2>1 DEF IdleHandler
    <2>4. /\ handler' \in [Handlers -> HandlerState]
          /\ \A x \in Handlers : Busy(x)' => handler'[x].msg \in Message
      BY <2>1, <2>2, <2>3 DEF Busy
    <2> QED
      BY <1>6, <2>1, <2>4 DEF Consume, tables, elsewhere
  <1>7. ASSUME NEW h \in Handlers, Ack(h) PROVE TypeOK'
    BY <1>7 DEF Ack, IdleHandler, HandlerState, HandlerPc, Busy, tables, broker,
                elsewhere, FAILURE
  <1>8. ASSUME NEW h \in Handlers, Catch(h) PROVE TypeOK'
    BY <1>8, RequeueEffect DEF Catch, At, IdleHandler, HandlerState, HandlerPc,
                Busy, tables, elsewhere, FAILURE
  <1>9. ASSUME NEW h \in Handlers, NEW pc \in HandlerPc, Busy(h), Goto(h, pc)
        PROVE  /\ handler' \in [Handlers -> HandlerState]
               /\ \A x \in Handlers : Busy(x)' => handler'[x].msg \in Message
    BY <1>9 DEF Goto, HandlerState, Busy
  <1>10. ASSUME NEW h \in Handlers, Throws(h), Busy(h)
         PROVE  /\ handler' \in [Handlers -> HandlerState]
                /\ \A x \in Handlers : Busy(x)' => handler'[x].msg \in Message
    BY <1>9, <1>10 DEF Throws, HandlerPc
  <1>11. ASSUME NEW h \in Handlers, FindDelivery(h) PROVE TypeOK'
    BY <1>9, <1>11 DEF FindDelivery, At, Busy, HandlerPc, tables, broker, elsewhere
  <1>12. ASSUME NEW h \in Handlers, NEW d \in Deliveries, NEW status \in DELIVERY_STATUS,
                SetStatus(d, status)
         PROVE  delivery' \in [Deliveries -> DeliveryRow]
    BY <1>12 DEF SetStatus, DeliveryRow
  <1>13. ASSUME NEW h \in Handlers, Busy(h)
         PROVE  DeliveryOf(h) \in Deliveries /\ AttemptOf(h) \in Nat \ {0}
    BY <1>13 DEF DeliveryOf, AttemptOf, Message
  <1>14. ASSUME NEW h \in Handlers, SkipDisabled(h) PROVE TypeOK'
    BY <1>9, <1>10, <1>12, <1>13, <1>14
       DEF SkipDisabled, Throws, At, Busy, HandlerPc, tables, broker, elsewhere,
           DELIVERY_STATUS, TERMINAL_STATUSES
  <1>15. ASSUME NEW h \in Handlers, NEW allowed \in BOOLEAN, TakeToken(h, allowed)
         PROVE  TypeOK'
    BY <1>9, <1>15 DEF TakeToken, At, Busy, HandlerPc, tables, broker, elsewhere
  <1>16. ASSUME NEW h \in Handlers, PublishThrottle(h) PROVE TypeOK'
    BY <1>9, <1>10, <1>13, <1>16, PublishParkedEffect
       DEF PublishThrottle, ThrottledAttempt, Throws, At, Busy, HandlerPc, tables,
           broker, elsewhere
  <1>17. ASSUME NEW h \in Handlers, MarkInFlight(h) PROVE TypeOK'
    BY <1>9, <1>10, <1>12, <1>13, <1>17
       DEF MarkInFlight, Throws, At, Busy, HandlerPc, tables, broker, elsewhere,
           DELIVERY_STATUS, OPEN_STATUSES
  <1>18. ASSUME NEW h \in Handlers, NEW result \in {"SUCCESS"} \cup FAILURE,
                Send(h, result)
         PROVE  TypeOK'
    BY <1>18 DEF Send, At, Busy, HandlerState, HandlerPc, tables, broker, elsewhere
  <1>19. ASSUME NEW h \in Handlers, Busy(h), NEW row \in DeliveryRow,
                CommitAttempt(h, row)
         PROVE  /\ delivery' \in [Deliveries -> DeliveryRow]
                /\ attempts' \in [Deliveries -> SUBSET AttemptRow]
    BY <1>13, <1>19 DEF CommitAttempt, attemptRow, AttemptRow, HandlerState
  <1>20. ASSUME NEW h \in Handlers, FinaliseSuccess(h) PROVE TypeOK'
    <2> DEFINE d == DeliveryOf(h)
               row == [delivery[d] EXCEPT !.status = "SUCCEEDED",
                                          !.attemptCount = AttemptOf(h)]
    <2>1. Busy(h)
      BY <1>20 DEF FinaliseSuccess, At, Busy
    <2>2. CASE ~Exists(d)
      BY <1>10, <1>20, <2>1, <2>2 DEF FinaliseSuccess, Throws, tables, broker, elsewhere
    <2>3. CASE Exists(d)
      <3>1. row \in DeliveryRow
        BY <1>13, <2>1 DEF DeliveryRow, DELIVERY_STATUS, TERMINAL_STATUSES
      <3>2. CommitAttempt(h, row)
        BY <1>20, <2>3 DEF FinaliseSuccess
      <3>3. endpoint' \in [Endpoints -> EndpointRow]
        BY <1>20, <2>3 DEF FinaliseSuccess, EndpointRow
      <3> QED
        BY <1>9, <1>19, <1>20, <2>1, <2>3, <3>1, <3>2, <3>3
           DEF FinaliseSuccess, HandlerPc, broker, elsewhere
    <2> QED
      BY <2>2, <2>3
  <1>21. ASSUME NEW h \in Handlers, FinaliseRetry(h) PROVE TypeOK'
    <2> DEFINE d == DeliveryOf(h)
               row == [delivery[d] EXCEPT !.status = "RETRYING",
                          !.attemptCount = AttemptOf(h), !.overdue = FALSE]
    <2>1. Busy(h)
      BY <1>21 DEF FinaliseRetry, At, Busy
    <2>2. CASE ~Exists(d)
      BY <1>10, <1>21, <2>1, <2>2 DEF FinaliseRetry, Throws, tables, broker, elsewhere
    <2>3. CASE Exists(d)
      <3>1. row \in DeliveryRow
        BY <1>13, <2>1 DEF DeliveryRow, DELIVERY_STATUS, OPEN_STATUSES
      <3>2. CommitAttempt(h, row)
        BY <1>21, <2>3 DEF FinaliseRetry
      <3> QED
        BY <1>9, <1>19, <1>21, <2>1, <2>3, <3>1, <3>2
           DEF FinaliseRetry, HandlerPc, broker, elsewhere
    <2> QED
      BY <2>2, <2>3
  <1>22. ASSUME NEW h \in Handlers, PublishRetry(h) PROVE TypeOK'
    BY <1>9, <1>10, <1>13, <1>22, PublishParkedEffect
       DEF PublishRetry, Throws, At, Busy, HandlerPc, tables, broker, elsewhere
  <1>23. ASSUME NEW h \in Handlers, FinaliseFailure(h) PROVE TypeOK'
    <2> DEFINE d == DeliveryOf(h)
               row == [delivery[d] EXCEPT !.status = "FAILED_PERMANENTLY",
                          !.attemptCount = AttemptOf(h)]
    <2>1. Busy(h)
      BY <1>23 DEF FinaliseFailure, At, Busy
    <2>2. CASE ~Exists(d)
      BY <1>10, <1>23, <2>1, <2>2 DEF FinaliseFailure, Throws, tables, broker, elsewhere
    <2>3. CASE Exists(d)
      <3>1. row \in DeliveryRow
        BY <1>13, <2>1 DEF DeliveryRow, DELIVERY_STATUS, TERMINAL_STATUSES
      <3>2. CommitAttempt(h, row)
        BY <1>23, <2>3 DEF FinaliseFailure
      <3>3. endpoint' \in [Endpoints -> EndpointRow]
        BY <1>23, <2>3 DEF FinaliseFailure, EndpointRow
      <3> QED
        BY <1>9, <1>19, <1>23, <2>1, <2>3, <3>1, <3>2, <3>3
           DEF FinaliseFailure, HandlerPc, broker, elsewhere
    <2> QED
      BY <2>2, <2>3
  <1>24. ASSUME NEW h \in Handlers, DisableAtThreshold(h) PROVE TypeOK'
    <2>1. endpoint' \in [Endpoints -> EndpointRow]
      BY <1>24 DEF DisableAtThreshold, EndpointRow
    <2>2. CrossedThreshold(EndpointOf(DeliveryOf(h))) \in BOOLEAN
      BY DEF CrossedThreshold
    <2>3. /\ handler' \in [Handlers -> HandlerState]
          /\ \A x \in Handlers : Busy(x)' => handler'[x].msg \in Message
      <3> DEFINE row == [handler[h] EXCEPT !.pc = "dead_letter",
                             !.disable = CrossedThreshold(EndpointOf(DeliveryOf(h)))]
      <3>1. handler' = [handler EXCEPT ![h] = row]
        BY <1>24 DEF DisableAtThreshold
      <3>2. row \in HandlerState /\ row.msg = handler[h].msg
        <4> HIDE DEF CrossedThreshold
        <4> QED
          BY <2>2 DEF HandlerState, HandlerPc
      <3>3. Busy(h)
        BY <1>24 DEF DisableAtThreshold, At, Busy
      <3> HIDE DEF row
      <3> QED
        BY <3>1, <3>2, <3>3 DEF Busy
    <2> QED
      BY <1>24, <2>1, <2>3 DEF DisableAtThreshold, broker, elsewhere
  <1>25. ASSUME NEW h \in Handlers, PublishDeadLetter(h) PROVE TypeOK'
    BY <1>9, <1>10, <1>13, <1>25
       DEF PublishDeadLetter, Throws, At, Busy, HandlerPc, tables, broker, elsewhere
  <1>26. ASSUME NEW h \in Handlers, AnnounceDisable(h) PROVE TypeOK'
    <2>1. announced' \in [Endpoints -> Nat]
      <3> DEFINE e == EndpointOf(DeliveryOf(h))
      <3>1. announced' = [announced EXCEPT ![e] = announced[e] + 1]
        BY <1>26 DEF AnnounceDisable
      <3>2. e \in Endpoints
        BY <1>13, <1>26 DEF AnnounceDisable, At, Busy, EndpointOf, DeliveryRow
      <3> HIDE DEF e
      <3> QED
        BY <3>1, <3>2
    <2>2. Busy(h) /\ "settled" \in HandlerPc /\ Goto(h, "settled")
      BY <1>26 DEF AnnounceDisable, At, Busy, HandlerPc
    <2> QED
      BY <1>9, <1>26, <2>1, <2>2 DEF AnnounceDisable, tables, broker, elsewhere
  <1>27. ASSUME NEW h \in Handlers, HandlerError(h) PROVE TypeOK'
    BY <1>9, <1>27 DEF HandlerError, Awaiting, Occurs, Busy, HandlerPc, tables,
                       broker, elsewhere
  <1>28. ASSUME NEW h \in Handlers, WorkerCrash(h) PROVE TypeOK'
    BY <1>28, RequeueEffect DEF WorkerCrash, Occurs, Busy, IdleHandler,
                HandlerState, HandlerPc, FAILURE, tables, elsewhere
  <1>29. ASSUME NEW h \in Handlers, ConnectionLoss(h) PROVE TypeOK'
    <2>1. queue' \subseteq Message
      BY <1>29, RequeueEffect DEF ConnectionLoss
    <2>2. /\ handler' \in [Handlers -> HandlerState]
          /\ \A x \in Handlers : Busy(x)' => handler'[x].msg \in Message
      BY <1>29 DEF ConnectionLoss, Busy, HandlerState
    <2> QED
      BY <1>29, <2>1, <2>2 DEF ConnectionLoss, Occurs, tables, elsewhere
  <1>30. ASSUME NEW s \in Sweepers, ReadStuck(s) PROVE TypeOK'
    BY <1>30 DEF ReadStuck, Stuck, SweeperState, StuckRow, DeliveryRow, tables,
                 broker, others, Busy
  <1>31. ASSUME NEW s \in Sweepers, Claim(s) PROVE TypeOK'
    <2>1. PICK t \in sweeper[s].todo :
             IF ClaimMatches(t.id)
             THEN SetStatus(t.id, "RETRYING") /\ Walk(s, t, "publish", {t})
             ELSE UNCHANGED delivery /\ Walk(s, t, "claim", {})
      BY <1>31 DEF Claim
    <2>2. t \in StuckRow /\ t.id \in Deliveries
      BY <2>1 DEF SweeperState, StuckRow
    <2>3. sweeper' \in [Sweepers -> SweeperState]
      BY <2>1, <2>2 DEF Walk, SweeperState
    <2>4. delivery' \in [Deliveries -> DeliveryRow]
      BY <2>1, <2>2 DEF SetStatus, DeliveryRow, DELIVERY_STATUS, OPEN_STATUSES
    <2> QED
      BY <1>31, <2>3, <2>4 DEF Claim, broker, others, Busy
  <1>32. ASSUME NEW s \in Sweepers, Recover(s) \/ RecoverFails(s) PROVE TypeOK'
    <2>1. \A t \in sweeper[s].cur : /\ t.id \in Deliveries
                                    /\ RecoveryAttempt(t) \in Nat \ {0}
      BY DEF SweeperState, StuckRow, RecoveryAttempt
    <2>2. queue' \subseteq Message /\ parked' = parked /\ deadLettered' = deadLettered
      BY <1>32, <2>1, PublishDeliveryEffect DEF Recover, RecoverFails, broker
    <2>3. sweeper' \in [Sweepers -> SweeperState]
      <3>1. CASE Recover(s)
        <4>1. AfterPublish(s) \in SweeperState
          BY DEF AfterPublish, IdleSweeper, SweeperState
        <4> QED
          BY <3>1, <4>1 DEF Recover
      <3>2. CASE RecoverFails(s)
        BY <3>2 DEF RecoverFails, SweeperState
      <3> QED
        BY <1>32, <3>1, <3>2
    <2> QED
      BY <1>32, <2>2, <2>3 DEF Recover, RecoverFails, Occurs, tables, others, Busy
  <1>33. ASSUME NEW s \in Sweepers, Release(s) PROVE TypeOK'
    <2>1. PICK t \in sweeper[s].cur :
             IF delivery[t.id].status = "RETRYING" THEN SetStatus(t.id, "IN_FLIGHT")
                                                   ELSE UNCHANGED delivery
      BY <1>33 DEF Release
    <2>2. t.id \in Deliveries
      BY <2>1 DEF SweeperState, StuckRow
    <2>3. delivery' \in [Deliveries -> DeliveryRow]
      <3>1. CASE delivery' = delivery
        BY <3>1
      <3>2. CASE SetStatus(t.id, "IN_FLIGHT")
        BY <2>2, <3>2 DEF SetStatus, DeliveryRow, DELIVERY_STATUS, OPEN_STATUSES
      <3> QED
        BY <2>1, <3>1, <3>2
    <2> QED
      BY <1>33, <2>3 DEF Release, IdleSweeper, SweeperState, broker, others, Busy
  <1>34. ASSUME NEW s \in Sweepers, SweeperCrash(s) PROVE TypeOK'
    BY <1>34 DEF SweeperCrash, Occurs, IdleSweeper, SweeperState, tables, broker,
                 others, Busy
  <1>35. ASSUME NEW e \in Endpoints,
                EnableEndpoint(e) \/ DisableEndpoint(e) \/ RemoveEndpoint(e)
         PROVE  TypeOK'
    <2>1. endpoint' \in [Endpoints -> EndpointRow]
      <3>1. CASE EnableEndpoint(e)
        BY <3>1 DEF EnableEndpoint, EndpointRow
      <3>2. CASE DisableEndpoint(e) \/ RemoveEndpoint(e)
        BY <3>2 DEF DisableEndpoint, RemoveEndpoint, EndpointRow
      <3> QED
        BY <1>35, <3>1, <3>2
    <2>2. enables' \in [Endpoints -> Nat]
      BY <1>35 DEF EnableEndpoint, DisableEndpoint, RemoveEndpoint, counters
    <2> QED
      BY <1>35, <2>1, <2>2 DEF EnableEndpoint, DisableEndpoint, RemoveEndpoint,
                              broker, processes, counters, Busy
  <1>36. ASSUME NEW d \in Deliveries, Age(d) PROVE TypeOK'
    <2>1. delivery' \in [Deliveries -> DeliveryRow]
      BY <1>36 DEF Age, DeliveryRow
    <2>2. faults' \in Nat
      BY <1>36 DEF Age, Occurs
    <2> QED
      BY <1>36, <2>1, <2>2 DEF Age, broker, Busy
  <1>37. ASSUME SelectStale PROVE TypeOK'
    BY <1>37 DEF SelectStale, tables, broker, processes, counters, Busy
  <1>38. ASSUME DeleteStale PROVE TypeOK'
    BY <1>38 DEF DeleteStale, DeliveryRow, NOT_FOUND, broker, processes, counters, Busy
  <1>39. ASSUME Expire PROVE TypeOK'
    BY <1>39 DEF Expire, tables, counters, Busy
  <1>40. ASSUME UNCHANGED vars PROVE TypeOK'
    BY <1>40 DEF vars, tables, broker, counters, Busy
  <1> QED
    BY <1>1, <1>2, <1>3, <1>4, <1>5, <1>6, <1>7, <1>8, <1>11, <1>14, <1>15, <1>16,
       <1>17, <1>18, <1>20, <1>21, <1>22, <1>23, <1>24, <1>25, <1>26, <1>27, <1>28,
       <1>29, <1>30, <1>31, <1>32, <1>33, <1>34, <1>35, <1>36, <1>37, <1>38, <1>39,
       <1>40
       DEF Next, RequestStep, HandlerStep, SweeperStep, Quiet

\* The tables, the queues and the processes' local state keep their types.
THEOREM TypeCorrect == Spec => []TypeOK
  BY InitType, TypeStep, PTL DEF Spec

-----------------------------------------------------------------------------
(* The audit trail.  AuditTrail is not inductive: an attempt number travels   *)
(* from a recorded attempt through a message, a handler or a sweeper's batch   *)
(* before it is recorded itself, and a final status from the answer to the     *)
(* transaction.  The invariant follows both.                                   *)

Purged(d) == delivery[d].status = "DELETED"

\* Attempt n is the first of the delivery or follows a recorded one.
Continues(d, n) == Purged(d) \/ n = 1 \/ Recorded(d, n - 1)

TrailInv == \A d \in Deliveries : Purged(d) \/ (NoGaps(d) /\ OutcomeJustified(d))
QueueInv == \A m \in queue \cup parked : Continues(m.deliveryId, m.attempt)
HandlerInv ==
    \A h \in Handlers : Busy(h) =>
        /\ Continues(DeliveryOf(h), AttemptOf(h))
        /\ At(h, "publish_retry") => Continues(DeliveryOf(h), AttemptOf(h) + 1)
        /\ At(h, "commit_success") => handler[h].result = "SUCCESS"
        /\ At(h, "commit_failure") =>
              \/ handler[h].result = PERMANENT
              \/ handler[h].result = RETRYABLE /\ AttemptOf(h) >= MAX_ATTEMPTS
SweeperInv ==
    \A s \in Sweepers : \A t \in sweeper[s].todo \cup sweeper[s].cur :
        Continues(t.id, t.attemptCount + 1)

AuditInv == TrailInv /\ QueueInv /\ HandlerInv /\ SweeperInv

\* Until retention removes a delivery, its recorded attempts only grow, and what
\* retention removed does not come back.
Grows(d) ==
    \/ delivery'[d].status = "DELETED"
    \/ delivery[d].status # "DELETED" /\ attempts[d] \subseteq attempts'[d]

\* Every step lets a trail grow or removes the delivery.
LEMMA TrailGrows ==
    ASSUME TypeOK, [Next]_vars, NEW d \in Deliveries PROVE Grows(d)
  <1> USE DEF Grows, TypeOK
  <1>1. CASE UNCHANGED <<delivery, attempts>>
    BY <1>1
  <1>2. ASSUME NEW c \in Deliveries, NEW status, SetStatus(c, status), Exists(c),
               UNCHANGED attempts
        PROVE  Grows(d)
    BY <1>2 DEF SetStatus, Exists, NOT_FOUND, DeliveryRow
  <1>3. ASSUME NEW h \in Handlers, NEW row, Exists(DeliveryOf(h)), CommitAttempt(h, row)
        PROVE  Grows(d)
    BY <1>3 DEF CommitAttempt, Exists, NOT_FOUND
  <1>4. ASSUME NEW h \in Handlers, SkipDisabled(h) \/ MarkInFlight(h) PROVE Grows(d)
    <2>1. DeliveryOf(h) \in Deliveries
      BY <1>4 DEF SkipDisabled, MarkInFlight, At, Busy, DeliveryOf, Message
    <2> QED
      BY <1>1, <1>2, <1>4, <2>1 DEF SkipDisabled, MarkInFlight, Throws, tables
  <1>5. ASSUME NEW h \in Handlers,
               FinaliseSuccess(h) \/ FinaliseRetry(h) \/ FinaliseFailure(h)
        PROVE  Grows(d)
    BY <1>1, <1>3, <1>5 DEF FinaliseSuccess, FinaliseRetry, FinaliseFailure, Throws, tables
  <1>6. ASSUME NEW r \in Requests, CommitRows(r) PROVE Grows(d)
    <2>1. PICK id \in [request[r].plan -> FreshDeliveries] :
             delivery' = [c \in Deliveries |->
                IF \E row \in request[r].plan : id[row] = c
                THEN Inserted(CHOOSE row \in request[r].plan : id[row] = c)
                ELSE delivery[c]]
      BY <1>6 DEF CommitRows
    <2>2. attempts' = attempts
      BY <1>6 DEF CommitRows
    <2>3. CASE \E row \in request[r].plan : id[row] = d
      BY <2>1, <2>2, <2>3 DEF FreshDeliveries
    <2>4. CASE ~\E row \in request[r].plan : id[row] = d
      BY <2>1, <2>2, <2>4
    <2> QED
      BY <2>3, <2>4
  <1>7. ASSUME NEW s \in Sweepers, Claim(s) \/ Release(s) PROVE Grows(d)
    <2>1. \A t \in sweeper[s].todo \cup sweeper[s].cur : t.id \in Deliveries
      BY DEF SweeperState, StuckRow
    <2>2. ASSUME NEW t \in sweeper[s].todo, ClaimMatches(t.id),
                 SetStatus(t.id, "RETRYING"), UNCHANGED attempts
          PROVE  Grows(d)
      BY <1>2, <2>1, <2>2 DEF ClaimMatches, Exists, NOT_FOUND
    <2>3. ASSUME NEW t \in sweeper[s].cur, delivery[t.id].status = "RETRYING",
                 SetStatus(t.id, "IN_FLIGHT"), UNCHANGED attempts
          PROVE  Grows(d)
      BY <1>2, <2>1, <2>3 DEF Exists, NOT_FOUND
    <2> QED
      BY <1>1, <1>7, <2>2, <2>3 DEF Claim, Release
  <1>8. ASSUME NEW c \in Deliveries, Age(c) PROVE Grows(d)
    BY <1>8 DEF Age, DeliveryRow
  <1>9. CASE DeleteStale
    BY <1>9 DEF DeleteStale, Exists, NOT_FOUND
  <1> QED
    BY <1>1, <1>4, <1>5, <1>6, <1>7, <1>8, <1>9
       DEF Next, RequestStep, HandlerStep, SweeperStep, Quiet, vars, tables,
           PublishEvent, Replay, CommitRejected, PublishRow, Respond, PublishFails,
           Consume, Ack, Catch, FindDelivery, TakeToken, PublishThrottle, Send,
           PublishRetry, DisableAtThreshold, PublishDeadLetter, AnnounceDisable,
           HandlerError, WorkerCrash, ConnectionLoss, Throws, ReadStuck, Recover,
           RecoverFails, SweeperCrash, EnableEndpoint, DisableEndpoint,
           RemoveEndpoint, SelectStale, Expire

\* What continues the trail of a delivery still does so after any step.
LEMMA ContinuesStable ==
    ASSUME TypeOK, [Next]_vars, NEW d \in Deliveries, NEW n \in Nat, Continues(d, n)
    PROVE  Continues(d, n)'
  BY TrailGrows DEF Grows, Continues, Purged, Recorded

\* The ladder has a level for every attempt before the last.
LEMMA LadderEnd ==
    ASSUME NEW n \in Nat \ {0}, nextRetryLevel(RETRYABLE, n, Undefined) = NoLevel
    PROVE  n >= MAX_ATTEMPTS
  <1> SUFFICES ASSUME n < MAX_ATTEMPTS PROVE FALSE
    BY RetryAssumption
  <1>1. n \in Levels
    BY RetryAssumption DEF Levels
  <1>2. shouldRetry(RETRYABLE, n)
    BY DEF shouldRetry
  <1>3. selectRetryLevel(n, Undefined) = n
    BY <1>1, RetryAssumption DEF selectRetryLevel
  <1> QED
    BY <1>2, <1>3 DEF nextRetryLevel, NoLevel

\* A busy handler holds a message, with a delivery and an attempt number.
LEMMA BusyHandler ==
    ASSUME TypeOK, NEW h \in Handlers, Busy(h)
    PROVE  /\ handler[h].msg \in Message
           /\ DeliveryOf(h) \in Deliveries
           /\ AttemptOf(h) \in Nat \ {0}
  BY DEF TypeOK, DeliveryOf, AttemptOf, Message

\* Every message in the queues continues the trail of its delivery.
LEMMA QueueStep ==
    ASSUME TypeOK, AuditInv, [Next]_vars PROVE QueueInv'
  <1> SUFFICES ASSUME NEW m \in queue' \cup parked'
               PROVE  Continues(m.deliveryId, m.attempt)'
    BY DEF QueueInv
  <1>1. m \in Message
    BY TypeStep DEF TypeOK
  <1>2. m.deliveryId \in Deliveries /\ m.attempt \in Nat
    BY <1>1 DEF Message
  <1> SUFFICES Continues(m.deliveryId, m.attempt)
    BY <1>2, ContinuesStable
  <1>3. CASE m \in queue \cup parked
    BY <1>3 DEF AuditInv, QueueInv
  <1>4. ASSUME NEW r \in Requests, PublishRow(r) PROVE Continues(m.deliveryId, m.attempt)
    <2>1. PICK d \in request[r].todo : publishDelivery(d, 1)
      BY <1>4 DEF PublishRow
    <2>2. d \in Deliveries
      BY <2>1 DEF TypeOK, RequestState
    <2> QED
      BY <1>3, <2>1, <2>2, PublishDeliveryEffect DEF Continues
  <1>5. ASSUME NEW h \in Handlers, Busy(h), Requeue(handler[h].msg), parked' = parked
        PROVE  Continues(m.deliveryId, m.attempt)
    BY <1>3, <1>5, BusyHandler, RequeueEffect
       DEF AuditInv, HandlerInv, DeliveryOf, AttemptOf
  <1>6. ASSUME NEW h \in Handlers, Catch(h) \/ WorkerCrash(h) \/ ConnectionLoss(h)
        PROVE  Continues(m.deliveryId, m.attempt)
    BY <1>3, <1>5, <1>6 DEF Catch, WorkerCrash, ConnectionLoss, At, Busy
  <1>7. ASSUME NEW h \in Handlers, PublishThrottle(h)
        PROVE  Continues(m.deliveryId, m.attempt)
    <2>1. Busy(h)
      BY <1>7 DEF PublishThrottle, At, Busy
    <2>2. CASE Throws(h)
      BY <1>3, <2>2 DEF Throws, broker
    <2>3. CASE publishParked(DeliveryOf(h), AttemptOf(h))
      BY <1>3, <2>1, <2>3, BusyHandler, PublishParkedEffect DEF AuditInv, HandlerInv
    <2> QED
      BY <1>7, <2>2, <2>3 DEF PublishThrottle, ThrottledAttempt
  <1>8. ASSUME NEW h \in Handlers, PublishRetry(h)
        PROVE  Continues(m.deliveryId, m.attempt)
    <2>1. Busy(h) /\ At(h, "publish_retry")
      BY <1>8 DEF PublishRetry, At, Busy
    <2>2. CASE Throws(h)
      BY <1>3, <2>2 DEF Throws, broker
    <2>3. CASE publishParked(DeliveryOf(h), AttemptOf(h) + 1)
      BY <1>3, <2>1, <2>3, BusyHandler, PublishParkedEffect DEF AuditInv, HandlerInv
    <2> QED
      BY <1>8, <2>2, <2>3 DEF PublishRetry
  <1>9. ASSUME NEW s \in Sweepers, Recover(s) \/ RecoverFails(s)
        PROVE  Continues(m.deliveryId, m.attempt)
    <2>1. ASSUME NEW t \in sweeper[s].cur, publishDelivery(t.id, RecoveryAttempt(t))
          PROVE  Continues(m.deliveryId, m.attempt)
      <3>1. t.id \in Deliveries /\ t.attemptCount + 1 \in Nat \ {0}
        BY DEF TypeOK, SweeperState, StuckRow
      <3>2. Continues(t.id, t.attemptCount + 1)
        BY DEF AuditInv, SweeperInv
      <3> QED
        BY <1>3, <2>1, <3>1, <3>2, PublishDeliveryEffect DEF RecoveryAttempt
    <2> QED
      BY <1>3, <1>9, <2>1 DEF Recover, RecoverFails, broker
  <1>10. CASE Expire
    BY <1>3, <1>10 DEF Expire
  <1>11. ASSUME NEW h \in Handlers,
                SkipDisabled(h) \/ MarkInFlight(h) \/ FinaliseSuccess(h)
                  \/ FinaliseRetry(h) \/ FinaliseFailure(h) \/ PublishDeadLetter(h)
         PROVE  queue' = queue /\ parked' = parked
    BY <1>11 DEF SkipDisabled, MarkInFlight, FinaliseSuccess, FinaliseRetry,
                 FinaliseFailure, PublishDeadLetter, Throws, broker
  <1> QED
    BY <1>3, <1>4, <1>6, <1>7, <1>8, <1>9, <1>10, <1>11
       DEF Next, RequestStep, HandlerStep, SweeperStep, Quiet, vars, broker,
           PublishEvent, Replay, CommitRows, CommitRejected, Respond, PublishFails,
           Consume, Ack, FindDelivery, TakeToken, Send, DisableAtThreshold,
           AnnounceDisable, HandlerError, ReadStuck, Claim, Release, SweeperCrash,
           EnableEndpoint, DisableEndpoint, RemoveEndpoint, Age, SelectStale,
           DeleteStale

\* The rows a sweeper holds name recorded attempts.
LEMMA SweeperStepInv ==
    ASSUME TypeOK, AuditInv, [Next]_vars PROVE SweeperInv'
  <1> SUFFICES ASSUME NEW s \in Sweepers,
                      NEW t \in sweeper'[s].todo \cup sweeper'[s].cur
               PROVE  Continues(t.id, t.attemptCount + 1)'
    BY DEF SweeperInv
  <1>1. t.id \in Deliveries /\ t.attemptCount \in Nat
    BY TypeStep DEF TypeOK, SweeperState, StuckRow
  <1> SUFFICES Continues(t.id, t.attemptCount + 1)
    BY <1>1, ContinuesStable
  <1>2. CASE t \in sweeper[s].todo \cup sweeper[s].cur
    BY <1>2 DEF AuditInv, SweeperInv
  <1>3. ASSUME NEW c \in Sweepers, ReadStuck(c) PROVE Continues(t.id, t.attemptCount + 1)
    <2>1. CASE c # s
      BY <1>2, <1>3, <2>1 DEF ReadStuck, TypeOK
    <2>2. CASE c = s
      <3>1. PICK batch \in SUBSET Stuck :
               sweeper' = [sweeper EXCEPT ![s] =
                  [pc |-> "claim", cur |-> {},
                   todo |-> {[id |-> d, attemptCount |-> delivery[d].attemptCount] :
                                d \in batch}]]
        BY <1>3, <2>2 DEF ReadStuck
      <3>2. sweeper'[s].cur = {} /\ sweeper'[s].todo =
                {[id |-> d, attemptCount |-> delivery[d].attemptCount] : d \in batch}
        BY <3>1 DEF TypeOK
      <3>3. PICK d \in batch :
               t = [id |-> d, attemptCount |-> delivery[d].attemptCount]
        BY <3>2
      <3>4. t.id = d /\ t.attemptCount = delivery[d].attemptCount /\ d \in Deliveries
        BY <3>3 DEF Stuck
      <3>5. Purged(d) \/ NoGaps(d)
        BY <3>4 DEF AuditInv, TrailInv
      <3>6. delivery[d].attemptCount \in Nat
        BY <3>4 DEF TypeOK, DeliveryRow
      <3> QED
        BY <3>4, <3>5, <3>6 DEF Continues, NoGaps
    <2> QED
      BY <2>1, <2>2
  <1>4. ASSUME NEW c \in Sweepers, Claim(c) PROVE Continues(t.id, t.attemptCount + 1)
    <2>1. PICK u \in sweeper[c].todo : Walk(c, u, "publish", {u}) \/ Walk(c, u, "claim", {})
      BY <1>4 DEF Claim
    <2>2. t \in sweeper[s].todo \cup sweeper[s].cur
      BY <2>1 DEF Walk, TypeOK
    <2> QED
      BY <1>2, <2>2
  <1>5. ASSUME NEW c \in Sweepers,
               Recover(c) \/ RecoverFails(c) \/ Release(c) \/ SweeperCrash(c)
        PROVE  Continues(t.id, t.attemptCount + 1)
    <2>1. CASE Recover(c)
      <3>1. /\ AfterPublish(c).todo \subseteq sweeper[c].todo
            /\ AfterPublish(c).cur = {}
        BY DEF AfterPublish, IdleSweeper, TypeOK, SweeperState
      <3>2. t \in sweeper[s].todo \cup sweeper[s].cur
        BY <2>1, <3>1 DEF Recover, TypeOK
      <3> QED
        BY <1>2, <3>2
    <2>2. CASE RecoverFails(c)
      <3>1. t \in sweeper[s].todo \cup sweeper[s].cur
        BY <2>2 DEF RecoverFails, TypeOK, SweeperState
      <3> QED
        BY <1>2, <3>1
    <2>3. CASE Release(c) \/ SweeperCrash(c)
      <3>1. t \in sweeper[s].todo \cup sweeper[s].cur
        BY <2>3 DEF Release, SweeperCrash, IdleSweeper, TypeOK
      <3> QED
        BY <1>2, <3>1
    <2> QED
      BY <1>5, <2>1, <2>2, <2>3
  <1>6. CASE UNCHANGED sweeper
    BY <1>2, <1>6
  <1> QED
    BY <1>3, <1>4, <1>5, <1>6
       DEF Next, RequestStep, HandlerStep, SweeperStep, Quiet, vars, bystanders,
           elsewhere, processes, PublishEvent, Replay, CommitRows, CommitRejected,
           PublishRow, Respond, PublishFails, Consume, Ack, Catch, FindDelivery,
           SkipDisabled, TakeToken, PublishThrottle, MarkInFlight, Send,
           FinaliseSuccess, FinaliseRetry, PublishRetry, FinaliseFailure,
           DisableAtThreshold, PublishDeadLetter, AnnounceDisable, HandlerError,
           WorkerCrash, ConnectionLoss, EnableEndpoint, DisableEndpoint,
           RemoveEndpoint, Age, SelectStale, DeleteStale, Expire

\* What a handler holds continues the trail, and its answer justifies the
\* transaction it is about to run.
LEMMA HandlerStepInv ==
    ASSUME TypeOK, AuditInv, [Next]_vars PROVE HandlerInv'
  <1> DEFINE Fine(h) ==
        Busy(h) =>
          /\ Continues(DeliveryOf(h), AttemptOf(h))
          /\ At(h, "publish_retry") => Continues(DeliveryOf(h), AttemptOf(h) + 1)
          /\ At(h, "commit_success") => handler[h].result = "SUCCESS"
          /\ At(h, "commit_failure") =>
                \/ handler[h].result = PERMANENT
                \/ handler[h].result = RETRYABLE /\ AttemptOf(h) >= MAX_ATTEMPTS
  <1> SUFFICES ASSUME NEW h \in Handlers PROVE Fine(h)'
    BY DEF HandlerInv
  <1>1. Fine(h)
    BY DEF AuditInv, HandlerInv
  <1>2. CASE handler'[h].pc = "idle"
    BY <1>2 DEF Busy
  \* The handler kept its message and its answer, and did not move to a program
  \* point of which the invariant says more.
  <1>3. CASE /\ Busy(h)
             /\ handler'[h].msg = handler[h].msg /\ handler'[h].result = handler[h].result
             /\ \/ handler'[h].pc = handler[h].pc
                \/ handler'[h].pc \notin {"publish_retry", "commit_success", "commit_failure"}
    <2>1. /\ DeliveryOf(h) \in Deliveries /\ AttemptOf(h) \in Nat \ {0}
          /\ DeliveryOf(h)' = DeliveryOf(h) /\ AttemptOf(h)' = AttemptOf(h)
      BY <1>3, BusyHandler DEF DeliveryOf, AttemptOf
    <2>2. PICK d \in Deliveries, n \in Nat \ {0} : d = DeliveryOf(h) /\ n = AttemptOf(h)
      BY <2>1
    <2>3. Continues(d, n)'
      BY <1>1, <1>3, <2>2, ContinuesStable
    <2>4. At(h, "publish_retry")' => Continues(d, n + 1)'
      BY <1>1, <1>3, <2>2, ContinuesStable DEF At
    <2> QED
      BY <1>1, <1>3, <2>1, <2>2, <2>3, <2>4 DEF Continues, Purged, Recorded, At
  <1>4. CASE handler'[h] = handler[h]
    BY <1>2, <1>3, <1>4 DEF Busy
  <1>5. ASSUME NEW c \in Handlers, Consume(c) PROVE Fine(h)'
    <2>1. CASE c # h
      BY <1>4, <1>5, <2>1 DEF Consume, TypeOK
    <2>2. CASE c = h
      <3>1. PICK m \in queue : handler'[h] = [IdleHandler EXCEPT !.pc = "find", !.msg = m]
        BY <1>5, <2>2 DEF Consume, TypeOK
      <3>2. handler'[h].pc = "find" /\ handler'[h].msg = m
        BY <3>1 DEF IdleHandler
      <3>3. m.deliveryId \in Deliveries /\ m.attempt \in Nat \ {0}
        BY <3>1 DEF TypeOK, Message
      <3>4. Continues(m.deliveryId, m.attempt)
        BY <3>1 DEF AuditInv, QueueInv
      <3>5. Continues(m.deliveryId, m.attempt)'
        BY <3>3, <3>4, ContinuesStable
      <3> QED
        BY <3>2, <3>5 DEF Continues, Purged, Recorded, At, DeliveryOf, AttemptOf
    <2> QED
      BY <2>1, <2>2
  <1>6. ASSUME NEW c \in Handlers,
               handler' = [handler EXCEPT ![c] = IdleHandler]
        PROVE  Fine(h)'
    BY <1>2, <1>4, <1>6 DEF IdleHandler, TypeOK
  <1>7. ASSUME NEW c \in Handlers, Busy(c),
               NEW pc \in HandlerPc \ {"publish_retry", "commit_success", "commit_failure"},
               Goto(c, pc)
        PROVE  Fine(h)'
    <2>1. CASE c # h
      BY <1>4, <1>7, <2>1 DEF Goto, TypeOK
    <2>2. CASE c = h
      BY <1>3, <1>7, <2>2 DEF Goto, TypeOK, HandlerState
    <2> QED
      BY <2>1, <2>2
  <1>8. ASSUME NEW c \in Handlers, NEW result \in {"SUCCESS"} \cup FAILURE, Send(c, result)
        PROVE  Fine(h)'
    <2>1. CASE c # h
      BY <1>4, <1>8, <2>1 DEF Send, TypeOK
    <2>2. CASE c = h
      <3>1. Busy(h)
        BY <1>8, <2>2 DEF Send, At, Busy
      <3>2. /\ handler'[h].msg = handler[h].msg /\ handler'[h].result = result
            /\ handler'[h].pc = IF result = "SUCCESS" THEN "commit_success"
                    ELSE IF nextRetryLevel(result, AttemptOf(h), Undefined) = NoLevel
                         THEN "commit_failure" ELSE "commit_retry"
        BY <1>8, <2>2 DEF Send, TypeOK, HandlerState
      <3>3. /\ DeliveryOf(h) \in Deliveries /\ AttemptOf(h) \in Nat \ {0}
            /\ DeliveryOf(h)' = DeliveryOf(h) /\ AttemptOf(h)' = AttemptOf(h)
        BY <3>1, <3>2, BusyHandler DEF DeliveryOf, AttemptOf
      <3>4. PICK d \in Deliveries, n \in Nat \ {0} : d = DeliveryOf(h) /\ n = AttemptOf(h)
        BY <3>3
      <3>5. Continues(d, n)'
        BY <1>1, <3>1, <3>4, ContinuesStable
      <3>6. At(h, "commit_failure")' =>
               \/ result = PERMANENT
               \/ result = RETRYABLE /\ n >= MAX_ATTEMPTS
        BY <3>2, <3>4, LadderEnd DEF At, FAILURE, RETRYABLE, PERMANENT
      <3>7. At(h, "commit_success")' => result = "SUCCESS"
        BY <3>2 DEF At
      <3>8. ~At(h, "publish_retry")'
        BY <3>2 DEF At
      <3> QED
        BY <3>2, <3>3, <3>4, <3>5, <3>6, <3>7, <3>8 DEF Continues, Purged, Recorded
    <2> QED
      BY <2>1, <2>2
  <1>9. ASSUME NEW c \in Handlers, FinaliseRetry(c) PROVE Fine(h)'
    <2>1. Busy(c)
      BY <1>9 DEF FinaliseRetry, At, Busy
    <2>2. CASE Throws(c)
      BY <1>7, <2>1, <2>2 DEF Throws, HandlerPc
    <2>3. CASE ~Throws(c)
      <3>1. Goto(c, "publish_retry") /\ attempts' =
               [attempts EXCEPT ![DeliveryOf(c)] = @ \cup {attemptRow(c)}]
        BY <1>9, <2>3 DEF FinaliseRetry, CommitAttempt
      <3>2. CASE c # h
        BY <1>4, <3>1, <3>2 DEF Goto, TypeOK
      <3>3. CASE c = h
        <4>1. PICK d \in Deliveries, n \in Nat \ {0} : d = DeliveryOf(h) /\ n = AttemptOf(h)
          BY <2>1, <3>3, BusyHandler
        <4>2. /\ DeliveryOf(h)' = d /\ AttemptOf(h)' = n
              /\ handler'[h].pc = "publish_retry"
          BY <3>1, <3>3, <4>1 DEF Goto, DeliveryOf, AttemptOf, TypeOK, HandlerState
        <4>3. attemptRow(c) \in attempts'[d] /\ attemptRow(c).number = n
          BY <3>1, <3>3, <4>1 DEF attemptRow, TypeOK
        <4>4. Recorded(d, n)'
          BY <4>3 DEF Recorded
        <4>5. Continues(d, n + 1)'
          BY <4>4 DEF Continues
        <4>6. Continues(d, n)'
          BY <1>1, <2>1, <3>3, <4>1, ContinuesStable
        <4> QED
          BY <4>2, <4>5, <4>6 DEF Continues, Purged, Recorded, At
      <3> QED
        BY <3>2, <3>3
    <2> QED
      BY <2>2, <2>3
  <1>10. ASSUME NEW c \in Handlers, DisableAtThreshold(c) \/ ConnectionLoss(c)
         PROVE  Fine(h)'
    <2>1. CASE c # h
      BY <1>4, <1>10, <2>1 DEF DisableAtThreshold, ConnectionLoss, TypeOK
    <2>2. CASE c = h /\ DisableAtThreshold(h)
      BY <1>3, <2>2 DEF DisableAtThreshold, At, Busy, TypeOK, HandlerState
    <2>3. CASE c = h /\ ConnectionLoss(h)
      BY <1>3, <2>3 DEF ConnectionLoss, TypeOK, HandlerState
    <2> QED
      BY <1>10, <2>1, <2>2, <2>3
  <1>11. ASSUME NEW c \in Handlers, Ack(c) \/ Catch(c) \/ WorkerCrash(c) PROVE Fine(h)'
    BY <1>6, <1>11 DEF Ack, Catch, WorkerCrash
  <1>12. ASSUME NEW c \in Handlers,
                FindDelivery(c) \/ SkipDisabled(c) \/ PublishThrottle(c)
                  \/ MarkInFlight(c) \/ (\E allowed \in BOOLEAN : TakeToken(c, allowed))
         PROVE  Fine(h)'
    BY <1>7, <1>12 DEF FindDelivery, SkipDisabled, PublishThrottle, MarkInFlight,
                       TakeToken, Throws, At, Busy, HandlerPc
  <1>13. ASSUME NEW c \in Handlers,
                FinaliseSuccess(c) \/ FinaliseFailure(c) \/ PublishRetry(c)
                  \/ PublishDeadLetter(c) \/ AnnounceDisable(c) \/ HandlerError(c)
         PROVE  Fine(h)'
    BY <1>7, <1>13 DEF FinaliseSuccess, FinaliseFailure, PublishRetry, PublishDeadLetter,
                       AnnounceDisable, HandlerError, Awaiting, Throws, At, Busy, HandlerPc
  <1>14. CASE UNCHANGED handler
    BY <1>4, <1>14
  <1> QED
    BY <1>5, <1>8, <1>9, <1>10, <1>11, <1>12, <1>13, <1>14
       DEF Next, RequestStep, HandlerStep, SweeperStep, Quiet, vars, bystanders, others,
           processes, PublishEvent, Replay, CommitRows, CommitRejected, PublishRow,
           Respond, PublishFails, ReadStuck, Claim, Recover, RecoverFails, Release,
           SweeperCrash, EnableEndpoint, DisableEndpoint, RemoveEndpoint, Age,
           SelectStale, DeleteStale, Expire

\* The trail of a delivery has no gap and justifies its status, after every step
\* that touches its rows.
LEMMA TrailStep ==
    ASSUME TypeOK, AuditInv, [Next]_vars PROVE TrailInv'
  <1> DEFINE Sound(d) == Purged(d) \/ (NoGaps(d) /\ OutcomeJustified(d))
  <1> SUFFICES ASSUME NEW d \in Deliveries PROVE Sound(d)'
    BY DEF TrailInv
  <1>1. Sound(d)
    BY DEF AuditInv, TrailInv
  <1> HIDE DEF Sound
  \* The trail is the same and the status is the same, or not a final one that
  \* needs a justification.
  <1>2. CASE /\ attempts'[d] = attempts[d]
             /\ delivery'[d].attemptCount \in {delivery[d].attemptCount, 0}
             /\ \/ delivery'[d].status = delivery[d].status
                \/ /\ delivery[d].status # "DELETED"
                   /\ delivery'[d].status \notin {"SUCCEEDED", "FAILED_PERMANENTLY"}
    BY <1>1, <1>2 DEF Sound, Purged, NoGaps, OutcomeJustified, Recorded
  <1>3. CASE UNCHANGED <<delivery, attempts>>
    BY <1>2, <1>3
  <1>4. ASSUME NEW c \in Deliveries, NEW status \in OPEN_STATUSES \cup {"SKIPPED"},
               SetStatus(c, status), Exists(c), UNCHANGED attempts
        PROVE  Sound(d)'
    BY <1>2, <1>4 DEF SetStatus, Exists, NOT_FOUND, TypeOK, DeliveryRow, OPEN_STATUSES
  <1>5. ASSUME NEW h \in Handlers, SkipDisabled(h) \/ MarkInFlight(h) PROVE Sound(d)'
    <2>1. DeliveryOf(h) \in Deliveries
      BY <1>5, BusyHandler DEF SkipDisabled, MarkInFlight, At, Busy
    <2> QED
      BY <1>3, <1>4, <1>5, <2>1
         DEF SkipDisabled, MarkInFlight, Throws, tables, OPEN_STATUSES
  \* A transaction of a handler: the new row is recorded, follows a recorded one
  \* and is the one the count names.
  <1>6. ASSUME NEW h \in Handlers, Busy(h), NEW row \in DeliveryRow,
               CommitAttempt(h, row), Exists(DeliveryOf(h)),
               row.attemptCount = AttemptOf(h),
               \/ row.status \notin {"SUCCEEDED", "FAILED_PERMANENTLY"}
               \/ row.status = "SUCCEEDED" /\ handler[h].result = "SUCCESS"
               \/ /\ row.status = "FAILED_PERMANENTLY"
                  /\ \/ handler[h].result = PERMANENT
                     \/ handler[h].result = RETRYABLE /\ AttemptOf(h) >= MAX_ATTEMPTS
        PROVE  Sound(d)'
    <2>1. CASE DeliveryOf(h) # d
      BY <1>2, <1>6, <2>1 DEF CommitAttempt, TypeOK
    <2>2. CASE DeliveryOf(h) = d
      <3> DEFINE new == attemptRow(h)
      <3>1. /\ attempts'[d] = attempts[d] \cup {new} /\ delivery'[d] = row
            /\ new.number = AttemptOf(h) /\ new.result = handler[h].result
        BY <1>6, <2>2 DEF CommitAttempt, attemptRow, TypeOK
      <3>2. AttemptOf(h) \in Nat \ {0}
        BY <1>6, BusyHandler
      <3>3. ~Purged(d)
        BY <1>6, <2>2 DEF Exists, NOT_FOUND, Purged
      <3>4. AttemptOf(h) = 1 \/ Recorded(d, AttemptOf(h) - 1)
        BY <1>6, <2>2, <3>3 DEF AuditInv, HandlerInv, Continues
      <3>5. NoGaps(d)
        BY <1>1, <3>3 DEF Sound
      <3> HIDE DEF new
      <3>6. NoGaps(d)'
        <4>1. ASSUME NEW a \in attempts'[d] PROVE a.number = 1 \/ Recorded(d, a.number - 1)'
          BY <3>1, <3>4, <3>5 DEF NoGaps, Recorded
        <4>2. \E a \in attempts'[d] : a.number = delivery'[d].attemptCount
          BY <1>6, <3>1
        <4> QED
          BY <4>1, <4>2 DEF NoGaps, Recorded
      <3>7. OutcomeJustified(d)'
        BY <1>6, <3>1 DEF OutcomeJustified
      <3> QED
        BY <3>6, <3>7 DEF Sound
    <2> QED
      BY <2>1, <2>2
  <1>7. ASSUME NEW h \in Handlers, FinaliseSuccess(h) PROVE Sound(d)'
    <2>1. Busy(h) /\ handler[h].result = "SUCCESS"
      BY <1>7 DEF FinaliseSuccess, At, Busy, AuditInv, HandlerInv
    <2> DEFINE row == [delivery[DeliveryOf(h)] EXCEPT
                          !.status = "SUCCEEDED", !.attemptCount = AttemptOf(h)]
    <2>2. /\ row \in DeliveryRow /\ row.status = "SUCCEEDED"
          /\ row.attemptCount = AttemptOf(h)
      BY <2>1, BusyHandler DEF TypeOK, DeliveryRow, DELIVERY_STATUS, TERMINAL_STATUSES
    <2>3. Throws(h) \/ (Exists(DeliveryOf(h)) /\ CommitAttempt(h, row))
      BY <1>7 DEF FinaliseSuccess
    <2> HIDE DEF row
    <2> QED
      BY <1>3, <1>6, <2>1, <2>2, <2>3 DEF Throws, tables
  <1>8. ASSUME NEW h \in Handlers, FinaliseRetry(h) PROVE Sound(d)'
    <2>1. Busy(h)
      BY <1>8 DEF FinaliseRetry, At, Busy
    <2> DEFINE row == [delivery[DeliveryOf(h)] EXCEPT !.status = "RETRYING",
                          !.attemptCount = AttemptOf(h), !.overdue = FALSE]
    <2>2. /\ row \in DeliveryRow /\ row.status = "RETRYING"
          /\ row.attemptCount = AttemptOf(h)
      BY <2>1, BusyHandler DEF TypeOK, DeliveryRow, DELIVERY_STATUS, OPEN_STATUSES
    <2>3. Throws(h) \/ (Exists(DeliveryOf(h)) /\ CommitAttempt(h, row))
      BY <1>8 DEF FinaliseRetry
    <2> HIDE DEF row
    <2> QED
      BY <1>3, <1>6, <2>1, <2>2, <2>3 DEF Throws, tables
  <1>9. ASSUME NEW h \in Handlers, FinaliseFailure(h) PROVE Sound(d)'
    <2>1. /\ Busy(h)
          /\ \/ handler[h].result = PERMANENT
             \/ handler[h].result = RETRYABLE /\ AttemptOf(h) >= MAX_ATTEMPTS
      BY <1>9 DEF FinaliseFailure, At, Busy, AuditInv, HandlerInv
    <2> DEFINE row == [delivery[DeliveryOf(h)] EXCEPT
                          !.status = "FAILED_PERMANENTLY", !.attemptCount = AttemptOf(h)]
    <2>2. /\ row \in DeliveryRow /\ row.status = "FAILED_PERMANENTLY"
          /\ row.attemptCount = AttemptOf(h)
      BY <2>1, BusyHandler DEF TypeOK, DeliveryRow, DELIVERY_STATUS, TERMINAL_STATUSES
    <2>3. Throws(h) \/ (Exists(DeliveryOf(h)) /\ CommitAttempt(h, row))
      BY <1>9 DEF FinaliseFailure
    <2> HIDE DEF row
    <2> QED
      BY <1>3, <1>6, <2>1, <2>2, <2>3 DEF Throws, tables
  <1>10. ASSUME NEW r \in Requests, CommitRows(r) PROVE Sound(d)'
    <2> DEFINE plan == request[r].plan
    <2>1. PICK id \in [plan -> FreshDeliveries] :
             delivery' = [c \in Deliveries |->
                IF \E row \in plan : id[row] = c
                THEN Inserted(CHOOSE row \in plan : id[row] = c)
                ELSE delivery[c]]
      BY <1>10 DEF CommitRows
    <2>2. attempts' = attempts
      BY <1>10 DEF CommitRows
    <2>3. CASE \E row \in plan : id[row] = d
      <3>1. PICK row \in plan : delivery'[d] = Inserted(row)
        BY <2>1, <2>3
      <3>2. row.status \in {"PENDING", "SKIPPED"}
        BY <3>1 DEF TypeOK, RequestState, NewRow
      <3>3. delivery[d].status = "ABSENT"
        BY <2>1, <2>3 DEF FreshDeliveries
      <3> QED
        BY <1>2, <2>2, <3>1, <3>2, <3>3 DEF Inserted
    <2>4. CASE ~\E row \in plan : id[row] = d
      BY <1>2, <2>1, <2>2, <2>4
    <2> QED
      BY <2>3, <2>4
  <1>11. ASSUME NEW s \in Sweepers, Claim(s) \/ Release(s) PROVE Sound(d)'
    <2>1. \A t \in sweeper[s].todo \cup sweeper[s].cur : t.id \in Deliveries
      BY DEF TypeOK, SweeperState, StuckRow
    <2>2. ASSUME NEW t \in sweeper[s].todo, ClaimMatches(t.id),
                 SetStatus(t.id, "RETRYING"), UNCHANGED attempts
          PROVE  Sound(d)'
      BY <1>4, <2>1, <2>2 DEF ClaimMatches, Exists, NOT_FOUND, OPEN_STATUSES
    <2>3. ASSUME NEW t \in sweeper[s].cur, delivery[t.id].status = "RETRYING",
                 SetStatus(t.id, "IN_FLIGHT"), UNCHANGED attempts
          PROVE  Sound(d)'
      BY <1>4, <2>1, <2>3 DEF Exists, NOT_FOUND, OPEN_STATUSES
    <2> QED
      BY <1>3, <1>11, <2>2, <2>3 DEF Claim, Release
  <1>12. ASSUME NEW c \in Deliveries, Age(c) PROVE Sound(d)'
    BY <1>2, <1>12 DEF Age, TypeOK, DeliveryRow
  <1>13. CASE DeleteStale
    <2>1. CASE delivery'[d].status = "DELETED"
      BY <2>1 DEF Sound, Purged
    <2>2. CASE delivery'[d].status # "DELETED"
      BY <1>2, <1>13, <2>2 DEF DeleteStale, TypeOK, DeliveryRow
    <2> QED
      BY <2>1, <2>2
  <1> QED
    BY <1>3, <1>5, <1>7, <1>8, <1>9, <1>10, <1>11, <1>12, <1>13
       DEF Next, RequestStep, HandlerStep, SweeperStep, Quiet, vars, tables,
           PublishEvent, Replay, CommitRejected, PublishRow, Respond, PublishFails,
           Consume, Ack, Catch, FindDelivery, TakeToken, PublishThrottle, Send,
           PublishRetry, DisableAtThreshold, PublishDeadLetter, AnnounceDisable,
           HandlerError, WorkerCrash, ConnectionLoss, Throws, ReadStuck, Recover,
           RecoverFails, SweeperCrash, EnableEndpoint, DisableEndpoint,
           RemoveEndpoint, SelectStale, Expire

\* AuditInv is inductive.
THEOREM AuditInvariant == Spec => []AuditInv
  <1>1. Init => AuditInv
    BY DEF Init, AuditInv, TrailInv, QueueInv, HandlerInv, SweeperInv, NoGaps,
           OutcomeJustified, Recorded, NewDelivery, IdleHandler, IdleSweeper, Busy
  <1>2. TypeOK /\ AuditInv /\ [Next]_vars => AuditInv'
    BY TrailStep, QueueStep, HandlerStepInv, SweeperStepInv DEF AuditInv
  <1> QED
    BY <1>1, <1>2, TypeCorrect, PTL DEF Spec

\* Whatever fails, the attempts of a delivery that retention has not removed are
\* numbered without a gap and justify its final status.
THEOREM AuditTrailHolds == Spec => []AuditTrail
  <1>1. AuditInv => AuditTrail
    BY DEF AuditInv, TrailInv, AuditTrail, Exists, NOT_FOUND, Purged
  <1> QED
    BY <1>1, AuditInvariant, PTL

-----------------------------------------------------------------------------
(***************************************************************************)
(* No delivery is lost while no handler's await rejects, no channel closes  *)
(* under a handler and every call of the API publishes what it committed.   *)
(* Workers and the sweeper may die at any step, messages may wait for ever, *)
(* and the sweeper's publishes may be refused.                              *)
(***************************************************************************)

\* The failures after which nothing may be left that carries a delivery: a
\* handler that gives up its message or loses its channel, and an API call that
\* stops between its commit and its publishes.
Lossy == {"handler_error", "connection_loss", "api_failure"}

\* The handler holds a message of the delivery and has not settled it.
Holds(h, d) ==
    /\ DeliveryOf(h) = d
    /\ Responsible(h) \/ (At(h, "catch") /\ ~GivesUp(h))

\* The delivery is pursued by something else than the stuck sweeper.
Kept(d) ==
    \/ \E m \in queue \cup parked : m.deliveryId = d
    \/ \E h \in Handlers : Holds(h, d)
    \/ \E r \in Requests : d \in request[r].todo

(***************************************************************************)
(* NoLostDelivery is not inductive: an IN_FLIGHT row is pursued, but not     *)
(* once a sweeper has claimed it and died.  What is inductive is stronger:   *)
(* with these failures an open delivery never depends on the sweeper.  It    *)
(* rests on handlers keeping their channel, and on calls having nothing to   *)
(* publish but what they have just committed.                                *)
(***************************************************************************)
ConnectedInv == \A h \in Handlers : handler[h].connected
CallInv == \A r \in Requests : request[r].pc # "publish" => request[r].todo = {}
KeptInv == \A d \in Deliveries : Open(d) => Kept(d)
PursuitInv == ConnectedInv /\ CallInv /\ KeptInv

\* Without connection losses every handler keeps its channel.
LEMMA ConnectedStep ==
    ASSUME TypeOK, ConnectedInv, [Next]_vars, "connection_loss" \notin Environment
    PROVE  ConnectedInv'
  <1> SUFFICES ASSUME NEW h \in Handlers PROVE handler'[h].connected
    BY DEF ConnectedInv
  <1> USE DEF ConnectedInv
  <1>1. CASE handler'[h] = handler[h]
    BY <1>1
  <1>2. ASSUME NEW c \in Handlers, NEW pc, Goto(c, pc) PROVE handler'[h].connected
    BY <1>2 DEF Goto, TypeOK, HandlerState
  <1>3. ASSUME NEW c \in Handlers,
               Consume(c) \/ Ack(c) \/ Catch(c) \/ WorkerCrash(c)
        PROVE  handler'[h].connected
    <2>1. IdleHandler.connected
      BY DEF IdleHandler
    <2>2. \A m : [IdleHandler EXCEPT !.pc = "find", !.msg = m].connected
      BY DEF IdleHandler
    <2>3. CASE h = c
      <3>1. CASE Consume(c)
        <4>1. PICK m \in queue : handler'[c] = [IdleHandler EXCEPT !.pc = "find", !.msg = m]
          BY <3>1 DEF Consume, TypeOK
        <4> QED
          BY <2>2, <2>3, <4>1
      <3>2. CASE Ack(c) \/ Catch(c) \/ WorkerCrash(c)
        <4>1. handler'[c] = IdleHandler
          BY <3>2 DEF Ack, Catch, WorkerCrash, TypeOK
        <4> QED
          BY <2>1, <2>3, <4>1
      <3> QED
        BY <1>3, <3>1, <3>2
    <2>4. CASE h # c
      BY <1>1, <1>3, <2>4 DEF Consume, Ack, Catch, WorkerCrash, TypeOK
    <2> QED
      BY <2>3, <2>4
  <1>4. ASSUME NEW c \in Handlers,
               \/ DisableAtThreshold(c)
               \/ \E result \in {"SUCCESS"} \cup FAILURE : Send(c, result)
        PROVE  handler'[h].connected
    <2>1. ASSUME NEW result, Send(c, result)
          PROVE  handler'[h].connected = handler[h].connected
      BY <2>1 DEF Send, TypeOK, HandlerState
    <2>2. ASSUME DisableAtThreshold(c)
          PROVE  handler'[h].connected = handler[h].connected
      BY <2>2 DEF DisableAtThreshold, TypeOK, HandlerState
    <2> QED
      BY <1>4, <2>1, <2>2
  <1>5. ASSUME NEW c \in Handlers, ConnectionLoss(c) PROVE FALSE
    BY <1>5 DEF ConnectionLoss, Occurs
  <1>6. CASE UNCHANGED handler
    BY <1>1, <1>6
  <1>7. ASSUME NEW c \in Handlers,
               \/ FindDelivery(c) \/ SkipDisabled(c) \/ PublishThrottle(c)
               \/ MarkInFlight(c) \/ FinaliseSuccess(c) \/ FinaliseRetry(c)
               \/ PublishRetry(c) \/ FinaliseFailure(c) \/ PublishDeadLetter(c)
               \/ AnnounceDisable(c) \/ HandlerError(c)
               \/ \E allowed \in BOOLEAN : TakeToken(c, allowed)
        PROVE  \E pc : Goto(c, pc)
    BY <1>7 DEF FindDelivery, SkipDisabled, PublishThrottle, MarkInFlight,
                FinaliseSuccess, FinaliseRetry, PublishRetry, FinaliseFailure,
                PublishDeadLetter, AnnounceDisable, HandlerError, TakeToken, Throws
  <1> QED
    BY <1>2, <1>3, <1>4, <1>5, <1>6, <1>7
       DEF Next, RequestStep, HandlerStep, SweeperStep, Quiet, vars, bystanders, others,
           processes, PublishEvent, Replay, CommitRows, CommitRejected, PublishRow,
           Respond, PublishFails, ReadStuck, Claim, Recover, RecoverFails, Release,
           SweeperCrash, EnableEndpoint, DisableEndpoint, RemoveEndpoint, Age,
           SelectStale, DeleteStale, Expire

\* A call has something to publish only between its commit and its answer.
LEMMA CallStep ==
    ASSUME TypeOK, CallInv, [Next]_vars PROVE CallInv'
  <1> SUFFICES ASSUME NEW r \in Requests
               PROVE  request'[r].pc # "publish" => request'[r].todo = {}
    BY DEF CallInv
  <1>1. CASE UNCHANGED request
    BY <1>1 DEF CallInv
  <1>2. ASSUME NEW c \in Requests, PublishEvent(c) \/ Replay(c)
        PROVE  request'[r].pc # "publish" => request'[r].todo = {}
    BY <1>2 DEF PublishEvent, Replay, Plans, CallInv, TypeOK
  <1>3. ASSUME NEW c \in Requests, CommitRows(c)
        PROVE  request'[r].pc # "publish" => request'[r].todo = {}
    BY <1>3 DEF CommitRows, CallInv, TypeOK, RequestState
  <1>4. ASSUME NEW c \in Requests, CommitRejected(c) \/ Respond(c) \/ PublishFails(c)
        PROVE  request'[r].pc # "publish" => request'[r].todo = {}
    BY <1>4 DEF CommitRejected, Respond, PublishFails, IdleRequest, CallInv, TypeOK
  <1>5. ASSUME NEW c \in Requests, PublishRow(c)
        PROVE  request'[r].pc # "publish" => request'[r].todo = {}
    BY <1>5 DEF PublishRow, CallInv, TypeOK, RequestState
  <1> QED
    BY <1>1, <1>2, <1>3, <1>4, <1>5
       DEF Next, RequestStep, HandlerStep, SweeperStep, Quiet, vars, others,
           elsewhere, processes, Consume, Ack, Catch, FindDelivery,
           SkipDisabled, TakeToken, PublishThrottle, MarkInFlight, Send,
           FinaliseSuccess, FinaliseRetry, PublishRetry, FinaliseFailure,
           DisableAtThreshold, PublishDeadLetter, AnnounceDisable, HandlerError,
           WorkerCrash, ConnectionLoss, ReadStuck, Claim, Recover, RecoverFails,
           Release, SweeperCrash, EnableEndpoint, DisableEndpoint,
           RemoveEndpoint, Age, SelectStale, DeleteStale, Expire

-----------------------------------------------------------------------------
(* Who keeps a delivery. *)

\* Each of the witnesses is enough.
LEMMA Witnesses ==
    ASSUME NEW d
    PROVE  /\ \A m \in queue' \cup parked' : m.deliveryId = d => Kept(d)'
           /\ \A h \in Handlers : Holds(h, d)' => Kept(d)'
           /\ \A r \in Requests : d \in request'[r].todo => Kept(d)'
  BY DEF Kept

\* A step of one handler that drops no message of the delivery while the handler
\* does not hold one.
LEMMA HandlerPursuit ==
    ASSUME NEW d, NEW c \in Handlers, Kept(d), ~Holds(c, d),
           \A x \in Handlers : x # c => handler'[x] = handler[x],
           \A m \in queue \cup parked : m.deliveryId = d => m \in queue' \cup parked',
           UNCHANGED request
    PROVE  Kept(d)'
  <1>1. \A x \in Handlers : x # c => (Holds(x, d) <=> Holds(x, d)')
    BY DEF Holds, DeliveryOf, Responsible, At, GivesUp
  <1> QED
    BY <1>1, Witnesses DEF Kept

\* A step of the other processes that drops no message.
LEMMA BystanderPursuit ==
    ASSUME NEW d, Kept(d), UNCHANGED handler,
           queue \cup parked \subseteq queue' \cup parked',
           \A r \in Requests : d \in request[r].todo => Kept(d)'
    PROVE  Kept(d)'
  <1>1. \A x \in Handlers : Holds(x, d) <=> Holds(x, d)'
    BY DEF Holds, DeliveryOf, Responsible, At, GivesUp
  <1> QED
    BY <1>1, Witnesses DEF Kept

\* A busy handler that moves on with its message in hand still pursues it.
LEMMA MovesOn ==
    ASSUME TypeOK, NEW c \in Handlers, NEW pc, Goto(c, pc),
           pc \in {"find", "skip", "take", "throttle", "mark", "send",
                   "commit_success", "commit_retry", "publish_retry",
                   "commit_failure"}
    PROVE  Kept(DeliveryOf(c))'
  <1>1. handler'[c].pc = pc /\ handler'[c].msg = handler[c].msg
    BY DEF Goto, TypeOK, HandlerState
  <1>2. DeliveryOf(c)' = DeliveryOf(c) /\ Responsible(c)'
    BY <1>1 DEF DeliveryOf, Responsible
  <1> QED
    BY <1>2, Witnesses DEF Holds

-----------------------------------------------------------------------------
(* The steps. *)

\* A handler's step loses no delivery: it hands its message on, or the row is
\* settled.
LEMMA HandlerKeepsPursuit ==
    ASSUME TypeOK, ConnectedInv, KeptInv, Environment \cap Lossy = {},
           NEW c \in Handlers,
           Consume(c) \/ HandlerStep(c) \/ HandlerError(c) \/ WorkerCrash(c)
              \/ ConnectionLoss(c),
           NEW d \in Deliveries, Open(d)'
    PROVE  Kept(d)'
  <1> DEFINE mine == DeliveryOf(c)
  <1>1. /\ UNCHANGED <<sweeper, request>>
        /\ \A x \in Handlers : x # c => handler'[x] = handler[x]
    BY DEF HandlerStep, elsewhere, Consume, Ack, Catch, FindDelivery,
           SkipDisabled, TakeToken, PublishThrottle, MarkInFlight, Send,
           FinaliseSuccess, FinaliseRetry, PublishRetry, FinaliseFailure,
           DisableAtThreshold, PublishDeadLetter, AnnounceDisable, HandlerError,
           WorkerCrash, ConnectionLoss, Throws, Goto, TypeOK
  <1>2. handler[c].connected
    BY DEF ConnectedInv
  <1>3. ASSUME delivery'[d] = delivery[d],
               \A m \in queue \cup parked : m.deliveryId = d => m \in queue' \cup parked',
               ~Holds(c, d)
        PROVE  Kept(d)'
    <2>1. Kept(d)
      BY <1>3 DEF Open, KeptInv
    <2> QED
      BY <1>1, <1>3, <2>1, HandlerPursuit
  <1>4. ASSUME Throws(c) PROVE UNCHANGED delivery
    BY <1>4 DEF Throws, tables
  <1>5. CASE Consume(c)
    <2>1. PICK m \in queue :
             /\ queue' = queue \ {m}
             /\ handler' = [handler EXCEPT ![c] =
                               [IdleHandler EXCEPT !.pc = "find", !.msg = m]]
      BY <1>5 DEF Consume
    <2>2. CASE m.deliveryId = d
      <3>1. handler'[c].pc = "find" /\ handler'[c].msg = m
        BY <2>1 DEF IdleHandler, TypeOK
      <3> QED
        BY <2>2, <3>1, Witnesses DEF Holds, DeliveryOf, Responsible
    <2>3. CASE m.deliveryId # d
      <3>1. ~Holds(c, d)
        BY <1>5 DEF Consume, Holds, At, Responsible
      <3> QED
        BY <1>3, <1>5, <2>1, <2>3, <3>1 DEF Consume, tables
    <2> QED
      BY <2>2, <2>3
  <1>6. CASE Ack(c) \/ DisableAtThreshold(c) \/ AnnounceDisable(c)
    <2>1. ~Holds(c, d)
      BY <1>6 DEF Ack, DisableAtThreshold, AnnounceDisable, Holds, At, Responsible
    <2> QED
      BY <1>3, <1>6, <2>1 DEF Ack, DisableAtThreshold, AnnounceDisable, tables, broker
  <1>7. CASE PublishDeadLetter(c)
    <2>1. ~Holds(c, d)
      BY <1>7 DEF PublishDeadLetter, Holds, At, Responsible
    <2> QED
      BY <1>2, <1>3, <1>7, <2>1 DEF PublishDeadLetter, tables
  <1>8. CASE Catch(c) \/ WorkerCrash(c)
    <2>1. Busy(c) /\ UNCHANGED <<delivery, parked>>
      BY <1>8 DEF Catch, WorkerCrash, At, Busy, tables
    <2>2. CASE Requeue(handler[c].msg)
      <3>1. PICK n \in Message : n.deliveryId = mine /\ queue' = queue \cup {n}
        BY <2>1, <2>2, RequeueEffect, BusyHandler DEF DeliveryOf
      <3>2. CASE mine = d
        BY <3>1, <3>2, Witnesses
      <3>3. CASE mine # d
        BY <1>3, <2>1, <3>1, <3>3 DEF Holds
      <3> QED
        BY <3>2, <3>3
    <2>3. CASE UNCHANGED queue /\ Catch(c) /\ GivesUp(c)
      <3>1. ~Holds(c, d)
        BY <2>3 DEF Holds, Catch, At, Responsible
      <3> QED
        BY <1>3, <2>1, <2>3, <3>1
    <2> QED
      BY <1>2, <1>8, <2>2, <2>3 DEF Catch, WorkerCrash
  <1>9. ASSUME HandlerError(c) \/ ConnectionLoss(c) PROVE FALSE
    BY <1>9 DEF HandlerError, ConnectionLoss, Occurs, Lossy
  <1>10. ASSUME FindDelivery(c) \/ SkipDisabled(c) \/ PublishThrottle(c) \/ MarkInFlight(c)
                \/ FinaliseSuccess(c) \/ FinaliseRetry(c) \/ PublishRetry(c)
                \/ FinaliseFailure(c)
                \/ (\E allowed \in BOOLEAN : TakeToken(c, allowed))
                \/ (\E result \in {"SUCCESS"} \cup FAILURE : Send(c, result))
         PROVE  Kept(d)'
    <2>1. Busy(c)
      BY <1>10 DEF FindDelivery, SkipDisabled, PublishThrottle, MarkInFlight,
                   FinaliseSuccess, FinaliseRetry, PublishRetry, FinaliseFailure,
                   TakeToken, Send, At, Busy
    <2>2. mine \in Deliveries /\ AttemptOf(c) \in Nat \ {0}
      BY <2>1, BusyHandler
    <2>3. CASE PublishThrottle(c) \/ PublishRetry(c)
      <3>1. PICK n \in Nat \ {0} : publishParked(mine, n) /\ UNCHANGED delivery
        BY <1>2, <2>2, <2>3
           DEF PublishThrottle, PublishRetry, ThrottledAttempt, tables
      <3>2. PICK m \in Message : m.deliveryId = mine /\ parked' = parked \cup {m}
                                    /\ queue' = queue
        BY <2>2, <3>1, PublishParkedEffect
      <3>3. CASE mine = d
        BY <3>2, <3>3, Witnesses
      <3>4. CASE mine # d
        BY <1>3, <3>1, <3>2, <3>4 DEF Holds
      <3> QED
        BY <3>3, <3>4
    <2>4. CASE mine # d /\ ~(PublishThrottle(c) \/ PublishRetry(c))
      <3>1. delivery'[d] = delivery[d] /\ UNCHANGED <<queue, parked>>
        BY <1>10, <2>4
           DEF FindDelivery, SkipDisabled, MarkInFlight, FinaliseSuccess,
               FinaliseRetry, FinaliseFailure, TakeToken, Send, CommitAttempt,
               SetStatus, Throws, tables, broker, TypeOK
      <3> QED
        BY <1>3, <2>4, <3>1 DEF Holds
    <2>5. CASE mine = d /\ ~(PublishThrottle(c) \/ PublishRetry(c))
      <3>1. CASE FindDelivery(c)
        <4>1. ~(~Exists(d) \/ Terminal(d))
          BY <3>1 DEF FindDelivery, tables, Open, Exists, Terminal, OPEN_STATUSES,
                      TERMINAL_STATUSES, NOT_FOUND
        <4>2. Goto(c, "skip") \/ Goto(c, "take")
          BY <2>5, <3>1, <4>1 DEF FindDelivery
        <4>3. Kept(mine)' /\ DeliveryOf(c)' = mine
          BY <4>2, MovesOn DEF Goto, DeliveryOf, TypeOK, HandlerState
        <4> QED
          BY <2>5, <4>3
      <3>2. CASE SkipDisabled(c) \/ FinaliseSuccess(c) \/ FinaliseFailure(c)
        <4>1. Exists(d)
          BY <1>4, <2>5, <3>2 DEF SkipDisabled, FinaliseSuccess, FinaliseFailure,
                                  Open, Exists, OPEN_STATUSES, NOT_FOUND
        <4>2. CASE SkipDisabled(c)
          BY <2>2, <2>5, <4>1, <4>2
             DEF SkipDisabled, SetStatus, Open, OPEN_STATUSES, TypeOK, DeliveryRow
        <4>3. CASE FinaliseSuccess(c)
          <5>1. delivery' = [delivery EXCEPT ![d] = [delivery[d] EXCEPT
                               !.status = "SUCCEEDED", !.attemptCount = AttemptOf(c)]]
            BY <2>5, <4>1, <4>3 DEF FinaliseSuccess, CommitAttempt
          <5> QED
            BY <5>1 DEF Open, OPEN_STATUSES, TypeOK, DeliveryRow
        <4>4. CASE FinaliseFailure(c)
          <5>1. delivery' = [delivery EXCEPT ![d] = [delivery[d] EXCEPT
                               !.status = "FAILED_PERMANENTLY",
                               !.attemptCount = AttemptOf(c)]]
            BY <2>5, <4>1, <4>4 DEF FinaliseFailure, CommitAttempt
          <5> QED
            BY <5>1 DEF Open, OPEN_STATUSES, TypeOK, DeliveryRow
        <4> QED
          BY <3>2, <4>2, <4>3, <4>4
      <3>3. CASE MarkInFlight(c)
        <4>1. Exists(d)
          BY <1>4, <2>5, <3>3 DEF MarkInFlight, Open, Exists, OPEN_STATUSES, NOT_FOUND
        <4>2. Goto(c, "send")
          BY <2>5, <3>3, <4>1 DEF MarkInFlight
        <4>3. Kept(mine)' /\ DeliveryOf(c)' = mine
          BY <4>2, MovesOn DEF Goto, DeliveryOf, TypeOK, HandlerState
        <4> QED
          BY <2>5, <4>3
      <3>4. CASE FinaliseRetry(c)
        <4>1. Exists(d)
          BY <1>4, <2>5, <3>4 DEF FinaliseRetry, Open, Exists, OPEN_STATUSES, NOT_FOUND
        <4>2. Goto(c, "publish_retry")
          BY <2>5, <3>4, <4>1 DEF FinaliseRetry
        <4>3. Kept(mine)' /\ DeliveryOf(c)' = mine
          BY <4>2, MovesOn DEF Goto, DeliveryOf, TypeOK, HandlerState
        <4> QED
          BY <2>5, <4>3
      <3>5. CASE \E allowed \in BOOLEAN : TakeToken(c, allowed)
        <4>1. Goto(c, "mark") \/ Goto(c, "throttle")
          BY <3>5 DEF TakeToken
        <4>2. Kept(mine)' /\ DeliveryOf(c)' = mine
          BY <4>1, MovesOn DEF Goto, DeliveryOf, TypeOK, HandlerState
        <4> QED
          BY <2>5, <4>2
      <3>6. CASE \E result \in {"SUCCESS"} \cup FAILURE : Send(c, result)
        <4>1. /\ handler'[c].pc \in {"commit_success", "commit_failure", "commit_retry"}
              /\ handler'[c].msg = handler[c].msg
          BY <3>6 DEF Send, TypeOK, HandlerState
        <4> QED
          BY <2>5, <4>1, Witnesses DEF Holds, DeliveryOf, Responsible
      <3> QED
        BY <1>10, <2>5, <3>1, <3>2, <3>3, <3>4, <3>5, <3>6
    <2> QED
      BY <2>3, <2>4, <2>5
  <1> QED
    BY <1>5, <1>6, <1>7, <1>8, <1>9, <1>10 DEF HandlerStep

\* A sweeper moves open rows between IN_FLIGHT and RETRYING and adds messages.
LEMMA SweeperKeepsPursuit ==
    ASSUME TypeOK, KeptInv, NEW c \in Sweepers,
           SweeperStep(c) \/ RecoverFails(c) \/ SweeperCrash(c),
           NEW d \in Deliveries, Open(d)'
    PROVE  Kept(d)'
  <1>1. UNCHANGED <<handler, request>>
    BY DEF SweeperStep, others, ReadStuck, Claim, Recover, RecoverFails, Release,
           SweeperCrash
  <1>2. \A t \in sweeper[c].cur : t.id \in Deliveries /\ RecoveryAttempt(t) \in Nat \ {0}
    BY DEF TypeOK, SweeperState, StuckRow, RecoveryAttempt
  <1>3. queue \cup parked \subseteq queue' \cup parked'
    BY <1>2, PublishDeliveryEffect
       DEF SweeperStep, ReadStuck, Claim, Recover, RecoverFails, Release,
           SweeperCrash, broker
  <1>4. Open(d)
    <2>1. ASSUME NEW x, NEW status, SetStatus(x, status),
                 delivery[x].status \in OPEN_STATUSES
          PROVE  Open(d)
      BY <2>1 DEF SetStatus, Open, TypeOK, DeliveryRow
    <2>2. CASE UNCHANGED delivery
      BY <2>2 DEF Open
    <2>3. CASE Claim(c) \/ Release(c)
      BY <2>1, <2>2, <2>3 DEF Claim, ClaimMatches, Release, OPEN_STATUSES
    <2> QED
      BY <2>2, <2>3 DEF SweeperStep, ReadStuck, Recover, RecoverFails, SweeperCrash,
                        tables
  <1> QED
    BY <1>1, <1>3, <1>4, BystanderPursuit, Witnesses DEF KeptInv

\* A call of the API queues a message for every row that it inserts as PENDING.
LEMMA RequestKeepsPursuit ==
    ASSUME TypeOK, CallInv, KeptInv, Environment \cap Lossy = {},
           NEW c \in Requests,
           PublishEvent(c) \/ Replay(c) \/ RequestStep(c) \/ PublishFails(c),
           NEW d \in Deliveries, Open(d)'
    PROVE  Kept(d)'
  <1>1. /\ UNCHANGED <<handler, sweeper>>
        /\ \A x \in Requests : x # c => request'[x] = request[x]
    BY DEF RequestStep, bystanders, PublishEvent, Replay, Plans, CommitRows,
           CommitRejected, PublishRow, Respond, PublishFails, TypeOK
  <1>2. ASSUME delivery'[d].status = delivery[d].status,
               queue \cup parked \subseteq queue' \cup parked',
               d \in request[c].todo => Kept(d)'
        PROVE  Kept(d)'
    <2>1. Kept(d)
      BY <1>2 DEF Open, KeptInv
    <2>2. \A x \in Requests : d \in request[x].todo => Kept(d)'
      BY <1>1, <1>2, Witnesses
    <2> QED
      BY <1>1, <1>2, <2>1, <2>2, BystanderPursuit
  <1>3. CASE PublishEvent(c) \/ Replay(c) \/ CommitRejected(c) \/ Respond(c)
    <2>1. request[c].todo = {}
      BY <1>3 DEF CallInv, PublishEvent, Replay, CommitRejected, Respond
    <2> QED
      BY <1>2, <1>3, <2>1
         DEF PublishEvent, Replay, CommitRejected, Respond, tables, broker
  <1>4. CASE CommitRows(c)
    <2> DEFINE plan == request[c].plan
    <2>1. PICK id \in [plan -> FreshDeliveries] :
             /\ delivery' = [x \in Deliveries |->
                   IF \E row \in plan : id[row] = x
                   THEN Inserted(CHOOSE row \in plan : id[row] = x)
                   ELSE delivery[x]]
             /\ request' = [request EXCEPT ![c] = [@ EXCEPT
                   !.pc = "publish", !.plan = {},
                   !.todo = {id[row] : row \in {x \in plan : x.status = "PENDING"}}]]
      BY <1>4 DEF CommitRows
    <2>2. CASE \E row \in plan : id[row] = d
      <3>1. PICK row \in plan : id[row] = d /\ delivery'[d] = Inserted(row)
        BY <2>1, <2>2
      <3>2. row.status = "PENDING"
        BY <3>1 DEF Open, Inserted, OPEN_STATUSES, TypeOK, RequestState, NewRow
      <3>3. d \in request'[c].todo
        <4> DEFINE ids == {id[x] : x \in {y \in plan : y.status = "PENDING"}}
        <4>1. d \in ids
          BY <3>1, <3>2
        <4>2. request'[c].todo = ids
          <5> HIDE DEF ids
          <5>1. request' = [request EXCEPT ![c] =
                   [@ EXCEPT !.pc = "publish", !.plan = {}, !.todo = ids]]
            BY <2>1 DEF ids
          <5> QED
            BY <5>1 DEF TypeOK, RequestState
        <4> QED
          BY <4>1, <4>2
      <3> QED
        BY <3>3, Witnesses
    <2>3. CASE ~\E row \in plan : id[row] = d
      <3>1. delivery'[d] = delivery[d]
        BY <2>1, <2>3
      <3>2. request[c].todo = {}
        BY <1>4 DEF CommitRows, CallInv
      <3> QED
        BY <1>2, <1>4, <3>1, <3>2 DEF CommitRows, broker
    <2> QED
      BY <2>2, <2>3
  <1>5. CASE PublishRow(c)
    <2>1. PICK x \in request[c].todo : /\ publishDelivery(x, 1)
                                       /\ request' = [request EXCEPT ![c].todo = @ \ {x}]
      BY <1>5 DEF PublishRow
    <2>2. x \in Deliveries
      BY <2>1 DEF TypeOK, RequestState
    <2>3. PICK m \in Message : /\ m.deliveryId = x /\ queue' = queue \cup {m}
                               /\ parked' = parked
      BY <2>1, <2>2, PublishDeliveryEffect
    <2>4. CASE x = d
      BY <2>3, <2>4, Witnesses
    <2>5. CASE x # d
      <3>1. d \in request[c].todo => d \in request'[c].todo
        BY <2>1, <2>5 DEF TypeOK, RequestState
      <3> QED
        BY <1>2, <1>5, <2>3, <3>1, Witnesses DEF PublishRow, tables
    <2> QED
      BY <2>4, <2>5
  <1>6. ASSUME PublishFails(c) PROVE FALSE
    BY <1>6 DEF PublishFails, Occurs, Lossy
  <1> QED
    BY <1>3, <1>4, <1>5, <1>6 DEF RequestStep

\* Retention, the operator and the passing of time settle rows or leave them.
LEMMA OtherKeepsPursuit ==
    ASSUME TypeOK, KeptInv, NEW d \in Deliveries, Open(d)',
           \/ \E e \in Endpoints :
                 EnableEndpoint(e) \/ DisableEndpoint(e) \/ RemoveEndpoint(e)
           \/ \E x \in Deliveries : Age(x)
           \/ SelectStale \/ DeleteStale \/ Expire \/ UNCHANGED vars
    PROVE  Kept(d)'
  <1>1. UNCHANGED <<handler, sweeper, request>>
    BY DEF EnableEndpoint, DisableEndpoint, RemoveEndpoint, Age, SelectStale,
           DeleteStale, Expire, processes, vars
  <1>2. delivery'[d].status = delivery[d].status
    BY DEF EnableEndpoint, DisableEndpoint, RemoveEndpoint, Age, SelectStale,
           DeleteStale, Expire, tables, vars, Open, OPEN_STATUSES, TypeOK, DeliveryRow
  <1>3. queue \cup parked \subseteq queue' \cup parked'
    BY DEF EnableEndpoint, DisableEndpoint, RemoveEndpoint, Age, SelectStale,
           DeleteStale, Expire, broker, vars
  <1>4. Kept(d)
    BY <1>2 DEF Open, KeptInv
  <1> QED
    BY <1>1, <1>3, <1>4, Witnesses, BystanderPursuit

-----------------------------------------------------------------------------

\* An open delivery stays kept, whoever takes the step.
LEMMA PursuitStep ==
    ASSUME TypeOK, PursuitInv, [Next]_vars, Environment \cap Lossy = {}
    PROVE  KeptInv'
  <1> SUFFICES ASSUME NEW d \in Deliveries, Open(d)' PROVE Kept(d)'
    BY DEF KeptInv
  <1> QED
    BY HandlerKeepsPursuit, SweeperKeepsPursuit, RequestKeepsPursuit,
       OtherKeepsPursuit DEF PursuitInv, Next, Quiet

\* docs/architecture.md promises at-least-once delivery.  If no await of a handler
\* rejects, no channel closes under one and the API publishes what it commits, no
\* delivery is ever open with nothing left to move it on: neither dying workers,
\* nor sweepers, nor a backlog, nor retention loses one.
THEOREM NothingLost ==
    ASSUME Environment \cap Lossy = {} PROVE Spec => []NoLostDelivery
  <1>1. Init => PursuitInv
    BY DEF Init, PursuitInv, ConnectedInv, CallInv, KeptInv, Open, OPEN_STATUSES,
           NewDelivery, IdleHandler, IdleRequest
  <1>2. TypeOK /\ PursuitInv /\ [Next]_vars => PursuitInv'
    BY ConnectedStep, CallStep, PursuitStep DEF PursuitInv, Lossy
  <1>3. PursuitInv => NoLostDelivery
    BY DEF PursuitInv, KeptInv, Kept, Holds, NoLostDelivery, Pursued
  <1> QED
    BY <1>1, <1>2, <1>3, TypeCorrect, PTL DEF Spec

=============================================================================
