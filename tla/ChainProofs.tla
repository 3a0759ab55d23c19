----------------------------- MODULE ChainProofs -----------------------------
(***************************************************************************)
(* What holds between the rows, the messages and the handlers of the        *)
(* pipeline: an endpoint is disabled and announced once, a failed delivery  *)
(* is dead-lettered and, while nothing fails, one chain of messages and     *)
(* handlers carries a delivery through the life that DeliveryLifecycle      *)
(* promises.                                                                *)
(***************************************************************************)
EXTENDS DeliveryPipelineProofs, FiniteSetTheorems

-----------------------------------------------------------------------------
(* What a transaction of a handler does. *)

\* A handler's transaction, read off the rows: its own delivery gets the status
\* and the number of the attempt, and no other row changes.
Commits(h, status) ==
    LET d == DeliveryOf(h)
    IN  /\ Exists(d)
        /\ delivery'[d].status = status /\ delivery'[d].attemptCount = AttemptOf(h)
        /\ delivery'[d].endpointId = delivery[d].endpointId
        /\ delivery'[d].overdue => delivery[d].overdue
        /\ \A c \in Deliveries : c # d => delivery'[c] = delivery[c]

\* The three outcomes of an attempt are such transactions, unless they throw.
LEMMA Committed ==
    ASSUME TypeOK, NEW h \in Handlers
    PROVE  /\ FinaliseSuccess(h) => Throws(h) \/ Commits(h, "SUCCEEDED")
           /\ FinaliseRetry(h) => Throws(h) \/ Commits(h, "RETRYING")
           /\ FinaliseFailure(h) => Throws(h) \/ Commits(h, "FAILED_PERMANENTLY")
  <1> SUFFICES ASSUME Busy(h) PROVE
           /\ FinaliseSuccess(h) => Throws(h) \/ Commits(h, "SUCCEEDED")
           /\ FinaliseRetry(h) => Throws(h) \/ Commits(h, "RETRYING")
           /\ FinaliseFailure(h) => Throws(h) \/ Commits(h, "FAILED_PERMANENTLY")
    BY DEF FinaliseSuccess, FinaliseRetry, FinaliseFailure, At, Busy
  <1>1. PICK d \in Deliveries : d = DeliveryOf(h)
    BY BusyHandler
  <1>2. delivery[d] \in DeliveryRow
    BY <1>1 DEF TypeOK
  <1>3. ASSUME NEW row, NEW status, CommitAttempt(h, row), Exists(d),
               row.status = status, row.attemptCount = AttemptOf(h),
               row.endpointId = delivery[d].endpointId,
               row.overdue => delivery[d].overdue
        PROVE  Commits(h, status)
    <2>1. delivery'[d] = row /\ \A c \in Deliveries : c # d => delivery'[c] = delivery[c]
      BY <1>1, <1>3 DEF CommitAttempt, TypeOK
    <2> QED
      BY <1>1, <1>3, <2>1, Zenon DEF Commits
  <1>4. ASSUME FinaliseSuccess(h), ~Throws(h) PROVE Commits(h, "SUCCEEDED")
    <2>1. PICK row : /\ row = [delivery[d] EXCEPT !.status = "SUCCEEDED",
                                                  !.attemptCount = AttemptOf(h)]
                     /\ CommitAttempt(h, row) /\ Exists(d)
      BY <1>1, <1>4 DEF FinaliseSuccess
    <2>2. /\ row.status = "SUCCEEDED" /\ row.attemptCount = AttemptOf(h)
          /\ row.endpointId = delivery[d].endpointId /\ row.overdue = delivery[d].overdue
      BY <1>2, <2>1 DEF DeliveryRow
    <2> QED
      BY <1>3, <2>1, <2>2
  <1>5. ASSUME FinaliseRetry(h), ~Throws(h) PROVE Commits(h, "RETRYING")
    <2>1. PICK row : /\ row = [delivery[d] EXCEPT !.status = "RETRYING",
                                  !.attemptCount = AttemptOf(h), !.overdue = FALSE]
                     /\ CommitAttempt(h, row) /\ Exists(d)
      BY <1>1, <1>5 DEF FinaliseRetry
    <2>2. /\ row.status = "RETRYING" /\ row.attemptCount = AttemptOf(h)
          /\ row.endpointId = delivery[d].endpointId /\ ~row.overdue
      BY <1>2, <2>1 DEF DeliveryRow
    <2> QED
      BY <1>3, <2>1, <2>2
  <1>6. ASSUME FinaliseFailure(h), ~Throws(h) PROVE Commits(h, "FAILED_PERMANENTLY")
    <2>1. PICK row : /\ row = [delivery[d] EXCEPT !.status = "FAILED_PERMANENTLY",
                                                  !.attemptCount = AttemptOf(h)]
                     /\ CommitAttempt(h, row) /\ Exists(d)
      BY <1>1, <1>6 DEF FinaliseFailure
    <2>2. /\ row.status = "FAILED_PERMANENTLY" /\ row.attemptCount = AttemptOf(h)
          /\ row.endpointId = delivery[d].endpointId /\ row.overdue = delivery[d].overdue
      BY <1>2, <2>1 DEF DeliveryRow
    <2> QED
      BY <1>3, <2>1, <2>2
  <1> QED
    BY <1>4, <1>5, <1>6

-----------------------------------------------------------------------------
(* Rows.  A row that was inserted stays, or is removed for good, and never    *)
(* changes its endpoint.                                                      *)

Stays(d) ==
    delivery[d].status # "ABSENT" =>
        /\ delivery'[d].status # "ABSENT"
        /\ delivery'[d].endpointId = delivery[d].endpointId

\* No step brings a row back to where it was before its insert.
LEMMA RowsStay ==
    ASSUME TypeOK, [Next]_vars, NEW d \in Deliveries PROVE Stays(d)
  <1> USE DEF Stays, TypeOK
  <1>1. CASE UNCHANGED delivery
    BY <1>1
  <1>2. ASSUME NEW c \in Deliveries, NEW status \in DELIVERY_STATUS, SetStatus(c, status)
        PROVE  Stays(d)
    BY <1>2 DEF SetStatus, DeliveryRow, DELIVERY_STATUS, OPEN_STATUSES, TERMINAL_STATUSES
  <1>3. ASSUME NEW h \in Handlers, SkipDisabled(h) \/ MarkInFlight(h) PROVE Stays(d)
    <2>1. DeliveryOf(h) \in Deliveries
      BY <1>3, BusyHandler DEF SkipDisabled, MarkInFlight, At, Busy
    <2> QED
      BY <1>1, <1>2, <1>3, <2>1 DEF SkipDisabled, MarkInFlight, Throws, tables,
                                    DELIVERY_STATUS, OPEN_STATUSES, TERMINAL_STATUSES
  <1>4. ASSUME NEW h \in Handlers,
               FinaliseSuccess(h) \/ FinaliseRetry(h) \/ FinaliseFailure(h)
        PROVE  Stays(d)
    <2>1. PICK status \in {"SUCCEEDED", "RETRYING", "FAILED_PERMANENTLY"} :
             Throws(h) \/ Commits(h, status)
      BY <1>4, Committed
    <2> QED
      BY <1>1, <2>1 DEF Throws, Commits, tables
  <1>5. ASSUME NEW r \in Requests, CommitRows(r) PROVE Stays(d)
    <2>1. PICK id \in [request[r].plan -> FreshDeliveries] :
             delivery' = [c \in Deliveries |->
                IF \E row \in request[r].plan : id[row] = c
                THEN Inserted(CHOOSE row \in request[r].plan : id[row] = c)
                ELSE delivery[c]]
      BY <1>5 DEF CommitRows
    <2>2. CASE \E row \in request[r].plan : id[row] = d
      BY <2>1, <2>2 DEF FreshDeliveries
    <2>3. CASE ~\E row \in request[r].plan : id[row] = d
      BY <2>1, <2>3
    <2> QED
      BY <2>2, <2>3
  <1>6. ASSUME NEW s \in Sweepers, Claim(s) \/ Release(s) PROVE Stays(d)
    <2>1. \A t \in sweeper[s].todo \cup sweeper[s].cur : t.id \in Deliveries
      BY DEF SweeperState, StuckRow
    <2> QED
      BY <1>1, <1>2, <1>6, <2>1 DEF Claim, Release, DELIVERY_STATUS, OPEN_STATUSES
  <1>7. ASSUME NEW c \in Deliveries, Age(c) PROVE Stays(d)
    BY <1>7 DEF Age, DeliveryRow
  <1>8. CASE DeleteStale
    BY <1>8 DEF DeleteStale, DeliveryRow
  <1> QED
    BY <1>1, <1>3, <1>4, <1>5, <1>6, <1>7, <1>8
       DEF Next, RequestStep, HandlerStep, SweeperStep, Quiet, vars, tables,
           PublishEvent, Replay, CommitRejected, PublishRow, Respond, PublishFails,
           Consume, Ack, Catch, FindDelivery, TakeToken, PublishThrottle, Send,
           PublishRetry, DisableAtThreshold, PublishDeadLetter, AnnounceDisable,
           HandlerError, WorkerCrash, ConnectionLoss, Throws, ReadStuck, Recover,
           RecoverFails, SweeperCrash, EnableEndpoint, DisableEndpoint,
           RemoveEndpoint, SelectStale, Expire

-----------------------------------------------------------------------------
(* Handlers.  The steps of a handler, by what they do to its local state.     *)

Takes(h) ==
    /\ At(h, "idle") /\ handler'[h].pc = "find"
    /\ handler'[h].msg \in queue /\ ~handler'[h].disable

Stops(h) ==
    /\ Busy(h) /\ handler'[h].pc = "idle"
    /\ At(h, "settled") \/ At(h, "done") \/ At(h, "catch") \/ WorkerCrash(h)

\* The handler keeps its message and what it knows of the disable.
Moves(h) ==
    /\ Busy(h) /\ Busy(h)'
    /\ handler'[h].msg = handler[h].msg /\ handler'[h].disable = handler[h].disable

Later == {"disable", "dead_letter", "announce"}

\* A step leaves a handler alone or is one of these.
HandlerMoves(h) ==
    \/ handler'[h] = handler[h]
    \/ Takes(h)
    \/ Stops(h)
    \/ Moves(h) /\ handler'[h].pc = handler[h].pc
    \/ Moves(h) /\ handler[h].pc \notin Later /\ handler'[h].pc \notin Later
    \/ Moves(h) /\ handler'[h].pc = "disable" /\ FinaliseFailure(h)
    \/ DisableAtThreshold(h)
    \/ Moves(h) /\ PublishDeadLetter(h)
    \/ Moves(h) /\ handler'[h].pc = "settled" /\ AnnounceDisable(h)
    \/ Moves(h) /\ handler'[h].pc = "catch" /\ HandlerError(h)

\* Every step of the pipeline moves each handler in one of these ways.
LEMMA HandlersMove ==
    ASSUME TypeOK, [Next]_vars, NEW h \in Handlers PROVE HandlerMoves(h)
  <1>1. CASE handler'[h] = handler[h]
    BY <1>1 DEF HandlerMoves
  <1>2. ASSUME NEW c \in Handlers, Consume(c) PROVE HandlerMoves(h)
    <2>1. CASE c # h
      BY <1>1, <1>2, <2>1 DEF Consume, TypeOK
    <2>2. CASE c = h
      <3>1. PICK m \in queue : handler'[h] = [IdleHandler EXCEPT !.pc = "find", !.msg = m]
        BY <1>2, <2>2 DEF Consume, TypeOK
      <3>2. handler'[h].pc = "find" /\ handler'[h].msg = m /\ ~handler'[h].disable
        BY <3>1 DEF IdleHandler
      <3> QED
        BY <1>2, <2>2, <3>2, Zenon DEF Consume, HandlerMoves, Takes
    <2> QED
      BY <2>1, <2>2
  <1>3. ASSUME NEW c \in Handlers, Ack(c) \/ Catch(c) \/ WorkerCrash(c)
        PROVE  HandlerMoves(h)
    <2>1. handler' = [handler EXCEPT ![c] = IdleHandler]
      BY <1>3 DEF Ack, Catch, WorkerCrash
    <2>2. CASE c # h
      BY <1>1, <2>1, <2>2 DEF TypeOK
    <2>3. CASE c = h
      <3>1. handler'[h].pc = "idle"
        BY <2>1, <2>3 DEF IdleHandler, TypeOK
      <3>2. /\ Busy(h)
            /\ At(h, "settled") \/ At(h, "done") \/ At(h, "catch") \/ WorkerCrash(h)
        BY <1>3, <2>3 DEF Ack, Catch, WorkerCrash, At, Busy
      <3> QED
        BY <3>1, <3>2 DEF HandlerMoves, Stops
    <2> QED
      BY <2>2, <2>3
  \* The steps that only move the program counter.
  <1>4. ASSUME NEW c \in Handlers, NEW pc \in HandlerPc \ {"idle"}, Busy(c), Goto(c, pc)
        PROVE  /\ Moves(c) /\ handler'[c].pc = pc
               /\ h # c => HandlerMoves(h)
    BY <1>1, <1>4 DEF Goto, Moves, Busy, TypeOK, HandlerState
  <1>5. ASSUME NEW c \in Handlers, NEW pc \in HandlerPc \ {"idle"}, Busy(c), Goto(c, pc),
               handler[c].pc \notin Later, pc \notin Later
        PROVE  HandlerMoves(h)
    BY <1>4, <1>5 DEF HandlerMoves
  <1>6. ASSUME NEW c \in Handlers, FindDelivery(c) \/ SkipDisabled(c) \/ MarkInFlight(c)
        PROVE  HandlerMoves(h)
    BY <1>5, <1>6 DEF FindDelivery, SkipDisabled, MarkInFlight, Throws, At, Busy,
                      HandlerPc, Later
  <1>7. ASSUME NEW c \in Handlers,
               PublishThrottle(c) \/ FinaliseSuccess(c) \/ FinaliseRetry(c)
                  \/ PublishRetry(c) \/ (\E allowed \in BOOLEAN : TakeToken(c, allowed))
        PROVE  HandlerMoves(h)
    BY <1>5, <1>7 DEF TakeToken, PublishThrottle, FinaliseSuccess, FinaliseRetry,
                      PublishRetry, Throws, At, Busy, HandlerPc, Later
  <1>8. ASSUME NEW c \in Handlers, NEW result \in {"SUCCESS"} \cup FAILURE, Send(c, result)
        PROVE  HandlerMoves(h)
    <2>1. CASE c # h
      BY <1>1, <1>8, <2>1 DEF Send, TypeOK
    <2>2. CASE c = h
      <3>1. /\ handler'[h].msg = handler[h].msg /\ handler'[h].disable = handler[h].disable
            /\ handler'[h].pc \in {"commit_success", "commit_failure", "commit_retry"}
        BY <1>8, <2>2 DEF Send, TypeOK, HandlerState
      <3>2. handler[h].pc = "send"
        BY <1>8, <2>2 DEF Send, At
      <3> QED
        BY <3>1, <3>2 DEF HandlerMoves, Moves, Busy, Later
    <2> QED
      BY <2>1, <2>2
  <1>9. ASSUME NEW c \in Handlers, FinaliseFailure(c) PROVE HandlerMoves(h)
    <2>1. Busy(c) /\ handler[c].pc \notin Later
      BY <1>9 DEF FinaliseFailure, At, Busy, Later
    <2>2. CASE Throws(c)
      BY <1>5, <2>1, <2>2 DEF Throws, HandlerPc, Later
    <2>3. CASE Goto(c, "disable")
      BY <1>4, <1>9, <2>1, <2>3 DEF HandlerMoves, HandlerPc
    <2> QED
      BY <1>9, <2>2, <2>3 DEF FinaliseFailure
  <1>10. ASSUME NEW c \in Handlers, DisableAtThreshold(c) PROVE HandlerMoves(h)
    <2>1. CASE c # h
      BY <1>1, <1>10, <2>1 DEF DisableAtThreshold, TypeOK
    <2> QED
      BY <1>10, <2>1 DEF HandlerMoves
  <1>11. ASSUME NEW c \in Handlers, PublishDeadLetter(c) \/ AnnounceDisable(c) \/ HandlerError(c)
         PROVE  HandlerMoves(h)
    <2>1. Busy(c)
      BY <1>11 DEF PublishDeadLetter, AnnounceDisable, HandlerError, Awaiting, At, Busy
    <2>2. CASE PublishDeadLetter(c)
      BY <1>4, <2>1, <2>2 DEF PublishDeadLetter, Throws, HandlerMoves, HandlerPc
    <2>3. CASE AnnounceDisable(c)
      BY <1>4, <2>1, <2>3 DEF AnnounceDisable, HandlerMoves, HandlerPc
    <2>4. CASE HandlerError(c)
      BY <1>4, <2>1, <2>4 DEF HandlerError, HandlerMoves, HandlerPc
    <2> QED
      BY <1>11, <2>2, <2>3, <2>4
  <1>12. ASSUME NEW c \in Handlers, ConnectionLoss(c) PROVE HandlerMoves(h)
    <2>1. CASE c # h
      BY <1>1, <1>12, <2>1 DEF ConnectionLoss, TypeOK
    <2>2. CASE c = h
      <3>1. /\ handler'[h].msg = handler[h].msg /\ handler'[h].disable = handler[h].disable
            /\ handler'[h].pc = handler[h].pc
        BY <1>12, <2>2 DEF ConnectionLoss, TypeOK, HandlerState
      <3> QED
        BY <1>12, <2>2, <3>1 DEF ConnectionLoss, HandlerMoves, Moves, Busy
    <2> QED
      BY <2>1, <2>2
  <1>13. CASE UNCHANGED handler
    BY <1>1, <1>13
  <1> QED
    BY <1>2, <1>3, <1>6, <1>7, <1>8, <1>9, <1>10, <1>11, <1>12, <1>13
       DEF Next, RequestStep, HandlerStep, SweeperStep, Quiet, vars, bystanders, others,
           processes, PublishEvent, Replay, CommitRows, CommitRejected, PublishRow,
           Respond, PublishFails, ReadStuck, Claim, Recover, RecoverFails, Release,
           SweeperCrash, EnableEndpoint, DisableEndpoint, RemoveEndpoint, Age,
           SelectStale, DeleteStale, Expire

-----------------------------------------------------------------------------
(* Nothing in the pipeline refers to a row that was not inserted, so what a   *)
(* handler reads of its row's endpoint does not change under it.              *)

Live(d) == delivery[d].status # "ABSENT"

LiveInv ==
    /\ \A m \in queue \cup parked : Live(m.deliveryId)
    /\ \A h \in Handlers : Busy(h) => Live(DeliveryOf(h))
    /\ \A s \in Sweepers : \A t \in sweeper[s].todo \cup sweeper[s].cur : Live(t.id)
    /\ \A r \in Requests : \A d \in request[r].todo : Live(d)

\* Where the messages of the next state come from.
LEMMA MessageSource ==
    ASSUME TypeOK, [Next]_vars, NEW m \in queue' \cup parked'
    PROVE  \/ m \in queue \cup parked
           \/ \E h \in Handlers : Busy(h) /\ m.deliveryId = DeliveryOf(h)
           \/ \E s \in Sweepers : \E t \in sweeper[s].cur : m.deliveryId = t.id
           \/ \E r \in Requests : m.deliveryId \in request[r].todo
  <1> DEFINE Known ==
           \/ m \in queue \cup parked
           \/ \E h \in Handlers : Busy(h) /\ m.deliveryId = DeliveryOf(h)
           \/ \E s \in Sweepers : \E t \in sweeper[s].cur : m.deliveryId = t.id
           \/ \E r \in Requests : m.deliveryId \in request[r].todo
  <1> SUFFICES Known
    OBVIOUS
  <1>1. CASE m \in queue \cup parked
    BY <1>1
  <1>2. ASSUME NEW r \in Requests, PublishRow(r) PROVE Known
    <2>1. PICK d \in request[r].todo : publishDelivery(d, 1)
      BY <1>2 DEF PublishRow
    <2>2. d \in Deliveries
      BY <2>1 DEF TypeOK, RequestState
    <2> QED
      BY <1>1, <2>1, <2>2, PublishDeliveryEffect
  <1>3. ASSUME NEW h \in Handlers, Busy(h), Requeue(handler[h].msg), parked' = parked
        PROVE  Known
    BY <1>1, <1>3, BusyHandler, RequeueEffect DEF DeliveryOf
  <1>4. ASSUME NEW h \in Handlers, Catch(h) \/ WorkerCrash(h) \/ ConnectionLoss(h)
        PROVE  Known
    BY <1>1, <1>3, <1>4 DEF Catch, WorkerCrash, ConnectionLoss, At, Busy
  <1>5. ASSUME NEW h \in Handlers, PublishThrottle(h) \/ PublishRetry(h) PROVE Known
    <2>1. Busy(h)
      BY <1>5 DEF PublishThrottle, PublishRetry, At, Busy
    <2>2. CASE Throws(h)
      BY <1>1, <2>2 DEF Throws, broker
    <2>3. ASSUME NEW n \in Nat \ {0}, publishParked(DeliveryOf(h), n) PROVE Known
      BY <1>1, <2>1, <2>3, BusyHandler, PublishParkedEffect
    <2>4. AttemptOf(h) \in Nat \ {0} /\ AttemptOf(h) + 1 \in Nat \ {0}
      BY <2>1, BusyHandler
    <2> QED
      BY <1>5, <2>2, <2>3, <2>4 DEF PublishThrottle, PublishRetry, ThrottledAttempt
  <1>6. ASSUME NEW s \in Sweepers, Recover(s) \/ RecoverFails(s) PROVE Known
    <2>1. ASSUME NEW t \in sweeper[s].cur, publishDelivery(t.id, RecoveryAttempt(t))
          PROVE  Known
      <3>1. t.id \in Deliveries /\ RecoveryAttempt(t) \in Nat \ {0}
        BY DEF TypeOK, SweeperState, StuckRow, RecoveryAttempt
      <3> QED
        BY <1>1, <2>1, <3>1, PublishDeliveryEffect
    <2> QED
      BY <1>1, <1>6, <2>1 DEF Recover, RecoverFails, broker
  <1>7. CASE Expire
    BY <1>1, <1>7 DEF Expire
  <1>8. ASSUME NEW h \in Handlers,
               SkipDisabled(h) \/ MarkInFlight(h) \/ FinaliseSuccess(h)
                 \/ FinaliseRetry(h) \/ FinaliseFailure(h) \/ PublishDeadLetter(h)
        PROVE  queue' = queue /\ parked' = parked
    BY <1>8 DEF SkipDisabled, MarkInFlight, FinaliseSuccess, FinaliseRetry,
                FinaliseFailure, PublishDeadLetter, Throws, broker
  <1> HIDE DEF Known
  <1> QED
    BY <1>1, <1>2, <1>4, <1>5, <1>6, <1>7, <1>8
       DEF Next, RequestStep, HandlerStep, SweeperStep, Quiet, vars, broker,
           PublishEvent, Replay, CommitRows, CommitRejected, Respond, PublishFails,
           Consume, Ack, FindDelivery, TakeToken, Send, DisableAtThreshold,
           AnnounceDisable, HandlerError, ReadStuck, Claim, Release, SweeperCrash,
           EnableEndpoint, DisableEndpoint, RemoveEndpoint, Age, SelectStale,
           DeleteStale

\* A busy handler has the message it had, or one that was queued.
LEMMA HandlerSource ==
    ASSUME TypeOK, [Next]_vars, NEW h \in Handlers, Busy(h)'
    PROVE  \/ Busy(h) /\ handler'[h].msg = handler[h].msg
           \/ handler'[h].msg \in queue
  <1>1. ASSUME DisableAtThreshold(h) PROVE Busy(h) /\ handler'[h].msg = handler[h].msg
    BY <1>1 DEF DisableAtThreshold, At, Busy, TypeOK, HandlerState
  <1> QED
    BY <1>1, HandlersMove DEF HandlerMoves, Takes, Stops, Moves, Busy

\* A sweeper has the rows it had, or reads rows that are IN_FLIGHT.
LEMMA SweeperSource ==
    ASSUME TypeOK, [Next]_vars, NEW s \in Sweepers,
           NEW t \in sweeper'[s].todo \cup sweeper'[s].cur
    PROVE  \/ t \in sweeper[s].todo \cup sweeper[s].cur
           \/ delivery[t.id].status = "IN_FLIGHT"
  <1> DEFINE Known == \/ t \in sweeper[s].todo \cup sweeper[s].cur
                      \/ delivery[t.id].status = "IN_FLIGHT"
  <1> SUFFICES Known
    OBVIOUS
  <1>1. ASSUME NEW c \in Sweepers, ReadStuck(c) PROVE Known
    <2>1. CASE c # s
      BY <1>1, <2>1 DEF ReadStuck, TypeOK
    <2>2. CASE c = s
      <3>1. PICK batch \in SUBSET Stuck :
               sweeper' = [sweeper EXCEPT ![s] =
                  [pc |-> "claim", cur |-> {},
                   todo |-> {[id |-> d, attemptCount |-> delivery[d].attemptCount] :
                                d \in batch}]]
        BY <1>1, <2>2 DEF ReadStuck
      <3>2. sweeper'[s].cur = {} /\ sweeper'[s].todo =
                {[id |-> d, attemptCount |-> delivery[d].attemptCount] : d \in batch}
        BY <3>1 DEF TypeOK
      <3>3. PICK d \in batch :
               t = [id |-> d, attemptCount |-> delivery[d].attemptCount]
        BY <3>2
      <3> QED
        BY <3>3 DEF Stuck, stuckDeliveryFilter
    <2> QED
      BY <2>1, <2>2
  <1>2. ASSUME NEW c \in Sweepers, Claim(c) PROVE Known
    <2>1. PICK u \in sweeper[c].todo : Walk(c, u, "publish", {u}) \/ Walk(c, u, "claim", {})
      BY <1>2 DEF Claim
    <2> QED
      BY <2>1 DEF Walk, TypeOK
  <1>3. ASSUME NEW c \in Sweepers, Recover(c) PROVE Known
    <2>1. /\ AfterPublish(c).todo \subseteq sweeper[c].todo
          /\ AfterPublish(c).cur = {}
      BY DEF AfterPublish, IdleSweeper, TypeOK, SweeperState
    <2> QED
      BY <1>3, <2>1 DEF Recover, TypeOK
  <1>4. ASSUME NEW c \in Sweepers, RecoverFails(c) PROVE Known
    BY <1>4 DEF RecoverFails, TypeOK, SweeperState
  <1>5. ASSUME NEW c \in Sweepers, Release(c) \/ SweeperCrash(c) PROVE Known
    BY <1>5 DEF Release, SweeperCrash, IdleSweeper, TypeOK
  <1>6. CASE UNCHANGED sweeper
    BY <1>6
  <1> HIDE DEF Known
  <1> QED
    BY <1>1, <1>2, <1>3, <1>4, <1>5, <1>6
       DEF Next, RequestStep, HandlerStep, SweeperStep, Quiet, vars, bystanders,
           elsewhere, processes, PublishEvent, Replay, CommitRows, CommitRejected,
           PublishRow, Respond, PublishFails, Consume, Ack, Catch, FindDelivery,
           SkipDisabled, TakeToken, PublishThrottle, MarkInFlight, Send,
           FinaliseSuccess, FinaliseRetry, PublishRetry, FinaliseFailure,
           DisableAtThreshold, PublishDeadLetter, AnnounceDisable, HandlerError,
           WorkerCrash, ConnectionLoss, EnableEndpoint, DisableEndpoint,
           RemoveEndpoint, Age, SelectStale, DeleteStale, Expire

\* The insert of a call, read off the rows: fresh rows are opened, to be published,
\* or skipped.
Inserts(r, opened, skipped) ==
    /\ opened \cap skipped = {}
    /\ \A d \in opened \cup skipped :
          /\ delivery[d].status = "ABSENT"
          /\ delivery'[d].attemptCount = 0 /\ ~delivery'[d].overdue
    /\ \A d \in opened : delivery'[d].status = "PENDING"
    /\ \A d \in skipped : delivery'[d].status = "SKIPPED"
    /\ \A d \in Deliveries \ (opened \cup skipped) : delivery'[d] = delivery[d]
    /\ request'[r].todo = opened
    /\ \A x \in Requests : x # r => request'[x] = request[x]

\* CommitRows is such an insert.
LEMMA CommitInserts ==
    ASSUME TypeOK, NEW r \in Requests, CommitRows(r)
    PROVE  \E opened, skipped \in SUBSET Deliveries : Inserts(r, opened, skipped)
  <1> DEFINE plan == request[r].plan
  <1>2. plan \subseteq NewRow
    BY DEF TypeOK, RequestState
  <1>3. PICK id \in [plan -> FreshDeliveries] :
             /\ \A x, y \in plan : id[x] = id[y] => x = y
             /\ delivery' = [x \in Deliveries |->
                   IF \E row \in plan : id[row] = x
                   THEN Inserted(CHOOSE row \in plan : id[row] = x)
                   ELSE delivery[x]]
             /\ request' = [request EXCEPT ![r] = [@ EXCEPT
                   !.pc = "publish", !.plan = {},
                   !.todo = {id[row] : row \in {x \in plan : x.status = "PENDING"}}]]
    BY DEF CommitRows
  <1> HIDE DEF plan
  <1>4. PICK opened : opened = {id[row] : row \in {x \in plan : x.status = "PENDING"}}
    OBVIOUS
  <1>5. PICK skipped : skipped = {id[row] : row \in {x \in plan : x.status = "SKIPPED"}}
    OBVIOUS
  <1>6. opened \in SUBSET Deliveries /\ skipped \in SUBSET Deliveries
    BY <1>3, <1>4, <1>5 DEF FreshDeliveries
  <1>7. opened \cap skipped = {}
    BY <1>3, <1>4, <1>5
  <1>8. ASSUME NEW row \in plan
        PROVE  /\ delivery[id[row]].status = "ABSENT" /\ id[row] \in Deliveries
               /\ delivery'[id[row]] = Inserted(row)
    <2>1. id[row] \in FreshDeliveries
      BY <1>3
    <2>2. row = CHOOSE x \in plan : id[x] = id[row]
      BY <1>3
    <2> QED
      BY <1>3, <2>1, <2>2 DEF FreshDeliveries
  <1>9. /\ \A d \in opened \cup skipped :
              /\ delivery[d].status = "ABSENT"
              /\ delivery'[d].attemptCount = 0 /\ ~delivery'[d].overdue
        /\ \A d \in opened : delivery'[d].status = "PENDING"
        /\ \A d \in skipped : delivery'[d].status = "SKIPPED"
    <2>1. ASSUME NEW row \in plan
          PROVE  /\ delivery[id[row]].status = "ABSENT"
                 /\ delivery'[id[row]].attemptCount = 0 /\ ~delivery'[id[row]].overdue
                 /\ delivery'[id[row]].status = row.status
      <3>1. /\ Inserted(row).attemptCount = 0 /\ Inserted(row).overdue = FALSE
            /\ Inserted(row).status = row.status
        BY DEF Inserted
      <3> QED
        BY <1>8, <3>1, Zenon
    <2>2. \A d \in opened : \E row \in plan : d = id[row] /\ row.status = "PENDING"
      BY <1>4
    <2>3. \A d \in skipped : \E row \in plan : d = id[row] /\ row.status = "SKIPPED"
      BY <1>5
    <2> QED
      BY <2>1, <2>2, <2>3
  <1>10. \A d \in Deliveries \ (opened \cup skipped) : delivery'[d] = delivery[d]
    <2>1. \A row \in plan : row.status \in {"PENDING", "SKIPPED"}
      BY <1>2 DEF NewRow
    <2>2. \A row \in plan : id[row] \in opened \cup skipped
      BY <1>4, <1>5, <2>1
    <2> QED
      BY <1>3, <2>2
  <1>11. request'[r].todo = opened /\ \A x \in Requests : x # r => request'[x] = request[x]
    <2>1. request' = [request EXCEPT ![r] =
             [@ EXCEPT !.pc = "publish", !.plan = {}, !.todo = opened]]
      BY <1>3, <1>4
    <2> QED
      BY <2>1 DEF TypeOK, RequestState
  <1>12. Inserts(r, opened, skipped)
    BY <1>7, <1>9, <1>10, <1>11 DEF Inserts
  <1> QED
    BY <1>6, <1>12

\* What a call is to publish it was to publish before, or has just inserted.
LEMMA RequestSource ==
    ASSUME TypeOK, [Next]_vars, NEW r \in Requests, NEW d \in request'[r].todo
    PROVE  d \in request[r].todo \/ Live(d)'
  <1>1. CASE UNCHANGED request
    BY <1>1
  <1>2. ASSUME NEW c \in Requests, PublishEvent(c) \/ Replay(c)
        PROVE  d \in request[r].todo
    BY <1>2 DEF PublishEvent, Replay, Plans, TypeOK
  <1>3. ASSUME NEW c \in Requests, CommitRows(c)
        PROVE  d \in request[r].todo \/ Live(d)'
    <2>1. PICK opened, skipped \in SUBSET Deliveries : Inserts(c, opened, skipped)
      BY <1>3, CommitInserts
    <2> QED
      BY <2>1 DEF Inserts, Live
  <1>4. ASSUME NEW c \in Requests, CommitRejected(c) \/ Respond(c) \/ PublishFails(c)
        PROVE  d \in request[r].todo
    BY <1>4 DEF CommitRejected, Respond, PublishFails, IdleRequest, TypeOK
  <1>5. ASSUME NEW c \in Requests, PublishRow(c)
        PROVE  d \in request[r].todo
    BY <1>5 DEF PublishRow, TypeOK, RequestState
  <1> QED
    BY <1>1, <1>2, <1>3, <1>4, <1>5
       DEF Next, RequestStep, HandlerStep, SweeperStep, Quiet, vars, others,
           elsewhere, processes, Consume, Ack, Catch, FindDelivery,
           SkipDisabled, TakeToken, PublishThrottle, MarkInFlight, Send,
           FinaliseSuccess, FinaliseRetry, PublishRetry, FinaliseFailure,
           DisableAtThreshold, PublishDeadLetter, AnnounceDisable, HandlerError,
           WorkerCrash, ConnectionLoss, ReadStuck, Claim, Recover, RecoverFails,
           Release, SweeperCrash, EnableEndpoint, DisableEndpoint,
           RemoveEndpoint, Age, SelectStale, DeleteStale, Expire

\* LiveInv is inductive: every reference is handed on from an older one, and the
\* first one is made by the insert.
LEMMA LiveStep == TypeOK /\ LiveInv /\ [Next]_vars => LiveInv'
  <1> SUFFICES ASSUME TypeOK, LiveInv, [Next]_vars PROVE LiveInv'
    OBVIOUS
  <1>1. ASSUME NEW d \in Deliveries, Live(d) PROVE Live(d)'
    BY <1>1, RowsStay DEF Stays, Live
  <1>2. TypeOK'
    BY TypeStep
  <1>3. ASSUME NEW m \in queue' \cup parked' PROVE Live(m.deliveryId)'
    <2>1. m.deliveryId \in Deliveries
      BY <1>2 DEF TypeOK, Message
    <2>2. Live(m.deliveryId)
      BY MessageSource DEF LiveInv
    <2> QED
      BY <1>1, <2>1, <2>2
  <1>4. ASSUME NEW h \in Handlers, Busy(h)' PROVE Live(DeliveryOf(h))'
    <2>1. handler'[h].msg.deliveryId \in Deliveries
      BY <1>2, <1>4 DEF TypeOK, Message
    <2>2. Live(handler'[h].msg.deliveryId)
      BY <1>4, HandlerSource DEF LiveInv, DeliveryOf
    <2>3. PICK d \in Deliveries : d = handler'[h].msg.deliveryId
      BY <2>1
    <2> QED
      BY <1>1, <2>2, <2>3 DEF DeliveryOf, Live
  <1>5. ASSUME NEW s \in Sweepers, NEW t \in sweeper'[s].todo \cup sweeper'[s].cur
        PROVE  Live(t.id)'
    <2>1. t.id \in Deliveries
      BY <1>2 DEF TypeOK, SweeperState, StuckRow
    <2>2. Live(t.id)
      BY SweeperSource DEF LiveInv, Live
    <2> QED
      BY <1>1, <2>1, <2>2
  <1>6. ASSUME NEW r \in Requests, NEW d \in request'[r].todo PROVE Live(d)'
    <2>1. d \in Deliveries
      BY <1>2 DEF TypeOK, RequestState
    <2> QED
      BY <1>1, <2>1, RequestSource DEF LiveInv
  <1> QED
    BY <1>3, <1>4, <1>5, <1>6 DEF LiveInv

\* No message, handler, sweeper or call refers to a row that was not inserted.
LEMMA LiveInvariant == Spec => []LiveInv
  <1>1. Init => LiveInv
    BY DEF Init, LiveInv, Busy, IdleHandler, IdleSweeper, IdleRequest
  <1> QED
    BY <1>1, LiveStep, TypeCorrect, PTL DEF Spec

-----------------------------------------------------------------------------
(* The disable of an endpoint.                                               *)

\* What a step may do to an endpoint's row.
EndpointMoves(e) ==
    \/ endpoint'[e] = endpoint[e] /\ enables'[e] = enables[e]
    \/ endpoint'[e].status # "ACTIVE" /\ enables'[e] = enables[e]
    \/ /\ endpoint'[e].consecutiveFailures = 0
       /\ \/ endpoint'[e].status = endpoint[e].status /\ enables'[e] = enables[e]
          \/ enables'[e] = enables[e] + 1
    \/ /\ endpoint'[e].status = endpoint[e].status /\ enables'[e] = enables[e]
       /\ \E h \in Handlers : /\ FinaliseFailure(h) /\ ~Throws(h)
                              /\ EndpointOf(DeliveryOf(h)) = e

\* Every step treats an endpoint's row in one of these ways.
LEMMA EndpointsMove ==
    ASSUME TypeOK, [Next]_vars, NEW e \in Endpoints PROVE EndpointMoves(e)
  <1>1. CASE endpoint'[e] = endpoint[e] /\ enables'[e] = enables[e]
    BY <1>1 DEF EndpointMoves
  <1>2. ASSUME NEW h \in Handlers, FinaliseSuccess(h) PROVE EndpointMoves(e)
    <2>1. CASE Throws(h)
      BY <1>1, <1>2, <2>1 DEF FinaliseSuccess, Throws, tables, elsewhere
    <2>2. CASE ~Throws(h)
      <3>1. /\ endpoint' = [endpoint EXCEPT ![EndpointOf(DeliveryOf(h))].consecutiveFailures = 0]
            /\ enables' = enables
        BY <1>2, <2>2 DEF FinaliseSuccess, elsewhere
      <3>2. \/ endpoint'[e] = endpoint[e]
            \/ endpoint'[e].consecutiveFailures = 0 /\ endpoint'[e].status = endpoint[e].status
        BY <3>1 DEF TypeOK, EndpointRow
      <3> QED
        BY <3>1, <3>2 DEF EndpointMoves
    <2> QED
      BY <2>1, <2>2
  <1>3. ASSUME NEW h \in Handlers, FinaliseFailure(h) PROVE EndpointMoves(e)
    <2>1. CASE Throws(h)
      BY <1>1, <1>3, <2>1 DEF FinaliseFailure, Throws, tables, elsewhere
    <2>2. CASE ~Throws(h)
      <3>1. /\ endpoint' = [endpoint EXCEPT ![EndpointOf(DeliveryOf(h))].consecutiveFailures = @ + 1]
            /\ enables' = enables
        BY <1>3, <2>2 DEF FinaliseFailure, elsewhere
      <3>2. \/ endpoint'[e] = endpoint[e]
            \/ EndpointOf(DeliveryOf(h)) = e /\ endpoint'[e].status = endpoint[e].status
        BY <3>1 DEF TypeOK, EndpointRow
      <3> QED
        BY <1>3, <2>2, <3>1, <3>2 DEF EndpointMoves
    <2> QED
      BY <2>1, <2>2
  <1>4. ASSUME NEW h \in Handlers, DisableAtThreshold(h) PROVE EndpointMoves(e)
    <2>1. \/ endpoint'[e] = endpoint[e]
          \/ endpoint'[e].status = "DISABLED"
      BY <1>4 DEF DisableAtThreshold, TypeOK, EndpointRow
    <2> QED
      BY <1>4, <2>1 DEF DisableAtThreshold, elsewhere, EndpointMoves
  <1>5. ASSUME NEW x \in Endpoints, EnableEndpoint(x) PROVE EndpointMoves(e)
    <2>1. \/ endpoint'[e] = endpoint[e] /\ enables'[e] = enables[e]
          \/ endpoint'[e].consecutiveFailures = 0 /\ enables'[e] = enables[e] + 1
      BY <1>5 DEF EnableEndpoint, TypeOK
    <2> QED
      BY <2>1 DEF EndpointMoves
  <1>6. ASSUME NEW x \in Endpoints, DisableEndpoint(x) \/ RemoveEndpoint(x)
        PROVE  EndpointMoves(e)
    <2>1. /\ enables' = enables
          /\ endpoint'[e] = endpoint[e] \/ endpoint'[e].status \in {"DISABLED", "REMOVED"}
      BY <1>6 DEF DisableEndpoint, RemoveEndpoint, counters, TypeOK, EndpointRow
    <2> QED
      BY <2>1 DEF EndpointMoves
  <1>7. ASSUME NEW h \in Handlers, SkipDisabled(h) \/ MarkInFlight(h) \/ FinaliseRetry(h)
        PROVE  endpoint' = endpoint /\ enables' = enables
    BY <1>7 DEF SkipDisabled, MarkInFlight, FinaliseRetry, Throws, tables, elsewhere
  <1>8. ASSUME NEW h \in Handlers, PublishThrottle(h) \/ PublishRetry(h) \/ PublishDeadLetter(h)
        PROVE  endpoint' = endpoint /\ enables' = enables
    BY <1>8 DEF PublishThrottle, PublishRetry, PublishDeadLetter, Throws, tables, elsewhere
  <1> QED
    BY <1>1, <1>2, <1>3, <1>4, <1>5, <1>6, <1>7, <1>8
       DEF Next, RequestStep, HandlerStep, SweeperStep, Quiet, vars, tables, bystanders,
           others, elsewhere, counters, PublishEvent, Replay, CommitRows, CommitRejected,
           PublishRow, Respond, PublishFails, Consume, Ack, Catch, FindDelivery, TakeToken,
           Send, AnnounceDisable, HandlerError, WorkerCrash, ConnectionLoss, ReadStuck,
           Claim, Recover, RecoverFails, Release, SweeperCrash, Age, SelectStale,
           DeleteStale, Expire

\* A busy handler that keeps its message keeps its delivery's endpoint.
LEMMA EndpointKept ==
    ASSUME TypeOK, LiveInv, [Next]_vars, NEW h \in Handlers, Busy(h),
           handler'[h].msg = handler[h].msg
    PROVE  /\ DeliveryOf(h)' = DeliveryOf(h)
           /\ EndpointOf(DeliveryOf(h))' = EndpointOf(DeliveryOf(h))
  <1>1. PICK d \in Deliveries : d = DeliveryOf(h) /\ d = DeliveryOf(h)'
    BY BusyHandler DEF DeliveryOf
  <1>2. Live(d)
    BY <1>1 DEF LiveInv
  <1>3. delivery'[d].endpointId = delivery[d].endpointId
    BY <1>2, RowsStay DEF Stays, Live
  <1> QED
    BY <1>1, <1>3 DEF EndpointOf, DeliveryOf

\* The handler's conditional update is the one that disables the endpoint.
Disables(h, e) ==
    DisableAtThreshold(h) /\ CrossedThreshold(e) /\ EndpointOf(DeliveryOf(h)) = e

\* A handler is about to announce the disable of an endpoint only if it was, or if
\* it has just run the update that matched.
LEMMA AnnouncingSource ==
    ASSUME TypeOK, LiveInv, [Next]_vars, NEW e \in Endpoints, NEW h \in Announcing(e)'
    PROVE  h \in Announcing(e) \/ Disables(h, e)
  <1>1. /\ h \in Handlers /\ handler'[h].disable /\ EndpointOf(DeliveryOf(h))' = e
        /\ handler'[h].pc \in {"dead_letter", "announce"}
    BY DEF Announcing
  <1>2. CASE handler'[h] = handler[h] \/ (Moves(h) /\ handler'[h].pc = handler[h].pc)
    <2>1. /\ Busy(h) /\ handler'[h].msg = handler[h].msg /\ handler[h].disable
          /\ handler[h].pc \in {"dead_letter", "announce"}
      BY <1>1, <1>2 DEF Moves, Busy
    <2> QED
      BY <1>1, <2>1, EndpointKept DEF Announcing
  <1>3. CASE Moves(h) /\ PublishDeadLetter(h)
    <2>1. /\ Busy(h) /\ handler'[h].msg = handler[h].msg /\ handler[h].disable
          /\ handler[h].pc = "dead_letter"
      BY <1>1, <1>3 DEF Moves, PublishDeadLetter, At
    <2> QED
      BY <1>1, <2>1, EndpointKept DEF Announcing
  <1>4. CASE DisableAtThreshold(h)
    <2>1. /\ Busy(h) /\ handler'[h].msg = handler[h].msg
          /\ handler'[h].disable = CrossedThreshold(EndpointOf(DeliveryOf(h)))
      BY <1>1, <1>4 DEF DisableAtThreshold, At, Busy, TypeOK, HandlerState
    <2> QED
      BY <1>1, <1>4, <2>1, EndpointKept DEF Disables
  <1>5. /\ ~Takes(h) /\ ~Stops(h)
        /\ ~(handler[h].pc \notin Later /\ handler'[h].pc \notin Later)
        /\ handler'[h].pc \notin {"disable", "settled", "catch"}
    BY <1>1 DEF Takes, Stops, Later
  <1> QED
    BY <1>1, <1>2, <1>3, <1>4, <1>5, HandlersMove DEF HandlerMoves

\* DisableAnnouncedOnce is not inductive: an endpoint that is still ACTIVE may be
\* disabled once more.  It has that disable to spend.
Unspent(e) == IF endpoint[e].status = "ACTIVE" THEN 1 ELSE 0
AnnounceInv ==
    /\ \A h \in Handlers : At(h, "announce") => handler[h].disable
    /\ \A e \in Endpoints :
          announced[e] + Cardinality(Announcing(e)) + Unspent(e) <= 1 + enables[e]

\* Announcing is a finite set of handlers.
LEMMA AnnouncingFinite ==
    ASSUME NEW e
    PROVE  /\ IsFiniteSet(Announcing(e)) /\ Cardinality(Announcing(e)) \in Nat
           /\ IsFiniteSet(Announcing(e)') /\ Cardinality(Announcing(e)') \in Nat
  <1>1. Announcing(e) \subseteq Handlers /\ Announcing(e)' \subseteq Handlers
    BY DEF Announcing
  <1> QED
    BY <1>1, StateAssumption, FS_Subset, FS_CardinalityType

\* The announcements grow by the one a handler makes.
LEMMA AnnouncedStep ==
    ASSUME TypeOK, [Next]_vars, NEW e \in Endpoints, announced'[e] # announced[e]
    PROVE  /\ announced'[e] = announced[e] + 1
           /\ \E h \in Handlers : AnnounceDisable(h) /\ EndpointOf(DeliveryOf(h)) = e
  <1>1. ASSUME NEW h \in Handlers, AnnounceDisable(h)
        PROVE  announced'[e] = announced[e] + 1 /\ EndpointOf(DeliveryOf(h)) = e
    <2>1. PICK x : x = EndpointOf(DeliveryOf(h))
      OBVIOUS
    <2>2. announced' = [announced EXCEPT ![x] = @ + 1]
      BY <1>1, <2>1 DEF AnnounceDisable
    <2> QED
      BY <2>1, <2>2 DEF TypeOK
  <1>2. \E h \in Handlers : AnnounceDisable(h)
    BY DEF Next, RequestStep, HandlerStep, SweeperStep, Quiet, vars, counters, bystanders,
           others, PublishEvent, Replay, CommitRows, CommitRejected, PublishRow, Respond,
           PublishFails, Consume, Ack, Catch, FindDelivery, SkipDisabled, TakeToken,
           PublishThrottle, MarkInFlight, Send, FinaliseSuccess, FinaliseRetry,
           PublishRetry, FinaliseFailure, DisableAtThreshold, PublishDeadLetter,
           HandlerError, WorkerCrash, ConnectionLoss, ReadStuck, Claim, Recover,
           RecoverFails, Release, SweeperCrash, EnableEndpoint, DisableEndpoint,
           RemoveEndpoint, Age, SelectStale, DeleteStale, Expire
  <1> QED
    BY <1>1, <1>2

\* AnnounceInv is inductive.
LEMMA AnnounceStep == TypeOK /\ LiveInv /\ AnnounceInv /\ [Next]_vars => AnnounceInv'
  <1> SUFFICES ASSUME TypeOK, LiveInv, AnnounceInv, [Next]_vars PROVE AnnounceInv'
    OBVIOUS
  <1>1. TypeOK'
    BY TypeStep
  <1>2. ASSUME NEW h \in Handlers, At(h, "announce")' PROVE handler'[h].disable
    <2>1. CASE handler'[h] = handler[h] \/ (Moves(h) /\ handler'[h].pc = handler[h].pc)
      BY <1>2, <2>1 DEF Moves, At, AnnounceInv
    <2>2. CASE Moves(h) /\ PublishDeadLetter(h)
      <3>1. CASE Throws(h)
        BY <1>2, <3>1 DEF Throws, Goto, At, TypeOK, HandlerState
      <3>2. CASE ~Throws(h) /\ ~handler[h].disable
        BY <1>2, <2>2, <3>2 DEF PublishDeadLetter, Goto, At, TypeOK, HandlerState
      <3>3. CASE handler[h].disable
        BY <2>2, <3>3 DEF Moves
      <3> QED
        BY <3>1, <3>2, <3>3
    <2>3. CASE DisableAtThreshold(h)
      BY <1>2, <2>3 DEF DisableAtThreshold, At, TypeOK, HandlerState
    <2>4. /\ ~Takes(h) /\ ~Stops(h)
          /\ ~(handler[h].pc \notin Later /\ handler'[h].pc \notin Later)
          /\ handler'[h].pc \notin {"disable", "settled", "catch"}
      BY <1>2 DEF Takes, Stops, Later, At
    <2> QED
      BY <1>2, <2>1, <2>2, <2>3, <2>4, HandlersMove DEF HandlerMoves
  <1>3. ASSUME NEW e \in Endpoints
        PROVE  announced'[e] + Cardinality(Announcing(e)') + Unspent(e)' <= 1 + enables'[e]
    <2> DEFINE before == Cardinality(Announcing(e))
               after  == Cardinality(Announcing(e)')
    <2>1. /\ announced[e] + before + Unspent(e) <= 1 + enables[e]
          /\ announced[e] \in Nat /\ enables[e] \in Nat
          /\ announced'[e] \in Nat /\ enables'[e] \in Nat
          /\ before \in Nat /\ after \in Nat
          /\ Unspent(e) \in {0, 1} /\ Unspent(e)' \in {0, 1}
      BY <1>1, AnnouncingFinite DEF AnnounceInv, TypeOK, Unspent
    <2>2. CASE \E h \in Handlers : Disables(h, e)
      <3>1. PICK h \in Handlers : Disables(h, e)
        BY <2>2
      <3>2. /\ endpoint'[e].status = "DISABLED" /\ endpoint[e].status = "ACTIVE"
            /\ announced' = announced /\ enables' = enables
            /\ \A x \in Handlers : x # h => handler'[x] = handler[x]
        BY <3>1 DEF Disables, DisableAtThreshold, CrossedThreshold, elsewhere, TypeOK,
                    EndpointRow
      <3>3. Announcing(e)' \subseteq Announcing(e) \cup {h}
        <4>1. ASSUME NEW x \in Announcing(e)', x # h PROVE x \in Announcing(e)
          <5>1. x \in Handlers /\ handler'[x] = handler[x] /\ Busy(x)'
            BY <3>2, <4>1 DEF Announcing
          <5>2. ~Disables(x, e)
            <6> SUFFICES ASSUME DisableAtThreshold(x) PROVE FALSE
              BY DEF Disables
            <6> QED
              BY <5>1 DEF DisableAtThreshold, At, TypeOK, HandlerState
          <5> QED
            BY <5>2, AnnouncingSource
        <4> QED
          BY <4>1
      <3>4. after <= before + 1
        <4>1. /\ IsFiniteSet(Announcing(e) \cup {h})
              /\ Cardinality(Announcing(e) \cup {h}) \in {before, before + 1}
          BY AnnouncingFinite, FS_AddElement
        <4>2. after <= Cardinality(Announcing(e) \cup {h})
          BY <3>3, <4>1, FS_Subset
        <4> QED
          BY <2>1, <4>1, <4>2
      <3>5. Unspent(e) = 1 /\ Unspent(e)' = 0
        BY <3>2 DEF Unspent
      <3> HIDE DEF before, after
      <3> QED
        BY <2>1, <3>2, <3>4, <3>5 DEF after
    <2>3. CASE ~\E h \in Handlers : Disables(h, e)
      <3>1. Announcing(e)' \subseteq Announcing(e)
        BY <2>3, AnnouncingSource DEF Announcing
      <3>2. after <= before
        BY <3>1, AnnouncingFinite, FS_Subset
      <3>3. Unspent(e)' - enables'[e] <= Unspent(e) - enables[e]
        BY <2>1, EndpointsMove DEF EndpointMoves, Unspent
      <3>4. CASE announced'[e] = announced[e]
        <4> HIDE DEF before, after
        <4> QED
          BY <2>1, <3>2, <3>3, <3>4 DEF after
      <3>5. CASE announced'[e] # announced[e]
        <4>1. PICK h \in Handlers : AnnounceDisable(h) /\ EndpointOf(DeliveryOf(h)) = e
          BY <3>5, AnnouncedStep
        <4>2. h \in Announcing(e)
          BY <4>1 DEF AnnounceDisable, AnnounceInv, Announcing, At, Busy
        <4>3. h \notin Announcing(e)'
          BY <4>1 DEF AnnounceDisable, Announcing, Goto, TypeOK, HandlerState
        <4>4. after <= before - 1
          <5>1. Announcing(e)' \subseteq Announcing(e) \ {h}
            BY <3>1, <4>3
          <5>2. /\ IsFiniteSet(Announcing(e) \ {h})
                /\ Cardinality(Announcing(e) \ {h}) = before - 1
            BY <4>2, AnnouncingFinite, FS_RemoveElement
          <5> QED
            BY <5>1, <5>2, FS_Subset
        <4>5. announced'[e] = announced[e] + 1
          BY <3>5, AnnouncedStep
        <4> HIDE DEF before, after
        <4> QED
          BY <2>1, <3>3, <4>4, <4>5 DEF after
      <3> QED
        BY <3>4, <3>5
    <2> QED
      BY <2>2, <2>3
  <1>4. \A e \in Endpoints : Cardinality(Announcing(e))' = Cardinality(Announcing(e)')
    OBVIOUS
  <1> QED
    BY <1>2, <1>3, <1>4 DEF AnnounceInv

\* docs/architecture.md, section 10: however many workers cross the threshold
\* together, and whatever fails, an endpoint's disable is announced at most once
\* until an operator enables the endpoint again.
THEOREM AnnouncedOnce == Spec => []DisableAnnouncedOnce
  <1>1. Init => AnnounceInv
    <2> SUFFICES ASSUME Init PROVE AnnounceInv
      OBVIOUS
    <2>1. \A h \in Handlers : handler[h].pc = "idle"
      BY DEF Init, IdleHandler
    <2>2. ASSUME NEW e \in Endpoints
          PROVE  announced[e] + Cardinality(Announcing(e)) + Unspent(e) <= 1 + enables[e]
      <3>1. Announcing(e) = {}
        BY <2>1 DEF Announcing
      <3>2. Cardinality(Announcing(e)) = 0
        BY <3>1, FS_EmptySet
      <3> QED
        BY <3>2 DEF Init, Unspent
    <2> QED
      BY <2>1, <2>2 DEF AnnounceInv, At
  <1>2. TypeOK /\ AnnounceInv => DisableAnnouncedOnce
    <2> SUFFICES ASSUME TypeOK, AnnounceInv, NEW e \in Endpoints
                 PROVE  announced[e] + Cardinality(Announcing(e)) <= 1 + enables[e]
      BY DEF DisableAnnouncedOnce
    <2>1. /\ announced[e] \in Nat /\ enables[e] \in Nat /\ Unspent(e) \in {0, 1}
          /\ Cardinality(Announcing(e)) \in Nat
      BY AnnouncingFinite DEF TypeOK, Unspent
    <2> QED
      BY <2>1 DEF AnnounceInv
  <1> QED
    BY <1>1, <1>2, AnnounceStep, LiveInvariant, TypeCorrect, PTL DEF Spec

-----------------------------------------------------------------------------
(* What follows a failed delivery.  A handler that throws or dies between its  *)
(* transaction and the two steps after it leaves them undone, so both theorems *)
(* exclude that.                                                               *)

Interruptions == {"handler_error", "worker_crash"}

\* A handler on its way to the conditional update runs it.
LEMMA DisableIsReached ==
    ASSUME TypeOK, [Next]_vars, Environment \cap Interruptions = {},
           NEW h \in Handlers, At(h, "disable")
    PROVE  \/ handler'[h].msg = handler[h].msg /\ At(h, "disable")'
           \/ DisableAtThreshold(h)
  <1>1. ~WorkerCrash(h) /\ ~HandlerError(h)
    BY DEF WorkerCrash, HandlerError, Occurs, Interruptions
  <1>2. /\ ~Takes(h) /\ ~Stops(h) /\ ~PublishDeadLetter(h) /\ ~AnnounceDisable(h)
        /\ ~(handler[h].pc \notin Later /\ handler'[h].pc \notin Later)
    BY <1>1 DEF Takes, Stops, PublishDeadLetter, AnnounceDisable, Later, At
  <1> QED
    BY <1>1, <1>2, HandlersMove DEF HandlerMoves, Moves, At

\* ThresholdDisables is inductive, given that handlers refer to inserted rows.
LEMMA ThresholdStep ==
    ASSUME TypeOK, LiveInv, ThresholdDisables, [Next]_vars,
           Environment \cap Interruptions = {}
    PROVE  ThresholdDisables'
  <1> SUFFICES ASSUME NEW e \in Endpoints, CrossedThreshold(e)'
               PROVE  \E h \in Handlers : At(h, "disable")' /\ EndpointOf(DeliveryOf(h))' = e
    BY DEF ThresholdDisables
  <1> USE DEF CrossedThreshold
  <1>1. CASE endpoint'[e] = endpoint[e]
    <2>1. PICK h \in Handlers : At(h, "disable") /\ EndpointOf(DeliveryOf(h)) = e
      BY <1>1 DEF ThresholdDisables
    <2>2. ~DisableAtThreshold(h)
      <3> SUFFICES ASSUME DisableAtThreshold(h) PROVE FALSE
        OBVIOUS
      <3>1. CrossedThreshold(EndpointOf(DeliveryOf(h)))
        BY <1>1, <2>1
      <3>2. endpoint'[e].status = "DISABLED"
        BY <2>1, <3>1 DEF DisableAtThreshold, TypeOK, EndpointRow
      <3> QED
        BY <3>2
    <2>3. handler'[h].msg = handler[h].msg /\ At(h, "disable")'
      BY <2>1, <2>2, DisableIsReached
    <2>4. Busy(h)
      BY <2>1 DEF At, Busy
    <2> QED
      BY <2>1, <2>3, <2>4, EndpointKept
  <1>2. CASE \E h \in Handlers : /\ FinaliseFailure(h) /\ ~Throws(h)
                                 /\ EndpointOf(DeliveryOf(h)) = e
    <2>1. PICK h \in Handlers : /\ FinaliseFailure(h) /\ ~Throws(h)
                                /\ EndpointOf(DeliveryOf(h)) = e
      BY <1>2
    <2>2. /\ Busy(h) /\ handler'[h].msg = handler[h].msg /\ At(h, "disable")'
      BY <2>1 DEF FinaliseFailure, Goto, At, Busy, TypeOK, HandlerState
    <2> QED
      BY <2>1, <2>2, EndpointKept
  <1>3. endpoint'[e].consecutiveFailures # 0
    BY StateAssumption
  <1> QED
    BY <1>1, <1>2, <1>3, EndpointsMove DEF EndpointMoves

\* docs/architecture.md, section 10: at the threshold the endpoint moves to
\* DISABLED.  Unless the handler that crosses it throws or dies before its
\* conditional update, an ACTIVE endpoint is never left at the threshold.
THEOREM Threshold ==
    ASSUME Environment \cap Interruptions = {} PROVE Spec => []ThresholdDisables
  <1>1. Init => ThresholdDisables
    BY StateAssumption DEF Init, ThresholdDisables, CrossedThreshold
  <1>2. TypeOK /\ LiveInv /\ ThresholdDisables /\ [Next]_vars => ThresholdDisables'
    BY ThresholdStep
  <1> QED
    BY <1>1, <1>2, LiveInvariant, TypeCorrect, PTL DEF Spec

\* A delivery fails for good in the transaction of its handler only.
LEMMA FailureSource ==
    ASSUME TypeOK, [Next]_vars, NEW d \in Deliveries,
           delivery'[d].status = "FAILED_PERMANENTLY"
    PROVE  \/ delivery[d].status = "FAILED_PERMANENTLY"
           \/ \E h \in Handlers : FinaliseFailure(h) /\ ~Throws(h) /\ DeliveryOf(h) = d
  <1> DEFINE Known ==
           \/ delivery[d].status = "FAILED_PERMANENTLY"
           \/ \E h \in Handlers : FinaliseFailure(h) /\ ~Throws(h) /\ DeliveryOf(h) = d
  <1> SUFFICES Known
    OBVIOUS
  <1>1. CASE UNCHANGED delivery
    BY <1>1
  <1>2. ASSUME NEW c, NEW status, SetStatus(c, status), status # "FAILED_PERMANENTLY"
        PROVE  Known
    BY <1>2 DEF SetStatus, TypeOK, DeliveryRow
  <1>3. ASSUME NEW h \in Handlers, SkipDisabled(h) \/ MarkInFlight(h) PROVE Known
    BY <1>1, <1>2, <1>3 DEF SkipDisabled, MarkInFlight, Throws, tables
  <1>4. ASSUME NEW h \in Handlers, FinaliseSuccess(h) \/ FinaliseRetry(h) PROVE Known
    <2>1. \/ Throws(h)
          \/ Commits(h, "SUCCEEDED") \/ Commits(h, "RETRYING")
      BY <1>4, Committed
    <2> QED
      BY <1>1, <2>1 DEF Throws, Commits, tables
  <1>5. ASSUME NEW h \in Handlers, FinaliseFailure(h) PROVE Known
    <2>1. CASE Throws(h)
      BY <1>1, <2>1 DEF Throws, tables
    <2>2. CASE ~Throws(h)
      BY <1>5, <2>2, Committed DEF Commits
    <2> QED
      BY <2>1, <2>2
  <1>6. ASSUME NEW r \in Requests, CommitRows(r) PROVE Known
    <2>1. PICK opened, skipped \in SUBSET Deliveries : Inserts(r, opened, skipped)
      BY <1>6, CommitInserts
    <2> QED
      BY <2>1 DEF Inserts
  <1>7. ASSUME NEW s \in Sweepers, Claim(s) \/ Release(s) PROVE Known
    BY <1>1, <1>2, <1>7 DEF Claim, Release
  <1>8. ASSUME NEW c \in Deliveries, Age(c) PROVE Known
    BY <1>8 DEF Age, TypeOK, DeliveryRow
  <1>9. CASE DeleteStale
    BY <1>9 DEF DeleteStale, TypeOK, DeliveryRow
  <1> HIDE DEF Known
  <1> QED
    BY <1>1, <1>3, <1>4, <1>5, <1>6, <1>7, <1>8, <1>9
       DEF Next, RequestStep, HandlerStep, SweeperStep, Quiet, vars, tables,
           PublishEvent, Replay, CommitRejected, PublishRow, Respond, PublishFails,
           Consume, Ack, Catch, FindDelivery, TakeToken, PublishThrottle, Send,
           PublishRetry, DisableAtThreshold, PublishDeadLetter, AnnounceDisable,
           HandlerError, WorkerCrash, ConnectionLoss, Throws, ReadStuck, Recover,
           RecoverFails, SweeperCrash, EnableEndpoint, DisableEndpoint,
           RemoveEndpoint, SelectStale, Expire

\* The dead-letter queue keeps what it got.
LEMMA DeadLettersStay ==
    ASSUME TypeOK, [Next]_vars PROVE deadLettered \subseteq deadLettered'
  <1>1. ASSUME NEW h \in Handlers, PublishThrottle(h) \/ PublishRetry(h)
        PROVE  deadLettered' = deadLettered
    BY <1>1 DEF PublishThrottle, PublishRetry, publishParked, Throws, broker
  <1>2. ASSUME NEW h \in Handlers, PublishDeadLetter(h)
        PROVE  deadLettered \subseteq deadLettered'
    BY <1>2 DEF PublishDeadLetter, Throws, broker
  <1>3. ASSUME NEW h \in Handlers,
               SkipDisabled(h) \/ MarkInFlight(h) \/ FinaliseSuccess(h)
                 \/ FinaliseRetry(h) \/ FinaliseFailure(h)
        PROVE  deadLettered' = deadLettered
    BY <1>3 DEF SkipDisabled, MarkInFlight, FinaliseSuccess, FinaliseRetry,
                FinaliseFailure, Throws, broker
  <1>4. ASSUME NEW s \in Sweepers, Recover(s) \/ RecoverFails(s)
        PROVE  deadLettered' = deadLettered
    BY <1>4 DEF Recover, RecoverFails, publishDelivery, broker
  <1> QED
    BY <1>1, <1>2, <1>3, <1>4
       DEF Next, RequestStep, HandlerStep, SweeperStep, Quiet, vars, broker,
           PublishEvent, Replay, CommitRows, CommitRejected, PublishRow, publishDelivery,
           Respond, PublishFails, Consume, Ack, Catch, FindDelivery, TakeToken, Send,
           DisableAtThreshold, AnnounceDisable, HandlerError, WorkerCrash, ConnectionLoss,
           ReadStuck, Claim, Release, SweeperCrash, EnableEndpoint, DisableEndpoint,
           RemoveEndpoint, Age, SelectStale, DeleteStale, Expire

\* FailedIsDeadLettered is inductive while handlers keep their channel.
LEMMA DeadLetterStep ==
    ASSUME TypeOK, ConnectedInv, FailedIsDeadLettered, [Next]_vars,
           Environment \cap Interruptions = {}
    PROVE  FailedIsDeadLettered'
  <1> SUFFICES ASSUME NEW d \in Deliveries, delivery'[d].status = "FAILED_PERMANENTLY",
                      d \notin deadLettered'
               PROVE  \E h \in Handlers : /\ handler'[h].pc \in {"disable", "dead_letter"}
                                          /\ DeliveryOf(h)' = d
    BY DEF FailedIsDeadLettered
  <1>1. CASE \E h \in Handlers : FinaliseFailure(h) /\ ~Throws(h) /\ DeliveryOf(h) = d
    <2>1. PICK h \in Handlers : FinaliseFailure(h) /\ ~Throws(h) /\ DeliveryOf(h) = d
      BY <1>1
    <2>2. handler'[h].pc = "disable" /\ handler'[h].msg = handler[h].msg
      BY <2>1 DEF FinaliseFailure, Goto, TypeOK, HandlerState
    <2> QED
      BY <2>1, <2>2 DEF DeliveryOf
  <1>2. CASE delivery[d].status = "FAILED_PERMANENTLY"
    <2>1. PICK h \in Handlers : /\ handler[h].pc \in {"disable", "dead_letter"}
                                /\ DeliveryOf(h) = d
      BY <1>2, DeadLettersStay DEF FailedIsDeadLettered
    <2>2. ~WorkerCrash(h) /\ ~HandlerError(h)
      BY DEF WorkerCrash, HandlerError, Occurs, Interruptions
    <2>3. ~PublishDeadLetter(h)
      BY <2>1 DEF PublishDeadLetter, ConnectedInv
    <2>4. /\ ~Takes(h) /\ ~Stops(h) /\ ~AnnounceDisable(h)
          /\ ~(handler[h].pc \notin Later /\ handler'[h].pc \notin Later)
      BY <2>1, <2>2 DEF Takes, Stops, AnnounceDisable, Later, At
    <2>5. ASSUME DisableAtThreshold(h)
          PROVE  handler'[h].pc = "dead_letter" /\ handler'[h].msg = handler[h].msg
      BY <2>5 DEF DisableAtThreshold, TypeOK, HandlerState
    <2>6. /\ handler'[h].pc \in {"disable", "dead_letter"}
          /\ handler'[h].msg = handler[h].msg
      BY <2>1, <2>2, <2>3, <2>4, <2>5, HandlersMove DEF HandlerMoves, Moves
    <2> QED
      BY <2>1, <2>6 DEF DeliveryOf
  <1> QED
    BY <1>1, <1>2, FailureSource

\* docs/architecture.md, section 5: a delivery that failed for good is routed to
\* webhook.dlq.  Unless its handler throws, dies or loses its channel on the way,
\* it is there or its handler is about to put it there.
THEOREM DeadLettered ==
    ASSUME Environment \cap Interruptions = {}, "connection_loss" \notin Environment
    PROVE  Spec => []FailedIsDeadLettered
  <1>1. Init => ConnectedInv /\ FailedIsDeadLettered
    BY DEF Init, ConnectedInv, FailedIsDeadLettered, NewDelivery, IdleHandler
  <1>2. TypeOK /\ ConnectedInv /\ [Next]_vars => ConnectedInv'
    BY ConnectedStep
  <1>3. TypeOK /\ ConnectedInv /\ FailedIsDeadLettered /\ [Next]_vars
           => FailedIsDeadLettered'
    BY DeadLetterStep
  <1> QED
    BY <1>1, <1>2, <1>3, TypeCorrect, PTL DEF Spec

-----------------------------------------------------------------------------
(* The chain of a delivery.  While nothing fails, a delivery has at every       *)
(* moment one keeper: nobody, one message, one handler or one API call, and     *)
(* its row agrees with the attempt the keeper is to make.                       *)

NoFailures == Environment \cap Failures = {}

\* Attempt n is the delivery's next one, and the ladder has it.
Due(d, n) == delivery[d].attemptCount + 1 = n /\ n <= MAX_ATTEMPTS

\* The row while attempt n waits for a handler, while a handler makes it, and
\* between its end and the publish of its successor.
Waiting(d, n) ==
    \/ Purged(d)
    \/ delivery[d].status \in {"PENDING", "RETRYING"} /\ Due(d, n)
Running(d, n) == Purged(d) \/ (delivery[d].status = "IN_FLIGHT" /\ Due(d, n))
Rescheduling(d, n) ==
    \/ Purged(d)
    \/ /\ delivery[d].status = "RETRYING"
       /\ delivery[d].attemptCount = n /\ n < MAX_ATTEMPTS

Before == {"find", "skip", "take", "throttle", "mark"}
During == {"send", "commit_success", "commit_retry", "commit_failure"}

\* The handler has not settled the delivery.
Works(h, d) ==
    /\ handler[h].pc \in Before \cup During \cup {"publish_retry", "catch"}
    /\ DeliveryOf(h) = d
HandlerAgrees(h, d) ==
    /\ handler[h].pc \in Before => Waiting(d, AttemptOf(h))
    /\ handler[h].pc \in During => Running(d, AttemptOf(h))
    /\ handler[h].pc = "commit_retry" => AttemptOf(h) < MAX_ATTEMPTS
    /\ handler[h].pc = "publish_retry" => Rescheduling(d, AttemptOf(h))
    /\ handler[h].pc = "catch" => Purged(d)

NoMessageOf(d) == \A m \in queue \cup parked : m.deliveryId # d
NoWorkerOf(d) == \A h \in Handlers : ~Works(h, d)
NoCallOf(d) == \A r \in Requests : d \notin request[r].todo

Unkept(d) ==
    /\ NoMessageOf(d) /\ NoWorkerOf(d) /\ NoCallOf(d)
    /\ delivery[d].status # "IN_FLIGHT"
KeptByMessage(d, m) ==
    /\ m \in queue \cup parked /\ m.deliveryId = d /\ ~(m \in queue /\ m \in parked)
    /\ \A n \in queue \cup parked : n.deliveryId = d => n = m
    /\ NoWorkerOf(d) /\ NoCallOf(d)
    /\ Waiting(d, m.attempt)
KeptByHandler(d, h) ==
    /\ Works(h, d) /\ \A g \in Handlers : Works(g, d) => g = h
    /\ NoMessageOf(d) /\ NoCallOf(d)
    /\ HandlerAgrees(h, d)
KeptByCall(d, r) ==
    /\ d \in request[r].todo /\ \A q \in Requests : d \in request[q].todo => q = r
    /\ NoMessageOf(d) /\ NoWorkerOf(d)
    /\ Waiting(d, 1)

Keeper(d) ==
    \/ Unkept(d)
    \/ \E m \in Message : KeptByMessage(d, m)
    \/ \E h \in Handlers : KeptByHandler(d, h)
    \/ \E r \in Requests : KeptByCall(d, r)

\* No row is overdue, so the stuck sweeper has nothing to do.
RowCalm(d) ==
    /\ ~delivery[d].overdue
    /\ delivery[d].status = "ABSENT" => delivery[d].attemptCount = 0
Calm == \A s \in Sweepers : sweeper[s].pc = "idle"
ChainInv ==
    /\ \A d \in Deliveries : Keeper(d) /\ RowCalm(d)
    /\ Calm /\ ConnectedInv /\ CallInv

\* Nothing of the delivery changes.
Untouched(d) ==
    /\ delivery'[d] = delivery[d]
    /\ \A m \in Message : m.deliveryId = d =>
          (m \in queue' <=> m \in queue) /\ (m \in parked' <=> m \in parked)
    /\ \A h \in Handlers : \/ handler'[h] = handler[h]
                           \/ ~Works(h, d) /\ ~Works(h, d)'
    /\ \A r \in Requests : d \in request'[r].todo <=> d \in request[r].todo

\* A delivery of which nothing changes keeps its keeper.
LEMMA UntouchedKeeper ==
    ASSUME TypeOK, TypeOK', NEW d \in Deliveries, Keeper(d), RowCalm(d), Untouched(d)
    PROVE  Keeper(d)' /\ RowCalm(d)'
  <1>1. RowCalm(d)'
    BY DEF Untouched, RowCalm
  <1>2. ASSUME NEW n PROVE /\ Waiting(d, n)' <=> Waiting(d, n)
                           /\ Running(d, n)' <=> Running(d, n)
                           /\ Rescheduling(d, n)' <=> Rescheduling(d, n)
                           /\ Purged(d)' <=> Purged(d)
    BY DEF Untouched, Waiting, Running, Rescheduling, Purged, Due
  <1>3. ASSUME NEW h \in Handlers PROVE Works(h, d)' <=> Works(h, d)
    BY DEF Untouched, Works, DeliveryOf
  <1>4. ASSUME NEW h \in Handlers, Works(h, d) PROVE handler'[h] = handler[h]
    BY <1>4 DEF Untouched
  <1>5. /\ NoMessageOf(d)' <=> NoMessageOf(d)
        /\ NoWorkerOf(d)' <=> NoWorkerOf(d)
        /\ NoCallOf(d)' <=> NoCallOf(d)
    <2>1. NoMessageOf(d)' <=> NoMessageOf(d)
      BY DEF Untouched, NoMessageOf, TypeOK
    <2>2. NoWorkerOf(d)' <=> NoWorkerOf(d)
      BY <1>3 DEF NoWorkerOf
    <2>3. NoCallOf(d)' <=> NoCallOf(d)
      BY DEF Untouched, NoCallOf
    <2> QED
      BY <2>1, <2>2, <2>3
  <1>6. CASE Unkept(d)
    <2>1. Unkept(d)'
      BY <1>5, <1>6 DEF Unkept, Untouched
    <2> QED
      BY <1>1, <2>1 DEF Keeper
  <1>7. ASSUME NEW m \in Message, KeptByMessage(d, m) PROVE Keeper(d)'
    <2>1. KeptByMessage(d, m)'
      BY <1>2, <1>5, <1>7 DEF KeptByMessage, Untouched, TypeOK
    <2> QED
      BY <2>1 DEF Keeper
  <1>8. ASSUME NEW h \in Handlers, KeptByHandler(d, h) PROVE Keeper(d)'
    <2>1. handler'[h] = handler[h]
      BY <1>4, <1>8 DEF KeptByHandler
    <2>2. HandlerAgrees(h, d)'
      BY <1>2, <1>8, <2>1 DEF KeptByHandler, HandlerAgrees, AttemptOf
    <2>3. KeptByHandler(d, h)'
      BY <1>3, <1>5, <1>8, <2>2 DEF KeptByHandler
    <2> QED
      BY <2>3 DEF Keeper
  <1>9. ASSUME NEW r \in Requests, KeptByCall(d, r) PROVE Keeper(d)'
    <2>1. KeptByCall(d, r)'
      BY <1>2, <1>5, <1>9 DEF KeptByCall, Untouched
    <2> QED
      BY <2>1 DEF Keeper
  <1> QED
    BY <1>1, <1>6, <1>7, <1>8, <1>9 DEF Keeper

\* A handler that works on a delivery is its keeper.
LEMMA WorkerKeeps ==
    ASSUME NEW d, Keeper(d), NEW h \in Handlers, Works(h, d)
    PROVE  KeptByHandler(d, h)
  BY DEF Keeper, Unkept, KeptByMessage, KeptByHandler, KeptByCall, NoWorkerOf

\* A message of a delivery is its keeper.
LEMMA MessageKeeps ==
    ASSUME TypeOK, NEW d, Keeper(d), NEW m \in queue \cup parked, m.deliveryId = d
    PROVE  KeptByMessage(d, m)
  BY DEF Keeper, Unkept, KeptByMessage, KeptByHandler, KeptByCall, NoMessageOf

\* An API call that is to publish a delivery is its keeper.
LEMMA CallKeeps ==
    ASSUME NEW d, Keeper(d), NEW r \in Requests, d \in request[r].todo
    PROVE  KeptByCall(d, r)
  BY DEF Keeper, Unkept, KeptByMessage, KeptByHandler, KeptByCall, NoCallOf

-----------------------------------------------------------------------------
(* The steps of a handler. *)

\* Only an attempt below the last has a level to be retried at.
LEMMA RetriesBelowLast ==
    ASSUME NEW n \in Nat, NEW result, nextRetryLevel(result, n, Undefined) # NoLevel
    PROVE  n < MAX_ATTEMPTS
  BY DEF nextRetryLevel, shouldRetry

\* A handler moves on with the delivery it is the keeper of: it keeps it, or it has
\* settled it.
LEMMA HandlerKeepsOn ==
    ASSUME TypeOK, TypeOK', NEW d \in Deliveries, NEW c \in Handlers,
           KeptByHandler(d, c),
           \A x \in Handlers : x # c => handler'[x] = handler[x],
           handler'[c].msg = handler[c].msg,
           UNCHANGED <<queue, parked, request>>,
           \/ Works(c, d)' /\ HandlerAgrees(c, d)'
           \/ ~Works(c, d)' /\ delivery'[d].status # "IN_FLIGHT"
    PROVE  Keeper(d)'
  <1>1. NoMessageOf(d)' /\ NoCallOf(d)'
    BY DEF KeptByHandler, NoMessageOf, NoCallOf
  <1>2. \A g \in Handlers : g # c => ~Works(g, d)'
    BY DEF KeptByHandler, Works, DeliveryOf
  <1>3. CASE Works(c, d)' /\ HandlerAgrees(c, d)'
    <2>1. KeptByHandler(d, c)'
      BY <1>1, <1>2, <1>3 DEF KeptByHandler
    <2> QED
      BY <2>1 DEF Keeper
  <1>4. CASE ~Works(c, d)' /\ delivery'[d].status # "IN_FLIGHT"
    <2>1. NoWorkerOf(d)'
      BY <1>2, <1>4 DEF NoWorkerOf
    <2>2. Unkept(d)'
      BY <1>1, <1>4, <2>1 DEF Unkept
    <2> QED
      BY <2>2 DEF Keeper
  <1> QED
    BY <1>3, <1>4

\* A handler hands the delivery it is the keeper of to a message.
LEMMA HandlerHandsOn ==
    ASSUME TypeOK, NEW d \in Deliveries, NEW c \in Handlers,
           KeptByHandler(d, c),
           \A x \in Handlers : x # c => handler'[x] = handler[x],
           ~Works(c, d)', UNCHANGED request,
           NEW m \in Message, m.deliveryId = d, Waiting(d, m.attempt)',
           \/ parked' = parked \cup {m} /\ queue' = queue
           \/ queue' = queue \cup {m} /\ parked' = parked
    PROVE  Keeper(d)'
  <1>1. NoCallOf(d)'
    BY DEF KeptByHandler, NoCallOf
  <1>2. NoWorkerOf(d)'
    BY DEF KeptByHandler, Works, DeliveryOf, NoWorkerOf
  <1>3. m \notin queue /\ m \notin parked
    BY DEF KeptByHandler, NoMessageOf
  <1>4. \A n \in queue' \cup parked' : n.deliveryId = d => n = m
    BY DEF KeptByHandler, NoMessageOf
  <1>5. KeptByMessage(d, m)'
    BY <1>1, <1>2, <1>3, <1>4 DEF KeptByMessage
  <1> QED
    BY <1>5 DEF Keeper

\* A handler's next program counter decides what it keeps.
LEMMA WorksAt ==
    ASSUME TypeOK, NEW c \in Handlers, NEW pc, Goto(c, pc)
    PROVE  /\ handler'[c].pc = pc /\ handler'[c].msg = handler[c].msg
           /\ \A x \in Handlers : x # c => handler'[x] = handler[x]
           /\ DeliveryOf(c)' = DeliveryOf(c) /\ AttemptOf(c)' = AttemptOf(c)
  BY DEF Goto, TypeOK, HandlerState, DeliveryOf, AttemptOf

\* The same for the answer of the target.
LEMMA SendAt ==
    ASSUME TypeOK, NEW c \in Handlers, NEW result, Send(c, result)
    PROVE  /\ handler'[c].pc = IF result = "SUCCESS" THEN "commit_success"
                    ELSE IF nextRetryLevel(result, AttemptOf(c), Undefined) = NoLevel
                         THEN "commit_failure" ELSE "commit_retry"
           /\ handler'[c].msg = handler[c].msg
           /\ \A x \in Handlers : x # c => handler'[x] = handler[x]
  BY DEF Send, TypeOK, HandlerState

\* The steps with which a handler decides on the delivery it works on.
LEMMA HandlerDecides ==
    ASSUME TypeOK, TypeOK', NEW d \in Deliveries, NEW c \in Handlers, DeliveryOf(c) = d,
           Keeper(d), RowCalm(d), handler[c].connected,
           \/ FindDelivery(c)
           \/ \E allowed \in BOOLEAN : TakeToken(c, allowed)
           \/ \E result \in {"SUCCESS"} \cup FAILURE : Send(c, result)
    PROVE  Keeper(d)' /\ RowCalm(d)'
  <1>1. /\ UNCHANGED <<delivery, queue, parked, request>>
        /\ \A x \in Handlers : x # c => handler'[x] = handler[x]
        /\ handler'[c].msg = handler[c].msg
    <2>1. ASSUME NEW pc, Goto(c, pc)
          PROVE  /\ \A x \in Handlers : x # c => handler'[x] = handler[x]
                 /\ handler'[c].msg = handler[c].msg
      BY <2>1, WorksAt
    <2>2. ASSUME NEW result, Send(c, result)
          PROVE  /\ \A x \in Handlers : x # c => handler'[x] = handler[x]
                 /\ handler'[c].msg = handler[c].msg
      BY <2>2, SendAt
    <2>3. UNCHANGED <<delivery, queue, parked, request>>
      BY DEF FindDelivery, TakeToken, Send, tables, broker, elsewhere
    <2> QED
      BY <2>1, <2>2, <2>3 DEF FindDelivery, TakeToken
  <1>2. RowCalm(d)'
    BY <1>1 DEF RowCalm
  <1>3. Works(c, d) /\ Busy(c)
    BY DEF FindDelivery, TakeToken, Send, At, Works, Before, During, Busy
  <1>4. KeptByHandler(d, c)
    BY <1>3, WorkerKeeps
  <1>5. PICK n \in Nat \ {0} : n = AttemptOf(c) /\ n = AttemptOf(c)'
    BY <1>1, <1>3, BusyHandler DEF AttemptOf
  <1>6. /\ Waiting(d, n)' <=> Waiting(d, n)
        /\ Running(d, n)' <=> Running(d, n)
        /\ DeliveryOf(c)' = d
    BY <1>1 DEF Waiting, Running, Purged, Due, DeliveryOf
  <1>7. CASE FindDelivery(c)
    <2>1. Waiting(d, n)
      BY <1>4, <1>5, <1>7 DEF FindDelivery, At, KeptByHandler, HandlerAgrees, Before
    <2>2. CASE Purged(d)
      <3>1. handler'[c].pc = "done"
        BY <1>7, <2>2, WorksAt DEF FindDelivery, Purged, Exists, NOT_FOUND
      <3>2. ~Works(c, d)' /\ delivery'[d].status # "IN_FLIGHT"
        BY <1>1, <2>2, <3>1 DEF Works, Purged, Before, During
      <3> QED
        BY <1>1, <1>2, <1>4, <3>2, HandlerKeepsOn
    <2>3. CASE ~Purged(d)
      <3>1. Exists(d) /\ ~Terminal(d)
        BY <2>1, <2>3 DEF Waiting, Exists, Terminal, NOT_FOUND, TERMINAL_STATUSES
      <3>2. handler'[c].pc \in {"skip", "take"}
        BY <1>7, <3>1, WorksAt DEF FindDelivery
      <3>3. Works(c, d)' /\ HandlerAgrees(c, d)'
        BY <1>5, <1>6, <2>1, <3>2 DEF Works, HandlerAgrees, Before, During
      <3> QED
        BY <1>1, <1>2, <1>4, <3>3, HandlerKeepsOn
    <2> QED
      BY <2>2, <2>3
  <1>8. CASE \E allowed \in BOOLEAN : TakeToken(c, allowed)
    <2>1. Waiting(d, n)
      BY <1>4, <1>5, <1>8 DEF TakeToken, At, KeptByHandler, HandlerAgrees, Before
    <2>2. handler'[c].pc \in {"mark", "throttle"}
      BY <1>8, WorksAt DEF TakeToken
    <2>3. Works(c, d)' /\ HandlerAgrees(c, d)'
      BY <1>5, <1>6, <2>1, <2>2 DEF Works, HandlerAgrees, Before, During
    <2> QED
      BY <1>1, <1>2, <1>4, <2>3, HandlerKeepsOn
  <1>9. CASE \E result \in {"SUCCESS"} \cup FAILURE : Send(c, result)
    <2>1. PICK result \in {"SUCCESS"} \cup FAILURE : Send(c, result)
      BY <1>9
    <2>2. Running(d, n)
      BY <1>4, <1>5, <2>1 DEF Send, At, KeptByHandler, HandlerAgrees, During
    <2>3. handler'[c].pc = IF result = "SUCCESS" THEN "commit_success"
                    ELSE IF nextRetryLevel(result, n, Undefined) = NoLevel
                         THEN "commit_failure" ELSE "commit_retry"
      <3>1. handler'[c].pc = IF result = "SUCCESS" THEN "commit_success"
                    ELSE IF nextRetryLevel(result, AttemptOf(c), Undefined) = NoLevel
                         THEN "commit_failure" ELSE "commit_retry"
        BY <2>1, SendAt
      <3> QED
        BY <1>5, <3>1
    <2>4. handler'[c].pc = "commit_retry" => n < MAX_ATTEMPTS
      BY <2>3, RetriesBelowLast
    <2>5. handler'[c].pc \in {"commit_success", "commit_failure", "commit_retry"}
      BY <2>3
    <2>6. Works(c, d)' /\ HandlerAgrees(c, d)'
      BY <1>5, <1>6, <2>2, <2>4, <2>5 DEF Works, HandlerAgrees, Before, During
    <2> QED
      BY <1>1, <1>2, <1>4, <2>6, HandlerKeepsOn
  <1> QED
    BY <1>7, <1>8, <1>9

\* The steps with which a handler writes the row of the delivery it works on.  A
\* row that is gone makes it throw.
LEMMA HandlerWrites ==
    ASSUME TypeOK, TypeOK', NEW d \in Deliveries, NEW c \in Handlers, DeliveryOf(c) = d,
           Keeper(d), RowCalm(d),
           SkipDisabled(c) \/ MarkInFlight(c) \/ FinaliseSuccess(c)
              \/ FinaliseRetry(c) \/ FinaliseFailure(c)
    PROVE  Keeper(d)' /\ RowCalm(d)'
  <1>1. UNCHANGED <<queue, parked, request>>
    BY DEF SkipDisabled, MarkInFlight, FinaliseSuccess, FinaliseRetry, FinaliseFailure,
           Throws, broker, elsewhere
  <1>2. Works(c, d) /\ Busy(c)
    BY DEF SkipDisabled, MarkInFlight, FinaliseSuccess, FinaliseRetry, FinaliseFailure,
           At, Works, Before, During, Busy
  <1>3. KeptByHandler(d, c)
    BY <1>2, WorkerKeeps
  <1>4. PICK n \in Nat \ {0} : n = AttemptOf(c)
    BY <1>2, BusyHandler
  <1>5. \/ At(c, "skip") /\ Waiting(d, n)
        \/ At(c, "mark") /\ Waiting(d, n)
        \/ At(c, "commit_retry") /\ Running(d, n) /\ n < MAX_ATTEMPTS
        \/ handler[c].pc \in During /\ Running(d, n)
    BY <1>3, <1>4 DEF SkipDisabled, MarkInFlight, FinaliseSuccess, FinaliseRetry,
                      FinaliseFailure, At, KeptByHandler, HandlerAgrees, Before, During
  <1>6. CASE Throws(c)
    <2>1. delivery' = delivery /\ Goto(c, "catch")
      BY <1>6 DEF Throws, tables
    <2>2. ~Exists(d)
      <3>1. ~Goto(c, "settled") /\ ~Goto(c, "send") /\ ~Goto(c, "publish_retry")
               /\ ~Goto(c, "disable")
        BY <2>1, WorksAt
      <3> QED
        BY <3>1 DEF SkipDisabled, MarkInFlight, FinaliseSuccess, FinaliseRetry,
                    FinaliseFailure
    <2>3. Purged(d)
      BY <1>5, <2>2 DEF Waiting, Running, Exists, NOT_FOUND, Purged
    <2>4. handler'[c].pc = "catch" /\ DeliveryOf(c)' = d
      BY <2>1, WorksAt
    <2>5. Works(c, d)' /\ HandlerAgrees(c, d)'
      BY <2>1, <2>3, <2>4 DEF Works, HandlerAgrees, Before, During, Purged
    <2>6. RowCalm(d)'
      BY <2>1 DEF RowCalm
    <2> QED
      BY <1>1, <1>3, <2>1, <2>5, <2>6, WorksAt, HandlerKeepsOn
  <1>7. CASE ~Throws(c) /\ (SkipDisabled(c) \/ MarkInFlight(c))
    <2>1. PICK pc, status :
             /\ SetStatus(d, status) /\ Goto(c, pc)
             /\ \/ pc = "settled" /\ status = "SKIPPED"
                \/ pc = "send" /\ status = "IN_FLIGHT" /\ At(c, "mark")
      BY <1>7 DEF SkipDisabled, MarkInFlight
    <2>2. Exists(d)
      BY <1>7 DEF SkipDisabled, MarkInFlight
    <2>3. delivery[d] \in DeliveryRow
      BY DEF TypeOK
    <2>4. /\ delivery'[d].status = status
          /\ delivery'[d].attemptCount = delivery[d].attemptCount
          /\ delivery'[d].overdue = delivery[d].overdue
      <3>1. delivery'[d] = [delivery[d] EXCEPT !.status = status]
        BY <2>1 DEF SetStatus, TypeOK
      <3> QED
        BY <2>3, <3>1 DEF DeliveryRow
    <2>5. RowCalm(d)'
      BY <2>1, <2>4 DEF RowCalm
    <2>6. /\ handler'[c].pc = pc /\ DeliveryOf(c)' = d /\ AttemptOf(c)' = n
      BY <1>4, <2>1, WorksAt
    <2>7. CASE pc = "settled"
      <3>1. ~Works(c, d)' /\ delivery'[d].status # "IN_FLIGHT"
        BY <2>1, <2>4, <2>6, <2>7 DEF Works, Before, During
      <3> QED
        BY <1>1, <1>3, <2>1, <2>5, <3>1, WorksAt, HandlerKeepsOn
    <2>8. CASE pc = "send"
      <3>1. Waiting(d, n) /\ ~Purged(d)
        BY <1>5, <2>1, <2>2, <2>8 DEF At, During, Exists, NOT_FOUND, Purged
      <3>2. Running(d, n)'
        BY <2>1, <2>4, <2>8, <3>1 DEF Waiting, Running, Due
      <3>3. Works(c, d)' /\ HandlerAgrees(c, d)'
        BY <2>6, <2>8, <3>2 DEF Works, HandlerAgrees, Before, During
      <3> QED
        BY <1>1, <1>3, <2>1, <2>5, <3>3, WorksAt, HandlerKeepsOn
    <2> QED
      BY <2>1, <2>7, <2>8
  <1>8. CASE ~Throws(c) /\ (FinaliseSuccess(c) \/ FinaliseRetry(c) \/ FinaliseFailure(c))
    <2>1. PICK pc, status :
             /\ Commits(c, status) /\ Goto(c, pc)
             /\ \/ pc \in {"settled", "disable"}
                   /\ status \in {"SUCCEEDED", "FAILED_PERMANENTLY"}
                \/ pc = "publish_retry" /\ status = "RETRYING" /\ At(c, "commit_retry")
      <3>1. CASE FinaliseSuccess(c)
        BY <1>8, <3>1, Committed DEF FinaliseSuccess
      <3>2. CASE FinaliseRetry(c)
        BY <1>8, <3>2, Committed DEF FinaliseRetry
      <3>3. CASE FinaliseFailure(c)
        BY <1>8, <3>3, Committed DEF FinaliseFailure
      <3> QED
        BY <1>8, <3>1, <3>2, <3>3
    <2>2. /\ delivery'[d].status = status /\ delivery'[d].attemptCount = n
          /\ delivery'[d].overdue => delivery[d].overdue
      BY <1>4, <2>1 DEF Commits
    <2>3. RowCalm(d)'
      BY <2>1, <2>2 DEF RowCalm
    <2>4. /\ handler'[c].pc = pc /\ DeliveryOf(c)' = d /\ AttemptOf(c)' = n
      BY <1>4, <2>1, WorksAt
    <2>5. CASE pc \in {"settled", "disable"}
      <3>1. ~Works(c, d)' /\ delivery'[d].status # "IN_FLIGHT"
        BY <2>1, <2>2, <2>4, <2>5 DEF Works, Before, During
      <3> QED
        BY <1>1, <1>3, <2>1, <2>3, <3>1, WorksAt, HandlerKeepsOn
    <2>6. CASE pc = "publish_retry"
      <3>1. n < MAX_ATTEMPTS
        BY <1>3, <1>4, <2>1, <2>6 DEF At, KeptByHandler, HandlerAgrees
      <3>2. Rescheduling(d, n)'
        BY <2>1, <2>2, <2>6, <3>1 DEF Rescheduling
      <3>3. Works(c, d)' /\ HandlerAgrees(c, d)'
        BY <2>4, <2>6, <3>2 DEF Works, HandlerAgrees, Before, During
      <3> QED
        BY <1>1, <1>3, <2>1, <2>3, <3>3, WorksAt, HandlerKeepsOn
    <2> QED
      BY <2>1, <2>5, <2>6
  <1> QED
    BY <1>6, <1>7, <1>8

\* The steps with which a handler hands the delivery it works on to a message.
LEMMA HandlerPublishes ==
    ASSUME TypeOK, TypeOK', NEW d \in Deliveries, NEW c \in Handlers, DeliveryOf(c) = d,
           Keeper(d), RowCalm(d), handler[c].connected,
           PublishThrottle(c) \/ PublishRetry(c) \/ Catch(c)
    PROVE  Keeper(d)' /\ RowCalm(d)'
  <1>1. UNCHANGED <<delivery, request>>
    BY DEF PublishThrottle, PublishRetry, Catch, tables, elsewhere
  <1>2. RowCalm(d)'
    BY <1>1 DEF RowCalm
  <1>3. Works(c, d) /\ Busy(c)
    BY DEF PublishThrottle, PublishRetry, Catch, At, Works, Before, During, Busy
  <1>4. KeptByHandler(d, c)
    BY <1>3, WorkerKeeps
  <1>5. PICK n \in Nat \ {0} : n = AttemptOf(c)
    BY <1>3, BusyHandler
  <1>6. ASSUME NEW k, Waiting(d, k) PROVE Waiting(d, k)'
    BY <1>1, <1>6 DEF Waiting, Purged, Due
  <1>7. CASE PublishThrottle(c) \/ PublishRetry(c)
    <2>1. PICK k \in Nat \ {0} : publishParked(d, k) /\ Goto(c, "settled") /\ Waiting(d, k)
      <3>1. CASE PublishThrottle(c)
        <4>1. Waiting(d, n)
          BY <1>4, <1>5, <3>1 DEF PublishThrottle, At, KeptByHandler, HandlerAgrees, Before
        <4> QED
          BY <1>5, <3>1, <4>1 DEF PublishThrottle, ThrottledAttempt
      <3>2. CASE PublishRetry(c)
        <4>1. Rescheduling(d, n)
          BY <1>4, <1>5, <3>2 DEF PublishRetry, At, KeptByHandler, HandlerAgrees
        <4>2. Waiting(d, n + 1)
          BY <4>1, RetryAssumption DEF Rescheduling, Waiting, Due
        <4>3. n + 1 \in Nat \ {0}
          OBVIOUS
        <4> QED
          BY <1>5, <3>2, <4>2, <4>3 DEF PublishRetry
      <3> QED
        BY <1>7, <3>1, <3>2
    <2>2. PICK m \in Message : /\ m.deliveryId = d /\ m.attempt = k
                               /\ parked' = parked \cup {m} /\ queue' = queue
      BY <2>1, PublishParkedEffect
    <2>3. ~Works(c, d)'
      BY <2>1, WorksAt DEF Works, Before, During
    <2> QED
      BY <1>1, <1>2, <1>4, <1>6, <2>1, <2>2, <2>3, WorksAt, HandlerHandsOn
  <1>8. CASE Catch(c)
    <2>1. Purged(d)
      BY <1>4, <1>8 DEF Catch, At, KeptByHandler, HandlerAgrees
    <2>2. /\ handler'[c] = IdleHandler /\ parked' = parked
          /\ \A x \in Handlers : x # c => handler'[x] = handler[x]
      BY <1>8 DEF Catch, TypeOK
    <2>3. ~Works(c, d)'
      BY <2>2 DEF Works, IdleHandler, Before, During
    <2>4. CASE UNCHANGED queue
      <3>1. NoMessageOf(d)' /\ NoCallOf(d)' /\ NoWorkerOf(d)'
        BY <1>1, <1>4, <2>2, <2>3, <2>4
           DEF KeptByHandler, NoMessageOf, NoCallOf, NoWorkerOf, Works, DeliveryOf
      <3>2. Unkept(d)'
        BY <1>1, <2>1, <3>1 DEF Unkept, Purged
      <3> QED
        BY <1>2, <3>2 DEF Keeper
    <2>5. CASE Requeue(handler[c].msg)
      <3>1. PICK m \in Message : m.deliveryId = d /\ queue' = queue \cup {m}
        BY <1>3, <2>5, BusyHandler, RequeueEffect DEF DeliveryOf
      <3>2. Waiting(d, m.attempt)'
        BY <1>6, <2>1 DEF Waiting
      <3> QED
        BY <1>1, <1>2, <1>4, <2>2, <2>3, <3>1, <3>2, HandlerHandsOn
    <2> QED
      BY <1>8, <2>4, <2>5 DEF Catch
  <1> QED
    BY <1>7, <1>8

\* A handler takes a message, and with it the delivery.
LEMMA HandlerTakes ==
    ASSUME TypeOK, TypeOK', NEW d \in Deliveries, NEW c \in Handlers,
           Keeper(d), RowCalm(d), Consume(c)
    PROVE  Keeper(d)' /\ RowCalm(d)'
  <1>1. PICK m \in queue :
           /\ queue' = queue \ {m}
           /\ handler' = [handler EXCEPT ![c] =
                             [IdleHandler EXCEPT !.pc = "find", !.msg = m]]
    BY DEF Consume
  <1>2. /\ handler'[c].pc = "find" /\ handler'[c].msg = m
        /\ \A x \in Handlers : x # c => handler'[x] = handler[x]
    <2>1. handler'[c] = [IdleHandler EXCEPT !.pc = "find", !.msg = m]
      BY <1>1 DEF TypeOK
    <2>2. \A x \in Handlers : x # c => handler'[x] = handler[x]
      BY <1>1 DEF TypeOK
    <2> QED
      BY <2>1, <2>2 DEF IdleHandler
  <1>3. UNCHANGED <<delivery, parked, request>> /\ handler[c].pc = "idle"
    BY DEF Consume, tables, elsewhere, At
  <1>4. ~Works(c, d)
    BY <1>3 DEF Works, Before, During
  <1>5. CASE m.deliveryId # d
    <2>1. ~Works(c, d)'
      BY <1>2, <1>5 DEF Works, DeliveryOf
    <2>2. Untouched(d)
      BY <1>1, <1>2, <1>3, <1>4, <1>5, <2>1 DEF Untouched
    <2> QED
      BY <2>2, UntouchedKeeper
  <1>6. CASE m.deliveryId = d
    <2>1. KeptByMessage(d, m)
      BY <1>6, MessageKeeps
    <2>2. NoMessageOf(d)' /\ NoCallOf(d)'
      BY <1>1, <1>3, <2>1 DEF KeptByMessage, NoMessageOf, NoCallOf
    <2>3. \A g \in Handlers : g # c => ~Works(g, d)'
      BY <1>2, <2>1 DEF KeptByMessage, NoWorkerOf, Works, DeliveryOf
    <2>4. Waiting(d, m.attempt)'
      BY <1>3, <2>1 DEF KeptByMessage, Waiting, Purged, Due
    <2>5. Works(c, d)' /\ HandlerAgrees(c, d)'
      BY <1>2, <1>6, <2>4 DEF Works, HandlerAgrees, DeliveryOf, AttemptOf, Before, During
    <2>6. KeptByHandler(d, c)'
      BY <2>2, <2>3, <2>5 DEF KeptByHandler
    <2>7. RowCalm(d)'
      BY <1>3 DEF RowCalm
    <2> QED
      BY <2>6, <2>7 DEF Keeper
  <1> QED
    BY <1>5, <1>6

\* A handler that has settled its delivery touches no chain any more.
LEMMA HandlerSettled ==
    ASSUME TypeOK, NEW d \in Deliveries, NEW c \in Handlers, handler[c].connected,
           Ack(c) \/ DisableAtThreshold(c) \/ PublishDeadLetter(c) \/ AnnounceDisable(c)
    PROVE  Untouched(d)
  <1>1. UNCHANGED <<delivery, queue, parked, request>>
    BY DEF Ack, DisableAtThreshold, PublishDeadLetter, AnnounceDisable, tables, broker,
           elsewhere
  <1>2. ~Works(c, d)
    BY DEF Ack, DisableAtThreshold, PublishDeadLetter, AnnounceDisable, At, Works,
           Before, During
  <1>3. /\ \A x \in Handlers : x # c => handler'[x] = handler[x]
        /\ handler'[c].pc \in {"idle", "dead_letter", "announce", "settled"}
    <2>1. CASE Ack(c)
      BY <2>1 DEF Ack, IdleHandler, TypeOK
    <2>2. CASE DisableAtThreshold(c)
      BY <2>2 DEF DisableAtThreshold, TypeOK, HandlerState
    <2>3. CASE PublishDeadLetter(c) \/ AnnounceDisable(c)
      BY <2>3, WorksAt DEF PublishDeadLetter, AnnounceDisable
    <2> QED
      BY <2>1, <2>2, <2>3
  <1>4. ~Works(c, d)'
    BY <1>3 DEF Works, Before, During
  <1> QED
    BY <1>1, <1>2, <1>3, <1>4 DEF Untouched

\* A handler's step on its own delivery leaves the chains of the others alone.
LEMMA HandlerElsewhere ==
    ASSUME TypeOK, NEW d \in Deliveries, NEW c \in Handlers, Busy(c), DeliveryOf(c) # d,
           handler[c].connected, HandlerStep(c)
    PROVE  Untouched(d)
  <1>1. UNCHANGED request
    BY DEF HandlerStep, Ack, Catch, FindDelivery, SkipDisabled, TakeToken, PublishThrottle,
           MarkInFlight, Send, FinaliseSuccess, FinaliseRetry, PublishRetry,
           FinaliseFailure, DisableAtThreshold, PublishDeadLetter, AnnounceDisable, elsewhere
  <1>2. PICK mine \in Deliveries : mine = DeliveryOf(c) /\ mine # d
    BY BusyHandler
  <1>3. delivery'[d] = delivery[d]
    BY <1>2, Committed
       DEF HandlerStep, Ack, Catch, FindDelivery, SkipDisabled, TakeToken, PublishThrottle,
           MarkInFlight, Send, FinaliseSuccess, FinaliseRetry, PublishRetry,
           FinaliseFailure, DisableAtThreshold, PublishDeadLetter, AnnounceDisable,
           Throws, tables, SetStatus, CommitAttempt, TypeOK
  <1>4. /\ \A x \in Handlers : x # c => handler'[x] = handler[x]
        /\ ~Works(c, d) /\ ~Works(c, d)'
    <2>1. ~Works(c, d)
      BY DEF Works
    <2>2. ASSUME NEW pc, Goto(c, pc)
          PROVE  /\ \A x \in Handlers : x # c => handler'[x] = handler[x]
                 /\ ~Works(c, d)'
      BY <2>2, WorksAt DEF Works
    <2>3. CASE Ack(c) \/ Catch(c)
      <3>1. handler' = [handler EXCEPT ![c] = IdleHandler]
        BY <2>3 DEF Ack, Catch
      <3>2. handler'[c].pc = "idle" /\ \A x \in Handlers : x # c => handler'[x] = handler[x]
        BY <3>1 DEF IdleHandler, TypeOK
      <3> QED
        BY <2>1, <3>2 DEF Works, Before, During
    <2>4. CASE DisableAtThreshold(c)
      BY <2>1, <2>4, HandlerSettled DEF DisableAtThreshold, Works, DeliveryOf, TypeOK,
                                        HandlerState
    <2>5. ASSUME NEW result, Send(c, result)
          PROVE  /\ \A x \in Handlers : x # c => handler'[x] = handler[x]
                 /\ ~Works(c, d)'
      BY <2>5, SendAt DEF Works, DeliveryOf
    <2>6. CASE ~Ack(c) /\ ~Catch(c) /\ ~DisableAtThreshold(c) /\ ~\E result : Send(c, result)
      <3>1. \E pc : Goto(c, pc)
        BY <2>6 DEF HandlerStep, FindDelivery, SkipDisabled, TakeToken, PublishThrottle,
                    MarkInFlight, FinaliseSuccess, FinaliseRetry, PublishRetry,
                    FinaliseFailure, PublishDeadLetter, AnnounceDisable, Throws
      <3> QED
        BY <2>1, <2>2, <3>1
    <2> QED
      BY <2>1, <2>3, <2>4, <2>5, <2>6
  <1>5. \A m \in Message : m.deliveryId = d =>
           (m \in queue' <=> m \in queue) /\ (m \in parked' <=> m \in parked)
    <2>1. CASE PublishThrottle(c) \/ PublishRetry(c)
      <3>1. PICK k \in Nat \ {0} : publishParked(mine, k)
        BY <1>2, <2>1, BusyHandler DEF PublishThrottle, PublishRetry, ThrottledAttempt
      <3> QED
        BY <1>2, <3>1, PublishParkedEffect
    <2>2. CASE Catch(c)
      BY <1>2, <2>2, BusyHandler, RequeueEffect DEF Catch, DeliveryOf
    <2>3. CASE ~(PublishThrottle(c) \/ PublishRetry(c) \/ Catch(c))
      <3>1. queue' = queue /\ parked' = parked
        BY <2>3 DEF HandlerStep, Ack, FindDelivery, SkipDisabled, TakeToken,
                    MarkInFlight, Send, FinaliseSuccess, FinaliseRetry,
                    FinaliseFailure, DisableAtThreshold, PublishDeadLetter,
                    AnnounceDisable, Throws, broker
      <3> QED
        BY <3>1
    <2> QED
      BY <2>1, <2>2, <2>3
  <1> QED
    BY <1>1, <1>3, <1>4, <1>5 DEF Untouched

\* Whatever step a handler takes, every delivery has one keeper afterwards.
LEMMA HandlerKeepsChain ==
    ASSUME TypeOK, TypeOK', NEW d \in Deliveries, NEW c \in Handlers,
           Keeper(d), RowCalm(d), handler[c].connected,
           Consume(c) \/ HandlerStep(c)
    PROVE  Keeper(d)' /\ RowCalm(d)'
  <1>1. CASE Consume(c)
    BY <1>1, HandlerTakes
  <1>2. CASE HandlerStep(c)
    <2>1. Busy(c)
      BY <1>2 DEF HandlerStep, Ack, Catch, FindDelivery, SkipDisabled, TakeToken,
                  PublishThrottle, MarkInFlight, Send, FinaliseSuccess, FinaliseRetry,
                  PublishRetry, FinaliseFailure, DisableAtThreshold, PublishDeadLetter,
                  AnnounceDisable, At, Busy
    <2>2. CASE DeliveryOf(c) # d
      BY <1>2, <2>1, <2>2, HandlerElsewhere, UntouchedKeeper
    <2>3. CASE Ack(c) \/ DisableAtThreshold(c) \/ PublishDeadLetter(c) \/ AnnounceDisable(c)
      BY <2>3, HandlerSettled, UntouchedKeeper
    <2>4. CASE DeliveryOf(c) = d
      BY <1>2, <2>3, <2>4, HandlerDecides, HandlerWrites, HandlerPublishes DEF HandlerStep
    <2> QED
      BY <2>2, <2>4
  <1> QED
    BY <1>1, <1>2

-----------------------------------------------------------------------------
(* The steps of the other processes. *)

\* An API call opens the chains of the rows it inserts and hands each to a message.
LEMMA CallKeepsChain ==
    ASSUME TypeOK, TypeOK', NEW d \in Deliveries, NEW c \in Requests,
           Keeper(d), RowCalm(d), CallInv,
           PublishEvent(c) \/ Replay(c) \/ RequestStep(c)
    PROVE  Keeper(d)' /\ RowCalm(d)'
  <1>1. UNCHANGED handler
    BY DEF RequestStep, bystanders, PublishEvent, Replay, CommitRows, CommitRejected,
           PublishRow, Respond
  <1>2. CASE PublishEvent(c) \/ Replay(c) \/ CommitRejected(c) \/ Respond(c)
    <2>1. request[c].todo = {}
      BY <1>2 DEF CallInv, PublishEvent, Replay, CommitRejected, Respond
    <2>2. /\ request'[c].todo = {}
          /\ \A x \in Requests : x # c => request'[x] = request[x]
      BY <1>2 DEF PublishEvent, Replay, Plans, CommitRejected, Respond, IdleRequest, TypeOK
    <2>3. UNCHANGED <<delivery, queue, parked>>
      BY <1>2 DEF PublishEvent, Replay, CommitRejected, Respond, tables, broker
    <2>4. Untouched(d)
      BY <1>1, <2>1, <2>2, <2>3 DEF Untouched
    <2> QED
      BY <2>4, UntouchedKeeper
  <1>3. CASE CommitRows(c)
    <2>1. PICK opened, skipped \in SUBSET Deliveries : Inserts(c, opened, skipped)
      BY <1>3, CommitInserts
    <2>2. UNCHANGED <<queue, parked>> /\ request[c].todo = {}
      BY <1>3 DEF CommitRows, CallInv, broker
    <2>3. CASE d \notin opened \cup skipped
      <3>1. delivery'[d] = delivery[d]
        BY <2>1, <2>3 DEF Inserts
      <3>2. \A r \in Requests : d \in request'[r].todo <=> d \in request[r].todo
        BY <2>1, <2>2, <2>3 DEF Inserts
      <3>3. Untouched(d)
        BY <1>1, <2>2, <3>1, <3>2 DEF Untouched
      <3> QED
        BY <3>3, UntouchedKeeper
    <2>4. CASE d \in opened \cup skipped
      <3>1. delivery[d].status = "ABSENT"
        BY <2>1, <2>4 DEF Inserts
      <3>2. Unkept(d)
        <4>1. ASSUME NEW n PROVE ~Waiting(d, n) /\ ~Running(d, n) /\ ~Rescheduling(d, n)
                                    /\ ~Purged(d)
          BY <3>1 DEF Waiting, Running, Rescheduling, Purged
        <4>2. ASSUME NEW h \in Handlers, KeptByHandler(d, h) PROVE FALSE
          BY <4>1, <4>2 DEF KeptByHandler, HandlerAgrees, Works
        <4> QED
          BY <4>1, <4>2 DEF Keeper, KeptByMessage, KeptByCall
      <3>3. NoMessageOf(d)' /\ NoWorkerOf(d)'
        BY <1>1, <2>2, <3>2 DEF Unkept, NoMessageOf, NoWorkerOf, Works, DeliveryOf
      <3>4. RowCalm(d)'
        BY <2>1, <2>4 DEF Inserts, RowCalm
      <3>5. CASE d \in opened
        <4>1. delivery'[d].status = "PENDING" /\ delivery'[d].attemptCount = 0
          BY <2>1, <3>5 DEF Inserts
        <4>2. Waiting(d, 1)'
          BY <4>1, RetryAssumption DEF Waiting, Due
        <4>3. d \in request'[c].todo /\ \A q \in Requests : d \in request'[q].todo => q = c
          BY <2>1, <3>2, <3>5 DEF Inserts, Unkept, NoCallOf
        <4>4. KeptByCall(d, c)'
          BY <3>3, <4>2, <4>3 DEF KeptByCall
        <4> QED
          BY <3>4, <4>4 DEF Keeper
      <3>6. CASE d \notin opened
        <4>1. delivery'[d].status = "SKIPPED"
          BY <2>1, <2>4, <3>6 DEF Inserts
        <4>2. NoCallOf(d)'
          BY <2>1, <3>2, <3>6 DEF Inserts, Unkept, NoCallOf
        <4>3. Unkept(d)'
          BY <3>3, <4>1, <4>2 DEF Unkept
        <4> QED
          BY <3>4, <4>3 DEF Keeper
      <3> QED
        BY <3>5, <3>6
    <2> QED
      BY <2>3, <2>4
  <1>4. CASE PublishRow(c)
    <2>1. PICK x \in request[c].todo : /\ publishDelivery(x, 1)
                                       /\ request' = [request EXCEPT ![c].todo = @ \ {x}]
      BY <1>4 DEF PublishRow
    <2>2. x \in Deliveries
      BY <2>1 DEF TypeOK, RequestState
    <2>3. PICK m \in Message : /\ m.deliveryId = x /\ m.attempt = 1
                               /\ queue' = queue \cup {m} /\ parked' = parked
      BY <2>1, <2>2, PublishDeliveryEffect
    <2>4. /\ request'[c].todo = request[c].todo \ {x}
          /\ \A q \in Requests : q # c => request'[q] = request[q]
      BY <2>1 DEF TypeOK, RequestState
    <2>5. UNCHANGED delivery
      BY <1>4 DEF PublishRow, tables
    <2>6. CASE x # d
      <3>1. \A r \in Requests : d \in request'[r].todo <=> d \in request[r].todo
        BY <2>4, <2>6
      <3>2. Untouched(d)
        BY <1>1, <2>3, <2>5, <2>6, <3>1 DEF Untouched
      <3> QED
        BY <3>2, UntouchedKeeper
    <2>7. CASE x = d
      <3>1. KeptByCall(d, c)
        BY <2>1, <2>7, CallKeeps
      <3>2. NoWorkerOf(d)' /\ NoCallOf(d)'
        BY <1>1, <2>4, <2>7, <3>1
           DEF KeptByCall, NoWorkerOf, NoCallOf, Works, DeliveryOf
      <3>3. /\ m \in queue' \cup parked' /\ ~(m \in queue' /\ m \in parked')
            /\ \A n \in queue' \cup parked' : n.deliveryId = d => n = m
        BY <2>3, <2>7, <3>1 DEF KeptByCall, NoMessageOf
      <3>4. Waiting(d, 1)'
        BY <2>5, <3>1 DEF KeptByCall, Waiting, Purged, Due
      <3>5. KeptByMessage(d, m)'
        BY <2>3, <2>7, <3>2, <3>3, <3>4 DEF KeptByMessage
      <3>6. RowCalm(d)'
        BY <2>5 DEF RowCalm
      <3> QED
        BY <3>5, <3>6 DEF Keeper
    <2> QED
      BY <2>6, <2>7
  <1> QED
    BY <1>2, <1>3, <1>4 DEF RequestStep

\* A parked message that expires is the same message in the delivery queue.
LEMMA ExpireKeepsChain ==
    ASSUME TypeOK, TypeOK', NEW d \in Deliveries, Keeper(d), RowCalm(d), Expire
    PROVE  Keeper(d)' /\ RowCalm(d)'
  <1>1. PICK m \in parked : parked' = parked \ {m} /\ queue' = queue \cup {m}
    BY DEF Expire
  <1>2. UNCHANGED <<delivery, handler, request>>
    BY DEF Expire, tables
  <1>3. CASE m.deliveryId # d
    <2>1. Untouched(d)
      BY <1>1, <1>2, <1>3 DEF Untouched
    <2> QED
      BY <2>1, UntouchedKeeper
  <1>4. CASE m.deliveryId = d
    <2>1. KeptByMessage(d, m)
      BY <1>4, MessageKeeps
    <2>2. NoWorkerOf(d)' /\ NoCallOf(d)'
      BY <1>2, <2>1 DEF KeptByMessage, NoWorkerOf, NoCallOf, Works, DeliveryOf
    <2>3. /\ m \in queue' \cup parked' /\ ~(m \in queue' /\ m \in parked')
          /\ \A n \in queue' \cup parked' : n.deliveryId = d => n = m
      BY <1>1, <2>1 DEF KeptByMessage
    <2>4. Waiting(d, m.attempt)' /\ RowCalm(d)'
      BY <1>2, <2>1 DEF KeptByMessage, Waiting, Purged, Due, RowCalm
    <2>5. KeptByMessage(d, m)'
      BY <1>4, <2>2, <2>3, <2>4 DEF KeptByMessage
    <2>6. m \in Message
      BY <1>1 DEF TypeOK
    <2> QED
      BY <2>4, <2>5, <2>6 DEF Keeper
  <1> QED
    BY <1>3, <1>4

\* Retention removes the row under its keeper, which then has nothing to agree with.
LEMMA RetentionKeepsChain ==
    ASSUME TypeOK, TypeOK', NEW d \in Deliveries, Keeper(d), RowCalm(d), DeleteStale
    PROVE  Keeper(d)' /\ RowCalm(d)'
  <1>1. UNCHANGED <<queue, parked, handler, request>>
    BY DEF DeleteStale, broker, processes
  <1>2. CASE delivery'[d] = delivery[d]
    <2>1. Untouched(d)
      BY <1>1, <1>2 DEF Untouched
    <2> QED
      BY <2>1, UntouchedKeeper
  <1>3. CASE delivery'[d] # delivery[d]
    <2>1. delivery[d] \in DeliveryRow
      BY DEF TypeOK
    <2>2. delivery'[d] = [delivery[d] EXCEPT !.status = "DELETED"]
      BY <1>3 DEF DeleteStale
    <2>3. delivery'[d].status = "DELETED" /\ delivery'[d].overdue = delivery[d].overdue
      BY <2>1, <2>2 DEF DeliveryRow
    <2>4. RowCalm(d)' /\ Purged(d)'
      BY <2>3 DEF RowCalm, Purged
    <2>5. ASSUME NEW n PROVE Waiting(d, n)' /\ Running(d, n)' /\ Rescheduling(d, n)'
      BY <2>4 DEF Waiting, Running, Rescheduling
    <2>6. \A h \in Handlers : Works(h, d)' <=> Works(h, d)
      BY <1>1 DEF Works, DeliveryOf
    <2>7. \A h \in Handlers : KeptByHandler(d, h) => KeptByHandler(d, h)'
      <3>1. ASSUME NEW h \in Handlers, KeptByHandler(d, h)
            PROVE  KeptByHandler(d, h)'
        <4>1. HandlerAgrees(h, d)'
          BY <1>1, <2>4, <2>5, <3>1 DEF KeptByHandler, HandlerAgrees, AttemptOf
        <4>2. NoMessageOf(d)' /\ NoCallOf(d)'
          BY <1>1, <3>1 DEF KeptByHandler, NoMessageOf, NoCallOf
        <4> QED
          BY <2>6, <3>1, <4>1, <4>2 DEF KeptByHandler
      <3> QED
        BY <3>1
    <2>8. \A m \in Message : KeptByMessage(d, m) => KeptByMessage(d, m)'
      BY <1>1, <2>5, <2>6 DEF KeptByMessage, NoWorkerOf, NoCallOf
    <2>9. \A r \in Requests : KeptByCall(d, r) => KeptByCall(d, r)'
      BY <1>1, <2>5, <2>6 DEF KeptByCall, NoWorkerOf, NoMessageOf
    <2>10. Unkept(d) => Unkept(d)'
      BY <1>1, <2>3, <2>6 DEF Unkept, NoWorkerOf, NoMessageOf, NoCallOf
    <2> QED
      BY <2>4, <2>7, <2>8, <2>9, <2>10 DEF Keeper
  <1> QED
    BY <1>2, <1>3

\* A delivery in flight has a handler, so no row ages without a backlog.
LEMMA NothingAges ==
    ASSUME NoFailures, NEW d \in Deliveries, Keeper(d) PROVE ~Age(d)
  <1> SUFFICES ASSUME Age(d) PROVE FALSE
    OBVIOUS
  <1>1. delivery[d].status = "IN_FLIGHT"
    BY DEF Age
  <1>2. PICK h \in Handlers : KeptByHandler(d, h)
    BY <1>1 DEF Keeper, Unkept, KeptByMessage, KeptByCall, Waiting, Purged
  <1>3. Busy(h) /\ handler[h].msg.deliveryId = d
    BY <1>2 DEF KeptByHandler, Works, Busy, DeliveryOf, Before, During
  <1>4. Carried(d)
    BY <1>3 DEF Carried
  <1> QED
    BY <1>4 DEF Age, Occurs, NoFailures, Failures

\* ChainInv is inductive while nothing fails.
LEMMA ChainStep ==
    ASSUME TypeOK, ChainInv, [Next]_vars, NoFailures PROVE ChainInv'
  <1>1. TypeOK'
    BY TypeStep
  <1>2. ConnectedInv'
    BY ConnectedStep DEF ChainInv, NoFailures, Failures
  <1>3. CallInv'
    BY CallStep DEF ChainInv
  <1>4. /\ \A h \in Handlers : ~HandlerError(h) /\ ~WorkerCrash(h) /\ ~ConnectionLoss(h)
        /\ \A r \in Requests : ~PublishFails(r)
    BY DEF HandlerError, WorkerCrash, ConnectionLoss, PublishFails, Occurs, NoFailures,
           Failures
  <1>5. \A s \in Sweepers : ~SweeperStep(s) /\ ~RecoverFails(s) /\ ~SweeperCrash(s)
    <2>1. Stuck = {}
      BY DEF Stuck, stuckDeliveryFilter, ChainInv, RowCalm
    <2> QED
      BY <2>1 DEF SweeperStep, ReadStuck, Claim, Recover, Release, RecoverFails,
                  SweeperCrash, ChainInv, Calm
  <1>6. Calm'
    <2>1. UNCHANGED sweeper
      BY <1>4, <1>5, NothingAges
         DEF Next, RequestStep, HandlerStep, Quiet, vars, bystanders, elsewhere, processes,
             PublishEvent, Replay, CommitRows, CommitRejected, PublishRow, Respond,
             Consume, Ack, Catch, FindDelivery, SkipDisabled, TakeToken, PublishThrottle,
             MarkInFlight, Send, FinaliseSuccess, FinaliseRetry, PublishRetry,
             FinaliseFailure, DisableAtThreshold, PublishDeadLetter, AnnounceDisable,
             EnableEndpoint, DisableEndpoint, RemoveEndpoint, SelectStale, DeleteStale,
             Expire, ChainInv
    <2> QED
      BY <2>1 DEF ChainInv, Calm
  <1>7. ASSUME NEW d \in Deliveries PROVE Keeper(d)' /\ RowCalm(d)'
    <2>1. Keeper(d) /\ RowCalm(d) /\ CallInv /\ \A h \in Handlers : handler[h].connected
      BY DEF ChainInv, ConnectedInv
    <2>2. ASSUME UNCHANGED <<delivery, queue, parked, handler, request>>
          PROVE  Keeper(d)' /\ RowCalm(d)'
      <3>1. Untouched(d)
        BY <2>2 DEF Untouched
      <3> QED
        BY <1>1, <2>1, <3>1, UntouchedKeeper
    <2>3. ASSUME \/ \E e \in Endpoints : EnableEndpoint(e) \/ DisableEndpoint(e)
                                            \/ RemoveEndpoint(e)
                 \/ SelectStale \/ UNCHANGED vars
          PROVE  Keeper(d)' /\ RowCalm(d)'
      BY <2>2, <2>3 DEF EnableEndpoint, DisableEndpoint, RemoveEndpoint, SelectStale,
                        tables, broker, processes, vars
    <2>4. \A x \in Deliveries : ~Age(x)
      BY NothingAges DEF ChainInv
    <2> QED
      BY <1>1, <1>4, <1>5, <2>1, <2>3, <2>4, HandlerKeepsChain, CallKeepsChain,
         ExpireKeepsChain, RetentionKeepsChain DEF Next, Quiet
  <1> QED
    BY <1>2, <1>3, <1>6, <1>7 DEF ChainInv

\* Without failures every delivery has at most one keeper that agrees with its row.
LEMMA ChainInvariant == ASSUME NoFailures PROVE Spec => []ChainInv
  <1>1. Init => ChainInv
    <2> SUFFICES ASSUME Init PROVE ChainInv
      OBVIOUS
    <2>1. ConnectedInv /\ CallInv /\ Calm
      BY DEF Init, ConnectedInv, CallInv, Calm, IdleHandler, IdleRequest, IdleSweeper
    <2>2. ASSUME NEW d \in Deliveries PROVE Keeper(d) /\ RowCalm(d)
      <3>1. delivery[d].status = "ABSENT" /\ delivery[d].attemptCount = 0
               /\ ~delivery[d].overdue
        BY DEF Init, NewDelivery
      <3>2. NoMessageOf(d) /\ NoWorkerOf(d) /\ NoCallOf(d)
        BY DEF Init, NoMessageOf, NoWorkerOf, NoCallOf, Works, IdleHandler, IdleRequest,
               Before, During
      <3> QED
        BY <3>1, <3>2 DEF Keeper, Unkept, RowCalm
    <2> QED
      BY <2>1, <2>2 DEF ChainInv
  <1>2. TypeOK /\ ChainInv /\ [Next]_vars => ChainInv'
    BY ChainStep
  <1> QED
    BY <1>1, <1>2, TypeCorrect, PTL DEF Spec

\* While nothing fails a delivery is never carried twice: no two messages, handlers
\* or API calls move it at the same time, whatever operators, replays, throttling
\* and retention do.
THEOREM OneCarrier == ASSUME NoFailures PROVE Spec => []SingleCarrier
  <1>1. ChainInv => SingleCarrier
    <2> SUFFICES ASSUME ChainInv, NEW d \in Deliveries PROVE Cardinality(Carriers(d)) <= 1
      BY DEF SingleCarrier
    <2>1. Keeper(d) /\ Calm
      BY DEF ChainInv
    <2>2. \A h \in Handlers : (Responsible(h) \/ At(h, "catch")) /\ DeliveryOf(h) = d
                                 => Works(h, d)
      BY DEF Responsible, At, Works, Before, During
    <2>3. \A s \in Sweepers : sweeper[s].pc # "publish"
      BY <2>1 DEF Calm
    <2>4. \A x, y \in Carriers(d) : x = y
      <3>1. \A x \in Carriers(d) :
               \/ x \in queue \cup parked /\ x.deliveryId = d
               \/ x \in Handlers /\ Works(x, d)
               \/ x \in Requests /\ d \in request[x].todo
        BY <2>2, <2>3 DEF Carriers
      <3> QED
        BY <2>1, <3>1 DEF Keeper, Unkept, KeptByMessage, KeptByHandler, KeptByCall,
                          NoMessageOf, NoWorkerOf, NoCallOf
    <2>5. CASE Carriers(d) = {}
      BY <2>5, FS_EmptySet
    <2>6. CASE Carriers(d) # {}
      <3>1. PICK x : Carriers(d) = {x}
        BY <2>4, <2>6
      <3> QED
        BY <3>1, FS_Singleton
    <2> QED
      BY <2>5, <2>6
  <1> QED
    BY <1>1, ChainInvariant, PTL


-----------------------------------------------------------------------------
(* The life of a delivery.  A row is in one stage of DeliveryLifecycle, and its *)
(* attemptCount is the number of attempts it has had.                           *)

Stage(status) ==
    CASE status = "ABSENT"             -> "absent"
      [] status \in OPEN_STATUSES      -> "open"
      [] status = "SUCCEEDED"          -> "succeeded"
      [] status = "FAILED_PERMANENTLY" -> "failed"
      [] status = "SKIPPED"            -> "skipped"
      [] status = "DELETED"            -> "purged"
Tried == [d \in Deliveries |-> delivery[d].attemptCount]

\* The stage of each status.
LEMMA Stages ==
    /\ Stage("ABSENT") = "absent"
    /\ Stage("PENDING") = "open" /\ Stage("IN_FLIGHT") = "open" /\ Stage("RETRYING") = "open"
    /\ Stage("SUCCEEDED") = "succeeded" /\ Stage("FAILED_PERMANENTLY") = "failed"
    /\ Stage("SKIPPED") = "skipped" /\ Stage("DELETED") = "purged"
  BY DEF Stage, OPEN_STATUSES

\* The refinement mapping, row by row, before and after a step.
LEMMA Mapping ==
    /\ LifecycleState = [d \in Deliveries |-> Stage(delivery[d].status)]
    /\ LifecycleState' = [d \in Deliveries |-> Stage(delivery'[d].status)]
    /\ Tried = [d \in Deliveries |-> delivery[d].attemptCount]
    /\ Tried' = [d \in Deliveries |-> delivery'[d].attemptCount]
  BY Zenon DEF LifecycleState, Stage, Tried

\* A row that changes neither its stage nor its count takes no step of its life.
Rests(d) ==
    /\ Stage(delivery'[d].status) = Stage(delivery[d].status)
    /\ delivery'[d].attemptCount = delivery[d].attemptCount
LifeGoesOn == Life!LifecycleNext \/ UNCHANGED <<LifecycleState, Tried>>

\* When every row rests the step is a stutter.
LEMMA Stutters ==
    ASSUME \A d \in Deliveries : Rests(d) PROVE LifeGoesOn
  <1>1. LifecycleState' = LifecycleState /\ Tried' = Tried
    BY Mapping DEF Rests
  <1> QED
    BY <1>1 DEF LifeGoesOn

\* The insert of a call accepts its rows.
LEMMA AcceptStep ==
    ASSUME TypeOK, NEW r \in Requests, CommitRows(r),
           \A d \in Deliveries : RowCalm(d)
    PROVE  LifeGoesOn
  <1>1. PICK opened, skipped \in SUBSET Deliveries : Inserts(r, opened, skipped)
    BY CommitInserts
  <1>2. \A d \in opened \cup skipped : LifecycleState[d] = "absent"
    BY <1>1, Mapping, Stages DEF Inserts
  <1>3. LifecycleState' = [d \in Deliveries |-> IF d \in opened THEN "open"
                                                ELSE IF d \in skipped THEN "skipped"
                                                ELSE LifecycleState[d]]
    BY <1>1, Mapping, Stages DEF Inserts
  <1>4. Tried' = Tried
    BY <1>1, Mapping DEF Inserts, RowCalm
  <1>5. Life!Accept(opened, skipped)
    BY <1>2, <1>3, <1>4 DEF Life!Accept, Tried
  <1> QED
    BY <1>5 DEF LifeGoesOn, Life!LifecycleNext

\* A step that changes one row only, read through the mapping.
LEMMA OneRow ==
    ASSUME NEW d \in Deliveries, NEW stage, NEW n,
           Stage(delivery'[d].status) = stage, delivery'[d].attemptCount = n,
           \A c \in Deliveries : c # d => delivery'[c] = delivery[c]
    PROVE  /\ LifecycleState' = [LifecycleState EXCEPT ![d] = stage]
           /\ Tried' = [Tried EXCEPT ![d] = n]
  BY Mapping

\* The three outcomes of a handler are attempts: the row it settles is open and
\* stands one attempt before the one the handler has made.
LEMMA AttemptStep ==
    ASSUME TypeOK, NEW h \in Handlers, \A d \in Deliveries : Keeper(d),
           FinaliseSuccess(h) \/ FinaliseRetry(h) \/ FinaliseFailure(h)
    PROVE  LifeGoesOn
  <1>1. handler[h].pc \in {"commit_success", "commit_retry", "commit_failure"}
    BY DEF FinaliseSuccess, FinaliseRetry, FinaliseFailure, At
  <1>2. PICK d \in Deliveries : d = DeliveryOf(h)
    BY <1>1, BusyHandler DEF Busy
  <1>3. KeptByHandler(d, h)
    BY <1>1, <1>2, WorkerKeeps DEF Works, During
  <1>4. Running(d, AttemptOf(h)) /\ (At(h, "commit_retry") => AttemptOf(h) < MAX_ATTEMPTS)
    BY <1>1, <1>3 DEF KeptByHandler, HandlerAgrees, During, At
  <1>5. CASE Throws(h)
    BY <1>5, Stutters DEF Throws, tables, Rests
  <1>6. ASSUME NEW status \in {"SUCCEEDED", "RETRYING", "FAILED_PERMANENTLY"},
               Commits(h, status), status = "RETRYING" => At(h, "commit_retry")
        PROVE  LifeGoesOn
    <2>1. delivery[d].status = "IN_FLIGHT" /\ Due(d, AttemptOf(h))
      BY <1>2, <1>4, <1>6 DEF Running, Purged, Commits, Exists, NOT_FOUND
    <2>2. PICK outcome \in {"open", "succeeded", "failed"} : outcome = Stage(status)
      BY Stages
    <2>3. /\ LifecycleState' = [LifecycleState EXCEPT ![d] = outcome]
          /\ Tried' = [Tried EXCEPT ![d] = AttemptOf(h)]
      BY <1>2, <1>6, <2>2, OneRow DEF Commits
    <2>4. delivery[d].attemptCount \in Nat /\ MAX_ATTEMPTS \in Nat
      BY RetryAssumption DEF TypeOK, DeliveryRow
    <2>5. LifecycleState[d] = "open" /\ Tried[d] = delivery[d].attemptCount
      BY <2>1, Mapping, Stages
    <2>6. Tried[d] < MAX_ATTEMPTS /\ Tried[d] + 1 = AttemptOf(h)
      BY <2>1, <2>4, <2>5 DEF Due
    <2>7. outcome = "open" => AttemptOf(h) < MAX_ATTEMPTS
      BY <1>4, <1>6, <2>2, Stages
    <2>8. Life!Attempt(d, outcome)
      BY <2>3, <2>5, <2>6, <2>7 DEF Life!Attempt, Tried
    <2> QED
      BY <2>8 DEF LifeGoesOn, Life!LifecycleNext
  <1> QED
    BY <1>5, <1>6, Committed DEF FinaliseRetry

\* A handler marks or skips a row only while it is open.
LEMMA MarkStep ==
    ASSUME TypeOK, NEW h \in Handlers, \A d \in Deliveries : Keeper(d),
           SkipDisabled(h) \/ MarkInFlight(h)
    PROVE  LifeGoesOn
  <1>1. handler[h].pc \in {"skip", "mark"}
    BY DEF SkipDisabled, MarkInFlight, At
  <1>2. PICK d \in Deliveries : d = DeliveryOf(h)
    BY <1>1, BusyHandler DEF Busy
  <1>3. KeptByHandler(d, h)
    BY <1>1, <1>2, WorkerKeeps DEF Works, Before
  <1>4. Waiting(d, AttemptOf(h))
    BY <1>1, <1>3 DEF KeptByHandler, HandlerAgrees, Before
  <1>5. CASE Throws(h)
    BY <1>5, Stutters DEF Throws, tables, Rests
  <1>6. ASSUME NEW status \in {"SKIPPED", "IN_FLIGHT"}, Exists(d), SetStatus(d, status)
        PROVE  LifeGoesOn
    <2>1. delivery[d].status \in {"PENDING", "RETRYING"}
      BY <1>4, <1>6 DEF Waiting, Purged, Exists, NOT_FOUND
    <2>2. /\ delivery'[d].status = status
          /\ delivery'[d].attemptCount = delivery[d].attemptCount
          /\ \A c \in Deliveries : c # d => delivery'[c] = delivery[c]
      BY <1>6 DEF SetStatus, TypeOK, DeliveryRow
    <2>3. LifecycleState[d] = "open" /\ Tried[d] = delivery[d].attemptCount
      BY <2>1, Mapping, Stages
    <2>4. CASE status = "IN_FLIGHT"
      BY <2>1, <2>2, <2>4, Stages, Stutters DEF Rests
    <2>5. CASE status = "SKIPPED"
      <3>1. /\ LifecycleState' = [LifecycleState EXCEPT ![d] = "skipped"]
            /\ Tried' = [Tried EXCEPT ![d] = delivery[d].attemptCount]
        BY <2>2, <2>5, OneRow, Stages
      <3>2. Tried' = Tried
        BY <2>3, <3>1, Mapping
      <3>3. Life!Skip(d)
        BY <2>3, <3>1, <3>2 DEF Life!Skip, Tried
      <3> QED
        BY <3>3 DEF LifeGoesOn, Life!LifecycleNext
    <2> QED
      BY <2>4, <2>5
  <1> QED
    BY <1>2, <1>5, <1>6 DEF SkipDisabled, MarkInFlight

\* Retention purges rows that exist.
LEMMA PurgeStep == ASSUME TypeOK, DeleteStale PROVE LifeGoesOn
  <1>1. PICK gone \in SUBSET Deliveries :
           gone = {d \in Deliveries : Exists(d) /\ delivery[d].eventId \in retention}
    OBVIOUS
  <1>2. /\ \A d \in gone : /\ delivery'[d].status = "DELETED"
                           /\ delivery'[d].attemptCount = delivery[d].attemptCount
        /\ \A d \in Deliveries \ gone : delivery'[d] = delivery[d]
    BY <1>1 DEF DeleteStale, TypeOK, DeliveryRow
  <1>3. \A d \in gone : LifecycleState[d] # "absent"
    <2>1. ASSUME NEW d \in gone PROVE LifecycleState[d] # "absent"
      <3>1. delivery[d].status \in DELIVERY_STATUS
        BY <1>1 DEF Exists, NOT_FOUND, TypeOK, DeliveryRow
      <3>2. LifecycleState[d] = Stage(delivery[d].status)
        BY <1>1, Mapping
      <3> QED
        BY <3>1, <3>2, Stages DEF DELIVERY_STATUS, OPEN_STATUSES, TERMINAL_STATUSES
    <2> QED
      BY <2>1
  <1>4. /\ LifecycleState' = [d \in Deliveries |->
              IF d \in gone THEN "purged" ELSE LifecycleState[d]]
        /\ Tried' = Tried
    BY <1>2, Mapping, Stages
  <1>5. Life!Purge(gone)
    BY <1>3, <1>4 DEF Life!Purge, Tried
  <1> QED
    BY <1>5 DEF LifeGoesOn, Life!LifecycleNext

\* Every step of the pipeline is a step of the life of its deliveries, or a stutter.
LEMMA LifeStep ==
    ASSUME TypeOK, ChainInv, [Next]_vars, NoFailures PROVE LifeGoesOn
  <1>1. \A d \in Deliveries : Keeper(d) /\ RowCalm(d)
    BY DEF ChainInv
  <1>2. CASE UNCHANGED delivery
    BY <1>2, Stutters DEF Rests
  <1>3. ASSUME NEW s \in Sweepers,
               SweeperStep(s) \/ RecoverFails(s) \/ SweeperCrash(s)
        PROVE  FALSE
    <2>1. Stuck = {}
      BY <1>1 DEF Stuck, stuckDeliveryFilter, RowCalm
    <2> QED
      BY <1>3, <2>1 DEF SweeperStep, ReadStuck, Claim, Recover, Release, RecoverFails,
                        SweeperCrash, ChainInv, Calm
  <1>4. \A d \in Deliveries : ~Age(d)
    BY <1>1, NothingAges
  <1> QED
    BY <1>1, <1>2, <1>3, <1>4, AcceptStep, AttemptStep, MarkStep, PurgeStep
       DEF Next, RequestStep, HandlerStep, Quiet, vars, tables, PublishEvent, Replay,
           CommitRejected, PublishRow, Respond, PublishFails, Consume, Ack, Catch,
           FindDelivery, TakeToken, PublishThrottle, Send, PublishRetry,
           DisableAtThreshold, PublishDeadLetter, AnnounceDisable, HandlerError,
           WorkerCrash, ConnectionLoss, Throws, EnableEndpoint, DisableEndpoint,
           RemoveEndpoint, SelectStale, Expire

\* While nothing fails the pipeline implements DeliveryLifecycle: each delivery is
\* accepted once, attempted one attempt after the other up to MAX_ATTEMPTS, and
\* settles for good, with every message, handler and call of every process in play.
THEOREM Implements == ASSUME NoFailures PROVE Spec => Lifecycle
  <1>1. Init => Life!LifecycleInit
    <2> SUFFICES ASSUME Init PROVE Life!LifecycleInit
      OBVIOUS
    <2>1. \A d \in Deliveries : /\ delivery[d].status = "ABSENT"
                                /\ delivery[d].attemptCount = 0
      BY DEF Init, NewDelivery
    <2>2. /\ LifecycleState = [d \in Deliveries |-> "absent"]
          /\ Tried = [d \in Deliveries |-> 0]
      BY <2>1, Mapping, Stages
    <2> QED
      BY <2>2 DEF Life!LifecycleInit, Tried
  <1>2. TypeOK /\ ChainInv /\ [Next]_vars => LifeGoesOn
    BY LifeStep
  <1> QED
    BY <1>1, <1>2, TypeCorrect, ChainInvariant, PTL
       DEF Spec, Lifecycle, Life!LifecycleSpec, LifeGoesOn, Tried

=============================================================================
