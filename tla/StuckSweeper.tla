----------------------------- MODULE StuckSweeper -----------------------------
(***************************************************************************)
(* The stuck sweeper of the scheduler process,                             *)
(* backend/src/jobs/stuck-sweeper.js: it reads a batch of deliveries that   *)
(* have been IN_FLIGHT for too long, claims each with a conditional update  *)
(* and publishes the attempt after the last recorded one.                   *)
(* schedule.js never starts a pass while the previous one runs.             *)
(***************************************************************************)
EXTENDS DeliveryState

others == <<handler, request, retention, announced, enables>>

stuckDeliveryFilter_AnyAge(d) == delivery[d].status = "IN_FLIGHT"

\* Without the second disjunct: createdAt where nextAttemptAt is null.
stuckDeliveryFilter_RetriedOnly(d) ==
    /\ delivery[d].status = "IN_FLIGHT" /\ delivery[d].overdue
    /\ delivery[d].attemptCount > 0

stuckDeliveryFilter(d) == delivery[d].status = "IN_FLIGHT" /\ delivery[d].overdue

Stuck == {d \in Deliveries : stuckDeliveryFilter(d)}

\* findMany ... take: batchSize.  Rows outside a full batch wait for a later pass.
ReadStuck(s) ==
    /\ sweeper[s].pc = "idle"
    /\ sweeps < MaxSweeps
    /\ sweeps' = sweeps + 1
    /\ \E batch \in (SUBSET Stuck) \ {{}} :
          /\ \/ batch = Stuck /\ Cardinality(batch) <= SweepBatch
             \/ Cardinality(batch) = SweepBatch
          /\ sweeper' = [sweeper EXCEPT ![s] =
                [pc |-> "claim", cur |-> {},
                 todo |-> {[id |-> d, attemptCount |-> delivery[d].attemptCount] :
                              d \in batch}]]
    /\ UNCHANGED <<tables, broker, others, faults>>

Walk(s, t, pc, cur) ==
    LET rest == sweeper[s].todo \ {t}
    IN  sweeper' = [sweeper EXCEPT ![s] =
            [pc |-> IF pc = "claim" /\ rest = {} THEN "idle" ELSE pc,
             todo |-> rest, cur |-> cur]]

\* The predicate holds the status only: neither the attempt count the pass read
\* nor the time the row went IN_FLIGHT is compared.
ClaimMatches(d) == delivery[d].status = "IN_FLIGHT"

Claim(s) ==
    /\ sweeper[s].pc = "claim"
    /\ \E t \in sweeper[s].todo :
          IF ClaimMatches(t.id)
          THEN SetStatus(t.id, "RETRYING") /\ Walk(s, t, "publish", {t})
          ELSE UNCHANGED delivery /\ Walk(s, t, "claim", {})
    /\ UNCHANGED <<attempts, endpoint, event, broker, others, sweeps, faults>>

AfterPublish(s) ==
    IF sweeper[s].todo = {} THEN IdleSweeper
    ELSE [sweeper[s] EXCEPT !.pc = "claim", !.cur = {}]

RecoveryAttempt_Last(t) == t.attemptCount

RecoveryAttempt_SkipsOne(t) == t.attemptCount + 2

\* attemptCount is the value the pass read, not the one the row holds now.
RecoveryAttempt(t) == t.attemptCount + 1

Recover(s) ==
    /\ sweeper[s].pc = "publish"
    /\ \E t \in sweeper[s].cur : publishDelivery(t.id, RecoveryAttempt(t))
    /\ sweeper' = [sweeper EXCEPT ![s] = AfterPublish(s)]
    /\ UNCHANGED <<tables, others, sweeps, faults>>

\* The publish is refused, or its confirm is lost after the broker took it.
RecoverFails(s) ==
    /\ sweeper[s].pc = "publish"
    /\ Occurs("sweep_publish_error")
    /\ \/ UNCHANGED broker
       \/ \E t \in sweeper[s].cur : publishDelivery(t.id, RecoveryAttempt(t))
    /\ sweeper' = [sweeper EXCEPT ![s].pc = "release"]
    /\ UNCHANGED <<tables, others, sweeps>>

Release_Forgotten(s) ==
    /\ sweeper[s].pc = "release"
    /\ sweeper' = [sweeper EXCEPT ![s] = IdleSweeper]
    /\ UNCHANGED <<tables, broker, others, sweeps, faults>>

\* The error is rethrown after the release, so the rest of the batch is dropped.
Release(s) ==
    /\ sweeper[s].pc = "release"
    /\ \E t \in sweeper[s].cur :
          IF delivery[t.id].status = "RETRYING"
          THEN SetStatus(t.id, "IN_FLIGHT")
          ELSE UNCHANGED delivery
    /\ sweeper' = [sweeper EXCEPT ![s] = IdleSweeper]
    /\ UNCHANGED <<attempts, endpoint, event, broker, others, sweeps, faults>>

SweeperCrash(s) ==
    /\ sweeper[s].pc # "idle"
    /\ Occurs("sweeper_crash")
    /\ sweeper' = [sweeper EXCEPT ![s] = IdleSweeper]
    /\ UNCHANGED <<tables, broker, others, sweeps>>

SweeperStep(s) ==
    ReadStuck(s) \/ Claim(s) \/ Recover(s) \/ Release(s)

=============================================================================
