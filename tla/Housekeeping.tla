----------------------------- MODULE Housekeeping -----------------------------
(***************************************************************************)
(* What removes or switches rows under the running deliveries: the          *)
(* retention job of backend/src/jobs/retention.js, and the operator's       *)
(* enable, disable and remove of                                            *)
(* backend/src/api/services/endpoint-service.js.                            *)
(***************************************************************************)
EXTENDS DeliveryState

processes == <<handler, sweeper, request>>

\* The first query of deleteBatch.  Age is not part of the model: any stored
\* event may be past the retention window.
SelectStale ==
    /\ "retention" \in Environment
    /\ retention = {}
    /\ \E batch \in (SUBSET {e \in Events : event[e] = "STORED"}) \ {{}} :
          retention' = batch
    /\ UNCHANGED <<tables, broker, processes, counters>>

\* The second one.  Deliveries and attempts go with their event (onDelete:
\* Cascade), whatever their status is; messages stay where they are.
DeleteStale ==
    /\ retention # {}
    /\ event' = [e \in Events |-> IF e \in retention THEN "DELETED" ELSE event[e]]
    /\ delivery' = [d \in Deliveries |->
          IF Exists(d) /\ delivery[d].eventId \in retention
          THEN [delivery[d] EXCEPT !.status = "DELETED"]
          ELSE delivery[d]]
    /\ attempts' = [d \in Deliveries |->
          IF Exists(d) /\ delivery[d].eventId \in retention
          THEN {} ELSE attempts[d]]
    /\ retention' = {}
    /\ UNCHANGED <<endpoint, broker, processes, counters>>

EnableEndpoint_KeepsCount(e) ==
    /\ "admin" \in Environment
    /\ endpoint[e].status # "REMOVED"
    /\ enables[e] < MaxEnables
    /\ endpoint' = [endpoint EXCEPT ![e].status = "ACTIVE"]
    /\ enables' = [enables EXCEPT ![e] = @ + 1]
    /\ UNCHANGED <<delivery, attempts, event, broker, processes, retention,
                   announced, sweeps, faults>>

EnableEndpoint(e) ==
    /\ "admin" \in Environment
    /\ endpoint[e].status # "REMOVED"
    /\ enables[e] < MaxEnables
    /\ endpoint' = [endpoint EXCEPT ![e] =
                       [status |-> "ACTIVE", consecutiveFailures |-> 0]]
    /\ enables' = [enables EXCEPT ![e] = @ + 1]
    /\ UNCHANGED <<delivery, attempts, event, broker, processes, retention,
                   announced, sweeps, faults>>

DisableEndpoint(e) ==
    /\ "admin" \in Environment
    /\ endpoint[e].status = "ACTIVE"
    /\ endpoint' = [endpoint EXCEPT ![e].status = "DISABLED"]
    /\ UNCHANGED <<delivery, attempts, event, broker, processes, retention,
                   counters>>

\* onDelete: Restrict refuses while a delivery refers to the endpoint.
RemoveEndpoint(e) ==
    /\ "admin" \in Environment
    /\ endpoint[e].status # "REMOVED"
    /\ \A d \in Deliveries : Exists(d) => delivery[d].endpointId # e
    /\ endpoint' = [endpoint EXCEPT ![e].status = "REMOVED"]
    /\ UNCHANGED <<delivery, attempts, event, broker, processes, retention,
                   counters>>

=============================================================================
