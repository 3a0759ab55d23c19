-------------------------- MODULE DeliveryLifecycle --------------------------
(***************************************************************************)
(* What hook-tracker promises of one delivery while nothing fails, with no  *)
(* queue, worker or sweeper in sight: it is accepted once, attempted one    *)
(* attempt after the other up to MAX_ATTEMPTS, and settles for good.        *)
(* DeliveryPipeline implements it (see Lifecycle there).                    *)
(***************************************************************************)
EXTENDS Naturals

CONSTANTS Deliveries, MAX_ATTEMPTS

VARIABLES
    state,      \* where each delivery is in its life
    tried       \* how many attempts it has had

LifecycleInit ==
    /\ state = [d \in Deliveries |-> "absent"]
    /\ tried = [d \in Deliveries |-> 0]

\* One call accepts several deliveries; those of a disabled endpoint are skipped.
Accept(opened, skipped) ==
    /\ \A d \in opened \cup skipped : state[d] = "absent"
    /\ state' = [d \in Deliveries |-> IF d \in opened THEN "open"
                                      ELSE IF d \in skipped THEN "skipped"
                                      ELSE state[d]]
    /\ UNCHANGED tried

\* A delivery stays open only while the ladder has an attempt left.
Attempt(d, outcome) ==
    /\ state[d] = "open"
    /\ tried[d] < MAX_ATTEMPTS
    /\ outcome = "open" => tried[d] + 1 < MAX_ATTEMPTS
    /\ state' = [state EXCEPT ![d] = outcome]
    /\ tried' = [tried EXCEPT ![d] = @ + 1]

Skip(d) ==
    /\ state[d] = "open"
    /\ state' = [state EXCEPT ![d] = "skipped"]
    /\ UNCHANGED tried

Purge(gone) ==
    /\ \A d \in gone : state[d] # "absent"
    /\ state' = [d \in Deliveries |-> IF d \in gone THEN "purged" ELSE state[d]]
    /\ UNCHANGED tried

LifecycleNext ==
    \/ \E opened, skipped \in SUBSET Deliveries : Accept(opened, skipped)
    \/ \E d \in Deliveries :
          \/ \E outcome \in {"open", "succeeded", "failed"} : Attempt(d, outcome)
          \/ Skip(d)
    \/ \E gone \in SUBSET Deliveries : Purge(gone)

LifecycleSpec == LifecycleInit /\ [][LifecycleNext]_<<state, tried>>

=============================================================================
