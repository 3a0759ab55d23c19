----------------------------- MODULE MCEndpoint -----------------------------
(* Three machines about one endpoint that share no state: its administration    *)
(* and the signatures of its attempts, its token bucket, and the rules that      *)
(* take an attempt to its outcome.  A behaviour is one of a machine by itself.   *)
EXTENDS Administration, TokenBucket, MCRetryLadder

VARIABLE machine

MCInit ==
    /\ Init /\ BucketInit /\ LadderInit
    /\ machine \in {"administration", "bucket", "ladder"}

MCNext ==
    \/ machine = "administration" /\ Next /\ UNCHANGED <<machine, bucketVars, ladder>>
    \/ machine = "bucket" /\ BucketNext /\ UNCHANGED <<machine, vars, ladder>>
    \/ machine = "ladder" /\ LadderNext /\ UNCHANGED <<machine, vars, bucketVars>>

MCSpec == MCInit /\ [][MCNext]_<<machine, vars, bucketVars, ladder>>
=============================================================================
