--------------------------- MODULE MCPublishRoute ---------------------------
(* Three calls of two API keys.  One body goes to the subscribed endpoints,   *)
(* the other lists an endpoint of another project and is refused.             *)
EXTENDS PublishRoute, TLC

MCSubscriptions == [ep \in Endpoints |->
    CASE ep = "exact" -> {<<"order", Dot, "created">>}
      [] ep = "wild"  -> {<<"order", Dot, Star>>, <<"user">>}
      [] ep = "all"   -> {}]
MCBodies == [k \in IdempotencyKeys |->
    CASE k = "subscribed" -> [eventType |-> <<"order", Dot, "line", Dot, "added">>,
                              endpointIds |-> NoCall]
      [] k = "listed"     -> [eventType |-> <<"user">>,
                              endpointIds |-> {"exact", "foreign"}]]
MCSymmetry == Permutations(Calls) \cup Permutations(ApiKeys)
=============================================================================
