---------------------------- MODULE PublishRoute ----------------------------
(***************************************************************************)
(* POST /v1/publish as concurrent calls run through it: the API key, the   *)
(* sliding window of the rate limiter, validation, the idempotency key,    *)
(* publishEvent, and the answer.  Every await of a middleware is a step.   *)
(* Redis and Postgres may reject any of them and the process may die.      *)
(***************************************************************************)
EXTENDS EventTypes, FiniteSets

CONSTANTS
    Calls, ApiKeys, IdempotencyKeys,
    Endpoints,          \* of the project
    Subscriptions,      \* [Endpoints -> sets of patterns]
    Bodies,             \* [IdempotencyKeys -> [eventType, endpointIds]]
    KeyLimit,           \* RATE_LIMIT_PUBLISH_PER_MINUTE
    ProjectLimit,       \* RATE_LIMIT_PUBLISH_PROJECT_PER_MINUTE
    WindowMs,           \* of the rate limiter, in ticks of the clock
    Ttl,                \* IDEMPOTENCY_TTL_SECONDS, in ticks
    MaxNow,             \* bound of the clock
    MaxFaults,          \* rejected awaits and deaths of the process
    NoCall              \* no call, no list of endpoints

\* env-schema.js: the project's limit is not below the limit of one key.
ASSUME PublishAssumption ==
    /\ KeyLimit \in Nat \ {0} /\ ProjectLimit \in Nat /\ KeyLimit <= ProjectLimit
    /\ WindowMs \in Nat \ {0} /\ Ttl \in Nat \ {0}
    /\ MaxNow \in Nat /\ MaxFaults \in Nat

\* Names are sequences of strings.  schemas/publish.js lets through the types of
\* bodies, schemas/dashboard.js the patterns of endpoints.
ASSUME TypesAssumption ==
    /\ \A ep \in Endpoints : \A p \in Subscriptions[ep] : p \in Seq(STRING) /\ eventTypePattern(p)
    /\ \A k \in IdempotencyKeys : LET eventType == Bodies[k].eventType
                                IN  eventType \in Seq(STRING) /\ isValidEventType(eventType)

\* What a key of the store holds besides the response of a call.
Free == "none"
Reserved == "reserved"
ASSUME CallsAssumption == IsFiniteSet(Calls) /\ Calls \cap {Free, Reserved} = {}

Project == "project"
Identities == ApiKeys \cup {Project}
limitOf(identity) == IF identity = Project THEN ProjectLimit ELSE KeyLimit

VARIABLES
    now,
    window,     \* the sorted sets of the limiter: [Identities -> calls in it]
    store,      \* Redis under the idempotency keys: "none", "reserved" or a response
    expiry,     \* when a key of the store expires
    holder,     \* history: the call that reserved a key last
    call,       \* the calls
    events,     \* committed events: [id, key, at, targets]
    counts,     \* the publish counter of the process
    faults      \* rejected awaits and deaths so far

vars == <<now, window, store, expiry, holder, call, events, counts, faults>>

Results == {"accepted", "rejected", "error"}

NewCall == [stage |-> "idle", apiKey |-> NoCall, idem |-> NoCall, at |-> 0,
            status |-> 0, event |-> NoCall, holds |-> FALSE, stored |-> FALSE, admitted |-> FALSE]

Init ==
    /\ now = 0
    /\ window = [i \in Identities |-> {}]
    /\ store = [k \in IdempotencyKeys |-> Free]
    /\ expiry = [k \in IdempotencyKeys |-> 0]
    /\ holder = [k \in IdempotencyKeys |-> NoCall]
    /\ call = [c \in Calls |-> NewCall]
    /\ events = {}
    /\ counts = [r \in Results |-> 0]
    /\ faults = 0

At(c, stage) == call[c].stage = stage

\* An AppError keeps its status, a body-parser failure is translated, and
\* anything else is answered 500 (normalise, toProblem).
Errors == [validation |-> 400, unauthorized |-> 401, conflict |-> 409, too_large |-> 413,
           unprocessable |-> 422, rate_limited |-> 429, other |-> 500]
Throw(c, error) == call' = [call EXCEPT ![c].stage = "finish", ![c].status = Errors[error]]
-----------------------------------------------------------------------------
\* express.json in front of the router: the body parser fails before any
\* middleware of the route runs.
parseFails(c) == \E error \in {"too_large", "validation"} : Throw(c, error)

\* The key is missing, malformed, unknown, wrong or revoked, or its record is what
\* the call is counted against.  lastUsedAt, a convenience column, is left out.
apiKeyAuth(c) ==
    \/ Throw(c, "unauthorized")
    \/ \E apiKey \in ApiKeys, idem \in IdempotencyKeys :
          call' = [call EXCEPT ![c].stage = "claim", ![c].apiKey = apiKey, ![c].idem = idem]

Receive(c) ==
    /\ At(c, "idle")
    /\ parseFails(c) \/ apiKeyAuth(c)
    /\ UNCHANGED <<now, window, store, expiry, holder, events, counts, faults>>

\* The identities a publish is counted against.
identify(c) == {call[c].apiKey, Project}

trimmed_TooMuch(identity) == {e \in window[identity] : e.at > now + 1 - WindowMs}

\* zremrangebyscore(0, now - windowMs)
trimmed(identity) == {e \in window[identity] : e.at > now - WindowMs}

\* One MULTI per call: drop what left the window, add the call, count.  The
\* counts travel in the reply, so the verdict is taken with the step that reads.
rateLimit(c) ==
    LET entry == [call |-> c, at |-> now]
        after == [i \in Identities |-> IF i \in identify(c)
                                       THEN trimmed(i) \cup {entry} ELSE window[i]]
        allowed == \A i \in identify(c) : Cardinality(after[i]) <= limitOf(i)
    IN  /\ At(c, "claim")
        /\ window' = after
        /\ call' = [call EXCEPT ![c].stage = IF allowed THEN "reserve" ELSE "rollback",
                                ![c].at = now, ![c].admitted = allowed]
        /\ UNCHANGED <<now, store, expiry, holder, events, counts, faults>>

\* A refused call gives its places back, in the project's window too.
rollback(c) ==
    /\ At(c, "rollback")
    /\ window' = [i \in Identities |-> IF i \in identify(c)
                                       THEN {e \in window[i] : e.call # c} ELSE window[i]]
    /\ Throw(c, "rate_limited")
    /\ UNCHANGED <<now, store, expiry, holder, events, counts, faults>>

validateBody(c) == Throw(c, "validation")
-----------------------------------------------------------------------------
reserve_Unconditional(c) ==
    LET k == call[c].idem
    IN  /\ At(c, "reserve")
        /\ store' = [store EXCEPT ![k] = Reserved]
        /\ expiry' = [expiry EXCEPT ![k] = now + Ttl]
        /\ holder' = [holder EXCEPT ![k] = c]
        /\ call' = [call EXCEPT ![c].stage = "publish", ![c].holds = TRUE]
        /\ UNCHANGED <<now, window, events, counts, faults>>

\* A body that fails validation is refused; for the others SET NX lets the first
\* call of a key go on, and the rest look the key up.
reserve(c) ==
    LET k == call[c].idem
    IN  /\ At(c, "reserve")
        /\ \/ validateBody(c) /\ UNCHANGED <<store, expiry, holder>>
           \/ /\ store[k] = Free
              /\ store' = [store EXCEPT ![k] = Reserved]
              /\ expiry' = [expiry EXCEPT ![k] = now + Ttl]
              /\ holder' = [holder EXCEPT ![k] = c]
              /\ call' = [call EXCEPT ![c].stage = "publish", ![c].holds = TRUE]
           \/ /\ store[k] # Free
              /\ call' = [call EXCEPT ![c].stage = "lookup"]
              /\ UNCHANGED <<store, expiry, holder>>
        /\ UNCHANGED <<now, window, events, counts, faults>>

lookup_AnyValue(c) ==
    /\ At(c, "lookup")
    /\ call' = [call EXCEPT ![c].stage = "finish", ![c].status = 202]
    /\ UNCHANGED <<now, window, store, expiry, holder, events, counts, faults>>

\* GET: a key that is still reserved, or that expired meanwhile, is a conflict;
\* a stored response is answered again.
lookup(c) ==
    LET original == store[call[c].idem]
    IN  /\ At(c, "lookup")
        /\ IF original \in {Free, Reserved}
           THEN Throw(c, "conflict")
           ELSE call' = [call EXCEPT ![c].stage = "finish", ![c].status = 202,
                                     ![c].event = original]
        /\ UNCHANGED <<now, window, store, expiry, holder, events, counts, faults>>

\* The endpoints an event goes to: the listed ones, when all of them belong to
\* the project, else the subscribed ones.
explicitEndpoints(endpointIds) == IF endpointIds \subseteq Endpoints THEN endpointIds ELSE {}
subscribedEndpoints(eventType) ==
    {ep \in Endpoints : subscriptionMatches(Subscriptions[ep], eventType)}

\* publishEvent up to its commit: nowhere to send is refused.
publishEvent(c) ==
    LET body == Bodies[call[c].idem]
        targets == IF body.endpointIds = NoCall THEN subscribedEndpoints(body.eventType)
                                                ELSE explicitEndpoints(body.endpointIds)
    IN  /\ At(c, "publish")
        /\ IF targets = {}
           THEN Throw(c, "unprocessable") /\ UNCHANGED events
           ELSE /\ events' = events \cup
                      {[id |-> c, key |-> call[c].idem, at |-> now, targets |-> targets]}
                /\ call' = [call EXCEPT ![c].stage = "store", ![c].event = c]
        /\ UNCHANGED <<now, window, store, expiry, holder, counts, faults>>

\* The response replaces the reservation, whatever the key holds by then.
storeResponse(c) ==
    LET k == call[c].idem
    IN  /\ At(c, "store")
        /\ store' = [store EXCEPT ![k] = call[c].event]
        /\ expiry' = [expiry EXCEPT ![k] = now + Ttl]
        /\ call' = [call EXCEPT ![c].stage = "finish", ![c].status = 202, ![c].stored = TRUE]
        /\ UNCHANGED <<now, window, holder, events, counts, faults>>

publishResult(status) ==
    CASE status \in 200 .. 299 -> "accepted"
      [] status \in 400 .. 499 -> "rejected"
      [] OTHER -> "error"

\* The answer leaves, and the two listeners of 'finish' run: the counter, and
\* the release of a reservation that produced no stored response.  When the client
\* has gone before its answer, 'finish' is never emitted and neither of them runs.
finish(c) ==
    LET releases == call[c].holds /\ ~ call[c].stored /\ call[c].status >= 400
    IN  /\ At(c, "finish")
        /\ \/ /\ counts' = [counts EXCEPT ![publishResult(call[c].status)] = @ + 1]
              /\ call' = [call EXCEPT ![c].stage = IF releases THEN "release" ELSE "done"]
           \/ /\ call' = [call EXCEPT ![c].stage = "closed"]
              /\ UNCHANGED counts
        /\ UNCHANGED <<now, window, store, expiry, holder, events, faults>>

release_Never(c) ==
    /\ At(c, "release")
    /\ call' = [call EXCEPT ![c].stage = "done", ![c].holds = FALSE]
    /\ UNCHANGED <<now, window, store, expiry, holder, events, counts, faults>>

\* DEL, whoever holds the key by then.
release(c) ==
    /\ At(c, "release")
    /\ store' = [store EXCEPT ![call[c].idem] = Free]
    /\ call' = [call EXCEPT ![c].stage = "done", ![c].holds = FALSE]
    /\ UNCHANGED <<now, window, expiry, holder, events, counts, faults>>
-----------------------------------------------------------------------------
\* A rejected await is answered 500.  store() has already marked the response
\* stored when its write rejects; a rejected DEL is swallowed; a publish that
\* fails after the commit leaves the event.
RejectedAwait(c) ==
    /\ faults < MaxFaults
    /\ faults' = faults + 1
    /\ call[c].stage \in {"claim", "rollback", "reserve", "lookup", "publish",
                          "store", "release"}
    /\ IF At(c, "release")
       THEN call' = [call EXCEPT ![c].stage = "stuck"]
       ELSE \E marked \in {call[c].stored, At(c, "store")} :
               call' = [call EXCEPT ![c].stage = "finish", ![c].status = Errors["other"],
                                    ![c].stored = marked]
    /\ UNCHANGED <<now, window, store, expiry, holder, events, counts>>

\* "closed": the client has gone; "stuck": the release was rejected.
Running(c) == call[c].stage \notin {"idle", "done", "closed", "stuck", "dead"}

\* The process dies with its calls and its counter.
Die ==
    /\ faults < MaxFaults
    /\ faults' = faults + 1
    /\ call' = [c \in Calls |-> IF Running(c) THEN [call[c] EXCEPT !.stage = "dead"] ELSE call[c]]
    /\ counts' = [r \in Results |-> 0]
    /\ UNCHANGED <<now, window, store, expiry, holder, events>>

\* Time passes, and keys expire.  A call is over before its reservation expires:
\* the TTL is a day by default, a call's awaits take seconds.
Tick ==
    /\ now < MaxNow
    /\ \A c \in Calls : Running(c) /\ call[c].holds => now + 1 < expiry[call[c].idem]
    /\ now' = now + 1
    /\ store' = [k \in IdempotencyKeys |-> IF expiry[k] <= now + 1 THEN Free ELSE store[k]]
    /\ UNCHANGED <<window, expiry, holder, call, events, counts, faults>>

Step(c) ==
    \/ Receive(c) \/ rateLimit(c) \/ rollback(c)
    \/ reserve(c) \/ lookup(c) \/ publishEvent(c) \/ storeResponse(c)
    \/ finish(c) \/ release(c)

Next ==
    \/ \E c \in Calls : Step(c) \/ RejectedAwait(c)
    \/ Die
    \/ Tick

Spec == Init /\ [][Next]_vars
-----------------------------------------------------------------------------
\* An answer that reports a failure after the event was committed, or none.
Unanswered(c) == call[c].status = 500 \/ At(c, "dead")

\* idempotency.js: concurrent and repeated calls with one key make one event
\* within the key's lifetime, unless the caller of an earlier one was told 500.
OneEventPerKey ==
    \A e, f \in events :
        e # f /\ e.key = f.key /\ e.at <= f.at
            => Unanswered(e.id) \/ Unanswered(f.id) \/ f.at - e.at >= Ttl

\* idempotency.js, publish.js: a 202, fresh or replayed, names an event that was
\* committed under the caller's own key.
AcceptedIsBacked ==
    \A c \in Calls : call[c].status = 202 =>
        \E e \in events : e.id = call[c].event /\ e.key = call[c].idem

\* rate-limit.js: in no window of the clock are more calls admitted than a key,
\* or the project over all of its keys, is allowed; and "the rejected call is removed
\* again": a call that was answered 429 takes no place in any window, so hammering
\* does not prolong the refusal.
SlidingLimit ==
    \A i \in Identities :
        /\ \A t \in 0 .. now :
              Cardinality({c \in Calls : /\ call[c].admitted /\ i \in identify(c)
                                         /\ call[c].at \in (t - WindowMs + 1) .. t}) <= limitOf(i)
        /\ \A e \in window[i] : call[e.call].status # 429

\* event-types.js: an event without a list goes to the endpoints whose patterns
\* cover its type word for word, and to no other.
FanOutFollowsSubscriptions ==
    \A e \in events :
        LET body == Bodies[e.key]
        IN  body.endpointIds = NoCall =>
                e.targets = {ep \in Endpoints : \/ Subscriptions[ep] = {}
                    \/ \E p \in Subscriptions[ep] : Covers(p, body.eventType)}

\* What ends a call before it could store its response or give its key back.
Interrupted(c) ==
    \/ At(c, "dead") \/ At(c, "closed") \/ At(c, "stuck")
    \/ call[c].stored /\ call[c].status = 500

\* idempotency.js: "A reservation that never produced a response would lock the key
\* for the whole TTL": a key is reserved only while the call that took it is on its
\* way to store its response or to give the key back, unless that very call was
\* interrupted: its process died, its client hung up before the answer, or Redis
\* rejected its response or its release.  Then the key stays reserved until it expires.
ReservedIsHeld ==
    \A k \in IdempotencyKeys : store[k] = Reserved =>
        \E c \in Calls :
            /\ c = holder[k] /\ call[c].idem = k /\ call[c].holds
            /\ Running(c) \/ Interrupted(c)
=============================================================================
