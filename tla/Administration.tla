---------------------------- MODULE Administration ----------------------------
(***************************************************************************)
(* A project under concurrent administration: memberships, API keys, the   *)
(* alert address and one endpoint (project-service.js, api-key-service.js, *)
(* endpoint-service.js behind routes/projects.js and routes/endpoints.js), *)
(* and the signed attempts at that endpoint: a worker reads the row, takes *)
(* a token, signs with the secrets that are active then (signing.js), and  *)
(* the receiver verifies with the secret it holds (hmac.js).  Every await  *)
(* of a service is a step of its own.  Secrets and times are numbers; the  *)
(* secret a call generates is the call's number.                           *)
(***************************************************************************)
EXTENDS Integers, FiniteSets

CONSTANTS
    Users,          \* accounts; each has at most one call in flight
    Urls, SafeUrls, \* URLs, and those resolveSafeTarget lets through
    Grace,          \* SECRET_ROTATION_GRACE_HOURS in ticks
    Tolerance,      \* TIMESTAMP_TOLERANCE_SECONDS in ticks
    MaxCalls, MaxTime

ASSUME AdministrationAssumption ==
    /\ SafeUrls \subseteq Urls
    /\ {Grace, Tolerance, MaxCalls, MaxTime} \subseteq Nat

None == "none"
NoEndpoint == [secret |-> 0]
NoMessage == [at |-> "none"]
Idle == [id |-> 0, op |-> None, at |-> "idle", role |-> None, arg |-> None, seen |-> NoEndpoint]

VARIABLES
    members,    \* [Users -> None, "MEMBER" or "OWNER"]
    project,    \* [exists, alertWebhookUrl, apiKey]
    endpoint,   \* the endpoint's row, or NoEndpoint
    calls,      \* [Users -> the call in flight]
    promises,   \* previousSecretExpiresAt, as the answers to rotations gave it
    crowded,    \* a rotation was written while an earlier promise was running
    raced,      \* two removals were between their count and their delete
    message,    \* the attempt at the endpoint, from reading the row to the verdict
    held,       \* the secret the receiver verifies with
    clock, served

vars == <<members, project, endpoint, calls, promises, crowded, raced, message, held,
          clock, served>>
rows == <<members, project, endpoint>>
signing == <<promises, crowded, message, held>>

Init ==
    /\ members = [u \in Users |-> None]
    /\ project = [exists |-> FALSE, alertWebhookUrl |-> None, apiKey |-> None]
    /\ endpoint = NoEndpoint
    /\ calls = [u \in Users |-> Idle]
    /\ promises = {} /\ crowded = FALSE /\ raced = FALSE
    /\ message = NoMessage
    /\ held = 0
    /\ clock = 0 /\ served = 0
-----------------------------------------------------------------------------
(* Authorisation *)

EndpointOps == {"update", "rotate", "enable", "disable", "remove", "test"}
ProjectOps == {"patch", "add", "expel", "key", "revoke", "create"}

\* A stranger gets 404 and a member without the role 403.
assertMembership(role, required) == role # None /\ (required = "OWNER" => role = "OWNER")
requiredRole(op) == IF op = "test" THEN "MEMBER" ELSE "OWNER"

Arguments(op) ==
    CASE op \in {"add", "expel"}     -> Users
      [] op \in {"create", "update"} -> Urls
      [] op = "patch"                -> Urls \cup {None}
      [] OTHER                       -> {None}

Goto(u, at) == calls' = [calls EXCEPT ![u].at = at]
Return(u) == calls' = [calls EXCEPT ![u] = Idle]
At(u, op, at) == calls[u].op = op /\ calls[u].at = at

\* jwtAuth reads the memberships of the caller, once per call; the routes of a
\* project check the role before anything else, those of an endpoint after
\* loading it.
jwtAuth(u) ==
    /\ calls[u] = Idle /\ served < MaxCalls
    /\ \E op \in EndpointOps \cup ProjectOps : \E arg \in Arguments(op) :
          /\ op \in ProjectOps => assertMembership(members[u], requiredRole(op))
          /\ calls' = [calls EXCEPT ![u] =
                [id |-> served + 1, op |-> op, at |-> IF op \in EndpointOps THEN "load" ELSE "begin",
                 role |-> members[u], arg |-> arg, seen |-> NoEndpoint]]
    /\ served' = served + 1
    /\ UNCHANGED <<rows, raced, signing, clock>>
-----------------------------------------------------------------------------
(* Projects, members and API keys *)

Owners == {u \in Users : members[u] = "OWNER"}

createProject(u) ==
    /\ ~project.exists
    /\ project' = [project EXCEPT !.exists = TRUE]
    /\ members' = [members EXCEPT ![u] = "OWNER"]
    /\ UNCHANGED <<endpoint, calls, raced, signing, clock, served>>

\* The guard of the target, run by the service of the project and of the endpoint.
assertAlertTarget(url) == url \in SafeUrls
assertReachable(url) == url \in SafeUrls

\* An alert address is guarded, null is not.
updateProject(u) ==
    /\ \/ At(u, "patch", "begin") /\ UNCHANGED project
          /\ IF calls[u].arg = None \/ assertAlertTarget(calls[u].arg) THEN Goto(u, "write") ELSE Return(u)
       \/ At(u, "patch", "write") /\ Return(u)
          /\ project' = [project EXCEPT !.alertWebhookUrl = calls[u].arg]
    /\ UNCHANGED <<members, endpoint, raced, signing, clock, served>>

addMember(u) ==
    /\ \/ At(u, "add", "begin") /\ UNCHANGED members
          /\ IF members[calls[u].arg] # None THEN Return(u) ELSE Goto(u, "write")
       \/ At(u, "add", "write") /\ Return(u)      \* the primary key refuses a second row
          /\ \E role \in {"MEMBER", "OWNER"} :
                members' = IF members[calls[u].arg] # None THEN members
                           ELSE [members EXCEPT ![calls[u].arg] = role]
    /\ UNCHANGED <<project, endpoint, raced, signing, clock, served>>

findMember(u) ==
    /\ At(u, "expel", "begin")
    /\ CASE members[calls[u].arg] = None    -> Return(u)
         [] members[calls[u].arg] = "OWNER" -> Goto(u, "count")
         [] OTHER                           -> Goto(u, "delete")
    /\ UNCHANGED <<rows, raced, signing, clock, served>>

countOwners_Never(u) ==
    /\ At(u, "expel", "count") /\ Goto(u, "delete")
    /\ UNCHANGED <<rows, raced, signing, clock, served>>

\* "The last owner cannot be removed; promote another member to owner first".
countOwners(u) ==
    /\ At(u, "expel", "count")
    /\ IF Cardinality(Owners) = 1 THEN Return(u) ELSE Goto(u, "delete")
    /\ raced' = (raced \/ (Cardinality(Owners) # 1 /\ \E v \in Users : At(v, "expel", "delete")))
    /\ UNCHANGED <<rows, signing, clock, served>>

deleteMember(u) ==
    /\ At(u, "expel", "delete")
    /\ members' = [members EXCEPT ![calls[u].arg] = None]
    /\ Return(u)
    /\ UNCHANGED <<project, endpoint, raced, signing, clock, served>>

createApiKey(u) ==
    /\ At(u, "key", "begin")
    /\ project' = [project EXCEPT !.apiKey = "live"]
    /\ Return(u)
    /\ UNCHANGED <<members, endpoint, raced, signing, clock, served>>

revokeApiKey(u) ==
    /\ \/ At(u, "revoke", "begin") /\ UNCHANGED project
          /\ IF project.apiKey = None THEN Return(u) ELSE Goto(u, "write")
       \/ At(u, "revoke", "write") /\ Return(u)
          /\ project' = [project EXCEPT !.apiKey = "revoked"]
    /\ UNCHANGED <<members, endpoint, raced, signing, clock, served>>
-----------------------------------------------------------------------------
(* The endpoint *)

createEndpoint(u) ==
    /\ \/ At(u, "create", "begin") /\ UNCHANGED <<endpoint, held>>
          /\ IF assertReachable(calls[u].arg) THEN Goto(u, "write") ELSE Return(u)
       \/ At(u, "create", "write") /\ Return(u)
          /\ IF held # 0 THEN UNCHANGED <<endpoint, held>>     \* a second one is not followed
             ELSE /\ endpoint' = [url |-> calls[u].arg, status |-> "ACTIVE", secret |-> calls[u].id,
                                  previousSecret |-> 0, secretRotatedAt |-> 0, history |-> FALSE]
                  /\ held' = calls[u].id
    /\ UNCHANGED <<members, project, raced, promises, crowded, message, clock, served>>

\* A missing endpoint is 404; the role is the one jwtAuth read.
load(u) ==
    /\ calls[u].op \in EndpointOps /\ calls[u].at = "load"
    /\ IF endpoint = NoEndpoint \/ ~assertMembership(calls[u].role, requiredRole(calls[u].op))
       THEN Return(u)
       ELSE calls' = [calls EXCEPT ![u].at = "loaded", ![u].seen = endpoint]
    /\ UNCHANGED <<rows, raced, signing, clock, served>>

\* The update of a row deleted meanwhile is an error.
Write(u, row) ==
    /\ endpoint' = IF endpoint = NoEndpoint THEN endpoint ELSE row
    /\ Return(u)

updateEndpoint_Unguarded(u) ==
    /\ At(u, "update", "loaded") /\ Write(u, [endpoint EXCEPT !.url = calls[u].arg])
    /\ UNCHANGED <<members, project, raced, signing, clock, served>>

\* The guard runs only when the URL differs from the one loaded.
updateEndpoint(u) ==
    /\ \/ /\ At(u, "update", "loaded")
          /\ IF calls[u].arg = calls[u].seen.url \/ assertReachable(calls[u].arg)
             THEN Goto(u, "write") ELSE Return(u)
          /\ UNCHANGED endpoint
       \/ At(u, "update", "write") /\ Write(u, [endpoint EXCEPT !.url = calls[u].arg])
    /\ UNCHANGED <<members, project, raced, signing, clock, served>>

previousSecretExpiresAt(rotatedAt) == rotatedAt + Grace
Running(p) == clock < p.until

\* The new secret replaces the one in the row, the one that was loaded becomes
\* the previous one, and the answer promises until when it signs.
rotateSecret(u) ==
    /\ At(u, "rotate", "loaded")
    /\ Write(u, [endpoint EXCEPT !.secret = calls[u].id,
                                 !.previousSecret = calls[u].seen.secret,
                                 !.secretRotatedAt = clock])
    /\ IF endpoint = NoEndpoint THEN UNCHANGED <<promises, crowded>>
       ELSE /\ promises' = promises \cup
                  {[secret |-> calls[u].seen.secret, until |-> previousSecretExpiresAt(clock)]}
            /\ crowded' = (crowded \/ \E p \in promises : Running(p))
    /\ UNCHANGED <<members, project, raced, message, held, clock, served>>

enable(u) ==
    /\ At(u, "enable", "loaded") /\ Write(u, [endpoint EXCEPT !.status = "ACTIVE"])
    /\ UNCHANGED <<members, project, raced, signing, clock, served>>

disable(u) ==
    /\ At(u, "disable", "loaded") /\ Write(u, [endpoint EXCEPT !.status = "DISABLED"])
    /\ UNCHANGED <<members, project, raced, signing, clock, served>>

\* Deliveries keep their endpoint: with history the delete is refused.
removeEndpoint(u) ==
    /\ At(u, "remove", "loaded")
    /\ endpoint' = IF endpoint # NoEndpoint /\ endpoint.history THEN endpoint ELSE NoEndpoint
    /\ Return(u)
    /\ UNCHANGED <<members, project, raced, signing, clock, served>>

sendTest(u) ==
    /\ At(u, "test", "loaded") /\ Write(u, [endpoint EXCEPT !.history = TRUE])
    /\ UNCHANGED <<members, project, raced, signing, clock, served>>
-----------------------------------------------------------------------------
(* Attempts and the receiver *)

\* handleDelivery reads the delivery with its endpoint.  promised keeps, for the
\* property, the promises that were made by then.
ReadRow ==
    /\ endpoint # NoEndpoint /\ endpoint.status = "ACTIVE" /\ endpoint.history
    /\ message.at \in {"none", "done"}
    /\ message' = [at |-> "read", row |-> endpoint, promised |-> promises]
    /\ UNCHANGED <<rows, calls, promises, crowded, raced, held, clock, served>>

\* The bucket grants a token (TokenBucket), or the message is parked.
take ==
    /\ message.at = "read"
    /\ message' \in {[message EXCEPT !.at = "granted"], NoMessage}
    /\ UNCHANGED <<rows, calls, promises, crowded, raced, held, clock, served>>

activeSecrets_CurrentOnly(row, now) == {row.secret}

activeSecrets(row, now) ==
    {row.secret} \cup
    {s \in {row.previousSecret} : s # 0 /\ now < previousSecretExpiresAt(row.secretRotatedAt)}

\* deliveryHeaders: one signature per active secret over the timestamp and the body.
deliveryHeaders ==
    /\ message.at = "granted"
    /\ message' = [at |-> "sent", row |-> message.row, promised |-> message.promised,
                   timestamp |-> clock, signatures |-> activeSecrets(message.row, clock)]
    /\ UNCHANGED <<rows, calls, promises, crowded, raced, held, clock, served>>

verifySignature(signatures, secret, timestamp, now) ==
    IF now - timestamp > Tolerance \/ timestamp - now > Tolerance THEN "timestamp_skew"
    ELSE IF secret \in signatures THEN "valid" ELSE "signature_mismatch"

\* record: the receiver verifies with the secret it is configured with.
record ==
    /\ message.at = "sent"
    /\ message' = [at |-> "done", row |-> message.row, promised |-> message.promised,
                   timestamp |-> message.timestamp, held |-> held, verdict |->
                   verifySignature(message.signatures, held, message.timestamp, clock)]
    /\ UNCHANGED <<rows, calls, promises, crowded, raced, held, clock, served>>

\* The integrator installs the secret the API returned last.
Install ==
    /\ endpoint # NoEndpoint /\ held # endpoint.secret
    /\ held' = endpoint.secret
    /\ UNCHANGED <<rows, calls, promises, crowded, raced, message, clock, served>>

Tick ==
    /\ clock < MaxTime
    /\ clock' = clock + 1
    /\ UNCHANGED <<rows, calls, promises, crowded, raced, message, held, served>>
-----------------------------------------------------------------------------
Step(u) ==
    \/ jwtAuth(u) \/ createProject(u) \/ updateProject(u) \/ addMember(u)
    \/ findMember(u) \/ countOwners(u) \/ deleteMember(u)
    \/ createApiKey(u) \/ revokeApiKey(u)
    \/ createEndpoint(u) \/ load(u) \/ updateEndpoint(u) \/ rotateSecret(u)
    \/ enable(u) \/ disable(u) \/ removeEndpoint(u) \/ sendTest(u)

\* The bounds are used up.
Rest ==
    /\ served = MaxCalls /\ clock = MaxTime /\ \A u \in Users : calls[u] = Idle
    /\ message.at \in {"none", "done"}
    /\ UNCHANGED vars

Next ==
    \/ \E u \in Users : Step(u)
    \/ Rest \/ ReadRow \/ take \/ deliveryHeaders \/ record \/ Install \/ Tick

Spec == Init /\ [][Next]_vars
-----------------------------------------------------------------------------
Roles == {None, "MEMBER", "OWNER"}
Rows == [url : Urls, status : {"ACTIVE", "DISABLED"}, secret : Nat, previousSecret : Nat,
         secretRotatedAt : Nat, history : BOOLEAN]
CallRecords == [id : Nat, op : EndpointOps \cup ProjectOps \cup {None},
                at : {"idle", "begin", "load", "loaded", "count", "delete", "write"},
                role : Roles, arg : Users \cup Urls \cup {None}, seen : Rows \cup {NoEndpoint}]

TypeOK ==
    /\ members \in [Users -> Roles]
    /\ project \in [exists : BOOLEAN, alertWebhookUrl : Urls \cup {None},
                    apiKey : {None, "live", "revoked"}]
    /\ endpoint \in Rows \cup {NoEndpoint}
    /\ calls \in [Users -> CallRecords]
    /\ raced \in BOOLEAN /\ clock \in Nat /\ served \in Nat

\* project-service.js: "The last owner cannot be removed".  A project keeps an owner
\* through any calls of its owners, as long as no two removals are both past the
\* count before either deletes.
OwnerRemains == project.exists => Owners # {} \/ raced

\* endpoint-service.js: "The guard runs while the endpoint is being saved".  However
\* updates interleave, the URL in the row and the alert address are ones the guard
\* let through.
StoredUrlsAreGuarded ==
    /\ endpoint # NoEndpoint => endpoint.url \in SafeUrls
    /\ project.alertWebhookUrl \in SafeUrls \cup {None}

\* hmac.js: "The API promises this instant to the integrator and the worker decides
\* against it whether the old signature still travels".  An attempt is refused for its
\* signature only when the receiver does not hold the secret of the row it was read from,
\* and no promise made before that covers the one it holds, unless rotations crowded each
\* other.
PromisedSecretVerifies ==
    message.at = "done" /\ message.verdict = "signature_mismatch" =>
        /\ message.held # message.row.secret
        /\ crowded \/ \A p \in message.promised :
              p.secret = message.held => message.timestamp >= p.until
=============================================================================
