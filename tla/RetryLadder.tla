----------------------------- MODULE RetryLadder -----------------------------
(***************************************************************************)
(* One delivery walking the retry ladder, with the data the pipeline leaves *)
(* out: real statuses, Retry-After headers, delays and jitter.  Each step   *)
(* is the part of handleDelivery that turns the answer of an attempt into   *)
(* an outcome and, for a retry, into the queue and the expiration that      *)
(* publishRetry uses.  In front of it an attempt goes through the guard     *)
(* (TargetGuard) and the HTTP client (worker/http-client.js), while what    *)
(* the host's name resolves to may change between any two of its steps.     *)
(***************************************************************************)
EXTENDS Retry, TargetGuard

CONSTANTS
    Answers,    \* HTTP statuses and transport errors of the receiver
    Headers,    \* Retry-After headers
    Targets,    \* [url, addresses]: the URL and what its host resolves to now
    Guard       \* SSRF_ALLOW_PRIVATE and SSRF_BLOCKED_PORTS

\* retry.js: the delays are whole minutes, so a tenth of one is a whole number.
ASSUME DelayAssumption == \A i \in DOMAIN RETRY_SCHEDULE : RETRY_SCHEDULE[i] % 10 = 0

\* What a header holds where it is a number or a date.
ASSUME HeadersAssumption ==
    \A header \in Headers : header.kind \in {"number", "date"} => header.value \in Int

\* The addresses are texts that isIP accepts or that the lookup answers.
ASSUME TargetsAssumption ==
    \A t \in Targets :
        /\ t.addresses \in Seq({t.addresses[i] : i \in DOMAIN t.addresses})
        /\ \A i \in DOMAIN t.addresses : IsAddress(t.addresses[i])

VARIABLES
    attempt,    \* the attempt the queued message carries
    outcome,    \* "walking", "SUCCEEDED", or the reason of the failure
    waits,      \* the retries so far
    target      \* the target of the running attempt, its verdict and connection

ladder == <<attempt, outcome, waits, target>>

NoTarget == << >>

LadderInit == attempt = 1 /\ outcome = "walking" /\ waits = << >> /\ target = NoTarget

failureReason(classification) ==
    IF classification = PERMANENT THEN PERMANENT ELSE "EXHAUSTED"

\* finaliseRetry and publishRetry, or finaliseFailure.
Settle(classification, retryAfter) ==
    LET level == nextRetryLevel(classification, attempt, retryAfter)
    IN  IF level = NoLevel
        THEN /\ outcome' = failureReason(classification)
             /\ UNCHANGED <<attempt, waits>>
        ELSE \E draw \in {0, JitterSteps - 1} :
                /\ waits' = Append(waits,
                      [after |-> attempt, level |-> level, asked |-> retryAfter,
                       expiration |-> applyJitter(RETRY_SCHEDULE[level], draw)])
                /\ attempt' = attempt + 1
                /\ UNCHANGED outcome

Verdict == target[1].verdict

\* The attempt resolves the host once.
ResolveTarget ==
    /\ outcome = "walking" /\ target = NoTarget
    /\ \E t \in Targets :
          target' = << [seen |-> t, connected |-> Undefined,
                        verdict |-> resolveSafeTarget(t.url, t.addresses, Guard)] >>
    /\ UNCHANGED <<attempt, outcome, waits>>

\* resolveTarget rejects: a name that did not resolve is retryable.
RejectTarget ==
    /\ target # NoTarget /\ ~Verdict.ok
    /\ Settle(IF Verdict.reason = "dns_failure" THEN RETRYABLE ELSE PERMANENT, Undefined)
    /\ target' = NoTarget

pinnedDispatcher_Resolves(pinned, resolvesTo) ==
    IF resolvesTo = << >> THEN pinned ELSE resolvesTo[1]

\* The dispatcher's lookup answers the pinned address, whatever the name
\* resolves to when the connection opens.
pinnedDispatcher(pinned, resolvesTo) == pinned

Connect ==
    /\ target # NoTarget /\ Verdict.ok /\ target[1].connected = Undefined
    /\ \E t \in {u \in Targets : u.url = target[1].seen.url} :
          target' = << [target[1] EXCEPT !.connected =
                          Defined(pinnedDispatcher(Verdict.address, t.addresses))] >>
    /\ UNCHANGED <<attempt, outcome, waits>>

\* One POST without redirects.  An error, a timeout and a body that breaks off
\* all lose the status; what the headers said is lost with it.
sendWebhook(status, header, bodyRead) ==
    [responseStatus |-> IF bodyRead THEN status ELSE Undefined,
     retryAfter |-> IF bodyRead /\ status # Undefined THEN retryAfterSeconds(header)
                                                     ELSE Undefined]

Answer(status, header, bodyRead) ==
    /\ target # NoTarget /\ target[1].connected # Undefined
    /\ LET result == sendWebhook(status, header, bodyRead)
       IN  IF isSuccess(result.responseStatus)
           THEN outcome' = "SUCCEEDED" /\ UNCHANGED <<attempt, waits>>
           ELSE Settle(classifyFailure(result.responseStatus), result.retryAfter)
    /\ target' = NoTarget

Finished == outcome # "walking" /\ UNCHANGED ladder

LadderNext ==
    \/ ResolveTarget \/ RejectTarget \/ Connect
    \/ \E status \in Answers, header \in Headers, bodyRead \in BOOLEAN :
          Answer(status, header, bodyRead)
    \/ Finished

LadderSpec == LadderInit /\ [][LadderNext]_ladder

\* Long enough for the ladder and for Retry-After; and the least such level.
Enough(wait, level) ==
    /\ level >= wait.after
    /\ wait.asked = Undefined \/ RETRY_SCHEDULE[level] >= wait.asked[1] * 1000
LeastEnough(wait) ==
    IF \E level \in Levels : Enough(wait, level)
    THEN /\ Enough(wait, wait.level)
         /\ \A level \in Levels : Enough(wait, level) => wait.level <= level
    ELSE wait.level = Len(RETRY_SCHEDULE)

\* architecture.md, section 5: a retry waits in the shortest queue that is neither
\* shorter than its place on the ladder nor shorter than what Retry-After asked
\* for, and in the longest one when no queue is long enough.
WaitIsLeastEnough == \A i \in DOMAIN waits : LeastEnough(waits[i])

\* retry.js: "Jitter never lengthens the delay".  The expiration stays within the
\* tenth below the queue's TTL, which the broker would otherwise cut it to.
ExpirationInBand ==
    \A i \in DOMAIN waits :
        LET ttl == RETRY_SCHEDULE[waits[i].level]
        IN  waits[i].expiration \in (ttl - ttl \div 10) .. ttl

\* The ladder ends by exhaustion exactly when every attempt it allows was made.
ExhaustedIsFullLadder ==
    /\ attempt <= MAX_ATTEMPTS /\ Len(waits) = attempt - 1
    /\ outcome = "EXHAUSTED" => attempt = MAX_ATTEMPTS

Reachable(address) ==
    IF address.version = 4 THEN ReachableQuad(address.quad) ELSE ReachableGroups(address.means)

\* ssrf.js: the guard lets a host through exactly when it resolves and none of its
\* addresses, in whatever notation, lies in a special-purpose block; it is compared
\* with the blocks as prefixes.
GuardMatchesBlocks ==
    target # NoTarget =>
        LET seen == target[1].seen
        IN  /\ ~seen.url.allowlisted /\ seen.url.parses /\ seen.url.scheme = "https:"
            /\ seen.url.port \notin Guard.blockedPorts /\ ~Guard.allowPrivate
            => (Verdict.ok <=> /\ seen.addresses # << >>
                               /\ \A i \in DOMAIN seen.addresses : Reachable(seen.addresses[i]))

\* ssrf.js: "Resolving again at connect time would leave a window in which DNS could
\* be re-pointed at a private host after the check".  No connection leaves the
\* public addresses unless the host is allowlisted, whenever the name moves.
ConnectsToVetted ==
    target # NoTarget /\ target[1].connected # Undefined =>
        target[1].seen.url.allowlisted \/ Guard.allowPrivate
            \/ Reachable(target[1].connected[1])
=============================================================================
