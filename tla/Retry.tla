-------------------------------- MODULE Retry --------------------------------
(***************************************************************************)
(* The retry ladder as pure operators: what backend/src/shared/retry.js    *)
(* decides from an attempt number, an HTTP status and a Retry-After hint,  *)
(* and the two conversions in front of it in                               *)
(* backend/src/worker/handle-delivery.js (isSuccess, retryAfterSeconds).   *)
(* Delays are milliseconds.  A JavaScript value that may be undefined is   *)
(* the empty sequence or a sequence of one element.                        *)
(***************************************************************************)
EXTENDS Integers, Sequences

CONSTANTS
    RETRY_SCHEDULE,     \* the delays of the retry queues, shortest first
    MAX_ATTEMPTS        \* config.MAX_ATTEMPTS

\* The order of RETRY_SCHEDULE and the cross-field rule of env-schema.js: the
\* ladder has one queue per retry, so MAX_ATTEMPTS may not exceed levels + 1.
ASSUME RetryAssumption ==
    /\ RETRY_SCHEDULE \in Seq(Nat \ {0})
    /\ \A i, j \in DOMAIN RETRY_SCHEDULE :
          i < j => RETRY_SCHEDULE[i] < RETRY_SCHEDULE[j]
    /\ MAX_ATTEMPTS \in 1 .. (Len(RETRY_SCHEDULE) + 1)

Undefined == << >>
Defined(n) == << n >>

RETRYABLE == "RETRYABLE"
PERMANENT == "PERMANENT"
FAILURE == {RETRYABLE, PERMANENT}

RETRYABLE_STATUSES == {408, 425, 429}

isSuccess(responseStatus) ==
    /\ responseStatus # Undefined
    /\ responseStatus[1] \in 200 .. 299

classifyFailure(responseStatus) ==
    IF \/ responseStatus = Undefined
       \/ responseStatus[1] >= 500
       \/ responseStatus[1] \in RETRYABLE_STATUSES
    THEN RETRYABLE
    ELSE PERMANENT

\* A missing or unreadable header is undefined, a number is taken as it is (a
\* negative one too), a date is the rounded distance from now, at least zero.
\* header.value is seconds for "number" and milliseconds from now for "date".
retryAfterSeconds(header) ==
    CASE header.kind = "number" -> Defined(header.value)
      [] header.kind = "date"   ->
            Defined(IF header.value < 0 THEN 0
                                        ELSE (header.value + 500) \div 1000)
      [] OTHER -> Undefined

shouldRetry_OneShort(classification, attempt) ==
    classification = RETRYABLE /\ attempt + 1 < MAX_ATTEMPTS

shouldRetry(classification, attempt) ==
    classification = RETRYABLE /\ attempt < MAX_ATTEMPTS

NoLevel == 0
Levels == DOMAIN RETRY_SCHEDULE

FirstLevelOrLast_Strict(requestedMs) ==
    LET enough == {i \in Levels : RETRY_SCHEDULE[i] > requestedMs}
    IN  IF enough = {} THEN Len(RETRY_SCHEDULE)
                       ELSE CHOOSE i \in enough : \A j \in enough : i <= j

\* schedule.find: the first level, in the order of the schedule, that satisfies
\* the request, and the last level of the schedule when none does.
FirstLevelOrLast(requestedMs) ==
    LET enough == {i \in Levels : RETRY_SCHEDULE[i] >= requestedMs}
    IN  IF enough = {} THEN Len(RETRY_SCHEDULE)
                       ELSE CHOOSE i \in enough : \A j \in enough : i <= j

\* The level a retry waits in, as an index of the schedule.
selectRetryLevel(attempt, retryAfter) ==
    IF attempt >= MAX_ATTEMPTS \/ attempt \notin Levels
    THEN NoLevel
    ELSE IF \/ retryAfter = Undefined
            \/ retryAfter[1] * 1000 <= RETRY_SCHEDULE[attempt]
         THEN attempt
         ELSE FirstLevelOrLast(retryAfter[1] * 1000)

nextRetryLevel(classification, attempt, retryAfter) ==
    IF shouldRetry(classification, attempt)
    THEN selectRetryLevel(attempt, retryAfter)
    ELSE NoLevel

\* The draw random() in [0, 1) is draw/JitterSteps: the expiration a retry is
\* published with is the delay shortened by up to a tenth, rounded half up.
JitterSteps == 16
JitterDraws == 0 .. (JitterSteps - 1)

applyJitter_Longer(delayMs, draw) == delayMs + (delayMs * draw) \div (10 * JitterSteps)

applyJitter(delayMs, draw) ==
    LET unit == 20 * JitterSteps
    IN  delayMs - (2 * delayMs * draw - unit \div 2 + unit - 1) \div unit

=============================================================================
