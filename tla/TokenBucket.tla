----------------------------- MODULE TokenBucket -----------------------------
(***************************************************************************)
(* The token bucket of one endpoint (token-bucket.js) under the workers'    *)
(* attempts.  A worker reads the endpoint's row, reads the clock and sends   *)
(* the script; the script runs in Redis some time later, with the rate and   *)
(* the time it was sent with, so scripts may run out of the order in which   *)
(* their clocks were read.  The rate is a column that PATCH changes.  A      *)
(* token is counted as Minute units, so that a refill of rate units a tick   *)
(* stays an integer.                                                         *)
(***************************************************************************)
EXTENDS Integers

CONSTANTS
    Workers,            \* calls of handleDelivery, one per prefetch slot
    Rates,              \* values of rateLimitPerMinute
    Minute,             \* ticks in a minute
    Ttl,                \* TTL_MS in ticks
    MaxLate,            \* ticks a command waits for Redis at most
    MaxRetries,         \* maxRetriesPerRequest of the client
    MaxBucketTime

ASSUME TokenBucketAssumption ==
    /\ Rates \subseteq Nat \ {0}
    /\ Minute \in Nat \ {0} /\ {Ttl, MaxLate, MaxRetries, MaxBucketTime} \subseteq Nat
    /\ MaxLate + Minute <= Ttl

VARIABLES
    rate,       \* rateLimitPerMinute in the endpoint's row
    bucket,     \* the key: [tokens, updatedAt, expiresAt]
    asks,       \* [Workers -> the call of take: its stage and its arguments]
    interval,   \* an interval of time, for the property
    time

bucketVars == <<rate, bucket, asks, interval, time>>

Free == [at |-> "idle", rate |-> 0, now |-> 0, tries |-> 0]

\* An interval that begins at t with tokens in the bucket: held, what was granted and the
\* highest rate asked with in it; mark is the last time the script was given (its
\* beginning, before the first one) and setBack what later scripts took back of it.
Begin(t, tokens) ==
    [since |-> t, held |-> tokens, touched |-> FALSE, granted |-> 0, top |-> 0,
     mark |-> t, setBack |-> 0]

BucketInit ==
    /\ rate \in Rates
    /\ bucket = [tokens |-> 0, updatedAt |-> 0, expiresAt |-> 0]
    /\ asks = [w \in Workers |-> Free]
    /\ interval = Begin(0, 0)
    /\ time = 0
-----------------------------------------------------------------------------
PositivePart(n) == IF n > 0 THEN n ELSE 0
Greatest(m, n) == IF m > n THEN m ELSE n
Least(m, n) == IF m < n THEN m ELSE n

\* PATCH of the endpoint.
changeRate ==
    /\ rate' \in Rates
    /\ UNCHANGED <<bucket, asks, interval, time>>

\* handleDelivery reads the row.
readRate(w) ==
    /\ asks[w] = Free
    /\ asks' = [asks EXCEPT ![w] = [Free EXCEPT !.at = "read", !.rate = rate]]
    /\ UNCHANGED <<rate, bucket, interval, time>>

\* now = Date.now(): the clock is read before the command is sent.
ask(w) ==
    /\ asks[w].at = "read"
    /\ asks' = [asks EXCEPT ![w].at = "sent", ![w].now = time]
    /\ UNCHANGED <<rate, bucket, interval, time>>

\* The script: an absent key is a full bucket.  Nothing is refilled for a time that is not
\* after the stored one.
Refill(capacity, now) ==
    IF time >= bucket.expiresAt THEN capacity * Minute
    ELSE IF now > bucket.updatedAt
         THEN Least(capacity * Minute, bucket.tokens + (now - bucket.updatedAt) * capacity)
         ELSE bucket.tokens

StoredTime_Refused(granted, now) == IF granted THEN bucket.updatedAt ELSE now

\* The time it was given is stored, also when the stored one is later.
StoredTime(granted, now) == now

\* The script takes a token if there is one.
TakeToken(capacity, now) ==
    LET tokens  == Refill(capacity, now)
        granted == tokens >= Minute
    IN  /\ bucket' = [tokens |-> IF granted THEN tokens - Minute ELSE tokens,
                      updatedAt |-> StoredTime(granted, now), expiresAt |-> time + Ttl]
        /\ interval' = [interval EXCEPT
              !.touched = TRUE, !.granted = IF granted THEN @ + 1 ELSE @,
              !.top = Greatest(@, capacity),
              !.mark = now, !.setBack = @ + PositivePart(interval.mark - now)]

\* The answer arrives, or the connection is lost before it does and the client sends the
\* same command again.
script(w) ==
    /\ asks[w].at = "sent"
    /\ TakeToken(asks[w].rate, asks[w].now)
    /\ \/ asks' = [asks EXCEPT ![w] = Free]
       \/ /\ asks[w].tries < MaxRetries
          /\ asks' = [asks EXCEPT ![w].tries = @ + 1]
    /\ UNCHANGED <<rate, time>>

\* The command is rejected and never runs.
fail(w) ==
    /\ asks[w].at = "sent"
    /\ asks' = [asks EXCEPT ![w] = Free]
    /\ UNCHANGED <<rate, bucket, interval, time>>

\* A command that waited MaxLate runs or is rejected before time goes on.
bucketTick ==
    /\ time < MaxBucketTime
    /\ \A w \in Workers : asks[w].at = "sent" => time < asks[w].now + MaxLate
    /\ time' = time + 1
    /\ \/ UNCHANGED interval
       \/ interval' = Begin(time + 1, bucket.tokens)
    /\ UNCHANGED <<rate, bucket, asks>>
-----------------------------------------------------------------------------
BucketNext ==
    \/ changeRate \/ bucketTick
    \/ \E w \in Workers : readRate(w) \/ ask(w) \/ script(w) \/ fail(w)

BucketSpec == BucketInit /\ [][BucketNext]_bucketVars
-----------------------------------------------------------------------------
BucketTypeOK ==
    /\ rate \in Rates
    /\ bucket \in [tokens : Nat, updatedAt : Nat, expiresAt : Nat]
    /\ asks \in [Workers -> [at : {"idle", "read", "sent"}, rate : Rates \cup {0}, now : Nat,
                             tries : 0..MaxRetries]]
    /\ interval \in [since : Nat, held : Nat, touched : BOOLEAN, granted : Nat,
                     top : Rates \cup {0}, mark : Nat, setBack : Nat]
    /\ time \in Nat

\* token-bucket.js: "two workers asking at the same moment must not both read the same token
\* count and both spend it".  In any interval, whatever the order in which scripts run and
\* however the rate is changed, the workers are granted at most what the bucket held or its
\* capacity and what it gains in the interval at the highest rate asked with, where the
\* time by which late scripts set the bucket's clock back is gained once more and no more.
RateIsKept ==
    interval.granted * Minute <=
        Greatest(interval.held, interval.top * Minute)
            + (time - interval.since + interval.setBack) * interval.top
=============================================================================
