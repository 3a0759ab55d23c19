------------------------ MODULE AdministrationProofs ------------------------
(***************************************************************************)
(* Administration, for any number of accounts, calls and URLs: a project    *)
(* keeps an owner, only guarded URLs are stored, an endpoint's rate is kept, *)
(* and a signature verifies with a secret the API promised.                  *)
(***************************************************************************)
EXTENDS Administration, TokenBucket, FiniteSetTheorems, TLAPS

(***************************************************************************)
(* The token bucket (TokenBucket).  What was granted in the interval and     *)
(* what is left in the bucket never exceed what the bucket held or can hold  *)
(* and the gain of the time the script was given since the interval began,   *)
(* with the time it was set back by; before the first script of the interval *)
(* nothing was granted.                                                      *)
(***************************************************************************)
Gain(t, r) == t * r
Elapsed(i) == i.mark - i.since + i.setBack

\* A script waits MaxLate at most, and was given a rate.
AskInv == \A w \in Workers :
    /\ asks[w].at # "idle" => asks[w].rate \in Rates
    /\ asks[w].at = "sent" => asks[w].now <= time /\ time <= asks[w].now + MaxLate

IntervalInv ==
    /\ interval.mark <= time /\ Elapsed(interval) \in Nat
    /\ IF interval.touched
       THEN /\ bucket.updatedAt = interval.mark /\ bucket.updatedAt + Ttl <= bucket.expiresAt
            /\ interval.granted * Minute + bucket.tokens <=
                  Greatest(interval.held, interval.top * Minute)
                     + Gain(Elapsed(interval), interval.top)
       ELSE /\ interval.granted = 0 /\ bucket.tokens <= interval.held
            /\ interval.mark = interval.since /\ interval.setBack = 0 /\ interval.top = 0

BucketInv == BucketTypeOK /\ AskInv /\ IntervalInv

\* The gain of a bucket is additive in time, and grows with time and rate.
LEMMA GainProperties ==
    /\ \A t, r \in Nat : Gain(t, r) \in Nat
    /\ \A s, t, r \in Nat : Gain(s + t, r) = Gain(s, r) + Gain(t, r)
    /\ \A t, q, r \in Nat : q <= r => Gain(t, q) <= Gain(t, r)
    /\ \A s, t, r \in Nat : s <= t => Gain(s, r) <= Gain(t, r)
  <1>1. \A t, r \in Nat : Gain(t, r) \in Nat
    BY DEF Gain
  <1>2. \A s, t, r \in Nat : Gain(s + t, r) = Gain(s, r) + Gain(t, r)
    BY DEF Gain
  <1>3. ASSUME NEW t \in Nat, NEW q \in Nat, NEW r \in Nat, q <= r
        PROVE  Gain(t, q) <= Gain(t, r)
    <2>1. r - q \in Nat /\ r = q + (r - q)
      BY <1>3
    <2>2. \A d \in Nat : t * (q + d) = t * q + t * d /\ t * d \in Nat /\ t * q \in Nat
      OBVIOUS
    <2>3. t * r = t * q + t * (r - q) /\ t * (r - q) \in Nat /\ t * q \in Nat
      BY <2>1, <2>2
    <2> QED
      BY <2>3 DEF Gain
  <1>4. ASSUME NEW s \in Nat, NEW t \in Nat, NEW r \in Nat, s <= t
        PROVE  Gain(s, r) <= Gain(t, r)
    <2>1. t - s \in Nat /\ s + (t - s) = t
      BY <1>4
    <2>2. Gain(t, r) = Gain(s, r) + Gain(t - s, r)
      BY <2>1, <1>2
    <2> QED
      BY <1>1, <2>1, <2>2
  <1> QED
    BY <1>1, <1>2, <1>3, <1>4

\* The rates, the minute and the bounds of the bucket are numbers.
LEMMA BucketConstants ==
    /\ Minute \in Nat \ {0} /\ Ttl \in Nat /\ MaxLate \in Nat /\ MaxRetries \in Nat
    /\ MaxLate + Minute <= Ttl /\ Rates \subseteq Nat \ {0}
  BY TokenBucketAssumption

\* The first key is absent: it expired before it was written.
LEMMA BucketInitKeeps == BucketInit => BucketInv
  <1> SUFFICES ASSUME BucketInit PROVE BucketInv
    OBVIOUS
  <1>1. BucketTypeOK
    BY BucketConstants DEF BucketInit, BucketTypeOK, Begin, Free
  <1>2. AskInv
    BY DEF BucketInit, AskInv, Free
  <1>3. IntervalInv
    BY DEF BucketInit, IntervalInv, Begin, Elapsed
  <1> QED
    BY <1>1, <1>2, <1>3 DEF BucketInv

\* TAKE_TOKEN: a refill is at most the capacity, or what was there; in an interval that has
\* seen a script it adds at most the gain of the time since the last one, also when the key
\* expired, for a key lives longer than a bucket takes to fill.
LEMMA RefillBounds ==
    ASSUME BucketInv, NEW w \in Workers, asks[w].at = "sent",
           NEW c, c = asks[w].rate, NEW n, n = asks[w].now
    PROVE  /\ Refill(c, n) \in Nat
           /\ Refill(c, n) <= Greatest(bucket.tokens, c * Minute)
           /\ interval.touched => Refill(c, n) <=
                 bucket.tokens + Gain(PositivePart(n - interval.mark), c)
  <1>1. /\ c \in Nat /\ n \in Nat /\ n <= time /\ time <= n + MaxLate
        /\ bucket.tokens \in Nat /\ bucket.updatedAt \in Nat /\ bucket.expiresAt \in Nat
        /\ time \in Nat /\ interval.mark \in Nat
    BY BucketConstants DEF BucketInv, BucketTypeOK, AskInv
  <1>2. c * Minute \in Nat /\ c * Minute = Gain(Minute, c)
    BY <1>1, BucketConstants DEF Gain
  <1>3. PositivePart(n - interval.mark) \in Nat
    BY <1>1 DEF PositivePart
  <1>4. Gain(PositivePart(n - interval.mark), c) \in Nat
    BY <1>1, <1>3, GainProperties
  <1>5. CASE time >= bucket.expiresAt
    <2>1. Refill(c, n) = c * Minute
      BY <1>5 DEF Refill
    <2>2. interval.touched => c * Minute <= Gain(PositivePart(n - interval.mark), c)
      <3> SUFFICES ASSUME interval.touched
                   PROVE  c * Minute <= Gain(PositivePart(n - interval.mark), c)
        OBVIOUS
      <3>1. interval.mark + Ttl <= bucket.expiresAt
        BY DEF BucketInv, IntervalInv
      <3>2. Minute <= PositivePart(n - interval.mark)
        BY <1>1, <1>5, <3>1, BucketConstants DEF PositivePart
      <3>3. Gain(Minute, c) <= Gain(PositivePart(n - interval.mark), c)
        BY <1>1, <1>3, <3>2, BucketConstants, GainProperties
      <3> QED
        BY <1>2, <3>3
    <2>3. c * Minute <= Greatest(bucket.tokens, c * Minute)
      BY <1>1, <1>2 DEF Greatest
    <2> DEFINE capacity == c * Minute
    <2>4. capacity \in Nat /\ Refill(c, n) = capacity
          /\ (interval.touched => capacity <= Gain(PositivePart(n - interval.mark), c))
      BY <1>2, <2>1, <2>2
    <2> HIDE DEF capacity
    <2>5. interval.touched =>
            Refill(c, n) <= bucket.tokens + Gain(PositivePart(n - interval.mark), c)
      BY <1>1, <1>4, <2>4
    <2> QED
      BY <1>2, <2>1, <2>3, <2>5
  <1>6. CASE ~ (time >= bucket.expiresAt) /\ n > bucket.updatedAt
    <2>1. Refill(c, n) = Least(c * Minute, bucket.tokens + Gain(n - bucket.updatedAt, c))
      BY <1>6 DEF Refill, Gain
    <2>2. n - bucket.updatedAt \in Nat
      BY <1>1, <1>6
    <2>3. Gain(n - bucket.updatedAt, c) \in Nat
      BY <1>1, <2>2, GainProperties
    <2>4. interval.touched => PositivePart(n - interval.mark) = n - bucket.updatedAt
      BY <1>1, <1>6 DEF BucketInv, IntervalInv, PositivePart
    <2> HIDE DEF Gain
    <2> QED
      BY <1>1, <1>2, <2>1, <2>3, <2>4 DEF Least, Greatest
  <1>7. CASE ~ (time >= bucket.expiresAt) /\ ~ (n > bucket.updatedAt)
    BY <1>1, <1>2, <1>4, <1>7 DEF Refill, Greatest
  <1> QED
    BY <1>5, <1>6, <1>7

\* A script takes from what the bucket held and gained.
LEMMA TakeTokenKeeps ==
    ASSUME BucketInv, NEW w \in Workers, asks[w].at = "sent",
           TakeToken(asks[w].rate, asks[w].now), UNCHANGED time
    PROVE  /\ bucket' \in [tokens : Nat, updatedAt : Nat, expiresAt : Nat]
           /\ interval' \in [since : Nat, held : Nat, touched : BOOLEAN, granted : Nat,
                             top : Rates \cup {0}, mark : Nat, setBack : Nat]
           /\ IntervalInv'
  <1> DEFINE c == asks[w].rate
             n == asks[w].now
             tokens == Refill(c, n)
             granted == tokens >= Minute
  <1>1. /\ c \in Rates /\ c \in Nat /\ n \in Nat /\ n <= time /\ time <= n + MaxLate
        /\ bucket.tokens \in Nat /\ time \in Nat
        /\ interval.since \in Nat /\ interval.held \in Nat /\ interval.granted \in Nat
        /\ interval.top \in Rates \cup {0} /\ interval.top \in Nat /\ interval.mark \in Nat
        /\ interval.setBack \in Nat
    <2>1. c \in Rates /\ n \in Nat /\ n <= time /\ time <= n + MaxLate
      BY DEF BucketInv, BucketTypeOK, AskInv
    <2>2. /\ bucket.tokens \in Nat /\ time \in Nat
          /\ interval.since \in Nat /\ interval.held \in Nat /\ interval.granted \in Nat
          /\ interval.top \in Rates \cup {0} /\ interval.mark \in Nat /\ interval.setBack \in Nat
      BY DEF BucketInv, BucketTypeOK
    <2>3. \A r \in Rates \cup {0} : r \in Nat
      BY BucketConstants
    <2> QED
      BY <2>1, <2>2, <2>3
  <1>2. /\ tokens \in Nat /\ tokens <= Greatest(bucket.tokens, c * Minute)
        /\ interval.touched => tokens <= bucket.tokens + Gain(PositivePart(n - interval.mark), c)
    BY RefillBounds
  <1>3. bucket' = [tokens |-> IF granted THEN tokens - Minute ELSE tokens,
                   updatedAt |-> n, expiresAt |-> time + Ttl]
    BY DEF TakeToken, StoredTime
  <1>4. interval' = [since |-> interval.since, held |-> interval.held, touched |-> TRUE,
                     granted |-> IF granted THEN interval.granted + 1 ELSE interval.granted,
                     top |-> Greatest(interval.top, c), mark |-> n,
                     setBack |-> interval.setBack + PositivePart(interval.mark - n)]
    BY DEF TakeToken, BucketInv, BucketTypeOK
  <1> DEFINE top == Greatest(interval.top, c)
             gone == PositivePart(n - interval.mark)
             back == PositivePart(interval.mark - n)
  <1>5. /\ top \in Rates \cup {0} /\ top \in Nat /\ interval.top <= top /\ c <= top
        /\ gone \in Nat /\ back \in Nat /\ n - interval.mark = gone - back
    BY <1>1 DEF Greatest, PositivePart
  <1>6. bucket' \in [tokens : Nat, updatedAt : Nat, expiresAt : Nat]
    BY <1>1, <1>2, <1>3, BucketConstants
  <1>7. interval' \in [since : Nat, held : Nat, touched : BOOLEAN, granted : Nat,
                       top : Rates \cup {0}, mark : Nat, setBack : Nat]
    BY <1>1, <1>4, <1>5
  <1>8. Elapsed(interval) \in Nat
    BY DEF BucketInv, IntervalInv
  <1>9. /\ interval'.mark = n /\ interval'.since = interval.since
        /\ interval'.setBack = interval.setBack + back /\ interval'.top = top
        /\ interval'.touched = TRUE /\ interval'.held = interval.held
        /\ bucket'.updatedAt = n /\ bucket'.expiresAt = time + Ttl
    BY <1>3, <1>4
  <1>10. Elapsed(interval)' = Elapsed(interval) + gone
    BY <1>1, <1>5, <1>9 DEF Elapsed
  <1>11. interval'.granted * Minute + bucket'.tokens = interval.granted * Minute + tokens
    <2>1. interval.granted * Minute \in Nat
          /\ (interval.granted + 1) * Minute = interval.granted * Minute + Minute
      BY <1>1, BucketConstants
    <2>2. CASE granted
      <3>1. interval'.granted * Minute = interval.granted * Minute + Minute
            /\ bucket'.tokens = tokens - Minute
        BY <1>3, <1>4, <2>1, <2>2
      <3> QED
        BY <1>2, <2>1, <3>1, BucketConstants
    <2>3. CASE ~granted
      BY <1>3, <1>4, <2>3
    <2> QED
      BY <2>2, <2>3
  <1>12. /\ interval.top * Minute \in Nat /\ top * Minute \in Nat /\ c * Minute \in Nat
         /\ interval.top * Minute <= top * Minute /\ c * Minute <= top * Minute
    <2>1. \A r \in Nat : r * Minute = Gain(Minute, r) /\ Gain(Minute, r) \in Nat
      BY BucketConstants DEF Gain
    <2>2. Gain(Minute, interval.top) <= Gain(Minute, top) /\ Gain(Minute, c) <= Gain(Minute, top)
      BY <1>1, <1>5, BucketConstants, GainProperties
    <2> QED
      BY <1>1, <1>5, <2>1, <2>2
  <1> DEFINE spent == interval.granted * Minute
             most(r) == Greatest(interval.held, r * Minute)
  <1>13. spent \in Nat /\ most(interval.top) <= most(top) /\ most(interval.top) \in Nat
         /\ most(top) \in Nat
    BY <1>1, <1>12, BucketConstants DEF Greatest
  <1>14. spent + tokens <= most(top) + Gain(Elapsed(interval) + gone, top)
    <2>1. CASE interval.touched
      <3>1. spent + bucket.tokens <= most(interval.top) + Gain(Elapsed(interval), interval.top)
        BY <2>1 DEF BucketInv, IntervalInv
      <3>2. /\ Gain(Elapsed(interval), interval.top) <= Gain(Elapsed(interval), top)
            /\ Gain(gone, c) <= Gain(gone, top)
            /\ Gain(Elapsed(interval) + gone, top) = Gain(Elapsed(interval), top) + Gain(gone, top)
            /\ Gain(Elapsed(interval), interval.top) \in Nat /\ Gain(Elapsed(interval), top) \in Nat
            /\ Gain(gone, c) \in Nat /\ Gain(gone, top) \in Nat
        <4> HIDE DEF c, n, tokens, granted, top, gone, back, spent, most
        <4>1. \A r \in Nat : Gain(Elapsed(interval), r) \in Nat /\ Gain(gone, r) \in Nat
          BY <1>5, <1>8, GainProperties
        <4>2. Gain(Elapsed(interval), interval.top) <= Gain(Elapsed(interval), top)
          BY <1>1, <1>5, <1>8, GainProperties
        <4>3. Gain(gone, c) <= Gain(gone, top)
          BY <1>1, <1>5, GainProperties
        <4>4. Gain(Elapsed(interval) + gone, top) = Gain(Elapsed(interval), top) + Gain(gone, top)
          BY <1>5, <1>8, GainProperties
        <4> QED
          BY <1>1, <1>5, <4>1, <4>2, <4>3, <4>4
      <3>3. tokens <= bucket.tokens + Gain(gone, c)
        BY <1>2, <2>1
      <3> HIDE DEF spent, most, tokens, gone, top, c
      <3> QED
        BY <1>1, <1>2, <1>13, <3>1, <3>2, <3>3
    <2>2. CASE ~interval.touched
      <3>1. spent = 0 /\ bucket.tokens <= interval.held
        BY <2>2, BucketConstants DEF BucketInv, IntervalInv
      <3>2. Greatest(bucket.tokens, c * Minute) <= most(top)
        BY <1>1, <1>12, <3>1 DEF Greatest
      <3>3. Gain(Elapsed(interval) + gone, top) \in Nat
        <4> HIDE DEF c, n, tokens, granted, top, gone, back, spent, most
        <4>1. Elapsed(interval) + gone \in Nat
          BY <1>5, <1>8
        <4> QED
          BY <1>5, <4>1, GainProperties
      <3>4. Greatest(bucket.tokens, c * Minute) \in Nat
        BY <1>1, <1>12 DEF Greatest
      <3>5. tokens <= Greatest(bucket.tokens, c * Minute)
        BY <1>2
      <3> HIDE DEF spent, most, tokens, gone, top
      <3> QED
        BY <1>2, <1>13, <3>1, <3>2, <3>3, <3>4, <3>5
    <2> QED
      BY <2>1, <2>2
  <1>15. IntervalInv'
    <2>1. interval'.mark <= time' /\ Elapsed(interval)' \in Nat
      BY <1>1, <1>5, <1>8, <1>9, <1>10
    <2>2. bucket'.updatedAt = interval'.mark /\ bucket'.updatedAt + Ttl <= bucket'.expiresAt
      BY <1>1, <1>9, BucketConstants
    <2>3. interval'.granted * Minute + bucket'.tokens <=
             Greatest(interval'.held, interval'.top * Minute)
                + Gain(Elapsed(interval)', interval'.top)
      BY <1>9, <1>10, <1>11, <1>14
    <2> QED
      BY <1>9, <2>1, <2>2, <2>3 DEF IntervalInv, Elapsed
  <1> QED
    BY <1>6, <1>7, <1>15

\* Scripts, the clock and the start of an interval keep the bound; the other steps leave the
\* bucket alone.
LEMMA BucketStep == ASSUME BucketInv, [BucketNext]_bucketVars PROVE BucketInv'
  <1> USE DEF BucketInv
  <1>1. CASE changeRate \/ UNCHANGED bucketVars
    BY <1>1 DEF changeRate, bucketVars, BucketTypeOK, AskInv, IntervalInv, Elapsed
  <1>2. CASE bucketTick
    <2>1. time' = time + 1 /\ time \in Nat /\ UNCHANGED <<rate, bucket, asks>>
          /\ (UNCHANGED interval \/ interval' = Begin(time + 1, bucket.tokens))
      BY <1>2 DEF bucketTick, BucketTypeOK
    <2>2. AskInv'
      <3> SUFFICES ASSUME NEW w \in Workers, asks[w].at = "sent"
                   PROVE  asks[w].now <= time + 1 /\ time + 1 <= asks[w].now + MaxLate
        BY <2>1 DEF AskInv
      <3>1. time < asks[w].now + MaxLate
        BY <1>2 DEF bucketTick
      <3>2. asks[w].now \in Nat /\ asks[w].now <= time
        BY DEF BucketTypeOK, AskInv
      <3> QED
        BY <2>1, <3>1, <3>2, BucketConstants
    <2>3. CASE UNCHANGED interval
      <3>1. BucketTypeOK'
        BY <2>1, <2>3 DEF BucketTypeOK
      <3>2. IntervalInv'
        BY <2>1, <2>3 DEF BucketTypeOK, IntervalInv, Elapsed
      <3> QED
        BY <2>2, <3>1, <3>2
    <2>4. CASE interval' = Begin(time + 1, bucket.tokens)
      <3>1. BucketTypeOK'
        BY <2>1, <2>4 DEF BucketTypeOK, Begin
      <3>2. IntervalInv'
        BY <2>1, <2>4 DEF BucketTypeOK, IntervalInv, Elapsed, Begin
      <3> QED
        BY <2>2, <3>1, <3>2
    <2> QED
      BY <2>1, <2>3, <2>4
  <1>3. ASSUME NEW w \in Workers, readRate(w) \/ ask(w) \/ fail(w) PROVE BucketInv'
    <2>1. UNCHANGED <<rate, bucket, interval, time>>
      BY <1>3 DEF readRate, ask, fail
    <2>2. /\ asks' \in [Workers -> [at : {"idle", "read", "sent"}, rate : Rates \cup {0},
                                    now : Nat, tries : 0..MaxRetries]]
          /\ AskInv'
      <3>1. CASE readRate(w)
        BY <2>1, <3>1, BucketConstants DEF readRate, Free, BucketTypeOK, AskInv
      <3>2. CASE ask(w)
        <4>1. asks' = [asks EXCEPT ![w].at = "sent", ![w].now = time] /\ asks[w].at = "read"
          BY <3>2 DEF ask
        <4>2. asks' \in [Workers -> [at : {"idle", "read", "sent"}, rate : Rates \cup {0},
                                     now : Nat, tries : 0..MaxRetries]]
          BY <4>1 DEF BucketTypeOK
        <4>3. \A v \in Workers : v # w => asks'[v] = asks[v]
          BY <4>1 DEF BucketTypeOK
        <4>4. asks'[w].rate = asks[w].rate /\ asks'[w].now = time
          BY <4>1 DEF BucketTypeOK
        <4>5. asks[w].rate \in Rates /\ time \in Nat /\ time <= time + MaxLate
          BY <4>1, BucketConstants DEF BucketTypeOK, AskInv
        <4> QED
          BY <2>1, <4>2, <4>3, <4>4, <4>5 DEF AskInv
      <3>3. CASE fail(w)
        BY <2>1, <3>3, BucketConstants DEF fail, Free, BucketTypeOK, AskInv
      <3> QED
        BY <1>3, <3>1, <3>2, <3>3
    <2> QED
      BY <2>1, <2>2 DEF BucketTypeOK, IntervalInv, Elapsed
  <1>4. ASSUME NEW w \in Workers, script(w) PROVE BucketInv'
    <2>1. asks[w].at = "sent" /\ TakeToken(asks[w].rate, asks[w].now) /\ UNCHANGED <<rate, time>>
      BY <1>4 DEF script
    <2>2. /\ asks' \in [Workers -> [at : {"idle", "read", "sent"}, rate : Rates \cup {0},
                                    now : Nat, tries : 0..MaxRetries]]
          /\ AskInv'
      <3>1. CASE asks' = [asks EXCEPT ![w] = Free]
        BY <2>1, <3>1, BucketConstants DEF Free, BucketTypeOK, AskInv
      <3>2. CASE asks[w].tries < MaxRetries /\ asks' = [asks EXCEPT ![w].tries = @ + 1]
        BY <2>1, <3>2, BucketConstants DEF BucketTypeOK, AskInv
      <3> QED
        BY <1>4, <3>1, <3>2 DEF script
    <2>3. BucketTypeOK'
      BY <2>1, <2>2, TakeTokenKeeps DEF BucketTypeOK
    <2> QED
      BY <2>1, <2>2, <2>3, TakeTokenKeeps
  <1> QED
    BY <1>1, <1>2, <1>3, <1>4 DEF BucketNext

\* token-bucket.js: in any interval, however the workers' scripts are reordered and the rate is
\* changed, no more attempts are granted than the bucket held or holds and gains in it, the
\* time it was set back by counted again.
THEOREM RateIsKeptHolds == BucketSpec => []RateIsKept
  <1>1. BucketInv => RateIsKept
    <2> SUFFICES ASSUME BucketInv PROVE RateIsKept
      OBVIOUS
    <2> DEFINE most == Greatest(interval.held, interval.top * Minute)
               span == time - interval.since + interval.setBack
    <2>1. /\ interval.held \in Nat /\ interval.top \in Nat /\ interval.granted \in Nat
          /\ interval.mark \in Nat /\ interval.since \in Nat /\ interval.setBack \in Nat
          /\ time \in Nat /\ bucket.tokens \in Nat
      <3>1. \A r \in Rates \cup {0} : r \in Nat
        BY BucketConstants
      <3>2. interval \in [since : Nat, held : Nat, touched : BOOLEAN, granted : Nat,
                          top : Rates \cup {0}, mark : Nat, setBack : Nat]
            /\ time \in Nat /\ bucket.tokens \in Nat
        BY DEF BucketInv, BucketTypeOK
      <3> QED
        BY <3>1, <3>2
    <2>2. interval.mark <= time /\ Elapsed(interval) \in Nat
      BY DEF BucketInv, IntervalInv
    <2>3. span \in Nat /\ Elapsed(interval) <= span
      BY <2>1, <2>2 DEF Elapsed
    <2>4. most \in Nat
      <3>1. interval.top * Minute \in Nat
        BY <2>1, BucketConstants
      <3> QED
        BY <2>1, <3>1 DEF Greatest
    <2>5. Gain(Elapsed(interval), interval.top) <= Gain(span, interval.top)
          /\ Gain(Elapsed(interval), interval.top) \in Nat /\ Gain(span, interval.top) \in Nat
      <3> HIDE DEF span
      <3> QED
        BY <2>1, <2>2, <2>3, GainProperties
    <2>6. interval.granted * Minute <= most + Gain(Elapsed(interval), interval.top)
      <3>1. CASE interval.touched
        <4>1. interval.granted * Minute + bucket.tokens <=
                 most + Gain(Elapsed(interval), interval.top)
          BY <3>1 DEF BucketInv, IntervalInv
        <4>2. interval.granted * Minute \in Nat
          BY <2>1, BucketConstants
        <4> HIDE DEF most
        <4> QED
          BY <2>1, <2>4, <2>5, <4>1, <4>2
      <3>2. CASE ~interval.touched
        <4>1. interval.granted * Minute = 0
          BY <3>2, BucketConstants DEF BucketInv, IntervalInv
        <4> HIDE DEF most
        <4> QED
          BY <2>4, <2>5, <4>1
      <3> QED
        BY <3>1, <3>2
    <2>7. interval.granted * Minute <= most + Gain(span, interval.top)
      <3>1. interval.granted * Minute \in Nat
        BY <2>1, BucketConstants
      <3> HIDE DEF most, span
      <3> QED
        BY <2>4, <2>5, <2>6, <3>1
    <2> QED
      BY <2>7 DEF RateIsKept, Gain
  <1> QED
    BY <1>1, BucketInitKeeps, BucketStep, PTL DEF BucketSpec

(***************************************************************************)
(* Types.  What a call is about depends on its operation, and a call that    *)
(* works on the endpoint has loaded a row.                                   *)
(***************************************************************************)
ArgInv == \A u \in Users :
    /\ calls[u].op \in {"add", "expel"} => calls[u].arg \in Users
    /\ calls[u].op \in {"create", "update"} => calls[u].arg \in Urls
    /\ calls[u].op = "patch" => calls[u].arg \in Urls \cup {None}
    /\ calls[u].op \in EndpointOps /\ calls[u].at \in {"loaded", "write"}
          => calls[u].seen \in Rows

TypeInv == TypeOK /\ ArgInv

\* A call that goes on or ends keeps its type.
LEMMA GotoKeeps ==
    ASSUME TypeInv, NEW u \in Users,
           NEW at \in {"begin", "count", "delete", "write"},
           Goto(u, at), calls[u].op \in EndpointOps => calls[u].at = "loaded"
    PROVE  calls' \in [Users -> CallRecords] /\ ArgInv'
  BY DEF TypeInv, TypeOK, ArgInv, Goto, CallRecords

\* A call that ends becomes an idle one.
LEMMA ReturnKeeps ==
    ASSUME TypeInv, NEW u \in Users, Return(u)
    PROVE  calls' \in [Users -> CallRecords] /\ ArgInv'
  <1>1. Idle \in CallRecords /\ Idle.op = None
    BY DEF Idle, CallRecords, Roles, None
  <1>2. None \notin EndpointOps \cup {"add", "expel", "create", "update", "patch"}
    BY DEF None, EndpointOps
  <1> QED
    BY <1>1, <1>2 DEF TypeInv, TypeOK, ArgInv, Return

\* The first state is well typed, with every call idle.
LEMMA TypeInit == Init => TypeInv
  <1> SUFFICES ASSUME Init PROVE TypeInv
    OBVIOUS
  <1>1. Idle \in CallRecords /\ Idle.op = None
    BY DEF Idle, CallRecords, Roles, None
  <1>2. None \notin EndpointOps \cup {"add", "expel", "create", "update", "patch"}
    BY DEF None, EndpointOps
  <1> QED
    BY <1>1, <1>2 DEF Init, TypeInv, TypeOK, ArgInv, Roles

\* A write of the endpoint's row keeps it a row.
LEMMA WriteKeeps ==
    ASSUME TypeInv, NEW u \in Users, NEW row, Write(u, row),
           endpoint \in Rows => row \in Rows
    PROVE  endpoint' \in Rows \cup {NoEndpoint} /\ calls' \in [Users -> CallRecords] /\ ArgInv'
  <1>1. Return(u)
    BY DEF Write
  <1>2. endpoint' \in Rows \cup {NoEndpoint}
    BY DEF Write, TypeInv, TypeOK
  <1> QED
    BY <1>1, <1>2, ReturnKeeps

\* Every step keeps the types, and a call's argument fits its operation.
LEMMA TypeStep == ASSUME TypeInv, [Next]_vars PROVE TypeInv'
  <1> USE DEF rows, signing
  <1>1. CASE UNCHANGED <<members, project, endpoint, calls, raced, served>> /\ clock' \in Nat
    BY <1>1 DEF TypeInv, TypeOK, ArgInv
  <1>2. ASSUME NEW u \in Users, jwtAuth(u) PROVE TypeInv'
    <2> DEFINE New(op, arg) ==
            [id |-> served + 1, op |-> op, at |-> IF op \in EndpointOps THEN "load" ELSE "begin",
             role |-> members[u], arg |-> arg, seen |-> NoEndpoint]
    <2>0. PICK op \in EndpointOps \cup ProjectOps : \E arg \in Arguments(op) :
              calls' = [calls EXCEPT ![u] = New(op, arg)]
      BY <1>2 DEF jwtAuth
    <2>1. PICK arg \in Arguments(op) : calls' = [calls EXCEPT ![u] = New(op, arg)]
      BY <2>0
    <2>2. /\ arg \in Users \cup Urls \cup {None}
          /\ op \in {"add", "expel"} => arg \in Users
          /\ op \in {"create", "update"} => arg \in Urls
          /\ op = "patch" => arg \in Urls \cup {None}
      BY DEF Arguments
    <2>3. UNCHANGED <<members, project, endpoint, raced, clock>> /\ served' \in Nat
      BY <1>2 DEF jwtAuth, TypeInv, TypeOK
    <2>4. calls' \in [Users -> CallRecords]
      BY <2>1, <2>2 DEF TypeInv, TypeOK, CallRecords
    <2>5. ArgInv'
      BY <2>1, <2>2 DEF TypeInv, TypeOK, ArgInv
    <2> QED
      BY <2>3, <2>4, <2>5 DEF TypeInv, TypeOK
  <1>3. ASSUME NEW u \in Users, createProject(u) PROVE TypeInv'
    BY <1>3 DEF createProject, TypeInv, TypeOK, ArgInv, Roles
  <1>4. ASSUME NEW u \in Users, updateProject(u) PROVE TypeInv'
    <2>1. calls[u].op \notin EndpointOps /\ calls[u].op = "patch"
      BY <1>4 DEF updateProject, At, EndpointOps
    <2>2. project' \in [exists : BOOLEAN, alertWebhookUrl : Urls \cup {None},
                        apiKey : {None, "live", "revoked"}]
      BY <1>4, <2>1 DEF updateProject, TypeInv, TypeOK, ArgInv
    <2> QED
      BY <1>4, <2>1, <2>2, GotoKeeps, ReturnKeeps DEF updateProject, TypeInv, TypeOK
  <1>5. ASSUME NEW u \in Users, addMember(u) PROVE TypeInv'
    <2>1. calls[u].op \notin EndpointOps /\ calls[u].op = "add"
      BY <1>5 DEF addMember, At, EndpointOps
    <2>2. members' \in [Users -> Roles]
      BY <1>5, <2>1 DEF addMember, TypeInv, TypeOK, ArgInv, Roles
    <2> QED
      BY <1>5, <2>1, <2>2, GotoKeeps, ReturnKeeps DEF addMember, TypeInv, TypeOK
  <1>6. ASSUME NEW u \in Users, findMember(u) \/ countOwners(u) \/ deleteMember(u) PROVE TypeInv'
    <2>1. calls[u].op \notin EndpointOps /\ calls[u].op = "expel"
      BY <1>6 DEF findMember, countOwners, deleteMember, At, EndpointOps
    <2>2. members' \in [Users -> Roles] /\ raced' \in BOOLEAN
      BY <1>6, <2>1 DEF findMember, countOwners, deleteMember, TypeInv, TypeOK, ArgInv, Roles
    <2>3. UNCHANGED <<project, endpoint, clock, served>>
      BY <1>6 DEF findMember, countOwners, deleteMember
    <2>4. Return(u) \/ Goto(u, "count") \/ Goto(u, "delete")
      BY <1>6 DEF findMember, countOwners, deleteMember
    <2> QED
      BY <2>1, <2>2, <2>3, <2>4, GotoKeeps, ReturnKeeps DEF TypeInv, TypeOK
  <1>7. ASSUME NEW u \in Users, createApiKey(u) \/ revokeApiKey(u) PROVE TypeInv'
    <2>1. calls[u].op \notin EndpointOps
      BY <1>7 DEF createApiKey, revokeApiKey, At, EndpointOps
    <2>2. project' \in [exists : BOOLEAN, alertWebhookUrl : Urls \cup {None},
                        apiKey : {None, "live", "revoked"}]
      BY <1>7 DEF createApiKey, revokeApiKey, TypeInv, TypeOK
    <2>3. UNCHANGED <<members, endpoint, raced, clock, served>>
      BY <1>7 DEF createApiKey, revokeApiKey
    <2>4. Return(u) \/ Goto(u, "write")
      BY <1>7 DEF createApiKey, revokeApiKey
    <2> QED
      BY <2>1, <2>2, <2>3, <2>4, GotoKeeps, ReturnKeeps DEF TypeInv, TypeOK
  <1>8. ASSUME NEW u \in Users, createEndpoint(u) PROVE TypeInv'
    <2>1. calls[u].op \notin EndpointOps /\ calls[u].op = "create"
      BY <1>8 DEF createEndpoint, At, EndpointOps
    <2>2. calls[u].arg \in Urls /\ calls[u].id \in Nat
      BY <2>1 DEF TypeInv, TypeOK, ArgInv, CallRecords
    <2> DEFINE row == [url |-> calls[u].arg, status |-> "ACTIVE", secret |-> calls[u].id,
                       previousSecret |-> 0, secretRotatedAt |-> 0, history |-> FALSE]
    <2>3. row \in Rows
      BY <2>2 DEF Rows
    <2>4. endpoint' = endpoint \/ endpoint' = row
      BY <1>8 DEF createEndpoint
    <2>5. endpoint' \in Rows \cup {NoEndpoint}
      BY <2>3, <2>4 DEF TypeInv, TypeOK
    <2> HIDE DEF row
    <2> QED
      BY <1>8, <2>1, <2>5, GotoKeeps, ReturnKeeps DEF createEndpoint, TypeInv, TypeOK
  <1>9. ASSUME NEW u \in Users, load(u) PROVE TypeInv'
    <2>1. CASE Return(u)
      BY <1>9, <2>1, ReturnKeeps DEF load, TypeInv, TypeOK
    <2>2. CASE calls' = [calls EXCEPT ![u].at = "loaded", ![u].seen = endpoint]
               /\ endpoint # NoEndpoint
      <3>1. endpoint \in Rows
        BY <2>2 DEF TypeInv, TypeOK
      <3>2. \A v \in Users : v # u => calls'[v] = calls[v]
        BY <2>2 DEF TypeInv, TypeOK
      <3>3. calls'[u] = [calls[u] EXCEPT !.at = "loaded", !.seen = endpoint]
        BY <2>2 DEF TypeInv, TypeOK
      <3>3a. calls'[u] = [id |-> calls[u].id, op |-> calls[u].op, at |-> "loaded",
                          role |-> calls[u].role, arg |-> calls[u].arg, seen |-> endpoint]
        <4>1. calls[u] \in CallRecords
          BY DEF TypeInv, TypeOK
        <4> QED
          BY <3>3, <4>1 DEF CallRecords
      <3>4. calls'[u] \in CallRecords /\ calls'[u].op = calls[u].op
            /\ calls'[u].arg = calls[u].arg /\ calls'[u].seen = endpoint
        BY <3>1, <3>3a DEF TypeInv, TypeOK, CallRecords
      <3>5. calls' \in [Users -> CallRecords]
        BY <2>2, <3>2, <3>4 DEF TypeInv, TypeOK
      <3>6. ArgInv'
        BY <3>1, <3>2, <3>4 DEF TypeInv, ArgInv
      <3> QED
        BY <1>9, <3>5, <3>6 DEF load, TypeInv, TypeOK
    <2> QED
      BY <1>9, <2>1, <2>2 DEF load
  <1>10. ASSUME NEW u \in Users, updateEndpoint(u) PROVE TypeInv'
    <2>1. calls[u].op = "update" /\ calls[u].at \in {"loaded", "write"}
      BY <1>10 DEF updateEndpoint, At
    <2>2. calls[u].arg \in Urls
      BY <2>1 DEF TypeInv, ArgInv
    <2>3. endpoint \in Rows => [endpoint EXCEPT !.url = calls[u].arg] \in Rows
      BY <2>2 DEF Rows
    <2>4. CASE At(u, "update", "loaded") /\ endpoint' = endpoint /\ (Goto(u, "write") \/ Return(u))
      <3>1. calls' \in [Users -> CallRecords] /\ ArgInv'
        BY <2>4, GotoKeeps, ReturnKeeps DEF At
      <3> QED
        BY <1>10, <2>4, <3>1 DEF updateEndpoint, TypeInv, TypeOK
    <2>5. CASE Write(u, [endpoint EXCEPT !.url = calls[u].arg])
      <3>1. endpoint' \in Rows \cup {NoEndpoint} /\ calls' \in [Users -> CallRecords] /\ ArgInv'
        BY <2>3, <2>5, WriteKeeps
      <3> QED
        BY <1>10, <3>1 DEF updateEndpoint, TypeInv, TypeOK
    <2> QED
      BY <1>10, <2>4, <2>5 DEF updateEndpoint
  <1>11. ASSUME NEW u \in Users, rotateSecret(u) PROVE TypeInv'
    <2> DEFINE row == [endpoint EXCEPT !.secret = calls[u].id,
                                       !.previousSecret = calls[u].seen.secret,
                                       !.secretRotatedAt = clock]
    <2>1. calls[u].seen \in Rows /\ calls[u].id \in Nat
      BY <1>11 DEF rotateSecret, At, EndpointOps, TypeInv, TypeOK, ArgInv, CallRecords
    <2>2. calls[u].seen.secret \in Nat /\ clock \in Nat
      BY <2>1 DEF Rows, TypeInv, TypeOK
    <2>3. endpoint \in Rows => row \in Rows
      BY <2>1, <2>2 DEF Rows
    <2>4. Write(u, row) /\ UNCHANGED <<members, project, raced, clock, served>>
      BY <1>11 DEF rotateSecret
    <2> HIDE DEF row
    <2>5. endpoint' \in Rows \cup {NoEndpoint} /\ calls' \in [Users -> CallRecords] /\ ArgInv'
      BY <2>3, <2>4, WriteKeeps
    <2> QED
      BY <2>4, <2>5 DEF TypeInv, TypeOK
  <1>12. ASSUME NEW u \in Users, enable(u) \/ disable(u) \/ sendTest(u) PROVE TypeInv'
    <2>1. PICK row : Write(u, row) /\ (endpoint \in Rows => row \in Rows)
      <3>1. endpoint \in Rows =>
                /\ [endpoint EXCEPT !.status = "ACTIVE"] \in Rows
                /\ [endpoint EXCEPT !.status = "DISABLED"] \in Rows
                /\ [endpoint EXCEPT !.history = TRUE] \in Rows
        BY DEF Rows
      <3> QED
        BY <1>12, <3>1, Zenon DEF enable, disable, sendTest
    <2>2. endpoint' \in Rows \cup {NoEndpoint} /\ calls' \in [Users -> CallRecords] /\ ArgInv'
      BY <2>1, WriteKeeps
    <2> QED
      BY <1>12, <2>2 DEF enable, disable, sendTest, TypeInv, TypeOK
  <1>13. ASSUME NEW u \in Users, removeEndpoint(u) PROVE TypeInv'
    BY <1>13, ReturnKeeps DEF removeEndpoint, TypeInv, TypeOK
  <1>14. CASE Rest \/ ReadRow \/ take \/ deliveryHeaders \/ record \/ Install \/ Tick \/ UNCHANGED vars
    BY <1>1, <1>14 DEF Rest, ReadRow, take, deliveryHeaders, record, Install, Tick, vars,
       TypeInv, TypeOK
  <1> QED
    BY <1>2, <1>3, <1>4, <1>5, <1>6, <1>7, <1>8, <1>9, <1>10, <1>11, <1>12, <1>13, <1>14
    DEF Next, Step

(***************************************************************************)
(* URLs.  A URL on its way to a row was let through by the guard, or it is   *)
(* the one the loaded row had, which was let through before it was stored.   *)
(***************************************************************************)
UrlInv ==
    /\ StoredUrlsAreGuarded
    /\ \A u \in Users :
          /\ calls[u].seen # NoEndpoint => calls[u].seen.url \in SafeUrls
          /\ At(u, "create", "write") \/ At(u, "update", "write") => calls[u].arg \in SafeUrls
          /\ At(u, "patch", "write") => calls[u].arg \in SafeUrls \cup {None}

\* No URL is stored or under way at the start.
LEMMA UrlInit == Init => UrlInv
  BY DEF Init, UrlInv, StoredUrlsAreGuarded, At, Idle, None

\* A call that ends, or goes on to anything but a write of a URL, carries none.
LEMMA ReturnIsSafe ==
    ASSUME TypeInv, UrlInv, NEW u \in Users, Return(u), StoredUrlsAreGuarded' PROVE UrlInv'
  <1>1. Idle.op = None /\ Idle.at = "idle" /\ Idle.seen = NoEndpoint
    BY DEF Idle
  <1> QED
    BY <1>1 DEF TypeInv, TypeOK, UrlInv, Return, At

\* A call that moves on carries to its write only what the guard let through.
LEMMA GotoIsSafe ==
    ASSUME TypeInv, UrlInv, NEW u \in Users, NEW at, Goto(u, at), StoredUrlsAreGuarded',
           at = "write" =>
              /\ calls[u].op \in {"create", "update"} => calls[u].arg \in SafeUrls
              /\ calls[u].op = "patch" => calls[u].arg \in SafeUrls \cup {None}
    PROVE  UrlInv'
  BY DEF TypeInv, TypeOK, CallRecords, UrlInv, Goto, At

\* Every write stores a URL that the guard let through before.
LEMMA UrlStep == ASSUME TypeInv, UrlInv, [Next]_vars PROVE UrlInv'
  <1> USE DEF rows, signing
  <1>1. CASE UNCHANGED <<project, endpoint, calls>>
    BY <1>1 DEF UrlInv, StoredUrlsAreGuarded, At
  <1>2. ASSUME NEW u \in Users, jwtAuth(u) PROVE UrlInv'
    <2>1. /\ calls'[u].seen = NoEndpoint /\ calls'[u].at # "write"
          /\ \A v \in Users : v # u => calls'[v] = calls[v]
      BY <1>2 DEF jwtAuth, TypeInv, TypeOK
    <2> QED
      BY <1>2, <2>1 DEF jwtAuth, UrlInv, StoredUrlsAreGuarded, At
  <1>3. ASSUME NEW u \in Users, createProject(u) PROVE UrlInv'
    BY <1>3 DEF createProject, UrlInv, StoredUrlsAreGuarded, At, TypeInv, TypeOK
  <1>4. ASSUME NEW u \in Users, updateProject(u) PROVE UrlInv'
    <2>1. StoredUrlsAreGuarded'
      BY <1>4 DEF updateProject, UrlInv, StoredUrlsAreGuarded, TypeInv, TypeOK
    <2>2. Return(u) \/ (Goto(u, "write") /\ calls[u].op = "patch" /\ calls[u].arg \in SafeUrls \cup {None})
      BY <1>4 DEF updateProject, assertAlertTarget, At
    <2> QED
      BY <2>1, <2>2, ReturnIsSafe, GotoIsSafe
  <1>5. ASSUME NEW u \in Users,
               addMember(u) \/ findMember(u) \/ countOwners(u) \/ deleteMember(u)
        PROVE  UrlInv'
    <2>1. StoredUrlsAreGuarded'
      BY <1>5 DEF addMember, findMember, countOwners, deleteMember, UrlInv, StoredUrlsAreGuarded
    <2>2. \/ Return(u) \/ Goto(u, "count") \/ Goto(u, "delete")
          \/ Goto(u, "write") /\ calls[u].op = "add"
      BY <1>5 DEF addMember, findMember, countOwners, deleteMember, At
    <2> QED
      BY <2>1, <2>2, ReturnIsSafe, GotoIsSafe
  <1>6. ASSUME NEW u \in Users, createApiKey(u) \/ revokeApiKey(u) PROVE UrlInv'
    <2>1. StoredUrlsAreGuarded'
      BY <1>6 DEF createApiKey, revokeApiKey, UrlInv, StoredUrlsAreGuarded, TypeInv, TypeOK
    <2>2. Return(u) \/ (Goto(u, "write") /\ calls[u].op = "revoke")
      BY <1>6 DEF createApiKey, revokeApiKey, At
    <2> QED
      BY <2>1, <2>2, ReturnIsSafe, GotoIsSafe
  <1>7. ASSUME NEW u \in Users, createEndpoint(u) PROVE UrlInv'
    <2>1. StoredUrlsAreGuarded'
      <3>1. endpoint' = endpoint \/ (endpoint'.url = calls[u].arg /\ At(u, "create", "write"))
        BY <1>7 DEF createEndpoint
      <3> QED
        BY <1>7, <3>1 DEF createEndpoint, UrlInv, StoredUrlsAreGuarded
    <2>2. \/ Return(u)
          \/ Goto(u, "write") /\ calls[u].op = "create" /\ calls[u].arg \in SafeUrls
      BY <1>7 DEF createEndpoint, assertReachable, At
    <2> QED
      BY <2>1, <2>2, ReturnIsSafe, GotoIsSafe
  <1>8. ASSUME NEW u \in Users, load(u) PROVE UrlInv'
    <2>1. StoredUrlsAreGuarded'
      BY <1>8 DEF load, UrlInv, StoredUrlsAreGuarded
    <2>2. CASE Return(u)
      BY <2>1, <2>2, ReturnIsSafe
    <2>3. CASE calls' = [calls EXCEPT ![u].at = "loaded", ![u].seen = endpoint]
      <3>1. \A v \in Users : v # u => calls'[v] = calls[v]
        BY <2>3 DEF TypeInv, TypeOK
      <3>2. calls'[u] = [calls[u] EXCEPT !.at = "loaded", !.seen = endpoint]
        BY <2>3 DEF TypeInv, TypeOK
      <3>3. calls'[u].at = "loaded" /\ calls'[u].seen = endpoint
        <4>1. calls[u] \in CallRecords
          BY DEF TypeInv, TypeOK
        <4> QED
          BY <3>2, <4>1 DEF CallRecords
      <3> QED
        BY <2>1, <3>1, <3>3 DEF UrlInv, StoredUrlsAreGuarded, At
    <2> QED
      BY <1>8, <2>2, <2>3 DEF load
  <1>9. ASSUME NEW u \in Users, updateEndpoint(u) PROVE UrlInv'
    <2>1. CASE At(u, "update", "loaded")
      <3>1. calls[u].seen \in Rows /\ calls[u].seen # NoEndpoint
        <4>1. calls[u].seen \in Rows
          BY <2>1 DEF At, TypeInv, ArgInv, EndpointOps
        <4>2. NoEndpoint \notin Rows
          BY DEF NoEndpoint, Rows
        <4> QED
          BY <4>1, <4>2
      <3>2. Return(u) \/ (Goto(u, "write") /\ calls[u].arg \in SafeUrls)
        BY <1>9, <2>1, <3>1 DEF updateEndpoint, assertReachable, UrlInv, At
      <3>3. StoredUrlsAreGuarded'
        BY <1>9, <2>1 DEF updateEndpoint, UrlInv, StoredUrlsAreGuarded, At
      <3>4. calls[u].op = "update"
        BY <2>1 DEF At
      <3> QED
        BY <3>2, <3>3, <3>4, ReturnIsSafe, GotoIsSafe
    <2>2. CASE At(u, "update", "write")
      <3>1. Write(u, [endpoint EXCEPT !.url = calls[u].arg])
        BY <1>9, <2>2 DEF updateEndpoint, At
      <3>2. calls[u].arg \in SafeUrls
        BY <2>2 DEF UrlInv
      <3>3. StoredUrlsAreGuarded'
        BY <1>9, <3>1, <3>2 DEF updateEndpoint, Write, UrlInv, StoredUrlsAreGuarded, TypeInv,
           TypeOK, Rows
      <3> QED
        BY <3>1, <3>3, ReturnIsSafe DEF Write
    <2> QED
      BY <1>9, <2>1, <2>2 DEF updateEndpoint
  <1>10. ASSUME NEW u \in Users,
                rotateSecret(u) \/ enable(u) \/ disable(u) \/ removeEndpoint(u) \/ sendTest(u)
         PROVE  UrlInv'
    <2>1. Return(u) /\ project' = project
      BY <1>10 DEF rotateSecret, enable, disable, removeEndpoint, sendTest, Write
    <2>2. CASE endpoint = NoEndpoint
      <3>1. endpoint' = NoEndpoint
        BY <1>10, <2>2 DEF rotateSecret, enable, disable, removeEndpoint, sendTest, Write
      <3> QED
        BY <2>1, <3>1, ReturnIsSafe DEF UrlInv, StoredUrlsAreGuarded
    <2>3. CASE endpoint # NoEndpoint
      <3>1. endpoint \in Rows
        BY <2>3 DEF TypeInv, TypeOK
      <3>2. endpoint' = NoEndpoint \/ endpoint'.url = endpoint.url
        <4>1. CASE rotateSecret(u)
          BY <2>3, <3>1, <4>1 DEF rotateSecret, Write, Rows
        <4>2. CASE enable(u) \/ disable(u) \/ removeEndpoint(u) \/ sendTest(u)
          BY <2>3, <3>1, <4>2 DEF enable, disable, removeEndpoint, sendTest, Write, Rows
        <4> QED
          BY <1>10, <4>1, <4>2
      <3> QED
        BY <2>1, <2>3, <3>2, ReturnIsSafe DEF UrlInv, StoredUrlsAreGuarded
    <2> QED
      BY <2>2, <2>3
  <1>11. CASE Rest \/ ReadRow \/ take \/ deliveryHeaders \/ record \/ Install \/ Tick \/ UNCHANGED vars
    BY <1>1, <1>11 DEF Rest, ReadRow, take, deliveryHeaders, record, Install, Tick, vars
  <1> QED
    BY <1>2, <1>3, <1>4, <1>5, <1>6, <1>7, <1>8, <1>9, <1>10, <1>11 DEF Next, Step

\* endpoint-service.js, project-service.js: however saves interleave, every stored URL
\* is one the guard let through.
THEOREM StoredUrlsAreGuardedHolds == Spec => []StoredUrlsAreGuarded
  <1>1. UrlInv => StoredUrlsAreGuarded
    BY DEF UrlInv
  <1> QED
    BY <1>1, TypeInit, TypeStep, UrlInit, UrlStep, PTL DEF Spec

(***************************************************************************)
(* Owners.  That an owner is left is not inductive: a removal past its count *)
(* deletes whatever happened since.  What is inductive is that, until two    *)
(* removals race, one owner is the target of none of them.                   *)
(***************************************************************************)
Removing(u) == At(u, "expel", "delete")
Safe(o) == members[o] = "OWNER" /\ \A u \in Users : Removing(u) => calls[u].arg # o

OwnerInv ==
    /\ project.exists => raced \/ \E o \in Users : Safe(o)
    /\ ~project.exists => \A u \in Users : members[u] = None /\ calls[u].op \notin ProjectOps

\* There is no project, no member and no call about one at the start.
LEMMA OwnerInit == Init => OwnerInv
  BY DEF Init, OwnerInv, Idle, None, ProjectOps

\* A removal past its count leaves at least one owner besides its target.
LEMMA CountLeavesOne ==
    ASSUME NEW o, Owners # {}, Cardinality(Owners) # 1
    PROVE  \E v \in Users : members[v] = "OWNER" /\ v # o
  <1> SUFFICES ASSUME \A v \in Users : members[v] = "OWNER" => v = o PROVE FALSE
    OBVIOUS
  <1>1. Owners = {o}
    BY DEF Owners
  <1> QED
    BY <1>1, FS_Singleton

\* A step that leaves memberships, the project and every removal alone.
LEMMA NoRemovalKeeps ==
    ASSUME OwnerInv, members' = members, project'.exists = project.exists, raced' = raced,
           \A u \in Users : /\ Removing(u)' => Removing(u) /\ calls'[u].arg = calls[u].arg
                            /\ calls'[u].op \in ProjectOps =>
                                  calls[u].op \in ProjectOps \/ project.exists
    PROVE  OwnerInv'
  BY DEF OwnerInv, Safe

\* A call that ends, or that goes on to anything but the delete, removes nobody.
LEMMA ReturnRemovesNone ==
    ASSUME TypeInv, NEW u \in Users, Return(u), NEW v \in Users
    PROVE  /\ Removing(v)' => Removing(v) /\ calls'[v].arg = calls[v].arg
           /\ calls'[v].op \in ProjectOps => calls[v].op \in ProjectOps
  <1>1. Idle.op = None /\ None \notin ProjectOps /\ None # "expel"
    BY DEF Idle, None, ProjectOps
  <1> QED
    BY <1>1 DEF TypeInv, TypeOK, Return, Removing, At

\* A call that moves to another step than the delete starts no removal.
LEMMA GotoRemovesNone ==
    ASSUME TypeInv, NEW u \in Users, NEW at, at # "delete", Goto(u, at), NEW v \in Users
    PROVE  /\ Removing(v)' => Removing(v) /\ calls'[v].arg = calls[v].arg
           /\ calls'[v].op \in ProjectOps => calls[v].op \in ProjectOps
  BY DEF TypeInv, TypeOK, CallRecords, Goto, Removing, At

\* A removal past its count leaves another owner, unless two of them have raced.
LEMMA OwnerStep == ASSUME TypeInv, OwnerInv, [Next]_vars PROVE OwnerInv'
  <1> USE DEF rows, signing
  <1>1. ASSUME NEW u \in Users, jwtAuth(u) PROVE OwnerInv'
    <2>1. /\ calls'[u].at # "delete" /\ calls'[u].op \in EndpointOps \cup ProjectOps
          /\ calls'[u].op \in ProjectOps => assertMembership(members[u], requiredRole(calls'[u].op))
          /\ \A v \in Users : v # u => calls'[v] = calls[v]
      BY <1>1 DEF jwtAuth, TypeInv, TypeOK
    <2>2. calls'[u].op \in ProjectOps => project.exists
      <3>1. calls'[u].op \in ProjectOps => members[u] # None
        BY <2>1 DEF assertMembership
      <3>2. project.exists \in BOOLEAN
        BY DEF TypeInv, TypeOK
      <3> QED
        BY <3>1, <3>2 DEF OwnerInv
    <2> QED
      BY <1>1, <2>1, <2>2, NoRemovalKeeps DEF jwtAuth, Removing, At
  <1>2. ASSUME NEW u \in Users, createProject(u) PROVE OwnerInv'
    <2>1. \A v \in Users : calls[v].op \notin ProjectOps
      BY <1>2 DEF createProject, OwnerInv
    <2>2. \A v \in Users : ~ Removing(v)'
      BY <1>2, <2>1 DEF createProject, Removing, At, ProjectOps
    <2>3. Safe(u)'
      BY <1>2, <2>2 DEF createProject, Safe, TypeInv, TypeOK
    <2>4. project'.exists
      BY <1>2 DEF createProject, TypeInv, TypeOK
    <2> QED
      BY <2>3, <2>4 DEF OwnerInv
  <1>3. ASSUME NEW u \in Users, updateProject(u) \/ createApiKey(u) \/ revokeApiKey(u) PROVE OwnerInv'
    <2>1. /\ members' = members /\ raced' = raced /\ project'.exists = project.exists
          /\ Return(u) \/ Goto(u, "write")
      BY <1>3 DEF updateProject, createApiKey, revokeApiKey, TypeInv, TypeOK
    <2> QED
      BY <2>1, NoRemovalKeeps, ReturnRemovesNone, GotoRemovesNone
  <1>4. ASSUME NEW u \in Users, addMember(u) PROVE OwnerInv'
    <2>1. calls[u].op = "add" /\ calls[u].arg \in Users
      BY <1>4 DEF addMember, At, TypeInv, ArgInv
    <2>2. \A v \in Users : Removing(v)' => Removing(v) /\ calls'[v].arg = calls[v].arg
      BY <1>4, ReturnRemovesNone, GotoRemovesNone DEF addMember
    <2>3. \A v \in Users : members[v] = "OWNER" => members'[v] = "OWNER"
      BY <1>4, <2>1 DEF addMember, TypeInv, TypeOK, None
    <2>4. project.exists
      BY <2>1 DEF OwnerInv, ProjectOps, TypeInv, TypeOK
    <2>5. UNCHANGED <<project, raced>>
      BY <1>4 DEF addMember
    <2> QED
      BY <2>2, <2>3, <2>4, <2>5 DEF OwnerInv, Safe
  <1>5. ASSUME NEW u \in Users, findMember(u) PROVE OwnerInv'
    <2>1. calls[u].op = "expel" /\ UNCHANGED <<members, project, raced>>
      BY <1>5 DEF findMember, At
    <2>2. CASE Return(u) \/ Goto(u, "count")
      BY <2>1, <2>2, NoRemovalKeeps, ReturnRemovesNone, GotoRemovesNone
    <2>3. CASE Goto(u, "delete") /\ members[calls[u].arg] # "OWNER"
      <3>1. \A v \in Users : calls'[v].arg = calls[v].arg /\ (v # u => calls'[v] = calls[v])
        BY <2>3 DEF Goto, TypeInv, TypeOK, CallRecords
      <3>2. \A o \in Users : Safe(o) => Safe(o)'
        BY <2>1, <2>3, <3>1 DEF Safe, Removing, At
      <3>3. project.exists
        BY <2>1 DEF OwnerInv, ProjectOps, TypeInv, TypeOK
      <3> QED
        BY <2>1, <3>2, <3>3 DEF OwnerInv
    <2> QED
      BY <1>5, <2>2, <2>3 DEF findMember
  <1>6. ASSUME NEW u \in Users, countOwners(u) PROVE OwnerInv'
    <2>1. /\ calls[u].op = "expel" /\ UNCHANGED <<members, project>>
          /\ raced' = (raced \/ (Cardinality(Owners) # 1 /\ \E v \in Users : Removing(v)))
      BY <1>6 DEF countOwners, At, Removing
    <2>2. project.exists
      BY <2>1 DEF OwnerInv, ProjectOps, TypeInv, TypeOK
    <2>3. CASE Return(u) /\ Cardinality(Owners) = 1
      <3>1. raced' = raced
        BY <2>1, <2>3 DEF TypeInv, TypeOK
      <3> QED
        BY <2>1, <2>3, <3>1, NoRemovalKeeps, ReturnRemovesNone
    <2>4. CASE Goto(u, "delete") /\ Cardinality(Owners) # 1
      <3>1. CASE raced \/ \E v \in Users : Removing(v)
        BY <2>1, <2>2, <2>4, <3>1 DEF OwnerInv
      <3>2. CASE ~raced /\ \A v \in Users : ~Removing(v)
        <4>1. Owners # {}
          BY <2>2, <3>2 DEF OwnerInv, Safe, Owners
        <4>2. PICK o \in Users : members[o] = "OWNER" /\ o # calls[u].arg
          BY <2>4, <4>1, CountLeavesOne
        <4>3. \A v \in Users : calls'[v].arg = calls[v].arg /\ (v # u => calls'[v] = calls[v])
          BY <2>4 DEF Goto, TypeInv, TypeOK, CallRecords
        <4>4. Safe(o)'
          BY <2>1, <3>2, <4>2, <4>3 DEF Safe, Removing, At
        <4> QED
          BY <2>1, <2>2, <4>4 DEF OwnerInv
      <3> QED
        BY <3>1, <3>2
    <2> QED
      BY <1>6, <2>3, <2>4 DEF countOwners
  <1>7. ASSUME NEW u \in Users, deleteMember(u) PROVE OwnerInv'
    <2>1. /\ Removing(u) /\ Return(u) /\ UNCHANGED <<project, raced>>
          /\ members' = [members EXCEPT ![calls[u].arg] = None]
      BY <1>7 DEF deleteMember, Removing
    <2>2. project.exists
      BY <2>1 DEF OwnerInv, ProjectOps, TypeInv, TypeOK, Removing, At
    <2>3. \A o \in Users : Safe(o) => Safe(o)'
      BY <2>1, ReturnRemovesNone DEF Safe, TypeInv, TypeOK
    <2> QED
      BY <2>1, <2>2, <2>3 DEF OwnerInv
  <1>8. ASSUME NEW u \in Users,
               \/ createEndpoint(u) \/ load(u) \/ updateEndpoint(u) \/ rotateSecret(u)
               \/ enable(u) \/ disable(u) \/ removeEndpoint(u) \/ sendTest(u)
        PROVE  OwnerInv'
    <2>1. UNCHANGED <<members, project, raced>>
      BY <1>8 DEF createEndpoint, load, updateEndpoint, rotateSecret, enable, disable,
         removeEndpoint, sendTest
    <2>2. CASE Return(u) \/ Goto(u, "write")
      BY <2>1, <2>2, NoRemovalKeeps, ReturnRemovesNone, GotoRemovesNone
    <2>3. CASE load(u) /\ calls' = [calls EXCEPT ![u].at = "loaded", ![u].seen = endpoint]
      <3>1. \A v \in Users : v # u => calls'[v] = calls[v]
        BY <2>3 DEF TypeInv, TypeOK
      <3>2. calls'[u] = [calls[u] EXCEPT !.at = "loaded", !.seen = endpoint]
        BY <2>3 DEF TypeInv, TypeOK
      <3>3. calls'[u].at = "loaded" /\ calls'[u].op = calls[u].op
        <4>1. calls[u] \in CallRecords
          BY DEF TypeInv, TypeOK
        <4> QED
          BY <3>2, <4>1 DEF CallRecords
      <3> QED
        BY <2>1, <3>1, <3>3, NoRemovalKeeps DEF Removing, At
    <2> QED
      BY <1>8, <2>2, <2>3 DEF createEndpoint, load, updateEndpoint, rotateSecret, enable, disable,
         removeEndpoint, sendTest, Write
  <1>9. CASE Rest \/ ReadRow \/ take \/ deliveryHeaders \/ record \/ Install \/ Tick \/ UNCHANGED vars
    <2>1. UNCHANGED <<members, project, raced, calls>>
      BY <1>9 DEF Rest, ReadRow, take, deliveryHeaders, record, Install, Tick, vars
    <2> QED
      BY <2>1, NoRemovalKeeps DEF Removing, At
  <1> QED
    BY <1>1, <1>2, <1>3, <1>4, <1>5, <1>6, <1>7, <1>8, <1>9 DEF Next, Step

\* project-service.js, removeMember: a project keeps an owner, unless two removals
\* are past their counts before either deletes.
THEOREM OwnerRemainsHolds == Spec => []OwnerRemains
  <1>1. TypeInv /\ OwnerInv => OwnerRemains
    BY DEF TypeInv, TypeOK, OwnerInv, OwnerRemains, Owners, Safe
  <1> QED
    BY <1>1, TypeInit, TypeStep, OwnerInit, OwnerStep, PTL DEF Spec

(***************************************************************************)
(* Secrets.  Secrets are never 0, so a promised one is always signed with;   *)
(* and unless rotations crowd each other, a promise that is still running is *)
(* about the previous secret of the row, until the instant the row gives.    *)
(***************************************************************************)
Promise == [secret : Nat \ {0}, until : Nat]
Kept(p, row) ==
    \/ clock >= p.until
    \/ /\ p.secret = row.previousSecret
       /\ p.until = previousSecretExpiresAt(row.secretRotatedAt)

CallSecrets == \A u \in Users :
    /\ calls[u].op # None => calls[u].id # 0
    /\ calls[u].seen # NoEndpoint => calls[u].seen.secret # 0

RowSecrets ==
    /\ endpoint # NoEndpoint => endpoint.secret # 0 /\ held # 0
    /\ promises \subseteq Promise /\ (promises # {} => held # 0)
    /\ crowded \in BOOLEAN
    /\ endpoint # NoEndpoint => crowded \/ \A p \in promises : Kept(p, endpoint)

\* An attempt that is to be signed has a row that keeps every promise made when it
\* was read; one that was signed carries the signatures that were promised.
Unsigned == [at : {"read", "granted"}, row : Rows, promised : SUBSET Promise]
AttemptSecrets ==
    /\ message.at \in {"none", "read", "granted", "sent", "done"}
    /\ message.at \in {"read", "granted"} =>
          /\ message \in Unsigned
          /\ crowded \/ \A p \in message.promised : Kept(p, message.row)
    /\ message.at = "sent" =>
          /\ message.row.secret \in message.signatures
          /\ crowded \/ \A p \in message.promised :
                message.timestamp >= p.until \/ p.secret \in message.signatures
    /\ PromisedSecretVerifies

SecretInv == CallSecrets /\ RowSecrets /\ AttemptSecrets

\* At the start no secret exists.
LEMMA SecretInit == Init => SecretInv
  <1> SUFFICES ASSUME Init PROVE SecretInv
    OBVIOUS
  <1>1. CallSecrets
    BY DEF Init, CallSecrets, Idle, None
  <1>2. RowSecrets
    BY DEF Init, RowSecrets
  <1>3. AttemptSecrets
    BY DEF Init, AttemptSecrets, NoMessage, PromisedSecretVerifies
  <1> QED
    BY <1>1, <1>2, <1>3 DEF SecretInv

\* What a step does to a call: nothing, end it, move it on, begin it or load the row.
LEMMA CallSecretsStep == ASSUME TypeInv, SecretInv, [Next]_vars PROVE CallSecrets'
  <1> USE DEF rows, signing
  <1>1. CASE calls' = calls
    BY <1>1 DEF SecretInv, CallSecrets
  <1>2. ASSUME NEW u \in Users, NEW at, Goto(u, at) \/ Return(u) PROVE CallSecrets'
    <2>1. CASE Return(u)
      <3>1. Idle.op = None /\ Idle.seen = NoEndpoint
        BY DEF Idle
      <3> QED
        BY <2>1, <3>1 DEF Return, SecretInv, CallSecrets, TypeInv, TypeOK
    <2>2. CASE Goto(u, at)
      BY <2>2 DEF Goto, SecretInv, CallSecrets, TypeInv, TypeOK, CallRecords
    <2> QED
      BY <1>2, <2>1, <2>2
  <1>3. ASSUME NEW u \in Users, jwtAuth(u) PROVE CallSecrets'
    <2>1. /\ calls'[u].id = served + 1 /\ calls'[u].seen = NoEndpoint
          /\ \A v \in Users : v # u => calls'[v] = calls[v]
      BY <1>3 DEF jwtAuth, TypeInv, TypeOK
    <2>2. served + 1 # 0
      BY DEF TypeInv, TypeOK
    <2> QED
      BY <2>1, <2>2 DEF SecretInv, CallSecrets
  <1>4. ASSUME NEW u \in Users, load(u) PROVE CallSecrets'
    <2>1. CASE calls' = [calls EXCEPT ![u].at = "loaded", ![u].seen = endpoint]
      <3>1. calls[u] \in CallRecords /\ \A v \in Users : v # u => calls'[v] = calls[v]
        BY <2>1 DEF TypeInv, TypeOK
      <3>2. calls'[u] = [calls[u] EXCEPT !.at = "loaded", !.seen = endpoint]
        BY <2>1 DEF TypeInv, TypeOK
      <3>3. /\ calls'[u].seen = endpoint /\ calls'[u].id = calls[u].id
            /\ calls'[u].op = calls[u].op
        BY <3>1, <3>2 DEF CallRecords
      <3> QED
        BY <3>1, <3>3 DEF SecretInv, CallSecrets, RowSecrets
    <2> QED
      BY <1>2, <1>4, <2>1 DEF load
  <1>5. CASE Rest \/ ReadRow \/ take \/ deliveryHeaders \/ record \/ Install \/ Tick \/ UNCHANGED vars
    BY <1>1, <1>5 DEF Rest, ReadRow, take, deliveryHeaders, record, Install, Tick, vars
  <1> QED
    BY <1>1, <1>2, <1>3, <1>4, <1>5 DEF Next, Step, createProject, updateProject, addMember,
       findMember, countOwners, deleteMember, createApiKey, revokeApiKey, createEndpoint,
       updateEndpoint, rotateSecret, enable, disable, removeEndpoint, sendTest, Write

\* A step that writes none of the secrets of the row, its promises or the receiver.
SameSecrets(row) ==
    /\ row.secret = endpoint.secret /\ row.previousSecret = endpoint.previousSecret
    /\ row.secretRotatedAt = endpoint.secretRotatedAt

\* Such a write keeps what is known of the row.
LEMMA WriteKeepsSecrets ==
    ASSUME RowSecrets, UNCHANGED <<promises, crowded, held, clock>>,
           endpoint' = NoEndpoint \/ (endpoint # NoEndpoint /\ SameSecrets(endpoint'))
    PROVE  RowSecrets'
  BY DEF RowSecrets, SameSecrets, Kept, previousSecretExpiresAt

\* A rotation that finds no promise running makes the only one that is.
LEMMA RotateKeeps ==
    ASSUME TypeInv, SecretInv, NEW u \in Users, rotateSecret(u) PROVE RowSecrets'
  <1>1. At(u, "rotate", "loaded") /\ UNCHANGED <<held, clock>>
    BY DEF rotateSecret
  <1>2. calls[u].seen \in Rows /\ NoEndpoint \notin Rows
    BY <1>1 DEF At, EndpointOps, TypeInv, ArgInv, NoEndpoint, Rows
  <1>3. PICK s \in Nat \ {0} : s = calls[u].seen.secret
    BY <1>2 DEF SecretInv, CallSecrets, Rows
  <1>4. PICK i \in Nat \ {0} : i = calls[u].id
    BY <1>1 DEF SecretInv, CallSecrets, At, None, TypeInv, TypeOK, CallRecords
  <1>5. CASE endpoint = NoEndpoint
    BY <1>1, <1>5 DEF rotateSecret, Write, SecretInv, RowSecrets
  <1>6. CASE endpoint # NoEndpoint
    <2>1. endpoint \in Rows /\ clock \in Nat /\ Grace \in Nat
      BY <1>6, AdministrationAssumption DEF TypeInv, TypeOK
    <2>2. endpoint' = [endpoint EXCEPT !.secret = i, !.previousSecret = s,
                                       !.secretRotatedAt = clock]
      BY <1>3, <1>4, <1>6 DEF rotateSecret, Write
    <2>3. endpoint'.secret = i /\ endpoint'.previousSecret = s /\ endpoint'.secretRotatedAt = clock
      BY <2>1, <2>2 DEF Rows
    <2>4. PICK new : /\ new = [secret |-> s, until |-> clock + Grace]
                     /\ promises' = promises \cup {new}
                     /\ crowded' = (crowded \/ \E p \in promises : Running(p))
      BY <1>3, <1>6 DEF rotateSecret, previousSecretExpiresAt
    <2>5. new \in Promise /\ new.secret = s /\ new.until = clock + Grace
      BY <2>1, <2>4 DEF Promise
    <2>6. Kept(new, endpoint)'
      BY <1>1, <2>3, <2>5 DEF Kept, previousSecretExpiresAt
    <2>7. ASSUME NEW p \in promises, ~crowded' PROVE Kept(p, endpoint)'
      <3>1. ~(clock < p.until)
        BY <2>4, <2>7 DEF Running
      <3>2. p.until \in Nat
        BY DEF SecretInv, RowSecrets, Promise
      <3> QED
        BY <1>1, <2>1, <3>1, <3>2 DEF Kept
    <2>8. crowded' \in BOOLEAN /\ held' # 0 /\ promises' \subseteq Promise
      BY <1>1, <1>6, <2>4, <2>5 DEF SecretInv, RowSecrets
    <2> QED
      BY <2>3, <2>4, <2>6, <2>7, <2>8 DEF RowSecrets
  <1> QED
    BY <1>5, <1>6

\* Time lets promises run out and revives none.
LEMMA TimeKeeps ==
    ASSUME clock \in Nat, clock' = clock \/ clock' = clock + 1,
           NEW p \in Promise, NEW row, Kept(p, row)
    PROVE  Kept(p, row)'
  <1>1. p.until \in Nat
    BY DEF Promise
  <1>2. clock >= p.until => clock' >= p.until
    BY <1>1
  <1> QED
    BY <1>2 DEF Kept

\* What is known of the row and of its promises is kept by every step.
LEMMA RowSecretsStep == ASSUME TypeInv, SecretInv, [Next]_vars PROVE RowSecrets'
  <1> USE DEF rows, signing
  <1>1. CASE UNCHANGED <<endpoint, promises, crowded, held, clock>>
    BY <1>1 DEF SecretInv, RowSecrets, Kept
  <1>2. ASSUME NEW u \in Users, createEndpoint(u) PROVE RowSecrets'
    <2>1. CASE UNCHANGED <<endpoint, held>>
      BY <1>1, <1>2, <2>1 DEF createEndpoint
    <2>2. CASE held = 0 /\ held' = calls[u].id /\ endpoint'.secret = calls[u].id
      <3>1. promises = {} /\ UNCHANGED <<promises, crowded>>
        BY <1>2, <2>2 DEF createEndpoint, SecretInv, RowSecrets
      <3>2. calls[u].id # 0
        BY <1>2 DEF createEndpoint, At, SecretInv, CallSecrets, None
      <3> QED
        BY <2>2, <3>1, <3>2 DEF SecretInv, RowSecrets
    <2> QED
      BY <1>2, <2>1, <2>2 DEF createEndpoint
  <1>3. ASSUME NEW u \in Users,
               updateEndpoint(u) \/ enable(u) \/ disable(u) \/ removeEndpoint(u) \/ sendTest(u)
        PROVE  RowSecrets'
    <2>1. UNCHANGED <<promises, crowded, held, clock>>
      BY <1>3 DEF updateEndpoint, enable, disable, removeEndpoint, sendTest
    <2>2. endpoint' = NoEndpoint \/ (endpoint # NoEndpoint /\ SameSecrets(endpoint'))
      <3>1. CASE endpoint' = endpoint \/ endpoint' = NoEndpoint
        BY <3>1 DEF SameSecrets
      <3>2. ASSUME endpoint # NoEndpoint,
                   \/ endpoint' = [endpoint EXCEPT !.url = calls[u].arg]
                   \/ endpoint' = [endpoint EXCEPT !.status = "ACTIVE"]
                   \/ endpoint' = [endpoint EXCEPT !.status = "DISABLED"]
                   \/ endpoint' = [endpoint EXCEPT !.history = TRUE]
            PROVE  SameSecrets(endpoint')
        <4>1. endpoint \in Rows
          BY <3>2 DEF TypeInv, TypeOK
        <4> QED
          BY <3>2, <4>1 DEF Rows, SameSecrets
      <3> QED
        BY <1>3, <3>1, <3>2
           DEF updateEndpoint, enable, disable, removeEndpoint, sendTest, Write
    <2> QED
      BY <2>1, <2>2, WriteKeepsSecrets DEF SecretInv
  <1>4. CASE Tick
    <2>1. UNCHANGED <<endpoint, promises, crowded, held>> /\ clock' = clock + 1
      BY <1>4 DEF Tick
    <2>2. ASSUME NEW p \in promises, Kept(p, endpoint) PROVE Kept(p, endpoint)'
      <3>1. p \in Promise /\ clock \in Nat
        BY DEF SecretInv, RowSecrets, TypeInv, TypeOK
      <3>2. PICK row : row = endpoint
        OBVIOUS
      <3>3. Kept(p, row)'
        BY <2>1, <2>2, <3>1, <3>2, TimeKeeps
      <3> QED
        BY <2>1, <3>2, <3>3
    <2> QED
      BY <2>1, <2>2 DEF SecretInv, RowSecrets
  <1>5. CASE Install
    BY <1>5 DEF Install, SecretInv, RowSecrets, Kept
  <1>6. CASE Rest \/ ReadRow \/ take \/ deliveryHeaders \/ record \/ UNCHANGED vars
    BY <1>1, <1>6 DEF Rest, ReadRow, take, deliveryHeaders, record, vars
  <1> QED
    BY <1>1, <1>2, <1>3, <1>4, <1>5, <1>6, RotateKeeps
       DEF Next, Step, jwtAuth, createProject, updateProject, addMember, findMember,
           countOwners, deleteMember, createApiKey, revokeApiKey, load

\* An attempt keeps what it has been read, signed or refused with.
LEMMA AttemptSecretsStep == ASSUME TypeInv, SecretInv, [Next]_vars PROVE AttemptSecrets'
  <1> USE DEF rows, signing
  <1>1. ASSUME message' = message, crowded => crowded',
               clock' = clock \/ clock' = clock + 1
        PROVE  AttemptSecrets'
    <2>1. ASSUME message.at \in {"read", "granted"}
          PROVE  /\ message' \in Unsigned
                 /\ crowded' \/ \A p \in message'.promised : Kept(p, message.row)'
      <3>1. message \in Unsigned /\ (crowded \/ \A p \in message.promised : Kept(p, message.row))
        BY <2>1 DEF SecretInv, AttemptSecrets
      <3>2. PICK row : row = message.row
        OBVIOUS
      <3>3. \A p \in message.promised : Kept(p, row) => Kept(p, row)'
        BY <1>1, <3>1, TimeKeeps DEF Unsigned, TypeInv, TypeOK
      <3> QED
        BY <1>1, <3>1, <3>2, <3>3
    <2> QED
      BY <1>1, <2>1 DEF SecretInv, AttemptSecrets, PromisedSecretVerifies
  <1>2. CASE ReadRow
    <2>1. endpoint \in Rows /\ promises \subseteq Promise
      BY <1>2 DEF ReadRow, TypeInv, TypeOK, SecretInv, RowSecrets
    <2>2. message' = [at |-> "read", row |-> endpoint, promised |-> promises]
      BY <1>2 DEF ReadRow
    <2>3. message' \in Unsigned /\ message'.at = "read"
      BY <2>1, <2>2 DEF Unsigned
    <2>4. message'.row = endpoint /\ message'.promised = promises
      BY <2>2
    <2>5. crowded' \/ \A p \in message'.promised : Kept(p, message.row)'
      <3>1. crowded \/ \A p \in promises : Kept(p, endpoint)
        BY <1>2 DEF ReadRow, SecretInv, RowSecrets
      <3>2. UNCHANGED <<crowded, clock>>
        BY <1>2 DEF ReadRow
      <3> QED
        BY <2>4, <3>1, <3>2 DEF Kept
    <2> QED
      BY <2>3, <2>5 DEF AttemptSecrets, PromisedSecretVerifies
  <1>3. CASE take
    <2>1. CASE message' = NoMessage
      BY <2>1 DEF NoMessage, AttemptSecrets, PromisedSecretVerifies
    <2>2. CASE message' = [message EXCEPT !.at = "granted"]
      <3>1. message \in Unsigned /\ (crowded \/ \A p \in message.promised : Kept(p, message.row))
        BY <1>3 DEF take, SecretInv, AttemptSecrets
      <3>2. /\ message' \in Unsigned /\ message'.at = "granted" /\ message'.row = message.row
            /\ message'.promised = message.promised
        BY <2>2, <3>1 DEF Unsigned
      <3>3. UNCHANGED <<crowded, clock>>
        BY <1>3 DEF take
      <3> QED
        BY <3>1, <3>2, <3>3 DEF AttemptSecrets, PromisedSecretVerifies, Kept
    <2> QED
      BY <1>3, <2>1, <2>2 DEF take
  <1>4. CASE deliveryHeaders
    <2>1. message \in Unsigned /\ (crowded \/ \A p \in message.promised : Kept(p, message.row))
      BY <1>4 DEF deliveryHeaders, SecretInv, AttemptSecrets
    <2>2. /\ message'.at = "sent" /\ message'.row = message.row
          /\ message'.promised = message.promised /\ message'.timestamp = clock
          /\ message'.signatures = activeSecrets(message.row, clock) /\ crowded' = crowded
      BY <1>4 DEF deliveryHeaders
    <2>3. message.row.secret \in activeSecrets(message.row, clock)
      BY DEF activeSecrets
    <2>4. ASSUME NEW p \in message.promised, Kept(p, message.row), ~(clock >= p.until)
          PROVE  p.secret \in activeSecrets(message.row, clock)
      <3>1. p \in Promise /\ clock \in Nat
        BY <2>1 DEF Unsigned, TypeInv, TypeOK
      <3>2. p.secret # 0 /\ clock < p.until
        BY <2>4, <3>1 DEF Promise
      <3> QED
        BY <2>4, <3>2 DEF Kept, activeSecrets
    <2> QED
      BY <2>1, <2>2, <2>3, <2>4 DEF AttemptSecrets, PromisedSecretVerifies
  <1>5. CASE record
    <2>1. /\ message.row.secret \in message.signatures
          /\ crowded \/ \A p \in message.promised :
                message.timestamp >= p.until \/ p.secret \in message.signatures
      BY <1>5 DEF record, SecretInv, AttemptSecrets
    <2>2. /\ message'.at = "done" /\ message'.row = message.row /\ message'.held = held
          /\ message'.promised = message.promised /\ message'.timestamp = message.timestamp
          /\ message'.verdict =
                verifySignature(message.signatures, held, message.timestamp, clock)
          /\ crowded' = crowded
      BY <1>5 DEF record
    <2>3. message'.verdict = "signature_mismatch" => held \notin message.signatures
      BY <2>2 DEF verifySignature
    <2>4. PromisedSecretVerifies'
      BY <2>1, <2>2, <2>3 DEF PromisedSecretVerifies
    <2> QED
      BY <2>2, <2>4 DEF AttemptSecrets
  <1>6. ASSUME NEW u \in Users, Step(u) PROVE AttemptSecrets'
    <2>1. CASE rotateSecret(u)
      <3>1. UNCHANGED <<message, clock>>
        BY <2>1 DEF rotateSecret
      <3>2. crowded' = crowded \/ crowded' = (crowded \/ \E p \in promises : Running(p))
        BY <2>1 DEF rotateSecret
      <3>3. crowded => crowded'
        BY <3>2, Zenon
      <3> QED
        BY <1>1, <3>1, <3>3
    <2>2. CASE ~rotateSecret(u)
      <3>1. UNCHANGED <<message, clock, crowded>>
        BY <1>6, <2>2 DEF Step, jwtAuth, createProject, updateProject, addMember, findMember,
           countOwners, deleteMember, createApiKey, revokeApiKey, createEndpoint, load,
           updateEndpoint, enable, disable, removeEndpoint, sendTest
      <3> QED
        BY <1>1, <3>1
    <2> QED
      BY <2>1, <2>2
  <1>7. CASE Rest \/ Install \/ Tick \/ UNCHANGED vars
    BY <1>1, <1>7 DEF Rest, Install, Tick, vars
  <1> QED
    BY <1>2, <1>3, <1>4, <1>5, <1>6, <1>7 DEF Next

\* hmac.js, signing.js: however rotations, installs and attempts interleave, a receiver
\* that holds the secret of the row an attempt was read from, or one that was promised by
\* then and whose time is not over, is never sent a signature it cannot verify, unless a
\* rotation was written while an earlier promise was running.
THEOREM PromisedSecretVerifiesHolds == Spec => []PromisedSecretVerifies
  <1>1. ASSUME TypeInv, SecretInv, [Next]_vars PROVE SecretInv'
    BY <1>1, CallSecretsStep, RowSecretsStep, AttemptSecretsStep DEF SecretInv
  <1>2. SecretInv => PromisedSecretVerifies
    BY DEF SecretInv, AttemptSecrets
  <1> QED
    BY <1>1, <1>2, TypeInit, TypeStep, SecretInit, PTL DEF Spec
=============================================================================
