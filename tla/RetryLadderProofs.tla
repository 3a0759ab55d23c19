-------------------------- MODULE RetryLadderProofs --------------------------
(***************************************************************************)
(* Proofs about the retry ladder for every schedule, every number of       *)
(* attempts and every header: the queue a retry waits in, the expiration   *)
(* it is published with and the length of the ladder.                      *)
(***************************************************************************)
EXTENDS RetryLadder, NaturalsInduction, WellFoundedInduction, SequenceTheorems, TLAPS

\* A non-empty set of levels has a least member.
LEMMA LeastLevel ==
    ASSUME NEW S \in SUBSET Levels, S # {}
    PROVE  \E i \in S : \A j \in S : i <= j
  <1>1. Levels \subseteq Nat
    BY RetryAssumption DEF Levels
  <1>2. PICK x \in S : \A y \in S : ~ (<<y, x>> \in OpToRel(<, Nat))
    BY <1>1, NatLessThanWellFounded, WFMin, Zenon
  <1>3. \A y \in S : ~(y < x)
    BY <1>1, <1>2 DEF OpToRel
  <1> QED
    BY <1>1, <1>3

\* What Retry-After may ask for, once it was read.
Asked == {Undefined} \cup {Defined(n) : n \in Int}
Wait == [after : Levels, level : Levels, asked : Asked, expiration : Int]

\* Every Retry-After header reads as nothing or as a whole number of seconds.
LEMMA HeaderIsAsked ==
    ASSUME NEW header \in Headers
    PROVE  retryAfterSeconds(header) \in Asked
  <1>1. CASE header.kind = "number"
    BY <1>1, HeadersAssumption DEF retryAfterSeconds, Asked, Defined, Undefined
  <1>2. CASE header.kind = "date"
    <2>1. (IF header.value < 0 THEN 0 ELSE (header.value + 500) \div 1000) \in Int
      BY <1>2, HeadersAssumption
    <2> QED
      BY <1>2, <2>1 DEF retryAfterSeconds, Asked, Defined, Undefined
  <1> QED
    BY <1>1, <1>2 DEF retryAfterSeconds, Asked, Defined, Undefined

\* schedule.find and its fallback: the first level that is long enough.
LEMMA FirstLevel ==
    ASSUME NEW ms \in Int, Levels # {}
    PROVE  LET found == FirstLevelOrLast(ms)
           IN  /\ found \in Levels
               /\ \A i \in Levels : RETRY_SCHEDULE[i] >= ms => found <= i
               /\ \/ RETRY_SCHEDULE[found] >= ms
                  \/ /\ \A i \in Levels : ~ (RETRY_SCHEDULE[i] >= ms)
                     /\ found = Len(RETRY_SCHEDULE)
  <1> DEFINE enough == {i \in Levels : RETRY_SCHEDULE[i] >= ms}
  <1>0. Levels = 1 .. Len(RETRY_SCHEDULE) /\ Len(RETRY_SCHEDULE) \in Nat
    BY RetryAssumption DEF Levels
  <1>1. CASE enough = {}
    <2>1. FirstLevelOrLast(ms) = Len(RETRY_SCHEDULE)
      BY <1>1 DEF FirstLevelOrLast
    <2>2. Len(RETRY_SCHEDULE) \in Levels
      BY <1>0
    <2> QED
      BY <1>1, <2>1, <2>2
  <1>2. CASE enough # {}
    <2>1. FirstLevelOrLast(ms) = CHOOSE i \in enough : \A j \in enough : i <= j
      BY <1>2 DEF FirstLevelOrLast
    <2>2. \E i \in enough : \A j \in enough : i <= j
      <3>1. enough \in SUBSET Levels
        OBVIOUS
      <3> QED
        BY <1>2, <3>1, LeastLevel
    <2>3. /\ FirstLevelOrLast(ms) \in enough
          /\ \A j \in enough : FirstLevelOrLast(ms) <= j
      BY <2>1, <2>2
    <2> QED
      BY <2>3
  <1> QED
    BY <1>1, <1>2

\* The level chosen for a retry is the least one that is enough, or the last.
LEMMA LevelIsLeastEnough ==
    ASSUME NEW made \in Nat, NEW asked \in Asked, NEW classification \in FAILURE,
           NEW wait \in Wait, wait.after = made, wait.asked = asked,
           nextRetryLevel(classification, made, asked) # NoLevel,
           wait.level = nextRetryLevel(classification, made, asked)
    PROVE  LeastEnough(wait)
  <1>0. /\ Levels = 1 .. Len(RETRY_SCHEDULE) /\ Len(RETRY_SCHEDULE) \in Nat
        /\ \A i \in Levels : RETRY_SCHEDULE[i] \in Nat
        /\ \A i, j \in Levels : i < j => RETRY_SCHEDULE[i] < RETRY_SCHEDULE[j]
    BY RetryAssumption DEF Levels
  <1>1. /\ made \in Levels /\ made < MAX_ATTEMPTS
        /\ wait.level = selectRetryLevel(made, asked)
    BY RetryAssumption DEF nextRetryLevel, shouldRetry, selectRetryLevel, NoLevel
  <1>2. CASE asked = Undefined \/ asked[1] * 1000 <= RETRY_SCHEDULE[made]
    <2>1. wait.level = made
      BY <1>1, <1>2, RetryAssumption DEF selectRetryLevel
    <2>2. Enough(wait, made)
      <3>1. asked = Undefined \/ RETRY_SCHEDULE[made] >= asked[1] * 1000
        BY <1>0, <1>1, <1>2 DEF Asked, Defined
      <3> QED
        BY <3>1, <1>1 DEF Enough
    <2>3. \A level \in Levels : Enough(wait, level) => made <= level
      BY <1>0 DEF Enough
    <2> QED
      BY <1>1, <2>1, <2>2, <2>3 DEF LeastEnough
  <1>3. CASE asked # Undefined /\ ~ (asked[1] * 1000 <= RETRY_SCHEDULE[made])
    <2> DEFINE ms == asked[1] * 1000
               found == FirstLevelOrLast(ms)
    <2>0. asked[1] \in Int
      BY <1>3 DEF Asked, Defined
    <2>1. ms \in Int
      BY <2>0
    <2>2. wait.level = found
      BY <1>1, <1>3, RetryAssumption DEF selectRetryLevel
    <2> HIDE DEF ms
    <2>3. /\ found \in Levels
          /\ \A i \in Levels : RETRY_SCHEDULE[i] >= ms => found <= i
          /\ \/ RETRY_SCHEDULE[found] >= ms
             \/ /\ \A i \in Levels : ~ (RETRY_SCHEDULE[i] >= ms)
                /\ found = Len(RETRY_SCHEDULE)
      BY <1>1, <2>1, FirstLevel
    <2> HIDE DEF found
    <2>4. RETRY_SCHEDULE[made] < ms
      BY <1>0, <1>1, <1>3, <2>1 DEF ms
    <2>5. \A level \in Levels : Enough(wait, level) <=> level >= made /\ RETRY_SCHEDULE[level] >= ms
      BY <1>3 DEF Enough, ms
    <2>6. \A level \in Levels : RETRY_SCHEDULE[level] >= ms => level > made
      <3> SUFFICES ASSUME NEW level \in Levels, RETRY_SCHEDULE[level] >= ms, ~ (level > made)
                   PROVE  FALSE
        OBVIOUS
      <3>1. level = made \/ level < made
        BY <1>0, <1>1
      <3>2. RETRY_SCHEDULE[level] <= RETRY_SCHEDULE[made]
        BY <1>0, <1>1, <3>1
      <3> QED
        BY <1>0, <1>1, <2>1, <2>4, <3>2
    <2>7. \A level \in Levels : Enough(wait, level) <=> RETRY_SCHEDULE[level] >= ms
      BY <1>0, <1>1, <2>5, <2>6
    <2>8. CASE RETRY_SCHEDULE[found] >= ms
      <3>1. Enough(wait, found)
        BY <2>3, <2>7, <2>8
      <3>2. \A level \in Levels : Enough(wait, level) => found <= level
        BY <2>3, <2>7
      <3> QED
        BY <2>2, <2>3, <3>1, <3>2 DEF LeastEnough
    <2>9. CASE /\ \A i \in Levels : ~ (RETRY_SCHEDULE[i] >= ms)
               /\ found = Len(RETRY_SCHEDULE)
      BY <2>2, <2>7, <2>9 DEF LeastEnough
    <2> QED
      BY <2>3, <2>8, <2>9
  <1> QED
    BY <1>2, <1>3

\* The level of a retry is one of the schedule's.
LEMMA LevelType ==
    ASSUME NEW made \in Nat, NEW asked \in Asked, NEW classification \in FAILURE,
           nextRetryLevel(classification, made, asked) # NoLevel
    PROVE  /\ made \in Levels /\ made < MAX_ATTEMPTS
           /\ nextRetryLevel(classification, made, asked) \in Levels
  <1>1. /\ made \in Levels /\ made < MAX_ATTEMPTS
        /\ nextRetryLevel(classification, made, asked) = selectRetryLevel(made, asked)
    BY RetryAssumption DEF nextRetryLevel, shouldRetry, selectRetryLevel, NoLevel
  <1>2. asked # Undefined => asked[1] * 1000 \in Int
    BY DEF Asked, Defined
  <1>3. asked # Undefined => FirstLevelOrLast(asked[1] * 1000) \in Levels
    BY <1>1, <1>2, FirstLevel
  <1> QED
    BY <1>1, <1>3 DEF selectRetryLevel, NoLevel

\* No retry of a retryable failure means that every attempt was made.
LEMMA NoLevelIsLast ==
    ASSUME NEW made \in 1 .. MAX_ATTEMPTS, NEW asked \in Asked,
           nextRetryLevel(RETRYABLE, made, asked) = NoLevel
    PROVE  made = MAX_ATTEMPTS
  <1> SUFFICES ASSUME made < MAX_ATTEMPTS PROVE FALSE
    BY RetryAssumption
  <1>1. made \in Levels /\ 0 \notin Levels /\ ~(made >= MAX_ATTEMPTS)
    BY RetryAssumption DEF Levels
  <1>2. asked # Undefined => asked[1] * 1000 \in Int
    BY DEF Asked, Defined
  <1>3. asked # Undefined => FirstLevelOrLast(asked[1] * 1000) \in Levels
    BY <1>1, <1>2, FirstLevel
  <1> QED
    BY <1>1, <1>3 DEF selectRetryLevel, NoLevel, nextRetryLevel, shouldRetry

\* The two extremes of the draw keep the delay within its tenth.
LEMMA JitterBand ==
    ASSUME NEW ttl \in Nat, ttl % 10 = 0, NEW draw \in {0, JitterSteps - 1}
    PROVE  applyJitter(ttl, draw) \in (ttl - ttl \div 10) .. ttl
  <1>1. PICK tenth \in Nat : ttl = 10 * tenth
    <2>1. ttl = 10 * (ttl \div 10) /\ ttl \div 10 \in Nat
      OBVIOUS
    <2> QED
      BY <2>1
  <1>2. CASE draw = 0
    <2>1. applyJitter(ttl, draw) = ttl
      BY <1>2 DEF applyJitter, JitterSteps
    <2> QED
      BY <2>1
  <1>3. CASE draw = 15
    <2>1. applyJitter(ttl, draw) = ttl - (300 * tenth + 159) \div 320
      BY <1>1, <1>3 DEF applyJitter, JitterSteps
    <2>2. (300 * tenth + 159) \div 320 \in 0 .. tenth
      OBVIOUS
    <2>3. ttl \div 10 = tenth
      BY <1>1
    <2> QED
      BY <1>1, <2>1, <2>2, <2>3
  <1> QED
    BY <1>2, <1>3 DEF JitterSteps
-----------------------------------------------------------------------------
\* Every retry so far was decided well, and the ladder counts them.
InBand(wait) ==
    LET ttl == RETRY_SCHEDULE[wait.level] IN wait.expiration \in (ttl - ttl \div 10) .. ttl
WalkInv ==
    /\ attempt \in 1 .. MAX_ATTEMPTS
    /\ waits \in Seq(Wait) /\ Len(waits) = attempt - 1
    /\ \A i \in DOMAIN waits : LeastEnough(waits[i]) /\ InBand(waits[i])
    /\ outcome = "EXHAUSTED" => attempt = MAX_ATTEMPTS
    /\ target # NoTarget => outcome = "walking"

\* One answer, classified and turned into a retry or an end.
LEMMA SettleStep ==
    ASSUME WalkInv, NEW classification \in FAILURE, NEW asked \in Asked,
           outcome = "walking", Settle(classification, asked), target' = NoTarget
    PROVE  WalkInv'
  <1> DEFINE level == nextRetryLevel(classification, attempt, asked)
  <1>0. attempt \in Nat
    BY RetryAssumption DEF WalkInv
  <1>1. CASE level = NoLevel
    <2>1. outcome' = failureReason(classification) /\ UNCHANGED <<attempt, waits>>
      BY <1>1 DEF Settle
    <2>2. outcome' = "EXHAUSTED" => attempt = MAX_ATTEMPTS
      <3>1. outcome' = "EXHAUSTED" => classification = RETRYABLE
        BY <2>1 DEF failureReason, FAILURE, PERMANENT, RETRYABLE
      <3> QED
        BY <1>1, <3>1, NoLevelIsLast DEF WalkInv
    <2> QED
      BY <2>1, <2>2 DEF WalkInv
  <1>2. CASE level # NoLevel
    <2> HIDE DEF level
    <2>1. PICK draw \in {0, JitterSteps - 1} :
             /\ waits' = Append(waits, [after |-> attempt, level |-> level, asked |-> asked,
                                        expiration |-> applyJitter(RETRY_SCHEDULE[level], draw)])
             /\ attempt' = attempt + 1
             /\ UNCHANGED outcome
      BY <1>2 DEF Settle, level
    <2> DEFINE wait == [after |-> attempt, level |-> level, asked |-> asked,
                        expiration |-> applyJitter(RETRY_SCHEDULE[level], draw)]
    <2>2. attempt \in Levels /\ attempt < MAX_ATTEMPTS /\ level \in Levels
      BY <1>0, <1>2, LevelType DEF level
    <2>3. /\ RETRY_SCHEDULE[level] \in Nat /\ RETRY_SCHEDULE[level] % 10 = 0
      BY <2>2, RetryAssumption, DelayAssumption DEF Levels
    <2>4. applyJitter(RETRY_SCHEDULE[level], draw)
              \in (RETRY_SCHEDULE[level] - RETRY_SCHEDULE[level] \div 10) .. RETRY_SCHEDULE[level]
      BY <2>3, JitterBand
    <2>5. wait \in Wait
      BY <2>2, <2>3, <2>4 DEF Wait
    <2>6. LeastEnough(wait)
      BY <1>0, <1>2, <2>5, LevelIsLeastEnough DEF level
    <2>7. InBand(wait)
      BY <2>4 DEF InBand
    <2> HIDE DEF wait
    <2>8. /\ waits' \in Seq(Wait) /\ Len(waits') = Len(waits) + 1
          /\ \A i \in DOMAIN waits' : waits'[i] = IF i = Len(waits) + 1 THEN wait ELSE waits[i]
          /\ \A i \in DOMAIN waits' : i = Len(waits) + 1 \/ i \in DOMAIN waits
      BY <2>1, <2>5 DEF WalkInv, wait
    <2>9. \A i \in DOMAIN waits' : LeastEnough(waits'[i]) /\ InBand(waits'[i])
      BY <2>6, <2>7, <2>8 DEF WalkInv
    <2>10. attempt' \in 1 .. MAX_ATTEMPTS /\ Len(waits') = attempt' - 1
      BY <1>0, <2>1, <2>2, <2>8, RetryAssumption DEF WalkInv
    <2> QED
      BY <2>1, <2>8, <2>9, <2>10 DEF WalkInv
  <1> QED
    BY <1>1, <1>2

\* Every answer keeps the invariant of the ladder walk.
LEMMA WalkStep == WalkInv /\ [LadderNext]_ladder => WalkInv'
  <1> SUFFICES ASSUME WalkInv, [LadderNext]_ladder PROVE WalkInv'
    OBVIOUS
  <1>1. CASE ResolveTarget
    BY <1>1 DEF ResolveTarget, WalkInv
  <1>2. CASE RejectTarget
    <2>1. (IF Verdict.reason = "dns_failure" THEN RETRYABLE ELSE PERMANENT) \in FAILURE
      BY DEF FAILURE
    <2>2. Undefined \in Asked
      BY DEF Asked
    <2> QED
      BY <1>2, <2>1, <2>2, SettleStep DEF RejectTarget, WalkInv
  <1>3. CASE Connect
    BY <1>3 DEF Connect, WalkInv
  <1>4. ASSUME NEW status \in Answers, NEW header \in Headers, NEW bodyRead \in BOOLEAN,
               Answer(status, header, bodyRead)
        PROVE  WalkInv'
    <2> DEFINE result == sendWebhook(status, header, bodyRead)
    <2>1. CASE isSuccess(result.responseStatus)
      BY <1>4, <2>1 DEF Answer, WalkInv
    <2>2. CASE ~ isSuccess(result.responseStatus)
      <3>1. Settle(classifyFailure(result.responseStatus), result.retryAfter)
        BY <1>4, <2>2 DEF Answer
      <3>2. classifyFailure(result.responseStatus) \in FAILURE
        BY DEF classifyFailure, FAILURE
      <3>3. result.retryAfter \in Asked
        BY HeaderIsAsked DEF sendWebhook, Asked
      <3>4. outcome = "walking" /\ target' = NoTarget
        BY <1>4 DEF Answer, WalkInv
      <3> HIDE DEF result
      <3> QED
        BY <3>1, <3>2, <3>3, <3>4, SettleStep
    <2> QED
      BY <2>1, <2>2
  <1>5. CASE Finished
    BY <1>5 DEF Finished, ladder, WalkInv
  <1>6. CASE UNCHANGED ladder
    BY <1>6 DEF ladder, WalkInv
  <1> QED
    BY <1>1, <1>2, <1>3, <1>4, <1>5, <1>6 DEF LadderNext

\* The walk of every delivery satisfies the inductive invariant.
LEMMA WalkInvariant == LadderSpec => []WalkInv
  <1>1. LadderInit => WalkInv
    BY RetryAssumption DEF LadderInit, WalkInv
  <1> QED
    BY <1>1, WalkStep, PTL DEF LadderSpec

\* For every schedule in ascending order and every Retry-After header, a retry
\* waits in the shortest queue that is long enough (selectRetryLevel).
THEOREM LeastWait == LadderSpec => []WaitIsLeastEnough
  <1>1. WalkInv => WaitIsLeastEnough
    BY DEF WalkInv, WaitIsLeastEnough
  <1> QED
    BY <1>1, WalkInvariant, PTL

\* For every schedule with whole tenths, the expiration of a retry lies in the
\* tenth below the TTL of its queue (applyJitter at both ends of the draw).
THEOREM JitterStaysInBand == LadderSpec => []ExpirationInBand
  <1>1. WalkInv => ExpirationInBand
    BY DEF WalkInv, ExpirationInBand, InBand
  <1> QED
    BY <1>1, WalkInvariant, PTL

\* For every schedule and every MAX_ATTEMPTS the cross-field rule of
\* env-schema.js allows, a delivery ends EXHAUSTED only after its last attempt.
THEOREM FullLadder == LadderSpec => []ExhaustedIsFullLadder
  <1>1. WalkInv => ExhaustedIsFullLadder
    BY RetryAssumption DEF WalkInv, ExhaustedIsFullLadder
  <1> QED
    BY <1>1, WalkInvariant, PTL
-----------------------------------------------------------------------------
(* The guard, for every address. *)

\* What classifyIpv4 tests, as one condition.
Special(first, second, third) ==
    \/ first = 0 \/ first = 10 \/ first = 127
    \/ first = 100 /\ second \in 64 .. 127
    \/ first = 169 /\ second = 254
    \/ first = 172 /\ second \in 16 .. 31
    \/ first = 192 /\ second = 0 /\ third \in {0, 2}
    \/ first = 192 /\ second = 168
    \/ first = 198 /\ second \in {18, 19}
    \/ first = 198 /\ second = 51 /\ third = 100
    \/ first = 203 /\ second = 0 /\ third = 113
    \/ first \in 224 .. 239 \/ first >= 240

\* classifyIpv4 answers public exactly where none of its tests holds.
LEMMA ClassifiedPublic ==
    ASSUME NEW quad
    PROVE  classifyIpv4(quad) = PUBLIC <=> ~ Special(quad[1], quad[2], quad[3])
BY ZenonT(60) DEF classifyIpv4, Special, PUBLIC

\* The tests hold exactly inside the special-purpose blocks.
LEMMA BlocksAreSpecial ==
    ASSUME NEW first \in Byte, NEW second \in Byte, NEW third \in Byte, NEW fourth
    PROVE  ReachableQuad(<<first, second, third, fourth>>) <=> ~ Special(first, second, third)
  <1> DEFINE quad == <<first, second, third, fourth>>
             upper == first * 65536 + second * 256 + third
  <1>1. InBlock(quad, <<0, 0, 0, 8>>) <=> first = 0
    <2>1. InBlock(quad, <<0, 0, 0, 8>>) <=> upper \div 65536 = 0
      BY SMTT(10) DEF InBlock, Byte
    <2>2. upper \div 65536 = 0 <=> first = 0
      BY SMTT(10) DEF Byte
    <2> QED
      BY <2>1, <2>2
  <1>2. InBlock(quad, <<10, 0, 0, 8>>) <=> first = 10
    <2>1. InBlock(quad, <<10, 0, 0, 8>>) <=> upper \div 65536 = 10
      BY SMTT(10) DEF InBlock, Byte
    <2>2. upper \div 65536 = 10 <=> first = 10
      BY SMTT(10) DEF Byte
    <2> QED
      BY <2>1, <2>2
  <1>3. InBlock(quad, <<100, 64, 0, 10>>) <=> first = 100 /\ second \in 64 .. 127
    <2>1. InBlock(quad, <<100, 64, 0, 10>>) <=> upper \div 16384 = 401
      BY SMTT(10) DEF InBlock, Byte
    <2>2. upper \div 16384 = 401 <=> first = 100 /\ second \in 64 .. 127
      BY SMTT(10) DEF Byte
    <2> QED
      BY <2>1, <2>2
  <1>4. InBlock(quad, <<127, 0, 0, 8>>) <=> first = 127
    <2>1. InBlock(quad, <<127, 0, 0, 8>>) <=> upper \div 65536 = 127
      BY SMTT(10) DEF InBlock, Byte
    <2>2. upper \div 65536 = 127 <=> first = 127
      BY SMTT(10) DEF Byte
    <2> QED
      BY <2>1, <2>2
  <1>5. InBlock(quad, <<169, 254, 0, 16>>) <=> first = 169 /\ second = 254
    <2>1. InBlock(quad, <<169, 254, 0, 16>>) <=> upper \div 256 = 43518
      BY SMTT(10) DEF InBlock, Byte
    <2>2. upper \div 256 = 43518 <=> first = 169 /\ second = 254
      BY SMTT(10) DEF Byte
    <2> QED
      BY <2>1, <2>2
  <1>6. InBlock(quad, <<172, 16, 0, 12>>) <=> first = 172 /\ second \in 16 .. 31
    <2>1. InBlock(quad, <<172, 16, 0, 12>>) <=> upper \div 4096 = 2753
      BY SMTT(10) DEF InBlock, Byte
    <2>2. upper \div 4096 = 2753 <=> first = 172 /\ second \in 16 .. 31
      BY SMTT(10) DEF Byte
    <2> QED
      BY <2>1, <2>2
  <1>7. InBlock(quad, <<192, 0, 0, 24>>) <=> first = 192 /\ second = 0 /\ third = 0
    <2>1. InBlock(quad, <<192, 0, 0, 24>>) <=> upper \div 1 = 12582912
      BY SMTT(10) DEF InBlock, Byte
    <2>2. upper \div 1 = 12582912 <=> first = 192 /\ second = 0 /\ third = 0
      BY SMTT(10) DEF Byte
    <2> QED
      BY <2>1, <2>2
  <1>8. InBlock(quad, <<192, 0, 2, 24>>) <=> first = 192 /\ second = 0 /\ third = 2
    <2>1. InBlock(quad, <<192, 0, 2, 24>>) <=> upper \div 1 = 12582914
      BY SMTT(10) DEF InBlock, Byte
    <2>2. upper \div 1 = 12582914 <=> first = 192 /\ second = 0 /\ third = 2
      BY SMTT(10) DEF Byte
    <2> QED
      BY <2>1, <2>2
  <1>9. InBlock(quad, <<192, 168, 0, 16>>) <=> first = 192 /\ second = 168
    <2>1. InBlock(quad, <<192, 168, 0, 16>>) <=> upper \div 256 = 49320
      BY SMTT(10) DEF InBlock, Byte
    <2>2. upper \div 256 = 49320 <=> first = 192 /\ second = 168
      BY SMTT(10) DEF Byte
    <2> QED
      BY <2>1, <2>2
  <1>10. InBlock(quad, <<198, 18, 0, 15>>) <=> first = 198 /\ second \in {18, 19}
    <2>1. InBlock(quad, <<198, 18, 0, 15>>) <=> upper \div 512 = 25353
      BY SMTT(10) DEF InBlock, Byte
    <2>2. upper \div 512 = 25353 <=> first = 198 /\ second \in {18, 19}
      BY SMTT(10) DEF Byte
    <2> QED
      BY <2>1, <2>2
  <1>11. InBlock(quad, <<198, 51, 100, 24>>) <=> first = 198 /\ second = 51 /\ third = 100
    <2>1. InBlock(quad, <<198, 51, 100, 24>>) <=> upper \div 1 = 12989284
      BY SMTT(10) DEF InBlock, Byte
    <2>2. upper \div 1 = 12989284 <=> first = 198 /\ second = 51 /\ third = 100
      BY SMTT(10) DEF Byte
    <2> QED
      BY <2>1, <2>2
  <1>12. InBlock(quad, <<203, 0, 113, 24>>) <=> first = 203 /\ second = 0 /\ third = 113
    <2>1. InBlock(quad, <<203, 0, 113, 24>>) <=> upper \div 1 = 13303921
      BY SMTT(10) DEF InBlock, Byte
    <2>2. upper \div 1 = 13303921 <=> first = 203 /\ second = 0 /\ third = 113
      BY SMTT(10) DEF Byte
    <2> QED
      BY <2>1, <2>2
  <1>13. InBlock(quad, <<224, 0, 0, 4>>) <=> first \in 224 .. 239
    <2>1. InBlock(quad, <<224, 0, 0, 4>>) <=> upper \div 1048576 = 14
      BY SMTT(10) DEF InBlock, Byte
    <2>2. upper \div 1048576 = 14 <=> first \in 224 .. 239
      BY SMTT(10) DEF Byte
    <2> QED
      BY <2>1, <2>2
  <1>14. InBlock(quad, <<240, 0, 0, 4>>) <=> first >= 240
    <2>1. InBlock(quad, <<240, 0, 0, 4>>) <=> upper \div 1048576 = 15
      BY SMTT(10) DEF InBlock, Byte
    <2>2. upper \div 1048576 = 15 <=> first >= 240
      BY SMTT(10) DEF Byte
    <2> QED
      BY <2>1, <2>2
  <1> HIDE DEF quad
  <1>15. ReachableQuad(quad) <=>
           /\ ~ InBlock(quad, <<0, 0, 0, 8>>) /\ ~ InBlock(quad, <<10, 0, 0, 8>>)
           /\ ~ InBlock(quad, <<100, 64, 0, 10>>) /\ ~ InBlock(quad, <<127, 0, 0, 8>>)
           /\ ~ InBlock(quad, <<169, 254, 0, 16>>) /\ ~ InBlock(quad, <<172, 16, 0, 12>>)
           /\ ~ InBlock(quad, <<192, 0, 0, 24>>) /\ ~ InBlock(quad, <<192, 0, 2, 24>>)
           /\ ~ InBlock(quad, <<192, 168, 0, 16>>) /\ ~ InBlock(quad, <<198, 18, 0, 15>>)
           /\ ~ InBlock(quad, <<198, 51, 100, 24>>) /\ ~ InBlock(quad, <<203, 0, 113, 24>>)
           /\ ~ InBlock(quad, <<224, 0, 0, 4>>) /\ ~ InBlock(quad, <<240, 0, 0, 4>>)
    BY SMTT(20) DEF ReachableQuad, SpecialBlocks
  <1>16. third \in {0, 2} <=> third = 0 \/ third = 2
    OBVIOUS
  <1>17. ReachableQuad(quad) <=> ~ Special(first, second, third)
    BY <1>1, <1>2, <1>3, <1>4, <1>5, <1>6, <1>7, <1>8, <1>9, <1>10, <1>11, <1>12, <1>13, <1>14, <1>15, <1>16 DEF Special
  <1> QED
    BY <1>17 DEF quad

\* expandIpv4Suffix: an expanded part has the width of the part and its groups.
LEMMA Expanded ==
    ASSUME NEW part, IsPart(part), NEW from \in Nat, NEW groups, Spells(part, groups, from)
    PROVE  LET expanded == expandIpv4Suffix(part)
           IN  /\ expanded \in Seq(Seq(Nat)) /\ Len(expanded) = Width(part)
               /\ \A i \in 1 .. Width(part) : expanded[i][1] = groups[from + i]
  <1>0. part \in Seq(Seq(Nat))
    BY DEF IsPart
  <1>1. PICK n \in Nat : n = Len(part) /\ DOMAIN part = 1 .. n
    BY <1>0
  <1>2. \A i \in 1 .. n : part[i] \in Seq(Nat)
    BY <1>0, <1>1
  <1>3. part = << >> <=> n = 0
    BY <1>0, <1>1
  <1>4. \A i \in 1 .. n : Len(part[i]) = 4 => i = n /\ IsQuad(part[i])
    <2> SUFFICES ASSUME NEW i \in 1 .. n, Len(part[i]) = 4, NEW k \in Group, part[i] = << k >>
                 PROVE  FALSE
      BY <1>1 DEF IsPart
    <2>1. Len(part[i]) = 1
      OBVIOUS
    <2> QED
      BY <2>1
  <1>5. \A i \in 1 .. n : Len(part[i]) # 4 => part[i][1] = groups[from + i]
    BY <1>1 DEF Spells
  <1>6. CASE n = 0 \/ Len(part[n]) # 4
    <2>1. expandIpv4Suffix(part) = part /\ Width(part) = n
      <3>1. n + 0 = n
        OBVIOUS
      <3> QED
        BY <1>1, <1>3, <1>6, <3>1, Zenon DEF expandIpv4Suffix, Width
    <2>2. \A i \in 1 .. n : Len(part[i]) # 4
      <3>1. ASSUME NEW i \in 1 .. n, i = n PROVE Len(part[i]) # 4
        <4>1. n # 0
          BY <3>1
        <4> QED
          BY <1>6, <3>1, <4>1
      <3> QED
        BY <1>4, <3>1, Zenon
    <2> QED
      BY <1>0, <1>1, <1>5, <2>1, <2>2, Zenon
  <1>7. CASE n # 0 /\ Len(part[n]) = 4
    <2>1. n \in 1 .. n
      BY <1>7
    <2>2. PICK a \in Byte, b \in Byte, c \in Byte, d \in Byte : part[n] = <<a, b, c, d>>
      <3>1. IsQuad(part[n])
        BY <1>4, <1>7, <2>1, Zenon
      <3> QED
        BY <3>1 DEF IsQuad
    <2> DEFINE front == SubSeq(part, 1, n - 1)
               pair == << <<a * 256 + b>>, <<c * 256 + d>> >>
    <2>3. expandIpv4Suffix(part) = front \o pair /\ Width(part) = n + 1
      <3>1. /\ part[n][1] = a /\ part[n][2] = b /\ part[n][3] = c /\ part[n][4] = d
        BY <2>2
      <3> QED
        BY <1>1, <1>3, <1>7, <3>1, Zenon DEF expandIpv4Suffix, Width
    <2>4. pair \in Seq(Seq(Nat)) /\ Len(pair) = 2 /\ pair[1] = <<a * 256 + b>> /\ pair[2] = <<c * 256 + d>>
      <3>1. a * 256 + b \in Nat /\ c * 256 + d \in Nat
        BY DEF Byte
      <3> QED
        BY <3>1
    <2>5. /\ front \in Seq(Seq(Nat)) /\ Len(front) = n - 1
          /\ \A i \in 1 .. (n - 1) : front[i] = part[i]
      <3> DEFINE m == n - 1
      <3>1. m \in Nat /\ \A i \in 1 .. m : i \in 1 .. n
        BY <1>7
      <3>2. \A i \in 1 .. m : part[i] \in Seq(Nat)
        BY <1>2, <3>1, Zenon
      <3> HIDE DEF m
      <3>3. /\ SubSeq(part, 1, m) \in Seq(Seq(Nat))
            /\ Len(SubSeq(part, 1, m)) = IF 1 <= m THEN m - 1 + 1 ELSE 0
            /\ \A i \in 1 .. m - 1 + 1 : SubSeq(part, 1, m)[i] = part[1 + i - 1]
        <4>1. 1 \in Int /\ m \in Int
          BY <3>1
        <4> QED
          BY <3>2, <4>1, SubSeqProperties
      <3>4. m - 1 + 1 = m /\ (IF 1 <= m THEN m - 1 + 1 ELSE 0) = m
        BY <3>1
      <3>5. \A i \in 1 .. m : 1 + i - 1 = i
        BY <3>1
      <3>6. \A i \in 1 .. m : SubSeq(part, 1, m)[i] = part[i]
        BY <3>3, <3>4, <3>5, Zenon
      <3> QED
        BY <3>3, <3>4, <3>6, Zenon DEF m
    <2>6. groups[from + n] = a * 256 + b /\ groups[from + n + 1] = c * 256 + d
      <3>1. n \in DOMAIN part
        BY <1>1, <2>1
      <3>2. LET item == part[n]
            IN  /\ groups[from + n] = item[1] * 256 + item[2]
                /\ groups[from + n + 1] = item[3] * 256 + item[4]
        BY <1>7, <3>1, Zenon DEF Spells
      <3> QED
        BY <2>2, <3>2
    <2> HIDE DEF front, pair
    <2>7. /\ front \o pair \in Seq(Seq(Nat)) /\ Len(front \o pair) = n + 1
          /\ \A i \in 1 .. (n + 1) :
                (front \o pair)[i] = IF i <= n - 1 THEN front[i] ELSE pair[i - (n - 1)]
      <3>1. /\ front \o pair \in Seq(Seq(Nat))
            /\ Len(front \o pair) = Len(front) + Len(pair)
            /\ \A i \in 1 .. Len(front) + Len(pair) : (front \o pair)[i] =
                       IF i <= Len(front) THEN front[i] ELSE pair[i - Len(front)]
        BY <2>4, <2>5, ConcatProperties, Zenon
      <3>2. n - 1 + 2 = n + 1
        OBVIOUS
      <3> QED
        BY <2>4, <2>5, <3>1, <3>2, Zenon
    <2>8. ASSUME NEW i \in 1 .. (n + 1) PROVE (front \o pair)[i][1] = groups[from + i]
      <3>1. CASE i <= n - 1
        <4>1. i \in 1 .. (n - 1) /\ i \in 1 .. n /\ i # n
          BY <3>1
        <4>2. (front \o pair)[i] = part[i]
          BY <2>5, <2>7, <3>1, <4>1, Zenon
        <4> QED
          BY <1>4, <1>5, <4>1, <4>2, Zenon
      <3>2. CASE i = n
        <4>1. ~ (i <= n - 1) /\ i - (n - 1) = 1
          BY <3>2
        <4>2. (front \o pair)[i] = << a * 256 + b >>
          BY <2>4, <2>7, <4>1, Zenon
        <4> QED
          BY <2>6, <3>2, <4>2
      <3>3. CASE i = n + 1
        <4>1. ~ (i <= n - 1) /\ i - (n - 1) = 2 /\ from + i = from + n + 1
          BY <3>3
        <4>2. (front \o pair)[i] = << c * 256 + d >>
          BY <2>4, <2>7, <4>1, Zenon
        <4> QED
          BY <2>6, <4>1, <4>2
      <3>4. i <= n - 1 \/ i = n \/ i = n + 1
        OBVIOUS
      <3> QED
        BY <3>1, <3>2, <3>3, <3>4
    <2> QED
      BY <2>3, <2>7, <2>8, Zenon
  <1> QED
    BY <1>6, <1>7

\* The gap of "::" filled with zeros, as ipv6ToBytes fills it.
Joined(leading, gap, trailing) == leading \o [i \in 1 .. gap |-> <<0>>] \o trailing

\* Filling the gap of :: gives eight groups, whose places are known on both sides of it.
LEMMA JoinedGroups ==
    ASSUME NEW leading \in Seq(Seq(Nat)), NEW trailing \in Seq(Seq(Nat)), NEW gap \in Nat,
           Len(leading) + gap = 8 - Len(trailing)
    PROVE  /\ Len(Joined(leading, gap, trailing)) = 8
           /\ \A i \in 1 .. 8 : Joined(leading, gap, trailing)[i] =
                   IF i <= Len(leading) THEN leading[i]
                   ELSE IF i <= 8 - Len(trailing) THEN <<0>>
                   ELSE trailing[i - (8 - Len(trailing))]
  <1>0. PICK h \in Nat, t \in Nat : h = Len(leading) /\ t = Len(trailing) /\ h + gap = 8 - t
    OBVIOUS
  <1> DEFINE zeros == [i \in 1 .. gap |-> <<0>>]
             start == leading \o zeros
  <1>1. /\ zeros \in Seq(Seq(Nat)) /\ Len(zeros) = gap
        /\ \A i \in 1 .. gap : zeros[i] = <<0>>
    <2>1. zeros \in [1 .. gap -> Seq(Nat)]
      <3>1. <<0>> \in Seq(Nat)
        OBVIOUS
      <3> QED
        BY <3>1, Zenon
    <2> HIDE DEF zeros
    <2>2. zeros \in Seq(Seq(Nat))
      <3>1. zeros \in UNION {[1 .. n -> Seq(Nat)] : n \in Nat}
        BY <2>1, Zenon
      <3> QED
        BY <3>1, SeqDef, Zenon
    <2>3. DOMAIN zeros = 1 .. gap /\ DOMAIN zeros = 1 .. Len(zeros) /\ Len(zeros) \in Nat
      BY <2>1, <2>2, LenProperties, Zenon
    <2>4. Len(zeros) = gap
      BY <2>3
    <2> QED
      BY <2>2, <2>4 DEF zeros
  <1> HIDE DEF zeros
  <1>2. /\ start \in Seq(Seq(Nat))
        /\ Len(start) = h + gap
        /\ \A i \in 1 .. (h + gap) : start[i] = IF i <= h THEN leading[i] ELSE zeros[i - h]
    BY <1>0, <1>1, ConcatProperties, Zenon
  <1> HIDE DEF start
  <1>3. (h + gap) + t = 8
    BY <1>0
  <1>4. /\ Len(start \o trailing) = (h + gap) + t
        /\ \A i \in 1 .. ((h + gap) + t) :
              (start \o trailing)[i] = IF i <= h + gap THEN start[i] ELSE trailing[i - (h + gap)]
    <2>1. /\ Len(start \o trailing) = Len(start) + Len(trailing)
          /\ \A i \in 1 .. (Len(start) + Len(trailing)) :
              (start \o trailing)[i] = IF i <= Len(start) THEN start[i] ELSE trailing[i - Len(start)]
      BY <1>2, ConcatProperties, Zenon
    <2> QED
      BY <1>0, <1>2, <2>1, Zenon
  <1>5. /\ Len(start \o trailing) = 8
        /\ \A i \in 1 .. 8 :
              (start \o trailing)[i] = IF i <= 8 - t THEN start[i] ELSE trailing[i - (8 - t)]
    BY <1>0, <1>3, <1>4, Zenon
  <1>6. ASSUME NEW i \in 1 .. 8
        PROVE  (start \o trailing)[i] = IF i <= h THEN leading[i]
                                        ELSE IF i <= 8 - t THEN <<0>>
                                        ELSE trailing[i - (8 - t)]
    <2>1. CASE i <= 8 - t
      <3>1. i \in 1 .. (h + gap) /\ (~ (i <= h) => i - h \in 1 .. gap)
        BY <1>0, <2>1
      <3>2. (start \o trailing)[i] = start[i]
        BY <1>5, <2>1, Zenon
      <3>3. start[i] = IF i <= h THEN leading[i] ELSE zeros[i - h]
        BY <1>2, <3>1, Zenon
      <3>4. ~ (i <= h) => zeros[i - h] = <<0>>
        BY <1>1, <3>1, Zenon
      <3> QED
        BY <2>1, <3>2, <3>3, <3>4, Zenon
    <2>2. CASE ~ (i <= 8 - t)
      <3>1. ~ (i <= h)
        BY <1>0, <2>2
      <3> QED
        BY <1>5, <2>2, <3>1, Zenon
    <2> QED
      BY <2>1, <2>2
  <1>7. Joined(leading, gap, trailing) = start \o trailing
    BY DEF Joined, start, zeros
  <1> QED
    BY <1>0, <1>5, <1>6, <1>7, Zenon

\* ipv6ToBytes: the bytes of a text are those of the groups it means.
LEMMA ParsedBytes ==
    ASSUME NEW address, NEW groups \in [1 .. 8 -> Group], Means(address, groups)
    PROVE  ipv6ToBytes(address) =
             << [i \in 0 .. 15 |-> IF i % 2 = 0 THEN groups[i \div 2 + 1] \div 256
                                                ELSE groups[i \div 2 + 1] % 256] >>
  <1> DEFINE head == address.head  tail == address.tail[1]
             h == Width(head)  t == Width(tail)
             leading  == expandIpv4Suffix(head)
             trailing == IF address.tail = Null THEN << >> ELSE expandIpv4Suffix(tail)
             gap      == 8 - Len(leading) - Len(trailing)
             all      == IF address.tail = Null THEN leading
                         ELSE leading \o [i \in 1 .. gap |-> <<0>>] \o trailing
  <1>1. ipv6ToBytes(address) =
          IF gap < 0 \/ Len(all) # 8 \/ \E i \in 1 .. 8 : all[i][1] \notin Group
          THEN Null
          ELSE << [i \in 0 .. 15 |-> LET group == all[i \div 2 + 1][1]
                                     IN  IF i % 2 = 0 THEN group \div 256 ELSE group % 256] >>
    BY DEF ipv6ToBytes
  <1>2. /\ leading \in Seq(Seq(Nat)) /\ Len(leading) = h /\ h \in Nat
        /\ \A i \in 1 .. h : leading[i][1] = groups[i]
    <2> HIDE DEF head
    <2>1. IsPart(head) /\ Spells(head, groups, 0) /\ 0 \in Nat
      BY DEF Means, head
    <2>2. /\ leading \in Seq(Seq(Nat)) /\ Len(leading) = h
          /\ \A i \in 1 .. h : leading[i][1] = groups[0 + i]
      BY <2>1, Expanded, Zenon
    <2> HIDE DEF leading, h
    <2>3. h \in Nat
      BY <2>2
    <2>4. \A i \in 1 .. h : 0 + i = i
      BY <2>3
    <2> QED
      BY <2>2, <2>3, <2>4, Zenon
  <1> HIDE DEF h
  <1>3. ~ (gap < 0) /\ Len(all) = 8 /\ \A i \in 1 .. 8 : all[i][1] = groups[i]
    <2>1. CASE address.tail = Null
      <3>1. h = 8
        BY <2>1 DEF Means, h
      <3>2. all = leading
        BY <2>1, Zenon
      <3>3. gap = 8 - 8 - 0
        <4>1. trailing = << >> /\ Len(<< >>) = 0
          BY <2>1
        <4> HIDE DEF leading, trailing
        <4> QED
          BY <1>2, <3>1, <4>1, Zenon
      <3> HIDE DEF leading, trailing, all, gap
      <3>4. ~ (gap < 0)
        BY <3>3
      <3> QED
        BY <1>2, <3>1, <3>2, <3>4, Zenon
    <2>2. CASE address.tail # Null
      <3>1. /\ IsPart(tail) /\ h + t <= 8
            /\ Spells(tail, groups, 8 - t)
            /\ \A i \in (h + 1) .. (8 - t) : groups[i] = 0
        BY <2>2, Zenon DEF Means, h
      <3>2. trailing = expandIpv4Suffix(tail) /\ all = leading \o [i \in 1 .. gap |-> <<0>>] \o trailing
        BY <2>2, Zenon
      <3>3. t \in Nat
        <4> HIDE DEF tail
        <4>1. tail \in Seq(Seq(Nat))
          BY <3>1, Zenon DEF IsPart
        <4>2. Len(tail) \in Nat
          BY <4>1, LenProperties, Zenon
        <4> QED
          BY <4>2 DEF Width
      <3> HIDE DEF t, tail, leading, all, trailing
      <3>4. 8 - t \in Nat
        BY <1>2, <3>1, <3>3
      <3>5. /\ trailing \in Seq(Seq(Nat)) /\ Len(trailing) = t
            /\ \A i \in 1 .. t : trailing[i][1] = groups[(8 - t) + i]
        BY <3>1, <3>2, <3>4, Expanded, Zenon DEF t
      <3>6. gap \in Nat /\ ~ (gap < 0) /\ h + gap = 8 - t
        <4>1. gap = 8 - h - t
          BY <1>2, <3>5, Zenon
        <4> HIDE DEF gap
        <4> QED
          BY <4>1, <1>2, <3>1, <3>3
      <3> HIDE DEF gap
      <3>7. /\ Len(all) = 8
            /\ \A i \in 1 .. 8 : all[i] = IF i <= h THEN leading[i]
                                          ELSE IF i <= 8 - t THEN <<0>>
                                          ELSE trailing[i - (8 - t)]
        <4>1. /\ leading \in Seq(Seq(Nat)) /\ trailing \in Seq(Seq(Nat)) /\ gap \in Nat
              /\ Len(leading) + gap = 8 - Len(trailing)
          BY <1>2, <3>5, <3>6, Zenon
        <4>2. all = Joined(leading, gap, trailing)
          BY <3>2, Zenon DEF Joined
        <4>3. /\ Len(all) = 8
              /\ \A i \in 1 .. 8 : all[i] =
                     IF i <= Len(leading) THEN leading[i]
                     ELSE IF i <= 8 - Len(trailing) THEN <<0>>
                     ELSE trailing[i - (8 - Len(trailing))]
          BY <4>1, <4>2, JoinedGroups
        <4> QED
          BY <1>2, <3>5, <4>3, Zenon
      <3>8. ASSUME NEW i \in 1 .. 8 PROVE all[i][1] = groups[i]
        <4>1. CASE i <= h
          <5>1. i \in 1 .. h
            BY <1>2, <4>1
          <5> QED
            BY <1>2, <3>7, <4>1, <5>1, Zenon
        <4>2. CASE ~ (i <= h) /\ i <= 8 - t
          <5>1. i \in (h + 1) .. (8 - t)
            BY <1>2, <3>3, <4>2
          <5>2. groups[i] = 0
            BY <3>1, <5>1, Zenon
          <5>3. all[i] = << 0 >>
            BY <3>7, <4>2, Zenon
          <5>4. << 0 >>[1] = 0
            OBVIOUS
          <5> QED
            BY <5>2, <5>3, <5>4, Zenon
        <4>3. CASE ~ (i <= h) /\ ~ (i <= 8 - t)
          <5>1. i - (8 - t) \in 1 .. t /\ (8 - t) + (i - (8 - t)) = i
            BY <3>3, <4>3
          <5> QED
            BY <3>5, <3>7, <4>3, <5>1, Zenon
        <4> QED
          BY <4>1, <4>2, <4>3, Zenon
      <3> QED
        BY <3>6, <3>7, <3>8, Zenon
    <2> QED
      BY <2>1, <2>2, Zenon
  <1> HIDE DEF all, gap
  <1>4. \A i \in 1 .. 8 : all[i][1] \in Group
    <2>1. \A i \in 1 .. 8 : groups[i] \in Group
      BY Zenon
    <2> QED
      BY <1>3, <2>1, Zenon
  <1>5. \A i \in 0 .. 15 : i \div 2 + 1 \in 1 .. 8
    OBVIOUS
  <1>6. [i \in 0 .. 15 |-> LET group == all[i \div 2 + 1][1]
                           IN  IF i % 2 = 0 THEN group \div 256 ELSE group % 256]
        = [i \in 0 .. 15 |-> IF i % 2 = 0 THEN groups[i \div 2 + 1] \div 256
                                          ELSE groups[i \div 2 + 1] % 256]
    BY <1>3, <1>5, Zenon
  <1>7. ipv6ToBytes(address) =
          << [i \in 0 .. 15 |-> LET group == all[i \div 2 + 1][1]
                                IN  IF i % 2 = 0 THEN group \div 256 ELSE group % 256] >>
    BY <1>1, <1>3, <1>4, Zenon
  <1> QED
    BY <1>6, <1>7, Zenon

\* The tests classifyIpv6 makes on two bytes, as tests of the group they make up.
LEMMA ByteTests ==
    ASSUME NEW a \in Byte, NEW b \in Byte, NEW g, g = 256 * a + b
    PROVE  /\ g = 0 <=> a = 0 /\ b = 0
           /\ g = 1 <=> a = 0 /\ b = 1
           /\ g = 100 <=> a = 0 /\ b = 100
           /\ g = 65435 <=> a = 255 /\ b = 155
           /\ g = 65535 <=> a = 255 /\ b = 255
           /\ g \in 64512 .. 65023 <=> a \div 2 = 126
           /\ g \in 65152 .. 65215 <=> a = 254 /\ b \div 64 = 2
           /\ ~ (g < 65280) <=> a = 255
BY DEF Byte

\* A byte pair is what the group is divided into.
LEMMA SplitGroup ==
    ASSUME NEW g \in Group
    PROVE  /\ g \div 256 \in Byte /\ g % 256 \in Byte
           /\ g = 256 * (g \div 256) + (g % 256)
  <1>1. g \in Nat /\ g <= 65535
    BY DEF Group
  <1>2. g \div 256 \in Byte
    BY <1>1 DEF Byte
  <1>3. g % 256 \in Byte
    BY <1>1 DEF Byte
  <1>4. g = 256 * (g \div 256) + (g % 256)
    BY <1>1
  <1> QED
    BY <1>2, <1>3, <1>4

\* The bytes of eight groups.
LEMMA BytesOfGroups ==
    ASSUME NEW groups \in [1 .. 8 -> Group], NEW bytes,
           bytes = [i \in 0 .. 15 |-> IF i % 2 = 0 THEN groups[i \div 2 + 1] \div 256
                                                   ELSE groups[i \div 2 + 1] % 256]
    PROVE  /\ \A k \in 0 .. 7 : /\ bytes[2 * k] = groups[k + 1] \div 256
                                /\ bytes[2 * k + 1] = groups[k + 1] % 256
           /\ \A i \in 0 .. 15 : bytes[i] \in Byte
           /\ \A k \in 1 .. 8 : groups[k] = 256 * bytes[2 * k - 2] + bytes[2 * k - 1]
  <1>1. ASSUME NEW k \in 0 .. 7
        PROVE  bytes[2 * k] = groups[k + 1] \div 256 /\ bytes[2 * k + 1] = groups[k + 1] % 256
    <2>1. /\ 2 * k \in 0 .. 15 /\ (2 * k) % 2 = 0 /\ (2 * k) \div 2 + 1 = k + 1
          /\ 2 * k + 1 \in 0 .. 15 /\ (2 * k + 1) % 2 # 0 /\ (2 * k + 1) \div 2 + 1 = k + 1
      OBVIOUS
    <2> QED
      BY <2>1, Zenon
  <1>2. \A k \in 0 .. 7 : k + 1 \in 1 .. 8
    OBVIOUS
  <1>3. ASSUME NEW k \in 0 .. 7
        PROVE  /\ bytes[2 * k] \in Byte /\ bytes[2 * k + 1] \in Byte
               /\ groups[k + 1] = 256 * bytes[2 * k] + bytes[2 * k + 1]
    <2>1. groups[k + 1] \in Group
      BY <1>2, Zenon
    <2> DEFINE g == groups[k + 1]
    <2> HIDE DEF g
    <2>2. g \div 256 \in Byte /\ g % 256 \in Byte /\ g = 256 * (g \div 256) + (g % 256)
      BY <2>1, SplitGroup, Zenon DEF g
    <2>3. bytes[2 * k] = g \div 256 /\ bytes[2 * k + 1] = g % 256
      BY <1>1, Zenon DEF g
    <2>4. g = 256 * bytes[2 * k] + bytes[2 * k + 1]
      BY <2>2, <2>3, Zenon
    <2> QED
      BY <2>2, <2>3, <2>4, Zenon DEF g
  <1>4. ASSUME NEW i \in 0 .. 15 PROVE bytes[i] \in Byte
    <2>1. PICK k \in 0 .. 7 : i = 2 * k \/ i = 2 * k + 1
      <3>1. i \div 2 \in 0 .. 7 /\ (i = 2 * (i \div 2) \/ i = 2 * (i \div 2) + 1)
        OBVIOUS
      <3> QED
        BY <3>1, Zenon
    <2>2. bytes[2 * k] \in Byte /\ bytes[2 * k + 1] \in Byte
      BY <1>3
    <2>3. CASE i = 2 * k
      BY <2>2, <2>3, Zenon
    <2>4. CASE i = 2 * k + 1
      BY <2>2, <2>4, Zenon
    <2> QED
      BY <2>1, <2>3, <2>4
  <1>5. ASSUME NEW k \in 1 .. 8 PROVE groups[k] = 256 * bytes[2 * k - 2] + bytes[2 * k - 1]
    <2>1. k - 1 \in 0 .. 7 /\ k - 1 + 1 = k /\ 2 * (k - 1) = 2 * k - 2 /\ 2 * (k - 1) + 1 = 2 * k - 1
      OBVIOUS
    <2>2. groups[k - 1 + 1] = 256 * bytes[2 * (k - 1)] + bytes[2 * (k - 1) + 1]
      <3> DEFINE j == k - 1
      <3>1. j \in 0 .. 7
        BY <2>1
      <3> HIDE DEF j
      <3>2. groups[j + 1] = 256 * bytes[2 * j] + bytes[2 * j + 1]
        BY <1>3, <3>1, Zenon
      <3> QED
        BY <3>2, Zenon DEF j
    <2> QED
      BY <2>1, <2>2, Zenon
  <1> QED
    BY <1>1, <1>4, <1>5, Zenon

\* classifyIpv6 answers public exactly outside the special blocks and the blocks that
\* embed a special IPv4 address.
LEMMA ClassifiedGroups ==
    ASSUME NEW address, NEW groups \in [1 .. 8 -> Group], Means(address, groups)
    PROVE  classifyIpv6(address) = PUBLIC <=> ReachableGroups(groups)
  <1>0. PICK bytes : bytes = [i \in 0 .. 15 |-> IF i % 2 = 0 THEN groups[i \div 2 + 1] \div 256
                                                              ELSE groups[i \div 2 + 1] % 256]
    OBVIOUS
  <1>1. ipv6ToBytes(address) = << bytes >>
    BY <1>0, ParsedBytes
  <1>2. /\ \A k \in 0 .. 7 : /\ bytes[2 * k] = groups[k + 1] \div 256
                             /\ bytes[2 * k + 1] = groups[k + 1] % 256
        /\ \A i \in 0 .. 15 : bytes[i] \in Byte
        /\ \A k \in 1 .. 8 : groups[k] = 256 * bytes[2 * k - 2] + bytes[2 * k - 1]
    BY <1>0, BytesOfGroups
  <1>3. /\ groups[1] = 256 * bytes[0] + bytes[1] /\ groups[2] = 256 * bytes[2] + bytes[3]
        /\ groups[3] = 256 * bytes[4] + bytes[5] /\ groups[4] = 256 * bytes[6] + bytes[7]
        /\ groups[5] = 256 * bytes[8] + bytes[9] /\ groups[6] = 256 * bytes[10] + bytes[11]
    BY <1>2
  <1>4. /\ groups[7] \div 256 = bytes[12] /\ groups[7] % 256 = bytes[13]
        /\ groups[8] \div 256 = bytes[14] /\ groups[8] % 256 = bytes[15]
    BY <1>2
  <1>5. /\ bytes[0] \in Byte /\ bytes[1] \in Byte /\ bytes[2] \in Byte /\ bytes[3] \in Byte
        /\ bytes[4] \in Byte /\ bytes[5] \in Byte /\ bytes[6] \in Byte /\ bytes[7] \in Byte
        /\ bytes[8] \in Byte /\ bytes[9] \in Byte /\ bytes[10] \in Byte /\ bytes[11] \in Byte
        /\ bytes[12] \in Byte /\ bytes[13] \in Byte /\ bytes[14] \in Byte /\ bytes[15] \in Byte
    BY <1>2
  <1> DEFINE quad == <<bytes[12], bytes[13], bytes[14], bytes[15]>>
  <1>6. /\ classifyIpv4(quad) = PUBLIC <=> ReachableQuad(quad)
        /\ bytes[12] = 0 => ~ ReachableQuad(quad)
    <2>1. ReachableQuad(quad) <=> ~ Special(bytes[12], bytes[13], bytes[14])
      BY <1>5, BlocksAreSpecial, Zenon
    <2>2. classifyIpv4(quad) = PUBLIC <=> ~ Special(quad[1], quad[2], quad[3])
      BY ClassifiedPublic, Zenon
    <2>3. quad[1] = bytes[12] /\ quad[2] = bytes[13] /\ quad[3] = bytes[14]
      OBVIOUS
    <2>4. bytes[12] = 0 => Special(bytes[12], bytes[13], bytes[14])
      BY Zenon DEF Special
    <2> HIDE DEF quad
    <2> QED
      BY <2>1, <2>2, <2>3, <2>4, Zenon
  <1> HIDE DEF quad
  <1> DEFINE low(b) == isZeroRange(bytes, 0, 10) /\ bytes[10] = b /\ bytes[11] = b
             nat64  == /\ bytes[0] = 0 /\ bytes[1] = 100 /\ bytes[2] = 255 /\ bytes[3] = 155
                       /\ isZeroRange(bytes, 4, 12) \/ (bytes[4] = 0 /\ bytes[5] = 1)
             local  == bytes[0] = 254 /\ bytes[1] \div 64 = 2
             unique == bytes[0] \div 2 = 126
             multi  == bytes[0] = 255
             zeros(n) == \A i \in 1 .. n : groups[i] = 0
             translated == groups[1] = 100 /\ groups[2] = 65435
             between == \A i \in 3 .. 6 : groups[i] = 0
  <1>7. /\ groups[1] = 0 <=> bytes[0] = 0 /\ bytes[1] = 0
        /\ groups[2] = 0 <=> bytes[2] = 0 /\ bytes[3] = 0
        /\ groups[3] = 0 <=> bytes[4] = 0 /\ bytes[5] = 0
        /\ groups[4] = 0 <=> bytes[6] = 0 /\ bytes[7] = 0
        /\ groups[5] = 0 <=> bytes[8] = 0 /\ bytes[9] = 0
        /\ groups[6] = 0 <=> bytes[10] = 0 /\ bytes[11] = 0
        /\ groups[6] = 65535 <=> bytes[10] = 255 /\ bytes[11] = 255
        /\ groups[1] = 100 <=> bytes[0] = 0 /\ bytes[1] = 100
        /\ groups[2] = 65435 <=> bytes[2] = 255 /\ bytes[3] = 155
        /\ groups[3] = 1 <=> bytes[4] = 0 /\ bytes[5] = 1
        /\ groups[1] \in 64512 .. 65023 <=> bytes[0] \div 2 = 126
        /\ groups[1] \in 65152 .. 65215 <=> bytes[0] = 254 /\ bytes[1] \div 64 = 2
        /\ ~ (groups[1] < 65280) <=> bytes[0] = 255
    <2>1. /\ groups[1] = 0 <=> bytes[0] = 0 /\ bytes[1] = 0
          /\ groups[1] = 100 <=> bytes[0] = 0 /\ bytes[1] = 100
          /\ groups[1] \in 64512 .. 65023 <=> bytes[0] \div 2 = 126
          /\ groups[1] \in 65152 .. 65215 <=> bytes[0] = 254 /\ bytes[1] \div 64 = 2
          /\ ~ (groups[1] < 65280) <=> bytes[0] = 255
      BY <1>3, <1>5, ByteTests
    <2>2. /\ groups[2] = 0 <=> bytes[2] = 0 /\ bytes[3] = 0
          /\ groups[2] = 65435 <=> bytes[2] = 255 /\ bytes[3] = 155
      BY <1>3, <1>5, ByteTests
    <2>3. /\ groups[3] = 0 <=> bytes[4] = 0 /\ bytes[5] = 0
          /\ groups[3] = 1 <=> bytes[4] = 0 /\ bytes[5] = 1
      BY <1>3, <1>5, ByteTests
    <2>4. groups[4] = 0 <=> bytes[6] = 0 /\ bytes[7] = 0
      BY <1>3, <1>5, ByteTests
    <2>5. groups[5] = 0 <=> bytes[8] = 0 /\ bytes[9] = 0
      BY <1>3, <1>5, ByteTests
    <2>6. /\ groups[6] = 0 <=> bytes[10] = 0 /\ bytes[11] = 0
          /\ groups[6] = 65535 <=> bytes[10] = 255 /\ bytes[11] = 255
      BY <1>3, <1>5, ByteTests
    <2> QED
      BY <2>1, <2>2, <2>3, <2>4, <2>5, <2>6
  <1>8. /\ isZeroRange(bytes, 0, 10) <=>
              /\ bytes[0] = 0 /\ bytes[1] = 0 /\ bytes[2] = 0 /\ bytes[3] = 0 /\ bytes[4] = 0
              /\ bytes[5] = 0 /\ bytes[6] = 0 /\ bytes[7] = 0 /\ bytes[8] = 0 /\ bytes[9] = 0
        /\ isZeroRange(bytes, 4, 12) <=>
              /\ bytes[4] = 0 /\ bytes[5] = 0 /\ bytes[6] = 0 /\ bytes[7] = 0
              /\ bytes[8] = 0 /\ bytes[9] = 0 /\ bytes[10] = 0 /\ bytes[11] = 0
        /\ isZeroRange(bytes, 12, 16) \/ isZeroRange(bytes, 12, 15) => bytes[12] = 0
    <2>1. 0 .. (10 - 1) = {0, 1, 2, 3, 4, 5, 6, 7, 8, 9}
      OBVIOUS
    <2>2. 4 .. (12 - 1) = {4, 5, 6, 7, 8, 9, 10, 11}
      OBVIOUS
    <2>3. 12 \in 12 .. (16 - 1) /\ 12 \in 12 .. (15 - 1)
      OBVIOUS
    <2>4. isZeroRange(bytes, 0, 10) <=>
              /\ bytes[0] = 0 /\ bytes[1] = 0 /\ bytes[2] = 0 /\ bytes[3] = 0 /\ bytes[4] = 0
              /\ bytes[5] = 0 /\ bytes[6] = 0 /\ bytes[7] = 0 /\ bytes[8] = 0 /\ bytes[9] = 0
      BY <2>1, Zenon DEF isZeroRange
    <2>5. isZeroRange(bytes, 4, 12) <=>
              /\ bytes[4] = 0 /\ bytes[5] = 0 /\ bytes[6] = 0 /\ bytes[7] = 0
              /\ bytes[8] = 0 /\ bytes[9] = 0 /\ bytes[10] = 0 /\ bytes[11] = 0
      BY <2>2, Zenon DEF isZeroRange
    <2>6. isZeroRange(bytes, 12, 16) \/ isZeroRange(bytes, 12, 15) => bytes[12] = 0
      BY <2>3, Zenon DEF isZeroRange
    <2> QED
      BY <2>4, <2>5, <2>6, Zenon
  <1>9. /\ zeros(6) <=> /\ groups[1] = 0 /\ groups[2] = 0 /\ groups[3] = 0
                        /\ groups[4] = 0 /\ groups[5] = 0 /\ groups[6] = 0
        /\ zeros(5) <=> /\ groups[1] = 0 /\ groups[2] = 0 /\ groups[3] = 0
                        /\ groups[4] = 0 /\ groups[5] = 0
        /\ between <=> groups[3] = 0 /\ groups[4] = 0 /\ groups[5] = 0 /\ groups[6] = 0
    <2>1. 1 .. 6 = {1, 2, 3, 4, 5, 6} /\ 1 .. 5 = {1, 2, 3, 4, 5} /\ 3 .. 6 = {3, 4, 5, 6}
      OBVIOUS
    <2> QED
      BY <2>1, Zenon
  <1>10. /\ low(0) <=> zeros(6)
         /\ low(255) <=> zeros(5) /\ groups[6] = 65535
         /\ nat64 <=> (translated /\ between) \/ (translated /\ groups[3] = 1)
    <2>1. low(0) <=> zeros(6)
      <3> HIDE DEF zeros
      <3> QED
        BY <1>7, <1>8, <1>9
    <2>2. low(255) <=> zeros(5) /\ groups[6] = 65535
      <3> HIDE DEF zeros
      <3> QED
        BY <1>7, <1>8, <1>9
    <2>3. nat64 <=> (translated /\ between) \/ (translated /\ groups[3] = 1)
      <3> HIDE DEF between
      <3> QED
        BY <1>7, <1>8, <1>9
    <2> HIDE DEF low, nat64, zeros, between, translated
    <2> QED
      BY <2>1, <2>2, <2>3
  <1>11. /\ unique <=> groups[1] \in 64512 .. 65023
         /\ local <=> groups[1] \in 65152 .. 65215
         /\ multi <=> ~ (groups[1] < 65280)
    BY <1>7
  <1>12. low(0) \/ low(255) \/ nat64 => ~ unique /\ ~ local /\ ~ multi
    <2>1. low(0) \/ low(255) \/ nat64 => bytes[0] = 0
      BY <1>8, Zenon
    <2>2. bytes[0] = 0 => ~ unique /\ ~ local /\ ~ multi
      OBVIOUS
    <2> HIDE DEF low, nat64, unique, local, multi
    <2> QED
      BY <2>1, <2>2, Zenon
  <1>13. classifyIpv6(address) =
           IF low(0) /\ isZeroRange(bytes, 12, 16) THEN "reserved"
           ELSE IF low(0) /\ isZeroRange(bytes, 12, 15) /\ bytes[15] = 1 THEN "loopback"
           ELSE IF low(255) \/ low(0) \/ nat64 THEN classifyIpv4(quad)
           ELSE IF local THEN "link-local" ELSE IF unique THEN "unique-local"
           ELSE IF multi THEN "multicast" ELSE PUBLIC
    <2>1. << bytes >>[1] = bytes /\ << bytes >> # Null
      BY DEF Null
    <2> QED
      BY <1>1, <2>1 DEF classifyIpv6, quad
  <1>14. ReachableGroups(groups) <=>
           /\ ~ unique /\ ~ local /\ ~ multi
           /\ low(0) \/ low(255) \/ nat64 => ReachableQuad(quad)
    <2>1. quad = <<groups[7] \div 256, groups[7] % 256, groups[8] \div 256, groups[8] % 256>>
      BY <1>4, Zenon DEF quad
    <2> HIDE DEF low, nat64, local, unique, multi
    <2>2. ReachableGroups(groups) <=>
            /\ groups[1] \notin 64512 .. 65023 /\ groups[1] \notin 65152 .. 65215
            /\ groups[1] < 65280
            /\ zeros(6) => ReachableQuad(quad)
            /\ zeros(5) /\ groups[6] = 65535 => ReachableQuad(quad)
            /\ translated /\ between => ReachableQuad(quad)
            /\ translated /\ groups[3] = 1 => ReachableQuad(quad)
      BY <2>1 DEF ReachableGroups
    <2> HIDE DEF zeros, translated, between
    <2> QED
      BY <1>10, <1>11, <2>2
  <1> HIDE DEF low, nat64, local, unique, multi
  <1> QED
    BY <1>6, <1>8, <1>13, <1>14, <1>12, Zenon DEF PUBLIC

\* The guard and the prefixes of the special-purpose blocks agree on every address.
LEMMA ClassifiedReachable ==
    ASSUME NEW address, IsAddress(address)
    PROVE  classifyAddress(address) = PUBLIC <=> Reachable(address)
  <1>1. CASE address.version = 4
    <2>1. IsQuad(address.quad)
      BY <1>1 DEF IsAddress
    <2>2. PICK a \in Byte, b \in Byte, c \in Byte, d \in Byte : address.quad = <<a, b, c, d>>
      BY <2>1 DEF IsQuad
    <2>3. ReachableQuad(address.quad) <=> ~ Special(a, b, c)
      BY <2>2, BlocksAreSpecial
    <2>4. classifyIpv4(address.quad) = PUBLIC <=> ~ Special(a, b, c)
      BY <2>2, ClassifiedPublic
    <2> QED
      BY <1>1, <2>3, <2>4 DEF classifyAddress, Reachable
  <1>2. CASE address.version # 4
    <2>1. address.means \in [1 .. 8 -> Group] /\ Means(address, address.means)
      BY <1>2 DEF IsAddress
    <2>2. classifyIpv6(address) = PUBLIC <=> ReachableGroups(address.means)
      BY <2>1, ClassifiedGroups, Zenon
    <2> QED
      BY <1>2, <2>2 DEF classifyAddress, Reachable
  <1> QED
    BY <1>1, <1>2

\* resolveSafeTarget for a target that gets as far as its addresses.
LEMMA SafeTarget ==
    ASSUME NEW t \in Targets
    PROVE  LET verdict == resolveSafeTarget(t.url, t.addresses, Guard)
               vetted == \A i \in DOMAIN t.addresses : Reachable(t.addresses[i])
           IN  /\ verdict.ok =>
                     /\ verdict.address = t.addresses[1] /\ 1 \in DOMAIN t.addresses
                     /\ t.url.allowlisted \/ Guard.allowPrivate \/ vetted
               /\ /\ ~ t.url.allowlisted /\ t.url.parses /\ t.url.scheme = "https:"
                  /\ t.url.port \notin Guard.blockedPorts /\ ~ Guard.allowPrivate
                  => (verdict.ok <=> t.addresses # << >> /\ vetted)
  <1> DEFINE verdict == resolveSafeTarget(t.url, t.addresses, Guard)
             vetted == \A i \in DOMAIN t.addresses : Reachable(t.addresses[i])
             public == \A i \in DOMAIN t.addresses : classifyAddress(t.addresses[i]) = PUBLIC
  <1>1. public <=> vetted
    BY TargetsAssumption, ClassifiedReachable
  <1>2. t.addresses # << >> => 1 \in DOMAIN t.addresses
    <2> DEFINE list == t.addresses
               S == {list[i] : i \in DOMAIN list}
    <2>1. list \in Seq(S)
      BY TargetsAssumption
    <2> HIDE DEF list, S
    <2>2. list # << >> => 1 \in DOMAIN list
      BY <2>1
    <2> QED
      BY <2>2 DEF list
  <1>3. /\ ~ t.url.parses \/ t.url.scheme \notin {"http:", "https:"}
              \/ t.url.port \in Guard.blockedPorts \/ t.addresses = << >>
              \/ (~ Guard.allowPrivate /\ ~ t.url.allowlisted /\ ~ public) => ~ verdict.ok
        /\ t.url.parses /\ t.url.scheme \in {"http:", "https:"}
              /\ t.url.port \notin Guard.blockedPorts /\ t.addresses # << >>
              /\ (Guard.allowPrivate \/ t.url.allowlisted \/ public)
           => verdict = [ok |-> TRUE, address |-> t.addresses[1]]
    BY DEF resolveSafeTarget, Blocked
  <1>4. verdict = [ok |-> TRUE, address |-> t.addresses[1]]
           => verdict.ok /\ verdict.address = t.addresses[1]
    OBVIOUS
  <1> HIDE DEF verdict, public, vetted
  <1>5. verdict.ok => /\ verdict.address = t.addresses[1] /\ 1 \in DOMAIN t.addresses
                      /\ t.url.allowlisted \/ Guard.allowPrivate \/ vetted
    BY <1>1, <1>2, <1>3, <1>4
  <1>6. /\ ~ t.url.allowlisted /\ t.url.parses /\ t.url.scheme = "https:"
        /\ t.url.port \notin Guard.blockedPorts /\ ~ Guard.allowPrivate
        => (verdict.ok <=> t.addresses # << >> /\ vetted)
    BY <1>1, <1>3, <1>4
  <1> QED
    BY <1>5, <1>6 DEF verdict, vetted

\* A running attempt has resolved a target once, and connects to what was pinned.
GuardInv ==
    target # NoTarget => \E t \in Targets : \E connected :
        /\ target = << [seen |-> t, connected |-> connected,
                        verdict |-> resolveSafeTarget(t.url, t.addresses, Guard)] >>
        /\ connected # Undefined =>
              /\ resolveSafeTarget(t.url, t.addresses, Guard).ok
              /\ connected = << resolveSafeTarget(t.url, t.addresses, Guard).address >>

\* Resolving, refusing and connecting keep the guard's invariant.
LEMMA GuardStep == GuardInv /\ [LadderNext]_ladder => GuardInv'
  <1> SUFFICES ASSUME GuardInv, [LadderNext]_ladder PROVE GuardInv'
    OBVIOUS
  <1>1. CASE ResolveTarget
    <2>1. PICK t \in Targets :
             target' = << [seen |-> t, connected |-> Undefined,
                           verdict |-> resolveSafeTarget(t.url, t.addresses, Guard)] >>
      BY <1>1 DEF ResolveTarget
    <2> QED
      BY <2>1 DEF GuardInv
  <1>2. CASE RejectTarget
    BY <1>2 DEF RejectTarget, GuardInv
  <1>3. CASE Connect
    <2>0. PICK t \in Targets : \E connected :
             target = << [seen |-> t, connected |-> connected,
                          verdict |-> resolveSafeTarget(t.url, t.addresses, Guard)] >>
      BY <1>3 DEF GuardInv, Connect
    <2>1. PICK connected :
             target = << [seen |-> t, connected |-> connected,
                          verdict |-> resolveSafeTarget(t.url, t.addresses, Guard)] >>
      BY <2>0
    <2> DEFINE verdict == resolveSafeTarget(t.url, t.addresses, Guard)
    <2>2. target' = << [seen |-> t, connected |-> << verdict.address >>, verdict |-> verdict] >>
          /\ verdict.ok
      <3> HIDE DEF verdict
      <3>1. target[1] = [seen |-> t, connected |-> connected, verdict |-> verdict]
            /\ Verdict = verdict
        BY <2>1 DEF Verdict, verdict
      <3>2. target' = << [target[1] EXCEPT !.connected = << Verdict.address >>] >> /\ Verdict.ok
        BY <1>3 DEF Connect, pinnedDispatcher, Defined
      <3> QED
        BY <3>1, <3>2
    <2> QED
      BY <2>2 DEF GuardInv
  <1>4. ASSUME NEW status \in Answers, NEW header \in Headers, NEW bodyRead \in BOOLEAN,
               Answer(status, header, bodyRead)
        PROVE  GuardInv'
    BY <1>4 DEF Answer, GuardInv
  <1>5. CASE Finished \/ UNCHANGED ladder
    BY <1>5 DEF Finished, ladder, GuardInv
  <1> QED
    BY <1>1, <1>2, <1>3, <1>4, <1>5 DEF LadderNext

\* The guard's invariant, for every set of targets and every change of a name.
LEMMA GuardInvariant == LadderSpec => []GuardInv
  <1>1. LadderInit => GuardInv
    BY DEF LadderInit, GuardInv
  <1> QED
    BY <1>1, GuardStep, PTL DEF LadderSpec

\* For every IPv4 and IPv6 address text, resolveSafeTarget lets a host through
\* exactly when all of its addresses lie outside the special-purpose blocks.
THEOREM GuardIsExact == LadderSpec => []GuardMatchesBlocks
  <1>1. GuardInv => GuardMatchesBlocks
    <2> SUFFICES ASSUME GuardInv, target # NoTarget PROVE GuardMatchesBlocks
      BY DEF GuardMatchesBlocks
    <2>0. PICK t \in Targets : \E connected :
             target = << [seen |-> t, connected |-> connected,
                          verdict |-> resolveSafeTarget(t.url, t.addresses, Guard)] >>
      BY DEF GuardInv
    <2>1. PICK connected :
             target = << [seen |-> t, connected |-> connected,
                          verdict |-> resolveSafeTarget(t.url, t.addresses, Guard)] >>
      BY <2>0
    <2>2. target[1].seen = t /\ Verdict = resolveSafeTarget(t.url, t.addresses, Guard)
      BY <2>1 DEF Verdict
    <2> QED
      BY <2>2, SafeTarget, Zenon DEF GuardMatchesBlocks
  <1> QED
    BY <1>1, GuardInvariant, PTL

\* Whatever a name resolves to between the check and the connection, the request
\* goes to an address the guard has vetted (pinnedDispatcher).
THEOREM ConnectionIsVetted == LadderSpec => []ConnectsToVetted
  <1>1. GuardInv => ConnectsToVetted
    <2> SUFFICES ASSUME GuardInv, target # NoTarget, target[1].connected # Undefined
                 PROVE  \/ target[1].seen.url.allowlisted \/ Guard.allowPrivate
                        \/ Reachable(target[1].connected[1])
      BY DEF ConnectsToVetted
    <2>0. PICK t \in Targets : \E connected :
             /\ target = << [seen |-> t, connected |-> connected,
                             verdict |-> resolveSafeTarget(t.url, t.addresses, Guard)] >>
             /\ connected # Undefined =>
                  /\ resolveSafeTarget(t.url, t.addresses, Guard).ok
                  /\ connected = << resolveSafeTarget(t.url, t.addresses, Guard).address >>
      BY DEF GuardInv
    <2>1. PICK connected :
             /\ target = << [seen |-> t, connected |-> connected,
                             verdict |-> resolveSafeTarget(t.url, t.addresses, Guard)] >>
             /\ connected # Undefined =>
                  /\ resolveSafeTarget(t.url, t.addresses, Guard).ok
                  /\ connected = << resolveSafeTarget(t.url, t.addresses, Guard).address >>
      BY <2>0
    <2>2. target[1].seen = t /\ target[1].connected = connected
      BY <2>1
    <2>3. /\ resolveSafeTarget(t.url, t.addresses, Guard).ok
          /\ connected[1] = resolveSafeTarget(t.url, t.addresses, Guard).address
      BY <2>1, <2>2
    <2>4. /\ connected[1] = t.addresses[1] /\ 1 \in DOMAIN t.addresses
          /\ \/ t.url.allowlisted \/ Guard.allowPrivate
             \/ \A i \in DOMAIN t.addresses : Reachable(t.addresses[i])
      BY <2>3, SafeTarget, Zenon
    <2> QED
      BY <2>2, <2>4, Zenon
  <1> QED
    BY <1>1, GuardInvariant, PTL
=============================================================================
