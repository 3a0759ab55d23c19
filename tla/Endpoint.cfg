SPECIFICATION MCSpec
CONSTANTS
  Users = {ann, bob}
  Urls = {"ok", "blocked"}
  SafeUrls = {"ok"}
  Grace = 2
  Tolerance = 1
  MaxCalls = 4
  MaxTime = 3
  Workers = {w1, w2}
  Rates = {1, 2}
  Minute = 2
  Ttl = 4
  MaxLate = 2
  MaxRetries = 1
  MaxBucketTime = 5
  RETRY_SCHEDULE <- MCSchedule
  MAX_ATTEMPTS = 3
  Answers <- MCAnswers
  Headers <- MCHeaders
  Targets <- MCTargets
  Guard <- MCGuard
INVARIANT OwnerRemains
INVARIANT StoredUrlsAreGuarded
INVARIANT PromisedSecretVerifies
INVARIANT RateIsKept
INVARIANT WaitIsLeastEnough
INVARIANT ExpirationInBand
INVARIANT ExhaustedIsFullLadder
INVARIANT GuardMatchesBlocks
INVARIANT ConnectsToVetted
