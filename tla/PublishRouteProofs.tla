------------------------- MODULE PublishRouteProofs -------------------------
(***************************************************************************)
(* Proofs about POST /v1/publish for any number of calls, keys, windows    *)
(* and faults: the idempotency key, the sliding window, and which          *)
(* endpoints an event goes to for any patterns the schemas let through.    *)
(***************************************************************************)
EXTENDS PublishRoute, FiniteSetTheorems, SequenceTheorems, TLAPS

Stages == {"idle", "claim", "rollback", "reserve", "lookup", "publish", "store",
           "finish", "release", "done", "closed", "stuck", "dead"}
Statuses == {0, 202, 400, 401, 409, 413, 422, 429, 500}
Call == [stage : Stages, apiKey : ApiKeys \cup {NoCall}, idem : IdempotencyKeys \cup {NoCall},
         at : Nat, status : Statuses, event : Calls \cup {NoCall},
         holds : BOOLEAN, stored : BOOLEAN, admitted : BOOLEAN]

TypeOK ==
    /\ now \in Nat /\ faults \in Nat
    /\ call \in [Calls -> Call]
    /\ store \in [IdempotencyKeys -> Calls \cup {Free, Reserved}]
    /\ expiry \in [IdempotencyKeys -> Nat]
    /\ holder \in [IdempotencyKeys -> Calls \cup {NoCall}]
    /\ events \subseteq [id : Calls, key : IdempotencyKeys, at : Nat, targets : SUBSET Endpoints]
    /\ DOMAIN window = Identities

\* Before its answer is decided a call has no status, and a key once it was read.
Undecided == {"idle", "claim", "rollback", "reserve", "lookup", "publish", "store"}
StageInv ==
    \A c \in Calls :
        /\ call[c].stage \in Undecided => call[c].status = 0 /\ ~ call[c].stored
        /\ call[c].stage \in {"finish", "release"} => call[c].status # 0
        /\ call[c].stage \in Undecided \ {"idle"} => call[c].idem \in IdempotencyKeys
        /\ call[c].stage \in {"publish", "store", "release"} => call[c].holds
        /\ call[c].stage \in {"idle", "claim", "rollback", "reserve", "lookup"}
              => ~ call[c].holds
        /\ call[c].holds => call[c].idem \in IdempotencyKeys

\* Redis holds the reservation of a running holder, or its response once stored,
\* and a key has one running holder.
Holder(c) == Running(c) /\ call[c].holds
HolderInv ==
    /\ \A c \in Calls : Holder(c) =>
          /\ store[call[c].idem] = IF call[c].status = 202 THEN c ELSE Reserved
          /\ call[c].stage = "release" => call[c].status >= 400
          /\ IF call[c].stored THEN call[c].status \in {202, 500} ELSE call[c].status # 202
    /\ \A c, d \in Calls : Holder(c) /\ Holder(d) /\ call[c].idem = call[d].idem => c = d

\* What became of the call that committed an event; and while the event is young and
\* its caller was told so, the store answers it and nobody else holds the key.
Committed(e) == call[e.id].idem = e.key /\ call[e.id].event = e.id /\ e.at <= now
Answered(e) ==
    \/ call[e.id].stage = "store"
    \/ call[e.id].stage \in {"finish", "done", "closed"} /\ call[e.id].status = 202
    \/ call[e.id].stage \in {"finish", "release", "done", "closed", "stuck"} /\ call[e.id].status = 500
    \/ call[e.id].stage = "dead"
Guarded(e) ==
    /\ store[e.key] = e.id /\ expiry[e.key] >= e.at + Ttl
    /\ \A d \in Calls : Holder(d) /\ call[d].idem = e.key => d = e.id
EventInv ==
    /\ \A e \in events : Committed(e) /\ Answered(e)
    /\ \A e, f \in events : e.id = f.id => e = f
    /\ \A e \in events :
          call[e.id].status = 202 /\ ~ At(e.id, "dead") /\ now < e.at + Ttl => Guarded(e)

\* Every response names a committed event of its key.
Backed(id, key) == \E e \in events : e.id = id /\ e.key = key
BackedInv ==
    /\ \A k \in IdempotencyKeys : store[k] \in Calls => Backed(store[k], k)
    /\ \A c \in Calls :
          /\ call[c].status = 202 => Backed(call[c].event, call[c].idem)
          /\ call[c].stage = "store" => call[c].event = c /\ Backed(c, call[c].idem)

\* The windows hold every admitted call that is young enough to count, in the
\* windows it is counted against, and no call that was refused.
WindowInv ==
    /\ \A i \in Identities :
          /\ IsFiniteSet(window[i])
          /\ \A e \in window[i] :
                /\ e.call \in Calls /\ i \in identify(e.call)
                /\ call[e.call].stage \notin {"idle", "claim"}
                /\ call[e.call].status # 429
    /\ \A c \in Calls :
          /\ call[c].stage \in {"idle", "claim", "rollback"} => ~ call[c].admitted
          /\ call[c].stage \in Undecided \ {"idle"} \/ call[c].admitted => call[c].apiKey \in ApiKeys
          /\ call[c].admitted =>
                /\ call[c].at <= now
                /\ \A i \in identify(c) : call[c].at > now - WindowMs =>
                      [call |-> c, at |-> call[c].at] \in window[i]
-----------------------------------------------------------------------------
\* What a step does to the call it is about; it touches no other call.
Others(c) == call' \in [Calls -> Call] /\ \A d \in Calls \ {c} : call'[d] = call[d]
IsRead(c, apiKey, idem) ==
    /\ Others(c)
    /\ call'[c].stage = "claim" /\ call'[c].apiKey = apiKey /\ call'[c].idem = idem
    /\ call'[c].at = call[c].at /\ call'[c].admitted = call[c].admitted
    /\ call'[c].status = call[c].status /\ call'[c].event = call[c].event
    /\ call'[c].holds = call[c].holds /\ call'[c].stored = call[c].stored
IsCounted(c, stage, at, allowed) ==
    /\ Others(c)
    /\ call'[c].stage = stage /\ call'[c].apiKey = call[c].apiKey /\ call'[c].idem = call[c].idem
    /\ call'[c].at = at /\ call'[c].admitted = allowed
    /\ call'[c].status = call[c].status /\ call'[c].event = call[c].event
    /\ call'[c].holds = call[c].holds /\ call'[c].stored = call[c].stored
Becomes(c, stage, status, event, holds, stored) ==
    /\ Others(c)
    /\ call'[c].stage = stage /\ call'[c].apiKey = call[c].apiKey /\ call'[c].idem = call[c].idem
    /\ call'[c].at = call[c].at /\ call'[c].admitted = call[c].admitted
    /\ call'[c].status = status /\ call'[c].event = event
    /\ call'[c].holds = holds /\ call'[c].stored = stored

\* A field of a call may be set to any value of its type.
LEMMA CallFields ==
    \A r \in Call :
        /\ \A v \in Stages : [r EXCEPT !.stage = v] \in Call
        /\ \A v \in ApiKeys : [r EXCEPT !.apiKey = v] \in Call
        /\ \A v \in IdempotencyKeys : [r EXCEPT !.idem = v] \in Call
        /\ \A v \in Nat : [r EXCEPT !.at = v] \in Call
        /\ \A v \in Statuses : [r EXCEPT !.status = v] \in Call
        /\ \A v \in Calls : [r EXCEPT !.event = v] \in Call
        /\ \A v \in BOOLEAN : /\ [r EXCEPT !.admitted = v] \in Call
                               /\ [r EXCEPT !.holds = v] \in Call
                               /\ [r EXCEPT !.stored = v] \in Call
  BY DEF Call

\* A call whose key was accepted.
LEMMA ReadCall ==
    ASSUME call \in [Calls -> Call], NEW c \in Calls,
           NEW apiKey \in ApiKeys, NEW idem \in IdempotencyKeys,
           call' = [call EXCEPT ![c].stage = "claim", ![c].apiKey = apiKey, ![c].idem = idem]
    PROVE  IsRead(c, apiKey, idem)
  <1> DEFINE r == [call[c] EXCEPT !.stage = "claim", !.apiKey = apiKey, !.idem = idem]
  <1>1. call' = [call EXCEPT ![c] = r]
    OBVIOUS
  <1>2. r = [[[call[c] EXCEPT !.stage = "claim"] EXCEPT !.apiKey = apiKey] EXCEPT !.idem = idem]
    BY DEF Call
  <1>3. r \in Call
    BY <1>2, CallFields, Zenon DEF Stages
  <1>4. /\ r.stage = "claim" /\ r.apiKey = apiKey /\ r.idem = idem /\ r.at = call[c].at
        /\ r.admitted = call[c].admitted /\ r.status = call[c].status /\ r.event = call[c].event
        /\ r.holds = call[c].holds /\ r.stored = call[c].stored
    BY DEF Call
  <1> HIDE DEF r
  <1>5. Others(c) /\ call'[c] = r
    BY <1>1, <1>3 DEF Others
  <1>6. QED
    BY <1>4, <1>5, Zenon DEF IsRead

\* A call the limiter counted.
LEMMA CountedCall ==
    ASSUME call \in [Calls -> Call], NEW c \in Calls,
           NEW stage \in Stages, NEW at \in Nat, NEW admitted \in BOOLEAN,
           call' = [call EXCEPT ![c].stage = stage, ![c].at = at, ![c].admitted = admitted]
    PROVE  IsCounted(c, stage, at, admitted)
  <1> DEFINE r == [call[c] EXCEPT !.stage = stage, !.at = at, !.admitted = admitted]
  <1>1. call' = [call EXCEPT ![c] = r]
    OBVIOUS
  <1>2. r = [[[call[c] EXCEPT !.stage = stage] EXCEPT !.at = at] EXCEPT !.admitted = admitted]
    BY DEF Call
  <1>3. r \in Call
    BY <1>2, CallFields, Zenon
  <1>4. /\ r.stage = stage /\ r.apiKey = call[c].apiKey /\ r.idem = call[c].idem /\ r.at = at
        /\ r.admitted = admitted /\ r.status = call[c].status /\ r.event = call[c].event
        /\ r.holds = call[c].holds /\ r.stored = call[c].stored
    BY DEF Call
  <1> HIDE DEF r
  <1>5. Others(c) /\ call'[c] = r
    BY <1>1, <1>3 DEF Others
  <1>6. QED
    BY <1>4, <1>5, Zenon DEF IsCounted

\* A call that only moves on.
LEMMA MovedCall ==
    ASSUME call \in [Calls -> Call], NEW c \in Calls,
           NEW stage \in Stages,
           call' = [call EXCEPT ![c].stage = stage]
    PROVE  Becomes(c, stage, call[c].status, call[c].event, call[c].holds, call[c].stored)
  <1> DEFINE r == [call[c] EXCEPT !.stage = stage]
  <1>1. call' = [call EXCEPT ![c] = r]
    OBVIOUS
  <1>2. r = [call[c] EXCEPT !.stage = stage]
    BY DEF Call
  <1>3. r \in Call
    BY <1>2, CallFields, Zenon
  <1>4. /\ r.stage = stage /\ r.apiKey = call[c].apiKey /\ r.idem = call[c].idem /\ r.at = call[c].at
        /\ r.admitted = call[c].admitted /\ r.status = call[c].status /\ r.event = call[c].event
        /\ r.holds = call[c].holds /\ r.stored = call[c].stored
    BY DEF Call
  <1> HIDE DEF r
  <1>5. Others(c) /\ call'[c] = r
    BY <1>1, <1>3 DEF Others
  <1>6. QED
    BY <1>4, <1>5, Zenon DEF Becomes

\* A call with its status.
LEMMA ThrownCall ==
    ASSUME call \in [Calls -> Call], NEW c \in Calls,
           NEW stage \in Stages, NEW status \in Statuses,
           call' = [call EXCEPT ![c].stage = stage, ![c].status = status]
    PROVE  Becomes(c, stage, status, call[c].event, call[c].holds, call[c].stored)
  <1> DEFINE r == [call[c] EXCEPT !.stage = stage, !.status = status]
  <1>1. call' = [call EXCEPT ![c] = r]
    OBVIOUS
  <1>2. r = [[call[c] EXCEPT !.stage = stage] EXCEPT !.status = status]
    BY DEF Call
  <1>3. r \in Call
    BY <1>2, CallFields, Zenon
  <1>4. /\ r.stage = stage /\ r.apiKey = call[c].apiKey /\ r.idem = call[c].idem /\ r.at = call[c].at
        /\ r.admitted = call[c].admitted /\ r.status = status /\ r.event = call[c].event
        /\ r.holds = call[c].holds /\ r.stored = call[c].stored
    BY DEF Call
  <1> HIDE DEF r
  <1>5. Others(c) /\ call'[c] = r
    BY <1>1, <1>3 DEF Others
  <1>6. QED
    BY <1>4, <1>5, Zenon DEF Becomes

\* A call that takes or gives back its key.
LEMMA HeldCall ==
    ASSUME call \in [Calls -> Call], NEW c \in Calls,
           NEW stage \in Stages, NEW holds \in BOOLEAN,
           call' = [call EXCEPT ![c].stage = stage, ![c].holds = holds]
    PROVE  Becomes(c, stage, call[c].status, call[c].event, holds, call[c].stored)
  <1> DEFINE r == [call[c] EXCEPT !.stage = stage, !.holds = holds]
  <1>1. call' = [call EXCEPT ![c] = r]
    OBVIOUS
  <1>2. r = [[call[c] EXCEPT !.stage = stage] EXCEPT !.holds = holds]
    BY DEF Call
  <1>3. r \in Call
    BY <1>2, CallFields, Zenon
  <1>4. /\ r.stage = stage /\ r.apiKey = call[c].apiKey /\ r.idem = call[c].idem /\ r.at = call[c].at
        /\ r.admitted = call[c].admitted /\ r.status = call[c].status /\ r.event = call[c].event
        /\ r.holds = holds /\ r.stored = call[c].stored
    BY DEF Call
  <1> HIDE DEF r
  <1>5. Others(c) /\ call'[c] = r
    BY <1>1, <1>3 DEF Others
  <1>6. QED
    BY <1>4, <1>5, Zenon DEF Becomes

\* A call that committed its event.
LEMMA CommittedCall ==
    ASSUME call \in [Calls -> Call], NEW c \in Calls,
           NEW stage \in Stages, NEW event \in Calls,
           call' = [call EXCEPT ![c].stage = stage, ![c].event = event]
    PROVE  Becomes(c, stage, call[c].status, event, call[c].holds, call[c].stored)
  <1> DEFINE r == [call[c] EXCEPT !.stage = stage, !.event = event]
  <1>1. call' = [call EXCEPT ![c] = r]
    OBVIOUS
  <1>2. r = [[call[c] EXCEPT !.stage = stage] EXCEPT !.event = event]
    BY DEF Call
  <1>3. r \in Call
    BY <1>2, CallFields, Zenon
  <1>4. /\ r.stage = stage /\ r.apiKey = call[c].apiKey /\ r.idem = call[c].idem /\ r.at = call[c].at
        /\ r.admitted = call[c].admitted /\ r.status = call[c].status /\ r.event = event
        /\ r.holds = call[c].holds /\ r.stored = call[c].stored
    BY DEF Call
  <1> HIDE DEF r
  <1>5. Others(c) /\ call'[c] = r
    BY <1>1, <1>3 DEF Others
  <1>6. QED
    BY <1>4, <1>5, Zenon DEF Becomes

\* A call that replays a response.
LEMMA ReplayedCall ==
    ASSUME call \in [Calls -> Call], NEW c \in Calls,
           NEW stage \in Stages, NEW status \in Statuses, NEW event \in Calls,
           call' = [call EXCEPT ![c].stage = stage, ![c].status = status, ![c].event = event]
    PROVE  Becomes(c, stage, status, event, call[c].holds, call[c].stored)
  <1> DEFINE r == [call[c] EXCEPT !.stage = stage, !.status = status, !.event = event]
  <1>1. call' = [call EXCEPT ![c] = r]
    OBVIOUS
  <1>2. r = [[[call[c] EXCEPT !.stage = stage] EXCEPT !.status = status] EXCEPT !.event = event]
    BY DEF Call
  <1>3. r \in Call
    BY <1>2, CallFields, Zenon
  <1>4. /\ r.stage = stage /\ r.apiKey = call[c].apiKey /\ r.idem = call[c].idem /\ r.at = call[c].at
        /\ r.admitted = call[c].admitted /\ r.status = status /\ r.event = event
        /\ r.holds = call[c].holds /\ r.stored = call[c].stored
    BY DEF Call
  <1> HIDE DEF r
  <1>5. Others(c) /\ call'[c] = r
    BY <1>1, <1>3 DEF Others
  <1>6. QED
    BY <1>4, <1>5, Zenon DEF Becomes

\* A call that marks its response stored.
LEMMA StoredCall ==
    ASSUME call \in [Calls -> Call], NEW c \in Calls,
           NEW stage \in Stages, NEW status \in Statuses, NEW stored \in BOOLEAN,
           call' = [call EXCEPT ![c].stage = stage, ![c].status = status, ![c].stored = stored]
    PROVE  Becomes(c, stage, status, call[c].event, call[c].holds, stored)
  <1> DEFINE r == [call[c] EXCEPT !.stage = stage, !.status = status, !.stored = stored]
  <1>1. call' = [call EXCEPT ![c] = r]
    OBVIOUS
  <1>2. r = [[[call[c] EXCEPT !.stage = stage] EXCEPT !.status = status] EXCEPT !.stored = stored]
    BY DEF Call
  <1>3. r \in Call
    BY <1>2, CallFields, Zenon
  <1>4. /\ r.stage = stage /\ r.apiKey = call[c].apiKey /\ r.idem = call[c].idem /\ r.at = call[c].at
        /\ r.admitted = call[c].admitted /\ r.status = status /\ r.event = call[c].event
        /\ r.holds = call[c].holds /\ r.stored = stored
    BY DEF Call
  <1> HIDE DEF r
  <1>5. Others(c) /\ call'[c] = r
    BY <1>1, <1>3 DEF Others
  <1>6. QED
    BY <1>4, <1>5, Zenon DEF Becomes
-----------------------------------------------------------------------------
\* The steps of a call, as changes of its fields.
Base == TypeOK /\ StageInv
Keeps(c, stage) ==
    Becomes(c, stage, call[c].status, call[c].event, call[c].holds, call[c].stored)
Throws(c, status) ==
    Becomes(c, "finish", status, call[c].event, call[c].holds, call[c].stored)

Refuses(c) ==
    /\ call[c].stage \in {"idle", "reserve", "lookup", "publish"}
    /\ \E status \in {400, 401, 409, 413, 422} : Throws(c, status)
    /\ UNCHANGED <<now, window, store, expiry, holder, events, faults>>
Reads(c) ==
    /\ At(c, "idle")
    /\ \E apiKey \in ApiKeys, idem \in IdempotencyKeys : IsRead(c, apiKey, idem)
    /\ UNCHANGED <<now, window, store, expiry, holder, events, faults>>
Counts(c) ==
    /\ At(c, "claim")
    /\ IsCounted(c, "reserve", now, TRUE) \/ IsCounted(c, "rollback", now, FALSE)
    /\ DOMAIN window' = Identities
    /\ UNCHANGED <<now, store, expiry, holder, events, faults>>
RollsBack(c) ==
    /\ At(c, "rollback")
    /\ Throws(c, 429)
    /\ DOMAIN window' = Identities
    /\ UNCHANGED <<now, store, expiry, holder, events, faults>>
Reserves(c) ==
    /\ At(c, "reserve")
    /\ store[call[c].idem] = Free
    /\ store' = [store EXCEPT ![call[c].idem] = Reserved]
    /\ expiry' = [expiry EXCEPT ![call[c].idem] = now + Ttl]
    /\ holder' = [holder EXCEPT ![call[c].idem] = c]
    /\ Becomes(c, "publish", call[c].status, call[c].event, TRUE, call[c].stored)
    /\ UNCHANGED <<now, window, events, faults>>
LooksUp(c) ==
    /\ At(c, "reserve")
    /\ Keeps(c, "lookup")
    /\ UNCHANGED <<now, window, store, expiry, holder, events, faults>>
Replays(c) ==
    /\ At(c, "lookup")
    /\ store[call[c].idem] \in Calls
    /\ Becomes(c, "finish", 202, store[call[c].idem], call[c].holds, call[c].stored)
    /\ UNCHANGED <<now, window, store, expiry, holder, events, faults>>
Commits(c) ==
    /\ At(c, "publish")
    /\ \E targets \in SUBSET Endpoints :
          events' = events \cup
             {[id |-> c, key |-> call[c].idem, at |-> now, targets |-> targets]}
    /\ Becomes(c, "store", call[c].status, c, call[c].holds, call[c].stored)
    /\ UNCHANGED <<now, window, store, expiry, holder, faults>>
Stores(c) ==
    /\ At(c, "store")
    /\ store' = [store EXCEPT ![call[c].idem] = call[c].event]
    /\ expiry' = [expiry EXCEPT ![call[c].idem] = now + Ttl]
    /\ Becomes(c, "finish", 202, call[c].event, call[c].holds, TRUE)
    /\ UNCHANGED <<now, window, holder, events, faults>>
Finishes(c) ==
    /\ At(c, "finish")
    /\ \/ call[c].holds /\ ~ call[c].stored /\ call[c].status >= 400 /\ Keeps(c, "release")
       \/ ~ (call[c].holds /\ ~ call[c].stored /\ call[c].status >= 400) /\ Keeps(c, "done")
       \/ Keeps(c, "closed")
    /\ UNCHANGED <<now, window, store, expiry, holder, events, faults>>
Releases(c) ==
    /\ At(c, "release")
    /\ store' = [store EXCEPT ![call[c].idem] = Free]
    /\ Becomes(c, "done", call[c].status, call[c].event, FALSE, call[c].stored)
    /\ UNCHANGED <<now, window, expiry, holder, events, faults>>
Rejects(c) ==
    /\ \/ At(c, "release") /\ Keeps(c, "stuck")
       \/ /\ call[c].stage \in Undecided \ {"idle"}
          /\ \E marked \in BOOLEAN :
                Becomes(c, "finish", 500, call[c].event, call[c].holds, marked)
    /\ faults' = faults + 1
    /\ UNCHANGED <<now, window, store, expiry, holder, events>>
Effect(c) ==
    \/ Refuses(c) \/ Reads(c) \/ Counts(c) \/ RollsBack(c) \/ Reserves(c) \/ LooksUp(c)
    \/ Replays(c) \/ Commits(c) \/ Stores(c) \/ Finishes(c) \/ Releases(c) \/ Rejects(c)

\* The statuses of the errors.
LEMMA ThrowEffect ==
    ASSUME TypeOK, NEW c \in Calls, NEW error \in DOMAIN Errors, Throw(c, error)
    PROVE  Errors[error] \in Statuses /\ Throws(c, Errors[error])
  <1>1. Errors[error] \in Statuses /\ "finish" \in Stages
    BY DEF Errors, Statuses, Stages
  <1>2. QED
    BY <1>1, ThrownCall, Zenon DEF Throw, Throws, TypeOK

\* Every step of a call is one of these changes.
LEMMA Effects == ASSUME Base, NEW c \in Calls, Step(c) \/ RejectedAwait(c) PROVE Effect(c)
  <1> USE DEF Base
  <1>s. {"finish", "claim", "reserve", "rollback", "publish", "lookup", "store", "release", "done",
        "closed", "stuck"} \subseteq Stages
    BY DEF Stages
  <1>t. call \in [Calls -> Call]
    BY DEF TypeOK
  <1>1. CASE Receive(c)
    <2>1. CASE \E error \in {"too_large", "validation", "unauthorized"} : Throw(c, error)
      BY <1>1, <2>1, ThrowEffect DEF Receive, At, Refuses, Errors, Effect
    <2>2. CASE \E apiKey \in ApiKeys, idem \in IdempotencyKeys :
                  call' = [call EXCEPT ![c].stage = "claim", ![c].apiKey = apiKey, ![c].idem = idem]
      BY <1>1, <1>t, <2>2, ReadCall DEF Receive, Reads, Effect
    <2>3. QED
      BY <1>1, <2>1, <2>2, Zenon DEF Receive, parseFails, apiKeyAuth
  <1>2. CASE rateLimit(c)
    <2>1. PICK allowed \in BOOLEAN :
             call' = [call EXCEPT ![c].stage = IF allowed THEN "reserve" ELSE "rollback",
                                  ![c].at = now, ![c].admitted = allowed]
      BY <1>2 DEF rateLimit
    <2>2. UNCHANGED <<now, store, expiry, holder, events, faults>> /\ At(c, "claim") /\ DOMAIN window' = Identities
      BY <1>2 DEF rateLimit
    <2>3. CASE allowed
      <3>1. call' = [call EXCEPT ![c].stage = "reserve", ![c].at = now, ![c].admitted = TRUE]
        BY <2>1, <2>3
      <3>2. IsCounted(c, "reserve", now, TRUE)
        BY <1>s, <1>t, <3>1, CountedCall DEF TypeOK
      <3>3. QED  BY <2>2, <3>2 DEF Counts, Effect
    <2>4. CASE ~ allowed
      <3>1. call' = [call EXCEPT ![c].stage = "rollback", ![c].at = now, ![c].admitted = FALSE]
        BY <2>1, <2>4
      <3>2. IsCounted(c, "rollback", now, FALSE)
        BY <1>s, <1>t, <3>1, CountedCall DEF TypeOK
      <3>3. QED  BY <2>2, <3>2 DEF Counts, Effect
    <2>5. QED  BY <2>3, <2>4
  <1>3. CASE rollback(c)
    <2>1. Throws(c, 429)
      BY <1>3, ThrowEffect DEF rollback, Errors
    <2>2. QED  BY <1>3, <2>1 DEF rollback, RollsBack, Effect
  <1>4. CASE reserve(c)
    <2>1. CASE validateBody(c) /\ UNCHANGED <<store, expiry, holder>>
      <3>1. Throws(c, 400)
        BY <2>1, ThrowEffect DEF validateBody, Errors
      <3>2. QED  BY <1>4, <2>1, <3>1 DEF reserve, At, Refuses, Effect
    <2>2. CASE /\ store[call[c].idem] = Free
               /\ store' = [store EXCEPT ![call[c].idem] = Reserved]
               /\ expiry' = [expiry EXCEPT ![call[c].idem] = now + Ttl]
               /\ holder' = [holder EXCEPT ![call[c].idem] = c]
               /\ call' = [call EXCEPT ![c].stage = "publish", ![c].holds = TRUE]
      <3>1. Becomes(c, "publish", call[c].status, call[c].event, TRUE, call[c].stored)
        BY <1>s, <1>t, <2>2, HeldCall
      <3>2. QED  BY <1>4, <2>2, <3>1 DEF reserve, Reserves, Effect
    <2>3. CASE call' = [call EXCEPT ![c].stage = "lookup"] /\ UNCHANGED <<store, expiry, holder>>
      <3>1. Keeps(c, "lookup")
        BY <1>s, <1>t, <2>3, MovedCall DEF Keeps
      <3>2. QED  BY <1>4, <2>3, <3>1 DEF reserve, LooksUp, Effect
    <2>4. QED  BY <1>4, <2>1, <2>2, <2>3 DEF reserve
  <1>5. CASE lookup(c)
    <2> DEFINE original == store[call[c].idem]
    <2>1. call[c].idem \in IdempotencyKeys
      BY <1>5 DEF lookup, At, StageInv, Undecided
    <2>2. original \in Calls \cup {Free, Reserved}
      BY <2>1 DEF TypeOK
    <2> HIDE DEF original
    <2>3. CASE original \in {Free, Reserved}
      <3>1. Throws(c, 409)
        BY <1>5, <2>3, ThrowEffect DEF lookup, Errors, original
      <3>2. QED  BY <1>5, <3>1 DEF lookup, At, Refuses, Effect
    <2>4. CASE original \notin {Free, Reserved}
      <3>1. /\ original \in Calls /\ 202 \in Statuses
            /\ call' = [call EXCEPT ![c].stage = "finish", ![c].status = 202, ![c].event = original]
        BY <1>5, <2>2, <2>4 DEF lookup, original, Statuses
      <3>2. Becomes(c, "finish", 202, original, call[c].holds, call[c].stored)
        BY <1>s, <1>t, <3>1, ReplayedCall
      <3>3. QED  BY <1>5, <3>1, <3>2 DEF lookup, Replays, Effect, original
    <2>5. QED  BY <2>3, <2>4
  <1>6. CASE publishEvent(c)
    <2>1. \/ Throw(c, "unprocessable") /\ UNCHANGED events
          \/ /\ \E targets \in SUBSET Endpoints : events' = events \cup
                   {[id |-> c, key |-> call[c].idem, at |-> now, targets |-> targets]}
             /\ call' = [call EXCEPT ![c].stage = "store", ![c].event = c]
      BY <1>6 DEF publishEvent, explicitEndpoints, subscribedEndpoints
    <2>2. CASE Throw(c, "unprocessable") /\ UNCHANGED events
      <3>1. Throws(c, 422)
        BY <2>2, ThrowEffect DEF Errors
      <3>2. QED  BY <1>6, <2>2, <3>1 DEF publishEvent, At, Refuses, Effect
    <2>3. CASE /\ \E targets \in SUBSET Endpoints : events' = events \cup
                   {[id |-> c, key |-> call[c].idem, at |-> now, targets |-> targets]}
               /\ call' = [call EXCEPT ![c].stage = "store", ![c].event = c]
      <3>1. Becomes(c, "store", call[c].status, c, call[c].holds, call[c].stored)
        BY <1>s, <1>t, <2>3, CommittedCall
      <3>2. QED  BY <1>6, <2>3, <3>1 DEF publishEvent, Commits, Effect
    <2>4. QED  BY <2>1, <2>2, <2>3
  <1>7. CASE storeResponse(c)
    <2>1. 202 \in Statuses
      BY DEF Statuses
    <2>2. Becomes(c, "finish", 202, call[c].event, call[c].holds, TRUE)
      BY <1>s, <1>t, <1>7, <2>1, StoredCall DEF storeResponse
    <2>3. QED  BY <1>7, <2>2 DEF storeResponse, Stores, Effect
  <1>8. CASE finish(c)
    <2> DEFINE releases == call[c].holds /\ ~ call[c].stored /\ call[c].status >= 400
    <2>0. call' = [call EXCEPT ![c].stage = IF releases THEN "release" ELSE "done"]
          \/ call' = [call EXCEPT ![c].stage = "closed"]
      BY <1>8 DEF finish
    <2>1. CASE releases /\ call' = [call EXCEPT ![c].stage = "release"]
      <3>1. Keeps(c, "release")
        BY <1>s, <1>t, <2>1, MovedCall DEF Keeps
      <3>2. QED  BY <1>8, <2>1, <3>1 DEF finish, Finishes, Effect
    <2>2. CASE ~ releases /\ call' = [call EXCEPT ![c].stage = "done"]
      <3>1. Keeps(c, "done")
        BY <1>s, <1>t, <2>2, MovedCall DEF Keeps
      <3>2. QED  BY <1>8, <2>2, <3>1 DEF finish, Finishes, Effect
    <2>3. CASE call' = [call EXCEPT ![c].stage = "closed"]
      <3>1. Keeps(c, "closed")
        BY <1>s, <1>t, <2>3, MovedCall DEF Keeps
      <3>2. QED  BY <1>8, <3>1 DEF finish, Finishes, Effect
    <2>4. QED  BY <2>0, <2>1, <2>2, <2>3
  <1>9. CASE release(c)
    <2>1. Becomes(c, "done", call[c].status, call[c].event, FALSE, call[c].stored)
      BY <1>s, <1>t, <1>9, HeldCall DEF release
    <2>2. QED  BY <1>9, <2>1 DEF release, Releases, Effect
  <1>10. CASE RejectedAwait(c)
    <2>1. CASE At(c, "release")
      <3>1. Keeps(c, "stuck")
        BY <1>s, <1>t, <1>10, <2>1, MovedCall DEF RejectedAwait, Keeps
      <3>2. QED  BY <1>10, <2>1, <3>1 DEF RejectedAwait, Rejects, Effect
    <2>2. CASE ~ At(c, "release")
      <3>1. PICK marked \in {call[c].stored, At(c, "store")} :
               call' = [call EXCEPT ![c].stage = "finish", ![c].status = 500, ![c].stored = marked]
        BY <1>10, <2>2 DEF RejectedAwait, Errors
      <3>2. marked \in BOOLEAN /\ 500 \in Statuses
        <4>1. call[c].stored \in BOOLEAN
          BY <1>t DEF Call
        <4>2. At(c, "store") \in BOOLEAN
          BY DEF At
        <4>3. marked \in BOOLEAN
          BY <3>1, <4>1, <4>2, Zenon
        <4>4. QED  BY <4>3 DEF Statuses
      <3>3. Becomes(c, "finish", 500, call[c].event, call[c].holds, marked)
        <4>1. "finish" \in Stages
          BY <1>s
        <4>2. QED  BY <4>1, <1>t, <3>1, <3>2, StoredCall, Zenon
      <3>4. call[c].stage \in Undecided \ {"idle"}
        BY <1>10, <2>2 DEF RejectedAwait, At, Undecided
      <3>5. QED  BY <1>10, <3>2, <3>3, <3>4 DEF RejectedAwait, Rejects, Effect
    <2>3. QED  BY <2>1, <2>2
  <1>11. QED
    BY <1>1, <1>2, <1>3, <1>4, <1>5, <1>6, <1>7, <1>8, <1>9, <1>10 DEF Step

\* A death changes the stage of the calls in flight and nothing else of them.
LEMMA DieEffect ==
    ASSUME TypeOK, Die
    PROVE  /\ call' \in [Calls -> Call]
           /\ \A c \in Calls :
                 /\ call'[c].stage = IF Running(c) THEN "dead" ELSE call[c].stage
                 /\ call'[c].apiKey = call[c].apiKey /\ call'[c].idem = call[c].idem
                 /\ call'[c].at = call[c].at /\ call'[c].admitted = call[c].admitted
                 /\ call'[c].status = call[c].status /\ call'[c].event = call[c].event
                 /\ call'[c].holds = call[c].holds /\ call'[c].stored = call[c].stored
  <1>1. \A c \in Calls : [call[c] EXCEPT !.stage = "dead"] \in Call
    BY CallFields, Zenon DEF TypeOK, Stages
  <1>2. call' \in [Calls -> Call]
    BY <1>1 DEF Die, TypeOK
  <1>3. \A c \in Calls : LET r == [call[c] EXCEPT !.stage = "dead"] IN
           /\ r.stage = "dead" /\ r.apiKey = call[c].apiKey /\ r.idem = call[c].idem
           /\ r.at = call[c].at /\ r.admitted = call[c].admitted
           /\ r.status = call[c].status /\ r.event = call[c].event
           /\ r.holds = call[c].holds /\ r.stored = call[c].stored
    BY DEF TypeOK, Call
  <1>4. ASSUME NEW c \in Calls
        PROVE  call'[c] = IF Running(c) THEN [call[c] EXCEPT !.stage = "dead"] ELSE call[c]
    BY DEF Die
  <1>5. ASSUME NEW c \in Calls, ~ Running(c) PROVE call'[c] = call[c]
    BY <1>4, <1>5
  <1>6. ASSUME NEW c \in Calls, Running(c)
        PROVE call'[c] = [call[c] EXCEPT !.stage = "dead"]
    BY <1>4, <1>6
  <1>7. QED
    BY <1>2, <1>3, <1>5, <1>6, Zenon

\* The first state is well formed.
LEMMA BaseInit == Init => Base
  BY DEF Init, Base, TypeOK, StageInv, NewCall, Call, Stages, Statuses, Undecided

\* The steps of a call keep types and stages.
LEMMA BaseEffect == ASSUME Base, BackedInv, NEW c \in Calls, Effect(c) PROVE Base'
  <1> USE DEF Base, Keeps, Throws
  <1>t. call \in [Calls -> Call] /\ now + Ttl \in Nat /\ {Free, Reserved} \cup Calls = Calls \cup {Free, Reserved}
    BY PublishAssumption DEF TypeOK
  <1>c. call' \in [Calls -> Call]
    BY DEF Effect, Refuses, Reads, Counts, RollsBack, Reserves, LooksUp, Replays, Commits,
           Stores, Finishes, Releases, Rejects, Becomes, IsRead, IsCounted, Others
  <1>1. TypeOK'
    <2>1. CASE UNCHANGED <<now, store, expiry, holder, events>> /\ DOMAIN window' = Identities /\ faults' \in Nat
      BY <1>c, <2>1 DEF TypeOK
    <2>2. CASE Reserves(c)
      BY <1>c, <1>t, <2>2 DEF Reserves, TypeOK
    <2>3. CASE Commits(c)
      <3>1. PICK targets \in SUBSET Endpoints : events' = events \cup
               {[id |-> c, key |-> call[c].idem, at |-> now, targets |-> targets]}
        BY <2>3 DEF Commits
      <3>2. call[c].idem \in IdempotencyKeys
        BY <2>3 DEF Commits, At, StageInv, Undecided
      <3>3. [id |-> c, key |-> call[c].idem, at |-> now, targets |-> targets]
               \in [id : Calls, key : IdempotencyKeys, at : Nat, targets : SUBSET Endpoints]
        BY <3>2 DEF TypeOK
      <3>4. QED  BY <1>c, <2>3, <3>1, <3>3 DEF Commits, TypeOK
    <2>4. CASE Stores(c)
      <3>1. call[c].event = c
        BY <2>4 DEF Stores, At, BackedInv
      <3>2. QED  BY <1>c, <1>t, <2>4, <3>1 DEF Stores, TypeOK
    <2>5. CASE Releases(c)
      BY <1>c, <2>5 DEF Releases, TypeOK
    <2>6. CASE Rejects(c)
      <3>1. faults' = faults + 1 /\ UNCHANGED <<now, window, store, expiry, holder, events>>
        BY <2>6, Zenon DEF Rejects
      <3>2. QED  BY <2>1, <3>1 DEF TypeOK
    <2>7. CASE Refuses(c) \/ Reads(c) \/ Counts(c) \/ RollsBack(c) \/ LooksUp(c) \/ Replays(c) \/ Finishes(c)
      <3>1. UNCHANGED <<now, store, expiry, holder, events, faults>> /\ DOMAIN window' = Identities
        BY <2>7 DEF Refuses, Reads, Counts, RollsBack, LooksUp, Replays, Finishes, TypeOK
      <3>2. QED  BY <2>1, <3>1 DEF TypeOK
    <2>8. QED
      BY <2>2, <2>3, <2>4, <2>5, <2>6, <2>7 DEF Effect
  <1>2. StageInv'
    <2>1. CASE Refuses(c)
      BY <2>1 DEF Refuses, Becomes, Others, StageInv, Undecided, At
    <2>2. CASE Reads(c)
      BY <2>2 DEF Reads, IsRead, Others, StageInv, Undecided, At
    <2>3. CASE Counts(c)
      BY <2>3 DEF Counts, IsCounted, Others, StageInv, Undecided, At
    <2>4. CASE RollsBack(c)
      BY <2>4 DEF RollsBack, Becomes, Others, StageInv, Undecided, At
    <2>5. CASE Reserves(c)
      BY <2>5 DEF Reserves, Becomes, Others, StageInv, Undecided, At
    <2>6. CASE LooksUp(c)
      BY <2>6 DEF LooksUp, Becomes, Others, StageInv, Undecided, At
    <2>7. CASE Replays(c)
      BY <2>7 DEF Replays, Becomes, Others, StageInv, Undecided, At
    <2>8. CASE Commits(c)
      BY <2>8 DEF Commits, Becomes, Others, StageInv, Undecided, At
    <2>9. CASE Stores(c)
      BY <2>9 DEF Stores, Becomes, Others, StageInv, Undecided, At
    <2>10. CASE Finishes(c)
      BY <2>10 DEF Finishes, Becomes, Others, StageInv, Undecided, At
    <2>11. CASE Releases(c)
      BY <2>11 DEF Releases, Becomes, Others, StageInv, Undecided, At
    <2>12. CASE Rejects(c)
      BY <2>12 DEF Rejects, Becomes, Others, StageInv, Undecided, At, TypeOK
    <2>13. QED
      BY <2>1, <2>2, <2>3, <2>4, <2>5, <2>6, <2>7, <2>8, <2>9, <2>10, <2>11, <2>12 DEF Effect
  <1>3. QED  BY <1>1, <1>2

\* Types and stages are inductive.
LEMMA BaseStep == Base /\ BackedInv /\ [Next]_vars => Base'
  <1> SUFFICES ASSUME Base, BackedInv, [Next]_vars PROVE Base'
    OBVIOUS
  <1> USE DEF Base
  <1>1. ASSUME NEW c \in Calls, Step(c) \/ RejectedAwait(c) PROVE Base'
    BY <1>1, Effects, BaseEffect
  <1>2. CASE Die
    <2>1. TypeOK'
      BY <1>2, DieEffect DEF Die, TypeOK
    <2>2. StageInv'
      BY <1>2, DieEffect DEF StageInv, Undecided, Running
    <2>3. QED  BY <2>1, <2>2
  <1>3. CASE Tick
    BY <1>3 DEF Tick, TypeOK, StageInv
  <1>4. CASE UNCHANGED vars
    BY <1>4 DEF TypeOK, StageInv, vars
  <1>5. QED
    BY <1>1, <1>2, <1>3, <1>4 DEF Next
-----------------------------------------------------------------------------
\* No response exists at the start.
LEMMA BackedInit == Init => BackedInv
  BY CallsAssumption DEF Init, BackedInv, NewCall, Free

\* Events are only added.
LEMMA EventsGrow == ASSUME Base, [Next]_vars PROVE events \subseteq events'
  <1>1. ASSUME NEW c \in Calls, Step(c) \/ RejectedAwait(c) PROVE events \subseteq events'
    BY <1>1, Effects DEF Effect, Refuses, Reads, Counts, RollsBack, Reserves, LooksUp, Replays,
       Commits,
           Stores, Finishes, Releases, Rejects
  <1>2. QED
    BY <1>1 DEF Next, Die, Tick, vars

\* A response is only ever taken from a committed event or from the store.
LEMMA BackedStep == Base /\ BackedInv /\ [Next]_vars => BackedInv'
  <1> SUFFICES ASSUME Base, BackedInv, [Next]_vars PROVE BackedInv'
    OBVIOUS
  <1> USE DEF Base
  <1>1. \A id, key : Backed(id, key) => Backed(id, key)'
    BY EventsGrow DEF Backed
  <1>2. ASSUME NEW c \in Calls, Effect(c) PROVE BackedInv'
    <2> HIDE DEF Base
    <2> USE <1>1 DEF BackedInv, Keeps, Throws, At
    <2>1. CASE Refuses(c)
      BY <2>1 DEF Refuses, Becomes, Others
    <2>2. CASE Reads(c)
      BY <2>2 DEF Reads, IsRead, Others, Base, StageInv, Undecided
    <2>3. CASE Counts(c)
      BY <2>3 DEF Counts, IsCounted, Others
    <2>4. CASE RollsBack(c)
      BY <2>4 DEF RollsBack, Becomes, Others
    <2>5. CASE Reserves(c)
      BY <2>5, CallsAssumption DEF Reserves, Becomes, Others, Base, TypeOK, Free, Reserved
    <2>6. CASE LooksUp(c)
      BY <2>6 DEF LooksUp, Becomes, Others
    <2>7. CASE Replays(c)
      BY <2>7 DEF Replays, Becomes, Others, Base, StageInv, Undecided
    <2>8. CASE Commits(c)
      <3>1. Backed(c, call[c].idem)'
        <4>1. PICK targets \in SUBSET Endpoints : events' = events \cup
                 {[id |-> c, key |-> call[c].idem, at |-> now, targets |-> targets]}
          BY <2>8 DEF Commits
        <4> DEFINE e == [id |-> c, key |-> call[c].idem, at |-> now, targets |-> targets]
        <4>2. e \in events' /\ e.id = c /\ e.key = call[c].idem
          BY <4>1
        <4> HIDE DEF e
        <4>3. call'[c].idem = call[c].idem
          BY <2>8 DEF Commits, Becomes
        <4>4. QED  BY <4>2, <4>3, Zenon DEF Backed
      <3>2. QED  BY <2>8, <3>1 DEF Commits, Becomes, Others
    <2>9. CASE Stores(c)
      BY <2>9 DEF Stores, Becomes, Others, Base, TypeOK
    <2>10. CASE Finishes(c)
      BY <2>10 DEF Finishes, Becomes, Others
    <2>11. CASE Releases(c)
      BY <2>11, CallsAssumption DEF Releases, Becomes, Others, Base, TypeOK, Free
    <2>12. CASE Rejects(c)
      BY <2>12 DEF Rejects, Becomes, Others
    <2>13. QED
      BY <1>2, <2>1, <2>2, <2>3, <2>4, <2>5, <2>6, <2>7, <2>8, <2>9, <2>10, <2>11, <2>12 DEF Effect
  <1>3. CASE Die
    BY <1>1, <1>3, DieEffect DEF Die, BackedInv
  <1>4. CASE Tick
    BY <1>1, <1>4, CallsAssumption DEF Tick, BackedInv, Free
  <1>5. CASE UNCHANGED vars
    BY <1>1, <1>5 DEF BackedInv, vars
  <1>6. QED
    BY <1>2, <1>3, <1>4, <1>5, Effects DEF Next

\* idempotency.js, publish.js: an accepted call names an event committed under its key.
THEOREM AcceptedBacked == Spec => []AcceptedIsBacked
  <1>1. Init => Base /\ BackedInv
    BY BaseInit, BackedInit
  <1>2. Base /\ BackedInv /\ [Next]_vars => (Base /\ BackedInv)'
    BY BaseStep, BackedStep
  <1>3. BackedInv => AcceptedIsBacked
    BY DEF BackedInv, Backed, AcceptedIsBacked
  <1>4. QED
    BY <1>1, <1>2, <1>3, PTL DEF Spec
-----------------------------------------------------------------------------
\* Nobody holds a key at the start.
LEMMA HolderInit == Init => HolderInv
  BY DEF Init, HolderInv, Holder, NewCall

\* A key is taken when it is free, and expires only after its holder is over.
LEMMA HolderStep == Base /\ BackedInv /\ HolderInv /\ [Next]_vars => HolderInv'
  <1> SUFFICES ASSUME Base, BackedInv, HolderInv, [Next]_vars PROVE HolderInv'
    OBVIOUS
  <1>0. Free # Reserved /\ \A c \in Calls : c # Free /\ c # Reserved
    BY CallsAssumption DEF Free, Reserved
  <1>1. ASSUME NEW c \in Calls, Effect(c) PROVE HolderInv'
    <2> USE DEF HolderInv, Holder, Running, Keeps, Throws, At
    <2>1. CASE Refuses(c)
      BY <2>1 DEF Refuses, Becomes, Others, Base, StageInv, Undecided
    <2>2. CASE Reads(c)
      BY <2>2 DEF Reads, IsRead, Others, Base, StageInv, Undecided
    <2>3. CASE Counts(c)
      BY <2>3 DEF Counts, IsCounted, Others, Base, StageInv
    <2>4. CASE RollsBack(c)
      BY <2>4 DEF RollsBack, Becomes, Others, Base, StageInv
    <2>5. CASE Reserves(c)
      BY <2>5, <1>0 DEF Reserves, Becomes, Others, Base, StageInv, Undecided, TypeOK
    <2>6. CASE LooksUp(c)
      BY <2>6 DEF LooksUp, Becomes, Others, Base, StageInv
    <2>7. CASE Replays(c)
      BY <2>7 DEF Replays, Becomes, Others, Base, StageInv
    <2>8. CASE Commits(c)
      BY <2>8 DEF Commits, Becomes, Others
    <2>9. CASE Stores(c)
      BY <2>9 DEF Stores, Becomes, Others, Base, StageInv, Undecided, TypeOK, BackedInv
    <2>10. CASE Finishes(c)
      BY <2>10 DEF Finishes, Becomes, Others
    <2>11. CASE Releases(c)
      BY <2>11 DEF Releases, Becomes, Others, Base, StageInv, TypeOK
    <2>12. CASE Rejects(c)
      <3>1. CASE Keeps(c, "stuck")
        BY <2>12, <3>1 DEF Rejects, Becomes, Others
      <3>2. ASSUME NEW marked, call[c].stage \in Undecided \ {"idle"},
                   Becomes(c, "finish", 500, call[c].event, call[c].holds, marked)
            PROVE  HolderInv'
        BY <2>12, <3>2 DEF Rejects, Becomes, Others, Base, StageInv, Undecided
      <3>3. QED  BY <2>12, <3>1, <3>2 DEF Rejects
    <2>13. QED
      BY <1>1, <2>1, <2>2, <2>3, <2>4, <2>5, <2>6, <2>7, <2>8, <2>9, <2>10, <2>11, <2>12 DEF Effect
  <1>2. CASE Die
    <2>1. \A c \in Calls : ~ Holder(c)'
      BY <1>2, DieEffect DEF Base, Holder, Running
    <2>2. QED  BY <2>1 DEF HolderInv
  <1>3. CASE Tick
    <2>1. \A c \in Calls : Holder(c)' <=> Holder(c)
      BY <1>3 DEF Tick, Holder, Running
    <2>2. ASSUME NEW c \in Calls, Holder(c)
          PROVE  store'[call[c].idem] = store[call[c].idem]
      BY <1>3, <2>2 DEF Tick, Holder, Base, StageInv, TypeOK
    <2>3. QED
      BY <1>3, <2>1, <2>2 DEF HolderInv, Tick
  <1>4. CASE UNCHANGED vars
    BY <1>4 DEF HolderInv, Holder, Running, vars
  <1>5. QED
    BY <1>1, <1>2, <1>3, <1>4, Effects DEF Next

\* The call that took key k last, on its way or interrupted.
TookKey(c, k) ==
    /\ c = holder[k] /\ call[c].idem = k /\ call[c].holds
    /\ Running(c) \/ Interrupted(c)

\* A call that only moves on keeps its key while it runs or is interrupted.
LEMMA Stops ==
    ASSUME NEW c \in Calls, NEW k \in IdempotencyKeys, NEW stage, TookKey(c, k), Keeps(c, stage),
           holder'[k] = holder[k],
           \/ stage \in {"release", "closed", "stuck"}
           \/ call[c].stored /\ call[c].status = 500
    PROVE  TookKey(c, k)'
  <1>1. /\ call'[c].stage = stage /\ call'[c].idem = call[c].idem /\ call'[c].holds = call[c].holds
        /\ call'[c].stored = call[c].stored /\ call'[c].status = call[c].status
    BY DEF Keeps, Becomes
  <1>2. (Running(c) \/ Interrupted(c))'
    BY <1>1 DEF Running, Interrupted, At
  <1>3. QED
    BY <1>1, <1>2, Zenon DEF TookKey

\* The call that took a key goes on to store its response or give the key back, or
\* it is interrupted, and then it stays the last one that took the key.
LEMMA ReservedStep ==
    Base /\ BackedInv /\ HolderInv /\ ReservedIsHeld /\ [Next]_vars => ReservedIsHeld'
  <1> SUFFICES ASSUME Base, BackedInv, HolderInv, ReservedIsHeld, [Next]_vars,
                      NEW k \in IdempotencyKeys, store'[k] = Reserved
               PROVE  \E c \in Calls : TookKey(c, k)'
    BY DEF ReservedIsHeld, TookKey
  <1>0. Free # Reserved /\ \A c \in Calls : c # Free /\ c # Reserved
    BY CallsAssumption DEF Free, Reserved
  <1>1. ASSUME NEW c \in Calls, Effect(c) PROVE \E d \in Calls : TookKey(d, k)'
    <2>1. CASE store[k] # Reserved
      <3>1. Reserves(c) /\ k = call[c].idem
        <4>1. ~ Stores(c)
          BY <2>1, <1>0 DEF Stores, At, BackedInv, Base, TypeOK
        <4>2. QED
          BY <1>1, <1>0, <2>1, <4>1 DEF Base, TypeOK, Effect, Refuses, Reads, Counts,
             RollsBack, Reserves,
             LooksUp, Replays, Commits, Finishes, Releases, Rejects
      <3>2. QED  BY <3>1 DEF Reserves, Becomes, Others, TookKey, Running, Base, TypeOK
    <2>2. CASE store[k] = Reserved
      <3>1. PICK d \in Calls : TookKey(d, k)
        BY <2>2 DEF ReservedIsHeld, TookKey
      <3>2. holder'[k] = holder[k]
        <4>1. CASE Reserves(c)
          BY <4>1, <2>2, <1>0 DEF Reserves, Base, TypeOK, StageInv
        <4>2. QED
          BY <1>1, <4>1 DEF Effect, Refuses, Reads, Counts, RollsBack, LooksUp, Replays, Commits,
             Stores, Finishes, Releases, Rejects
      <3>3. CASE d # c
        <4>1. call'[d] = call[d]
          BY <1>1, <3>1, <3>3 DEF Effect, Refuses, Reads, Counts, RollsBack, Reserves, LooksUp,
             Replays, Commits, Stores, Finishes, Releases, Rejects, Becomes, IsRead, IsCounted,
             Others, Keeps, Throws
        <4>2. QED  BY <3>1, <3>2, <4>1 DEF TookKey, Running, Interrupted, At
      <3>4. CASE d = c
        <4> SUFFICES TookKey(c, k)'
          OBVIOUS
        <4>k. TookKey(c, k)
          BY <3>1, <3>4
        <4>0. Running(c) /\ call[c].holds /\ call[c].idem = k
          BY <1>1, <3>1, <3>4 DEF TookKey, Running, Effect, Refuses, Reads, Counts, RollsBack,
             Reserves, LooksUp, Replays, Commits, Stores, Finishes, Releases, Rejects, At,
             Undecided, Base, StageInv
        <4>1. ~ Stores(c) /\ ~ Releases(c)
          BY <4>0, <1>0 DEF Stores, Releases, At, BackedInv, Base, TypeOK
        <4>2. CASE Finishes(c)
          <5>1. Holder(c)
            BY <4>0 DEF Holder
          <5>2. /\ call[c].status \in Statuses \ {0, 202}
                /\ call[c].stored => call[c].status = 500
            BY <1>0, <2>2, <4>0, <4>2, <5>1
               DEF Finishes, At, HolderInv, Base, StageInv, TypeOK, Call
          <5>3. call[c].status >= 400
            BY <5>2 DEF Statuses
          <5>4. CASE call[c].stored
            <6>1. call[c].status = 500
              BY <5>2, <5>4
            <6>2. PICK stage \in {"done", "closed"} : Keeps(c, stage)
              BY <4>2, <5>4 DEF Finishes
            <6>3. QED  BY <4>k, <3>2, <5>4, <6>1, <6>2, Stops
          <5>5. CASE ~ call[c].stored /\ Keeps(c, "release")
            BY <4>k, <3>2, <5>5, Stops
          <5>6. CASE Keeps(c, "closed")
            BY <4>k, <3>2, <5>6, Stops
          <5>7. QED  BY <4>0, <4>2, <5>3, <5>4, <5>5, <5>6 DEF Finishes
        <4>3. CASE Rejects(c)
          <5>1. CASE Keeps(c, "stuck")
            BY <4>k, <3>2, <5>1, Stops
          <5>2. ASSUME NEW marked, Becomes(c, "finish", 500, call[c].event, call[c].holds, marked)
                PROVE  TookKey(c, k)'
            BY <3>1, <3>2, <3>4, <4>0, <5>2 DEF Becomes, TookKey, Running
          <5>3. QED  BY <4>3, <5>1, <5>2 DEF Rejects
        <4>4. QED
          BY <1>1, <3>1, <3>2, <3>4, <4>0, <4>1, <4>2, <4>3 DEF TookKey, Running, Effect, Refuses,
             Reads, Counts, RollsBack, Reserves, LooksUp, Replays, Commits, Becomes, IsRead,
             IsCounted, Keeps, Throws, At, Base, StageInv
      <3>5. QED  BY <3>3, <3>4
    <2>3. QED  BY <2>1, <2>2
  <1>2. CASE Die
    <2>1. PICK c \in Calls : TookKey(c, k)
      BY <1>2 DEF Die, ReservedIsHeld, TookKey
    <2>2. TookKey(c, k)'
      BY <1>2, <2>1, DieEffect DEF Die, Base, TookKey, Running, Interrupted, At
    <2>3. QED  BY <2>2
  <1>3. CASE Tick
    BY <1>3, <1>0 DEF Tick, ReservedIsHeld, TookKey, Running, Interrupted, At
  <1>4. CASE UNCHANGED vars
    BY <1>4 DEF ReservedIsHeld, TookKey, Running, Interrupted, At, vars
  <1>5. QED
    BY <1>1, <1>2, <1>3, <1>4, Effects DEF Next

\* idempotency.js: a reserved key belongs to the call that took it, which is running or
\* was interrupted.
THEOREM ReservationHeld == Spec => []ReservedIsHeld
  <1> DEFINE Inv == Base /\ BackedInv /\ HolderInv /\ ReservedIsHeld
  <1>1. Init => Inv
    <2>1. Init => ReservedIsHeld
      BY DEF Init, ReservedIsHeld, Free, Reserved
    <2>2. QED  BY <2>1, BaseInit, BackedInit, HolderInit
  <1>2. Inv /\ [Next]_vars => Inv'
    BY BaseStep, BackedStep, HolderStep, ReservedStep
  <1>3. QED
    BY <1>1, <1>2, PTL DEF Spec
-----------------------------------------------------------------------------
\* What stands between two events of one key.
Unambiguous == EventInv /\ OneEventPerKey
\* No event exists at the start.
LEMMA EventInit == Init => Unambiguous
  BY DEF Init, EventInv, OneEventPerKey, Unambiguous

\* The young answered events of a key a call still holds are its own.
LEMMA Young ==
    ASSUME Base, HolderInv, EventInv, NEW c \in Calls, Holder(c),
           NEW e \in events, e.key = call[c].idem, e.id # c, now < e.at + Ttl
    PROVE  Unanswered(e.id)
  <1>0. e.id \in Calls
    BY DEF Base, TypeOK
  <1>1. call[e.id].idem = call[c].idem /\ Answered(e)
    BY DEF EventInv, Committed
  <1>2. call[e.id].stage # "store"
    BY <1>0, <1>1 DEF HolderInv, Holder, Running, Base, StageInv
  <1>3. call[e.id].status = 202 => At(e.id, "dead")
    BY <1>0 DEF EventInv, Guarded
  <1>4. QED
    BY <1>1, <1>2, <1>3 DEF Answered, Unanswered, At

\* A caller that was told 500, or nothing, is not answered later.
LEMMA UnansweredStays ==
    ASSUME Base, [Next]_vars, NEW c \in Calls, Unanswered(c) PROVE Unanswered(c)'
  <1>0. call[c].stage \in {"finish", "release", "done", "closed", "stuck", "dead"}
    BY DEF Unanswered, At, Base, StageInv, TypeOK, Call, Stages, Undecided
  <1>1. ASSUME NEW d \in Calls, Effect(d) PROVE Unanswered(c)'
    <2>1. CASE d # c
      BY <1>1, <2>1 DEF Unanswered, At, Effect, Refuses, Reads, Counts, RollsBack, Reserves,
         LooksUp, Replays,
         Commits, Stores, Finishes, Releases, Rejects, Becomes, IsRead, IsCounted, Others, Keeps,
         Throws
    <2>2. CASE d = c
      BY <1>0, <1>1, <2>2 DEF Unanswered, At, Effect, Refuses, Reads, Counts, RollsBack,
         Reserves, LooksUp, Replays,
         Commits, Stores, Finishes, Releases, Rejects, Becomes, IsRead, IsCounted, Keeps, Throws,
         Undecided
    <2>3. QED  BY <2>1, <2>2
  <1>2. CASE Die
    BY <1>2, DieEffect DEF Unanswered, At, Base
  <1>3. QED
    BY <1>1, <1>2, Effects DEF Next, Tick, Unanswered, At, vars

\* An event that was committed stays so, whatever its call or another one does.
LEMMA OldEvent ==
    ASSUME Base, BackedInv, HolderInv, EventInv, NEW c \in Calls, Effect(c), NEW e \in events
    PROVE  /\ Committed(e)' /\ Answered(e)'
           /\ call'[e.id].status = 202 /\ ~ At(e.id, "dead")' /\ now' < e.at + Ttl => Guarded(e)'
  <1>0. /\ e.id \in Calls /\ e.key \in IdempotencyKeys /\ now' = now
        /\ call[e.id].stage \in {"store", "finish", "release", "done", "closed", "stuck", "dead"}
        /\ Committed(e) /\ Answered(e)
    BY DEF Base, TypeOK, EventInv, Answered, Effect, Refuses, Reads, Counts, RollsBack, Reserves,
       LooksUp, Replays,
         Commits, Stores, Finishes, Releases, Rejects
  <1>a. c = e.id => Stores(c) \/ Finishes(c) \/ Releases(c) \/ Rejects(c)
    <2> SUFFICES ASSUME c = e.id PROVE Stores(c) \/ Finishes(c) \/ Releases(c) \/ Rejects(c)
      OBVIOUS
    <2>1. call[c].stage \in {"store", "finish", "release", "done", "closed", "stuck", "dead"}
      BY <1>0
    <2>2. ~ Refuses(c) /\ ~ Reads(c) /\ ~ Counts(c) /\ ~ RollsBack(c)
      <3>1. Refuses(c) => call[c].stage \in {"idle", "reserve", "lookup", "publish"}
        BY DEF Refuses
      <3>2. Reads(c) \/ Counts(c) \/ RollsBack(c) => call[c].stage \in {"idle", "claim", "rollback"}
        BY DEF Reads, Counts, RollsBack, At
      <3>3. QED  BY <2>1, <3>1, <3>2
    <2>3. ~ Reserves(c) /\ ~ LooksUp(c) /\ ~ Replays(c) /\ ~ Commits(c)
      BY <2>1 DEF Reserves, LooksUp, Replays, Commits, At
    <2>4. QED  BY <2>2, <2>3 DEF Effect
  <1>1. Committed(e)' /\ Answered(e)'
    <2>1. CASE c # e.id
      BY <1>0, <2>1 DEF Committed, Answered, Effect, Refuses, Reads, Counts, RollsBack, Reserves,
         LooksUp, Replays,
         Commits, Stores, Finishes, Releases, Rejects, Becomes, IsRead, IsCounted, Others, Keeps,
         Throws
    <2>2. CASE c = e.id
      <3>1. Stores(c) \/ Finishes(c) \/ Releases(c) \/ Rejects(c)
        BY <1>a, <2>2
      <3>2. CASE Stores(c)
        BY <1>0, <2>2, <3>2 DEF Committed, Answered, Stores, Becomes
      <3>3. CASE Finishes(c)
        BY <1>0, <2>2, <3>3 DEF Committed, Answered, Finishes, Becomes, Keeps, At
      <3>4. CASE Releases(c)
        BY <1>0, <2>2, <3>4 DEF Committed, Answered, Releases, Becomes, At
      <3>5. CASE Rejects(c)
        BY <1>0, <2>2, <3>5 DEF Committed, Answered, Rejects, Becomes, Keeps, At, Undecided
      <3>6. QED  BY <3>1, <3>2, <3>3, <3>4, <3>5
    <2>3. QED  BY <2>1, <2>2
  <1>2. ASSUME call'[e.id].status = 202, ~ At(e.id, "dead")', now' < e.at + Ttl
        PROVE  Guarded(e)'
    <2>1. CASE Stores(c) /\ c = e.id
      <3>1. /\ store'[e.key] = c /\ expiry'[e.key] = now + Ttl /\ e.at <= now
            /\ call[c].idem = e.key /\ Holder(c)
        BY <1>0, <2>1 DEF Stores, Committed, Base, TypeOK, StageInv, Holder, Running, At
      <3>2. \A d \in Calls : Holder(d)' => Holder(d) /\ call'[d].idem = call[d].idem
        BY <2>1 DEF Stores, Becomes, Others, Holder, Running, At, Base, StageInv
      <3>3. QED
        BY <1>0, <2>1, <3>1, <3>2, PublishAssumption DEF Guarded, HolderInv, Base, TypeOK
    <2>2. CASE ~ (Stores(c) /\ c = e.id)
      <3>1. call[e.id].status = 202 /\ ~ At(e.id, "dead")
        <4>1. CASE c # e.id
          BY <1>0, <1>2, <4>1 DEF At, Effect, Refuses, Reads, Counts, RollsBack, Reserves,
             LooksUp, Replays,
             Commits, Stores, Finishes, Releases, Rejects, Becomes, IsRead, IsCounted, Others,
             Keeps, Throws
        <4>2. CASE c = e.id
          <5>1. Finishes(c) \/ Releases(c) \/ Rejects(c)
            BY <1>a, <2>2, <4>2
          <5>2. QED
            BY <1>2, <4>2, <5>1 DEF Finishes, Releases, Rejects, Becomes, Keeps, At
        <4>3. QED  BY <4>1, <4>2
      <3>2. Guarded(e)
        BY <1>0, <1>2, <3>1 DEF EventInv
      <3>3. c = e.id => ~ Releases(c)
        <4>1. ASSUME c = e.id, call[c].stage = "release" PROVE FALSE
          <5>1. call[c].status = 202 /\ call[c].status = 500
            BY <1>0, <3>1, <4>1 DEF Answered
          <5>2. QED  BY <5>1
        <4>2. QED  BY <4>1 DEF Releases, At
      <3>4. /\ Stores(c) \/ Releases(c) => call[c].idem # e.key
            /\ Reserves(c) => call[c].idem # e.key
        <4>1. Stores(c) \/ Releases(c) => Holder(c) /\ c # e.id
          BY <2>2, <3>3 DEF Stores, Releases, Holder, Running, At, Base, StageInv
        <4>2. e.id # Free
          BY <1>0, CallsAssumption DEF Free
        <4>3. QED
          BY <3>2, <4>1, <4>2 DEF Guarded, Reserves
      <3>5. store'[e.key] = store[e.key] /\ expiry'[e.key] = expiry[e.key]
        <4>1. CASE Stores(c) \/ Releases(c) \/ Reserves(c)
          BY <1>0, <3>4, <4>1 DEF Reserves, Stores, Releases, Base, TypeOK
        <4>2. CASE ~ (Stores(c) \/ Releases(c) \/ Reserves(c))
          BY <4>2 DEF Effect, Refuses, Reads, Counts, RollsBack, LooksUp, Replays, Commits,
             Finishes, Rejects
        <4>3. QED  BY <4>1, <4>2
      <3>6. ASSUME NEW d \in Calls, Holder(d)', call'[d].idem = e.key PROVE d = e.id
        <4>1. CASE Reserves(c) /\ d = c
          BY <3>4, <3>6, <4>1 DEF Reserves, Becomes
        <4>2. CASE ~ (Reserves(c) /\ d = c)
          <5>1. Holder(d) /\ call'[d].idem = call[d].idem
            <6>1. CASE d # c
              BY <3>6, <6>1 DEF Holder, Running, Effect, Refuses, Reads, Counts, RollsBack,
                 Reserves, LooksUp, Replays,
                 Commits, Stores, Finishes, Releases, Rejects, Becomes, IsRead, IsCounted,
                 Others, Keeps, Throws
            <6>2. CASE d = c
              BY <3>6, <4>2, <6>2 DEF Holder, Running, At, Effect, Refuses, Reads, Counts,
                 RollsBack, LooksUp, Replays,
                 Commits, Stores, Finishes, Releases, Rejects, Becomes, IsRead, IsCounted, Keeps,
                 Throws,
                 Base, StageInv, Undecided
            <6>3. QED  BY <6>1, <6>2
          <5>2. QED  BY <3>2, <3>6, <5>1 DEF Guarded
        <4>3. QED  BY <4>1, <4>2
      <3>7. QED  BY <3>2, <3>5, <3>6 DEF Guarded
    <2>3. QED  BY <2>1, <2>2
  <1>3. QED  BY <1>1, <1>2

\* A new event meets no young event of its key whose caller was answered.
LEMMA EventStep ==
    Base /\ BackedInv /\ HolderInv /\ Unambiguous /\ [Next]_vars => Unambiguous'
  <1> SUFFICES ASSUME Base, BackedInv, HolderInv, EventInv, OneEventPerKey, [Next]_vars
               PROVE  EventInv' /\ OneEventPerKey'
    BY DEF Unambiguous
  <1>0. \A e \in events : e.id \in Calls /\ e.key \in IdempotencyKeys /\ e.at \in Nat /\ now \in Nat
    BY DEF Base, TypeOK
  <1>1. ASSUME NEW e \in events, NEW f \in events, e # f, e.key = f.key, e.at <= f.at
        PROVE  Unanswered(e.id)' \/ Unanswered(f.id)' \/ f.at - e.at >= Ttl
    BY <1>0, <1>1, UnansweredStays DEF OneEventPerKey
  <1>2. CASE events' = events
    <2>1. OneEventPerKey'
      BY <1>1, <1>2 DEF OneEventPerKey
    <2>2. ASSUME NEW e \in events
          PROVE  /\ Committed(e)' /\ Answered(e)'
                 /\ call'[e.id].status = 202 /\ ~ At(e.id, "dead")' /\ now' < e.at + Ttl => Guarded(e)'
      <3>1. ASSUME NEW c \in Calls, Step(c) \/ RejectedAwait(c)
            PROVE  /\ Committed(e)' /\ Answered(e)'
                   /\ call'[e.id].status = 202 /\ ~ At(e.id, "dead")' /\ now' < e.at + Ttl => Guarded(e)'
        BY <3>1, Effects, OldEvent
      <3>2. CASE Die
        <4>1. \A d \in Calls : ~ Holder(d)'
          BY <3>2, DieEffect DEF Base, Holder, Running
        <4>2. Committed(e)' /\ Answered(e)'
          BY <1>0, <3>2, DieEffect DEF Base, EventInv, Committed, Answered, Die
        <4>3. call'[e.id].status = 202 /\ ~ At(e.id, "dead")' => call[e.id].status = 202 /\ ~ At(e.id, "dead")
          BY <1>0, <3>2, DieEffect DEF Base, At
        <4>4. UNCHANGED <<now, store, expiry>>
          BY <3>2 DEF Die
        <4>5. QED  BY <4>1, <4>2, <4>3, <4>4 DEF EventInv, Guarded
      <3>3. CASE Tick
        <4>1. Committed(e)' /\ Answered(e)'
          BY <1>0, <3>3 DEF Tick, EventInv, Committed, Answered
        <4>2. ASSUME call'[e.id].status = 202, ~ At(e.id, "dead")', now' < e.at + Ttl PROVE Guarded(e)'
          <5>1. Guarded(e)
            BY <1>0, <3>3, <4>2, PublishAssumption DEF EventInv, Tick, At
          <5>2. store'[e.key] = store[e.key]
            BY <1>0, <3>3, <4>2, <5>1, PublishAssumption DEF Guarded, Tick, Base, TypeOK
          <5>3. QED  BY <3>3, <5>1, <5>2 DEF Guarded, Tick, Holder, Running
        <4>3. QED  BY <4>1, <4>2
      <3>4. CASE UNCHANGED vars
        BY <3>4 DEF vars, EventInv, Committed, Answered, Guarded, At, Holder, Running
      <3>5. QED  BY <3>1, <3>2, <3>3, <3>4 DEF Next
    <2>3. EventInv'
      BY <1>2, <2>2 DEF EventInv
    <2>4. QED  BY <2>1, <2>3
  <1>3. CASE events' # events
    <2>1. PICK c \in Calls : Effect(c)
      BY <1>3, Effects DEF Next, Die, Tick, vars
    <2>2. Commits(c)
      BY <1>3, <2>1 DEF Effect, Refuses, Reads, Counts, RollsBack, Reserves, LooksUp, Replays,
         Stores, Finishes, Releases, Rejects
    <2>3. PICK targets \in SUBSET Endpoints : events' = events \cup
             {[id |-> c, key |-> call[c].idem, at |-> now, targets |-> targets]}
      BY <2>2 DEF Commits
    <2>4. PICK n : n.id = c /\ n.key = call[c].idem /\ n.at = now /\ events' = events \cup {n}
      BY <2>3
    <2>5. /\ Holder(c) /\ now' = now /\ call'[c].stage = "store" /\ call'[c].event = c
          /\ call'[c].idem = call[c].idem /\ call'[c].status = 0
      BY <2>2 DEF Commits, Becomes, Holder, Running, At, Base, StageInv, Undecided
    <2>6. \A e \in events : e.id # c
      BY <2>2 DEF Commits, At, EventInv, Answered
    <2>7. Committed(n)' /\ Answered(n)'
      BY <1>0, <2>4, <2>5 DEF Committed, Answered, Base, TypeOK
    <2>8. EventInv'
      <3>1. ASSUME NEW e \in events
            PROVE  /\ Committed(e)' /\ Answered(e)'
                   /\ call'[e.id].status = 202 /\ ~ At(e.id, "dead")' /\ now' < e.at + Ttl => Guarded(e)'
        BY <2>1, OldEvent
      <3>2. \A e \in events' : Committed(e)' /\ Answered(e)'
        BY <2>4, <2>7, <3>1
      <3>3. \A e, f \in events' : e.id = f.id => e = f
        BY <2>4, <2>6 DEF EventInv
      <3>4. ASSUME NEW e \in events', call'[e.id].status = 202, ~ At(e.id, "dead")', now' < e.at + Ttl
            PROVE  Guarded(e)'
        <4>1. e # n
          BY <2>4, <2>5, <3>4
        <4>2. QED  BY <2>4, <3>1, <3>4, <4>1
      <3>5. QED  BY <3>2, <3>3, <3>4 DEF EventInv
    <2>9. ASSUME NEW e \in events, e.key = n.key, now < e.at + Ttl PROVE Unanswered(e.id)'
      <3>1. Unanswered(e.id)
        BY <2>4, <2>5, <2>6, <2>9, Young
      <3>2. QED  BY <1>0, <3>1, UnansweredStays
    <2>10. \A e \in events : e.at <= now
      BY DEF EventInv, Committed
    <2>11. ASSUME NEW e \in events', NEW f \in events', e # f, e.key = f.key, e.at <= f.at
           PROVE  Unanswered(e.id)' \/ Unanswered(f.id)' \/ f.at - e.at >= Ttl
      <3>1. CASE e \in events /\ f \in events
        BY <1>1, <2>11, <3>1
      <3>2. CASE e \in events /\ f = n
        BY <1>0, <2>4, <2>9, <2>11, <3>2, PublishAssumption
      <3>3. CASE e = n /\ f \in events
        BY <1>0, <2>4, <2>9, <2>10, <2>11, <3>3, PublishAssumption
      <3>4. QED  BY <2>4, <2>11, <3>1, <3>2, <3>3
    <2>12. QED  BY <2>8, <2>11 DEF OneEventPerKey
  <1>4. QED  BY <1>2, <1>3

\* idempotency.js: one event for a key within its lifetime, unless a caller was told 500.
THEOREM OneEvent == Spec => []OneEventPerKey
  <1> DEFINE Inv == Base /\ BackedInv /\ HolderInv /\ Unambiguous
  <1>1. Init => Inv
    BY BaseInit, BackedInit, HolderInit, EventInit
  <1>2. Inv /\ [Next]_vars => Inv'
    BY BaseStep, BackedStep, HolderStep, EventStep
  <1>3. Inv => OneEventPerKey
    BY DEF Unambiguous
  <1>4. QED
    BY <1>1, <1>2, <1>3, PTL DEF Spec
-----------------------------------------------------------------------------
\* The windows are empty at the start.
LEMMA WindowInit == Init => WindowInv
  <1>1. Init => \A i \in Identities : window[i] = {} /\ IsFiniteSet(window[i])
    <2>1. Init => \A i \in Identities : window[i] = {}
      BY DEF Init
    <2>2. IsFiniteSet({})
      BY FS_EmptySet
    <2>3. QED  BY <2>1, <2>2, Zenon
  <1>2. Init => \A c \in Calls : call[c].stage = "idle" /\ call[c].admitted = FALSE
    BY DEF Init, NewCall
  <1>3. QED
    BY <1>1, <1>2 DEF WindowInv

\* A step that leaves the windows alone.
LEMMA WindowKept ==
    ASSUME Base, WindowInv, NEW c \in Calls, Effect(c), ~ Counts(c), ~ RollsBack(c)
    PROVE  WindowInv'
  <1>0. /\ now' = now /\ window' = window
        /\ \A d \in Calls \ {c} : call'[d] = call[d]
    BY DEF Effect, Refuses, Reads, Reserves, LooksUp, Replays, Keeps, Throws, Base, TypeOK,
       Commits, Stores, Finishes, Releases, Rejects, Becomes, IsRead, Others
  <1>1. CASE Reads(c)
    BY <1>0, <1>1 DEF Reads, IsRead, WindowInv, At, identify, Undecided, Base, StageInv
  <1>2. CASE ~ Reads(c)
    <2>1. /\ call'[c].apiKey = call[c].apiKey /\ call'[c].at = call[c].at
          /\ call'[c].admitted = call[c].admitted
      BY <1>2 DEF Effect, Refuses, Reserves, LooksUp, Replays, Keeps, Throws,
         Commits, Stores, Finishes, Releases, Rejects, Becomes
    <2>2. call'[c].stage \in {"publish", "lookup", "store", "finish", "release", "done", "closed", "stuck"}
      BY <1>2 DEF Effect, Refuses, Reserves, LooksUp, Replays, Keeps, Throws,
         Commits, Stores, Finishes, Releases, Rejects, Becomes
    <2>3. call'[c].status = call[c].status \/ call'[c].status # 429
      BY <1>2 DEF Effect, Refuses, Reserves, LooksUp, Replays, Keeps, Throws,
         Commits, Stores, Finishes, Releases, Rejects, Becomes
    <2>4. call'[c].stage \in {"publish", "lookup", "store"} => call[c].stage \in {"reserve", "publish"}
      BY <1>2 DEF Effect, Refuses, Reserves, LooksUp, Replays, Keeps, Throws, At,
         Commits, Stores, Finishes, Releases, Rejects, Becomes
    <2>5. QED
      BY <1>0, <2>1, <2>2, <2>3, <2>4 DEF WindowInv, identify, Undecided
  <1>3. QED  BY <1>1, <1>2

\* The windows after a call was counted.
Entry(c, at) == [call |-> c, at |-> at]
\* One MULTI trims, adds the call and counts.
LEMMA CountedWindow ==
    ASSUME Base, WindowInv, NEW c \in Calls, rateLimit(c), Counts(c)
    PROVE  /\ \A i \in Identities :
                 /\ i \in identify(c) => window'[i] = trimmed(i) \cup {Entry(c, now)}
                 /\ i \notin identify(c) => window'[i] = window[i]
                 /\ IsFiniteSet(window'[i])
           /\ call[c].stage = "claim" /\ now' = now /\ identify(c)' = identify(c)
           /\ call[c].apiKey \in ApiKeys /\ ~ call[c].admitted
           /\ call'[c].admitted =>
                 /\ call'[c].at = now
                 /\ \A i \in identify(c) : Cardinality(window'[i]) <= limitOf(i)
  <1> DEFINE after == [i \in Identities |-> IF i \in identify(c)
                                  THEN trimmed(i) \cup {[call |-> c, at |-> now]} ELSE window[i]]
             allowed == \A i \in identify(c) : Cardinality(after[i]) <= limitOf(i)
  <1>1. /\ window' = after /\ call[c].stage = "claim" /\ now' = now
        /\ call' = [call EXCEPT ![c].stage = IF allowed THEN "reserve" ELSE "rollback",
                                ![c].at = now, ![c].admitted = allowed]
    BY DEF rateLimit, At
  <1>2. \A i \in Identities :
           /\ i \in identify(c) => window'[i] = trimmed(i) \cup {Entry(c, now)}
           /\ i \notin identify(c) => window'[i] = window[i]
    BY <1>1 DEF Entry
  <1>3. ASSUME NEW i \in Identities PROVE IsFiniteSet(window'[i])
    <2>1. IsFiniteSet(window[i]) /\ trimmed(i) \subseteq window[i]
      BY DEF WindowInv, trimmed
    <2>2. IsFiniteSet(trimmed(i))
      BY <2>1, FS_Subset
    <2>3. IsFiniteSet(trimmed(i) \cup {Entry(c, now)})
      BY <2>2, FS_AddElement
    <2>4. QED  BY <1>2, <2>1, <2>3
  <1> HIDE DEF after
  <1>4. allowed \in BOOLEAN
    OBVIOUS
  <1> HIDE DEF allowed
  <1>5. call'[c].admitted = allowed
    BY <1>1, <1>4 DEF Base, TypeOK, Call
  <1>6. call'[c].admitted => \A i \in identify(c) : Cardinality(window'[i]) <= limitOf(i)
    BY <1>1, <1>5 DEF allowed
  <1>7. /\ identify(c)' = identify(c) /\ call[c].apiKey \in ApiKeys /\ ~ call[c].admitted
        /\ call'[c].admitted => call'[c].at = now
    BY <1>1 DEF Counts, IsCounted, identify, WindowInv, Undecided
  <1>8. QED  BY <1>1, <1>2, <1>3, <1>6, <1>7

\* The windows keep the admitted calls that are young enough.
LEMMA WindowStep == Base /\ BackedInv /\ WindowInv /\ [Next]_vars => WindowInv'
  <1> SUFFICES ASSUME Base, WindowInv, [Next]_vars PROVE WindowInv'
    OBVIOUS
  <1>0. now \in Nat /\ WindowMs \in Nat \ {0}
    BY PublishAssumption DEF Base, TypeOK
  <1>1. ASSUME NEW c \in Calls, rateLimit(c), Counts(c) PROVE WindowInv'
    <2>1. /\ \A d \in Calls \ {c} : call'[d] = call[d]
          /\ call'[c].stage \in {"reserve", "rollback"} /\ call'[c].status = 0
          /\ call'[c].stage = "rollback" => ~ call'[c].admitted
          /\ call'[c].apiKey = call[c].apiKey
      BY <1>1 DEF Counts, IsCounted, Others, Base, StageInv, Undecided, At
    <2>2. ASSUME NEW i \in Identities, NEW e \in window'[i]
          PROVE  /\ e.call \in Calls /\ i \in identify(e.call)'
                 /\ call'[e.call].stage \notin {"idle", "claim"}
                 /\ call'[e.call].status # 429
      <3>1. CASE e \in window[i]
        BY <1>1, <2>1, <3>1, CountedWindow DEF WindowInv, identify
      <3>2. CASE e = Entry(c, now) /\ i \in identify(c)
        <4>1. e.call = c
          BY <3>2 DEF Entry
        <4>2. QED  BY <1>1, <2>1, <3>2, <4>1, CountedWindow
      <3>3. QED  BY <1>1, <2>2, <3>1, <3>2, CountedWindow DEF trimmed
    <2>3. ASSUME NEW d \in Calls, call'[d].admitted, NEW i \in identify(d)', call'[d].at > now - WindowMs
          PROVE  Entry(d, call'[d].at) \in window'[i]
      <3>1. CASE d = c
        BY <1>1, <2>1, <2>3, <3>1, CountedWindow DEF identify, Identities
      <3>2. CASE d # c
        <4>1. i \in Identities /\ Entry(d, call[d].at) \in window[i] /\ call'[d] = call[d]
          BY <2>1, <2>3, <3>2 DEF WindowInv, identify, Identities, Entry
        <4>2. Entry(d, call[d].at).at = call[d].at
          BY DEF Entry
        <4>3. QED  BY <1>1, <2>3, <4>1, <4>2, CountedWindow DEF trimmed
      <3>3. QED  BY <3>1, <3>2
    <2>4. ASSUME NEW d \in Calls
          PROVE  /\ call'[d].stage \in {"idle", "claim", "rollback"} => ~ call'[d].admitted
                 /\ call'[d].stage \in Undecided \ {"idle"} \/ call'[d].admitted => call'[d].apiKey \in ApiKeys
                 /\ call'[d].admitted => call'[d].at <= now
      <3>1. CASE d = c
        BY <1>0, <1>1, <2>1, <3>1, CountedWindow
      <3>2. CASE d # c
        <4>1. /\ call[d].stage \in {"idle", "claim", "rollback"} => ~ call[d].admitted
              /\ call[d].stage \in Undecided \ {"idle"} \/ call[d].admitted => call[d].apiKey \in ApiKeys
              /\ call[d].admitted => call[d].at <= now
          BY DEF WindowInv
        <4>2. call'[d] = call[d]
          BY <2>1, <3>2
        <4>3. QED  BY <4>1, <4>2
      <3>3. QED  BY <3>1, <3>2
    <2>5. QED
      BY <1>1, <2>2, <2>3, <2>4, CountedWindow DEF WindowInv, Entry
  <1>2. ASSUME NEW c \in Calls, rollback(c), RollsBack(c) PROVE WindowInv'
    <2>1. /\ \A i \in Identities : window'[i] = IF i \in identify(c)
                THEN {e \in window[i] : e.call # c} ELSE window[i]
          /\ now' = now
      BY <1>2 DEF rollback
    <2>2. /\ \A d \in Calls \ {c} : call'[d] = call[d]
          /\ call'[c].apiKey = call[c].apiKey /\ ~ call[c].admitted /\ ~ call'[c].admitted
          /\ call'[c].stage = "finish"
      BY <1>2 DEF RollsBack, Throws, Becomes, Others, WindowInv, At
    <2>3. ASSUME NEW i \in Identities
          PROVE  /\ window'[i] \subseteq window[i] /\ \A e \in window'[i] : e.call # c
                 /\ \A e \in window[i] : e.call # c => e \in window'[i]
      <3>1. CASE i \in identify(c)
        BY <2>1, <3>1
      <3>2. CASE i \notin identify(c)
        BY <2>1, <3>2 DEF WindowInv
      <3>3. QED  BY <3>1, <3>2
    <2>4. ASSUME NEW i \in Identities PROVE IsFiniteSet(window'[i])
      <3>1. IsFiniteSet(window[i])
        BY DEF WindowInv
      <3>2. QED  BY <2>3, <3>1, FS_Subset
    <2>5. QED
      BY <2>1, <2>2, <2>3, <2>4 DEF WindowInv, identify, Undecided, Identities
  <1>3. ASSUME NEW c \in Calls, Step(c) \/ RejectedAwait(c) PROVE WindowInv'
    <2>1. Effect(c) /\ (RejectedAwait(c) => faults' = faults + 1) /\ faults \in Nat
      BY <1>3, Effects DEF RejectedAwait, Base, TypeOK
    <2>2. Counts(c) => rateLimit(c)
      BY <1>3, <2>1 DEF Counts, At, Step, Receive, rollback, reserve, lookup, publishEvent,
         storeResponse, finish, release
    <2>3. RollsBack(c) => rollback(c)
      BY <1>3, <2>1 DEF RollsBack, At, Step, Receive, rateLimit, reserve, lookup, publishEvent,
         storeResponse, finish, release
    <2>4. QED
      BY <1>1, <1>2, <2>1, <2>2, <2>3, WindowKept
  <1>4. CASE Die
    BY <1>4, DieEffect DEF Die, WindowInv, identify, Undecided, Base
  <1>5. CASE Tick
    BY <1>0, <1>5 DEF Tick, WindowInv, identify, Base, TypeOK, Call
  <1>6. CASE UNCHANGED vars
    BY <1>6 DEF vars, WindowInv, identify
  <1>7. QED
    BY <1>1, <1>2, <1>3, <1>4, <1>5, <1>6 DEF Next

\* The calls that were admitted in the window that ends at t.
Admitted(i, t) == {c \in Calls : /\ call[c].admitted /\ i \in identify(c)
                                 /\ call[c].at \in (t - WindowMs + 1) .. t}
Limited == \A i \in Identities : \A t \in 0 .. now : Cardinality(Admitted(i, t)) <= limitOf(i)

\* Every call counted in the current window has an entry of its own.
Counted(i) ==
    /\ IsFiniteSet(Admitted(i, now)) /\ IsFiniteSet(window[i])
    /\ Cardinality(Admitted(i, now)) <= Cardinality(window[i])
AllCounted == Base /\ WindowInv => \A i \in Identities : Counted(i)
\* So the window is at least as large as the number of calls.
LEMMA EntriesCount == AllCounted
  <1> SUFFICES ASSUME Base, WindowInv, NEW i \in Identities PROVE Counted(i)
    BY DEF AllCounted
  <1> DEFINE f == [c \in Admitted(i, now) |-> Entry(c, call[c].at)]
  <1>1. ASSUME NEW c \in Admitted(i, now) PROVE Entry(c, call[c].at) \in window[i]
    BY <1>1, PublishAssumption DEF Admitted, WindowInv, Entry, Base, TypeOK, Call
  <1>2. \A c, d : Entry(c, call[c].at) = Entry(d, call[d].at) => c = d
    BY DEF Entry
  <1>3. f \in [Admitted(i, now) -> window[i]]
    BY <1>1
  <1>4. \A c, d \in Admitted(i, now) : f[c] = f[d] => c = d
    BY <1>2
  <1>5. f \in Injection(Admitted(i, now), window[i])
    BY <1>3, <1>4 DEF Injection, IsInjective
  <1>6. IsFiniteSet(window[i])
    BY DEF WindowInv
  <1> HIDE DEF f
  <1>7. QED  BY <1>5, <1>6, FS_Injection DEF Counted

\* The same of the next state.
LEMMA EntriesCountNext == AllCounted'
  BY EntriesCount, PTL

\* No call is admitted at the start.
LEMMA LimitedInit == Init => Limited
  <1> SUFFICES ASSUME Init, NEW i \in Identities, NEW t \in 0 .. now
               PROVE  Cardinality(Admitted(i, t)) <= limitOf(i)
    BY DEF Limited
  <1>1. Admitted(i, t) = {}
    BY DEF Init, NewCall, Admitted
  <1>2. QED
    BY <1>1, FS_EmptySet, PublishAssumption DEF limitOf

\* An admission is counted against the entries, and time only moves the window on.
LEMMA LimitedStep == Base /\ BackedInv /\ WindowInv /\ Limited /\ [Next]_vars => Limited'
  <1> SUFFICES ASSUME Base, BackedInv, WindowInv, Limited, [Next]_vars,
                      NEW i \in Identities, NEW t \in 0 .. now'
               PROVE  Cardinality(Admitted(i, t)') <= limitOf(i)
    BY DEF Limited
  <1>0. now \in Nat /\ WindowMs \in Nat \ {0} /\ limitOf(i) \in Nat
    BY PublishAssumption DEF Base, TypeOK, limitOf
  <1>1. ASSUME NEW c \in Calls, Step(c) \/ RejectedAwait(c), ~ Counts(c)
        PROVE  Admitted(i, t)' = Admitted(i, t) /\ now' = now
    <2>1. Effect(c)
      BY <1>1, Effects
    <2>2. \A d \in Calls \ {c} : call'[d] = call[d]
      BY <1>1, <2>1 DEF Effect, Refuses, Reads, RollsBack, Reserves, LooksUp, Replays, Keeps,
         Throws,
         Commits, Stores, Finishes, Releases, Rejects, Becomes, IsRead, Others
    <2>3. /\ call'[c].admitted = call[c].admitted /\ now' = now
          /\ call[c].admitted => call'[c].at = call[c].at /\ call'[c].apiKey = call[c].apiKey
      <3>1. CASE Reads(c)
        BY <3>1 DEF Reads, IsRead, WindowInv, At
      <3>2. CASE ~ Reads(c)
        BY <1>1, <2>1, <3>2 DEF Effect, Refuses, RollsBack, Reserves, LooksUp, Replays, Keeps,
           Throws,
           Commits, Stores, Finishes, Releases, Rejects, Becomes
      <3>3. QED  BY <3>1, <3>2
    <2>4. QED  BY <2>2, <2>3 DEF Admitted, identify
  <1>2. ASSUME NEW c \in Calls, Step(c) \/ RejectedAwait(c), Counts(c)
        PROVE  Cardinality(Admitted(i, t)') <= limitOf(i)
    <2>1. rateLimit(c)
      BY <1>0, <1>2 DEF Counts, At, Step, Receive, rollback, reserve, lookup, publishEvent,
         storeResponse, finish,
         release, RejectedAwait, Base, TypeOK
    <2>2. /\ \A d \in Calls \ {c} : call'[d] = call[d]
          /\ now' = now /\ ~ call[c].admitted /\ identify(c)' = identify(c)
          /\ call'[c].admitted => /\ call'[c].at = now
                                 /\ \A j \in identify(c) : Cardinality(window'[j]) <= limitOf(j)
      BY <1>2, <2>1, CountedWindow DEF Counts, IsCounted, Others
    <2>3. CASE call'[c].admitted /\ i \in identify(c) /\ t = now
      <3>1. Base' /\ WindowInv'
        BY BaseStep, WindowStep
      <3>2. Counted(i)'
        BY <3>1, EntriesCountNext DEF AllCounted
      <3>3. Cardinality(window'[i]) <= limitOf(i) /\ Admitted(i, t)' = Admitted(i, now)'
        BY <2>2, <2>3 DEF Admitted
      <3>4. Cardinality(Admitted(i, now)') \in Nat /\ Cardinality(window'[i]) \in Nat
        BY <3>2, FS_CardinalityType DEF Counted
      <3>5. QED  BY <1>0, <3>2, <3>3, <3>4 DEF Counted
    <2>4. CASE ~ (call'[c].admitted /\ i \in identify(c) /\ t = now)
      <3>1. Admitted(i, t)' = Admitted(i, t)
        BY <1>0, <2>2, <2>4 DEF Admitted, identify
      <3>2. QED  BY <2>2, <3>1 DEF Limited
    <2>5. QED  BY <2>3, <2>4
  <1>3. CASE Die
    <2>1. Admitted(i, t)' = Admitted(i, t) /\ now' = now
      BY <1>3, DieEffect DEF Die, Base, Admitted, identify
    <2>2. QED  BY <2>1 DEF Limited
  <1>4. CASE Tick
    <2>1. call' = call /\ now' = now + 1
      BY <1>4 DEF Tick
    <2>2. CASE t <= now
      BY <1>0, <2>1, <2>2 DEF Limited, Admitted, identify
    <2>3. CASE t = now + 1
      <3>1. Admitted(i, t)' \subseteq Admitted(i, now)
        <4>1. ASSUME NEW d \in Calls, call[d].admitted, call[d].at \in (t - WindowMs + 1) .. t
              PROVE  call[d].at \in (now - WindowMs + 1) .. now
          <5>1. call[d].at \in Nat /\ call[d].at <= now
            BY <4>1 DEF WindowInv, Base, TypeOK, Call
          <5>2. QED  BY <1>0, <2>3, <4>1, <5>1
        <4>2. QED  BY <2>1, <4>1 DEF Admitted, identify
      <3>2. Cardinality(Admitted(i, t)') <= Cardinality(Admitted(i, now))
        BY <3>1, EntriesCount, FS_Subset DEF Counted, AllCounted
      <3>3. Cardinality(Admitted(i, now)) <= limitOf(i)
        BY <1>0 DEF Limited
      <3>4. /\ Cardinality(Admitted(i, t)') \in Nat /\ Cardinality(Admitted(i, now)) \in Nat
        BY <3>1, EntriesCount, FS_Subset, FS_CardinalityType DEF Counted, AllCounted
      <3>5. QED  BY <1>0, <3>2, <3>3, <3>4
    <2>4. QED  BY <1>0, <2>1, <2>2, <2>3
  <1>5. CASE UNCHANGED vars
    BY <1>5 DEF vars, Limited, Admitted, identify
  <1>6. QED
    BY <1>1, <1>2, <1>3, <1>4, <1>5 DEF Next, Limited

\* rate-limit.js: no window admits more calls than its limit, and none holds a place
\* of a call that was answered 429.
THEOREM Limiter == Spec => []SlidingLimit
  <1> DEFINE Inv == Base /\ BackedInv /\ WindowInv /\ Limited
  <1>1. Init => Inv
    BY BaseInit, BackedInit, WindowInit, LimitedInit
  <1>2. Inv /\ [Next]_vars => Inv'
    BY BaseStep, BackedStep, WindowStep, LimitedStep
  <1>3. Inv => SlidingLimit
    BY DEF Limited, Admitted, WindowInv, SlidingLimit
  <1>4. QED
    BY <1>1, <1>2, <1>3, PTL DEF Spec

-----------------------------------------------------------------------------
(* Subscriptions.  A pattern matches a type exactly when it covers its words. *)

Token == STRING \cup {Dot, Star}

\* A function on 1 .. n is a sequence of length n.
LEMMA SequenceOf ==
    ASSUME NEW n \in Nat, NEW f \in [1 .. n -> Token]
    PROVE  f \in Seq(Token) /\ Len(f) = n
  BY SeqDef, LenProperties

\* A prefix, position by position.
LEMMA PrefixIs ==
    ASSUME NEW s \in Seq(Token), NEW t \in Seq(Token)
    PROVE  IsPrefix(s, t) <=> Len(s) <= Len(t) /\ \A i \in 1 .. Len(s) : s[i] = t[i]
  <1>1. Len(s) \in Nat /\ Len(t) \in Nat
    BY LenProperties
  <1>2. CASE ~(Len(s) <= Len(t))
    BY <1>2 DEF IsPrefix
  <1>3. CASE Len(s) <= Len(t)
    <2>1. /\ \A i \in 1 .. Len(s) : s[i] \in Token
          /\ \A i \in 1 .. Len(s) : t[i] \in Token
      BY <1>1, <1>3, LenProperties
    <2>2. /\ SubSeq(s, 1, Len(s)) \in Seq(Token)
          /\ Len(SubSeq(s, 1, Len(s))) = Len(s)
          /\ \A i \in 1 .. Len(s) : SubSeq(s, 1, Len(s))[i] = s[i]
      BY <1>1, <2>1, SubSeqProperties
    <2>3. /\ SubSeq(t, 1, Len(s)) \in Seq(Token)
          /\ Len(SubSeq(t, 1, Len(s))) = Len(s)
          /\ \A i \in 1 .. Len(s) : SubSeq(t, 1, Len(s))[i] = t[i]
      BY <1>1, <2>1, SubSeqProperties
    <2>4. ASSUME \A i \in 1 .. Len(s) : s[i] = t[i]
          PROVE  SubSeq(s, 1, Len(s)) = SubSeq(t, 1, Len(s))
      BY <2>2, <2>3, <2>4, SeqEqual
    <2>5. ASSUME SubSeq(s, 1, Len(s)) = SubSeq(t, 1, Len(s))
          PROVE  \A i \in 1 .. Len(s) : s[i] = t[i]
      BY <2>2, <2>3, <2>5
    <2> QED
      BY <1>3, <2>4, <2>5 DEF IsPrefix
  <1> QED
    BY <1>2, <1>3

\* endsWith('.*')
LEMMA SuffixIs ==
    ASSUME NEW p \in Seq(Token)
    PROVE  IsSuffix(<<Dot, Star>>, p) <=>
              Len(p) >= 2 /\ p[Len(p) - 1] = Dot /\ p[Len(p)] = Star
  <1>1. Len(p) \in Nat /\ p \in [1 .. Len(p) -> Token]
    BY LenProperties
  <1>2. Reverse(p) \in Seq(Token) /\ Len(Reverse(p)) = Len(p)
    BY <1>1, SequenceOf DEF Reverse
  <1>3. \A i \in 1 .. Len(p) : Reverse(p)[i] = p[(Len(p) - i) + 1]
    BY DEF Reverse
  <1>4. /\ Reverse(<<Dot, Star>>) \in Seq(Token) /\ Len(Reverse(<<Dot, Star>>)) = 2
        /\ Reverse(<<Dot, Star>>)[1] = Star /\ Reverse(<<Dot, Star>>)[2] = Dot
    <2>1. Len(<<Dot, Star>>) = 2 /\ <<Dot, Star>>[1] = Dot /\ <<Dot, Star>>[2] = Star
      OBVIOUS
    <2>2. Reverse(<<Dot, Star>>) = [i \in 1 .. 2 |-> <<Dot, Star>>[(2 - i) + 1]]
      BY <2>1 DEF Reverse
    <2>3. Reverse(<<Dot, Star>>)[1] = Star /\ Reverse(<<Dot, Star>>)[2] = Dot
      BY <2>1, <2>2
    <2>4. Reverse(<<Dot, Star>>) \in [1 .. 2 -> Token]
      <3>1. \A i \in 1 .. 2 : (2 - i) + 1 = 1 \/ (2 - i) + 1 = 2
        OBVIOUS
      <3>2. Dot \in Token /\ Star \in Token
        BY DEF Token
      <3>3. \A i \in 1 .. 2 : <<Dot, Star>>[(2 - i) + 1] \in Token
        BY <2>1, <3>1, <3>2
      <3> QED
        BY <2>2, <3>3
    <2> QED
      BY <2>3, <2>4, SequenceOf
  <1>5. IsSuffix(<<Dot, Star>>, p) <=>
           2 <= Len(p) /\ \A i \in 1 .. 2 : Reverse(<<Dot, Star>>)[i] = Reverse(p)[i]
    BY <1>2, <1>4, PrefixIs DEF IsSuffix
  <1>6. Len(p) >= 2 => Reverse(p)[1] = p[Len(p)] /\ Reverse(p)[2] = p[Len(p) - 1]
    BY <1>1, <1>3
  <1> QED
    BY <1>1, <1>4, <1>5, <1>6

\* Even and odd positions.
LEMMA Positions ==
    ASSUME NEW n \in Nat \ {0}
    PROVE  \E i \in Nat \ {0} : (n = 2 * i /\ n % 2 = 0) \/ (n = 2 * i - 1 /\ n % 2 = 1)
  <1>1. PICK q \in Nat : n % 2 \in {0, 1} /\ n = 2 * q + (n % 2)
    <2>1. n = 2 * (n \div 2) + (n % 2) /\ n % 2 \in {0, 1} /\ n \div 2 \in Nat
      OBVIOUS
    <2> QED
      BY <2>1
  <1>2. CASE n % 2 = 0
    <2>1. q \in Nat \ {0} /\ n = 2 * q
      BY <1>1, <1>2
    <2> QED
      BY <1>2, <2>1
  <1>3. CASE n % 2 = 1
    <2>1. q + 1 \in Nat \ {0} /\ n = 2 * (q + 1) - 1
      BY <1>1, <1>3
    <2> QED
      BY <1>3, <2>1
  <1> QED
    BY <1>1, <1>2, <1>3

\* Doubling gives even positions, and the odd ones between them.
LEMMA Doubles ==
    ASSUME NEW k \in Nat \ {0}
    PROVE  (2 * k) % 2 = 0 /\ (2 * k - 1) % 2 = 1 /\ (2 * k) \div 2 = k
  OBVIOUS

\* A name of k words, position by position.
Name(name, k) ==
    /\ name \in Seq(Token) /\ k \in Nat \ {0} /\ Len(name) = 2 * k - 1
    /\ \A i \in 1 .. k : name[2 * i - 1] # Dot /\ name[2 * i - 1] # Star
    /\ \A i \in 1 .. k - 1 : name[2 * i] = Dot

\* A valid type is such a name.
LEMMA TypeIsName ==
    ASSUME NEW name \in Seq(Token), isValidEventType(name) PROVE \E k : Name(name, k)
  <1>1. Len(name) \in Nat /\ DOMAIN name = 1 .. Len(name)
    BY LenProperties
  <1>2. Len(name) % 2 = 1 /\ \A i \in 1 .. Len(name) : name[i] # Star /\ (name[i] = Dot <=> i % 2 = 0)
    BY <1>1 DEF isValidEventType
  <1>3. PICK k \in Nat \ {0} : Len(name) = 2 * k - 1
    <2>1. Len(name) # 0
      BY <1>2
    <2> QED
      BY <1>1, <1>2, <2>1, Positions
  <1>4. ASSUME NEW i \in 1 .. k PROVE name[2 * i - 1] # Dot /\ name[2 * i - 1] # Star
    <2>1. 2 * i - 1 \in 1 .. Len(name) /\ i \in Nat \ {0}
      BY <1>3
    <2>2. (2 * i - 1) % 2 = 1
      BY <2>1, Doubles
    <2>3. \A m \in 1 .. Len(name) : m % 2 = 1 => name[m] # Dot /\ name[m] # Star
      BY <1>2
    <2> QED
      BY <2>1, <2>2, <2>3
  <1>5. ASSUME NEW i \in 1 .. k - 1 PROVE name[2 * i] = Dot
    <2>1. 2 * i \in 1 .. Len(name) /\ i \in Nat \ {0}
      BY <1>3
    <2>2. (2 * i) % 2 = 0
      BY <2>1, Doubles
    <2> QED
      BY <1>2, <2>1, <2>2
  <1> QED
    BY <1>3, <1>4, <1>5 DEF Name

\* A name of length 2 k - 1 has the k words at its odd positions.
LEMMA WordsOf ==
    ASSUME NEW name \in Seq(Token), NEW k \in Nat \ {0}, Len(name) = 2 * k - 1
    PROVE  /\ Len(Words(name)) = k /\ Words(name) = [i \in 1 .. k |-> name[2 * i - 1]]
           /\ Last(Words(name)) = name[Len(name)]
  <1>1. (Len(name) + 1) \div 2 = k
    <2>1. Len(name) + 1 = 2 * k
      OBVIOUS
    <2> QED
      BY <2>1, Doubles
  <1>2. Words(name) = [i \in 1 .. k |-> name[2 * i - 1]]
    BY <1>1 DEF Words
  <1>3. \A i \in 1 .. k : 2 * i - 1 \in 1 .. Len(name)
    OBVIOUS
  <1>4. Words(name) \in [1 .. k -> Token]
    BY <1>2, <1>3, ElementOfSeq
  <1>5. Len(Words(name)) = k
    BY <1>4, SequenceOf
  <1> QED
    BY <1>2, <1>5 DEF Last

\* A position up to 2 k is one of the k odd or of the k even ones.
LEMMA WordOrDot ==
    ASSUME NEW k \in Nat, NEW n \in 1 .. 2 * k
    PROVE  \E i \in 1 .. k : n = 2 * i \/ n = 2 * i - 1
  <1>1. n \in Nat \ {0}
    OBVIOUS
  <1>2. PICK i \in Nat \ {0} : n = 2 * i \/ n = 2 * i - 1
    BY <1>1, Positions
  <1>3. i \in 1 .. k
    BY <1>2
  <1> QED
    BY <1>2, <1>3

\* Without a wildcard a pattern matches the type that has its words.
LEMMA ExactCovers ==
    ASSUME NEW p, NEW e, NEW k, NEW j, Name(p, k), Name(e, j)
    PROVE  patternMatches(p, e) <=> Covers(p, e)
  <1> USE DEF Name
  <1>1. p[Len(p)] # Star /\ p # <<Star>>
    <2>1. p[2 * k - 1] # Star
      OBVIOUS
    <2>2. Len(<<Star>>) = 1 /\ <<Star>>[1] = Star
      OBVIOUS
    <2> QED
      BY <2>1, <2>2
  <1>2. patternMatches(p, e) <=> p = e
    BY <1>1, SuffixIs DEF patternMatches
  <1>3. /\ Len(Words(p)) = k /\ Words(p) = [i \in 1 .. k |-> p[2 * i - 1]]
        /\ Last(Words(p)) = p[Len(p)]
    BY WordsOf
  <1>4. Len(Words(e)) = j /\ Words(e) = [i \in 1 .. j |-> e[2 * i - 1]]
    BY WordsOf
  <1>5. Covers(p, e) <=> Words(p) = Words(e)
    BY <1>1, <1>3 DEF Covers
  <1>6. ASSUME Words(p) = Words(e) PROVE p = e
    <2>1. k = j
      BY <1>3, <1>4, <1>6
    <2>2. \A i \in 1 .. k : p[2 * i - 1] = e[2 * i - 1]
      <3>1. \A i \in 1 .. k : Words(p)[i] = p[2 * i - 1]
        BY <1>3
      <3>2. \A i \in 1 .. k : Words(e)[i] = e[2 * i - 1]
        BY <1>4, <2>1
      <3> QED
        BY <1>6, <3>1, <3>2
    <2>3. \A i \in 1 .. k - 1 : p[2 * i] = e[2 * i]
      BY <2>1
    <2>4. ASSUME NEW n \in 1 .. Len(p) PROVE p[n] = e[n]
      <3>1. n \in 1 .. 2 * k /\ n < 2 * k
        OBVIOUS
      <3>2. PICK i \in 1 .. k : n = 2 * i \/ n = 2 * i - 1
        BY <3>1, WordOrDot
      <3>3. n = 2 * i => i \in 1 .. k - 1
        BY <3>1
      <3> QED
        BY <2>2, <2>3, <3>2, <3>3
    <2> QED
      BY <2>1, <2>4, SeqEqual
  <1> QED
    BY <1>2, <1>5, <1>6

\* A final wildcard stands for exactly one more word.
LEMMA WildCovers ==
    ASSUME NEW p \in Seq(Token), NEW e, NEW m, NEW j, Name(e, j),
           Len(p) = 2 * m + 1, p[2 * m] = Dot, p[2 * m + 1] = Star,
           Name(SubSeq(p, 1, Len(p) - 2), m)
    PROVE  patternMatches(p, e) <=> Covers(p, e)
  <1> DEFINE prefix == SubSeq(p, 1, Len(p) - 2)
             start == Append(prefix, Dot)
             rest == SubSeq(e, Len(prefix) + 2, Len(e))
             Same == \A i \in 1 .. m : p[2 * i - 1] = e[2 * i - 1]
  <1>1. /\ m \in Nat \ {0} /\ j \in Nat \ {0} /\ e \in Seq(Token) /\ prefix \in Seq(Token)
        /\ Len(prefix) = 2 * m - 1 /\ Len(e) = 2 * j - 1
        /\ Len(p) - 2 = 2 * m - 1 /\ Len(prefix) + 2 = 2 * m + 1
    BY DEF Name
  <1>2. \A i \in 1 .. 2 * m + 1 : p[i] \in Token
    BY <1>1, ElementOfSeq
  <1>3. \A i \in 1 .. 2 * j - 1 : e[i] \in Token
    BY <1>1, ElementOfSeq
  <1>4. \A i \in 1 .. 2 * m - 1 : prefix[i] = p[i]
    BY <1>1, <1>2, SubSeqProperties
  <1>5. /\ start \in Seq(Token) /\ Len(start) = 2 * m
        /\ \A i \in 1 .. 2 * m : start[i] = p[i]
    <2>1. Dot \in Token
      BY DEF Token
    <2>2. /\ start \in Seq(Token) /\ Len(start) = 2 * m /\ start[2 * m] = Dot
          /\ \A i \in 1 .. 2 * m - 1 : start[i] = prefix[i]
      <3> HIDE DEF prefix
      <3>1. /\ start \in Seq(Token) /\ Len(start) = Len(prefix) + 1
            /\ \A i \in 1 .. Len(prefix) : start[i] = prefix[i]
            /\ start[Len(prefix) + 1] = Dot
        BY <1>1, <2>1, AppendProperties
      <3>2. Len(prefix) + 1 = 2 * m
        BY <1>1
      <3> HIDE DEF start
      <3> QED
        BY <1>1, <3>1, <3>2
    <2> HIDE DEF start, prefix
    <2>3. ASSUME NEW i \in 1 .. 2 * m PROVE start[i] = p[i]
      <3>1. i = 2 * m \/ i \in 1 .. 2 * m - 1
        BY <1>1
      <3> QED
        BY <1>4, <2>2, <3>1
    <2> QED
      BY <2>2, <2>3
  <1>6. \A i \in 1 .. m : p[2 * i] = Dot
    <2>1. \A i \in 1 .. m - 1 : prefix[2 * i] = Dot
      BY DEF Name
    <2> HIDE DEF prefix
    <2>2. ASSUME NEW i \in 1 .. m PROVE p[2 * i] = Dot
      <3>1. i = m \/ (i \in 1 .. m - 1 /\ 2 * i \in 1 .. 2 * m - 1)
        BY <1>1
      <3> QED
        BY <1>4, <2>1, <3>1
    <2> QED
      BY <2>2
  <1>7. \A i \in 1 .. j - 1 : e[2 * i] = Dot
    BY DEF Name
  <1>8. e[2 * j - 1] # Dot
    BY <1>1 DEF Name
  <1>9. Covers(p, e) <=> j = m + 1 /\ Same
    <2>1. /\ Len(Words(p)) = m + 1 /\ Words(p) = [i \in 1 .. m + 1 |-> p[2 * i - 1]]
          /\ Last(Words(p)) = p[2 * m + 1]
      <3>1. m + 1 \in Nat \ {0} /\ Len(p) = 2 * (m + 1) - 1
        BY <1>1
      <3> QED
        BY <3>1, WordsOf
    <2>2. Len(Words(e)) = j /\ Words(e) = [i \in 1 .. j |-> e[2 * i - 1]]
      BY <1>1, WordsOf
    <2>3. \A i \in 1 .. m : Words(p)[i] = p[2 * i - 1]
      BY <1>1, <2>1
    <2>4. j = m + 1 => \A i \in 1 .. m : Words(e)[i] = e[2 * i - 1]
      BY <1>1, <2>2
    <2>5. Covers(p, e) <=> m + 1 > 1 /\ j = m + 1
                           /\ \A i \in 1 .. (m + 1) - 1 : Words(p)[i] = Words(e)[i]
      BY <2>1, <2>2 DEF Covers
    <2>6. m + 1 > 1 /\ (m + 1) - 1 = m
      BY <1>1
    <2> QED
      BY <2>3, <2>4, <2>5, <2>6
  <1>10. j = m + 1 => (Same <=> \A i \in 1 .. 2 * m : p[i] = e[i])
    <2>1. ASSUME j = m + 1, Same, NEW n \in 1 .. 2 * m PROVE p[n] = e[n]
      <3>1. PICK i \in 1 .. m : n = 2 * i \/ n = 2 * i - 1
        BY <1>1, WordOrDot
      <3>2. p[2 * i] = Dot /\ e[2 * i] = Dot
        BY <1>1, <1>6, <1>7, <2>1
      <3>3. p[2 * i - 1] = e[2 * i - 1]
        BY <2>1
      <3> QED
        BY <3>1, <3>2, <3>3
    <2>2. ASSUME \A i \in 1 .. 2 * m : p[i] = e[i], NEW i \in 1 .. m
          PROVE  p[2 * i - 1] = e[2 * i - 1]
      <3>1. 2 * i - 1 \in 1 .. 2 * m
        BY <1>1
      <3> QED
        BY <2>2, <3>1
    <2> QED
      BY <2>1, <2>2
  <1>11. patternMatches(p, e) <=> IsPrefix(start, e) /\ rest # << >> /\ ~ Contains(rest, Dot)
    <2>1. p # <<Star>>
      <3>1. Len(<<Star>>) = 1 /\ 2 * m + 1 # 1
        BY <1>1
      <3> QED
        BY <3>1
    <2>2. IsSuffix(<<Dot, Star>>, p)
      <3>1. Len(p) >= 2 /\ Len(p) - 1 = 2 * m
        BY <1>1
      <3> QED
        BY <3>1, SuffixIs
    <2> QED
      BY <2>1, <2>2 DEF patternMatches
  <1>12. IsPrefix(start, e) <=> 2 * m <= 2 * j - 1 /\ \A i \in 1 .. 2 * m : p[i] = e[i]
    <2> HIDE DEF start
    <2> QED
      BY <1>1, <1>5, PrefixIs
  <1>13. 2 * m + 1 > 2 * j - 1 => rest = << >>
    BY <1>1, SubSeqEmpty
  <1>14. 2 * m + 1 <= 2 * j - 1 =>
            /\ rest \in Seq(Token) /\ Len(rest) = (2 * j - 1) - (2 * m + 1) + 1
            /\ \A i \in 1 .. (2 * j - 1) - (2 * m + 1) + 1 : rest[i] = e[2 * m + 1 + i - 1]
    BY <1>1, <1>3, SubSeqProperties
  <1> HIDE DEF start, rest
  <1>15. ASSUME j = m + 1 PROVE rest # << >> /\ ~ Contains(rest, Dot)
    <2>1. rest \in Seq(Token) /\ Len(rest) = 1 /\ rest[1] = e[2 * j - 1]
      <3>1. /\ 2 * m + 1 <= 2 * j - 1 /\ (2 * j - 1) - (2 * m + 1) + 1 = 1
            /\ 2 * m + 1 + 1 - 1 = 2 * j - 1
        BY <1>1, <1>15
      <3> QED
        BY <1>14, <3>1
    <2>3. \A i \in 1 .. 1 : i = 1
      OBVIOUS
    <2>4. ~ Contains(rest, Dot)
      BY <1>8, <2>1, <2>3 DEF Contains
    <2>5. rest # << >>
      BY <2>1, EmptySeq
    <2> QED
      BY <2>4, <2>5
  <1>16. ASSUME rest # << >>, ~ Contains(rest, Dot) PROVE j = m + 1
    <2>1. j >= m + 1
      BY <1>1, <1>13, <1>16
    <2>2. ASSUME j > m + 1 PROVE FALSE
      <3>1. rest \in Seq(Token) /\ Len(rest) >= 2 /\ rest[2] = e[2 * (m + 1)]
        BY <1>1, <1>14, <2>2
      <3>2. e[2 * (m + 1)] = Dot
        <4>1. m + 1 \in 1 .. j - 1
          BY <1>1, <2>2
        <4> QED
          BY <1>7, <4>1
      <3>3. 2 \in 1 .. Len(rest)
        BY <3>1, LenProperties
      <3> QED
        BY <1>16, <3>1, <3>2, <3>3 DEF Contains
    <2> QED
      BY <1>1, <2>1, <2>2
  <1>17. j = m + 1 => 2 * m <= 2 * j - 1
    BY <1>1
  <1> HIDE DEF Same
  <1> QED
    BY <1>9, <1>10, <1>11, <1>12, <1>15, <1>16, <1>17

\* Sequences of strings are sequences of tokens.
LEMMA Tokens == Seq(STRING) \subseteq Seq(Token)
  <1>1. STRING \subseteq Token
    BY DEF Token
  <1> QED
    BY <1>1, SeqMonotonic

\* event-types.js: a pattern that the schema takes matches a valid type exactly when it
\* covers it word for word.
LEMMA MatchIsCover ==
    ASSUME NEW p \in Seq(STRING), NEW e \in Seq(STRING), eventTypePattern(p), isValidEventType(e)
    PROVE  patternMatches(p, e) <=> Covers(p, e)
  <1>1. p \in Seq(Token) /\ e \in Seq(Token)
    BY Tokens
  <1>2. PICK j : Name(e, j)
    BY <1>1, TypeIsName
  <1>3. CASE isValidEventType(p)
    <2>1. PICK k : Name(p, k)
      BY <1>1, <1>3, TypeIsName
    <2> QED
      BY <1>2, <2>1, ExactCovers
  <1>4. CASE ~ isValidEventType(p)
    <2>1. /\ Len(p) > 2 /\ p[Len(p) - 1] = Dot /\ p[Len(p)] = Star
          /\ isValidEventType(SubSeq(p, 1, Len(p) - 2))
      BY <1>4 DEF eventTypePattern
    <2>2. Len(p) \in Nat
      BY <1>1, LenProperties
    <2>3. SubSeq(p, 1, Len(p) - 2) \in Seq(Token) /\ Len(SubSeq(p, 1, Len(p) - 2)) = Len(p) - 2
      <3>1. Len(p) - 2 \in Nat /\ 1 <= Len(p) - 2 /\ Len(p) - 2 <= Len(p)
        BY <2>1, <2>2
      <3>2. \A i \in 1 .. Len(p) - 2 : p[i] \in Token
        BY <1>1, <2>2, ElementOfSeq
      <3> QED
        BY <3>1, <3>2, SubSeqProperties
    <2>4. PICK m : Name(SubSeq(p, 1, Len(p) - 2), m)
      BY <2>1, <2>3, TypeIsName
    <2>5. Len(p) - 2 = 2 * m - 1 /\ m \in Nat
      BY <2>3, <2>4 DEF Name
    <2>6. Len(p) = 2 * m + 1 /\ Len(p) - 1 = 2 * m
      BY <2>2, <2>5
    <2> QED
      BY <1>1, <1>2, <2>1, <2>4, <2>6, WildCovers
  <1> QED
    BY <1>3, <1>4

\* event-types.js, publishEvent: an event without a list of endpoints goes to the ones
\* whose patterns cover its type word for word, and to no other, whatever the patterns
\* and types of the project.
THEOREM FanOut == Spec => []FanOutFollowsSubscriptions
  <1>1. Init => FanOutFollowsSubscriptions
    BY DEF Init, FanOutFollowsSubscriptions
  <1>2. ASSUME NEW k \in IdempotencyKeys
        PROVE  subscribedEndpoints(Bodies[k].eventType) =
                  {ep \in Endpoints : \/ Subscriptions[ep] = {}
                      \/ \E p \in Subscriptions[ep] : Covers(p, Bodies[k].eventType)}
    <2>1. ASSUME NEW ep \in Endpoints, NEW p \in Subscriptions[ep]
          PROVE  patternMatches(p, Bodies[k].eventType) <=> Covers(p, Bodies[k].eventType)
      BY TypesAssumption, MatchIsCover
    <2> QED
      BY <2>1 DEF subscribedEndpoints, subscriptionMatches
  <1>3. ASSUME Base, FanOutFollowsSubscriptions, [Next]_vars PROVE FanOutFollowsSubscriptions'
    <2>1. CASE UNCHANGED events
      BY <1>3, <2>1 DEF FanOutFollowsSubscriptions
    <2>2. ASSUME NEW c \in Calls, publishEvent(c), events' # events
          PROVE  FanOutFollowsSubscriptions'
      <3>1. call[c].idem \in IdempotencyKeys
        BY <1>3, <2>2 DEF Base, StageInv, Undecided, publishEvent, At
      <3> DEFINE k == call[c].idem
                 targets == IF Bodies[k].endpointIds = NoCall
                            THEN subscribedEndpoints(Bodies[k].eventType)
                            ELSE explicitEndpoints(Bodies[k].endpointIds)
                 e == [id |-> c, key |-> k, at |-> now, targets |-> targets]
      <3>2. events' = events \cup {e}
        BY <2>2 DEF publishEvent
      <3>3. /\ e.key = k
            /\ Bodies[k].endpointIds = NoCall
                  => e.targets = subscribedEndpoints(Bodies[k].eventType)
        OBVIOUS
      <3>4. k \in IdempotencyKeys
        BY <3>1
      <3> HIDE DEF e, k
      <3>5. Bodies[k].endpointIds = NoCall
               => e.targets = {ep \in Endpoints : \/ Subscriptions[ep] = {}
                     \/ \E p \in Subscriptions[ep] : Covers(p, Bodies[k].eventType)}
        BY <1>2, <3>3, <3>4
      <3>6. SUFFICES ASSUME NEW f \in events', Bodies[f.key].endpointIds = NoCall
                     PROVE  f.targets = {ep \in Endpoints : \/ Subscriptions[ep] = {}
                       \/ \E p \in Subscriptions[ep] : Covers(p, Bodies[f.key].eventType)}
        BY DEF FanOutFollowsSubscriptions
      <3>7. CASE f \in events
        BY <1>3, <3>6, <3>7 DEF FanOutFollowsSubscriptions
      <3>8. CASE f = e
        BY <3>3, <3>5, <3>6, <3>8
      <3> QED
        BY <3>2, <3>7, <3>8
    <2>3. (\E c \in Calls : publishEvent(c)) \/ UNCHANGED events
      BY <1>3 DEF Next, Step, vars, Receive, rateLimit, rollback, reserve, lookup,
         storeResponse, finish, release, RejectedAwait, Die, Tick
    <2> QED
      BY <2>1, <2>2, <2>3
  <1>4. QED
    BY <1>1, <1>3, BaseInit, BackedInit, BaseStep, BackedStep, PTL DEF Spec
=============================================================================
