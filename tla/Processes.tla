------------------------------ MODULE Processes ------------------------------
(***************************************************************************)
(* The life of one process: the API (api/server.js), a worker              *)
(* (worker/worker.js) or the scheduler (jobs/scheduler.js), from the       *)
(* broker connection (shared/queue/connection.js) to the shutdown          *)
(* (shared/lifecycle.js).  Its units of work are requests, messages in     *)
(* hand, and passes of the scheduled jobs (jobs/schedule.js); a pass of    *)
(* the alert watch is the dispatcher "watch" of Alerts, next to one of     *)
(* another process, "peer".                                                *)
(***************************************************************************)
EXTENDS Alerts

CONSTANTS
    Jobs,           \* the jobs of the schedule, the alert watch among them
    Slots,          \* requests or messages a process works on together
    Attempts,       \* attempts of connectWithRetry
    GraceTicks,     \* SHUTDOWN_GRACE_MS
    DrainTicks,     \* the share of it the drain may use (DRAIN_SHARE)
    MaxOutages      \* bound of the outages

ASSUME ProcessesAssumption ==
    /\ Dispatchers = {"watch", "peer"} /\ "alert-watch" \in Jobs /\ Jobs \cap Slots = {}
    /\ Attempts \in Nat \ {0} /\ MaxOutages \in Nat
    /\ GraceTicks \in Nat /\ DrainTicks \in 0 .. (GraceTicks - 1)

Units(k) == IF k = "scheduler" THEN Jobs ELSE Slots

VARIABLES
    kind,           \* "api", "worker" or "scheduler"
    phase,          \* "connect", "assert", "up", "closing", "exit"
    tries,          \* the attempt of connectWithRetry
    connection,     \* "none", "open", "lost" or "closed"
    intake,         \* timers set, consumer registered, server listening
    work,           \* [unit -> how often it is running]
    inProgress,     \* the jobs whose flag is set
    active,         \* the passes the runner waits for when it stops
    closing,        \* the next step of close
    left,           \* ticks until the force-exit timer fires
    code,           \* the exit code
    outages

procVars == <<kind, phase, tries, connection, intake, work, inProgress, active, closing, left,
              code, outages>>
runner == <<inProgress, active>>
vars == <<alertVars, procVars>>

Init ==
    /\ AlertsInit
    /\ kind \in {"api", "worker", "scheduler"}
    /\ phase = "connect" /\ tries = 1 /\ connection = "none"
    /\ intake = FALSE /\ work = [u \in Jobs \cup Slots |-> 0]
    /\ inProgress = {} /\ active = {}
    /\ closing = 1 /\ left = GraceTicks /\ code = -1 /\ outages = 0

Alive == phase \in {"up", "closing"}
Busy == {u \in Units(kind) : work[u] > 0}
exit(c) == phase' = "exit" /\ code' = c
-----------------------------------------------------------------------------
(* Start and work *)

\* connectWithRetry: up to Attempts tries, then the start fails.  createConfirmChannel fails
\* the start at once.
createQueueConnection ==
    /\ phase = "connect"
    /\ IF up["rabbitmq"]
       THEN /\ connection' = "open" /\ UNCHANGED tries
            /\ \/ phase' = "assert" /\ UNCHANGED code
               \/ exit(1)
       ELSE /\ IF tries = Attempts THEN exit(1) /\ UNCHANGED tries
               ELSE tries' = tries + 1 /\ UNCHANGED <<phase, code>>
            /\ UNCHANGED connection
    /\ UNCHANGED <<alertVars, kind, intake, work, runner, closing, left, outages>>

\* A queue that exists with other arguments, or a connection that is gone, fails the start
\* as well.  After it the timers are set, the consumer is registered or the server listens.
assertTopology ==
    /\ phase = "assert"
    /\ \/ connection = "open" /\ phase' = "up" /\ intake' = TRUE /\ UNCHANGED code
       \/ exit(1) /\ UNCHANGED intake
    /\ UNCHANGED <<alertVars, kind, tries, connection, work, runner, closing, left, outages>>

Started(u) == work' = [work EXCEPT ![u] = @ + 1]

Begun_NotAwaited(job) == UNCHANGED runner

\* The flag is set and the pass is noted until the promise of the pass settles.
Begun(job) == inProgress' = inProgress \cup {job} /\ active' = active \cup {job}

\* every/tick: the timer fires; nothing is started while the flag is set.
tick(job) ==
    /\ kind = "scheduler" /\ Alive /\ intake
    /\ IF job \in inProgress THEN UNCHANGED <<work, runner, alertVars>>
       ELSE /\ Started(job) /\ Begun(job)
            /\ IF job # "alert-watch" THEN UNCHANGED alertVars
               ELSE IF dispatch["watch"] = Resting THEN runAlertWatch("watch")
               ELSE UNCHANGED alertVars
    /\ UNCHANGED <<kind, phase, tries, connection, intake, closing, left, code, outages>>

\* A request arrives, or the broker pushes a message.
take(slot) ==
    /\ kind \in {"api", "worker"} /\ Alive /\ intake /\ work[slot] = 0
    /\ kind = "worker" => connection = "open"
    /\ Started(slot)
    /\ UNCHANGED <<alertVars, kind, phase, tries, connection, intake, runner, closing, left, code, outages>>

Finished(u) == work' = [work EXCEPT ![u] = @ - 1]

\* invoke: a pass ends well or throws, which is logged; .finally clears the flag and the note.
invoke(job) ==
    /\ kind = "scheduler" /\ Alive /\ work[job] > 0
    /\ job = "alert-watch" => dispatch["watch"] = Resting
    /\ Finished(job) /\ inProgress' = inProgress \ {job} /\ active' = active \ {job}
    /\ UNCHANGED <<alertVars, kind, phase, tries, connection, intake, closing, left, code, outages>>

respond(slot) ==
    /\ kind = "api" /\ Alive /\ work[slot] > 0 /\ Finished(slot)
    /\ UNCHANGED <<alertVars, kind, phase, tries, connection, intake, runner, closing, left, code, outages>>

settle_Quiet(slot) ==
    /\ kind = "worker" /\ Alive /\ work[slot] > 0 /\ Finished(slot)
    /\ UNCHANGED <<alertVars, kind, phase, tries, connection, intake, runner, closing, left, code, outages>>

\* The message is acked, or acked or requeued after an error.  On a connection that
\* is gone both calls throw, out of the callback: an unhandled rejection ends Node.
settle(slot) ==
    /\ kind = "worker" /\ Alive /\ work[slot] > 0 /\ Finished(slot)
    /\ IF connection = "open" THEN UNCHANGED <<phase, code>> ELSE exit(1)
    /\ UNCHANGED <<alertVars, kind, tries, connection, intake, runner, closing, left, outages>>
-----------------------------------------------------------------------------
(* Shutdown *)

run_NoTimer ==
    /\ Alive
    /\ IF phase = "closing" THEN UNCHANGED <<phase, left>>
       ELSE phase' = "closing" /\ left' = -1
    /\ UNCHANGED <<alertVars, kind, tries, connection, intake, work, runner, closing, code, outages>>

\* run: a signal starts the one shutdown and its timer; later signals do nothing.
run ==
    /\ Alive
    /\ IF phase = "closing" THEN UNCHANGED <<phase, left>>
       ELSE phase' = "closing" /\ left' = GraceTicks
    /\ UNCHANGED <<alertVars, kind, tries, connection, intake, work, runner, closing, code, outages>>

apiClose == <<"realtime", "server", "queue", "redis", "db">>
workerClose == <<"cancel", "drain", "queue", "redis", "db">>
schedulerClose == <<"stop", "settled", "queue", "redis", "db">>

CloseSteps_QueueFirst ==
    [api |-> apiClose, worker |-> <<"cancel", "queue", "drain", "redis", "db">>,
     scheduler |-> <<"queue", "stop", "settled", "redis", "db">>]

\* The close functions of the three processes.
CloseSteps == [api |-> apiClose, worker |-> workerClose, scheduler |-> schedulerClose]

StepNow == CloseSteps[kind][closing]

\* What a step waits for: closeServer for the open requests, stop for the passes noted,
\* drain for the messages in hand or its deadline.
closeServer == Busy = {}
stop == active = {}
DrainOver == left <= GraceTicks - DrainTicks
drain == Busy = {} \/ DrainOver

Waited ==
    /\ StepNow = "server" => closeServer
    /\ StepNow = "settled" => stop
    /\ StepNow = "drain" => drain

\* One await of close.  Closing the queue never throws (closeQuietly), nor does the
\* cancel; quitting an unreachable Redis and leaving an unreachable database do.
closeStep ==
    /\ phase = "closing" /\ closing <= Len(CloseSteps[kind]) /\ Waited
    /\ closing' = closing + 1
    /\ intake' = (intake /\ StepNow \notin {"realtime", "cancel", "stop"})
    /\ connection' = IF StepNow = "queue" THEN "closed" ELSE connection
    /\ IF (StepNow = "redis" /\ ~up["redis"]) \/ (StepNow = "db" /\ ~up["postgres"])
       THEN exit(1) ELSE UNCHANGED <<phase, code>>
    /\ UNCHANGED <<alertVars, kind, tries, work, runner, left, outages>>

closed ==
    /\ phase = "closing" /\ closing > Len(CloseSteps[kind]) /\ exit(0)
    /\ UNCHANGED <<alertVars, kind, tries, connection, intake, work, runner, closing, left, outages>>

forceExit ==
    /\ phase = "closing" /\ left = 0 /\ exit(1)
    /\ UNCHANGED <<alertVars, kind, tries, connection, intake, work, runner, closing, left, outages>>

time ==
    /\ phase = "closing" /\ left > 0 /\ left' = left - 1
    /\ UNCHANGED <<alertVars, kind, phase, tries, connection, intake, work, runner, closing, code, outages>>
-----------------------------------------------------------------------------
(* The environment *)

\* A dependency goes away; with the broker the connection goes, and nothing in
\* connection.js opens another.
outage(d) ==
    /\ outages < MaxOutages /\ up[d] /\ phase # "exit"
    /\ up' = [up EXCEPT ![d] = FALSE] /\ outages' = outages + 1
    /\ connection' = IF d = "rabbitmq" /\ connection = "open" THEN "lost" ELSE connection
    /\ UNCHANGED <<backlog, configured, suppressed, sent, dispatch, kind, phase, tries, intake,
                   work, runner, closing, left, code>>

recovery(d) ==
    /\ ~up[d] /\ up' = [up EXCEPT ![d] = TRUE]
    /\ UNCHANGED <<backlog, configured, suppressed, sent, dispatch, procVars>>

\* The alert channel of this process and of another one.
alerting ==
    /\ kind = "scheduler"
    /\ \/ Alive /\ Steps("watch", connection = "open")
       \/ Steps("peer", up["rabbitmq"]) \/ runAlertWatch("peer") \/ notify("peer")
       \/ \E k \in Keys : windowEnds(k)
    /\ UNCHANGED procVars

exited == phase = "exit" /\ UNCHANGED vars

Next ==
    \/ createQueueConnection \/ assertTopology
    \/ \E job \in Jobs : tick(job) \/ invoke(job)
    \/ \E slot \in Slots : take(slot) \/ respond(slot) \/ settle(slot)
    \/ run \/ closeStep \/ closed \/ forceExit \/ time
    \/ \E d \in Dependencies : outage(d) \/ recovery(d)
    \/ alerting \/ exited

Spec == Init /\ [][Next]_vars

\* The event loop runs what is ready: timers fire, awaits return.  Messages end,
\* because every step of an attempt has a timeout.  Nothing is assumed of requests,
\* of the passes of retention and the sweeper, or of the dependencies.
FairSpec ==
    /\ Spec
    /\ WF_vars(createQueueConnection) /\ WF_vars(assertTopology)
    /\ WF_vars(tick("alert-watch")) /\ WF_vars(invoke("alert-watch"))
    /\ \A slot \in Slots : WF_vars(settle(slot))
    /\ WF_vars(closeStep) /\ WF_vars(closed) /\ WF_vars(forceExit) /\ WF_vars(time)
    /\ WF_vars(kind = "scheduler" /\ Alive /\ Steps("watch", connection = "open") /\ UNCHANGED procVars)
-----------------------------------------------------------------------------
\* schedule.js: "A pass that outlives its interval must not be started twice".  Timers see
\* the flag only; through passes that end or throw, and passes that go on during a shutdown,
\* no job has two of them running.
NoOverlap == \A job \in Jobs : work[job] <= 1

\* worker.js, server.js, scheduler.js: what a unit of work uses is closed only when none
\* is running, except when the drain of a worker ran out of its share of the grace period.
ClosedIsUnused ==
    connection = "closed" /\ Busy # {} => kind = "worker" /\ DrainOver

\* lifecycle.js: "a force-exit timer so a hung dependency cannot hold the process open".
SignalledExits == phase = "closing" ~> phase = "exit"

\* connection.js opens no second connection: a worker that loses its connection with a
\* message in hand ends, and is started again by its supervisor.
LossEndsBusyWorker ==
    (kind = "worker" /\ connection = "lost" /\ Busy # {}) ~> phase = "exit"

\* alert-watch.js: a broker outage that lasts is raised with the project, however other
\* dispatchers interfere, while Redis, Postgres and the scheduler stay up.
Steady == kind = "scheduler" /\ phase = "up" /\ configured /\ up["postgres"]
Raised(k) == k \in suppressed \/ \E d \in Dispatchers : dispatch[d].key = k /\ dispatch[d].at = "post"
BrokerOutageRaised ==
    <>[](Steady /\ ~up["rabbitmq"] /\ up["redis"]) => []<>Raised("rabbitmq")
=============================================================================
