-------------------------------- MODULE Alerts --------------------------------
(***************************************************************************)
(* The alert channel (shared/alerts.js) and the job that feeds it          *)
(* (jobs/alert-watch.js).  A dispatcher is one asynchronous caller: a pass *)
(* of the alert watch, or a worker that has disabled an endpoint.  One     *)
(* project stands for all; the work for each of them is independent.  An   *)
(* alert's key is its reason and scope.                                    *)
(***************************************************************************)
EXTENDS Integers, Sequences, FiniteSets

CONSTANT Dispatchers

\* The probes of watchDependencies in their order, then the dead-letter queue.
Probes == <<"redis", "rabbitmq", "postgres">>
Dependencies == {"redis", "rabbitmq", "postgres"}
DEAD_LETTER_BACKLOG == "dead_letter_backlog"
ENDPOINT_DISABLED == "endpoint_disabled"
Keys == {"redis", "rabbitmq", DEAD_LETTER_BACKLOG, ENDPOINT_DISABLED}

VARIABLES
    up,             \* [Dependencies -> BOOLEAN]
    backlog,        \* the dead-letter queue is at ALERT_DLQ_THRESHOLD
    configured,     \* the project has an alertWebhookUrl
    suppressed,     \* keys with an open suppression window in Redis
    sent,           \* [Keys -> alerts posted in the open window]
    dispatch        \* [Dispatchers -> [at, key, probe]]

alertVars == <<up, backlog, configured, suppressed, sent, dispatch>>

Resting == [at |-> "idle", key |-> "none", probe |-> 0]

AlertsInit ==
    /\ up = [d \in Dependencies |-> TRUE]
    /\ backlog \in BOOLEAN /\ configured \in BOOLEAN
    /\ suppressed = {} /\ sent = [k \in Keys |-> 0]
    /\ dispatch = [d \in Dispatchers |-> Resting]

Set(d, position) == dispatch' = [dispatch EXCEPT ![d] = position]

\* The watch goes on with the next probe, the dead-letter queue comes last; a
\* worker's notification is over (probe 0).
After(position) ==
    IF position.probe \in 1 .. Len(Probes)
    THEN [at |-> "probe", key |-> position.key, probe |-> position.probe + 1]
    ELSE Resting

runAlertWatch(d) ==
    /\ dispatch[d] = Resting
    /\ Set(d, [at |-> "probe", key |-> "none", probe |-> 1])
    /\ UNCHANGED <<up, backlog, configured, suppressed, sent>>

watchDependencies_Logged(d, open) ==
    /\ dispatch[d].at = "probe" /\ dispatch[d].probe <= Len(Probes)
    /\ Set(d, After(dispatch[d]))
    /\ UNCHANGED <<up, backlog, configured, suppressed, sent>>

\* The queue is probed on the channel of the process, open or not: one that was lost
\* stays lost when the broker is back.
reachable(name, open) == up[name] /\ (name = "rabbitmq" => open)

\* A failed probe is alerted, except Postgres, which holds the addresses.
watchDependencies(d, open) ==
    LET name == Probes[dispatch[d].probe]
    IN  /\ dispatch[d].at = "probe" /\ dispatch[d].probe <= Len(Probes)
        /\ Set(d, IF reachable(name, open) \/ name = "postgres" THEN After(dispatch[d])
                  ELSE [dispatch[d] EXCEPT !.at = "notify", !.key = name])
        /\ UNCHANGED <<up, backlog, configured, suppressed, sent>>

\* An unreachable broker fails the depth check, and with it the pass.
watchDeadLetterQueue(d, open) ==
    /\ dispatch[d].at = "probe" /\ dispatch[d].probe > Len(Probes)
    /\ Set(d, IF reachable("rabbitmq", open) /\ backlog
              THEN [dispatch[d] EXCEPT !.at = "notify", !.key = DEAD_LETTER_BACKLOG]
              ELSE Resting)
    /\ UNCHANGED <<up, backlog, configured, suppressed, sent>>

\* notify: a worker has switched an endpoint off.
notify(d) ==
    /\ dispatch[d] = Resting
    /\ Set(d, [at |-> "notify", key |-> ENDPOINT_DISABLED, probe |-> 0])
    /\ UNCHANGED <<up, backlog, configured, suppressed, sent>>

\* notifyConfiguredProjects, notifyProject: the project is read, errors are swallowed.
notifyConfiguredProjects(d) ==
    /\ dispatch[d].at = "notify"
    /\ Set(d, IF up["postgres"] /\ configured THEN [dispatch[d] EXCEPT !.at = "claim"]
              ELSE After(dispatch[d]))
    /\ UNCHANGED <<up, backlog, configured, suppressed, sent>>

claim_Unconditional(d) ==
    /\ dispatch[d].at = "claim"
    /\ suppressed' = suppressed \cup {dispatch[d].key}
    /\ Set(d, [dispatch[d] EXCEPT !.at = "post"])
    /\ UNCHANGED <<up, backlog, configured, sent>>

\* SET NX: one of the callers gets the window.  Redis down throws, and guard
\* swallows the error.
claim(d) ==
    /\ dispatch[d].at = "claim"
    /\ IF up["redis"] /\ dispatch[d].key \notin suppressed
       THEN /\ suppressed' = suppressed \cup {dispatch[d].key}
            /\ Set(d, [dispatch[d] EXCEPT !.at = "post"])
       ELSE Set(d, After(dispatch[d])) /\ UNCHANGED suppressed
    /\ UNCHANGED <<up, backlog, configured, sent>>

\* post: a refused target, an error or a status of 400 and above sends nothing; the
\* window stays claimed.
post(d) ==
    /\ dispatch[d].at = "post"
    /\ \E accepted \in BOOLEAN :
          sent' = IF accepted THEN [sent EXCEPT ![dispatch[d].key] = @ + 1] ELSE sent
    /\ Set(d, After(dispatch[d]))
    /\ UNCHANGED <<up, backlog, configured, suppressed>>

\* The window is over.  The post that claimed it has ended: this assumes a configuration
\* with ALERT_TIMEOUT_MS (5 s unless set, with no maximum) below the window (an hour unless
\* set, a minute at least).
windowEnds(k) ==
    /\ k \in suppressed
    /\ \A d \in Dispatchers : dispatch[d].at = "post" => dispatch[d].key # k
    /\ suppressed' = suppressed \ {k} /\ sent' = [sent EXCEPT ![k] = 0]
    /\ UNCHANGED <<up, backlog, configured, dispatch>>

Steps(d, open) ==
    \/ watchDependencies(d, open) \/ watchDeadLetterQueue(d, open) \/ notifyConfiguredProjects(d)
    \/ claim(d) \/ post(d)

\* architecture.md, section 10: an alert "is sent once per ALERT_SUPPRESSION_MINUTES for
\* the same project, reason and scope, claimed in Redis with NX so two workers noticing
\* the same endpoint send one alert between them".
OneAlertPerWindow == \A k \in Keys : sent[k] <= 1
=============================================================================
