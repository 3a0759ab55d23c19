--------------------------- MODULE ProcessesProofs ---------------------------
(***************************************************************************)
(* The safety of a process, for any jobs, slots, grace period and outages.  *)
(***************************************************************************)
EXTENDS Processes, TLAPS

(***************************************************************************)
(* Work and shutdown.  A job or slot is busy once or not at all, and the flag *)
(* and the note of a job are set exactly while its pass runs.  The steps of    *)
(* close stop the intake first, then wait for the work, then close the queue;  *)
(* once the drain of a worker is over it stays over.                           *)
(***************************************************************************)
Kinds == {"api", "worker", "scheduler"}

WorkInv ==
    /\ work \in [Jobs \cup Slots -> {0, 1}]
    /\ inProgress = {job \in Jobs : work[job] = 1} /\ active = inProgress

CloseInv ==
    /\ kind \in Kinds /\ left \in Int /\ closing \in 1 .. 6
    /\ phase \in {"connect", "assert", "up", "closing", "exit"}
    /\ closing > 1 => phase \in {"closing", "exit"} /\ ~intake
    /\ closing > 2 => Busy = {} \/ (kind = "worker" /\ DrainOver)
    /\ connection = "closed" => closing > 3

ShutdownInv == WorkInv /\ CloseInv

\* The closes of the three kinds of process have five steps, the last three in one order.
LEMMA StepsOfClose ==
    ASSUME kind \in Kinds
    PROVE  /\ Len(CloseSteps[kind]) = 5
           /\ CloseSteps[kind][1] \in {"realtime", "cancel", "stop"}
           /\ CloseSteps[kind][2] = [api |-> "server", worker |-> "drain",
                                     scheduler |-> "settled"][kind]
           /\ CloseSteps[kind][3] = "queue"
           /\ CloseSteps[kind][4] = "redis" /\ CloseSteps[kind][5] = "db"
  BY DEF Kinds, CloseSteps, apiClose, workerClose, schedulerClose

\* A process starts with nothing running and nothing closed.
LEMMA ShutdownInit == Init => ShutdownInv
  BY ProcessesAssumption DEF Init, ShutdownInv, WorkInv, CloseInv, Kinds, Busy, Units

\* The jobs with a flag and a note are those that run.
LEMMA RunnerInv ==
    ASSUME ShutdownInv
    PROVE  /\ inProgress \subseteq Jobs /\ active = inProgress /\ Jobs \cap Slots = {}
           /\ \A job \in Jobs : job \in inProgress <=> work[job] > 0
           /\ \A u \in Jobs \cup Slots : work[u] \in {0, 1}
  BY ProcessesAssumption DEF ShutdownInv, WorkInv

\* Work that ends leaves no new work.
LEMMA FinishedKeeps ==
    ASSUME ShutdownInv, NEW u \in Jobs \cup Slots, work[u] > 0, Finished(u), kind' = kind,
           inProgress' = inProgress \ {u}, active' = active \ {u}
    PROVE  WorkInv' /\ Busy' \subseteq Busy
  <1>1. work' \in [Jobs \cup Slots -> {0, 1}] /\ work'[u] = 0
    BY DEF ShutdownInv, WorkInv, Finished
  <1>2. \A v \in Jobs \cup Slots : v # u => work'[v] = work[v]
    BY DEF ShutdownInv, WorkInv, Finished
  <1>3. inProgress' = {job \in Jobs : work'[job] = 1} /\ active' = inProgress'
    BY <1>1, <1>2 DEF ShutdownInv, WorkInv
  <1>4. Busy' \subseteq Busy
    BY <1>1, <1>2 DEF Busy, Units
  <1> QED
    BY <1>1, <1>3, <1>4 DEF WorkInv

\* Work starts only while the intake is open.
LEMMA StartedKeeps ==
    ASSUME ShutdownInv, NEW u \in Jobs \cup Slots, work[u] = 0, intake, Started(u),
           inProgress' = inProgress \cup ({u} \cap Jobs), active' = active \cup ({u} \cap Jobs),
           UNCHANGED <<kind, phase, connection, intake, closing, left>>
    PROVE  ShutdownInv'
  <1>1. work' \in [Jobs \cup Slots -> {0, 1}] /\ work'[u] = 1
    BY DEF ShutdownInv, WorkInv, Started
  <1>2. \A v \in Jobs \cup Slots : v # u => work'[v] = work[v]
    BY DEF ShutdownInv, WorkInv, Started
  <1>3. inProgress' = {job \in Jobs : work'[job] = 1} /\ active' = inProgress'
    BY <1>1, <1>2 DEF ShutdownInv, WorkInv
  <1>4. closing = 1
    BY DEF ShutdownInv, CloseInv
  <1> QED
    BY <1>1, <1>3, <1>4 DEF ShutdownInv, WorkInv, CloseInv

\* Work starts only before the close has stopped its source, and ends before what it uses is closed.
LEMMA ShutdownStep == ASSUME ShutdownInv, [Next]_vars PROVE ShutdownInv'
  <1> USE ProcessesAssumption DEF runner
  <1>1. CASE UNCHANGED procVars
    BY <1>1 DEF procVars, ShutdownInv, WorkInv, CloseInv, Busy, Units, DrainOver
  <1>2. CASE createQueueConnection \/ assertTopology
    BY <1>2 DEF createQueueConnection, assertTopology, exit, ShutdownInv, WorkInv, CloseInv, Busy, Units, DrainOver
  <1>3. ASSUME NEW job \in Jobs, tick(job) PROVE ShutdownInv'
    <2>1. CASE job \in inProgress
      BY <1>1, <1>3, <2>1 DEF tick, procVars
    <2>2. CASE job \notin inProgress
      <3>1. work[job] = 0
        BY <2>2, RunnerInv
      <3> QED
        BY <1>3, <2>2, <3>1, StartedKeeps DEF tick, Begun
    <2> QED
      BY <2>1, <2>2
  <1>4. ASSUME NEW slot \in Slots, take(slot) PROVE ShutdownInv'
    <2>1. {slot} \cap Jobs = {}
      OBVIOUS
    <2> QED
      BY <1>4, <2>1, StartedKeeps DEF take
  <1>5. ASSUME NEW job \in Jobs, invoke(job) PROVE ShutdownInv'
    <2>1. WorkInv' /\ Busy' \subseteq Busy
      BY <1>5, FinishedKeeps DEF invoke
    <2> QED
      BY <1>5, <2>1 DEF invoke, ShutdownInv, CloseInv, DrainOver
  <1>6. ASSUME NEW slot \in Slots, respond(slot) PROVE ShutdownInv'
    <2>0. inProgress \ {slot} = inProgress /\ active \ {slot} = active
      BY RunnerInv
    <2>1. WorkInv' /\ Busy' \subseteq Busy
      BY <1>6, <2>0, FinishedKeeps DEF respond
    <2> QED
      BY <1>6, <2>1 DEF respond, ShutdownInv, CloseInv, DrainOver
  <1>7. ASSUME NEW slot \in Slots, settle(slot) PROVE ShutdownInv'
    <2>0. inProgress \ {slot} = inProgress /\ active \ {slot} = active
      BY RunnerInv
    <2>1. WorkInv' /\ Busy' \subseteq Busy
      BY <1>7, <2>0, FinishedKeeps DEF settle
    <2>2. /\ UNCHANGED <<kind, connection, intake, closing, left>>
          /\ phase' = phase \/ phase' = "exit"
      BY <1>7 DEF settle, exit
    <2> QED
      BY <2>1, <2>2 DEF ShutdownInv, CloseInv, DrainOver
  <1>8. CASE run
    BY <1>8 DEF run, Alive, ShutdownInv, WorkInv, CloseInv, Busy, Units, DrainOver
  <1>9. CASE closeStep
    <2>1. /\ closing \in 1 .. 5 /\ closing' = closing + 1
          /\ UNCHANGED <<kind, work, inProgress, active, left>>
          /\ phase' \in {"closing", "exit"}
      <3>1. kind \in Kinds /\ closing \in 1 .. 6
        BY DEF ShutdownInv, CloseInv
      <3>2. Len(CloseSteps[kind]) = 5
        BY <3>1, StepsOfClose
      <3>3. phase' \in {"closing", "exit"}
        BY <1>9 DEF closeStep, exit
      <3>4. closing <= 5 /\ closing' = closing + 1
            /\ UNCHANGED <<kind, work, inProgress, active, left>>
        BY <1>9, <3>2 DEF closeStep
      <3> QED
        BY <3>1, <3>3, <3>4
    <2>2. ~intake'
      <3>1. CASE closing = 1
        BY <1>9, <3>1, StepsOfClose DEF closeStep, StepNow, ShutdownInv, CloseInv
      <3>2. CASE closing > 1
        BY <1>9, <3>2 DEF closeStep, ShutdownInv, CloseInv
      <3> QED
        BY <2>1, <3>1, <3>2
    <2>3. closing = 2 => Busy = {} \/ (kind = "worker" /\ DrainOver)
      <3> SUFFICES ASSUME closing = 2 PROVE Busy = {} \/ (kind = "worker" /\ DrainOver)
        OBVIOUS
      <3>1. StepNow = [api |-> "server", worker |-> "drain", scheduler |-> "settled"][kind]
        BY StepsOfClose DEF StepNow, ShutdownInv, CloseInv
      <3>2. kind = "scheduler" /\ active = {} => Busy = {}
        BY RunnerInv DEF Busy, Units
      <3> QED
        BY <1>9, <3>1, <3>2 DEF closeStep, Waited, closeServer, stop, drain, ShutdownInv, CloseInv,
           Kinds
    <2>4. closing < 3 => connection' = connection
      <3> SUFFICES ASSUME closing \in {1, 2} PROVE connection' = connection
        BY <2>1
      <3>1. StepNow # "queue"
        BY StepsOfClose DEF StepNow, ShutdownInv, CloseInv, Kinds
      <3> QED
        BY <1>9, <3>1 DEF closeStep
    <2>5. Busy' = Busy /\ (DrainOver' <=> DrainOver)
      BY <2>1 DEF Busy, Units, DrainOver
    <2> QED
      BY <2>1, <2>2, <2>3, <2>4, <2>5 DEF ShutdownInv, WorkInv, CloseInv
  <1>10. CASE closed \/ forceExit
    <2>1. /\ UNCHANGED <<kind, work, inProgress, active, left, connection, intake, closing>>
          /\ phase = "closing" /\ phase' = "exit"
      BY <1>10 DEF closed, forceExit, exit
    <2>2. WorkInv' /\ Busy' = Busy /\ (DrainOver' <=> DrainOver)
      BY <2>1 DEF ShutdownInv, WorkInv, Busy, Units, DrainOver
    <2> QED
      BY <2>1, <2>2 DEF ShutdownInv, CloseInv
  <1>11. CASE time
    BY <1>11 DEF time, ShutdownInv, WorkInv, CloseInv, Busy, Units, DrainOver
  <1>12. ASSUME NEW d \in Dependencies, outage(d) \/ recovery(d) PROVE ShutdownInv'
    <2>1. /\ UNCHANGED <<kind, phase, work, inProgress, active, left, intake, closing>>
          /\ connection' \in {connection, "lost"}
      BY <1>12 DEF outage, recovery, procVars
    <2>2. WorkInv' /\ Busy' = Busy /\ (DrainOver' <=> DrainOver)
      BY <2>1 DEF ShutdownInv, WorkInv, Busy, Units, DrainOver
    <2> QED
      BY <2>1, <2>2 DEF ShutdownInv, CloseInv
  <1>13. CASE alerting \/ exited \/ UNCHANGED vars
    BY <1>1, <1>13 DEF alerting, exited, vars
  <1> QED
    BY <1>2, <1>3, <1>4, <1>5, <1>6, <1>7, <1>8, <1>9, <1>10, <1>11, <1>12, <1>13 DEF Next

\* schedule.js: no pass is started beside one of the same job.
THEOREM NoOverlapHolds == Spec => []NoOverlap
  <1>1. ShutdownInv => NoOverlap
    BY DEF ShutdownInv, WorkInv, NoOverlap
  <1> QED
    BY <1>1, ShutdownInit, ShutdownStep, PTL DEF Spec

\* worker.js, server.js, scheduler.js: the queue is closed under no unit of work, but
\* under the messages of a worker whose drain ran out.
THEOREM ClosedIsUnusedHolds == Spec => []ClosedIsUnused
  <1>1. ShutdownInv => ClosedIsUnused
    BY DEF ShutdownInv, CloseInv, ClosedIsUnused
  <1> QED
    BY <1>1, ShutdownInit, ShutdownStep, PTL DEF Spec

(***************************************************************************)
(* Alerts.  An alert is posted by the caller that opened the suppression      *)
(* window, who is alone until it has posted, and a window outlives its post.  *)
(***************************************************************************)
Positions == [at : {"idle", "probe", "notify", "claim", "post"}, key : Keys \cup {"none"},
              probe : 0 .. 4]
Posting(d, k) == dispatch[d].at = "post" /\ dispatch[d].key = k

AlertInv ==
    /\ dispatch \in [Dispatchers -> Positions] /\ sent \in [Keys -> Nat]
    /\ \A d \in Dispatchers : dispatch[d].at \in {"notify", "claim", "post"} => dispatch[d].key \in Keys
    /\ \A d \in Dispatchers : dispatch[d].at = "probe" => dispatch[d].probe > 0
    /\ \A k \in Keys :
          /\ sent[k] <= 1
          /\ k \notin suppressed => sent[k] = 0 /\ \A d \in Dispatchers : ~Posting(d, k)
          /\ \A d \in Dispatchers : Posting(d, k) =>
                sent[k] = 0 /\ \A e \in Dispatchers : Posting(e, k) => e = d

\* No window is claimed and nothing was sent at the start.
LEMMA AlertInit == Init => AlertInv
  BY DEF Init, AlertsInit, AlertInv, Positions, Posting, Resting

\* Where a dispatcher goes on, it posts nothing.
LEMMA AfterKeeps ==
    ASSUME NEW position \in Positions
    PROVE  /\ After(position) \in Positions /\ After(position).at \in {"idle", "probe"}
           /\ After(position).at = "probe" => After(position).probe > 0
  <1>1. Len(Probes) = 3
    BY DEF Probes
  <1>2. CASE position.probe \in 1 .. 3
    BY <1>1, <1>2 DEF After, Positions
  <1>3. CASE position.probe \notin 1 .. 3
    BY <1>1, <1>3 DEF After, Positions, Resting
  <1> QED
    BY <1>2, <1>3

\* A dispatcher moves, without claiming or posting.
LEMMA SetKeeps ==
    ASSUME AlertInv, NEW d \in Dispatchers, NEW position \in Positions, Set(d, position),
           position.at # "post", position.at \in {"notify", "claim"} => position.key \in Keys,
           position.at = "probe" => position.probe > 0,
           UNCHANGED <<suppressed, sent>>
    PROVE  AlertInv'
  BY DEF AlertInv, Set, Posting

\* Each step of a dispatcher.
LEMMA DispatchKeeps ==
    ASSUME AlertInv, NEW d \in Dispatchers, NEW open,
           Steps(d, open) \/ runAlertWatch(d) \/ notify(d)
    PROVE  AlertInv'
  <1>0. dispatch[d] \in Positions
    BY DEF AlertInv
  <1>1. CASE runAlertWatch(d) \/ notify(d)
    BY <1>1, SetKeeps DEF runAlertWatch, notify, Positions, Keys, ENDPOINT_DISABLED
  <1>2. CASE watchDependencies(d, open)
    <2> DEFINE name == Probes[dispatch[d].probe]
               onward == [dispatch[d] EXCEPT !.at = "notify", !.key = name]
    <2>1. name # "postgres" => name \in Keys
      <3>1. dispatch[d].probe \in 1 .. 3
        <4>1. Len(Probes) = 3
          BY DEF Probes
        <4> QED
          BY <1>0, <1>2, <4>1 DEF watchDependencies, AlertInv, Positions
      <3> QED
        BY <3>1 DEF Probes, Keys
    <2>2. Set(d, After(dispatch[d])) \/ (name # "postgres" /\ Set(d, onward))
      BY <1>2, Zenon DEF watchDependencies
    <2>3. name # "postgres" => onward \in Positions /\ onward.at = "notify" /\ onward.key = name
      BY <1>0, <2>1 DEF Positions
    <2> HIDE DEF name, onward
    <2>4. UNCHANGED <<suppressed, sent>>
      BY <1>2 DEF watchDependencies
    <2> QED
      BY <1>0, <2>1, <2>2, <2>3, <2>4, AfterKeeps, SetKeeps
  <1>3. CASE watchDeadLetterQueue(d, open)
    <2> DEFINE onward == [dispatch[d] EXCEPT !.at = "notify", !.key = DEAD_LETTER_BACKLOG]
    <2>1. Set(d, Resting) \/ Set(d, onward)
      BY <1>3 DEF watchDeadLetterQueue
    <2>2. Resting \in Positions /\ Resting.at = "idle"
      BY DEF Resting, Positions
    <2>3. onward \in Positions /\ onward.at = "notify" /\ onward.key \in Keys
      BY <1>0 DEF Positions, Keys
    <2> HIDE DEF onward
    <2> QED
      BY <1>3, <2>1, <2>2, <2>3, SetKeeps DEF watchDeadLetterQueue
  <1>4. CASE notifyConfiguredProjects(d)
    <2> DEFINE onward == [dispatch[d] EXCEPT !.at = "claim"]
    <2>1. Set(d, After(dispatch[d])) \/ Set(d, onward)
      BY <1>4 DEF notifyConfiguredProjects
    <2>2. onward \in Positions /\ onward.at = "claim" /\ onward.key \in Keys
      BY <1>0, <1>4 DEF notifyConfiguredProjects, Positions, AlertInv
    <2> HIDE DEF onward
    <2> QED
      BY <1>0, <1>4, <2>1, <2>2, AfterKeeps, SetKeeps DEF notifyConfiguredProjects
  <1>5. CASE claim(d)
    <2>1. CASE Set(d, After(dispatch[d])) /\ UNCHANGED <<suppressed, sent>>
      BY <1>0, <2>1, AfterKeeps, SetKeeps
    <2>2. CASE /\ dispatch[d].at = "claim" /\ dispatch[d].key \notin suppressed
               /\ suppressed' = suppressed \cup {dispatch[d].key}
               /\ Set(d, [dispatch[d] EXCEPT !.at = "post"]) /\ sent' = sent
      <3> DEFINE k == dispatch[d].key
      <3>1. k \in Keys
        BY <2>2 DEF AlertInv
      <3>2. dispatch'[d] \in Positions /\ dispatch'[d].at = "post" /\ dispatch'[d].key = k
        BY <1>0, <2>2 DEF Set, AlertInv, Positions
      <3>3. \A e \in Dispatchers : e # d => dispatch'[e] = dispatch[e]
        BY <2>2 DEF Set, AlertInv
      <3>4. sent[k] = 0 /\ \A e \in Dispatchers : ~Posting(e, k)
        BY <2>2, <3>1 DEF AlertInv
      <3>5. dispatch' \in [Dispatchers -> Positions]
        BY <2>2, <3>2, <3>3 DEF Set, AlertInv
      <3> HIDE DEF k
      <3>6. ASSUME NEW j \in Keys
            PROVE  /\ sent'[j] <= 1
                   /\ j \notin suppressed' => sent'[j] = 0 /\ \A e \in Dispatchers : ~Posting(e, j)'
                   /\ \A e \in Dispatchers : Posting(e, j)' =>
                         sent'[j] = 0 /\ \A f \in Dispatchers : Posting(f, j)' => f = e
        BY <2>2, <3>2, <3>3, <3>4 DEF AlertInv, Posting, k
      <3>7. \A e \in Dispatchers :
                /\ dispatch'[e].at \in {"notify", "claim", "post"} => dispatch'[e].key \in Keys
                /\ dispatch'[e].at = "probe" => dispatch'[e].probe > 0
        BY <3>1, <3>2, <3>3 DEF AlertInv
      <3> QED
        BY <2>2, <3>5, <3>6, <3>7 DEF AlertInv
    <2> QED
      BY <1>5, <2>1, <2>2 DEF claim
  <1>6. CASE post(d)
    <2>0. PICK k \in Keys : k = dispatch[d].key
      BY <1>6 DEF post, AlertInv
    <2>1. k \in Keys /\ Posting(d, k) /\ sent[k] = 0 /\ k \in suppressed
      BY <1>6, <2>0 DEF post, AlertInv, Posting
    <2>2. /\ dispatch'[d] \in Positions /\ dispatch'[d].at \in {"idle", "probe"}
          /\ dispatch'[d].at = "probe" => dispatch'[d].probe > 0
      BY <1>0, <1>6, AfterKeeps DEF post, Set, AlertInv
    <2>3. \A e \in Dispatchers : e # d => dispatch'[e] = dispatch[e]
      BY <1>6 DEF post, Set, AlertInv
    <2>4. sent' \in [Keys -> Nat] /\ sent'[k] <= 1 /\ \A j \in Keys : j # k => sent'[j] = sent[j]
      BY <1>6, <2>0, <2>1 DEF post, AlertInv
    <2>5. dispatch' \in [Dispatchers -> Positions] /\ suppressed' = suppressed
      BY <1>6, <2>2, <2>3 DEF post, Set, AlertInv
    <2>6. \A e \in Dispatchers : ~Posting(e, k)'
      BY <2>1, <2>2, <2>3 DEF AlertInv, Posting
    <2>7. ASSUME NEW j \in Keys
          PROVE  /\ sent'[j] <= 1
                 /\ j \notin suppressed' => sent'[j] = 0 /\ \A e \in Dispatchers : ~Posting(e, j)'
                 /\ \A e \in Dispatchers : Posting(e, j)' =>
                       sent'[j] = 0 /\ \A f \in Dispatchers : Posting(f, j)' => f = e
      <3>1. CASE j = k
        BY <2>1, <2>4, <2>5, <2>6, <3>1
      <3>2. CASE j # k
        BY <2>2, <2>3, <2>4, <2>5, <3>2 DEF AlertInv, Posting
      <3> QED
        BY <3>1, <3>2
    <2>8. \A e \in Dispatchers :
              /\ dispatch'[e].at \in {"notify", "claim", "post"} => dispatch'[e].key \in Keys
              /\ dispatch'[e].at = "probe" => dispatch'[e].probe > 0
      BY <2>2, <2>3 DEF AlertInv
    <2> QED
      BY <2>4, <2>5, <2>7, <2>8 DEF AlertInv
  <1> QED
    BY <1>1, <1>2, <1>3, <1>4, <1>5, <1>6 DEF Steps

\* SET NX lets one dispatcher of a window through, and only it posts.
LEMMA AlertStep == ASSUME AlertInv, [Next]_vars PROVE AlertInv'
  <1>1. CASE UNCHANGED <<suppressed, sent, dispatch>>
    BY <1>1 DEF AlertInv, Posting
  <1>2. ASSUME NEW k \in Keys, windowEnds(k) PROVE AlertInv'
    BY <1>2 DEF windowEnds, AlertInv, Posting
  <1>3. CASE runAlertWatch("watch")
    BY <1>3, DispatchKeeps, ProcessesAssumption
  <1>4. ASSUME NEW job \in Jobs, tick(job) PROVE AlertInv'
    BY <1>1, <1>3, <1>4 DEF tick, alertVars
  <1>5. CASE alerting
    BY <1>2, <1>5, DispatchKeeps, ProcessesAssumption DEF alerting
  <1>6. ASSUME NEW d \in Dependencies, outage(d) \/ recovery(d) PROVE AlertInv'
    BY <1>1, <1>6 DEF outage, recovery
  <1>7. ASSUME NEW u, take(u) \/ invoke(u) \/ respond(u) \/ settle(u) PROVE AlertInv'
    BY <1>1, <1>7 DEF take, invoke, respond, settle, alertVars
  <1>8. CASE createQueueConnection \/ assertTopology \/ run \/ closeStep \/ closed \/ forceExit \/ time \/ exited
             \/ UNCHANGED vars
    BY <1>1, <1>8 DEF createQueueConnection, assertTopology, run, closeStep, closed, forceExit, time, exited,
       vars, alertVars
  <1> QED
    BY <1>4, <1>5, <1>6, <1>7, <1>8 DEF Next

\* alerts.js: two callers that notice one incident send one alert between them per
\* suppression window.
THEOREM OneAlertPerWindowHolds == Spec => []OneAlertPerWindow
  <1>1. AlertInv => OneAlertPerWindow
    BY DEF AlertInv, OneAlertPerWindow
  <1> QED
    BY <1>1, AlertInit, AlertStep, PTL DEF Spec
=============================================================================
