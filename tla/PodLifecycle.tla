---------------------------- MODULE PodLifecycle ----------------------------
(***************************************************************************)
(* One Pod of a ModelServer: the three probes that buildDeployment of      *)
(* internal/controller/modelserver_controller.go puts on its container,    *)
(* all of them polling /health of model_server/main.py, and the kubelet    *)
(* that polls them, kills the container and starts it again.               *)
(*                                                                         *)
(* Time is counted in seconds.  The server may get ready, get stuck or die *)
(* at any moment, as ModelProcess says; a poll of a healthy server may be  *)
(* lost, as when the event loop is too busy to answer in time.             *)
(***************************************************************************)
EXTENDS Integers

CONSTANT MaxLost  \* bound: lost polls of a healthy server, per container

ASSUME PodAssumption == MaxLost \in Nat

VARIABLES
  life,       \* the process in the container, as in ModelProcess
  container,  \* "running" | "waiting": killed, and not started again yet
  started,    \* the startup probe has succeeded
  ready,      \* the Pod is ready: among the Service's endpoints
  fails,      \* per probe, failures in a row
  due,        \* per probe, seconds until the next poll
  age,        \* seconds since the container started, while it is not `started`
  down,       \* seconds since the process died, once `started`
  lost        \* lost polls so far

podVars == <<life, container, started, ready, fails, due, age, down, lost>>

Process == INSTANCE ModelProcess

Probes == {"startup", "liveness", "readiness"}

PeriodSeconds == [startup |-> 5, liveness |-> 10, readiness |-> 3]

\* The readiness probe sets none: 3 is the default.
FailureThreshold == [startup |-> 120, liveness |-> 3, readiness |-> 3]

\* The seconds a probe gives a server that does not answer 200.
Budget == [p \in Probes |-> PeriodSeconds[p] * FailureThreshold[p]]

-----------------------------------------------------------------------------
\* Slip: /health looks at the loaded flag only.
LoadedOnly == life \in {"ready", "dead"}

\* health answers 200.
Healthy == life = "ready"

\* Slip: no startup probe gates the liveness probe.
PolledFromTheStart(p) ==
  container = "running" /\ IF p = "startup" THEN ~started ELSE (started \/ p = "liveness")

\* Slip: no liveness probe, as routing alone takes a dead server out of service.
NoLivenessPoll(p) ==
  container = "running" /\ IF p = "startup" THEN ~started ELSE started /\ p = "readiness"

\* The startup probe runs until it succeeds once, the others only from then on.
Polled(p) == container = "running" /\ IF p = "startup" THEN ~started ELSE started

PodInit ==
  /\ life = "starting"
  /\ container = "running"
  /\ started = FALSE /\ ready = FALSE
  /\ fails = [p \in Probes |-> 0] /\ due = [p \in Probes |-> 0]
  /\ age = 0 /\ down = 0 /\ lost = 0

Kill ==
  /\ container' = "waiting"
  /\ ready' = FALSE
  /\ UNCHANGED started

Rescheduled(p) == [due EXCEPT ![p] = PeriodSeconds[p]]

\* A poll that is answered with 200.  The workers of the other two probes have
\* been running since the container started, each at a phase of its own.
PollSucceeds(p) ==
  /\ Polled(p) /\ due[p] = 0
  /\ Healthy
  /\ fails' = [fails EXCEPT ![p] = 0]
  /\ started' = TRUE
  /\ IF p = "startup"
     THEN \E l \in 0 .. PeriodSeconds.liveness - 1, r \in 0 .. PeriodSeconds.readiness - 1 :
            due' = [startup |-> 0, liveness |-> l, readiness |-> r]
     ELSE due' = Rescheduled(p)
  /\ ready' = (ready \/ p = "readiness")
  /\ age' = 0
  /\ UNCHANGED <<life, container, down, lost>>

\* One more failure and the container is killed.
Exhausted(p) == p # "readiness" /\ fails[p] + 1 >= FailureThreshold[p]

\* A poll that is answered with 503, or not in time.
PollFails(p) ==
  /\ Polled(p) /\ due[p] = 0
  /\ IF Healthy THEN lost < MaxLost /\ lost' = lost + 1 ELSE UNCHANGED lost
  /\ fails' = [fails EXCEPT ![p] =
                 IF p = "readiness" /\ @ = FailureThreshold[p] THEN @ ELSE @ + 1]
  /\ due' = Rescheduled(p)
  /\ IF Exhausted(p) THEN Kill
     ELSE /\ ready' = (ready /\ (p = "readiness" => fails'[p] < FailureThreshold[p]))
          /\ UNCHANGED <<container, started>>
  /\ UNCHANGED <<life, age, down>>

\* A second passes; no poll is late.  age and down count as far as they matter.
Second ==
  /\ container = "running"
  /\ \A p \in Probes : Polled(p) => due[p] > 0
  /\ due' = [p \in Probes |-> IF Polled(p) THEN due[p] - 1 ELSE due[p]]
  /\ age' = IF started \/ age = Budget.startup THEN age ELSE age + 1
  /\ down' = IF started /\ life = "dead" /\ down <= Budget.liveness THEN down + 1 ELSE down
  /\ UNCHANGED <<life, container, started, ready, fails, lost>>

\* The container's process goes its own way.
ProcessStep ==
  /\ container = "running"
  /\ Process!Step
  /\ UNCHANGED <<container, started, ready, fails, due, age, down, lost>>

\* The back-off is over: a new container, with nothing of the old one.
Restart ==
  /\ container = "waiting"
  /\ life' = "starting"
  /\ container' = "running"
  /\ started' = FALSE /\ UNCHANGED ready
  /\ fails' = [p \in Probes |-> 0] /\ due' = [p \in Probes |-> 0]
  /\ age' = 0 /\ down' = 0 /\ lost' = 0

Kubelet == \/ \E p \in Probes : PollSucceeds(p) \/ PollFails(p)
           \/ Second
           \/ Restart

PodNext == Kubelet \/ ProcessStep

\* Time passes and the kubelet works; a load need not end and nothing need die.
PodSpec == PodInit /\ [][PodNext]_podVars /\ WF_podVars(Kubelet)

-----------------------------------------------------------------------------
\* A dead loop does not hold its container for long, nor its clients: traffic
\* stops when three readiness polls have failed, and the container is gone when
\* three liveness polls have ("~30s to notice", modelserver_controller.go:277).
\* The container may serve again before, but only as another process.
DeathIsNoticed ==
  container = "running" /\ started /\ life = "dead" =>
    /\ down <= Budget.liveness
    /\ ready => down <= Budget.readiness

\* No container is killed for being slow: one that is still loading has used up
\* its startup budget but for one period, and a started one is dead or was
\* three times too busy to answer (modelserver_controller.go:257).
KilledForCause ==
  [][ container = "running" /\ container' = "waiting" =>
        IF started
        THEN life = "dead" \/ lost' >= FailureThreshold.liveness
        ELSE age >= Budget.startup - PeriodSeconds.startup ]_podVars

\* Nothing hangs: a server that does not get ready, because its load raised or
\* never ends (main.py:170), or that died, is started again.
EverySilenceEnds ==
  (container = "running" /\ ~Healthy) ~> (Healthy \/ container = "waiting")
=============================================================================
