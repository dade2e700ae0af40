-------------------------- MODULE PodLifecycleProofs --------------------------
(***************************************************************************)
(* Proofs about PodLifecycle, for any number of lost polls: a dead loop is *)
(* noticed in time, a container is killed for a cause only, and one that   *)
(* never gets ready is killed before its startup budget is used up.        *)
(*                                                                         *)
(* Each of the three is a budget that three variables share: the seconds   *)
(* that have passed, the seconds until the next poll, and the failures     *)
(* that are left. Their sum is what no step increases.                     *)
(***************************************************************************)
EXTENDS PodLifecycle, TLAPS

-----------------------------------------------------------------------------
(* The inductive invariant *)

\* The values of the variables.  A poll is never further away than its period,
\* and a running container has a failure left of each probe that can kill it.
PodTypeOK ==
  /\ life \in Process!Lives
  /\ container \in {"running", "waiting"}
  /\ started \in BOOLEAN /\ ready \in BOOLEAN
  /\ fails \in [Probes -> Nat] /\ due \in [Probes -> Nat]
  /\ \A p \in Probes : due[p] <= PeriodSeconds[p]
  /\ age \in Nat /\ down \in Nat /\ lost \in 0 .. MaxLost

\* A probe that can kill its container has not failed often enough to do so.
FailureLeft ==
  container = "running" =>
    /\ fails["startup"] < FailureThreshold["startup"]
    /\ fails["liveness"] < FailureThreshold["liveness"]

\* Only a server that was ready is started, and only a ready Pod is routed to;
\* readiness is lost at the third failure.
Gated ==
  /\ started /\ container = "running" => life \in {"ready", "dead"}
  /\ ready => container = "running" /\ started
                /\ fails["readiness"] < FailureThreshold["readiness"]

\* A container that has not started has been polled by the startup probe alone,
\* every five seconds from the first.
StartupCount ==
  container = "running" /\ ~started =>
    /\ age + due["startup"] = PeriodSeconds["startup"] * fails["startup"]
    /\ fails["liveness"] = 0 /\ fails["readiness"] = 0

\* A healthy server fails a liveness poll only when it is lost.
LostCount ==
  container = "running" /\ started /\ life = "ready" => fails["liveness"] <= lost

\* The time since the death, the time to the next poll and the failures left
\* fit in the budget of the liveness probe, and, as long as the Pod is routed
\* to, in that of the readiness probe.
DeathCount ==
  /\ container = "running" /\ ~(started /\ life = "dead") => down = 0
  /\ container = "running" /\ started /\ life = "dead" =>
       /\ down + due["liveness"] <= 10 + 10 * fails["liveness"]
       /\ ready => down + due["readiness"] <= 3 + 3 * fails["readiness"]

PodInv ==
  PodTypeOK /\ FailureLeft /\ Gated /\ StartupCount /\ LostCount /\ DeathCount

-----------------------------------------------------------------------------
(* The numbers of buildDeployment *)

\* The periods and thresholds, one by one, and the budgets they make.
LEMMA Numbers ==
  /\ PeriodSeconds["startup"] = 5 /\ PeriodSeconds["liveness"] = 10
  /\ PeriodSeconds["readiness"] = 3
  /\ FailureThreshold["startup"] = 120 /\ FailureThreshold["liveness"] = 3
  /\ FailureThreshold["readiness"] = 3
  /\ Budget["startup"] = 600 /\ Budget["liveness"] = 30 /\ Budget["readiness"] = 9
<1>1. /\ PeriodSeconds["startup"] = 5 /\ PeriodSeconds["liveness"] = 10
      /\ PeriodSeconds["readiness"] = 3
  BY DEF PeriodSeconds
<1>2. /\ FailureThreshold["startup"] = 120 /\ FailureThreshold["liveness"] = 3
      /\ FailureThreshold["readiness"] = 3
  BY DEF FailureThreshold
<1>3. \A p \in Probes : Budget[p] = PeriodSeconds[p] * FailureThreshold[p]
  BY DEF Budget
<1>4. QED
  BY <1>1, <1>2, <1>3 DEF Probes

-----------------------------------------------------------------------------
(* The first state and every step *)

\* Nothing has been polled and no time has passed.
LEMMA PodInvInit == PodInit => PodInv
<1> SUFFICES ASSUME PodInit PROVE PodInv
  OBVIOUS
<1>1. fails \in [Probes -> Nat] /\ due \in [Probes -> Nat]
      /\ \A p \in Probes : fails[p] = 0 /\ due[p] = 0
  BY DEF PodInit
<1>2. PodTypeOK
  <2>1. \A p \in Probes : due[p] <= PeriodSeconds[p]
    BY <1>1, Numbers DEF Probes
  <2>2. lost \in 0 .. MaxLost
    BY PodAssumption DEF PodInit
  <2>3. QED
    BY <1>1, <2>1, <2>2 DEF PodInit, PodTypeOK, Process!Lives
<1>3. FailureLeft /\ Gated /\ StartupCount /\ LostCount /\ DeathCount
  BY <1>1, Numbers
     DEF PodInit, FailureLeft, Gated, StartupCount, LostCount, DeathCount, Probes
<1>4. QED
  BY <1>2, <1>3 DEF PodInv

\* A poll that succeeds shows a server that is ready, so that no count of a
\* dead one is running; the first of the startup probe starts the other two.
LEMMA PollSucceedsPreservesPodInv ==
  ASSUME PodInv, NEW p \in Probes, PollSucceeds(p)
  PROVE  PodInv'
<1>1. /\ life = "ready" /\ life' = "ready"
      /\ container = "running" /\ container' = "running"
      /\ started' = TRUE /\ ready' = (ready \/ p = "readiness")
      /\ age' = 0 /\ down' = down /\ lost' = lost
      /\ fails' = [fails EXCEPT ![p] = 0]
  BY DEF PollSucceeds, Polled, Healthy
<1>2. IF p = "startup" THEN ~started ELSE started
  BY DEF PollSucceeds, Polled
<1>3. /\ fails' \in [Probes -> Nat] /\ fails'[p] = 0
      /\ \A q \in Probes \ {p} : fails'[q] = fails[q]
  BY <1>1 DEF PodInv, PodTypeOK
<1>4. /\ due' \in [Probes -> Nat] /\ \A q \in Probes : due'[q] <= PeriodSeconds[q]
  <2>1. CASE p = "startup"
    <3>1. PICK l \in 0 .. PeriodSeconds.liveness - 1, r \in 0 .. PeriodSeconds.readiness - 1 :
            due' = [startup |-> 0, liveness |-> l, readiness |-> r]
      BY <2>1 DEF PollSucceeds
    <3>2. l \in Nat /\ l <= 10 /\ r \in Nat /\ r <= 3
      BY Numbers
    <3>3. /\ due' \in [Probes -> Nat]
          /\ due'["startup"] = 0 /\ due'["liveness"] = l /\ due'["readiness"] = r
      BY <3>1, <3>2 DEF Probes
    <3>4. QED
      BY <3>2, <3>3, Numbers DEF Probes
  <2>2. CASE p # "startup"
    <3>1. due' = [due EXCEPT ![p] = PeriodSeconds[p]]
      BY <2>2 DEF PollSucceeds, Rescheduled
    <3>2. PeriodSeconds[p] \in Nat
      BY Numbers DEF Probes
    <3>3. QED
      BY <3>1, <3>2, Numbers DEF PodInv, PodTypeOK, Probes
  <2>3. QED
    BY <2>1, <2>2
<1>5. PodTypeOK'
  BY <1>1, <1>3, <1>4 DEF PodInv, PodTypeOK, Process!Lives
<1>6. FailureLeft' /\ Gated' /\ StartupCount'
  BY <1>1, <1>2, <1>3, Numbers
     DEF PodInv, PodTypeOK, FailureLeft, Gated, StartupCount, Probes
<1>7. LostCount'
  BY <1>1, <1>2, <1>3 DEF PodInv, PodTypeOK, LostCount, StartupCount, Probes
<1>8. DeathCount'
  BY <1>1 DEF PodInv, DeathCount
<1>9. QED
  BY <1>5, <1>6, <1>7, <1>8 DEF PodInv

\* What a failed poll does, in the terms of the counts.
LEMMA PollFailsDoes ==
  ASSUME PodInv, NEW p \in Probes, PollFails(p)
  PROVE  /\ life' = life /\ age' = age /\ down' = down /\ started' = started
         /\ container = "running" /\ (IF p = "startup" THEN ~started ELSE started)
         /\ due[p] = 0 /\ due' \in [Probes -> Nat] /\ due'[p] = PeriodSeconds[p]
         /\ \A q \in Probes \ {p} : due'[q] = due[q] /\ fails'[q] = fails[q]
         /\ fails' \in [Probes -> Nat]
         /\ p # "readiness" => fails'[p] = fails[p] + 1
         /\ p = "readiness" =>
              fails'[p] = fails[p] + 1 \/ (fails[p] = 3 /\ fails'[p] = 3)
         /\ lost' \in 0 .. MaxLost
         /\ IF life = "ready" THEN lost' = lost + 1 ELSE lost' = lost
         /\ \/ Exhausted(p) /\ container' = "waiting" /\ ready' = FALSE
            \/ /\ ~Exhausted(p) /\ container' = "running"
               /\ ready' = (ready /\ (p = "readiness" => fails'[p] < 3))
<1>1. /\ life' = life /\ age' = age /\ down' = down /\ started' = started
      /\ container = "running" /\ (IF p = "startup" THEN ~started ELSE started)
      /\ due[p] = 0
  BY DEF PollFails, Polled, Kill
<1>2. PeriodSeconds[p] \in Nat /\ due' = [due EXCEPT ![p] = PeriodSeconds[p]]
  BY Numbers DEF PollFails, Rescheduled, Probes
<1>3. /\ due' \in [Probes -> Nat] /\ due'[p] = PeriodSeconds[p]
      /\ \A q \in Probes \ {p} : due'[q] = due[q]
  BY <1>2 DEF PodInv, PodTypeOK
<1>4. fails' = [fails EXCEPT ![p] =
                  IF p = "readiness" /\ fails[p] = FailureThreshold[p]
                  THEN fails[p] ELSE fails[p] + 1]
  BY DEF PollFails
<1>5. /\ fails' \in [Probes -> Nat]
      /\ \A q \in Probes \ {p} : fails'[q] = fails[q]
      /\ p # "readiness" => fails'[p] = fails[p] + 1
      /\ p = "readiness" => fails'[p] = fails[p] + 1 \/ (fails[p] = 3 /\ fails'[p] = 3)
  <2>1. fails \in [Probes -> Nat]
    BY DEF PodInv, PodTypeOK
  <2>2. PICK n \in Nat : /\ fails' = [fails EXCEPT ![p] = n]
                         /\ p # "readiness" => n = fails[p] + 1
                         /\ p = "readiness" => n = fails[p] + 1 \/ (fails[p] = 3 /\ n = 3)
    <3>1. CASE p = "readiness" /\ fails[p] = FailureThreshold[p]
      <4>1. fails' = [fails EXCEPT ![p] = fails[p]] /\ fails[p] = 3 /\ fails[p] \in Nat
        BY <1>4, <2>1, <3>1, Numbers
      <4>2. QED
        BY <3>1, <4>1
    <3>2. CASE ~(p = "readiness" /\ fails[p] = FailureThreshold[p])
      <4>1. fails[p] + 1 \in Nat
        BY <2>1
      <4>2. fails' = [fails EXCEPT ![p] = fails[p] + 1]
        BY <1>4, <3>2, Zenon
      <4>3. QED
        BY <3>2, <4>1, <4>2
    <3>3. QED
      BY <3>1, <3>2
  <2>3. fails'[p] = n /\ fails' \in [Probes -> Nat]
        /\ \A q \in Probes \ {p} : fails'[q] = fails[q]
    BY <2>1, <2>2
  <2>4. QED
    BY <2>2, <2>3
<1>6. IF life = "ready" THEN lost < MaxLost /\ lost' = lost + 1 ELSE lost' = lost
  BY DEF PollFails, Healthy
<1>7. lost' \in 0 .. MaxLost
  BY <1>6, PodAssumption DEF PodInv, PodTypeOK
<1>8. \/ Exhausted(p) /\ container' = "waiting" /\ ready' = FALSE
      \/ /\ ~Exhausted(p) /\ container' = "running"
         /\ ready' = (ready /\ (p = "readiness" => fails'[p] < 3))
  BY <1>1, Numbers DEF PollFails, Kill
<1>9. QED
  BY <1>1, <1>3, <1>5, <1>6, <1>7, <1>8

\* A failed poll uses up a failure and buys the container one more period;
\* the last of them kills it.
LEMMA PollFailsPreservesPodInv ==
  ASSUME PodInv, NEW p \in Probes, PollFails(p)
  PROVE  PodInv'
<1>1. /\ life \in Process!Lives /\ started \in BOOLEAN /\ ready \in BOOLEAN
      /\ fails \in [Probes -> Nat] /\ due \in [Probes -> Nat]
      /\ \A q \in Probes : due[q] <= PeriodSeconds[q]
      /\ age \in Nat /\ down \in Nat /\ lost \in 0 .. MaxLost
  BY DEF PodInv, PodTypeOK
<1>2. ready' \in BOOLEAN /\ container' \in {"running", "waiting"}
  BY PollFailsDoes
<1>3. \A q \in Probes : due'[q] <= PeriodSeconds[q]
  <2>1. due'[p] = PeriodSeconds[p] /\ \A q \in Probes \ {p} : due'[q] = due[q]
    BY PollFailsDoes
  <2>2. ASSUME NEW q \in Probes PROVE due'[q] <= PeriodSeconds[q]
    <3>1. PeriodSeconds[q] \in Nat
      BY Numbers DEF Probes
    <3>2. QED
      BY <1>1, <2>1, <3>1
  <2>3. QED
    BY <2>2
<1>4. PodTypeOK'
  BY <1>1, <1>2, <1>3, PollFailsDoes DEF PodTypeOK
<1>5. CASE Exhausted(p)
  <2>1. container' = "waiting" /\ ready' = FALSE
    BY <1>5, PollFailsDoes
  <2>2. FailureLeft' /\ Gated' /\ StartupCount' /\ LostCount' /\ DeathCount'
    BY <2>1 DEF FailureLeft, Gated, StartupCount, LostCount, DeathCount
  <2>3. QED
    BY <1>4, <2>2 DEF PodInv
<1>6. CASE ~Exhausted(p)
  <2>1. /\ container = "running" /\ container' = "running"
        /\ ready' = (ready /\ (p = "readiness" => fails'[p] < 3))
    BY <1>6, PollFailsDoes
  <2>2. p # "readiness" => fails[p] + 1 < FailureThreshold[p]
    BY <1>1, <1>6, Numbers DEF Exhausted, Probes
  <2>3. FailureLeft'
    BY <1>1, <2>1, <2>2, PollFailsDoes, Numbers DEF PodInv, FailureLeft, Probes
  <2>4. Gated'
    BY <1>1, <2>1, PollFailsDoes, Numbers DEF PodInv, Gated, Probes
  <2>5. StartupCount'
    BY <1>1, <2>1, PollFailsDoes, Numbers DEF PodInv, StartupCount, Probes
  <2>6. LostCount'
    <3> SUFFICES ASSUME started', life' = "ready" PROVE fails'["liveness"] <= lost'
      BY DEF LostCount
    <3>1. started /\ life = "ready" /\ lost' = lost + 1
      BY PollFailsDoes
    <3>2. fails["liveness"] <= lost
      BY <2>1, <3>1 DEF PodInv, LostCount
    <3>3. fails'["liveness"] = fails["liveness"] \/ fails'["liveness"] = fails["liveness"] + 1
      BY PollFailsDoes DEF Probes
    <3>4. QED
      BY <1>1, <3>1, <3>2, <3>3, PodAssumption DEF Probes
  <2>7. DeathCount'
    BY <1>1, <2>1, PollFailsDoes, Numbers DEF PodInv, Gated, DeathCount, Probes
  <2>8. QED
    BY <1>4, <2>3, <2>4, <2>5, <2>6, <2>7 DEF PodInv
<1>7. QED
  BY <1>5, <1>6

\* A second that passes brings every poll that runs a second nearer.
LEMMA SecondPreservesPodInv ==
  ASSUME PodInv, Second
  PROVE  PodInv'
<1>1. /\ life \in Process!Lives /\ started \in BOOLEAN /\ ready \in BOOLEAN
      /\ fails \in [Probes -> Nat] /\ due \in [Probes -> Nat]
      /\ \A q \in Probes : due[q] <= PeriodSeconds[q]
      /\ age \in Nat /\ down \in Nat /\ lost \in 0 .. MaxLost
  BY DEF PodInv, PodTypeOK
<1>2. /\ container = "running" /\ container' = "running"
      /\ life' = life /\ started' = started /\ ready' = ready
      /\ fails' = fails /\ lost' = lost
  BY DEF Second
<1>3. \A q \in Probes : IF q = "startup" THEN ~started => due[q] > 0
                                         ELSE started => due[q] > 0
  BY <1>2 DEF Second, Polled
<1>4. \A q \in Probes : due'[q] = IF Polled(q) THEN due[q] - 1 ELSE due[q]
  BY DEF Second
<1>5. due' \in [Probes -> Nat]
  <2>1. \A q \in Probes : (IF Polled(q) THEN due[q] - 1 ELSE due[q]) \in Nat
    BY <1>1 DEF Second
  <2>2. QED
    BY <2>1 DEF Second
<1>6. /\ started => /\ due'["startup"] = due["startup"]
                    /\ due'["liveness"] = due["liveness"] - 1
                    /\ due'["readiness"] = due["readiness"] - 1
      /\ ~started => /\ due'["startup"] = due["startup"] - 1
                     /\ due'["liveness"] = due["liveness"]
                     /\ due'["readiness"] = due["readiness"]
  BY <1>2, <1>4 DEF Polled, Probes
<1>7. /\ age' = IF started \/ age = 600 THEN age ELSE age + 1
      /\ down' = IF started /\ life = "dead" /\ down <= 30 THEN down + 1 ELSE down
  BY Numbers DEF Second
<1>8. PodTypeOK'
  <2>1. \A q \in Probes : due'[q] <= PeriodSeconds[q]
    BY <1>1, <1>6, Numbers DEF Probes
  <2>2. age' \in Nat /\ down' \in Nat
    BY <1>1, <1>7
  <2>3. QED
    BY <1>1, <1>2, <1>5, <2>1, <2>2 DEF PodTypeOK
<1>9. FailureLeft' /\ Gated' /\ LostCount'
  BY <1>2 DEF PodInv, FailureLeft, Gated, LostCount
<1>10. StartupCount'
  BY <1>1, <1>2, <1>3, <1>6, <1>7, Numbers
     DEF PodInv, FailureLeft, StartupCount, Probes
<1>11. DeathCount'
  BY <1>1, <1>2, <1>3, <1>6, <1>7, Numbers
     DEF PodInv, FailureLeft, DeathCount, Probes
<1>12. QED
  BY <1>8, <1>9, <1>10, <1>11 DEF PodInv

\* A server that dies starts its counts with a full budget.
LEMMA ProcessStepPreservesPodInv ==
  ASSUME PodInv, ProcessStep
  PROVE  PodInv'
<1>1. UNCHANGED <<container, started, ready, fails, due, age, down, lost>>
  BY DEF ProcessStep
<1>2. /\ container = "running"
      /\ \/ life = "starting" /\ life' = "ready"
         \/ life = "starting" /\ life' = "stuck"
         \/ life \in {"starting", "ready"} /\ life' = "dead"
  BY DEF ProcessStep, Process!Step, Process!BecomeReady, Process!GetStuck, Process!Die
<1>3. /\ fails \in [Probes -> Nat] /\ due \in [Probes -> Nat]
      /\ \A q \in Probes : due[q] <= PeriodSeconds[q]
      /\ down \in Nat
  BY DEF PodInv, PodTypeOK
<1>4. PodTypeOK'
  BY <1>1, <1>2 DEF PodInv, PodTypeOK, Process!Lives
<1>5. FailureLeft' /\ StartupCount'
  BY <1>1 DEF PodInv, FailureLeft, StartupCount
<1>6. Gated' /\ LostCount'
  BY <1>1, <1>2 DEF PodInv, Gated, LostCount
<1>7. DeathCount'
  BY <1>1, <1>2, <1>3, Numbers DEF PodInv, DeathCount, Probes
<1>8. QED
  BY <1>4, <1>5, <1>6, <1>7 DEF PodInv

\* A new container has nothing of the old one.
LEMMA RestartPreservesPodInv ==
  ASSUME PodInv, Restart
  PROVE  PodInv'
<1>1. /\ life' = "starting" /\ container' = "running" /\ started' = FALSE
      /\ ready' = ready /\ age' = 0 /\ down' = 0 /\ lost' = 0
      /\ ready = FALSE
  BY DEF Restart, PodInv, PodTypeOK, Gated
<1>2. fails' \in [Probes -> Nat] /\ due' \in [Probes -> Nat]
      /\ \A p \in Probes : fails'[p] = 0 /\ due'[p] = 0
  BY DEF Restart
<1>3. PodTypeOK'
  <2>1. \A p \in Probes : due'[p] <= PeriodSeconds[p]
    BY <1>2, Numbers DEF Probes
  <2>2. lost' \in 0 .. MaxLost
    BY <1>1, PodAssumption
  <2>3. QED
    BY <1>1, <1>2, <2>1, <2>2 DEF PodTypeOK, Process!Lives
<1>4. FailureLeft' /\ Gated' /\ StartupCount' /\ LostCount' /\ DeathCount'
  BY <1>1, <1>2, Numbers
     DEF FailureLeft, Gated, StartupCount, LostCount, DeathCount, Probes
<1>5. QED
  BY <1>3, <1>4 DEF PodInv

\* Every step keeps the counts.
LEMMA PodInvNext == PodInv /\ [PodNext]_podVars => PodInv'
<1> SUFFICES ASSUME PodInv, [PodNext]_podVars PROVE PodInv'
  OBVIOUS
<1>1. ASSUME NEW p \in Probes, PollSucceeds(p) PROVE PodInv'
  BY <1>1, PollSucceedsPreservesPodInv
<1>2. ASSUME NEW p \in Probes, PollFails(p) PROVE PodInv'
  BY <1>2, PollFailsPreservesPodInv
<1>3. CASE UNCHANGED podVars
  BY <1>3 DEF podVars, PodInv, PodTypeOK, FailureLeft, Gated, StartupCount, LostCount,
              DeathCount
<1>4. QED
  BY <1>1, <1>2, <1>3, SecondPreservesPodInv, ProcessStepPreservesPodInv,
     RestartPreservesPodInv DEF PodNext, Kubelet

\* The counts hold in every reachable state.
THEOREM PodCountsHold == PodSpec => []PodInv
  BY PodInvInit, PodInvNext, PTL DEF PodSpec

-----------------------------------------------------------------------------
(* What they say of the probes *)

\* A dead loop (BatchingEngine.is_healthy) is out of the Service's endpoints
\* within the readiness probe's budget and its container is killed within the
\* liveness probe's, whenever it dies and at whatever phase the probes are.
THEOREM DeathIsNoticedInTime == PodSpec => []DeathIsNoticed
<1>1. PodInv => DeathIsNoticed
  BY Numbers DEF PodInv, PodTypeOK, FailureLeft, Gated, DeathCount, DeathIsNoticed, Probes
<1>2. QED
  BY <1>1, PodCountsHold, PTL

\* A step that kills a container is a failed poll of a probe with no failure
\* left; the counts say what that took.
LEMMA KillHasCause ==
  ASSUME PodInv, [PodNext]_podVars, container = "running", container' = "waiting"
  PROVE  IF started
         THEN life = "dead" \/ lost' >= FailureThreshold.liveness
         ELSE age >= Budget.startup - PeriodSeconds.startup
<1>1. PICK p \in Probes : PollFails(p)
  <2>1. ASSUME NEW p \in Probes, PollSucceeds(p) PROVE container' = container
    BY <2>1 DEF PollSucceeds
  <2>2. Second \/ ProcessStep \/ UNCHANGED podVars => container' = container
    BY DEF Second, ProcessStep, podVars
  <2>3. Restart => container = "waiting"
    BY DEF Restart
  <2>4. QED
    BY <2>1, <2>2, <2>3 DEF PodNext, Kubelet
<1>2. Exhausted(p)
  BY <1>1, PollFailsDoes
<1>3. /\ fails \in [Probes -> Nat] /\ due \in [Probes -> Nat] /\ age \in Nat
      /\ lost \in 0 .. MaxLost /\ life \in Process!Lives /\ started \in BOOLEAN
  BY DEF PodInv, PodTypeOK
<1>4. CASE started
  <2>1. p = "liveness" /\ fails["liveness"] + 1 >= 3
    BY <1>1, <1>2, <1>4, PollFailsDoes, Numbers DEF Exhausted, Probes
  <2>2. life \in {"ready", "dead"}
    BY <1>4 DEF PodInv, Gated
  <2>3. life = "ready" => lost' = lost + 1 /\ fails["liveness"] <= lost
    BY <1>1, <1>4, PollFailsDoes DEF PodInv, LostCount
  <2>4. QED
    BY <1>3, <1>4, <2>1, <2>2, <2>3, Numbers, PodAssumption DEF Probes
<1>5. CASE ~started
  <2>1. p = "startup" /\ fails["startup"] + 1 >= 120 /\ due["startup"] = 0
    BY <1>1, <1>2, <1>5, PollFailsDoes, Numbers DEF Exhausted, Probes
  <2>2. age + due["startup"] = PeriodSeconds["startup"] * fails["startup"]
    BY <1>5 DEF PodInv, StartupCount
  <2>3. QED
    BY <1>3, <1>5, <2>1, <2>2, Numbers DEF Probes
<1>6. QED
  BY <1>4, <1>5

\* A container that is still loading is killed only when it has used up the
\* startup probe's ten minutes but for one period, and one that served only
\* when it is dead or three polls of it were lost.
THEOREM KillsHaveCauses == PodSpec => KilledForCause
<1>1. PodInv /\ [PodNext]_podVars =>
        [ container = "running" /\ container' = "waiting" =>
            IF started
            THEN life = "dead" \/ lost' >= FailureThreshold.liveness
            ELSE age >= Budget.startup - PeriodSeconds.startup ]_podVars
  BY KillHasCause
<1>2. QED
  BY <1>1, PodCountsHold, PTL DEF PodSpec, KilledForCause

\* A server whose load raised or never ends (main.py:170) does not hold its
\* container beyond the startup probe's budget: at the last second but five the
\* container is killed or has served.  The safety half of EverySilenceEnds.
StartupIsBounded ==
  container = "running" /\ ~started => age <= Budget.startup - PeriodSeconds.startup

\* However many polls are lost, a start is never longer.
THEOREM SlowStartsEnd == PodSpec => []StartupIsBounded
<1>1. PodInv => StartupIsBounded
  BY Numbers DEF PodInv, PodTypeOK, FailureLeft, StartupCount, StartupIsBounded, Probes
<1>2. QED
  BY <1>1, PodCountsHold, PTL
=============================================================================
