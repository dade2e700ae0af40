--------------------------- MODULE ReconcilerProofs ---------------------------
(***************************************************************************)
(* Proofs about Reconciler, for any spec, any number of Pods and whatever  *)
(* the outside does: the objects keep their shape, and no status is ahead  *)
(* of its spec.  While nobody else touches the owned objects, a status     *)
(* that names the current generation means that its objects are in place.  *)
(*                                                                         *)
(* The argument is one of ages.  A ModelServer is older or younger by its  *)
(* uid, and within one uid by its generation; what the cache shows and     *)
(* what the call has read is never younger than what exists, and what the  *)
(* call has read never younger than what the cache shows.                  *)
(***************************************************************************)
EXTENDS Reconciler, TLAPS

-----------------------------------------------------------------------------
(* The inductive invariant *)

\* Two copies are of one generation of one ModelServer: they differ in their
\* status and version at most.
SameGeneration(a, b) == a.uid = b.uid /\ a.generation = b.generation

\* A uid is new when it is given, and is never given again.
Known(a) == a # Absent => a.uid <= IF api.ms = Absent THEN changes ELSE changes + 1

\* What was once read of a ModelServer is no later than what it is now, and of
\* one generation there is one spec.
NotAhead(a) ==
  a # Absent /\ api.ms # Absent /\ a.uid = api.ms.uid =>
    /\ a.generation <= api.ms.generation
    /\ a.generation = api.ms.generation =>
         a.replicas = api.ms.replicas /\ a.template = api.ms.template

\* A call that has read the current generation read it from a cache that shows
\* it still.
CacheKeepsUp ==
  got # Absent /\ api.ms # Absent /\ SameGeneration(got, api.ms) =>
    cache.ms # Absent /\ SameGeneration(cache.ms, api.ms)

\* No status names a generation to come, and once one names the current one,
\* nobody works for an older one any more.
StatusNotAhead == api.ms # Absent => api.ms.status.observed <= api.ms.generation

Settled ==
  api.ms # Absent /\ api.ms.status.observed = api.ms.generation =>
    /\ cache.ms # Absent /\ SameGeneration(cache.ms, api.ms)
    /\ got # Absent => SameGeneration(got, api.ms)

Ages ==
  /\ Known(api.ms) /\ Known(cache.ms) /\ Known(got)
  /\ NotAhead(cache.ms) /\ NotAhead(got)
  /\ CacheKeepsUp /\ StatusNotAhead /\ Settled

ReconcilerInv == ReconcilerTypeOK /\ Ages

\* The objects of m that Reconcile applies.
DeploymentOf(m) ==
  /\ api.deploy # Absent
  /\ api.deploy.owners = {m.uid}
  /\ api.deploy.replicas = m.replicas
  /\ api.deploy.template = m.template

ServiceOf(m) == api.service = [owners |-> {m.uid}, intact |-> TRUE, stray |-> FALSE]

\* A call that works for the current generation finds what it has applied
\* where it put it.
Applied ==
  got # Absent /\ api.ms # Absent /\ SameGeneration(got, api.ms) =>
    /\ pc \in {"service", "status"} => DeploymentOf(api.ms)
    /\ pc = "status" => ServiceOf(api.ms)

\* What a status that names the current generation promises.
ObservedInPlace ==
  api.ms # Absent /\ api.ms.status.observed = api.ms.generation =>
    DeploymentOf(api.ms) /\ ServiceOf(api.ms)

AppliedInv == ReconcilerInv /\ Applied /\ ObservedInPlace

-----------------------------------------------------------------------------
(* The objects *)

\* The shape of the three objects, in the API server or in the cache.
Objects(o) ==
  /\ DOMAIN o = Kinds
  /\ o.ms \in ModelServer \cup {Absent}
  /\ o.deploy \in Deployment \cup {Absent}
  /\ o.service \in Service \cup {Absent}

\* The rest of ReconcilerTypeOK: what is known of a call under way.
CallOK ==
  /\ got \in ModelServer \cup {Absent}
  /\ events \subseteq Kinds /\ queued \in BOOLEAN
  /\ pc \in {"idle", "deployment", "service", "status"}
  /\ (pc = "idle") <=> (got = Absent)
  /\ changes \in 0..MaxChanges

\* ReconcilerTypeOK is the two together.
LEMMA TypeParts == ReconcilerTypeOK <=> Objects(api) /\ Objects(cache) /\ CallOK
  BY DEF ReconcilerTypeOK, Objects, CallOK

\* A write of one kind leaves the two others as they are.
LEMMA ReplaceOne ==
  ASSUME NEW o, Objects(o), NEW x
  PROVE  /\ x \in ModelServer \cup {Absent} => Objects([o EXCEPT !.ms = x])
         /\ x \in Deployment \cup {Absent} => Objects([o EXCEPT !.deploy = x])
         /\ x \in Service \cup {Absent} => Objects([o EXCEPT !.service = x])
         /\ [o EXCEPT !.ms = x].ms = x
         /\ [o EXCEPT !.ms = x].deploy = o.deploy
         /\ [o EXCEPT !.ms = x].service = o.service
         /\ [o EXCEPT !.deploy = x].ms = o.ms
         /\ [o EXCEPT !.deploy = x].deploy = x
         /\ [o EXCEPT !.deploy = x].service = o.service
         /\ [o EXCEPT !.service = x].ms = o.ms
         /\ [o EXCEPT !.service = x].deploy = o.deploy
         /\ [o EXCEPT !.service = x].service = x
  BY DEF Objects, Kinds

\* What applying a call's ModelServer leaves is the Deployment it asks for.
LEMMA AppliedDeploymentProperties ==
  ASSUME got \in ModelServer, NEW d \in Deployment \cup {Absent}
  PROVE  /\ AppliedDeployment(d) \in Deployment
         /\ AppliedDeployment(d).owners = {got.uid}
         /\ AppliedDeployment(d).replicas = got.replicas
         /\ AppliedDeployment(d).template = got.template
<1>1. got.uid \in Nat /\ got.replicas \in Replicas /\ got.template \in Templates
  BY DEF ModelServer
<1>2. CASE d = Absent
  <2>1. AppliedDeployment(d)
        = [owners |-> {got.uid}, replicas |-> got.replicas, template |-> got.template,
           total |-> 0, ready |-> 0, rolled |-> TRUE]
    BY <1>2 DEF AppliedDeployment, OwnerRef
  <2>2. 0 \in 0 .. MaxPods
    BY ReconcilerAssumption
  <2>. QED BY <1>1, <2>1, <2>2 DEF Deployment
<1>3. CASE d # Absent
  <2>1. d \in Deployment
    BY <1>3
  <2>2. PICK r \in BOOLEAN : r = (d.rolled /\ (d.template = got.template \/ d.total = 0))
    OBVIOUS
  <2>3. AppliedDeployment(d)
        = [d EXCEPT !.owners = {got.uid}, !.replicas = got.replicas,
                    !.template = got.template, !.rolled = r]
    BY <1>3, <2>2 DEF AppliedDeployment, OwnerRef
  <2>. QED BY <1>1, <2>1, <2>3, ZenonT(30) DEF Deployment
<1>. QED BY <1>2, <1>3

\* The same of the Service.
LEMMA AppliedServiceProperties ==
  ASSUME got \in ModelServer, NEW s
  PROVE  /\ AppliedService(s) \in Service
         /\ AppliedService(s) = [owners |-> {got.uid}, intact |-> TRUE, stray |-> FALSE]
<1>1. got.uid \in Nat
  BY DEF ModelServer
<1>. QED BY <1>1 DEF AppliedService, OwnerRef, Service

\* updateStatus computes a status the CRD admits, for the generation it is told.
LEMMA StatusOfProperties ==
  ASSUME NEW m \in ModelServer, NEW d \in Deployment \cup {Absent}
  PROVE  /\ StatusOf(m, d) \in Status
         /\ StatusOf(m, d).observed = m.generation
<1> DEFINE found     == d # Absent
           ready     == IF found THEN d.ready ELSE 0
           available == found /\ ready >= m.replicas
           reason    == CASE ~found    -> "DeploymentNotFound"
                          [] available -> "AllReplicasReady"
                          [] OTHER     -> "ReplicasNotReady"
           phase     == CASE ~found \/ d.total = 0 -> "Pending"
                          [] available             -> "Ready"
                          [] OTHER                 -> "Loading"
<1>1. m.replicas \in Replicas /\ m.generation \in Nat
  BY DEF ModelServer
<1>2. ready \in 0 .. MaxPods
  <2>1. d # Absent => d.ready \in 0 .. MaxPods
    BY DEF Deployment
  <2>2. 0 \in 0 .. MaxPods
    BY ReconcilerAssumption
  <2>. QED BY <2>1, <2>2
<1>3. reason \in {"DeploymentNotFound", "ReplicasNotReady", "AllReplicasReady"}
  <2>. HIDE DEF found, available
  <2>. QED OBVIOUS
<1>4. phase \in {"Pending", "Loading", "Ready"}
  <2>. HIDE DEF found, available
  <2>. QED OBVIOUS
<1>5. (~available) \in BOOLEAN
  OBVIOUS
<1>6. StatusOf(m, d)
      = [available |-> reason, wanted |-> m.replicas, ready |-> ready,
         progressing |-> ~available, phase |-> phase, observed |-> m.generation]
  BY DEF StatusOf
<1>. HIDE DEF ready, available, reason, phase
<1>. QED BY <1>1, <1>2, <1>3, <1>4, <1>5, <1>6 DEF Status
-----------------------------------------------------------------------------
(* Type correctness *)

\* Nothing exists at first but a ModelServer.
LEMMA ReconcilerTypeInit == ReconcilerInit => ReconcilerTypeOK
<1> SUFFICES ASSUME ReconcilerInit PROVE ReconcilerTypeOK
  OBVIOUS
<1>1. PICK n \in Replicas, t \in Templates :
        api = [ms |-> Created(1, n, t), deploy |-> Absent, service |-> Absent]
  BY DEF ReconcilerInit
<1>2. Created(1, n, t) \in ModelServer
  BY DEF Created, ModelServer
<1>3. Objects(api)
  BY <1>1, <1>2 DEF Objects, Kinds
<1>4. Objects(cache)
  BY DEF ReconcilerInit, Objects, Kinds
<1>5. CallOK
  <2>1. 0 \in 0 .. MaxChanges
    BY ReconcilerAssumption
  <2>. QED BY <2>1 DEF ReconcilerInit, CallOK, Kinds
<1>. QED BY <1>3, <1>4, <1>5, TypeParts

\* A write stays within the objects, and queues events of these kinds.
LEMMA WriteIsTyped ==
  ASSUME events \subseteq Kinds, NEW o, Write(o)
  PROVE  api' = o /\ events' \subseteq Kinds
  BY DEF Write

\* The outside acts within its bound.
LEMMA DisturbedIsTyped ==
  ASSUME changes \in 0 .. MaxChanges, NEW what, Disturbed(what)
  PROVE  changes' \in 0 .. MaxChanges /\ changes' = changes + 1
  BY ReconcilerAssumption DEF Disturbed

\* What a call leaves of itself when it is answered, or is not.
LEMMA AnsweredProceeds ==
  ASSUME CallOK, NEW next, Answered(Proceed(next))
  PROVE  /\ cache' = cache /\ queued' \in BOOLEAN /\ changes' \in 0 .. MaxChanges
         /\ changes <= changes'
         /\ (pc' = next /\ got' = got) \/ (pc' = "idle" /\ got' = Absent)
<1>1. changes \in 0 .. MaxChanges /\ queued \in BOOLEAN
  BY DEF CallOK
<1>2. CASE Proceed(next) /\ UNCHANGED changes
  BY <1>1, <1>2, ReconcilerAssumption DEF Proceed
<1>3. CASE Disturbed("fail") /\ Retry
  BY <1>1, <1>3, DisturbedIsTyped DEF Retry
<1>. QED BY <1>2, <1>3 DEF Answered

\* ApplyDeployment writes the Deployment that the call asks for.
LEMMA ApplyDeploymentStep ==
  ASSUME ReconcilerTypeOK, ApplyDeployment
  PROVE  /\ got \in ModelServer /\ pc = "deployment"
         /\ Objects(api') /\ cache' = cache /\ CallOK'
         /\ api'.ms = api.ms /\ api'.service = api.service
         /\ api'.deploy \in Deployment
         /\ api'.deploy.owners = {got.uid}
         /\ api'.deploy.replicas = got.replicas
         /\ api'.deploy.template = got.template
         /\ changes <= changes'
         /\ (pc' = "service" /\ got' = got) \/ (pc' = "idle" /\ got' = Absent)
<1>1. Objects(api) /\ CallOK
  BY TypeParts
<1>2. pc = "deployment" /\ got # Absent /\ got \in ModelServer
  BY <1>1 DEF ApplyDeployment, CallOK
<1>3. PICK d : d = AppliedDeployment(api.deploy)
  OBVIOUS
<1>4. Write([api EXCEPT !.deploy = d]) /\ Answered(Proceed("service"))
  BY <1>3 DEF ApplyDeployment
<1>5. api' = [api EXCEPT !.deploy = d] /\ events' \subseteq Kinds
  BY <1>1, <1>4, WriteIsTyped DEF CallOK
<1>6. /\ d \in Deployment /\ d.owners = {got.uid}
      /\ d.replicas = got.replicas /\ d.template = got.template
  BY <1>1, <1>2, <1>3, AppliedDeploymentProperties DEF Objects
<1>7. /\ Objects([api EXCEPT !.deploy = d])
      /\ [api EXCEPT !.deploy = d].ms = api.ms
      /\ [api EXCEPT !.deploy = d].deploy = d
      /\ [api EXCEPT !.deploy = d].service = api.service
  BY <1>1, <1>6, ReplaceOne
<1>8. /\ cache' = cache /\ queued' \in BOOLEAN /\ changes' \in 0 .. MaxChanges
      /\ changes <= changes'
      /\ (pc' = "service" /\ got' = got) \/ (pc' = "idle" /\ got' = Absent)
  BY <1>1, <1>4, AnsweredProceeds
<1>9. CallOK'
  BY <1>2, <1>5, <1>8 DEF CallOK
<1>. QED BY <1>2, <1>5, <1>6, <1>7, <1>8, <1>9

\* ApplyService writes the Service that the call asks for, or fails.
LEMMA ApplyServiceStep ==
  ASSUME ReconcilerTypeOK, ApplyService
  PROVE  /\ got \in ModelServer /\ pc = "service"
         /\ Objects(api') /\ cache' = cache /\ CallOK'
         /\ api'.ms = api.ms /\ api'.deploy = api.deploy
         /\ \/ api'.service = [owners |-> {got.uid}, intact |-> TRUE, stray |-> FALSE]
            \/ api' = api /\ got' = Absent
         /\ changes <= changes'
         /\ (pc' = "status" /\ got' = got) \/ (pc' = "idle" /\ got' = Absent)
<1>1. Objects(api) /\ CallOK /\ changes \in 0 .. MaxChanges
  BY TypeParts DEF CallOK
<1>2. pc = "service" /\ got # Absent /\ got \in ModelServer
  BY <1>1 DEF ApplyService, CallOK
<1>3. CASE Wedged /\ Retry /\ NoWrite /\ UNCHANGED changes
  <2>1. /\ api' = api /\ cache' = cache /\ pc' = "idle" /\ got' = Absent
        /\ queued' = TRUE /\ events' = events /\ changes' = changes
    BY <1>3 DEF Retry, NoWrite
  <2>2. changes <= changes'
    BY <1>1, <2>1
  <2>3. CallOK'
    BY <1>1, <2>1 DEF CallOK
  <2>. QED BY <1>1, <1>2, <2>1, <2>2, <2>3
<1>4. CASE /\ Write([api EXCEPT !.service = AppliedService(@)])
           /\ Answered(Proceed("status"))
  <2>1. PICK s : s = AppliedService(api.service)
    OBVIOUS
  <2>2. api' = [api EXCEPT !.service = s] /\ events' \subseteq Kinds
    <3>1. Write([api EXCEPT !.service = s])
      BY <1>4, <2>1
    <3>. QED BY <1>1, <3>1, WriteIsTyped DEF CallOK
  <2>3. s \in Service
    BY <1>2, <2>1, AppliedServiceProperties
  <2>4. s = [owners |-> {got.uid}, intact |-> TRUE, stray |-> FALSE]
    BY <1>2, <2>1, AppliedServiceProperties
  <2>5. /\ Objects([api EXCEPT !.service = s])
        /\ [api EXCEPT !.service = s].ms = api.ms
        /\ [api EXCEPT !.service = s].deploy = api.deploy
        /\ [api EXCEPT !.service = s].service = s
    BY <1>1, <2>3, ReplaceOne, ZenonT(30)
  <2>6. /\ cache' = cache /\ queued' \in BOOLEAN /\ changes' \in 0 .. MaxChanges
        /\ changes <= changes'
        /\ (pc' = "status" /\ got' = got) \/ (pc' = "idle" /\ got' = Absent)
    BY <1>1, <1>4, AnsweredProceeds
  <2>7. CallOK'
    BY <1>2, <2>2, <2>6 DEF CallOK
  <2>. QED BY <1>2, <2>2, <2>4, <2>5, <2>6, <2>7
<1>. QED BY <1>3, <1>4 DEF ApplyService
\* UpdateStatus finds its status written, writes it, or is refused.
LEMMA UpdateStatusStep ==
  ASSUME ReconcilerTypeOK, UpdateStatus
  PROVE  /\ got \in ModelServer /\ pc = "status"
         /\ Objects(api') /\ cache' = cache /\ CallOK'
         /\ api'.deploy = api.deploy /\ api'.service = api.service
         /\ \/ api'.ms = api.ms
            \/ /\ api.ms = got
               /\ api'.ms \in ModelServer /\ SameGeneration(api'.ms, got)
               /\ api'.ms.replicas = got.replicas /\ api'.ms.template = got.template
               /\ api'.ms.status.observed = got.generation
         /\ changes <= changes'
         /\ pc' = "idle" /\ got' = Absent
<1>1. Objects(api) /\ Objects(cache) /\ CallOK /\ changes \in 0 .. MaxChanges
  BY TypeParts DEF CallOK
<1>2. pc = "status" /\ got # Absent /\ got \in ModelServer
  BY <1>1 DEF UpdateStatus, CallOK
<1>3. PICK new : new = StatusOf(got, cache.deploy)
  OBVIOUS
<1>4. new \in Status /\ new.observed = got.generation
  BY <1>1, <1>2, <1>3, StatusOfProperties DEF Objects
<1>5. ASSUME NoWrite, Done \/ Retry, UNCHANGED changes
      PROVE  /\ api' = api /\ cache' = cache /\ pc' = "idle" /\ got' = Absent
             /\ CallOK' /\ changes <= changes'
  <2>1. /\ api' = api /\ events' = events /\ cache' = cache /\ changes' = changes
        /\ pc' = "idle" /\ got' = Absent /\ queued' \in {queued, TRUE}
    BY <1>5 DEF NoWrite, Done, Retry
  <2>2. CallOK'
    BY <1>1, <2>1 DEF CallOK
  <2>. QED BY <1>1, <2>1, <2>2
<1>6. CASE /\ api.ms = got
           /\ Write([api EXCEPT !.ms = WithStatus(@, new)])
           /\ Answered(Done)
  <2>1. PICK o : o = [api EXCEPT !.ms = WithStatus(@, new)]
    OBVIOUS
  <2>2. api' = o /\ events' \subseteq Kinds
    <3>1. Write(o)
      BY <1>6, <2>1
    <3>. QED BY <1>1, <3>1, WriteIsTyped DEF CallOK
  <2>3. /\ DOMAIN o = Kinds /\ o.deploy = api.deploy /\ o.service = api.service
        /\ o.ms = WithStatus(api.ms, new)
    BY <1>1, <2>1 DEF Objects, Kinds
  <2>4. /\ o.ms \in ModelServer /\ SameGeneration(o.ms, got)
        /\ o.ms.replicas = got.replicas /\ o.ms.template = got.template
        /\ o.ms.status = new
    <3>1. PICK v \in Nat : v = api.ms.version + 1
      BY <1>2, <1>6 DEF ModelServer
    <3>2. o.ms = [got EXCEPT !.status = new, !.version = v]
      BY <1>6, <2>3, <3>1 DEF WithStatus
    <3>. QED BY <1>2, <1>4, <3>2 DEF ModelServer, SameGeneration
  <2>5. /\ cache' = cache /\ queued' \in BOOLEAN /\ changes' \in 0 .. MaxChanges
        /\ changes <= changes' /\ pc' = "idle" /\ got' = Absent
    <3>1. CASE Done /\ UNCHANGED changes
      BY <1>1, <3>1 DEF Done, CallOK
    <3>2. CASE Disturbed("fail") /\ Retry
      BY <1>1, <3>2, DisturbedIsTyped DEF Retry
    <3>. QED BY <1>6, <3>1, <3>2 DEF Answered
  <2>6. CallOK'
    BY <2>2, <2>5 DEF CallOK
  <2>7. Objects(o)
    BY <1>1, <2>3, <2>4 DEF Objects
  <2>. QED BY <1>2, <1>4, <1>6, <2>2, <2>3, <2>4, <2>5, <2>6, <2>7
<1>7. CASE NoWrite /\ (Done \/ Retry) /\ UNCHANGED changes
  BY <1>1, <1>2, <1>5, <1>7
<1>. QED BY <1>3, <1>6, <1>7 DEF UpdateStatus

\* Reconcile reads the ModelServer, and goes on if there is one.
LEMMA GetStep ==
  ASSUME ReconcilerTypeOK, Get
  PROVE  /\ api' = api /\ cache' = cache /\ changes' = changes /\ CallOK'
         /\ pc = "idle" /\ pc' \in {"idle", "deployment"} /\ got' = cache.ms
<1>1. Objects(cache) /\ CallOK
  BY TypeParts
<1>2. /\ api' = api /\ events' = events /\ cache' = cache /\ changes' = changes
      /\ queued' = FALSE /\ got' = cache.ms
      /\ pc' = IF cache.ms = Absent THEN "idle" ELSE "deployment"
  BY DEF Get, NoWrite
<1>3. CallOK'
  BY <1>1, <1>2 DEF CallOK, Objects
<1>. QED BY <1>2, <1>3 DEF Get

\* An informer takes over what its kind is now.
LEMMA SyncStep ==
  ASSUME ReconcilerTypeOK, NEW k \in Kinds, Sync(k)
  PROVE  /\ api' = api /\ Objects(cache') /\ CallOK'
         /\ pc' = pc /\ got' = got /\ changes' = changes
         /\ cache'.ms \in {cache.ms, api.ms}
<1>1. Objects(api) /\ Objects(cache) /\ CallOK
  BY TypeParts
<1>2. /\ api' = api /\ cache' = [cache EXCEPT ![k] = api[k]] /\ events' = events \ {k}
      /\ queued' = (queued \/ k \in events) /\ pc' = pc /\ got' = got /\ changes' = changes
  BY DEF Sync
<1>3. Objects(cache') /\ cache'.ms \in {cache.ms, api.ms}
  BY <1>1, <1>2 DEF Objects, Kinds
<1>4. CallOK'
  BY <1>1, <1>2 DEF CallOK
<1>. QED BY <1>2, <1>3, <1>4
\* What the outside leaves alone.
LEMMA OutsideIsTyped ==
  ASSUME ReconcilerTypeOK, NEW o, Objects(o), Write(o), Untouched,
         changes' \in 0 .. MaxChanges
  PROVE  api' = o /\ cache' = cache /\ pc' = pc /\ got' = got /\ CallOK'
<1>1. CallOK
  BY TypeParts
<1>2. api' = o /\ events' \subseteq Kinds
  BY <1>1, WriteIsTyped DEF CallOK
<1>. QED BY <1>1, <1>2 DEF CallOK, Untouched

\* A user gives the ModelServer a new generation.
LEMMA EditStep ==
  ASSUME ReconcilerTypeOK, Edit
  PROVE  /\ Objects(api') /\ cache' = cache /\ pc' = pc /\ got' = got /\ CallOK'
         /\ api'.deploy = api.deploy /\ api'.service = api.service
         /\ changes' = changes + 1
         /\ api.ms \in ModelServer /\ api.ms # Absent /\ api'.ms # Absent
         /\ api'.ms.uid = api.ms.uid /\ api'.ms.status = api.ms.status
         /\ api'.ms.generation = api.ms.generation + 1
<1>1. Objects(api) /\ CallOK
  BY TypeParts
<1>2. api.ms \in ModelServer /\ api.ms # Absent
  BY <1>1 DEF Edit, Objects
<1>3. PICK n \in Replicas, t \in Templates : Write([api EXCEPT !.ms = WithSpec(@, n, t)])
  BY DEF Edit
<1>4. PICK m : m = WithSpec(api.ms, n, t)
  OBVIOUS
<1>5. Write([api EXCEPT !.ms = m])
  BY <1>3, <1>4
<1>6. /\ m \in ModelServer /\ m.uid = api.ms.uid /\ m.status = api.ms.status
      /\ m.generation = api.ms.generation + 1
  <2>1. PICK g \in Nat, v \in Nat : g = api.ms.generation + 1 /\ v = api.ms.version + 1
    BY <1>2 DEF ModelServer
  <2>2. m = [api.ms EXCEPT !.replicas = n, !.template = t, !.generation = g, !.version = v]
    BY <1>4, <2>1 DEF WithSpec
  <2>3. /\ m \in ModelServer /\ m.uid = api.ms.uid /\ m.status = api.ms.status
        /\ m.generation = g
    BY <1>2, <2>2 DEF ModelServer
  <2>. QED BY <2>1, <2>3
<1>7. /\ Objects([api EXCEPT !.ms = m])
      /\ [api EXCEPT !.ms = m].ms = m
      /\ [api EXCEPT !.ms = m].deploy = api.deploy
      /\ [api EXCEPT !.ms = m].service = api.service
  BY <1>1, <1>6, ReplaceOne
<1>8. changes' \in 0 .. MaxChanges /\ changes' = changes + 1
  BY <1>1, DisturbedIsTyped DEF Edit, CallOK
<1>9. /\ api' = [api EXCEPT !.ms = m] /\ cache' = cache
      /\ pc' = pc /\ got' = got /\ CallOK'
  BY <1>5, <1>7, <1>8, OutsideIsTyped DEF Edit
<1>10. m # Absent
  BY <1>6, AbsentAssumption
<1>. QED BY <1>2, <1>6, <1>7, <1>8, <1>9, <1>10

\* It is deleted.
LEMMA DeleteStep ==
  ASSUME ReconcilerTypeOK, Delete
  PROVE  /\ Objects(api') /\ cache' = cache /\ pc' = pc /\ got' = got /\ CallOK'
         /\ api'.deploy = api.deploy /\ api'.service = api.service
         /\ changes' = changes + 1 /\ api.ms # Absent /\ api'.ms = Absent
<1>1. Objects(api) /\ CallOK
  BY TypeParts
<1>2. /\ Objects([api EXCEPT !.ms = Absent])
      /\ [api EXCEPT !.ms = Absent].ms = Absent
      /\ [api EXCEPT !.ms = Absent].deploy = api.deploy
      /\ [api EXCEPT !.ms = Absent].service = api.service
  BY <1>1, ReplaceOne
<1>3. changes' \in 0 .. MaxChanges /\ changes' = changes + 1
  BY <1>1, DisturbedIsTyped DEF Delete, CallOK
<1>4. /\ api' = [api EXCEPT !.ms = Absent] /\ cache' = cache
      /\ pc' = pc /\ got' = got /\ CallOK'
  BY <1>2, <1>3, OutsideIsTyped DEF Delete
<1>. QED BY <1>2, <1>3, <1>4 DEF Delete

\* Another is created under its name.
LEMMA RecreateStep ==
  ASSUME ReconcilerTypeOK, Recreate
  PROVE  /\ Objects(api') /\ cache' = cache /\ pc' = pc /\ got' = got /\ CallOK'
         /\ api'.deploy = api.deploy /\ api'.service = api.service
         /\ changes' = changes + 1 /\ api.ms = Absent /\ api'.ms # Absent
         /\ api'.ms.uid = changes + 1 /\ api'.ms.generation = 1
         /\ api'.ms.status.observed = 0
<1>1. Objects(api) /\ CallOK
  BY TypeParts
<1>2. PICK n \in Replicas, t \in Templates :
        Write([api EXCEPT !.ms = Created(changes + 1, n, t)])
  BY DEF Recreate
<1>3. PICK m : m = Created(changes + 1, n, t)
  OBVIOUS
<1>4. Write([api EXCEPT !.ms = m])
  BY <1>2, <1>3
<1>5. /\ m \in ModelServer /\ m.uid = changes + 1 /\ m.generation = 1
      /\ m.status.observed = 0
  <2>1. PICK u \in Nat : u = changes + 1
    BY <1>1, ReconcilerAssumption DEF CallOK
  <2>2. m = Created(u, n, t)
    BY <1>3, <2>1
  <2>3. /\ m \in ModelServer /\ m.uid = u /\ m.generation = 1
        /\ m.status.observed = 0
    BY <2>2 DEF Created, ModelServer, NoStatus
  <2>. QED BY <2>1, <2>3
<1>6. /\ Objects([api EXCEPT !.ms = m])
      /\ [api EXCEPT !.ms = m].ms = m
      /\ [api EXCEPT !.ms = m].deploy = api.deploy
      /\ [api EXCEPT !.ms = m].service = api.service
  BY <1>1, <1>5, ReplaceOne
<1>7. changes' \in 0 .. MaxChanges /\ changes' = changes + 1
  BY <1>1, DisturbedIsTyped DEF Recreate, CallOK
<1>8. /\ api' = [api EXCEPT !.ms = m] /\ cache' = cache
      /\ pc' = pc /\ got' = got /\ CallOK'
  BY <1>4, <1>6, <1>7, OutsideIsTyped DEF Recreate
<1>9. m # Absent
  BY <1>5, AbsentAssumption
<1>. QED BY <1>5, <1>6, <1>7, <1>8, <1>9 DEF Recreate

\* Pods come and go: the Deployment asks for what it asked for.
LEMMA PodsChangeStep ==
  ASSUME ReconcilerTypeOK, PodsChange
  PROVE  /\ Objects(api') /\ cache' = cache /\ pc' = pc /\ got' = got /\ CallOK'
         /\ api'.ms = api.ms /\ api'.service = api.service
         /\ changes' = changes + 1
         /\ api.deploy # Absent /\ api'.deploy # Absent
         /\ api'.deploy.owners = api.deploy.owners
         /\ api'.deploy.replicas = api.deploy.replicas
         /\ api'.deploy.template = api.deploy.template
<1>1. Objects(api) /\ CallOK
  BY TypeParts
<1>2. api.deploy # Absent /\ api.deploy \in Deployment
  BY <1>1 DEF PodsChange, Objects
<1>3. PICK total \in 0..MaxPods : \E ready \in 0..total, rolled \in BOOLEAN :
        Write([api EXCEPT !.deploy.total = total, !.deploy.ready = ready,
                          !.deploy.rolled = rolled])
  BY DEF PodsChange
<1>4. PICK ready \in 0..total, rolled \in BOOLEAN :
        Write([api EXCEPT !.deploy.total = total, !.deploy.ready = ready,
                          !.deploy.rolled = rolled])
  BY <1>3
<1>5. total \in 0..MaxPods /\ ready \in 0..MaxPods
  BY ReconcilerAssumption
<1>6. PICK d : d = [api.deploy EXCEPT !.total = total, !.ready = ready, !.rolled = rolled]
  OBVIOUS
<1>7. /\ d \in Deployment /\ d.owners = api.deploy.owners
      /\ d.replicas = api.deploy.replicas /\ d.template = api.deploy.template
  BY <1>2, <1>5, <1>6 DEF Deployment
<1>8. [api EXCEPT !.deploy.total = total, !.deploy.ready = ready, !.deploy.rolled = rolled]
      = [api EXCEPT !.deploy = d]
  BY <1>1, <1>2, <1>6 DEF Objects, Kinds, Deployment
<1>9. /\ Objects([api EXCEPT !.deploy = d])
      /\ [api EXCEPT !.deploy = d].ms = api.ms
      /\ [api EXCEPT !.deploy = d].deploy = d
      /\ [api EXCEPT !.deploy = d].service = api.service
  BY <1>1, <1>7, ReplaceOne, ZenonT(30)
<1>10. changes' \in 0 .. MaxChanges /\ changes' = changes + 1
  BY <1>1, DisturbedIsTyped DEF PodsChange, CallOK
<1>11. /\ api' = [api EXCEPT !.deploy = d] /\ cache' = cache
       /\ pc' = pc /\ got' = got /\ CallOK'
  BY <1>4, <1>8, <1>9, <1>10, OutsideIsTyped DEF PodsChange
<1>12. d # Absent
  BY <1>7, AbsentAssumption
<1>. QED BY <1>2, <1>7, <1>9, <1>10, <1>11, <1>12
\* Somebody changes the Deployment, or deletes it.
LEMMA DriftDeploymentStep ==
  ASSUME ReconcilerTypeOK, DriftDeployment
  PROVE  /\ Objects(api') /\ cache' = cache /\ pc' = pc /\ got' = got /\ CallOK'
         /\ api'.ms = api.ms /\ changes' = changes + 1
<1>1. Objects(api) /\ CallOK
  BY TypeParts
<1>2. api.deploy \in Deployment
  BY <1>1 DEF DriftDeployment, Objects
<1>3. PICK d \in {[api.deploy EXCEPT !.template = Foreign, !.rolled = @ /\ api.deploy.total = 0],
                  [api.deploy EXCEPT !.owners = {}], Absent}
                 \cup {[api.deploy EXCEPT !.replicas = n] : n \in Replicas} :
        Write([api EXCEPT !.deploy = d])
  BY DEF DriftDeployment
<1>4. d \in Deployment \cup {Absent}
  <2>1. CASE d = [api.deploy EXCEPT !.template = Foreign, !.rolled = @ /\ api.deploy.total = 0]
    <3>1. PICK r \in BOOLEAN : r = (api.deploy.rolled /\ api.deploy.total = 0)
      OBVIOUS
    <3>2. d = [api.deploy EXCEPT !.template = Foreign, !.rolled = r]
      BY <2>1, <3>1
    <3>. QED BY <1>2, <3>2 DEF Deployment
  <2>2. CASE d = [api.deploy EXCEPT !.owners = {}]
    BY <1>2, <2>2 DEF Deployment
  <2>3. CASE d = Absent
    BY <2>3
  <2>4. CASE \E n \in Replicas : d = [api.deploy EXCEPT !.replicas = n]
    BY <1>2, <2>4 DEF Deployment
  <2>. QED BY <1>3, <2>1, <2>2, <2>3, <2>4
<1>5. Objects([api EXCEPT !.deploy = d]) /\ [api EXCEPT !.deploy = d].ms = api.ms
  BY <1>1, <1>4, ReplaceOne
<1>6. changes' \in 0 .. MaxChanges /\ changes' = changes + 1
  BY <1>1, DisturbedIsTyped DEF DriftDeployment, CallOK
<1>7. /\ api' = [api EXCEPT !.deploy = d] /\ cache' = cache
      /\ pc' = pc /\ got' = got /\ CallOK'
  BY <1>3, <1>5, <1>6, OutsideIsTyped DEF DriftDeployment
<1>. QED BY <1>5, <1>6, <1>7

\* Somebody changes the Service, or deletes it.
LEMMA DriftServiceStep ==
  ASSUME ReconcilerTypeOK, DriftService \/ StrayPort
  PROVE  /\ Objects(api') /\ cache' = cache /\ pc' = pc /\ got' = got /\ CallOK'
         /\ api'.ms = api.ms /\ changes' = changes + 1
<1>1. Objects(api) /\ CallOK
  BY TypeParts
<1>2. api.service \in Service
  BY <1>1 DEF DriftService, StrayPort, Objects
<1>3. PICK s \in Service \cup {Absent} : Write([api EXCEPT !.service = s])
  <2>1. CASE DriftService
    <3>1. PICK s \in {[api.service EXCEPT !.intact = FALSE], [api.service EXCEPT !.owners = {}],
                      Absent} :
            Write([api EXCEPT !.service = s])
      BY <2>1 DEF DriftService
    <3>2. s \in Service \cup {Absent}
      BY <1>2, <3>1 DEF Service
    <3>. QED BY <3>1, <3>2
  <2>2. CASE StrayPort
    <3>1. PICK b \in BOOLEAN : b = ~api.service.stray
      OBVIOUS
    <3>2. PICK s : s = [api.service EXCEPT !.stray = b]
      OBVIOUS
    <3>3. s \in Service
      BY <1>2, <3>2 DEF Service
    <3>4. [api EXCEPT !.service.stray = ~@] = [api EXCEPT !.service = s]
      BY <1>1, <1>2, <3>1, <3>2 DEF Objects, Kinds, Service
    <3>5. Write([api EXCEPT !.service.stray = ~@])
      BY <2>2 DEF StrayPort
    <3>6. Write([api EXCEPT !.service = s])
      BY <3>4, <3>5
    <3>. QED BY <3>3, <3>6
  <2>. QED BY <2>1, <2>2
<1>4. Objects([api EXCEPT !.service = s]) /\ [api EXCEPT !.service = s].ms = api.ms
  BY <1>1, ReplaceOne
<1>5. changes' \in 0 .. MaxChanges /\ changes' = changes + 1
  BY <1>1, DisturbedIsTyped DEF DriftService, StrayPort, CallOK
<1>6. /\ api' = [api EXCEPT !.service = s] /\ cache' = cache
      /\ pc' = pc /\ got' = got /\ CallOK'
  BY <1>3, <1>4, <1>5, OutsideIsTyped DEF DriftService, StrayPort
<1>. QED BY <1>4, <1>5, <1>6

\* The garbage collector leaves what a living ModelServer owns.
LEMMA CollectGarbageStep ==
  ASSUME ReconcilerTypeOK, CollectGarbage
  PROVE  /\ Objects(api') /\ cache' = cache /\ pc' = pc /\ got' = got /\ CallOK'
         /\ api'.ms = api.ms /\ changes' = changes
         /\ \/ api'.deploy = api.deploy
            \/ api.ms # Absent => api.ms.uid \notin api.deploy.owners
         /\ \/ api'.service = api.service
            \/ api.ms # Absent => api.ms.uid \notin api.service.owners
<1>1. Objects(api) /\ CallOK
  BY TypeParts
<1>2. PICK k \in {"deploy", "service"} :
        /\ \A m \in {api.ms} \ {Absent} : m.uid \notin api[k].owners
        /\ Write([api EXCEPT ![k] = Absent])
  BY DEF CollectGarbage
<1>3. api.ms # Absent => api.ms.uid \notin api[k].owners
  BY <1>2
<1>4. PICK o : o = [api EXCEPT ![k] = Absent]
  OBVIOUS
<1>5. /\ Objects(o) /\ o.ms = api.ms
      /\ k = "deploy" => o.service = api.service
      /\ k = "service" => o.deploy = api.deploy
  BY <1>1, <1>4 DEF Objects, Kinds
<1>6. /\ api' = o /\ events' \subseteq Kinds
      /\ cache' = cache /\ pc' = pc /\ got' = got /\ queued' = queued /\ changes' = changes
  <2>1. Write(o)
    BY <1>2, <1>4
  <2>. QED BY <1>1, <2>1, WriteIsTyped DEF CollectGarbage, CallOK
<1>7. CallOK'
  BY <1>1, <1>6 DEF CallOK
<1>8. api[k] = IF k = "deploy" THEN api.deploy ELSE api.service
  BY <1>2
<1>. QED BY <1>2, <1>3, <1>5, <1>6, <1>7, <1>8

\* A refused write ends the call.
LEMMA CallRefusedStep ==
  ASSUME ReconcilerTypeOK, CallRefused
  PROVE  /\ api' = api /\ cache' = cache /\ CallOK'
         /\ pc' = "idle" /\ got' = Absent /\ changes' = changes + 1
<1>1. CallOK
  BY TypeParts
<1>2. changes' \in 0 .. MaxChanges /\ changes' = changes + 1
  BY <1>1, DisturbedIsTyped DEF CallRefused, CallOK
<1>3. /\ api' = api /\ events' = events /\ cache' = cache
      /\ pc' = "idle" /\ got' = Absent /\ queued' = TRUE
  BY DEF CallRefused, Retry, NoWrite
<1>4. CallOK'
  BY <1>1, <1>2, <1>3 DEF CallOK
<1>. QED BY <1>2, <1>3, <1>4

\* A restart forgets the call and lists the objects anew.
LEMMA RestartStep ==
  ASSUME ReconcilerTypeOK, Restart
  PROVE  /\ api' = api /\ cache' = api /\ CallOK'
         /\ pc' = "idle" /\ got' = Absent /\ changes' = changes + 1
<1>1. CallOK
  BY TypeParts
<1>2. changes' \in 0 .. MaxChanges /\ changes' = changes + 1
  BY <1>1, DisturbedIsTyped DEF Restart, CallOK
<1>3. /\ api' = api /\ events' = {} /\ cache' = api
      /\ pc' = "idle" /\ got' = Absent /\ queued' \in BOOLEAN
  BY DEF Restart
<1>4. CallOK'
  BY <1>1, <1>2, <1>3 DEF CallOK
<1>. QED BY <1>2, <1>3, <1>4

\* No step gives an object a shape it must not have.
LEMMA ReconcilerTypeNext ==
  ReconcilerTypeOK /\ [ReconcilerNext]_reconcilerVars => ReconcilerTypeOK'
<1> SUFFICES ASSUME ReconcilerTypeOK, [ReconcilerNext]_reconcilerVars
             PROVE  ReconcilerTypeOK'
  OBVIOUS
<1>1. Objects(api) /\ Objects(cache)
  BY TypeParts
<1>2. Objects(api') /\ Objects(cache') /\ CallOK' => ReconcilerTypeOK'
  BY DEF ReconcilerTypeOK, Objects, CallOK
<1>3. CASE Reconcile
  BY <1>1, <1>2, <1>3, GetStep, ApplyDeploymentStep, ApplyServiceStep, UpdateStatusStep
     DEF Reconcile
<1>4. CASE \E k \in Kinds : Sync(k)
  BY <1>1, <1>2, <1>4, SyncStep
<1>5. CASE CollectGarbage
  BY <1>1, <1>2, <1>5, CollectGarbageStep
<1>6. CASE Disturb
  BY <1>1, <1>2, <1>6, EditStep, DeleteStep, RecreateStep, PodsChangeStep,
     DriftDeploymentStep, DriftServiceStep, CallRefusedStep, RestartStep DEF Disturb
<1>7. CASE UNCHANGED reconcilerVars
  BY <1>7 DEF reconcilerVars, ReconcilerTypeOK
<1>. QED BY <1>3, <1>4, <1>5, <1>6, <1>7 DEF ReconcilerNext

\* Whatever the users, the garbage collector and the network do, the objects
\* keep their shape and the status its phases (modelserver_types.go's Enum), and
\* Reconcile never goes on without a ModelServer.
THEOREM ReconcilerTypeCorrect == ReconcilerSpec => []ReconcilerTypeOK
  BY ReconcilerTypeInit, ReconcilerTypeNext, PTL DEF ReconcilerSpec
-----------------------------------------------------------------------------
(* No status is ahead of its spec *)

\* What the ages are compared by.
LEMMA AgesAreNumbers ==
  ASSUME ReconcilerTypeOK
  PROVE  /\ changes \in Nat
         /\ \A m \in {api.ms, cache.ms, got} : m # Absent =>
              m \in ModelServer /\ m.uid \in Nat /\ m.generation \in Nat
              /\ m.status.observed \in Nat
<1>1. Objects(api) /\ Objects(cache) /\ CallOK
  BY TypeParts
<1>2. changes \in Nat
  BY <1>1, ReconcilerAssumption DEF CallOK
<1>3. ASSUME NEW m \in ModelServer
      PROVE  m.uid \in Nat /\ m.generation \in Nat /\ m.status.observed \in Nat
  <2>1. m.status \in Status \/ m.status = NoStatus
    BY DEF ModelServer
  <2>2. m.status.observed \in Nat
    <3>1. NoStatus.observed = 0
      BY DEF NoStatus
    <3>2. \A s \in Status : s.observed \in Nat
      BY DEF Status
    <3>. QED BY <2>1, <3>1, <3>2
  <2>. QED BY <2>2 DEF ModelServer
<1>. QED BY <1>1, <1>2, <1>3 DEF Objects, CallOK

\* One ModelServer is there, its status is older than its spec, nothing is read.
LEMMA AgesInit == ReconcilerInit => Ages
<1> SUFFICES ASSUME ReconcilerInit PROVE Ages
  OBVIOUS
<1>1. PICK n \in Replicas, t \in Templates : api.ms = Created(1, n, t)
  BY DEF ReconcilerInit
<1>2. api.ms.uid = 1 /\ api.ms.generation = 1 /\ api.ms.status.observed = 0
  <2>1. NoStatus.observed = 0
    BY DEF NoStatus
  <2>2. api.ms.uid = 1 /\ api.ms.generation = 1 /\ api.ms.status = NoStatus
    BY <1>1 DEF Created
  <2>. QED BY <2>1, <2>2
<1>3. cache.ms = Absent /\ got = Absent /\ changes = 0
  BY DEF ReconcilerInit, Kinds
<1>4. api.ms # Absent
  BY ReconcilerTypeInit, AbsentAssumption, <1>1 DEF Created, ModelServer
<1>. QED BY <1>2, <1>3, <1>4
         DEF Ages, Known, NotAhead, CacheKeepsUp, StatusNotAhead, Settled

\* As long as the ModelServer is what it is, its copies in the cache and in the
\* call can only catch up or be dropped.
LEMMA AgesOfCopies ==
  ASSUME ReconcilerTypeOK, Ages,
         api'.ms = api.ms, changes' \in Nat, changes <= changes',
         \/ got' \in {got, Absent} /\ cache'.ms \in {cache.ms, api.ms}
         \/ got' = cache.ms /\ cache' = cache
  PROVE  Ages'
<1> DEFINE m == api.ms  c == cache.ms
<1>1. changes \in Nat /\ \A x \in {m, c, got} : x # Absent => x.uid \in Nat /\ x.generation \in Nat
  BY AgesAreNumbers
<1>2. Known(m)' /\ Known(c)' /\ Known(got)'
  <2>1. \A x \in {m, c, got} :
          x # Absent => x.uid <= IF m = Absent THEN changes' ELSE changes' + 1
    BY <1>1 DEF Ages, Known
  <2>. QED BY <2>1 DEF Known
<1>3. NotAhead(c)' /\ NotAhead(got)'
  BY <1>1 DEF Ages, NotAhead
<1>4. CacheKeepsUp'
  BY DEF Ages, CacheKeepsUp, SameGeneration
<1>5. StatusNotAhead' /\ Settled'
  BY DEF Ages, StatusNotAhead, Settled, SameGeneration
<1>. QED BY <1>2, <1>3, <1>4, <1>5 DEF Ages

\* A status is written by a call that has read the current generation, from a
\* cache that shows it still.
LEMMA AgesOfStatus ==
  ASSUME ReconcilerTypeOK, Ages, got \in ModelServer, api.ms = got,
         api'.ms \in ModelServer, SameGeneration(api'.ms, got),
         api'.ms.replicas = got.replicas, api'.ms.template = got.template,
         api'.ms.status.observed = got.generation,
         cache' = cache, got' = Absent, changes' \in Nat, changes <= changes'
  PROVE  Ages'
<1>1. changes \in Nat /\ \A x \in {api.ms, cache.ms, got} :
        x # Absent => x.uid \in Nat /\ x.generation \in Nat
  BY AgesAreNumbers
<1>2. got # Absent /\ api'.ms # Absent
  BY AbsentAssumption
<1>3. api'.ms.uid = api.ms.uid /\ api'.ms.generation = api.ms.generation
  BY DEF SameGeneration
<1>4. Known(api.ms)' /\ Known(cache.ms)' /\ Known(got)'
  BY <1>1, <1>2, <1>3 DEF Ages, Known
<1>5. NotAhead(cache.ms)' /\ NotAhead(got)'
  BY <1>2, <1>3 DEF Ages, NotAhead
<1>6. cache.ms # Absent /\ SameGeneration(cache.ms, api.ms)
  BY <1>2 DEF Ages, CacheKeepsUp, SameGeneration
<1>7. CacheKeepsUp' /\ StatusNotAhead' /\ Settled'
  BY <1>1, <1>2, <1>3, <1>6 DEF CacheKeepsUp, StatusNotAhead, Settled, SameGeneration
<1>. QED BY <1>4, <1>5, <1>7 DEF Ages

\* A new generation is one that nobody has read and no status has named.
LEMMA AgesOfEdit ==
  ASSUME ReconcilerTypeOK, Ages, api.ms # Absent, api'.ms # Absent,
         api'.ms.uid = api.ms.uid, api'.ms.status = api.ms.status,
         api'.ms.generation = api.ms.generation + 1,
         cache' = cache, got' = got, changes' = changes + 1
  PROVE  Ages'
<1>1. changes \in Nat /\ \A x \in {api.ms, cache.ms, got} :
        x # Absent => x.uid \in Nat /\ x.generation \in Nat /\ x.status.observed \in Nat
  BY AgesAreNumbers
<1>2. Known(api.ms)' /\ Known(cache.ms)' /\ Known(got)'
  BY <1>1 DEF Ages, Known
<1>3. /\ cache.ms # Absent /\ cache.ms.uid = api.ms.uid => cache.ms.generation < api'.ms.generation
      /\ got # Absent /\ got.uid = api.ms.uid => got.generation < api'.ms.generation
      /\ api.ms.status.observed < api'.ms.generation
  BY <1>1 DEF Ages, NotAhead, StatusNotAhead
<1>4. NotAhead(cache.ms)' /\ NotAhead(got)'
  BY <1>1, <1>3 DEF NotAhead
<1>5. CacheKeepsUp' /\ StatusNotAhead' /\ Settled'
  BY <1>1, <1>3 DEF CacheKeepsUp, StatusNotAhead, Settled, SameGeneration
<1>. QED BY <1>2, <1>4, <1>5 DEF Ages

\* With no ModelServer there is nothing to be ahead of.
LEMMA AgesOfDelete ==
  ASSUME ReconcilerTypeOK, Ages, api.ms # Absent, api'.ms = Absent,
         cache' = cache, got' = got, changes' = changes + 1
  PROVE  Ages'
  BY DEF Ages, Known, NotAhead, CacheKeepsUp, StatusNotAhead, Settled

\* Nobody has read of a uid that is new.
LEMMA AgesOfRecreate ==
  ASSUME ReconcilerTypeOK, Ages, api.ms = Absent, api'.ms # Absent,
         api'.ms.uid = changes + 1, api'.ms.generation = 1, api'.ms.status.observed = 0,
         cache' = cache, got' = got, changes' = changes + 1
  PROVE  Ages'
<1>1. changes \in Nat /\ \A x \in {api.ms, cache.ms, got} :
        x # Absent => x.uid \in Nat
  BY AgesAreNumbers
<1>2. /\ cache.ms # Absent => cache.ms.uid < api'.ms.uid
      /\ got # Absent => got.uid < api'.ms.uid
  BY <1>1 DEF Ages, Known
<1>3. Known(api.ms)' /\ Known(cache.ms)' /\ Known(got)'
  BY <1>1, <1>2 DEF Known
<1>4. NotAhead(cache.ms)' /\ NotAhead(got)'
  BY <1>1, <1>2 DEF NotAhead
<1>5. CacheKeepsUp' /\ StatusNotAhead' /\ Settled'
  BY <1>1, <1>2 DEF CacheKeepsUp, StatusNotAhead, Settled, SameGeneration
<1>. QED BY <1>3, <1>4, <1>5 DEF Ages
\* Every step keeps the ages.
LEMMA AgesNext ==
  ReconcilerTypeOK /\ Ages /\ [ReconcilerNext]_reconcilerVars => Ages'
<1> SUFFICES ASSUME ReconcilerTypeOK, Ages, [ReconcilerNext]_reconcilerVars
             PROVE  Ages'
  OBVIOUS
<1>1. changes \in Nat /\ changes' \in Nat
  <2>1. ReconcilerTypeOK'
    BY ReconcilerTypeNext
  <2>. QED BY <2>1, ReconcilerAssumption DEF ReconcilerTypeOK
<1>2. CASE Get
  BY <1>1, <1>2, GetStep, AgesOfCopies
<1>3. CASE ApplyDeployment
  <2>1. /\ api'.ms = api.ms /\ cache' = cache /\ got' \in {got, Absent}
        /\ changes <= changes'
    BY <1>3, ApplyDeploymentStep
  <2>. QED BY <1>1, <2>1, AgesOfCopies
<1>4. CASE ApplyService
  <2>1. /\ api'.ms = api.ms /\ cache' = cache /\ got' \in {got, Absent}
        /\ changes <= changes'
    BY <1>4, ApplyServiceStep
  <2>. QED BY <1>1, <2>1, AgesOfCopies
<1>5. CASE UpdateStatus
  <2>1. CASE api'.ms = api.ms
    <3>1. cache' = cache /\ got' \in {got, Absent} /\ changes <= changes'
      BY <1>5, UpdateStatusStep
    <3>. QED BY <1>1, <2>1, <3>1, AgesOfCopies
  <2>2. CASE api'.ms # api.ms
    BY <1>1, <1>5, <2>2, UpdateStatusStep, AgesOfStatus
  <2>. QED BY <2>1, <2>2
<1>6. CASE \E k \in Kinds : Sync(k)
  <2>1. PICK k \in Kinds : Sync(k)
    BY <1>6
  <2>2. /\ api' = api /\ got' = got /\ changes' = changes
        /\ cache'.ms \in {cache.ms, api.ms}
    BY <2>1, SyncStep
  <2>. QED BY <1>1, <2>2, AgesOfCopies
<1>7. CASE CollectGarbage
  <2>1. api'.ms = api.ms /\ cache' = cache /\ got' = got /\ changes' = changes
    BY <1>7, CollectGarbageStep
  <2>. QED BY <1>1, <2>1, AgesOfCopies
<1>8. CASE Edit
  BY <1>8, EditStep, AgesOfEdit
<1>9. CASE Delete
  BY <1>9, DeleteStep, AgesOfDelete
<1>10. CASE Recreate
  BY <1>10, RecreateStep, AgesOfRecreate
<1>11. CASE PodsChange \/ DriftDeployment \/ DriftService \/ StrayPort
  <2>1. api'.ms = api.ms /\ cache' = cache /\ got' = got /\ changes' = changes + 1
    BY <1>11, PodsChangeStep, DriftDeploymentStep, DriftServiceStep
  <2>. QED BY <1>1, <2>1, AgesOfCopies
<1>12. CASE CallRefused
  <2>1. api' = api /\ cache' = cache /\ got' = Absent /\ changes' = changes + 1
    BY <1>12, CallRefusedStep
  <2>. QED BY <1>1, <2>1, AgesOfCopies
<1>13. CASE Restart
  <2>1. api' = api /\ cache' = api /\ got' = Absent /\ changes' = changes + 1
    BY <1>13, RestartStep
  <2>. QED BY <1>1, <2>1, AgesOfCopies
<1>14. CASE UNCHANGED reconcilerVars
  <2>1. api' = api /\ cache' = cache /\ got' = got /\ changes' = changes
    BY <1>14 DEF reconcilerVars
  <2>. QED BY <1>1, <2>1, AgesOfCopies
<1>. QED BY <1>2, <1>3, <1>4, <1>5, <1>6, <1>7, <1>8, <1>9, <1>10, <1>11, <1>12,
            <1>13, <1>14 DEF ReconcilerNext, Reconcile, Disturb

\* Copies are never ahead of what they are copies of: stale reads, conflicts,
\* lost answers, restarts, and ModelServers created again under a name.
THEOREM CopiesAreNotAhead == ReconcilerSpec => []ReconcilerInv
<1>1. ReconcilerInit => ReconcilerInv
  BY ReconcilerTypeInit, AgesInit DEF ReconcilerInv
<1>2. ReconcilerInv /\ [ReconcilerNext]_reconcilerVars => ReconcilerInv'
  BY ReconcilerTypeNext, AgesNext DEF ReconcilerInv
<1>. QED BY <1>1, <1>2, PTL DEF ReconcilerSpec

\* What observedGeneration means whatever is done to the owned objects: it is
\* never ahead of the spec, and once it names the current generation, neither
\* the cache nor a call under way has an older one to apply (updateStatus's
\* conflict check, and reads that come from one cache).
ObservedIsCurrent == StatusNotAhead /\ Settled

\* No status is ahead, and none is taken back by a call that started earlier.
THEOREM NobodyAppliesOlder == ReconcilerSpec => []ObservedIsCurrent
<1>1. ReconcilerInv => ObservedIsCurrent
  BY DEF ReconcilerInv, Ages, ObservedIsCurrent
<1>. QED BY <1>1, CopiesAreNotAhead, PTL
-----------------------------------------------------------------------------
(* Observed means applied, while nobody else touches the owned objects *)

\* Nothing is applied and nothing observed at first.
LEMMA AppliedInit == ReconcilerInit => Applied /\ ObservedInPlace
<1> SUFFICES ASSUME ReconcilerInit PROVE Applied /\ ObservedInPlace
  OBVIOUS
<1>1. got = Absent
  BY DEF ReconcilerInit
<1>2. PICK n \in Replicas, t \in Templates : api.ms = Created(1, n, t)
  BY DEF ReconcilerInit
<1>3. NoStatus.observed = 0
  BY DEF NoStatus
<1>4. api.ms.generation = 1 /\ api.ms.status = NoStatus
  BY <1>2 DEF Created
<1>. QED BY <1>1, <1>3, <1>4 DEF Applied, ObservedInPlace

\* A step that leaves the ModelServer's spec and what its objects are asked to
\* be, and does not bring a call forward, disturbs nothing.
LEMMA AppliedStays ==
  ASSUME Applied, ObservedInPlace,
         api'.ms = api.ms, got' \in {got, Absent}, pc' \in {pc, "idle"},
         api.ms # Absent /\ DeploymentOf(api.ms) => DeploymentOf(api.ms)',
         api.ms # Absent /\ ServiceOf(api.ms) => ServiceOf(api.ms)'
  PROVE  Applied' /\ ObservedInPlace'
<1>1. Applied'
  BY DEF Applied, SameGeneration
<1>2. ObservedInPlace'
  BY DEF ObservedInPlace
<1>. QED BY <1>1, <1>2

\* ApplyDeployment puts the Deployment where the call's generation wants it; if
\* it works for an older one, no status has named the current one yet.
LEMMA ApplyDeploymentApplies ==
  ASSUME ReconcilerInv, Applied, ObservedInPlace, ApplyDeployment
  PROVE  Applied' /\ ObservedInPlace'
<1>1. /\ got \in ModelServer /\ pc = "deployment"
      /\ api'.ms = api.ms /\ api'.service = api.service
      /\ api'.deploy \in Deployment
      /\ api'.deploy.owners = {got.uid}
      /\ api'.deploy.replicas = got.replicas /\ api'.deploy.template = got.template
      /\ (pc' = "service" /\ got' = got) \/ (pc' = "idle" /\ got' = Absent)
  BY ApplyDeploymentStep DEF ReconcilerInv
<1>2. got # Absent /\ api'.deploy # Absent
  BY <1>1, AbsentAssumption
<1>3. api.ms # Absent /\ SameGeneration(got, api.ms) => DeploymentOf(api.ms)'
  BY <1>1, <1>2 DEF ReconcilerInv, Ages, NotAhead, SameGeneration, DeploymentOf
<1>4. Applied'
  BY <1>1, <1>3 DEF Applied, SameGeneration
<1>5. ObservedInPlace'
  BY <1>1, <1>2, <1>3 DEF ReconcilerInv, Ages, Settled, ObservedInPlace, ServiceOf
<1>. QED BY <1>4, <1>5

\* The same of the Service, after the Deployment.
LEMMA ApplyServiceApplies ==
  ASSUME ReconcilerInv, Applied, ObservedInPlace, ApplyService
  PROVE  Applied' /\ ObservedInPlace'
<1>1. /\ got \in ModelServer /\ pc = "service"
      /\ api'.ms = api.ms /\ api'.deploy = api.deploy
      /\ \/ api'.service = [owners |-> {got.uid}, intact |-> TRUE, stray |-> FALSE]
         \/ api' = api /\ got' = Absent
      /\ (pc' = "status" /\ got' = got) \/ (pc' = "idle" /\ got' = Absent)
  BY ApplyServiceStep DEF ReconcilerInv
<1>2. got # Absent
  BY <1>1, AbsentAssumption
<1>3. CASE api' = api /\ got' = Absent
  <2>1. pc' = "idle" \/ pc' = "status"
    BY <1>1
  <2>2. Applied'
    BY <1>3 DEF Applied
  <2>3. ObservedInPlace'
    BY <1>3 DEF ObservedInPlace, DeploymentOf, ServiceOf
  <2>. QED BY <2>2, <2>3
<1>4. CASE api'.service = [owners |-> {got.uid}, intact |-> TRUE, stray |-> FALSE]
  <2>1. DeploymentOf(api.ms) => DeploymentOf(api.ms)'
    BY <1>1 DEF DeploymentOf
  <2>2. api.ms # Absent /\ SameGeneration(got, api.ms) => ServiceOf(api.ms)'
    BY <1>1, <1>4 DEF SameGeneration, ServiceOf
  <2>3. api.ms # Absent /\ SameGeneration(got, api.ms) => DeploymentOf(api.ms)'
    BY <1>1, <1>2, <2>1 DEF Applied
  <2>4. Applied'
    BY <1>1, <2>2, <2>3 DEF Applied, SameGeneration
  <2>5. ObservedInPlace'
    BY <1>1, <1>2, <2>2, <2>3 DEF ReconcilerInv, Ages, Settled, ObservedInPlace
  <2>. QED BY <2>4, <2>5
<1>. QED BY <1>1, <1>3, <1>4

\* A status is written by a call that has applied both.
LEMMA UpdateStatusApplies ==
  ASSUME ReconcilerInv, Applied, ObservedInPlace, UpdateStatus
  PROVE  Applied' /\ ObservedInPlace'
<1>1. /\ got \in ModelServer /\ pc = "status"
      /\ api'.deploy = api.deploy /\ api'.service = api.service
      /\ \/ api'.ms = api.ms
         \/ api.ms = got /\ SameGeneration(api'.ms, got)
            /\ api'.ms.replicas = got.replicas /\ api'.ms.template = got.template
      /\ pc' = "idle" /\ got' = Absent
  BY UpdateStatusStep DEF ReconcilerInv
<1>2. got # Absent
  BY <1>1, AbsentAssumption
<1>3. Applied'
  BY <1>1 DEF Applied
<1>4. CASE api'.ms = api.ms
  BY <1>1, <1>3, <1>4 DEF ObservedInPlace, DeploymentOf, ServiceOf
<1>5. CASE /\ api.ms = got /\ SameGeneration(api'.ms, got)
           /\ api'.ms.replicas = got.replicas /\ api'.ms.template = got.template
  <2>1. DeploymentOf(api.ms) /\ ServiceOf(api.ms)
    BY <1>1, <1>2, <1>5 DEF Applied, SameGeneration
  <2>2. DeploymentOf(api.ms)' /\ ServiceOf(api.ms)'
    BY <1>1, <1>5, <2>1 DEF DeploymentOf, ServiceOf, SameGeneration
  <2>. QED BY <1>3, <2>2 DEF ObservedInPlace
<1>. QED BY <1>1, <1>4, <1>5

\* A generation, or a ModelServer, that nobody has read: nothing has been
\* applied for it, and no status has named it.
LEMMA AppliedForNothingNew ==
  ASSUME ReconcilerInv, Edit \/ Delete \/ Recreate
  PROVE  Applied' /\ ObservedInPlace'
<1>1. changes \in Nat /\ \A x \in {api.ms, cache.ms, got} :
        x # Absent => x.uid \in Nat /\ x.generation \in Nat /\ x.status.observed \in Nat
  BY AgesAreNumbers DEF ReconcilerInv
<1>2. CASE Edit
  <2>1. /\ got' = got /\ api.ms # Absent
        /\ api'.ms.uid = api.ms.uid /\ api'.ms.status = api.ms.status
        /\ api'.ms.generation = api.ms.generation + 1
    BY <1>2, EditStep DEF ReconcilerInv
  <2>2. /\ got # Absent => ~SameGeneration(got, api'.ms)
        /\ api'.ms.status.observed # api'.ms.generation
    BY <1>1, <2>1 DEF ReconcilerInv, Ages, NotAhead, StatusNotAhead, SameGeneration
  <2>. QED BY <2>1, <2>2 DEF Applied, ObservedInPlace, SameGeneration
<1>3. CASE Delete
  BY <1>3, DeleteStep DEF ReconcilerInv, Applied, ObservedInPlace
<1>4. CASE Recreate
  <2>1. /\ got' = got /\ api.ms = Absent
        /\ api'.ms.uid = changes + 1 /\ api'.ms.generation = 1
        /\ api'.ms.status.observed = 0
    BY <1>4, RecreateStep DEF ReconcilerInv
  <2>2. /\ got # Absent => ~SameGeneration(got, api'.ms)
        /\ api'.ms.status.observed # api'.ms.generation
    BY <1>1, <2>1 DEF ReconcilerInv, Ages, Known, SameGeneration
  <2>. QED BY <2>1, <2>2 DEF Applied, ObservedInPlace, SameGeneration
<1>. QED BY <1>2, <1>3, <1>4

\* The garbage collector leaves what belongs to the living.
LEMMA CollectGarbageApplies ==
  ASSUME ReconcilerInv, Applied, ObservedInPlace, CollectGarbage
  PROVE  Applied' /\ ObservedInPlace'
<1>1. /\ api'.ms = api.ms /\ pc' = pc /\ got' = got
      /\ \/ api'.deploy = api.deploy
         \/ api.ms # Absent => api.ms.uid \notin api.deploy.owners
      /\ \/ api'.service = api.service
         \/ api.ms # Absent => api.ms.uid \notin api.service.owners
  BY CollectGarbageStep DEF ReconcilerInv
<1>2. api.ms # Absent /\ DeploymentOf(api.ms) => DeploymentOf(api.ms)'
  BY <1>1 DEF DeploymentOf
<1>3. api.ms # Absent /\ ServiceOf(api.ms) => ServiceOf(api.ms)'
  BY <1>1 DEF ServiceOf
<1>. QED BY <1>1, <1>2, <1>3, AppliedStays

\* While nobody else touches the owned objects, every step keeps it.
LEMMA AppliedNext ==
  ASSUME Outside \cap {"drift", "stray"} = {},
         ReconcilerInv, Applied, ObservedInPlace, [ReconcilerNext]_reconcilerVars
  PROVE  Applied' /\ ObservedInPlace'
<1>1. ~DriftDeployment /\ ~DriftService /\ ~StrayPort
  BY DEF DriftDeployment, DriftService, StrayPort, Disturbed
<1>2. ReconcilerTypeOK
  BY DEF ReconcilerInv
<1>3. CASE Get
  <2>1. api' = api /\ pc' \in {"idle", "deployment"}
    BY <1>2, <1>3, GetStep
  <2>2. Applied'
    BY <2>1 DEF Applied
  <2>3. ObservedInPlace'
    BY <2>1 DEF ObservedInPlace, DeploymentOf, ServiceOf
  <2>. QED BY <2>2, <2>3
<1>4. CASE ApplyDeployment
  BY <1>4, ApplyDeploymentApplies
<1>5. CASE ApplyService
  BY <1>5, ApplyServiceApplies
<1>6. CASE UpdateStatus
  BY <1>6, UpdateStatusApplies
<1>7. CASE \E k \in Kinds : Sync(k)
  <2>1. api' = api /\ pc' = pc /\ got' = got
    BY <1>2, <1>7, SyncStep
  <2>. QED BY <2>1, AppliedStays DEF DeploymentOf, ServiceOf
<1>8. CASE CollectGarbage
  BY <1>8, CollectGarbageApplies
<1>9. CASE Edit \/ Delete \/ Recreate
  BY <1>9, AppliedForNothingNew
<1>10. CASE PodsChange
  <2>1. /\ api'.ms = api.ms /\ pc' = pc /\ got' = got
        /\ api'.service = api.service /\ api'.deploy # Absent
        /\ api'.deploy.owners = api.deploy.owners
        /\ api'.deploy.replicas = api.deploy.replicas
        /\ api'.deploy.template = api.deploy.template
    BY <1>2, <1>10, PodsChangeStep
  <2>. QED BY <2>1, AppliedStays DEF DeploymentOf, ServiceOf
<1>11. CASE CallRefused \/ Restart
  <2>1. api' = api /\ pc' = "idle" /\ got' = Absent
    BY <1>2, <1>11, CallRefusedStep, RestartStep
  <2>. QED BY <2>1, AppliedStays DEF DeploymentOf, ServiceOf
<1>12. CASE UNCHANGED reconcilerVars
  <2>1. api' = api /\ pc' = pc /\ got' = got
    BY <1>12 DEF reconcilerVars
  <2>. QED BY <2>1, AppliedStays DEF DeploymentOf, ServiceOf
<1>. QED BY <1>1, <1>3, <1>4, <1>5, <1>6, <1>7, <1>8, <1>9, <1>10, <1>11, <1>12
         DEF ReconcilerNext, Reconcile, Disturb

\* observedGeneration is a promise (Reconcile's order of calls, and its return
\* at the first error): as long as nobody else edits or deletes the owned
\* objects or adds to the Service's ports, a status that names the current
\* generation means that the Deployment and the Service of it are in place.
THEOREM ObservedIsApplied ==
  ASSUME Outside \cap {"drift", "stray"} = {}
  PROVE  ReconcilerSpec => []ObservedMeansApplied
<1>1. ReconcilerInit => AppliedInv
  BY ReconcilerTypeInit, AgesInit, AppliedInit DEF AppliedInv, ReconcilerInv
<1>2. AppliedInv /\ [ReconcilerNext]_reconcilerVars => AppliedInv'
  BY ReconcilerTypeNext, AgesNext, AppliedNext DEF AppliedInv, ReconcilerInv
<1>3. AppliedInv => ObservedMeansApplied
  BY DEF AppliedInv, ReconcilerInv, Ages, StatusNotAhead, ObservedInPlace, DeploymentOf,
         ServiceOf, ObservedMeansApplied, Realized
<1>. QED BY <1>1, <1>2, <1>3, PTL DEF ReconcilerSpec
=============================================================================
