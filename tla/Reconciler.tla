----------------------------- MODULE Reconciler -----------------------------
(***************************************************************************)
(* internal/controller/modelserver_controller.go: the controller that      *)
(* turns one ModelServer into a Deployment and a Service and reports back  *)
(* in its status.                                                          *)
(*                                                                         *)
(* The API server holds the objects; the controller reads them from an     *)
(* informer cache that lags behind, and writes straight to the API server. *)
(* Each change the cache learns of puts the ModelServer's name on the work *)
(* queue; a name is there at most once and is handled by one worker, so    *)
(* one name is enough and the queue is a Boolean.  Reads are served by the *)
(* cache and cannot fail; every write is a remote call that can be         *)
(* refused, or take effect and lose its answer.                            *)
(***************************************************************************)
EXTENDS Integers

CONSTANTS
  Replicas,    \* the values of spec.replicas
  Templates,   \* the values of the spec fields a Pod template is built from
  Foreign,     \* a Pod template this controller never builds
  MaxPods,     \* the most Pods a Deployment ever has
  Absent,      \* no such object
  Outside,     \* what may happen outside the controller; see Disturbed
  MaxChanges   \* bound on how often it does

ASSUME ReconcilerAssumption ==
  /\ Replicas \subseteq Nat
  /\ Foreign \notin Templates
  /\ MaxPods \in Nat
  /\ MaxChanges \in Nat

VARIABLES
  api,      \* the objects in the API server, by kind
  cache,    \* the informers' copies of them
  events,   \* the kinds with an event under way that will queue the name
  queued,   \* the name is on the work queue
  pc,       \* the next call of Reconcile, "idle" between two
  got,      \* Reconcile's ms, as read
  changes   \* how often the outside has acted

reconcilerVars == <<api, cache, events, queued, pc, got, changes>>

Kinds == {"ms", "deploy", "service"}

\* The Available condition is its reason and its message "ready/wanted";
\* its status is True exactly for AllReplicasReady.
Status ==
  [available   : {"DeploymentNotFound", "ReplicasNotReady", "AllReplicasReady"},
   wanted      : Replicas,
   ready       : 0..MaxPods,
   progressing : BOOLEAN,
   phase       : {"Pending", "Loading", "Ready"},
   observed    : Nat]

NoStatus ==
  [available |-> "", wanted |-> 0, ready |-> 0, progressing |-> FALSE,
   phase |-> "", observed |-> 0]

\* generation counts changes of the spec, version those of the whole object.
ModelServer ==
  [uid : Nat, generation : Nat, version : Nat,
   replicas : Replicas, template : Templates, status : Status \cup {NoStatus}]

\* total and ready are its status; rolled says that no Pod runs an older
\* template, which the controller never reads.
Deployment ==
  [owners : SUBSET Nat, replicas : Replicas, template : Templates \cup {Foreign},
   total : 0..MaxPods, ready : 0..MaxPods, rolled : BOOLEAN]

\* intact: the selector and the port 8000 entry are the controller's.
\* stray: somebody added an entry for another port number.
Service == [owners : SUBSET Nat, intact : BOOLEAN, stray : BOOLEAN]

ASSUME AbsentAssumption == Absent \notin ModelServer \cup Deployment \cup Service

Created(uid, n, t) ==
  [uid |-> uid, generation |-> 1, version |-> 1,
   replicas |-> n, template |-> t, status |-> NoStatus]

ReconcilerInit ==
  /\ \E n \in Replicas, t \in Templates :
        api = [ms |-> Created(1, n, t), deploy |-> Absent, service |-> Absent]
  /\ cache = [k \in Kinds |-> Absent]
  /\ events = {"ms"}
  /\ queued = FALSE
  /\ pc = "idle"
  /\ got = Absent
  /\ changes = 0

-----------------------------------------------------------------------------
(* Writes and the watches that report them *)

\* Slip: the usual GenerationChangedPredicate on For(), which drops the
\* events of status writes.
EnqueuesGenerations(k, old, new) ==
  /\ old # new
  /\ IF k = "ms"
     THEN old = Absent \/ new = Absent \/ old.generation # new.generation
     ELSE \E o \in {old, new} : o # Absent /\ o.owners # {}

\* For() and Owns(): a change of the ModelServer itself, or of an object
\* that has or had its owner reference, queues the name.
Enqueues(k, old, new) ==
  old # new /\ (k = "ms" \/ \E o \in {old, new} : o # Absent /\ o.owners # {})

Write(objects) ==
  /\ api' = objects
  /\ events' = events \cup {k \in Kinds : Enqueues(k, api[k], objects[k])}

NoWrite == UNCHANGED <<api, events>>

\* The informer of kind k catches up with every event of its kind.  Objects it
\* would show in between are those it shows when it catches up earlier.
Sync(k) ==
  /\ cache[k] # api[k] \/ k \in events
  /\ cache' = [cache EXCEPT ![k] = api[k]]
  /\ events' = events \ {k}
  /\ queued' = (queued \/ k \in events)
  /\ UNCHANGED <<api, pc, got, changes>>

-----------------------------------------------------------------------------
(* How a call of Reconcile ends *)

\* Something of this kind happens outside, and uses up one of MaxChanges.
Disturbed(what) ==
  /\ what \in Outside
  /\ changes < MaxChanges
  /\ changes' = changes + 1

Done ==
  /\ pc' = "idle"
  /\ got' = Absent
  /\ UNCHANGED <<cache, queued>>

\* Reconcile returns an error: controller-runtime queues the name again.
Retry ==
  /\ pc' = "idle"
  /\ got' = Absent
  /\ queued' = TRUE
  /\ UNCHANGED cache

Proceed(next) ==
  /\ pc' = next
  /\ UNCHANGED <<cache, queued, got>>

\* The write took effect; its answer may not arrive.
Answered(ending) ==
  \/ ending /\ UNCHANGED changes
  \/ Disturbed("fail") /\ Retry

-----------------------------------------------------------------------------
(* Reconcile *)

\* Slip: goes on with an empty ModelServer when it is not found.
GetUnchecked ==
  /\ pc = "idle"
  /\ queued
  /\ queued' = FALSE
  /\ got' = cache.ms
  /\ pc' = "deployment"
  /\ NoWrite /\ UNCHANGED <<cache, changes>>

Get ==
  /\ pc = "idle"
  /\ queued
  /\ queued' = FALSE
  /\ got' = cache.ms
  /\ pc' = IF cache.ms = Absent THEN "idle" ELSE "deployment"
  /\ NoWrite /\ UNCHANGED <<cache, changes>>

\* Slip: the owned objects carry no owner reference.
NoOwnerRef == {}

OwnerRef == {got.uid}

\* Server-side apply with ForceOwnership: create, or take back what
\* buildDeployment lists and leave the rest.
AppliedDeployment(d) ==
  IF d = Absent
  THEN [owners |-> OwnerRef, replicas |-> got.replicas, template |-> got.template,
        total |-> 0, ready |-> 0, rolled |-> TRUE]
  ELSE [d EXCEPT !.owners = OwnerRef,
                 !.replicas = got.replicas,
                 !.template = got.template,
                 !.rolled = @ /\ (d.template = got.template \/ d.total = 0)]

ApplyDeployment ==
  /\ pc = "deployment"
  /\ Write([api EXCEPT !.deploy = AppliedDeployment(@)])
  /\ Answered(Proceed("service"))

\* Slip: create-if-missing, the previous version of reconcileService.
CreatedService(s) ==
  IF s # Absent THEN s ELSE [owners |-> OwnerRef, intact |-> TRUE, stray |-> FALSE]

\* Create, or take back the selector and the port 8000 entry.
AppliedService(s) == [owners |-> OwnerRef, intact |-> TRUE, stray |-> FALSE]

\* With a second, unnamed port the apply fails validation: apply cannot
\* delete an entry that another field manager added.
Wedged == api.service # Absent /\ api.service.stray

ApplyService ==
  /\ pc = "service"
  /\ \/ /\ Wedged
        /\ Retry
        /\ NoWrite /\ UNCHANGED changes
     \/ /\ ~Wedged
        /\ Write([api EXCEPT !.service = AppliedService(@)])
        /\ Answered(Proceed("status"))

\* What updateStatus computes for m from the Deployment d.
StatusOf(m, d) ==
  LET found     == d # Absent
      ready     == IF found THEN d.ready ELSE 0
      available == found /\ ready >= m.replicas
  IN [available   |-> CASE ~found    -> "DeploymentNotFound"
                        [] available -> "AllReplicasReady"
                        [] OTHER     -> "ReplicasNotReady",
      wanted      |-> m.replicas,
      ready       |-> ready,
      progressing |-> ~available,
      phase       |-> CASE ~found \/ d.total = 0 -> "Pending"
                        [] available             -> "Ready"
                        [] OTHER                 -> "Loading",
      observed    |-> m.generation]

\* Status is a subresource: writing it is no new generation.
WithStatus(m, new) == [m EXCEPT !.status = new, !.version = @ + 1]

\* Slip: Reconcile asks for another run whatever it found.
UpdateStatusRequeue ==
  /\ pc = "status"
  /\ LET new == StatusOf(got, cache.deploy) IN
     IF new # got.status /\ api.ms = got
     THEN Write([api EXCEPT !.ms = WithStatus(@, new)])
     ELSE NoWrite
  /\ Retry
  /\ UNCHANGED changes

\* Get of the Deployment from the cache and Update of the status.  Update
\* carries the version that Get read, and the API server refuses any other.
\* Reading the cache later than the code does adds nothing: it may be as
\* old at that moment as it was before.
UpdateStatus ==
  /\ pc = "status"
  /\ LET new == StatusOf(got, cache.deploy) IN
     \/ /\ new = got.status
        /\ Done
        /\ NoWrite /\ UNCHANGED changes
     \/ /\ new # got.status
        /\ api.ms = got
        /\ Write([api EXCEPT !.ms = WithStatus(@, new)])
        /\ Answered(Done)
     \/ /\ new # got.status
        /\ api.ms # got
        /\ Retry
        /\ NoWrite /\ UNCHANGED changes

\* Slip: a failed call is logged and Reconcile goes on.
RefusalIgnored ==
  /\ pc \in {"deployment", "service"}
  /\ Disturbed("fail")
  /\ Proceed(IF pc = "deployment" THEN "service" ELSE "status")
  /\ NoWrite

\* A write fails without effect, and Reconcile returns at once.
CallRefused ==
  /\ pc # "idle"
  /\ Disturbed("fail")
  /\ Retry
  /\ NoWrite

Reconcile == Get \/ ApplyDeployment \/ ApplyService \/ UpdateStatus

-----------------------------------------------------------------------------
(* The outside *)

Untouched == UNCHANGED <<cache, queued, pc, got>>

WithSpec(m, n, t) ==
  [m EXCEPT !.replicas = n, !.template = t, !.generation = @ + 1, !.version = @ + 1]

\* A user changes the spec: a new generation.
Edit ==
  /\ api.ms # Absent
  /\ Disturbed("edit")
  /\ \E n \in Replicas, t \in Templates :
        /\ <<n, t>> # <<api.ms.replicas, api.ms.template>>
        /\ Write([api EXCEPT !.ms = WithSpec(@, n, t)])
  /\ Untouched

Delete ==
  /\ api.ms # Absent
  /\ Disturbed("delete")
  /\ Write([api EXCEPT !.ms = Absent])
  /\ Untouched

\* Under the same name, with a uid of its own: changes is never the same twice.
Recreate ==
  /\ api.ms = Absent
  /\ Disturbed("recreate")
  /\ \E n \in Replicas, t \in Templates :
        Write([api EXCEPT !.ms = Created(changes + 1, n, t)])
  /\ Untouched

\* The Deployment controller and the kubelets: Pods come, go and become ready.
PodsChange ==
  /\ api.deploy # Absent
  /\ Disturbed("pods")
  /\ \E total \in 0..MaxPods : \E ready \in 0..total, rolled \in BOOLEAN :
        /\ (api.deploy.rolled \/ total = 0) => rolled
        /\ <<total, ready, rolled>> # <<api.deploy.total, api.deploy.ready, api.deploy.rolled>>
        /\ Write([api EXCEPT !.deploy.total = total, !.deploy.ready = ready,
                              !.deploy.rolled = rolled])
  /\ Untouched

\* Somebody edits or deletes an owned object behind the controller's back.
DriftDeployment ==
  /\ api.deploy # Absent
  /\ Disturbed("drift")
  /\ \E d \in {[api.deploy EXCEPT !.template = Foreign, !.rolled = @ /\ api.deploy.total = 0],
               [api.deploy EXCEPT !.owners = {}], Absent}
              \cup {[api.deploy EXCEPT !.replicas = n] : n \in Replicas} :
        Write([api EXCEPT !.deploy = d])
  /\ Untouched

DriftService ==
  /\ api.service # Absent
  /\ Disturbed("drift")
  /\ \E s \in {[api.service EXCEPT !.intact = FALSE], [api.service EXCEPT !.owners = {}],
               Absent} :
        Write([api EXCEPT !.service = s])
  /\ Untouched

\* Somebody adds a port to the Service under another number, or removes it.
StrayPort ==
  /\ api.service # Absent
  /\ Disturbed("stray")
  /\ Write([api EXCEPT !.service.stray = ~@])
  /\ Untouched

\* The garbage collector removes an object none of whose owners lives.
CollectGarbage ==
  /\ \E k \in {"deploy", "service"} :
        /\ api[k] # Absent
        /\ api[k].owners # {}
        /\ \A m \in {api.ms} \ {Absent} : m.uid \notin api[k].owners
        /\ Write([api EXCEPT ![k] = Absent])
  /\ UNCHANGED <<cache, queued, pc, got, changes>>

\* The manager restarts: the call in progress is forgotten, and the initial
\* lists fill the caches and queue the name of what they find.
Restart ==
  /\ Disturbed("restart")
  /\ cache' = api
  /\ queued' = \/ api.ms # Absent
               \/ \E k \in {"deploy", "service"} : api[k] # Absent /\ api[k].owners # {}
  /\ pc' = "idle"
  /\ got' = Absent
  /\ events' = {}
  /\ UNCHANGED api

Disturb ==
  \/ Edit \/ Delete \/ Recreate
  \/ PodsChange \/ DriftDeployment \/ DriftService \/ StrayPort
  \/ CallRefused \/ Restart

ReconcilerNext ==
  \/ Reconcile
  \/ \E k \in Kinds : Sync(k)
  \/ CollectGarbage
  \/ Disturb

\* controller-runtime's worker and watches, and the garbage collector, go on;
\* nothing is assumed of the outside.
ReconcilerSpec ==
  /\ ReconcilerInit /\ [][ReconcilerNext]_reconcilerVars
  /\ WF_reconcilerVars(Reconcile)
  /\ \A k \in Kinds : WF_reconcilerVars(Sync(k))
  /\ WF_reconcilerVars(CollectGarbage)

-----------------------------------------------------------------------------
(* Properties *)

\* Every object has its fields, a status that was ever written has one of the
\* phases the CRD admits (modelserver_types.go's Enum on Phase), and Reconcile
\* makes no call without a ModelServer (the early return after Get).
ReconcilerTypeOK ==
  /\ DOMAIN api = Kinds /\ DOMAIN cache = Kinds
  /\ \A o \in {api, cache} :
        /\ o.ms \in ModelServer \cup {Absent}
        /\ o.deploy \in Deployment \cup {Absent}
        /\ o.service \in Service \cup {Absent}
  /\ got \in ModelServer \cup {Absent}
  /\ events \subseteq Kinds /\ queued \in BOOLEAN
  /\ pc \in {"idle", "deployment", "service", "status"}
  /\ (pc = "idle") <=> (got = Absent)
  /\ changes \in 0..MaxChanges

\* The owned objects are what m asks for.
Realized(m) ==
  /\ api.deploy # Absent
  /\ api.deploy.owners = {m.uid}
  /\ api.deploy.replicas = m.replicas
  /\ api.deploy.template = m.template
  /\ api.service = [owners |-> {m.uid}, intact |-> TRUE, stray |-> FALSE]

\* observedGeneration is a promise (Reconcile applies both objects before
\* updateStatus, and stops at the first error): while nobody else touches the
\* owned objects, a status that names the current generation is written only
\* after the Deployment and the Service of that generation of that ModelServer
\* are in place, and they stay; and no status names a generation to come.
\* Stale reads, conflicts, lost answers, restarts, deletion and recreation
\* under the same name are all in between.
ObservedMeansApplied ==
  LET m == api.ms IN
  m # Absent =>
     /\ m.status.observed <= m.generation
     /\ m.status.observed = m.generation => Realized(m)

\* The controller cannot apply a Service with a stray port; all it promises
\* is for when there is none, and none is left to wait for.
Rests == <>[]~Wedged

\* Drift correction (Owns() and server-side apply): once the outside rests,
\* the owned objects are what the ModelServer asks for and remain so, whoever
\* edited or deleted them, and whichever calls failed.  A controller that was
\* wedged by a stray port gets going when somebody removes it.
DriftRepaired ==
  Rests => <>[](api.ms # Absent => Realized(api.ms))

StatusIsTrue ==
  api.ms # Absent => api.ms.status = StatusOf(api.ms, api.deploy)

\* The status converges (updateStatus): once the outside rests, it describes
\* the Deployment that exists.  A reconcile that reads an old status may find
\* nothing to write; the event of its own earlier write brings it back.
StatusConverges == Rests => <>[]StatusIsTrue

\* The controller's own writes queue its name again, but not for ever: once
\* the outside rests, the queue is empty and no call is made.
Quiesces == Rests => <>[](pc = "idle" /\ ~queued)

\* After a deletion nothing the controller made is left, although a reconcile
\* with an old copy of the ModelServer may make it once more (ownerRef).
OwnedObjectsGo ==
  <>[](api.ms = Absent => api.deploy = Absent /\ api.service = Absent)

\* modelserver_types.go:84, of Progressing: "the resource is being created or
\* updated".  A status written for the current generation denies it only when
\* no Pod runs an older template.
ProgressingWhileUpdating ==
  [][ /\ api.ms # Absent /\ api'.ms # Absent
      /\ api'.ms.status # api.ms.status
      /\ api'.ms.status.observed = api'.ms.generation
      /\ ~api'.ms.status.progressing
      => api.deploy.rolled ]_reconcilerVars
=============================================================================
