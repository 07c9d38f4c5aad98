----------------------------- MODULE Deployment -----------------------------
(***************************************************************************)
(* The life of the deployments of one app: the API requests of             *)
(* DeploymentService, the worker's create, delete and sync handlers, the   *)
(* reconciler, and the Kubernetes objects they act on.                     *)
(*                                                                         *)
(* A request or a handler reads the deployment's row, works on its copy    *)
(* and writes the whole row back; the row has no version, so what another  *)
(* process wrote in between is overwritten.  Every call of the database,   *)
(* the queue or the cluster is a step, and may fail with its effect        *)
(* ("late") or without it ("lost").                                        *)
(***************************************************************************)
EXTENDS Integers

CONSTANTS
  Deps,           \* deployments of the app
  Workers,        \* consumers, each handling one job at a time
  Clients,        \* API requests in progress
  None,
  AutoRepair,     \* ReliabilityPolicy.AutoRepair
  MaxRepair,      \* ReliabilityPolicy.MaxRepairAttempts
  SubmitStatuses, \* what the backend's Submit may report
  Rollouts,       \* what a rollout may come to
  MaxCopies,      \* bound: equal jobs that are told apart
  MaxRequests,    \* bound: API requests
  MaxFaults       \* bound: failed calls, crashes and redeliveries

Procs == Workers \cup Clients

Statuses == {"queued", "provisioning", "running", "degraded", "recovering", "failed",
             "cancelled", "deleting", "deleted"}
Live == {"provisioning", "running", "degraded", "recovering"}
Row == [status : Statuses, ref : BOOLEAN, repair : Nat]
Observed == {"provisioning", "degraded", "running", "failed"}
Types == {"create", "delete", "sync"}
JobSet == [type : Types, dep : Deps]
Request == [type : Types \cup {"cancel"}, dep : Deps]

ASSUME DeploymentAssumption ==
  /\ Workers \cap Clients = {}
  /\ None \notin Deps /\ None \notin Row /\ None \notin Request /\ None \notin Observed
  /\ AutoRepair \in BOOLEAN /\ MaxRepair \in Nat \ {0}
  /\ SubmitStatuses \subseteq {"provisioning", "running"} /\ Rollouts \subseteq Observed
  /\ MaxCopies \in Nat \ {0} /\ MaxRequests \in Nat /\ MaxFaults \in Nat

VARIABLES
  row,      \* the deployments table: status, whether BackendRef is set, RepairAttempts
  current,  \* the app's CurrentDeploymentID
  cluster,  \* what mapDeploymentStatus makes of each Kubernetes Deployment, or "absent"
  queue,    \* how many jobs of each type and deployment wait to be handled
  pc,       \* the next call of each process
  job,      \* its job or request
  mem,      \* its copy of the row
  seen,     \* the backend status, or the app's current deployment, it has read
  ran,      \* history: deployments the backend has reported as running
  repairs,  \* history: auto-repairs queued since the last running or retry
  stale,    \* history: processes whose row another one has written since they did
  overwritten, \* history: such a process has written its copy
  requests, faults

jobVars == <<pc, job, mem, seen, stale>>
history == <<ran, repairs, overwritten>>
vars == <<row, current, cluster, queue, jobVars, history, requests, faults>>

Init ==
  /\ row = [d \in Deps |-> None]
  /\ current = None
  /\ cluster = [d \in Deps |-> "absent"]
  /\ queue = [j \in JobSet |-> 0]
  /\ pc = [p \in Procs |-> "idle"]
  /\ job = [p \in Procs |-> None]
  /\ mem = [p \in Procs |-> None]
  /\ seen = [p \in Procs |-> None]
  /\ ran = {}
  /\ repairs = [d \in Deps |-> 0]
  /\ stale = {} /\ overwritten = FALSE
  /\ requests = 0 /\ faults = 0
-----------------------------------------------------------------------------
Outcomes == {"ok"} \cup (IF faults < MaxFaults THEN {"lost", "late"} ELSE {})
Effective(o) == o # "lost"
Charge(o) == faults' = IF o = "ok" THEN faults ELSE faults + 1

NewJob(t, d) == [type |-> t, dep |-> d]

(* A job more in the queue; equal jobs beyond the bound are not counted. *)
Added(q, j) == [q EXCEPT ![j] = IF @ < MaxCopies THEN @ + 1 ELSE @]

(* GetByID at the start of a request or a handler, for job or request j. *)
Begin(p, j, l) ==
  /\ pc' = [pc EXCEPT ![p] = l]
  /\ job' = [job EXCEPT ![p] = j]
  /\ mem' = [mem EXCEPT ![p] = row[j.dep]]
  /\ stale' = stale \ {p}
  /\ UNCHANGED seen

(* The next call of p, with its copy of the row unchanged; and its end. *)
Goto(p, l) == pc' = [pc EXCEPT ![p] = l] /\ UNCHANGED <<job, mem, seen>>
Leave(p) ==
  /\ pc' = [pc EXCEPT ![p] = "idle"]
  /\ job' = [job EXCEPT ![p] = None]
  /\ mem' = [mem EXCEPT ![p] = None]
  /\ seen' = [seen EXCEPT ![p] = None]

(* A handler returns nil, or an error: the consumer retries the job, or
   dead-letters it once its attempts are used up (module Consumer). *)
Return(w) == Leave(w) /\ UNCHANGED queue
Error(w) == Leave(w) /\ \/ queue' = Added(queue, job[w])
                        \/ UNCHANGED queue

(* The history of auto-repairs, when the copy m is written as r: one more, or
   none since a retry or a running deployment; counted up to one too many. *)
Counted(n, m, r) ==
  IF r.status \in {"queued", "running"} THEN 0
  ELSE IF r.repair = m.repair + 1 /\ n <= MaxRepair THEN n + 1 ELSE n

(* DeploymentRepo.Update writes every column from the copy r, and the event
   of the change follows: "late" is a row written whose event, or whose
   reply, was lost. *)
Write(p, r, o) ==
  LET d == job[p].dep IN
  /\ Charge(o)
  /\ IF Effective(o)
     THEN /\ row' = [row EXCEPT ![d] = r]
          /\ overwritten' = (overwritten \/ p \in stale)
          /\ stale' = (stale \ {p}) \cup {q \in Procs \ {p} : mem[q] # None /\ job[q].dep = d}
          /\ repairs' = [repairs EXCEPT ![d] = Counted(@, mem[p], r)]
     ELSE UNCHANGED <<row, overwritten, stale, repairs>>

(* p goes on with the copy r it has tried to write, if it still needs one. *)
Proceed(p, r, l) ==
  LET last == l \in {"c_current", "c_sync", "d_app", "s_app", "s_sync", "schedule"} IN
  /\ pc' = [pc EXCEPT ![p] = l]
  /\ mem' = [mem EXCEPT ![p] = IF last THEN None ELSE r]
  /\ seen' = [seen EXCEPT ![p] = IF last THEN None ELSE @]
  /\ UNCHANGED job

(* Mutant: the attempts are forgotten with every status. *)
MarkedForgetting(r, s) == [status |-> s, ref |-> r.ref, repair |-> 0]

(* MarkDeploymentStatus on the copy r. *)
Marked(r, s) ==
  [status |-> s, ref |-> r.ref, repair |-> IF s = "running" THEN 0 ELSE r.repair]

(* A step of the worker's handler that marks the row with status s and goes on
   to l, or returns the error. *)
Mark(w, s, l) ==
  \E o \in Outcomes :
    /\ Write(w, Marked(mem[w], s), o)
    /\ \/ o # "ok" /\ Error(w)
       \/ o = "ok" /\ l = "return" /\ Return(w)
       \/ o = "ok" /\ l # "return" /\ Proceed(w, Marked(mem[w], s), l) /\ UNCHANGED queue
    /\ UNCHANGED <<current, cluster, ran>>

(* `_ = MarkDeploymentStatus(..., Failed, ...)` and the backend's error. *)
MarkFailed(w) ==
  /\ \E o \in Outcomes : Write(w, Marked(mem[w], "failed"), o)
  /\ Error(w)
  /\ UNCHANGED <<current, cluster, ran>>

(* The last call of a handler: ScheduleDeployment or ScheduleSync. *)
Schedule(w, t) ==
  \E o \in Outcomes :
    LET q == IF Effective(o) THEN Added(queue, NewJob(t, job[w].dep)) ELSE queue IN
    /\ Charge(o)
    /\ \/ queue' = q
       \/ o # "ok" /\ queue' = Added(q, job[w])
    /\ Leave(w)
    /\ UNCHANGED <<row, current, cluster, stale, history>>

(* AppRepo.Update with CurrentDeploymentID c, then l or the end. *)
SetCurrent(w, c, l) ==
  \E o \in Outcomes :
    /\ Charge(o)
    /\ current' = IF Effective(o) THEN c ELSE current
    /\ \/ o # "ok" /\ Error(w)
       \/ o = "ok" /\ l = "return" /\ Return(w)
       \/ o = "ok" /\ l # "return" /\ Goto(w, l) /\ UNCHANGED queue
    /\ UNCHANGED <<row, cluster, stale, history>>

(* A call that only reads fails: the handler returns the error. *)
ReadFails(w) ==
  /\ faults < MaxFaults /\ faults' = faults + 1
  /\ Error(w) /\ stale' = stale \ {w}
  /\ UNCHANGED <<row, current, cluster, history>>
-----------------------------------------------------------------------------
(* The consumer hands job j to its handler, whose GetByID reads the row; a
   handler that has nothing to do for that status returns at once, one whose
   read fails has the job retried or dead-lettered. *)
Handle(w, j, skip, l) ==
  /\ pc[w] = "idle" /\ queue[j] > 0
  /\ \/ /\ IF row[j.dep].status \in skip
           THEN UNCHANGED jobVars
           ELSE Begin(w, j, l)
        /\ queue' = [queue EXCEPT ![j] = @ - 1]
        /\ UNCHANGED faults
     \/ /\ faults < MaxFaults /\ faults' = faults + 1
        /\ queue' = [queue EXCEPT ![j] = @ - 1]
        /\ UNCHANGED jobVars
  /\ UNCHANGED <<row, current, cluster, history>>

(* Mutant: a cancelled deployment is created. *)
HandleCreateCancelled(w, d) ==
  Handle(w, NewJob("create", d), {"deleting", "deleted"}, "c_provision")

(* DeploymentCreateHandler.Handle *)
HandleCreate(w, d) ==
  Handle(w, NewJob("create", d), {"cancelled", "deleting", "deleted"}, "c_provision")
CreateProvisioning(w) ==
  /\ pc[w] = "c_provision"
  /\ Mark(w, "provisioning", "c_submit")

(* Mutant: the reference is not kept. *)
ReferencedNowhere(r) == r

(* deployment.BackendRef = status.Ref, in memory. *)
Referenced(r) == [status |-> r.status, ref |-> TRUE, repair |-> r.repair]

(* Submit creates or updates the Kubernetes Deployment; an update that changes
   nothing leaves the rollout as it is.  "late": the Deployment was applied, a
   later object was not. *)
CreateSubmit(w) ==
  /\ pc[w] = "c_submit"
  /\ \E o \in Outcomes, c \in Observed, s \in SubmitStatuses :
       LET d == job[w].dep IN
       /\ Charge(o)
       /\ c \in {"provisioning", cluster[d]}
       /\ cluster' = IF Effective(o) THEN [cluster EXCEPT ![d] = c] ELSE cluster
       /\ pc' = [pc EXCEPT ![w] = IF o = "ok" THEN "c_submitted" ELSE "c_failed"]
       /\ seen' = [seen EXCEPT ![w] = IF o = "ok" THEN s ELSE None]
       /\ mem' = [mem EXCEPT ![w] = IF o = "ok" THEN Referenced(@) ELSE @]
       /\ ran' = IF o = "ok" /\ s = "running" THEN ran \cup {d} ELSE ran
  /\ UNCHANGED <<row, current, queue, job, stale, repairs, overwritten>>
CreateFailed(w) == pc[w] = "c_failed" /\ MarkFailed(w)

(* Mutant: a deployment becomes the current one once it is submitted. *)
CreateSubmittedCurrent(w) == pc[w] = "c_submitted" /\ Mark(w, seen[w], "c_current")

CreateSubmitted(w) ==
  /\ pc[w] = "c_submitted"
  /\ Mark(w, seen[w], IF seen[w] = "running" THEN "c_current" ELSE "c_sync")
CreateCurrent(w) == pc[w] = "c_current" /\ SetCurrent(w, job[w].dep, "c_sync")
CreateSync(w) == pc[w] = "c_sync" /\ Schedule(w, "sync")

(* DeploymentDeleteHandler.Handle: it looks at no status.  Backend.Delete has
   nothing to delete for an empty BackendRef. *)
HandleDelete(w, d) == Handle(w, NewJob("delete", d), {}, "d_delete")
DeleteResources(w) ==
  /\ pc[w] = "d_delete"
  /\ \E o \in Outcomes :
       /\ mem[w].ref \/ o = "ok"
       /\ Charge(o)
       /\ cluster' = IF mem[w].ref /\ Effective(o)
                     THEN [cluster EXCEPT ![job[w].dep] = "absent"] ELSE cluster
       /\ Goto(w, IF o = "ok" THEN "d_deleted" ELSE "d_failed")
  /\ UNCHANGED <<row, current, queue, stale, history>>
DeleteFailed(w) == pc[w] = "d_failed" /\ MarkFailed(w)
DeleteDeleted(w) == pc[w] = "d_deleted" /\ Mark(w, "deleted", "d_app")
DeleteReadApp(w) ==
  /\ pc[w] = "d_app"
  /\ \/ /\ IF current = job[w].dep THEN Goto(w, "d_current") /\ UNCHANGED queue ELSE Return(w)
        /\ UNCHANGED faults
     \/ faults < MaxFaults /\ faults' = faults + 1 /\ Return(w)
  /\ UNCHANGED <<row, current, cluster, stale, history>>
DeleteCurrent(w) == pc[w] = "d_current" /\ SetCurrent(w, None, "return")

(* Mutant: a deployment that has ended is synced. *)
HandleSyncEnded(w, d) == Handle(w, NewJob("sync", d), {}, "s_status")

(* DeploymentSyncHandler.Handle.  GetStatus of an empty BackendRef is an
   error; a Deployment that is not found has failed. *)
HandleSync(w, d) == Handle(w, NewJob("sync", d), {"cancelled", "deleted"}, "s_status")
SyncStatus(w) ==
  /\ pc[w] = "s_status"
  /\ \/ /\ mem[w].ref
        /\ LET d == job[w].dep
               s == IF cluster[d] = "absent" THEN "failed" ELSE cluster[d] IN
           /\ seen' = [seen EXCEPT ![w] = s]
           /\ pc' = [pc EXCEPT ![w] = IF s = "failed" /\ AutoRepair THEN "s_repair" ELSE "s_mark"]
           /\ ran' = IF s = "running" THEN ran \cup {d} ELSE ran
        /\ UNCHANGED <<row, current, cluster, queue, job, mem, stale, repairs, overwritten, faults>>
     \/ /\ ~mem[w].ref
        /\ Error(w) /\ stale' = stale \ {w}
        /\ UNCHANGED <<row, current, cluster, history, faults>>
     \/ ReadFails(w)

(* Mutants: one attempt too many; the attempts are counted down. *)
RepairedOnceMore(r) ==
  IF r.repair > MaxRepair
  THEN Marked(r, "failed")
  ELSE [status |-> "recovering", ref |-> r.ref, repair |-> r.repair + 1]
RepairedCountingDown(r) ==
  IF r.repair >= MaxRepair
  THEN Marked(r, "failed")
  ELSE [status |-> "recovering", ref |-> r.ref, repair |-> r.repair - 1]

(* QueueAutoRepair: past the limit the deployment is marked failed, below it a
   create job follows the counted attempt.  Its error sends the handler on to
   mark the row failed, with the copy as QueueAutoRepair left it. *)
Repaired(r) ==
  IF r.repair >= MaxRepair
  THEN Marked(r, "failed")
  ELSE [status |-> "recovering", ref |-> r.ref, repair |-> r.repair + 1]
SyncRepair(w) ==
  /\ pc[w] = "s_repair"
  /\ \E o \in Outcomes :
       LET r == Repaired(mem[w]) IN
       /\ Write(w, r, o)
       /\ IF o = "ok" /\ r.status = "failed" THEN Return(w)
          ELSE Proceed(w, r, IF o = "ok" THEN "s_requeue" ELSE "s_mark") /\ UNCHANGED queue
  /\ UNCHANGED <<current, cluster, ran>>
SyncRequeue(w) ==
  /\ pc[w] = "s_requeue"
  /\ \E o \in Outcomes :
       /\ Charge(o)
       /\ queue' = IF Effective(o) THEN Added(queue, NewJob("create", job[w].dep)) ELSE queue
       /\ IF o = "ok" THEN Leave(w) /\ stale' = stale \ {w} ELSE Goto(w, "s_mark") /\ UNCHANGED stale
  /\ UNCHANGED <<row, current, cluster, history>>

SyncMark(w) ==
  /\ pc[w] = "s_mark"
  /\ Mark(w, seen[w], IF seen[w] = "running" THEN "s_app"
                      ELSE IF seen[w] = "failed" THEN "return" ELSE "s_sync")
SyncAgain(w) == pc[w] = "s_sync" /\ Schedule(w, "sync")
SyncReadApp(w) ==
  /\ pc[w] = "s_app"
  /\ \/ /\ IF current = job[w].dep THEN Return(w) ELSE Goto(w, "s_current") /\ UNCHANGED queue
        /\ UNCHANGED <<row, current, cluster, stale, history, faults>>
     \/ ReadFails(w)
SyncCurrent(w) == pc[w] = "s_current" /\ SetCurrent(w, job[w].dep, "return")
-----------------------------------------------------------------------------
(* POST /v1/apps/{id}/deployments: the row, its event, and then the job.  The
   database refuses the row of a request that lost the race for the version. *)
CreateDeployment(c, d) ==
  /\ row[d] = None
  /\ row' = [row EXCEPT ![d] = [status |-> "queued", ref |-> FALSE, repair |-> 0]]
  /\ \E o \in Outcomes \ {"lost"} :
       /\ Charge(o)
       /\ IF o = "ok"
          THEN /\ pc' = [pc EXCEPT ![c] = "schedule"]
               /\ job' = [job EXCEPT ![c] = NewJob("create", d)]
          ELSE UNCHANGED <<pc, job>>
  /\ UNCHANGED <<current, cluster, queue, mem, seen, stale, history>>

(* The requests that read a row, whose status must be one of from. *)
StartRequest(c, d, t, from, l) ==
  /\ row[d] # None
  /\ row[d].status \in from
  /\ Begin(c, NewJob(t, d), l)
  /\ UNCHANGED <<row, current, cluster, queue, history, faults>>
RetryDeployment(c, d) == StartRequest(c, d, "create", {"failed", "cancelled"}, "retry")
CancelDeployment(c, d) == StartRequest(c, d, "cancel", {"queued", "provisioning"}, "cancel")
DeleteDeployment(c, d) == StartRequest(c, d, "delete", Statuses \ {"deleted", "deleting"}, "delete")

(* They write the row with its event, and all but the cancel enqueue a job;
   an error ends the request. *)
Requested(r, l) ==
  IF l = "retry" THEN [status |-> "queued", ref |-> r.ref, repair |-> 0]
  ELSE Marked(r, IF l = "cancel" THEN "cancelled" ELSE "deleting")
RequestWrite(c) ==
  /\ pc[c] \in {"retry", "cancel", "delete"}
  /\ \E o \in Outcomes :
       LET r == Requested(mem[c], pc[c]) IN
       /\ Write(c, r, o)
       /\ IF o = "ok" /\ pc[c] # "cancel" THEN Proceed(c, r, "schedule") ELSE Leave(c)
  /\ UNCHANGED <<current, cluster, queue, ran>>
RequestSchedule(c) ==
  /\ pc[c] = "schedule"
  /\ \E o \in Outcomes :
       /\ Charge(o)
       /\ queue' = IF Effective(o) THEN Added(queue, job[c]) ELSE queue
  /\ Leave(c)
  /\ UNCHANGED <<row, current, cluster, stale, history>>

(* AppService.UpdateApp writes the whole app, CurrentDeploymentID included,
   as it read it. *)
UpdateApp(c) ==
  /\ pc' = [pc EXCEPT ![c] = "update"]
  /\ seen' = [seen EXCEPT ![c] = current]
  /\ UNCHANGED <<row, current, cluster, queue, job, mem, stale, history, faults>>
UpdateAppWrite(c) ==
  /\ pc[c] = "update"
  /\ current' = seen[c]
  /\ Leave(c)
  /\ UNCHANGED <<row, cluster, queue, stale, history, faults>>

(* Mutant: queued deployments are left to their requests. *)
ReconcileTypeUnqueued(r) ==
  {t \in Types : \/ t = "create" /\ r.status \in Live /\ ~r.ref
                 \/ t = "delete" /\ r.status = "deleting"
                 \/ t = "sync" /\ r.status \in Live /\ r.ref}

(* ReconcileOnce schedules a job for every active deployment.  The queue may
   hold a job for any time, so that the listing and the enqueueing are one step. *)
ReconcileType(r) ==
  {t \in Types : \/ t = "create" /\ (r.status = "queued" \/ (r.status \in Live /\ ~r.ref))
                 \/ t = "delete" /\ r.status = "deleting"
                 \/ t = "sync" /\ r.status \in Live /\ r.ref}
Reconcile(d) ==
  /\ row[d] # None
  /\ \E t \in ReconcileType(row[d]) : queue' = Added(queue, NewJob(t, d))
  /\ UNCHANGED <<row, current, cluster, jobVars, history, faults>>

(* The Deployment controller and the pods: a rollout proceeds, is degraded,
   recovers or fails. *)
Rollout(d) ==
  /\ cluster[d] # "absent"
  /\ \E s \in Rollouts : cluster' = [cluster EXCEPT ![d] = s]
  /\ UNCHANGED <<row, current, queue, jobVars, history, faults>>

(* A worker that is too slow, or whose ack is lost, has its job delivered
   again; one that crashes also stops.  A request whose process crashes stops. *)
Redeliver(w) ==
  /\ faults < MaxFaults /\ faults' = faults + 1
  /\ pc[w] # "idle"
  /\ queue' = Added(queue, job[w])
  /\ \/ Leave(w) /\ stale' = stale \ {w}
     \/ UNCHANGED jobVars
  /\ UNCHANGED <<row, current, cluster, history>>
Abandon(c) ==
  /\ faults < MaxFaults /\ faults' = faults + 1
  /\ pc[c] # "idle"
  /\ Leave(c) /\ stale' = stale \ {c}
  /\ UNCHANGED <<row, current, cluster, queue, history>>
-----------------------------------------------------------------------------
Take(j) == \E w \in Workers :
  \/ j.type = "create" /\ HandleCreate(w, j.dep)
  \/ j.type = "delete" /\ HandleDelete(w, j.dep)
  \/ j.type = "sync" /\ HandleSync(w, j.dep)

WorkerStep(w) ==
  \/ CreateProvisioning(w) \/ CreateSubmit(w) \/ CreateFailed(w)
  \/ CreateSubmitted(w) \/ CreateCurrent(w) \/ CreateSync(w)
  \/ DeleteResources(w) \/ DeleteFailed(w) \/ DeleteDeleted(w)
  \/ DeleteReadApp(w) \/ DeleteCurrent(w)
  \/ SyncStatus(w) \/ SyncRepair(w) \/ SyncRequeue(w) \/ SyncMark(w)
  \/ SyncAgain(w) \/ SyncReadApp(w) \/ SyncCurrent(w)

ClientStart(c) ==
  /\ pc[c] = "idle"
  /\ requests < MaxRequests /\ requests' = requests + 1
  /\ \/ UpdateApp(c)
     \/ \E d \in Deps : \/ CreateDeployment(c, d) \/ RetryDeployment(c, d)
                        \/ CancelDeployment(c, d) \/ DeleteDeployment(c, d)
ClientStep(c) == RequestWrite(c) \/ RequestSchedule(c) \/ UpdateAppWrite(c)

Next ==
  \/ \E c \in Clients : ClientStart(c)
  \/ /\ UNCHANGED requests
     /\ \/ \E j \in JobSet : Take(j)
        \/ \E w \in Workers : WorkerStep(w) \/ Redeliver(w)
        \/ \E c \in Clients : ClientStep(c) \/ Abandon(c)
        \/ \E d \in Deps : Reconcile(d) \/ Rollout(d)

Spec == Init /\ [][Next]_vars

(* A handler and a request that run go on; the queue delivers a job that is
   there again and again; the reconciler ticks. *)
Fairness ==
  /\ \A w \in Workers : WF_vars(WorkerStep(w) /\ UNCHANGED requests)
  /\ \A c \in Clients : WF_vars(ClientStep(c) /\ UNCHANGED requests)
  /\ \A j \in JobSet : SF_vars(Take(j) /\ UNCHANGED requests)
  /\ \A d \in Deps : WF_vars(Reconcile(d) /\ UNCHANGED requests)
FairSpec == Spec /\ Fairness
-----------------------------------------------------------------------------
Labels == {"idle", "c_provision", "c_submit", "c_failed", "c_submitted", "c_current", "c_sync",
           "d_delete", "d_failed", "d_deleted", "d_app", "d_current",
           "s_status", "s_repair", "s_requeue", "s_mark", "s_sync", "s_app", "s_current",
           "retry", "cancel", "delete", "schedule", "update"}

(* Type correctness of the rows, the app, the queue and every process. *)
TypeInvariant ==
  /\ row \in [Deps -> Row \cup {None}]
  /\ current \in Deps \cup {None}
  /\ cluster \in [Deps -> Observed \cup {"absent"}]
  /\ queue \in [JobSet -> 0..MaxCopies]
  /\ pc \in [Procs -> Labels]
  /\ job \in [Procs -> Request \cup {None}]
  /\ mem \in [Procs -> Row \cup {None}]
  /\ seen \in [Procs -> Observed \cup Deps \cup {None}]
  /\ ran \subseteq Deps
  /\ repairs \in [Deps -> 0..(MaxRepair + 1)]
  /\ stale \subseteq Procs /\ overwritten \in BOOLEAN
  /\ requests \in 0..MaxRequests /\ faults \in 0..MaxFaults

Status(d) == IF row[d] = None THEN "none" ELSE row[d].status
AtWork(d) == \E p \in Procs : job[p] # None /\ job[p].dep = d

(* The app's current deployment is one the backend has reported as running,
   whatever syncs, deletes and whole-row updates of the app interleave
   (deployment_sync.go, deployment_delete.go, app_service.go). *)
CurrentHasRun == current # None => current \in ran

(* As long as no row is written over, no more auto-repairs are made in a row
   than the policy allows (QueueAutoRepair). *)
RepairsCounted == ~overwritten => \A d \in Deps : repairs[d] <= MaxRepair

(* Without failures and without a row written over, the resources of a
   deployment nobody works on can still be found: its row has their reference
   and is not deleted. *)
ResourcesAccounted ==
  ~overwritten /\ faults = 0 =>
    \A d \in Deps : cluster[d] # "absent" /\ ~AtWork(d) =>
                      row[d].ref /\ row[d].status # "deleted"

(* A cancelled or deleted deployment goes back to work only through a retry,
   and a deleted one not even then, unless a row is written over: no job that
   is redelivered, duplicated or late revives it. *)
EndedStaysEnded ==
  [][\A d \in Deps :
       ~overwritten' =>
         /\ Status(d) \in {"cancelled", "deleted"} => Status(d)' \notin Live
         /\ Status(d) = "deleted" => Status(d)' \notin {"queued", "cancelled", "deleting"}]_vars

(* A queued deployment is picked up or ended, even when its request could not
   enqueue a job: the reconciler makes up for it. *)
QueuedIsPickedUp == \A d \in Deps : (Status(d) = "queued") ~> (Status(d) # "queued")

(* A deployment whose row says that it is to be deleted is deleted, or is marked
   failed: the reconciler requeues the job from the row. *)
DeletionCompletes ==
  \A d \in Deps : (Status(d) = "deleting") ~> (Status(d) \in {"deleted", "failed"})
=============================================================================
