------------------------------ MODULE Consumer ------------------------------
(***************************************************************************)
(* The worker's consumer loop (internal/worker/consumer.go) on the Redis   *)
(* queue, with the producers that enqueue jobs and the API requests that   *)
(* replay dead letters.                                                    *)
(***************************************************************************)
EXTENDS RedisQueue

CONSTANTS
  Unknown,      \* jobs of a type no handler is registered for
  MaxAttempts   \* JOB_MAX_ATTEMPTS

ASSUME ConsumerAssumption ==
  /\ Unknown \subseteq Jobs
  /\ MaxAttempts \in Nat \ {0}

VARIABLES
  enqueued,   \* history: jobs a producer has enqueued
  handled     \* history: jobs whose handler has returned without an error

vars == <<queueVars, enqueued, handled>>
history == <<enqueued, handled>>

Init ==
  /\ QueueInit
  /\ enqueued = {}
  /\ handled = {}

(* A producer schedules a new job (Attempts = 0): ScheduleDeployment and
   ScheduleDelete for now, ScheduleSync for later. *)
Produce(j) ==
  /\ j \notin enqueued
  /\ enqueued' = enqueued \cup {j}
  /\ Enqueue(j, 0)
  /\ UNCHANGED <<processing, dead, delayed, aged, local, dropped, faults, handled>>

ProduceLater(j) ==
  /\ j \notin enqueued
  /\ enqueued' = enqueued \cup {j}
  /\ \E p \in NewText(j, 0, FALSE) : delayed' = delayed \cup {p}
  /\ UNCHANGED <<ready, processing, dead, aged, local, dropped, faults, handled>>

(* runMaintenance returns at once within a second of the last one. *)
SkipMaintenance(w) ==
  /\ pc[w] = "idle"
  /\ Goto(w, "dequeue")
  /\ UNCHANGED <<lists, aged, orig, lease, todo, dropped, faults, history>>

Maintain(w) ==
  /\ \/ PromoteDueRead(w) \/ PromoteDueRem(w) \/ PromoteDuePush(w)
     \/ ReclaimStaleRead(w) \/ ReclaimStaleRem(w) \/ ReclaimStalePush(w)
  /\ UNCHANGED history

Dequeue(w) ==
  /\ DequeuePop(w) \/ DequeueEmpty(w) \/ DequeueLeasePush(w) \/ DequeueLeaseRem(w)
  /\ UNCHANGED history

(* Run calls the job's handler, if it has one. *)
HandlerSucceeds(w) ==
  /\ pc[w] = "handle"
  /\ lease[w].id \notin Unknown
  /\ handled' = handled \cup {lease[w].id}
  /\ Goto(w, "ack")
  /\ UNCHANGED <<lists, aged, orig, lease, todo, dropped, faults, enqueued>>

HandlerFails(w) ==
  /\ pc[w] = "handle"
  /\ lease[w].id \notin Unknown
  /\ Goto(w, "retry")
  /\ UNCHANGED <<lists, aged, orig, lease, todo, dropped, faults, history>>

(* retryJob: the failed attempt counts; the last one is dead-lettered, any
   other is delayed.  Either is written before the lease is acknowledged. *)
RetryJob(w) ==
  /\ pc[w] = "retry"
  /\ LET attempts == lease[w].attempts + 1 IN
       IF attempts >= MaxAttempts
       THEN DeadLetter(w, attempts, "idle")
       ELSE EnqueueAfter(w, attempts, "ack")
  /\ UNCHANGED history

(* A job without a handler is dead-lettered and, whether or not that
   worked, acknowledged. *)
NoHandler(w) ==
  /\ pc[w] = "handle"
  /\ lease[w].id \in Unknown
  /\ DeadLetter(w, lease[w].attempts, "ack")
  /\ UNCHANGED history

AckJob(w) == Ack(w) /\ UNCHANGED history

Replay(a) ==
  /\ ReplayDeadLetterRead(a) \/ ReplayDeadLetterRem(a) \/ ReplayDeadLetterPush(a)
  /\ UNCHANGED history

(* The reconciler's tick: promote and reclaim like a consumer, then (the
   "dequeue" label) schedule work for active deployments, which is a producer's
   step here. *)
ReconcilerTick(r) ==
  \/ Maintain(r)
  \/ /\ pc[r] = "dequeue"
     /\ Goto(r, "idle")
     /\ UNCHANGED <<lists, aged, orig, lease, todo, dropped, faults, history>>

Environment ==
  /\ DelayElapses \/ LeaseExpires \/ \E p \in Procs : Crash(p) \/ Restart(p)
  /\ UNCHANGED history

WorkerStep(w) ==
  \/ SkipMaintenance(w) \/ Maintain(w) \/ Dequeue(w) \/ HandlerSucceeds(w)
  \/ HandlerFails(w) \/ RetryJob(w) \/ NoHandler(w) \/ AckJob(w)

Next ==
  \/ \E j \in Jobs : Produce(j) \/ ProduceLater(j)
  \/ \E w \in Workers : WorkerStep(w)
  \/ \E r \in Reconcilers : ReconcilerTick(r)
  \/ \E a \in Admins : Replay(a)
  \/ Environment

Spec == Init /\ [][Next]_vars

(* The consumer loop keeps running and its handlers return; runMaintenance is
   not throttled for ever; docker-compose restarts a worker that stopped; and
   time passes. Producers, administrators and crashes promise nothing. *)
Fairness ==
  /\ \A w \in Workers :
       /\ WF_vars(WorkerStep(w))
       /\ SF_vars(Maintain(w))
       /\ WF_vars(Restart(w) /\ UNCHANGED history)
  /\ WF_vars(DelayElapses /\ UNCHANGED history)
  /\ WF_vars(LeaseExpires /\ UNCHANGED history)

FairSpec == Spec /\ Fairness
-----------------------------------------------------------------------------
Labels == {"idle", "promote", "promote_push", "reclaim", "reclaim_push", "dequeue",
           "lease_push", "lease_rem", "handle", "retry", "ack", "replay_rem",
           "replay_push", "down"}

(* The shapes of the lists, of the consumers' local state and of the history. *)
TypeInvariant ==
  /\ ready \in Seq(Payload) /\ processing \in Seq(Payload) /\ dead \in Seq(Payload)
  /\ delayed \subseteq Payload /\ aged \subseteq Payload
  /\ pc \in [Procs -> Labels]
  /\ orig \in [Procs -> Payload \cup {None}]
  /\ lease \in [Procs -> Payload \cup {None}]
  /\ todo \in [Procs -> SUBSET Payload]
  /\ dropped \subseteq Jobs /\ enqueued \subseteq Jobs /\ handled \subseteq Jobs
  /\ faults \in 0..MaxFaults

Ids(P) == {p.id : p \in P}

(* Jobs that some list, or a process between two commands, still has. *)
Kept ==
  Ids(ToSet(ready) \cup ToSet(processing) \cup ToSet(dead) \cup delayed
        \cup {orig[p] : p \in {q \in Procs : pc[q] \in Moving}})

(* No job vanishes: every enqueued job has been handled, is still in a list
   or on its way between two, or was let go of by a process in one of the
   windows that `dropped' records (PromoteDue, ReclaimStale and
   ReplayDeadLetter remove before they push; an unhandled job is acknowledged
   although its dead letter was not written). A crash anywhere else, a lost
   reply, an expired lease or a duplicate loses nothing. *)
LossOnlyInWindows == enqueued \subseteq handled \cup Kept \cup dropped

(* The same without the exception (CHANGELOG: "jobs left in processing after
   worker crashes are recovered automatically"). *)
NeverLost == enqueued \subseteq handled \cup Kept

(* The consumers on Redis keep the promise of a queue that may lose jobs: each
   command, crash and lost reply is a step of JobQueue, so a job's last copy
   goes away only once the job is handled, or in one of the windows. *)
Contract == INSTANCE JobQueue WITH
  Lossy <- TRUE, accepted <- enqueued, kept <- Kept, handled <- handled, lost <- dropped
KeepsContract == Contract!Spec

Working == {"lease_rem", "handle", "retry", "ack"}

(* A worker keeps its lease until it acknowledges it or it expires: no step of
   another worker, its Ack, its Dequeue or its ReclaimStale, removes it. *)
LeaseIsExclusive ==
  [][\A w \in Workers :
       /\ pc[w] \in Working /\ lease[w] \in ToSet(processing) \ aged
       /\ pc'[w] \in Working
       => lease[w] \in ToSet(processing')]_vars

(* Jobs are dead-lettered exactly when they are exhausted: a queued job has an
   attempt left, and a dead letter with a handler has used all of them. *)
DeadIffExhausted ==
  /\ \A p \in ToSet(ready) \cup ToSet(processing) \cup delayed : p.attempts < MaxAttempts
  /\ \A p \in ToSet(dead) : p.id \in Unknown \/ p.attempts = MaxAttempts

(* No delayed job is promoted twice, however many processes promote at once:
   no text is in the ready list twice, or both there and in the delayed set. *)
NoDoublePromotion ==
  IsInjective(ready) /\ ToSet(ready) \cap delayed = {}

(* Without faults a job is handled at most once: as long as nothing crashed, no
   reply was lost and no lease ran out under its worker, a handled job has no
   copy left that a worker could get. *)
ExactlyOnceWithoutFaults ==
  faults = 0 =>
    /\ handled \cap Ids(ToSet(ready) \cup delayed \cup ToSet(dead)) = {}
    /\ \A w \in Workers : pc[w] \in {"handle", "retry"} => lease[w].id \notin handled

(* Every job is settled in the end: whatever crashes, lost replies, expired
   leases and failing handlers delay it, an enqueued job is eventually handled
   or dead-lettered, or was let go of in one of the windows. *)
EventuallySettled ==
  \A j \in Jobs :
    (j \in enqueued) ~> (j \in handled \cup Ids(ToSet(dead)) \cup dropped)
=============================================================================
