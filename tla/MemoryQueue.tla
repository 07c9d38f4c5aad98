---------------------------- MODULE MemoryQueue ----------------------------
(***************************************************************************)
(* The in-memory job queue (internal/queue/memory/client.go), used when    *)
(* REDIS_ADDR=memory, with the consumer, the reconciler and the requests   *)
(* that share it in the API process.  A mutex makes every operation of the *)
(* client one step.  Nothing survives the process, so there are no crashes.*)
(***************************************************************************)
EXTENDS Naturals, SequencesExt

CONSTANTS
  Jobs,         \* job ids
  Workers,      \* consumer loops
  NoWorker,     \* LeasedAt is zero
  NoJob,
  MaxAttempts,  \* JOB_MAX_ATTEMPTS
  Limit,        \* how many jobs one PromoteDue or ReclaimStale moves
  MaxExpiries   \* bound: leases that outlive the reclaim timeout

ASSUME MemoryQueueAssumption ==
  /\ MaxAttempts \in Nat \ {0} /\ Limit \in Nat \ {0} /\ MaxExpiries \in Nat
  /\ NoWorker \notin Workers

(* A job.  A worker has one lease at a time, so its name stands for LeasedAt;
   `aged' says that AvailableAt has come (delayed) or that LeasedAt is before the
   reclaim cutoff (processing). *)
Job == [id : Jobs, attempts : Nat, lease : Workers \cup {NoWorker}, aged : BOOLEAN]

(* Mutant: the attempts are counted from below. *)
NewJobBelow(j, n) == [id |-> j, attempts |-> n - 1, lease |-> NoWorker, aged |-> FALSE]

NewJob(j, n) == [id |-> j, attempts |-> n, lease |-> NoWorker, aged |-> FALSE]

ASSUME NoJobAssumption == NoJob \notin Job

VARIABLES
  ready, processing, delayed, dead,   \* the Client's slices
  pc, job,    \* each worker's next step and the job it got from Dequeue
  enqueued,   \* history: jobs a producer has enqueued
  handled,    \* history: jobs whose handler has returned without an error
  expiries    \* leases that outlived the timeout so far

slices == <<ready, processing, delayed, dead>>
vars == <<slices, pc, job, enqueued, handled, expiries>>

Init ==
  /\ ready = <<>> /\ processing = <<>> /\ delayed = <<>> /\ dead = <<>>
  /\ pc = [w \in Workers |-> "dequeue"]
  /\ job = [w \in Workers |-> NoJob]
  /\ enqueued = {} /\ handled = {} /\ expiries = 0

(* The entries of s at the positions in I, in order; the first n aged positions. *)
At(s, I) == [k \in 1..Cardinality(I) |-> s[SetToSortSeq(I, <)[k]]]
FirstAged(s, n) ==
  {i \in DOMAIN s : s[i].aged /\ Cardinality({k \in 1..i : s[k].aged}) <= n}

Cleared(s) == [k \in DOMAIN s |-> NewJob(s[k].id, s[k].attempts)]
-----------------------------------------------------------------------------
(* Enqueue appends the job with LeasedAt cleared. *)
Enqueue(j) ==
  /\ j \notin enqueued
  /\ enqueued' = enqueued \cup {j}
  /\ ready' = Append(ready, NewJob(j, 0))
  /\ UNCHANGED <<processing, delayed, dead, pc, job, handled, expiries>>

(* ScheduleSync: EnqueueAfter of a new job. *)
EnqueueLater(j) ==
  /\ j \notin enqueued
  /\ enqueued' = enqueued \cup {j}
  /\ delayed' = Append(delayed, NewJob(j, 0))
  /\ UNCHANGED <<ready, processing, dead, pc, job, handled, expiries>>

(* promoteDueLocked: the first Limit due jobs go to the end of the ready slice. *)
Promoted == ready \o Cleared(At(delayed, FirstAged(delayed, Limit)))
Undue == At(delayed, DOMAIN delayed \ FirstAged(delayed, Limit))

PromoteDue ==
  /\ FirstAged(delayed, Limit) # {}
  /\ ready' = Promoted
  /\ delayed' = Undue
  /\ UNCHANGED <<processing, dead, pc, job, enqueued, handled, expiries>>

(* ReclaimStale: the first Limit stale leases go to the end of the ready slice
   with LeasedAt cleared. *)
ReclaimStale ==
  LET stale == FirstAged(processing, Limit) IN
  /\ stale # {}
  /\ ready' = ready \o Cleared(At(processing, stale))
  /\ processing' = At(processing, DOMAIN processing \ stale)
  /\ UNCHANGED <<delayed, dead, pc, job, enqueued, handled, expiries>>

(* Mutant: the head of the ready slice is not removed. *)
DequeueKeepsHead(w) ==
  /\ pc[w] = "dequeue"
  /\ Promoted # <<>>
  /\ LET got == [Head(Promoted) EXCEPT !.lease = w] IN
       /\ processing' = Append(processing, got)
       /\ job' = [job EXCEPT ![w] = got]
  /\ ready' = Promoted
  /\ delayed' = Undue
  /\ pc' = [pc EXCEPT ![w] = "handle"]
  /\ UNCHANGED <<dead, enqueued, handled, expiries>>

(* Mutant: the newest job is taken. *)
DequeueNewest(w) ==
  /\ pc[w] = "dequeue"
  /\ Promoted # <<>>
  /\ LET got == [Last(Promoted) EXCEPT !.lease = w] IN
       /\ processing' = Append(processing, got)
       /\ job' = [job EXCEPT ![w] = got]
  /\ ready' = Front(Promoted)
  /\ delayed' = Undue
  /\ pc' = [pc EXCEPT ![w] = "handle"]
  /\ UNCHANGED <<dead, enqueued, handled, expiries>>

(* Dequeue promotes what is due and takes the oldest ready job; it polls until
   there is one. *)
Dequeue(w) ==
  /\ pc[w] = "dequeue"
  /\ Promoted # <<>>
  /\ LET got == [Head(Promoted) EXCEPT !.lease = w] IN
       /\ processing' = Append(processing, got)
       /\ job' = [job EXCEPT ![w] = got]
  /\ ready' = Tail(Promoted)
  /\ delayed' = Undue
  /\ pc' = [pc EXCEPT ![w] = "handle"]
  /\ UNCHANGED <<dead, enqueued, handled, expiries>>

HandlerSucceeds(w) ==
  /\ pc[w] = "handle"
  /\ handled' = handled \cup {job[w].id}
  /\ pc' = [pc EXCEPT ![w] = "ack"]
  /\ UNCHANGED <<slices, job, enqueued, expiries>>

(* Mutant: the failed job is only acknowledged. *)
RetryJobAcksOnly(w) ==
  /\ pc[w] = "handle"
  /\ pc' = [pc EXCEPT ![w] = "moved"]
  /\ UNCHANGED <<slices, job, enqueued, handled, expiries>>

(* The handler fails, and retryJob files the job again: as a dead letter after
   the last attempt, else with EnqueueAfter. *)
RetryJob(w) ==
  /\ pc[w] = "handle"
  /\ LET again == NewJob(job[w].id, job[w].attempts + 1) IN
       IF again.attempts >= MaxAttempts
       THEN dead' = Cons(again, dead) /\ UNCHANGED delayed
       ELSE delayed' = Append(delayed, again) /\ UNCHANGED dead
  /\ pc' = [pc EXCEPT ![w] = "moved"]
  /\ UNCHANGED <<ready, processing, job, enqueued, handled, expiries>>

(* removeJob: the first entry with the job's ID and LeasedAt, else the first
   with its ID. *)
removeJob(items, jb) ==
  LET sameId == {i \in DOMAIN items : items[i].id = jb.id}
      exact == {i \in sameId : items[i].lease = jb.lease}
      found == IF exact # {} THEN exact ELSE sameId
  IN IF found = {} THEN items ELSE RemoveAt(items, Min(found))

Ack(w) ==
  /\ pc[w] \in {"ack", "moved"}
  /\ processing' = removeJob(processing, job[w])
  /\ job' = [job EXCEPT ![w] = NoJob]
  /\ pc' = [pc EXCEPT ![w] = "dequeue"]
  /\ UNCHANGED <<ready, delayed, dead, enqueued, handled, expiries>>

(* ReplayDeadLetter, for a request about dead letter i. *)
ReplayDeadLetter(i) ==
  /\ i \in DOMAIN dead
  /\ dead' = RemoveAt(dead, i)
  /\ ready' = Append(ready, NewJob(dead[i].id, 0))
  /\ UNCHANGED <<processing, delayed, pc, job, enqueued, handled, expiries>>

(* Time passes: a delayed job falls due; the oldest lease that has not outlives
   the reclaim timeout. *)
DelayElapses(i) ==
  /\ i \in DOMAIN delayed /\ ~delayed[i].aged
  /\ delayed' = [delayed EXCEPT ![i].aged = TRUE]
  /\ UNCHANGED <<ready, processing, dead, pc, job, enqueued, handled, expiries>>

LeaseExpires(i) ==
  /\ i \in DOMAIN processing /\ ~processing[i].aged
  /\ \A k \in 1..(i - 1) : processing[k].aged
  /\ expiries < MaxExpiries
  /\ expiries' = expiries + 1
  /\ processing' = [processing EXCEPT ![i].aged = TRUE]
  /\ UNCHANGED <<ready, delayed, dead, pc, job, enqueued, handled>>

WorkerStep(w) == Dequeue(w) \/ HandlerSucceeds(w) \/ RetryJob(w) \/ Ack(w)

Next ==
  \/ \E j \in Jobs : Enqueue(j) \/ EnqueueLater(j)
  \/ PromoteDue \/ ReclaimStale
  \/ \E w \in Workers : WorkerStep(w)
  \/ \E i \in DOMAIN dead : ReplayDeadLetter(i)
  \/ \E i \in DOMAIN delayed : DelayElapses(i)
  \/ \E i \in DOMAIN processing : LeaseExpires(i)

Spec == Init /\ [][Next]_vars

(* The consumer and the reconciler keep running, handlers return, delays end. *)
Fairness ==
  /\ \A w \in Workers : WF_vars(WorkerStep(w))
  /\ WF_vars(PromoteDue) /\ WF_vars(ReclaimStale)
  /\ \A j \in Jobs : WF_vars(\E i \in DOMAIN delayed : delayed[i].id = j /\ DelayElapses(i))

FairSpec == Spec /\ Fairness
-----------------------------------------------------------------------------
(* The shapes of the slices, of the workers' local state and of the history. *)
TypeInvariant ==
  /\ ready \in Seq(Job) /\ processing \in Seq(Job)
  /\ delayed \in Seq(Job) /\ dead \in Seq(Job)
  /\ pc \in [Workers -> {"dequeue", "handle", "ack", "moved"}]
  /\ job \in [Workers -> Job \cup {NoJob}]
  /\ enqueued \subseteq Jobs /\ handled \subseteq Jobs
  /\ expiries \in 0..MaxExpiries

Kept == {s.id : s \in ToSet(ready \o processing \o delayed \o dead)}

(* The in-memory queue keeps the promise of a queue that loses nothing: each
   step under the mutex is a step of JobQueue, so a job's last copy goes away
   only once the job is handled, though an expired lease may have been
   reclaimed and the job be running a second time. *)
Contract == INSTANCE JobQueue WITH
  Lossy <- FALSE, accepted <- enqueued, kept <- Kept, handled <- handled, lost <- {}
KeepsContract == Contract!Spec

(* Stats adds up: as long as no lease has outlived the timeout, the four counts
   together are the jobs not handled yet, and for each worker about to
   acknowledge one copy more. *)
StatsAddUp ==
  expiries = 0 =>
    Len(ready) + Len(processing) + Len(delayed) + Len(dead)
      = Cardinality(enqueued \ handled)
          + Cardinality({w \in Workers : pc[w] \in {"ack", "moved"}})

(* Every job is settled in the end: the ready slice is first in, first out, so
   however often other jobs are replayed, an enqueued job is eventually handled
   or dead-lettered. *)
EventuallySettled ==
  \A j \in Jobs : (j \in enqueued) ~> (j \in handled \cup {d.id : d \in ToSet(dead)})
=============================================================================
