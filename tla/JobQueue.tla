------------------------------ MODULE JobQueue ------------------------------
(***************************************************************************)
(* What a job queue promises to the producers behind the interfaces        *)
(* JobQueue, JobAcker, JobScheduler, JobLeaseReclaimer and DeadLetterQueue *)
(* (internal/domain/types.go): a job it accepted stays in it, waiting,     *)
(* leased, delayed or as a dead letter, until a handler has succeeded.     *)
(* Delivery is at least once: a job may come back after it was handled.    *)
(* A lossy queue may also lose a job; which steps do is for the detailed   *)
(* specification to say.                                                   *)
(***************************************************************************)
CONSTANTS Jobs, Lossy

VARIABLES
  accepted,  \* jobs a producer has enqueued
  kept,      \* jobs of which the queue has a copy
  handled,   \* jobs whose handler has succeeded
  lost       \* jobs of which a copy was lost

vars == <<accepted, kept, handled, lost>>

Init ==
  /\ accepted = {} /\ kept = {} /\ handled = {} /\ lost = {}

(* Enqueue or EnqueueAfter of a new job. *)
Accept(j) ==
  /\ j \notin accepted
  /\ accepted' = accepted \cup {j}
  /\ kept' = kept \cup {j}
  /\ UNCHANGED <<handled, lost>>

(* A worker that got the job from Dequeue has handled it. *)
Handle(j) ==
  /\ j \in accepted
  /\ handled' = handled \cup {j}
  /\ UNCHANGED <<accepted, kept, lost>>

(* Ack removes the last copy. *)
Release(j) ==
  /\ j \in handled \cup lost
  /\ kept' = kept \ {j}
  /\ UNCHANGED <<accepted, handled, lost>>

(* A copy that a worker or a replay still held comes back. *)
Return(j) ==
  /\ j \in handled \cup lost
  /\ kept' = kept \cup {j}
  /\ UNCHANGED <<accepted, handled, lost>>

Lose(j) ==
  /\ Lossy
  /\ j \in accepted
  /\ lost' = lost \cup {j}
  /\ kept' \in {kept, kept \ {j}}
  /\ UNCHANGED <<accepted, handled>>

Next ==
  \E j \in Jobs : Accept(j) \/ Handle(j) \/ Release(j) \/ Return(j) \/ Lose(j)

Spec == Init /\ [][Next]_vars
=============================================================================
