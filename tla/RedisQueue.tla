----------------------------- MODULE RedisQueue -----------------------------
(***************************************************************************)
(* The Redis job queue client (internal/queue/redis/client.go).            *)
(*                                                                         *)
(* Redis keeps three lists and a sorted set: the ready list, <q>:processing*)
(* <q>:dead and <q>:delayed.  Redis runs one command at a time; a client   *)
(* operation is several commands, so every command is a step of its own    *)
(* and the other processes run between them.  A command may fail before    *)
(* Redis runs it ("unsent") or after (its reply is lost, "unread"); the    *)
(* client sees the same error in both cases.                               *)
(***************************************************************************)
EXTENDS Naturals, SequencesExt

CONSTANTS
  Jobs,        \* job ids
  Workers,     \* worker processes (cmd/worker), each with one consumer loop
  Reconcilers, \* goroutines of RunReconciler, which do maintenance only
  Admins,      \* API requests that replay dead letters
  None,        \* no payload
  ScanLimit,   \* how many entries of <q>:processing one ReclaimStale reads
  MaxStamp,    \* bound: distinct payloads of one job that exist at a time
  MaxFaults    \* bound: faults and overlong pauses in a behaviour

Procs == Workers \cup Reconcilers \cup Admins

ASSUME QueueAssumption ==
  /\ ScanLimit \in Nat /\ MaxStamp \in Nat /\ MaxFaults \in Nat
  /\ Workers \cap Reconcilers = {}
  /\ (Workers \cup Reconcilers) \cap Admins = {}

(***************************************************************************)
(* A payload is the JSON text of a job.  Lists are searched for the exact  *)
(* text, so what counts is when two texts are equal: `stamp' stands for    *)
(* the timestamps AvailableAt and LeasedAt (and for a dead letter's UUID), *)
(* renewed whenever the client rewrites them.                              *)
(***************************************************************************)
Stamps == 1..MaxStamp
Payload == [id : Jobs, attempts : Nat, stamp : Stamps, leased : BOOLEAN]

ASSUME NoneAssumption == None \notin Payload

VARIABLES
  ready, processing, dead,  \* the lists, index 1 is the left end
  delayed,                  \* the sorted set; its scores are in `aged'
  aged,      \* payloads whose AvailableAt has come (delayed) or whose
             \* LeasedAt is before the reclaim cutoff (processing)
  pc,        \* the command each process runs next
  orig,      \* payload a process read and is moving
  lease,     \* leased payload a worker handles and will acknowledge
  todo,      \* payloads of the last range read still to be moved
  dropped,   \* history: jobs a process let go of between two commands
  faults     \* faults and overlong pauses so far

lists == <<ready, processing, dead, delayed>>
local == <<pc, orig, lease, todo>>
queueVars == <<lists, aged, local, dropped, faults>>

(* Every payload that a list or a process holds. *)
Existing ==
  ToSet(ready) \cup ToSet(processing) \cup ToSet(dead) \cup delayed
    \cup UNION {todo[p] \cup ({orig[p], lease[p]} \ {None}) : p \in Procs}

(* The text of job j rewritten now: its timestamp makes it unlike every text
   that exists (of those, the one with the smallest stamp). *)
NewText(j, n, l) ==
  {p \in [id : {j}, attempts : {n}, stamp : Stamps, leased : {l}] :
     /\ p \notin Existing
     /\ \A s \in 1..(p.stamp - 1) : [p EXCEPT !.stamp = s] \in Existing}

Outcomes == {"ok"} \cup (IF faults < MaxFaults THEN {"unsent", "unread"} ELSE {})
Executed(o) == o # "unsent"
Charge(o) == faults' = IF o = "ok" THEN faults ELSE faults + 1

Goto(p, l) == pc' = [pc EXCEPT ![p] = l]
Forget(p) ==
  /\ orig' = [orig EXCEPT ![p] = None]
  /\ lease' = [lease EXCEPT ![p] = None]
  /\ todo' = [todo EXCEPT ![p] = {}]

QueueInit ==
  /\ ready = <<>> /\ processing = <<>> /\ dead = <<>>
  /\ delayed = {} /\ aged = {}
  /\ pc = [p \in Procs |-> "idle"]
  /\ orig = [p \in Procs |-> None]
  /\ lease = [p \in Procs |-> None]
  /\ todo = [p \in Procs |-> {}]
  /\ dropped = {}
  /\ faults = 0
-----------------------------------------------------------------------------
(* Enqueue: RPUSH of a job whose LeasedAt is cleared. *)
Enqueue(j, n) ==
  \E p \in NewText(j, n, FALSE) : ready' = Append(ready, p)

(***************************************************************************)
(* Dequeue: BRPOPLPUSH takes the right end of the ready list (the end      *)
(* Enqueue pushes to) to the left end of processing; then LPUSH adds the   *)
(* text with LeasedAt set and LREM removes the text that was popped.       *)
(***************************************************************************)
DequeuePop(w) ==
  /\ pc[w] = "dequeue"
  /\ ready # <<>>
  /\ \E o \in Outcomes :
       /\ Charge(o)
       /\ IF Executed(o)
          THEN /\ processing' = Cons(Last(ready), processing)
               /\ ready' = Front(ready)
          ELSE UNCHANGED <<ready, processing>>
       /\ \/ /\ o = "ok"
             /\ orig' = [orig EXCEPT ![w] = Last(ready)]
             /\ Goto(w, "lease_push")
          \/ /\ o # "ok"     \* a timeout is "nothing to do", another error
             /\ \E l \in {"idle", "down"} : Goto(w, l)   \* ends the worker
             /\ UNCHANGED orig
  /\ UNCHANGED <<dead, delayed, aged, lease, todo, dropped>>

DequeueEmpty(w) ==
  /\ pc[w] = "dequeue"
  /\ ready = <<>>
  /\ Goto(w, "idle")
  /\ UNCHANGED <<lists, aged, orig, lease, todo, dropped, faults>>

DequeueLeasePush(w) ==
  /\ pc[w] = "lease_push"
  /\ \E leased \in NewText(orig[w].id, orig[w].attempts, TRUE), o \in Outcomes :
       /\ Charge(o)
       /\ processing' = IF Executed(o) THEN Cons(leased, processing) ELSE processing
       /\ \/ /\ o = "ok"
             /\ lease' = [lease EXCEPT ![w] = leased]
             /\ Goto(w, "lease_rem")
             /\ UNCHANGED <<orig, todo>>
          \/ /\ o # "ok"
             /\ Goto(w, "down")
             /\ Forget(w)
  /\ UNCHANGED <<ready, dead, delayed, aged, dropped>>

(* The number LREM reports is not looked at. *)
DequeueLeaseRem(w) ==
  /\ pc[w] = "lease_rem"
  /\ \E o \in Outcomes :
       /\ Charge(o)
       /\ processing' = IF Executed(o) THEN RemoveFirst(processing, orig[w]) ELSE processing
       /\ \/ /\ o = "ok"
             /\ orig' = [orig EXCEPT ![w] = None]
             /\ Goto(w, "handle")
             /\ UNCHANGED <<lease, todo>>
          \/ /\ o # "ok"
             /\ Goto(w, "down")
             /\ Forget(w)
  /\ UNCHANGED <<ready, dead, delayed, aged, dropped>>

(* Mutant: the job's LeasedAt is cleared before it is acknowledged. *)
AckClearedText(w) ==
  /\ pc[w] = "ack"
  /\ \E o \in Outcomes :
       /\ Charge(o)
       /\ processing' = IF Executed(o)
                        THEN RemoveFirst(processing, [lease[w] EXCEPT !.leased = FALSE])
                        ELSE processing
  /\ lease' = [lease EXCEPT ![w] = None]
  /\ Goto(w, "idle")
  /\ UNCHANGED <<ready, dead, delayed, aged, orig, todo, dropped>>

(* Ack: LREM of the exact leased text; its error is only logged. *)
Ack(w) ==
  /\ pc[w] = "ack"
  /\ \E o \in Outcomes :
       /\ Charge(o)
       /\ processing' = IF Executed(o) THEN RemoveFirst(processing, lease[w]) ELSE processing
       /\ aged' = IF Executed(o) THEN aged \ {lease[w]} ELSE aged
  /\ lease' = [lease EXCEPT ![w] = None]
  /\ Goto(w, "idle")
  /\ UNCHANGED <<ready, dead, delayed, orig, todo, dropped>>
-----------------------------------------------------------------------------
(* Mutant: the caller goes on after an error of ZADD as well. *)
EnqueueAfterIgnoringError(w, n, next) ==
  \E p \in NewText(lease[w].id, n, FALSE), o \in Outcomes :
    /\ Charge(o)
    /\ delayed' = IF Executed(o) THEN delayed \cup {p} ELSE delayed
    /\ Goto(w, next)
    /\ UNCHANGED <<ready, processing, dead, aged, orig, lease, todo, dropped>>

(* EnqueueAfter: ZADD of the job with its next attempt and a later
   AvailableAt.  The caller goes on to `next' only without an error. *)
EnqueueAfter(w, n, next) ==
  \E p \in NewText(lease[w].id, n, FALSE), o \in Outcomes :
    /\ Charge(o)
    /\ delayed' = IF Executed(o) THEN delayed \cup {p} ELSE delayed
    /\ \/ o = "ok" /\ Goto(w, next) /\ UNCHANGED lease
       \/ o # "ok" /\ Goto(w, "idle") /\ lease' = [lease EXCEPT ![w] = None]
    /\ UNCHANGED <<ready, processing, dead, aged, orig, todo, dropped>>

(***************************************************************************)
(* PromoteDue: ZRANGEBYSCORE reads the due texts; each one that ZREM still *)
(* finds is pushed to the ready list.  An error ends the call.             *)
(***************************************************************************)
PromoteDueRead(w) ==
  /\ pc[w] = "idle"
  /\ \E o \in Outcomes :
       /\ Charge(o)
       /\ todo' = [todo EXCEPT ![w] = IF o = "ok" THEN delayed \cap aged ELSE {}]
  /\ Goto(w, "promote")
  /\ UNCHANGED <<lists, aged, orig, lease, dropped>>

(* Mutant: the number ZREM reports is not looked at. *)
PromoteDueRemUncounted(w) ==
  /\ pc[w] = "promote"
  /\ \E p \in todo[w] :
       /\ delayed' = delayed \ {p}
       /\ aged' = aged \ {p}
       /\ todo' = [todo EXCEPT ![w] = @ \ {p}]
       /\ orig' = [orig EXCEPT ![w] = p]
  /\ Goto(w, "promote_push")
  /\ UNCHANGED <<ready, processing, dead, lease, dropped, faults>>

PromoteDueRem(w) ==
  /\ pc[w] = "promote"
  /\ \E p \in todo[w], o \in Outcomes :
       /\ Charge(o)
       /\ delayed' = IF Executed(o) THEN delayed \ {p} ELSE delayed
       /\ aged' = IF Executed(o) THEN aged \ {p} ELSE aged
       /\ \/ /\ o = "ok"
             /\ todo' = [todo EXCEPT ![w] = @ \ {p}]
             /\ IF p \in delayed
                THEN orig' = [orig EXCEPT ![w] = p] /\ Goto(w, "promote_push")
                ELSE UNCHANGED <<orig, pc>>
             /\ UNCHANGED dropped
          \/ /\ o # "ok"
             /\ todo' = [todo EXCEPT ![w] = {}]
             /\ dropped' = IF Executed(o) /\ p \in delayed
                           THEN dropped \cup {p.id} ELSE dropped
             /\ UNCHANGED <<orig, pc>>
  /\ UNCHANGED <<ready, processing, dead, lease>>

PromoteDuePush(w) ==
  /\ pc[w] = "promote_push"
  /\ \E o \in Outcomes :
       /\ Charge(o)
       /\ ready' = IF Executed(o) THEN Append(ready, orig[w]) ELSE ready
       /\ dropped' = IF Executed(o) THEN dropped ELSE dropped \cup {orig[w].id}
       /\ todo' = IF o = "ok" THEN todo ELSE [todo EXCEPT ![w] = {}]
  /\ orig' = [orig EXCEPT ![w] = None]
  /\ Goto(w, "promote")
  /\ UNCHANGED <<processing, dead, delayed, aged, lease>>

(***************************************************************************)
(* ReclaimStale: LRANGE reads the newest ScanLimit entries of processing.  *)
(* A text without LeasedAt counts as stale, one with LeasedAt when that is *)
(* before the cutoff.  Each stale text that LREM still finds is pushed to  *)
(* the ready list with LeasedAt cleared and its attempts unchanged.        *)
(***************************************************************************)
Held(p) == \E w \in Workers : p \in {orig[w], lease[w]}

(* Mutants: every lease is taken; only leases are taken. *)
StaleInWithoutCutoff(list) == ToSet(list)
StaleInLeasedOnly(list) == {p \in ToSet(list) : p.leased /\ p \in aged}

StaleIn(list) == {p \in ToSet(list) : ~p.leased \/ p \in aged}

ReclaimStaleRead(w) ==
  /\ pc[w] = "promote" /\ todo[w] = {}
  /\ LET stale == StaleIn(SubSeq(processing, 1, Min({ScanLimit, Len(processing)})))
         taken == Cardinality({p \in stale : ~p.leased /\ Held(p)})
     IN \/ /\ faults + taken <= MaxFaults  \* bound: scans that meet a Dequeue
           /\ faults' = faults + taken     \* of a running worker half-way
           /\ todo' = [todo EXCEPT ![w] = stale]
           /\ Goto(w, IF stale = {} THEN "dequeue" ELSE "reclaim")
        \/ /\ faults < MaxFaults           \* LRANGE failed
           /\ faults' = faults + 1
           /\ Goto(w, "dequeue")
           /\ UNCHANGED todo
  /\ UNCHANGED <<lists, aged, orig, lease, dropped>>

ReclaimStaleRem(w) ==
  /\ pc[w] = "reclaim"
  /\ \E p \in todo[w], o \in Outcomes :
       LET found == p \in ToSet(processing)
           rest == IF o = "ok" THEN todo[w] \ {p} ELSE {}
       IN
       /\ Charge(o)
       /\ processing' = IF Executed(o) THEN RemoveFirst(processing, p) ELSE processing
       /\ aged' = IF Executed(o) THEN aged \ {p} ELSE aged
       /\ todo' = [todo EXCEPT ![w] = rest]
       /\ dropped' = IF o = "unread" /\ found THEN dropped \cup {p.id} ELSE dropped
       /\ IF o = "ok" /\ found
          THEN orig' = [orig EXCEPT ![w] = p] /\ Goto(w, "reclaim_push")
          ELSE UNCHANGED orig /\ Goto(w, IF rest = {} THEN "dequeue" ELSE "reclaim")
  /\ UNCHANGED <<ready, dead, delayed, lease>>

ReclaimStalePush(w) ==
  /\ pc[w] = "reclaim_push"
  /\ \E o \in Outcomes :
       /\ Charge(o)
       /\ IF Executed(o)
          THEN Enqueue(orig[w].id, orig[w].attempts) /\ UNCHANGED dropped
          ELSE UNCHANGED ready /\ dropped' = dropped \cup {orig[w].id}
       /\ LET rest == IF o = "ok" THEN todo[w] ELSE {} IN
            /\ todo' = [todo EXCEPT ![w] = rest]
            /\ Goto(w, IF rest = {} THEN "dequeue" ELSE "reclaim")
  /\ orig' = [orig EXCEPT ![w] = None]
  /\ UNCHANGED <<processing, dead, delayed, aged, lease>>
-----------------------------------------------------------------------------
(* Mutant: the caller acknowledges although the dead letter was not written. *)
DeadLetterIgnoringError(w, n, failed) ==
  \E item \in NewText(lease[w].id, n, FALSE), o \in Outcomes :
    /\ Charge(o)
    /\ dead' = IF Executed(o) THEN Cons(item, dead) ELSE dead
    /\ Goto(w, "ack")
    /\ UNCHANGED <<ready, processing, delayed, aged, orig, lease, todo, dropped>>

(* DeadLetter: LPUSH of an item that embeds the job and gets a new UUID.
   `failed' is where the caller goes after an error. *)
DeadLetter(w, n, failed) ==
  \E item \in NewText(lease[w].id, n, FALSE), o \in Outcomes :
    /\ Charge(o)
    /\ dead' = IF Executed(o) THEN Cons(item, dead) ELSE dead
    /\ \/ o = "ok" /\ Goto(w, "ack") /\ UNCHANGED lease
       \/ o # "ok" /\ Goto(w, failed)
          /\ lease' = IF failed = "ack" THEN lease ELSE [lease EXCEPT ![w] = None]
    /\ dropped' = IF ~Executed(o) /\ failed = "ack" THEN dropped \cup {lease[w].id} ELSE dropped
    /\ UNCHANGED <<ready, processing, delayed, aged, orig, todo>>

(***************************************************************************)
(* ReplayDeadLetter: LRANGE finds the item, LREM removes it (the number it *)
(* reports is not looked at) and Enqueue pushes its job with Attempts = 0. *)
(***************************************************************************)
ReplayDeadLetterRead(a) ==
  /\ pc[a] = "idle"
  /\ \E item \in ToSet(dead) :
       LET taken == IF \E b \in Admins : orig[b] = item THEN 1 ELSE 0 IN
       /\ faults + taken <= MaxFaults   \* bound: overlapping replays of one item
       /\ faults' = faults + taken
       /\ orig' = [orig EXCEPT ![a] = item]
  /\ Goto(a, "replay_rem")
  /\ UNCHANGED <<lists, aged, lease, todo, dropped>>

ReplayDeadLetterRem(a) ==
  /\ pc[a] = "replay_rem"
  /\ \E o \in Outcomes :
       /\ Charge(o)
       /\ dead' = IF Executed(o) THEN RemoveFirst(dead, orig[a]) ELSE dead
       /\ \/ o = "ok" /\ Goto(a, "replay_push") /\ UNCHANGED <<orig, dropped>>
          \/ /\ o # "ok"
             /\ Goto(a, "idle")
             /\ orig' = [orig EXCEPT ![a] = None]
             /\ dropped' = IF Executed(o) THEN dropped \cup {orig[a].id} ELSE dropped
  /\ UNCHANGED <<ready, processing, delayed, aged, lease, todo>>

(* Mutant: the replayed job keeps its attempts. *)
ReplayDeadLetterPushSpent(a) ==
  /\ pc[a] = "replay_push"
  /\ Enqueue(orig[a].id, orig[a].attempts)
  /\ Goto(a, "idle")
  /\ orig' = [orig EXCEPT ![a] = None]
  /\ UNCHANGED <<processing, dead, delayed, aged, lease, todo, dropped, faults>>

ReplayDeadLetterPush(a) ==
  /\ pc[a] = "replay_push"
  /\ \E o \in Outcomes :
       /\ Charge(o)
       /\ IF Executed(o)
          THEN Enqueue(orig[a].id, 0) /\ UNCHANGED dropped
          ELSE UNCHANGED ready /\ dropped' = dropped \cup {orig[a].id}
  /\ Goto(a, "idle")
  /\ orig' = [orig EXCEPT ![a] = None]
  /\ UNCHANGED <<processing, dead, delayed, aged, lease, todo>>
-----------------------------------------------------------------------------
(* A process stops between two commands and is started again later. *)
Moving == {"promote_push", "reclaim_push", "replay_push"}

Crash(p) ==
  /\ pc[p] # "down"
  /\ faults < MaxFaults
  /\ faults' = faults + 1
  /\ dropped' = IF pc[p] \in Moving THEN dropped \cup {orig[p].id} ELSE dropped
  /\ Goto(p, "down")
  /\ Forget(p)
  /\ UNCHANGED <<lists, aged>>

Restart(p) ==
  /\ pc[p] = "down"
  /\ Goto(p, "idle")
  /\ UNCHANGED <<lists, aged, orig, lease, todo, dropped, faults>>

(* Time passes: a delayed job falls due, or a lease outlives the reclaim
   timeout.  While its worker still runs, the latter is charged as a pause. *)
DelayElapses ==
  \E p \in delayed \ aged :
    /\ aged' = aged \cup {p}
    /\ UNCHANGED <<lists, local, dropped, faults>>

LeaseExpires ==
  \E p \in {q \in ToSet(processing) : q.leased} \ aged :
    /\ aged' = aged \cup {p}
    /\ faults' = IF Held(p) THEN faults + 1 ELSE faults
    /\ faults' <= MaxFaults
    /\ UNCHANGED <<lists, local, dropped>>
=============================================================================
