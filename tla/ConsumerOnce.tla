----------------------------- MODULE ConsumerOnce ---------------------------
(***************************************************************************)
(* While nothing crashes, no reply is lost and no lease runs out under its *)
(* worker, a job that is not yet handled has one copy, and a handled one   *)
(* has none.                                                               *)
(***************************************************************************)
EXTENDS ConsumerTexts

(* The prover of the leaves that do not name another. *)
USE Zenon

Queued == Waiting \cup ToSet(dead)

(* A process that took a job from a queue and has neither handled it nor put
   it into another queue, and that job. *)
Bearing == {"lease_push", "replay_push"}
Handling == {"lease_rem", "handle", "retry"}
Busy(p) == pc[p] \in Bearing \cup Handling
Job(p) == IF pc[p] \in Bearing THEN orig[p].id ELSE lease[p].id

(* Every copy of a job, in a queue or with a process, is the only one. *)
OneCopy ==
  /\ handled \subseteq enqueued
  /\ \A x, y \in Queued : x.id = y.id => x = y
  /\ \A x \in Queued : x.id \in enqueued \ handled
  /\ \A p \in Procs : Busy(p) => /\ Job(p) \in enqueued \ handled
                                 /\ \A x \in Queued : x.id # Job(p)
  /\ \A p, q \in Procs : p # q /\ Busy(p) /\ Busy(q) => Job(p) # Job(q)

(* Nothing is stale: a text in processing is with a worker, so that a
   ReclaimStale finds none to take, and no two replays read the same item. *)
HasText(w, x) ==
  \/ pc[w] \in Dequeuing /\ x = orig[w]
  \/ pc[w] \in Working /\ x = lease[w]
Undisturbed ==
  /\ aged \subseteq delayed
  /\ \A x \in ToSet(processing) : \E w \in Workers : HasText(w, x)
  /\ \A p \in Procs : pc[p] \notin {"reclaim", "reclaim_push"}
  /\ \A a \in Admins : pc[a] = "replay_rem" => orig[a] \in ToSet(dead)
  /\ \A a, b \in Admins :
       a # b /\ pc[a] = "replay_rem" /\ pc[b] = "replay_rem" => orig[a] # orig[b]

Once == OneCopy /\ Undisturbed
OnceInv == faults = 0 => Once
-----------------------------------------------------------------------------
(* A step of w leaves the others with what they had. *)
LEMMA OthersBusy ==
  ASSUME NEW w, OnlyAt(w), NEW p \in Procs, p # w
  PROVE  (Busy(p)' <=> Busy(p)) /\ Job(p)' = Job(p)
<1>1. pc'[p] = pc[p] /\ orig'[p] = orig[p] /\ lease'[p] = lease[p]
  BY DEF OnlyAt
<1> QED BY <1>1 DEF Busy, Job

(* How copies move.  None does: what is queued was queued, and w has its job
   still, or has none. *)
LEMMA NoneMoved ==
  ASSUME OneCopy, NEW w, OnlyAt(w), Queued' \subseteq Queued, UNCHANGED history,
         w \in Procs /\ Busy(w)' => Busy(w) /\ Job(w)' = Job(w)
  PROVE  OneCopy'
<1>1. ASSUME NEW p \in Procs, Busy(p)' PROVE Busy(p) /\ Job(p)' = Job(p)
  BY <1>1, OthersBusy
<1>2. \A p \in Procs : Busy(p)' => /\ Job(p)' \in enqueued \ handled
                                   /\ \A x \in Queued' : x.id # Job(p)'
  BY <1>1 DEF OneCopy
<1>3. \A p, q \in Procs : p # q /\ Busy(p)' /\ Busy(q)' => Job(p)' # Job(q)'
  BY <1>1 DEF OneCopy
<1> QED BY <1>2, <1>3 DEF OneCopy, history

(* w takes a copy out of its queue. *)
LEMMA CopyTaken ==
  ASSUME OneCopy, NEW w, OnlyAt(w), NEW y \in Queued, Queued' \subseteq Queued \ {y},
         UNCHANGED history, Job(w)' = y.id
  PROVE  OneCopy'
<1>1. ASSUME NEW p \in Procs, Busy(p)', p # w PROVE Busy(p) /\ Job(p)' = Job(p)
  BY <1>1, OthersBusy
<1>2. \A x \in Queued' : x \in Queued /\ x.id # y.id
  BY DEF OneCopy
<1>3. ASSUME NEW p \in Procs, Busy(p)'
      PROVE  Job(p)' \in enqueued \ handled /\ \A x \in Queued' : x.id # Job(p)'
  <2>1. CASE p = w
    <3>1. Job(p)' = y.id
      BY <2>1
    <3> QED BY <1>2, <3>1 DEF OneCopy
  <2>2. CASE p # w
    <3>1. Busy(p) /\ Job(p)' = Job(p)
      BY <1>1, <1>3, <2>2
    <3> QED BY <1>2, <3>1 DEF OneCopy
  <2> QED BY <2>1, <2>2
<1>4. ASSUME NEW p \in Procs, NEW q \in Procs, p # q, Busy(p)', Busy(q)'
      PROVE  Job(p)' # Job(q)'
  <2>1. CASE p = w
    BY <1>1, <1>4, <2>1 DEF OneCopy
  <2>2. CASE q = w
    BY <1>1, <1>4, <2>2 DEF OneCopy
  <2>3. CASE p # w /\ q # w
    BY <1>1, <1>4, <2>3 DEF OneCopy
  <2> QED BY <2>1, <2>2, <2>3
<1> QED BY <1>2, <1>3, <1>4 DEF OneCopy, history

(* w puts its job into a queue, under a new text. *)
LEMMA CopyGiven ==
  ASSUME OneCopy, NEW w \in Procs, OnlyAt(w), Busy(w), ~ Busy(w)', UNCHANGED history,
         NEW x, x.id = Job(w), Queued' \subseteq Queued \cup {x}
  PROVE  OneCopy'
<1>1. ASSUME NEW p \in Procs, Busy(p)' PROVE p # w /\ Busy(p) /\ Job(p)' = Job(p)
  BY <1>1, OthersBusy
<1>2. x.id \in enqueued \ handled /\ \A y \in Queued : y.id # x.id
  BY DEF OneCopy
<1>3. /\ \A y, z \in Queued' : y.id = z.id => y = z
      /\ \A y \in Queued' : y.id \in enqueued \ handled
  BY <1>2 DEF OneCopy
<1>4. ASSUME NEW p \in Procs, Busy(p)'
      PROVE  Job(p)' \in enqueued \ handled /\ \A y \in Queued' : y.id # Job(p)'
  <2>1. Busy(p) /\ Job(p)' = Job(p) /\ Job(p) # x.id
    BY <1>1, <1>4 DEF OneCopy
  <2>2. Job(p) \in enqueued \ handled /\ \A y \in Queued : y.id # Job(p)
    BY <2>1 DEF OneCopy
  <2> QED BY <2>1, <2>2
<1>5. \A p, q \in Procs : p # q /\ Busy(p)' /\ Busy(q)' => Job(p)' # Job(q)'
  BY <1>1 DEF OneCopy
<1> QED BY <1>3, <1>4, <1>5 DEF OneCopy, history

(* w has handled its job. *)
LEMMA CopyHandled ==
  ASSUME OneCopy, NEW w \in Procs, OnlyAt(w), Busy(w), ~ Busy(w)', Queued' = Queued,
         handled' = handled \cup {Job(w)}, enqueued' = enqueued
  PROVE  OneCopy'
<1>1. ASSUME NEW p \in Procs, Busy(p)' PROVE p # w /\ Busy(p) /\ Job(p)' = Job(p)
  BY <1>1, OthersBusy
<1>2. Job(w) \in enqueued /\ \A y \in Queued : y.id # Job(w)
  BY DEF OneCopy
<1>3. ASSUME NEW p \in Procs, Busy(p)'
      PROVE  Job(p)' \in enqueued' \ handled' /\ \A y \in Queued' : y.id # Job(p)'
  BY <1>1, <1>3 DEF OneCopy
<1>4. \A p, q \in Procs : p # q /\ Busy(p)' /\ Busy(q)' => Job(p)' # Job(q)'
  BY <1>1 DEF OneCopy
<1>5. handled' \subseteq enqueued' /\ \A y \in Queued' : y.id \in enqueued' \ handled'
  BY <1>2 DEF OneCopy
<1> QED BY <1>3, <1>4, <1>5 DEF OneCopy

(* A producer enqueues a new job. *)
LEMMA CopyCreated ==
  ASSUME OneCopy, UNCHANGED <<pc, orig, lease, handled>>, NEW x, x.id \notin enqueued,
         enqueued' = enqueued \cup {x.id}, Queued' \subseteq Queued \cup {x}
  PROVE  OneCopy'
<1>1. \A p \in Procs : (Busy(p)' <=> Busy(p)) /\ Job(p)' = Job(p)
  BY DEF Busy, Job
<1>2. /\ handled' \subseteq enqueued'
      /\ \A y, z \in Queued' : y.id = z.id => y = z
      /\ \A y \in Queued' : y.id \in enqueued' \ handled'
  BY DEF OneCopy
<1>3. ASSUME NEW p \in Procs, Busy(p)'
      PROVE  Job(p)' \in enqueued' \ handled' /\ \A y \in Queued' : y.id # Job(p)'
  <2>1. Busy(p) /\ Job(p)' = Job(p)
    BY <1>1, <1>3
  <2>2. Job(p) \in enqueued \ handled /\ \A y \in Queued : y.id # Job(p)
    BY <2>1 DEF OneCopy
  <2> QED BY <2>1, <2>2
<1>4. \A p, q \in Procs : p # q /\ Busy(p)' /\ Busy(q)' => Job(p)' # Job(q)'
  BY <1>1 DEF OneCopy
<1> QED BY <1>2, <1>3, <1>4 DEF OneCopy

(* A step of w that adds to processing only what w has and lets go of nothing
   else, and that removes no item another replay has read. *)
LEMMA StaysUndisturbed ==
  ASSUME Undisturbed, NEW w, OnlyAt(w), aged' \subseteq delayed',
         \A x \in ToSet(processing') :
           \/ w \in Workers /\ HasText(w, x)'
           \/ x \in ToSet(processing) /\ (w \in Workers => ~ HasText(w, x)),
         w \in Procs => pc'[w] \notin {"reclaim", "reclaim_push"},
         w \in Admins /\ pc'[w] = "replay_rem" =>
           /\ orig'[w] \in ToSet(dead')
           /\ \A a \in Admins \ {w} : pc[a] = "replay_rem" => orig[a] # orig'[w],
         \A a \in Admins \ {w} : pc[a] = "replay_rem" => orig[a] \in ToSet(dead')
  PROVE  Undisturbed'
<1>0. Workers \subseteq Procs /\ Admins \subseteq Procs
  BY DEF Procs
<1>1. ASSUME NEW x \in ToSet(processing') PROVE \E v \in Workers : HasText(v, x)'
  <2>1. CASE w \in Workers /\ HasText(w, x)'
    BY <2>1
  <2>2. CASE x \in ToSet(processing) /\ (w \in Workers => ~ HasText(w, x))
    <3>1. PICK v \in Workers : HasText(v, x)
      BY <2>2 DEF Undisturbed
    <3>2. v # w /\ v \in Procs
      BY <1>0, <2>2, <3>1
    <3>3. pc'[v] = pc[v] /\ orig'[v] = orig[v] /\ lease'[v] = lease[v]
      BY <3>2 DEF OnlyAt
    <3>4. HasText(v, x)'
      BY <3>1, <3>3 DEF HasText
    <3> QED BY <3>4
  <2> QED BY <2>1, <2>2
<1>2. \A p \in Procs : pc'[p] \notin {"reclaim", "reclaim_push"}
  BY DEF OnlyAt, Undisturbed
<1>3. \A a \in Admins \ {w} : pc'[a] = pc[a] /\ orig'[a] = orig[a]
  BY <1>0 DEF OnlyAt
<1>4. \A a \in Admins : pc'[a] = "replay_rem" => orig'[a] \in ToSet(dead')
  BY <1>3
<1>5. \A a, b \in Admins :
        a # b /\ pc'[a] = "replay_rem" /\ pc'[b] = "replay_rem" => orig'[a] # orig'[b]
  BY <1>3 DEF Undisturbed
<1> QED BY <1>1, <1>2, <1>4, <1>5 DEF Undisturbed

(* The case of a step that leaves processing and the dead letters alone, or
   removes from processing what w had. *)
LEMMA QuietlyUndisturbed ==
  ASSUME Undisturbed, NEW w, OnlyAt(w), aged' \subseteq delayed',
         ToSet(processing') \subseteq ToSet(processing), ToSet(dead) \subseteq ToSet(dead'),
         \A x \in ToSet(processing') : HasText(w, x) => HasText(w, x)',
         pc'[w] \notin {"reclaim", "reclaim_push", "replay_rem"}
  PROVE  Undisturbed'
  BY StaysUndisturbed DEF Undisturbed

(* Nobody's step. *)
LEMMA StillUndisturbed ==
  ASSUME Undisturbed, UNCHANGED <<processing, dead, pc, orig, lease>>, aged' \subseteq delayed'
  PROVE  Undisturbed'
  BY DEF Undisturbed, HasText

(* What is queued after a step of w. *)
LEMMA QueuedAt ==
  ASSUME NEW w, OnlyAt(w), NEW S, ToSet(ready') \cup delayed' \cup ToSet(dead') \subseteq S,
         \A p \in Promoted \ {w} : orig[p] \in S,
         w \in Procs /\ pc'[w] = "promote_push" => orig'[w] \in S
  PROVE  Queued' \subseteq S
<1>1. ASSUME NEW p \in Promoted' PROVE orig'[p] \in S
  <2>1. p \in Procs /\ pc'[p] = "promote_push"
    BY DEF Promoted
  <2>2. CASE p = w
    BY <2>1, <2>2
  <2>3. CASE p # w
    BY <2>1, <2>3 DEF OnlyAt, Promoted
  <2> QED BY <2>2, <2>3
<1> QED BY <1>1 DEF Queued, Waiting

(* A step of w that takes y, which nobody else promotes, out of the queues. *)
LEMMA QueuedWithout ==
  ASSUME NEW w, OnlyAt(w), NEW y, \A p \in Promoted \ {w} : orig[p] # y, pc'[w] # "promote_push",
         ToSet(ready') \cup delayed' \cup ToSet(dead') \subseteq Queued \ {y}
  PROVE  Queued' \subseteq Queued \ {y}
<1> DEFINE S == Queued \ {y}
<1>1. \A p \in Promoted \ {w} : orig[p] \in S
  BY DEF Queued, Waiting
<1>2. ToSet(ready') \cup delayed' \cup ToSet(dead') \subseteq S
  OBVIOUS
<1> HIDE DEF S
<1>3. Queued' \subseteq S
  BY <1>1, <1>2, QueuedAt
<1> QED BY <1>3 DEF S

(* The same, when w promotes nothing and at most N is added. *)
LEMMA QueuedWith ==
  ASSUME NEW w, OnlyAt(w), pc'[w] # "promote_push", NEW N,
         ToSet(ready') \cup delayed' \cup ToSet(dead')
           \subseteq ToSet(ready) \cup delayed \cup ToSet(dead) \cup N
  PROVE  Queued' \subseteq Queued \cup N
<1>1. \A p \in Promoted \ {w} : orig[p] \in Queued \cup N
  BY DEF Queued, Waiting
<1>2. ToSet(ready') \cup delayed' \cup ToSet(dead') \subseteq Queued \cup N
  BY DEF Queued, Waiting
<1> QED BY <1>1, <1>2, QueuedAt

(* A command without a fault. *)
LEMMA NoFault ==
  ASSUME faults \in 0..MaxFaults, NEW o \in Outcomes, Charge(o), faults' = 0
  PROVE  o = "ok" /\ Executed(o) /\ faults = 0
  BY QueueAssumption, SMT DEF Outcomes, Charge, Executed

(* As long as there is no fault, every command keeps one copy of each job. *)
LEMMA OnceStep ==
  ASSUME TypeInvariant, LocalInv, WaitInv, TextInv, OnceInv, [Next]_vars, faults' = 0
  PROVE  Once'
<1> USE DEF Goto, Forget, local, lists
<1>0. /\ Workers \subseteq Procs /\ Reconcilers \subseteq Procs /\ Admins \subseteq Procs
      /\ \A x \in Payload : x.id \in Jobs /\ x.attempts \in Nat
  BY DEF Procs, Payload
<1>t. /\ pc \in [Procs -> Labels] /\ orig \in [Procs -> Payload \cup {None}]
      /\ lease \in [Procs -> Payload \cup {None}] /\ todo \in [Procs -> SUBSET Payload]
      /\ ready \in Seq(Payload) /\ processing \in Seq(Payload) /\ dead \in Seq(Payload)
      /\ faults \in 0..MaxFaults
  BY DEF TypeInvariant
<1>n. faults \in Nat
  BY <1>t, QueueAssumption, SMT
<1>i. faults = 0 => OneCopy /\ Undisturbed /\ aged \subseteq delayed
  BY DEF OnceInv, Once, Undisturbed
<1>p. IsInjective(processing) /\ IsInjective(dead)
  BY DEF TextInv, PlacesInv
<1> USE <1>0, <1>t
<1>new. ASSUME NEW y \in Payload, NEW n \in Nat, NEW l \in BOOLEAN, NEW x \in NewText(y.id, n, l)
        PROVE  x \in Payload /\ x.id = y.id
  BY <1>new, NewTextIsNew, SMT
<1>1. ASSUME NEW j \in Jobs, Produce(j) \/ ProduceLater(j) PROVE Once'
  <2>1. /\ UNCHANGED <<processing, dead, aged, pc, orig, lease, faults, handled>>
        /\ j \notin enqueued /\ enqueued' = enqueued \cup {j} /\ delayed \subseteq delayed'
    BY <1>1 DEF Produce, ProduceLater
  <2>2. PICK x : x.id = j /\ ToSet(ready') \cup delayed' \subseteq ToSet(ready) \cup delayed \cup {x}
    <3>0. 0 \in Nat /\ FALSE \in BOOLEAN
      OBVIOUS
    <3>1. CASE Produce(j)
      <4>1. Enqueue(j, 0) /\ UNCHANGED delayed
        BY <3>1 DEF Produce
      <4> QED BY <3>0, <4>1, EnqueueAppendsNew
    <3>2. CASE ProduceLater(j)
      <4>1. PICK x \in NewText(j, 0, FALSE) : delayed' = delayed \cup {x}
        BY <3>2 DEF ProduceLater
      <4>2. x.id = j
        BY <3>0, <4>1, NewTextIsNew
      <4> QED BY <3>2, <4>1, <4>2 DEF ProduceLater
    <3> QED BY <1>1, <3>1, <3>2
  <2>3. OneCopy /\ Undisturbed /\ aged' \subseteq delayed'
    BY <1>i, <2>1
  <2>4. Queued' \subseteq Queued \cup {x}
    BY <2>1, <2>2 DEF Queued, Waiting, Promoted
  <2>5. OneCopy'
    BY <2>1, <2>2, <2>3, <2>4, CopyCreated
  <2>6. Undisturbed'
    BY <2>1, <2>3, StillUndisturbed
  <2> QED BY <2>5, <2>6 DEF Once
<1>2. ASSUME NEW w \in Procs, NEW l \in {"idle", "dequeue", "promote"}, Goto(w, l), faults = 0,
             pc[w] \notin Dequeuing \cup Working,
             UNCHANGED <<lists, aged, orig, lease, history>>
      PROVE  Once'
  <2>1. /\ OnlyAt(w) /\ pc'[w] \notin {"reclaim", "reclaim_push", "replay_rem", "promote_push"}
        /\ ~ Busy(w)'
    BY <1>2 DEF OnlyAt, Busy, Bearing, Handling
  <2>2. Queued' \subseteq Queued
    <3>1. Queued' \subseteq Queued \cup {}
      BY <1>2, <2>1, QueuedWith
    <3> QED BY <3>1
  <2>3. OneCopy'
    BY <1>2, <1>i, <2>1, <2>2, NoneMoved
  <2>4. \A x : ~ HasText(w, x)
    BY <1>2 DEF HasText
  <2>5. Undisturbed'
    BY <1>2, <1>i, <2>1, <2>4, QuietlyUndisturbed
  <2> QED BY <2>3, <2>5 DEF Once
<1>3. ASSUME NEW w \in Procs, PromoteDueRead(w), UNCHANGED history PROVE Once'
  <2>1. /\ Goto(w, "promote") /\ pc[w] = "idle" /\ UNCHANGED <<lists, aged, orig, lease>>
        /\ \E o \in Outcomes : Charge(o)
    BY <1>3 DEF PromoteDueRead
  <2>2. faults = 0
    BY <2>1, NoFault
  <2>3. pc[w] \notin Dequeuing \cup Working
    BY <2>1 DEF Dequeuing, Working
  <2> QED BY <1>2, <1>3, <2>1, <2>2, <2>3
<1>4. ASSUME NEW w \in Procs, PromoteDueRem(w), UNCHANGED history PROVE Once'
  <2>1. PICK x \in todo[w], o \in Outcomes : PromoteDueRem(w)!2!(x, o)
    BY <1>4 DEF PromoteDueRem
  <2>2. UNCHANGED <<ready, processing, dead, lease>> /\ pc[w] = "promote"
    BY <1>4 DEF PromoteDueRem
  <2>3. o = "ok" /\ Executed(o) /\ faults = 0
    BY <2>1, NoFault
  <2>4. /\ delayed' = delayed \ {x} /\ aged' = aged \ {x}
        /\ OnlyAt(w)
        /\ \/ pc'[w] = "promote"
           \/ (pc'[w] = "promote_push" /\ orig'[w] = x /\ x \in delayed)
    BY <2>1, <2>2, <2>3 DEF OnlyAt
  <2>5. Queued' \subseteq Queued
    <3>1. /\ \A p \in Promoted \ {w} : orig[p] \in Queued
          /\ ToSet(ready') \cup delayed' \cup ToSet(dead') \subseteq Queued
          /\ pc'[w] = "promote_push" => orig'[w] \in Queued
      BY <2>2, <2>4 DEF Queued, Waiting
    <3> QED BY <2>4, <3>1, QueuedAt
  <2>6. ~ Busy(w)' /\ pc'[w] \notin {"reclaim", "reclaim_push", "replay_rem"}
    BY <2>4 DEF Busy, Bearing, Handling
  <2>7. OneCopy'
    BY <1>4, <1>i, <2>3, <2>4, <2>5, <2>6, NoneMoved
  <2>8. \A y : ~ HasText(w, y)
    BY <2>2 DEF HasText, Dequeuing, Working
  <2>9. aged' \subseteq delayed'
    BY <1>i, <2>3, <2>4
  <2>10. Undisturbed'
    BY <1>i, <2>2, <2>3, <2>4, <2>6, <2>8, <2>9, QuietlyUndisturbed
  <2> QED BY <2>7, <2>10 DEF Once
<1>5. ASSUME NEW w \in Procs, PromoteDuePush(w), UNCHANGED history PROVE Once'
  <2>1. PICK o \in Outcomes :
          /\ Charge(o)
          /\ ready' = IF Executed(o) THEN Append(ready, orig[w]) ELSE ready
    BY <1>5 DEF PromoteDuePush
  <2>2. /\ UNCHANGED <<processing, dead, delayed, aged, lease>>
        /\ pc[w] = "promote_push" /\ pc' = [pc EXCEPT ![w] = "promote"]
        /\ orig' = [orig EXCEPT ![w] = None]
    BY <1>5 DEF PromoteDuePush
  <2>3. o = "ok" /\ Executed(o) /\ faults = 0
    BY <2>1, NoFault
  <2>4. orig[w] \in Payload /\ orig[w] \in Queued
    BY <2>2 DEF LocalInv, HasOrig, Moving, Queued, Waiting, Promoted
  <2>5. ToSet(ready') = ToSet(ready) \cup {orig[w]}
    BY <2>1, <2>3, <2>4, AppendToSet, SMT
  <2>6. /\ OnlyAt(w) /\ ~ Busy(w)'
        /\ pc'[w] \notin {"reclaim", "reclaim_push", "replay_rem", "promote_push"}
    BY <2>2 DEF OnlyAt, Busy, Bearing, Handling
  <2>7. Queued' \subseteq Queued
    <3>1. Queued' \subseteq Queued \cup {orig[w]}
      BY <2>2, <2>5, <2>6, QueuedWith
    <3> QED BY <2>4, <3>1
  <2>8. OneCopy'
    BY <1>5, <1>i, <2>3, <2>6, <2>7, NoneMoved
  <2>9. \A y : ~ HasText(w, y)
    BY <2>2 DEF HasText, Dequeuing, Working
  <2>10. Undisturbed'
    BY <1>i, <2>2, <2>3, <2>6, <2>9, QuietlyUndisturbed
  <2> QED BY <2>8, <2>10 DEF Once
<1>6. ASSUME NEW w \in Procs, ReclaimStaleRead(w), UNCHANGED history PROVE Once'
  <2> DEFINE stale == StaleIn(SubSeq(processing, 1, Min({ScanLimit, Len(processing)})))
             taken == Cardinality({x \in stale : ~ x.leased /\ Held(x)})
  <2>1. /\ pc[w] = "promote" /\ UNCHANGED <<lists, aged, orig, lease>>
        /\ \/ (faults' = faults + taken /\ Goto(w, IF stale = {} THEN "dequeue" ELSE "reclaim"))
           \/ faults' = faults + 1
    BY <1>6 DEF ReclaimStaleRead
  <2>2. /\ stale \subseteq ToSet(processing) /\ taken \in Nat
        /\ taken = 0 => \A x \in stale : ~ (~ x.leased /\ Held(x))
    BY StaleRead
  <2>3. \A x \in stale : ~ x.leased \/ x \in aged
    BY DEF StaleIn
  <2> HIDE DEF stale, taken
  <2>4. /\ faults = 0 /\ taken = 0
        /\ Goto(w, IF stale = {} THEN "dequeue" ELSE "reclaim")
    BY <1>n, <2>1, <2>2, SMT
  <2>5. stale = {}
    <3> SUFFICES ASSUME NEW x \in stale PROVE FALSE
      OBVIOUS
    <3>1. \E v \in Workers : HasText(v, x)
      BY <1>i, <2>2, <2>4 DEF Undisturbed
    <3>2. Held(x)
      BY <3>1 DEF HasText, Held
    <3>3. x \in delayed
      BY <1>i, <2>2, <2>3, <2>4, <3>2
    <3> QED BY <2>2, <3>3 DEF TextInv, PlacesInv, Waiting
  <2>6. Goto(w, "dequeue") /\ pc[w] \notin Dequeuing \cup Working
    BY <2>1, <2>4, <2>5 DEF Dequeuing, Working
  <2> QED BY <1>2, <1>6, <2>1, <2>4, <2>6
<1>7. ASSUME NEW w \in Procs, ReclaimStaleRem(w) \/ ReclaimStalePush(w) PROVE Once'
  <2>1. pc[w] \in {"reclaim", "reclaim_push"} /\ \E o \in Outcomes : Charge(o)
    BY <1>7 DEF ReclaimStaleRem, ReclaimStalePush
  <2>2. faults = 0
    BY <2>1, NoFault
  <2> QED BY <1>i, <2>1, <2>2 DEF Undisturbed
<1>8. ASSUME NEW w \in Workers, DequeuePop(w), UNCHANGED history PROVE Once'
  <2>1. PICK o \in Outcomes : DequeuePop(w)!3!(o)
    BY <1>8 DEF DequeuePop
  <2>2. UNCHANGED <<dead, delayed, aged, lease>> /\ pc[w] = "dequeue" /\ ready # <<>>
    BY <1>8 DEF DequeuePop
  <2>3. o = "ok" /\ Executed(o) /\ faults = 0
    BY <2>1, NoFault
  <2> DEFINE y == Last(ready)
  <2>4. /\ y \in Payload /\ ToSet(ready) = ToSet(Front(ready)) \cup {y}
        /\ y \notin ToSet(Front(ready))
    BY <2>2, FrontLast DEF WaitInv
  <2>5. /\ y \in Waiting /\ y \in Queued /\ y \notin delayed
        /\ \A p \in Promoted : orig[p] # y
    BY <2>4 DEF Queued, Waiting, WaitInv
  <2>6. y \notin ToSet(dead)
    BY <2>5 DEF TextInv, PlacesInv
  <2>7. ToSet(Cons(y, processing)) = ToSet(processing) \cup {y}
    BY <2>4, ConsToSet, SMT
  <2>8. /\ ready' = Front(ready) /\ processing' = Cons(y, processing)
        /\ pc' = [pc EXCEPT ![w] = "lease_push"] /\ orig' = [orig EXCEPT ![w] = y]
    BY <2>1, <2>3
  <2> HIDE DEF y
  <2>9. OnlyAt(w) /\ pc'[w] = "lease_push" /\ orig'[w] = y
    BY <2>2, <2>8 DEF OnlyAt
  <2>10. Queued' \subseteq Queued \ {y}
    <3>1. /\ \A p \in Promoted \ {w} : orig[p] # y
          /\ ToSet(ready') \cup delayed' \cup ToSet(dead') \subseteq Queued \ {y}
      BY <2>2, <2>4, <2>5, <2>6, <2>8 DEF Queued, Waiting
    <3>2. OnlyAt(w) /\ pc'[w] # "promote_push"
      BY <2>9
    <3> QED BY <3>1, <3>2, QueuedWithout
  <2>11. Job(w)' = y.id
    BY <2>9 DEF Job, Bearing
  <2>12. OneCopy'
    BY <1>8, <1>i, <2>3, <2>5, <2>9, <2>10, <2>11, CopyTaken
  <2>13. \A x : HasText(w, x)' <=> x = y
    BY <2>9 DEF HasText, Dequeuing, Working
  <2>14. \A x : ~ HasText(w, x)
    BY <2>2 DEF HasText, Dequeuing, Working
  <2>15. pc'[w] \notin {"reclaim", "reclaim_push", "replay_rem"}
    BY <2>9
  <2>16. \A a \in Admins \ {w} : pc[a] = "replay_rem" => orig[a] \in ToSet(dead')
    BY <1>i, <2>2, <2>3 DEF Undisturbed
  <2>17. Undisturbed'
    BY <1>i, <2>2, <2>3, <2>7, <2>8, <2>9, <2>13, <2>14, <2>15, <2>16, StaysUndisturbed
  <2> QED BY <2>12, <2>17 DEF Once
<1>9. ASSUME NEW w \in Workers, DequeueLeasePush(w), UNCHANGED history PROVE Once'
  <2>1. PICK x \in NewText(orig[w].id, orig[w].attempts, TRUE), o \in Outcomes :
          DequeueLeasePush(w)!2!(x, o)
    BY <1>9 DEF DequeueLeasePush
  <2>2. UNCHANGED <<ready, dead, delayed, aged>> /\ pc[w] = "lease_push"
    BY <1>9 DEF DequeueLeasePush
  <2>3. o = "ok" /\ Executed(o) /\ faults = 0
    BY <2>1, NoFault
  <2>4. orig[w] \in Payload /\ orig[w].attempts \in Nat
    BY <2>2 DEF LocalInv, HasOrig, Dequeuing
  <2>5. x \in Payload /\ x.id = orig[w].id
    <3>1. TRUE \in BOOLEAN
      OBVIOUS
    <3> QED BY <1>new, <2>4, <3>1
  <2>6. ToSet(Cons(x, processing)) = ToSet(processing) \cup {x}
    BY <2>5, ConsToSet, SMT
  <2>7. /\ processing' = Cons(x, processing) /\ OnlyAt(w)
        /\ pc'[w] = "lease_rem" /\ orig'[w] = orig[w] /\ lease'[w] = x
    BY <2>1, <2>3 DEF OnlyAt
  <2>8. pc'[w] \notin {"reclaim", "reclaim_push", "replay_rem", "promote_push"}
    BY <2>7
  <2>9. Queued' \subseteq Queued
    <3>1. Queued' \subseteq Queued \cup {}
      BY <2>2, <2>7, <2>8, QueuedWith
    <3> QED BY <3>1
  <2>10. Busy(w) /\ Job(w)' = Job(w)
    BY <2>2, <2>5, <2>7 DEF Busy, Job, Bearing, Handling
  <2>11. OneCopy'
    BY <1>9, <1>i, <2>3, <2>7, <2>9, <2>10, NoneMoved
  <2>12. \A z : HasText(w, z)' <=> z = x \/ z = orig[w]
    BY <2>7 DEF HasText, Dequeuing, Working
  <2>13. \A z : HasText(w, z) => z = orig[w]
    BY <2>2 DEF HasText, Dequeuing, Working
  <2>14. \A a \in Admins \ {w} : pc[a] = "replay_rem" => orig[a] \in ToSet(dead')
    BY <1>i, <2>2, <2>3 DEF Undisturbed
  <2>15. Undisturbed'
    BY <1>i, <2>2, <2>3, <2>6, <2>7, <2>8, <2>12, <2>13, <2>14, StaysUndisturbed
  <2> QED BY <2>11, <2>15 DEF Once
<1>quiet. ASSUME NEW w \in Workers, UNCHANGED <<ready, dead, delayed, history>>, OnlyAt(w), faults = 0,
                 aged' \subseteq aged, ToSet(processing') \subseteq ToSet(processing),
                 \A x \in ToSet(processing') : HasText(w, x) => HasText(w, x)',
                 pc'[w] \in {"idle", "handle", "retry", "ack"},
                 Busy(w)' => Busy(w) /\ Job(w)' = Job(w)
          PROVE  Once'
  <2>1. pc'[w] \notin {"reclaim", "reclaim_push", "replay_rem", "promote_push"}
    BY <1>quiet
  <2>2. Queued' \subseteq Queued
    <3>1. Queued' \subseteq Queued \cup {}
      BY <1>quiet, <2>1, QueuedWith
    <3> QED BY <3>1
  <2>3. OneCopy'
    BY <1>quiet, <1>i, <2>2, NoneMoved
  <2>4. aged' \subseteq delayed'
    BY <1>i, <1>quiet
  <2>5. Undisturbed'
    BY <1>quiet, <1>i, <2>1, <2>4, QuietlyUndisturbed
  <2> QED BY <2>3, <2>5 DEF Once
<1>10. ASSUME NEW w \in Workers, DequeueLeaseRem(w), UNCHANGED history PROVE Once'
  <2>1. PICK o \in Outcomes : DequeueLeaseRem(w)!2!(o)
    BY <1>10 DEF DequeueLeaseRem
  <2>2. UNCHANGED <<ready, dead, delayed, aged>> /\ pc[w] = "lease_rem"
    BY <1>10 DEF DequeueLeaseRem
  <2>3. o = "ok" /\ Executed(o) /\ faults = 0
    BY <2>1, NoFault
  <2>4. /\ processing' = RemoveFirst(processing, orig[w]) /\ OnlyAt(w)
        /\ pc'[w] = "handle" /\ lease'[w] = lease[w]
    BY <2>1, <2>3 DEF OnlyAt
  <2>5. ToSet(processing') \subseteq ToSet(processing) /\ orig[w] \notin ToSet(processing')
    BY <1>p, <2>4, RemoveFirstToSet
  <2>6. Busy(w) /\ Job(w)' = Job(w)
    BY <2>2, <2>4 DEF Busy, Job, Bearing, Handling
  <2>7. ASSUME NEW x \in ToSet(processing'), HasText(w, x) PROVE HasText(w, x)'
    <3>1. x = lease[w]
      BY <2>5, <2>7 DEF HasText
    <3> QED BY <2>4, <3>1 DEF HasText, Working
  <2>8. pc'[w] \in {"idle", "handle", "retry", "ack"} /\ aged' \subseteq aged
    BY <2>2, <2>4
  <2> QED BY <1>10, <1>quiet, <2>2, <2>3, <2>4, <2>5, <2>6, <2>7, <2>8
<1>lease. ASSUME NEW w \in Workers, pc[w] \in {"handle", "retry"}, pc'[w] \in {"retry", "ack"},
                 lease'[w] = lease[w]
          PROVE  /\ \A x : HasText(w, x) => HasText(w, x)'
                 /\ Busy(w) /\ Job(w) = lease[w].id /\ Job(w)' = Job(w)
                 /\ pc'[w] = "ack" => ~ Busy(w)'
  BY <1>lease DEF HasText, Dequeuing, Working, Busy, Job, Bearing, Handling
<1>11. ASSUME NEW w \in Workers, HandlerFails(w) PROVE Once'
  <2>1. /\ UNCHANGED <<ready, dead, delayed, processing, aged, faults, orig, lease>>
        /\ UNCHANGED history /\ pc[w] = "handle" /\ pc' = [pc EXCEPT ![w] = "retry"]
    BY <1>11 DEF HandlerFails
  <2>2. OnlyAt(w) /\ pc'[w] = "retry" /\ lease'[w] = lease[w]
    BY <2>1 DEF OnlyAt
  <2>3. faults = 0 /\ pc'[w] \in {"idle", "handle", "retry", "ack"}
    BY <2>1, <2>2
  <2>4. (\A x : HasText(w, x) => HasText(w, x)') /\ Busy(w) /\ Job(w)' = Job(w)
    BY <1>lease, <2>1, <2>2
  <2> QED BY <1>quiet, <2>1, <2>2, <2>3, <2>4
<1>12. ASSUME NEW w \in Workers, HandlerSucceeds(w) PROVE Once'
  <2>1. /\ UNCHANGED <<ready, dead, delayed, processing, aged, faults, orig, lease, enqueued>>
        /\ pc[w] = "handle" /\ pc' = [pc EXCEPT ![w] = "ack"]
        /\ handled' = handled \cup {lease[w].id}
    BY <1>12 DEF HandlerSucceeds
  <2>2. OnlyAt(w) /\ pc'[w] = "ack" /\ lease'[w] = lease[w]
    BY <2>1 DEF OnlyAt
  <2>3. /\ \A x : HasText(w, x) => HasText(w, x)'
        /\ Busy(w) /\ Job(w) = lease[w].id /\ ~ Busy(w)'
    BY <1>lease, <2>1, <2>2
  <2>4. Promoted' = Promoted /\ \A p \in Promoted : orig'[p] = orig[p]
    BY <2>1 DEF Promoted
  <2>5. Queued' = Queued
    BY <2>1, <2>4 DEF Queued, Waiting
  <2>6. faults = 0 /\ w \in Procs
    BY <2>1
  <2>7. OneCopy'
    BY <1>i, <2>1, <2>2, <2>3, <2>5, <2>6, CopyHandled
  <2>8. pc'[w] \notin {"reclaim", "reclaim_push", "replay_rem"}
    BY <2>2
  <2>9. Undisturbed'
    BY <1>i, <2>1, <2>2, <2>3, <2>6, <2>8, QuietlyUndisturbed
  <2> QED BY <2>7, <2>9 DEF Once
<1>give. ASSUME NEW w \in Workers, pc[w] \in {"handle", "retry"}, pc'[w] = "ack", OnlyAt(w),
                lease'[w] = lease[w], faults = 0, UNCHANGED <<processing, ready, aged, history>>,
                NEW x, x.id = lease[w].id,
                delayed \subseteq delayed', delayed' \subseteq delayed \cup {x},
                ToSet(dead) \subseteq ToSet(dead'), ToSet(dead') \subseteq ToSet(dead) \cup {x}
         PROVE  Once'
  <2>1. pc'[w] \notin {"reclaim", "reclaim_push", "replay_rem", "promote_push"} /\ w \in Procs
    BY <1>give
  <2>2. /\ \A y : HasText(w, y) => HasText(w, y)'
        /\ Busy(w) /\ Job(w) = lease[w].id /\ ~ Busy(w)'
    BY <1>give, <1>lease
  <2>3. Queued' \subseteq Queued \cup {x}
    <3>1. ToSet(ready') \cup delayed' \cup ToSet(dead')
            \subseteq ToSet(ready) \cup delayed \cup ToSet(dead) \cup {x}
      BY <1>give
    <3> QED BY <1>give, <2>1, <3>1, QueuedWith
  <2>4. OneCopy'
    BY <1>give, <1>i, <2>1, <2>2, <2>3, CopyGiven
  <2>5. aged' \subseteq delayed' /\ ToSet(processing') \subseteq ToSet(processing)
    BY <1>give, <1>i
  <2>6. Undisturbed'
    BY <1>give, <1>i, <2>1, <2>2, <2>5, QuietlyUndisturbed
  <2> QED BY <2>4, <2>6 DEF Once
<1>13. ASSUME NEW w \in Workers, NEW n \in Nat, EnqueueAfter(w, n, "ack"), pc[w] = "retry",
              UNCHANGED history
       PROVE  Once'
  <2>1. PICK x \in NewText(lease[w].id, n, FALSE), o \in Outcomes :
          EnqueueAfter(w, n, "ack")!(x, o)
    BY <1>13 DEF EnqueueAfter
  <2>2. o = "ok" /\ Executed(o) /\ faults = 0
    BY <2>1, NoFault
  <2>3. /\ UNCHANGED <<ready, processing, dead, aged>> /\ delayed' = delayed \cup {x}
        /\ OnlyAt(w) /\ pc'[w] = "ack" /\ lease'[w] = lease[w]
    BY <2>1, <2>2 DEF OnlyAt
  <2>4. x.id = lease[w].id
    <3>1. lease[w] \in Payload /\ FALSE \in BOOLEAN
      BY <1>13 DEF LocalInv, Working
    <3> QED BY <1>new, <3>1
  <2> QED BY <1>13, <1>give, <2>2, <2>3, <2>4
<1>14. ASSUME NEW w \in Workers, NEW n \in Nat, NEW failed, DeadLetter(w, n, failed),
              pc[w] \in {"handle", "retry"}, UNCHANGED history
       PROVE  Once'
  <2>1. PICK x \in NewText(lease[w].id, n, FALSE), o \in Outcomes :
          DeadLetter(w, n, failed)!(x, o)
    BY <1>14 DEF DeadLetter
  <2>2. o = "ok" /\ Executed(o) /\ faults = 0
    BY <2>1, NoFault
  <2>3. /\ UNCHANGED <<ready, processing, delayed, aged>> /\ dead' = Cons(x, dead)
        /\ OnlyAt(w) /\ pc'[w] = "ack" /\ lease'[w] = lease[w]
    BY <2>1, <2>2 DEF OnlyAt
  <2>4. x \in Payload /\ x.id = lease[w].id
    <3>1. lease[w] \in Payload /\ FALSE \in BOOLEAN
      BY <1>14 DEF LocalInv, Working
    <3> QED BY <1>new, <3>1
  <2>5. ToSet(dead') = ToSet(dead) \cup {x}
    BY <2>3, <2>4, ConsToSet, SMT
  <2> QED BY <1>14, <1>give, <2>2, <2>3, <2>4, <2>5
<1>15. ASSUME NEW w \in Workers, RetryJob(w) PROVE Once'
  <2>1. lease[w] \in Payload /\ pc[w] = "retry"
    BY <1>15 DEF RetryJob, LocalInv, Working
  <2>2. lease[w].attempts + 1 \in Nat
    BY <2>1, SMT
  <2>3. DeadLetter(w, lease[w].attempts + 1, "idle")
          \/ EnqueueAfter(w, lease[w].attempts + 1, "ack")
    BY <1>15 DEF RetryJob
  <2> QED BY <1>13, <1>14, <1>15, <2>1, <2>2, <2>3 DEF RetryJob
<1>16. ASSUME NEW w \in Workers, NoHandler(w) PROVE Once'
  <2>1. lease[w] \in Payload /\ pc[w] = "handle"
    BY <1>16 DEF NoHandler, LocalInv, Working
  <2>2. lease[w].attempts \in Nat
    BY <2>1
  <2> QED BY <1>14, <1>16, <2>1, <2>2 DEF NoHandler
<1>17. ASSUME NEW w \in Workers, AckJob(w) PROVE Once'
  <2>1. PICK o \in Outcomes :
          /\ Charge(o)
          /\ processing' = IF Executed(o) THEN RemoveFirst(processing, lease[w]) ELSE processing
          /\ aged' = IF Executed(o) THEN aged \ {lease[w]} ELSE aged
    BY <1>17 DEF AckJob, Ack
  <2>2. /\ UNCHANGED <<ready, dead, delayed, orig>> /\ UNCHANGED history /\ pc[w] = "ack"
        /\ pc' = [pc EXCEPT ![w] = "idle"] /\ lease' = [lease EXCEPT ![w] = None]
    BY <1>17 DEF AckJob, Ack
  <2>3. o = "ok" /\ Executed(o) /\ faults = 0
    BY <2>1, NoFault
  <2>4. OnlyAt(w) /\ pc'[w] = "idle" /\ aged' \subseteq aged
    BY <2>1, <2>2 DEF OnlyAt
  <2>5. ToSet(processing') \subseteq ToSet(processing) /\ lease[w] \notin ToSet(processing')
    BY <1>p, <2>1, <2>3, RemoveFirstToSet
  <2>6. \A x : HasText(w, x) => x = lease[w]
    BY <2>2 DEF HasText, Dequeuing
  <2>7. ~ Busy(w)' /\ pc'[w] \in {"idle", "handle", "retry", "ack"}
    BY <2>4 DEF Busy, Bearing, Handling
  <2> QED BY <1>quiet, <2>2, <2>3, <2>4, <2>5, <2>6, <2>7
<1>18. ASSUME NEW a \in Admins, ReplayDeadLetterRead(a), UNCHANGED history PROVE Once'
  <2>1. PICK item \in ToSet(dead) :
          /\ faults' = faults + (IF \E b \in Admins : orig[b] = item THEN 1 ELSE 0)
          /\ orig' = [orig EXCEPT ![a] = item]
    BY <1>18 DEF ReplayDeadLetterRead
  <2>2. /\ UNCHANGED <<ready, processing, dead, delayed, aged, lease>>
        /\ pc[a] = "idle" /\ pc' = [pc EXCEPT ![a] = "replay_rem"]
    BY <1>18 DEF ReplayDeadLetterRead
  <2>3. faults = 0 /\ \A b \in Admins : orig[b] # item
    BY <1>n, <2>1, SMT
  <2>4. OnlyAt(a) /\ pc'[a] = "replay_rem" /\ orig'[a] = item
    BY <2>1, <2>2 DEF OnlyAt
  <2>5. ~ Busy(a)' /\ pc'[a] \notin {"promote_push", "reclaim", "reclaim_push"}
    BY <2>4 DEF Busy, Bearing, Handling
  <2>6. Queued' \subseteq Queued
    <3>1. Queued' \subseteq Queued \cup {}
      BY <2>2, <2>4, <2>5, QueuedWith
    <3> QED BY <3>1
  <2>7. OneCopy'
    BY <1>18, <1>i, <2>3, <2>4, <2>5, <2>6, NoneMoved
  <2>8. \A x : ~ HasText(a, x)
    BY <2>2 DEF HasText, Dequeuing, Working
  <2>9. \A b \in Admins \ {a} : pc[b] = "replay_rem" => orig[b] \in ToSet(dead')
    BY <1>i, <2>2, <2>3 DEF Undisturbed
  <2>10. Undisturbed'
    BY <1>i, <2>2, <2>3, <2>4, <2>5, <2>8, <2>9, StaysUndisturbed
  <2> QED BY <2>7, <2>10 DEF Once
<1>19. ASSUME NEW a \in Admins, ReplayDeadLetterRem(a), UNCHANGED history PROVE Once'
  <2>1. PICK o \in Outcomes : ReplayDeadLetterRem(a)!2!(o)
    BY <1>19 DEF ReplayDeadLetterRem
  <2>2. UNCHANGED <<ready, processing, delayed, aged, lease>> /\ pc[a] = "replay_rem"
    BY <1>19 DEF ReplayDeadLetterRem
  <2>3. o = "ok" /\ Executed(o) /\ faults = 0
    BY <2>1, NoFault
  <2> DEFINE y == orig[a]
  <2>4. /\ dead' = RemoveFirst(dead, y) /\ OnlyAt(a)
        /\ pc'[a] = "replay_push" /\ orig'[a] = y
    BY <2>1, <2>2, <2>3 DEF OnlyAt
  <2>5. /\ y \in ToSet(dead)
        /\ \A b \in Admins \ {a} : pc[b] = "replay_rem" => orig[b] \in ToSet(dead) /\ orig[b] # y
    BY <1>i, <2>2, <2>3 DEF Undisturbed
  <2>6. /\ ToSet(dead') \subseteq ToSet(dead) \ {y}
        /\ ToSet(dead) \subseteq ToSet(dead') \cup {y}
    BY <1>p, <2>4, RemoveFirstToSet
  <2> HIDE DEF y
  <2>7. y \in Queued /\ y \notin Waiting
    BY <2>5 DEF Queued, TextInv, PlacesInv
  <2>8. Queued' \subseteq Queued \ {y}
    <3>1. /\ \A p \in Promoted \ {a} : orig[p] # y
          /\ ToSet(ready') \cup delayed' \cup ToSet(dead') \subseteq Queued \ {y}
      BY <2>2, <2>6, <2>7 DEF Queued, Waiting
    <3>2. OnlyAt(a) /\ pc'[a] # "promote_push"
      BY <2>4
    <3> QED BY <3>1, <3>2, QueuedWithout
  <2>9. Job(a)' = y.id
    BY <2>4 DEF Job, Bearing
  <2>10. OneCopy'
    BY <1>19, <1>i, <2>3, <2>4, <2>7, <2>8, <2>9, CopyTaken
  <2>11. \A x : ~ HasText(a, x)
    BY <2>2 DEF HasText, Dequeuing, Working
  <2>12. pc'[a] \notin {"reclaim", "reclaim_push", "replay_rem"}
    BY <2>4
  <2>13. \A b \in Admins \ {a} : pc[b] = "replay_rem" => orig[b] \in ToSet(dead')
    BY <2>5, <2>6
  <2>14. Undisturbed'
    BY <1>i, <2>2, <2>3, <2>4, <2>11, <2>12, <2>13, StaysUndisturbed
  <2> QED BY <2>10, <2>14 DEF Once
<1>20. ASSUME NEW a \in Admins, ReplayDeadLetterPush(a), UNCHANGED history PROVE Once'
  <2>1. PICK o \in Outcomes :
          /\ Charge(o)
          /\ IF Executed(o) THEN Enqueue(orig[a].id, 0) /\ UNCHANGED dropped
             ELSE UNCHANGED ready /\ dropped' = dropped \cup {orig[a].id}
    BY <1>20 DEF ReplayDeadLetterPush
  <2>2. /\ UNCHANGED <<processing, dead, delayed, aged, lease>>
        /\ pc[a] = "replay_push" /\ pc' = [pc EXCEPT ![a] = "idle"]
        /\ orig' = [orig EXCEPT ![a] = None]
    BY <1>20 DEF ReplayDeadLetterPush
  <2>3. Executed(o) /\ faults = 0 /\ Enqueue(orig[a].id, 0)
    BY <2>1, NoFault
  <2>4. orig[a] \in Payload /\ 0 \in Nat
    BY <2>2 DEF LocalInv, HasOrig, Moving
  <2>5. orig[a].id \in Jobs
    BY <2>4
  <2>6. PICK x \in Payload : x.id = orig[a].id /\ ToSet(ready') = ToSet(ready) \cup {x}
    BY <2>3, <2>4, <2>5, EnqueueAppendsNew
  <2>7. OnlyAt(a) /\ pc'[a] = "idle"
    BY <2>2 DEF OnlyAt
  <2>8. Busy(a) /\ Job(a) = orig[a].id /\ ~ Busy(a)'
    BY <2>2, <2>7 DEF Busy, Job, Bearing, Handling
  <2>9. pc'[a] \notin {"promote_push", "reclaim", "reclaim_push", "replay_rem"} /\ a \in Procs
    BY <2>7
  <2>10. Queued' \subseteq Queued \cup {x}
    BY <2>2, <2>6, <2>7, <2>9, QueuedWith
  <2>11. OneCopy'
    BY <1>20, <1>i, <2>3, <2>6, <2>7, <2>8, <2>9, <2>10, CopyGiven
  <2>12. \A y : ~ HasText(a, y)
    BY <2>2 DEF HasText, Dequeuing, Working
  <2>13. Undisturbed'
    BY <1>i, <2>2, <2>3, <2>7, <2>9, <2>12, QuietlyUndisturbed
  <2> QED BY <2>11, <2>13 DEF Once
<1>21. ASSUME NEW p \in Procs, Crash(p) PROVE Once'
  <2>1. faults' = faults + 1
    BY <1>21 DEF Crash
  <2> QED BY <1>n, <2>1, SMT
<1>22. ASSUME UNCHANGED <<lists, local, history, faults>>, aged' \subseteq delayed PROVE Once'
  <2>1. OneCopy /\ Undisturbed
    BY <1>22, <1>i
  <2>2. Queued' = Queued
    BY <1>22 DEF Queued, Waiting, Promoted
  <2>3. \A p \in Procs : (Busy(p)' <=> Busy(p)) /\ Job(p)' = Job(p)
    BY <1>22 DEF Busy, Job
  <2>4. enqueued' = enqueued /\ handled' = handled
    BY <1>22 DEF history
  <2>5. OneCopy'
    BY <2>1, <2>2, <2>3, <2>4 DEF OneCopy
  <2>6. Undisturbed'
    BY <1>22, <2>1, StillUndisturbed
  <2> QED BY <2>5, <2>6 DEF Once
<1>23. ASSUME Environment PROVE Once'
  <2>1. UNCHANGED history
    BY <1>23 DEF Environment
  <2>2. CASE DelayElapses
    <3>1. UNCHANGED <<lists, local, faults>> /\ \E x \in delayed : aged' = aged \cup {x}
      BY <2>2 DEF DelayElapses
    <3>2. aged' \subseteq delayed
      BY <1>i, <3>1
    <3> QED BY <1>22, <2>1, <3>1, <3>2
  <2>3. CASE LeaseExpires
    <3>1. PICK x \in ToSet(processing) : faults' = IF Held(x) THEN faults + 1 ELSE faults
      BY <2>3 DEF LeaseExpires
    <3>2. faults = 0 /\ ~ Held(x)
      BY <1>n, <3>1, SMT
    <3>3. \E v \in Workers : HasText(v, x)
      BY <1>i, <3>2 DEF Undisturbed
    <3> QED BY <3>2, <3>3 DEF HasText, Held
  <2>4. ASSUME NEW p \in Procs, Restart(p) PROVE Once'
    <3>1. /\ Goto(p, "idle") /\ pc[p] \notin Dequeuing \cup Working /\ faults = 0
          /\ UNCHANGED <<lists, aged, orig, lease>>
      BY <2>4 DEF Restart, Dequeuing, Working
    <3> QED BY <1>2, <2>1, <3>1
  <2> QED BY <1>21, <1>23, <2>2, <2>3, <2>4 DEF Environment
<1>24. ASSUME NEW w \in Procs, Maintain(w) PROVE Once'
  BY <1>3, <1>4, <1>5, <1>6, <1>7, <1>24 DEF Maintain
<1>25. ASSUME NEW w \in Workers, Dequeue(w) PROVE Once'
  <2>1. CASE DequeueEmpty(w)
    <3>1. /\ Goto(w, "idle") /\ pc[w] \notin Dequeuing \cup Working /\ faults = 0
          /\ UNCHANGED <<lists, aged, orig, lease>>
      BY <2>1 DEF DequeueEmpty, Dequeuing, Working
    <3> QED BY <1>2, <1>25, <3>1 DEF Dequeue
  <2> QED BY <1>8, <1>9, <1>10, <1>25, <2>1 DEF Dequeue
<1>26. ASSUME NEW w \in Workers, WorkerStep(w) PROVE Once'
  <2>1. CASE SkipMaintenance(w)
    <3>1. /\ Goto(w, "dequeue") /\ pc[w] \notin Dequeuing \cup Working /\ faults = 0
          /\ UNCHANGED <<lists, aged, orig, lease, history>>
      BY <2>1 DEF SkipMaintenance, Dequeuing, Working
    <3> QED BY <1>2, <3>1
  <2>2. w \in Procs
    OBVIOUS
  <2> QED BY <1>11, <1>12, <1>15, <1>16, <1>17, <1>24, <1>25, <1>26, <2>1, <2>2
          DEF WorkerStep
<1>27. ASSUME NEW r \in Reconcilers, ReconcilerTick(r) PROVE Once'
  <2>1. CASE ~ Maintain(r)
    <3>1. /\ Goto(r, "idle") /\ pc[r] \notin Dequeuing \cup Working /\ faults = 0
          /\ UNCHANGED <<lists, aged, orig, lease, history>>
      BY <1>27, <2>1 DEF ReconcilerTick, Dequeuing, Working
    <3> QED BY <1>2, <3>1
  <2> QED BY <1>24, <2>1
<1>28. ASSUME NEW a \in Admins, Replay(a) PROVE Once'
  BY <1>18, <1>19, <1>20, <1>28 DEF Replay
<1>29. ASSUME UNCHANGED vars PROVE Once'
  <2>1. UNCHANGED <<lists, local, history, faults>> /\ aged' = aged /\ faults = 0
    BY <1>29 DEF vars, queueVars, history
  <2> QED BY <1>22, <1>i, <2>1
<1> QED BY <1>1, <1>23, <1>26, <1>27, <1>28, <1>29 DEF Next

(* Without a crash, a lost reply, an overlapping replay or a lease that runs out
   under its worker, a job is handled at most once: after its handler succeeded
   no worker has it and none can get it, whatever the number of workers. *)
THEOREM HandledOnce == Spec => []ExactlyOnceWithoutFaults
<1>1. Init => OnceInv
  <2> SUFFICES ASSUME Init PROVE OneCopy /\ Undisturbed
    BY DEF OnceInv, Once
  <2>1. /\ ready = <<>> /\ processing = <<>> /\ dead = <<>> /\ delayed = {} /\ aged = {}
        /\ \A p \in Procs : pc[p] = "idle"
        /\ handled = {} /\ enqueued = {}
    BY DEF Init, QueueInit
  <2>2. ToSet(<<>>) = {}
    BY SMT DEF ToSet
  <2>3. Promoted = {} /\ Waiting = {} /\ Queued = {}
    BY <2>1, <2>2 DEF Promoted, Waiting, Queued
  <2>4. \A p \in Procs : ~ Busy(p)
    BY <2>1 DEF Busy, Bearing, Handling
  <2>5. OneCopy
    BY <2>1, <2>3, <2>4 DEF OneCopy
  <2>6. Undisturbed
    BY <2>1, <2>2 DEF Undisturbed, Procs
  <2> QED BY <2>5, <2>6
<1>2. TypeInvariant /\ LocalInv /\ WaitInv /\ TextInv /\ OnceInv /\ [Next]_vars => OnceInv'
  BY OnceStep DEF OnceInv, Once
<1>3. OnceInv => ExactlyOnceWithoutFaults
  <2> SUFFICES ASSUME faults = 0, OneCopy PROVE ExactlyOnceWithoutFaults
    BY DEF OnceInv, Once, ExactlyOnceWithoutFaults
  <2>1. handled \cap Ids(ToSet(ready) \cup delayed \cup ToSet(dead)) = {}
    <3>1. ASSUME NEW x \in ToSet(ready) \cup delayed \cup ToSet(dead) PROVE x.id \notin handled
      <4>1. x \in Queued
        BY DEF Queued, Waiting
      <4> QED BY <4>1 DEF OneCopy
    <3> QED BY <3>1 DEF Ids
  <2>2. ASSUME NEW w \in Workers, pc[w] \in {"handle", "retry"} PROVE lease[w].id \notin handled
    <3>1. w \in Procs /\ Busy(w) /\ Job(w) = lease[w].id
      BY <2>2 DEF Procs, Busy, Job, Bearing, Handling
    <3> QED BY <3>1 DEF OneCopy
  <2> QED BY <2>1, <2>2 DEF ExactlyOnceWithoutFaults
<1> QED BY <1>1, <1>2, <1>3, TypeCorrect, WaitAlways, TextAlways, PTL DEF Spec
=============================================================================
