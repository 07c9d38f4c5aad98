-------------------------- MODULE ConsumerDelivery --------------------------
(***************************************************************************)
(* No job is lost by the consumers on the Redis queue, except in the       *)
(* windows that `dropped' records.                                         *)
(***************************************************************************)
EXTENDS ConsumerSafety

(* The prover of the leaves that do not name another. *)
USE Zenon

(* Texts whose removal is the next command of a worker, the texts between two
   lists, and the copies that remain without the former. *)
Doomed ==
  {lease[p] : p \in {q \in Procs : pc[q] = "ack"}}
    \cup {orig[p] : p \in {q \in Procs : pc[q] = "lease_rem"}}
Carried == {orig[p] : p \in {q \in Procs : pc[q] \in Moving}}
Live ==
  ToSet(ready) \cup delayed \cup ToSet(dead) \cup (ToSet(processing) \ Doomed)
    \cup Carried
Safe == handled \cup dropped \cup Ids(Live)

DeliveryInv == enqueued \subseteq Safe
-----------------------------------------------------------------------------
(* A text rewritten from text y is a new text of the same job. *)
LEMMA Rewritten ==
  ASSUME NEW y \in Payload, NEW n \in Nat, NEW l \in BOOLEAN, NEW x \in NewText(y.id, n, l)
  PROVE  x \in Payload /\ x.id = y.id /\ x \notin Existing
<1>1. y.id \in Jobs
  BY DEF Payload
<1> QED BY <1>1, NewTextIsNew, SMT

(* A step of process w leaves what the others hold. *)
OnlyAt(w) ==
  \A p \in Procs \ {w} : pc'[p] = pc[p] /\ orig'[p] = orig[p] /\ lease'[p] = lease[p]

(* Such a step dooms no text but those that w now holds, and lets go of none but
   the one that w was carrying. *)
LEMMA StepAt ==
  ASSUME NEW w \in Procs, OnlyAt(w)
  PROVE  /\ Doomed' \subseteq Doomed \cup {y \in {lease'[w]} : pc'[w] = "ack"}
                                     \cup {y \in {orig'[w]} : pc'[w] = "lease_rem"}
         /\ Carried \subseteq Carried' \cup {y \in {orig[w]} : pc[w] \in Moving}
<1>1. ASSUME NEW y \in Doomed'
      PROVE  y \in Doomed \cup {z \in {lease'[w]} : pc'[w] = "ack"}
                          \cup {z \in {orig'[w]} : pc'[w] = "lease_rem"}
  <2>1. PICK p \in Procs : \/ pc'[p] = "ack" /\ y = lease'[p]
                           \/ pc'[p] = "lease_rem" /\ y = orig'[p]
    BY <1>1 DEF Doomed
  <2> QED BY <2>1 DEF OnlyAt, Doomed
<1>2. ASSUME NEW y \in Carried
      PROVE  y \in Carried' \cup {z \in {orig[w]} : pc[w] \in Moving}
  <2>1. PICK p \in Procs : pc[p] \in Moving /\ y = orig[p]
    BY <1>2 DEF Carried
  <2> QED BY <2>1 DEF OnlyAt, Carried
<1> QED BY <1>1, <1>2

(* A copy that is in a list or carried after a step keeps its job safe. *)
LEMMA CopyIsSafe ==
  ASSUME NEW x, x \in Live'
  PROVE  x.id \in Safe'
  BY DEF Safe, Ids

(* No text is doomed that waits for a worker or that does not exist yet. *)
LEMMA DoomedHeld ==
  ASSUME LocalInv, WaitInv
  PROVE  Doomed \subseteq Existing /\ Doomed \cap Waiting = {}
<1> SUFFICES ASSUME NEW y \in Doomed PROVE y \in Existing /\ y \notin Waiting
  OBVIOUS
<1>1. PICK p \in Procs : \/ pc[p] = "ack" /\ y = lease[p]
                         \/ pc[p] = "lease_rem" /\ y = orig[p]
  BY DEF Doomed
<1>2. CASE pc[p] = "ack" /\ y = lease[p]
  BY <1>2, CarriedExists DEF Working, LocalInv, WaitInv
<1>3. CASE pc[p] = "lease_rem" /\ y = orig[p]
  BY <1>3, CarriedExists DEF HasOrig, Dequeuing, WaitInv
<1> QED BY <1>1, <1>2, <1>3

(* A step of process w that removes no copies but those in G, and dooms none
   but those in G. *)
GivesUp(w, G) ==
  /\ OnlyAt(w)
  /\ enqueued' = enqueued /\ handled \subseteq handled' /\ dropped \subseteq dropped'
  /\ ToSet(ready) \subseteq ToSet(ready') \cup G /\ delayed \subseteq delayed' \cup G
  /\ ToSet(dead) \subseteq ToSet(dead') \cup G
  /\ ToSet(processing) \subseteq ToSet(processing') \cup G \cup Doomed
  /\ pc'[w] = "ack" => lease'[w] \in G
  /\ pc'[w] = "lease_rem" => orig'[w] \in G
  /\ pc[w] \in Moving => orig[w] \in G

(* Such a step keeps every job safe if the jobs of G are safe after it. *)
LEMMA SafeKept ==
  ASSUME DeliveryInv, NEW w \in Procs, NEW G, GivesUp(w, G), \A x \in G : x.id \in Safe'
  PROVE  DeliveryInv'
<1>1. Doomed' \subseteq Doomed \cup G /\ Carried \subseteq Carried' \cup G
  BY StepAt DEF GivesUp
<1>2. Live \subseteq Live' \cup G
  BY <1>1 DEF Live, GivesUp
<1>3. ASSUME NEW x \in Live PROVE x.id \in Safe'
  BY <1>2, CopyIsSafe
<1>4. Safe \subseteq Safe'
  <2>1. Ids(Live) \subseteq Safe'
    BY <1>3 DEF Ids
  <2> QED BY <2>1 DEF Safe, GivesUp
<1> QED BY <1>4 DEF DeliveryInv, GivesUp

(* A step that gives up no copy keeps every job safe. *)
LEMMA NothingGivenUp ==
  ASSUME DeliveryInv, NEW w \in Procs, GivesUp(w, {})
  PROVE  DeliveryInv'
  BY SafeKept, SMT

(* A step that gives up one copy keeps every job safe if it leaves another copy
   of that job, or the job is handled or recorded as dropped. *)
LEMMA OneGivenUp ==
  ASSUME DeliveryInv, NEW w \in Procs, NEW x, GivesUp(w, {x}), x.id \in Safe'
  PROVE  DeliveryInv'
<1>1. \A y \in {x} : y.id \in Safe'
  OBVIOUS
<1> QED BY <1>1, SafeKept

(* Every command, fault and tick of the clock keeps every enqueued job safe. *)
LEMMA DeliveryStep ==
  ASSUME TypeInvariant, LocalInv, WaitInv, DeliveryInv, [Next]_vars
  PROVE  DeliveryInv'
<1> USE DEF Goto, Forget, local, lists, history
<1>0. /\ Workers \subseteq Procs /\ Reconcilers \subseteq Procs /\ Admins \subseteq Procs
      /\ \A x \in Payload : x.id \in Jobs /\ x.attempts \in Nat
  BY DEF Procs, Payload
<1>t. /\ pc \in [Procs -> Labels] /\ orig \in [Procs -> Payload \cup {None}]
      /\ lease \in [Procs -> Payload \cup {None}]
      /\ ready \in Seq(Payload) /\ processing \in Seq(Payload) /\ dead \in Seq(Payload)
  BY DEF TypeInvariant
<1> USE <1>0, <1>t
<1>1. ASSUME NEW j \in Jobs, Produce(j) PROVE DeliveryInv'
  <2>1. PICK x \in Payload : x.id = j /\ ToSet(ready') = ToSet(ready) \cup {x}
    BY <1>1, EnqueueAppendsNew DEF Produce
  <2>2. j \in Safe'
    BY <2>1, CopyIsSafe DEF Live
  <2>3. Live \subseteq Live'
    BY <1>1, <2>1 DEF Produce, Live, Doomed, Carried
  <2>4. Safe \subseteq Safe'
    BY <1>1, <2>3 DEF Produce, Safe, Ids
  <2> QED BY <1>1, <2>2, <2>4 DEF Produce, DeliveryInv
<1>later. ASSUME NEW j \in Jobs, ProduceLater(j) PROVE DeliveryInv'
  <2>1. PICK x \in NewText(j, 0, FALSE) : delayed' = delayed \cup {x}
    BY <1>later DEF ProduceLater
  <2>2. x.id = j
    BY <2>1, NewTextIsNew
  <2>3. j \in Safe'
    BY <2>1, <2>2, CopyIsSafe DEF Live
  <2>4. Live \subseteq Live'
    BY <1>later, <2>1 DEF ProduceLater, Live, Doomed, Carried
  <2>5. Safe \subseteq Safe'
    BY <1>later, <2>4 DEF ProduceLater, Safe, Ids
  <2> QED BY <1>later, <2>3, <2>5 DEF ProduceLater, DeliveryInv
<1>2. ASSUME NEW w \in Procs, NEW l \in {"idle", "dequeue", "retry"}, Goto(w, l),
             pc[w] \notin Moving, UNCHANGED <<lists, orig, lease, dropped, history>>
      PROVE  DeliveryInv'
  <2>1. GivesUp(w, {})
    BY <1>2 DEF GivesUp, OnlyAt
  <2> QED BY <2>1, NothingGivenUp
<1>3. ASSUME NEW w \in Procs, PromoteDueRead(w) \/ ReclaimStaleRead(w), UNCHANGED history
      PROVE  DeliveryInv'
  <2>1. /\ UNCHANGED <<lists, orig, lease, dropped, history>>
        /\ pc[w] \in {"idle", "promote"}
        /\ \E l \in {"promote", "dequeue", "reclaim"} : pc' = [pc EXCEPT ![w] = l]
    BY <1>3 DEF PromoteDueRead, ReclaimStaleRead
  <2>2. GivesUp(w, {})
    BY <2>1 DEF GivesUp, OnlyAt, Moving
  <2> QED BY <2>2, NothingGivenUp
<1>4. ASSUME NEW w \in Procs, PromoteDueRem(w), UNCHANGED history PROVE DeliveryInv'
  <2>1. PICK x \in todo[w], o \in Outcomes : PromoteDueRem(w)!2!(x, o)
    BY <1>4 DEF PromoteDueRem
  <2>2. UNCHANGED <<ready, processing, dead, lease, history>> /\ pc[w] = "promote"
    BY <1>4 DEF PromoteDueRem
  <2>3. OnlyAt(w) /\ pc'[w] \in {"promote", "promote_push"} /\ dropped \subseteq dropped'
    BY <2>1, <2>2 DEF OnlyAt
  <2>4. CASE ~ Executed(o) \/ x \notin delayed
    <3>1. delayed \subseteq delayed'
      BY <2>1, <2>4
    <3>2. GivesUp(w, {})
      BY <2>2, <2>3, <3>1 DEF GivesUp, Moving
    <3> QED BY <3>2, NothingGivenUp
  <2>5. CASE Executed(o) /\ x \in delayed
    <3>1. delayed' = delayed \ {x}
      BY <2>1, <2>5
    <3>2. x.id \in Safe'
      <4>1. CASE o = "ok"
        <5>1. pc'[w] \in Moving /\ orig'[w] = x
          BY <2>1, <2>5, <4>1 DEF Moving
        <5> QED BY <5>1, CopyIsSafe DEF Live, Carried
      <4>2. CASE o # "ok"
        BY <2>1, <2>5, <4>2 DEF Safe
      <4> QED BY <4>1, <4>2
    <3>3. GivesUp(w, {x})
      BY <2>2, <2>3, <3>1 DEF GivesUp, Moving
    <3> QED BY <3>2, <3>3, OneGivenUp
  <2> QED BY <2>4, <2>5
<1>5. ASSUME NEW w \in Procs, PromoteDuePush(w), UNCHANGED history PROVE DeliveryInv'
  <2>1. PICK o \in Outcomes :
          /\ ready' = IF Executed(o) THEN Append(ready, orig[w]) ELSE ready
          /\ dropped' = IF Executed(o) THEN dropped ELSE dropped \cup {orig[w].id}
    BY <1>5 DEF PromoteDuePush
  <2>2. /\ UNCHANGED <<processing, dead, delayed, lease, history>>
        /\ pc[w] = "promote_push" /\ pc' = [pc EXCEPT ![w] = "promote"]
        /\ orig' = [orig EXCEPT ![w] = None]
    BY <1>5 DEF PromoteDuePush
  <2>3. orig[w] \in Payload
    BY <2>2 DEF LocalInv, HasOrig, Moving
  <2>4. ToSet(Append(ready, orig[w])) = ToSet(ready) \cup {orig[w]}
    BY <2>3, AppendToSet, SMT
  <2>5. OnlyAt(w) /\ dropped \subseteq dropped' /\ ToSet(ready) \subseteq ToSet(ready')
    BY <2>1, <2>2, <2>4 DEF OnlyAt
  <2>6. orig[w].id \in Safe'
    <3>1. CASE Executed(o)
      BY <2>1, <2>4, <3>1, CopyIsSafe DEF Live
    <3>2. CASE ~ Executed(o)
      BY <2>1, <3>2 DEF Safe
    <3> QED BY <3>1, <3>2
  <2>7. GivesUp(w, {orig[w]})
    BY <2>2, <2>5 DEF GivesUp
  <2> QED BY <2>6, <2>7, OneGivenUp
<1>6. ASSUME NEW w \in Procs, ReclaimStaleRem(w), UNCHANGED history PROVE DeliveryInv'
  <2>1. PICK x \in todo[w], o \in Outcomes : ReclaimStaleRem(w)!2!(x, o)
    BY <1>6 DEF ReclaimStaleRem
  <2>2. UNCHANGED <<ready, delayed, dead, lease, history>> /\ pc[w] = "reclaim"
    BY <1>6 DEF ReclaimStaleRem
  <2>3. /\ pc'[w] \in {"dequeue", "reclaim", "reclaim_push"} /\ dropped \subseteq dropped'
        /\ OnlyAt(w)
    BY <2>1, <2>2 DEF OnlyAt
  <2>4. ToSet(processing) \subseteq ToSet(processing') \cup {x}
    BY <2>1, RemoveFirstToSet
  <2>5. CASE x \in ToSet(processing')
    <3>1. GivesUp(w, {})
      BY <2>2, <2>3, <2>4, <2>5 DEF GivesUp, Moving
    <3> QED BY <3>1, NothingGivenUp
  <2>6. CASE x \notin ToSet(processing)
    <3>1. GivesUp(w, {})
      BY <2>2, <2>3, <2>4, <2>6 DEF GivesUp, Moving
    <3> QED BY <3>1, NothingGivenUp
  <2>7. CASE x \in ToSet(processing) /\ x \notin ToSet(processing')
    <3>1. Executed(o)
      BY <2>1, <2>7
    <3>2. x.id \in Safe'
      <4>1. CASE o = "ok"
        <5>1. pc'[w] \in Moving /\ orig'[w] = x
          BY <2>1, <2>7, <4>1 DEF Moving
        <5> QED BY <5>1, CopyIsSafe DEF Live, Carried
      <4>2. CASE o = "unread"
        BY <2>1, <2>7, <4>2 DEF Safe
      <4> QED BY <3>1, <4>1, <4>2 DEF Outcomes, Executed
    <3>3. GivesUp(w, {x})
      BY <2>2, <2>3, <2>4 DEF GivesUp, Moving
    <3> QED BY <3>2, <3>3, OneGivenUp
  <2> QED BY <2>5, <2>6, <2>7
<1>7. ASSUME NEW w \in Procs, NEW n \in Nat, pc[w] \in Moving, OnlyAt(w), pc'[w] \notin {"ack", "lease_rem"},
             \/ Enqueue(orig[w].id, n) /\ UNCHANGED dropped
             \/ UNCHANGED ready /\ dropped' = dropped \cup {orig[w].id},
             UNCHANGED <<processing, dead, delayed, history>>
      PROVE  DeliveryInv'
  <2>1. orig[w] \in Payload
    BY <1>7 DEF LocalInv, HasOrig
  <2>2. ToSet(ready) \subseteq ToSet(ready') /\ orig[w].id \in Safe'
    <3>1. CASE Enqueue(orig[w].id, n)
      <4>1. PICK x \in Payload : x.id = orig[w].id /\ ToSet(ready') = ToSet(ready) \cup {x}
        BY <2>1, <3>1, EnqueueAppendsNew
      <4> QED BY <4>1, CopyIsSafe DEF Live
    <3>2. CASE UNCHANGED ready /\ dropped' = dropped \cup {orig[w].id}
      BY <3>2 DEF Safe
    <3> QED BY <1>7, <3>1, <3>2
  <2>3. GivesUp(w, {orig[w]})
    BY <1>7, <2>2 DEF GivesUp
  <2> QED BY <2>2, <2>3, OneGivenUp
<1>8. ASSUME NEW w \in Procs, ReclaimStalePush(w), UNCHANGED history PROVE DeliveryInv'
  <2>1. /\ \E l \in {"dequeue", "reclaim"} : pc' = [pc EXCEPT ![w] = l]
        /\ orig' = [orig EXCEPT ![w] = None] /\ pc[w] = "reclaim_push"
        /\ UNCHANGED <<processing, dead, delayed, lease>>
        /\ \/ Enqueue(orig[w].id, orig[w].attempts) /\ UNCHANGED dropped
           \/ UNCHANGED ready /\ dropped' = dropped \cup {orig[w].id}
    BY <1>8 DEF ReclaimStalePush
  <2>2. OnlyAt(w) /\ pc'[w] \notin {"ack", "lease_rem"} /\ pc[w] \in Moving
    BY <2>1 DEF OnlyAt, Moving
  <2>3. orig[w].attempts \in Nat
    BY <2>2 DEF LocalInv, HasOrig
  <2> QED BY <1>7, <1>8, <2>1, <2>2, <2>3
<1>9. ASSUME NEW w \in Workers, DequeuePop(w), UNCHANGED history PROVE DeliveryInv'
  <2>1. PICK o \in Outcomes : DequeuePop(w)!3!(o)
    BY <1>9 DEF DequeuePop
  <2>2. /\ UNCHANGED <<dead, delayed, lease, dropped, history>> /\ pc[w] = "dequeue"
        /\ ready # <<>>
    BY <1>9 DEF DequeuePop
  <2>3. OnlyAt(w) /\ pc'[w] \in {"lease_push", "idle", "down"}
    BY <2>1, <2>2 DEF OnlyAt
  <2>4. CASE ~ Executed(o)
    <3>1. GivesUp(w, {})
      BY <2>1, <2>2, <2>3, <2>4 DEF GivesUp, Moving
    <3> QED BY <3>1, NothingGivenUp
  <2>5. CASE Executed(o)
    <3>1. Last(ready) \in Payload /\ ToSet(ready) = ToSet(Front(ready)) \cup {Last(ready)}
      BY <2>2, FrontLast
    <3>2. /\ ready' = Front(ready)
          /\ ToSet(processing') = ToSet(processing) \cup {Last(ready)}
      BY <2>1, <2>5, <3>1, ConsToSet, SMT
    <3>3. Doomed' \subseteq Doomed
      BY <2>3, StepAt
    <3>4. Last(ready) \notin Doomed'
      BY <3>1, <3>3, DoomedHeld DEF Waiting
    <3>5. Last(ready).id \in Safe'
      BY <3>2, <3>4, CopyIsSafe DEF Live
    <3>6. GivesUp(w, {Last(ready)})
      BY <2>2, <2>3, <3>1, <3>2 DEF GivesUp, Moving
    <3> QED BY <3>5, <3>6, OneGivenUp
  <2> QED BY <2>4, <2>5
<1>10. ASSUME NEW w \in Workers, DequeueLeasePush(w), UNCHANGED history PROVE DeliveryInv'
  <2>1. PICK x \in NewText(orig[w].id, orig[w].attempts, TRUE), o \in Outcomes :
          DequeueLeasePush(w)!2!(x, o)
    BY <1>10 DEF DequeueLeasePush
  <2>2. UNCHANGED <<ready, dead, delayed, dropped, history>> /\ pc[w] = "lease_push"
    BY <1>10 DEF DequeueLeasePush
  <2>3. orig[w] \in Payload /\ orig[w] \in Existing
    BY <2>2, CarriedExists DEF LocalInv, HasOrig, Dequeuing
  <2>4. x \in Payload /\ x.id = orig[w].id /\ x \notin Existing
    <3>1. orig[w] \in Payload /\ orig[w].attempts \in Nat /\ TRUE \in BOOLEAN
      BY <2>3
    <3> QED BY <3>1, Rewritten
  <2>5. ToSet(Cons(x, processing)) = ToSet(processing) \cup {x}
    BY <2>4, ConsToSet, SMT
  <2>6. OnlyAt(w)
    BY <2>1 DEF OnlyAt
  <2>7. CASE o = "ok"
    <3>1. /\ pc'[w] = "lease_rem" /\ orig'[w] = orig[w]
          /\ ToSet(processing') = ToSet(processing) \cup {x}
      BY <2>1, <2>5, <2>7 DEF Executed
    <3>2. x \notin Doomed'
      BY <2>3, <2>4, <2>6, <3>1, StepAt, DoomedHeld
    <3>3. orig[w].id \in Safe'
      BY <2>4, <3>1, <3>2, CopyIsSafe DEF Live
    <3>4. GivesUp(w, {orig[w]})
      BY <2>2, <2>6, <3>1 DEF GivesUp
    <3> QED BY <3>3, <3>4, OneGivenUp
  <2>8. CASE o # "ok"
    <3>1. pc'[w] = "down" /\ ToSet(processing) \subseteq ToSet(processing')
      BY <2>1, <2>5, <2>8
    <3>2. GivesUp(w, {})
      BY <2>2, <2>6, <3>1 DEF GivesUp, Moving
    <3> QED BY <3>2, NothingGivenUp
  <2> QED BY <2>7, <2>8
<1>11. ASSUME NEW w \in Workers, DequeueLeaseRem(w), UNCHANGED history PROVE DeliveryInv'
  <2>1. PICK o \in Outcomes : DequeueLeaseRem(w)!2!(o)
    BY <1>11 DEF DequeueLeaseRem
  <2>2. UNCHANGED <<ready, dead, delayed, dropped, history>> /\ pc[w] = "lease_rem"
    BY <1>11 DEF DequeueLeaseRem
  <2>3. ToSet(processing) \subseteq ToSet(processing') \cup {orig[w]}
    BY <2>1, RemoveFirstToSet
  <2>4. orig[w] \in Doomed
    BY <2>2 DEF Doomed
  <2>5. OnlyAt(w) /\ pc'[w] \in {"handle", "down"}
    BY <2>1 DEF OnlyAt
  <2>6. GivesUp(w, {})
    BY <2>2, <2>3, <2>4, <2>5 DEF GivesUp, Moving
  <2> QED BY <2>6, NothingGivenUp
<1>12. ASSUME NEW w \in Workers, HandlerSucceeds(w) PROVE DeliveryInv'
  <2>1. GivesUp(w, {lease[w]}) /\ lease[w].id \in Safe'
    BY <1>12 DEF HandlerSucceeds, GivesUp, OnlyAt, Moving, Safe
  <2> QED BY <2>1, OneGivenUp
<1>13. ASSUME NEW w \in Workers, NEW n \in Nat, EnqueueAfter(w, n, "ack"), pc[w] = "retry",
              UNCHANGED history
       PROVE  DeliveryInv'
  <2>1. PICK x \in NewText(lease[w].id, n, FALSE), o \in Outcomes :
          EnqueueAfter(w, n, "ack")!(x, o)
    BY <1>13 DEF EnqueueAfter
  <2>2. OnlyAt(w) /\ delayed \subseteq delayed'
    BY <2>1 DEF OnlyAt
  <2>3. CASE o = "ok"
    <3>1. lease[w] \in Payload
      BY <1>13 DEF LocalInv, Working
    <3>3. x.id = lease[w].id
      BY <3>1, Rewritten
    <3>4. x \in delayed' /\ lease'[w] = lease[w] /\ pc'[w] = "ack"
      BY <2>1, <2>3 DEF Executed
    <3>5. lease[w].id \in Safe'
      BY <3>3, <3>4, CopyIsSafe DEF Live
    <3>6. GivesUp(w, {lease[w]})
      BY <1>13, <2>1, <2>2, <3>4 DEF GivesUp, Moving
    <3> QED BY <3>5, <3>6, OneGivenUp
  <2>4. CASE o # "ok"
    <3>1. GivesUp(w, {})
      BY <1>13, <2>1, <2>2, <2>4 DEF GivesUp, Moving
    <3> QED BY <3>1, NothingGivenUp
  <2> QED BY <2>3, <2>4
<1>14. ASSUME NEW w \in Workers, NEW n \in Nat, NEW failed \in {"idle", "ack"},
              DeadLetter(w, n, failed), pc[w] \in {"handle", "retry"}, UNCHANGED history
       PROVE  DeliveryInv'
  <2>1. PICK x \in NewText(lease[w].id, n, FALSE), o \in Outcomes :
          DeadLetter(w, n, failed)!(x, o)
    BY <1>14 DEF DeadLetter
  <2>2. lease[w] \in Payload
    BY <1>14 DEF LocalInv, Working
  <2>3. x \in Payload /\ x.id = lease[w].id
    BY <2>2, Rewritten
  <2>4. ToSet(Cons(x, dead)) = ToSet(dead) \cup {x}
    BY <2>3, ConsToSet, SMT
  <2>5. OnlyAt(w) /\ ToSet(dead) \subseteq ToSet(dead') /\ dropped \subseteq dropped'
    BY <2>1, <2>4 DEF OnlyAt
  <2>6. CASE pc'[w] = "ack"
    <3>1. lease'[w] = lease[w]
      BY <2>1, <2>6
    <3>2. lease[w].id \in Safe'
      <4>1. CASE Executed(o)
        BY <2>1, <2>3, <2>4, <4>1, CopyIsSafe DEF Live
      <4>2. CASE ~ Executed(o)
        <5>1. failed = "ack"
          BY <2>1, <2>6, <4>2 DEF Executed
        <5> QED BY <2>1, <4>2, <5>1 DEF Safe
      <4> QED BY <4>1, <4>2
    <3>3. GivesUp(w, {lease[w]})
      BY <1>14, <2>1, <2>5, <2>6, <3>1 DEF GivesUp, Moving
    <3> QED BY <3>2, <3>3, OneGivenUp
  <2>7. CASE pc'[w] # "ack"
    <3>1. pc'[w] = "idle"
      BY <2>1, <2>7
    <3>2. GivesUp(w, {})
      BY <1>14, <2>1, <2>5, <3>1 DEF GivesUp, Moving
    <3> QED BY <3>2, NothingGivenUp
  <2> QED BY <2>6, <2>7
<1>15. ASSUME NEW w \in Workers, RetryJob(w) PROVE DeliveryInv'
  <2>1. lease[w] \in Payload
    BY <1>15 DEF RetryJob, LocalInv, Working
  <2>2. lease[w].attempts + 1 \in Nat
    BY <2>1, SMT
  <2>3. DeadLetter(w, lease[w].attempts + 1, "idle")
          \/ EnqueueAfter(w, lease[w].attempts + 1, "ack")
    BY <1>15 DEF RetryJob
  <2> QED BY <1>13, <1>14, <1>15, <2>2, <2>3 DEF RetryJob
<1>16. ASSUME NEW w \in Workers, NoHandler(w) PROVE DeliveryInv'
  <2>1. lease[w] \in Payload
    BY <1>16 DEF NoHandler, LocalInv, Working
  <2>2. lease[w].attempts \in Nat
    BY <2>1
  <2> QED BY <1>14, <1>16, <2>2 DEF NoHandler
<1>17. ASSUME NEW w \in Workers, Ack(w), UNCHANGED history PROVE DeliveryInv'
  <2>1. PICK o \in Outcomes : processing' = IF Executed(o) THEN RemoveFirst(processing, lease[w])
                                            ELSE processing
    BY <1>17 DEF Ack
  <2>2. ToSet(processing) \subseteq ToSet(processing') \cup {lease[w]}
    BY <2>1, RemoveFirstToSet
  <2>3. lease[w] \in Doomed
    BY <1>17 DEF Ack, Doomed
  <2>4. GivesUp(w, {})
    BY <1>17, <2>2, <2>3 DEF Ack, GivesUp, OnlyAt, Moving
  <2> QED BY <2>4, NothingGivenUp
<1>18. ASSUME NEW a \in Admins, ReplayDeadLetterRead(a), UNCHANGED history PROVE DeliveryInv'
  <2>1. GivesUp(a, {})
    BY <1>18 DEF ReplayDeadLetterRead, GivesUp, OnlyAt, Moving
  <2> QED BY <2>1, NothingGivenUp
<1>19. ASSUME NEW a \in Admins, ReplayDeadLetterRem(a), UNCHANGED history PROVE DeliveryInv'
  <2>1. PICK o \in Outcomes : ReplayDeadLetterRem(a)!2!(o)
    BY <1>19 DEF ReplayDeadLetterRem
  <2>2. UNCHANGED <<ready, processing, delayed, lease, history>> /\ pc[a] = "replay_rem"
    BY <1>19 DEF ReplayDeadLetterRem
  <2>3. OnlyAt(a) /\ pc'[a] \in {"replay_push", "idle"} /\ dropped \subseteq dropped'
    BY <2>1, <2>2 DEF OnlyAt
  <2>4. CASE ~ Executed(o)
    <3>1. GivesUp(a, {})
      BY <2>1, <2>2, <2>3, <2>4 DEF GivesUp, Moving
    <3> QED BY <3>1, NothingGivenUp
  <2>5. CASE Executed(o)
    <3>1. ToSet(dead) \subseteq ToSet(dead') \cup {orig[a]}
      BY <2>1, <2>5, RemoveFirstToSet
    <3>2. orig[a].id \in Safe'
      <4>1. CASE o = "ok"
        <5>1. pc'[a] \in Moving /\ orig'[a] = orig[a]
          BY <2>1, <4>1 DEF Moving
        <5>2. orig[a] \in Live'
          BY <5>1 DEF Live, Carried
        <5> QED BY <5>2, CopyIsSafe
      <4>2. CASE o # "ok"
        BY <2>1, <2>5, <4>2 DEF Safe
      <4> QED BY <4>1, <4>2
    <3>3. GivesUp(a, {orig[a]})
      BY <2>2, <2>3, <3>1 DEF GivesUp, Moving
    <3> QED BY <3>2, <3>3, OneGivenUp
  <2> QED BY <2>4, <2>5
<1>20. ASSUME NEW a \in Admins, ReplayDeadLetterPush(a), UNCHANGED history PROVE DeliveryInv'
  <2>1. /\ pc[a] = "replay_push" /\ pc' = [pc EXCEPT ![a] = "idle"]
        /\ orig' = [orig EXCEPT ![a] = None]
        /\ UNCHANGED <<processing, dead, delayed, lease>>
        /\ \/ Enqueue(orig[a].id, 0) /\ UNCHANGED dropped
           \/ UNCHANGED ready /\ dropped' = dropped \cup {orig[a].id}
    BY <1>20 DEF ReplayDeadLetterPush
  <2>2. OnlyAt(a) /\ pc'[a] \notin {"ack", "lease_rem"} /\ pc[a] \in Moving
    BY <2>1 DEF OnlyAt, Moving
  <2> QED BY <1>7, <1>20, <2>1, <2>2
<1>21. ASSUME NEW p \in Procs, Crash(p), UNCHANGED history PROVE DeliveryInv'
  <2>1. /\ UNCHANGED lists /\ OnlyAt(p) /\ pc'[p] = "down"
        /\ dropped' = IF pc[p] \in Moving THEN dropped \cup {orig[p].id} ELSE dropped
    BY <1>21 DEF Crash, OnlyAt
  <2>2. CASE pc[p] \in Moving
    <3>1. GivesUp(p, {orig[p]}) /\ orig[p].id \in Safe'
      BY <1>21, <2>1, <2>2 DEF GivesUp, Safe
    <3> QED BY <3>1, OneGivenUp
  <2>3. CASE pc[p] \notin Moving
    <3>1. GivesUp(p, {})
      BY <1>21, <2>1, <2>3 DEF GivesUp
    <3> QED BY <3>1, NothingGivenUp
  <2> QED BY <2>2, <2>3
<1>22. ASSUME UNCHANGED <<lists, local, dropped, history>> PROVE DeliveryInv'
  <2>1. Live' = Live
    BY <1>22 DEF Live, Doomed, Carried
  <2> QED BY <1>22, <2>1 DEF DeliveryInv, Safe, Ids
<1>23. ASSUME Environment PROVE DeliveryInv'
  <2>1. UNCHANGED history
    BY <1>23 DEF Environment
  <2>2. CASE DelayElapses \/ LeaseExpires
    BY <1>22, <2>1, <2>2 DEF DelayElapses, LeaseExpires
  <2>3. ASSUME NEW p \in Procs, Restart(p) PROVE DeliveryInv'
    <3>1. Goto(p, "idle") /\ pc[p] \notin Moving /\ UNCHANGED <<lists, orig, lease, dropped>>
      BY <2>3 DEF Restart, Moving
    <3> QED BY <1>2, <2>1, <3>1
  <2> QED BY <1>21, <1>23, <2>1, <2>2, <2>3 DEF Environment
<1>24. ASSUME NEW w \in Procs, Maintain(w) PROVE DeliveryInv'
  BY <1>3, <1>4, <1>5, <1>6, <1>8, <1>24 DEF Maintain
<1>25. ASSUME NEW w \in Workers, Dequeue(w) PROVE DeliveryInv'
  <2>1. CASE DequeueEmpty(w)
    <3>1. Goto(w, "idle") /\ pc[w] \notin Moving /\ UNCHANGED <<lists, orig, lease, dropped>>
      BY <2>1 DEF DequeueEmpty, Moving
    <3> QED BY <1>2, <1>25, <3>1 DEF Dequeue
  <2> QED BY <1>9, <1>10, <1>11, <1>25, <2>1 DEF Dequeue
<1>26. ASSUME NEW w \in Workers, WorkerStep(w) PROVE DeliveryInv'
  <2>1. CASE SkipMaintenance(w) \/ HandlerFails(w)
    <3>1. /\ \E l \in {"dequeue", "retry"} : Goto(w, l)
          /\ pc[w] \notin Moving /\ UNCHANGED <<lists, orig, lease, dropped, history>>
      BY <2>1 DEF SkipMaintenance, HandlerFails, Moving
    <3> QED BY <1>2, <3>1
  <2>2. CASE AckJob(w)
    BY <1>17, <2>2 DEF AckJob
  <2> QED BY <1>12, <1>15, <1>16, <1>24, <1>25, <1>26, <2>1, <2>2 DEF WorkerStep
<1>27. ASSUME NEW r \in Reconcilers, ReconcilerTick(r) PROVE DeliveryInv'
  <2>1. CASE ~ Maintain(r)
    <3>1. /\ Goto(r, "idle") /\ pc[r] \notin Moving
          /\ UNCHANGED <<lists, orig, lease, dropped, history>>
      BY <1>27, <2>1 DEF ReconcilerTick, Moving
    <3> QED BY <1>2, <3>1
  <2> QED BY <1>24, <2>1
<1>28. ASSUME NEW a \in Admins, Replay(a) PROVE DeliveryInv'
  BY <1>18, <1>19, <1>20, <1>28 DEF Replay
<1>29. ASSUME UNCHANGED vars PROVE DeliveryInv'
  BY <1>22, <1>29 DEF vars, queueVars
<1> QED BY <1>1, <1>later, <1>23, <1>26, <1>27, <1>28, <1>29 DEF Next

(* No job is lost but in the windows of PromoteDue, ReclaimStale,
   ReplayDeadLetter and of a job without a handler: whatever number of workers,
   reconcilers and administrators run, crash and lose replies, an enqueued job
   is handled, kept in a list, carried between two, or recorded in `dropped'. *)
THEOREM Delivered == Spec => []LossOnlyInWindows
<1>1. Init => DeliveryInv
  BY DEF Init, DeliveryInv
<1>2. TypeInvariant /\ LocalInv /\ WaitInv /\ DeliveryInv /\ [Next]_vars => DeliveryInv'
  BY DeliveryStep
<1>3. DeliveryInv => LossOnlyInWindows
  <2>1. Ids(Live) \subseteq Kept
    BY DEF Live, Carried, Kept, Ids
  <2> QED BY <2>1 DEF DeliveryInv, Safe, LossOnlyInWindows
<1> QED BY <1>1, <1>2, <1>3, TypeCorrect, WaitAlways, PTL DEF Spec
=============================================================================
