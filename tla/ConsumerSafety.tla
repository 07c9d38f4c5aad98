---------------------------- MODULE ConsumerSafety ---------------------------
(***************************************************************************)
(* The consumers on the Redis queue, for any number of jobs, workers,      *)
(* reconcilers, requests, attempts and faults: type correctness, and that  *)
(* a text waits for a worker in one place only.                            *)
(***************************************************************************)
EXTENDS Consumer, ListLemmas, FiniteSetTheorems

(* The prover of the leaves that do not name another. *)
USE Zenon

(* Labels at which a process has a payload in orig; Working is the same for
   lease. *)
Dequeuing == {"lease_push", "lease_rem"}
HasOrig == Dequeuing \cup Moving \cup {"replay_rem"}

LocalInv ==
  \A p \in Procs :
    /\ pc[p] \in HasOrig => orig[p] \in Payload
    /\ pc[p] \in Working => lease[p] \in Payload /\ lease[p].leased

-----------------------------------------------------------------------------
(* A rewritten text is a payload of its job that no list and no process has. *)
LEMMA NewTextIsNew ==
  ASSUME NEW j \in Jobs, NEW n \in Nat, NEW l \in BOOLEAN, NEW x \in NewText(j, n, l)
  PROVE  /\ x \in Payload /\ x.id = j /\ x.attempts = n /\ x.leased = l
         /\ x \notin Existing
<1>1. x \in [id : {j}, attempts : {n}, stamp : Stamps, leased : {l}] /\ x \notin Existing
  BY DEF NewText
<1> QED BY <1>1 DEF Payload

(* ReclaimStale reads payloads, and finitely many. *)
LEMMA StaleRead ==
  ASSUME TypeInvariant
  PROVE  LET stale == StaleIn(SubSeq(processing, 1, Min({ScanLimit, Len(processing)})))
         IN  /\ stale \subseteq ToSet(processing) /\ stale \subseteq Payload
             /\ Cardinality({x \in stale : ~ x.leased /\ Held(x)}) \in Nat
             /\ Cardinality({x \in stale : ~ x.leased /\ Held(x)}) = 0 =>
                  \A x \in stale : ~ (~ x.leased /\ Held(x))
<1> DEFINE k == Min({ScanLimit, Len(processing)})
           read == SubSeq(processing, 1, k)
           taken == {x \in StaleIn(read) : ~ x.leased /\ Held(x)}
<1>1. processing \in Seq(Payload) /\ Len(processing) \in Nat /\ ScanLimit \in Nat
  BY QueueAssumption, LenProperties DEF TypeInvariant
<1>2. k \in 0..Len(processing)
  <2>1. {ScanLimit, Len(processing)} \in SUBSET Nat /\ {ScanLimit, Len(processing)} # {}
    BY <1>1
  <2>2. k \in {ScanLimit, Len(processing)} /\ k <= Len(processing)
    BY <2>1, LeastPosition
  <2> QED BY <1>1, <2>2, SMT
<1> HIDE DEF k
<1>3. ToSet(read) \subseteq ToSet(processing) /\ ToSet(processing) \subseteq Payload
  BY <1>1, <1>2, PrefixToSet, InToSet
<1>4. IsFiniteSet(ToSet(processing))
  <2>1. IsFiniteSet(1..Len(processing)) /\ DOMAIN processing = 1..Len(processing)
    BY <1>1, FS_Interval, LenProperties, SMT
  <2>2. processing \in Surjection(1..Len(processing), ToSet(processing))
    BY <1>1, <2>1, LenProperties DEF Surjection, ToSet
  <2> QED BY <2>1, <2>2, FS_Surjection
<1>5. StaleIn(read) \subseteq ToSet(read)
  BY DEF StaleIn
<1>6. taken \subseteq ToSet(processing)
  BY <1>3, <1>5
<1>7. Cardinality(taken) \in Nat /\ (Cardinality(taken) = 0 => taken = {})
  BY <1>4, <1>6, FS_Subset, FS_CardinalityType, FS_EmptySet, SMT
<1> QED BY <1>3, <1>5, <1>7 DEF k

(* No command is charged beyond the bound. *)
LEMMA FaultTypes ==
  ASSUME faults \in 0..MaxFaults, NEW o \in Outcomes, Charge(o)
  PROVE  faults' \in 0..MaxFaults
  BY QueueAssumption, SMT DEF Outcomes, Charge

(* Enqueue adds one new text, without a lease, to the ready list. *)
LEMMA EnqueueAppendsNew ==
  ASSUME TypeInvariant, NEW j \in Jobs, NEW n \in Nat, Enqueue(j, n)
  PROVE  /\ ready' \in Seq(Payload)
         /\ \E x \in Payload :
              /\ x.id = j /\ x.attempts = n /\ ~ x.leased /\ x \notin Existing
              /\ ToSet(ready') = ToSet(ready) \cup {x}
              /\ IsInjective(ready) => IsInjective(ready')
<1>1. PICK x \in NewText(j, n, FALSE) : ready' = Append(ready, x)
  BY DEF Enqueue
<1>2. x \in Payload /\ x.id = j /\ x.attempts = n /\ ~ x.leased /\ x \notin Existing
  <2>1. /\ x \in Payload /\ x.id = j /\ x.attempts = n /\ x.leased = FALSE
        /\ x \notin Existing
    BY NewTextIsNew
  <2> QED BY <2>1
<1>3. x \notin ToSet(ready)
  BY <1>2 DEF Existing
<1>4. ready \in Seq(Payload)
  BY DEF TypeInvariant
<1>5. /\ ready' \in Seq(Payload) /\ ToSet(ready') = ToSet(ready) \cup {x}
      /\ IsInjective(ready) => IsInjective(ready')
  BY <1>1, <1>2, <1>3, <1>4, AppendToSet, SMT
<1> QED BY <1>2, <1>5

(* Every command of a consumer, a reconciler or a replay, every fault and every
   tick of the clock preserves the types and what the processes hold. *)
LEMMA TypeStep ==
  ASSUME TypeInvariant, LocalInv, [Next]_vars
  PROVE  TypeInvariant' /\ LocalInv'
<1> USE DEF Goto, Forget, Labels, local, lists, history, HasOrig, Working, Dequeuing, Moving
<1>0. /\ Workers \subseteq Procs /\ Reconcilers \subseteq Procs /\ Admins \subseteq Procs
  BY DEF Procs
<1>p. \A x \in Payload : x.id \in Jobs /\ x.attempts \in Nat
  BY DEF Payload
<1> USE <1>0, <1>p
<1>1. ASSUME NEW j \in Jobs, Produce(j) PROVE TypeInvariant' /\ LocalInv'
  <2>1. ready' \in Seq(Payload)
    BY <1>1, EnqueueAppendsNew DEF Produce
  <2> QED BY <1>1, <2>1 DEF Produce, TypeInvariant, LocalInv
<1>later. ASSUME NEW j \in Jobs, ProduceLater(j) PROVE TypeInvariant' /\ LocalInv'
  <2>1. PICK x \in NewText(j, 0, FALSE) : delayed' = delayed \cup {x}
    BY <1>later DEF ProduceLater
  <2>2. x \in Payload
    BY <2>1, NewTextIsNew
  <2> QED BY <1>later, <2>1, <2>2 DEF ProduceLater, TypeInvariant, LocalInv
<1>2. ASSUME NEW w \in Workers, SkipMaintenance(w), UNCHANGED history
      PROVE  TypeInvariant' /\ LocalInv'
  BY <1>2 DEF SkipMaintenance, TypeInvariant, LocalInv
<1>3. ASSUME NEW w \in Procs, PromoteDueRead(w), UNCHANGED history
      PROVE  TypeInvariant' /\ LocalInv'
  BY <1>3, FaultTypes, SMT DEF PromoteDueRead, TypeInvariant, LocalInv
<1>4. ASSUME NEW w \in Procs, PromoteDueRem(w), UNCHANGED history
      PROVE  TypeInvariant' /\ LocalInv'
  <2>1. PICK x \in todo[w], o \in Outcomes : PromoteDueRem(w)!2!(x, o)
    BY <1>4 DEF PromoteDueRem
  <2>2. x \in Payload /\ faults' \in 0..MaxFaults
    BY <2>1, FaultTypes DEF TypeInvariant
  <2>3. CASE o = "ok"
    <3>1. /\ todo' \in [Procs -> SUBSET Payload]
          /\ delayed' \subseteq Payload /\ aged' \subseteq Payload
      BY <2>1, <2>3 DEF TypeInvariant
    <3>2. orig' \in [Procs -> Payload \cup {None}] /\ pc' \in [Procs -> Labels]
      BY <2>1, <2>2, <2>3 DEF TypeInvariant
    <3>3. LocalInv'
      BY <1>4, <2>1, <2>2, <2>3, SMT DEF PromoteDueRem, TypeInvariant, LocalInv
    <3> QED BY <1>4, <2>1, <2>2, <2>3, <3>1, <3>2, <3>3 DEF PromoteDueRem, TypeInvariant
  <2>4. CASE o # "ok"
    BY <1>4, <2>1, <2>2, <2>4 DEF PromoteDueRem, TypeInvariant, LocalInv
  <2> QED BY <2>3, <2>4
<1>5. ASSUME NEW w \in Procs, PromoteDuePush(w), UNCHANGED history
      PROVE  TypeInvariant' /\ LocalInv'
  <2>1. PICK o \in Outcomes : PromoteDuePush(w)!2!(o)
    BY <1>5 DEF PromoteDuePush
  <2>2. orig[w] \in Payload /\ faults' \in 0..MaxFaults
    BY <1>5, <2>1, FaultTypes DEF TypeInvariant, LocalInv, PromoteDuePush
  <2>3. Append(ready, orig[w]) \in Seq(Payload)
    BY <2>2, AppendToSet DEF TypeInvariant
  <2>4. TypeInvariant'
    BY <1>5, <2>1, <2>2, <2>3 DEF PromoteDuePush, TypeInvariant
  <2>5. LocalInv'
    BY <1>5, <2>1, <2>2, <2>3 DEF PromoteDuePush, TypeInvariant, LocalInv
  <2> QED BY <2>4, <2>5
<1>6. ASSUME NEW w \in Procs, ReclaimStaleRead(w), UNCHANGED history
      PROVE  TypeInvariant' /\ LocalInv'
  <2> DEFINE stale == StaleIn(SubSeq(processing, 1, Min({ScanLimit, Len(processing)})))
             taken == Cardinality({x \in stale : ~ x.leased /\ Held(x)})
  <2>1. stale \subseteq Payload /\ taken \in Nat
    BY StaleRead
  <2>2. \/ /\ faults + taken <= MaxFaults /\ faults' = faults + taken
           /\ todo' = [todo EXCEPT ![w] = stale]
           /\ Goto(w, IF stale = {} THEN "dequeue" ELSE "reclaim")
        \/ /\ faults < MaxFaults /\ faults' = faults + 1
           /\ Goto(w, "dequeue") /\ UNCHANGED todo
    BY <1>6 DEF ReclaimStaleRead
  <2> HIDE DEF stale, taken
  <2>3. faults' \in 0..MaxFaults
    BY <2>1, <2>2, QueueAssumption, SMT DEF TypeInvariant
  <2> QED BY <1>6, <2>1, <2>2, <2>3, SMT DEF ReclaimStaleRead, TypeInvariant, LocalInv
<1>7. ASSUME NEW w \in Procs, ReclaimStaleRem(w), UNCHANGED history
      PROVE  TypeInvariant' /\ LocalInv'
  <2>1. PICK x \in todo[w], o \in Outcomes : ReclaimStaleRem(w)!2!(x, o)
    BY <1>7 DEF ReclaimStaleRem
  <2>2. x \in Payload /\ faults' \in 0..MaxFaults
    BY <2>1, FaultTypes DEF TypeInvariant
  <2>3. RemoveFirst(processing, x) \in Seq(Payload)
    BY RemoveFirstToSet DEF TypeInvariant
  <2>4. TypeInvariant'
    <3>1. /\ orig' \in [Procs -> Payload \cup {None}] /\ pc' \in [Procs -> Labels]
          /\ todo' \in [Procs -> SUBSET Payload]
      BY <2>1, <2>2 DEF TypeInvariant
    <3>2. /\ processing' \in Seq(Payload) /\ aged' \subseteq Payload
          /\ dropped' \subseteq Jobs
      BY <2>1, <2>2, <2>3 DEF TypeInvariant
    <3> QED BY <1>7, <2>2, <3>1, <3>2 DEF ReclaimStaleRem, TypeInvariant
  <2>5. LocalInv'
    BY <1>7, <2>1, <2>2, SMT DEF ReclaimStaleRem, TypeInvariant, LocalInv
  <2> QED BY <2>4, <2>5
<1>8. ASSUME NEW w \in Procs, ReclaimStalePush(w), UNCHANGED history
      PROVE  TypeInvariant' /\ LocalInv'
  <2>1. PICK o \in Outcomes : ReclaimStalePush(w)!2!(o)
    BY <1>8 DEF ReclaimStalePush
  <2>2. orig[w] \in Payload /\ faults' \in 0..MaxFaults
    BY <1>8, <2>1, FaultTypes DEF TypeInvariant, LocalInv, ReclaimStalePush
  <2>3. Enqueue(orig[w].id, orig[w].attempts) => ready' \in Seq(Payload)
    BY <2>2, EnqueueAppendsNew
  <2>4. TypeInvariant'
    BY <1>8, <2>1, <2>2, <2>3, SMT DEF ReclaimStalePush, TypeInvariant
  <2>5. LocalInv'
    BY <1>8, <2>1, <2>2 DEF ReclaimStalePush, TypeInvariant, LocalInv
  <2> QED BY <2>4, <2>5
<1>9. ASSUME NEW w \in Workers, DequeuePop(w), UNCHANGED history
      PROVE  TypeInvariant' /\ LocalInv'
  <2>1. PICK o \in Outcomes : DequeuePop(w)!3!(o)
    BY <1>9 DEF DequeuePop
  <2>2. Last(ready) \in Payload /\ Front(ready) \in Seq(Payload) /\ faults' \in 0..MaxFaults
    BY <1>9, <2>1, FaultTypes, FrontLast DEF TypeInvariant, DequeuePop
  <2>3. Cons(Last(ready), processing) \in Seq(Payload)
    BY <2>2, ConsToSet DEF TypeInvariant
  <2>4. TypeInvariant'
    BY <1>9, <2>1, <2>2, <2>3 DEF DequeuePop, TypeInvariant
  <2>5. LocalInv'
    BY <1>9, <2>1, <2>2, <2>3 DEF DequeuePop, TypeInvariant, LocalInv
  <2> QED BY <2>4, <2>5
<1>10. ASSUME NEW w \in Workers, DequeueEmpty(w), UNCHANGED history
      PROVE  TypeInvariant' /\ LocalInv'
  BY <1>10 DEF DequeueEmpty, TypeInvariant, LocalInv
<1>11. ASSUME NEW w \in Workers, DequeueLeasePush(w), UNCHANGED history
      PROVE  TypeInvariant' /\ LocalInv'
  <2>1. PICK x \in NewText(orig[w].id, orig[w].attempts, TRUE), o \in Outcomes :
          DequeueLeasePush(w)!2!(x, o)
    BY <1>11 DEF DequeueLeasePush
  <2>2. orig[w] \in Payload /\ faults' \in 0..MaxFaults
    BY <1>11, <2>1, FaultTypes DEF TypeInvariant, LocalInv, DequeueLeasePush
  <2>3. x \in Payload /\ x.leased
    BY <2>1, <2>2, NewTextIsNew
  <2>4. Cons(x, processing) \in Seq(Payload)
    BY <2>3, ConsToSet DEF TypeInvariant
  <2>5. TypeInvariant'
    <3>1. /\ orig' \in [Procs -> Payload \cup {None}] /\ pc' \in [Procs -> Labels]
          /\ lease' \in [Procs -> Payload \cup {None}] /\ todo' \in [Procs -> SUBSET Payload]
      <4>1. CASE o = "ok"
        <5>1. pc' = [pc EXCEPT ![w] = "lease_rem"] /\ lease' = [lease EXCEPT ![w] = x]
          BY <2>1, <4>1
        <5>2. orig' = orig /\ todo' = todo
          BY <2>1, <4>1
        <5> QED BY <2>3, <5>1, <5>2 DEF TypeInvariant
      <4>2. CASE o # "ok"
        BY <2>1, <4>2 DEF TypeInvariant
      <4> QED BY <4>1, <4>2
    <3> QED BY <1>11, <2>1, <2>2, <2>4, <3>1 DEF DequeueLeasePush, TypeInvariant
  <2>6. LocalInv'
    BY <1>11, <2>1, <2>2, <2>3, <2>4, SMT DEF DequeueLeasePush, TypeInvariant, LocalInv
  <2> QED BY <2>5, <2>6
<1>12. ASSUME NEW w \in Workers, DequeueLeaseRem(w), UNCHANGED history
      PROVE  TypeInvariant' /\ LocalInv'
  <2>1. PICK o \in Outcomes : DequeueLeaseRem(w)!2!(o)
    BY <1>12 DEF DequeueLeaseRem
  <2>2. faults' \in 0..MaxFaults /\ RemoveFirst(processing, orig[w]) \in Seq(Payload)
    BY <2>1, FaultTypes, RemoveFirstToSet DEF TypeInvariant
  <2>3. TypeInvariant'
    BY <1>12, <2>1, <2>2 DEF DequeueLeaseRem, TypeInvariant
  <2>4. LocalInv'
    BY <1>12, <2>1, <2>2 DEF DequeueLeaseRem, TypeInvariant, LocalInv
  <2> QED BY <2>3, <2>4
<1>13. ASSUME NEW w \in Workers, HandlerSucceeds(w) PROVE TypeInvariant' /\ LocalInv'
  <2>1. lease[w] \in Payload
    BY <1>13 DEF HandlerSucceeds, LocalInv
  <2> QED BY <1>13, <2>1 DEF HandlerSucceeds, TypeInvariant, LocalInv
<1>14. ASSUME NEW w \in Workers, HandlerFails(w) PROVE TypeInvariant' /\ LocalInv'
  BY <1>14 DEF HandlerFails, TypeInvariant, LocalInv
<1>15. ASSUME NEW w \in Workers, NEW n \in Nat, pc[w] \in Working,
              EnqueueAfter(w, n, "ack"), UNCHANGED history
       PROVE  TypeInvariant' /\ LocalInv'
  <2>1. PICK x \in NewText(lease[w].id, n, FALSE), o \in Outcomes :
          EnqueueAfter(w, n, "ack")!(x, o)
    BY <1>15 DEF EnqueueAfter
  <2>2. lease[w] \in Payload /\ lease[w].leased /\ faults' \in 0..MaxFaults
    BY <1>15, <2>1, FaultTypes DEF TypeInvariant, LocalInv
  <2>3. x \in Payload
    BY <2>1, <2>2, NewTextIsNew
  <2>4. lease' \in [Procs -> Payload \cup {None}] /\ pc' \in [Procs -> Labels]
    BY <2>1 DEF TypeInvariant
  <2>5. TypeInvariant'
    BY <1>15, <2>1, <2>2, <2>3, <2>4 DEF TypeInvariant
  <2>6. LocalInv'
    BY <2>1, <2>2, SMT DEF TypeInvariant, LocalInv
  <2> QED BY <2>5, <2>6
<1>16. ASSUME NEW w \in Workers, NEW n \in Nat, NEW failed \in {"idle", "ack"},
              pc[w] \in Working, DeadLetter(w, n, failed), UNCHANGED history
       PROVE  TypeInvariant' /\ LocalInv'
  <2>1. PICK x \in NewText(lease[w].id, n, FALSE), o \in Outcomes :
          DeadLetter(w, n, failed)!(x, o)
    BY <1>16 DEF DeadLetter
  <2>2. lease[w] \in Payload /\ lease[w].leased /\ faults' \in 0..MaxFaults
    BY <1>16, <2>1, FaultTypes DEF TypeInvariant, LocalInv
  <2>3. x \in Payload
    BY <2>1, <2>2, NewTextIsNew
  <2>4. Cons(x, dead) \in Seq(Payload)
    BY <2>3, ConsToSet DEF TypeInvariant
  <2>5. /\ lease' \in [Procs -> Payload \cup {None}] /\ pc' \in [Procs -> Labels]
        /\ dropped' \subseteq Jobs
    BY <2>1, <2>2 DEF TypeInvariant
  <2>6. TypeInvariant'
    BY <1>16, <2>1, <2>2, <2>4, <2>5 DEF TypeInvariant
  <2>7. LocalInv'
    BY <2>1, <2>2 DEF TypeInvariant, LocalInv
  <2> QED BY <2>6, <2>7
<1>17. ASSUME NEW w \in Workers, RetryJob(w) PROVE TypeInvariant' /\ LocalInv'
  <2>1. lease[w].attempts + 1 \in Nat /\ pc[w] \in Working
    BY <1>17, SMT DEF RetryJob, LocalInv
  <2> QED BY <1>15, <1>16, <1>17, <2>1 DEF RetryJob
<1>18. ASSUME NEW w \in Workers, NoHandler(w) PROVE TypeInvariant' /\ LocalInv'
  <2>1. lease[w].attempts \in Nat /\ pc[w] \in Working
    BY <1>18 DEF NoHandler, LocalInv
  <2> QED BY <1>16, <1>18, <2>1 DEF NoHandler
<1>19. ASSUME NEW w \in Workers, Ack(w), UNCHANGED history PROVE TypeInvariant' /\ LocalInv'
  <2>1. PICK o \in Outcomes : Ack(w)!2!(o)
    BY <1>19 DEF Ack
  <2>2. faults' \in 0..MaxFaults /\ RemoveFirst(processing, lease[w]) \in Seq(Payload)
    BY <2>1, FaultTypes, RemoveFirstToSet DEF TypeInvariant
  <2>3. TypeInvariant'
    BY <1>19, <2>1, <2>2 DEF Ack, TypeInvariant
  <2>4. LocalInv'
    BY <1>19 DEF Ack, TypeInvariant, LocalInv
  <2> QED BY <2>3, <2>4
<1>20. ASSUME NEW w \in Reconcilers, pc[w] = "dequeue", Goto(w, "idle"),
              UNCHANGED <<lists, aged, orig, lease, todo, dropped, faults, history>>
       PROVE  TypeInvariant' /\ LocalInv'
  BY <1>20 DEF TypeInvariant, LocalInv
<1>21. ASSUME NEW a \in Admins, ReplayDeadLetterRead(a), UNCHANGED history
       PROVE  TypeInvariant' /\ LocalInv'
  <2>1. PICK x \in ToSet(dead) : ReplayDeadLetterRead(a)!2!(x)
    BY <1>21 DEF ReplayDeadLetterRead
  <2>2. x \in Payload
    BY <2>1, InToSet DEF TypeInvariant
  <2>3. faults' \in 0..MaxFaults
    BY <2>1, QueueAssumption, SMT DEF TypeInvariant
  <2>4. TypeInvariant'
    BY <1>21, <2>1, <2>2, <2>3 DEF ReplayDeadLetterRead, TypeInvariant
  <2>5. LocalInv'
    BY <1>21, <2>1, <2>2 DEF ReplayDeadLetterRead, TypeInvariant, LocalInv
  <2> QED BY <2>4, <2>5
<1>22. ASSUME NEW a \in Admins, ReplayDeadLetterRem(a), UNCHANGED history
       PROVE  TypeInvariant' /\ LocalInv'
  <2>1. PICK o \in Outcomes : ReplayDeadLetterRem(a)!2!(o)
    BY <1>22 DEF ReplayDeadLetterRem
  <2>2. orig[a] \in Payload
    BY <1>22 DEF ReplayDeadLetterRem, LocalInv
  <2>3. faults' \in 0..MaxFaults /\ RemoveFirst(dead, orig[a]) \in Seq(Payload)
    BY <2>1, FaultTypes, RemoveFirstToSet DEF TypeInvariant
  <2>4. TypeInvariant'
    BY <1>22, <2>1, <2>2, <2>3 DEF ReplayDeadLetterRem, TypeInvariant
  <2>5. LocalInv'
    BY <1>22, <2>1, <2>2 DEF ReplayDeadLetterRem, TypeInvariant, LocalInv
  <2> QED BY <2>4, <2>5
<1>23. ASSUME NEW a \in Admins, ReplayDeadLetterPush(a), UNCHANGED history
       PROVE  TypeInvariant' /\ LocalInv'
  <2>1. PICK o \in Outcomes : ReplayDeadLetterPush(a)!2!(o)
    BY <1>23 DEF ReplayDeadLetterPush
  <2>2. orig[a] \in Payload /\ faults' \in 0..MaxFaults
    BY <1>23, <2>1, FaultTypes DEF ReplayDeadLetterPush, LocalInv, TypeInvariant
  <2>3. Enqueue(orig[a].id, 0) => ready' \in Seq(Payload)
    BY <2>2, EnqueueAppendsNew
  <2>4. TypeInvariant'
    BY <1>23, <2>1, <2>2, <2>3, SMT DEF ReplayDeadLetterPush, TypeInvariant
  <2>5. LocalInv'
    BY <1>23 DEF ReplayDeadLetterPush, TypeInvariant, LocalInv
  <2> QED BY <2>4, <2>5
<1>24. ASSUME NEW p \in Procs, Crash(p), UNCHANGED history PROVE TypeInvariant' /\ LocalInv'
  <2>1. pc[p] \in Moving => orig[p] \in Payload
    BY DEF LocalInv
  <2>2. faults' \in 0..MaxFaults
    BY <1>24, QueueAssumption, SMT DEF Crash, TypeInvariant
  <2>3. TypeInvariant'
    BY <1>24, <2>1, <2>2 DEF Crash, TypeInvariant
  <2>4. LocalInv'
    BY <1>24 DEF Crash, TypeInvariant, LocalInv
  <2> QED BY <2>3, <2>4
<1>25. ASSUME NEW p \in Procs, Restart(p), UNCHANGED history PROVE TypeInvariant' /\ LocalInv'
  BY <1>25 DEF Restart, TypeInvariant, LocalInv
<1>26. ASSUME DelayElapses, UNCHANGED history PROVE TypeInvariant' /\ LocalInv'
  BY <1>26 DEF DelayElapses, TypeInvariant, LocalInv
<1>27. ASSUME LeaseExpires, UNCHANGED history PROVE TypeInvariant' /\ LocalInv'
  <2>1. PICK x \in {y \in ToSet(processing) : y.leased} \ aged : LeaseExpires!(x)
    BY <1>27 DEF LeaseExpires
  <2>2. x \in Payload /\ faults' \in 0..MaxFaults
    BY <2>1, InToSet, QueueAssumption, SMT DEF TypeInvariant
  <2> QED BY <1>27, <2>1, <2>2 DEF TypeInvariant, LocalInv
<1>28. ASSUME UNCHANGED vars PROVE TypeInvariant' /\ LocalInv'
  BY <1>28 DEF vars, queueVars, TypeInvariant, LocalInv
<1>29. ASSUME NEW w \in Procs, Maintain(w) PROVE TypeInvariant' /\ LocalInv'
  BY <1>3, <1>4, <1>5, <1>6, <1>7, <1>8, <1>29 DEF Maintain
<1>30. ASSUME NEW w \in Workers, WorkerStep(w) PROVE TypeInvariant' /\ LocalInv'
  <2>1. CASE Dequeue(w)
    BY <1>9, <1>10, <1>11, <1>12, <2>1 DEF Dequeue
  <2>2. CASE AckJob(w)
    BY <1>19, <2>2 DEF AckJob
  <2>3. CASE SkipMaintenance(w)
    BY <1>2, <2>3 DEF SkipMaintenance
  <2> QED BY <1>13, <1>14, <1>17, <1>18, <1>29, <1>30, <2>1, <2>2, <2>3 DEF WorkerStep
<1>31. ASSUME NEW r \in Reconcilers, ReconcilerTick(r) PROVE TypeInvariant' /\ LocalInv'
  BY <1>20, <1>29, <1>31 DEF ReconcilerTick
<1>32. ASSUME NEW a \in Admins, Replay(a) PROVE TypeInvariant' /\ LocalInv'
  BY <1>21, <1>22, <1>23, <1>32 DEF Replay
<1>33. ASSUME Environment PROVE TypeInvariant' /\ LocalInv'
  BY <1>24, <1>25, <1>26, <1>27, <1>33 DEF Environment
<1> QED BY <1>1, <1>later, <1>28, <1>30, <1>31, <1>32, <1>33 DEF Next

(* The types of the lists and of the processes' local state are invariant,
   together with what each label says about orig and lease. *)
THEOREM TypeCorrect == Spec => [](TypeInvariant /\ LocalInv)
<1>1. Init => TypeInvariant /\ LocalInv
  <2>1. <<>> \in Seq(Payload)
    BY EmptySeq
  <2> QED BY <2>1, QueueAssumption, SMT DEF Init, QueueInit, TypeInvariant, LocalInv, Labels,
             HasOrig, Working, Dequeuing, Moving
<1>2. TypeInvariant /\ LocalInv /\ [Next]_vars => (TypeInvariant /\ LocalInv)'
  BY TypeStep
<1> QED BY <1>1, <1>2, PTL DEF Spec

-----------------------------------------------------------------------------
(* However many consumers and reconcilers promote, reclaim and dequeue at
   once, a text waits for a worker in one place only. *)

(* Texts that wait for a worker.  Each is in one place only, and no worker
   that is about to remove the text it popped can hit one of them. *)
Promoted == {p \in Procs : pc[p] = "promote_push"}
Waiting == ToSet(ready) \cup delayed \cup {orig[p] : p \in Promoted}

WaitInv ==
  /\ IsInjective(ready) /\ ToSet(ready) \cap delayed = {}
  /\ \A p \in Promoted : orig[p] \notin ToSet(ready) \cup delayed
  /\ \A p, q \in Promoted : p # q => orig[p] # orig[q]
  /\ \A x \in Waiting : ~ x.leased
  /\ \A p \in Procs : pc[p] \in Dequeuing => orig[p] \notin Waiting
-----------------------------------------------------------------------------
(* No process takes up a text it did not have: those that promote or dequeue
   after the step did so before it. *)
NoNewCarrier ==
  \A p \in Procs :
    /\ pc'[p] = "promote_push" => pc[p] = "promote_push" /\ orig'[p] = orig[p]
    /\ pc'[p] \in Dequeuing => pc[p] \in Dequeuing /\ orig'[p] = orig[p]

(* What a process carries exists, so that no new text equals it. *)
LEMMA CarriedExists ==
  ASSUME LocalInv, NEW p \in Procs
  PROVE  /\ pc[p] \in HasOrig => orig[p] \in Existing
         /\ pc[p] \in Working => lease[p] \in Existing
<1>1. /\ pc[p] \in HasOrig => orig[p] # None
      /\ pc[p] \in Working => lease[p] # None
  BY NoneAssumption DEF LocalInv
<1>2. todo[p] \cup ({orig[p], lease[p]} \ {None})
        \in {todo[q] \cup ({orig[q], lease[q]} \ {None}) : q \in Procs}
  OBVIOUS
<1> QED BY <1>1, <1>2 DEF Existing

(* The waiting texts stay as they must be when the lists only lose texts or
   gain new ones. *)
LEMMA WaitKept ==
  ASSUME LocalInv, WaitInv, NoNewCarrier,
         NEW N, N \cap Existing = {}, \A x \in N : ~ x.leased,
         IsInjective(ready)', ToSet(ready)' \cap delayed' = {},
         ToSet(ready)' \cup delayed' \subseteq ToSet(ready) \cup delayed \cup N
  PROVE  WaitInv'
<1>1. \A p \in Procs : pc[p] \in HasOrig => orig[p] \notin N
  BY CarriedExists
<1>2. Promoted' \subseteq Promoted /\ \A p \in Promoted' : orig'[p] = orig[p]
  BY DEF NoNewCarrier, Promoted
<1>3. Promoted \subseteq Procs /\ \A p \in Promoted : pc[p] \in HasOrig
  BY DEF Promoted, HasOrig, Moving
<1>4. \A p \in Promoted' : orig'[p] \notin ToSet(ready)' \cup delayed'
  BY <1>1, <1>2, <1>3 DEF WaitInv
<1>5. \A p, q \in Promoted' : p # q => orig'[p] # orig'[q]
  BY <1>2 DEF WaitInv
<1>6. Waiting' \subseteq Waiting \cup N
  BY <1>2 DEF Waiting
<1>7. \A x \in Waiting' : ~ x.leased
  BY <1>6 DEF WaitInv
<1>8. ASSUME NEW p \in Procs, pc'[p] \in Dequeuing PROVE orig'[p] \notin Waiting'
  <2>1. pc[p] \in Dequeuing /\ orig'[p] = orig[p]
    BY <1>8 DEF NoNewCarrier
  <2>2. orig[p] \notin Waiting /\ orig[p] \notin N
    BY <1>1, <2>1 DEF WaitInv, HasOrig
  <2> QED BY <1>6, <2>1, <2>2
<1> QED BY <1>4, <1>5, <1>7, <1>8 DEF WaitInv

(* The case without new texts, and the one of an Enqueue. *)
LEMMA WaitUnchanged ==
  ASSUME LocalInv, WaitInv, NoNewCarrier, ready' = ready, delayed' \subseteq delayed
  PROVE  WaitInv'
<1>1. /\ {} \cap Existing = {} /\ \A x \in {} : ~ x.leased
  OBVIOUS
<1>2. /\ IsInjective(ready)' /\ ToSet(ready)' \cap delayed' = {}
      /\ ToSet(ready)' \cup delayed' \subseteq ToSet(ready) \cup delayed \cup {}
  BY DEF WaitInv
<1> QED BY <1>1, <1>2, WaitKept

LEMMA WaitEnqueue ==
  ASSUME TypeInvariant, LocalInv, WaitInv, NoNewCarrier, delayed' = delayed,
         NEW j \in Jobs, NEW n \in Nat, Enqueue(j, n)
  PROVE  WaitInv'
<1>1. PICK x \in Payload :
        /\ ~ x.leased /\ x \notin Existing
        /\ ToSet(ready') = ToSet(ready) \cup {x}
        /\ IsInjective(ready) => IsInjective(ready')
  BY EnqueueAppendsNew
<1>2. {x} \cap Existing = {} /\ \A y \in {x} : ~ y.leased
  BY <1>1
<1>3. x \notin delayed
  BY <1>1 DEF Existing
<1>4. /\ IsInjective(ready)' /\ ToSet(ready)' \cap delayed' = {}
      /\ ToSet(ready)' \cup delayed' \subseteq ToSet(ready) \cup delayed \cup {x}
  BY <1>1, <1>3 DEF WaitInv
<1> QED BY <1>2, <1>4, WaitKept

(* Every command, fault and tick of the clock keeps each waiting text in one
   place only. *)
LEMMA WaitStep ==
  ASSUME TypeInvariant, LocalInv, WaitInv, [Next]_vars
  PROVE  WaitInv'
<1> USE DEF Goto, Forget, local, lists, history
<1>0. /\ Workers \subseteq Procs /\ Reconcilers \subseteq Procs /\ Admins \subseteq Procs
      /\ \A x \in Payload : x.id \in Jobs /\ x.attempts \in Nat
  BY DEF Procs, Payload
<1>t. /\ pc \in [Procs -> Labels] /\ orig \in [Procs -> Payload \cup {None}]
      /\ ready \in Seq(Payload) /\ delayed \subseteq Payload
  BY DEF TypeInvariant
<1> USE <1>0, <1>t
<1>1. ASSUME NEW j \in Jobs, Produce(j) PROVE WaitInv'
  <2>1. NoNewCarrier /\ delayed' = delayed /\ Enqueue(j, 0)
    BY <1>1 DEF Produce, NoNewCarrier
  <2> QED BY <2>1, WaitEnqueue
<1>later. ASSUME NEW j \in Jobs, ProduceLater(j) PROVE WaitInv'
  <2>1. PICK x \in NewText(j, 0, FALSE) : delayed' = delayed \cup {x}
    BY <1>later DEF ProduceLater
  <2>2. x.leased = FALSE /\ x \notin Existing
    BY <2>1, NewTextIsNew
  <2>3. {x} \cap Existing = {} /\ \A y \in {x} : ~ y.leased
    BY <2>2
  <2>4. NoNewCarrier /\ ready' = ready
    BY <1>later DEF ProduceLater, NoNewCarrier
  <2>5. x \notin ToSet(ready)
    BY <2>2 DEF Existing
  <2>6. /\ IsInjective(ready)' /\ ToSet(ready)' \cap delayed' = {}
        /\ ToSet(ready)' \cup delayed' \subseteq ToSet(ready) \cup delayed \cup {x}
    BY <2>1, <2>4, <2>5 DEF WaitInv
  <2> QED BY <2>3, <2>4, <2>6, WaitKept
<1>2. ASSUME NEW w \in Procs, NEW l \in {"idle", "dequeue", "ack", "retry", "handle"},
             Goto(w, l), UNCHANGED <<ready, delayed, orig>>
      PROVE  WaitInv'
  BY <1>2, WaitUnchanged DEF NoNewCarrier, Dequeuing
<1>3. ASSUME NEW w \in Procs, PromoteDueRead(w) PROVE WaitInv'
  BY <1>3, WaitUnchanged DEF PromoteDueRead, NoNewCarrier, Dequeuing
<1>4. ASSUME NEW w \in Procs, PromoteDueRem(w) PROVE WaitInv'
  <2>1. PICK x \in todo[w], o \in Outcomes : PromoteDueRem(w)!2!(x, o)
    BY <1>4 DEF PromoteDueRem
  <2>2. CASE ~ (o = "ok" /\ x \in delayed)
    <3>1. UNCHANGED <<ready, orig, pc>> /\ delayed' \subseteq delayed
      BY <1>4, <2>1, <2>2 DEF PromoteDueRem
    <3> QED BY <3>1, WaitUnchanged DEF NoNewCarrier
  <2>3. CASE o = "ok" /\ x \in delayed
    <3>1. /\ ready' = ready /\ delayed' = delayed \ {x}
          /\ orig' = [orig EXCEPT ![w] = x] /\ pc' = [pc EXCEPT ![w] = "promote_push"]
          /\ pc[w] = "promote"
      BY <1>4, <2>1, <2>3 DEF PromoteDueRem, Executed
    <3>2. Promoted' = Promoted \cup {w} /\ w \notin Promoted
      BY <3>1 DEF Promoted
    <3>3. Waiting' = Waiting
      BY <2>3, <3>1, <3>2 DEF Waiting, Promoted
    <3>4. /\ IsInjective(ready)' /\ ToSet(ready)' \cap delayed' = {}
          /\ \A p \in Promoted' : orig'[p] \notin ToSet(ready)' \cup delayed'
      BY <2>3, <3>1, <3>2 DEF WaitInv, Promoted
    <3>5. \A p, q \in Promoted' : p # q => orig'[p] # orig'[q]
      BY <2>3, <3>1, <3>2 DEF WaitInv, Promoted
    <3>6. \A p \in Procs : pc'[p] \in Dequeuing => orig'[p] \notin Waiting'
      BY <3>1, <3>3 DEF WaitInv, Dequeuing
    <3> QED BY <3>3, <3>4, <3>5, <3>6 DEF WaitInv
  <2> QED BY <2>2, <2>3
<1>5. ASSUME NEW w \in Procs, PromoteDuePush(w) PROVE WaitInv'
  <2>1. PICK o \in Outcomes : ready' = IF Executed(o) THEN Append(ready, orig[w]) ELSE ready
    BY <1>5 DEF PromoteDuePush
  <2>2. /\ pc[w] = "promote_push" /\ pc' = [pc EXCEPT ![w] = "promote"]
        /\ orig' = [orig EXCEPT ![w] = None] /\ delayed' = delayed
    BY <1>5 DEF PromoteDuePush
  <2>3. CASE ~ Executed(o)
    BY <2>1, <2>2, <2>3, WaitUnchanged DEF NoNewCarrier, Dequeuing
  <2>4. CASE Executed(o)
    <3>1. w \in Promoted /\ orig[w] \in Payload
      BY <2>2 DEF Promoted, LocalInv, HasOrig, Moving
    <3>2. /\ ToSet(ready') = ToSet(ready) \cup {orig[w]}
          /\ IsInjective(ready')
      BY <2>1, <2>4, <3>1, AppendToSet, SMT DEF WaitInv
    <3>3. Promoted' = Promoted \ {w}
      BY <2>2 DEF Promoted
    <3>4. Waiting' = Waiting
      BY <2>2, <3>1, <3>2, <3>3 DEF Waiting, Promoted
    <3>5. /\ ToSet(ready)' \cap delayed' = {}
          /\ \A p \in Promoted' : orig'[p] \notin ToSet(ready)' \cup delayed'
      BY <2>2, <3>1, <3>2, <3>3 DEF WaitInv, Promoted
    <3>6. \A p, q \in Promoted' : p # q => orig'[p] # orig'[q]
      BY <2>2, <3>3 DEF WaitInv, Promoted
    <3>7. \A p \in Procs : pc'[p] \in Dequeuing => orig'[p] \notin Waiting'
      BY <2>2, <3>4 DEF WaitInv, Dequeuing
    <3> QED BY <3>2, <3>4, <3>5, <3>6, <3>7 DEF WaitInv
  <2> QED BY <2>3, <2>4
<1>6. ASSUME NEW w \in Procs, ReclaimStaleRead(w) PROVE WaitInv'
  <2>1. \E l \in {"dequeue", "reclaim"} : pc' = [pc EXCEPT ![w] = l]
    BY <1>6 DEF ReclaimStaleRead
  <2> QED BY <1>6, <2>1, WaitUnchanged DEF ReclaimStaleRead, NoNewCarrier, Dequeuing
<1>7. ASSUME NEW w \in Procs, ReclaimStaleRem(w) PROVE WaitInv'
  <2>1. /\ \E l \in {"dequeue", "reclaim", "reclaim_push"} : pc' = [pc EXCEPT ![w] = l]
        /\ orig' = orig \/ \E x : orig' = [orig EXCEPT ![w] = x]
    BY <1>7 DEF ReclaimStaleRem
  <2>2. NoNewCarrier
    BY <2>1 DEF NoNewCarrier, Dequeuing
  <2> QED BY <1>7, <2>2, WaitUnchanged DEF ReclaimStaleRem
<1>8. ASSUME NEW w \in Procs, ReclaimStalePush(w) PROVE WaitInv'
  <2>1. /\ \E l \in {"dequeue", "reclaim"} : pc' = [pc EXCEPT ![w] = l]
        /\ orig' = [orig EXCEPT ![w] = None] /\ pc[w] = "reclaim_push" /\ delayed' = delayed
    BY <1>8 DEF ReclaimStalePush
  <2>2. NoNewCarrier /\ orig[w] \in Payload
    BY <2>1 DEF NoNewCarrier, Dequeuing, LocalInv, HasOrig, Moving
  <2>3. ready' = ready \/ Enqueue(orig[w].id, orig[w].attempts)
    BY <1>8 DEF ReclaimStalePush
  <2> QED BY <2>1, <2>2, <2>3, WaitUnchanged, WaitEnqueue
<1>9. ASSUME NEW w \in Workers, DequeuePop(w) PROVE WaitInv'
  <2>1. PICK o \in Outcomes : DequeuePop(w)!3!(o)
    BY <1>9 DEF DequeuePop
  <2>2. /\ ToSet(ready) = ToSet(Front(ready)) \cup {Last(ready)}
        /\ IsInjective(Front(ready)) /\ Last(ready) \notin ToSet(Front(ready))
    BY <1>9, FrontLast DEF DequeuePop, WaitInv
  <2>3. delayed' = delayed
    BY <1>9 DEF DequeuePop
  <2>4. CASE o # "ok"
    <3>1. \E l \in {"idle", "down"} : pc' = [pc EXCEPT ![w] = l]
      BY <2>1, <2>4
    <3>2. orig' = orig /\ (ready' = ready \/ ready' = Front(ready))
      BY <2>1, <2>4
    <3>3. NoNewCarrier
      BY <3>1, <3>2 DEF NoNewCarrier, Dequeuing
    <3>4. /\ IsInjective(ready)' /\ ToSet(ready)' \cap delayed' = {}
          /\ ToSet(ready)' \cup delayed' \subseteq ToSet(ready) \cup delayed \cup {}
      BY <2>2, <2>3, <3>2 DEF WaitInv
    <3> QED BY <3>3, <3>4, WaitKept
  <2>5. CASE o = "ok"
    <3>1. /\ ready' = Front(ready) /\ orig' = [orig EXCEPT ![w] = Last(ready)]
          /\ pc' = [pc EXCEPT ![w] = "lease_push"] /\ pc[w] = "dequeue"
      BY <1>9, <2>1, <2>5 DEF DequeuePop, Executed
    <3>2. Promoted' = Promoted /\ \A p \in Promoted : orig'[p] = orig[p] /\ p # w
      BY <3>1 DEF Promoted
    <3>3. Waiting' = Waiting \ {Last(ready)}
      <4>1. {orig'[p] : p \in Promoted'} = {orig[p] : p \in Promoted}
        BY <3>2
      <4>2. Last(ready) \notin delayed /\ Last(ready) \notin {orig[p] : p \in Promoted}
        BY <2>2 DEF WaitInv
      <4> QED BY <2>2, <2>3, <3>1, <4>1, <4>2 DEF Waiting
    <3>4. /\ IsInjective(ready)' /\ ToSet(ready)' \cap delayed' = {}
          /\ \A p \in Promoted' : orig'[p] \notin ToSet(ready)' \cup delayed'
      BY <2>2, <2>3, <3>1, <3>2, SMT DEF WaitInv
    <3>5. \A p, q \in Promoted' : p # q => orig'[p] # orig'[q]
      BY <3>2 DEF WaitInv
    <3>6. \A p \in Procs : pc'[p] \in Dequeuing => orig'[p] \notin Waiting'
      BY <3>1, <3>3 DEF WaitInv, Dequeuing
    <3> QED BY <3>3, <3>4, <3>5, <3>6 DEF WaitInv
  <2> QED BY <2>4, <2>5
<1>10. ASSUME NEW w \in Workers, DequeueLeasePush(w) PROVE WaitInv'
  <2>1. /\ UNCHANGED <<ready, delayed>> /\ pc[w] = "lease_push"
        /\ \/ orig' = orig /\ pc' = [pc EXCEPT ![w] = "lease_rem"]
           \/ orig' = [orig EXCEPT ![w] = None] /\ pc' = [pc EXCEPT ![w] = "down"]
    BY <1>10 DEF DequeueLeasePush
  <2> QED BY <2>1, WaitUnchanged DEF NoNewCarrier, Dequeuing
<1>11. ASSUME NEW w \in Workers, DequeueLeaseRem(w) PROVE WaitInv'
  <2>1. /\ UNCHANGED <<ready, delayed>> /\ orig' = [orig EXCEPT ![w] = None]
        /\ \E l \in {"handle", "down"} : pc' = [pc EXCEPT ![w] = l]
    BY <1>11 DEF DequeueLeaseRem
  <2> QED BY <2>1, WaitUnchanged DEF NoNewCarrier, Dequeuing
<1>12. ASSUME NEW w \in Workers, NEW n \in Nat, pc[w] \in Working, EnqueueAfter(w, n, "ack")
       PROVE  WaitInv'
  <2>1. PICK x \in NewText(lease[w].id, n, FALSE), o \in Outcomes :
          EnqueueAfter(w, n, "ack")!(x, o)
    BY <1>12 DEF EnqueueAfter
  <2>2. lease[w] \in Payload
    BY <1>12 DEF LocalInv
  <2>3. x.leased = FALSE /\ x \notin Existing
    BY <2>1, <2>2, NewTextIsNew
  <2>4. {x} \cap Existing = {} /\ \A y \in {x} : ~ y.leased
    BY <2>3
  <2>5. NoNewCarrier
    BY <2>1 DEF NoNewCarrier, Dequeuing
  <2>6. x \notin ToSet(ready)
    BY <2>3 DEF Existing
  <2>7. /\ IsInjective(ready)' /\ ToSet(ready)' \cap delayed' = {}
        /\ ToSet(ready)' \cup delayed' \subseteq ToSet(ready) \cup delayed \cup {x}
    BY <2>1, <2>6 DEF WaitInv
  <2> QED BY <2>4, <2>5, <2>7, WaitKept
<1>13. ASSUME NEW w \in Workers, NEW n \in Nat, NEW failed \in {"idle", "ack"},
              DeadLetter(w, n, failed)
       PROVE  WaitInv'
  <2>1. /\ UNCHANGED <<ready, delayed, orig>>
        /\ \E l \in {"idle", "ack"} : pc' = [pc EXCEPT ![w] = l]
    BY <1>13 DEF DeadLetter
  <2> QED BY <1>2, <2>1
<1>14. ASSUME NEW w \in Workers, RetryJob(w) PROVE WaitInv'
  <2>1. pc[w] \in Working
    BY <1>14 DEF RetryJob, Working
  <2>2. lease[w].attempts + 1 \in Nat
    BY <2>1, SMT DEF LocalInv
  <2> QED BY <1>12, <1>13, <1>14, <2>1, <2>2 DEF RetryJob
<1>15. ASSUME NEW w \in Workers, NoHandler(w) PROVE WaitInv'
  <2>1. lease[w].attempts \in Nat
    BY <1>15 DEF LocalInv, NoHandler, Working
  <2> QED BY <1>13, <1>15, <2>1 DEF NoHandler
<1>16. ASSUME NEW a \in Admins, Replay(a) PROVE WaitInv'
  <2>1. CASE ReplayDeadLetterRead(a)
    BY <2>1, WaitUnchanged DEF ReplayDeadLetterRead, NoNewCarrier, Dequeuing
  <2>2. CASE ReplayDeadLetterRem(a)
    <3>1. /\ UNCHANGED <<ready, delayed>> /\ orig' \in {orig, [orig EXCEPT ![a] = None]}
          /\ \E l \in {"replay_push", "idle"} : pc' = [pc EXCEPT ![a] = l]
      BY <2>2 DEF ReplayDeadLetterRem
    <3> QED BY <3>1, WaitUnchanged DEF NoNewCarrier, Dequeuing
  <2>3. CASE ReplayDeadLetterPush(a)
    <3>1. /\ orig' = [orig EXCEPT ![a] = None] /\ pc' = [pc EXCEPT ![a] = "idle"]
          /\ pc[a] = "replay_push" /\ delayed' = delayed
      BY <2>3 DEF ReplayDeadLetterPush
    <3>2. NoNewCarrier /\ orig[a] \in Payload
      BY <3>1 DEF NoNewCarrier, Dequeuing, LocalInv, HasOrig, Moving
    <3>3. ready' = ready \/ Enqueue(orig[a].id, 0)
      BY <2>3 DEF ReplayDeadLetterPush
    <3> QED BY <3>1, <3>2, <3>3, WaitUnchanged, WaitEnqueue
  <2> QED BY <1>16, <2>1, <2>2, <2>3 DEF Replay
<1>17. ASSUME Environment PROVE WaitInv'
  <2>1. CASE DelayElapses \/ LeaseExpires
    <3>1. UNCHANGED <<ready, delayed, pc, orig>>
      BY <2>1 DEF DelayElapses, LeaseExpires
    <3> QED BY <3>1, WaitUnchanged DEF NoNewCarrier
  <2>2. ASSUME NEW p \in Procs, Crash(p) PROVE WaitInv'
    BY <2>2, WaitUnchanged DEF Crash, NoNewCarrier, Dequeuing
  <2>3. ASSUME NEW p \in Procs, Restart(p) PROVE WaitInv'
    BY <2>3, <1>2 DEF Restart
  <2> QED BY <1>17, <2>1, <2>2, <2>3 DEF Environment
<1>18. ASSUME NEW w \in Procs, Maintain(w) PROVE WaitInv'
  BY <1>3, <1>4, <1>5, <1>6, <1>7, <1>8, <1>18 DEF Maintain
<1>19. ASSUME NEW w \in Workers, WorkerStep(w) PROVE WaitInv'
  <2>1. CASE Dequeue(w)
    <3>1. DequeueEmpty(w) => WaitInv'
      BY <1>2 DEF DequeueEmpty
    <3> QED BY <1>9, <1>10, <1>11, <2>1, <3>1 DEF Dequeue
  <2>2. CASE SkipMaintenance(w) \/ HandlerSucceeds(w) \/ HandlerFails(w) \/ AckJob(w)
    <3>1. /\ UNCHANGED <<ready, delayed, orig>>
          /\ \E l \in {"dequeue", "ack", "retry", "idle"} : pc' = [pc EXCEPT ![w] = l]
      BY <2>2 DEF SkipMaintenance, HandlerSucceeds, HandlerFails, AckJob, Ack
    <3> QED BY <1>2, <3>1
  <2> QED BY <1>14, <1>15, <1>18, <1>19, <2>1, <2>2 DEF WorkerStep
<1>20. ASSUME NEW r \in Reconcilers, ReconcilerTick(r) PROVE WaitInv'
  <2>1. Maintain(r) \/ (Goto(r, "idle") /\ UNCHANGED <<ready, delayed, orig>>)
    BY <1>20 DEF ReconcilerTick
  <2> QED BY <1>2, <1>18, <2>1
<1>21. ASSUME UNCHANGED vars PROVE WaitInv'
  <2>1. UNCHANGED <<ready, delayed, pc, orig>>
    BY <1>21 DEF vars, queueVars
  <2> QED BY <2>1, WaitUnchanged DEF NoNewCarrier
<1> QED BY <1>1, <1>later, <1>16, <1>17, <1>19, <1>20, <1>21 DEF Next

(* The texts that wait for a worker (ready list, delayed set, PromoteDue
   half-way) are each in one place in every reachable state. *)
LEMMA WaitAlways == Spec => []WaitInv
<1>1. Init => WaitInv
  <2> SUFFICES ASSUME Init PROVE WaitInv
    OBVIOUS
  <2>1. ready = <<>> /\ delayed = {} /\ \A p \in Procs : pc[p] = "idle"
    BY DEF Init, QueueInit
  <2>2. IsInjective(<<>>) /\ ToSet(<<>>) = {}
    BY SMT DEF IsInjective, ToSet
  <2>3. Promoted = {} /\ Waiting = {}
    BY <2>1, <2>2 DEF Promoted, Waiting
  <2> QED BY <2>1, <2>2, <2>3 DEF WaitInv, Dequeuing
<1>2. TypeInvariant /\ LocalInv /\ WaitInv /\ [Next]_vars => WaitInv'
  BY WaitStep
<1> QED BY <1>1, <1>2, TypeCorrect, PTL DEF Spec

(* No delayed job is promoted twice (PromoteDue, by several processes at once). *)
THEOREM PromotedOnce == Spec => []NoDoublePromotion
<1>1. WaitInv => NoDoublePromotion
  BY DEF WaitInv, NoDoublePromotion
<1> QED BY <1>1, WaitAlways, PTL
=============================================================================
