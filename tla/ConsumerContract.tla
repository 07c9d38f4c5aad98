-------------------------- MODULE ConsumerContract --------------------------
(***************************************************************************)
(* The consumers on the Redis queue implement the abstract queue: every    *)
(* command, fault and crash is one step of JobQueue, or none.              *)
(***************************************************************************)
EXTENDS ConsumerDelivery

(* The prover of the leaves that do not name another. *)
USE Zenon

(* Every text is one of a job that a producer has enqueued. *)
KnownInv == \A x \in Existing : x.id \in enqueued

(* A step is about one enqueued job, or about none. *)
Single == {{}} \cup {{j} : j \in enqueued}
Texts(J) == {x \in Payload : x.id \in J}
SameBut(S, T, J) == S \subseteq T \cup Texts(J) /\ T \subseteq S \cup Texts(J)

(* A step of process w that changes the lists, and what w carries, by texts of
   the jobs J only, and takes up no text that did not exist or is one of J's. *)
Touches(w, J) ==
  /\ OnlyAt(w) /\ enqueued' = enqueued
  /\ SameBut(ToSet(ready), ToSet(ready'), J) /\ SameBut(delayed, delayed', J)
  /\ SameBut(ToSet(processing), ToSet(processing'), J)
  /\ SameBut(ToSet(dead), ToSet(dead'), J)
  /\ pc[w] \in Moving => orig[w].id \in J
  /\ pc'[w] \in Moving => orig'[w].id \in J
  /\ {orig'[w], lease'[w]} \subseteq Existing \cup Texts(J) \cup {None}
  /\ \A p \in Procs \ {w} : todo'[p] = todo[p]
  /\ todo'[w] \subseteq Existing

(* No list grows, and w carries nothing after the step. *)
Shrinks(w) ==
  /\ ToSet(ready') \subseteq ToSet(ready) /\ delayed' \subseteq delayed
  /\ ToSet(processing') \subseteq ToSet(processing) /\ ToSet(dead') \subseteq ToSet(dead)
  /\ pc'[w] \notin Moving

(* What a step may do to the history: nothing, or let go of J's job in a
   window, or handle it, which leaves the lists alone. *)
Outcome(w, J) ==
  \/ handled' = handled /\ dropped' = dropped
  \/ handled' = handled /\ dropped' = dropped \cup J /\ Shrinks(w)
  \/ /\ handled' = handled \cup J /\ dropped' = dropped
     /\ UNCHANGED lists /\ pc[w] \notin Moving /\ pc'[w] \notin Moving

Allowed(w) == \E J \in Single : Touches(w, J) /\ Outcome(w, J)
-----------------------------------------------------------------------------
(* A text exists exactly when a list or a process has it. *)
LEMMA InExisting ==
  ASSUME NEW x
  PROVE  x \in Existing <=>
           \/ x \in ToSet(ready) \cup ToSet(processing) \cup ToSet(dead) \cup delayed
           \/ \E p \in Procs : x \in todo[p] \cup ({orig[p], lease[p]} \ {None})
  BY DEF Existing

(* The same after a step. *)
LEMMA InExistingAfter ==
  ASSUME NEW x
  PROVE  x \in Existing' <=>
           \/ x \in ToSet(ready') \cup ToSet(processing') \cup ToSet(dead') \cup delayed'
           \/ \E p \in Procs : x \in todo'[p] \cup ({orig'[p], lease'[p]} \ {None})
  BY DEF Existing

(* A step that touches J's texts only keeps every text one of a known job. *)
LEMMA KnownKept ==
  ASSUME KnownInv, NEW w \in Procs, NEW J \in Single, Touches(w, J)
  PROVE  KnownInv'
<1>1. J \subseteq enqueued
  BY DEF Single
<1> SUFFICES ASSUME NEW x \in Existing' PROVE x \in Existing \cup Texts(J)
  BY <1>1 DEF KnownInv, Texts, Touches
<1>2. CASE x \in ToSet(ready') \cup ToSet(processing') \cup ToSet(dead') \cup delayed'
  <2>1. x \in ToSet(ready) \cup ToSet(processing) \cup ToSet(dead) \cup delayed \cup Texts(J)
    BY <1>2 DEF Touches, SameBut
  <2> QED BY <2>1, InExisting
<1>3. ASSUME NEW p \in Procs, x \in todo'[p] \cup ({orig'[p], lease'[p]} \ {None})
      PROVE  x \in Existing \cup Texts(J)
  <2>1. CASE p = w
    BY <1>3, <2>1 DEF Touches
  <2>2. CASE p # w
    <3>1. x \in todo[p] \cup ({orig[p], lease[p]} \ {None})
      BY <1>3, <2>2 DEF Touches, OnlyAt
    <3> QED BY <3>1, InExisting
  <2> QED BY <2>1, <2>2
<1> QED BY <1>2, <1>3, InExistingAfter

(* The queue's copies, list by list. *)
LEMMA KeptOf ==
  ASSUME NEW j
  PROVE  j \in Kept <=>
           \E x \in ToSet(ready) \cup ToSet(processing) \cup ToSet(dead) \cup delayed \cup Carried :
             j = x.id
  BY DEF Kept, Carried, Ids

(* The same after a step. *)
LEMMA KeptOfAfter ==
  ASSUME NEW j
  PROVE  j \in Kept' <=>
           \E x \in ToSet(ready') \cup ToSet(processing') \cup ToSet(dead') \cup delayed' \cup Carried' :
             j = x.id
  BY DEF Kept, Carried, Ids

(* Such a step changes of which jobs the queue has copies by J at most. *)
LEMMA KeptTouched ==
  ASSUME NEW w \in Procs, NEW J, Touches(w, J)
  PROVE  /\ Kept' \subseteq Kept \cup J /\ Kept \subseteq Kept' \cup J
         /\ Shrinks(w) => Kept' \subseteq Kept
<1>1. ASSUME NEW j \in Kept' PROVE j \in Kept \cup J /\ (Shrinks(w) => j \in Kept)
  <2>1. PICK x \in ToSet(ready') \cup ToSet(processing') \cup ToSet(dead') \cup delayed'
                    \cup Carried' : j = x.id
    BY KeptOfAfter
  <2>2. CASE x \in Carried'
    <3>1. PICK p \in Procs : pc'[p] \in Moving /\ x = orig'[p]
      BY <2>2 DEF Carried
    <3>2. CASE p = w
      BY <2>1, <3>1, <3>2 DEF Touches, Shrinks
    <3>3. CASE p # w
      <4>1. x \in Carried
        BY <3>1, <3>3 DEF Touches, OnlyAt, Carried
      <4> QED BY <2>1, <4>1, KeptOf
    <3> QED BY <3>2, <3>3
  <2>3. CASE x \notin Carried'
    <3>1. x \in ToSet(ready) \cup ToSet(processing) \cup ToSet(dead) \cup delayed \cup Texts(J)
      BY <2>1, <2>3 DEF Touches, SameBut
    <3>2. Shrinks(w) => x \in ToSet(ready) \cup ToSet(processing) \cup ToSet(dead) \cup delayed
      BY <2>1, <2>3 DEF Shrinks
    <3> QED BY <2>1, <3>1, <3>2, KeptOf DEF Texts
  <2> QED BY <2>2, <2>3
<1>2. ASSUME NEW j \in Kept PROVE j \in Kept' \cup J
  <2>1. PICK x \in ToSet(ready) \cup ToSet(processing) \cup ToSet(dead) \cup delayed
                    \cup Carried : j = x.id
    BY KeptOf
  <2>2. CASE x \in Carried
    <3>1. PICK p \in Procs : pc[p] \in Moving /\ x = orig[p]
      BY <2>2 DEF Carried
    <3>2. CASE p = w
      BY <2>1, <3>1, <3>2 DEF Touches
    <3>3. CASE p # w
      <4>1. x \in Carried'
        BY <3>1, <3>3 DEF Touches, OnlyAt, Carried
      <4> QED BY <2>1, <4>1, KeptOfAfter
    <3> QED BY <3>2, <3>3
  <2>3. CASE x \notin Carried
    <3>1. x \in ToSet(ready') \cup ToSet(processing') \cup ToSet(dead') \cup delayed' \cup Texts(J)
      BY <2>1, <2>3 DEF Touches, SameBut
    <3> QED BY <2>1, <3>1, KeptOfAfter DEF Texts
  <2> QED BY <2>2, <2>3
<1> QED BY <1>1, <1>2

(* A job the queue has a copy of is known. *)
LEMMA KeptKnown ==
  ASSUME KnownInv, LocalInv
  PROVE  Kept \subseteq enqueued
<1> SUFFICES ASSUME NEW j \in Kept PROVE j \in enqueued
  OBVIOUS
<1>1. PICK x \in ToSet(ready) \cup ToSet(processing) \cup ToSet(dead) \cup delayed
                  \cup Carried : j = x.id
  BY KeptOf
<1>2. x \in Existing
  <2>1. CASE x \in Carried
    <3>1. PICK p \in Procs : pc[p] \in Moving /\ x = orig[p]
      BY <2>1 DEF Carried
    <3> QED BY <3>1, CarriedExists DEF HasOrig
  <2> QED BY <1>1, <2>1, InExisting
<1> QED BY <1>1, <1>2 DEF KnownInv

(* An allowed step is one of the abstract queue's, or none: a job whose last
   copy goes away, or that has a copy again, was handled or lost before. *)
LEMMA ContractStep ==
  ASSUME enqueued \subseteq Jobs, Kept \subseteq enqueued, LossOnlyInWindows,
         LossOnlyInWindows', NEW w \in Procs, Allowed(w)
  PROVE  [Contract!Next]_(Contract!vars)
<1>1. PICK J \in Single : Touches(w, J) /\ Outcome(w, J)
  BY DEF Allowed
<1>2. /\ enqueued' = enqueued /\ Kept' \subseteq Kept \cup J /\ Kept \subseteq Kept' \cup J
      /\ Shrinks(w) => Kept' \subseteq Kept
  BY <1>1, KeptTouched DEF Touches
<1>3. /\ enqueued \subseteq handled \cup Kept \cup dropped
      /\ enqueued' \subseteq handled' \cup Kept' \cup dropped'
  BY DEF LossOnlyInWindows
<1>4. CASE J = {}
  <2>1. Kept' = Kept /\ handled' = handled /\ dropped' = dropped
    BY <1>1, <1>2, <1>4 DEF Outcome
  <2> QED BY <1>2, <2>1 DEF Contract!vars
<1>5. ASSUME NEW j \in enqueued, J = {j} PROVE [Contract!Next]_(Contract!vars)
  <2>0. SUFFICES \/ UNCHANGED <<enqueued, Kept, handled, dropped>>
                 \/ Contract!Handle(j) \/ Contract!Release(j) \/ Contract!Return(j)
                 \/ Contract!Lose(j)
    BY <1>5 DEF Contract!Next, Contract!vars
  <2>1. Kept' \in {Kept, Kept \cup {j}, Kept \ {j}}
    BY <1>2, <1>5
  <2>2. CASE handled' = handled /\ dropped' = dropped
    <3>1. j \in Kept /\ j \notin Kept' => j \in handled \cup dropped
      BY <1>2, <1>3, <2>2
    <3>2. j \notin Kept /\ j \in Kept' => j \in handled \cup dropped
      BY <1>3
    <3> QED BY <1>2, <2>1, <2>2, <3>1, <3>2 DEF Contract!Release, Contract!Return
  <2>3. CASE handled' = handled /\ dropped' = dropped \cup J /\ Shrinks(w)
    <3>1. Kept' \in {Kept, Kept \ {j}}
      BY <1>2, <2>1, <2>3
    <3> QED BY <1>2, <1>5, <2>3, <3>1 DEF Contract!Lose
  <2>4. CASE /\ handled' = handled \cup J /\ dropped' = dropped
             /\ UNCHANGED lists /\ pc[w] \notin Moving /\ pc'[w] \notin Moving
    <3>1. Carried' = Carried
      BY <1>1, <2>4 DEF Touches, OnlyAt, Carried
    <3>2. Kept' = Kept
      BY <2>4, <3>1 DEF Kept, Carried, lists, Ids
    <3> QED BY <1>2, <1>5, <2>4, <3>2 DEF Contract!Handle
  <2> QED BY <1>1, <2>2, <2>3, <2>4 DEF Outcome
<1> QED BY <1>4, <1>5 DEF Single
-----------------------------------------------------------------------------
(* What a process holds exists, and its job is known. *)
LEMMA HeldKnown ==
  ASSUME TypeInvariant, LocalInv, KnownInv, NEW w \in Procs
  PROVE  /\ {orig[w], lease[w]} \subseteq Existing \cup {None} /\ todo[w] \subseteq Existing
         /\ {} \in Single /\ \A x \in Existing : {x.id} \in Single
         /\ pc[w] \in HasOrig => orig[w] \in Payload /\ {orig[w].id} \in Single
         /\ pc[w] \in Working => lease[w] \in Payload /\ {lease[w].id} \in Single
<1>1. {orig[w], lease[w]} \subseteq Existing \cup {None} /\ todo[w] \subseteq Existing
  BY InExisting
<1>2. {} \in Single /\ \A x \in Existing : {x.id} \in Single
  BY DEF KnownInv, Single
<1>3. /\ pc[w] \in HasOrig => orig[w] \in Payload /\ orig[w] \in Existing
      /\ pc[w] \in Working => lease[w] \in Payload /\ lease[w] \in Existing
  BY CarriedExists DEF LocalInv
<1> QED BY <1>1, <1>2, <1>3

(* A step that changes no list, and only where w is and what it reads. *)
LEMMA ReadAllowed ==
  ASSUME TypeInvariant, LocalInv, KnownInv, NEW w \in Procs, OnlyAt(w),
         UNCHANGED <<lists, dropped, history>>, pc[w] \notin Moving, pc'[w] \notin Moving,
         {orig'[w], lease'[w]} \subseteq Existing \cup {None}, todo'[w] \subseteq Existing,
         \A p \in Procs \ {w} : todo'[p] = todo[p]
  PROVE  Allowed(w)
<1>1. Touches(w, {})
  BY DEF Touches, SameBut, lists, history
<1>2. Outcome(w, {})
  BY DEF Outcome, history
<1> QED BY <1>1, <1>2, HeldKnown DEF Allowed

(* The steps of PromoteDue. *)
LEMMA PromoteAllowed ==
  ASSUME TypeInvariant, LocalInv, KnownInv, NEW w \in Procs, UNCHANGED history,
         PromoteDueRead(w) \/ PromoteDueRem(w) \/ PromoteDuePush(w)
  PROVE  Allowed(w)
<1> USE DEF Goto, lists, history
<1>t. /\ pc \in [Procs -> Labels] /\ orig \in [Procs -> Payload \cup {None}]
      /\ lease \in [Procs -> Payload \cup {None}] /\ todo \in [Procs -> SUBSET Payload]
      /\ ready \in Seq(Payload)
  BY DEF TypeInvariant
<1> USE <1>t
<1>h. {orig[w], lease[w]} \subseteq Existing \cup {None} /\ todo[w] \subseteq Existing
  BY HeldKnown
<1>1. CASE PromoteDueRead(w)
  <2>1. /\ UNCHANGED <<lists, orig, lease, dropped>> /\ pc[w] = "idle"
        /\ pc' = [pc EXCEPT ![w] = "promote"]
        /\ \E T \in {delayed \cap aged, {}} : todo' = [todo EXCEPT ![w] = T]
    BY <1>1 DEF PromoteDueRead
  <2>2. delayed \subseteq Existing
    BY InExisting
  <2>3. OnlyAt(w) /\ pc[w] \notin Moving /\ pc'[w] \notin Moving
    BY <2>1 DEF OnlyAt, Moving
  <2>4. todo'[w] \subseteq Existing /\ \A p \in Procs \ {w} : todo'[p] = todo[p]
    BY <2>1, <2>2
  <2> QED BY <1>h, <2>1, <2>3, <2>4, ReadAllowed
<1>2. CASE PromoteDueRem(w)
  <2>1. PICK x \in todo[w], o \in Outcomes : PromoteDueRem(w)!2!(x, o)
    BY <1>2 DEF PromoteDueRem
  <2>2. UNCHANGED <<ready, processing, dead, lease, history>> /\ pc[w] = "promote"
    BY <1>2 DEF PromoteDueRem
  <2>3. x \in Payload /\ x \in Existing /\ {x.id} \in Single
    BY <1>h, HeldKnown
  <2>4. OnlyAt(w) /\ pc'[w] \in {"promote", "promote_push"}
    BY <2>1, <2>2 DEF OnlyAt
  <2>5. /\ pc'[w] = "promote_push" => orig'[w] = x
        /\ orig'[w] \in {x, orig[w]} /\ delayed' \in {delayed, delayed \ {x}}
        /\ todo'[w] \subseteq todo[w] /\ \A p \in Procs \ {w} : todo'[p] = todo[p]
    BY <2>1, <2>2
  <2>6. \/ dropped' = dropped
        \/ dropped' = dropped \cup {x.id} /\ pc'[w] = "promote"
    BY <2>1, <2>2
  <2>7. Touches(w, {x.id})
    BY <1>h, <2>2, <2>3, <2>4, <2>5 DEF Touches, SameBut, Texts, Moving
  <2>8. Outcome(w, {x.id})
    BY <2>2, <2>5, <2>6 DEF Outcome, Shrinks, Moving
  <2> QED BY <2>3, <2>7, <2>8 DEF Allowed
<1>3. CASE PromoteDuePush(w)
  <2>1. PICK o \in Outcomes :
          /\ ready' = IF Executed(o) THEN Append(ready, orig[w]) ELSE ready
          /\ dropped' = IF Executed(o) THEN dropped ELSE dropped \cup {orig[w].id}
          /\ todo' = IF o = "ok" THEN todo ELSE [todo EXCEPT ![w] = {}]
    BY <1>3 DEF PromoteDuePush
  <2>2. /\ UNCHANGED <<processing, dead, delayed, lease, history>>
        /\ pc[w] = "promote_push" /\ pc' = [pc EXCEPT ![w] = "promote"]
        /\ orig' = [orig EXCEPT ![w] = None]
    BY <1>3 DEF PromoteDuePush
  <2>3. orig[w] \in Payload /\ {orig[w].id} \in Single
    BY <2>2, HeldKnown DEF HasOrig, Moving
  <2>4. ToSet(Append(ready, orig[w])) = ToSet(ready) \cup {orig[w]}
    BY <2>3, AppendToSet, SMT
  <2>5. OnlyAt(w) /\ pc'[w] = "promote" /\ orig'[w] = None
    BY <2>2 DEF OnlyAt
  <2>6. todo'[w] \subseteq todo[w] /\ \A p \in Procs \ {w} : todo'[p] = todo[p]
    BY <2>1
  <2>7. Touches(w, {orig[w].id})
    BY <1>h, <2>1, <2>2, <2>3, <2>4, <2>5, <2>6 DEF Touches, SameBut, Texts, Moving
  <2>8. Outcome(w, {orig[w].id})
    BY <2>1, <2>2, <2>5 DEF Outcome, Shrinks, Moving
  <2> QED BY <2>3, <2>7, <2>8 DEF Allowed
<1> QED BY <1>1, <1>2, <1>3

(* The push of a text that w carries: rewritten, or lost in the window. *)
LEMMA PushAllowed ==
  ASSUME TypeInvariant, LocalInv, KnownInv, NEW w \in Procs, NEW n \in Nat, UNCHANGED history,
         pc[w] \in Moving, pc'[w] \notin Moving, OnlyAt(w),
         \/ Enqueue(orig[w].id, n) /\ UNCHANGED dropped
         \/ UNCHANGED ready /\ dropped' = dropped \cup {orig[w].id},
         UNCHANGED <<processing, dead, delayed, lease>>, orig'[w] = None,
         todo'[w] \subseteq todo[w], \A p \in Procs \ {w} : todo'[p] = todo[p]
  PROVE  Allowed(w)
<1>h. {orig[w], lease[w]} \subseteq Existing \cup {None} /\ todo[w] \subseteq Existing
  BY HeldKnown
<1>1. orig[w] \in Payload /\ {orig[w].id} \in Single /\ orig[w].id \in Jobs
  BY HeldKnown DEF HasOrig, Payload
<1>2. SameBut(ToSet(ready), ToSet(ready'), {orig[w].id})
  <2>1. CASE Enqueue(orig[w].id, n)
    <3>1. PICK x \in Payload : x.id = orig[w].id /\ ToSet(ready') = ToSet(ready) \cup {x}
      BY <1>1, <2>1, EnqueueAppendsNew
    <3> QED BY <3>1 DEF SameBut, Texts
  <2>2. CASE UNCHANGED ready
    BY <2>2 DEF SameBut
  <2> QED BY <2>1, <2>2
<1>3. Touches(w, {orig[w].id})
  BY <1>h, <1>1, <1>2 DEF Touches, SameBut, history
<1>4. Outcome(w, {orig[w].id})
  BY DEF Outcome, Shrinks, history
<1> QED BY <1>1, <1>3, <1>4 DEF Allowed

(* The steps of ReclaimStale. *)
LEMMA ReclaimAllowed ==
  ASSUME TypeInvariant, LocalInv, KnownInv, NEW w \in Procs, UNCHANGED history,
         ReclaimStaleRead(w) \/ ReclaimStaleRem(w) \/ ReclaimStalePush(w)
  PROVE  Allowed(w)
<1> USE DEF Goto, Forget, lists, history
<1>t. /\ pc \in [Procs -> Labels] /\ orig \in [Procs -> Payload \cup {None}]
      /\ lease \in [Procs -> Payload \cup {None}] /\ todo \in [Procs -> SUBSET Payload]
      /\ ready \in Seq(Payload) /\ processing \in Seq(Payload) /\ dead \in Seq(Payload)
      /\ \A x \in Payload : x.id \in Jobs /\ x.attempts \in Nat
  BY DEF TypeInvariant, Payload
<1> USE <1>t
<1>h. {orig[w], lease[w]} \subseteq Existing \cup {None} /\ todo[w] \subseteq Existing
  BY HeldKnown
<1>1. CASE ReclaimStaleRead(w)
  <2> DEFINE stale == StaleIn(SubSeq(processing, 1, Min({ScanLimit, Len(processing)})))
  <2>1. stale \subseteq ToSet(processing)
    BY StaleRead
  <2> HIDE DEF stale
  <2>2. /\ UNCHANGED <<lists, orig, lease, dropped>> /\ pc[w] = "promote"
        /\ \E l \in {"dequeue", "reclaim"} : pc' = [pc EXCEPT ![w] = l]
        /\ todo' = [todo EXCEPT ![w] = stale] \/ todo' = todo
    BY <1>1 DEF ReclaimStaleRead, stale
  <2>3. ToSet(processing) \subseteq Existing
    BY InExisting
  <2>4. OnlyAt(w) /\ pc[w] \notin Moving /\ pc'[w] \notin Moving
    BY <2>2 DEF OnlyAt, Moving
  <2>5. todo'[w] \subseteq Existing /\ \A p \in Procs \ {w} : todo'[p] = todo[p]
    BY <1>h, <2>1, <2>2, <2>3
  <2> QED BY <1>h, <2>2, <2>4, <2>5, ReadAllowed
<1>2. CASE ReclaimStaleRem(w)
  <2>1. PICK x \in todo[w], o \in Outcomes : ReclaimStaleRem(w)!2!(x, o)
    BY <1>2 DEF ReclaimStaleRem
  <2>2. UNCHANGED <<ready, delayed, dead, lease, history>> /\ pc[w] = "reclaim"
    BY <1>2 DEF ReclaimStaleRem
  <2>3. x \in Payload /\ x \in Existing /\ {x.id} \in Single
    BY <1>h, HeldKnown
  <2>4. /\ ToSet(processing) \subseteq ToSet(processing') \cup {x}
        /\ ToSet(processing') \subseteq ToSet(processing)
    BY <2>1, RemoveFirstToSet
  <2>5. OnlyAt(w) /\ pc'[w] \in {"dequeue", "reclaim", "reclaim_push"}
    BY <2>1, <2>2 DEF OnlyAt
  <2>6. /\ pc'[w] = "reclaim_push" => orig'[w] = x
        /\ orig'[w] \in {x, orig[w]}
    BY <2>1, <2>2
  <2>7. todo'[w] \subseteq todo[w] /\ \A p \in Procs \ {w} : todo'[p] = todo[p]
    BY <2>1, <2>2
  <2>8. \/ dropped' = dropped
        \/ dropped' = dropped \cup {x.id} /\ pc'[w] # "reclaim_push"
    BY <2>1, <2>2
  <2>9. Touches(w, {x.id})
    BY <1>h, <2>2, <2>3, <2>4, <2>5, <2>6, <2>7 DEF Touches, SameBut, Texts, Moving
  <2>10. Outcome(w, {x.id})
    BY <2>2, <2>4, <2>5, <2>8 DEF Outcome, Shrinks, Moving
  <2> QED BY <2>3, <2>9, <2>10 DEF Allowed
<1>3. CASE ReclaimStalePush(w)
  <2>1. /\ \E l \in {"dequeue", "reclaim"} : pc' = [pc EXCEPT ![w] = l]
        /\ orig' = [orig EXCEPT ![w] = None] /\ pc[w] = "reclaim_push"
        /\ UNCHANGED <<processing, dead, delayed, lease>>
        /\ \/ Enqueue(orig[w].id, orig[w].attempts) /\ UNCHANGED dropped
           \/ UNCHANGED ready /\ dropped' = dropped \cup {orig[w].id}
        /\ \E T \in {todo[w], {}} : todo' = [todo EXCEPT ![w] = T]
    BY <1>3 DEF ReclaimStalePush
  <2>2. OnlyAt(w) /\ pc'[w] \notin Moving /\ pc[w] \in Moving /\ orig'[w] = None
    BY <2>1 DEF OnlyAt, Moving
  <2>3. todo'[w] \subseteq todo[w] /\ \A p \in Procs \ {w} : todo'[p] = todo[p]
    BY <2>1
  <2>4. orig[w].attempts \in Nat
    BY <2>2 DEF LocalInv, HasOrig
  <2> QED BY <2>1, <2>2, <2>3, <2>4, PushAllowed
<1> QED BY <1>1, <1>2, <1>3

(* The steps of Dequeue. *)
LEMMA DequeueAllowed ==
  ASSUME TypeInvariant, LocalInv, KnownInv, NEW w \in Procs, Dequeue(w)
  PROVE  Allowed(w)
<1> USE DEF Goto, Forget, lists, history
<1>t. /\ pc \in [Procs -> Labels] /\ orig \in [Procs -> Payload \cup {None}]
      /\ lease \in [Procs -> Payload \cup {None}] /\ todo \in [Procs -> SUBSET Payload]
      /\ ready \in Seq(Payload) /\ processing \in Seq(Payload) /\ dead \in Seq(Payload)
      /\ \A x \in Payload : x.id \in Jobs /\ x.attempts \in Nat
  BY DEF TypeInvariant, Payload
<1> USE <1>t
<1>h. {orig[w], lease[w]} \subseteq Existing \cup {None} /\ todo[w] \subseteq Existing
  BY HeldKnown
<1>0. UNCHANGED history
  BY DEF Dequeue
<1>1. CASE DequeuePop(w)
  <2>1. PICK o \in Outcomes : DequeuePop(w)!3!(o)
    BY <1>1 DEF DequeuePop
  <2>2. /\ UNCHANGED <<dead, delayed, lease, todo, dropped, history>> /\ pc[w] = "dequeue"
        /\ ready # <<>>
    BY <1>0, <1>1 DEF DequeuePop
  <2>3. Last(ready) \in Payload /\ ToSet(ready) = ToSet(Front(ready)) \cup {Last(ready)}
    BY <2>2, FrontLast
  <2>4. Last(ready) \in Existing /\ {Last(ready).id} \in Single
    BY <2>3, InExisting, HeldKnown
  <2>5. ToSet(Cons(Last(ready), processing)) = ToSet(processing) \cup {Last(ready)}
    BY <2>3, ConsToSet, SMT
  <2>6. /\ OnlyAt(w) /\ pc'[w] \in {"lease_push", "idle", "down"}
        /\ orig'[w] \in {orig[w], Last(ready)}
    BY <2>1, <2>2 DEF OnlyAt
  <2>7. Touches(w, {Last(ready).id})
    BY <1>h, <2>1, <2>2, <2>3, <2>4, <2>5, <2>6 DEF Touches, SameBut, Texts, Moving
  <2> QED BY <2>2, <2>4, <2>7 DEF Allowed, Outcome
<1>2. CASE DequeueEmpty(w)
  <2>1. OnlyAt(w) /\ pc[w] \notin Moving /\ pc'[w] \notin Moving
    BY <1>2 DEF DequeueEmpty, OnlyAt, Moving
  <2> QED BY <1>0, <1>2, <1>h, <2>1, ReadAllowed DEF DequeueEmpty
<1>3. CASE DequeueLeasePush(w)
  <2>1. PICK x \in NewText(orig[w].id, orig[w].attempts, TRUE), o \in Outcomes :
          DequeueLeasePush(w)!2!(x, o)
    BY <1>3 DEF DequeueLeasePush
  <2>2. UNCHANGED <<ready, dead, delayed, dropped, history>> /\ pc[w] = "lease_push"
    BY <1>0, <1>3 DEF DequeueLeasePush
  <2>3. orig[w] \in Payload /\ {orig[w].id} \in Single
    BY <2>2, HeldKnown DEF HasOrig, Dequeuing
  <2>4. x \in Payload /\ x.id = orig[w].id
    <3>1. orig[w] \in Payload /\ orig[w].attempts \in Nat /\ TRUE \in BOOLEAN
      BY <2>3
    <3> QED BY <3>1, Rewritten
  <2>5. ToSet(Cons(x, processing)) = ToSet(processing) \cup {x}
    BY <2>4, ConsToSet, SMT
  <2>6. OnlyAt(w) /\ pc'[w] \in {"lease_rem", "down"}
    BY <2>1 DEF OnlyAt
  <2>7. /\ orig'[w] \in {orig[w], None} /\ lease'[w] \in {x, None}
        /\ todo'[w] \subseteq todo[w] /\ \A p \in Procs \ {w} : todo'[p] = todo[p]
    BY <2>1
  <2>8. Touches(w, {orig[w].id})
    BY <1>h, <2>1, <2>2, <2>3, <2>4, <2>5, <2>6, <2>7, SMT DEF Touches, SameBut, Texts, Moving
  <2> QED BY <2>2, <2>3, <2>8 DEF Allowed, Outcome
<1>4. CASE DequeueLeaseRem(w)
  <2>1. PICK o \in Outcomes : DequeueLeaseRem(w)!2!(o)
    BY <1>4 DEF DequeueLeaseRem
  <2>2. UNCHANGED <<ready, dead, delayed, dropped, history>> /\ pc[w] = "lease_rem"
    BY <1>0, <1>4 DEF DequeueLeaseRem
  <2>3. orig[w] \in Payload /\ {orig[w].id} \in Single
    BY <2>2, HeldKnown DEF HasOrig, Dequeuing
  <2>4. /\ ToSet(processing) \subseteq ToSet(processing') \cup {orig[w]}
        /\ ToSet(processing') \subseteq ToSet(processing)
    BY <2>1, RemoveFirstToSet
  <2>5. OnlyAt(w) /\ pc'[w] \in {"handle", "down"}
    BY <2>1 DEF OnlyAt
  <2>6. /\ orig'[w] = None /\ lease'[w] \in {lease[w], None}
        /\ todo'[w] \subseteq todo[w] /\ \A p \in Procs \ {w} : todo'[p] = todo[p]
    BY <2>1
  <2>7. Touches(w, {orig[w].id})
    BY <1>h, <2>2, <2>3, <2>4, <2>5, <2>6 DEF Touches, SameBut, Texts, Moving
  <2> QED BY <2>2, <2>3, <2>7 DEF Allowed, Outcome
<1> QED BY <1>1, <1>2, <1>3, <1>4 DEF Dequeue

(* What a worker does with a job it has leased: its handler, retryJob, the dead
   letter and the acknowledgement. *)
LEMMA LeasedAllowed ==
  ASSUME TypeInvariant, LocalInv, KnownInv, NEW w \in Procs,
         HandlerSucceeds(w) \/ HandlerFails(w) \/ RetryJob(w) \/ NoHandler(w) \/ AckJob(w)
  PROVE  Allowed(w)
<1> USE DEF Goto, Forget, lists, history
<1>t. /\ pc \in [Procs -> Labels] /\ orig \in [Procs -> Payload \cup {None}]
      /\ lease \in [Procs -> Payload \cup {None}] /\ todo \in [Procs -> SUBSET Payload]
      /\ ready \in Seq(Payload) /\ processing \in Seq(Payload) /\ dead \in Seq(Payload)
      /\ \A x \in Payload : x.id \in Jobs /\ x.attempts \in Nat
  BY DEF TypeInvariant, Payload
<1> USE <1>t
<1>h. {orig[w], lease[w]} \subseteq Existing \cup {None} /\ todo[w] \subseteq Existing
  BY HeldKnown
<1>0. /\ pc[w] \in {"handle", "retry", "ack"} /\ UNCHANGED <<orig, todo, enqueued>>
      /\ UNCHANGED <<ready, processing>> \/ AckJob(w)
  BY DEF HandlerSucceeds, HandlerFails, RetryJob, NoHandler, AckJob, Ack, DeadLetter, EnqueueAfter
<1>l. lease[w] \in Payload /\ {lease[w].id} \in Single
  BY <1>0, HeldKnown DEF Working
<1>1. CASE HandlerSucceeds(w)
  <2>1. OnlyAt(w) /\ pc[w] \notin Moving /\ pc'[w] \notin Moving
    BY <1>1 DEF HandlerSucceeds, OnlyAt, Moving
  <2>2. Touches(w, {lease[w].id})
    BY <1>1, <1>h, <2>1 DEF HandlerSucceeds, Touches, SameBut
  <2>3. Outcome(w, {lease[w].id})
    BY <1>1, <2>1 DEF HandlerSucceeds, Outcome
  <2> QED BY <1>l, <2>2, <2>3 DEF Allowed
<1>2. CASE HandlerFails(w)
  <2>1. OnlyAt(w) /\ pc[w] \notin Moving /\ pc'[w] \notin Moving
    BY <1>2 DEF HandlerFails, OnlyAt, Moving
  <2> QED BY <1>2, <1>h, <2>1, ReadAllowed DEF HandlerFails
<1>3. ASSUME NEW n \in Nat, EnqueueAfter(w, n, "ack"), UNCHANGED history PROVE Allowed(w)
  <2>1. PICK x \in NewText(lease[w].id, n, FALSE), o \in Outcomes :
          EnqueueAfter(w, n, "ack")!(x, o)
    BY <1>3 DEF EnqueueAfter
  <2>2. x \in Payload /\ x.id = lease[w].id
    BY <1>l, Rewritten
  <2>3. OnlyAt(w) /\ pc'[w] \in {"ack", "idle"} /\ lease'[w] \in {lease[w], None}
    BY <2>1 DEF OnlyAt
  <2>4. Touches(w, {lease[w].id})
    BY <1>0, <1>3, <1>h, <2>1, <2>2, <2>3 DEF Touches, SameBut, Texts, Moving
  <2> QED BY <1>3, <1>l, <2>1, <2>4 DEF Allowed, Outcome
<1>4. ASSUME NEW n \in Nat, NEW failed \in {"idle", "ack"}, DeadLetter(w, n, failed),
             UNCHANGED history
      PROVE  Allowed(w)
  <2>1. PICK x \in NewText(lease[w].id, n, FALSE), o \in Outcomes :
          DeadLetter(w, n, failed)!(x, o)
    BY <1>4 DEF DeadLetter
  <2>2. x \in Payload /\ x.id = lease[w].id
    BY <1>l, Rewritten
  <2>3. ToSet(Cons(x, dead)) = ToSet(dead) \cup {x}
    BY <2>2, ConsToSet, SMT
  <2>4. OnlyAt(w) /\ pc'[w] \in {"ack", "idle"} /\ lease'[w] \in {lease[w], None}
    BY <2>1 DEF OnlyAt
  <2>5. Touches(w, {lease[w].id})
    BY <1>0, <1>4, <1>h, <2>1, <2>2, <2>3, <2>4 DEF Touches, SameBut, Texts, Moving
  <2>6. \/ dropped' = dropped
        \/ dropped' = dropped \cup {lease[w].id} /\ dead' = dead
    BY <2>1
  <2>7. Outcome(w, {lease[w].id})
    BY <1>4, <2>1, <2>4, <2>6 DEF Outcome, Shrinks, Moving
  <2> QED BY <1>l, <2>5, <2>7 DEF Allowed
<1>5. CASE RetryJob(w)
  <2>1. lease[w].attempts + 1 \in Nat
    BY <1>l, SMT
  <2>2. DeadLetter(w, lease[w].attempts + 1, "idle")
          \/ EnqueueAfter(w, lease[w].attempts + 1, "ack")
    BY <1>5 DEF RetryJob
  <2> QED BY <1>3, <1>4, <1>5, <2>1, <2>2 DEF RetryJob
<1>6. CASE NoHandler(w)
  <2>1. lease[w].attempts \in Nat
    BY <1>l
  <2> QED BY <1>4, <1>6, <2>1 DEF NoHandler
<1>7. CASE AckJob(w)
  <2>1. PICK o \in Outcomes : processing' = IF Executed(o) THEN RemoveFirst(processing, lease[w])
                                            ELSE processing
    BY <1>7 DEF AckJob, Ack
  <2>2. /\ ToSet(processing) \subseteq ToSet(processing') \cup {lease[w]}
        /\ ToSet(processing') \subseteq ToSet(processing)
    BY <2>1, RemoveFirstToSet
  <2>3. /\ OnlyAt(w) /\ pc'[w] = "idle" /\ lease'[w] = None
        /\ UNCHANGED <<ready, dead, delayed, dropped, history>>
    BY <1>7 DEF AckJob, Ack, OnlyAt
  <2>4. Touches(w, {lease[w].id})
    BY <1>0, <1>h, <1>l, <2>2, <2>3 DEF Touches, SameBut, Texts, Moving
  <2> QED BY <1>l, <2>3, <2>4 DEF Allowed, Outcome
<1> QED BY <1>1, <1>2, <1>5, <1>6, <1>7

(* The steps of ReplayDeadLetter. *)
LEMMA ReplayAllowed ==
  ASSUME TypeInvariant, LocalInv, KnownInv, NEW w \in Procs, Replay(w)
  PROVE  Allowed(w)
<1> USE DEF Goto, Forget, lists, history
<1>t. /\ pc \in [Procs -> Labels] /\ orig \in [Procs -> Payload \cup {None}]
      /\ lease \in [Procs -> Payload \cup {None}] /\ todo \in [Procs -> SUBSET Payload]
      /\ ready \in Seq(Payload) /\ processing \in Seq(Payload) /\ dead \in Seq(Payload)
      /\ \A x \in Payload : x.id \in Jobs /\ x.attempts \in Nat
  BY DEF TypeInvariant, Payload
<1> USE <1>t
<1>h. {orig[w], lease[w]} \subseteq Existing \cup {None} /\ todo[w] \subseteq Existing
  BY HeldKnown
<1>0. UNCHANGED history
  BY DEF Replay
<1>1. CASE ReplayDeadLetterRead(w)
  <2>1. /\ UNCHANGED <<lists, lease, todo, dropped>> /\ pc[w] = "idle"
        /\ pc' = [pc EXCEPT ![w] = "replay_rem"]
        /\ \E x \in ToSet(dead) : orig' = [orig EXCEPT ![w] = x]
    BY <1>1 DEF ReplayDeadLetterRead
  <2>2. ToSet(dead) \subseteq Existing
    BY InExisting
  <2>3. OnlyAt(w) /\ pc[w] \notin Moving /\ pc'[w] \notin Moving /\ orig'[w] \in Existing
    BY <2>1, <2>2 DEF OnlyAt, Moving
  <2> QED BY <1>0, <1>h, <2>1, <2>3, ReadAllowed
<1>2. CASE ReplayDeadLetterRem(w)
  <2>1. PICK o \in Outcomes : ReplayDeadLetterRem(w)!2!(o)
    BY <1>2 DEF ReplayDeadLetterRem
  <2>2. UNCHANGED <<ready, processing, delayed, lease, todo, history>> /\ pc[w] = "replay_rem"
    BY <1>0, <1>2 DEF ReplayDeadLetterRem
  <2>3. orig[w] \in Payload /\ {orig[w].id} \in Single
    BY <2>2, HeldKnown DEF HasOrig
  <2>4. /\ ToSet(dead) \subseteq ToSet(dead') \cup {orig[w]}
        /\ ToSet(dead') \subseteq ToSet(dead)
    BY <2>1, RemoveFirstToSet
  <2>5. OnlyAt(w) /\ pc'[w] \in {"replay_push", "idle"} /\ orig'[w] \in {orig[w], None}
    BY <2>1, <2>2 DEF OnlyAt
  <2>6. /\ pc'[w] = "replay_push" => orig'[w] = orig[w]
        /\ \/ dropped' = dropped
           \/ dropped' = dropped \cup {orig[w].id} /\ pc'[w] = "idle"
    BY <2>1
  <2>7. Touches(w, {orig[w].id})
    BY <1>h, <2>2, <2>3, <2>4, <2>5, <2>6 DEF Touches, SameBut, Texts, Moving
  <2>8. Outcome(w, {orig[w].id})
    BY <2>2, <2>4, <2>6 DEF Outcome, Shrinks, Moving
  <2> QED BY <2>3, <2>7, <2>8 DEF Allowed
<1>3. CASE ReplayDeadLetterPush(w)
  <2>1. /\ pc[w] = "replay_push" /\ pc' = [pc EXCEPT ![w] = "idle"]
        /\ orig' = [orig EXCEPT ![w] = None]
        /\ UNCHANGED <<processing, dead, delayed, lease, todo>>
        /\ \/ Enqueue(orig[w].id, 0) /\ UNCHANGED dropped
           \/ UNCHANGED ready /\ dropped' = dropped \cup {orig[w].id}
    BY <1>3 DEF ReplayDeadLetterPush
  <2>2. OnlyAt(w) /\ pc'[w] \notin Moving /\ pc[w] \in Moving /\ orig'[w] = None
    BY <2>1 DEF OnlyAt, Moving
  <2> QED BY <1>0, <2>1, <2>2, PushAllowed
<1> QED BY <1>1, <1>2, <1>3 DEF Replay

(* A process stops, or starts again. *)
LEMMA CrashAllowed ==
  ASSUME TypeInvariant, LocalInv, KnownInv, NEW w \in Procs, Crash(w) \/ Restart(w),
         UNCHANGED history
  PROVE  Allowed(w)
<1> USE DEF Goto, Forget, lists, history
<1>t. /\ pc \in [Procs -> Labels] /\ orig \in [Procs -> Payload \cup {None}]
      /\ lease \in [Procs -> Payload \cup {None}] /\ todo \in [Procs -> SUBSET Payload]
      /\ ready \in Seq(Payload) /\ processing \in Seq(Payload) /\ dead \in Seq(Payload)
      /\ \A x \in Payload : x.id \in Jobs /\ x.attempts \in Nat
  BY DEF TypeInvariant, Payload
<1> USE <1>t
<1>h. {orig[w], lease[w]} \subseteq Existing \cup {None} /\ todo[w] \subseteq Existing
  BY HeldKnown
<1>1. CASE Crash(w)
  <2>1. /\ UNCHANGED lists /\ OnlyAt(w) /\ pc'[w] = "down" /\ orig'[w] = None /\ lease'[w] = None
        /\ todo'[w] = {} /\ \A p \in Procs \ {w} : todo'[p] = todo[p]
        /\ dropped' = IF pc[w] \in Moving THEN dropped \cup {orig[w].id} ELSE dropped
    BY <1>1 DEF Crash, OnlyAt
  <2>2. pc'[w] \notin Moving
    BY <2>1 DEF Moving
  <2>3. CASE pc[w] \in Moving
    <3>1. orig[w] \in Payload /\ {orig[w].id} \in Single
      BY <2>3, HeldKnown DEF HasOrig
    <3>2. Touches(w, {orig[w].id})
      BY <2>1, <2>2 DEF Touches, SameBut
    <3>3. Outcome(w, {orig[w].id})
      BY <2>1, <2>2, <2>3 DEF Outcome, Shrinks
    <3> QED BY <3>1, <3>2, <3>3 DEF Allowed
  <2>4. CASE pc[w] \notin Moving
    BY <2>1, <2>2, <2>4, ReadAllowed
  <2> QED BY <2>3, <2>4
<1>2. CASE Restart(w)
  <2>1. OnlyAt(w) /\ pc[w] \notin Moving /\ pc'[w] \notin Moving
    BY <1>2 DEF Restart, OnlyAt, Moving
  <2> QED BY <1>2, <1>h, <2>1, ReadAllowed DEF Restart
<1> QED BY <1>1, <1>2
-----------------------------------------------------------------------------
(* A producer adds one text of a job that was not known. *)
LEMMA ProduceStep ==
  ASSUME TypeInvariant, KnownInv, Kept \subseteq enqueued,
         NEW j \in Jobs, Produce(j) \/ ProduceLater(j)
  PROVE  KnownInv' /\ Contract!Accept(j)
<1>1. /\ UNCHANGED <<processing, dead, local, dropped, handled>> /\ j \notin enqueued
      /\ enqueued' = enqueued \cup {j}
  BY DEF Produce, ProduceLater
<1>2. PICK x \in Payload : /\ x.id = j
                           /\ ToSet(ready') \cup delayed' = ToSet(ready) \cup delayed \cup {x}
  <2>1. CASE Produce(j)
    BY <2>1, EnqueueAppendsNew, SMT DEF Produce
  <2>2. CASE ProduceLater(j)
    <3>1. PICK x \in NewText(j, 0, FALSE) : delayed' = delayed \cup {x}
      BY <2>2 DEF ProduceLater
    <3>2. x \in Payload /\ x.id = j
      BY <3>1, NewTextIsNew
    <3> QED BY <2>2, <3>1, <3>2 DEF ProduceLater
  <2> QED BY <2>1, <2>2
<1>3. KnownInv'
  <2> SUFFICES ASSUME NEW y \in Existing' PROVE y \in Existing \cup {x}
    BY <1>1, <1>2 DEF KnownInv
  <2>1. UNCHANGED <<orig, lease, todo>>
    BY <1>1 DEF local
  <2> QED BY <1>1, <1>2, <2>1, InExisting, InExistingAfter
<1>4. Kept' = Kept \cup {j}
  <2>1. Carried' = Carried
    BY <1>1 DEF local, Carried
  <2>2. ASSUME NEW i PROVE i \in Kept' <=> i \in Kept \cup {j}
    BY <1>1, <1>2, <2>1, KeptOf, KeptOfAfter, SMT
  <2> QED BY <2>2
<1> QED BY <1>1, <1>3, <1>4 DEF Contract!Accept

(* Every step is one of a producer, of the clock, or one that is allowed. *)
LEMMA StepAllowed ==
  ASSUME TypeInvariant, LocalInv, KnownInv, [Next]_vars
  PROVE  \/ \E j \in Jobs : Produce(j) \/ ProduceLater(j)
         \/ \E w \in Procs : Allowed(w)
         \/ UNCHANGED <<lists, local, dropped, history>>
<1>0. Workers \subseteq Procs /\ Reconcilers \subseteq Procs /\ Admins \subseteq Procs
  BY DEF Procs
<1>1. ASSUME NEW w \in Procs, Maintain(w) PROVE Allowed(w)
  BY <1>1, PromoteAllowed, ReclaimAllowed DEF Maintain
<1>2. ASSUME NEW w \in Procs, NEW l \in {"idle", "dequeue"}, pc[w] \in {"idle", "dequeue"}, Goto(w, l),
             UNCHANGED <<lists, orig, lease, todo, dropped, history>>
      PROVE  Allowed(w)
  <2>1. OnlyAt(w) /\ pc[w] \notin Moving /\ pc'[w] \notin Moving
    BY <1>2 DEF Goto, OnlyAt, Moving, TypeInvariant
  <2>2. /\ {orig'[w], lease'[w]} \subseteq Existing \cup {None} /\ todo'[w] \subseteq Existing
        /\ \A p \in Procs \ {w} : todo'[p] = todo[p]
    BY <1>2, HeldKnown
  <2> QED BY <1>2, <2>1, <2>2, ReadAllowed
<1>3. ASSUME NEW w \in Workers, WorkerStep(w) PROVE Allowed(w)
  <2>1. CASE SkipMaintenance(w)
    BY <1>0, <1>2, <2>1 DEF SkipMaintenance
  <2> QED BY <1>0, <1>1, <1>3, <2>1, DequeueAllowed, LeasedAllowed DEF WorkerStep
<1>4. ASSUME NEW r \in Reconcilers, ReconcilerTick(r) PROVE Allowed(r)
  <2>1. CASE ~ Maintain(r)
    BY <1>0, <1>2, <1>4, <2>1 DEF ReconcilerTick
  <2> QED BY <1>0, <1>1, <2>1
<1>5. ASSUME NEW a \in Admins, Replay(a) PROVE Allowed(a)
  BY <1>0, <1>5, ReplayAllowed
<1>6. ASSUME Environment
      PROVE  \/ \E w \in Procs : Allowed(w)
             \/ UNCHANGED <<lists, local, dropped, history>>
  <2>1. CASE DelayElapses \/ LeaseExpires
    BY <1>6, <2>1 DEF Environment, DelayElapses, LeaseExpires
  <2> QED BY <1>6, <2>1, CrashAllowed DEF Environment
<1>7. CASE UNCHANGED vars
  BY <1>7 DEF vars, queueVars, history
<1> QED BY <1>0, <1>3, <1>4, <1>5, <1>6, <1>7 DEF Next

(* Every step keeps every text one of a known job, and is one of the abstract
   queue. *)
LEMMA ImplementsStep ==
  ASSUME TypeInvariant, LocalInv, KnownInv, LossOnlyInWindows, LossOnlyInWindows', [Next]_vars
  PROVE  KnownInv' /\ [Contract!Next]_(Contract!vars)
<1>1. Kept \subseteq enqueued
  BY KeptKnown
<1>2. ASSUME NEW j \in Jobs, Produce(j) \/ ProduceLater(j)
      PROVE  KnownInv' /\ [Contract!Next]_(Contract!vars)
  <2>1. KnownInv' /\ Contract!Accept(j)
    BY <1>1, <1>2, ProduceStep
  <2> QED BY <2>1 DEF Contract!Next
<1>3. ASSUME NEW w \in Procs, Allowed(w)
      PROVE  KnownInv' /\ [Contract!Next]_(Contract!vars)
  <2>1. KnownInv'
    BY <1>3, KnownKept DEF Allowed
  <2>2. enqueued \subseteq Jobs
    BY DEF TypeInvariant
  <2> QED BY <1>1, <1>3, <2>1, <2>2, ContractStep
<1>4. CASE UNCHANGED <<lists, local, dropped, history>>
  <2>1. KnownInv'
    BY <1>4 DEF KnownInv, Existing, lists, local, history
  <2>2. UNCHANGED <<enqueued, Kept, handled, dropped>>
    BY <1>4 DEF Kept, Ids, lists, local, history
  <2> QED BY <2>1, <2>2 DEF Contract!vars
<1> QED BY <1>2, <1>3, <1>4, StepAllowed

(* The consumers on the Redis queue implement a queue that may lose jobs, for
   any number of jobs, processes, attempts and faults: a job enters by being
   enqueued, is handled only after that, and its last copy leaves only once it
   is handled or in one of the windows that `dropped' records. *)
THEOREM Implements == Spec => KeepsContract
<1>1. Init => KnownInv /\ Contract!Init
  <2> SUFFICES ASSUME Init PROVE KnownInv /\ Contract!Init
    OBVIOUS
  <2>1. ToSet(<<>>) = {}
    BY SMT DEF ToSet
  <2>2. Existing = {} /\ Kept = {}
    BY <2>1 DEF Init, QueueInit, Existing, Kept, Ids, Moving
  <2> QED BY <2>2 DEF Init, QueueInit, KnownInv, Contract!Init
<1>2. /\ TypeInvariant /\ LocalInv /\ KnownInv /\ LossOnlyInWindows /\ LossOnlyInWindows'
         /\ [Next]_vars
      => KnownInv' /\ [Contract!Next]_(Contract!vars)
  BY ImplementsStep
<1> QED BY <1>1, <1>2, TypeCorrect, Delivered, PTL DEF Spec, KeepsContract, Contract!Spec
=============================================================================
