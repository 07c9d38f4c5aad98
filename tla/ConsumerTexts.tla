---------------------------- MODULE ConsumerTexts ---------------------------
(***************************************************************************)
(* The texts of the jobs: where each can be, how many attempts it counts,  *)
(* and which of them a worker may lose its lease to.                       *)
(***************************************************************************)
EXTENDS ConsumerSafety

(* The prover of the leaves that do not name another. *)
USE Zenon

(* A step of process w leaves what the others hold. *)
OnlyAt(w) ==
  \A p \in Procs \ {w} : pc'[p] = pc[p] /\ orig'[p] = orig[p] /\ lease'[p] = lease[p]
SameScans(w) == \A p \in Procs \ {w} : todo'[p] = todo[p]

(* A text is in one list only, and only once: every command that removes a
   text by its value removes all of it. *)
PlacesInv ==
  /\ IsInjective(processing) /\ IsInjective(dead)
  /\ Waiting \cap ToSet(processing) = {}
  /\ ToSet(dead) \cap (Waiting \cup ToSet(processing)) = {}

(* What a process will push to a queue, or handle, has an attempt left. *)
Spare(x) == x.attempts < MaxAttempts
Spent(x) == x.id \in Unknown \/ x.attempts = MaxAttempts
HoldsSpare(p) ==
  /\ pc[p] \in Dequeuing \cup {"promote_push", "reclaim_push"} => Spare(orig[p])
  /\ pc[p] \in Working => Spare(lease[p])
AttemptsInv ==
  /\ \A x \in ToSet(ready) \cup ToSet(processing) \cup delayed : Spare(x)
  /\ \A x \in ToSet(dead) : Spent(x)
  /\ \A p \in Procs : HoldsSpare(p)

(* No two workers have the same lease.  What a process may still remove by its
   value is no lease, or one that has expired: the text a Dequeue popped, the
   texts a PromoteDue read, the texts a ReclaimStale read. *)
Scans(p) ==
  /\ pc[p] \in Dequeuing => ~ orig[p].leased
  /\ pc[p] \in {"promote", "promote_push"} => \A x \in todo[p] : ~ x.leased
  /\ pc[p] \in {"reclaim", "reclaim_push"} =>
       \A x \in todo[p] : x.leased /\ x \in ToSet(processing) => x \in aged
LeaseInv ==
  /\ \A p \in Procs : Scans(p)
  /\ \A p, q \in Procs :
       p # q /\ pc[p] \in Working /\ pc[q] \in Working => lease[p] # lease[q]

TextInv == PlacesInv /\ AttemptsInv /\ LeaseInv
-----------------------------------------------------------------------------
(* What w holds after a step: texts with an attempt left, no lease of another
   worker, and to be pushed only texts that waited. *)
Keeps(w) ==
  w \in Procs =>
    /\ HoldsSpare(w)' /\ Scans(w)'
    /\ pc'[w] \in Working =>
         (pc[w] \in Working /\ lease'[w] = lease[w]) \/ lease'[w] \notin Existing
    /\ pc'[w] = "promote_push" => orig'[w] \in Waiting

(* A step, of process w at most, after which the lists' texts count their
   attempts, and leases are new or were there before and expire no later. *)
Orderly(w) ==
  /\ OnlyAt(w) /\ SameScans(w) /\ Keeps(w)
  /\ \A x \in ToSet(ready') \cup ToSet(processing') \cup delayed' : Spare(x)
  /\ \A x \in ToSet(dead') : Spent(x)
  /\ \A x \in ToSet(processing') :
       x.leased => /\ x \in ToSet(processing) \/ x \notin Existing
                   /\ x \in aged => x \in aged'

(* A step that adds no texts to the queues but A, to processing but B and to
   the dead letters but C. *)
Placed(A, B, C) ==
  /\ ToSet(ready') \cup delayed' \subseteq Waiting \cup A
  /\ ToSet(processing') \subseteq ToSet(processing) \cup B /\ IsInjective(processing')
  /\ ToSet(dead') \subseteq ToSet(dead) \cup C /\ IsInjective(dead')

(* A text that waits exists, and one a process has read. *)
LEMMA WaitingExist ==
  ASSUME LocalInv
  PROVE  /\ Waiting \subseteq Existing
         /\ \A p \in Procs : todo[p] \subseteq Existing
<1>1. ASSUME NEW p \in Promoted PROVE orig[p] \in Existing
  BY CarriedExists DEF Promoted, HasOrig, Moving
<1>2. Waiting \subseteq Existing
  BY <1>1 DEF Waiting, Existing
<1>3. ASSUME NEW p \in Procs PROVE todo[p] \subseteq Existing
  <2>1. todo[p] \cup ({orig[p], lease[p]} \ {None})
          \in {todo[q] \cup ({orig[q], lease[q]} \ {None}) : q \in Procs}
    OBVIOUS
  <2> QED BY <2>1 DEF Existing
<1> QED BY <1>2, <1>3

(* An orderly step keeps the attempts in order. *)
LEMMA AttemptsKept ==
  ASSUME AttemptsInv, NEW w, Orderly(w)
  PROVE  AttemptsInv'
<1>1. ASSUME NEW p \in Procs PROVE HoldsSpare(p)'
  <2>1. CASE p = w
    BY <2>1 DEF Orderly, Keeps
  <2>2. CASE p # w
    <3>1. pc'[p] = pc[p] /\ orig'[p] = orig[p] /\ lease'[p] = lease[p]
      BY <2>2 DEF Orderly, OnlyAt
    <3> QED BY <3>1 DEF AttemptsInv, HoldsSpare, Spare
  <2> QED BY <2>1, <2>2
<1>2. /\ \A x \in ToSet(ready') \cup ToSet(processing') \cup delayed' : Spare(x)
      /\ \A x \in ToSet(dead') : Spent(x)
  BY DEF Orderly
<1> QED BY <1>1, <1>2 DEF AttemptsInv, Spare, Spent

(* An orderly step leaves every lease to its worker. *)
LEMMA LeaseKept ==
  ASSUME LocalInv, LeaseInv, NEW w, Orderly(w)
  PROVE  LeaseInv'
<1>1. ASSUME NEW p \in Procs PROVE Scans(p)'
  <2>1. CASE p = w
    BY <2>1 DEF Orderly, Keeps
  <2>2. CASE p # w
    <3>1. pc'[p] = pc[p] /\ orig'[p] = orig[p] /\ todo'[p] = todo[p]
      BY <2>2 DEF Orderly, OnlyAt, SameScans
    <3>2. ASSUME NEW x \in todo[p], x.leased, x \in ToSet(processing'),
                 x \in ToSet(processing) => x \in aged
          PROVE  x \in aged'
      <4>1. x \in Existing
        BY WaitingExist
      <4> QED BY <3>2, <4>1 DEF Orderly
    <3>3. Scans(p)
      BY DEF LeaseInv
    <3> QED BY <3>1, <3>2, <3>3 DEF Scans
  <2> QED BY <2>1, <2>2
<1>2. ASSUME NEW p \in Procs, pc'[p] \in Working
      PROVE  IF pc[p] \in Working /\ lease'[p] = lease[p] THEN TRUE
             ELSE p = w /\ lease'[p] \notin Existing
  BY <1>2 DEF Orderly, OnlyAt, Keeps
<1>3. \A p \in Procs : pc[p] \in Working => lease[p] \in Existing
  BY CarriedExists
<1>4. ASSUME NEW p \in Procs, NEW q \in Procs, p # q, pc'[p] \in Working, pc'[q] \in Working
      PROVE  lease'[p] # lease'[q]
  <2>1. CASE /\ pc[p] \in Working /\ lease'[p] = lease[p]
             /\ pc[q] \in Working /\ lease'[q] = lease[q]
    BY <1>4, <2>1 DEF LeaseInv
  <2> QED BY <1>2, <1>3, <1>4, <2>1
<1> QED BY <1>1, <1>4 DEF LeaseInv

(* A step that adds new texts only, each to one list, keeps every text in one
   place. *)
LEMMA PlacesKept ==
  ASSUME LocalInv, PlacesInv, NEW w, OnlyAt(w), Keeps(w), NEW A, NEW B, NEW C,
         Placed(A, B, C), (A \cup B \cup C) \cap Existing = {},
         A \cap B = {}, A \cap C = {}, B \cap C = {}
  PROVE  PlacesInv'
<1>1. Waiting' \subseteq Waiting \cup A
  <2>1. ASSUME NEW p \in Promoted' PROVE orig'[p] \in Waiting
    <3>1. p \in Procs /\ pc'[p] = "promote_push"
      BY DEF Promoted
    <3>2. CASE p = w
      BY <3>1, <3>2 DEF Keeps
    <3>3. CASE p # w
      <4>1. p \in Promoted /\ orig'[p] = orig[p]
        BY <3>1, <3>3 DEF OnlyAt, Promoted
      <4> QED BY <4>1 DEF Waiting
    <3> QED BY <3>2, <3>3
  <2> QED BY <2>1 DEF Waiting, Placed
<1>2. Waiting \cup ToSet(processing) \cup ToSet(dead) \subseteq Existing
  BY WaitingExist DEF Existing
<1>3. /\ ToSet(processing') \subseteq ToSet(processing) \cup B /\ IsInjective(processing')
      /\ ToSet(dead') \subseteq ToSet(dead) \cup C /\ IsInjective(dead')
  BY DEF Placed
<1>4. Waiting' \cap ToSet(processing') = {}
  BY <1>1, <1>2, <1>3 DEF PlacesInv
<1>5. ToSet(dead') \cap (Waiting' \cup ToSet(processing')) = {}
  BY <1>1, <1>2, <1>3 DEF PlacesInv
<1> QED BY <1>3, <1>4, <1>5 DEF PlacesInv

(* The steps without a new text, and with one: in the ready list or the delayed
   set, in processing, in the dead letters. *)
LEMMA NothingAdded ==
  ASSUME LocalInv, TextInv, NEW w, Orderly(w), Placed({}, {}, {})
  PROVE  TextInv'
<1>1. OnlyAt(w) /\ Keeps(w) /\ PlacesInv /\ AttemptsInv /\ LeaseInv
  BY DEF Orderly, TextInv
<1>2. ({} \cup {} \cup {}) \cap Existing = {} /\ {} \cap {} = {}
  OBVIOUS
<1> QED BY <1>1, <1>2, AttemptsKept, LeaseKept, PlacesKept DEF TextInv

LEMMA OneAdded ==
  ASSUME LocalInv, TextInv, NEW w, Orderly(w), NEW x, x \notin Existing,
         \/ Placed({x}, {}, {}) \/ Placed({}, {x}, {}) \/ Placed({}, {}, {x})
  PROVE  TextInv'
<1>1. OnlyAt(w) /\ Keeps(w) /\ PlacesInv /\ AttemptsInv /\ LeaseInv
  BY DEF Orderly, TextInv
<1>2. /\ ({x} \cup {} \cup {}) \cap Existing = {} /\ ({} \cup {x} \cup {}) \cap Existing = {}
      /\ ({} \cup {} \cup {x}) \cap Existing = {}
      /\ {} \cap {} = {} /\ {} \cap {x} = {} /\ {x} \cap {} = {}
  OBVIOUS
<1>3. PlacesInv'
  BY <1>1, <1>2, PlacesKept
<1> QED BY <1>1, <1>3, AttemptsKept, LeaseKept DEF TextInv

(* A step that leaves the lists alone and lets no lease expire later. *)
LEMMA ListsUnchanged ==
  ASSUME LocalInv, TextInv, NEW w, OnlyAt(w), SameScans(w), Keeps(w),
         UNCHANGED <<ready, processing, dead, delayed>>, aged \subseteq aged'
  PROVE  TextInv'
<1>1. Orderly(w)
  BY DEF Orderly, TextInv, AttemptsInv
<1>2. Placed({}, {}, {})
  BY DEF Placed, Waiting, TextInv, PlacesInv
<1> QED BY <1>1, <1>2, NothingAdded

(* What keeps w's part: nothing of any process changes; w goes where it holds
   nothing; w goes on with its lease. *)
LEMMA StandStill ==
  ASSUME TextInv, NEW w, UNCHANGED <<pc, orig, lease, todo, processing>>, aged \subseteq aged'
  PROVE  OnlyAt(w) /\ SameScans(w) /\ Keeps(w)
<1>1. OnlyAt(w) /\ SameScans(w)
  BY DEF OnlyAt, SameScans
<1>2. ASSUME w \in Procs PROVE HoldsSpare(w)' /\ Scans(w)'
  <2>1. HoldsSpare(w) /\ Scans(w)
    BY <1>2 DEF TextInv, AttemptsInv, LeaseInv
  <2>2. HoldsSpare(w)'
    BY <2>1 DEF HoldsSpare, Spare
  <2>3. Scans(w)'
    BY <2>1 DEF Scans
  <2> QED BY <2>2, <2>3
<1>3. w \in Procs /\ pc'[w] = "promote_push" => orig'[w] \in Waiting
  BY DEF Waiting, Promoted
<1> QED BY <1>1, <1>2, <1>3 DEF Keeps

LEMMA GoesFree ==
  ASSUME NEW w, pc'[w] \in {"idle", "dequeue", "down", "replay_rem", "replay_push"}
  PROVE  Keeps(w)
<1>1. pc'[w] \notin Working \cup Dequeuing
        \cup {"promote", "promote_push", "reclaim", "reclaim_push"}
  BY DEF Working, Dequeuing
<1> QED BY <1>1 DEF Keeps, HoldsSpare, Scans

LEMMA GoesOn ==
  ASSUME TextInv, NEW w \in Procs, pc[w] \in Working, pc'[w] \in {"handle", "retry", "ack"},
         lease'[w] = lease[w]
  PROVE  Keeps(w)
<1>1. pc'[w] \notin Dequeuing \cup {"promote", "promote_push", "reclaim", "reclaim_push"}
  BY DEF Dequeuing
<1>2. Spare(lease[w])
  BY DEF TextInv, AttemptsInv, HoldsSpare
<1> QED BY <1>1, <1>2 DEF Keeps, HoldsSpare, Scans, Spare

(* A command that takes texts out of processing, and their age with them. *)
LEMMA ProcessingShrinks ==
  ASSUME LocalInv, TextInv, NEW w, OnlyAt(w), SameScans(w), Keeps(w),
         UNCHANGED <<ready, dead, delayed>>,
         ToSet(processing') \subseteq ToSet(processing), IsInjective(processing'),
         \A y \in ToSet(processing') : y \in aged => y \in aged'
  PROVE  TextInv'
<1>1. Orderly(w)
  BY DEF Orderly, TextInv, AttemptsInv
<1>2. Placed({}, {}, {})
  BY DEF Placed, Waiting, TextInv, PlacesInv
<1> QED BY <1>1, <1>2, NothingAdded

(* Enqueue of a job with an attempt left. *)
LEMMA EnqueueText ==
  ASSUME TypeInvariant, LocalInv, TextInv, NEW w, OnlyAt(w), SameScans(w), Keeps(w),
         UNCHANGED <<processing, dead, delayed, aged>>,
         NEW j \in Jobs, NEW n \in Nat, n < MaxAttempts, Enqueue(j, n)
  PROVE  TextInv'
<1>1. PICK x \in Payload : /\ x.attempts = n /\ x \notin Existing
                           /\ ToSet(ready') = ToSet(ready) \cup {x}
  BY EnqueueAppendsNew
<1>2. Spare(x)
  BY <1>1 DEF Spare
<1>3. Orderly(w)
  BY <1>1, <1>2 DEF Orderly, TextInv, AttemptsInv
<1>4. Placed({x}, {}, {})
  BY <1>1 DEF Placed, Waiting, TextInv, PlacesInv
<1> QED BY <1>1, <1>3, <1>4, OneAdded

(* Every command, fault and tick of the clock keeps the texts in order. *)
LEMMA TextStep ==
  ASSUME TypeInvariant, LocalInv, WaitInv, TextInv, [Next]_vars
  PROVE  TextInv'
<1> USE DEF Goto, Forget, local, lists, history
<1>0. /\ Workers \subseteq Procs /\ Reconcilers \subseteq Procs /\ Admins \subseteq Procs
      /\ \A x \in Payload : x.id \in Jobs /\ x.attempts \in Nat
  BY DEF Procs, Payload
<1>t. /\ pc \in [Procs -> Labels] /\ orig \in [Procs -> Payload \cup {None}]
      /\ lease \in [Procs -> Payload \cup {None}] /\ todo \in [Procs -> SUBSET Payload]
      /\ ready \in Seq(Payload) /\ processing \in Seq(Payload) /\ dead \in Seq(Payload)
  BY DEF TypeInvariant
<1>i. /\ IsInjective(processing) /\ IsInjective(dead)
      /\ \A x \in ToSet(ready) \cup ToSet(processing) \cup delayed : Spare(x)
      /\ \A x \in ToSet(dead) : Spent(x)
      /\ \A p \in Procs : HoldsSpare(p) /\ Scans(p)
  BY DEF TextInv, PlacesInv, AttemptsInv, LeaseInv
<1>z. 0 < MaxAttempts
  BY ConsumerAssumption, SMT
<1> USE <1>0, <1>t
<1>1. ASSUME NEW j \in Jobs, Produce(j) PROVE TextInv'
  <2>1. /\ UNCHANGED <<pc, orig, lease, todo, processing, dead, delayed, aged>>
        /\ Enqueue(j, 0)
    BY <1>1 DEF Produce
  <2>2. OnlyAt(None) /\ SameScans(None) /\ Keeps(None)
    BY <2>1, StandStill
  <2>3. 0 \in Nat
    OBVIOUS
  <2> QED BY <1>z, <2>1, <2>2, <2>3, EnqueueText
<1>later. ASSUME NEW j \in Jobs, ProduceLater(j) PROVE TextInv'
  <2>1. PICK x \in NewText(j, 0, FALSE) : delayed' = delayed \cup {x}
    BY <1>later DEF ProduceLater
  <2>2. x.attempts = 0 /\ x \notin Existing
    <3>1. 0 \in Nat /\ FALSE \in BOOLEAN
      OBVIOUS
    <3> QED BY <2>1, <3>1, NewTextIsNew
  <2>3. UNCHANGED <<pc, orig, lease, todo, ready, processing, dead, aged>>
    BY <1>later DEF ProduceLater
  <2>4. OnlyAt(None) /\ SameScans(None) /\ Keeps(None)
    BY <2>3, StandStill
  <2>5. Spare(x)
    BY <1>z, <2>2 DEF Spare
  <2>6. Orderly(None)
    BY <1>i, <2>1, <2>3, <2>4, <2>5 DEF Orderly
  <2>7. Placed({x}, {}, {})
    BY <1>i, <2>1, <2>3 DEF Placed, Waiting
  <2> QED BY <2>2, <2>6, <2>7, OneAdded
<1>2. ASSUME NEW w \in Procs, NEW l \in {"idle", "dequeue"}, Goto(w, l),
             UNCHANGED <<lists, aged, orig, lease, todo>>
      PROVE  TextInv'
  <2>1. OnlyAt(w) /\ SameScans(w) /\ pc'[w] \in {"idle", "dequeue"}
    BY <1>2 DEF OnlyAt, SameScans
  <2>2. Keeps(w)
    BY <2>1, GoesFree, SMT
  <2> QED BY <1>2, <2>1, <2>2, ListsUnchanged
<1>3. ASSUME NEW w \in Procs, PromoteDueRead(w) PROVE TextInv'
  <2>1. /\ UNCHANGED <<ready, processing, dead, delayed, aged, orig, lease>>
        /\ OnlyAt(w) /\ SameScans(w) /\ pc'[w] = "promote" /\ todo'[w] \subseteq delayed
    BY <1>3 DEF PromoteDueRead, OnlyAt, SameScans
  <2>2. \A x \in todo'[w] : ~ x.leased
    BY <2>1 DEF WaitInv, Waiting
  <2>3. Keeps(w)
    BY <2>1, <2>2 DEF Keeps, HoldsSpare, Scans, Dequeuing, Working
  <2> QED BY <2>1, <2>3, ListsUnchanged
<1>4. ASSUME NEW w \in Procs, PromoteDueRem(w) PROVE TextInv'
  <2>1. PICK x \in todo[w], o \in Outcomes : PromoteDueRem(w)!2!(x, o)
    BY <1>4 DEF PromoteDueRem
  <2>2. UNCHANGED <<ready, processing, dead, lease>> /\ pc[w] = "promote"
    BY <1>4 DEF PromoteDueRem
  <2>3. ~ x.leased /\ \A y \in todo[w] : ~ y.leased
    BY <1>i, <2>2 DEF Scans
  <2>4. delayed' \subseteq delayed /\ aged \ {x} \subseteq aged'
    BY <2>1
  <2>5. OnlyAt(w) /\ SameScans(w) /\ todo'[w] \subseteq todo[w]
    BY <2>1, <2>2 DEF OnlyAt, SameScans
  <2>6. \/ pc'[w] = "promote"
        \/ pc'[w] = "promote_push" /\ orig'[w] = x /\ x \in delayed
    BY <2>1, <2>2
  <2>7. Keeps(w)
    <3>1. Scans(w)'
      BY <2>3, <2>5, <2>6 DEF Scans, Dequeuing
    <3>2. HoldsSpare(w)' /\ pc'[w] \notin Working
      BY <1>i, <2>6 DEF HoldsSpare, Dequeuing, Working, Spare
    <3>3. pc'[w] = "promote_push" => orig'[w] \in Waiting
      BY <2>6 DEF Waiting
    <3> QED BY <3>1, <3>2, <3>3 DEF Keeps
  <2>8. Orderly(w)
    BY <1>i, <2>2, <2>3, <2>4, <2>5, <2>7 DEF Orderly
  <2>9. Placed({}, {}, {})
    BY <1>i, <2>2, <2>4 DEF Placed, Waiting
  <2> QED BY <2>8, <2>9, NothingAdded
<1>5. ASSUME NEW w \in Procs, PromoteDuePush(w) PROVE TextInv'
  <2>1. PICK o \in Outcomes :
          /\ ready' = IF Executed(o) THEN Append(ready, orig[w]) ELSE ready
          /\ todo' = IF o = "ok" THEN todo ELSE [todo EXCEPT ![w] = {}]
    BY <1>5 DEF PromoteDuePush
  <2>2. /\ UNCHANGED <<processing, dead, delayed, aged, lease>>
        /\ pc[w] = "promote_push" /\ pc' = [pc EXCEPT ![w] = "promote"]
        /\ orig' = [orig EXCEPT ![w] = None]
    BY <1>5 DEF PromoteDuePush
  <2>3. orig[w] \in Payload /\ orig[w] \in Waiting /\ Spare(orig[w])
    BY <1>i, <2>2 DEF LocalInv, HasOrig, Moving, Waiting, Promoted, HoldsSpare
  <2>4. ToSet(ready') \subseteq ToSet(ready) \cup {orig[w]}
    <3>1. ToSet(Append(ready, orig[w])) = ToSet(ready) \cup {orig[w]}
      BY <2>3, AppendToSet, SMT
    <3> QED BY <2>1, <3>1
  <2>5. OnlyAt(w) /\ SameScans(w) /\ todo'[w] \subseteq todo[w] /\ pc'[w] = "promote"
    BY <2>1, <2>2 DEF OnlyAt, SameScans
  <2>6. \A y \in todo[w] : ~ y.leased
    BY <1>i, <2>2 DEF Scans
  <2>7. Keeps(w)
    BY <2>5, <2>6 DEF Keeps, HoldsSpare, Scans, Dequeuing, Working
  <2>8. Orderly(w)
    BY <1>i, <2>2, <2>3, <2>4, <2>5, <2>7 DEF Orderly
  <2>9. Placed({}, {}, {})
    BY <1>i, <2>2, <2>3, <2>4 DEF Placed, Waiting
  <2> QED BY <2>8, <2>9, NothingAdded
<1>6. ASSUME NEW w \in Procs, ReclaimStaleRead(w) PROVE TextInv'
  <2> DEFINE stale == StaleIn(SubSeq(processing, 1, Min({ScanLimit, Len(processing)})))
  <2>1. /\ UNCHANGED <<ready, processing, dead, delayed, aged, orig, lease>>
        /\ pc[w] = "promote"
        /\ \/ todo' = [todo EXCEPT ![w] = stale] /\ pc' = [pc EXCEPT ![w] = "reclaim"]
           \/ todo' = [todo EXCEPT ![w] = stale] /\ pc' = [pc EXCEPT ![w] = "dequeue"]
           \/ todo' = todo /\ pc' = [pc EXCEPT ![w] = "dequeue"]
    BY <1>6 DEF ReclaimStaleRead
  <2>2. \A x \in stale : ~ x.leased \/ x \in aged
    BY DEF StaleIn
  <2> HIDE DEF stale
  <2>3. OnlyAt(w) /\ SameScans(w)
    BY <2>1 DEF OnlyAt, SameScans
  <2>4. pc'[w] = "dequeue" \/ (pc'[w] = "reclaim" /\ todo'[w] = stale)
    BY <2>1
  <2>5. Keeps(w)
    <3>1. CASE pc'[w] = "dequeue"
      BY <3>1, GoesFree, SMT
    <3>2. CASE pc'[w] = "reclaim" /\ todo'[w] = stale
      BY <2>1, <2>2, <3>2 DEF Keeps, HoldsSpare, Scans, Dequeuing, Working
    <3> QED BY <2>4, <3>1, <3>2
  <2> QED BY <2>1, <2>3, <2>5, ListsUnchanged
<1>rem. ASSUME NEW y, processing' = RemoveFirst(processing, y) \/ UNCHANGED <<processing, aged>>,
               aged \ {y} \subseteq aged'
        PROVE  /\ ToSet(processing') \subseteq ToSet(processing) /\ IsInjective(processing')
               /\ \A z \in ToSet(processing') : z \in aged => z \in aged'
  <2>1. /\ ToSet(RemoveFirst(processing, y)) \subseteq ToSet(processing)
        /\ IsInjective(RemoveFirst(processing, y)) /\ y \notin ToSet(RemoveFirst(processing, y))
    BY <1>i, RemoveFirstToSet
  <2>2. CASE processing' = RemoveFirst(processing, y)
    BY <1>rem, <2>1, <2>2
  <2>3. CASE UNCHANGED <<processing, aged>>
    BY <1>i, <2>3
  <2> QED BY <1>rem, <2>2, <2>3
<1>7. ASSUME NEW w \in Procs, ReclaimStaleRem(w) PROVE TextInv'
  <2>1. PICK x \in todo[w], o \in Outcomes : ReclaimStaleRem(w)!2!(x, o)
    BY <1>7 DEF ReclaimStaleRem
  <2>2. UNCHANGED <<ready, dead, delayed, lease>> /\ pc[w] = "reclaim"
    BY <1>7 DEF ReclaimStaleRem
  <2>3. /\ processing' = RemoveFirst(processing, x) \/ UNCHANGED <<processing, aged>>
        /\ aged \ {x} \subseteq aged'
    BY <2>1
  <2>4. /\ ToSet(processing') \subseteq ToSet(processing) /\ IsInjective(processing')
        /\ \A y \in ToSet(processing') : y \in aged => y \in aged'
    BY <1>rem, <2>3
  <2>5. OnlyAt(w) /\ SameScans(w) /\ todo'[w] \subseteq todo[w]
    BY <2>1, <2>2 DEF OnlyAt, SameScans
  <2>6. \/ pc'[w] \in {"dequeue", "reclaim"}
        \/ (pc'[w] = "reclaim_push" /\ orig'[w] = x /\ x \in ToSet(processing))
    BY <2>1, <2>2
  <2>7. Keeps(w)
    <3>1. \A y \in todo[w] : y.leased /\ y \in ToSet(processing) => y \in aged
      BY <1>i, <2>2 DEF Scans
    <3>2. Scans(w)'
      BY <2>4, <2>5, <2>6, <3>1 DEF Scans, Dequeuing
    <3>3. HoldsSpare(w)' /\ pc'[w] \notin Working /\ pc'[w] # "promote_push"
      BY <1>i, <2>6 DEF HoldsSpare, Dequeuing, Working, Spare
    <3> QED BY <3>2, <3>3 DEF Keeps
  <2> QED BY <2>2, <2>4, <2>5, <2>7, ProcessingShrinks
<1>push. ASSUME NEW w \in Procs, OnlyAt(w), SameScans(w), Keeps(w),
                orig[w] \in Payload, NEW n \in Nat, n < MaxAttempts,
                Enqueue(orig[w].id, n) \/ UNCHANGED ready,
                UNCHANGED <<processing, dead, delayed, aged>>
         PROVE  TextInv'
  <2>1. orig[w].id \in Jobs
    BY <1>push
  <2>2. CASE UNCHANGED ready
    BY <1>push, <2>2, ListsUnchanged
  <2> QED BY <1>push, <2>1, <2>2, EnqueueText
<1>8. ASSUME NEW w \in Procs, ReclaimStalePush(w) PROVE TextInv'
  <2>1. PICK o \in Outcomes : ReclaimStalePush(w)!2!(o)
    BY <1>8 DEF ReclaimStalePush
  <2>2. /\ UNCHANGED <<processing, dead, delayed, aged, lease>>
        /\ pc[w] = "reclaim_push" /\ orig' = [orig EXCEPT ![w] = None]
    BY <1>8 DEF ReclaimStalePush
  <2>3. Enqueue(orig[w].id, orig[w].attempts) \/ UNCHANGED ready
    BY <2>1
  <2>4. /\ OnlyAt(w) /\ SameScans(w) /\ todo'[w] \subseteq todo[w]
        /\ pc'[w] \in {"dequeue", "reclaim"}
    BY <2>1, <2>2 DEF OnlyAt, SameScans
  <2>5. Keeps(w)
    <3>1. \A y \in todo[w] : y.leased /\ y \in ToSet(processing) => y \in aged
      BY <1>i, <2>2 DEF Scans
    <3>2. Scans(w)'
      BY <2>2, <2>4, <3>1 DEF Scans, Dequeuing
    <3> QED BY <2>4, <3>2 DEF Keeps, HoldsSpare, Dequeuing, Working
  <2>6. orig[w] \in Payload /\ Spare(orig[w])
    BY <1>i, <2>2 DEF LocalInv, HasOrig, Moving, HoldsSpare
  <2>7. orig[w].attempts \in Nat /\ orig[w].attempts < MaxAttempts
    BY <2>6 DEF Spare
  <2> QED BY <1>push, <2>2, <2>3, <2>4, <2>5, <2>6, <2>7
<1>9. ASSUME NEW w \in Procs, DequeuePop(w) PROVE TextInv'
  <2>1. PICK o \in Outcomes : DequeuePop(w)!3!(o)
    BY <1>9 DEF DequeuePop
  <2>2. /\ UNCHANGED <<dead, delayed, aged, lease, todo>> /\ pc[w] = "dequeue" /\ ready # <<>>
    BY <1>9 DEF DequeuePop
  <2> DEFINE x == Last(ready)
  <2>3. /\ x \in Payload /\ ToSet(ready) = ToSet(Front(ready)) \cup {x}
        /\ x \notin ToSet(Front(ready))
    BY <2>2, FrontLast DEF WaitInv
  <2>4. /\ x \in Waiting /\ x \notin delayed /\ Spare(x) /\ ~ x.leased
        /\ \A p \in Promoted : orig[p] # x
    BY <1>i, <2>3 DEF Waiting, WaitInv
  <2>5. x \notin ToSet(processing) /\ x \notin ToSet(dead)
    BY <2>4 DEF TextInv, PlacesInv
  <2>6. /\ ToSet(Cons(x, processing)) = ToSet(processing) \cup {x}
        /\ IsInjective(Cons(x, processing))
    BY <1>i, <2>3, <2>5, ConsToSet, SMT
  <2> HIDE DEF x
  <2>7. OnlyAt(w) /\ SameScans(w)
    BY <2>1, <2>2 DEF OnlyAt, SameScans
  <2>8. \/ pc'[w] \in {"idle", "down"}
        \/ (pc'[w] = "lease_push" /\ orig'[w] = x)
    BY <2>1 DEF x
  <2>9. Keeps(w)
    <3>1. CASE pc'[w] \in {"idle", "down"}
      BY <3>1, GoesFree, SMT
    <3>2. CASE pc'[w] = "lease_push" /\ orig'[w] = x
      BY <2>4, <3>2 DEF Keeps, HoldsSpare, Scans, Dequeuing, Working, Spare
    <3> QED BY <2>8, <3>1, <3>2
  <2>10. CASE ~ Executed(o)
    BY <2>1, <2>2, <2>7, <2>9, <2>10, ListsUnchanged
  <2>11. CASE Executed(o)
    <3>1. ready' = Front(ready) /\ processing' = Cons(x, processing)
      BY <2>1, <2>11 DEF x
    <3>2. Orderly(w)
      BY <1>i, <2>2, <2>3, <2>4, <2>6, <2>7, <2>9, <3>1 DEF Orderly
    <3>3. AttemptsInv' /\ LeaseInv'
      BY <3>2, AttemptsKept, LeaseKept DEF TextInv
    <3>4. Waiting' \subseteq Waiting \ {x}
      <4>1. ASSUME NEW p \in Promoted' PROVE p \in Promoted /\ orig'[p] = orig[p]
        <5>1. p \in Procs /\ pc'[p] = "promote_push"
          BY DEF Promoted
        <5>2. p # w
          BY <2>8, <5>1
        <5> QED BY <2>7, <5>1, <5>2 DEF OnlyAt, Promoted
      <4>2. ToSet(ready') \cup delayed' \subseteq Waiting \ {x}
        BY <2>2, <2>3, <2>4, <3>1 DEF Waiting
      <4> QED BY <2>4, <4>1, <4>2 DEF Waiting
    <3>5. PlacesInv'
      BY <1>i, <2>2, <2>5, <2>6, <3>1, <3>4 DEF TextInv, PlacesInv
    <3> QED BY <3>3, <3>5 DEF TextInv
  <2> QED BY <2>10, <2>11
<1>new. ASSUME NEW y \in Payload, NEW n \in Nat, NEW l \in BOOLEAN, NEW x \in NewText(y.id, n, l)
        PROVE  x \in Payload /\ x.id = y.id /\ x.attempts = n /\ x.leased = l /\ x \notin Existing
  BY <1>new, NewTextIsNew, SMT
<1>10. ASSUME NEW w \in Procs, DequeueLeasePush(w) PROVE TextInv'
  <2>1. PICK x \in NewText(orig[w].id, orig[w].attempts, TRUE), o \in Outcomes :
          DequeueLeasePush(w)!2!(x, o)
    BY <1>10 DEF DequeueLeasePush
  <2>2. UNCHANGED <<ready, dead, delayed, aged>> /\ pc[w] = "lease_push"
    BY <1>10 DEF DequeueLeasePush
  <2>3. orig[w] \in Payload /\ Spare(orig[w]) /\ ~ orig[w].leased /\ orig[w].attempts \in Nat
    BY <1>i, <2>2 DEF LocalInv, HasOrig, Dequeuing, HoldsSpare, Scans
  <2>4. x \in Payload /\ x.attempts = orig[w].attempts /\ x \notin Existing
    <3>1. TRUE \in BOOLEAN
      OBVIOUS
    <3> QED BY <1>new, <2>3, <3>1
  <2>5. Spare(x) /\ x \notin ToSet(processing)
    BY <2>3, <2>4 DEF Spare, Existing
  <2>6. /\ ToSet(Cons(x, processing)) = ToSet(processing) \cup {x}
        /\ IsInjective(Cons(x, processing))
    BY <1>i, <2>4, <2>5, ConsToSet, SMT
  <2>7. ToSet(processing') \subseteq ToSet(processing) \cup {x} /\ IsInjective(processing')
    <3>1. processing' = Cons(x, processing) \/ processing' = processing
      BY <2>1
    <3> QED BY <1>i, <2>6, <3>1
  <2>8. OnlyAt(w) /\ SameScans(w)
    BY <2>1 DEF OnlyAt, SameScans
  <2>9. \/ pc'[w] = "down"
        \/ (pc'[w] = "lease_rem" /\ lease'[w] = x /\ orig'[w] = orig[w])
    BY <2>1
  <2>10. Keeps(w)
    <3>1. CASE pc'[w] = "down"
      BY <3>1, GoesFree, SMT
    <3>2. CASE pc'[w] = "lease_rem" /\ lease'[w] = x /\ orig'[w] = orig[w]
      <4>1. Scans(w)' /\ pc'[w] # "promote_push"
        BY <2>3, <3>2 DEF Scans, Dequeuing
      <4>2. HoldsSpare(w)'
        BY <2>3, <2>5, <3>2 DEF HoldsSpare, Dequeuing, Working, Spare
      <4> QED BY <2>4, <3>2, <4>1, <4>2 DEF Keeps
    <3> QED BY <2>9, <3>1, <3>2
  <2>11. Orderly(w)
    BY <1>i, <2>2, <2>4, <2>5, <2>7, <2>8, <2>10 DEF Orderly
  <2>12. Placed({}, {x}, {})
    BY <1>i, <2>2, <2>7 DEF Placed, Waiting
  <2> QED BY <2>4, <2>11, <2>12, OneAdded
<1>11. ASSUME NEW w \in Procs, DequeueLeaseRem(w) PROVE TextInv'
  <2>1. PICK o \in Outcomes : DequeueLeaseRem(w)!2!(o)
    BY <1>11 DEF DequeueLeaseRem
  <2>2. UNCHANGED <<ready, dead, delayed, aged>> /\ pc[w] = "lease_rem"
    BY <1>11 DEF DequeueLeaseRem
  <2>3. /\ OnlyAt(w) /\ SameScans(w)
        /\ processing' = RemoveFirst(processing, orig[w]) \/ UNCHANGED processing
    BY <2>1 DEF OnlyAt, SameScans
  <2>4. pc'[w] = "down" \/ (pc'[w] = "handle" /\ lease'[w] = lease[w])
    BY <2>1
  <2>5. Keeps(w)
    <3>1. CASE pc'[w] = "down"
      BY <3>1, GoesFree, SMT
    <3>2. CASE pc'[w] = "handle" /\ lease'[w] = lease[w]
      BY <2>2, <3>2, GoesOn DEF Working
    <3> QED BY <2>4, <3>1, <3>2
  <2>6. /\ ToSet(processing') \subseteq ToSet(processing) /\ IsInjective(processing')
        /\ \A z \in ToSet(processing') : z \in aged => z \in aged'
    BY <1>rem, <2>2, <2>3
  <2> QED BY <2>2, <2>3, <2>5, <2>6, ProcessingShrinks
<1>12. ASSUME NEW w \in Procs, HandlerSucceeds(w) \/ HandlerFails(w) PROVE TextInv'
  <2>1. /\ UNCHANGED <<ready, processing, dead, delayed, aged, orig, lease, todo>>
        /\ pc[w] = "handle" /\ \E l \in {"ack", "retry"} : pc' = [pc EXCEPT ![w] = l]
    BY <1>12 DEF HandlerSucceeds, HandlerFails
  <2>2. /\ OnlyAt(w) /\ SameScans(w) /\ pc[w] \in Working
        /\ pc'[w] \in {"handle", "retry", "ack"} /\ lease'[w] = lease[w]
    BY <2>1 DEF OnlyAt, SameScans, Working
  <2>3. Keeps(w)
    BY <2>2, GoesOn
  <2> QED BY <2>1, <2>2, <2>3, ListsUnchanged
<1>13. ASSUME NEW w \in Procs, NEW n \in Nat, n < MaxAttempts, EnqueueAfter(w, n, "ack"),
              pc[w] = "retry"
       PROVE  TextInv'
  <2>1. PICK x \in NewText(lease[w].id, n, FALSE), o \in Outcomes :
          EnqueueAfter(w, n, "ack")!(x, o)
    BY <1>13 DEF EnqueueAfter
  <2>2. UNCHANGED <<ready, processing, dead, aged>> /\ delayed' \in {delayed, delayed \cup {x}}
    BY <2>1
  <2>3. x.attempts = n /\ x \notin Existing
    <3>1. lease[w] \in Payload /\ FALSE \in BOOLEAN
      BY <1>13 DEF LocalInv, Working
    <3> QED BY <1>new, <3>1
  <2>4. OnlyAt(w) /\ SameScans(w)
    BY <2>1 DEF OnlyAt, SameScans
  <2>5. Keeps(w)
    <3>1. pc'[w] = "idle" \/ (pc'[w] = "ack" /\ lease'[w] = lease[w])
      BY <2>1
    <3>2. CASE pc'[w] = "idle"
      BY <3>2, GoesFree, SMT
    <3>3. CASE pc'[w] = "ack" /\ lease'[w] = lease[w]
      BY <1>13, <3>3, GoesOn DEF Working
    <3> QED BY <3>1, <3>2, <3>3
  <2>6. Spare(x)
    BY <1>13, <2>3 DEF Spare
  <2>7. Orderly(w)
    BY <1>i, <2>2, <2>4, <2>5, <2>6 DEF Orderly
  <2>8. Placed({x}, {}, {})
    BY <1>i, <2>2 DEF Placed, Waiting
  <2> QED BY <2>3, <2>7, <2>8, OneAdded
<1>14. ASSUME NEW w \in Procs, NEW n \in Nat, NEW failed \in {"idle", "ack"},
              DeadLetter(w, n, failed), pc[w] \in {"handle", "retry"},
              n = MaxAttempts \/ lease[w].id \in Unknown
       PROVE  TextInv'
  <2>1. PICK x \in NewText(lease[w].id, n, FALSE), o \in Outcomes :
          DeadLetter(w, n, failed)!(x, o)
    BY <1>14 DEF DeadLetter
  <2>2. /\ UNCHANGED <<ready, processing, delayed, aged>>
        /\ dead' = Cons(x, dead) \/ dead' = dead
    BY <2>1
  <2>3. x \in Payload /\ x.id = lease[w].id /\ x.attempts = n /\ x \notin Existing
    <3>1. lease[w] \in Payload /\ FALSE \in BOOLEAN
      BY <1>14 DEF LocalInv, Working
    <3> QED BY <1>new, <3>1
  <2>4. OnlyAt(w) /\ SameScans(w)
    BY <2>1 DEF OnlyAt, SameScans
  <2>5. Keeps(w)
    <3>1. pc'[w] = "idle" \/ (pc'[w] = "ack" /\ lease'[w] = lease[w])
      BY <2>1
    <3>2. CASE pc'[w] = "idle"
      BY <3>2, GoesFree, SMT
    <3>3. CASE pc'[w] = "ack" /\ lease'[w] = lease[w]
      BY <1>14, <3>3, GoesOn DEF Working
    <3> QED BY <3>1, <3>2, <3>3
  <2>6. Spent(x) /\ x \notin ToSet(dead)
    BY <1>14, <2>3 DEF Spent, Existing
  <2>7. ToSet(dead') \subseteq ToSet(dead) \cup {x} /\ IsInjective(dead')
    <3>1. /\ ToSet(Cons(x, dead)) = ToSet(dead) \cup {x}
          /\ IsInjective(Cons(x, dead))
      BY <1>i, <2>3, <2>6, ConsToSet, SMT
    <3> QED BY <1>i, <2>2, <3>1
  <2>8. Orderly(w)
    BY <1>i, <2>2, <2>4, <2>5, <2>6, <2>7 DEF Orderly
  <2>9. Placed({}, {}, {x})
    BY <1>i, <2>2, <2>7 DEF Placed, Waiting
  <2> QED BY <2>3, <2>8, <2>9, OneAdded
<1>15. ASSUME NEW w \in Procs, RetryJob(w) PROVE TextInv'
  <2> DEFINE n == lease[w].attempts + 1
  <2>1. lease[w] \in Payload /\ Spare(lease[w]) /\ pc[w] = "retry"
    BY <1>15, <1>i DEF RetryJob, LocalInv, Working, HoldsSpare
  <2>2. n \in Nat /\ n <= MaxAttempts
    BY <2>1, ConsumerAssumption, SMT DEF Spare
  <2>3. (n >= MaxAttempts /\ DeadLetter(w, n, "idle"))
          \/ (~ (n >= MaxAttempts) /\ EnqueueAfter(w, n, "ack"))
    BY <1>15 DEF RetryJob
  <2> HIDE DEF n
  <2>4. (n >= MaxAttempts => n = MaxAttempts) /\ (~ (n >= MaxAttempts) => n < MaxAttempts)
    BY <2>2, ConsumerAssumption, SMT
  <2> QED BY <1>13, <1>14, <2>1, <2>2, <2>3, <2>4
<1>16. ASSUME NEW w \in Procs, NoHandler(w) PROVE TextInv'
  <2>1. lease[w] \in Payload /\ pc[w] = "handle" /\ lease[w].id \in Unknown
    BY <1>16 DEF NoHandler, LocalInv, Working
  <2>2. lease[w].attempts \in Nat
    BY <2>1
  <2>3. DeadLetter(w, lease[w].attempts, "ack")
    BY <1>16 DEF NoHandler
  <2> QED BY <1>14, <2>1, <2>2, <2>3
<1>17. ASSUME NEW w \in Procs, Ack(w) PROVE TextInv'
  <2>1. PICK o \in Outcomes :
          /\ processing' = IF Executed(o) THEN RemoveFirst(processing, lease[w]) ELSE processing
          /\ aged' = IF Executed(o) THEN aged \ {lease[w]} ELSE aged
    BY <1>17 DEF Ack
  <2>2. /\ UNCHANGED <<ready, dead, delayed, orig, todo>> /\ pc' = [pc EXCEPT ![w] = "idle"]
        /\ lease' = [lease EXCEPT ![w] = None]
    BY <1>17 DEF Ack
  <2>3. OnlyAt(w) /\ SameScans(w) /\ pc'[w] = "idle"
    BY <2>2 DEF OnlyAt, SameScans
  <2>4. Keeps(w)
    BY <2>3, GoesFree, SMT
  <2>5. /\ processing' = RemoveFirst(processing, lease[w]) \/ UNCHANGED <<processing, aged>>
        /\ aged \ {lease[w]} \subseteq aged'
    BY <2>1
  <2>6. /\ ToSet(processing') \subseteq ToSet(processing) /\ IsInjective(processing')
        /\ \A z \in ToSet(processing') : z \in aged => z \in aged'
    BY <1>rem, <2>5
  <2> QED BY <2>2, <2>3, <2>4, <2>6, ProcessingShrinks
<1>18. ASSUME NEW a \in Procs, ReplayDeadLetterRead(a) PROVE TextInv'
  <2>1. /\ UNCHANGED <<ready, processing, dead, delayed, aged, lease, todo>>
        /\ OnlyAt(a) /\ SameScans(a) /\ pc'[a] = "replay_rem"
    BY <1>18 DEF ReplayDeadLetterRead, OnlyAt, SameScans
  <2>2. Keeps(a)
    BY <2>1, GoesFree, SMT
  <2> QED BY <2>1, <2>2, ListsUnchanged
<1>19. ASSUME NEW a \in Procs, ReplayDeadLetterRem(a) PROVE TextInv'
  <2>1. PICK o \in Outcomes : ReplayDeadLetterRem(a)!2!(o)
    BY <1>19 DEF ReplayDeadLetterRem
  <2>2. UNCHANGED <<ready, processing, delayed, aged, lease, todo>>
    BY <1>19 DEF ReplayDeadLetterRem
  <2>3. OnlyAt(a) /\ SameScans(a) /\ pc'[a] \in {"idle", "replay_push"}
    BY <2>1, <2>2 DEF OnlyAt, SameScans
  <2>4. Keeps(a)
    BY <2>3, GoesFree, SMT
  <2>5. ToSet(dead') \subseteq ToSet(dead) /\ IsInjective(dead')
    <3>1. /\ ToSet(RemoveFirst(dead, orig[a])) \subseteq ToSet(dead)
          /\ IsInjective(RemoveFirst(dead, orig[a]))
      BY <1>i, RemoveFirstToSet
    <3>2. dead' = RemoveFirst(dead, orig[a]) \/ dead' = dead
      BY <2>1
    <3> QED BY <1>i, <3>1, <3>2
  <2>6. Orderly(a)
    BY <1>i, <2>2, <2>3, <2>4, <2>5 DEF Orderly
  <2>7. Placed({}, {}, {})
    BY <1>i, <2>2, <2>5 DEF Placed, Waiting
  <2> QED BY <2>6, <2>7, NothingAdded
<1>20. ASSUME NEW a \in Procs, ReplayDeadLetterPush(a) PROVE TextInv'
  <2>1. PICK o \in Outcomes :
          IF Executed(o) THEN Enqueue(orig[a].id, 0) /\ UNCHANGED dropped
          ELSE UNCHANGED ready /\ dropped' = dropped \cup {orig[a].id}
    BY <1>20 DEF ReplayDeadLetterPush
  <2>2. /\ UNCHANGED <<processing, dead, delayed, aged, lease, todo>>
        /\ pc[a] = "replay_push" /\ pc' = [pc EXCEPT ![a] = "idle"]
        /\ orig' = [orig EXCEPT ![a] = None]
    BY <1>20 DEF ReplayDeadLetterPush
  <2>3. OnlyAt(a) /\ SameScans(a) /\ pc'[a] = "idle"
    BY <2>2 DEF OnlyAt, SameScans
  <2>4. Keeps(a)
    BY <2>3, GoesFree, SMT
  <2>5. orig[a] \in Payload /\ 0 \in Nat
    BY <2>2 DEF LocalInv, HasOrig, Moving
  <2>6. Enqueue(orig[a].id, 0) \/ UNCHANGED ready
    BY <2>1
  <2> QED BY <1>push, <1>z, <2>2, <2>3, <2>4, <2>5, <2>6
<1>21. ASSUME NEW p \in Procs, Crash(p) PROVE TextInv'
  <2>1. /\ UNCHANGED <<ready, processing, dead, delayed, aged>>
        /\ OnlyAt(p) /\ SameScans(p) /\ pc'[p] = "down"
    BY <1>21 DEF Crash, OnlyAt, SameScans
  <2>2. Keeps(p)
    BY <2>1, GoesFree, SMT
  <2> QED BY <2>1, <2>2, ListsUnchanged
<1>22. ASSUME UNCHANGED <<lists, local>>, aged \subseteq aged' PROVE TextInv'
  <2>1. OnlyAt(None) /\ SameScans(None) /\ Keeps(None)
    BY <1>22, StandStill
  <2> QED BY <1>22, <2>1, ListsUnchanged
<1>23. ASSUME Environment PROVE TextInv'
  <2>1. CASE DelayElapses \/ LeaseExpires
    <3>1. UNCHANGED <<lists, local>> /\ aged \subseteq aged'
      BY <2>1 DEF DelayElapses, LeaseExpires
    <3> QED BY <1>22, <3>1
  <2>2. ASSUME NEW p \in Procs, Restart(p) PROVE TextInv'
    <3>1. Goto(p, "idle") /\ UNCHANGED <<lists, aged, orig, lease, todo>>
      BY <2>2 DEF Restart
    <3> QED BY <1>2, <3>1
  <2> QED BY <1>21, <1>23, <2>1, <2>2 DEF Environment
<1>24. ASSUME NEW w \in Procs, Maintain(w) PROVE TextInv'
  BY <1>3, <1>4, <1>5, <1>6, <1>7, <1>8, <1>24 DEF Maintain
<1>25. ASSUME NEW w \in Procs, Dequeue(w) PROVE TextInv'
  <2>1. CASE DequeueEmpty(w)
    <3>1. Goto(w, "idle") /\ UNCHANGED <<lists, aged, orig, lease, todo>>
      BY <2>1 DEF DequeueEmpty
    <3> QED BY <1>2, <3>1
  <2> QED BY <1>9, <1>10, <1>11, <1>25, <2>1 DEF Dequeue
<1>26. ASSUME NEW w \in Workers, WorkerStep(w) PROVE TextInv'
  <2>1. CASE SkipMaintenance(w)
    <3>1. Goto(w, "dequeue") /\ UNCHANGED <<lists, aged, orig, lease, todo>>
      BY <2>1 DEF SkipMaintenance
    <3> QED BY <1>2, <3>1
  <2>2. w \in Procs
    OBVIOUS
  <2> QED BY <1>12, <1>15, <1>16, <1>17, <1>24, <1>25, <1>26, <2>1, <2>2
          DEF WorkerStep, AckJob
<1>27. ASSUME NEW r \in Reconcilers, ReconcilerTick(r) PROVE TextInv'
  <2>1. CASE ~ Maintain(r)
    <3>1. Goto(r, "idle") /\ UNCHANGED <<lists, aged, orig, lease, todo>>
      BY <1>27, <2>1 DEF ReconcilerTick
    <3> QED BY <1>2, <3>1
  <2> QED BY <1>24, <2>1
<1>28. ASSUME NEW a \in Admins, Replay(a) PROVE TextInv'
  BY <1>18, <1>19, <1>20, <1>28 DEF Replay
<1>29. ASSUME UNCHANGED vars PROVE TextInv'
  BY <1>22, <1>29 DEF vars, queueVars
<1> QED BY <1>1, <1>later, <1>23, <1>26, <1>27, <1>28, <1>29 DEF Next

LEMMA TextAlways == Spec => []TextInv
<1>1. Init => TextInv
  <2> SUFFICES ASSUME Init PROVE TextInv
    OBVIOUS
  <2>1. /\ ready = <<>> /\ processing = <<>> /\ dead = <<>> /\ delayed = {}
        /\ \A p \in Procs : pc[p] = "idle"
    BY DEF Init, QueueInit
  <2>2. IsInjective(<<>>) /\ ToSet(<<>>) = {}
    BY SMT DEF IsInjective, ToSet
  <2>3. Promoted = {} /\ Waiting = {}
    BY <2>1, <2>2 DEF Promoted, Waiting
  <2>4. PlacesInv
    BY <2>1, <2>2, <2>3 DEF PlacesInv
  <2>5. AttemptsInv
    BY <2>1, <2>2 DEF AttemptsInv, HoldsSpare, Dequeuing, Working
  <2>6. LeaseInv
    BY <2>1 DEF LeaseInv, Scans, Dequeuing, Working
  <2> QED BY <2>4, <2>5, <2>6 DEF TextInv
<1>2. TypeInvariant /\ LocalInv /\ WaitInv /\ TextInv /\ [Next]_vars => TextInv'
  BY TextStep
<1> QED BY <1>1, <1>2, TypeCorrect, WaitAlways, PTL DEF Spec

(* A job is dead-lettered exactly when its attempts are used up (retryJob), or
   no handler is registered for it, whatever was reclaimed or replayed. *)
THEOREM DeadWhenExhausted == Spec => []DeadIffExhausted
<1>1. TextInv => DeadIffExhausted
  BY DEF TextInv, AttemptsInv, DeadIffExhausted, Spare, Spent
<1> QED BY <1>1, TextAlways, PTL

(* No step takes an unexpired lease from processing while its worker has it:
   another worker's Ack and Dequeue remove another text, and a ReclaimStale has
   read no such lease. *)
LEMMA LeaseStays ==
  ASSUME TypeInvariant, LocalInv, TextInv, [Next]_vars, NEW w \in Workers,
         pc[w] \in Working, lease[w] \in ToSet(processing) \ aged, pc'[w] \in Working
  PROVE  lease[w] \in ToSet(processing')
<1> USE DEF Goto, Forget, local, lists, history
<1>0. /\ Workers \subseteq Procs /\ Reconcilers \subseteq Procs /\ w \in Procs
      /\ processing \in Seq(Payload) /\ ready \in Seq(Payload)
      /\ pc \in [Procs -> Labels] /\ orig \in [Procs -> Payload \cup {None}]
      /\ \A x \in Payload : x.id \in Jobs /\ x.attempts \in Nat
  BY DEF Procs, TypeInvariant, Payload
<1>1. lease[w] \in Payload /\ lease[w].leased
  BY <1>0 DEF LocalInv
<1>2. /\ \A p \in Procs : Scans(p)
      /\ \A p \in Procs : p # w /\ pc[p] \in Working => lease[p] # lease[w]
  BY <1>0 DEF TextInv, LeaseInv
<1>same. ASSUME UNCHANGED processing PROVE lease[w] \in ToSet(processing')
  BY <1>same
<1>cons. ASSUME NEW x \in Payload, processing' \in {processing, Cons(x, processing)}
         PROVE  lease[w] \in ToSet(processing')
  <2>1. ToSet(Cons(x, processing)) = ToSet(processing) \cup {x}
    BY <1>0, ConsToSet, SMT
  <2> QED BY <1>cons, <2>1
<1>rem. ASSUME NEW y, y # lease[w], processing' \in {processing, RemoveFirst(processing, y)}
        PROVE  lease[w] \in ToSet(processing')
  <2>1. ToSet(processing) \subseteq ToSet(RemoveFirst(processing, y)) \cup {y}
    BY <1>0, RemoveFirstToSet
  <2> QED BY <1>rem, <2>1
<1>3. ASSUME NEW p \in Procs, Maintain(p) PROVE lease[w] \in ToSet(processing')
  <2>1. CASE ReclaimStaleRem(p)
    <3>1. PICK y \in todo[p], o \in Outcomes : ReclaimStaleRem(p)!2!(y, o)
      BY <2>1 DEF ReclaimStaleRem
    <3>2. pc[p] = "reclaim"
      BY <2>1 DEF ReclaimStaleRem
    <3>3. y # lease[w]
      BY <1>1, <1>2, <3>2 DEF Scans
    <3>4. processing' \in {processing, RemoveFirst(processing, y)}
      BY <3>1
    <3> QED BY <1>rem, <3>3, <3>4
  <2>2. CASE ~ ReclaimStaleRem(p)
    <3>1. UNCHANGED processing
      BY <1>3, <2>2 DEF Maintain, PromoteDueRead, PromoteDueRem, PromoteDuePush,
         ReclaimStaleRead, ReclaimStalePush
    <3> QED BY <1>same, <3>1
  <2> QED BY <2>1, <2>2
<1>4. ASSUME NEW v \in Procs, Dequeue(v) PROVE lease[w] \in ToSet(processing')
  <2>1. CASE DequeuePop(v)
    <3>1. Last(ready) \in Payload
      BY <1>0, <2>1, FrontLast DEF DequeuePop
    <3>2. processing' \in {processing, Cons(Last(ready), processing)}
      BY <2>1 DEF DequeuePop
    <3> QED BY <1>cons, <3>1, <3>2
  <2>2. CASE DequeueEmpty(v)
    BY <1>same, <2>2 DEF DequeueEmpty
  <2>3. CASE DequeueLeasePush(v)
    <3>1. PICK x \in NewText(orig[v].id, orig[v].attempts, TRUE) :
            processing' \in {processing, Cons(x, processing)}
      BY <2>3 DEF DequeueLeasePush
    <3>2. orig[v].id \in Jobs /\ orig[v].attempts \in Nat /\ TRUE \in BOOLEAN
      BY <1>0, <2>3 DEF DequeueLeasePush, LocalInv, HasOrig, Dequeuing
    <3>3. x \in Payload
      BY <3>2, NewTextIsNew
    <3> QED BY <1>cons, <3>1, <3>3
  <2>4. CASE DequeueLeaseRem(v)
    <3>1. processing' \in {processing, RemoveFirst(processing, orig[v])}
      BY <2>4 DEF DequeueLeaseRem
    <3>2. orig[v] # lease[w]
      BY <1>1, <1>2, <2>4 DEF DequeueLeaseRem, Scans, Dequeuing
    <3> QED BY <1>rem, <3>1, <3>2
  <2> QED BY <1>4, <2>1, <2>2, <2>3, <2>4 DEF Dequeue
<1>5. ASSUME NEW v \in Procs, AckJob(v) PROVE lease[w] \in ToSet(processing')
  <2>1. /\ pc[v] = "ack" /\ pc' = [pc EXCEPT ![v] = "idle"]
        /\ processing' \in {processing, RemoveFirst(processing, lease[v])}
    BY <1>5 DEF AckJob, Ack
  <2>2. v # w
    BY <1>0, <2>1 DEF Working
  <2>3. lease[v] # lease[w]
    BY <1>2, <2>1, <2>2 DEF Working
  <2> QED BY <1>rem, <2>1, <2>3
<1>6. ASSUME NEW v \in Workers, WorkerStep(v) PROVE lease[w] \in ToSet(processing')
  <2>1. CASE RetryJob(v)
    <3>1. \E n, l : DeadLetter(v, n, l) \/ EnqueueAfter(v, n, l)
      BY <2>1 DEF RetryJob
    <3>2. UNCHANGED processing
      BY <3>1 DEF DeadLetter, EnqueueAfter
    <3> QED BY <1>same, <3>2
  <2>2. CASE SkipMaintenance(v) \/ HandlerSucceeds(v) \/ HandlerFails(v) \/ NoHandler(v)
    <3>1. UNCHANGED processing
      BY <2>2 DEF SkipMaintenance, HandlerSucceeds, HandlerFails, NoHandler, DeadLetter
    <3> QED BY <1>same, <3>1
  <2>3. v \in Procs
    BY <1>0
  <2> QED BY <1>3, <1>4, <1>5, <1>6, <2>1, <2>2, <2>3 DEF WorkerStep
<1>7. ASSUME NEW r \in Reconcilers, ReconcilerTick(r) PROVE lease[w] \in ToSet(processing')
  <2>1. CASE ~ Maintain(r)
    BY <1>same, <1>7, <2>1 DEF ReconcilerTick
  <2>2. r \in Procs
    BY <1>0
  <2> QED BY <1>3, <2>1, <2>2
<1>8. ASSUME NEW a \in Admins, Replay(a) PROVE lease[w] \in ToSet(processing')
  BY <1>same, <1>8 DEF Replay, ReplayDeadLetterRead, ReplayDeadLetterRem,
     ReplayDeadLetterPush
<1>9. ASSUME Environment PROVE lease[w] \in ToSet(processing')
  BY <1>same, <1>9 DEF Environment, DelayElapses, LeaseExpires, Crash, Restart
<1>10. ASSUME NEW j \in Jobs, Produce(j) \/ ProduceLater(j)
       PROVE  lease[w] \in ToSet(processing')
  BY <1>same, <1>10 DEF Produce, ProduceLater
<1>11. CASE UNCHANGED vars
  BY <1>same, <1>11 DEF vars, queueVars
<1> QED BY <1>6, <1>7, <1>8, <1>9, <1>10, <1>11 DEF Next

(* A worker keeps its lease until it acknowledges it or it expires, however many
   others acknowledge, dequeue and reclaim meanwhile. *)
THEOREM LeaseKeptUntilAck == Spec => LeaseIsExclusive
<1> DEFINE P(w) ==
      /\ pc[w] \in Working /\ lease[w] \in ToSet(processing) \ aged
      /\ pc'[w] \in Working
      => lease[w] \in ToSet(processing')
<1>1. TypeInvariant /\ LocalInv /\ TextInv /\ [Next]_vars => [\A w \in Workers : P(w)]_vars
  BY LeaseStays
<1> QED BY <1>1, TypeCorrect, TextAlways, PTL DEF Spec, LeaseIsExclusive
=============================================================================
