--------------------------- MODULE DeploymentSafety --------------------------
(***************************************************************************)
(* Safety of Deployment, for any number of deployments, workers and        *)
(* requests and any bounds: type correctness, what may become current, and *)
(* what a process knows of a row nobody else has written since it read it. *)
(***************************************************************************)
EXTENDS Deployment, TLAPS

(* The prover of the leaves that do not name another. *)
USE Zenon

(* The calls for which a process needs its copy of the row, and the status the
   backend reported. *)
WithCopy == {"c_provision", "c_submit", "c_failed", "c_submitted", "d_delete", "d_failed", "d_deleted",
             "s_status", "s_repair", "s_requeue", "s_mark", "retry", "cancel", "delete"}
WithStatus == {"c_submitted", "s_repair", "s_requeue", "s_mark"}

(* What process p holds at each of its calls. *)
Local(p) ==
  /\ pc[p] \notin {"idle", "update"} => job[p] # None /\ row[job[p].dep] # None
  /\ pc[p] \in WithCopy => mem[p] # None
  /\ pc[p] \in WithStatus => seen[p] \in Observed
  /\ pc[p] = "update" => p \in Clients /\ seen[p] \in Deps \cup {None}

LocalInv ==
  /\ \A p \in Procs : Local(p)
  /\ \A j \in JobSet : queue[j] > 0 => row[j.dep] # None

TypeInv == TypeInvariant /\ LocalInv

(* The values the variables of a step may take, apart from those of processes. *)
GlobalTypes ==
  /\ row \in [Deps -> Row \cup {None}]
  /\ current \in Deps \cup {None}
  /\ cluster \in [Deps -> Observed \cup {"absent"}]
  /\ queue \in [JobSet -> 0..MaxCopies]
  /\ ran \subseteq Deps
  /\ repairs \in [Deps -> 0..(MaxRepair + 1)]
  /\ overwritten \in BOOLEAN
  /\ requests \in 0..MaxRequests /\ faults \in 0..MaxFaults

(* The part of a step in which process p moves: what is its own afterwards is
   well formed, and no row goes away. *)
Moves(p) ==
  /\ \E l \in Labels : pc' = [pc EXCEPT ![p] = l]
  /\ \E j \in Request \cup {None} : job' = [job EXCEPT ![p] = j]
  /\ \E r \in Row \cup {None} : mem' = [mem EXCEPT ![p] = r]
  /\ \E s \in Observed \cup Deps \cup {None} : seen' = [seen EXCEPT ![p] = s]
  /\ stale' \subseteq Procs
  /\ \A d \in Deps : row[d] # None => row'[d] # None
  /\ \A j \in JobSet : queue'[j] > 0 => row'[j.dep] # None
  /\ GlobalTypes'
  /\ Local(p)'

(* A step in which only p moves keeps the type invariant. *)
LEMMA MovesTyped ==
  ASSUME TypeInv, NEW p \in Procs, Moves(p)
  PROVE  TypeInv'
<1>1. TypeInvariant'
  BY SMT DEF TypeInv, TypeInvariant, Moves, GlobalTypes
<1>2. \A q \in Procs : Local(q)'
  <2> SUFFICES ASSUME NEW q \in Procs, q # p PROVE Local(q)'
    BY DEF Moves
  <2>1. pc'[q] = pc[q] /\ job'[q] = job[q] /\ mem'[q] = mem[q] /\ seen'[q] = seen[q]
    BY DEF TypeInv, TypeInvariant, Moves
  <2>2. job[q] # None => job[q].dep \in Deps
    BY DEF TypeInv, TypeInvariant, Request
  <2> QED
    BY <2>1, <2>2 DEF TypeInv, LocalInv, Local, Moves
<1> QED
  BY <1>1, <1>2 DEF TypeInv, LocalInv, Moves

(* A process at a call that needs its copy has a well-formed one, of a row that
   exists. *)
LEMMA HasCopy ==
  ASSUME TypeInv, NEW p \in Procs, pc[p] \in WithCopy
  PROVE  /\ mem[p] \in Row /\ job[p] \in Request /\ job[p].dep \in Deps
         /\ row[job[p].dep] # None
<1>1. pc[p] \notin {"idle", "update"}
  BY DEF WithCopy
<1>2. mem[p] \in Row /\ job[p] \in Request /\ row[job[p].dep] # None
  BY <1>1 DEF TypeInv, TypeInvariant, LocalInv, Local
<1> QED
  BY <1>2 DEF Request

(* A process at any call of a handler or of a request has a job. *)
LEMMA HasJob ==
  ASSUME TypeInv, NEW p \in Procs, pc[p] \notin {"idle", "update"}
  PROVE  job[p] \in Request /\ job[p].dep \in Deps /\ row[job[p].dep] # None
<1>1. job[p] \in Request /\ row[job[p].dep] # None
  BY DEF TypeInv, TypeInvariant, LocalInv, Local
<1> QED
  BY <1>1 DEF Request

(* Enqueueing job j (Added) keeps the counts within the bound, and only j can
   be new. *)
LEMMA AddedTyped ==
  ASSUME NEW q \in [JobSet -> 0..MaxCopies], NEW j
  PROVE  /\ Added(q, j) \in [JobSet -> 0..MaxCopies]
         /\ \A k \in JobSet : Added(q, j)[k] > 0 => q[k] > 0 \/ k = j
<1> DEFINE n == IF q[j] < MaxCopies THEN q[j] + 1 ELSE q[j]
<1>1. Added(q, j) = [q EXCEPT ![j] = n]
  BY DEF Added
<1>2. \A k \in JobSet : q[k] \in 0..MaxCopies
  OBVIOUS
<1>3. j \in JobSet => n \in 0..MaxCopies
  BY <1>2, DeploymentAssumption, SMT
<1> HIDE DEF n
<1> QED
  BY <1>1, <1>3

(* A failed call is counted within the bound (Charge). *)
LEMMA Charged ==
  ASSUME TypeInv, NEW o \in Outcomes, Charge(o)
  PROVE  faults' \in 0..MaxFaults
BY DeploymentAssumption, SMT DEF TypeInv, TypeInvariant, Outcomes, Charge

(* DeploymentRepo.Update with a well-formed copy keeps the table and the
   histories well formed and deletes no row. *)
LEMMA Writes ==
  ASSUME TypeInv, NEW p \in Procs, pc[p] \in WithCopy, NEW r \in Row, NEW o \in Outcomes,
         Write(p, r, o)
  PROVE  /\ row' \in [Deps -> Row \cup {None}]
         /\ repairs' \in [Deps -> 0..(MaxRepair + 1)]
         /\ overwritten' \in BOOLEAN
         /\ stale' \subseteq Procs
         /\ faults' \in 0..MaxFaults
         /\ \A d \in Deps : row[d] # None => row'[d] # None
<1> DEFINE d == job[p].dep
           n == Counted(repairs[d], mem[p], r)
<1>1. d \in Deps
  BY HasCopy
<1>2. repairs[d] \in 0..(MaxRepair + 1) /\ MaxRepair \in Nat
  BY <1>1, DeploymentAssumption DEF TypeInv, TypeInvariant
<1>3. n \in 0..(MaxRepair + 1)
  BY <1>2, SMT DEF Counted
<1>4. repairs' = repairs \/ repairs' = [repairs EXCEPT ![d] = n]
  BY DEF Write
<1>5. repairs' \in [Deps -> 0..(MaxRepair + 1)]
  BY <1>1, <1>3, <1>4 DEF TypeInv, TypeInvariant
<1>6. row' = row \/ row' = [row EXCEPT ![d] = r]
  BY DEF Write
<1>7. /\ row' \in [Deps -> Row \cup {None}]
      /\ \A e \in Deps : row[e] # None => row'[e] # None
  BY <1>1, <1>6, DeploymentAssumption, SMT DEF TypeInv, TypeInvariant
<1>8. overwritten' \in BOOLEAN /\ stale' \subseteq Procs
  BY DEF Write, TypeInv, TypeInvariant
<1>9. faults' \in 0..MaxFaults
  BY Charged DEF Write
<1> QED
  BY <1>5, <1>7, <1>8, <1>9

(* MarkDeploymentStatus, QueueAutoRepair and the requests change a well-formed
   copy into a well-formed copy. *)
LEMMA CopiesTyped ==
  ASSUME NEW r \in Row, NEW s \in Statuses
  PROVE  /\ Marked(r, s) \in Row /\ Repaired(r) \in Row
         /\ \A l \in {"retry", "cancel", "delete"} : Requested(r, l) \in Row
<1>1. \A t \in Statuses : Marked(r, t) \in Row
  BY DEF Marked, Row
<1>2. Repaired(r) \in Row
  BY <1>1, DeploymentAssumption, SMT DEF Repaired, Row, Statuses
<1>3. ASSUME NEW l \in {"retry", "cancel", "delete"} PROVE Requested(r, l) \in Row
  <2>1. CASE l = "retry"
    BY <2>1 DEF Requested, Row, Statuses
  <2>2. CASE l = "cancel"
    BY <2>2, <1>1 DEF Requested, Statuses
  <2>3. CASE l = "delete"
    BY <2>3, <1>1 DEF Requested, Statuses
  <2> QED
    BY <2>1, <2>2, <2>3
<1> QED
  BY <1>1, <1>2, <1>3
-----------------------------------------------------------------------------
(* A process that ends (Leave) holds nothing. *)
LEMMA Leaves ==
  ASSUME TypeInv, NEW p \in Procs, Leave(p),
         stale' \subseteq Procs, GlobalTypes',
         \A d \in Deps : row[d] # None => row'[d] # None,
         \A j \in JobSet : queue'[j] > 0 => row'[j.dep] # None
  PROVE  Moves(p)
<1>1. pc'[p] = "idle"
  BY DEF Leave, TypeInv, TypeInvariant
<1>2. Local(p)'
  BY <1>1 DEF Local, WithCopy, WithStatus
<1>3. "idle" \in Labels
  BY DEF Labels
<1> QED
  BY <1>2, <1>3 DEF Leave, Moves

(* A handler that returns an error leaves the queue well formed. *)
LEMMA ErrorQueue ==
  ASSUME TypeInv, NEW p \in Procs, pc[p] \notin {"idle", "update"},
         queue' = Added(queue, job[p]) \/ UNCHANGED queue,
         \A d \in Deps : row[d] # None => row'[d] # None
  PROVE  /\ queue' \in [JobSet -> 0..MaxCopies]
         /\ \A j \in JobSet : queue'[j] > 0 => row'[j.dep] # None
<1>1. /\ queue' \in [JobSet -> 0..MaxCopies]
      /\ \A k \in JobSet : queue'[k] > 0 => queue[k] > 0 \/ k = job[p]
  BY AddedTyped, SMT DEF TypeInv, TypeInvariant
<1>2. \A k \in JobSet : k.dep \in Deps
  BY DEF JobSet
<1> QED
  BY <1>1, <1>2, HasJob DEF TypeInv, LocalInv

(* The queue is well formed after a step that leaves it alone. *)
LEMMA SameQueue ==
  ASSUME TypeInv, UNCHANGED queue, \A d \in Deps : row[d] # None => row'[d] # None
  PROVE  /\ queue' \in [JobSet -> 0..MaxCopies]
         /\ \A j \in JobSet : queue'[j] > 0 => row'[j.dep] # None
<1>1. \A k \in JobSet : k.dep \in Deps
  BY DEF JobSet
<1> QED
  BY <1>1 DEF TypeInv, TypeInvariant, LocalInv

(* A process goes on after it has written its copy (Proceed). *)
LEMMA Proceeds ==
  ASSUME TypeInv, NEW p \in Procs, pc[p] \in WithCopy, NEW r \in Row,
         NEW l \in Labels \ {"idle", "update"}, Proceed(p, r, l),
         l \in WithStatus => seen[p] \in Observed,
         stale' \subseteq Procs, GlobalTypes',
         \A d \in Deps : row[d] # None => row'[d] # None,
         \A j \in JobSet : queue'[j] > 0 => row'[j.dep] # None
  PROVE  Moves(p)
<1> DEFINE last == l \in {"c_current", "c_sync", "d_app", "s_app", "s_sync", "schedule"}
<1>1. pc' = [pc EXCEPT ![p] = l] /\ pc'[p] = l
  BY DEF Proceed, TypeInv, TypeInvariant
<1>2. job' = job /\ job'[p] = job[p]
  BY DEF Proceed
<1>3. mem' = [mem EXCEPT ![p] = IF last THEN None ELSE r] /\ mem'[p] = IF last THEN None ELSE r
  BY DEF Proceed, TypeInv, TypeInvariant
<1>4. /\ seen' = [seen EXCEPT ![p] = IF last THEN None ELSE @]
      /\ seen'[p] = IF last THEN None ELSE seen[p]
  BY DEF Proceed, TypeInv, TypeInvariant
<1>5. job[p] \in Request /\ job[p] # None /\ row'[job[p].dep] # None
  BY HasCopy, DeploymentAssumption
<1>6. l \in WithCopy => ~last /\ r # None
  BY DeploymentAssumption DEF WithCopy
<1>7. l \in WithStatus => ~last
  BY DEF WithStatus
<1> HIDE DEF last
<1>8. Local(p)'
  BY <1>1, <1>2, <1>3, <1>4, <1>5, <1>6, <1>7 DEF Local
<1>9. \E j \in Request \cup {None} : job' = [job EXCEPT ![p] = j]
  BY <1>2, <1>5 DEF TypeInv, TypeInvariant
<1>10. \E m \in Row \cup {None} : mem' = [mem EXCEPT ![p] = m]
  BY <1>3
<1>11. \E v \in Observed \cup Deps \cup {None} : seen' = [seen EXCEPT ![p] = v]
  <2>1. seen[p] \in Observed \cup Deps \cup {None}
    BY DEF TypeInv, TypeInvariant
  <2> QED
    BY <1>4, <2>1
<1> QED
  BY <1>1, <1>8, <1>9, <1>10, <1>11 DEF Moves

(* MarkDeploymentStatus in a handler, followed by the next call, the end of the
   handler or its error. *)
LEMMA MarkMoves ==
  ASSUME TypeInv, NEW w \in Workers, pc[w] \in WithCopy, NEW s \in Statuses,
         NEW l \in {"return", "c_submit", "c_current", "c_sync", "d_app", "s_app", "s_sync"},
         Mark(w, s, l), UNCHANGED requests
  PROVE  Moves(w)
<1>1. w \in Procs /\ pc[w] \notin {"idle", "update"}
  BY DEF Procs, WithCopy
<1> DEFINE r == Marked(mem[w], s)
<1>2. r \in Row
  BY <1>1, HasCopy, CopiesTyped
<1>3. PICK o \in Outcomes :
        /\ Write(w, r, o)
        /\ \/ o # "ok" /\ Error(w)
           \/ o = "ok" /\ l = "return" /\ Return(w)
           \/ o = "ok" /\ l # "return" /\ Proceed(w, r, l) /\ UNCHANGED queue
        /\ UNCHANGED <<current, cluster, ran>>
  BY DEF Mark
<1> HIDE DEF r
<1>4. /\ row' \in [Deps -> Row \cup {None}]
      /\ repairs' \in [Deps -> 0..(MaxRepair + 1)]
      /\ overwritten' \in BOOLEAN
      /\ stale' \subseteq Procs
      /\ faults' \in 0..MaxFaults
      /\ \A d \in Deps : row[d] # None => row'[d] # None
  BY <1>1, <1>2, <1>3, Writes
<1>5. queue' = Added(queue, job[w]) \/ UNCHANGED queue
  BY <1>3 DEF Error, Return
<1>6. /\ queue' \in [JobSet -> 0..MaxCopies]
      /\ \A j \in JobSet : queue'[j] > 0 => row'[j.dep] # None
  BY <1>1, <1>4, <1>5, ErrorQueue
<1>7. GlobalTypes'
  BY <1>3, <1>4, <1>6 DEF GlobalTypes, TypeInv, TypeInvariant
<1>8. CASE Leave(w)
  BY <1>1, <1>4, <1>6, <1>7, <1>8, Leaves
<1>9. CASE l # "return" /\ Proceed(w, r, l)
  <2>1. l \in Labels \ {"idle", "update"} /\ l \notin WithStatus
    BY <1>9 DEF Labels, WithStatus
  <2> QED
    BY <1>1, <1>2, <1>4, <1>6, <1>7, <1>9, <2>1, Proceeds
<1> QED
  BY <1>3, <1>8, <1>9 DEF Error, Return

(* A handler that marks the row failed and returns the error. *)
LEMMA MarkFailedMoves ==
  ASSUME TypeInv, NEW w \in Workers, pc[w] \in WithCopy, MarkFailed(w), UNCHANGED requests
  PROVE  Moves(w)
<1>1. w \in Procs /\ pc[w] \notin {"idle", "update"}
  BY DEF Procs, WithCopy
<1>2. Marked(mem[w], "failed") \in Row
  BY <1>1, HasCopy, CopiesTyped DEF Statuses
<1>3. /\ row' \in [Deps -> Row \cup {None}]
      /\ repairs' \in [Deps -> 0..(MaxRepair + 1)]
      /\ overwritten' \in BOOLEAN
      /\ stale' \subseteq Procs
      /\ faults' \in 0..MaxFaults
      /\ \A d \in Deps : row[d] # None => row'[d] # None
  BY <1>1, <1>2, Writes DEF MarkFailed
<1>4. /\ queue' \in [JobSet -> 0..MaxCopies]
      /\ \A j \in JobSet : queue'[j] > 0 => row'[j.dep] # None
  BY <1>1, <1>3, ErrorQueue DEF MarkFailed, Error
<1>5. GlobalTypes'
  BY <1>3, <1>4 DEF GlobalTypes, TypeInv, TypeInvariant, MarkFailed
<1> QED
  BY <1>1, <1>3, <1>4, <1>5, Leaves DEF MarkFailed, Error

(* A process goes on to a call for which it has what it needs (Goto). *)
LEMMA Gotos ==
  ASSUME TypeInv, NEW p \in Procs, pc[p] \notin {"idle", "update"},
         NEW l \in Labels \ {"idle", "update"}, Goto(p, l),
         l \in WithCopy => mem[p] # None, l \in WithStatus => seen[p] \in Observed,
         stale' \subseteq Procs, GlobalTypes',
         \A d \in Deps : row[d] # None => row'[d] # None,
         \A j \in JobSet : queue'[j] > 0 => row'[j.dep] # None
  PROVE  Moves(p)
<1>1. pc' = [pc EXCEPT ![p] = l] /\ pc'[p] = l /\ job' = job /\ mem' = mem /\ seen' = seen
  BY DEF Goto, TypeInv, TypeInvariant
<1>2. job[p] \in Request /\ job[p] # None /\ row'[job[p].dep] # None
  BY HasJob, DeploymentAssumption
<1>3. Local(p)'
  BY <1>1, <1>2 DEF Local
<1>4. /\ job' = [job EXCEPT ![p] = job[p]] /\ job[p] \in Request
      /\ mem' = [mem EXCEPT ![p] = mem[p]] /\ mem[p] \in Row \cup {None}
      /\ seen' = [seen EXCEPT ![p] = seen[p]] /\ seen[p] \in Observed \cup Deps \cup {None}
  BY <1>1, <1>2 DEF TypeInv, TypeInvariant
<1> QED
  BY <1>1, <1>3, <1>4 DEF Moves

(* ScheduleDeployment or ScheduleSync at the end of a handler. *)
LEMMA ScheduleMoves ==
  ASSUME TypeInv, NEW w \in Workers, pc[w] \notin {"idle", "update"}, NEW t \in Types,
         Schedule(w, t), UNCHANGED requests
  PROVE  Moves(w)
<1>1. w \in Procs
  BY DEF Procs
<1> DEFINE n == NewJob(t, job[w].dep)
<1>2. PICK o \in Outcomes :
        LET q == IF Effective(o) THEN Added(queue, n) ELSE queue IN
        /\ Charge(o)
        /\ queue' = q \/ (o # "ok" /\ queue' = Added(q, job[w]))
        /\ Leave(w)
        /\ UNCHANGED <<row, current, cluster, stale, history>>
  BY DEF Schedule
<1> DEFINE q == IF Effective(o) THEN Added(queue, n) ELSE queue
<1>3. n.dep = job[w].dep /\ row[n.dep] # None /\ row[job[w].dep] # None
  BY <1>1, HasJob DEF NewJob
<1> HIDE DEF n
<1>4. /\ q \in [JobSet -> 0..MaxCopies]
      /\ \A k \in JobSet : q[k] > 0 => queue[k] > 0 \/ k = n
  BY AddedTyped DEF TypeInv, TypeInvariant
<1>5. queue' = q \/ queue' = Added(q, job[w])
  BY <1>2
<1> HIDE DEF q
<1>6. /\ queue' \in [JobSet -> 0..MaxCopies]
      /\ \A k \in JobSet : queue'[k] > 0 => queue[k] > 0 \/ k = n \/ k = job[w]
  BY <1>4, <1>5, AddedTyped
<1>7. \A k \in JobSet : queue'[k] > 0 => row'[k.dep] # None
  BY <1>2, <1>3, <1>6 DEF TypeInv, LocalInv
<1>8. faults' \in 0..MaxFaults
  BY <1>2, Charged
<1>9. GlobalTypes' /\ stale' \subseteq Procs
  BY <1>2, <1>6, <1>8 DEF GlobalTypes, history, TypeInv, TypeInvariant
<1> QED
  BY <1>1, <1>2, <1>7, <1>9, Leaves

(* AppRepo.Update with the current deployment c. *)
LEMMA SetCurrentMoves ==
  ASSUME TypeInv, NEW w \in Workers, pc[w] \notin {"idle", "update"}, NEW c \in Deps \cup {None},
         NEW l \in {"return", "c_sync"}, SetCurrent(w, c, l), UNCHANGED requests
  PROVE  Moves(w)
<1>1. w \in Procs
  BY DEF Procs
<1>2. PICK o \in Outcomes :
        /\ Charge(o)
        /\ current' = IF Effective(o) THEN c ELSE current
        /\ \/ Leave(w) /\ (queue' = Added(queue, job[w]) \/ UNCHANGED queue)
           \/ l # "return" /\ Goto(w, l) /\ UNCHANGED queue
        /\ UNCHANGED <<row, cluster, stale, history>>
  BY DEF SetCurrent, Error, Return
<1>3. /\ queue' \in [JobSet -> 0..MaxCopies]
      /\ \A j \in JobSet : queue'[j] > 0 => row'[j.dep] # None
  BY <1>1, <1>2, ErrorQueue
<1>4. faults' \in 0..MaxFaults
  BY <1>2, Charged
<1>5. GlobalTypes' /\ stale' \subseteq Procs
  BY <1>2, <1>3, <1>4 DEF GlobalTypes, history, TypeInv, TypeInvariant
<1>6. CASE Leave(w)
  BY <1>1, <1>2, <1>3, <1>5, <1>6, Leaves
<1>7. CASE l # "return" /\ Goto(w, l)
  <2>1. l \in Labels \ {"idle", "update"} /\ l \notin WithCopy /\ l \notin WithStatus
    BY <1>7 DEF Labels, WithCopy, WithStatus
  <2> QED
    BY <1>1, <1>2, <1>3, <1>5, <1>7, <2>1, Gotos
<1> QED
  BY <1>2, <1>6, <1>7

(* A handler returns an error, or ends, with the row and the app as they were. *)
LEMMA EndMoves ==
  ASSUME TypeInv, NEW w \in Procs, pc[w] \notin {"idle", "update"}, Leave(w),
         queue' = Added(queue, job[w]) \/ UNCHANGED queue,
         stale' \subseteq Procs, faults' \in 0..MaxFaults,
         UNCHANGED <<row, current, cluster, history, requests>>
  PROVE  Moves(w)
<1>1. /\ queue' \in [JobSet -> 0..MaxCopies]
      /\ \A j \in JobSet : queue'[j] > 0 => row'[j.dep] # None
  BY ErrorQueue
<1>2. GlobalTypes'
  BY <1>1 DEF GlobalTypes, history, TypeInv, TypeInvariant
<1> QED
  BY <1>1, <1>2, Leaves

(* A fault is counted within the bound. *)
LEMMA Fault ==
  ASSUME TypeInv, faults < MaxFaults, faults' = faults + 1
  PROVE  faults' \in 0..MaxFaults
BY DeploymentAssumption, SMT DEF TypeInv, TypeInvariant

(* A call that only reads fails (ReadFails). *)
LEMMA ReadFailsMoves ==
  ASSUME TypeInv, NEW w \in Workers, pc[w] \notin {"idle", "update"}, ReadFails(w),
         UNCHANGED requests
  PROVE  Moves(w)
<1>1. w \in Procs /\ stale' \subseteq Procs
  BY DEF Procs, ReadFails, TypeInv, TypeInvariant
<1> QED
  BY <1>1, Fault, EndMoves DEF ReadFails, Error
-----------------------------------------------------------------------------
(* A consumer hands a job to its handler, which reads the row (Handle). *)
LEMMA HandleTyped ==
  ASSUME TypeInv, NEW w \in Workers, NEW j \in JobSet, NEW skip,
         NEW l \in {"c_provision", "d_delete", "s_status"}, Handle(w, j, skip, l),
         UNCHANGED requests
  PROVE  TypeInv'
<1>1. w \in Procs /\ j \in Request /\ j.dep \in Deps
  BY DEF Procs, JobSet, Request
<1>2. queue[j] > 0 /\ queue' = [queue EXCEPT ![j] = @ - 1]
  BY DEF Handle
<1>3. queue[j] \in 0..MaxCopies /\ queue[j] - 1 \in 0..MaxCopies
  BY <1>2, DeploymentAssumption, SMT DEF TypeInv, TypeInvariant
<1>4. /\ queue' \in [JobSet -> 0..MaxCopies]
      /\ \A k \in JobSet : queue'[k] > 0 => queue[k] > 0
  BY <1>2, <1>3 DEF TypeInv, TypeInvariant
<1>5. UNCHANGED <<row, current, cluster, ran, repairs, overwritten>>
  BY DEF Handle, history
<1>6. faults' \in 0..MaxFaults
  BY Fault DEF Handle, TypeInv, TypeInvariant
<1>7. GlobalTypes' /\ \A k \in JobSet : queue'[k] > 0 => row'[k.dep] # None
  BY <1>4, <1>5, <1>6 DEF GlobalTypes, TypeInv, TypeInvariant, LocalInv
<1>8. CASE UNCHANGED jobVars
  <2>1. UNCHANGED <<pc, job, mem, seen, stale>>
    BY <1>8 DEF jobVars
  <2>2. TypeInvariant'
    BY <1>7, <2>1 DEF GlobalTypes, TypeInv, TypeInvariant
  <2>3. \A p \in Procs : Local(p)'
    BY <1>5, <2>1 DEF TypeInv, LocalInv, Local
  <2> QED
    BY <1>7, <2>2, <2>3 DEF TypeInv, LocalInv
<1>9. CASE Begin(w, j, l)
  <2>1. row[j.dep] # None /\ row[j.dep] \in Row
    BY <1>1, <1>2 DEF TypeInv, LocalInv, TypeInvariant
  <2>2. pc'[w] = l /\ job'[w] = j /\ mem'[w] = row[j.dep] /\ seen' = seen
    BY <1>1, <1>9 DEF Begin, TypeInv, TypeInvariant
  <2>3. Local(w)'
    BY <1>1, <1>5, <2>1, <2>2, DeploymentAssumption DEF Local, WithStatus
  <2>4. stale' \subseteq Procs /\ l \in Labels
    BY <1>9 DEF Begin, Labels, TypeInv, TypeInvariant
  <2>5. seen' = [seen EXCEPT ![w] = seen[w]] /\ seen[w] \in Observed \cup Deps \cup {None}
    BY <1>1, <2>2 DEF TypeInv, TypeInvariant
  <2>6. Moves(w)
    BY <1>1, <1>5, <1>7, <1>9, <2>1, <2>3, <2>4, <2>5 DEF Moves, Begin
  <2> QED
    BY <1>1, <2>6, MovesTyped
<1> QED
  BY <1>8, <1>9 DEF Handle

(* Backend.Submit in the create handler. *)
LEMMA CreateSubmitMoves ==
  ASSUME TypeInv, NEW w \in Workers, CreateSubmit(w), UNCHANGED requests
  PROVE  Moves(w)
<1> DEFINE d == job[w].dep
<1>1. w \in Procs /\ pc[w] \in WithCopy
  BY DEF Procs, WithCopy, CreateSubmit
<1>2. mem[w] \in Row /\ job[w] \in Request /\ d \in Deps /\ row[d] # None
  BY <1>1, HasCopy
<1>3. PICK o \in Outcomes, c \in Observed, s \in SubmitStatuses :
       /\ Charge(o)
       /\ cluster' = IF Effective(o) THEN [cluster EXCEPT ![d] = c] ELSE cluster
       /\ pc' = [pc EXCEPT ![w] = IF o = "ok" THEN "c_submitted" ELSE "c_failed"]
       /\ seen' = [seen EXCEPT ![w] = IF o = "ok" THEN s ELSE None]
       /\ mem' = [mem EXCEPT ![w] = IF o = "ok" THEN Referenced(@) ELSE @]
       /\ ran' = IF o = "ok" /\ s = "running" THEN ran \cup {d} ELSE ran
  BY DEF CreateSubmit
<1>4. UNCHANGED <<row, current, queue, job, stale, repairs, overwritten>>
  BY DEF CreateSubmit
<1> DEFINE l == IF o = "ok" THEN "c_submitted" ELSE "c_failed"
           v == IF o = "ok" THEN s ELSE None
           r == IF o = "ok" THEN Referenced(mem[w]) ELSE mem[w]
<1>5. /\ l \in Labels \ {"idle", "update"}
      /\ v \in Observed \cup {None}
      /\ l \in WithStatus => v \in Observed
  BY DeploymentAssumption DEF Labels, WithStatus, Observed
<1>6. r \in Row
  BY <1>2 DEF Row, Referenced
<1>7. pc' = [pc EXCEPT ![w] = l] /\ seen' = [seen EXCEPT ![w] = v] /\ mem' = [mem EXCEPT ![w] = r]
  BY <1>3
<1> HIDE DEF l, v, r
<1>8. pc'[w] = l /\ seen'[w] = v /\ mem'[w] = r /\ job'[w] = job[w] /\ row' = row
  BY <1>1, <1>4, <1>7 DEF TypeInv, TypeInvariant
<1>9. Local(w)'
  BY <1>2, <1>5, <1>6, <1>8, DeploymentAssumption DEF Local
<1>10. faults' \in 0..MaxFaults
  BY <1>3, Charged
<1>11. cluster' \in [Deps -> Observed \cup {"absent"}] /\ ran' \subseteq Deps
  BY <1>2, <1>3 DEF TypeInv, TypeInvariant
<1>12. GlobalTypes' /\ stale' \subseteq Procs
  BY <1>4, <1>10, <1>11 DEF GlobalTypes, TypeInv, TypeInvariant
<1>13. \A k \in JobSet : queue'[k] > 0 => row'[k.dep] # None
  BY <1>4 DEF TypeInv, LocalInv
<1>14. job' = [job EXCEPT ![w] = job[w]]
  BY <1>1, <1>4 DEF TypeInv, TypeInvariant
<1> QED
  BY <1>2, <1>4, <1>5, <1>6, <1>7, <1>9, <1>12, <1>13, <1>14 DEF Moves

(* Backend.Delete in the delete handler. *)
LEMMA DeleteResourcesMoves ==
  ASSUME TypeInv, NEW w \in Workers, DeleteResources(w), UNCHANGED requests
  PROVE  Moves(w)
<1>1. w \in Procs /\ pc[w] \in WithCopy /\ pc[w] \notin {"idle", "update"}
  BY DEF Procs, WithCopy, DeleteResources
<1>2. mem[w] # None /\ job[w].dep \in Deps
  BY <1>1, HasCopy, DeploymentAssumption
<1>3. PICK o \in Outcomes :
        /\ Charge(o)
        /\ cluster' = IF mem[w].ref /\ Effective(o)
                      THEN [cluster EXCEPT ![job[w].dep] = "absent"] ELSE cluster
        /\ Goto(w, IF o = "ok" THEN "d_deleted" ELSE "d_failed")
  BY DEF DeleteResources
<1>4. UNCHANGED <<row, current, queue, stale, history>>
  BY DEF DeleteResources
<1> DEFINE l == IF o = "ok" THEN "d_deleted" ELSE "d_failed"
<1>5. l \in Labels \ {"idle", "update"} /\ l \notin WithStatus /\ Goto(w, l)
  BY <1>3 DEF Labels, WithStatus
<1>6. faults' \in 0..MaxFaults
  BY <1>3, Charged
<1>7. cluster' \in [Deps -> Observed \cup {"absent"}]
  BY <1>2, <1>3 DEF TypeInv, TypeInvariant
<1>8. GlobalTypes' /\ stale' \subseteq Procs
  BY <1>4, <1>6, <1>7 DEF GlobalTypes, history, TypeInv, TypeInvariant
<1>9. \A k \in JobSet : queue'[k] > 0 => row'[k.dep] # None
  BY <1>4 DEF TypeInv, LocalInv
<1> HIDE DEF l
<1> QED
  BY <1>1, <1>2, <1>4, <1>5, <1>8, <1>9, Gotos

(* A worker goes on, or ends, after a call that only read: the app of the delete
   and of the sync handler. *)
LEMMA ReadAppMoves ==
  ASSUME TypeInv, NEW w \in Workers, DeleteReadApp(w) \/ SyncReadApp(w), UNCHANGED requests
  PROVE  Moves(w)
<1>1. w \in Procs /\ pc[w] \notin {"idle", "update"}
  BY DEF Procs, DeleteReadApp, SyncReadApp
<1>2. CASE ReadFails(w)
  BY <1>1, <1>2, ReadFailsMoves
<1>3. CASE ~ReadFails(w)
  <2>1. UNCHANGED <<row, current, cluster, stale, history, queue>>
    BY <1>3 DEF DeleteReadApp, SyncReadApp, Return
  <2>2. faults' \in 0..MaxFaults
    BY <1>3, Fault DEF DeleteReadApp, SyncReadApp, TypeInv, TypeInvariant
  <2>3. stale' \subseteq Procs /\ GlobalTypes'
    BY <2>1, <2>2 DEF GlobalTypes, history, TypeInv, TypeInvariant
  <2>4. CASE Leave(w)
    BY <1>1, <2>1, <2>2, <2>3, <2>4, EndMoves
  <2>5. ASSUME NEW l \in {"d_current", "s_current"}, Goto(w, l) PROVE Moves(w)
    <3>1. l \in Labels \ {"idle", "update"} /\ l \notin WithStatus /\ l \notin WithCopy
      BY DEF Labels, WithStatus, WithCopy
    <3>2. \A k \in JobSet : queue'[k] > 0 => row'[k.dep] # None
      BY <2>1 DEF TypeInv, LocalInv
    <3> QED
      BY <1>1, <2>1, <2>3, <2>5, <3>1, <3>2, Gotos
  <2> QED
    BY <1>3, <2>4, <2>5 DEF DeleteReadApp, SyncReadApp, Return
<1> QED
  BY <1>2, <1>3

(* Backend.GetStatus in the sync handler. *)
LEMMA SyncStatusMoves ==
  ASSUME TypeInv, NEW w \in Workers, SyncStatus(w), UNCHANGED requests
  PROVE  Moves(w)
<1> DEFINE d == job[w].dep
           s == IF cluster[d] = "absent" THEN "failed" ELSE cluster[d]
           l == IF s = "failed" /\ AutoRepair THEN "s_repair" ELSE "s_mark"
<1>1. w \in Procs /\ pc[w] \in WithCopy /\ pc[w] \notin {"idle", "update"}
  BY DEF Procs, WithCopy, SyncStatus
<1>2. CASE ReadFails(w)
  BY <1>1, <1>2, ReadFailsMoves
<1>3. CASE Error(w) /\ stale' = stale \ {w} /\ UNCHANGED <<row, current, cluster, history, faults>>
  <2>1. faults' \in 0..MaxFaults /\ stale' \subseteq Procs
    BY <1>3 DEF TypeInv, TypeInvariant
  <2> QED
    BY <1>1, <1>3, <2>1, EndMoves DEF Error
<1>4. ASSUME seen' = [seen EXCEPT ![w] = s], pc' = [pc EXCEPT ![w] = l],
             ran' = IF s = "running" THEN ran \cup {d} ELSE ran,
             UNCHANGED <<row, current, cluster, queue, job, mem, stale, repairs, overwritten, faults>>
      PROVE  Moves(w)
  <2>1. mem[w] \in Row /\ job[w] \in Request /\ d \in Deps /\ row[d] # None
    BY <1>1, HasCopy
  <2>2. s \in Observed
    BY <2>1 DEF TypeInv, TypeInvariant, Observed
  <2>3. l \in Labels \ {"idle", "update"}
    BY DEF Labels
  <2> HIDE DEF s, l
  <2>4. pc'[w] = l /\ seen'[w] = s /\ mem'[w] = mem[w] /\ job'[w] = job[w] /\ row' = row
    BY <1>1, <1>4 DEF TypeInv, TypeInvariant
  <2>5. Local(w)'
    BY <2>1, <2>2, <2>3, <2>4, DeploymentAssumption DEF Local
  <2>6. ran' \subseteq Deps /\ stale' \subseteq Procs
    BY <1>4, <2>1 DEF TypeInv, TypeInvariant
  <2>7. GlobalTypes'
    BY <1>4, <2>6 DEF GlobalTypes, TypeInv, TypeInvariant
  <2>8. \A k \in JobSet : queue'[k] > 0 => row'[k.dep] # None
    BY <1>4 DEF TypeInv, LocalInv
  <2>9. job' = [job EXCEPT ![w] = job[w]] /\ mem' = [mem EXCEPT ![w] = mem[w]]
    BY <1>1, <1>4 DEF TypeInv, TypeInvariant
  <2> QED
    BY <1>4, <2>1, <2>2, <2>3, <2>5, <2>6, <2>7, <2>8, <2>9 DEF Moves
<1> QED
  BY <1>2, <1>3, <1>4 DEF SyncStatus

(* QueueAutoRepair up to its write of the row. *)
LEMMA SyncRepairMoves ==
  ASSUME TypeInv, NEW w \in Workers, SyncRepair(w), UNCHANGED requests
  PROVE  Moves(w)
<1> DEFINE r == Repaired(mem[w])
<1>1. w \in Procs /\ pc[w] \in WithCopy /\ pc[w] \in WithStatus
  BY DEF Procs, WithCopy, WithStatus, SyncRepair
<1>2. r \in Row /\ seen[w] \in Observed
  BY <1>1, HasCopy, CopiesTyped DEF TypeInv, LocalInv, Local, Row
<1>3. PICK o \in Outcomes :
        /\ Write(w, r, o)
        /\ IF o = "ok" /\ r.status = "failed" THEN Return(w)
           ELSE Proceed(w, r, IF o = "ok" THEN "s_requeue" ELSE "s_mark") /\ UNCHANGED queue
  BY DEF SyncRepair
<1> DEFINE l == IF o = "ok" THEN "s_requeue" ELSE "s_mark"
<1> HIDE DEF r
<1>4. /\ row' \in [Deps -> Row \cup {None}]
      /\ repairs' \in [Deps -> 0..(MaxRepair + 1)]
      /\ overwritten' \in BOOLEAN
      /\ stale' \subseteq Procs
      /\ faults' \in 0..MaxFaults
      /\ \A d \in Deps : row[d] # None => row'[d] # None
  BY <1>1, <1>2, <1>3, Writes
<1>5. UNCHANGED <<current, cluster, ran, queue>>
  BY <1>3 DEF SyncRepair, Return
<1>6. /\ queue' \in [JobSet -> 0..MaxCopies]
      /\ \A j \in JobSet : queue'[j] > 0 => row'[j.dep] # None
  BY <1>4, <1>5, SameQueue
<1>7. GlobalTypes'
  BY <1>4, <1>5, <1>6 DEF GlobalTypes, TypeInv, TypeInvariant
<1>8. CASE Leave(w)
  BY <1>1, <1>4, <1>6, <1>7, <1>8, Leaves
<1>9. CASE Proceed(w, r, l)
  <2>1. l \in Labels \ {"idle", "update"}
    BY DEF Labels
  <2> HIDE DEF l
  <2> QED
    BY <1>1, <1>2, <1>4, <1>6, <1>7, <1>9, <2>1, Proceeds
<1> QED
  BY <1>3, <1>8, <1>9 DEF Return

(* QueueAutoRepair's ScheduleDeployment. *)
LEMMA SyncRequeueMoves ==
  ASSUME TypeInv, NEW w \in Workers, SyncRequeue(w), UNCHANGED requests
  PROVE  Moves(w)
<1> DEFINE n == NewJob("create", job[w].dep)
<1>1. w \in Procs /\ pc[w] \in WithCopy /\ pc[w] \in WithStatus /\ pc[w] \notin {"idle", "update"}
  BY DEF Procs, WithCopy, WithStatus, SyncRequeue
<1>2. mem[w] # None /\ seen[w] \in Observed /\ n.dep = job[w].dep /\ row[job[w].dep] # None
  BY <1>1, HasCopy, DeploymentAssumption DEF TypeInv, LocalInv, Local, NewJob
<1> HIDE DEF n
<1>3. PICK o \in Outcomes :
        /\ Charge(o)
        /\ queue' = IF Effective(o) THEN Added(queue, n) ELSE queue
        /\ IF o = "ok" THEN Leave(w) /\ stale' = stale \ {w} ELSE Goto(w, "s_mark") /\ UNCHANGED stale
  BY DEF SyncRequeue, n
<1>4. UNCHANGED <<row, current, cluster, history>>
  BY DEF SyncRequeue
<1>5. /\ queue' \in [JobSet -> 0..MaxCopies]
      /\ \A k \in JobSet : queue'[k] > 0 => queue[k] > 0 \/ k = n
  BY <1>3, AddedTyped DEF TypeInv, TypeInvariant
<1>6. \A k \in JobSet : queue'[k] > 0 => row'[k.dep] # None
  BY <1>2, <1>4, <1>5 DEF TypeInv, LocalInv
<1>7. faults' \in 0..MaxFaults
  BY <1>3, Charged
<1>8. GlobalTypes' /\ stale' \subseteq Procs
  BY <1>3, <1>4, <1>5, <1>7 DEF GlobalTypes, history, TypeInv, TypeInvariant
<1>9. CASE Leave(w)
  BY <1>1, <1>4, <1>6, <1>8, <1>9, Leaves
<1>10. CASE Goto(w, "s_mark")
  <2>1. "s_mark" \in Labels \ {"idle", "update"}
    BY DEF Labels
  <2> QED
    BY <1>1, <1>2, <1>4, <1>6, <1>8, <1>10, <2>1, Gotos
<1> QED
  BY <1>3, <1>9, <1>10

(* In every call of a handler only its worker moves. *)
LEMMA WorkerMoves ==
  ASSUME TypeInv, NEW w \in Workers, WorkerStep(w), UNCHANGED requests
  PROVE  Moves(w)
<1>1. w \in Procs
  BY DEF Procs
<1>2. job[w] # None => job[w].dep \in Deps
  BY <1>1 DEF TypeInv, TypeInvariant, Request
<1>3. CASE CreateProvisioning(w)
  BY <1>3, MarkMoves DEF CreateProvisioning, WithCopy, Statuses
<1>4. CASE CreateFailed(w) \/ DeleteFailed(w)
  BY <1>4, MarkFailedMoves DEF CreateFailed, DeleteFailed, WithCopy
<1>5. CASE CreateSubmitted(w)
  <2>1. seen[w] \in Statuses
    BY <1>1, <1>5 DEF CreateSubmitted, TypeInv, LocalInv, Local, WithStatus, Observed, Statuses
  <2>2. pc[w] \in WithCopy
    BY <1>5 DEF CreateSubmitted, WithCopy
  <2> QED
    BY <1>5, <2>1, <2>2, MarkMoves DEF CreateSubmitted
<1>6. CASE CreateCurrent(w) \/ SyncCurrent(w)
  <2>1. job[w].dep \in Deps /\ pc[w] \notin {"idle", "update"}
    BY <1>1, <1>6, HasJob DEF CreateCurrent, SyncCurrent
  <2> QED
    BY <1>6, <2>1, SetCurrentMoves DEF CreateCurrent, SyncCurrent
<1>7. CASE CreateSync(w) \/ SyncAgain(w)
  BY <1>7, ScheduleMoves DEF CreateSync, SyncAgain, Types
<1>8. CASE DeleteDeleted(w)
  BY <1>8, MarkMoves DEF DeleteDeleted, WithCopy, Statuses
<1>9. CASE DeleteCurrent(w)
  BY <1>9, SetCurrentMoves DEF DeleteCurrent
<1>10. CASE SyncMark(w)
  <2>1. seen[w] \in Statuses
    BY <1>1, <1>10 DEF SyncMark, TypeInv, LocalInv, Local, WithStatus, Observed, Statuses
  <2>2. pc[w] \in WithCopy
    BY <1>10 DEF SyncMark, WithCopy
  <2> QED
    BY <1>10, <2>1, <2>2, MarkMoves DEF SyncMark
<1> QED
  BY <1>3, <1>4, <1>5, <1>6, <1>7, <1>8, <1>9, <1>10, CreateSubmitMoves, DeleteResourcesMoves,
     ReadAppMoves, SyncStatusMoves, SyncRepairMoves, SyncRequeueMoves DEF WorkerStep
-----------------------------------------------------------------------------
(* An API request starts: it creates a row, or reads a row or the app. *)
LEMMA ClientStartTyped ==
  ASSUME TypeInv, NEW c \in Clients, ClientStart(c)
  PROVE  TypeInv'
<1>1. c \in Procs /\ pc[c] = "idle"
  BY DEF Procs, ClientStart
<1>2. requests' \in 0..MaxRequests
  BY DeploymentAssumption, SMT DEF ClientStart, TypeInv, TypeInvariant
<1>3. CASE UpdateApp(c)
  <2>1. /\ pc' = [pc EXCEPT ![c] = "update"] /\ seen' = [seen EXCEPT ![c] = current]
        /\ UNCHANGED <<row, current, cluster, queue, job, mem, stale, ran, repairs, overwritten, faults>>
    BY <1>3 DEF UpdateApp, history
  <2>2. pc'[c] = "update" /\ seen'[c] = current /\ current \in Deps \cup {None}
    BY <1>1, <2>1 DEF TypeInv, TypeInvariant
  <2>3. Local(c)'
    BY <2>2 DEF Local, WithCopy, WithStatus
  <2>4. GlobalTypes' /\ stale' \subseteq Procs
    BY <1>2, <2>1 DEF GlobalTypes, TypeInv, TypeInvariant
  <2>5. /\ job' = [job EXCEPT ![c] = job[c]] /\ job[c] \in Request \cup {None}
        /\ mem' = [mem EXCEPT ![c] = mem[c]] /\ mem[c] \in Row \cup {None}
    BY <1>1, <2>1 DEF TypeInv, TypeInvariant
  <2>6. "update" \in Labels /\ \A k \in JobSet : queue'[k] > 0 => row'[k.dep] # None
    BY <2>1 DEF Labels, TypeInv, LocalInv
  <2>7. Moves(c)
    BY <2>1, <2>2, <2>3, <2>4, <2>5, <2>6 DEF Moves
  <2> QED
    BY <1>1, <2>7, MovesTyped
<1>4. ASSUME NEW d \in Deps, CreateDeployment(c, d) PROVE TypeInv'
  <2> DEFINE new == [status |-> "queued", ref |-> FALSE, repair |-> 0]
  <2>1. new \in Row
    BY DEF Row, Statuses
  <2>2. row' = [row EXCEPT ![d] = new]
        /\ UNCHANGED <<current, cluster, queue, mem, seen, stale, ran, repairs, overwritten>>
    BY <1>4 DEF CreateDeployment, history
  <2> HIDE DEF new
  <2>3. /\ row' \in [Deps -> Row \cup {None}] /\ row'[d] = new /\ new # None
        /\ \A e \in Deps : row[e] # None => row'[e] # None
    BY <2>1, <2>2, DeploymentAssumption DEF TypeInv, TypeInvariant
  <2>4. PICK o \in Outcomes :
          /\ Charge(o)
          /\ \/ pc' = [pc EXCEPT ![c] = "schedule"] /\ job' = [job EXCEPT ![c] = NewJob("create", d)]
             \/ UNCHANGED <<pc, job>>
    BY <1>4 DEF CreateDeployment
  <2>5. faults' \in 0..MaxFaults
    BY <2>4, Charged
  <2>6. /\ queue' \in [JobSet -> 0..MaxCopies]
        /\ \A k \in JobSet : queue'[k] > 0 => row'[k.dep] # None
    BY <2>2, <2>3, SameQueue
  <2>7. GlobalTypes' /\ stale' \subseteq Procs
    BY <1>2, <2>2, <2>3, <2>5, <2>6 DEF GlobalTypes, TypeInv, TypeInvariant
  <2>8. /\ mem' = [mem EXCEPT ![c] = mem[c]] /\ mem[c] \in Row \cup {None}
        /\ seen' = [seen EXCEPT ![c] = seen[c]] /\ seen[c] \in Observed \cup Deps \cup {None}
    BY <1>1, <2>2 DEF TypeInv, TypeInvariant
  <2>9. CASE UNCHANGED <<pc, job>>
    <3>1. Local(c)'
      BY <1>1, <2>9 DEF Local, WithCopy, WithStatus
    <3>2. /\ pc' = [pc EXCEPT ![c] = pc[c]] /\ pc[c] \in Labels
          /\ job' = [job EXCEPT ![c] = job[c]] /\ job[c] \in Request \cup {None}
      BY <1>1, <2>9 DEF TypeInv, TypeInvariant
    <3>3. Moves(c)
      BY <2>3, <2>6, <2>7, <2>8, <3>1, <3>2 DEF Moves
    <3> QED
      BY <1>1, <3>3, MovesTyped
  <2>10. CASE pc' = [pc EXCEPT ![c] = "schedule"] /\ job' = [job EXCEPT ![c] = NewJob("create", d)]
    <3>1. NewJob("create", d) \in Request /\ NewJob("create", d).dep = d
      BY DEF NewJob, Request, Types
    <3>2. pc'[c] = "schedule" /\ job'[c] = NewJob("create", d)
      BY <1>1, <2>10 DEF TypeInv, TypeInvariant
    <3>3. Local(c)'
      BY <2>3, <3>1, <3>2, DeploymentAssumption DEF Local, WithCopy, WithStatus
    <3>4. "schedule" \in Labels
      BY DEF Labels
    <3>5. Moves(c)
      BY <2>3, <2>6, <2>7, <2>8, <2>10, <3>1, <3>3, <3>4 DEF Moves
    <3> QED
      BY <1>1, <3>5, MovesTyped
  <2> QED
    BY <2>4, <2>9, <2>10
<1>5. ASSUME NEW d \in Deps, NEW t \in Types \cup {"cancel"}, NEW from,
             NEW l \in {"retry", "cancel", "delete"}, StartRequest(c, d, t, from, l)
      PROVE  TypeInv'
  <2>1. NewJob(t, d) \in Request /\ NewJob(t, d).dep = d
    BY DEF NewJob, Request
  <2>2. /\ pc' = [pc EXCEPT ![c] = l] /\ job' = [job EXCEPT ![c] = NewJob(t, d)]
        /\ mem' = [mem EXCEPT ![c] = row[d]] /\ stale' = stale \ {c} /\ seen' = seen
        /\ row[d] # None
        /\ UNCHANGED <<row, current, cluster, queue, ran, repairs, overwritten, faults>>
    BY <1>5, <2>1 DEF StartRequest, Begin, history
  <2>3. pc'[c] = l /\ job'[c] = NewJob(t, d) /\ mem'[c] = row[d] /\ row[d] \in Row
    BY <1>1, <2>2 DEF TypeInv, TypeInvariant
  <2>4. Local(c)'
    BY <2>1, <2>2, <2>3, DeploymentAssumption DEF Local, WithStatus
  <2>5. GlobalTypes' /\ stale' \subseteq Procs
    BY <1>2, <2>2 DEF GlobalTypes, TypeInv, TypeInvariant
  <2>6. l \in Labels /\ \A k \in JobSet : queue'[k] > 0 => row'[k.dep] # None
    BY <2>2 DEF Labels, TypeInv, LocalInv
  <2>7. seen' = [seen EXCEPT ![c] = seen[c]] /\ seen[c] \in Observed \cup Deps \cup {None}
    BY <1>1, <2>2 DEF TypeInv, TypeInvariant
  <2>8. Moves(c)
    BY <2>1, <2>2, <2>3, <2>4, <2>5, <2>6, <2>7 DEF Moves
  <2> QED
    BY <1>1, <2>8, MovesTyped
<1>6. ASSUME NEW d \in Deps, RetryDeployment(c, d) PROVE TypeInv'
  BY <1>5, <1>6 DEF RetryDeployment, Types
<1>7. ASSUME NEW d \in Deps, CancelDeployment(c, d) PROVE TypeInv'
  BY <1>5, <1>7 DEF CancelDeployment, Types
<1>8. ASSUME NEW d \in Deps, DeleteDeployment(c, d) PROVE TypeInv'
  BY <1>5, <1>8 DEF DeleteDeployment, Types
<1> QED
  BY <1>3, <1>4, <1>6, <1>7, <1>8 DEF ClientStart

(* An API request goes on: it writes the row, enqueues its job, or writes the
   app. *)
LEMMA ClientStepTyped ==
  ASSUME TypeInv, NEW c \in Clients, ClientStep(c), UNCHANGED requests
  PROVE  TypeInv'
<1>1. c \in Procs
  BY DEF Procs
<1>2. CASE RequestWrite(c)
  <2> DEFINE r == Requested(mem[c], pc[c])
  <2>1. pc[c] \in WithCopy /\ pc[c] \in {"retry", "cancel", "delete"}
    BY <1>2 DEF RequestWrite, WithCopy
  <2>2. r \in Row
    BY <1>1, <2>1, HasCopy, CopiesTyped, SMT DEF Row
  <2>3. PICK o \in Outcomes :
          /\ Write(c, r, o)
          /\ Proceed(c, r, "schedule") \/ Leave(c)
    BY <1>2 DEF RequestWrite
  <2>4. UNCHANGED <<current, cluster, queue, ran>>
    BY <1>2 DEF RequestWrite
  <2> HIDE DEF r
  <2>5. /\ row' \in [Deps -> Row \cup {None}]
        /\ repairs' \in [Deps -> 0..(MaxRepair + 1)]
        /\ overwritten' \in BOOLEAN
        /\ stale' \subseteq Procs
        /\ faults' \in 0..MaxFaults
        /\ \A d \in Deps : row[d] # None => row'[d] # None
    BY <1>1, <2>1, <2>2, <2>3, Writes
  <2>6. /\ queue' \in [JobSet -> 0..MaxCopies]
        /\ \A j \in JobSet : queue'[j] > 0 => row'[j.dep] # None
    BY <2>4, <2>5, SameQueue
  <2>7. GlobalTypes'
    BY <2>4, <2>5, <2>6 DEF GlobalTypes, TypeInv, TypeInvariant
  <2>8. CASE Leave(c)
    BY <1>1, <2>5, <2>6, <2>7, <2>8, Leaves, MovesTyped
  <2>9. CASE Proceed(c, r, "schedule")
    <3>1. "schedule" \in Labels \ {"idle", "update"} /\ "schedule" \notin WithStatus
      BY DEF Labels, WithStatus
    <3>2. Moves(c)
      BY <1>1, <2>1, <2>2, <2>5, <2>6, <2>7, <2>9, <3>1, Proceeds
    <3> QED
      BY <1>1, <3>2, MovesTyped
  <2> QED
    BY <2>3, <2>8, <2>9
<1>3. CASE RequestSchedule(c)
  <2>1. pc[c] \notin {"idle", "update"}
    BY <1>3 DEF RequestSchedule
  <2>2. faults' \in 0..MaxFaults
    BY <1>3, Charged DEF RequestSchedule
  <2>3. stale' \subseteq Procs /\ (queue' = Added(queue, job[c]) \/ UNCHANGED queue)
    BY <1>3 DEF RequestSchedule, TypeInv, TypeInvariant
  <2>4. Moves(c)
    BY <1>1, <1>3, <2>1, <2>2, <2>3, EndMoves DEF RequestSchedule
  <2> QED
    BY <1>1, <2>4, MovesTyped
<1>4. CASE UpdateAppWrite(c)
  <2>1. seen[c] \in Deps \cup {None}
    BY <1>1, <1>4 DEF UpdateAppWrite, TypeInv, LocalInv, Local
  <2>2. GlobalTypes' /\ stale' \subseteq Procs
    BY <1>4, <2>1 DEF UpdateAppWrite, GlobalTypes, history, TypeInv, TypeInvariant
  <2>3. UNCHANGED <<row, queue>> /\ Leave(c)
    BY <1>4 DEF UpdateAppWrite
  <2>4. \A k \in JobSet : queue'[k] > 0 => row'[k.dep] # None
    BY <2>3 DEF TypeInv, LocalInv
  <2>5. Moves(c)
    BY <1>1, <2>2, <2>3, <2>4, Leaves
  <2> QED
    BY <1>1, <2>5, MovesTyped
<1> QED
  BY <1>2, <1>3, <1>4 DEF ClientStep

(* The reconciler, the cluster, redeliveries and crashes. *)
LEMMA EnvironmentTyped ==
  ASSUME TypeInv, UNCHANGED requests,
         \/ \E d \in Deps : Reconcile(d) \/ Rollout(d)
         \/ \E w \in Workers : Redeliver(w)
         \/ \E c \in Clients : Abandon(c)
  PROVE  TypeInv'
<1>1. ASSUME NEW d \in Deps, Reconcile(d) PROVE TypeInv'
  <2>1. PICK t \in Types : queue' = Added(queue, NewJob(t, d))
    BY <1>1 DEF Reconcile, ReconcileType
  <2>2. row[d] # None /\ UNCHANGED <<row, current, cluster, jobVars, history, faults>>
    BY <1>1 DEF Reconcile
  <2>3. /\ queue' \in [JobSet -> 0..MaxCopies]
        /\ \A k \in JobSet : queue'[k] > 0 => queue[k] > 0 \/ k = NewJob(t, d)
    BY <2>1, AddedTyped DEF TypeInv, TypeInvariant
  <2>4. NewJob(t, d).dep = d
    BY DEF NewJob
  <2>5. TypeInvariant'
    BY <2>2, <2>3 DEF TypeInv, TypeInvariant, jobVars, history
  <2>6. LocalInv'
    BY <2>2, <2>3, <2>4 DEF TypeInv, LocalInv, Local, jobVars
  <2> QED
    BY <2>5, <2>6 DEF TypeInv
<1>2. ASSUME NEW d \in Deps, Rollout(d) PROVE TypeInv'
  <2>1. PICK s \in Observed : cluster' = [cluster EXCEPT ![d] = s]
    BY <1>2, DeploymentAssumption DEF Rollout
  <2>2. UNCHANGED <<row, current, queue, jobVars, history, faults>>
    BY <1>2 DEF Rollout
  <2>3. TypeInvariant'
    BY <2>1, <2>2 DEF TypeInv, TypeInvariant, jobVars, history
  <2>4. LocalInv'
    BY <2>2 DEF TypeInv, LocalInv, Local, jobVars
  <2> QED
    BY <2>3, <2>4 DEF TypeInv
<1>3. ASSUME NEW w \in Workers, Redeliver(w) PROVE TypeInv'
  <2>1. w \in Procs /\ pc[w] # "idle" /\ faults' \in 0..MaxFaults
    BY <1>3, Fault DEF Redeliver, Procs
  <2>2. UNCHANGED <<row, current, cluster, history>> /\ queue' = Added(queue, job[w])
    BY <1>3 DEF Redeliver
  <2>3. pc[w] # "update"
    BY <2>1, DeploymentAssumption DEF TypeInv, LocalInv, Local
  <2>4. TypeInv'
    <3>1. /\ queue' \in [JobSet -> 0..MaxCopies]
          /\ \A j \in JobSet : queue'[j] > 0 => row'[j.dep] # None
      BY <2>1, <2>2, <2>3, ErrorQueue
    <3>2. CASE Leave(w) /\ stale' = stale \ {w}
      <4>1. stale' \subseteq Procs
        BY <3>2 DEF TypeInv, TypeInvariant
      <4>2. Moves(w)
        BY <2>1, <2>2, <2>3, <3>2, <4>1, EndMoves
      <4> QED
        BY <2>1, <4>2, MovesTyped
    <3>3. CASE UNCHANGED jobVars
      <4>1. TypeInvariant'
        BY <2>1, <2>2, <3>1, <3>3 DEF TypeInv, TypeInvariant, jobVars, history
      <4>2. LocalInv'
        BY <2>2, <3>1, <3>3 DEF TypeInv, LocalInv, Local, jobVars
      <4> QED
        BY <4>1, <4>2 DEF TypeInv
    <3> QED
      BY <1>3, <3>2, <3>3 DEF Redeliver
  <2> QED
    BY <2>4
<1>4. ASSUME NEW c \in Clients, Abandon(c) PROVE TypeInv'
  <2>1. c \in Procs /\ faults' \in 0..MaxFaults /\ stale' \subseteq Procs
    BY <1>4, Fault DEF Abandon, Procs, TypeInv, TypeInvariant
  <2>2. UNCHANGED <<row, current, cluster, queue, history>> /\ Leave(c)
    BY <1>4 DEF Abandon
  <2>3. GlobalTypes' /\ \A k \in JobSet : queue'[k] > 0 => row'[k.dep] # None
    BY <2>1, <2>2 DEF GlobalTypes, history, TypeInv, TypeInvariant, LocalInv
  <2>4. Moves(c)
    BY <2>1, <2>2, <2>3, Leaves
  <2> QED
    BY <2>1, <2>4, MovesTyped
<1> QED
  BY <1>1, <1>2, <1>3, <1>4

(* The initial state, with no deployment yet, satisfies the type invariant. *)
LEMMA TypeInit == Init => TypeInv
<1> SUFFICES ASSUME Init PROVE TypeInv
  OBVIOUS
<1>1. TypeInvariant
  <2>1. 0 \in 0..MaxCopies /\ 0 \in 0..(MaxRepair + 1) /\ 0 \in 0..MaxRequests /\ 0 \in 0..MaxFaults
    BY DeploymentAssumption, SMT
  <2>2. "idle" \in Labels
    BY DEF Labels
  <2> QED
    BY <2>1, <2>2 DEF Init, TypeInvariant
<1>2. \A p \in Procs : Local(p)
  BY DEF Init, Local, WithCopy, WithStatus
<1>3. \A j \in JobSet : queue[j] > 0 => row[j.dep] # None
  BY SMT DEF Init
<1> QED
  BY <1>1, <1>2, <1>3 DEF TypeInv, LocalInv

(* Every step of a worker, a request, the reconciler or the cluster keeps it. *)
LEMMA TypeStep == TypeInv /\ [Next]_vars => TypeInv'
<1> SUFFICES ASSUME TypeInv, [Next]_vars PROVE TypeInv'
  OBVIOUS
<1>1. CASE UNCHANGED vars
  <2>1. UNCHANGED <<row, current, cluster, queue, pc, job, mem, seen, stale, ran, repairs, overwritten,
                    requests, faults>>
    BY <1>1 DEF vars, jobVars, history
  <2>2. TypeInvariant'
    BY <2>1 DEF TypeInv, TypeInvariant
  <2>3. LocalInv'
    BY <2>1 DEF TypeInv, LocalInv, Local
  <2> QED
    BY <2>2, <2>3 DEF TypeInv
<1>2. CASE \E c \in Clients : ClientStart(c)
  BY <1>2, ClientStartTyped
<1>3. ASSUME NEW j \in JobSet, Take(j), UNCHANGED requests PROVE TypeInv'
  <2>1. j.dep \in Deps /\ \A t \in Types : NewJob(t, j.dep) \in JobSet
    BY DEF JobSet, NewJob
  <2> QED
    BY <1>3, <2>1, HandleTyped DEF Take, HandleCreate, HandleDelete, HandleSync, Types
<1>4. ASSUME NEW w \in Workers, WorkerStep(w), UNCHANGED requests PROVE TypeInv'
  BY <1>4, WorkerMoves, MovesTyped DEF Procs
<1> QED
  BY <1>1, <1>2, <1>3, <1>4, ClientStepTyped, EnvironmentTyped DEF Next

(* In every reachable state the rows, the app, the queue and the processes are
   well formed, and every process has the row, the copy and the backend status
   its next call needs. *)
THEOREM TypeCorrect == Spec => [](TypeInvariant /\ LocalInv)
<1>1. Spec => []TypeInv
  BY TypeInit, TypeStep, PTL DEF Spec
<1> QED
  BY <1>1, PTL DEF TypeInv

-----------------------------------------------------------------------------
(* The current deployment of an app has run: proof of CurrentHasRun. *)

(* What process p is about to make current has run: the deployment of a handler
   that has seen it running, and what UpdateApp has read. *)
HasRun(p) ==
  /\ pc[p] \in {"c_current", "s_app", "s_current"} => job[p].dep \in ran
  /\ pc[p] \in WithStatus /\ seen[p] = "running" => job[p].dep \in ran
  /\ pc[p] = "update" /\ seen[p] # None => seen[p] \in ran

RanInv == CurrentHasRun /\ \A p \in Procs : HasRun(p)

(* A step in which p moves and what it holds afterwards has run. *)
Runs(p) ==
  /\ \A q \in Procs \ {p} : pc'[q] = pc[q] /\ job'[q] = job[q] /\ seen'[q] = seen[q]
  /\ ran \subseteq ran'
  /\ CurrentHasRun'
  /\ HasRun(p)'

(* Such a step keeps the invariant: no deployment leaves ran. *)
LEMMA RunsInv ==
  ASSUME RanInv, NEW p \in Procs, Runs(p)
  PROVE  RanInv'
<1>1. ASSUME NEW q \in Procs \ {p} PROVE HasRun(q)'
  BY <1>1 DEF RanInv, Runs, HasRun
<1> QED
  BY <1>1 DEF RanInv, Runs

(* Moves(p) leaves the other processes alone. *)
LEMMA OthersStay ==
  ASSUME TypeInv, NEW p \in Procs, Moves(p)
  PROVE  \A q \in Procs \ {p} : pc'[q] = pc[q] /\ job'[q] = job[q] /\ seen'[q] = seen[q]
BY DEF Moves, TypeInv, TypeInvariant

(* A handler or request that ends holds nothing. *)
LEMMA LeaveRuns ==
  ASSUME TypeInv, NEW p \in Procs, Leave(p)
  PROVE  HasRun(p)'
<1>1. pc'[p] = "idle"
  BY DEF Leave, TypeInv, TypeInvariant
<1> QED
  BY <1>1 DEF HasRun, WithStatus

(* MarkDeploymentStatus followed by one of the calls before SetCurrent only
   when the status is running. *)
LEMMA MarkRuns ==
  ASSUME TypeInv, RanInv, NEW w \in Procs, pc[w] \in WithCopy, NEW s, NEW l \in Labels \cup {"return"},
         l # "update", Mark(w, s, l),
         l \in {"return", "c_submit", "c_sync", "d_app", "s_sync"} \/ job[w].dep \in ran
  PROVE  HasRun(w)' /\ UNCHANGED <<current, ran>>
<1>1. UNCHANGED <<current, ran>>
  BY DEF Mark
<1>2. CASE Leave(w)
  BY <1>1, <1>2, LeaveRuns
<1>3. CASE l # "return" /\ Proceed(w, Marked(mem[w], s), l)
  <2>1. pc'[w] = l /\ job' = job
    BY <1>3 DEF Proceed, TypeInv, TypeInvariant
  <2>2. CASE l \in {"c_submit", "c_sync", "d_app", "s_sync"}
    BY <1>1, <2>1, <2>2 DEF HasRun, WithStatus
  <2>3. CASE job[w].dep \in ran /\ l # "update"
    BY <1>1, <2>1, <2>3 DEF HasRun
  <2> QED
    BY <1>3, <2>2, <2>3
<1> QED
  BY <1>1, <1>2, <1>3 DEF Mark, Error, Return

(* Each call of a handler: it holds a deployment that has run when it has seen
   it running, and sets the current one only then. *)
LEMMA WorkerRuns ==
  ASSUME TypeInv, TypeInv', RanInv, NEW w \in Workers, WorkerStep(w), UNCHANGED requests
  PROVE  RanInv'
<1>1. w \in Procs /\ HasRun(w)
  BY DEF Procs, RanInv
<1>2. \A q \in Procs \ {w} : pc'[q] = pc[q] /\ job'[q] = job[q] /\ seen'[q] = seen[q]
  <2>1. \A q \in Procs \ {w} : pc'[q] = pc[q] /\ job'[q] = job[q] /\ seen'[q] = seen[q]
    BY <1>1, WorkerMoves, OthersStay
  <2> QED
    BY <2>1
<1> SUFFICES ran \subseteq ran' /\ CurrentHasRun' /\ HasRun(w)'
  BY <1>1, <1>2, RunsInv DEF Runs
<1>3. ASSUME UNCHANGED <<current, ran>>, HasRun(w)'
      PROVE  ran \subseteq ran' /\ CurrentHasRun' /\ HasRun(w)'
  BY <1>3 DEF RanInv, CurrentHasRun
<1>4. CASE CreateProvisioning(w)
  BY <1>1, <1>3, <1>4, MarkRuns DEF CreateProvisioning, WithCopy, Labels
<1>5. CASE CreateFailed(w) \/ DeleteFailed(w)
  BY <1>1, <1>3, <1>5, LeaveRuns DEF CreateFailed, DeleteFailed, MarkFailed, Error
<1>6. CASE CreateSubmitted(w)
  <2>1. pc[w] \in WithCopy /\ pc[w] \in WithStatus
    BY <1>6 DEF CreateSubmitted, WithCopy, WithStatus
  <2>2. seen[w] = "running" => job[w].dep \in ran
    BY <1>1, <2>1 DEF HasRun
  <2> QED
    BY <1>1, <1>3, <1>6, <2>1, <2>2, MarkRuns DEF CreateSubmitted, Labels
<1>7. CASE SyncMark(w)
  <2>1. pc[w] \in WithCopy /\ pc[w] \in WithStatus
    BY <1>7 DEF SyncMark, WithCopy, WithStatus
  <2>2. seen[w] = "running" => job[w].dep \in ran
    BY <1>1, <2>1 DEF HasRun
  <2> QED
    BY <1>1, <1>3, <1>7, <2>1, <2>2, MarkRuns DEF SyncMark, Labels
<1>8. CASE DeleteDeleted(w)
  BY <1>1, <1>3, <1>8, MarkRuns DEF DeleteDeleted, WithCopy, Labels
<1>9. CASE CreateSync(w) \/ SyncAgain(w)
  BY <1>1, <1>3, <1>9, LeaveRuns DEF CreateSync, SyncAgain, Schedule, history
<1>10. CASE CreateCurrent(w) \/ SyncCurrent(w) \/ DeleteCurrent(w)
  <2>1. PICK c \in Deps \cup {None}, l \in {"return", "c_sync"} :
          SetCurrent(w, c, l) /\ (c # None => c \in ran)
    <3>1. CASE DeleteCurrent(w)
      BY <3>1 DEF DeleteCurrent
    <3>2. CASE CreateCurrent(w) \/ SyncCurrent(w)
      <4>1. job[w].dep \in ran /\ job[w].dep \in Deps
        BY <1>1, <3>2, HasJob DEF HasRun, CreateCurrent, SyncCurrent
      <4> QED
        BY <3>2, <4>1 DEF CreateCurrent, SyncCurrent
    <3> QED
      BY <1>10, <3>1, <3>2
  <2>2. (current' = c \/ current' = current) /\ ran' = ran
    BY <2>1 DEF SetCurrent, history
  <2>3. Leave(w) \/ (l # "return" /\ Goto(w, l))
    BY <2>1 DEF SetCurrent, Error, Return
  <2>4. HasRun(w)'
    <3>1. CASE Leave(w)
      BY <1>1, <3>1, LeaveRuns
    <3>2. CASE l = "c_sync" /\ Goto(w, l)
      BY <1>1, <3>2 DEF Goto, HasRun, WithStatus, TypeInv, TypeInvariant
    <3> QED
      BY <2>3, <3>1, <3>2
  <2> QED
    BY <2>1, <2>2, <2>4 DEF RanInv, CurrentHasRun
<1>11. CASE CreateSubmit(w)
  <2>1. PICK o \in Outcomes, s \in SubmitStatuses :
          /\ pc' = [pc EXCEPT ![w] = IF o = "ok" THEN "c_submitted" ELSE "c_failed"]
          /\ seen' = [seen EXCEPT ![w] = IF o = "ok" THEN s ELSE None]
          /\ ran' = IF o = "ok" /\ s = "running" THEN ran \cup {job[w].dep} ELSE ran
    BY <1>11 DEF CreateSubmit
  <2>2. UNCHANGED <<current, job>>
    BY <1>11 DEF CreateSubmit
  <2>3. /\ pc'[w] = IF o = "ok" THEN "c_submitted" ELSE "c_failed"
        /\ seen'[w] = IF o = "ok" THEN s ELSE None
    BY <1>1, <2>1 DEF TypeInv, TypeInvariant
  <2>4. HasRun(w)'
    BY <2>1, <2>2, <2>3, SMT DEF HasRun, WithStatus
  <2> QED
    BY <2>1, <2>2, <2>4 DEF RanInv, CurrentHasRun
<1>12. CASE DeleteResources(w)
  <2>1. PICK l \in {"d_deleted", "d_failed"} : Goto(w, l)
    BY <1>12 DEF DeleteResources
  <2>2. pc'[w] = l
    BY <1>1, <2>1 DEF Goto, TypeInv, TypeInvariant
  <2>3. HasRun(w)'
    BY <2>2 DEF HasRun, WithStatus
  <2> QED
    BY <1>3, <1>12, <2>3 DEF DeleteResources, history
<1>13. CASE DeleteReadApp(w)
  <2>1. UNCHANGED <<current, ran>> /\ (Leave(w) \/ Goto(w, "d_current"))
    BY <1>13 DEF DeleteReadApp, Return, history
  <2>2. CASE Goto(w, "d_current")
    BY <1>1, <1>3, <2>1, <2>2 DEF Goto, HasRun, WithStatus, TypeInv, TypeInvariant
  <2> QED
    BY <1>1, <1>3, <2>1, <2>2, LeaveRuns
<1>14. CASE SyncReadApp(w)
  <2>1. UNCHANGED <<current, ran>> /\ (Leave(w) \/ Goto(w, "s_current"))
    BY <1>14 DEF SyncReadApp, Return, ReadFails, Error, history
  <2>2. CASE Goto(w, "s_current")
    <3>1. pc'[w] = "s_current" /\ job' = job /\ job[w].dep \in ran
      BY <1>1, <1>14, <2>2 DEF Goto, HasRun, SyncReadApp, TypeInv, TypeInvariant
    <3> QED
      BY <1>3, <2>1, <3>1 DEF HasRun, WithStatus
  <2> QED
    BY <1>1, <1>3, <2>1, <2>2, LeaveRuns
<1>15. CASE SyncStatus(w)
  <2>1. CASE Leave(w) /\ UNCHANGED <<current, ran>>
    BY <1>1, <1>3, <2>1, LeaveRuns
  <2>2. CASE ~(Leave(w) /\ UNCHANGED <<current, ran>>)
    <3> DEFINE s == IF cluster[job[w].dep] = "absent" THEN "failed" ELSE cluster[job[w].dep]
               l == IF s = "failed" /\ AutoRepair THEN "s_repair" ELSE "s_mark"
    <3>1. /\ seen' = [seen EXCEPT ![w] = s] /\ pc' = [pc EXCEPT ![w] = l]
          /\ ran' = IF s = "running" THEN ran \cup {job[w].dep} ELSE ran
          /\ UNCHANGED <<current, job>>
      BY <1>15, <2>2 DEF SyncStatus, Error, ReadFails, history
    <3>2. pc'[w] = l /\ seen'[w] = s
      BY <1>1, <3>1 DEF TypeInv, TypeInvariant
    <3>4. l \in {"s_repair", "s_mark"}
      OBVIOUS
    <3> HIDE DEF s, l
    <3>3. HasRun(w)'
      BY <3>1, <3>2, <3>4 DEF HasRun
    <3> QED
      BY <3>1, <3>3 DEF RanInv, CurrentHasRun
  <2> QED
    BY <2>1, <2>2
<1>16. CASE SyncRepair(w)
  <2> DEFINE r == Repaired(mem[w])
  <2>1. PICK l \in {"s_requeue", "s_mark"} : Leave(w) \/ Proceed(w, r, l)
    BY <1>16 DEF SyncRepair, Return
  <2>2. UNCHANGED <<current, ran>>
    BY <1>16 DEF SyncRepair
  <2>3. CASE Proceed(w, r, l)
    <3>1. pc'[w] = l /\ job' = job /\ seen'[w] = seen[w]
      BY <1>1, <2>3 DEF Proceed, TypeInv, TypeInvariant
    <3>2. seen[w] = "running" => job[w].dep \in ran
      BY <1>1, <1>16 DEF SyncRepair, HasRun, WithStatus
    <3> QED
      BY <1>3, <2>2, <3>1, <3>2 DEF HasRun
  <2> QED
    BY <1>1, <1>3, <2>1, <2>2, <2>3, LeaveRuns
<1>17. CASE SyncRequeue(w)
  <2>1. UNCHANGED <<current, ran>> /\ (Leave(w) \/ Goto(w, "s_mark"))
    BY <1>17 DEF SyncRequeue, history
  <2>2. CASE Goto(w, "s_mark")
    <3>1. pc'[w] = "s_mark" /\ job' = job /\ seen' = seen
      BY <1>1, <2>2 DEF Goto, TypeInv, TypeInvariant
    <3>2. seen[w] = "running" => job[w].dep \in ran
      BY <1>1, <1>17 DEF SyncRequeue, HasRun, WithStatus
    <3> QED
      BY <1>3, <2>1, <3>1, <3>2 DEF HasRun
  <2> QED
    BY <1>1, <1>3, <2>1, <2>2, LeaveRuns
<1> QED
  BY <1>4, <1>5, <1>6, <1>7, <1>8, <1>9, <1>10, <1>11, <1>12, <1>13, <1>14, <1>15, <1>16, <1>17
  DEF WorkerStep

(* A handler that starts holds no status; skipping or failing, it holds nothing. *)
LEMMA TakeRuns ==
  ASSUME TypeInv, RanInv, NEW j \in JobSet, Take(j)
  PROVE  RanInv'
<1>1. PICK w \in Workers, s \in SUBSET Statuses, l \in {"c_provision", "d_delete", "s_status"},
           k \in JobSet : Handle(w, k, s, l)
  <2>1. \A t \in Types : NewJob(t, j.dep) \in JobSet
    BY DEF NewJob, JobSet
  <2>2. /\ {"cancelled", "deleting", "deleted"} \in SUBSET Statuses
        /\ {"cancelled", "deleted"} \in SUBSET Statuses
        /\ {} \in SUBSET Statuses
    BY DEF Statuses
  <2> QED
    BY <2>1, <2>2 DEF Take, HandleCreate, HandleDelete, HandleSync, Types
<1>2. UNCHANGED <<current, ran>>
  BY <1>1 DEF Handle, history
<1>3. CASE UNCHANGED jobVars
  <2>1. UNCHANGED <<pc, job, seen>>
    BY <1>3 DEF jobVars
  <2> QED
    BY <1>2, <2>1 DEF RanInv, CurrentHasRun, HasRun
<1>4. CASE Begin(w, k, l)
  <2>1. w \in Procs
    BY DEF Procs
  <2>2. pc'[w] = l
    BY <1>4, <2>1 DEF Begin, TypeInv, TypeInvariant
  <2>3. HasRun(w)'
    BY <2>2 DEF HasRun, WithStatus
  <2>4. \A q \in Procs \ {w} : pc'[q] = pc[q] /\ job'[q] = job[q] /\ seen'[q] = seen[q]
    BY <1>4 DEF Begin, TypeInv, TypeInvariant
  <2> QED
    BY <1>2, <2>1, <2>3, <2>4, RunsInv DEF Runs, RanInv, CurrentHasRun
<1> QED
  BY <1>1, <1>3, <1>4 DEF Handle

(* A request starts: UpdateApp has read the current deployment, which has run. *)
LEMMA StartRuns ==
  ASSUME TypeInv, RanInv, NEW c \in Clients, ClientStart(c)
  PROVE  RanInv'
<1>1. c \in Procs
  BY DEF Procs
<1>2. UNCHANGED <<current, ran>>
  BY DEF ClientStart, UpdateApp, CreateDeployment, RetryDeployment, CancelDeployment,
         DeleteDeployment, StartRequest, history
<1> SUFFICES /\ \A q \in Procs \ {c} : pc'[q] = pc[q] /\ job'[q] = job[q] /\ seen'[q] = seen[q]
             /\ HasRun(c)'
  BY <1>1, <1>2, RunsInv DEF Runs, RanInv, CurrentHasRun
<1>3. CASE UpdateApp(c)
  <2>1. pc'[c] = "update" /\ seen'[c] = current
    BY <1>1, <1>3 DEF UpdateApp, TypeInv, TypeInvariant
  <2>2. HasRun(c)'
    BY <1>2, <2>1 DEF HasRun, WithStatus, RanInv, CurrentHasRun
  <2> QED
    BY <1>3, <2>2 DEF UpdateApp, TypeInv, TypeInvariant
<1>4. ASSUME NEW d \in Deps, CreateDeployment(c, d) PROVE
        /\ \A q \in Procs \ {c} : pc'[q] = pc[q] /\ job'[q] = job[q] /\ seen'[q] = seen[q]
        /\ HasRun(c)'
  <2>1. UNCHANGED <<pc, job, seen>> \/ (/\ pc' = [pc EXCEPT ![c] = "schedule"]
                                        /\ job' = [job EXCEPT ![c] = NewJob("create", d)]
                                        /\ UNCHANGED seen)
    BY <1>4 DEF CreateDeployment
  <2>2. CASE UNCHANGED <<pc, job, seen>>
    BY <1>1, <1>2, <2>2 DEF RanInv, HasRun
  <2>3. CASE ~ UNCHANGED <<pc, job, seen>>
    <3>1. pc'[c] = "schedule"
      BY <1>1, <2>1, <2>3 DEF TypeInv, TypeInvariant
    <3> QED
      BY <2>1, <2>3, <3>1 DEF HasRun, WithStatus, TypeInv, TypeInvariant
  <2> QED
    BY <2>2, <2>3
<1>5. ASSUME NEW d \in Deps,
             RetryDeployment(c, d) \/ CancelDeployment(c, d) \/ DeleteDeployment(c, d)
      PROVE  /\ \A q \in Procs \ {c} : pc'[q] = pc[q] /\ job'[q] = job[q] /\ seen'[q] = seen[q]
             /\ HasRun(c)'
  <2>1. PICK l \in {"retry", "cancel", "delete"}, t \in {"create", "cancel", "delete"} :
          Begin(c, NewJob(t, d), l)
    BY <1>5 DEF RetryDeployment, CancelDeployment, DeleteDeployment, StartRequest
  <2>2. pc'[c] = l
    BY <1>1, <2>1 DEF Begin, TypeInv, TypeInvariant
  <2> QED
    BY <2>1, <2>2 DEF Begin, HasRun, WithStatus, TypeInv, TypeInvariant
<1> QED
  BY <1>3, <1>4, <1>5 DEF ClientStart

(* The writes of the requests, the reconciler, the cluster, redeliveries and
   crashes: UpdateAppWrite writes a deployment that has run. *)
LEMMA OtherRuns ==
  ASSUME TypeInv, RanInv,
         \/ \E w \in Workers : Redeliver(w)
         \/ \E c \in Clients : ClientStep(c) \/ Abandon(c)
         \/ \E d \in Deps : Reconcile(d) \/ Rollout(d)
  PROVE  RanInv'
<1>1. ASSUME UNCHANGED <<current, ran, pc, job, seen>> PROVE RanInv'
  BY <1>1 DEF RanInv, CurrentHasRun, HasRun
<1>2. ASSUME NEW p \in Procs, Leave(p), UNCHANGED ran, CurrentHasRun' PROVE RanInv'
  <2>1. HasRun(p)'
    BY <1>2, LeaveRuns
  <2>2. \A q \in Procs \ {p} : pc'[q] = pc[q] /\ job'[q] = job[q] /\ seen'[q] = seen[q]
    BY <1>2 DEF Leave, TypeInv, TypeInvariant
  <2> QED
    BY <1>2, <2>1, <2>2, RunsInv DEF Runs
<1>3. ASSUME UNCHANGED current, UNCHANGED ran PROVE CurrentHasRun'
  BY <1>3 DEF RanInv, CurrentHasRun
<1>4. ASSUME NEW w \in Workers, Redeliver(w) PROVE RanInv'
  <2>1. w \in Procs /\ UNCHANGED current /\ UNCHANGED ran
    BY <1>4 DEF Procs, Redeliver, history
  <2>2. CASE Leave(w)
    BY <1>2, <1>3, <2>1, <2>2
  <2>3. CASE UNCHANGED jobVars
    BY <1>1, <2>1, <2>3 DEF jobVars
  <2> QED
    BY <1>4, <2>2, <2>3 DEF Redeliver
<1>5. ASSUME NEW c \in Clients, Abandon(c) \/ RequestSchedule(c) PROVE RanInv'
  <2>1. c \in Procs /\ UNCHANGED current /\ UNCHANGED ran /\ Leave(c)
    BY <1>5 DEF Procs, Abandon, RequestSchedule, history
  <2> QED
    BY <1>2, <1>3, <2>1
<1>6. ASSUME NEW c \in Clients, UpdateAppWrite(c) PROVE RanInv'
  <2>1. c \in Procs /\ current' = seen[c] /\ UNCHANGED ran /\ Leave(c)
    BY <1>6 DEF Procs, UpdateAppWrite, history
  <2>2. CurrentHasRun'
    BY <1>6, <2>1 DEF UpdateAppWrite, RanInv, HasRun, CurrentHasRun
  <2> QED
    BY <1>2, <2>1, <2>2
<1>7. ASSUME NEW c \in Clients, RequestWrite(c) PROVE RanInv'
  <2> DEFINE r == Requested(mem[c], pc[c])
  <2>1. c \in Procs /\ UNCHANGED current /\ UNCHANGED ran /\ (Leave(c) \/ Proceed(c, r, "schedule"))
    BY <1>7 DEF Procs, RequestWrite
  <2>2. CASE Leave(c)
    BY <1>2, <1>3, <2>1, <2>2
  <2>3. CASE Proceed(c, r, "schedule")
    <3>1. pc'[c] = "schedule"
      BY <2>1, <2>3 DEF Proceed, TypeInv, TypeInvariant
    <3>2. HasRun(c)'
      BY <3>1 DEF HasRun, WithStatus
    <3>3. \A q \in Procs \ {c} : pc'[q] = pc[q] /\ job'[q] = job[q] /\ seen'[q] = seen[q]
      BY <2>3 DEF Proceed, TypeInv, TypeInvariant
    <3> QED
      BY <1>3, <2>1, <3>2, <3>3, RunsInv DEF Runs
  <2> QED
    BY <2>1, <2>2, <2>3
<1>8. ASSUME NEW d \in Deps, Reconcile(d) \/ Rollout(d) PROVE RanInv'
  BY <1>1, <1>8 DEF Reconcile, Rollout, jobVars, history
<1> QED
  BY <1>4, <1>5, <1>6, <1>7, <1>8 DEF ClientStep

(* The app's current deployment has run: RanInv is inductive on top of the
   type invariant. *)
THEOREM CurrentRan == Spec => []CurrentHasRun
<1>1. Init => RanInv
  BY DEF Init, RanInv, CurrentHasRun, HasRun, WithStatus
<1>2. RanInv /\ TypeInv /\ TypeInv' /\ [Next]_vars => RanInv'
  <2> SUFFICES ASSUME RanInv, TypeInv, TypeInv', [Next]_vars PROVE RanInv'
    OBVIOUS
  <2>1. CASE UNCHANGED vars
    BY <2>1 DEF vars, jobVars, history, RanInv, CurrentHasRun, HasRun
  <2>2. CASE Next
    BY <2>2, StartRuns, TakeRuns, WorkerRuns, OtherRuns DEF Next
  <2> QED
    BY <2>1, <2>2
<1>3. RanInv => CurrentHasRun
  BY DEF RanInv
<1> QED
  BY <1>1, <1>2, <1>3, TypeCorrect, PTL DEF Spec, TypeInv

-----------------------------------------------------------------------------
(* What a process knows of a row nobody else has written since it read it:
   proofs of RepairsCounted, EndedStaysEnded and ResourcesAccounted. *)

(* p has a copy, and its row is as p has read or written it. *)
Fresh(p) == pc[p] \in WithCopy /\ p \notin stale

(* The statuses the handler or request at call l cannot have found. *)
Creating == {"c_provision", "c_submit", "c_failed", "c_submitted"}
Syncing == {"s_status", "s_repair", "s_requeue", "s_mark"}
Requesting == {"retry", "cancel", "delete"}
Shut(l) ==
  {s \in {"cancelled", "deleted"} : l \in Creating \cup Syncing \/ (s = "deleted" /\ l \in Requesting)}

(* A copy counts no more repairs than the policy allows; a fresh one counts
   those made, and has the reference the row has. *)
Copy(p) ==
  /\ pc[p] \in WithCopy => mem[p].repair <= MaxRepair
  /\ Fresh(p) =>
       /\ row[job[p].dep].status \notin Shut(pc[p])
       /\ row[job[p].dep].ref => mem[p].ref
       /\ ~overwritten => repairs[job[p].dep] <= mem[p].repair
RowCounts(d) ==
  /\ row[d] = None => repairs[d] = 0
  /\ row[d] # None => row[d].repair <= MaxRepair /\ (~overwritten => repairs[d] <= row[d].repair)
FreshInv == (\A p \in Procs : Copy(p)) /\ (\A d \in Deps : RowCounts(d))
-----------------------------------------------------------------------------
(* The shapes of a step: nothing about rows or copies changes; p alone moves
   and no row is written; p writes its row. *)
Others(p) == \A q \in Procs \ {p} : pc'[q] = pc[q] /\ job'[q] = job[q] /\ mem'[q] = mem[q]
Still == UNCHANGED <<row, repairs, overwritten, pc, job, mem, stale>>
Quiet(p) ==
  /\ UNCHANGED <<row, repairs, overwritten>>
  /\ Others(p)
  /\ stale \ {p} \subseteq stale'
  /\ Copy(p)'

(* What p may write as r over the copy it holds. *)
MayWrite(p, r) ==
  /\ r \in Row /\ r.repair <= MaxRepair
  /\ \/ r.status \in {"queued", "running"}
     \/ r.repair = mem[p].repair
     \/ r.repair = mem[p].repair + 1
  /\ mem[p].ref => r.ref
  /\ r.status = "deleted" => pc[p] = "d_deleted"
  /\ r.status \in Live => pc[p] \in Creating \cup Syncing
  /\ r.status \in {"queued", "cancelled", "deleting"} => pc[p] \in Requesting
WritesRow(p, r) ==
  /\ pc[p] \in WithCopy
  /\ row' = [row EXCEPT ![job[p].dep] = r]
  /\ overwritten' = (overwritten \/ p \in stale)
  /\ stale' = (stale \ {p}) \cup {q \in Procs \ {p} : mem[q] # None /\ job[q].dep = job[p].dep}
  /\ repairs' = [repairs EXCEPT ![job[p].dep] = Counted(@, mem[p], r)]
  /\ Others(p)
  /\ MayWrite(p, r)
  /\ \/ pc'[p] \notin WithCopy
     \/ job'[p] = job[p] /\ mem'[p] = r /\ r.status \notin Shut(pc'[p])
-----------------------------------------------------------------------------
(* A step in which p alone moves keeps the invariant. *)
LEMMA QuietKeeps ==
  ASSUME TypeInv, FreshInv, NEW p \in Procs, Quiet(p)
  PROVE  FreshInv'
<1>1. ASSUME NEW q \in Procs \ {p} PROVE Copy(q)'
  <2>1. pc'[q] = pc[q] /\ job'[q] = job[q] /\ mem'[q] = mem[q] /\ (q \in stale => q \in stale')
    BY DEF Quiet, Others
  <2>2. UNCHANGED <<row, repairs, overwritten>> /\ Copy(q)
    BY DEF Quiet, FreshInv
  <2>3. Fresh(q)' => Fresh(q)
    BY <2>1 DEF Fresh
  <2> QED
    BY <2>1, <2>2, <2>3 DEF Copy
<1>2. ASSUME NEW d \in Deps PROVE RowCounts(d)'
  BY DEF Quiet, FreshInv, RowCounts
<1> QED
  BY <1>1, <1>2 DEF FreshInv, Quiet

(* So does a step that writes no row and moves nobody. *)
LEMMA StillKeeps ==
  ASSUME FreshInv, Still
  PROVE  FreshInv'
BY DEF FreshInv, Still, Copy, RowCounts, Fresh

(* A write of a fresh copy counts the repair it makes; the copies of the others
   are no longer fresh. *)
LEMMA WriteKeeps ==
  ASSUME TypeInv, TypeInv', FreshInv, NEW p \in Procs, NEW r, WritesRow(p, r)
  PROVE  FreshInv'
<1> DEFINE d == job[p].dep
           n == Counted(repairs[d], mem[p], r)
<1>1. mem[p] \in Row /\ d \in Deps /\ row[d] # None /\ r \in Row /\ r # None
  BY HasCopy, DeploymentAssumption DEF WritesRow, MayWrite
<1>2. mem[p].repair \in Nat /\ r.repair \in Nat /\ MaxRepair \in Nat /\ repairs[d] \in Nat
  BY <1>1, DeploymentAssumption, SMT DEF Row, TypeInv, TypeInvariant
<1>3. overwritten' \in BOOLEAN /\ (~overwritten' => ~overwritten /\ p \notin stale)
  BY DEF WritesRow, TypeInv, TypeInvariant
<1>4. ~overwritten' => repairs[d] <= mem[p].repair
  BY <1>3 DEF FreshInv, Copy, Fresh, WritesRow
<1>5. ~overwritten' => n <= r.repair
  BY <1>2, <1>4, SMT DEF Counted, WritesRow, MayWrite
<1>6. repairs' = [repairs EXCEPT ![d] = n] /\ row' = [row EXCEPT ![d] = r]
  BY DEF WritesRow
<1> HIDE DEF n
<1>7. /\ repairs'[d] = n /\ row'[d] = r
      /\ \A e \in Deps \ {d} : repairs'[e] = repairs[e] /\ row'[e] = row[e]
  BY <1>1, <1>6 DEF TypeInv, TypeInvariant
<1>8. ASSUME NEW e \in Deps PROVE RowCounts(e)'
  <2>1. CASE e = d
    BY <1>1, <1>5, <1>7, <2>1 DEF RowCounts, WritesRow, MayWrite
  <2>2. CASE e # d
    BY <1>3, <1>7, <2>2 DEF RowCounts, FreshInv
  <2> QED
    BY <2>1, <2>2
<1>9. Copy(p)'
  <2>1. CASE pc'[p] \notin WithCopy
    BY <2>1 DEF Copy, Fresh
  <2>2. CASE job'[p] = job[p] /\ mem'[p] = r /\ r.status \notin Shut(pc'[p])
    BY <1>1, <1>5, <1>7, <2>2 DEF Copy, WritesRow, MayWrite
  <2> QED
    BY <2>1, <2>2 DEF WritesRow
<1>10. ASSUME NEW q \in Procs \ {p} PROVE Copy(q)'
  <2>1. pc'[q] = pc[q] /\ job'[q] = job[q] /\ mem'[q] = mem[q] /\ Copy(q)
    BY DEF WritesRow, Others, FreshInv
  <2>2. Fresh(q)' => Fresh(q) /\ job[q].dep \in Deps /\ job[q].dep # d
    <3>1. pc[q] \in WithCopy => mem[q] # None /\ job[q].dep \in Deps
      BY HasCopy, DeploymentAssumption
    <3> QED
      BY <2>1, <3>1 DEF Fresh, WritesRow
  <2> QED
    BY <1>3, <1>7, <2>1, <2>2, SMT DEF Copy
<1> QED
  BY <1>8, <1>9, <1>10 DEF FreshInv
-----------------------------------------------------------------------------
(* Nothing new appears in the cluster, and no fault is forgotten. *)
Calm ==
  /\ \A d \in Deps : cluster'[d] # "absent" => cluster[d] # "absent"
  /\ faults <= faults'

(* What every step of the system looks like. *)
Shape ==
  \/ Still /\ Calm
  \/ \E p \in Procs :
       /\ Quiet(p) /\ Calm
       /\ pc'[p] \notin {"c_submitted", "d_deleted"}
       /\ pc[p] = "c_submitted" => faults' # 0
  \/ \E p \in Procs, r \in Row :
       WritesRow(p, r) /\ Calm /\ pc'[p] \notin {"c_submitted", "d_deleted"}
  \/ \E w \in Workers : Quiet(w) /\ (CreateSubmit(w) \/ DeleteResources(w))

(* Moves(p) leaves the copies of the others alone. *)
LEMMA OthersMove ==
  ASSUME TypeInv, NEW p \in Procs, Moves(p)
  PROVE  Others(p)
BY DEF Moves, Others, TypeInv, TypeInvariant

(* Leave ends p and touches nobody else. *)
LEMMA LeaveShape ==
  ASSUME TypeInv, NEW p \in Procs, Leave(p)
  PROVE  Others(p) /\ pc'[p] = "idle" /\ Copy(p)'
<1>1. Others(p) /\ pc'[p] = "idle"
  BY DEF Leave, Others, TypeInv, TypeInvariant
<1> QED
  BY <1>1 DEF Copy, Fresh, WithCopy

(* A failed call is counted (Charge). *)
LEMMA ChargeCounts ==
  ASSUME TypeInv, NEW o \in Outcomes, Charge(o)
  PROVE  faults <= faults' /\ (o # "ok" => faults' # 0)
<1>1. faults \in Nat
  BY DeploymentAssumption, SMT DEF TypeInv, TypeInvariant
<1> QED
  BY <1>1, SMT DEF Charge

(* DeploymentRepo.Update by p of a row it may write, then p's next call. *)
LEMMA WriteShape ==
  ASSUME TypeInv, FreshInv, NEW p \in Procs, pc[p] \in WithCopy, NEW r \in Row, NEW o \in Outcomes,
         Write(p, r, o), Others(p), MayWrite(p, r), UNCHANGED cluster,
         \/ pc'[p] \notin WithCopy
         \/ job'[p] = job[p] /\ mem'[p] = r /\ r.status \notin Shut(pc'[p]),
         o = "lost" => Copy(p)',
         pc'[p] \notin {"c_submitted", "d_deleted"}
  PROVE  Shape
<1>1. faults <= faults' /\ (o # "ok" => faults' # 0)
  BY ChargeCounts DEF Write
<1>2. Calm
  BY <1>1 DEF Calm
<1>3. CASE Effective(o)
  BY <1>2, <1>3 DEF Shape, WritesRow, Write
<1>4. CASE ~Effective(o)
  <2>1. Quiet(p)
    BY <1>4 DEF Quiet, Write, Effective
  <2> QED
    BY <1>1, <1>2, <1>4, <2>1 DEF Shape, Effective
<1> QED
  BY <1>3, <1>4

(* MarkDeploymentStatus by a handler, to a status it may set. *)
LEMMA MarkShape ==
  ASSUME TypeInv, FreshInv, NEW w \in Workers, pc[w] \in WithCopy, NEW s \in Statuses,
         NEW l \in {"return", "c_submit", "c_current", "c_sync", "d_app", "s_app", "s_sync"},
         Mark(w, s, l), UNCHANGED requests,
         s = "deleted" => pc[w] = "d_deleted",
         s \in Live => pc[w] \in Creating \cup Syncing,
         s \notin {"queued", "cancelled", "deleting"},
         l = "c_submit" => s = "provisioning"
  PROVE  Shape
<1> DEFINE r == Marked(mem[w], s)
<1>1. w \in Procs /\ mem[w] \in Row /\ Others(w)
  BY MarkMoves, OthersMove, HasCopy DEF Procs
<1>2. r \in Row /\ r.status = s /\ r.ref = mem[w].ref /\ (s # "running" => r.repair = mem[w].repair)
  BY <1>1, CopiesTyped DEF Marked
<1>3. r.repair <= MaxRepair
  <2>1. mem[w].repair <= MaxRepair
    BY <1>1 DEF FreshInv, Copy
  <2> QED
    BY <2>1, DeploymentAssumption, SMT DEF Marked
<1>4. MayWrite(w, r)
  BY <1>2, <1>3 DEF MayWrite
<1>5. PICK o \in Outcomes : /\ Write(w, r, o)
                           /\ \/ Leave(w)
                              \/ o = "ok" /\ l # "return" /\ Proceed(w, r, l)
  BY DEF Mark, Error, Return
<1>6. UNCHANGED cluster
  BY DEF Mark
<1> HIDE DEF r
<1>7. CASE Leave(w)
  <2>1. pc'[w] = "idle" /\ Copy(w)'
    BY <1>1, <1>7, LeaveShape
  <2> QED
    BY <1>1, <1>2, <1>4, <1>5, <1>6, <2>1, WriteShape DEF WithCopy
<1>8. CASE o = "ok" /\ l # "return" /\ Proceed(w, r, l)
  <2>1. pc'[w] = l /\ job'[w] = job[w] /\ (l = "c_submit" => mem'[w] = r)
    BY <1>1, <1>8 DEF Proceed, TypeInv, TypeInvariant
  <2>2. CASE l = "c_submit"
    <3>1. r.status \notin Shut(l)
      BY <1>2, <2>2 DEF Shut
    <3> QED
      BY <1>1, <1>2, <1>4, <1>5, <1>6, <1>8, <2>1, <2>2, <3>1, WriteShape
  <2>3. CASE l # "c_submit"
    <3>1. l \notin WithCopy
      BY <1>8, <2>3 DEF WithCopy
    <3> QED
      BY <1>1, <1>2, <1>4, <1>5, <1>6, <1>8, <2>1, <3>1, WriteShape
  <2> QED
    BY <2>2, <2>3
<1> QED
  BY <1>5, <1>7, <1>8

(* A step that writes no row and ends p, or goes on to a call without a copy. *)
LEMMA DoneShape ==
  ASSUME TypeInv, NEW p \in Procs, Others(p), pc'[p] \notin WithCopy,
         UNCHANGED <<row, repairs, overwritten, cluster>>, stale \ {p} \subseteq stale',
         faults <= faults', pc[p] = "c_submitted" => faults' # 0
  PROVE  Shape
<1>1. Copy(p)'
  BY DEF Copy, Fresh
<1>2. Quiet(p) /\ Calm
  BY <1>1 DEF Quiet, Calm
<1>3. pc'[p] \notin {"c_submitted", "d_deleted"}
  BY DEF WithCopy
<1> QED
  BY <1>2, <1>3 DEF Shape

(* Shape of every call of a handler. *)
LEMMA WorkerShape ==
  ASSUME TypeInv, TypeInv', FreshInv, NEW w \in Workers, WorkerStep(w), UNCHANGED requests
  PROVE  Shape
<1>1. w \in Procs /\ Others(w) /\ Copy(w)
  BY WorkerMoves, OthersMove DEF Procs, FreshInv
<1>2. faults \in Nat
  BY DeploymentAssumption, SMT DEF TypeInv, TypeInvariant
<1>3. CASE CreateProvisioning(w)
  BY <1>3, MarkShape DEF CreateProvisioning, WithCopy, Statuses, Live, Creating
<1>4. CASE CreateFailed(w) \/ DeleteFailed(w)
  <2> DEFINE r == Marked(mem[w], "failed")
  <2>1. pc[w] \in WithCopy /\ MarkFailed(w)
    BY <1>4 DEF CreateFailed, DeleteFailed, WithCopy
  <2>2. mem[w] \in Row /\ mem[w].repair <= MaxRepair
    BY <1>1, <2>1, HasCopy DEF Copy
  <2>3. r \in Row /\ r.status = "failed" /\ r.ref = mem[w].ref /\ r.repair = mem[w].repair
    BY <2>2, CopiesTyped DEF Marked, Statuses
  <2>4. MayWrite(w, r)
    BY <2>2, <2>3 DEF MayWrite, Live
  <2>5. PICK o \in Outcomes : Write(w, r, o)
    BY <2>1 DEF MarkFailed
  <2>6. Leave(w) /\ UNCHANGED cluster
    BY <2>1 DEF MarkFailed, Error
  <2>7. pc'[w] = "idle" /\ Copy(w)'
    BY <1>1, <2>6, LeaveShape
  <2> HIDE DEF r
  <2> QED
    BY <1>1, <2>1, <2>3, <2>4, <2>5, <2>6, <2>7, WriteShape DEF WithCopy
<1>5. CASE CreateSubmitted(w) \/ SyncMark(w)
  <2>1. pc[w] \in WithCopy /\ pc[w] \in WithStatus /\ pc[w] \in Creating \cup Syncing
    BY <1>5 DEF CreateSubmitted, SyncMark, WithCopy, WithStatus, Creating, Syncing
  <2>2. seen[w] \in Observed
    BY <1>1, <2>1 DEF TypeInv, LocalInv, Local
  <2>3. seen[w] \in Statuses \ {"deleted", "queued", "cancelled", "deleting"}
    BY <2>2 DEF Observed, Statuses
  <2>4. PICK l \in {"return", "c_current", "c_sync", "s_app", "s_sync"} : Mark(w, seen[w], l)
    BY <1>5 DEF CreateSubmitted, SyncMark
  <2> QED
    BY <2>1, <2>3, <2>4, MarkShape
<1>6. CASE DeleteDeleted(w)
  BY <1>6, MarkShape DEF DeleteDeleted, WithCopy, Statuses, Live
<1>7. CASE CreateSync(w) \/ SyncAgain(w)
  <2>1. PICK o \in Outcomes : Charge(o)
    BY <1>7 DEF CreateSync, SyncAgain, Schedule
  <2>2. pc[w] # "c_submitted" /\ Leave(w) /\ UNCHANGED <<row, repairs, overwritten, cluster, stale>>
    BY <1>7 DEF CreateSync, SyncAgain, Schedule, history
  <2> QED
    BY <1>1, <2>1, <2>2, LeaveShape, ChargeCounts, DoneShape DEF WithCopy
<1>8. CASE CreateCurrent(w) \/ SyncCurrent(w) \/ DeleteCurrent(w)
  <2>1. PICK c \in {None, job[w].dep}, l \in {"return", "c_sync"} : SetCurrent(w, c, l)
    BY <1>8 DEF CreateCurrent, SyncCurrent, DeleteCurrent
  <2>2. PICK o \in Outcomes : Charge(o) /\ (Leave(w) \/ (l # "return" /\ Goto(w, l)))
    BY <2>1 DEF SetCurrent, Error, Return
  <2>3. pc[w] # "c_submitted" /\ UNCHANGED <<row, repairs, overwritten, cluster, stale>>
    BY <1>8, <2>1 DEF CreateCurrent, SyncCurrent, DeleteCurrent, SetCurrent, history
  <2>4. pc'[w] \in {"idle", "c_sync"}
    BY <1>1, <2>2 DEF Leave, Goto, TypeInv, TypeInvariant
  <2> QED
    BY <1>1, <2>2, <2>3, <2>4, ChargeCounts, DoneShape DEF WithCopy
<1>9. CASE DeleteReadApp(w) \/ SyncReadApp(w)
  <2>1. pc[w] # "c_submitted" /\ UNCHANGED <<row, repairs, overwritten, cluster>>
        /\ stale \ {w} \subseteq stale'
    BY <1>9 DEF DeleteReadApp, SyncReadApp, ReadFails, history
  <2>2. faults <= faults'
    BY <1>2, <1>9, SMT DEF DeleteReadApp, SyncReadApp, ReadFails
  <2>3. Leave(w) \/ Goto(w, "d_current") \/ Goto(w, "s_current")
    BY <1>9 DEF DeleteReadApp, SyncReadApp, ReadFails, Return, Error
  <2>4. pc'[w] \in {"idle", "d_current", "s_current"}
    BY <1>1, <2>3 DEF Leave, Goto, TypeInv, TypeInvariant
  <2> QED
    BY <1>1, <2>1, <2>2, <2>4, DoneShape DEF WithCopy
<1>10. CASE CreateSubmit(w)
  <2>1. PICK o \in Outcomes :
          /\ pc' = [pc EXCEPT ![w] = IF o = "ok" THEN "c_submitted" ELSE "c_failed"]
          /\ mem' = [mem EXCEPT ![w] = IF o = "ok" THEN Referenced(@) ELSE @]
    BY <1>10 DEF CreateSubmit
  <2>2. UNCHANGED <<row, repairs, overwritten, stale, job>> /\ pc[w] = "c_submit"
    BY <1>10 DEF CreateSubmit
  <2>3. pc'[w] \in {"c_submitted", "c_failed"} /\ mem'[w] \in {mem[w], Referenced(mem[w])}
    BY <1>1, <2>1 DEF TypeInv, TypeInvariant
  <2>4. mem'[w].repair = mem[w].repair /\ (mem[w].ref => mem'[w].ref)
    BY <2>3, SMT DEF Referenced
  <2>5. Shut(pc'[w]) = Shut(pc[w]) /\ pc[w] \in WithCopy
    BY <2>2, <2>3 DEF Shut, Creating, WithCopy
  <2>6. Copy(w)'
    BY <1>1, <2>2, <2>4, <2>5 DEF Copy, Fresh
  <2>7. Quiet(w)
    BY <1>1, <2>2, <2>6 DEF Quiet
  <2> QED
    BY <1>10, <2>7 DEF Shape
<1>11. CASE DeleteResources(w)
  <2>1. PICK l \in {"d_deleted", "d_failed"} : Goto(w, l)
    BY <1>11 DEF DeleteResources
  <2>2. UNCHANGED <<row, repairs, overwritten, stale, job, mem>> /\ pc[w] = "d_delete"
    BY <1>11, <2>1 DEF DeleteResources, Goto, history
  <2>3. pc'[w] = l
    BY <1>1, <2>1 DEF Goto, TypeInv, TypeInvariant
  <2>4. Shut(pc'[w]) = Shut(pc[w]) /\ pc[w] \in WithCopy
    BY <2>2, <2>3 DEF Shut, Creating, Syncing, Requesting, WithCopy
  <2>5. Copy(w)'
    BY <1>1, <2>2, <2>4 DEF Copy, Fresh
  <2>6. Quiet(w)
    BY <1>1, <2>2, <2>5 DEF Quiet
  <2> QED
    BY <1>11, <2>6 DEF Shape
<1>12. CASE SyncStatus(w)
  <2>1. pc[w] = "s_status" /\ pc[w] \in WithCopy /\ UNCHANGED <<row, repairs, overwritten, cluster>>
        /\ stale \ {w} \subseteq stale'
    BY <1>12 DEF SyncStatus, ReadFails, history, WithCopy
  <2>2. faults <= faults'
    BY <1>2, <1>12, SMT DEF SyncStatus, ReadFails
  <2>3. CASE Leave(w)
    BY <1>1, <2>1, <2>2, <2>3, LeaveShape, DoneShape DEF WithCopy
  <2>4. CASE ~Leave(w)
    <3>1. PICK l \in {"s_repair", "s_mark"} : pc' = [pc EXCEPT ![w] = l]
      BY <1>12, <2>4 DEF SyncStatus, ReadFails, Error
    <3>2. pc'[w] = l /\ UNCHANGED <<job, mem, stale>>
      BY <1>1, <1>12, <2>4, <3>1 DEF SyncStatus, ReadFails, Error, TypeInv, TypeInvariant
    <3>3. Shut(pc'[w]) = Shut(pc[w])
      BY <2>1, <3>2 DEF Shut, Syncing
    <3>4. Copy(w)'
      BY <1>1, <2>1, <3>2, <3>3 DEF Copy, Fresh
    <3>5. Quiet(w) /\ Calm
      BY <1>1, <2>1, <2>2, <3>4 DEF Quiet, Calm
    <3> QED
      BY <1>1, <2>1, <3>2, <3>5 DEF Shape
  <2> QED
    BY <2>3, <2>4
<1>13. CASE SyncRepair(w)
  <2> DEFINE r == Repaired(mem[w])
  <2>1. pc[w] \in WithCopy /\ pc[w] = "s_repair" /\ UNCHANGED cluster
    BY <1>13 DEF SyncRepair, WithCopy
  <2>2. mem[w] \in Row /\ mem[w].repair \in Nat /\ mem[w].repair <= MaxRepair
    BY <1>1, <2>1, HasCopy DEF Copy, Row
  <2>3. r \in Row /\ r.repair \in Nat
    BY <2>2, CopiesTyped DEF Statuses, Row
  <2>4. /\ r.ref = mem[w].ref /\ r.status \in {"failed", "recovering"}
        /\ r.repair <= MaxRepair /\ r.repair \in {mem[w].repair, mem[w].repair + 1}
    BY <2>2, DeploymentAssumption, SMT DEF Repaired, Marked
  <2>5. MayWrite(w, r)
    BY <2>1, <2>3, <2>4 DEF MayWrite, Live, Syncing
  <2>6. PICK o \in Outcomes, l \in {"s_requeue", "s_mark"} :
          Write(w, r, o) /\ (Leave(w) \/ (Proceed(w, r, l) /\ (o = "lost" => l = "s_mark")))
    BY <1>13 DEF SyncRepair, Return
  <2> HIDE DEF r
  <2>7. CASE Leave(w)
    BY <1>1, <2>1, <2>3, <2>5, <2>6, <2>7, LeaveShape, WriteShape DEF WithCopy
  <2>8. CASE Proceed(w, r, l)
    <3>1. pc'[w] = l /\ mem'[w] = r /\ job'[w] = job[w]
      BY <1>1, <2>8 DEF Proceed, TypeInv, TypeInvariant
    <3>2. r.status \notin Shut(pc'[w]) /\ Shut(pc'[w]) = Shut(pc[w])
      BY <2>1, <2>4, <3>1 DEF Shut, Syncing
    <3>3. ASSUME o = "lost" PROVE Copy(w)'
      <4>1. UNCHANGED <<row, overwritten, stale, repairs>>
        BY <2>6, <3>3 DEF Write, Effective
      <4>2. job[w].dep \in Deps /\ repairs[job[w].dep] \in Nat
        BY <1>1, <2>1, HasCopy, SMT DEF TypeInv, TypeInvariant
      <4>3. ~overwritten /\ Fresh(w) => repairs[job[w].dep] <= r.repair
        BY <1>1, <2>2, <2>4, <4>2, SMT DEF Copy
      <4> QED
        BY <1>1, <2>1, <2>4, <3>1, <3>2, <4>1, <4>3 DEF Copy, Fresh
    <3> QED
      BY <1>1, <2>1, <2>3, <2>5, <2>6, <3>1, <3>2, <3>3, WriteShape
  <2> QED
    BY <2>6, <2>7, <2>8
<1>14. CASE SyncRequeue(w)
  <2>1. PICK o \in Outcomes : Charge(o)
    BY <1>14 DEF SyncRequeue
  <2>2. /\ pc[w] = "s_requeue" /\ pc[w] \in WithCopy /\ faults <= faults'
        /\ UNCHANGED <<row, repairs, overwritten, cluster>>
    BY <1>14, <2>1, ChargeCounts DEF SyncRequeue, WithCopy, history
  <2>3. CASE Leave(w) /\ stale' = stale \ {w}
    BY <1>1, <2>2, <2>3, LeaveShape, DoneShape DEF WithCopy
  <2>4. CASE Goto(w, "s_mark") /\ UNCHANGED stale
    <3>1. pc'[w] = "s_mark" /\ UNCHANGED <<job, mem>>
      BY <1>1, <2>4 DEF Goto, TypeInv, TypeInvariant
    <3>2. Shut(pc'[w]) = Shut(pc[w])
      BY <2>2, <3>1 DEF Shut, Syncing
    <3>3. Copy(w)'
      BY <1>1, <2>2, <2>4, <3>1, <3>2 DEF Copy, Fresh
    <3>4. Quiet(w) /\ Calm
      BY <1>1, <2>2, <2>4, <3>3 DEF Quiet, Calm
    <3> QED
      BY <1>1, <2>2, <3>1, <3>4 DEF Shape
  <2> QED
    BY <1>14, <2>3, <2>4 DEF SyncRequeue
<1> QED
  BY <1>3, <1>4, <1>5, <1>6, <1>7, <1>8, <1>9, <1>10, <1>11, <1>12, <1>13, <1>14 DEF WorkerStep

(* A handler or request that reads its row has a fresh copy of it, and has not
   found a status it turns away. *)
LEMMA BeginShape ==
  ASSUME TypeInv, FreshInv, NEW p \in Procs, pc[p] = "idle", NEW j \in Request, NEW l \in WithCopy,
         Begin(p, j, l), row[j.dep] # None, row[j.dep].status \notin Shut(l),
         l \notin {"c_submitted", "d_deleted"},
         UNCHANGED <<row, repairs, overwritten, cluster, faults>>
  PROVE  Shape
<1>1. j.dep \in Deps /\ row[j.dep] \in Row
  BY DEF Request, TypeInv, TypeInvariant
<1>2. pc'[p] = l /\ job'[p] = j /\ mem'[p] = row[j.dep] /\ Others(p) /\ stale' = stale \ {p}
  BY DEF Begin, Others, TypeInv, TypeInvariant
<1>3. Copy(p)'
  BY <1>1, <1>2 DEF Copy, FreshInv, RowCounts
<1>4. faults <= faults'
  BY DeploymentAssumption, SMT DEF TypeInv, TypeInvariant
<1>5. Quiet(p) /\ Calm
  BY <1>2, <1>3, <1>4 DEF Quiet, Calm
<1> QED
  BY <1>2, <1>5 DEF Shape

(* A handler starts, skips its job or cannot read its row. *)
LEMMA TakeShape ==
  ASSUME TypeInv, FreshInv, NEW j \in JobSet, Take(j)
  PROVE  Shape
<1>1. PICK w \in Workers, s \in SUBSET Statuses, l \in {"c_provision", "d_delete", "s_status"},
           k \in JobSet : Handle(w, k, s, l) /\ Shut(l) \subseteq s
  <2>1. \A t \in Types : NewJob(t, j.dep) \in JobSet
    BY DEF NewJob, JobSet
  <2>2. /\ {"cancelled", "deleting", "deleted"} \in SUBSET Statuses
        /\ {"cancelled", "deleted"} \in SUBSET Statuses
        /\ {} \in SUBSET Statuses
    BY DEF Statuses
  <2>3. /\ Shut("c_provision") \subseteq {"cancelled", "deleting", "deleted"}
        /\ Shut("s_status") \subseteq {"cancelled", "deleted"}
        /\ Shut("d_delete") \subseteq {}
    BY DEF Shut, Creating, Syncing, Requesting
  <2> QED
    BY <2>1, <2>2, <2>3 DEF Take, HandleCreate, HandleDelete, HandleSync, Types
<1>2. UNCHANGED <<row, repairs, overwritten, cluster>> /\ pc[w] = "idle" /\ w \in Procs
  BY <1>1 DEF Handle, history, Procs
<1>3. faults <= faults'
  BY <1>1, DeploymentAssumption, SMT DEF Handle, TypeInv, TypeInvariant
<1>4. CASE UNCHANGED jobVars
  BY <1>2, <1>3, <1>4 DEF Shape, Still, Calm, jobVars
<1>5. CASE ~ UNCHANGED jobVars
  <2>1. Begin(w, k, l) /\ row[k.dep].status \notin s /\ UNCHANGED faults /\ queue[k] > 0
    BY <1>1, <1>5 DEF Handle
  <2>2. k \in Request /\ row[k.dep] # None /\ l \in WithCopy /\ l \notin {"c_submitted", "d_deleted"}
    BY <2>1 DEF JobSet, Request, TypeInv, LocalInv, WithCopy
  <2> QED
    BY <1>1, <1>2, <2>1, <2>2, BeginShape
<1> QED
  BY <1>4, <1>5

(* A request starts. *)
LEMMA StartShape ==
  ASSUME TypeInv, FreshInv, NEW c \in Clients, ClientStart(c)
  PROVE  Shape \/ \E d \in Deps : pc[c] = "idle" /\ CreateDeployment(c, d)
<1>1. c \in Procs /\ pc[c] = "idle"
  BY DEF Procs, ClientStart
<1>2. faults \in Nat
  BY DeploymentAssumption, SMT DEF TypeInv, TypeInvariant
<1>3. CASE UpdateApp(c)
  <2>1. pc'[c] = "update" /\ Others(c)
    BY <1>1, <1>3 DEF UpdateApp, Others, TypeInv, TypeInvariant
  <2>2. UNCHANGED <<row, repairs, overwritten, cluster, stale, faults>>
    BY <1>3 DEF UpdateApp, history
  <2> QED
    BY <1>1, <1>2, <2>1, <2>2, DoneShape, SMT DEF WithCopy
<1>4. ASSUME NEW d \in Deps,
             RetryDeployment(c, d) \/ CancelDeployment(c, d) \/ DeleteDeployment(c, d)
      PROVE  Shape
  <2>1. PICK l \in Requesting, t \in {"create", "cancel", "delete"} :
          /\ Begin(c, NewJob(t, d), l)
          /\ row[d] # None /\ row[d].status # "deleted"
          /\ UNCHANGED <<row, repairs, overwritten, cluster, faults>>
    BY <1>4 DEF RetryDeployment, CancelDeployment, DeleteDeployment, StartRequest, Requesting, history
  <2>2. NewJob(t, d) \in Request /\ NewJob(t, d).dep = d
    BY DEF NewJob, Request, Types
  <2>3. l \in WithCopy /\ l \notin {"c_submitted", "d_deleted"} /\ Shut(l) \subseteq {"deleted"}
    BY DEF Requesting, WithCopy, Shut, Creating, Syncing
  <2> QED
    BY <1>1, <2>1, <2>2, <2>3, BeginShape
<1> QED
  BY <1>1, <1>3, <1>4 DEF ClientStart

(* The writes of the requests, redeliveries and crashes, the reconciler and the
   cluster. *)
LEMMA OtherShape ==
  ASSUME TypeInv, FreshInv,
         \/ \E w \in Workers : Redeliver(w)
         \/ \E c \in Clients : ClientStep(c) \/ Abandon(c)
         \/ \E d \in Deps : Reconcile(d) \/ Rollout(d)
  PROVE  Shape
<1>1. faults \in Nat
  BY DeploymentAssumption, SMT DEF TypeInv, TypeInvariant
<1>2. ASSUME NEW p \in Procs, Redeliver(p) \/ Abandon(p) PROVE Shape
  <2>1. UNCHANGED <<row, repairs, overwritten, cluster>> /\ faults' = faults + 1
    BY <1>2 DEF Redeliver, Abandon, history
  <2>2. CASE Leave(p) /\ stale' = stale \ {p}
    BY <1>1, <2>1, <2>2, LeaveShape, DoneShape, SMT DEF WithCopy
  <2>3. CASE UNCHANGED jobVars
    BY <1>1, <2>1, <2>3, SMT DEF Shape, Still, Calm, jobVars
  <2> QED
    BY <1>2, <2>2, <2>3 DEF Redeliver, Abandon
<1>3. ASSUME NEW c \in Clients, RequestSchedule(c) PROVE Shape
  <2>1. PICK o \in Outcomes : Charge(o)
    BY <1>3 DEF RequestSchedule
  <2>2. /\ c \in Procs /\ Leave(c) /\ pc[c] # "c_submitted"
        /\ UNCHANGED <<row, repairs, overwritten, cluster, stale>>
    BY <1>3 DEF RequestSchedule, history, Procs
  <2> QED
    BY <2>1, <2>2, LeaveShape, ChargeCounts, DoneShape DEF WithCopy
<1>4. ASSUME NEW c \in Clients, UpdateAppWrite(c) PROVE Shape
  <2>1. /\ c \in Procs /\ Leave(c) /\ pc[c] # "c_submitted"
        /\ UNCHANGED <<row, repairs, overwritten, cluster, stale, faults>>
    BY <1>4 DEF UpdateAppWrite, history, Procs
  <2> QED
    BY <1>1, <2>1, LeaveShape, DoneShape, SMT DEF WithCopy
<1>5. ASSUME NEW c \in Clients, RequestWrite(c) PROVE Shape
  <2> DEFINE r == Requested(mem[c], pc[c])
  <2>1. c \in Procs /\ pc[c] \in WithCopy /\ pc[c] \in Requesting /\ UNCHANGED cluster
    BY <1>5 DEF RequestWrite, Procs, WithCopy, Requesting
  <2>2. mem[c] \in Row /\ mem[c].repair <= MaxRepair
    BY <2>1, HasCopy DEF FreshInv, Copy
  <2>3. r \in Row
    BY <2>1, <2>2, CopiesTyped DEF Requesting, Statuses
  <2>4. /\ r.ref = mem[c].ref /\ r.status \in {"queued", "cancelled", "deleting"}
        /\ r.repair <= MaxRepair /\ (r.status = "queued" \/ r.repair = mem[c].repair)
    BY <2>2, DeploymentAssumption, SMT DEF Requested, Marked
  <2>5. MayWrite(c, r)
    BY <2>1, <2>3, <2>4 DEF MayWrite, Live
  <2>6. PICK o \in Outcomes : Write(c, r, o) /\ (Leave(c) \/ Proceed(c, r, "schedule"))
    BY <1>5 DEF RequestWrite
  <2> HIDE DEF r
  <2>7. Others(c) /\ pc'[c] \in {"idle", "schedule"}
    BY <2>1, <2>6 DEF Leave, Proceed, Others, TypeInv, TypeInvariant
  <2>8. Copy(c)'
    BY <2>7 DEF Copy, Fresh, WithCopy
  <2> QED
    BY <2>1, <2>3, <2>5, <2>6, <2>7, <2>8, WriteShape DEF WithCopy
<1>6. ASSUME NEW d \in Deps, Reconcile(d) PROVE Shape
  BY <1>1, <1>6, SMT DEF Reconcile, Shape, Still, Calm, jobVars, history
<1>7. ASSUME NEW d \in Deps, Rollout(d) PROVE Shape
  <2>1. PICK s : cluster' = [cluster EXCEPT ![d] = s]
    BY <1>7 DEF Rollout
  <2>2. \A e \in Deps : cluster'[e] # "absent" => cluster[e] # "absent"
    BY <1>7, <2>1 DEF Rollout, TypeInv, TypeInvariant
  <2> QED
    BY <1>1, <1>7, <2>2, SMT DEF Rollout, Shape, Still, Calm, jobVars, history
<1> QED
  BY <1>2, <1>3, <1>4, <1>5, <1>6, <1>7 DEF ClientStep, Procs

(* Every step has one of the shapes, or creates a deployment. *)
LEMMA NextShape ==
  ASSUME TypeInv, TypeInv', FreshInv, [Next]_vars
  PROVE  Shape \/ \E c \in Clients, d \in Deps : pc[c] = "idle" /\ CreateDeployment(c, d)
<1>1. CASE UNCHANGED vars
  <2>1. faults <= faults'
    BY <1>1, DeploymentAssumption, SMT DEF vars, TypeInv, TypeInvariant
  <2> QED
    BY <1>1, <2>1 DEF vars, jobVars, history, Shape, Still, Calm
<1>2. CASE Next
  BY <1>2, StartShape, TakeShape, WorkerShape, OtherShape DEF Next
<1> QED
  BY <1>1, <1>2

(* A new row is nobody's copy: DeploymentService.CreateDeployment. *)
LEMMA CreateLeavesCopies ==
  ASSUME TypeInv, NEW c \in Clients, NEW d \in Deps, CreateDeployment(c, d)
  PROVE  /\ c \in Procs /\ pc'[c] \in {pc[c], "schedule"} /\ Others(c)
         /\ UNCHANGED <<repairs, overwritten, stale, mem, cluster>>
         /\ row[d] = None /\ row'[d] = [status |-> "queued", ref |-> FALSE, repair |-> 0]
         /\ \A e \in Deps \ {d} : row'[e] = row[e]
         /\ \A q \in Procs : pc[q] \in WithCopy => job[q].dep \in Deps \ {d}
         /\ faults <= faults'
<1>1. \A q \in Procs : pc[q] \in WithCopy => job[q].dep \in Deps \ {d}
  BY HasCopy DEF CreateDeployment
<1>2. PICK o \in Outcomes : Charge(o)
  BY DEF CreateDeployment
<1>3. faults <= faults'
  BY <1>2, ChargeCounts
<1>4. c \in Procs /\ pc'[c] \in {pc[c], "schedule"} /\ Others(c)
  BY DEF CreateDeployment, Procs, Others, TypeInv, TypeInvariant
<1> QED
  BY <1>1, <1>3, <1>4 DEF CreateDeployment, TypeInv, TypeInvariant, history

(* FreshInv is inductive on top of the type invariant. *)
LEMMA FreshStep == FreshInv /\ TypeInv /\ TypeInv' /\ [Next]_vars => FreshInv'
<1> SUFFICES ASSUME FreshInv, TypeInv, TypeInv', [Next]_vars PROVE FreshInv'
  OBVIOUS
<1>1. CASE Shape
  BY <1>1, StillKeeps, QuietKeeps, WriteKeeps DEF Shape, Procs
<1>2. ASSUME NEW c \in Clients, NEW d \in Deps, CreateDeployment(c, d), pc[c] = "idle" PROVE FreshInv'
  <2> USE <1>2, CreateLeavesCopies
  <2>1. c \in Procs /\ pc'[c] \notin WithCopy
    BY DEF WithCopy
  <2>2. ASSUME NEW q \in Procs PROVE Copy(q)'
    <3>1. CASE q = c
      BY <2>1, <3>1 DEF Copy, Fresh
    <3>2. CASE q # c
      <4>1. pc'[q] = pc[q] /\ job'[q] = job[q] /\ mem'[q] = mem[q] /\ Copy(q)
        BY <3>2 DEF Others, FreshInv
      <4>2. pc[q] \in WithCopy => row'[job[q].dep] = row[job[q].dep]
        OBVIOUS
      <4> QED
        BY <4>1, <4>2 DEF Copy, Fresh
    <3> QED
      BY <3>1, <3>2
  <2>3. ASSUME NEW e \in Deps PROVE RowCounts(e)'
    <3>1. CASE e = d
      <4>1. repairs'[e] = 0 /\ row'[e].repair = 0
        BY <3>1, SMT DEF FreshInv, RowCounts
      <4>2. 0 <= MaxRepair
        BY DeploymentAssumption, SMT
      <4>3. row'[e] # None
        <5>1. row'[e] = [status |-> "queued", ref |-> FALSE, repair |-> 0]
          BY <3>1
        <5>2. row'[e] \in Row
          BY <5>1, SMT DEF Row, Statuses
        <5> QED
          BY <5>2, DeploymentAssumption
      <4> QED
        BY <4>1, <4>2, <4>3, SMT DEF RowCounts
    <3>2. CASE e # d
      BY <3>2, SMT DEF FreshInv, RowCounts
    <3> QED
      BY <3>1, <3>2
  <2> QED
    BY <2>2, <2>3 DEF FreshInv
<1> QED
  BY <1>1, <1>2, NextShape

(* The invariant FreshInv holds throughout. *)
LEMMA FreshAlways == Spec => []FreshInv
<1>1. Init => FreshInv
  <2> SUFFICES ASSUME Init PROVE FreshInv
    OBVIOUS
  <2>1. \A p \in Procs : Copy(p)
    BY DEF Init, Copy, Fresh, WithCopy
  <2>2. \A d \in Deps : RowCounts(d)
    BY DEF Init, RowCounts
  <2> QED
    BY <2>1, <2>2 DEF FreshInv
<1> QED
  BY <1>1, FreshStep, TypeCorrect, PTL DEF Spec, TypeInv

(* As long as no row is written over, QueueAutoRepair makes no more repairs in a
   row than the policy allows: the repairs made are those the row counts. *)
THEOREM RepairsBounded == Spec => []RepairsCounted
<1>1. FreshInv /\ TypeInv => RepairsCounted
  <2> SUFFICES ASSUME FreshInv, TypeInv, ~overwritten, NEW d \in Deps PROVE repairs[d] <= MaxRepair
    BY DEF RepairsCounted
  <2>1. repairs[d] \in Nat /\ MaxRepair \in Nat
    BY DeploymentAssumption, SMT DEF TypeInv, TypeInvariant
  <2>2. CASE row[d] = None
    BY <2>1, <2>2, SMT DEF FreshInv, RowCounts
  <2>3. CASE row[d] # None
    <3>1. row[d].repair \in Nat
      BY <2>3 DEF TypeInv, TypeInvariant, Row
    <3> QED
      BY <2>1, <2>3, <3>1, SMT DEF FreshInv, RowCounts
  <2> QED
    BY <2>2, <2>3
<1> QED
  BY <1>1, FreshAlways, TypeCorrect, PTL DEF TypeInv

(* No handler whose job is late, duplicated or redelivered brings a cancelled or
   deleted deployment back to work: a fresh copy shows the status it is turned
   away by, and a copy that is not fresh writes a row over. *)
THEOREM EndedStays == Spec => EndedStaysEnded
<1> DEFINE Stays ==
      \A d \in Deps :
        ~overwritten' =>
          /\ Status(d) \in {"cancelled", "deleted"} => Status(d)' \notin Live
          /\ Status(d) = "deleted" => Status(d)' \notin {"queued", "cancelled", "deleting"}
<1>1. FreshInv /\ TypeInv /\ TypeInv' /\ [Next]_vars => [Stays]_vars
  <2> SUFFICES ASSUME FreshInv, TypeInv, TypeInv', [Next]_vars, NEW d \in Deps, ~overwritten'
               PROVE  /\ Status(d) \in {"cancelled", "deleted"} => Status(d)' \notin Live
                      /\ Status(d) = "deleted" => Status(d)' \notin {"queued", "cancelled", "deleting"}
    OBVIOUS
  <2>1. CASE row'[d] = row[d]
    BY <2>1 DEF Status, Live
  <2>2. ASSUME NEW c \in Clients, NEW e \in Deps, CreateDeployment(c, e)
        PROVE  row'[d] = row[d] \/ Status(d) = "none"
    BY <2>2, CreateLeavesCopies DEF Status
  <2>3. CASE Status(d) = "none"
    BY <2>3
  <2>4. ASSUME NEW p \in Procs, NEW r \in Row, WritesRow(p, r), job[p].dep = d
        PROVE  /\ Status(d) \in {"cancelled", "deleted"} => Status(d)' \notin Live
               /\ Status(d) = "deleted" => Status(d)' \notin {"queued", "cancelled", "deleting"}
    <3>1. Fresh(p) /\ row[d] # None /\ row'[d] = r /\ r # None
      <4>1. pc[p] \in WithCopy /\ row' = [row EXCEPT ![d] = r] /\ p \notin stale
        BY <2>4 DEF WritesRow
      <4>2. row[d] # None
        BY <2>4, <4>1, HasCopy
      <4>3. row'[d] = r
        BY <4>1 DEF TypeInv, TypeInvariant
      <4>4. r # None
        BY DeploymentAssumption
      <4> QED BY <4>1, <4>2, <4>3, <4>4 DEF Fresh
    <3>2. row[d].status \notin Shut(pc[p])
      BY <2>4, <3>1 DEF FreshInv, Copy
    <3>3. Status(d) = row[d].status /\ Status(d)' = r.status
      BY <3>1 DEF Status
    <3>4. /\ r.status \in Live => {"cancelled", "deleted"} \subseteq Shut(pc[p])
          /\ r.status \in {"queued", "cancelled", "deleting"} => "deleted" \in Shut(pc[p])
      BY <2>4 DEF WritesRow, MayWrite, Shut
    <3> QED
      BY <3>2, <3>3, <3>4
  <2>5. ASSUME Shape PROVE row'[d] = row[d] \/ \E p \in Procs, r \in Row : WritesRow(p, r) /\ job[p].dep = d
    BY <2>5 DEF Shape, Still, Quiet, WritesRow, TypeInv, TypeInvariant
  <2> QED
    BY <2>1, <2>2, <2>3, <2>4, <2>5, NextShape
<1>2. Spec => [][Stays]_vars
  BY <1>1, FreshAlways, TypeCorrect, PTL DEF Spec, TypeInv
<1> QED
  BY <1>2 DEF EndedStaysEnded
-----------------------------------------------------------------------------
(* A handler has submitted deployment d and is about to write the reference; the
   row has it, and is not deleted. *)
Submitting(d) == \E w \in Workers : pc[w] = "c_submitted" /\ job[w].dep = d
Kept(d) == row[d] # None /\ row[d].ref /\ row[d].status # "deleted"

(* A handler that has deleted the resources finds them gone, unless another one
   has just submitted them. *)
Gone(p) ==
  Fresh(p) /\ pc[p] = "d_deleted" =>
    \A d \in Deps : d = job[p].dep => cluster[d] = "absent" \/ Submitting(d)
Accounted(d) == cluster[d] # "absent" => Kept(d) \/ Submitting(d)
FoundInv ==
  /\ \A w \in Procs : pc[w] = "c_submitted" => mem[w].ref
  /\ ~overwritten /\ faults = 0 =>
       (\A d \in Deps : Accounted(d)) /\ (\A p \in Procs : Gone(p))

(* A handler that is not moved by the step goes on submitting. *)
LEMMA SubmittingStays ==
  ASSUME NEW p, Others(p), NEW d, Submitting(d), pc[p] = "c_submitted" => job[p].dep # d
  PROVE  Submitting(d)'
BY DEF Submitting, Others, Procs

(* The reference a handler has after Submit is in its copy until it is written. *)
LEMMA ReferenceKept ==
  ASSUME FoundInv, NEW p \in Procs, Others(p),
         pc'[p] = "c_submitted" => mem'[p].ref
  PROVE  \A w \in Procs : pc'[w] = "c_submitted" => mem'[w].ref
BY DEF FoundInv, Others

(* Another handler than p that has deleted, after a step that brings no new
   resources of its deployment. *)
LEMMA GoneStays ==
  ASSUME TypeInv, NEW p, Others(p), stale \ {p} \subseteq stale', NEW q \in Procs \ {p}, Gone(q),
         \A d \in Deps : Fresh(q)' /\ pc[q] = "d_deleted" /\ d = job[q].dep =>
           /\ cluster'[d] # "absent" => cluster[d] # "absent" \/ Submitting(d)'
           /\ Submitting(d) => Submitting(d)'
  PROVE  Gone(q)'
<1>1. pc'[q] = pc[q] /\ job'[q] = job[q] /\ (Fresh(q)' => Fresh(q))
  BY DEF Others, Fresh
<1> QED
  BY <1>1 DEF Gone

(* Steps that write no row and bring nothing into the cluster. *)
LEMMA QuietFinds ==
  ASSUME TypeInv, FoundInv, NEW p \in Procs, Quiet(p), Calm,
         pc'[p] \notin {"c_submitted", "d_deleted"},
         pc[p] = "c_submitted" => faults' # 0
  PROVE  FoundInv'
<1>1. \A w \in Procs : pc'[w] = "c_submitted" => mem'[w].ref
  BY ReferenceKept DEF Quiet
<1>2. SUFFICES ASSUME ~overwritten', faults' = 0
      PROVE  (\A d \in Deps : Accounted(d)') /\ (\A q \in Procs : Gone(q)')
  BY <1>1 DEF FoundInv
<1>3. ~overwritten /\ faults = 0
  BY <1>2, DeploymentAssumption, SMT DEF Quiet, Calm, TypeInv, TypeInvariant
<1>4. \A d : Submitting(d) => Submitting(d)'
  BY <1>2, SubmittingStays DEF Quiet
<1>5. ASSUME NEW d \in Deps PROVE Accounted(d)'
  BY <1>3, <1>4 DEF FoundInv, Calm, Quiet, Kept, Accounted
<1>6. ASSUME NEW q \in Procs PROVE Gone(q)'
  <2>1. CASE q = p
    BY <2>1 DEF Gone
  <2>2. CASE q # p
    BY <1>3, <1>4, <2>2, GoneStays DEF FoundInv, Quiet, Calm
  <2> QED
    BY <2>1, <2>2
<1> QED
  BY <1>5, <1>6

(* Nobody moves. *)
LEMMA StillFinds ==
  ASSUME TypeInv, FoundInv, Still, Calm
  PROVE  FoundInv'
<1>1. faults' = 0 => faults = 0
  BY DeploymentAssumption, SMT DEF Calm, TypeInv, TypeInvariant
<1>2. \A d : Submitting(d)' <=> Submitting(d)
  BY DEF Submitting, Still
<1>3. ASSUME ~overwritten', faults' = 0
      PROVE  (\A d \in Deps : Accounted(d)') /\ (\A q \in Procs : Gone(q)')
  <2>1. ~overwritten /\ faults = 0
    BY <1>1, <1>3 DEF Still
  <2>2. ASSUME NEW d \in Deps PROVE Accounted(d)'
    BY <1>2, <2>1 DEF FoundInv, Calm, Kept, Still, Accounted
  <2>3. ASSUME NEW q \in Procs PROVE Gone(q)'
    BY <1>2, <2>1 DEF FoundInv, Calm, Still, Gone, Fresh
  <2> QED
    BY <2>2, <2>3
<1>4. \A w \in Procs : pc'[w] = "c_submitted" => mem'[w].ref
  BY DEF FoundInv, Still
<1> QED
  BY <1>3, <1>4 DEF FoundInv

(* A fresh copy is written: it has the reference the row has, and says "deleted"
   only when the resources are gone or are being submitted again. *)
LEMMA WriteFinds ==
  ASSUME TypeInv, FreshInv, FoundInv, NEW p \in Procs, NEW r \in Row, WritesRow(p, r), Calm,
         pc'[p] \notin {"c_submitted", "d_deleted"}
  PROVE  FoundInv'
<1> DEFINE d == job[p].dep
<1>1. \A w \in Procs : pc'[w] = "c_submitted" => mem'[w].ref
  BY ReferenceKept DEF WritesRow
<1>2. SUFFICES ASSUME ~overwritten', faults' = 0
      PROVE  (\A e \in Deps : Accounted(e)') /\ (\A q \in Procs : Gone(q)')
  BY <1>1 DEF FoundInv
<1>3. ~overwritten /\ faults = 0 /\ p \notin stale
  <2>1. faults = 0
    BY <1>2, DeploymentAssumption, SMT DEF Calm, TypeInv, TypeInvariant
  <2>2. ~overwritten /\ p \notin stale
    BY <1>2 DEF WritesRow
  <2> QED
    BY <2>1, <2>2
<1>4. d \in Deps /\ row[d] # None /\ r # None /\ Fresh(p)
  BY <1>3, HasCopy, DeploymentAssumption DEF WritesRow, Fresh
<1>5. row'[d] = r /\ \A e \in Deps \ {d} : row'[e] = row[e]
  BY <1>4 DEF WritesRow, TypeInv, TypeInvariant
<1>6. \A e : Submitting(e) /\ (e # d \/ pc[p] # "c_submitted") => Submitting(e)'
  <2>1. Others(p)
    BY DEF WritesRow
  <2> QED
    BY <2>1, SubmittingStays
<1>7. ASSUME NEW e \in Deps PROVE Accounted(e)'
  <2>1. CASE e # d
    BY <1>3, <1>5, <1>6, <2>1 DEF FoundInv, Accounted, Kept, Calm
  <2>2. CASE e = d
    <3>1. mem[p].ref => r.ref
      BY DEF WritesRow, MayWrite
    <3>2. r.status = "deleted" => pc[p] = "d_deleted"
      BY DEF WritesRow, MayWrite
    <3>3. row[d].ref => r.ref
      BY <1>4, <3>1 DEF FreshInv, Copy
    <3>4. CASE pc[p] = "c_submitted"
      BY <1>4, <1>5, <2>2, <3>1, <3>2, <3>4 DEF FoundInv, Accounted, Kept
    <3>5. CASE pc[p] = "d_deleted"
      BY <1>3, <1>4, <1>6, <2>2, <3>5 DEF FoundInv, Accounted, Gone, Calm
    <3>6. CASE pc[p] \notin {"c_submitted", "d_deleted"}
      BY <1>3, <1>4, <1>5, <1>6, <2>2, <3>2, <3>3, <3>6 DEF FoundInv, Accounted, Kept, Calm
    <3> QED
      BY <3>4, <3>5, <3>6
  <2> QED
    BY <2>1, <2>2
<1>8. ASSUME NEW q \in Procs PROVE Gone(q)'
  <2>1. CASE q = p
    BY <2>1 DEF Gone
  <2>2. CASE q # p
    <3>1. pc[q] = "d_deleted" /\ Fresh(q)' => job[q].dep # d
      <4>1. pc[q] = "d_deleted" => mem[q] # None
        BY HasCopy, DeploymentAssumption DEF WithCopy
      <4> QED
        BY <2>2, <4>1 DEF WritesRow, Fresh
    <3>2. stale \ {p} \subseteq stale' /\ Others(p)
      BY DEF WritesRow
    <3> QED
      BY <1>3, <1>6, <2>2, <3>1, <3>2, GoneStays DEF FoundInv, Calm
  <2> QED
    BY <2>1, <2>2
<1> QED
  BY <1>7, <1>8

(* Submit creates or updates the Deployment. *)
LEMMA SubmitFinds ==
  ASSUME TypeInv, FoundInv, NEW w \in Workers, Quiet(w), CreateSubmit(w)
  PROVE  FoundInv'
<1> DEFINE d == job[w].dep
<1>1. w \in Procs /\ pc[w] = "c_submit" /\ d \in Deps /\ UNCHANGED <<row, job, stale, overwritten>>
  BY HasJob DEF Procs, CreateSubmit
<1>2. PICK o \in Outcomes, c \in Observed :
        /\ Charge(o)
        /\ cluster' = IF Effective(o) THEN [cluster EXCEPT ![d] = c] ELSE cluster
        /\ pc' = [pc EXCEPT ![w] = IF o = "ok" THEN "c_submitted" ELSE "c_failed"]
        /\ mem' = [mem EXCEPT ![w] = IF o = "ok" THEN Referenced(@) ELSE @]
  BY DEF CreateSubmit
<1>3. pc'[w] = "c_submitted" => mem'[w].ref
  <2>1. CASE o = "ok"
    <3>1. mem'[w] = Referenced(mem[w])
      BY <1>1, <1>2, <2>1 DEF TypeInv, TypeInvariant
    <3> QED
      BY <3>1, SMT DEF Referenced
  <2>2. CASE o # "ok"
    BY <1>1, <1>2, <2>2 DEF TypeInv, TypeInvariant
  <2> QED
    BY <2>1, <2>2
<1>4. \A v \in Procs : pc'[v] = "c_submitted" => mem'[v].ref
  BY <1>1, <1>3, ReferenceKept DEF Quiet
<1>5. SUFFICES ASSUME ~overwritten', faults' = 0
      PROVE  (\A e \in Deps : Accounted(e)') /\ (\A q \in Procs : Gone(q)')
  BY <1>4 DEF FoundInv
<1>6. ~overwritten /\ faults = 0 /\ o = "ok"
  <2>1. faults \in Nat /\ faults <= faults' /\ (o # "ok" => faults' # 0)
    BY <1>2, ChargeCounts, DeploymentAssumption, SMT DEF TypeInv, TypeInvariant
  <2> QED
    BY <1>1, <1>5, <2>1, SMT
<1>7. pc'[w] = "c_submitted" /\ \A e \in Deps \ {d} : cluster'[e] = cluster[e]
  BY <1>1, <1>2, <1>6 DEF TypeInv, TypeInvariant
<1>8. \A e : e = d \/ Submitting(e) => Submitting(e)'
  <2>1. \A e : e = d => Submitting(e)'
    BY <1>1, <1>7 DEF Submitting
  <2>2. Others(w)
    BY DEF Quiet
  <2> QED
    BY <1>1, <2>1, <2>2, SubmittingStays
<1>9. ASSUME NEW e \in Deps PROVE Accounted(e)'
  BY <1>1, <1>6, <1>7, <1>8 DEF FoundInv, Accounted, Kept
<1>10. ASSUME NEW q \in Procs PROVE Gone(q)'
  <2>1. CASE q = w
    BY <1>7, <2>1 DEF Gone
  <2>2. CASE q # w
    BY <1>6, <1>7, <1>8, <2>2, GoneStays DEF FoundInv, Quiet
  <2> QED
    BY <2>1, <2>2
<1> QED
  BY <1>9, <1>10

(* Backend.Delete deletes what the copy refers to. *)
LEMMA DeleteFinds ==
  ASSUME TypeInv, FreshInv, FoundInv, NEW w \in Workers, Quiet(w), DeleteResources(w)
  PROVE  FoundInv'
<1> DEFINE d == job[w].dep
<1>1. /\ w \in Procs /\ pc[w] = "d_delete" /\ pc[w] \in WithCopy /\ d \in Deps /\ row[d] # None
      /\ UNCHANGED <<row, stale, overwritten>>
  BY HasJob DEF Procs, DeleteResources, history, WithCopy
<1>2. PICK o \in Outcomes :
        /\ Charge(o)
        /\ cluster' = IF mem[w].ref /\ Effective(o) THEN [cluster EXCEPT ![d] = "absent"] ELSE cluster
        /\ Goto(w, IF o = "ok" THEN "d_deleted" ELSE "d_failed")
  BY DEF DeleteResources
<1>3. UNCHANGED <<job, mem>> /\ pc'[w] \in {"d_deleted", "d_failed"}
  BY <1>1, <1>2 DEF Goto, TypeInv, TypeInvariant
<1>4. \A v \in Procs : pc'[v] = "c_submitted" => mem'[v].ref
  BY <1>1, <1>3, ReferenceKept DEF Quiet
<1>5. SUFFICES ASSUME ~overwritten', faults' = 0
      PROVE  (\A e \in Deps : Accounted(e)') /\ (\A q \in Procs : Gone(q)')
  BY <1>4 DEF FoundInv
<1>6. ~overwritten /\ faults = 0 /\ o = "ok"
  <2>1. faults \in Nat /\ faults <= faults' /\ (o # "ok" => faults' # 0)
    BY <1>2, ChargeCounts, DeploymentAssumption, SMT DEF TypeInv, TypeInvariant
  <2> QED
    BY <1>1, <1>5, <2>1, SMT
<1>7. \A e \in Deps : cluster'[e] # "absent" => cluster[e] # "absent" /\ (e = d => ~mem[w].ref)
  BY <1>1, <1>2, <1>6 DEF Effective, TypeInv, TypeInvariant
<1>8. \A e : Submitting(e) => Submitting(e)'
  <2>1. Others(w)
    BY DEF Quiet
  <2> QED
    BY <1>1, <2>1, SubmittingStays
<1>9. ASSUME NEW e \in Deps PROVE Accounted(e)'
  BY <1>1, <1>6, <1>7, <1>8 DEF FoundInv, Accounted, Kept
<1>10. ASSUME NEW q \in Procs PROVE Gone(q)'
  <2>1. CASE q = w
    <3>1. ASSUME Fresh(w)', cluster'[d] # "absent" PROVE Submitting(d)
      <4>1. Fresh(w) /\ cluster[d] # "absent" /\ ~mem[w].ref
        BY <1>1, <1>7, <3>1 DEF Fresh
      <4>2. ~row[d].ref
        BY <1>1, <4>1 DEF FreshInv, Copy
      <4> QED
        BY <1>1, <1>6, <4>1, <4>2 DEF FoundInv, Accounted, Kept
    <3> QED
      BY <1>3, <1>8, <2>1, <3>1 DEF Gone
  <2>2. CASE q # w
    BY <1>6, <1>7, <1>8, <2>2, GoneStays DEF FoundInv, Quiet
  <2> QED
    BY <2>1, <2>2
<1> QED
  BY <1>9, <1>10

(* A new row has no resources. *)
LEMMA CreateFinds ==
  ASSUME TypeInv, FoundInv, NEW c \in Clients, NEW d \in Deps, CreateDeployment(c, d), pc[c] = "idle"
  PROVE  FoundInv'
<1>1. /\ c \in Procs /\ pc'[c] \in {"idle", "schedule"} /\ Others(c)
      /\ UNCHANGED <<overwritten, stale, cluster>> /\ row[d] = None /\ faults <= faults'
      /\ \A e \in Deps \ {d} : row'[e] = row[e]
  BY CreateLeavesCopies
<1>2. \A v \in Procs : pc'[v] = "c_submitted" => mem'[v].ref
  BY <1>1, ReferenceKept
<1>3. SUFFICES ASSUME ~overwritten', faults' = 0
      PROVE  (\A e \in Deps : Accounted(e)') /\ (\A q \in Procs : Gone(q)')
  BY <1>2 DEF FoundInv
<1>4. ~overwritten /\ faults = 0
  BY <1>1, <1>3, DeploymentAssumption, SMT DEF TypeInv, TypeInvariant
<1>5. \A e : Submitting(e) => Submitting(e)'
  BY <1>1, SubmittingStays
<1>6. ~Submitting(d) /\ ~Kept(d)
  BY <1>1, HasJob DEF Submitting, Kept, Procs
<1>7. ASSUME NEW e \in Deps PROVE Accounted(e)'
  BY <1>1, <1>4, <1>5, <1>6 DEF FoundInv, Accounted, Kept
<1>8. ASSUME NEW q \in Procs PROVE Gone(q)'
  <2>1. CASE q = c
    BY <1>1, <2>1 DEF Gone
  <2>2. CASE q # c
    BY <1>1, <1>4, <1>5, <2>2, GoneStays DEF FoundInv
  <2> QED
    BY <2>1, <2>2
<1> QED
  BY <1>7, <1>8

(* Without failures and without a row written over, the resources of a
   deployment nobody works on are referred to by a row that is not deleted. *)
THEOREM ResourcesFound == Spec => []ResourcesAccounted
<1>1. Init => FoundInv
  BY DEF Init, FoundInv, Accounted, Gone
<1>2. FoundInv /\ FreshInv /\ TypeInv /\ TypeInv' /\ [Next]_vars => FoundInv'
  <2> SUFFICES ASSUME FoundInv, FreshInv, TypeInv, TypeInv', [Next]_vars PROVE FoundInv'
    OBVIOUS
  <2>1. CASE Shape
    BY <2>1, StillFinds, QuietFinds, WriteFinds, SubmitFinds, DeleteFinds DEF Shape
  <2> QED
    BY <2>1, CreateFinds, NextShape
<1>3. FoundInv /\ TypeInv => ResourcesAccounted
  <2> SUFFICES ASSUME FoundInv, TypeInv, ~overwritten, faults = 0, NEW d \in Deps,
                      cluster[d] # "absent", ~AtWork(d)
               PROVE  row[d].ref /\ row[d].status # "deleted"
    BY DEF ResourcesAccounted
  <2>1. Submitting(d) => AtWork(d)
    BY DEF Submitting, AtWork, Procs, TypeInv, LocalInv, Local
  <2> QED
    BY <2>1 DEF FoundInv, Accounted, Kept
<1> QED
  BY <1>1, <1>2, <1>3, FreshAlways, TypeCorrect, PTL DEF Spec, TypeInv
=============================================================================
