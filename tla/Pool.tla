-------------------------------- MODULE Pool --------------------------------
(***************************************************************************)
(* The connection pool of the Redis client (internal/queue/redis/client.go)*)
(* and how its operations use a connection: get, set a deadline, write a   *)
(* command and read its reply as often as the operation has commands, then *)
(* put the connection back, or discard it after any error.  The goroutines *)
(* of a process (HTTP requests, consumer, reconciler) share one pool.      *)
(***************************************************************************)
EXTENDS Integers, FiniteSets, SequencesExt

CONSTANTS
  Callers,   \* goroutines that use the client
  Conns,     \* TCP connections; one that nobody refers to may be dialled anew
  NoConn,
  MaxSize,   \* pool.maxSize
  MaxDialFailures  \* bound: dials that fail in a behaviour

ASSUME PoolAssumption ==
  /\ MaxSize \in Nat /\ MaxDialFailures \in Nat
  /\ NoConn \notin Conns
  /\ IsFiniteSet(Callers)

VARIABLES
  idle,      \* pool.idle, the next one to use is last
  size,      \* pool.size
  open,      \* connections that are open
  expired,   \* connections older than idleTimeout
  deadline,  \* connections with a deadline set
  unread,    \* replies that Redis owes on each connection
  pc,        \* what each caller does next
  held,      \* the connection each caller refers to
  todo,      \* replies the caller's operation still expects, in order
  leaked     \* history: dials that failed after size was counted up

vars == <<idle, size, open, expired, deadline, unread, pc, held, todo, leaked>>
net == <<open, expired, deadline, unread>>

Init ==
  /\ idle = <<>> /\ size = 0 /\ leaked = 0
  /\ open = {} /\ expired = {} /\ deadline = {}
  /\ unread = [c \in Conns |-> 0]
  /\ pc = [p \in Callers |-> "out"]
  /\ held = [p \in Callers |-> NoConn]
  /\ todo = [p \in Callers |-> <<>>]

Goto(p, l) == pc' = [pc EXCEPT ![p] = l]

(* conn.Close: nothing more is known of a closed connection. *)
Close(c) ==
  /\ open' = open \ {c}
  /\ expired' = expired \ {c}
  /\ deadline' = deadline \ {c}
  /\ unread' = [unread EXCEPT ![c] = 0]

(***************************************************************************)
(* The RESP readers: what each makes of the first byte of a reply.  Only   *)
(* the nil bulk string of BRPOPLPUSH's timeout and the nil array are not   *)
(* errors although they are not what was asked for.                        *)
(***************************************************************************)
readInteger(reply) == IF reply = ":" THEN "ok" ELSE "error"
readBulkString(reply) ==
  IF reply = "$-1" THEN "nil" ELSE IF reply = "$" THEN "ok" ELSE "error"
readBulkStringArray(reply) == IF reply \in {"*", "*-1"} THEN "ok" ELSE "error"
readPong(reply) == IF reply = "+" THEN "ok" ELSE "error"

Replies == {":", "$", "$-1", "*", "*-1", "+", "-"}
Reading(want, reply) ==
  IF want \in {"integer", "lease"} THEN readInteger(reply)
  ELSE IF want = "bulk" THEN readBulkString(reply)
  ELSE IF want = "array" THEN readBulkStringArray(reply)
  ELSE readPong(reply)

(* The replies the operations expect: Enqueue, Ack, EnqueueAfter, DeadLetter and
   each count of Stats want one integer; ListDeadLetters an array; Check a
   PONG; Dequeue a bulk string and two integers for the lease; PromoteDue and
   ReclaimStale an array and two integers for a job they move. *)
integerReply == <<"integer">>
readList == <<"array">>
Check == <<"pong">>
Dequeue == <<"bulk", "lease", "lease">>
Moves == {<<"array">>, <<"array", "integer">>, <<"array", "integer", "integer">>}
Operations == {integerReply, readList, Check, Dequeue} \cup Moves
-----------------------------------------------------------------------------
(* Mutant: the connection that is taken stays in the pool. *)
LockedKeepsIdle(p, s) ==
  /\ UNCHANGED idle
  /\ held' = [held EXCEPT ![p] = IF idle # <<>> THEN Last(idle) ELSE NoConn]
  /\ size' = IF idle # <<>> \/ s >= MaxSize THEN s ELSE s + 1
  /\ Goto(p, IF idle # <<>> THEN "check" ELSE IF s >= MaxSize THEN "out" ELSE "dial")

(* The critical section of get, entered with `size' = s: take the newest idle
   connection, else give up when the pool is full, else count a new one. *)
Locked(p, s) ==
  /\ IF idle # <<>>
     THEN /\ idle' = Front(idle)
          /\ held' = [held EXCEPT ![p] = Last(idle)]
          /\ size' = s
          /\ Goto(p, "check")
     ELSE /\ UNCHANGED idle
          /\ held' = [held EXCEPT ![p] = NoConn]
          /\ size' = IF s >= MaxSize THEN s ELSE s + 1
          /\ Goto(p, IF s >= MaxSize THEN "out" ELSE "dial")

get(p) ==
  /\ pc[p] = "out"
  /\ Locked(p, size)
  /\ UNCHANGED <<net, todo, leaked>>

(* Outside the lock: a connection that is not too old is used, another one is
   closed. *)
CheckIdle(p) ==
  /\ pc[p] = "check"
  /\ IF held[p] \notin expired
     THEN Goto(p, "begin") /\ UNCHANGED net
     ELSE Goto(p, "closed") /\ Close(held[p])
  /\ UNCHANGED <<idle, size, held, todo, leaked>>

(* Mutant: the closed connection is not counted down. *)
RelockUncounted(p) ==
  /\ pc[p] = "closed"
  /\ Locked(p, size)
  /\ UNCHANGED <<net, todo, leaked>>

(* The lock is taken again, the closed connection is counted down, and the
   loop goes on under that lock. *)
Relock(p) ==
  /\ pc[p] = "closed"
  /\ Locked(p, size - 1)
  /\ UNCHANGED <<net, todo, leaked>>

(* dial, with AUTH when there is a password: the new connection has no
   deadline. *)
dial(p) ==
  /\ pc[p] = "dial"
  /\ \E c \in Conns \ (open \cup {held[q] : q \in Callers}) :
       /\ held' = [held EXCEPT ![p] = c]
       /\ open' = open \cup {c}
  /\ Goto(p, "begin")
  /\ UNCHANGED <<idle, size, expired, deadline, unread, todo, leaked>>

(* A dial or AUTH that fails returns the error; pool.size stays as it is. *)
dialFails(p) ==
  /\ pc[p] = "dial"
  /\ leaked < MaxDialFailures
  /\ leaked' = leaked + 1
  /\ Goto(p, "out")
  /\ UNCHANGED <<idle, size, net, held, todo>>

(* The operation starts. *)
SetDeadline(p) ==
  /\ pc[p] = "begin"
  /\ \E op \in Operations : todo' = [todo EXCEPT ![p] = op]
  /\ deadline' = deadline \cup {held[p]}
  /\ Goto(p, "write")
  /\ UNCHANGED <<idle, size, open, expired, unread, held, leaked>>

write(p) ==
  /\ pc[p] = "write"
  /\ unread' = [unread EXCEPT ![held[p]] = @ + 1]
  /\ Goto(p, "read")
  /\ UNCHANGED <<idle, size, open, expired, deadline, held, todo, leaked>>

(* A reply is read.  A nil bulk string ends Dequeue; anything but the expected
   reply is an error; after the last one the connection goes back.  Dequeue
   clears the deadline first, every other operation when it returns. *)
read(p) ==
  /\ pc[p] = "read"
  /\ \E reply \in Replies :
       LET r == Reading(Head(todo[p]), reply)
           rest == IF r = "ok" THEN Tail(todo[p]) ELSE <<>>
       IN
       /\ todo' = [todo EXCEPT ![p] = rest]
       /\ Goto(p, IF r = "error" THEN "discard"
                  ELSE IF rest # <<>> THEN "write"
                  ELSE IF Head(todo[p]) \in {"bulk", "lease"} THEN "clear_put" ELSE "put")
  /\ unread' = [unread EXCEPT ![held[p]] = @ - 1]
  /\ UNCHANGED <<idle, size, open, expired, deadline, held, leaked>>

(* A write or a read fails: connection lost or deadline exceeded. *)
ioFails(p) ==
  /\ pc[p] \in {"write", "read"}
  /\ todo' = [todo EXCEPT ![p] = <<>>]
  /\ Goto(p, "discard")
  /\ UNCHANGED <<idle, size, net, held, leaked>>

(* Mutant: the connection is put back after an error. *)
discardPuts(p) ==
  /\ pc[p] = "discard"
  /\ idle' = Append(idle, held[p])
  /\ held' = [held EXCEPT ![p] = NoConn]
  /\ Goto(p, "out")
  /\ UNCHANGED <<size, net, todo, leaked>>

discard(p) ==
  /\ pc[p] = "discard"
  /\ Close(held[p])
  /\ size' = size - 1
  /\ held' = [held EXCEPT ![p] = NoConn]
  /\ Goto(p, "out")
  /\ UNCHANGED <<idle, todo, leaked>>

put(p) ==
  /\ pc[p] \in {"put", "put_last"}
  /\ idle' = Append(idle, held[p])
  /\ IF pc[p] = "put"
     THEN Goto(p, "clear") /\ UNCHANGED held
     ELSE Goto(p, "out") /\ held' = [held EXCEPT ![p] = NoConn]
  /\ UNCHANGED <<size, net, todo, leaked>>

(* SetDeadline(time.Time{}): deferred, so after put; in Dequeue before it. *)
clearDeadline(p) ==
  /\ pc[p] \in {"clear", "clear_put"}
  /\ deadline' = deadline \ {held[p]}
  /\ IF pc[p] = "clear"
     THEN Goto(p, "out") /\ held' = [held EXCEPT ![p] = NoConn]
     ELSE Goto(p, "put_last") /\ UNCHANGED held
  /\ UNCHANGED <<idle, size, open, expired, unread, todo, leaked>>

(* Time passes. *)
expire(c) ==
  /\ c \in open \ expired
  /\ expired' = expired \cup {c}
  /\ UNCHANGED <<idle, size, open, deadline, unread, pc, held, todo, leaked>>

Next ==
  \/ \E p \in Callers :
       \/ get(p) \/ CheckIdle(p) \/ Relock(p) \/ dial(p) \/ dialFails(p)
       \/ SetDeadline(p) \/ write(p) \/ read(p) \/ ioFails(p) \/ discard(p)
       \/ put(p) \/ clearDeadline(p)
  \/ \E c \in Conns : expire(c)

Spec == Init /\ [][Next]_vars
-----------------------------------------------------------------------------
Labels == {"out", "check", "closed", "dial", "begin", "write", "read", "discard",
           "put", "clear", "clear_put", "put_last"}

(* The shapes of the pool, of the connections and of the callers' state. *)
TypeInvariant ==
  /\ idle \in Seq(Conns) /\ size \in Int /\ leaked \in 0..MaxDialFailures
  /\ open \subseteq Conns /\ expired \subseteq Conns /\ deadline \subseteq Conns
  /\ unread \in [Conns -> Int]
  /\ pc \in [Callers -> Labels]
  /\ held \in [Callers -> Conns \cup {NoConn}]
  /\ todo \in [Callers -> Seq({"integer", "lease", "array", "bulk", "pong"})]

(* A caller's connection is its own from get to put or discard. *)
Using == {"check", "begin", "write", "read", "discard", "put", "clear_put", "put_last"}
Slots == {p \in Callers : pc[p] \in Using \cup {"closed", "dial"}}

(* pool.size counts exactly the idle connections, the ones callers use or are
   about to dial, and one for every dial that failed; so the pool never has
   more than MaxSize connections, and a get is refused only when that many are
   in use or were leaked (get, put, discard, dial). *)
SizeAccounted ==
  /\ size = Len(idle) + Cardinality(Slots) + leaked
  /\ size <= MaxSize

(* A connection is used by one caller at a time: it is in the pool or with one
   caller, never both, and both only while it is open (get, put, discard). *)
ConnectionIsExclusive ==
  LET users == {p \in Callers : pc[p] \in Using} IN
  /\ IsInjective(idle)
  /\ \A p, q \in users : held[p] = held[q] => p = q
  /\ \A p \in users : held[p] \in open \ ToSet(idle)
  /\ ToSet(idle) \subseteq open

(* A reply is read by the caller that sent the command: no connection goes back
   to the pool, and no command is written, with a reply outstanding, whatever
   errors, nil replies and timeouts an operation meets. *)
RepliesMatchCommands ==
  /\ \A c \in ToSet(idle) : unread[c] = 0
  /\ \A p \in Callers : /\ pc[p] \in {"begin", "write"} => unread[held[p]] = 0
                        /\ pc[p] = "read" => unread[held[p]] = 1

(* Every command runs under the deadline its caller set (client.go:106: "callers
   set their own per-operation deadline"). *)
CommandsHaveDeadline ==
  \A p \in Callers : pc[p] \in {"write", "read"} => held[p] \in deadline
=============================================================================
