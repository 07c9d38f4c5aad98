------------------------------ MODULE PoolProof ------------------------------
(***************************************************************************)
(* The connection pool keeps its books, gives each connection to one       *)
(* caller and each reply to the caller whose command it answers, for any   *)
(* number of callers and connections, any pool size and any failures.      *)
(***************************************************************************)
EXTENDS Pool, ListLemmas, FiniteSetTheorems

(* The prover of the leaves that do not name another. *)
USE Zenon

Wants == {"integer", "lease", "array", "bulk", "pong"}
Commanding == {"write", "read"}
(* Labels of a caller whose connection owes no reply. *)
Quiet == {"check", "begin", "write", "put", "clear_put", "put_last"}
Taken == Using \cup {"closed", "dial"}

(* What each label presumes: a connection to refer to, a reply to expect. *)
LocalInv ==
  \A p \in Callers :
    /\ pc[p] \in Using \cup {"closed", "clear"} => held[p] \in Conns
    /\ pc[p] \in Commanding => todo[p] # <<>>

(* RepliesMatchCommands holds at every label, and a connection that is closed
   starts without a debt when it is dialled again. *)
ReplyInv ==
  /\ \A c \in ToSet(idle) : unread[c] = 0
  /\ \A c \in Conns \ open : unread[c] = 0
  /\ \A p \in Callers : /\ pc[p] \in Quiet => unread[held[p]] = 0
                        /\ pc[p] = "read" => unread[held[p]] = 1

IInv ==
  TypeInvariant /\ LocalInv /\ ConnectionIsExclusive /\ ReplyInv /\ SizeAccounted
-----------------------------------------------------------------------------
(* The operations' sequences of replies have at least one. *)
LEMMA OperationsType == \A op \in Operations : op \in Seq(Wants) /\ op # <<>>
<1>1. /\ integerReply \in Seq(Wants) /\ integerReply # <<>>
      /\ readList \in Seq(Wants) /\ readList # <<>>
      /\ Check \in Seq(Wants) /\ Check # <<>>
  BY SMT DEF integerReply, readList, Check, Wants
<1>2. Dequeue \in Seq(Wants) /\ Dequeue # <<>>
  BY SMT DEF Dequeue, Wants
<1>3. \A op \in Moves : op \in Seq(Wants) /\ op # <<>>
  <2>1. /\ <<"array">> \in Seq(Wants) /\ <<"array", "integer">> \in Seq(Wants)
        /\ <<"array", "integer", "integer">> \in Seq(Wants)
    BY SMT DEF Wants
  <2>2. /\ <<"array">> # <<>> /\ <<"array", "integer">> # <<>>
        /\ <<"array", "integer", "integer">> # <<>>
    OBVIOUS
  <2> QED BY <2>1, <2>2 DEF Moves
<1> QED BY <1>1, <1>2, <1>3 DEF Operations

(* get's critical section keeps the types, and hands out a connection of the
   pool or none. *)
LEMMA LockedType ==
  ASSUME TypeInvariant, NEW p \in Callers, NEW s \in Int, Locked(p, s)
  PROVE  /\ idle' \in Seq(Conns) /\ size' \in Int
         /\ pc' \in [Callers -> Labels] /\ held' \in [Callers -> Conns \cup {NoConn}]
         /\ pc'[p] \in {"check", "dial", "out"}
         /\ pc'[p] = "check" => held'[p] \in Conns
<1>1. CASE idle # <<>>
  <2>1. Last(idle) \in Conns /\ Front(idle) \in Seq(Conns)
    BY <1>1, FrontLast DEF TypeInvariant
  <2> QED BY <1>1, <2>1 DEF TypeInvariant, Locked, Goto, Labels
<1>2. CASE idle = <<>>
  <2>1. PICK l \in {"dial", "out"} : pc' = [pc EXCEPT ![p] = l]
    BY <1>2 DEF Locked, Goto
  <2>2. idle' = idle /\ held' = [held EXCEPT ![p] = NoConn]
    BY <1>2 DEF Locked
  <2>3. size' \in {s, s + 1}
    BY <1>2 DEF Locked
  <2> QED BY <2>1, <2>2, <2>3, SMT DEF TypeInvariant, Labels
<1> QED BY <1>1, <1>2

(* Every step keeps the types and what each label presumes. *)
LEMMA TypeStep ==
  ASSUME TypeInvariant, LocalInv, [Next]_vars
  PROVE  TypeInvariant' /\ LocalInv'
<1> USE DEF TypeInvariant, LocalInv
<1>1. ASSUME NEW p \in Callers, get(p) \/ Relock(p) PROVE TypeInvariant' /\ LocalInv'
  <2>1. /\ \E s \in {size, size - 1} : s \in Int /\ Locked(p, s)
        /\ UNCHANGED <<net, todo, leaked>>
    BY <1>1, SMT DEF get, Relock
  <2>2. /\ idle' \in Seq(Conns) /\ size' \in Int
        /\ pc' \in [Callers -> Labels] /\ held' \in [Callers -> Conns \cup {NoConn}]
        /\ pc'[p] \in {"check", "dial", "out"}
        /\ pc'[p] = "check" => held'[p] \in Conns
    BY <2>1, LockedType
  <2>3. \A q \in Callers \ {p} : pc'[q] = pc[q] /\ held'[q] = held[q]
    BY <2>1 DEF Locked, Goto
  <2> QED BY <2>1, <2>2, <2>3 DEF net, Using, Commanding
<1>2. ASSUME NEW p \in Callers, CheckIdle(p) PROVE TypeInvariant' /\ LocalInv'
  <2>1. CASE held[p] \notin expired
    BY <1>2, <2>1 DEF CheckIdle, Goto, net, Using, Commanding, Labels
  <2>2. CASE held[p] \in expired
    <3>1. open' \subseteq Conns /\ expired' \subseteq Conns /\ deadline' \subseteq Conns
      BY <1>2, <2>2 DEF CheckIdle, Close
    <3>2. unread' \in [Conns -> Int]
      BY <1>2, <2>2, SMT DEF CheckIdle, Close
    <3>3. pc' = [pc EXCEPT ![p] = "closed"] /\ UNCHANGED <<idle, size, held, todo, leaked>>
      BY <1>2, <2>2 DEF CheckIdle, Goto
    <3>4. held[p] \in Conns
      BY <1>2 DEF CheckIdle, Using
    <3> QED BY <3>1, <3>2, <3>3, <3>4 DEF Using, Commanding, Labels
  <2> QED BY <2>1, <2>2
<1>3. ASSUME NEW p \in Callers, dial(p) PROVE TypeInvariant' /\ LocalInv'
  BY <1>3 DEF dial, Goto, Using, Commanding, Labels
<1>3a. ASSUME NEW p \in Callers, dialFails(p) PROVE TypeInvariant' /\ LocalInv'
  BY <1>3a, PoolAssumption, SMT DEF dialFails, Goto, net, Using, Commanding, Labels
<1>4. ASSUME NEW p \in Callers, SetDeadline(p) PROVE TypeInvariant' /\ LocalInv'
  BY <1>4, OperationsType DEF SetDeadline, Goto, Using, Commanding, Labels, Wants
<1>5. ASSUME NEW p \in Callers, write(p) PROVE TypeInvariant' /\ LocalInv'
  BY <1>5, SMT DEF write, Goto, Using, Commanding, Labels
<1>6. ASSUME NEW p \in Callers, read(p) PROVE TypeInvariant' /\ LocalInv'
  <2>1. todo[p] \in Seq(Wants) /\ todo[p] # <<>>
    BY <1>6 DEF read, Commanding, Wants
  <2>2. Tail(todo[p]) \in Seq(Wants)
    BY <2>1, HeadTailProperties
  <2>3. PICK rest \in {Tail(todo[p]), <<>>}, l \in {"discard", "write", "clear_put", "put"} :
          /\ todo' = [todo EXCEPT ![p] = rest] /\ Goto(p, l)
          /\ l = "write" => rest # <<>>
    BY <1>6 DEF read, Goto
  <2> QED BY <1>6, <2>2, <2>3, SMT DEF read, Goto, Using, Commanding, Labels, Wants
<1>7. ASSUME NEW p \in Callers, ioFails(p) PROVE TypeInvariant' /\ LocalInv'
  BY <1>7, SMT DEF ioFails, Goto, net, Using, Commanding, Labels
<1>7a. ASSUME NEW p \in Callers, discard(p) PROVE TypeInvariant' /\ LocalInv'
  BY <1>7a, SMT DEF discard, Close, Goto, Using, Commanding, Labels
<1>8. ASSUME NEW p \in Callers, put(p) PROVE TypeInvariant' /\ LocalInv'
  <2>1. held[p] \in Conns
    BY <1>8 DEF put, Using
  <2>2. idle' \in Seq(Conns)
    BY <1>8, <2>1, AppendToSet DEF put
  <2> QED BY <1>8, <2>2 DEF put, Goto, net, Using, Commanding, Labels
<1>8a. ASSUME NEW p \in Callers, clearDeadline(p) PROVE TypeInvariant' /\ LocalInv'
  BY <1>8a DEF clearDeadline, Goto, Using, Commanding, Labels
<1>9. ASSUME NEW c \in Conns, expire(c) PROVE TypeInvariant' /\ LocalInv'
  BY <1>9 DEF expire
<1>10. CASE UNCHANGED vars
  BY <1>10 DEF vars
<1> QED BY <1>1, <1>2, <1>3, <1>3a, <1>4, <1>5, <1>6, <1>7, <1>7a, <1>8, <1>8a, <1>9, <1>10 DEF Next
-----------------------------------------------------------------------------
(* What get's critical section does to the pool and to the caller. *)
LEMMA LockedStep ==
  ASSUME TypeInvariant, NEW p \in Callers, NEW s \in Int, Locked(p, s),
         IsInjective(idle)
  PROVE  /\ \A q \in Callers \ {p} : pc'[q] = pc[q] /\ held'[q] = held[q]
         /\ IsInjective(idle') /\ ToSet(idle') \subseteq ToSet(idle)
         /\ pc'[p] = "check" => held'[p] \in ToSet(idle) \ ToSet(idle')
         /\ pc'[p] \in {"check", "dial", "out"}
<1>1. CASE idle # <<>>
  <2>1. /\ ToSet(idle) = ToSet(Front(idle)) \cup {Last(idle)}
        /\ IsInjective(Front(idle)) /\ Last(idle) \notin ToSet(Front(idle))
    BY <1>1, FrontLast DEF TypeInvariant
  <2>2. /\ idle' = Front(idle) /\ held' = [held EXCEPT ![p] = Last(idle)]
        /\ pc' = [pc EXCEPT ![p] = "check"]
    BY <1>1 DEF Locked, Goto
  <2> QED BY <2>1, <2>2 DEF TypeInvariant
<1>2. CASE idle = <<>>
  <2>1. /\ idle' = idle /\ held' = [held EXCEPT ![p] = NoConn]
        /\ \E l \in {"dial", "out"} : pc' = [pc EXCEPT ![p] = l]
    BY <1>2 DEF Locked, Goto
  <2> QED BY <2>1 DEF TypeInvariant
<1> QED BY <1>1, <1>2

(* It is enough to look at the caller p that moves, when connections only leave
   the pool: it keeps its connection, takes one of those, or has none. *)
LEMMA ExclusiveOfOne ==
  ASSUME ConnectionIsExclusive, NEW p \in Callers, open' = open,
         IsInjective(idle'), ToSet(idle') \subseteq ToSet(idle),
         \A q \in Callers \ {p} : pc'[q] = pc[q] /\ held'[q] = held[q],
         pc'[p] \in Using => \/ pc[p] \in Using /\ held'[p] = held[p]
                            \/ held'[p] \in ToSet(idle) \ ToSet(idle')
  PROVE  ConnectionIsExclusive'
<1>1. /\ ToSet(idle) \subseteq open
      /\ \A q, r \in Callers :
           pc[q] \in Using /\ pc[r] \in Using /\ held[q] = held[r] => q = r
      /\ \A q \in Callers : pc[q] \in Using => held[q] \in open /\ held[q] \notin ToSet(idle)
  BY DEF ConnectionIsExclusive
<1>2. ASSUME NEW q \in Callers, pc'[q] \in Using PROVE held'[q] \in open \ ToSet(idle')
  BY <1>1, <1>2
<1>3. ASSUME NEW q \in Callers \ {p}, pc'[q] \in Using, pc'[p] \in Using PROVE held'[q] # held'[p]
  BY <1>1, <1>3
<1>4. ASSUME NEW q \in Callers, NEW r \in Callers,
             pc'[q] \in Using, pc'[r] \in Using, held'[q] = held'[r]
      PROVE  q = r
  BY <1>1, <1>3, <1>4
<1> QED BY <1>1, <1>2, <1>4 DEF ConnectionIsExclusive

(* Every step leaves each connection with one user, and open. *)
LEMMA ExclusiveStep ==
  ASSUME TypeInvariant, LocalInv, ConnectionIsExclusive, [Next]_vars
  PROVE  ConnectionIsExclusive'
<1> DEFINE X == ConnectionIsExclusive
<1>0. /\ IsInjective(idle) /\ ToSet(idle) \subseteq open
      /\ \A p, q \in Callers :
           pc[p] \in Using /\ pc[q] \in Using /\ held[p] = held[q] => p = q
      /\ \A p \in Callers : pc[p] \in Using => held[p] \in open /\ held[p] \notin ToSet(idle)
  BY DEF ConnectionIsExclusive
<1> USE <1>0 DEF TypeInvariant, LocalInv
<1>1. ASSUME NEW p \in Callers, get(p) \/ Relock(p) PROVE X'
  <2>1. /\ \E s \in {size, size - 1} : s \in Int /\ Locked(p, s)
        /\ open' = open
    BY <1>1, SMT DEF get, Relock, net
  <2>2. /\ \A q \in Callers \ {p} : pc'[q] = pc[q] /\ held'[q] = held[q]
        /\ IsInjective(idle') /\ ToSet(idle') \subseteq ToSet(idle)
        /\ pc'[p] = "check" => held'[p] \in ToSet(idle) \ ToSet(idle')
        /\ pc'[p] \in {"check", "dial", "out"}
    BY <2>1, LockedStep
  <2>3. pc'[p] \in Using => pc'[p] = "check"
    BY <2>2 DEF Using
  <2> QED BY <2>1, <2>2, <2>3, ExclusiveOfOne
<1>2. ASSUME NEW p \in Callers, CheckIdle(p) PROVE X'
  <2>1. CASE held[p] \notin expired
    BY <1>2, <2>1, SMT DEF CheckIdle, Goto, net, Using, ConnectionIsExclusive
  <2>2. CASE held[p] \in expired
    <3>1. pc[p] \in Using /\ held[p] \in open /\ held[p] \notin ToSet(idle)
      BY <1>2 DEF CheckIdle, Using
    <3>2. /\ UNCHANGED <<idle, held>> /\ open' = open \ {held[p]} /\ pc'[p] \notin Using
          /\ \A q \in Callers \ {p} : pc'[q] = pc[q]
      BY <1>2, <2>2 DEF CheckIdle, Goto, Close, Using
    <3> QED BY <3>1, <3>2 DEF ConnectionIsExclusive
  <2> QED BY <2>1, <2>2
<1>3. ASSUME NEW p \in Callers, dial(p) PROVE X'
  BY <1>3, SMT DEF dial, Goto, Using, ConnectionIsExclusive
<1>4. ASSUME NEW p \in Callers, dialFails(p) \/ SetDeadline(p) \/ write(p) \/ ioFails(p) PROVE X'
  <2>1. /\ UNCHANGED <<idle, open, held>>
        /\ pc'[p] \in Using => pc[p] \in Using
        /\ \A q \in Callers \ {p} : pc'[q] = pc[q]
    BY <1>4 DEF dialFails, SetDeadline, write, ioFails, net, Goto, Using
  <2> QED BY <2>1 DEF ConnectionIsExclusive
<1>5. ASSUME NEW p \in Callers, read(p) PROVE X'
  <2>1. PICK l \in {"discard", "write", "clear_put", "put"} : Goto(p, l)
    BY <1>5 DEF read, Goto
  <2> QED BY <1>5, <2>1, SMT DEF read, Goto, Using, ConnectionIsExclusive
<1>6. ASSUME NEW p \in Callers, discard(p) PROVE X'
  BY <1>6, SMT DEF discard, Close, Goto, Using, ConnectionIsExclusive
<1>7. ASSUME NEW p \in Callers, put(p) PROVE X'
  <2>1. held[p] \in open /\ held[p] \notin ToSet(idle) /\ held[p] \in Conns
    BY <1>7 DEF put, Using
  <2>2. IsInjective(idle') /\ ToSet(idle') = ToSet(idle) \cup {held[p]}
    BY <1>7, <2>1, AppendToSet, SMT DEF put
  <2>3. /\ open' = open /\ pc'[p] \notin Using
        /\ \A q \in Callers \ {p} : pc'[q] = pc[q] /\ held'[q] = held[q]
    BY <1>7 DEF put, Goto, net, Using
  <2>4. \A q \in Callers \ {p} : pc[q] \in Using => held[q] # held[p]
    BY <1>7 DEF put, Using
  <2> QED BY <2>1, <2>2, <2>3, <2>4 DEF ConnectionIsExclusive
<1>8. ASSUME NEW p \in Callers, clearDeadline(p) PROVE X'
  <2>1. /\ UNCHANGED <<idle, open>>
        /\ pc'[p] \in Using => pc[p] \in Using /\ held'[p] = held[p]
        /\ \A q \in Callers \ {p} : pc'[q] = pc[q] /\ held'[q] = held[q]
    BY <1>8 DEF clearDeadline, Goto, Using
  <2> QED BY <2>1, ExclusiveOfOne
<1>9. ASSUME NEW c \in Conns, expire(c) PROVE X'
  BY <1>9 DEF expire, ConnectionIsExclusive
<1>10. CASE UNCHANGED vars
  BY <1>10 DEF vars, ConnectionIsExclusive
<1> QED BY <1>1, <1>2, <1>3, <1>4, <1>5, <1>6, <1>7, <1>8, <1>9, <1>10 DEF Next, ConnectionIsExclusive
-----------------------------------------------------------------------------
(* It is enough to look at the pool, at the closed connections and at the
   caller p that moves, when the other callers' connections owe what they did. *)
LEMMA ReplyOfOne ==
  ASSUME ReplyInv, NEW p \in Callers,
         \A c \in ToSet(idle') : unread'[c] = 0,
         \A c \in Conns \ open' : unread'[c] = 0,
         pc'[p] \in Quiet => unread'[held'[p]] = 0,
         pc'[p] = "read" => unread'[held'[p]] = 1,
         \A q \in Callers \ {p} :
           /\ pc'[q] = pc[q] /\ held'[q] = held[q]
           /\ pc[q] \in Using => unread'[held[q]] = unread[held[q]]
  PROVE  ReplyInv'
<1>1. ASSUME NEW q \in Callers \ {p}
      PROVE  /\ pc'[q] \in Quiet => unread'[held'[q]] = 0
             /\ pc'[q] = "read" => unread'[held'[q]] = 1
  BY <1>1, SMT DEF ReplyInv, Quiet, Using
<1> QED BY <1>1 DEF ReplyInv

(* Every step leaves no reply behind for the wrong caller. *)
LEMMA ReplyStep ==
  ASSUME TypeInvariant, LocalInv, ConnectionIsExclusive, ReplyInv, [Next]_vars
  PROVE  ReplyInv'
<1>0. /\ IsInjective(idle) /\ ToSet(idle) \subseteq open
      /\ \A p, q \in Callers :
           pc[p] \in Using /\ pc[q] \in Using /\ held[p] = held[q] => p = q
      /\ \A p \in Callers : pc[p] \in Using => held[p] \in open /\ held[p] \notin ToSet(idle)
  BY DEF ConnectionIsExclusive
<1>a. Quiet \subseteq Using /\ "read" \in Using /\ "read" \notin Quiet
  BY DEF Quiet, Using
<1> USE <1>0 DEF TypeInvariant, LocalInv
<1>1. ASSUME NEW p \in Callers, get(p) \/ Relock(p) PROVE ReplyInv'
  <2>1. /\ \E s \in {size, size - 1} : s \in Int /\ Locked(p, s)
        /\ open' = open /\ unread' = unread
    BY <1>1, SMT DEF get, Relock, net
  <2>2. /\ \A q \in Callers \ {p} : pc'[q] = pc[q] /\ held'[q] = held[q]
        /\ IsInjective(idle') /\ ToSet(idle') \subseteq ToSet(idle)
        /\ pc'[p] = "check" => held'[p] \in ToSet(idle) \ ToSet(idle')
        /\ pc'[p] \in {"check", "dial", "out"}
    BY <2>1, LockedStep
  <2>3. \A c \in ToSet(idle) : unread'[c] = 0
    BY <2>1 DEF ReplyInv
  <2>4. \A c \in Conns \ open' : unread'[c] = 0
    BY <2>1 DEF ReplyInv
  <2>5. (pc'[p] \in Quiet => unread'[held'[p]] = 0) /\ pc'[p] # "read"
    BY <2>2, <2>3 DEF Quiet
  <2> QED BY <2>1, <2>2, <2>3, <2>4, <2>5, ReplyOfOne
<1>2. ASSUME NEW p \in Callers, CheckIdle(p) PROVE ReplyInv'
  <2>1. CASE held[p] \notin expired
    BY <1>2, <2>1, SMT DEF CheckIdle, Goto, net, Quiet, ReplyInv
  <2>2. CASE held[p] \in expired
    <3>1. pc[p] \in Using /\ held[p] \in Conns
      BY <1>2 DEF CheckIdle, Using
    <3>2. /\ UNCHANGED <<idle, held>> /\ open' = open \ {held[p]}
          /\ unread' = [unread EXCEPT ![held[p]] = 0]
          /\ pc'[p] = "closed"
          /\ \A q \in Callers \ {p} : pc'[q] = pc[q]
      BY <1>2, <2>2 DEF CheckIdle, Goto, Close
    <3> QED BY <3>1, <3>2, <1>a, SMT DEF ReplyInv, Quiet
  <2> QED BY <2>1, <2>2
<1>3. ASSUME NEW p \in Callers, dial(p) PROVE ReplyInv'
  BY <1>3 DEF dial, Goto, Quiet, ReplyInv
<1>4. ASSUME NEW p \in Callers, dialFails(p) \/ SetDeadline(p) \/ ioFails(p) PROVE ReplyInv'
  <2>1. /\ UNCHANGED <<idle, open, held, unread>>
        /\ pc'[p] \in Quiet => pc[p] \in Quiet
        /\ pc'[p] # "read"
        /\ \A q \in Callers \ {p} : pc'[q] = pc[q]
    BY <1>4 DEF dialFails, SetDeadline, ioFails, net, Goto, Quiet
  <2> QED BY <2>1 DEF ReplyInv
<1>5. ASSUME NEW p \in Callers, write(p) PROVE ReplyInv'
  <2>1. /\ UNCHANGED <<idle, open, held>>
        /\ pc[p] \in Quiet /\ pc'[p] = "read" /\ held[p] \in Conns
        /\ unread' = [unread EXCEPT ![held[p]] = unread[held[p]] + 1]
        /\ \A q \in Callers \ {p} : pc'[q] = pc[q]
    BY <1>5 DEF write, Goto, Quiet, Using
  <2> QED BY <2>1, <1>a, SMT DEF ReplyInv
<1>6. ASSUME NEW p \in Callers, read(p) PROVE ReplyInv'
  <2>1. PICK l \in {"discard", "write", "clear_put", "put"} : Goto(p, l)
    BY <1>6 DEF read, Goto
  <2>2. /\ UNCHANGED <<idle, open, held>>
        /\ pc[p] = "read" /\ pc'[p] # "read" /\ held[p] \in Conns
        /\ unread' = [unread EXCEPT ![held[p]] = unread[held[p]] - 1]
        /\ \A q \in Callers \ {p} : pc'[q] = pc[q]
    BY <1>6, <2>1 DEF read, Goto, Using
  <2> QED BY <2>2, <1>a, SMT DEF ReplyInv
<1>7. ASSUME NEW p \in Callers, discard(p) PROVE ReplyInv'
  <2>1. pc[p] \in Using /\ held[p] \in Conns
    BY <1>7 DEF discard, Using
  <2>2. /\ UNCHANGED idle /\ open' = open \ {held[p]}
        /\ unread' = [unread EXCEPT ![held[p]] = 0]
        /\ pc'[p] = "out"
        /\ \A q \in Callers \ {p} : pc'[q] = pc[q] /\ held'[q] = held[q]
    BY <1>7 DEF discard, Goto, Close
  <2>3. \A c \in ToSet(idle') : unread'[c] = 0
    BY <2>1, <2>2 DEF ReplyInv
  <2>4. \A c \in Conns \ open' : unread'[c] = 0
    BY <2>1, <2>2 DEF ReplyInv
  <2>5. \A q \in Callers \ {p} : pc[q] \in Using => unread'[held[q]] = unread[held[q]]
    BY <2>1, <2>2
  <2>6. pc'[p] \notin Quiet /\ pc'[p] # "read"
    BY <2>2 DEF Quiet
  <2> QED BY <2>2, <2>3, <2>4, <2>5, <2>6, ReplyOfOne
<1>8. ASSUME NEW p \in Callers, put(p) PROVE ReplyInv'
  <2>1. pc[p] \in Quiet /\ held[p] \in Conns
    BY <1>8 DEF put, Quiet, Using
  <2>2. ToSet(idle') = ToSet(idle) \cup {held[p]}
    BY <1>8, <2>1, AppendToSet, SMT DEF put
  <2>3. /\ UNCHANGED <<open, unread>> /\ pc'[p] \in {"clear", "out"}
        /\ \A q \in Callers \ {p} : pc'[q] = pc[q] /\ held'[q] = held[q]
    BY <1>8 DEF put, Goto, net
  <2>4. unread[held[p]] = 0
    BY <2>1 DEF ReplyInv
  <2>5. \A c \in ToSet(idle') : unread'[c] = 0
    BY <2>2, <2>3, <2>4 DEF ReplyInv
  <2>6. \A c \in Conns \ open' : unread'[c] = 0
    BY <2>3 DEF ReplyInv
  <2>7. pc'[p] \notin Quiet /\ pc'[p] # "read"
    BY <2>3 DEF Quiet
  <2> QED BY <2>3, <2>5, <2>6, <2>7, ReplyOfOne
<1>9. ASSUME NEW p \in Callers, clearDeadline(p) PROVE ReplyInv'
  <2>1. /\ UNCHANGED <<idle, open, unread>> /\ pc'[p] # "read"
        /\ pc'[p] \in Quiet => pc[p] \in Quiet /\ held'[p] = held[p]
        /\ \A q \in Callers \ {p} : pc'[q] = pc[q] /\ held'[q] = held[q]
    BY <1>9 DEF clearDeadline, Goto, Quiet
  <2>2. /\ \A c \in ToSet(idle') : unread'[c] = 0
        /\ \A c \in Conns \ open' : unread'[c] = 0
    BY <2>1 DEF ReplyInv
  <2>3. pc'[p] \in Quiet => unread'[held'[p]] = 0
    BY <2>1 DEF ReplyInv
  <2> QED BY <2>1, <2>2, <2>3, ReplyOfOne
<1>10. ASSUME NEW c \in Conns, expire(c) PROVE ReplyInv'
  BY <1>10 DEF expire, ReplyInv
<1>11. CASE UNCHANGED vars
  BY <1>11 DEF vars, ReplyInv
<1> QED BY <1>1, <1>2, <1>3, <1>4, <1>5, <1>6, <1>7, <1>8, <1>9, <1>10, <1>11 DEF Next
-----------------------------------------------------------------------------
(* How many callers hold a slot when one of them moves. *)
LEMMA SlotsMove ==
  ASSUME TypeInvariant, NEW p \in Callers, NEW l, pc' = [pc EXCEPT ![p] = l]
  PROVE  /\ Cardinality(Slots) \in Nat
         /\ Cardinality(Slots') = Cardinality(Slots) - (IF pc[p] \in Taken THEN 1 ELSE 0)
                                                    + (IF l \in Taken THEN 1 ELSE 0)
<1> DEFINE others == Slots \ {p}
<1>1. IsFiniteSet(Slots)
  BY PoolAssumption, FS_Subset DEF Slots
<1>2. Cardinality(Slots) \in Nat
  BY <1>1, FS_CardinalityType
<1>3. /\ IsFiniteSet(others)
      /\ Cardinality(others) = IF p \in Slots THEN Cardinality(Slots) - 1 ELSE Cardinality(Slots)
  BY <1>1, FS_RemoveElement
<1>4. (p \in Slots <=> pc[p] \in Taken)
  BY DEF Slots, Taken
<1>5. Slots' = IF l \in Taken THEN others \cup {p} ELSE others
  BY DEF TypeInvariant, Slots, Taken
<1>6. Cardinality(others \cup {p}) = Cardinality(others) + 1
  BY <1>3, FS_AddElement
<1> HIDE DEF others
<1>7. Cardinality(others) \in Nat
  BY <1>3, FS_CardinalityType
<1> QED BY <1>2, <1>3, <1>4, <1>5, <1>6, <1>7, SMT

(* get's critical section counts what it does. *)
LEMMA LockedSize ==
  ASSUME TypeInvariant, NEW p \in Callers, NEW s \in Int, Locked(p, s), leaked' = leaked,
         s = Len(idle) + (Cardinality(Slots) - (IF pc[p] \in Taken THEN 1 ELSE 0)) + leaked,
         s <= MaxSize
  PROVE  SizeAccounted'
<1>1. Len(idle) \in Nat /\ leaked \in Nat /\ MaxSize \in Nat
  BY PoolAssumption, LenProperties, SMT DEF TypeInvariant
<1> DEFINE before == Cardinality(Slots) - (IF pc[p] \in Taken THEN 1 ELSE 0)
<1>2. CASE idle # <<>>
  <2>1. Len(idle') = Len(idle) - 1 /\ size' = s /\ pc' = [pc EXCEPT ![p] = "check"]
    BY <1>2, FrontLast DEF Locked, Goto, TypeInvariant
  <2>2. Cardinality(Slots') = before + 1 /\ before \in Int
    <3>1. "check" \in Taken
      BY DEF Taken, Using
    <3>2. /\ Cardinality(Slots) \in Nat
          /\ Cardinality(Slots') = before + (IF "check" \in Taken THEN 1 ELSE 0)
      BY <2>1, SlotsMove
    <3> QED BY <3>1, <3>2, SMT
  <2> HIDE DEF before
  <2>3. s = Len(idle) + before + leaked
    BY DEF before
  <2> QED BY <1>1, <2>1, <2>2, <2>3, SMT DEF SizeAccounted
<1>3. CASE idle = <<>> /\ s >= MaxSize
  <2>1. idle' = idle /\ size' = s /\ pc' = [pc EXCEPT ![p] = "out"]
    BY <1>3 DEF Locked, Goto
  <2>2. Cardinality(Slots') = before /\ before \in Int
    <3>1. "out" \notin Taken
      BY DEF Taken, Using
    <3>2. /\ Cardinality(Slots) \in Nat
          /\ Cardinality(Slots') = before + (IF "out" \in Taken THEN 1 ELSE 0)
      BY <2>1, SlotsMove
    <3> QED BY <3>1, <3>2, SMT
  <2> HIDE DEF before
  <2>3. s = Len(idle) + before + leaked
    BY DEF before
  <2> QED BY <1>1, <2>1, <2>2, <2>3 DEF SizeAccounted
<1>4. CASE idle = <<>> /\ ~(s >= MaxSize)
  <2>1. idle' = idle /\ size' = s + 1 /\ pc' = [pc EXCEPT ![p] = "dial"]
    BY <1>4 DEF Locked, Goto
  <2>2. Cardinality(Slots') = before + 1 /\ before \in Int
    <3>1. "dial" \in Taken
      BY DEF Taken
    <3>2. /\ Cardinality(Slots) \in Nat
          /\ Cardinality(Slots') = before + (IF "dial" \in Taken THEN 1 ELSE 0)
      BY <2>1, SlotsMove
    <3> QED BY <3>1, <3>2, SMT
  <2> HIDE DEF before
  <2>3. s = Len(idle) + before + leaked
    BY DEF before
  <2> QED BY <1>1, <1>4, <2>1, <2>2, <2>3, SMT DEF SizeAccounted
<1> QED BY <1>2, <1>3, <1>4

(* A step that moves one caller changes the size by what the idle connections,
   the caller's slot and the failed dials change. *)
LEMMA SizeOfOne ==
  ASSUME TypeInvariant, SizeAccounted, NEW p \in Callers, NEW l,
         pc' = [pc EXCEPT ![p] = l], NEW di \in {0, 1}, NEW df \in {0, 1},
         Len(idle') = Len(idle) + di, leaked' = leaked + df,
         NEW ds \in {0, 1}, size' = size - ds,
         di + df = (IF pc[p] \in Taken THEN 1 ELSE 0) - (IF l \in Taken THEN 1 ELSE 0) - ds
  PROVE  SizeAccounted'
<1>1. Len(idle) \in Nat /\ leaked \in Nat /\ MaxSize \in Nat
  BY PoolAssumption, LenProperties, SMT DEF TypeInvariant
<1>2. /\ Cardinality(Slots) \in Nat
      /\ Cardinality(Slots') = Cardinality(Slots) - (IF pc[p] \in Taken THEN 1 ELSE 0)
                                                 + (IF l \in Taken THEN 1 ELSE 0)
  BY SlotsMove
<1> DEFINE n == Cardinality(Slots)
           a == IF pc[p] \in Taken THEN 1 ELSE 0
           b == IF l \in Taken THEN 1 ELSE 0
<1>3. size = Len(idle) + n + leaked /\ size <= MaxSize
  BY DEF SizeAccounted
<1>4. a \in Int /\ b \in Int
  BY SMT
<1>5. Cardinality(Slots') = n - a + b /\ di + df = a - b - ds /\ n \in Nat
  BY <1>2
<1> HIDE DEF n, a, b
<1>6. size' = Len(idle') + (n - a + b) + leaked' /\ size' <= MaxSize
  BY <1>1, <1>3, <1>4, <1>5, SMT
<1> QED BY <1>5, <1>6 DEF SizeAccounted

(* Every step keeps pool.size exact and within the limit. *)
LEMMA SizeStep ==
  ASSUME TypeInvariant, LocalInv, SizeAccounted, [Next]_vars
  PROVE  SizeAccounted'
<1> DEFINE Move(p, l, di, df, ds) ==
      /\ pc' = [pc EXCEPT ![p] = l] /\ Len(idle') = Len(idle) + di
      /\ leaked' = leaked + df /\ size' = size - ds
      /\ di + df = (IF pc[p] \in Taken THEN 1 ELSE 0) - (IF l \in Taken THEN 1 ELSE 0) - ds
<1>0. ASSUME NEW p \in Callers, NEW l, NEW di \in {0, 1}, NEW df \in {0, 1},
             NEW ds \in {0, 1}, Move(p, l, di, df, ds)
      PROVE  SizeAccounted'
  BY <1>0, SizeOfOne
<1>1. /\ Len(idle) \in Nat /\ Cardinality(Slots) \in Int /\ leaked \in Nat
      /\ size \in Int /\ MaxSize \in Nat
  <2>1. IsFiniteSet(Slots)
    BY PoolAssumption, FS_Subset DEF Slots
  <2> QED BY <2>1, PoolAssumption, LenProperties, FS_CardinalityType, SMT DEF TypeInvariant
<1>2. ASSUME NEW p \in Callers, get(p) PROVE SizeAccounted'
  <2>1. pc[p] \notin Taken
    BY <1>2 DEF get, Taken, Using
  <2>2. Locked(p, size) /\ leaked' = leaked
    BY <1>2 DEF get
  <2>3. size = Len(idle) + (Cardinality(Slots) - (IF pc[p] \in Taken THEN 1 ELSE 0)) + leaked
    BY <1>1, <2>1, SMT DEF SizeAccounted
  <2> QED BY <1>1, <2>2, <2>3, LockedSize DEF SizeAccounted
<1>3. ASSUME NEW p \in Callers, Relock(p) PROVE SizeAccounted'
  <2>1. pc[p] \in Taken
    BY <1>3 DEF Relock, Taken
  <2>2. Locked(p, size - 1) /\ leaked' = leaked
    BY <1>3 DEF Relock
  <2>3. /\ size - 1 = Len(idle) + (Cardinality(Slots) - (IF pc[p] \in Taken THEN 1 ELSE 0)) + leaked
        /\ size - 1 \in Int /\ size - 1 <= MaxSize
    BY <1>1, <2>1, SMT DEF SizeAccounted
  <2> QED BY <2>2, <2>3, LockedSize
<1> USE <1>1 DEF TypeInvariant, Taken, Using
<1>4. ASSUME NEW p \in Callers,
             CheckIdle(p) \/ dial(p) \/ SetDeadline(p) \/ write(p) \/ ioFails(p)
      PROVE SizeAccounted'
  <2>1. \E l \in {"begin", "closed", "write", "read", "discard"} : Move(p, l, 0, 0, 0)
    BY <1>4, SMT DEF CheckIdle, dial, SetDeadline, write, ioFails, net, Goto
  <2> QED BY <2>1, <1>0
<1>5. ASSUME NEW p \in Callers, read(p) PROVE SizeAccounted'
  <2>1. PICK l \in {"discard", "write", "clear_put", "put"} : Goto(p, l)
    BY <1>5 DEF read, Goto
  <2>2. /\ leaked' = leaked /\ size' = size /\ idle' = idle
        /\ pc[p] \in Taken /\ l \in Taken
    BY <1>5, <2>1 DEF read
  <2>3. Move(p, l, 0, 0, 0)
    BY <2>1, <2>2, SMT DEF Goto
  <2> QED BY <2>3, <1>0
<1>6. ASSUME NEW p \in Callers, dialFails(p) PROVE SizeAccounted'
  <2>1. Move(p, "out", 0, 1, 0)
    BY <1>6, SMT DEF dialFails, Goto
  <2> QED BY <2>1, <1>0
<1>7. ASSUME NEW p \in Callers, discard(p) PROVE SizeAccounted'
  <2>1. Move(p, "out", 0, 0, 1)
    BY <1>7, SMT DEF discard, Goto
  <2> QED BY <2>1, <1>0
<1>8. ASSUME NEW p \in Callers, put(p) PROVE SizeAccounted'
  <2>1. held[p] \in Conns
    BY <1>8 DEF put, LocalInv
  <2>2. Len(idle') = Len(idle) + 1
    BY <1>8, <2>1, AppendProperties, SMT DEF put
  <2>3. PICK l \in {"out", "clear"} : pc' = [pc EXCEPT ![p] = l]
    BY <1>8 DEF put, Goto
  <2>4. /\ leaked' = leaked /\ size' = size
        /\ pc[p] \in Taken /\ l \notin Taken
    BY <1>8, <2>3 DEF put
  <2>5. Move(p, l, 1, 0, 0)
    BY <2>2, <2>3, <2>4, SMT
  <2> QED BY <2>5, <1>0
<1>9. ASSUME NEW p \in Callers, clearDeadline(p) PROVE SizeAccounted'
  <2>1. \E l \in {"out", "put_last"} : Move(p, l, 0, 0, 0)
    BY <1>9, SMT DEF clearDeadline, Goto
  <2> QED BY <2>1, <1>0
<1>10. ASSUME UNCHANGED <<idle, size, pc, leaked>> PROVE SizeAccounted'
  BY <1>10 DEF SizeAccounted, Slots
<1>11. ASSUME NEW c \in Conns, expire(c) PROVE SizeAccounted'
  BY <1>10, <1>11 DEF expire
<1>12. CASE UNCHANGED vars
  BY <1>10, <1>12 DEF vars
<1> QED BY <1>2, <1>3, <1>4, <1>5, <1>6, <1>7, <1>8, <1>9, <1>11, <1>12 DEF Next
-----------------------------------------------------------------------------
(* The pool starts empty. *)
LEMMA InitHolds ==
  ASSUME Init PROVE IInv
<1>1. TypeInvariant /\ LocalInv
  BY PoolAssumption, EmptySeq, SMT DEF Init, TypeInvariant, LocalInv, Labels, Using, Commanding
<1>2. ToSet(idle) = {} /\ IsInjective(idle) /\ Len(idle) = 0
  BY SMT DEF Init, ToSet, IsInjective
<1>3. \A p \in Callers : pc[p] \notin Using
  BY DEF Init, Using
<1>4. ConnectionIsExclusive
  BY <1>2, <1>3 DEF ConnectionIsExclusive
<1>5. ReplyInv
  BY <1>2 DEF Init, ReplyInv, Quiet
<1>6. Slots = {}
  BY DEF Init, Slots, Using
<1>7. SizeAccounted
  BY <1>2, <1>6, FS_EmptySet, PoolAssumption, SMT DEF Init, SizeAccounted
<1> QED BY <1>1, <1>4, <1>5, <1>7 DEF IInv

(* The inductive invariant of the pool. *)
THEOREM Inductive == Spec => []IInv
<1>1. Init => IInv
  BY InitHolds
<1>2. IInv /\ [Next]_vars => IInv'
  BY TypeStep, ExclusiveStep, ReplyStep, SizeStep DEF IInv
<1> QED BY <1>1, <1>2, PTL DEF Spec

(* pool.size is exact, whatever get, put, discard and dial interleave. *)
THEOREM SizeExact == Spec => []SizeAccounted
<1>1. IInv => SizeAccounted
  BY DEF IInv
<1> QED BY <1>1, Inductive, PTL

(* A connection has one user, or is in the pool, never both. *)
THEOREM OneUser == Spec => []ConnectionIsExclusive
<1>1. IInv => ConnectionIsExclusive
  BY DEF IInv
<1> QED BY <1>1, Inductive, PTL

(* No caller reads the reply to another caller's command. *)
THEOREM OwnReplies == Spec => []RepliesMatchCommands
<1>1. IInv => RepliesMatchCommands
  BY DEF IInv, ReplyInv, RepliesMatchCommands, Quiet
<1> QED BY <1>1, Inductive, PTL
=============================================================================
