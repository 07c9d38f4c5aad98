----------------------------- MODULE ListLemmas -----------------------------
(***************************************************************************)
(* What the list commands of the queue (RPUSH, LPUSH, the pop at the right *)
(* end, LREM) do to the set of a list's elements.                          *)
(***************************************************************************)
EXTENDS SequencesExt, SequenceTheorems, WellFoundedInduction, TLAPS

(* The prover of the leaves that do not name another. *)
USE Zenon

(* The elements of a list are those at its positions. *)
LEMMA InToSet ==
  ASSUME NEW S, NEW s \in Seq(S)
  PROVE  /\ ToSet(s) \subseteq S
         /\ \A x : x \in ToSet(s) <=> \E i \in 1..Len(s) : s[i] = x
  BY LenProperties, SMT DEF ToSet

(* RPUSH adds its element at the right end. *)
LEMMA AppendToSet ==
  ASSUME NEW S, NEW s \in Seq(S), NEW e \in S
  PROVE  /\ Append(s, e) \in Seq(S)
         /\ ToSet(Append(s, e)) = ToSet(s) \cup {e}
         /\ IsInjective(s) /\ e \notin ToSet(s) => IsInjective(Append(s, e))
<1> DEFINE t == Append(s, e)
<1>1. t \in Seq(S) /\ Len(t) = Len(s) + 1 /\ Len(s) \in Nat
  BY AppendProperties, LenProperties
<1>2. \A i \in 1..Len(t) : t[i] = IF i = Len(s) + 1 THEN e ELSE s[i]
  BY <1>1, AppendProperties, SMT
<1>3. \A x : x \in ToSet(t) <=> \E i \in 1..Len(t) : t[i] = x
  BY <1>1, InToSet
<1>4. \A x : x \in ToSet(s) <=> \E i \in 1..Len(s) : s[i] = x
  BY InToSet
<1>5. ToSet(t) = ToSet(s) \cup {e}
  <2>1. ASSUME NEW x \in ToSet(s) PROVE x \in ToSet(t)
    <3>1. PICK i \in 1..Len(s) : s[i] = x
      BY <2>1, <1>4
    <3>2. i \in 1..Len(t) /\ t[i] = x
      BY <3>1, <1>1, <1>2, SMT
    <3> QED BY <3>2, <1>3
  <2>2. e \in ToSet(t)
    <3>1. Len(t) \in 1..Len(t) /\ t[Len(t)] = e
      BY <1>1, <1>2, SMT
    <3> QED BY <3>1, <1>3
  <2>3. ASSUME NEW x \in ToSet(t) PROVE x \in ToSet(s) \cup {e}
    <3>1. PICK i \in 1..Len(t) : t[i] = x
      BY <2>3, <1>3
    <3>2. i # Len(s) + 1 => i \in 1..Len(s) /\ s[i] = x
      BY <3>1, <1>1, <1>2, SMT
    <3>3. i = Len(s) + 1 => x = e
      BY <3>1, <1>1, <1>2
    <3> QED BY <3>2, <3>3, <1>4
  <2> QED BY <2>1, <2>2, <2>3
<1>6. ASSUME IsInjective(s), e \notin ToSet(s) PROVE IsInjective(t)
  <2>1. DOMAIN t = 1..Len(t) /\ DOMAIN s = 1..Len(s)
    BY <1>1, LenProperties
  <2>2. \A i \in 1..Len(s) : s[i] # e
    BY <1>6, <1>4
  <2>3. \A a, b \in 1..Len(s) : s[a] = s[b] => a = b
    BY <1>6, <2>1 DEF IsInjective
  <2>4. \A a, b \in 1..Len(t) : t[a] = t[b] => a = b
    BY <1>1, <1>2, <2>2, <2>3, SMT
  <2> QED BY <2>1, <2>4 DEF IsInjective
<1> QED BY <1>1, <1>5, <1>6

(* LPUSH adds its element at the left end. *)
LEMMA ConsToSet ==
  ASSUME NEW S, NEW s \in Seq(S), NEW e \in S
  PROVE  /\ Cons(e, s) \in Seq(S)
         /\ ToSet(Cons(e, s)) = ToSet(s) \cup {e}
         /\ IsInjective(s) /\ e \notin ToSet(s) => IsInjective(Cons(e, s))
<1> DEFINE t == Cons(e, s)
<1>1. <<e>> \in Seq(S) /\ Len(<<e>>) = 1 /\ <<e>>[1] = e
  BY SMT
<1>2. /\ t \in Seq(S) /\ Len(t) = 1 + Len(s) /\ Len(s) \in Nat
      /\ \A i \in 1..(1 + Len(s)) : t[i] = IF i <= 1 THEN <<e>>[i] ELSE s[i - 1]
  BY <1>1, ConcatProperties, LenProperties DEF Cons
<1>3. \A x : x \in ToSet(t) <=> \E i \in 1..Len(t) : t[i] = x
  BY <1>2, InToSet
<1>4. \A x : x \in ToSet(s) <=> \E i \in 1..Len(s) : s[i] = x
  BY InToSet
<1>5. ASSUME NEW x \in ToSet(s) PROVE x \in ToSet(t)
  <2>1. PICK i \in 1..Len(s) : s[i] = x
    BY <1>4
  <2>2. i + 1 \in 1..Len(t) /\ t[i + 1] = x
    BY <2>1, <1>2, SMT
  <2> QED BY <2>2, <1>3
<1>6. e \in ToSet(t)
  <2>1. 1 \in 1..Len(t) /\ t[1] = e
    BY <1>1, <1>2, SMT
  <2> QED BY <2>1, <1>3
<1>7. ASSUME NEW x \in ToSet(t) PROVE x \in ToSet(s) \cup {e}
  <2>1. PICK i \in 1..Len(t) : t[i] = x
    BY <1>3
  <2>2. i = 1 => x = e
    BY <2>1, <1>1, <1>2, SMT
  <2>3. i # 1 => i - 1 \in 1..Len(s) /\ s[i - 1] = x
    BY <2>1, <1>2, SMT
  <2> QED BY <2>2, <2>3, <1>4
<1>8. ASSUME IsInjective(s), e \notin ToSet(s) PROVE IsInjective(t)
  <2>1. DOMAIN t = 1..Len(t) /\ DOMAIN s = 1..Len(s)
    BY <1>2, LenProperties
  <2>2. \A i \in 1..Len(s) : s[i] # e
    BY <1>8, <1>4
  <2>3. \A a, b \in 1..Len(s) : s[a] = s[b] => a = b
    BY <1>8, <2>1 DEF IsInjective
  <2>4. ASSUME NEW i \in 1..Len(t)
        PROVE  IF i = 1 THEN t[i] = e ELSE i - 1 \in 1..Len(s) /\ t[i] = s[i - 1]
    <3>1. i \in 1..(1 + Len(s)) /\ t[i] = IF i <= 1 THEN <<e>>[i] ELSE s[i - 1]
      BY <1>2
    <3>2. CASE i = 1
      BY <1>1, <3>1, <3>2, SMT
    <3>3. CASE i # 1
      <4>1. ~ (i <= 1) /\ i - 1 \in 1..Len(s)
        BY <1>2, <3>1, <3>3, SMT
      <4> QED BY <3>1, <3>3, <4>1
    <3> QED BY <3>2, <3>3
  <2>5. ASSUME NEW a \in 1..Len(t), NEW b \in 1..Len(t), t[a] = t[b] PROVE a = b
    <3>1. CASE a = 1 \/ b = 1
      BY <2>2, <2>4, <2>5, <3>1
    <3>2. CASE a # 1 /\ b # 1
      <4>1. a - 1 = b - 1
        BY <2>3, <2>4, <2>5, <3>2, SMT
      <4> QED BY <1>2, <4>1, SMT
    <3> QED BY <3>1, <3>2
  <2> QED BY <2>1, <2>5 DEF IsInjective
<1> QED BY <1>2, <1>5, <1>6, <1>7, <1>8

(* The pop at the right end takes the last element and leaves the others. *)
LEMMA FrontLast ==
  ASSUME NEW S, NEW s \in Seq(S), s # <<>>
  PROVE  /\ Last(s) \in S /\ Front(s) \in Seq(S) /\ Len(Front(s)) = Len(s) - 1
         /\ ToSet(s) = ToSet(Front(s)) \cup {Last(s)}
         /\ IsInjective(s) => /\ IsInjective(Front(s))
                              /\ Last(s) \notin ToSet(Front(s))
<1> DEFINE t == Front(s)
           n == Len(s)
<1>1. n \in Nat \ {0} /\ DOMAIN s = 1..n /\ \A i \in 1..n : s[i] \in S
  BY EmptySeq, LenProperties, ElementOfSeq
<1>2. /\ t \in Seq(S) /\ Len(t) = n - 1 /\ DOMAIN t = 1..(n - 1)
      /\ \A i \in 1..(n - 1) : t[i] = s[i]
  <2>1. 1 \in Int /\ n - 1 \in Int /\ \A i \in 1..(n - 1) : s[i] \in S
    BY <1>1, SMT
  <2>2. /\ SubSeq(s, 1, n - 1) \in Seq(S)
        /\ Len(SubSeq(s, 1, n - 1)) = IF 1 <= n - 1 THEN (n - 1) - 1 + 1 ELSE 0
        /\ \A i \in 1..((n - 1) - 1 + 1) : SubSeq(s, 1, n - 1)[i] = s[1 + i - 1]
    BY <2>1, SubSeqProperties, SMT
  <2>3. t = SubSeq(s, 1, n - 1)
    BY DEF Front
  <2> QED BY <1>1, <2>2, <2>3, LenProperties, SMT
<1>3. Last(s) = s[n] /\ Last(s) \in S
  BY <1>1, SMT DEF Last
<1>4. \A x : x \in ToSet(t) <=> \E i \in 1..(n - 1) : s[i] = x
  BY <1>2, InToSet, SMT
<1>5. \A x : x \in ToSet(s) <=> \E i \in 1..n : s[i] = x
  BY InToSet
<1>6. ASSUME NEW x
      PROVE (\E i \in 1..n : s[i] = x) <=> (\E i \in 1..(n - 1) : s[i] = x) \/ x = s[n]
  BY <1>1, SMT
<1>7. ToSet(s) = ToSet(t) \cup {Last(s)}
  BY <1>3, <1>4, <1>5, <1>6
<1>8. ASSUME IsInjective(s) PROVE IsInjective(t) /\ Last(s) \notin ToSet(t)
  <2>1. \A a, b \in 1..n : s[a] = s[b] => a = b
    BY <1>1, <1>8 DEF IsInjective
  <2>2. \A a, b \in 1..(n - 1) : t[a] = t[b] => a = b
    BY <1>1, <1>2, <2>1, SMT
  <2>3. \A a \in 1..(n - 1) : s[a] # s[n]
    BY <1>1, <2>1, SMT
  <2> QED BY <1>2, <1>3, <1>4, <2>2, <2>3 DEF IsInjective
<1> QED BY <1>2, <1>3, <1>7, <1>8

(* What LRANGE returns from the left end is part of the list. *)
LEMMA PrefixToSet ==
  ASSUME NEW S, NEW s \in Seq(S), NEW k \in 0..Len(s)
  PROVE  ToSet(SubSeq(s, 1, k)) \subseteq ToSet(s)
<1>1. Len(s) \in Nat /\ \A i \in 1..k : s[i] \in S
  BY LenProperties, ElementOfSeq, SMT
<1>2. k \in Nat /\ 1 \in Int /\ k \in Int
  BY <1>1, SMT
<1>3. /\ SubSeq(s, 1, k) \in Seq(S)
      /\ Len(SubSeq(s, 1, k)) = IF 1 <= k THEN k - 1 + 1 ELSE 0
      /\ \A i \in 1..(k - 1 + 1) : SubSeq(s, 1, k)[i] = s[1 + i - 1]
  BY <1>1, <1>2, SubSeqProperties, SMT
<1>4. \A i \in 1..Len(SubSeq(s, 1, k)) : i \in 1..Len(s) /\ SubSeq(s, 1, k)[i] = s[i]
  BY <1>1, <1>2, <1>3, SMT
<1>5. \A x : x \in ToSet(SubSeq(s, 1, k))
             <=> \E i \in 1..Len(SubSeq(s, 1, k)) : SubSeq(s, 1, k)[i] = x
  BY <1>3, InToSet
<1>6. \A x : x \in ToSet(s) <=> \E i \in 1..Len(s) : s[i] = x
  BY InToSet
<1> QED BY <1>4, <1>5, <1>6

(* Min is the least element of a set of positions. *)
LEMMA LeastPosition ==
  ASSUME NEW I \in SUBSET Nat, I # {}
  PROVE  Min(I) \in I /\ \A y \in I : Min(I) <= y
<1> DEFINE R == OpToRel(<, Nat)
<1>1. PICK x \in I : \A y \in I : ~ (<<y, x>> \in R)
  BY WFMin, NatLessThanWellFounded
<1>2. \A y \in I : <<y, x>> \in Nat \X Nat /\ <<y, x>>[1] = y /\ <<y, x>>[2] = x
  OBVIOUS
<1>3. \A y \in I : y < x => <<y, x>> \in R
  BY <1>2 DEF OpToRel
<1> HIDE DEF R
<1>4. \A y \in I : ~ (y < x)
  BY <1>1, <1>3
<1>5. \A y \in I : x <= y
  BY <1>4, SMT
<1> QED BY <1>1, <1>5 DEF Min

(* LREM removes at most the element it is given, and keeps all others. *)
LEMMA RemoveFirstToSet ==
  ASSUME NEW S, NEW s \in Seq(S), NEW e
  PROVE  /\ RemoveFirst(s, e) \in Seq(S)
         /\ ToSet(RemoveFirst(s, e)) \subseteq ToSet(s)
         /\ ToSet(s) \subseteq ToSet(RemoveFirst(s, e)) \cup {e}
         /\ IsInjective(s) => /\ IsInjective(RemoveFirst(s, e))
                              /\ e \notin ToSet(RemoveFirst(s, e))
<1> DEFINE I == {i \in 1..Len(s) : s[i] = e}
           k == SelectInSeq(s, LAMBDA v : v = e)
           n == Len(s)
<1>0. n \in Nat /\ \A i \in 1..n : s[i] \in S
  BY LenProperties, ElementOfSeq
<1>1. CASE I = {}
  <2>1. RemoveFirst(s, e) = s
    BY <1>1 DEF RemoveFirst
  <2>2. e \notin ToSet(s)
    BY <1>1, InToSet, SMT
  <2> QED BY <2>1, <2>2
<1>2. CASE I # {}
  <2>1. k \in 1..n /\ s[k] = e
    <3>1. k = Min(I)
      BY <1>2 DEF SelectInSeq
    <3>2. I \in SUBSET Nat
      BY <1>0, SMT
    <3> QED BY <1>2, <3>1, <3>2, LeastPosition
  <2> DEFINE t1 == SubSeq(s, 1, k - 1)
             t2 == SubSeq(s, k + 1, n)
  <2> HIDE DEF k, I
  <2>2. t1 \in Seq(S) /\ Len(t1) = k - 1 /\ \A i \in 1..(k - 1) : t1[i] = s[i]
    <3>1. 1 \in Int /\ k - 1 \in Int /\ \A i \in 1..(k - 1) : s[i] \in S
      BY <1>0, <2>1, SMT
    <3>2. /\ t1 \in Seq(S)
          /\ Len(t1) = IF 1 <= k - 1 THEN (k - 1) - 1 + 1 ELSE 0
          /\ \A i \in 1..((k - 1) - 1 + 1) : t1[i] = s[1 + i - 1]
      BY <3>1, SubSeqProperties, SMT
    <3> HIDE DEF t1
    <3> QED BY <1>0, <2>1, <3>2, SMT
  <2>3. t2 \in Seq(S) /\ Len(t2) = n - k /\ \A i \in 1..(n - k) : t2[i] = s[i + k]
    <3>1. k + 1 \in Int /\ n \in Int /\ \A i \in (k + 1)..n : s[i] \in S
      BY <1>0, <2>1, SMT
    <3>2. /\ t2 \in Seq(S)
          /\ Len(t2) = IF k + 1 <= n THEN n - (k + 1) + 1 ELSE 0
          /\ \A i \in 1..(n - (k + 1) + 1) : t2[i] = s[(k + 1) + i - 1]
      BY <3>1, SubSeqProperties, SMT
    <3> HIDE DEF t2
    <3> QED BY <1>0, <2>1, <3>2, SMT
  <2> DEFINE t == t1 \o t2
  <2>4. RemoveFirst(s, e) = t
    BY <1>0, <1>2 DEF RemoveFirst, RemoveAt, I, k
  <2> HIDE DEF t1, t2
  <2>5. /\ t \in Seq(S) /\ Len(t) = n - 1
        /\ \A i \in 1..(n - 1) : t[i] = IF i <= k - 1 THEN s[i] ELSE s[i + 1]
    <3>1. /\ t \in Seq(S) /\ Len(t) = Len(t1) + Len(t2)
          /\ \A i \in 1..(Len(t1) + Len(t2)) :
               t[i] = IF i <= Len(t1) THEN t1[i] ELSE t2[i - Len(t1)]
      <4>1. t1 \in Seq(S) /\ t2 \in Seq(S)
        BY <2>2, <2>3
      <4> QED BY <4>1, ConcatProperties
    <3> HIDE DEF t
    <3>2. Len(t1) + Len(t2) = n - 1
      BY <1>0, <2>1, <2>2, <2>3, SMT
    <3>3. ASSUME NEW i \in 1..(n - 1), i <= k - 1 PROVE t[i] = s[i]
      <4>1. t[i] = t1[i]
        BY <2>2, <3>1, <3>2, <3>3
      <4>2. i \in 1..(k - 1)
        BY <1>0, <2>1, <3>3, SMT
      <4> QED BY <4>1, <4>2, <2>2
    <3>4. ASSUME NEW i \in 1..(n - 1), ~ (i <= k - 1) PROVE t[i] = s[i + 1]
      <4>1. i - (k - 1) \in 1..(n - k) /\ (i - (k - 1)) + k = i + 1
        BY <1>0, <2>1, <3>4, SMT
      <4>2. t[i] = t2[i - (k - 1)]
        BY <2>2, <3>1, <3>2, <3>4
      <4> QED BY <4>1, <4>2, <2>3
    <3> QED BY <3>1, <3>2, <3>3, <3>4
  <2> HIDE DEF t
  <2>6. \A x : x \in ToSet(t) <=> \E i \in 1..(n - 1) : t[i] = x
    BY <2>5, InToSet
  <2>7. \A x : x \in ToSet(s) <=> \E i \in 1..n : s[i] = x
    BY InToSet
  <2>8. ASSUME NEW x \in ToSet(t) PROVE x \in ToSet(s)
    <3>1. PICK i \in 1..(n - 1) : t[i] = x
      BY <2>6, <2>8
    <3>2. \E j \in 1..n : s[j] = x
      <4>1. CASE i <= k - 1
        BY <4>1, <3>1, <2>5, <1>0, SMT
      <4>2. CASE ~ (i <= k - 1)
        <5>1. i + 1 \in 1..n /\ s[i + 1] = x
          BY <4>2, <3>1, <2>5, <1>0, SMT
        <5> QED BY <5>1
      <4> QED BY <4>1, <4>2
    <3> QED BY <3>2, <2>7
  <2>9. ASSUME NEW x \in ToSet(s), x # e PROVE x \in ToSet(t)
    <3>1. PICK j \in 1..n : s[j] = x
      BY <2>7, <2>9
    <3>2. j # k
      BY <2>1, <2>9, <3>1
    <3>3. \E i \in 1..(n - 1) : t[i] = x
      <4>1. CASE j < k
        <5>1. j \in 1..(n - 1) /\ t[j] = x
          BY <4>1, <3>1, <2>1, <2>5, <1>0, SMT
        <5> QED BY <5>1
      <4>2. CASE j > k
        <5>1. j - 1 \in 1..(n - 1) /\ t[j - 1] = x
          BY <4>2, <3>1, <2>1, <2>5, <1>0, SMT
        <5> QED BY <5>1
      <4> QED BY <3>2, <4>1, <4>2, <2>1, <1>0, SMT
    <3> QED BY <3>3, <2>6
  <2>10. ASSUME IsInjective(s) PROVE IsInjective(t) /\ e \notin ToSet(t)
    <3>1. DOMAIN s = 1..n /\ DOMAIN t = 1..(n - 1)
      BY <2>5, LenProperties
    <3>2. \A a, b \in 1..n : s[a] = s[b] => a = b
      BY <2>10, <3>1 DEF IsInjective
    <3> DEFINE from(i) == IF i <= k - 1 THEN i ELSE i + 1
    <3>3. \A i \in 1..(n - 1) : from(i) \in 1..n /\ from(i) # k /\ t[i] = s[from(i)]
      BY <1>0, <2>1, <2>5, SMT
    <3>4. \A a, b \in 1..(n - 1) : from(a) = from(b) => a = b
      BY <1>0, <2>1, SMT
    <3> HIDE DEF from
    <3>5. \A a, b \in 1..(n - 1) : t[a] = t[b] => a = b
      BY <3>2, <3>3, <3>4
    <3>6. \A i \in 1..(n - 1) : t[i] # e
      BY <2>1, <3>2, <3>3
    <3> QED BY <2>6, <3>1, <3>5, <3>6 DEF IsInjective
  <2> QED BY <2>4, <2>5, <2>8, <2>9, <2>10
<1> QED BY <1>1, <1>2
=============================================================================
