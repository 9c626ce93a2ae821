----------------------------- MODULE ListLemmas -----------------------------
(***************************************************************************)
(* Facts about sets of numbers and about sequences that the proofs of the  *)
(* other modules rest on: what Min and Max choose, and what inserting in,  *)
(* removing from and cutting a sequence does to its elements.              *)
(***************************************************************************)
EXTENDS SequencesExt, FiniteSetTheorems, SequenceTheorems, TLAPS

-----------------------------------------------------------------------------
(* Least and greatest elements.                                            *)

\* g[a] is a part of S, for each member a of S; one of these parts has none of
\* the others inside it.
Parts(S, g) == \A a \in S : g[a] \subseteq S
HasSmallest(S, g) == \E a \in S : \A b \in S : ~(g[b] \subseteq g[a] /\ g[b] # g[a])

(* Of finitely many parts of a finite set, one has no other as a proper     *)
(* part of it.                                                              *)
LEMMA SmallestPart ==
  ASSUME NEW S, IsFiniteSet(S), S # {}, NEW g, Parts(S, g)
  PROVE  HasSmallest(S, g)
<1> DEFINE C == {g[a] : a \in S}
<1>1. C \subseteq SUBSET S /\ C # {}
  BY DEF Parts
<1> HIDE DEF C
<1>2. IsWellFoundedOn(StrictSubsetOrdering(S), SUBSET S)
  BY FS_StrictSubsetOrderingWellFounded, FS_FiniteSubsetsOfFinite
<1>3. \E A \in C : \A B \in C : ~(<<B, A>> \in StrictSubsetOrdering(S))
  BY <1>1, <1>2, WFMin
<1>4. PICK A \in C : \A B \in C : ~(B \subseteq A /\ B # A)
  BY <1>1, <1>3 DEF StrictSubsetOrdering
<1>5. PICK a \in S : A = g[a]
  BY DEF C
<1>6. \A b \in S : g[b] \in C
  BY DEF C
<1> QED
  BY <1>4, <1>5, <1>6 DEF HasSmallest

(* A finite set of numbers that is not empty has a greatest member.         *)
LEMMA FiniteGreatest ==
  ASSUME NEW S \in SUBSET Int, IsFiniteSet(S), S # {}
  PROVE  \E x \in S : \A y \in S : x >= y
<1> DEFINE g == [a \in S |-> {x \in S : x >= a}]
<1>1. \A a \in S : g[a] \subseteq S
  OBVIOUS
<1>2. \A a, x \in S : x \in g[a] <=> x >= a
  OBVIOUS
<1> HIDE DEF g
<1>5. Parts(S, g)
  BY <1>1 DEF Parts
<1>6. HasSmallest(S, g)
  BY <1>5, SmallestPart
<1>3. PICK a \in S : \A b \in S : ~(g[b] \subseteq g[a] /\ g[b] # g[a])
  BY <1>6 DEF HasSmallest
<1>4. ASSUME NEW y \in S, ~(a >= y) PROVE FALSE
  <2>1. a \in Int /\ y \in Int /\ a < y
    BY <1>4
  <2>2. \A x \in S : x >= y => x >= a
    BY <2>1
  <2>3. g[y] \subseteq g[a]
    BY <1>1, <1>2, <2>2
  <2>4. a \in g[a] /\ a \notin g[y]
    BY <1>2, <2>1
  <2> QED
    BY <1>3, <2>3, <2>4
<1> QED
  BY <1>4

(* A set of natural numbers that is not empty has a least member.           *)
LEMMA LeastNat ==
  ASSUME NEW T \in SUBSET Nat, T # {}
  PROVE  \E x \in T : \A y \in T : x <= y
<1>1. PICK t \in T : TRUE
  OBVIOUS
<1> DEFINE D == {y \in T : y <= t}
<1>2. D \in SUBSET Nat /\ IsFiniteSet(D) /\ t \in D
  <2>0. t \in Nat /\ t <= t
    OBVIOUS
  <2>1. D \in SUBSET Nat /\ t \in Nat /\ t \in D /\ \A y \in D : y <= t
    BY <2>0
  <2> HIDE DEF D
  <2> QED
    BY <2>1, FS_BoundedSetOfNaturals
<1>3. \A y \in T : y \in D <=> y <= t
  OBVIOUS
<1>4. D \subseteq T
  OBVIOUS
<1> HIDE DEF D
<1> DEFINE g == [a \in D |-> {x \in D : x <= a}]
<1>5. \A a \in D : g[a] \subseteq D
  OBVIOUS
<1>6. \A a, x \in D : x \in g[a] <=> x <= a
  OBVIOUS
<1> HIDE DEF g
<1>9. HasSmallest(D, g)
  <2>1. Parts(D, g)
    BY <1>5 DEF Parts
  <2> QED
    BY <1>2, <2>1, SmallestPart
<1>7. PICK a \in D : \A b \in D : ~(g[b] \subseteq g[a] /\ g[b] # g[a])
  BY <1>9 DEF HasSmallest
<1>8. ASSUME NEW y \in T, ~(a <= y) PROVE FALSE
  <2>1. a \in Nat /\ y \in Nat /\ t \in Nat /\ y < a
    BY <1>2, <1>8
  <2>2. a <= t
    BY <1>3, <1>4
  <2>3. y \in D
    BY <1>3, <2>1, <2>2
  <2>4. \A x \in D : x <= y => x <= a
    BY <1>2, <2>1
  <2>5. g[y] \subseteq g[a]
    BY <1>5, <1>6, <2>3, <2>4
  <2>6. a \in g[a] /\ a \notin g[y]
    BY <1>6, <2>1, <2>3
  <2> QED
    BY <1>7, <2>3, <2>5, <2>6
<1> QED
  BY <1>4, <1>8

(* The values of a function on a finite set are finitely many.              *)
LEMMA FiniteImage ==
  ASSUME NEW S, IsFiniteSet(S), NEW f
  PROVE  IsFiniteSet({f[x] : x \in S})
<1> DEFINE T == {f[x] : x \in S}
<1> DEFINE g == [x \in S |-> f[x]]
<1>1. g \in Surjection(S, T)
  BY DEF Surjection
<1> HIDE DEF T, g
<1>2. IsFiniteSet(T)
  BY <1>1, FS_Surjection
<1> QED
  BY <1>2 DEF T

(* Max and Min of FiniteSetsExt are what their names say.                   *)
LEMMA MaxIsGreatest ==
  ASSUME NEW S \in SUBSET Int, IsFiniteSet(S), S # {}
  PROVE  Max(S) \in S /\ \A y \in S : Max(S) >= y
BY FiniteGreatest DEF Max

(* A set of natural numbers that is not empty has a least member, and Min is it. *)
LEMMA MinIsLeast ==
  ASSUME NEW S \in SUBSET Nat, S # {}
  PROVE  Min(S) \in S /\ \A y \in S : Min(S) <= y
BY LeastNat DEF Min

-----------------------------------------------------------------------------
(* Lists.                                                                  *)

(* InsertAt puts e at place k and moves what was there one place back.      *)
LEMMA InsertAtProperties ==
  ASSUME NEW S, NEW s \in Seq(S), NEW e \in S, NEW k \in 1..(Len(s) + 1)
  PROVE  /\ InsertAt(s, k, e) \in Seq(S)
         /\ Len(InsertAt(s, k, e)) = Len(s) + 1
         /\ \A i \in 1..(Len(s) + 1) :
              InsertAt(s, k, e)[i] = IF i < k THEN s[i]
                                     ELSE IF i = k THEN e ELSE s[i - 1]
<1> DEFINE a == SubSeq(s, 1, k - 1)
<1> DEFINE b == SubSeq(s, k, Len(s))
<1>0. Len(s) \in Nat /\ k \in Nat /\ k >= 1 /\ k <= Len(s) + 1
  OBVIOUS
<1>1. /\ a \in Seq(S) /\ Len(a) = k - 1
      /\ \A i \in 1..(k - 1) : a[i] = s[i]
  <2>1. \A i \in 1..(k - 1) : s[i] \in S
    BY <1>0
  <2> QED
    BY <1>0, <2>1, SubSeqProperties
<1>2. /\ b \in Seq(S) /\ Len(b) = Len(s) - k + 1
      /\ \A i \in 1..(Len(s) - k + 1) : b[i] = s[k + i - 1]
  <2>1. \A i \in k..Len(s) : s[i] \in S
    BY <1>0
  <2> QED
    BY <1>0, <2>1, SubSeqProperties
<1> HIDE DEF a, b
<1> DEFINE c == a \o <<e>>
<1>3. /\ c \in Seq(S) /\ Len(c) = k
      /\ \A i \in 1..k : c[i] = IF i < k THEN a[i] ELSE e
  <2>1. <<e>> \in Seq(S) /\ Len(<<e>>) = 1 /\ <<e>>[1] = e
    OBVIOUS
  <2> QED
    BY <1>0, <1>1, <2>1, ConcatProperties
<1> HIDE DEF c
<1>4. /\ c \o b \in Seq(S) /\ Len(c \o b) = Len(s) + 1
      /\ \A i \in 1..(Len(s) + 1) : (c \o b)[i] = IF i <= k THEN c[i] ELSE b[i - k]
  <2>1. Len(c) + Len(b) = Len(s) + 1
    BY <1>0, <1>2, <1>3
  <2>2. /\ c \o b \in Seq(S)
        /\ Len(c \o b) = Len(c) + Len(b)
        /\ \A i \in 1..(Len(c) + Len(b)) :
             (c \o b)[i] = IF i <= Len(c) THEN c[i] ELSE b[i - Len(c)]
    BY <1>2, <1>3, ConcatProperties
  <2> QED
    BY <1>3, <2>1, <2>2
<1>5. InsertAt(s, k, e) = c \o b
  BY DEF InsertAt, a, b, c
<1>6. ASSUME NEW i \in 1..(Len(s) + 1)
      PROVE  (c \o b)[i] = IF i < k THEN s[i] ELSE IF i = k THEN e ELSE s[i - 1]
  <2>1. CASE i < k
    BY <1>0, <1>1, <1>3, <1>4, <2>1
  <2>2. CASE i = k
    BY <1>0, <1>3, <1>4, <2>2
  <2>3. CASE i > k
    <3>1. i - k \in 1..(Len(s) - k + 1)
      BY <1>0, <2>3
    <3>2. (c \o b)[i] = b[i - k]
      BY <1>0, <1>4, <2>3
    <3> QED
      BY <1>0, <1>2, <2>3, <3>1, <3>2
  <2>4. i \in Int /\ k \in Int /\ (i < k \/ i = k \/ i > k)
    BY <1>0
  <2> HIDE DEF c
  <2> QED
    BY <2>1, <2>2, <2>3, <2>4
<1> QED
  BY <1>4, <1>5, <1>6

(* RemoveFirst takes out one occurrence of e, at place p, and closes up.    *)
LEMMA RemoveFirstProperties ==
  ASSUME NEW S, NEW s \in Seq(S), NEW e, \E i \in 1..Len(s) : s[i] = e
  PROVE  \E p \in 1..Len(s) :
           /\ s[p] = e
           /\ RemoveFirst(s, e) \in Seq(S)
           /\ Len(RemoveFirst(s, e)) = Len(s) - 1
           /\ \A i \in 1..(Len(s) - 1) :
                RemoveFirst(s, e)[i] = IF i < p THEN s[i] ELSE s[i + 1]
<1> DEFINE I == {i \in 1..Len(s) : s[i] = e}
<1> DEFINE p == Min(I)
<1>0. Len(s) \in Nat
  OBVIOUS
<1>1. I \in SUBSET Nat /\ I # {}
  BY <1>0
<1>2. p \in I
  <2> HIDE DEF I
  <2> QED
    BY <1>1, MinIsLeast
<1>3. p \in 1..Len(s) /\ s[p] = e
  BY <1>2
<1>4. RemoveFirst(s, e) = RemoveAt(s, p)
  BY <1>1 DEF RemoveFirst, SelectInSeq
<1> HIDE DEF p, I
<1> DEFINE a == SubSeq(s, 1, p - 1)
<1> DEFINE b == SubSeq(s, p + 1, Len(s))
<1>5. /\ a \in Seq(S) /\ Len(a) = p - 1
      /\ \A i \in 1..(p - 1) : a[i] = s[i]
  <2>1. \A i \in 1..(p - 1) : s[i] \in S
    BY <1>0, <1>3
  <2> QED
    BY <1>0, <1>3, <2>1, SubSeqProperties
<1>6. /\ b \in Seq(S) /\ Len(b) = Len(s) - p
      /\ \A i \in 1..(Len(s) - p) : b[i] = s[p + i]
  <2>1. \A i \in (p + 1)..Len(s) : s[i] \in S
    BY <1>0, <1>3
  <2> QED
    BY <1>0, <1>3, <2>1, SubSeqProperties
<1> HIDE DEF a, b
<1>7. /\ a \o b \in Seq(S) /\ Len(a \o b) = Len(s) - 1
      /\ \A i \in 1..(Len(s) - 1) : (a \o b)[i] = IF i <= p - 1 THEN a[i] ELSE b[i - (p - 1)]
  <2>1. Len(a) + Len(b) = Len(s) - 1
    BY <1>0, <1>3, <1>5, <1>6
  <2>2. /\ a \o b \in Seq(S)
        /\ Len(a \o b) = Len(a) + Len(b)
        /\ \A i \in 1..(Len(a) + Len(b)) :
             (a \o b)[i] = IF i <= Len(a) THEN a[i] ELSE b[i - Len(a)]
    BY <1>5, <1>6, ConcatProperties
  <2> QED
    BY <1>5, <2>1, <2>2
<1>8. RemoveAt(s, p) = a \o b
  BY DEF RemoveAt, a, b
<1>9. ASSUME NEW i \in 1..(Len(s) - 1)
      PROVE  (a \o b)[i] = IF i < p THEN s[i] ELSE s[i + 1]
  <2>1. CASE i < p
    BY <1>0, <1>3, <1>5, <1>7, <2>1
  <2>2. CASE ~(i < p)
    <3>1. i - (p - 1) \in 1..(Len(s) - p)
      BY <1>0, <1>3, <2>2
    <3>2. (a \o b)[i] = b[i - (p - 1)]
      BY <1>0, <1>3, <1>7, <2>2
    <3>3. b[i - (p - 1)] = s[p + (i - (p - 1))]
      BY <1>6, <3>1
    <3>4. p + (i - (p - 1)) = i + 1
      BY <1>0, <1>3
    <3> QED
      BY <2>2, <3>2, <3>3, <3>4
  <2> QED
    BY <2>1, <2>2
<1> QED
  BY <1>3, <1>4, <1>7, <1>8, <1>9

(* The elements of a list after each operation.                             *)
LEMMA InsertAtElements ==
  ASSUME NEW S, NEW s \in Seq(S), NEW e \in S, NEW k \in 1..(Len(s) + 1)
  PROVE  /\ ToSet(InsertAt(s, k, e)) = ToSet(s) \cup {e}
         /\ IsInjective(s) /\ e \notin ToSet(s) => IsInjective(InsertAt(s, k, e))
<1> DEFINE r == InsertAt(s, k, e)
<1>1. /\ r \in Seq(S) /\ Len(r) = Len(s) + 1
      /\ \A i \in 1..(Len(s) + 1) :
           r[i] = IF i < k THEN s[i] ELSE IF i = k THEN e ELSE s[i - 1]
  BY InsertAtProperties
<1> HIDE DEF r
<1>2. Len(s) \in Nat /\ k \in Nat /\ DOMAIN s = 1..Len(s) /\ DOMAIN r = 1..Len(r)
  BY <1>1
<1>3. ASSUME NEW x \in ToSet(r) PROVE x \in ToSet(s) \cup {e}
  <2>1. PICK i \in 1..(Len(s) + 1) : r[i] = x
    BY <1>1, <1>2 DEF ToSet
  <2>2. x = e \/ (i < k /\ i \in 1..Len(s) /\ x = s[i])
              \/ (i - 1 \in 1..Len(s) /\ x = s[i - 1])
    BY <1>1, <1>2, <2>1
  <2> QED
    BY <1>2, <2>2 DEF ToSet
<1>4. e \in ToSet(r)
  BY <1>1, <1>2 DEF ToSet
<1>5. ASSUME NEW x \in ToSet(s) PROVE x \in ToSet(r)
  <2>1. PICK i \in 1..Len(s) : s[i] = x
    BY <1>2 DEF ToSet
  <2>2. CASE i < k
    <3>1. i \in 1..Len(r) /\ r[i] = x
      BY <1>1, <1>2, <2>1, <2>2
    <3> QED
      BY <1>2, <3>1 DEF ToSet
  <2>3. CASE i >= k
    <3>1. i + 1 \in 1..Len(r) /\ r[i + 1] = x
      BY <1>1, <1>2, <2>1, <2>3
    <3> QED
      BY <1>2, <3>1 DEF ToSet
  <2> QED
    BY <1>2, <2>2, <2>3
<1>6. ASSUME IsInjective(s), e \notin ToSet(s) PROVE IsInjective(r)
  <2> SUFFICES ASSUME NEW i \in 1..Len(r), NEW j \in 1..Len(r), r[i] = r[j]
               PROVE  i = j
    BY <1>2 DEF IsInjective
  <2>1. \A a \in 1..Len(s) : s[a] # e
    BY <1>2, <1>6 DEF ToSet
  <2>2. \A a, b \in 1..Len(s) : s[a] = s[b] => a = b
    BY <1>2, <1>6 DEF IsInjective
  <2>3. i \in 1..(Len(s) + 1) /\ j \in 1..(Len(s) + 1)
    BY <1>1
  <2>4. \A a \in 1..(Len(s) + 1) : (a < k => a \in 1..Len(s)) /\ (a > k => a - 1 \in 1..Len(s))
    BY <1>2
  <2>5. r[i] = e <=> i = k
    BY <1>1, <1>2, <2>1, <2>3, <2>4
  <2>6. r[j] = e <=> j = k
    BY <1>1, <1>2, <2>1, <2>3, <2>4
  <2> QED
    BY <1>1, <1>2, <2>2, <2>3, <2>4, <2>5, <2>6
<1> QED
  BY <1>3, <1>4, <1>5, <1>6 DEF r

\* r is s with some of its elements left out.
Thins(r, s) ==
  \E h \in [1..Len(r) -> 1..Len(s)] :
    /\ \A i, j \in 1..Len(r) : i < j => h[i] < h[j]
    /\ \A i \in 1..Len(r) : r[i] = s[h[i]]

(* What is left of a list without repetitions has none.                     *)
LEMMA ThinsKeeps ==
  ASSUME NEW S, NEW s \in Seq(S), NEW r \in Seq(S), Thins(r, s)
  PROVE  /\ ToSet(r) \subseteq ToSet(s)
         /\ IsInjective(s) => IsInjective(r)
<1>1. PICK h \in [1..Len(r) -> 1..Len(s)] :
        /\ \A i, j \in 1..Len(r) : i < j => h[i] < h[j]
        /\ \A i \in 1..Len(r) : r[i] = s[h[i]]
  BY DEF Thins
<1>2. DOMAIN s = 1..Len(s) /\ DOMAIN r = 1..Len(r) /\ Len(s) \in Nat /\ Len(r) \in Nat
  OBVIOUS
<1>3. ToSet(r) \subseteq ToSet(s)
  BY <1>1, <1>2 DEF ToSet
<1>4. ASSUME IsInjective(s), NEW i \in 1..Len(r), NEW j \in 1..Len(r), r[i] = r[j]
      PROVE  i = j
  <2>1. h[i] = h[j]
    BY <1>1, <1>2, <1>4 DEF IsInjective
  <2> QED
    BY <1>1, <1>2, <2>1
<1> QED
  BY <1>2, <1>3, <1>4 DEF IsInjective

(* Each way of taking elements out of a list thins it.                      *)
LEMMA SubSeqThins ==
  ASSUME NEW S, NEW s \in Seq(S), NEW m \in 1..(Len(s) + 1), NEW n \in 0..Len(s)
  PROVE  SubSeq(s, m, n) \in Seq(S) /\ Thins(SubSeq(s, m, n), s)
<1> DEFINE r == SubSeq(s, m, n)
<1>0. Len(s) \in Nat /\ m \in Nat /\ n \in Nat /\ m >= 1 /\ n <= Len(s)
  OBVIOUS
<1>1. /\ r \in Seq(S) /\ Len(r) = IF m <= n THEN n - m + 1 ELSE 0
      /\ \A i \in 1..(n - m + 1) : r[i] = s[m + i - 1]
  <2>1. \A i \in m..n : s[i] \in S
    BY <1>0
  <2> QED
    BY <1>0, <2>1, SubSeqProperties
<1> HIDE DEF r
<1> DEFINE h == [i \in 1..Len(r) |-> m + i - 1]
<1>2. \A i \in 1..Len(r) : m + i - 1 \in 1..Len(s) /\ i \in 1..(n - m + 1)
  BY <1>0, <1>1
<1>3. h \in [1..Len(r) -> 1..Len(s)]
  BY <1>2
<1>4. /\ \A i, j \in 1..Len(r) : i < j => h[i] < h[j]
      /\ \A i \in 1..Len(r) : r[i] = s[h[i]]
  BY <1>0, <1>1, <1>2
<1>5. Thins(r, s)
  BY <1>3, <1>4 DEF Thins
<1> QED
  BY <1>1, <1>5 DEF r

(* Taking the head off a list (firePending) leaves the others in their order. *)
LEMMA TailThins ==
  ASSUME NEW S, NEW s \in Seq(S), s # <<>>
  PROVE  /\ Tail(s) \in Seq(S) /\ Thins(Tail(s), s)
         /\ IsInjective(s) => ToSet(Tail(s)) = ToSet(s) \ {Head(s)}
         /\ Head(s) \in ToSet(s)
<1> DEFINE r == Tail(s)
<1>1. /\ r \in Seq(S) /\ Len(r) = Len(s) - 1
      /\ \A i \in 1..Len(r) : r[i] = s[i + 1]
      /\ Len(s) \in Nat /\ Len(s) > 0 /\ Head(s) = s[1]
  OBVIOUS
<1> HIDE DEF r
<1> DEFINE h == [i \in 1..Len(r) |-> i + 1]
<1>2. h \in [1..Len(r) -> 1..Len(s)]
  BY <1>1
<1>3. /\ \A i, j \in 1..Len(r) : i < j => h[i] < h[j]
      /\ \A i \in 1..Len(r) : r[i] = s[h[i]]
  BY <1>1
<1>4. Thins(r, s)
  BY <1>2, <1>3 DEF Thins
<1>5. DOMAIN s = 1..Len(s) /\ DOMAIN r = 1..Len(r)
  BY <1>1
<1>6. ASSUME IsInjective(s) PROVE ToSet(r) = ToSet(s) \ {s[1]}
  <2>1. ASSUME NEW i \in 1..Len(s), s[i] # s[1] PROVE s[i] \in ToSet(r)
    <3>1. i - 1 \in 1..Len(r) /\ r[i - 1] = s[i]
      BY <1>1, <2>1
    <3> QED
      BY <1>5, <3>1 DEF ToSet
  <2>2. ASSUME NEW i \in 1..Len(r) PROVE r[i] \in ToSet(s) /\ r[i] # s[1]
    <3>1. i + 1 \in 1..Len(s) /\ i + 1 # 1 /\ 1 \in 1..Len(s) /\ r[i] = s[i + 1]
      BY <1>1
    <3> QED
      BY <1>5, <1>6, <3>1 DEF ToSet, IsInjective
  <2> QED
    BY <1>5, <2>1, <2>2 DEF ToSet
<1>7. Head(s) \in ToSet(s)
  BY <1>1, <1>5 DEF ToSet
<1> QED
  BY <1>1, <1>4, <1>6, <1>7 DEF r

(* Removing an event from a list leaves the others in their order. *)
LEMMA RemoveFirstThins ==
  ASSUME NEW S, NEW s \in Seq(S), NEW e
  PROVE  /\ RemoveFirst(s, e) \in Seq(S) /\ Thins(RemoveFirst(s, e), s)
         /\ IsInjective(s) => ToSet(RemoveFirst(s, e)) = ToSet(s) \ {e}
<1> DEFINE r == RemoveFirst(s, e)
<1>0. Len(s) \in Nat /\ DOMAIN s = 1..Len(s)
  OBVIOUS
<1>1. CASE ~\E i \in 1..Len(s) : s[i] = e
  <2>1. r = s
    BY <1>1 DEF RemoveFirst
  <2> DEFINE h == [i \in 1..Len(s) |-> i]
  <2>2. h \in [1..Len(s) -> 1..Len(s)]
    OBVIOUS
  <2>3. /\ \A i, j \in 1..Len(s) : i < j => h[i] < h[j]
        /\ \A i \in 1..Len(s) : s[i] = s[h[i]]
    OBVIOUS
  <2>4. Thins(s, s)
    BY <2>2, <2>3 DEF Thins
  <2>5. e \notin ToSet(s)
    BY <1>0, <1>1 DEF ToSet
  <2> QED
    BY <2>1, <2>4, <2>5
<1>2. CASE \E i \in 1..Len(s) : s[i] = e
  <2>1. PICK p \in 1..Len(s) :
          /\ s[p] = e
          /\ r \in Seq(S)
          /\ Len(r) = Len(s) - 1
          /\ \A i \in 1..(Len(s) - 1) : r[i] = IF i < p THEN s[i] ELSE s[i + 1]
    BY <1>2, RemoveFirstProperties
  <2> HIDE DEF r
  <2> DEFINE h == [i \in 1..Len(r) |-> IF i < p THEN i ELSE i + 1]
  <2>2. h \in [1..Len(r) -> 1..Len(s)]
    BY <1>0, <2>1
  <2>3. /\ \A i, j \in 1..Len(r) : i < j => h[i] < h[j]
        /\ \A i \in 1..Len(r) : r[i] = s[h[i]]
    BY <1>0, <2>1
  <2>4. Thins(r, s)
    BY <2>2, <2>3 DEF Thins
  <2>5. DOMAIN r = 1..Len(r)
    BY <2>1
  <2>6. ASSUME IsInjective(s) PROVE ToSet(r) = ToSet(s) \ {e}
    <3>1. ASSUME NEW i \in 1..Len(s), s[i] # e PROVE s[i] \in ToSet(r)
      <4>1. CASE i < p
        <5>1. i \in 1..Len(r) /\ r[i] = s[i]
          BY <1>0, <2>1, <4>1
        <5> QED
          BY <2>5, <5>1 DEF ToSet
      <4>2. CASE i > p
        <5>1. i - 1 \in 1..Len(r) /\ r[i - 1] = s[i]
          BY <1>0, <2>1, <4>2
        <5> QED
          BY <2>5, <5>1 DEF ToSet
      <4> QED
        BY <1>0, <2>1, <3>1, <4>1, <4>2
    <3>2. ASSUME NEW i \in 1..Len(r) PROVE r[i] \in ToSet(s) /\ r[i] # e
      <4>1. /\ h[i] \in 1..Len(s) /\ h[i] # p /\ r[i] = s[h[i]]
        BY <1>0, <2>1, <2>2, <2>3
      <4> QED
        BY <1>0, <2>1, <2>6, <4>1 DEF ToSet, IsInjective
    <3> QED
      BY <1>0, <2>5, <3>1, <3>2 DEF ToSet
  <2> QED
    BY <2>1, <2>4, <2>6 DEF r
<1> QED
  BY <1>1, <1>2

(* A list cut in two: nothing is lost, and nothing is on both sides.        *)
LEMMA CutElements ==
  ASSUME NEW S, NEW s \in Seq(S), NEW k \in 0..Len(s)
  PROVE  /\ ToSet(SubSeq(s, 1, k)) \cup ToSet(SubSeq(s, k + 1, Len(s))) = ToSet(s)
         /\ IsInjective(s) =>
              ToSet(SubSeq(s, 1, k)) \cap ToSet(SubSeq(s, k + 1, Len(s))) = {}
         /\ Len(SubSeq(s, 1, k)) = k
         /\ \A i \in 1..k : SubSeq(s, 1, k)[i] = s[i]
         /\ Len(SubSeq(s, k + 1, Len(s))) = Len(s) - k
         /\ \A i \in 1..(Len(s) - k) : SubSeq(s, k + 1, Len(s))[i] = s[k + i]
<1> DEFINE a == SubSeq(s, 1, k)
<1> DEFINE b == SubSeq(s, k + 1, Len(s))
<1>0. Len(s) \in Nat /\ k \in Nat /\ k <= Len(s) /\ DOMAIN s = 1..Len(s)
  OBVIOUS
<1>1. /\ a \in Seq(S) /\ Len(a) = k
      /\ \A i \in 1..k : a[i] = s[i]
  <2>1. \A i \in 1..k : s[i] \in S
    BY <1>0
  <2> QED
    BY <1>0, <2>1, SubSeqProperties
<1>2. /\ b \in Seq(S) /\ Len(b) = Len(s) - k
      /\ \A i \in 1..(Len(s) - k) : b[i] = s[k + i]
  <2>1. \A i \in (k + 1)..Len(s) : s[i] \in S
    BY <1>0
  <2>2. /\ b \in Seq(S)
        /\ Len(b) = IF k + 1 <= Len(s) THEN Len(s) - (k + 1) + 1 ELSE 0
        /\ \A i \in 1..(Len(s) - (k + 1) + 1) : b[i] = s[(k + 1) + i - 1]
    BY <1>0, <2>1, SubSeqProperties
  <2>3. Len(s) - (k + 1) + 1 = Len(s) - k
    BY <1>0
  <2>4. \A i \in 1..(Len(s) - k) : (k + 1) + i - 1 = k + i
    BY <1>0
  <2> HIDE DEF b
  <2>5. Len(b) = Len(s) - k
    <3>1. Len(b) = IF k + 1 <= Len(s) THEN Len(s) - (k + 1) + 1 ELSE 0
      BY <2>2
    <3>0. ASSUME NEW n \in Nat, NEW j \in Nat, j <= n
          PROVE  j + 1 <= n \/ (~(j + 1 <= n) /\ n - j = 0)
      BY <3>0
    <3>2. k + 1 <= Len(s) \/ (~(k + 1 <= Len(s)) /\ Len(s) - k = 0)
      BY <1>0, <3>0
    <3> QED
      BY <2>3, <3>1, <3>2
  <2>6. \A i \in 1..(Len(s) - k) : b[i] = s[k + i]
    BY <2>2, <2>3, <2>4
  <2> QED
    BY <2>2, <2>5, <2>6
<1> HIDE DEF a, b
<1>3. DOMAIN a = 1..k /\ DOMAIN b = 1..(Len(s) - k)
  BY <1>1, <1>2
<1>4. ToSet(a) = {s[i] : i \in 1..k}
  BY <1>1, <1>3 DEF ToSet
<1>5. ToSet(b) = {s[i] : i \in (k + 1)..Len(s)}
  <2>1. ASSUME NEW i \in (k + 1)..Len(s) PROVE s[i] \in ToSet(b)
    <3>1. i - k \in 1..(Len(s) - k) /\ b[i - k] = s[i]
      BY <1>0, <1>2
    <3> QED
      BY <1>3, <3>1 DEF ToSet
  <2>2. ASSUME NEW i \in 1..(Len(s) - k) PROVE b[i] \in {s[j] : j \in (k + 1)..Len(s)}
    <3>1. k + i \in (k + 1)..Len(s) /\ b[i] = s[k + i]
      BY <1>0, <1>2
    <3> QED
      BY <3>1
  <2> QED
    BY <1>3, <2>1, <2>2 DEF ToSet
<1>6. \A i \in 1..Len(s) : i \in 1..k \/ i \in (k + 1)..Len(s)
  BY <1>0
<1>7. \A i \in 1..k, j \in (k + 1)..Len(s) : i \in 1..Len(s) /\ j \in 1..Len(s) /\ i # j
  BY <1>0
<1>8. 1..k \subseteq 1..Len(s) /\ (k + 1)..Len(s) \subseteq 1..Len(s)
  BY <1>0
<1>9. ToSet(a) \cup ToSet(b) = ToSet(s)
  BY <1>0, <1>4, <1>5, <1>6, <1>8 DEF ToSet
<1>10. IsInjective(s) => ToSet(a) \cap ToSet(b) = {}
  BY <1>0, <1>4, <1>5, <1>7 DEF IsInjective
<1> QED
  BY <1>1, <1>2, <1>9, <1>10 DEF a, b

(* An element appended.                                                     *)
LEMMA AppendElements ==
  ASSUME NEW S, NEW s \in Seq(S), NEW e \in S
  PROVE  /\ ToSet(Append(s, e)) = ToSet(s) \cup {e}
         /\ IsInjective(s) /\ e \notin ToSet(s) => IsInjective(Append(s, e))
<1> DEFINE r == Append(s, e)
<1>1. /\ r \in Seq(S) /\ Len(r) = Len(s) + 1 /\ Len(s) \in Nat
      /\ \A i \in 1..Len(s) : r[i] = s[i]
      /\ r[Len(s) + 1] = e
      /\ DOMAIN s = 1..Len(s) /\ DOMAIN r = 1..(Len(s) + 1)
  OBVIOUS
<1> HIDE DEF r
<1>2. \A i \in 1..(Len(s) + 1) : i \in 1..Len(s) \/ i = Len(s) + 1
  BY <1>1
<1>3. \A i \in 1..Len(s) : i \in 1..(Len(s) + 1) /\ i # Len(s) + 1
  BY <1>1
<1>4. ToSet(r) = ToSet(s) \cup {e}
  <2>1. Len(s) + 1 \in DOMAIN r
    BY <1>1
  <2> QED
    BY <1>1, <1>2, <1>3, <2>1 DEF ToSet
<1>5. IsInjective(s) /\ e \notin ToSet(s) => IsInjective(r)
  BY <1>1, <1>2, <1>3 DEF ToSet, IsInjective
<1> QED
  BY <1>4, <1>5 DEF r
=============================================================================
