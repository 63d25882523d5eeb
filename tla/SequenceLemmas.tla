--------------------------- MODULE SequenceLemmas ----------------------------
(***************************************************************************)
(* Facts about natural numbers and sequences the proofs of several modules  *)
(* rest on.  Induction is stated over a set, that of the numbers for which  *)
(* the fact at hand holds: a set is a constant the provers can instantiate. *)
(***************************************************************************)
EXTENDS Integers, SequencesExt, FiniteSetTheorems, SequenceTheorems, TLAPS

\* A set of natural numbers that is not empty has a least one: the intervals below
\* its members are finite sets, of which strict inclusion is well founded.
LEMMA LeastNatural ==
    ASSUME NEW T \in SUBSET Nat, T # {}
    PROVE  \E n \in T : \A m \in T : n <= m
<1> DEFINE below(n) == 0 .. n - 1
           B == {below(n) : n \in T}
<1>1. IsWellFoundedOn(StrictSubsetOrdering(Nat), FiniteSubsetsOf(Nat))
    BY FS_StrictSubsetOrderingWellFounded
<1>2. \A n \in T : below(n) \in FiniteSubsetsOf(Nat)
    BY FS_Interval DEF FiniteSubsetsOf
<1>3. B \subseteq FiniteSubsetsOf(Nat) /\ B # {}
    BY <1>2
<1>4. PICK s \in B : \A r \in B : <<r, s>> \notin StrictSubsetOrdering(Nat)
  <2> HIDE DEF B
  <2> QED BY <1>1, <1>3, WFMin
<1>5. PICK n \in T : s = below(n)
    OBVIOUS
<1>6. ASSUME NEW m \in T, m < n PROVE FALSE
  <2>1. below(m) \subseteq below(n) /\ m \in below(n) /\ m \notin below(m)
      BY <1>6
  <2>2. <<below(m), below(n)>> \in StrictSubsetOrdering(Nat)
      BY <2>1 DEF StrictSubsetOrdering
  <2> QED BY <1>4, <1>5, <2>2
<1> QED BY <1>6

\* Induction over the natural numbers.
LEMMA NatSetInduction ==
    ASSUME NEW T, 0 \in T, \A n \in Nat : n \in T => n + 1 \in T
    PROVE  Nat \subseteq T
<1> SUFFICES ASSUME Nat \ T # {} PROVE FALSE
    OBVIOUS
<1>1. PICK n \in Nat \ T : \A m \in Nat \ T : n <= m
    BY LeastNatural
<1>2. n # 0 /\ n - 1 \in Nat /\ n - 1 \in T
    BY <1>1
<1> QED BY <1>1, <1>2

\* Numbers can be told in their order.
LEMMA Enumeration ==
    ASSUME NEW S \in SUBSET Nat, IsFiniteSet(S)
    PROVE  \E f \in [1 .. Cardinality(S) -> S] : \A i, j \in 1 .. Cardinality(S) : i < j => f[i] < f[j]
<1> DEFINE Told(Q, n) == \E f \in [1 .. n -> Q] : \A i, j \in 1 .. n : i < j => f[i] < f[j]
           T == {n \in Nat : \A Q \in SUBSET Nat : IsFiniteSet(Q) /\ Cardinality(Q) = n => Told(Q, n)}
<1>1. 0 \in T
  <2> SUFFICES ASSUME NEW Q \in SUBSET Nat PROVE Told(Q, 0)
      OBVIOUS
  <2>1. [i \in 1 .. 0 |-> i] \in [1 .. 0 -> Q]
      OBVIOUS
  <2> QED BY <2>1
<1>2. ASSUME NEW n \in Nat, n \in T PROVE n + 1 \in T
  <2> SUFFICES ASSUME NEW Q \in SUBSET Nat, IsFiniteSet(Q), Cardinality(Q) = n + 1
               PROVE  Told(Q, n + 1)
      OBVIOUS
  <2>1. Q # {}
      BY FS_EmptySet
  <2>2. PICK m \in Q : \A k \in Q : m <= k
      BY <2>1, LeastNatural
  <2>3. IsFiniteSet(Q \ {m}) /\ Cardinality(Q \ {m}) = n
    <3>1. /\ IsFiniteSet(Q \ {m})
          /\ Cardinality(Q \ {m}) = IF m \in Q THEN Cardinality(Q) - 1 ELSE Cardinality(Q)
        BY FS_RemoveElement, Zenon
    <3> QED BY <3>1
  <2>4. Told(Q \ {m}, n)
      BY <1>2, <2>3
  <2>5. PICK g \in [1 .. n -> Q \ {m}] : \A i, j \in 1 .. n : i < j => g[i] < g[j]
      BY <2>4
  <2> DEFINE f == [i \in 1 .. n + 1 |-> IF i = 1 THEN m ELSE g[i - 1]]
  <2>6. \A i \in 1 .. n + 1 : i # 1 => i - 1 \in 1 .. n
      OBVIOUS
  <2>7. f \in [1 .. n + 1 -> Q]
      BY <2>6
  <2>8. ASSUME NEW i \in 1 .. n PROVE g[i] \in Nat /\ m < g[i]
    <3>1. g[i] \in Q \ {m}
        BY <2>5
    <3>2. m \in Nat /\ g[i] \in Nat /\ g[i] # m /\ m <= g[i]
        BY <2>2, <3>1
    <3> QED BY <3>2
  <2>9. ASSUME NEW i \in 1 .. n + 1, NEW j \in 1 .. n + 1, i < j PROVE f[i] < f[j]
    <3>1. j # 1 /\ j - 1 \in 1 .. n /\ f[j] = g[j - 1]
        BY <2>6, <2>9
    <3>2. CASE i = 1
        BY <2>8, <3>1, <3>2
    <3>3. CASE i # 1
      <4>1. i - 1 \in 1 .. n /\ f[i] = g[i - 1] /\ i - 1 < j - 1
          BY <2>6, <2>9, <3>3
      <4> HIDE DEF f
      <4> QED BY <2>5, <3>1, <4>1
    <3> QED BY <3>2, <3>3
  <2> HIDE DEF f
  <2> QED BY <2>7, <2>9
<1> HIDE DEF T
<1>3. Cardinality(S) \in T
    BY <1>1, <1>2, NatSetInduction, FS_CardinalityType
<1> QED BY <1>3 DEF T
-----------------------------------------------------------------------------
\* A sequence and one more element.
LEMMA AppendIs ==
    ASSUME NEW S, NEW s \in Seq(S), NEW x
    PROVE  /\ Len(Append(s, x)) = Len(s) + 1 /\ DOMAIN Append(s, x) = 1 .. Len(s) + 1
           /\ Append(s, x)[Len(s) + 1] = x
           /\ \A i \in 1 .. Len(s) : Append(s, x)[i] = s[i]
           /\ Append(s, x) = [i \in 1 .. Len(s) + 1 |-> Append(s, x)[i]]
           /\ ToSet(Append(s, x)) = ToSet(s) \union {x}
           /\ Append(s, x) \in Seq(ToSet(Append(s, x)))
<1> DEFINE n == Len(s)
           t == Append(s, x)
<1>1. n \in Nat /\ DOMAIN s = 1 .. n /\ s \in Seq(S \union {x})
    OBVIOUS
<1>2. t \in Seq(S \union {x})
    BY <1>1
<1>3. Len(t) = n + 1 /\ DOMAIN t = 1 .. n + 1 /\ t[n + 1] = x /\ \A i \in 1 .. n : t[i] = s[i]
    BY <1>1
<1>4. t = [i \in 1 .. n + 1 |-> t[i]]
  <2> HIDE DEF t
  <2> QED BY <1>1, <1>2, <1>3
<1>5. ToSet(t) = ToSet(s) \union {x}
  <2>1. \A i \in 1 .. n + 1 : i = n + 1 \/ i \in 1 .. n
      BY <1>1
  <2>2. \A i \in 1 .. n : i \in 1 .. n + 1
      BY <1>1
  <2>3. n + 1 \in 1 .. n + 1
      BY <1>1
  <2> HIDE DEF t, n
  <2> QED BY <1>1, <1>3, <2>1, <2>2, <2>3 DEF ToSet
<1>6. t \in Seq(ToSet(t))
  <2>1. \A i \in 1 .. n + 1 : t[i] \in ToSet(t)
      BY <1>3 DEF ToSet
  <2> HIDE DEF t
  <2> QED BY <1>1, <1>3, <1>4, <2>1
<1> QED BY <1>3, <1>4, <1>5, <1>6

\* The elements of two sequences, one after the other.
LEMMA ConcatElements ==
    ASSUME NEW S, NEW a \in Seq(S), NEW b \in Seq(S)
    PROVE  a \o b \in Seq(S) /\ ToSet(a \o b) = ToSet(a) \union ToSet(b)
<1>1. /\ a \o b \in Seq(S) /\ DOMAIN (a \o b) = 1 .. Len(a) + Len(b)
      /\ DOMAIN a = 1 .. Len(a) /\ DOMAIN b = 1 .. Len(b)
      /\ \A i \in 1 .. Len(a) : (a \o b)[i] = a[i]
      /\ \A i \in 1 .. Len(b) : (a \o b)[Len(a) + i] = b[i]
    OBVIOUS
<1>2. ASSUME NEW i \in 1 .. Len(a) + Len(b) PROVE (a \o b)[i] \in ToSet(a) \union ToSet(b)
  <2>1. CASE i \in 1 .. Len(a)
      BY <1>1, <2>1 DEF ToSet
  <2>2. CASE i \notin 1 .. Len(a)
    <3>1. i - Len(a) \in 1 .. Len(b) /\ Len(a) + (i - Len(a)) = i
        BY <2>2
    <3>2. (a \o b)[Len(a) + (i - Len(a))] = b[i - Len(a)]
        BY <1>1, <3>1
    <3>3. (a \o b)[i] = b[i - Len(a)]
        BY <3>1, <3>2
    <3> QED BY <1>1, <3>1, <3>3 DEF ToSet
  <2> QED BY <2>1, <2>2
<1>3. ASSUME NEW i \in 1 .. Len(a) PROVE a[i] \in ToSet(a \o b)
  <2>1. i \in 1 .. Len(a) + Len(b)
      OBVIOUS
  <2> QED BY <1>1, <2>1 DEF ToSet
<1>4. ASSUME NEW i \in 1 .. Len(b) PROVE b[i] \in ToSet(a \o b)
  <2>1. Len(a) + i \in 1 .. Len(a) + Len(b)
      OBVIOUS
  <2> QED BY <1>1, <2>1 DEF ToSet
<1>5. ToSet(a \o b) = {(a \o b)[i] : i \in 1 .. Len(a) + Len(b)}
    BY <1>1, Zenon DEF ToSet
<1>6. ToSet(a) = {a[i] : i \in 1 .. Len(a)} /\ ToSet(b) = {b[i] : i \in 1 .. Len(b)}
    BY <1>1, Zenon DEF ToSet
<1>7. ToSet(a \o b) \subseteq ToSet(a) \union ToSet(b)
    BY <1>2, <1>5
<1>8. ToSet(a) \subseteq ToSet(a \o b) /\ ToSet(b) \subseteq ToSet(a \o b)
    BY <1>3, <1>4, <1>6
<1> QED BY <1>1, <1>7, <1>8

\* What FlattenSeq is made of: the first n sequences, one after another.
LEMMA FlattenExists ==
    ASSUME NEW ss, NEW n \in Nat
    PROVE  \E f : f = [i \in 1 .. n |-> IF i = 1 THEN ss[i] ELSE f[i - 1] \o ss[i]]
<1> DEFINE Defines(f, k) == f = [i \in 1 .. k |-> IF i = 1 THEN ss[i] ELSE f[i - 1] \o ss[i]]
           T == {k \in Nat : \E f : Defines(f, k)}
<1>1. 0 \in T
  <2>1. Defines([i \in 1 .. 0 |-> 0], 0)
      OBVIOUS
  <2> QED BY <2>1
<1>2. ASSUME NEW k \in Nat, k \in T PROVE k + 1 \in T
  <2>1. PICK f : Defines(f, k)
      BY <1>2
  <2> DEFINE g == [i \in 1 .. k + 1 |->
                      IF i = k + 1 THEN IF k = 0 THEN ss[1] ELSE f[k] \o ss[k + 1] ELSE f[i]]
  <2>2. \A i \in 1 .. k + 1 : g[i] = IF i = 1 THEN ss[i] ELSE g[i - 1] \o ss[i]
    <3> SUFFICES ASSUME NEW i \in 1 .. k + 1 PROVE g[i] = IF i = 1 THEN ss[i] ELSE g[i - 1] \o ss[i]
        OBVIOUS
    <3>1. CASE i = k + 1 /\ k = 0
        BY <3>1
    <3>2. CASE i = k + 1 /\ k # 0
      <4>1. i # 1 /\ i - 1 = k /\ k \in 1 .. k + 1 /\ k # k + 1
          BY <3>2
      <4>2. g[i] = f[k] \o ss[k + 1] /\ g[k] = f[k]
          BY <3>2, <4>1
      <4> HIDE DEF g
      <4> QED BY <3>2, <4>1, <4>2
    <3>3. CASE i \in 1 .. k
      <4>1. f[i] = IF i = 1 THEN ss[i] ELSE f[i - 1] \o ss[i]
          BY <2>1, <3>3
      <4>2. g[i] = f[i] /\ (i # 1 => g[i - 1] = f[i - 1])
          BY <3>3
      <4> QED BY <4>1, <4>2
    <3> QED BY <3>1, <3>2, <3>3
  <2>3. Defines(g, k + 1)
    <3>1. g = [i \in 1 .. k + 1 |-> g[i]]
        OBVIOUS
    <3> HIDE DEF g
    <3> QED BY <2>2, <3>1
  <2> HIDE DEF g, Defines
  <2>4. \E h : Defines(h, k + 1)
      BY <2>3
  <2> QED BY <2>4
<1> HIDE DEF T
<1>3. n \in T
    BY <1>1, <1>2, NatSetInduction
<1> QED BY <1>3 DEF T

\* A flattened sequence has the elements of the sequences it is made of.
LEMMA FlattenSeqElements ==
    ASSUME NEW S, NEW ss \in Seq(Seq(S))
    PROVE  /\ FlattenSeq(ss) \in Seq(S)
           /\ ToSet(FlattenSeq(ss)) = UNION {ToSet(ss[i]) : i \in DOMAIN ss}
<1>1. CASE Len(ss) = 0
  <2>1. ss = <<>> /\ FlattenSeq(ss) = <<>>
      BY <1>1 DEF FlattenSeq
  <2>2. DOMAIN ss = {} /\ <<>> \in Seq(S) /\ ToSet(<<>>) = {}
      BY <2>1 DEF ToSet
  <2> QED BY <2>1, <2>2, ZenonT(60)
<1>2. CASE Len(ss) # 0
  <2> DEFINE n == Len(ss)
             Is(f) == f = [i \in 1 .. n |-> IF i = 1 THEN ss[i] ELSE f[i - 1] \o ss[i]]
             flatten == CHOOSE f : Is(f)
  <2>1. n \in Nat /\ n # 0 /\ DOMAIN ss = 1 .. n
      BY <1>2
  <2>2. FlattenSeq(ss) = flatten[n]
      BY <1>2 DEF FlattenSeq
  <2>3. Is(flatten)
      BY <2>1, FlattenExists, ZenonT(60)
  <2>4. \A i \in 1 .. n : flatten[i] = IF i = 1 THEN ss[i] ELSE flatten[i - 1] \o ss[i]
      BY <2>3, ZenonT(60)
  <2> HIDE DEF flatten, Is
  <2> DEFINE Upto(k) == UNION {ToSet(ss[i]) : i \in 1 .. k}
             T == {k \in Nat : k \in 1 .. n => flatten[k] \in Seq(S) /\ ToSet(flatten[k]) = Upto(k)}
  <2>5. 0 \in T
      OBVIOUS
  <2>6. ASSUME NEW k \in Nat, k \in T PROVE k + 1 \in T
    <3> SUFFICES ASSUME k + 1 \in 1 .. n
                 PROVE  flatten[k + 1] \in Seq(S) /\ ToSet(flatten[k + 1]) = Upto(k + 1)
        OBVIOUS
    <3>0. ss[k + 1] \in Seq(S)
        BY <2>1
    <3>1. CASE k = 0
      <4>1. flatten[k + 1] = ss[1] /\ 1 .. k + 1 = {1}
          BY <2>4, <3>1
      <4> QED BY <3>0, <3>1, <4>1
    <3>2. CASE k # 0
      <4>1. flatten[k] \in Seq(S) /\ ToSet(flatten[k]) = Upto(k)
          BY <2>6, <3>2
      <4>2. flatten[k + 1] = flatten[k] \o ss[k + 1]
        <5>1. k + 1 # 1 /\ (k + 1) - 1 = k
            BY <3>2
        <5> QED BY <2>4, <5>1
      <4>3. Upto(k + 1) = Upto(k) \union ToSet(ss[k + 1])
        <5>1. 1 .. k + 1 = (1 .. k) \union {k + 1}
            OBVIOUS
        <5> QED BY <5>1
      <4>4. /\ flatten[k] \o ss[k + 1] \in Seq(S)
            /\ ToSet(flatten[k] \o ss[k + 1]) = ToSet(flatten[k]) \union ToSet(ss[k + 1])
          BY <3>0, <4>1, ConcatElements
      <4> HIDE DEF Upto
      <4> QED BY <4>1, <4>2, <4>3, <4>4
    <3> QED BY <3>1, <3>2
  <2> HIDE DEF T
  <2>7. n \in T
      BY <2>1, <2>5, <2>6, NatSetInduction
  <2> QED BY <2>1, <2>2, <2>7 DEF T
<1> QED BY <1>1, <1>2
-----------------------------------------------------------------------------
\* A sequence without its last element, and that element.
LEMMA FrontLast ==
    ASSUME NEW S, NEW q \in Seq(S), q # <<>>
    PROVE  /\ Front(q) \in Seq(S) /\ Len(Front(q)) = Len(q) - 1 /\ Last(q) \in S
           /\ q = Append(Front(q), Last(q)) /\ Last(q) = q[Len(q)]
           /\ \A i \in 1 .. Len(q) - 1 : Front(q)[i] = q[i]
<1>1. Len(q) \in Nat \ {0} /\ DOMAIN q = 1 .. Len(q)
    OBVIOUS
<1>2. Front(q) \in Seq(S) /\ Len(Front(q)) = Len(q) - 1 /\ \A i \in 1 .. Len(q) - 1 : Front(q)[i] = q[i]
    BY <1>1, SubSeqProperties DEF Front
<1>3. Last(q) \in S /\ Last(q) = q[Len(q)]
    BY <1>1 DEF Last
<1>4. q = Append(Front(q), Last(q))
  <2> DEFINE t == Append(Front(q), Last(q))
  <2>1. t \in Seq(S) /\ Len(t) = Len(q) /\ t[Len(q)] = q[Len(q)] /\ \A i \in 1 .. Len(q) - 1 : t[i] = q[i]
    <3> DEFINE f == Front(q)
               e == Last(q)
    <3>1. f \in Seq(S) /\ e \in S /\ Len(f) + 1 = Len(q)
        BY <1>1, <1>2, <1>3
    <3> HIDE DEF f, e
    <3>2. /\ Append(f, e) \in Seq(S) /\ Len(Append(f, e)) = Len(f) + 1 /\ Append(f, e)[Len(f) + 1] = e
          /\ \A i \in 1 .. Len(f) : Append(f, e)[i] = f[i]
        BY <3>1, AppendProperties
    <3>3. /\ t \in Seq(S) /\ Len(t) = Len(q) /\ t[Len(q)] = e
          /\ \A i \in 1 .. Len(f) : t[i] = f[i]
        BY <3>1, <3>2 DEF e, f
    <3> QED BY <1>1, <1>2, <1>3, <3>1, <3>3 DEF e, f
  <2> HIDE DEF t
  <2>2. \A i \in 1 .. Len(q) : t[i] = q[i]
      BY <1>1, <2>1
  <2> QED BY <2>1, <2>2, SeqEqual DEF t
<1> QED BY <1>2, <1>3, <1>4

\* A prefix, element by element.
LEMMA PrefixIs ==
    ASSUME NEW S, NEW p \in Seq(S), NEW q \in Seq(S)
    PROVE  IsPrefix(p, q) <=> Len(p) <= Len(q) /\ \A i \in 1 .. Len(p) : p[i] = q[i]
<1>1. Len(p) \in Nat /\ Len(q) \in Nat
    OBVIOUS
<1>2. SubSeq(p, 1, Len(p)) = p
    BY SubSeqFull
<1>3. ASSUME Len(p) <= Len(q)
      PROVE  p = SubSeq(q, 1, Len(p)) <=> \A i \in 1 .. Len(p) : p[i] = q[i]
  <2> DEFINE t == SubSeq(q, 1, Len(p))
  <2>1. t \in Seq(S) /\ Len(t) = Len(p) /\ \A i \in 1 .. Len(p) : t[i] = q[i]
      BY <1>1, <1>3, SubSeqProperties
  <2> HIDE DEF t
  <2>2. p = t <=> \A i \in 1 .. Len(p) : p[i] = t[i]
      BY <2>1, SeqEqual
  <2> QED BY <2>1, <2>2 DEF t
<1> QED BY <1>2, <1>3 DEF IsPrefix

\* What follows a prefix.
LEMMA PrefixConcat ==
    ASSUME NEW S, NEW p \in Seq(S), NEW r \in Seq(S)
    PROVE  /\ p \o r \in Seq(S) /\ IsPrefix(p, p \o r)
           /\ SubSeq(p \o r, Len(p) + 1, Len(p \o r)) = r
<1> DEFINE q == p \o r
           t == SubSeq(q, Len(p) + 1, Len(q))
<1>1. /\ q \in Seq(S) /\ Len(q) = Len(p) + Len(r) /\ Len(p) \in Nat /\ Len(r) \in Nat
      /\ \A i \in 1 .. Len(p) : q[i] = p[i]
      /\ \A i \in 1 .. Len(r) : q[Len(p) + i] = r[i]
    BY ConcatProperties
<1> HIDE DEF q
<1>2. IsPrefix(p, q)
    BY <1>1, PrefixIs
<1>3. t \in Seq(S) /\ Len(t) = Len(r) /\ \A i \in 1 .. Len(r) : t[i] = q[Len(p) + i]
  <2>1. Len(p) + 1 \in 1 .. Len(q) + 1 /\ Len(q) \in Len(p) .. Len(q)
      BY <1>1
  <2>2. SubSeq(q, Len(p) + 1, Len(q)) \in Seq(S) /\ Len(t) = Len(q) - (Len(p) + 1) + 1
      BY <1>1, <2>1, SubSeqProperties
  <2>3. \A i \in 1 .. Len(r) : t[i] = q[Len(p) + 1 + i - 1]
      BY <1>1, <2>1, SubSeqProperties
  <2> QED BY <1>1, <2>2, <2>3
<1> HIDE DEF t
<1>4. t = r
    BY <1>1, <1>3, SeqEqual
<1> QED BY <1>1, <1>2, <1>4 DEF q, t

\* A sequence is its prefix and the rest.
LEMMA PrefixSplit ==
    ASSUME NEW S, NEW p \in Seq(S), NEW q \in Seq(S), IsPrefix(p, q)
    PROVE  /\ SubSeq(q, Len(p) + 1, Len(q)) \in Seq(S)
           /\ q = p \o SubSeq(q, Len(p) + 1, Len(q))
<1> DEFINE r == SubSeq(q, Len(p) + 1, Len(q))
           t == p \o r
<1>1. Len(p) <= Len(q) /\ Len(p) \in Nat /\ Len(q) \in Nat /\ \A i \in 1 .. Len(p) : p[i] = q[i]
    BY PrefixIs
<1>2. r \in Seq(S) /\ Len(r) = Len(q) - Len(p) /\ \A i \in 1 .. Len(r) : r[i] = q[Len(p) + i]
  <2>1. Len(p) + 1 \in 1 .. Len(q) + 1 /\ Len(q) \in Len(p) .. Len(q)
      BY <1>1
  <2>2. r \in Seq(S) /\ Len(r) = Len(q) - (Len(p) + 1) + 1
      BY <1>1, <2>1, SubSeqProperties
  <2>3. \A i \in 1 .. Len(q) - Len(p) : r[i] = q[Len(p) + 1 + i - 1]
      BY <1>1, <2>1, SubSeqProperties
  <2> QED BY <1>1, <2>2, <2>3
<1> HIDE DEF r
<1>3. /\ t \in Seq(S) /\ Len(t) = Len(q) /\ \A i \in 1 .. Len(p) : t[i] = p[i]
      /\ \A i \in 1 .. Len(r) : t[Len(p) + i] = r[i]
    BY <1>1, <1>2, ConcatProperties
<1> HIDE DEF t
<1>4. ASSUME NEW i \in 1 .. Len(q) PROVE t[i] = q[i]
  <2>1. CASE i \in 1 .. Len(p)
      BY <1>1, <1>3, <2>1
  <2>2. CASE i \notin 1 .. Len(p)
    <3>1. i - Len(p) \in 1 .. Len(r) /\ Len(p) + (i - Len(p)) = i
        BY <1>1, <1>2, <2>2
    <3> QED BY <1>2, <1>3, <3>1
  <2> QED BY <2>1, <2>2
<1>5. t = q
    BY <1>3, <1>4, SeqEqual
<1> QED BY <1>2, <1>5 DEF r, t

\* The last element of what follows a prefix.
LEMMA ConcatFront ==
    ASSUME NEW S, NEW p \in Seq(S), NEW r \in Seq(S), r # <<>>
    PROVE  p \o r # <<>> /\ Front(p \o r) = p \o Front(r) /\ Last(p \o r) = Last(r)
<1> DEFINE q == p \o r
           f == p \o Front(r)
<1>1. /\ q \in Seq(S) /\ Len(q) = Len(p) + Len(r) /\ Len(p) \in Nat /\ Len(r) \in Nat \ {0}
      /\ \A i \in 1 .. Len(p) : q[i] = p[i]
      /\ \A i \in 1 .. Len(r) : q[Len(p) + i] = r[i]
    BY ConcatProperties
<1>2. Front(r) \in Seq(S) /\ Len(Front(r)) = Len(r) - 1 /\ \A i \in 1 .. Len(r) - 1 : Front(r)[i] = r[i]
    BY FrontLast
<1>3. /\ f \in Seq(S) /\ Len(f) = Len(q) - 1
      /\ \A i \in 1 .. Len(p) : f[i] = p[i]
      /\ \A i \in 1 .. Len(r) - 1 : f[Len(p) + i] = r[i]
  <2> DEFINE h == Front(r)
  <2> HIDE DEF h
  <2>1. h \in Seq(S) /\ Len(h) = Len(r) - 1 /\ \A i \in 1 .. Len(r) - 1 : h[i] = r[i]
      BY <1>2 DEF h
  <2>2. /\ p \o h \in Seq(S) /\ Len(p \o h) = Len(p) + Len(h)
        /\ \A i \in 1 .. Len(p) : (p \o h)[i] = p[i]
        /\ \A i \in 1 .. Len(h) : (p \o h)[Len(p) + i] = h[i]
    <3>1. h \in Seq(S)
        BY <2>1
    <3> QED BY <3>1
  <2> QED BY <1>1, <2>1, <2>2 DEF h
<1> HIDE DEF q, f
<1>4. q # <<>>
    BY <1>1
<1>5. Front(q) \in Seq(S) /\ Len(Front(q)) = Len(q) - 1 /\ \A i \in 1 .. Len(q) - 1 : Front(q)[i] = q[i]
    BY <1>1, <1>4, FrontLast
<1>6. ASSUME NEW i \in 1 .. Len(q) - 1 PROVE Front(q)[i] = f[i]
  <2>1. CASE i \in 1 .. Len(p)
      BY <1>1, <1>3, <1>5, <2>1
  <2>2. CASE i \notin 1 .. Len(p)
    <3>1. i - Len(p) \in 1 .. Len(r) - 1 /\ i - Len(p) \in 1 .. Len(r) /\ Len(p) + (i - Len(p)) = i
        BY <1>1, <2>2
    <3> QED BY <1>1, <1>3, <1>5, <3>1, ZenonT(60)
  <2> QED BY <2>1, <2>2
<1>7. Front(q) = f
    BY <1>3, <1>5, <1>6, SeqEqual
<1>8. Last(q) = Last(r)
    BY <1>1 DEF Last
<1> QED BY <1>4, <1>7, <1>8 DEF q, f

\* What a sequence begins with, its front begins with, unless it is all of it.
LEMMA PrefixFront ==
    ASSUME NEW S, NEW p \in Seq(S), NEW q \in Seq(S), q # <<>>
    PROVE  IsPrefix(p, q) <=> p = q \/ IsPrefix(p, Front(q))
<1>1. /\ Front(q) \in Seq(S) /\ Len(Front(q)) = Len(q) - 1 /\ \A i \in 1 .. Len(q) - 1 : Front(q)[i] = q[i]
      /\ Len(q) \in Nat \ {0} /\ Len(p) \in Nat
    BY FrontLast
<1> DEFINE f == Front(q)
<1> HIDE DEF f
<1>2. IsPrefix(p, f) <=> Len(p) <= Len(q) - 1 /\ \A i \in 1 .. Len(p) : p[i] = q[i]
  <2>1. IsPrefix(p, f) <=> Len(p) <= Len(q) - 1 /\ \A i \in 1 .. Len(p) : p[i] = f[i]
      BY <1>1, PrefixIs DEF f
  <2> QED BY <1>1, <2>1 DEF f
<1>3. IsPrefix(p, q) <=> Len(p) <= Len(q) /\ \A i \in 1 .. Len(p) : p[i] = q[i]
    BY PrefixIs
<1>4. p = q <=> Len(p) = Len(q) /\ \A i \in 1 .. Len(p) : p[i] = q[i]
    BY SeqEqual
<1> QED BY <1>1, <1>2, <1>3, <1>4 DEF f

\* What follows the same beginning tells two sequences apart.
LEMMA ConcatCancel ==
    ASSUME NEW S, NEW p \in Seq(S), NEW r \in Seq(S), NEW s \in Seq(S), p \o r = p \o s
    PROVE  r = s
<1>1. r = SubSeq(p \o r, Len(p) + 1, Len(p \o r))
    BY PrefixConcat
<1>2. s = SubSeq(p \o s, Len(p) + 1, Len(p \o s))
    BY PrefixConcat
<1> QED BY <1>1, <1>2
-----------------------------------------------------------------------------
\* The values of a function on a finite set are finitely many.
LEMMA FiniteRange ==
    ASSUME NEW S, IsFiniteSet(S), NEW F, F = [x \in S |-> F[x]]
    PROVE  IsFiniteSet({F[x] : x \in S})
<1>1. F \in Surjection(S, {F[x] : x \in S})
    BY DEF Surjection
<1> QED BY <1>1, FS_Surjection

\* How a sequence begins.
LEMMA Beginning ==
    ASSUME NEW S, NEW s \in Seq(S), NEW k \in 0 .. Len(s)
    PROVE  /\ SubSeq(s, 1, k) \in Seq(S) /\ Len(SubSeq(s, 1, k)) = k
           /\ \A i \in 1 .. k : SubSeq(s, 1, k)[i] = s[i]
<1> DEFINE b == SubSeq(s, 1, k)
<1>1. k \in Int /\ 1 \in Int /\ Len(s) \in Nat /\ \A i \in 1 .. k : s[i] \in S
    OBVIOUS
<1>2. /\ b \in Seq(S) /\ Len(b) = IF 1 <= k THEN k - 1 + 1 ELSE 0
      /\ \A i \in 1 .. k - 1 + 1 : b[i] = s[1 + i - 1]
    BY <1>1, SubSeqProperties
<1> HIDE DEF b
<1>3. \A i \in 1 .. k : b[i] = s[i]
  <2> TAKE i \in 1 .. k
  <2>1. i \in 1 .. k - 1 + 1 /\ 1 + i - 1 = i
      BY <1>1
  <2> QED BY <1>2, <2>1
<1>4. Len(b) = k
    BY <1>1, <1>2
<1> QED BY <1>2, <1>3, <1>4 DEF b
=============================================================================
