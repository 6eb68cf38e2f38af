------------------------------- MODULE ListLemmas -------------------------------
(***************************************************************************)
(* Facts about numbers and sequences that the proofs of several components *)
(* use: the smallest number of a set, the loops that stop at the first match *)
(* of a list, a list with an element taken out, or with each one replaced,   *)
(* stacks, and a set as a list.                                             *)
(***************************************************************************)
EXTENDS Naturals, Sequences, SequencesExt, SequenceTheorems, FiniteSetTheorems,
        WellFoundedInduction, TLAPS

\* Every nonempty set of numbers has a smallest one; a proof by induction is one that the
\* smallest counterexample is none.
LEMMA Smallest ==
    ASSUME NEW T \in SUBSET Nat, T # {}
    PROVE  \E x \in T : \A y \in T : x <= y
<1> DEFINE R == OpToRel(<, Nat)
<1>1. IsWellFoundedOn(R, Nat)
  BY NatLessThanWellFounded
<1>2. PICK x \in T : \A y \in T : ~ (<<y, x>> \in R)
  <2> HIDE DEF R
  <2> QED
    BY <1>1, WFMin
<1>3. \A y \in T : ~(y < x)
  BY <1>2 DEF OpToRel
<1> QED
  BY <1>3

\* The position at which a loop over a list stops.
LEMMA MinIs ==
    ASSUME NEW T \in SUBSET Nat, T # {}
    PROVE  Min(T) \in T /\ \A y \in T : Min(T) <= y
BY Smallest DEF Min

\* xdebug_llist_remove(): the elements behind it move up by one.
LEMMA RemoveAtIs ==
    ASSUME NEW S, NEW s \in Seq(S), NEW i \in 1..Len(s)
    PROVE /\ RemoveAt(s, i) \in Seq(S)
          /\ Len(RemoveAt(s, i)) = Len(s) - 1
          /\ \A j \in 1..(Len(s) - 1) : RemoveAt(s, i)[j] = IF j < i THEN s[j] ELSE s[j + 1]
<1> DEFINE a == SubSeq(s, 1, i - 1)
           b == SubSeq(s, i + 1, Len(s))
           n == Len(s)
<1>1. n \in Nat /\ i \in Int /\ 1 <= i /\ i <= n /\ \A j \in 1..n : s[j] \in S
  BY LenProperties, ElementOfSeq
<1>2. /\ a \in Seq(S) /\ Len(a) = i - 1
      /\ \A j \in 1..(i - 1) : a[j] = s[j]
  <2>1. i - 1 \in Int /\ \A j \in 1..(i - 1) : s[j] \in S
    BY <1>1
  <2>2. /\ SubSeq(s, 1, i - 1) \in Seq(S)
        /\ Len(SubSeq(s, 1, i - 1)) = IF 1 <= i - 1 THEN (i - 1) - 1 + 1 ELSE 0
        /\ \A j \in 1..((i - 1) - 1 + 1) : SubSeq(s, 1, i - 1)[j] = s[1 + j - 1]
    BY <2>1, SubSeqProperties
  <2>3. /\ (IF 1 <= i - 1 THEN (i - 1) - 1 + 1 ELSE 0) = i - 1 /\ (i - 1) - 1 + 1 = i - 1
        /\ \A j \in 1..(i - 1) : 1 + j - 1 = j
    BY <1>1
  <2> QED
    BY <2>2, <2>3
<1>3. /\ b \in Seq(S) /\ Len(b) = n - i
      /\ \A j \in 1..(n - i) : b[j] = s[i + j]
  <2>1. i + 1 \in Int /\ n \in Int /\ \A j \in (i + 1)..n : s[j] \in S
    BY <1>1
  <2>2. /\ SubSeq(s, i + 1, n) \in Seq(S)
        /\ Len(SubSeq(s, i + 1, n)) = IF i + 1 <= n THEN n - (i + 1) + 1 ELSE 0
        /\ \A j \in 1..(n - (i + 1) + 1) : SubSeq(s, i + 1, n)[j] = s[(i + 1) + j - 1]
    <3> HIDE DEF n
    <3> QED
      BY <2>1, SubSeqProperties
  <2>3. /\ (IF i + 1 <= n THEN n - (i + 1) + 1 ELSE 0) = n - i /\ n - (i + 1) + 1 = n - i
        /\ \A j \in 1..(n - i) : (i + 1) + j - 1 = i + j
    <3> HIDE DEF n
    <3> QED
      BY <1>1
  <2> QED
    BY <2>2, <2>3
<1> HIDE DEF a, b, n
<1>4. /\ a \o b \in Seq(S) /\ Len(a \o b) = Len(a) + Len(b)
      /\ \A j \in 1..(Len(a) + Len(b)) : (a \o b)[j] = IF j <= Len(a) THEN a[j] ELSE b[j - Len(a)]
  BY <1>2, <1>3, ConcatProperties
<1>5. RemoveAt(s, i) = a \o b
  BY DEF RemoveAt, a, b
<1>6. (i - 1) + (n - i) = n - 1
  BY <1>1
<1>7. ASSUME NEW j \in 1..(n - 1)
      PROVE  (a \o b)[j] = IF j < i THEN s[j] ELSE s[j + 1]
  <2>1. CASE j < i
    BY <1>1, <1>2, <1>3, <1>4, <1>6, <2>1
  <2>2. CASE ~(j < i)
    <3>1. j - (i - 1) \in 1..(n - i) /\ i + (j - (i - 1)) = j + 1 /\ ~(j <= i - 1)
      BY <1>1, <2>2
    <3> QED
      <4>1. (a \o b)[j] = b[j - (i - 1)]
        BY <1>2, <1>3, <1>4, <1>6, <3>1
      <4>2. b[j - (i - 1)] = s[j + 1]
        BY <1>3, <3>1
      <4> QED
        BY <2>2, <4>1, <4>2
  <2> QED
    BY <2>1, <2>2
<1> QED
  BY <1>2, <1>3, <1>4, <1>5, <1>6, <1>7 DEF n

\* A list that is mapped element by element.
LEMMA MappedIs ==
    ASSUME NEW S, NEW s \in Seq(S), NEW t, t = [k \in DOMAIN s |-> t[k]],
           \A k \in DOMAIN s : t[k] \in S
    PROVE  t \in Seq(S) /\ Len(t) = Len(s) /\ DOMAIN t = DOMAIN s
<1>1. Len(s) \in Nat /\ DOMAIN s = 1..Len(s)
  BY LenProperties
<1>2. t \in [1..Len(s) -> S]
  BY <1>1
<1>3. t \in Seq(S)
  BY <1>1, <1>2, SeqDef
<1> QED
  BY <1>1, <1>2, <1>3, LenProperties

\* A stack with one more on top.
LEMMA PushIs ==
    ASSUME NEW S, NEW s \in Seq(S), NEW x \in S
    PROVE  /\ Append(s, x) \in Seq(S)
           /\ Len(s) \in Nat /\ Len(Append(s, x)) = Len(s) + 1
           /\ DOMAIN s = 1..Len(s) /\ DOMAIN Append(s, x) = 1..(Len(s) + 1)
           /\ \A i \in 1..Len(s) : Append(s, x)[i] = s[i]
           /\ Append(s, x)[Len(s) + 1] = x
<1>1. Len(s) \in Nat /\ DOMAIN s = 1..Len(s)
  BY LenProperties
<1>2. /\ Append(s, x) \in Seq(S) /\ Len(Append(s, x)) = Len(s) + 1
      /\ \A i \in 1..Len(s) : Append(s, x)[i] = s[i]
      /\ Append(s, x)[Len(s) + 1] = x
  BY <1>1, AppendProperties
<1>3. DOMAIN Append(s, x) = 1..(Len(s) + 1)
  BY <1>2, LenProperties
<1> QED
  BY <1>1, <1>2, <1>3

\* A stack without the one on top.
LEMMA PopIs ==
    ASSUME NEW S, NEW s \in Seq(S), s # << >>
    PROVE  /\ Len(s) \in Nat /\ Len(s) >= 1 /\ DOMAIN s = 1..Len(s)
           /\ Last(s) = s[Len(s)] /\ s[Len(s)] \in S
           /\ Front(s) \in Seq(S) /\ Len(Front(s)) = Len(s) - 1
           /\ DOMAIN Front(s) = 1..(Len(s) - 1)
           /\ \A i \in 1..(Len(s) - 1) : Front(s)[i] = s[i]
<1>1. Len(s) \in Nat /\ DOMAIN s = 1..Len(s) /\ Len(s) >= 1
  BY LenProperties, EmptySeq
<1>2. Last(s) = s[Len(s)] /\ \A i \in 1..Len(s) : s[i] \in S
  BY ElementOfSeq DEF Last
<1>3. /\ SubSeq(s, 1, Len(s) - 1) \in Seq(S)
      /\ Len(SubSeq(s, 1, Len(s) - 1)) = IF 1 <= Len(s) - 1 THEN (Len(s) - 1) - 1 + 1 ELSE 0
      /\ \A i \in 1..((Len(s) - 1) - 1 + 1) : SubSeq(s, 1, Len(s) - 1)[i] = s[1 + i - 1]
  <2>1. Len(s) - 1 \in Int /\ \A i \in 1..(Len(s) - 1) : s[i] \in S
    BY <1>1, <1>2
  <2> QED
    BY <2>1, SubSeqProperties
<1>4. /\ (IF 1 <= Len(s) - 1 THEN (Len(s) - 1) - 1 + 1 ELSE 0) = Len(s) - 1
      /\ (Len(s) - 1) - 1 + 1 = Len(s) - 1
      /\ \A i \in 1..(Len(s) - 1) : 1 + i - 1 = i
  BY <1>1
<1>5. /\ Front(s) \in Seq(S) /\ Len(Front(s)) = Len(s) - 1
      /\ \A i \in 1..(Len(s) - 1) : Front(s)[i] = s[i]
  BY <1>3, <1>4 DEF Front
<1>6. DOMAIN Front(s) = 1..(Len(s) - 1)
  BY <1>5, LenProperties
<1> QED
  BY <1>1, <1>2, <1>5, <1>6

\* The elements of a set, one after the other.
LEMMA SetToSeqIs ==
    ASSUME NEW S, IsFiniteSet(S)
    PROVE  SetToSeq(S) \in Seq(S) /\ ToSet(SetToSeq(S)) = S
<1> DEFINE n == Cardinality(S)
           f == SetToSeq(S)
<1>1. n \in Nat /\ ExistsBijection(1..n, S)
  BY FS_CardinalityType
<1>2. \E g \in [1..n -> S] : IsInjective(g)
  BY <1>1 DEF ExistsBijection, Bijection, Injection
<1>3. f \in [1..n -> S] /\ IsInjective(f)
  BY <1>2 DEF SetToSeq
<1>4. f \in Injection(1..n, S)
  BY <1>3 DEF Injection
<1>5. Cardinality(1..n) = n
  BY <1>1, FS_Interval
<1>6. f \in Surjection(1..n, S)
  BY <1>4, <1>5, FS_Injection
<1>7. f \in Seq(S)
  BY <1>1, <1>3, SeqDef
<1>8. DOMAIN f = 1..n
  BY <1>3
<1>9. ToSet(f) = S
  BY <1>3, <1>6, <1>8 DEF ToSet, Surjection
<1> QED
  BY <1>7, <1>9

\* One list behind the other.
LEMMA ConcatIs ==
    ASSUME NEW S, NEW a \in Seq(S), NEW b \in Seq(S)
    PROVE  /\ a \o b \in Seq(S) /\ Len(a) \in Nat /\ Len(b) \in Nat
           /\ Len(a \o b) = Len(a) + Len(b)
           /\ \A i \in 1..Len(a) : (a \o b)[i] = a[i]
           /\ \A i \in 1..Len(b) : (a \o b)[Len(a) + i] = b[i]
<1> DEFINE c == a \o b
           m == Len(a)
           n == Len(b)
<1>1. /\ c \in Seq(S) /\ Len(c) = m + n
      /\ \A i \in 1..(m + n) : c[i] = IF i <= m THEN a[i] ELSE b[i - m]
  BY ConcatProperties
<1>2. m \in Nat /\ n \in Nat
  BY LenProperties
<1> HIDE DEF c, m, n
<1>3. \A i \in 1..m : c[i] = a[i]
  BY <1>1, <1>2
<1>4. ASSUME NEW i \in 1..n PROVE c[m + i] = b[i]
  <2>1. m + i \in 1..(m + n) /\ ~(m + i <= m) /\ (m + i) - m = i
    BY <1>2
  <2> QED
    BY <1>1, <2>1
<1> QED
  BY <1>1, <1>2, <1>3, <1>4 DEF c, m, n

LEMMA Regrouped ==
    ASSUME NEW S, NEW a \in Seq(S), NEW b \in Seq(S), NEW c \in Seq(S), NEW d, d = (a \o b) \o c
    PROVE  a \o (b \o c) = d
<1>1. \A T : \A x, y, z \in Seq(T) : (x \o y) \o z = x \o (y \o z)
  BY ConcatAssociative, Zenon
<1>2. (a \o b) \o c = a \o (b \o c)
  BY <1>1
<1> QED
  BY <1>2

\* A list of numbers has a largest one: the shortest list without one is none.
LEMMA LargestIs ==
    ASSUME NEW s \in Seq(Nat), s # << >>
    PROVE  Max(ToSet(s)) \in Nat
<1> DEFINE HasMax(t) == \E m \in ToSet(t) : \A x \in ToSet(t) : m >= x
           T == {n \in Nat : \E t \in Seq(Nat) : t # << >> /\ Len(t) = n /\ ~HasMax(t)}
<1>1. T = {}
  <2> SUFFICES ASSUME T # {} PROVE FALSE
    OBVIOUS
  <2>1. PICK n \in T : \A m \in T : n <= m
    BY Smallest
  <2>2. PICK t \in Seq(Nat) : t # << >> /\ Len(t) = n /\ ~HasMax(t)
    BY <2>1
  <2>3. /\ n \in Nat /\ n >= 1 /\ DOMAIN t = 1..n /\ Last(t) = t[n] /\ t[n] \in Nat
        /\ Front(t) \in Seq(Nat) /\ Len(Front(t)) = n - 1 /\ DOMAIN Front(t) = 1..(n - 1)
        /\ \A i \in 1..(n - 1) : Front(t)[i] = t[i]
    BY <2>2, PopIs
  <2>4. ToSet(t) = ToSet(Front(t)) \cup {t[n]} /\ ToSet(Front(t)) \subseteq Nat
    <3>1. ToSet(t) = {t[i] : i \in 1..n} /\ ToSet(Front(t)) = {t[i] : i \in 1..(n - 1)}
      BY <2>3 DEF ToSet
    <3>2. 1..n = (1..(n - 1)) \cup {n}
      BY <2>3
    <3>3. \A i \in 1..n : t[i] \in Nat
      BY <2>2, <2>3, ElementOfSeq
    <3> QED
      BY <3>1, <3>2, <3>3
  <2>5. CASE n = 1
    <3>1. ToSet(t) = {t[n]}
      BY <2>3, <2>4, <2>5 DEF ToSet
    <3> QED
      BY <2>2, <2>3, <3>1
  <2>6. CASE n # 1
    <3>1. n - 1 \in Nat /\ ~(n <= n - 1) /\ Front(t) # << >>
      BY <2>3, <2>6, EmptySeq
    <3>2. HasMax(Front(t))
      BY <2>1, <2>3, <3>1
    <3>3. PICK m \in ToSet(Front(t)) : \A x \in ToSet(Front(t)) : m >= x
      BY <3>2
    <3>4. m \in Nat /\ t[n] \in Nat
      BY <2>3, <2>4
    <3>5. CASE m >= t[n]
      BY <2>2, <2>4, <3>3, <3>5
    <3>6. CASE ~(m >= t[n])
      <4>1. \A x \in ToSet(Front(t)) : t[n] >= x
        BY <2>4, <3>3, <3>4, <3>6
      <4> QED
        BY <2>2, <2>4, <3>4, <4>1
    <3> QED
      BY <3>5, <3>6
  <2> QED
    BY <2>5, <2>6
<1>2. Len(s) \in Nat
  BY LenProperties
<1>3. HasMax(s)
  BY <1>1, <1>2
<1>4. ToSet(s) \subseteq Nat
  BY ElementOfSeq, LenProperties DEF ToSet
<1> QED
  BY <1>3, <1>4 DEF Max
=============================================================================
