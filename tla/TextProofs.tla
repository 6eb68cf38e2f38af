------------------------------- MODULE TextProofs -------------------------------
(***************************************************************************)
(* What holds of what the debugger reads, of any size and whatever it says: *)
(* of PathMaps for all map files, of CommandParser for all lines that a     *)
(* client sends, and of VariableExport for all values and the names that    *)
(* their children are exported with.                                       *)
(***************************************************************************)
EXTENDS PathMaps, CommandParser, VariableExport, ListLemmas

-----------------------------------------------------------------------------
(* The binary search: its recursive function exists, and it misses nothing. *)

Pairs(s) == (1..(Len(s) + 1)) \X (0..Len(s))
Width(p) == p[2] - p[1] + 1
Half(p)  == p[1] + (p[2] - p[1]) \div 2

\* One look at the middle of what is left, with what is found on either side.
Look(s, n, g, p) ==
    IF p[1] > p[2] THEN 0
    ELSE IF n < s[Half(p)][1] THEN g[<<p[1], Half(p) - 1>>]
    ELSE IF n > s[Half(p)][2] THEN g[<<Half(p) + 1, p[2]>>]
    ELSE Half(p)

Narrow(s, d) == {p \in Pairs(s) : Width(p) <= d}

\* Both sides of the middle are less wide, by one at least.
LEMMA SidesAreNarrower ==
    ASSUME NEW s, Len(s) \in Nat, NEW p \in Pairs(s), p[1] <= p[2]
    PROVE  /\ p[1] \in 1..(Len(s) + 1) /\ p[2] \in 0..Len(s)
           /\ Half(p) \in p[1]..p[2]
           /\ <<p[1], Half(p) - 1>> \in Pairs(s) /\ Width(<<p[1], Half(p) - 1>>) \in 0..(Width(p) - 1)
           /\ <<Half(p) + 1, p[2]>> \in Pairs(s) /\ Width(<<Half(p) + 1, p[2]>>) \in 0..(Width(p) - 1)
<1> DEFINE m == Half(p)
           l == p[1]
           h == p[2]
<1>1. l \in 1..(Len(s) + 1) /\ h \in 0..Len(s)
  BY DEF Pairs
<1>2. m \in Int /\ l <= m /\ m <= h
  BY <1>1 DEF Half
<1>3. m - 1 \in 0..Len(s) /\ m + 1 \in 1..(Len(s) + 1)
  BY <1>1, <1>2
<1>4. /\ (m - 1) - l + 1 \in 0..((h - l + 1) - 1)
      /\ h - (m + 1) + 1 \in 0..((h - l + 1) - 1)
  BY <1>1, <1>2, SMTT(30)
<1> HIDE DEF m, l, h
<1>5. <<l, m - 1>> \in Pairs(s) /\ <<m + 1, h>> \in Pairs(s)
  BY <1>1, <1>3 DEF Pairs
<1>6. Width(<<l, m - 1>>) = (m - 1) - l + 1 /\ Width(<<m + 1, h>>) = h - (m + 1) + 1
      /\ Width(p) = h - l + 1
  BY DEF Width, l, h
<1> QED
  BY <1>1, <1>2, <1>4, <1>5, <1>6 DEF m, l, h

LEMMA SearchExists ==
    ASSUME NEW s, Len(s) \in Nat, NEW n
    PROVE  \E g : g = [p \in Pairs(s) |-> Look(s, n, g, p)]
<1> DEFINE Upto(d) == \E g : g = [p \in Narrow(s, d) |-> Look(s, n, g, p)]
           T == {d \in Nat : ~Upto(d)}
<1>1. T = {}
  <2> SUFFICES ASSUME T # {} PROVE FALSE
    OBVIOUS
  <2>1. PICK d \in T : \A x \in T : d <= x
    <3> HIDE DEF Upto
    <3> QED
      BY Smallest
  <2>2. ASSUME NEW g, g = [p \in Narrow(s, d - 1) |-> Look(s, n, g, p)], d # 0
        PROVE  FALSE
    <3> DEFINE k == [p \in Narrow(s, d) |-> Look(s, n, g, p)]
    <3>1. ASSUME NEW p \in Narrow(s, d) PROVE Look(s, n, g, p) = Look(s, n, k, p)
      <4>1. d \in Nat /\ p \in Pairs(s) /\ Width(p) <= d
        BY <2>1 DEF Narrow
      <4>2. ASSUME NEW q \in Narrow(s, d - 1) PROVE g[q] = k[q]
        <5>1. Width(q) \in Int
          BY DEF Narrow, Pairs, Width
        <5>2. q \in Narrow(s, d)
          BY <4>1, <5>1 DEF Narrow
        <5>3. g[q] = Look(s, n, g, q)
          BY <2>2
        <5> QED
          BY <5>2, <5>3
      <4>3. ASSUME p[1] <= p[2]
            PROVE  <<p[1], Half(p) - 1>> \in Narrow(s, d - 1) /\ <<Half(p) + 1, p[2]>> \in Narrow(s, d - 1)
        <5>1. /\ <<p[1], Half(p) - 1>> \in Pairs(s) /\ Width(<<p[1], Half(p) - 1>>) \in 0..(Width(p) - 1)
              /\ <<Half(p) + 1, p[2]>> \in Pairs(s) /\ Width(<<Half(p) + 1, p[2]>>) \in 0..(Width(p) - 1)
          BY <4>1, <4>3, SidesAreNarrower
        <5>2. Width(p) \in Int
          BY <4>1 DEF Pairs, Width
        <5>3. \A w \in 0..(Width(p) - 1) : w <= d - 1
          BY <4>1, <5>2
        <5> QED
          BY <5>1, <5>3 DEF Narrow
      <4> HIDE DEF k
      <4>4. CASE p[1] <= p[2]
        BY <4>2, <4>3, <4>4 DEF Look
      <4>5. CASE ~(p[1] <= p[2])
        <5>1. p[1] \in Int /\ p[2] \in Int
          BY <4>1 DEF Pairs
        <5>2. p[1] > p[2]
          BY <4>5, <5>1
        <5> QED
          BY <5>2 DEF Look
      <4> QED
        BY <4>4, <4>5
    <3>2. k = [p \in Narrow(s, d) |-> Look(s, n, k, p)]
      BY <3>1
    <3> HIDE DEF k
    <3>3. Upto(d)
      BY <3>2
    <3> QED
      BY <2>1, <3>3
  <2>3. CASE d = 0
    <3> DEFINE k == [p \in Narrow(s, 0) |-> 0]
    <3>1. ASSUME NEW p \in Narrow(s, 0), NEW f PROVE Look(s, n, f, p) = 0
      <4>1. p[1] \in Int /\ p[2] \in Int /\ Width(p) <= 0
        BY DEF Narrow, Pairs
      <4>2. p[1] > p[2]
        BY <4>1 DEF Width
      <4> QED
        BY <4>2 DEF Look
    <3>2. k = [p \in Narrow(s, 0) |-> Look(s, n, k, p)]
      BY <3>1
    <3> HIDE DEF k
    <3>3. Upto(0)
      BY <3>2
    <3> QED
      BY <2>1, <2>3, <3>3
  <2>4. CASE d # 0
    <3>1. d - 1 \in Nat /\ ~(d <= d - 1)
      BY <2>1, <2>4
    <3>2. Upto(d - 1)
      <4> HIDE DEF Upto
      <4> QED
        BY <2>1, <3>1
    <3> QED
      BY <2>2, <2>4, <3>2
  <2> QED
    BY <2>3, <2>4
<1>2. Upto(Len(s) + 1)
  <2> HIDE DEF Upto
  <2> QED
    BY <1>1
<1>3. Narrow(s, Len(s) + 1) = Pairs(s)
  <2>1. ASSUME NEW p \in Pairs(s) PROVE Width(p) <= Len(s) + 1
    BY DEF Pairs, Width
  <2> QED
    BY <2>1 DEF Narrow
<1> QED
  BY <1>2, <1>3

\* Intervals one behind the other.
Sorted(s) ==
    /\ s \in Seq(Int \X Int)
    /\ \A k \in 1..Len(s) : s[k][1] <= s[k][2]
    /\ \A j, k \in 1..Len(s) : j < k => s[j][2] < s[k][1]

\* What the search returns for the part of the list from p[1] to p[2].
Finds(s, n, p, r) ==
    \/ r \in p[1]..p[2] /\ s[r][1] <= n /\ n <= s[r][2]
    \/ r = 0 /\ \A k \in p[1]..p[2] : ~(s[k][1] <= n /\ n <= s[k][2])

LEMMA SearchFinds ==
    ASSUME NEW s, Sorted(s), NEW n \in Int,
           NEW g, g = [p \in Pairs(s) |-> Look(s, n, g, p)],
           NEW q \in Pairs(s), q[1] <= q[2] + 1
    PROVE  Finds(s, n, q, g[q])
<1> DEFINE T == {d \in Nat : \E p \in Pairs(s) : Width(p) = d - 1 /\ ~Finds(s, n, p, g[p])}
<1>0. Len(s) \in Nat
  BY LenProperties DEF Sorted
<1>1. T = {}
  <2> SUFFICES ASSUME T # {} PROVE FALSE
    OBVIOUS
  <2>1. PICK d \in T : \A x \in T : d <= x
    BY Smallest
  <2>2. PICK p \in Pairs(s) : Width(p) = d - 1 /\ ~Finds(s, n, p, g[p])
    BY <2>1
  <2>3. p[1] \in 1..(Len(s) + 1) /\ p[2] \in 0..Len(s) /\ g[p] = Look(s, n, g, p)
    BY <2>2 DEF Pairs
  <2>4. CASE p[1] > p[2]
    <3>1. g[p] = 0
      BY <2>3, <2>4 DEF Look
    <3>2. p[1]..p[2] = {}
      BY <2>3, <2>4
    <3> QED
      BY <2>2, <3>1, <3>2 DEF Finds
  <2>5. CASE p[1] <= p[2]
    <3> DEFINE m == Half(p)
               below == <<p[1], m - 1>>
               above == <<m + 1, p[2]>>
    <3>1. /\ m \in p[1]..p[2]
          /\ below \in Pairs(s) /\ Width(below) \in 0..(Width(p) - 1)
          /\ above \in Pairs(s) /\ Width(above) \in 0..(Width(p) - 1)
      BY <1>0, <2>2, <2>5, SidesAreNarrower
    <3>2. ASSUME NEW e \in Pairs(s), Width(e) \in 0..(Width(p) - 1) PROVE Finds(s, n, e, g[e])
      <4>1. Width(e) + 1 \in Nat /\ (Width(e) + 1) - 1 = Width(e) /\ ~(d <= Width(e) + 1)
        BY <2>1, <2>2, <3>2
      <4> QED
        BY <2>1, <3>2, <4>1
    <3>3. Finds(s, n, below, g[below]) /\ Finds(s, n, above, g[above])
      BY <3>1, <3>2
    <3>4. m \in 1..Len(s) /\ m \in Int
      BY <2>3, <3>1, SMTT(30)
    <3>5. \A k \in 1..Len(s) : s[k] \in Int \X Int
      BY <1>0, ElementOfSeq DEF Sorted
    <3>6. ~(p[1] > p[2])
      BY <2>3, <2>5
    <3> HIDE DEF m
    <3>7. CASE n < s[m][1]
      <4>1. g[p] = g[below]
        BY <2>3, <3>6, <3>7 DEF Look, m
      <4>2. ASSUME NEW k \in m..p[2] PROVE ~(s[k][1] <= n /\ n <= s[k][2])
        <5>1. k \in 1..Len(s) /\ (k = m \/ m < k)
          BY <2>3, <3>4
        <5>2. k = m \/ s[m][2] < s[k][1]
          BY <3>4, <5>1 DEF Sorted
        <5>3. s[m][1] <= s[m][2]
          BY <3>4 DEF Sorted
        <5>4. s[m][1] \in Int /\ s[m][2] \in Int /\ s[k][1] \in Int /\ s[k][2] \in Int
          BY <3>4, <3>5, <5>1
        <5> QED
          BY <3>7, <5>2, <5>3, <5>4
      <4>3. below[1] = p[1] /\ below[2] = m - 1
        OBVIOUS
      <4>4. \A k \in p[1]..p[2] : k \in p[1]..(m - 1) \/ k \in m..p[2]
        BY <2>3, <3>4
      <4>5. \A k \in p[1]..(m - 1) : k \in p[1]..p[2]
        BY <2>3, <3>1, SMTT(30)
      <4> HIDE DEF below
      <4>6. Finds(s, n, p, g[p])
        BY <3>3, <4>1, <4>2, <4>3, <4>4, <4>5 DEF Finds
      <4> QED
        BY <2>2, <4>6
    <3>8. CASE n > s[m][2] /\ ~(n < s[m][1])
      <4>1. g[p] = g[above]
        BY <2>3, <3>6, <3>8 DEF Look, m
      <4>2. ASSUME NEW k \in p[1]..m PROVE ~(s[k][1] <= n /\ n <= s[k][2])
        <5>1. k \in 1..Len(s) /\ (k = m \/ k < m)
          BY <2>3, <3>1, <3>4, SMTT(30)
        <5>2. k = m \/ s[k][2] < s[m][1]
          BY <3>4, <5>1 DEF Sorted
        <5>3. s[m][1] <= s[m][2]
          BY <3>4 DEF Sorted
        <5>4. s[m][1] \in Int /\ s[m][2] \in Int /\ s[k][1] \in Int /\ s[k][2] \in Int
          BY <3>4, <3>5, <5>1
        <5> QED
          BY <3>8, <5>2, <5>3, <5>4
      <4>3. above[1] = m + 1 /\ above[2] = p[2]
        OBVIOUS
      <4>4. \A k \in p[1]..p[2] : k \in (m + 1)..p[2] \/ k \in p[1]..m
        BY <2>3, <3>4
      <4>5. \A k \in (m + 1)..p[2] : k \in p[1]..p[2]
        BY <2>3, <3>1, SMTT(30)
      <4> HIDE DEF above
      <4>6. Finds(s, n, p, g[p])
        BY <3>3, <4>1, <4>2, <4>3, <4>4, <4>5 DEF Finds
      <4> QED
        BY <2>2, <4>6
    <3>9. CASE ~(n < s[m][1]) /\ ~(n > s[m][2])
      <4>1. g[p] = m
        BY <2>3, <3>6, <3>9 DEF Look, m
      <4>2. s[m][1] \in Int /\ s[m][2] \in Int
        BY <3>4, <3>5
      <4>3. s[m][1] <= n /\ n <= s[m][2]
        BY <3>9, <4>2
      <4> QED
        BY <2>2, <3>1, <4>1, <4>3 DEF Finds
    <3> QED
      BY <3>7, <3>8, <3>9
  <2>6. p[1] > p[2] \/ p[1] <= p[2]
    BY <2>3
  <2> QED
    BY <2>4, <2>5, <2>6
<1>2. Width(q) + 1 \in Nat /\ (Width(q) + 1) - 1 = Width(q)
  BY <1>0 DEF Pairs, Width
<1> QED
  BY <1>1, <1>2

\* Whatever the list is, what the search returns is a position in it, or 0.
LEMMA SearchStays ==
    ASSUME NEW s, Len(s) \in Nat, NEW n,
           NEW g, g = [p \in Pairs(s) |-> Look(s, n, g, p)],
           NEW q \in Pairs(s), q[1] <= q[2] + 1
    PROVE  g[q] \in 0..Len(s)
<1> DEFINE T == {d \in Nat : \E p \in Pairs(s) : Width(p) = d - 1 /\ g[p] \notin 0..Len(s)}
<1>1. T = {}
  <2> SUFFICES ASSUME T # {} PROVE FALSE
    OBVIOUS
  <2>1. PICK d \in T : \A x \in T : d <= x
    BY Smallest
  <2>2. PICK p \in Pairs(s) : Width(p) = d - 1 /\ g[p] \notin 0..Len(s)
    BY <2>1
  <2>3. p[1] \in 1..(Len(s) + 1) /\ p[2] \in 0..Len(s) /\ g[p] = Look(s, n, g, p)
    BY <2>2 DEF Pairs
  <2>4. CASE p[1] > p[2]
    BY <2>2, <2>3, <2>4 DEF Look
  <2>5. CASE p[1] <= p[2]
    <3> DEFINE below == <<p[1], Half(p) - 1>>
               above == <<Half(p) + 1, p[2]>>
    <3>1. /\ Half(p) \in p[1]..p[2]
          /\ below \in Pairs(s) /\ Width(below) \in 0..(Width(p) - 1)
          /\ above \in Pairs(s) /\ Width(above) \in 0..(Width(p) - 1)
      BY <2>2, <2>5, SidesAreNarrower
    <3>2. ASSUME NEW e \in Pairs(s), Width(e) \in 0..(Width(p) - 1) PROVE g[e] \in 0..Len(s)
      <4>1. Width(e) + 1 \in Nat /\ (Width(e) + 1) - 1 = Width(e) /\ ~(d <= Width(e) + 1)
        BY <2>1, <2>2, <3>2
      <4> QED
        BY <2>1, <3>2, <4>1
    <3>3. g[below] \in 0..Len(s) /\ g[above] \in 0..Len(s)
      BY <3>1, <3>2
    <3>4. g[p] \in {0, g[below], g[above], Half(p)}
      BY <2>3 DEF Look
    <3>5. Half(p) \in 0..Len(s)
      BY <2>3, <3>1, SMTT(30)
    <3> QED
      BY <2>2, <3>3, <3>4, <3>5
  <2>6. p[1] > p[2] \/ p[1] <= p[2]
    BY <2>3
  <2> QED
    BY <2>4, <2>5, <2>6
<1>2. Width(q) + 1 \in Nat /\ (Width(q) + 1) - 1 = Width(q)
  BY DEF Pairs, Width
<1> QED
  BY <1>1, <1>2

\* The search in the model is the function of these lemmas.
LEMMA BisectSearches ==
    ASSUME NEW s, Len(s) \in Nat, NEW n
    PROVE  /\ <<1, Len(s)>> \in Pairs(s) /\ 1 <= Len(s) + 1
           /\ \E g : g = [p \in Pairs(s) |-> Look(s, n, g, p)] /\ Bisect(s, n) = g[<<1, Len(s)>>]
<1> DEFINE Is(g) == g = [p \in Pairs(s) |-> Look(s, n, g, p)]
<1>1. Is(CHOOSE g : Is(g))
  BY SearchExists
<1>2. Bisect(s, n) = (CHOOSE g : Is(g))[<<1, Len(s)>>]
  BY DEF Bisect, Pairs, Look, Half
<1>3. <<1, Len(s)>> \in Pairs(s) /\ 1 <= Len(s) + 1
  BY DEF Pairs
<1> DEFINE f == CHOOSE g : Is(g)
<1>4. f = [p \in Pairs(s) |-> Look(s, n, f, p)] /\ Bisect(s, n) = f[<<1, Len(s)>>]
  BY <1>1, <1>2
<1> HIDE DEF f
<1> QED
  BY <1>3, <1>4

LEMMA BisectStays ==
    ASSUME NEW s, Len(s) \in Nat, NEW n
    PROVE  Bisect(s, n) \in 0..Len(s)
<1>1. <<1, Len(s)>> \in Pairs(s) /\ <<1, Len(s)>>[1] <= <<1, Len(s)>>[2] + 1
  BY BisectSearches
<1>2. PICK g : g = [p \in Pairs(s) |-> Look(s, n, g, p)] /\ Bisect(s, n) = g[<<1, Len(s)>>]
  BY BisectSearches
<1>3. g[<<1, Len(s)>>] \in 0..Len(s)
  BY <1>1, <1>2, SearchStays
<1> QED
  BY <1>2, <1>3

LEMMA BisectIs ==
    ASSUME NEW s, Sorted(s), NEW n \in Int
    PROVE  /\ Bisect(s, n) \in 0..Len(s) /\ Len(s) \in Nat
           /\ Bisect(s, n) # 0 => s[Bisect(s, n)][1] <= n /\ n <= s[Bisect(s, n)][2]
           /\ Bisect(s, n) = 0 => \A k \in 1..Len(s) : ~(s[k][1] <= n /\ n <= s[k][2])
<1>1. Len(s) \in Nat
  BY LenProperties DEF Sorted
<1>2. <<1, Len(s)>> \in Pairs(s) /\ <<1, Len(s)>>[1] <= <<1, Len(s)>>[2] + 1
  BY <1>1, BisectSearches
<1>3. Finds(s, n, <<1, Len(s)>>, Bisect(s, n))
  BY <1>1, <1>2, BisectSearches, SearchFinds
<1> QED
  BY <1>1, <1>3 DEF Finds

-----------------------------------------------------------------------------
(* The loops over the ranges of a rule and over the rules of a file.        *)

\* One turn of each loop, with what the turns before it have left in g.
Keep(ranges, g, i) ==
    IF i = 0 THEN << >> ELSE IF ranges[i].skip THEN g[i - 1] ELSE Append(g[i - 1], ranges[i])
Copy(map, rules, order, g, i) ==
    IF i = 0 THEN [map |-> map, failed |-> FALSE] ELSE CopyRule(g[i - 1], rules[order[i]])
CopyBack(map, rules, order, g, i) ==
    IF i = 0 THEN [map |-> map, failed |-> FALSE] ELSE CopyRuleReverse(g[i - 1], rules[order[i]])

LEMMA KeepExists ==
    ASSUME NEW ranges, NEW n \in Nat
    PROVE  \E g : g = [i \in 0..n |-> Keep(ranges, g, i)]
<1> DEFINE Upto(d) == \E g : g = [i \in 0..d |-> Keep(ranges, g, i)]
           T == {d \in Nat : ~Upto(d)}
<1>1. T = {}
  <2> SUFFICES ASSUME T # {} PROVE FALSE
    OBVIOUS
  <2>1. PICK d \in T : \A x \in T : d <= x
    <3> HIDE DEF Upto
    <3> QED
      BY Smallest
  <2>2. ASSUME NEW g, d = 0 \/ g = [i \in 0..(d - 1) |-> Keep(ranges, g, i)]
        PROVE  FALSE
    <3> DEFINE k == [i \in 0..d |-> Keep(ranges, g, i)]
    <3>1. ASSUME NEW i \in 0..d PROVE Keep(ranges, g, i) = Keep(ranges, k, i)
      <4>1. CASE i = 0
        BY <4>1 DEF Keep
      <4>2. CASE i # 0
        <5>1. d \in Nat /\ i - 1 \in 0..(d - 1) /\ i - 1 \in 0..d /\ d # 0
          BY <2>1, <4>2
        <5>2. g[i - 1] = Keep(ranges, g, i - 1) /\ k[i - 1] = Keep(ranges, g, i - 1)
          BY <2>2, <5>1
        <5> HIDE DEF k
        <5> QED
          BY <4>2, <5>2 DEF Keep
      <4> QED
        BY <4>1, <4>2
    <3>2. k = [i \in 0..d |-> Keep(ranges, k, i)]
      BY <3>1
    <3> HIDE DEF k
    <3>3. Upto(d)
      BY <3>2
    <3> QED
      BY <2>1, <3>3
  <2>3. CASE d = 0
    BY <2>2, <2>3
  <2>4. CASE d # 0
    <3>1. d - 1 \in Nat /\ ~(d <= d - 1)
      BY <2>1, <2>4
    <3>2. Upto(d - 1)
      <4> HIDE DEF Upto
      <4> QED
        BY <2>1, <3>1
    <3> QED
      BY <2>2, <3>2
  <2> QED
    BY <2>3, <2>4
<1> HIDE DEF Upto
<1>2. Upto(n)
  BY <1>1
<1> QED
  BY <1>2 DEF Upto

LEMMA CopyExists ==
    ASSUME NEW map, NEW rules, NEW order, NEW n \in Nat
    PROVE  \E g : g = [i \in 0..n |-> Copy(map, rules, order, g, i)]
<1> DEFINE Upto(d) == \E g : g = [i \in 0..d |-> Copy(map, rules, order, g, i)]
           T == {d \in Nat : ~Upto(d)}
<1>1. T = {}
  <2> SUFFICES ASSUME T # {} PROVE FALSE
    OBVIOUS
  <2>1. PICK d \in T : \A x \in T : d <= x
    <3> HIDE DEF Upto
    <3> QED
      BY Smallest
  <2>2. ASSUME NEW g, d = 0 \/ g = [i \in 0..(d - 1) |-> Copy(map, rules, order, g, i)]
        PROVE  FALSE
    <3> DEFINE k == [i \in 0..d |-> Copy(map, rules, order, g, i)]
    <3>1. ASSUME NEW i \in 0..d PROVE Copy(map, rules, order, g, i) = Copy(map, rules, order, k, i)
      <4>1. CASE i = 0
        BY <4>1 DEF Copy
      <4>2. CASE i # 0
        <5>1. d \in Nat /\ i - 1 \in 0..(d - 1) /\ i - 1 \in 0..d /\ d # 0
          BY <2>1, <4>2
        <5>2. g[i - 1] = Copy(map, rules, order, g, i - 1) /\ k[i - 1] = Copy(map, rules, order, g, i - 1)
          BY <2>2, <5>1
        <5> HIDE DEF k
        <5> QED
          BY <4>2, <5>2 DEF Copy
      <4> QED
        BY <4>1, <4>2
    <3>2. k = [i \in 0..d |-> Copy(map, rules, order, k, i)]
      BY <3>1
    <3> HIDE DEF k
    <3>3. Upto(d)
      BY <3>2
    <3> QED
      BY <2>1, <3>3
  <2>3. CASE d = 0
    BY <2>2, <2>3
  <2>4. CASE d # 0
    <3>1. d - 1 \in Nat /\ ~(d <= d - 1)
      BY <2>1, <2>4
    <3>2. Upto(d - 1)
      <4> HIDE DEF Upto
      <4> QED
        BY <2>1, <3>1
    <3> QED
      BY <2>2, <3>2
  <2> QED
    BY <2>3, <2>4
<1> HIDE DEF Upto
<1>2. Upto(n)
  BY <1>1
<1> QED
  BY <1>2 DEF Upto

LEMMA CopyBackExists ==
    ASSUME NEW map, NEW rules, NEW order, NEW n \in Nat
    PROVE  \E g : g = [i \in 0..n |-> CopyBack(map, rules, order, g, i)]
<1> DEFINE Upto(d) == \E g : g = [i \in 0..d |-> CopyBack(map, rules, order, g, i)]
           T == {d \in Nat : ~Upto(d)}
<1>1. T = {}
  <2> SUFFICES ASSUME T # {} PROVE FALSE
    OBVIOUS
  <2>1. PICK d \in T : \A x \in T : d <= x
    <3> HIDE DEF Upto
    <3> QED
      BY Smallest
  <2>2. ASSUME NEW g, d = 0 \/ g = [i \in 0..(d - 1) |-> CopyBack(map, rules, order, g, i)]
        PROVE  FALSE
    <3> DEFINE k == [i \in 0..d |-> CopyBack(map, rules, order, g, i)]
    <3>1. ASSUME NEW i \in 0..d PROVE CopyBack(map, rules, order, g, i) = CopyBack(map, rules, order, k, i)
      <4>1. CASE i = 0
        BY <4>1 DEF CopyBack
      <4>2. CASE i # 0
        <5>1. d \in Nat /\ i - 1 \in 0..(d - 1) /\ i - 1 \in 0..d /\ d # 0
          BY <2>1, <4>2
        <5>2. g[i - 1] = CopyBack(map, rules, order, g, i - 1) /\ k[i - 1] = CopyBack(map, rules, order, g, i - 1)
          BY <2>2, <5>1
        <5> HIDE DEF k
        <5> QED
          BY <4>2, <5>2 DEF CopyBack
      <4> QED
        BY <4>1, <4>2
    <3>2. k = [i \in 0..d |-> CopyBack(map, rules, order, k, i)]
      BY <3>1
    <3> HIDE DEF k
    <3>3. Upto(d)
      BY <3>2
    <3> QED
      BY <2>1, <3>3
  <2>3. CASE d = 0
    BY <2>2, <2>3
  <2>4. CASE d # 0
    <3>1. d - 1 \in Nat /\ ~(d <= d - 1)
      BY <2>1, <2>4
    <3>2. Upto(d - 1)
      <4> HIDE DEF Upto
      <4> QED
        BY <2>1, <3>1
    <3> QED
      BY <2>2, <3>2
  <2> QED
    BY <2>3, <2>4
<1> HIDE DEF Upto
<1>2. Upto(n)
  BY <1>1
<1> QED
  BY <1>2 DEF Upto

\* The ranges that are not skipped; all of them when none is.
LEMMA UnskippedIs ==
    ASSUME NEW S, NEW rule, rule.ranges \in Seq(S)
    PROVE  /\ Unskipped(rule) \in Seq({r \in S : ~r.skip})
           /\ \A i \in DOMAIN Unskipped(rule) :
                 \E k \in DOMAIN rule.ranges : Unskipped(rule)[i] = rule.ranges[k]
           /\ Ordered(rule) => Unskipped(rule) = rule.ranges
<1> DEFINE s == rule.ranges
           U == {r \in S : ~r.skip}
           Is(g) == g = [i \in 0..Len(s) |-> Keep(s, g, i)]
           f == CHOOSE g : Is(g)
           Right(i) == /\ f[i] \in Seq(U)
                       /\ \A j \in DOMAIN f[i] : \E k \in DOMAIN s : f[i][j] = s[k]
                       /\ Ordered(rule) => Len(f[i]) = i /\ \A j \in 1..i : f[i][j] = s[j]
           T == {i \in Nat : i <= Len(s) /\ ~Right(i)}
<1>1. Len(s) \in Nat /\ DOMAIN s = 1..Len(s) /\ \A i \in 1..Len(s) : s[i] \in S
  BY LenProperties, ElementOfSeq
<1>2. Is(f)
  <2>1. \E g : Is(g)
    BY <1>1, KeepExists
  <2> QED
    BY <2>1
<1>3. Unskipped(rule) = f[Len(s)]
  BY DEF Unskipped, Keep
<1> HIDE DEF f
<1>4. T = {}
  <2> SUFFICES ASSUME T # {} PROVE FALSE
    OBVIOUS
  <2>1. PICK i \in T : \A x \in T : i <= x
    BY Smallest
  <2>2. i \in 0..Len(s) /\ f[i] = Keep(s, f, i) /\ ~Right(i)
    <3>1. i \in Nat /\ i <= Len(s) /\ ~Right(i)
      BY <2>1
    <3>2. i \in 0..Len(s)
      BY <1>1, <3>1
    <3>3. f[i] = Keep(s, f, i)
      <4> HIDE DEF s, T, Right
      <4> QED
        BY <1>2, <3>2
    <3> QED
      BY <3>1, <3>2, <3>3
  <2>3. CASE i = 0
    <3>1. f[i] = << >>
      BY <2>2, <2>3 DEF Keep
    <3>2. << >> \in Seq(U) /\ DOMAIN << >> = {} /\ Len(<< >>) = 0
      OBVIOUS
    <3>3. f[0] \in Seq(U) /\ DOMAIN f[0] = {} /\ Len(f[0]) = 0
      BY <2>3, <3>1, <3>2
    <3>4. Right(0)
      <4> HIDE DEF U, s
      <4> QED
        BY <3>3
    <3> QED
      BY <2>2, <2>3, <3>4
  <2>4. CASE i # 0
    <3>1. i - 1 \in Nat /\ i - 1 <= Len(s) /\ ~(i <= i - 1) /\ i \in 1..Len(s)
      BY <1>1, <2>2, <2>4
    <3>2. Right(i - 1)
      BY <2>1, <3>1
    <3>3. s[i] \in S /\ i \in DOMAIN s
      BY <1>1, <3>1
    <3>4. CASE s[i].skip
      <4>1. f[i] = f[i - 1]
        BY <2>2, <2>4, <3>4 DEF Keep
      <4>2. ~Ordered(rule) \/ ~s[i].skip
        BY <3>3 DEF Ordered
      <4> QED
        BY <2>2, <3>2, <3>4, <4>1, <4>2
    <3>5. CASE ~s[i].skip
      <4> DEFINE a == f[i - 1]
                 b == f[i]
      <4>1. b = Append(a, s[i])
        BY <2>2, <2>4, <3>5 DEF Keep
      <4>2. a \in Seq(U) /\ s[i] \in U
        BY <3>2, <3>3, <3>5
      <4>3. /\ b \in Seq(U) /\ Len(b) = Len(a) + 1 /\ Len(a) \in Nat
            /\ \A j \in 1..Len(a) : b[j] = a[j] /\ b[Len(a) + 1] = s[i]
            /\ DOMAIN b = 1..(Len(a) + 1) /\ DOMAIN a = 1..Len(a)
        <5> HIDE DEF a, b, U
        <5> QED
          BY <4>1, <4>2, AppendProperties, LenProperties
      <4>4. b[Len(a) + 1] = s[i]
        <5> HIDE DEF a, b, U
        <5> QED
          BY <4>1, <4>2, AppendProperties, LenProperties
      <4>5. \A j \in DOMAIN b : \E k \in DOMAIN s : b[j] = s[k]
        <5>1. \A j \in DOMAIN b : j \in DOMAIN a \/ j = Len(a) + 1
          BY <4>3
        <5>2. \A j \in DOMAIN a : \E k \in DOMAIN s : a[j] = s[k]
          BY <3>2
        <5> HIDE DEF a, b
        <5> QED
          BY <3>3, <4>3, <4>4, <5>1, <5>2
      <4>6. ASSUME Ordered(rule) PROVE Len(b) = i /\ \A j \in 1..i : b[j] = s[j]
        <5>1. Len(a) = i - 1 /\ \A j \in 1..(i - 1) : a[j] = s[j]
          BY <3>2, <4>6
        <5>2. Len(a) + 1 = i /\ \A j \in 1..i : j \in 1..Len(a) \/ j = Len(a) + 1
          BY <3>1, <5>1
        <5> HIDE DEF a, b
        <5> QED
          BY <4>3, <4>4, <5>1, <5>2
      <4> QED
        BY <2>2, <4>3, <4>5, <4>6
    <3> QED
      BY <3>4, <3>5
  <2> QED
    BY <2>3, <2>4
<1>5. Right(Len(s))
  <2>1. Len(s) \in Nat /\ Len(s) <= Len(s)
    BY <1>1
  <2> HIDE DEF Right, s
  <2> QED
    BY <2>1, <1>4
<1>6. ASSUME Ordered(rule) PROVE Unskipped(rule) = s
  <2>1. f[Len(s)] \in Seq(S) /\ Len(f[Len(s)]) = Len(s) /\ \A j \in 1..Len(s) : f[Len(s)][j] = s[j]
    <3>1. f[Len(s)] \in Seq(U) /\ U \subseteq S
      BY <1>5
    <3>2. f[Len(s)] \in Seq(S)
      <4> HIDE DEF U
      <4>1. \A i \in 1..Len(f[Len(s)]) : f[Len(s)][i] \in S
        BY <3>1, ElementOfSeq
      <4> QED
        BY <3>1, <4>1, SeqDef, LenProperties
    <3> QED
      BY <1>5, <1>6, <3>2
  <2>2. s \in Seq(S)
    OBVIOUS
  <2> HIDE DEF s
  <2>3. f[Len(s)] = s
    BY <2>1, <2>2, SeqEqual
  <2> QED
    BY <1>3, <2>3
<1> QED
  BY <1>3, <1>5, <1>6

-----------------------------------------------------------------------------
(* What rules and maps are.                                                *)

RangeFields == {"remoteBegin", "remoteEnd", "skip", "path", "localBegin", "localEnd"}
RuleFields  == {"type", "skip", "remote", "local", "ranges"}

\* A range that is not skipped has as many lines on both sides, or one local line.
IsRange(r) ==
    /\ DOMAIN r = RangeFields /\ r.skip \in BOOLEAN
    /\ r.remoteBegin \in Int /\ r.remoteEnd \in Nat /\ r.localBegin \in Int /\ r.localEnd \in Int
    /\ ~r.skip => /\ r.remoteBegin <= r.remoteEnd /\ r.localBegin <= r.localEnd
                  /\ r.localBegin # r.localEnd =>
                        r.remoteEnd - r.remoteBegin = r.localEnd - r.localBegin

\* One range is before another, on both sides, and in the same local file.
Before(r, s) == r.remoteEnd < s.remoteBegin /\ r.localEnd < s.localBegin /\ r.path = s.path

IsRanges(ranges) ==
    /\ \E S : ranges \in Seq(S)
    /\ \A k \in DOMAIN ranges : IsRange(ranges[k])

InOrder(ranges) == \A j, k \in DOMAIN ranges : j < k => Before(ranges[j], ranges[k])

IsRule(path, rule) ==
    /\ DOMAIN rule = RuleFields /\ rule.remote = path
    /\ rule.type \in {"directory", "file", "lines"} /\ rule.skip \in BOOLEAN
    /\ (rule.type = "lines") <=> (rule.ranges # << >>)
    /\ rule.type = "lines" => ~rule.skip
    /\ IsRanges(rule.ranges)
    /\ Ordered(rule) => InOrder(rule.ranges)

\* What a rule gives in the map from local to remote paths.
Back(path, mapping, rule) ==
    IF rule.type = "lines"
    THEN /\ Unskipped(rule) # << >> /\ path = Last(Unskipped(rule)).path
         /\ mapping = Reversed(rule)
    ELSE ~rule.skip /\ path = rule.local /\ mapping = rule

-----------------------------------------------------------------------------
(* What is in the maps after the rules of a file were copied.               *)

\* Nothing that was there is replaced; what is new is a rule of the file; and all of
\* them are there unless it failed.
Added(map, rules, order, n, copy) ==
    /\ DOMAIN copy = {"map", "failed"}
    /\ \A p \in DOMAIN map : p \in DOMAIN copy.map /\ copy.map[p] = map[p]
    /\ \A p \in DOMAIN copy.map : p \in DOMAIN map \/ (p \in DOMAIN rules /\ copy.map[p] = rules[p])
    /\ copy.failed \/ \A i \in 1..n : /\ order[i] \in DOMAIN copy.map
                                      /\ copy.map[order[i]] = rules[order[i]]

LEMMA OneMoreAdded ==
    ASSUME NEW map, NEW rules, NEW order, NEW n \in Nat, n # 0, NEW c,
           Added(map, rules, order, n - 1, c),
           order[n] \in DOMAIN rules, rules[order[n]].remote = order[n]
    PROVE  Added(map, rules, order, n, CopyRule(c, rules[order[n]]))
<1> DEFINE p == order[n]
           r == rules[p]
           d == CopyRule(c, r)
<1>1. CASE c.failed
  BY <1>1 DEF CopyRule, Added
<1>2. CASE ~c.failed /\ p \in DOMAIN c.map
  <2>1. d = [c EXCEPT !.failed = TRUE]
    BY <1>2 DEF CopyRule
  <2>2. DOMAIN d = {"map", "failed"} /\ d.map = c.map /\ d.failed
    BY <2>1 DEF Added
  <2> HIDE DEF d
  <2> QED
    BY <2>2 DEF Added, d
<1>3. CASE ~c.failed /\ p \notin DOMAIN c.map
  <2>1. d = [c EXCEPT !.map = Entered(c.map, p, r)]
    BY <1>3 DEF CopyRule
  <2>2. DOMAIN d = {"map", "failed"} /\ d.map = Entered(c.map, p, r) /\ d.failed = c.failed
    BY <2>1 DEF Added
  <2>3. /\ DOMAIN d.map = {p} \cup DOMAIN c.map /\ d.map[p] = r
        /\ \A q \in DOMAIN c.map : d.map[q] = c.map[q]
    <3>1. DOMAIN Entered(c.map, p, r) = {p} \cup DOMAIN c.map
      BY DEF Entered
    <3>2. Entered(c.map, p, r)[p] = r /\ \A q \in DOMAIN c.map : Entered(c.map, p, r)[q] = c.map[q]
      BY <1>3 DEF Entered
    <3> QED
      BY <2>2, <3>1, <3>2
  <2>4. \A i \in 1..(n - 1) : order[i] \in DOMAIN c.map /\ c.map[order[i]] = rules[order[i]]
    BY <1>3 DEF Added
  <2>5. \A i \in 1..n : i \in 1..(n - 1) \/ i = n
    OBVIOUS
  <2>6. \A i \in 1..n : order[i] \in DOMAIN d.map /\ d.map[order[i]] = rules[order[i]]
    <3> HIDE DEF d
    <3> QED
      BY <2>3, <2>4, <2>5
  <2>7. \A q \in DOMAIN map : q \in DOMAIN d.map /\ d.map[q] = map[q]
    <3> HIDE DEF d
    <3> QED
      BY <2>3 DEF Added
  <2>8. \A q \in DOMAIN d.map : q \in DOMAIN map \/ (q \in DOMAIN rules /\ d.map[q] = rules[q])
    <3> HIDE DEF d
    <3> QED
      BY <2>3 DEF Added
  <2> HIDE DEF d
  <2>9. Added(map, rules, order, n, d)
    BY <2>2, <2>6, <2>7, <2>8 DEF Added
  <2> QED
    BY <2>9 DEF d
<1> QED
  BY <1>1, <1>2, <1>3

\* Of what was there only ranges are replaced, by ranges; what is new leads back to a
\* rule of the file.
AddedBack(map, rules, order, n, copy) ==
    /\ DOMAIN copy = {"map", "failed"}
    /\ \A p \in DOMAIN map : /\ p \in DOMAIN copy.map
                             /\ copy.map[p] = map[p] \/ copy.map[p].type = "lines"
    /\ \A p \in DOMAIN copy.map : \/ p \in DOMAIN map /\ copy.map[p] = map[p]
                                  \/ \E i \in 1..n : Back(p, copy.map[p], rules[order[i]])

LEMMA OneMoreAddedBack ==
    ASSUME NEW map, NEW rules, NEW order, NEW n \in Nat, n # 0, NEW c,
           AddedBack(map, rules, order, n - 1, c),
           order[n] \in DOMAIN rules, DOMAIN rules[order[n]] = RuleFields
    PROVE  AddedBack(map, rules, order, n, CopyRuleReverse(c, rules[order[n]]))
<1> DEFINE r == rules[order[n]]
           d == CopyRuleReverse(c, r)
<1>0. \A i \in 1..(n - 1) : i \in 1..n
  OBVIOUS
<1>1. CASE d = c
  BY <1>0, <1>1 DEF AddedBack
<1>2. CASE d = [c EXCEPT !.failed = TRUE]
  <2>1. DOMAIN d = {"map", "failed"} /\ d.map = c.map
    BY <1>2 DEF AddedBack
  <2> HIDE DEF d
  <2>2. AddedBack(map, rules, order, n, d)
    BY <1>0, <2>1 DEF AddedBack
  <2> QED
    BY <2>2 DEF d
<1>3. ASSUME NEW p, NEW m, d = [c EXCEPT !.map = Entered(@, p, m)], Back(p, m, r),
             p \notin DOMAIN c.map \/ m.type = "lines"
      PROVE  AddedBack(map, rules, order, n, d)
  <2>1. DOMAIN d = {"map", "failed"} /\ d.map = Entered(c.map, p, m)
    BY <1>3 DEF AddedBack
  <2>2. /\ DOMAIN d.map = {p} \cup DOMAIN c.map /\ d.map[p] = m
        /\ \A q \in DOMAIN c.map : q # p => d.map[q] = c.map[q]
    <3>1. DOMAIN (Entered(c.map, p, m)) = {p} \cup DOMAIN c.map
      BY DEF Entered
    <3>2. /\ (Entered(c.map, p, m))[p] = m
          /\ \A q \in DOMAIN c.map : q # p => (Entered(c.map, p, m))[q] = c.map[q]
      BY DEF Entered
    <3> HIDE DEF d
    <3> QED
      BY <2>1, <3>1, <3>2
  <2>3. n \in 1..n
    OBVIOUS
  <2> HIDE DEF d
  <2>4. \A q \in DOMAIN map : q \in DOMAIN d.map /\ (d.map[q] = map[q] \/ d.map[q].type = "lines")
    BY <1>3, <2>2 DEF AddedBack
  <2>5. ASSUME NEW q \in DOMAIN d.map
        PROVE  \/ q \in DOMAIN map /\ d.map[q] = map[q]
               \/ \E i \in 1..n : Back(q, d.map[q], rules[order[i]])
    <3>1. CASE q = p
      BY <1>3, <2>2, <2>3, <3>1
    <3>2. CASE q # p
      <4>1. q \in DOMAIN c.map /\ d.map[q] = c.map[q]
        BY <2>2, <3>2
      <4> QED
        BY <1>0, <4>1 DEF AddedBack
    <3> QED
      BY <3>1, <3>2
  <2> QED
    BY <2>1, <2>4, <2>5 DEF AddedBack
<1>4. CASE d # c /\ d # [c EXCEPT !.failed = TRUE]
  <2>1. ~r.skip /\ ~c.failed
    BY <1>4 DEF CopyRuleReverse
  <2>2. CASE r.type = "lines"
    <3>1. Unskipped(r) # << >>
      BY <1>4, <2>1, <2>2 DEF CopyRuleReverse
    <3>2. d = [c EXCEPT !.map = Entered(@, Last(Unskipped(r)).path, Reversed(r))]
      BY <2>1, <2>2, <3>1 DEF CopyRuleReverse
    <3>3. Reversed(r).type = "lines"
      BY <2>2 DEF Reversed, RuleFields
    <3>4. Back(Last(Unskipped(r)).path, Reversed(r), r)
      BY <2>2, <3>1 DEF Back
    <3> HIDE DEF d, r
    <3> QED
      BY <1>3, <3>2, <3>3, <3>4 DEF d, r
  <2>3. CASE r.type # "lines"
    <3>1. r.local \notin DOMAIN c.map
      BY <1>4, <2>1, <2>3 DEF CopyRuleReverse
    <3>2. d = [c EXCEPT !.map = Entered(@, r.local, r)]
      BY <2>1, <2>3, <3>1 DEF CopyRuleReverse
    <3>3. Back(r.local, r, r)
      BY <2>1, <2>3 DEF Back
    <3> HIDE DEF d, r
    <3> QED
      BY <1>3, <3>1, <3>2, <3>3 DEF d, r
  <2> QED
    BY <2>2, <2>3
<1> QED
  BY <1>1, <1>2, <1>4

-----------------------------------------------------------------------------
(* The invariant.                                                          *)

\* Rules are well formed while a file is read, and so is all of the map from remote paths,
\* to which all of the other map leads back.
FileHolds ==
    /\ DOMAIN mapsFile = {"open", "remotePrefix", "localPrefix", "rules"}
    /\ IsFiniteSet(DOMAIN mapsFile.rules)
    /\ \A p \in DOMAIN mapsFile.rules : IsRule(p, mapsFile.rules[p])

RemoteHolds == \A p \in DOMAIN mapsRemote : IsRule(p, mapsRemote[p])

LocalLeads ==
    \A p \in DOMAIN mapsLocal : \E q \in DOMAIN mapsRemote : Back(p, mapsLocal[p], mapsRemote[q])

LinesCounted == mapsLines \in 0..MapMaxLines

MapsInv == LinesCounted /\ FileHolds /\ RemoteHolds /\ LocalLeads

LEMMA MapsInitHolds == MapsInit => MapsInv
<1> SUFFICES ASSUME MapsInit PROVE MapsInv
  OBVIOUS
<1>1. LinesCounted
  BY MapBoundsAssumption DEF MapsInit, LinesCounted, MapBoundsAssumption
<1>2. DOMAIN << >> = {} /\ IsFiniteSet({})
  BY FS_EmptySet
<1>3. FileHolds
  BY <1>2 DEF MapsInit, FileHolds, Closed
<1>4. RemoteHolds /\ LocalLeads
  BY <1>2 DEF MapsInit, RemoteHolds, LocalLeads
<1> QED
  BY <1>1, <1>3, <1>4 DEF MapsInv

\* What is read from one side of a rule.
LEMMA ElementIs ==
    ASSUME NEW prefix, NEW wording, NEW range \in Seq(Int), Len(range) \in 0..2,
           ValidRange(wording, range)
    PROVE  LET e == Element(prefix, wording, range)
           IN /\ e.type \in {"directory", "file", "lines"}
              /\ e.begin \in Nat /\ e.end \in Nat /\ e.begin <= e.end
              /\ e.type # "lines" => e.begin = 0 /\ e.end = 0
<1> DEFINE e == Element(prefix, wording, range)
           lines == range # << >> /\ range[1] > 0
<1>1. /\ e.type = IF lines THEN "lines" ELSE IF EndsIn(wording, "/") THEN "directory" ELSE "file"
      /\ e.begin = IF lines THEN range[1] ELSE 0
      /\ e.end = IF lines THEN Last(range) ELSE 0
  BY DEF Element
<1>2. ASSUME lines
      PROVE  range[1] \in Nat /\ Last(range) \in Nat /\ range[1] <= Last(range)
  <2>1. Len(range) \in 1..2 /\ Last(range) = range[Len(range)]
    BY <1>2, EmptySeq DEF Last
  <2>2. \A i \in 1..Len(range) : range[i] \in Int
    BY ElementOfSeq
  <2>3. CASE Len(range) = 1
    BY <1>2, <2>1, <2>2, <2>3
  <2>4. CASE Len(range) = 2
    <3>1. range[1] <= range[2]
      BY <1>2, <2>4 DEF ValidRange
    <3>2. range[1] \in Int /\ range[2] \in Int
      BY <2>2, <2>4
    <3> QED
      BY <1>2, <2>1, <2>4, <3>1, <3>2
  <2> QED
    BY <2>1, <2>3, <2>4
<1> HIDE DEF e, lines
<1>3. CASE lines
  BY <1>1, <1>2, <1>3 DEF e
<1>4. CASE ~lines
  BY <1>1, <1>4 DEF e
<1> QED
  BY <1>3, <1>4

\* What state_add_rule() has checked of the two sides of a rule.
LEMMA SidesAre ==
    ASSUME NEW rule \in MapRules,
           ValidElement(mapsFile.remotePrefix, rule.remote, rule.remoteRange),
           rule.local = Skip \/ ValidElement(mapsFile.localPrefix, rule.local, rule.localRange)
    PROVE  LET remote == Element(mapsFile.remotePrefix, rule.remote, rule.remoteRange)
               local  == IF rule.local = Skip THEN Skipped
                         ELSE Element(mapsFile.localPrefix, rule.local, rule.localRange)
           IN /\ remote.type \in {"directory", "file", "lines"}
              /\ remote.begin \in Nat /\ remote.end \in Nat /\ remote.begin <= remote.end
              /\ remote.type # "lines" => remote.begin = 0 /\ remote.end = 0
              /\ local.begin \in Int /\ local.end \in Int
              /\ local.type # "skip" => local.begin <= local.end
<1> DEFINE remote == Element(mapsFile.remotePrefix, rule.remote, rule.remoteRange)
           there  == Element(mapsFile.localPrefix, rule.local, rule.localRange)
           local  == IF rule.local = Skip THEN Skipped ELSE there
<1>1. /\ rule.remoteRange \in Seq(Int) /\ Len(rule.remoteRange) \in 0..2
      /\ rule.localRange \in Seq(Int) /\ Len(rule.localRange) \in 0..2
  BY RangesAssumption DEF RangesAssumption
<1>2. /\ remote.type \in {"directory", "file", "lines"}
      /\ remote.begin \in Nat /\ remote.end \in Nat /\ remote.begin <= remote.end
      /\ remote.type # "lines" => remote.begin = 0 /\ remote.end = 0
  BY <1>1, ElementIs DEF ValidElement
<1>3. CASE rule.local = Skip
  <2>1. local = Skipped
    BY <1>3
  <2>2. Skipped.begin \in Int /\ Skipped.end \in Int /\ Skipped.type = "skip"
    BY DEF Skipped, NotANumber
  <2> HIDE DEF remote, local
  <2>3. local.begin \in Int /\ local.end \in Int /\ local.type = "skip"
    BY <2>1, <2>2
  <2> QED
    BY <1>2, <2>3 DEF remote, local
<1>4. CASE rule.local # Skip
  <2>1. local = there
    BY <1>4
  <2>2. there.begin \in Nat /\ there.end \in Nat /\ there.begin <= there.end
    BY <1>1, <1>4, ElementIs DEF ValidElement
  <2> HIDE DEF remote, there, local
  <2>3. local.begin \in Int /\ local.end \in Int /\ local.begin <= local.end
    BY <2>1, <2>2
  <2> QED
    BY <1>2, <2>3 DEF remote, local, there
<1> QED
  BY <1>3, <1>4

LEMMA NewRangeIs ==
    ASSUME NEW remote, NEW local, Corresponds(remote, local),
           remote.begin \in Nat, remote.end \in Nat, remote.begin <= remote.end,
           local.begin \in Int, local.end \in Int,
           local.type # "skip" => local.begin <= local.end
    PROVE  IsRange(NewRange(remote, local))
<1> DEFINE r == NewRange(remote, local)
<1>1. /\ DOMAIN r = RangeFields /\ (r.skip <=> local.type = "skip") /\ r.skip \in BOOLEAN
      /\ r.remoteBegin = remote.begin /\ r.remoteEnd = remote.end
      /\ r.localBegin = local.begin /\ r.localEnd = LocalEnd(remote, local)
  BY DEF NewRange, RangeFields
<1>2. /\ LocalEnd(remote, local) \in Int
      /\ local.begin = local.end => LocalEnd(remote, local) = local.end
  BY DEF LocalEnd, Eof
<1>3. ASSUME local.type # "skip", local.begin # local.end
      PROVE  remote.end - remote.begin = LocalEnd(remote, local) - local.begin
  BY <1>3 DEF Corresponds
<1> HIDE DEF r
<1>4. ASSUME ~r.skip
      PROVE  /\ r.remoteBegin <= r.remoteEnd /\ r.localBegin <= r.localEnd
             /\ r.localBegin # r.localEnd => r.remoteEnd - r.remoteBegin = r.localEnd - r.localBegin
  <2>1. CASE local.begin = local.end
    <3>1. r.localBegin = r.localEnd /\ r.localBegin \in Int
      BY <1>1, <1>2, <2>1
    <3> QED
      BY <1>1, <3>1
  <2>2. CASE local.begin # local.end
    <3>1. remote.end - remote.begin = LocalEnd(remote, local) - local.begin
      BY <1>1, <1>3, <1>4, <2>2
    <3>2. local.begin <= LocalEnd(remote, local)
      BY <1>2, <3>1
    <3> QED
      BY <1>1, <3>1, <3>2
  <2> QED
    BY <2>1, <2>2
<1> QED
  BY <1>1, <1>2, <1>4 DEF IsRange, r

LEMMA NewMappingIs ==
    ASSUME NEW remote, NEW local, IsRange(NewRange(remote, local)),
           remote.type \in {"directory", "file", "lines"}
    PROVE  IsRule(remote.path, NewMapping(remote, local))
<1> DEFINE m == NewMapping(remote, local)
           r == NewRange(remote, local)
<1>1. /\ DOMAIN m = RuleFields /\ m.remote = remote.path /\ m.type = remote.type
      /\ m.skip \in BOOLEAN
      /\ m.skip <=> local.type = "skip" /\ remote.type # "lines"
      /\ m.ranges = IF remote.type = "lines" THEN <<r>> ELSE << >>
  BY DEF NewMapping, RuleFields
<1> HIDE DEF m
<1>2. /\ IsRanges(m.ranges) /\ InOrder(m.ranges)
      /\ m.type = "lines" <=> m.ranges # << >>
  <2>1. CASE remote.type = "lines"
    <3>1. m.ranges = <<r>>
      BY <1>1, <2>1
    <3> HIDE DEF r
    <3>2. <<r>> \in Seq({r}) /\ DOMAIN <<r>> = {1} /\ <<r>>[1] = r /\ <<r>> # << >>
      OBVIOUS
    <3>3. IsRange(r)
      BY DEF r
    <3>4. IsRanges(<<r>>)
      BY <3>2, <3>3 DEF IsRanges
    <3>5. InOrder(<<r>>)
      BY <3>2 DEF InOrder
    <3> QED
      BY <1>1, <2>1, <3>1, <3>2, <3>4, <3>5
  <2>2. CASE remote.type # "lines"
    <3>1. m.ranges = << >>
      BY <1>1, <2>2
    <3>2. << >> \in Seq({}) /\ DOMAIN << >> = {}
      OBVIOUS
    <3>3. IsRanges(<< >>) /\ InOrder(<< >>)
      BY <3>2 DEF IsRanges, InOrder
    <3> QED
      BY <1>1, <2>2, <3>1, <3>3
  <2> QED
    BY <2>1, <2>2
<1> QED
  BY <1>1, <1>2 DEF IsRule, m

\* A range that follows the last one keeps the ranges in order.
LEMMA FollowingKeepsOrder ==
    ASSUME NEW path, NEW rule, IsRule(path, rule), rule.type = "lines",
           NEW range, IsRange(range), Follows(Last(rule.ranges), range)
    PROVE  IsRule(path, [rule EXCEPT !.ranges = Append(@, range)])
<1> DEFINE s == rule.ranges
           t == Append(s, range)
           n == Len(s)
           m == [rule EXCEPT !.ranges = t]
<1>1. PICK S : s \in Seq(S)
  BY DEF IsRule, IsRanges
<1>2. s \in Seq(S \cup {range}) /\ range \in S \cup {range}
  BY <1>1
<1>3. /\ t \in Seq(S \cup {range}) /\ Len(t) = n + 1 /\ n \in Nat
      /\ \A j \in 1..n : t[j] = s[j]
      /\ t[n + 1] = range /\ DOMAIN s = 1..n /\ DOMAIN t = 1..(n + 1)
  <2> HIDE DEF s, t, n
  <2>1. t = Append(s, range) /\ n = Len(s)
    BY DEF t, n
  <2>2. /\ Append(s, range) \in Seq(S \cup {range}) /\ Len(Append(s, range)) = Len(s) + 1
        /\ \A j \in 1..Len(s) : Append(s, range)[j] = s[j]
        /\ Append(s, range)[Len(s) + 1] = range
    BY <1>2, AppendProperties
  <2>3. Len(s) \in Nat /\ DOMAIN s = 1..Len(s) /\ DOMAIN Append(s, range) = 1..(Len(s) + 1)
    BY <1>2, <2>2, LenProperties
  <2> QED
    BY <2>1, <2>2, <2>3
<1>4. s # << >> /\ n >= 1 /\ Last(s) = s[n]
  <2>1. s # << >>
    BY DEF IsRule
  <2>2. n # 0
    BY <1>1, <2>1, EmptySeq
  <2> QED
    BY <1>3, <2>1, <2>2 DEF Last
<1>5. DOMAIN m = RuleFields /\ m.ranges = t /\ m.remote = rule.remote /\ m.type = rule.type
      /\ m.skip = rule.skip
  BY DEF IsRule, RuleFields
<1> HIDE DEF m, s, t, n
<1>6. IsRanges(t)
  <2>1. \A k \in 1..(n + 1) : k \in 1..n \/ k = n + 1
    BY <1>3
  <2>2. \A k \in 1..n : IsRange(s[k])
    BY <1>3 DEF IsRule, IsRanges, s
  <2>3. \A k \in DOMAIN t : IsRange(t[k])
    BY <1>3, <2>1, <2>2
  <2> QED
    BY <1>3, <2>3 DEF IsRanges
<1>7. ASSUME Ordered(m) PROVE InOrder(t)
  <2>1. \A k \in 1..(n + 1) : ~t[k].skip
    BY <1>3, <1>5, <1>7 DEF Ordered
  <2>2. ~range.skip /\ \A k \in 1..n : ~s[k].skip
    <3>1. n + 1 \in 1..(n + 1) /\ \A k \in 1..n : k \in 1..(n + 1)
      BY <1>3
    <3> QED
      BY <1>3, <2>1, <3>1
  <2>3. InOrder(s)
    <3>1. Ordered(rule)
      BY <1>3, <2>2 DEF Ordered, s
    <3> QED
      BY <3>1 DEF IsRule, s
  <2>4. Before(s[n], range)
    <3>1. Follows(s[n], range) /\ n \in 1..n
      BY <1>3, <1>4 DEF s
    <3>2. ~s[n].skip /\ IsRange(s[n])
      BY <1>3, <2>2, <3>1 DEF IsRule, IsRanges, s
    <3>3. s[n].path = range.path /\ range.remoteBegin > s[n].remoteEnd /\ range.localBegin > s[n].localEnd
      BY <2>2, <3>1, <3>2 DEF Follows
    <3>4. /\ range.remoteBegin \in Int /\ range.localBegin \in Int
          /\ s[n].remoteEnd \in Int /\ s[n].localEnd \in Int
      BY <3>2 DEF IsRange
    <3>5. s[n].remoteEnd < range.remoteBegin /\ s[n].localEnd < range.localBegin
      BY <3>3, <3>4
    <3> QED
      BY <3>3, <3>5 DEF Before
  <2>5. ASSUME NEW j \in 1..n PROVE Before(s[j], range)
    <3>1. CASE j = n
      BY <2>4, <3>1
    <3>2. CASE j # n
      <4>1. n \in 1..n /\ j < n
        BY <1>3, <3>2
      <4>2. Before(s[j], s[n])
        BY <1>3, <2>3, <4>1 DEF InOrder
      <4>3. IsRange(s[j]) /\ IsRange(s[n]) /\ ~s[n].skip
        BY <1>3, <2>2, <4>1 DEF IsRule, IsRanges, s
      <4>4. /\ s[j].remoteEnd \in Int /\ s[j].localEnd \in Int
            /\ s[n].remoteBegin \in Int /\ s[n].remoteEnd \in Int
            /\ s[n].localBegin \in Int /\ s[n].localEnd \in Int
            /\ s[n].remoteBegin <= s[n].remoteEnd /\ s[n].localBegin <= s[n].localEnd
        BY <4>3 DEF IsRange
      <4>5. range.remoteBegin \in Int /\ range.localBegin \in Int
        BY DEF IsRange
      <4>6. s[j].remoteEnd < range.remoteBegin /\ s[j].localEnd < range.localBegin
        BY <2>4, <4>2, <4>4, <4>5 DEF Before
      <4> QED
        BY <2>4, <4>2, <4>6 DEF Before
    <3> QED
      BY <3>1, <3>2
  <2>6. ASSUME NEW j \in 1..(n + 1), NEW k \in 1..(n + 1), j < k PROVE Before(t[j], t[k])
    <3>1. CASE k = n + 1
      <4>1. j \in 1..n
        BY <1>3, <2>6, <3>1
      <4> QED
        BY <1>3, <2>5, <3>1, <4>1
    <3>2. CASE k # n + 1
      <4>1. j \in 1..n /\ k \in 1..n
        BY <1>3, <2>6, <3>2
      <4> QED
        BY <1>3, <2>3, <2>6, <4>1 DEF InOrder
    <3> QED
      BY <3>1, <3>2
  <2> QED
    BY <1>3, <2>6 DEF InOrder
<1>8. t # << >>
  BY <1>3, EmptySeq
<1>9. rule.remote = path /\ rule.type \in {"directory", "file", "lines"} /\ rule.skip \in BOOLEAN /\ ~rule.skip
  BY DEF IsRule
<1>10. IsRule(path, m)
  BY <1>5, <1>6, <1>7, <1>8, <1>9 DEF IsRule
<1> QED
  BY <1>10 DEF m, t, s

LEMMA RuleIsAdded ==
    ASSUME FileHolds, NEW rule \in MapRules, NEW rules \in RulesWith(rule)
    PROVE  IsFiniteSet(DOMAIN rules) /\ \A p \in DOMAIN rules : IsRule(p, rules[p])
<1> DEFINE remote == Element(mapsFile.remotePrefix, rule.remote, rule.remoteRange)
           local  == IF rule.local = Skip THEN Skipped
                     ELSE Element(mapsFile.localPrefix, rule.local, rule.localRange)
           old    == mapsFile.rules
           range  == NewRange(remote, local)
           key    == remote.path
           valid  == /\ ValidElement(mapsFile.remotePrefix, rule.remote, rule.remoteRange)
                     /\ \/ rule.local = Skip
                        \/ ValidElement(mapsFile.localPrefix, rule.local, rule.localRange)
                     /\ Corresponds(remote, local)
<1>1. /\ valid
      /\ \/ key \notin DOMAIN old /\ rules = Entered(old, key, NewMapping(remote, local))
         \/ /\ key \in DOMAIN old /\ old[key].type = "lines"
            /\ Follows(Last(old[key].ranges), range)
            /\ rules = [old EXCEPT ![key].ranges = Append(@, range)]
  BY DEF RulesWith
<1>2. IsRange(range) /\ remote.type \in {"directory", "file", "lines"}
  <2>1. /\ remote.type \in {"directory", "file", "lines"}
        /\ remote.begin \in Nat /\ remote.end \in Nat /\ remote.begin <= remote.end
        /\ local.begin \in Int /\ local.end \in Int
        /\ local.type # "skip" => local.begin <= local.end
    BY <1>1, SidesAre
  <2>2. Corresponds(remote, local)
    BY <1>1
  <2> HIDE DEF remote, local
  <2> QED
    BY <2>1, <2>2, NewRangeIs
<1>3. IsFiniteSet(DOMAIN old) /\ \A p \in DOMAIN old : IsRule(p, old[p])
  BY DEF FileHolds
<1>4. IsRule(key, NewMapping(remote, local))
  <2> HIDE DEF remote, local
  <2> QED
    BY <1>2, NewMappingIs
<1> HIDE DEF remote, local, old, range, key, valid
<1>5. CASE rules = Entered(old, key, NewMapping(remote, local))
  <2>1. DOMAIN rules = DOMAIN old \cup {key}
    BY <1>5 DEF Entered
  <2>2. IsFiniteSet(DOMAIN old \cup {key})
    BY <1>3, FS_AddElement
  <2>3. \A p \in DOMAIN rules : rules[p] = IF p = key THEN NewMapping(remote, local) ELSE old[p]
    BY <1>5 DEF Entered
  <2> QED
    BY <1>3, <1>4, <2>1, <2>2, <2>3
<1>6. CASE /\ key \in DOMAIN old /\ old[key].type = "lines"
           /\ Follows(Last(old[key].ranges), range)
           /\ rules = [old EXCEPT ![key].ranges = Append(@, range)]
  <2>1. DOMAIN rules = DOMAIN old
    BY <1>6
  <2>2. \A p \in DOMAIN old : p # key => rules[p] = old[p]
    BY <1>6
  <2>3. rules[key] = [old[key] EXCEPT !.ranges = Append(@, range)]
    BY <1>6
  <2>4. IsRule(key, old[key])
    BY <1>3, <1>6
  <2>5. IsRule(key, rules[key])
    BY <1>2, <1>6, <2>3, <2>4, FollowingKeepsOrder
  <2> QED
    BY <1>3, <2>1, <2>2, <2>5
<1> QED
  BY <1>1, <1>5, <1>6

-----------------------------------------------------------------------------
(* The end of a file.                                                      *)

LEMMA CopiedIs ==
    ASSUME FileHolds, NEW order, Len(order) \in Nat,
           \A i \in 1..Len(order) : order[i] \in DOMAIN mapsFile.rules
    PROVE  Added(mapsRemote, mapsFile.rules, order, Len(order), Copied(order))
<1> DEFINE rules == mapsFile.rules
           map == mapsRemote
           Is(g) == g = [i \in 0..Len(order) |-> Copy(map, rules, order, g, i)]
           f == CHOOSE g : Is(g)
           Right(i) == Added(map, rules, order, i, f[i])
           T == {i \in Nat : i <= Len(order) /\ ~Right(i)}
<1>1. Is(f)
  <2>1. \E g : Is(g)
    BY CopyExists, SMTT(30)
  <2> QED
    BY <2>1
<1>2. Copied(order) = f[Len(order)]
  BY DEF Copied, Copy
<1> HIDE DEF f
<1>3. T = {}
  <2> SUFFICES ASSUME T # {} PROVE FALSE
    OBVIOUS
  <2>1. PICK i \in T : \A x \in T : i <= x
    BY Smallest
  <2>2. i \in Nat /\ i <= Len(order) /\ ~Right(i) /\ i \in 0..Len(order)
    BY <2>1
  <2>3. f[i] = Copy(map, rules, order, f, i)
    <3> HIDE DEF map, rules
    <3> QED
      BY <1>1, <2>2
  <2>4. CASE i = 0
    <3>1. f[i] = [map |-> map, failed |-> FALSE]
      BY <2>3, <2>4 DEF Copy
    <3>2. DOMAIN f[i] = {"map", "failed"} /\ f[i].map = map /\ 1..i = {}
      BY <2>4, <3>1
    <3>3. Right(i)
      BY <3>2 DEF Added
    <3> QED
      BY <2>2, <3>3
  <2>5. CASE i # 0
    <3>1. i - 1 \in Nat /\ i - 1 <= Len(order) /\ ~(i <= i - 1) /\ i \in 1..Len(order)
      BY <2>2, <2>5
    <3>2. Right(i - 1)
      <4> HIDE DEF Right
      <4> QED
        BY <2>1, <3>1
    <3>3. f[i] = CopyRule(f[i - 1], rules[order[i]])
      BY <2>3, <2>5 DEF Copy
    <3>4. order[i] \in DOMAIN rules /\ rules[order[i]].remote = order[i]
      BY <3>1 DEF FileHolds, IsRule
    <3>5. Right(i)
      <4> HIDE DEF map, rules
      <4> QED
        BY <2>2, <2>5, <3>2, <3>3, <3>4, OneMoreAdded
    <3> QED
      BY <2>2, <3>5
  <2> QED
    BY <2>4, <2>5
<1>4. Right(Len(order))
  <2> HIDE DEF Right
  <2> QED
    BY <1>3
<1> QED
  BY <1>2, <1>4

LEMMA CopiedReverseIs ==
    ASSUME FileHolds, NEW order, Len(order) \in Nat,
           \A i \in 1..Len(order) : order[i] \in DOMAIN mapsFile.rules
    PROVE  AddedBack(mapsLocal, mapsFile.rules, order, Len(order), CopiedReverse(order))
<1> DEFINE rules == mapsFile.rules
           map == mapsLocal
           Is(g) == g = [i \in 0..Len(order) |-> CopyBack(map, rules, order, g, i)]
           f == CHOOSE g : Is(g)
           Right(i) == AddedBack(map, rules, order, i, f[i])
           T == {i \in Nat : i <= Len(order) /\ ~Right(i)}
<1>1. Is(f)
  <2>1. \E g : Is(g)
    BY CopyBackExists, SMTT(30)
  <2> QED
    BY <2>1
<1>2. CopiedReverse(order) = f[Len(order)]
  BY DEF CopiedReverse, CopyBack
<1> HIDE DEF f
<1>3. T = {}
  <2> SUFFICES ASSUME T # {} PROVE FALSE
    OBVIOUS
  <2>1. PICK i \in T : \A x \in T : i <= x
    BY Smallest
  <2>2. i \in Nat /\ i <= Len(order) /\ ~Right(i) /\ i \in 0..Len(order)
    BY <2>1
  <2>3. f[i] = CopyBack(map, rules, order, f, i)
    <3> HIDE DEF map, rules
    <3> QED
      BY <1>1, <2>2
  <2>4. CASE i = 0
    <3>1. f[i] = [map |-> map, failed |-> FALSE]
      BY <2>3, <2>4 DEF CopyBack
    <3>2. DOMAIN f[i] = {"map", "failed"} /\ f[i].map = map
      BY <2>4, <3>1
    <3>3. Right(i)
      BY <3>2 DEF AddedBack
    <3> QED
      BY <2>2, <3>3
  <2>5. CASE i # 0
    <3>1. i - 1 \in Nat /\ i - 1 <= Len(order) /\ ~(i <= i - 1) /\ i \in 1..Len(order)
      BY <2>2, <2>5
    <3>2. Right(i - 1)
      <4> HIDE DEF Right
      <4> QED
        BY <2>1, <3>1
    <3>3. f[i] = CopyRuleReverse(f[i - 1], rules[order[i]])
      BY <2>3, <2>5 DEF CopyBack
    <3>4. order[i] \in DOMAIN rules /\ DOMAIN rules[order[i]] = RuleFields
      BY <3>1 DEF FileHolds, IsRule
    <3>5. Right(i)
      <4> HIDE DEF map, rules
      <4> QED
        BY <2>2, <2>5, <3>2, <3>3, <3>4, OneMoreAddedBack
    <3> QED
      BY <2>2, <3>5
  <2> QED
    BY <2>4, <2>5
<1>4. Right(Len(order))
  <2> HIDE DEF Right
  <2> QED
    BY <1>3
<1> QED
  BY <1>2, <1>4

\* What the end of a file leaves in both maps.
LEMMA FileIsCopied ==
    ASSUME FileHolds, EndOfFile
    PROVE  \E order : \E n \in Nat :
              /\ \A i \in 1..n : order[i] \in DOMAIN mapsFile.rules
              /\ \E copy : /\ Added(mapsRemote, mapsFile.rules, order, n, copy)
                           /\ mapsRemote' = copy.map
                           /\ \/ mapsLocal' = mapsLocal
                              \/ /\ ~copy.failed
                                 /\ \E back : /\ AddedBack(mapsLocal, mapsFile.rules, order, n, back)
                                              /\ mapsLocal' = back.map
<1>1. PICK order \in SetToSeqs(DOMAIN mapsFile.rules) :
            /\ mapsRemote' = Copied(order).map
            /\ mapsLocal' = IF Copied(order).failed THEN mapsLocal ELSE CopiedReverse(order).map
  BY DEF EndOfFile
<1>2. /\ Cardinality(DOMAIN mapsFile.rules) \in Nat
      /\ order \in [1..Cardinality(DOMAIN mapsFile.rules) -> DOMAIN mapsFile.rules]
  BY FS_CardinalityType DEF SetToSeqs, FileHolds
<1>3. order \in Seq(DOMAIN mapsFile.rules)
  BY <1>2, SeqDef
<1>4. Len(order) \in Nat /\ \A i \in 1..Len(order) : order[i] \in DOMAIN mapsFile.rules
  BY <1>3, LenProperties, ElementOfSeq
<1>5. Added(mapsRemote, mapsFile.rules, order, Len(order), Copied(order))
  BY <1>4, CopiedIs
<1>6. AddedBack(mapsLocal, mapsFile.rules, order, Len(order), CopiedReverse(order))
  BY <1>4, CopiedReverseIs
<1> DEFINE Left(copy) ==
              /\ Added(mapsRemote, mapsFile.rules, order, Len(order), copy)
              /\ mapsRemote' = copy.map
              /\ \/ mapsLocal' = mapsLocal
                 \/ /\ ~copy.failed
                    /\ \E back : /\ AddedBack(mapsLocal, mapsFile.rules, order, Len(order), back)
                                 /\ mapsLocal' = back.map
<1>7. Left(Copied(order))
  BY <1>1, <1>5, <1>6
<1>8. \E copy : Left(copy)
  <2> HIDE DEF Left
  <2> QED
    BY <1>7
<1> QED
  BY <1>4, <1>8

-----------------------------------------------------------------------------
(* The steps.                                                              *)

LEMMA FileEnds == MapsInv /\ EndOfFile => MapsInv'
<1> SUFFICES ASSUME MapsInv, EndOfFile PROVE MapsInv'
  OBVIOUS
<1>1. LinesCounted /\ FileHolds /\ RemoteHolds /\ LocalLeads
  BY DEF MapsInv
<1>2. mapsFile' = Closed /\ mapsLines' = mapsLines
  BY DEF EndOfFile
<1>3. LinesCounted'
  BY <1>1, <1>2 DEF LinesCounted
<1>4. FileHolds'
  <2>1. DOMAIN << >> = {} /\ IsFiniteSet({})
    BY FS_EmptySet
  <2> QED
    BY <1>2, <2>1 DEF FileHolds, Closed
<1> DEFINE rules == mapsFile.rules
<1>5. PICK order : \E n \in Nat :
              /\ \A i \in 1..n : order[i] \in DOMAIN rules
              /\ \E copy : /\ Added(mapsRemote, rules, order, n, copy)
                           /\ mapsRemote' = copy.map
                           /\ \/ mapsLocal' = mapsLocal
                              \/ /\ ~copy.failed
                                 /\ \E back : /\ AddedBack(mapsLocal, rules, order, n, back)
                                              /\ mapsLocal' = back.map
  BY <1>1, FileIsCopied
<1>6. PICK n \in Nat :
              /\ \A i \in 1..n : order[i] \in DOMAIN rules
              /\ \E copy : /\ Added(mapsRemote, rules, order, n, copy)
                           /\ mapsRemote' = copy.map
                           /\ \/ mapsLocal' = mapsLocal
                              \/ /\ ~copy.failed
                                 /\ \E back : /\ AddedBack(mapsLocal, rules, order, n, back)
                                              /\ mapsLocal' = back.map
  BY <1>5
<1>7. PICK copy : /\ Added(mapsRemote, rules, order, n, copy)
                  /\ mapsRemote' = copy.map
                  /\ \/ mapsLocal' = mapsLocal
                     \/ /\ ~copy.failed
                        /\ \E back : /\ AddedBack(mapsLocal, rules, order, n, back)
                                     /\ mapsLocal' = back.map
  BY <1>6
<1>8. RemoteHolds'
  <2>1. ASSUME NEW p \in DOMAIN copy.map PROVE IsRule(p, copy.map[p])
    <3>1. CASE p \in DOMAIN mapsRemote
      BY <1>1, <1>7, <3>1 DEF Added, RemoteHolds
    <3>2. CASE p \in DOMAIN rules /\ copy.map[p] = rules[p]
      BY <1>1, <3>2 DEF FileHolds
    <3> QED
      BY <1>7, <3>1, <3>2 DEF Added
  <2> QED
    BY <1>7, <2>1 DEF RemoteHolds
<1>9. \A q \in DOMAIN mapsRemote : q \in DOMAIN mapsRemote' /\ mapsRemote'[q] = mapsRemote[q]
  BY <1>7 DEF Added
<1>10. ASSUME NEW p \in DOMAIN mapsLocal
       PROVE  \E q \in DOMAIN mapsRemote' : Back(p, mapsLocal[p], mapsRemote'[q])
  BY <1>1, <1>9 DEF LocalLeads
<1>11. LocalLeads'
  <2>1. CASE mapsLocal' = mapsLocal
    BY <1>10, <2>1 DEF LocalLeads
  <2>2. CASE mapsLocal' # mapsLocal
    <3>1. ~copy.failed
      BY <1>7, <2>2
    <3>2. PICK back : AddedBack(mapsLocal, rules, order, n, back) /\ mapsLocal' = back.map
      BY <1>7, <2>2
    <3>3. ASSUME NEW p \in DOMAIN back.map
          PROVE  \E q \in DOMAIN mapsRemote' : Back(p, back.map[p], mapsRemote'[q])
      <4>1. CASE p \in DOMAIN mapsLocal /\ back.map[p] = mapsLocal[p]
        BY <1>10, <4>1
      <4>2. ASSUME NEW i \in 1..n, Back(p, back.map[p], rules[order[i]])
            PROVE  \E q \in DOMAIN mapsRemote' : Back(p, back.map[p], mapsRemote'[q])
        <5>1. order[i] \in DOMAIN mapsRemote' /\ mapsRemote'[order[i]] = rules[order[i]]
          BY <1>7, <3>1 DEF Added
        <5> QED
          BY <4>2, <5>1
      <4> QED
        BY <3>2, <4>1, <4>2 DEF AddedBack
    <3> QED
      BY <3>2, <3>3 DEF LocalLeads
  <2> QED
    BY <2>1, <2>2
<1> QED
  BY <1>3, <1>4, <1>8, <1>11 DEF MapsInv

LEMMA LineIsRead ==
    ASSUME MapsInv, ReadLine, FileHolds'
    PROVE  MapsInv'
<1>1. LinesCounted'
  <2>1. mapsLines' = mapsLines + 1 /\ mapsLines < MapMaxLines /\ mapsLines \in 0..MapMaxLines
    BY DEF ReadLine, MapsInv, LinesCounted
  <2>2. MapMaxLines \in Nat
    BY MapBoundsAssumption DEF MapBoundsAssumption
  <2> QED
    BY <2>1, <2>2 DEF LinesCounted
<1>2. RemoteHolds' /\ LocalLeads'
  BY DEF ReadLine, MapsInv, RemoteHolds, LocalLeads
<1> QED
  BY <1>1, <1>2 DEF MapsInv

LEMMA MapsStep == MapsInv /\ [MapsNext]_mapsVars => MapsInv'
<1> SUFFICES ASSUME MapsInv, [MapsNext]_mapsVars PROVE MapsInv'
  OBVIOUS
<1>1. LinesCounted /\ FileHolds /\ RemoteHolds /\ LocalLeads
  BY DEF MapsInv
<1>2. IsFiniteSet(DOMAIN << >>) /\ DOMAIN << >> = {}
  BY FS_EmptySet
<1>3. ASSUME mapsFile' = Closed \/ mapsFile' = [Closed EXCEPT !.open = TRUE] PROVE FileHolds'
  <2>1. DOMAIN mapsFile' = {"open", "remotePrefix", "localPrefix", "rules"} /\ mapsFile'.rules = << >>
    BY <1>3 DEF Closed
  <2> QED
    BY <1>2, <2>1 DEF FileHolds
<1>4. ASSUME UNCHANGED <<mapsLines, mapsRemote, mapsLocal>>, FileHolds' PROVE MapsInv'
  BY <1>1, <1>4 DEF MapsInv, LinesCounted, RemoteHolds, LocalLeads
<1>5. CASE UNCHANGED mapsVars
  BY <1>1, <1>4, <1>5 DEF mapsVars, FileHolds
<1>6. CASE OpenMapFile \/ EndOfEmptyFile
  BY <1>3, <1>4, <1>6 DEF OpenMapFile, EndOfEmptyFile
<1>7. CASE NextDirectory
  BY <1>1, <1>4, <1>7 DEF NextDirectory, FileHolds
<1>8. CASE Garbage
  BY <1>3, <1>8, LineIsRead DEF Garbage
<1>9. CASE EndOfFile
  BY <1>9, FileEnds
<1>10. ASSUME NEW prefix \in MapPrefixes, RemotePrefix(prefix) \/ LocalPrefix(prefix)
       PROVE  MapsInv'
  <2>1. /\ ReadLine
        /\ \/ mapsFile' = Closed
           \/ mapsFile' = [mapsFile EXCEPT !.remotePrefix = prefix]
           \/ mapsFile' = [mapsFile EXCEPT !.localPrefix = prefix]
    BY <1>10 DEF RemotePrefix, LocalPrefix
  <2>2. CASE mapsFile' = Closed
    BY <1>3, <2>1, <2>2, LineIsRead
  <2>3. CASE mapsFile' # Closed
    <3>1. DOMAIN mapsFile' = DOMAIN mapsFile /\ mapsFile'.rules = mapsFile.rules
      BY <1>1, <2>1, <2>3 DEF FileHolds
    <3>2. FileHolds'
      BY <1>1, <3>1 DEF FileHolds
    <3> QED
      BY <2>1, <3>2, LineIsRead
  <2> QED
    BY <2>2, <2>3
<1>11. ASSUME NEW rule \in MapRules, Rule(rule) PROVE MapsInv'
  <2>1. ReadLine
    BY <1>11 DEF Rule
  <2>2. CASE RulesWith(rule) = {}
    BY <1>3, <1>11, <2>1, <2>2, LineIsRead DEF Rule
  <2>3. CASE RulesWith(rule) # {}
    <3> DEFINE new == CHOOSE r \in RulesWith(rule) : TRUE
    <3>1. new \in RulesWith(rule)
      BY <2>3
    <3>2. mapsFile' = [mapsFile EXCEPT !.rules = new]
      BY <1>11, <2>3 DEF Rule
    <3> HIDE DEF new
    <3>3. IsFiniteSet(DOMAIN new) /\ \A p \in DOMAIN new : IsRule(p, new[p])
      BY <1>1, <3>1, RuleIsAdded
    <3>4. DOMAIN mapsFile' = DOMAIN mapsFile /\ mapsFile'.rules = new
      BY <1>1, <3>2 DEF FileHolds
    <3>5. FileHolds'
      BY <1>1, <3>3, <3>4 DEF FileHolds
    <3> QED
      BY <2>1, <3>5, LineIsRead
  <2> QED
    BY <2>2, <2>3
<1> QED
  BY <1>5, <1>6, <1>7, <1>8, <1>9, <1>10, <1>11 DEF MapsNext

LEMMA MapsInvariant == MapsSpec => []MapsInv
BY MapsInitHolds, MapsStep, PTL DEF MapsSpec

-----------------------------------------------------------------------------
(* The theorems.                                                           *)

\* The maps hold mappings, and what skips is only in the one from remote to local: for
\* all map files that state_add_rule() and copy_rule() are given.
THEOREM MapsTypeCorrect == MapsSpec => []MapsTypeOK
<1>1. MapsInv => MapsTypeOK
  <2> SUFFICES ASSUME MapsInv PROVE MapsTypeOK
    OBVIOUS
  <2>1. mapsLines \in 0..MapMaxLines
    BY DEF MapsInv, LinesCounted
  <2>2. ASSUME NEW p, NEW rule, IsRule(p, rule) PROVE Mapping(rule)
    BY <2>2 DEF IsRule, IsRanges, IsRange, Mapping
  <2>3. \A p \in DOMAIN mapsRemote : Mapping(mapsRemote[p]) /\ mapsRemote[p].remote = p
    BY <2>2 DEF MapsInv, RemoteHolds, IsRule
  <2>4. ASSUME NEW p \in DOMAIN mapsLocal PROVE Mapping(mapsLocal[p]) /\ ~mapsLocal[p].skip
    <3>1. PICK q \in DOMAIN mapsRemote : Back(p, mapsLocal[p], mapsRemote[q])
      BY DEF MapsInv, LocalLeads
    <3> DEFINE rule == mapsRemote[q]
               m == mapsLocal[p]
    <3>2. IsRule(q, rule)
      BY DEF MapsInv, RemoteHolds
    <3> HIDE DEF rule, m
    <3>3. CASE rule.type # "lines"
      <4>1. m = rule /\ ~rule.skip
        BY <3>1, <3>3 DEF Back, rule, m
      <4> QED
        BY <2>2, <3>2, <4>1 DEF m
    <3>4. CASE rule.type = "lines"
      <4> DEFINE u == Unskipped(rule)
      <4>1. m = Reversed(rule) /\ u # << >> /\ ~rule.skip
        BY <3>1, <3>2, <3>4 DEF Back, rule, m, IsRule
      <4>2. PICK S : rule.ranges \in Seq(S)
        BY <3>2 DEF IsRule, IsRanges
      <4>3. u \in Seq({r \in S : ~r.skip}) /\ \A i \in DOMAIN u : \E k \in DOMAIN rule.ranges : u[i] = rule.ranges[k]
        BY <4>2, UnskippedIs
      <4>4. \A i \in DOMAIN u : IsRange(u[i])
        BY <3>2, <4>3 DEF IsRule, IsRanges
      <4> HIDE DEF u
      <4>5. /\ m.type = "lines" /\ m.skip = rule.skip
            /\ m.ranges = [i \in DOMAIN u |-> [u[i] EXCEPT !.path = rule.remote]]
        BY <3>2, <3>4, <4>1 DEF Reversed, IsRule, RuleFields, u
      <4>6. DOMAIN m.ranges = DOMAIN u
        BY <4>5
      <4>7. ASSUME NEW i \in DOMAIN u PROVE m.ranges[i].remoteEnd \in Nat
        <5>1. m.ranges[i] = [u[i] EXCEPT !.path = rule.remote]
          BY <4>5
        <5>2. DOMAIN u[i] = RangeFields /\ u[i].remoteEnd \in Nat
          BY <4>4 DEF IsRange
        <5> QED
          BY <5>1, <5>2 DEF RangeFields
      <4>8. m.ranges # << >>
        <5>1. Len(u) \in Nat /\ Len(u) # 0 /\ DOMAIN u = 1..Len(u)
          BY <4>1, <4>3, EmptySeq, LenProperties
        <5>2. 1 \in DOMAIN m.ranges
          BY <4>6, <5>1
        <5>3. DOMAIN << >> = {}
          OBVIOUS
        <5> QED
          BY <5>2, <5>3
      <4>9. m.skip \in BOOLEAN /\ ~m.skip
        BY <3>2, <4>1, <4>5 DEF IsRule
      <4> QED
        BY <4>5, <4>6, <4>7, <4>8, <4>9 DEF Mapping, m
    <3> QED
      BY <3>3, <3>4
  <2> QED
    BY <2>1, <2>3, <2>4 DEF MapsTypeOK
<1> QED
  BY <1>1, MapsInvariant, PTL

\* A map file that is read later never changes what an earlier one said of a remote path,
\* and takes a local path from it only for ranges: copy_rule() and copy_rule_reverse().
THEOREM EarlierFilesStand == MapsSpec => EarlierRulesStand
<1> DEFINE Stands ==
      /\ \A path \in DOMAIN mapsRemote :
             path \in DOMAIN mapsRemote' /\ mapsRemote'[path] = mapsRemote[path]
      /\ \A path \in DOMAIN mapsLocal :
             /\ path \in DOMAIN mapsLocal'
             /\ mapsLocal'[path] = mapsLocal[path] \/ mapsLocal'[path].type = "lines"
<1>1. MapsInv /\ [MapsNext]_mapsVars => [Stands]_mapsVars
  <2> SUFFICES ASSUME MapsInv, MapsNext PROVE Stands \/ UNCHANGED mapsVars
    OBVIOUS
  <2>1. CASE mapsRemote' = mapsRemote /\ mapsLocal' = mapsLocal
    BY <2>1
  <2>2. CASE ~(mapsRemote' = mapsRemote /\ mapsLocal' = mapsLocal)
    <3>1. EndOfFile
      BY <2>2 DEF MapsNext, OpenMapFile, NextDirectory, Garbage, EndOfEmptyFile, RemotePrefix,
                  LocalPrefix, Rule, ReadLine
    <3>2. FileHolds
      BY DEF MapsInv
    <3>3. PICK order : \E n \in Nat :
              /\ \A i \in 1..n : order[i] \in DOMAIN mapsFile.rules
              /\ \E copy : /\ Added(mapsRemote, mapsFile.rules, order, n, copy)
                           /\ mapsRemote' = copy.map
                           /\ \/ mapsLocal' = mapsLocal
                              \/ /\ ~copy.failed
                                 /\ \E back : /\ AddedBack(mapsLocal, mapsFile.rules, order, n, back)
                                              /\ mapsLocal' = back.map
      BY <3>1, <3>2, FileIsCopied
    <3>4. \A p \in DOMAIN mapsRemote : p \in DOMAIN mapsRemote' /\ mapsRemote'[p] = mapsRemote[p]
      BY <3>3 DEF Added
    <3>5. \A p \in DOMAIN mapsLocal :
             /\ p \in DOMAIN mapsLocal'
             /\ mapsLocal'[p] = mapsLocal[p] \/ mapsLocal'[p].type = "lines"
      BY <3>3 DEF AddedBack
    <3> QED
      BY <3>4, <3>5
  <2> QED
    BY <2>1, <2>2
<1> QED
  BY <1>1, MapsInvariant, PTL DEF MapsSpec, EarlierRulesStand

LEMMA LinesAreSorted ==
    ASSUME NEW path, NEW rule, IsRule(path, rule), Ordered(rule)
    PROVE  /\ Sorted(RemoteLines(rule)) /\ Sorted(LocalLines(rule))
           /\ Len(RemoteLines(rule)) = Len(rule.ranges) /\ Len(LocalLines(rule)) = Len(rule.ranges)
           /\ Len(rule.ranges) \in Nat /\ DOMAIN rule.ranges = 1..Len(rule.ranges)
<1> DEFINE s == rule.ranges
           n == Len(s)
           a == RemoteLines(rule)
           b == LocalLines(rule)
<1>1. n \in Nat /\ DOMAIN s = 1..n
  <2>1. PICK S : s \in Seq(S)
    BY DEF IsRule, IsRanges
  <2> HIDE DEF s
  <2> QED
    BY <2>1, LenProperties
<1>2. \A k \in 1..n : IsRange(s[k]) /\ ~s[k].skip
  BY <1>1 DEF IsRule, IsRanges, Ordered
<1>3. InOrder(s)
  BY DEF IsRule
<1>4. /\ a = [k \in 1..n |-> <<s[k].remoteBegin, s[k].remoteEnd>>]
      /\ b = [k \in 1..n |-> <<s[k].localBegin, s[k].localEnd>>]
  BY <1>1 DEF RemoteLines, LocalLines
<1> HIDE DEF s, n, a, b
<1>5. \A k \in 1..n : a[k] \in Int \X Int /\ b[k] \in Int \X Int
  BY <1>2, <1>4 DEF IsRange
<1>6. /\ a \in [1..n -> Int \X Int] /\ b \in [1..n -> Int \X Int]
      /\ a \in Seq(Int \X Int) /\ b \in Seq(Int \X Int)
  <2>1. a \in [1..n -> Int \X Int] /\ b \in [1..n -> Int \X Int]
    BY <1>4, <1>5
  <2>2. \A x \in [1..n -> Int \X Int] : x \in Seq(Int \X Int)
    BY <1>1, SeqDef
  <2> QED
    BY <2>1, <2>2, Zenon
<1>7. Len(a) = n /\ Len(b) = n
  BY <1>1, <1>6, LenProperties
<1>8. /\ \A k \in 1..n : a[k][1] = s[k].remoteBegin /\ a[k][2] = s[k].remoteEnd
      /\ \A k \in 1..n : b[k][1] = s[k].localBegin /\ b[k][2] = s[k].localEnd
  BY <1>4
<1>9. Sorted(a)
  <2>1. \A k \in 1..n : a[k][1] <= a[k][2]
    BY <1>2, <1>8 DEF IsRange
  <2>2. \A j, k \in 1..n : j < k => a[j][2] < a[k][1]
    BY <1>1, <1>3, <1>8 DEF InOrder, Before, s
  <2> QED
    BY <1>6, <1>7, <2>1, <2>2 DEF Sorted
<1>10. Sorted(b)
  <2>1. \A k \in 1..n : b[k][1] <= b[k][2]
    BY <1>2, <1>8 DEF IsRange
  <2>2. \A j, k \in 1..n : j < k => b[j][2] < b[k][1]
    BY <1>1, <1>3, <1>8 DEF InOrder, Before, s
  <2> QED
    BY <1>6, <1>7, <2>1, <2>2 DEF Sorted
<1> QED
  BY <1>1, <1>7, <1>9, <1>10 DEF s, n, a, b

\* The checks of state_add_rule() on consecutive rules are what the binary searches over
\* line ranges need: no range is missed, and none is found for a line outside of it.
THEOREM SearchIsComplete == MapsSpec => []SearchMissesNothing
<1>1. MapsInv => SearchMissesNothing
  <2> SUFFICES ASSUME MapsInv, NEW path \in DOMAIN mapsRemote, NEW n \in MapLineNumbers,
                      Ordered(mapsRemote[path])
               PROVE  LET lines == RemoteLines(mapsRemote[path])
                      IN Bisect(lines, n) = 0
                           <=> \A k \in DOMAIN lines : n \notin lines[k][1]..lines[k][2]
    BY DEF SearchMissesNothing
  <2> DEFINE rule == mapsRemote[path]
             lines == RemoteLines(rule)
  <2>1. IsRule(path, rule)
    BY DEF MapsInv, RemoteHolds
  <2>2. n \in Int
    BY MapBoundsAssumption DEF MapBoundsAssumption
  <2> HIDE DEF rule
  <2>3. Sorted(lines)
    BY <2>1, LinesAreSorted DEF rule
  <2> HIDE DEF lines
  <2>4. /\ Bisect(lines, n) \in 0..Len(lines) /\ Len(lines) \in Nat
        /\ Bisect(lines, n) # 0 => lines[Bisect(lines, n)][1] <= n /\ n <= lines[Bisect(lines, n)][2]
        /\ Bisect(lines, n) = 0 => \A k \in 1..Len(lines) : ~(lines[k][1] <= n /\ n <= lines[k][2])
    BY <2>2, <2>3, BisectIs
  <2>5. DOMAIN lines = 1..Len(lines) /\ \A k \in 1..Len(lines) : lines[k] \in Int \X Int
    BY <2>3, LenProperties, ElementOfSeq DEF Sorted
  <2>6. \A k \in 1..Len(lines) : n \in lines[k][1]..lines[k][2] <=> lines[k][1] <= n /\ n <= lines[k][2]
    BY <2>2, <2>5
  <2>7. CASE Bisect(lines, n) = 0
    BY <2>4, <2>5, <2>6, <2>7 DEF lines, rule
  <2>8. CASE Bisect(lines, n) # 0
    <3>1. Bisect(lines, n) \in 1..Len(lines)
      BY <2>4, <2>8
    <3> QED
      BY <2>4, <2>5, <2>6, <2>8, <3>1 DEF lines, rule
  <2> QED
    BY <2>7, <2>8
<1> QED
  BY <1>1, MapsInvariant, PTL

\* There and back between two ranges that correspond to each other.
LEMMA TranslatedBack ==
    ASSUME NEW n \in Int, NEW lb \in Int, NEW le \in Int, NEW rb \in Int, NEW re \in Int,
           lb <= n, n <= le, rb <= re, lb # le => re - rb = le - lb
    PROVE  LET t == Translated(n, <<lb, le>>, <<rb, re>>)
           IN t \in Int /\ rb <= t /\ t <= re /\ Translated(t, <<rb, re>>, <<lb, le>>) = n
<1> DEFINE t == IF re = rb THEN rb ELSE n - lb + rb
<1>1. Translated(n, <<lb, le>>, <<rb, re>>) = t
  BY DEF Translated
<1>2. t \in Int /\ rb <= t /\ t <= re
  OBVIOUS
<1>3. (IF le = lb THEN lb ELSE t - rb + lb) = n
  OBVIOUS
<1> HIDE DEF t
<1>4. Translated(t, <<rb, re>>, <<lb, le>>) = IF le = lb THEN lb ELSE t - rb + lb
  BY DEF Translated
<1> QED
  BY <1>1, <1>2, <1>3, <1>4

\* Ranges: the search on the way back finds the range that the way there has used.
LEMMA RangesLeadBack ==
    ASSUME NEW q, NEW rule, IsRule(q, rule), Ordered(rule), q \in DOMAIN mapsRemote,
           mapsRemote[q] = rule, rule.type = "lines",
           NEW n \in Int, NEW f \in DOMAIN rule.ranges,
           LocalLines(rule)[f][1] <= n, n <= LocalLines(rule)[f][2]
    PROVE  LET t == Translated(n, LocalLines(rule)[f], RemoteLines(rule)[f])
           IN RemoteToLocal(q, t) = Place(rule.ranges[f].path, n)
<1> DEFINE s == rule.ranges
           a == RemoteLines(rule)
           b == LocalLines(rule)
           t == Translated(n, b[f], a[f])
           h == Bisect(a, t)
<1>1. /\ Sorted(a) /\ Sorted(b) /\ Len(a) = Len(s) /\ Len(b) = Len(s)
      /\ Len(s) \in Nat /\ DOMAIN s = 1..Len(s)
  BY LinesAreSorted
<1>2. /\ a[f] = <<s[f].remoteBegin, s[f].remoteEnd>> /\ b[f] = <<s[f].localBegin, s[f].localEnd>>
      /\ IsRange(s[f]) /\ ~s[f].skip
  BY DEF RemoteLines, LocalLines, IsRule, IsRanges, Ordered
<1>3. /\ s[f].remoteBegin \in Int /\ s[f].remoteEnd \in Int /\ s[f].localBegin \in Int
      /\ s[f].localEnd \in Int /\ s[f].remoteBegin <= s[f].remoteEnd
      /\ s[f].localBegin # s[f].localEnd =>
            s[f].remoteEnd - s[f].remoteBegin = s[f].localEnd - s[f].localBegin
  BY <1>2 DEF IsRange
<1>4. s[f].localBegin <= n /\ n <= s[f].localEnd
  BY <1>2
<1>5. /\ t \in Int /\ s[f].remoteBegin <= t /\ t <= s[f].remoteEnd
      /\ Translated(t, a[f], b[f]) = n
  <2> HIDE DEF s, a, b
  <2>1. t = Translated(n, <<s[f].localBegin, s[f].localEnd>>, <<s[f].remoteBegin, s[f].remoteEnd>>)
    BY <1>2
  <2> DEFINE v == Translated(n, <<s[f].localBegin, s[f].localEnd>>,
                             <<s[f].remoteBegin, s[f].remoteEnd>>)
  <2>2. /\ v \in Int /\ s[f].remoteBegin <= v /\ v <= s[f].remoteEnd
        /\ Translated(v, <<s[f].remoteBegin, s[f].remoteEnd>>, <<s[f].localBegin, s[f].localEnd>>) = n
    <3> DEFINE lb == s[f].localBegin
               le == s[f].localEnd
               rb == s[f].remoteBegin
               re == s[f].remoteEnd
    <3>1. /\ lb \in Int /\ le \in Int /\ rb \in Int /\ re \in Int
          /\ lb <= n /\ n <= le /\ rb <= re
          /\ lb # le => re - rb = le - lb
      BY <1>3, <1>4
    <3> HIDE DEF lb, le, rb, re
    <3>2. LET w == Translated(n, <<lb, le>>, <<rb, re>>)
          IN w \in Int /\ rb <= w /\ w <= re /\ Translated(w, <<rb, re>>, <<lb, le>>) = n
      BY <3>1, TranslatedBack, SMTT(30)
    <3> QED
      BY <3>2 DEF lb, le, rb, re
  <2> HIDE DEF t, v
  <2>3. t = v
    BY <2>1 DEF v
  <2> QED
    BY <1>2, <2>2, <2>3
<1> HIDE DEF s, a, b, t, h
<1>6. /\ h \in 0..Len(a)
      /\ h # 0 => a[h][1] <= t /\ t <= a[h][2]
      /\ h = 0 => \A k \in 1..Len(a) : ~(a[k][1] <= t /\ t <= a[k][2])
  BY <1>1, <1>5, BisectIs DEF h
<1>7. a[f][1] = s[f].remoteBegin /\ a[f][2] = s[f].remoteEnd /\ f \in 1..Len(a)
  BY <1>1, <1>2 DEF s
<1>8. h \in 1..Len(a)
  <2>1. h # 0
    BY <1>5, <1>6, <1>7
  <2> QED
    BY <1>1, <1>6, <2>1
<1>9. h = f
  <2>1. a[h] \in Int \X Int /\ a[f] \in Int \X Int
    BY <1>1, <1>7, <1>8, ElementOfSeq DEF Sorted
  <2>2. /\ h < f => a[h][2] < a[f][1]
        /\ f < h => a[f][2] < a[h][1]
    BY <1>1, <1>7, <1>8 DEF Sorted
  <2>3. h \in Int /\ f \in Int
    BY <1>1, <1>7, <1>8
  <2>4. a[h][1] \in Int /\ a[h][2] \in Int /\ a[f][1] \in Int /\ a[f][2] \in Int
    BY <2>1
  <2>5. a[h][1] <= t /\ t <= a[h][2] /\ a[f][1] <= t /\ t <= a[f][2]
    BY <1>5, <1>6, <1>7, <1>8
  <2>6. ~(h < f) /\ ~(f < h)
    BY <1>5, <2>2, <2>4, <2>5
  <2> QED
    BY <2>3, <2>6
<1>10. h # 0 /\ ~rule.skip /\ ~rule.ranges[h].skip
  BY <1>1, <1>2, <1>8, <1>9 DEF IsRule, s
<1>11. RemoteToLocal(q, t) = Place(rule.ranges[h].path, Translated(t, RemoteLines(rule)[h], LocalLines(rule)[h]))
  BY <1>10 DEF RemoteToLocal, h, a
<1>12. RemoteToLocal(q, t) = Place(rule.ranges[f].path, n)
  BY <1>5, <1>9, <1>11 DEF a, b
<1> QED
  BY <1>12 DEF t, a, b

\* A breakpoint that a rule translates is shown where the client has set it: the two
\* maps that copy_rule() and copy_rule_reverse() fill lead there and back, however many
\* files there were and whichever of them were refused half-way.
THEOREM BreakpointsComeBack == MapsSpec => []BreakpointsShownWhereSet
<1>1. MapsInv => BreakpointsShownWhereSet
  <2> SUFFICES ASSUME MapsInv, NEW path \in DOMAIN mapsLocal, NEW n \in MapLineNumbers,
                      LocalToRemote(path, n) # Unknown,
                      BreakpointPlace(path, n).path \in DOMAIN mapsRemote,
                      Ordered(mapsRemote[BreakpointPlace(path, n).path])
               PROVE  ShownPlace(BreakpointPlace(path, n)) = Place(path, n)
    BY DEF BreakpointsShownWhereSet
  <2>1. BreakpointPlace(path, n) = LocalToRemote(path, n)
    BY DEF BreakpointPlace
  <2>2. ASSUME NEW p, NEW l PROVE /\ Place(p, l).path = p /\ Place(p, l).line = l
                                  /\ Place(p, l) # Unknown
    <3>1. Place(p, l).result = "mapped" /\ Unknown.result = "unknown"
      BY DEF Place, Unknown
    <3> QED
      BY <3>1 DEF Place
  <2>3. PICK q \in DOMAIN mapsRemote : Back(path, mapsLocal[path], mapsRemote[q])
    BY DEF MapsInv, LocalLeads
  <2> DEFINE rule == mapsRemote[q]
             m == mapsLocal[path]
  <2>4. IsRule(q, rule) /\ rule.remote = q
    BY DEF MapsInv, RemoteHolds, IsRule
  <2>5. n \in Int
    BY MapBoundsAssumption DEF MapBoundsAssumption
  <2>6. CASE rule.type # "lines"
    <3>1. m = rule /\ ~rule.skip /\ path = rule.local
      BY <2>3, <2>6 DEF Back
    <3>2. LocalToRemote(path, n) = Place(q, n)
      BY <2>4, <2>6, <3>1 DEF LocalToRemote
    <3>3. RemoteToLocal(q, n) = Place(path, n)
      BY <2>6, <3>1 DEF RemoteToLocal
    <3> QED
      BY <2>1, <2>2, <3>2, <3>3 DEF ShownPlace
  <2>7. CASE rule.type = "lines"
    <3> DEFINE u == Unskipped(rule)
               f == Bisect(LocalLines(m), n)
    <3>1. m = Reversed(rule) /\ u # << >> /\ path = Last(u).path
      BY <2>3, <2>7 DEF Back
    <3>2. PICK S : rule.ranges \in Seq(S)
      BY <2>4 DEF IsRule, IsRanges
    <3>3. /\ u \in Seq({r \in S : ~r.skip})
          /\ \A i \in DOMAIN u : \E k \in DOMAIN rule.ranges : u[i] = rule.ranges[k]
          /\ Ordered(rule) => u = rule.ranges
      BY <3>2, UnskippedIs
    <3>4. Len(u) \in Nat /\ DOMAIN u = 1..Len(u) /\ Len(u) # 0
      BY <3>1, <3>3, LenProperties, EmptySeq
    <3>5. \A i \in DOMAIN u : IsRange(u[i])
      BY <2>4, <3>3 DEF IsRule, IsRanges
    <3> HIDE DEF rule, m, u
    <3>6. m.type = "lines" /\ m.ranges = [i \in DOMAIN u |-> [u[i] EXCEPT !.path = q]]
      BY <2>4, <2>7, <3>1 DEF Reversed, IsRule, RuleFields, u
    <3>7. \A i \in DOMAIN u : /\ m.ranges[i].path = q
                              /\ m.ranges[i].localBegin = u[i].localBegin
                              /\ m.ranges[i].localEnd = u[i].localEnd
                              /\ m.ranges[i].remoteBegin = u[i].remoteBegin
                              /\ m.ranges[i].remoteEnd = u[i].remoteEnd
      <4>1. ASSUME NEW i \in DOMAIN u
            PROVE  /\ m.ranges[i].path = q
                   /\ m.ranges[i].localBegin = u[i].localBegin
                   /\ m.ranges[i].localEnd = u[i].localEnd
                   /\ m.ranges[i].remoteBegin = u[i].remoteBegin
                   /\ m.ranges[i].remoteEnd = u[i].remoteEnd
        <5>1. m.ranges[i] = [u[i] EXCEPT !.path = q]
          BY <3>6
        <5>2. DOMAIN u[i] = RangeFields
          BY <3>5 DEF IsRange
        <5> QED
          BY <5>1, <5>2 DEF RangeFields
      <4> QED
        BY <4>1
    <3>8. DOMAIN m.ranges = DOMAIN u
      BY <3>6
    <3>9. LocalLines(m) = [k \in 1..Len(u) |-> <<u[k].localBegin, u[k].localEnd>>]
      BY <3>4, <3>7, <3>8 DEF LocalLines
    <3>10. LocalLines(m) \in Seq(Int \X Int) /\ Len(LocalLines(m)) = Len(u)
      <4>1. \A k \in 1..Len(u) : <<u[k].localBegin, u[k].localEnd>> \in Int \X Int
        BY <3>4, <3>5 DEF IsRange
      <4>2. LocalLines(m) \in [1..Len(u) -> Int \X Int]
        BY <3>9, <4>1
      <4> QED
        BY <3>4, <4>2, SeqDef, LenProperties
    <3>11. f \in 0..Len(u)
      BY <3>4, <3>10, BisectStays
    <3>12. /\ LocalToRemote(path, n) =
                 IF f = 0 THEN Unknown
                 ELSE Place(m.ranges[f].path, Translated(n, LocalLines(m)[f], RemoteLines(m)[f]))
      BY <3>6 DEF LocalToRemote, m
    <3> HIDE DEF f
    <3>13. f \in DOMAIN u
      <4>1. f # 0
        BY <3>12
      <4> QED
        BY <3>4, <3>11, <4>1
    <3> DEFINE t == Translated(n, LocalLines(m)[f], RemoteLines(m)[f])
    <3>14. LocalToRemote(path, n) = Place(q, t)
      <4>1. f # 0
        BY <3>12
      <4> QED
        BY <3>7, <3>12, <3>13, <4>1
    <3> HIDE DEF t
    <3>15. Ordered(rule)
      <4>1. BreakpointPlace(path, n).path = q
        BY <2>1, <2>2, <3>14
      <4> QED
        BY <4>1 DEF rule
    <3>16. u = rule.ranges
      BY <3>3, <3>15
    <3>17. LocalLines(m) = LocalLines(rule) /\ RemoteLines(m) = RemoteLines(rule)
      <4>1. LocalLines(m) = [k \in DOMAIN u |-> <<u[k].localBegin, u[k].localEnd>>]
        BY <3>7, <3>8 DEF LocalLines
      <4>2. RemoteLines(m) = [k \in DOMAIN u |-> <<u[k].remoteBegin, u[k].remoteEnd>>]
        BY <3>7, <3>8 DEF RemoteLines
      <4> QED
        BY <3>16, <4>1, <4>2 DEF LocalLines, RemoteLines
    <3>18. LocalLines(rule)[f][1] <= n /\ n <= LocalLines(rule)[f][2]
      <4>1. Sorted(LocalLines(rule))
        BY <2>4, <3>15, LinesAreSorted
      <4>2. f = Bisect(LocalLines(rule), n) /\ f # 0
        BY <3>4, <3>13, <3>17 DEF f
      <4> QED
        BY <2>5, <4>1, <4>2, BisectIs
    <3>19. t = Translated(n, LocalLines(rule)[f], RemoteLines(rule)[f])
      BY <3>17 DEF t
    <3>20. RemoteToLocal(q, t) = Place(rule.ranges[f].path, n)
      <4>1. f \in DOMAIN rule.ranges /\ rule = mapsRemote[q]
        BY <3>13, <3>16 DEF rule
      <4> QED
        BY <2>4, <2>5, <2>7, <3>15, <3>18, <3>19, <4>1, RangesLeadBack
    <3>21. rule.ranges[f].path = path
      <4>1. path = u[Len(u)].path /\ Len(u) \in DOMAIN u
        BY <3>1, <3>4 DEF Last
      <4>2. InOrder(u)
        BY <2>4, <3>15, <3>16 DEF IsRule
      <4>3. f = Len(u) \/ f < Len(u)
        BY <3>4, <3>13
      <4>4. f = Len(u) \/ u[f].path = u[Len(u)].path
        BY <3>13, <4>1, <4>2, <4>3 DEF InOrder, Before
      <4> QED
        BY <3>16, <4>1, <4>4
    <3>22. RemoteToLocal(q, t) = Place(path, n)
      BY <3>20, <3>21
    <3> QED
      BY <2>1, <2>2, <3>14, <3>22 DEF ShownPlace
  <2> QED
    BY <2>6, <2>7
<1> QED
  BY <1>1, MapsInvariant, PTL

-----------------------------------------------------------------------------
(* The line.                                                               *)

\* The pieces from k on, with what is behind the next one in g.
Join(pieces, end, g, k) == IF k > Len(pieces) THEN end ELSE pieces[k] \o g[k + 1]

LEMMA JoinExists ==
    ASSUME NEW pieces, NEW end, Len(pieces) \in Nat
    PROVE  \E g : g = [k \in 1..(Len(pieces) + 1) |-> Join(pieces, end, g, k)]
<1> DEFINE m == Len(pieces) + 1
           Upto(d) == d < m => \E g : g = [k \in (m - d)..m |-> Join(pieces, end, g, k)]
           T == {d \in Nat : ~Upto(d)}
<1>1. T = {}
  <2> SUFFICES ASSUME T # {} PROVE FALSE
    OBVIOUS
  <2>1. PICK d \in T : \A x \in T : d <= x
    <3> HIDE DEF Upto
    <3> QED
      BY Smallest
  <2>2. d \in Nat /\ d < m
    BY <2>1
  <2>3. ASSUME NEW g, d = 0 \/ g = [k \in (m - (d - 1))..m |-> Join(pieces, end, g, k)]
        PROVE  FALSE
    <3> DEFINE h == [k \in (m - d)..m |-> Join(pieces, end, g, k)]
    <3>1. ASSUME NEW k \in (m - d)..m PROVE Join(pieces, end, g, k) = Join(pieces, end, h, k)
      <4>1. CASE k = m
        BY <4>1 DEF Join
      <4>2. CASE k # m
        <5>1. k + 1 \in (m - (d - 1))..m /\ k + 1 \in (m - d)..m /\ d # 0
          BY <2>2, <4>2
        <5>2. g[k + 1] = Join(pieces, end, g, k + 1) /\ h[k + 1] = Join(pieces, end, g, k + 1)
          BY <2>3, <5>1
        <5> HIDE DEF h
        <5> QED
          BY <5>2 DEF Join
      <4> QED
        BY <4>1, <4>2
    <3>2. h = [k \in (m - d)..m |-> Join(pieces, end, h, k)]
      BY <3>1
    <3> HIDE DEF h
    <3>3. Upto(d)
      BY <3>2
    <3> QED
      BY <2>1, <3>3
  <2>4. CASE d = 0
    BY <2>3, <2>4
  <2>5. CASE d # 0
    <3>1. d - 1 \in Nat /\ ~(d <= d - 1) /\ d - 1 < m
      BY <2>2, <2>5
    <3>2. Upto(d - 1)
      <4> HIDE DEF Upto
      <4> QED
        BY <2>1, <3>1
    <3> QED
      BY <2>3, <3>1, <3>2
  <2> QED
    BY <2>4, <2>5
<1> HIDE DEF Upto
<1>2. Upto(Len(pieces))
  BY <1>1
<1>3. m - Len(pieces) = 1 /\ Len(pieces) < m
  OBVIOUS
<1> QED
  BY <1>2, <1>3 DEF Upto

\* Each piece stands before the ones behind it.
ArePieces(S, pieces, end) ==
    /\ Len(pieces) \in Nat /\ end \in Seq(S)
    /\ \A k \in 1..Len(pieces) : pieces[k] \in Seq(S)
StandTogether(S, pieces, end) ==
    /\ \A k \in 1..(Len(pieces) + 1) : Joined(pieces, end)[k] \in Seq(S)
    /\ \A k \in 1..Len(pieces) : Joined(pieces, end)[k] = pieces[k] \o Joined(pieces, end)[k + 1]
    /\ Joined(pieces, end)[Len(pieces) + 1] = end

LEMMA JoinedIs ==
    ASSUME NEW S, NEW pieces, NEW end, ArePieces(S, pieces, end)
    PROVE  StandTogether(S, pieces, end)
<1>0. /\ Len(pieces) \in Nat /\ end \in Seq(S)
      /\ \A k \in 1..Len(pieces) : pieces[k] \in Seq(S)
  BY DEF ArePieces
<1> DEFINE n == Len(pieces)
           Is(g) == g = [k \in 1..(n + 1) |-> Join(pieces, end, g, k)]
           f == CHOOSE g : Is(g)
<1>1. Is(f)
  <2>1. \E g : Is(g)
    BY <1>0, JoinExists
  <2> QED
    BY <2>1
<1>2. Joined(pieces, end) = f
  BY DEF Joined, Join
<1> HIDE DEF f
<1>3. ASSUME NEW k \in 1..n PROVE f[k] = pieces[k] \o f[k + 1]
  <2>1. k \in 1..(n + 1) /\ ~(k > n)
    BY <1>0
  <2>2. f[k] = Join(pieces, end, f, k)
    BY <1>1, <2>1
  <2> QED
    BY <2>1, <2>2 DEF Join
<1>4. f[n + 1] = end
  <2>1. n + 1 \in 1..(n + 1) /\ n + 1 > n
    BY <1>0
  <2>2. f[n + 1] = Join(pieces, end, f, n + 1)
    BY <1>1, <2>1
  <2> QED
    BY <2>1, <2>2 DEF Join
<1> DEFINE T == {d \in Nat : d <= n /\ f[n + 1 - d] \notin Seq(S)}
<1>5. T = {}
  <2> SUFFICES ASSUME T # {} PROVE FALSE
    OBVIOUS
  <2>1. PICK d \in T : \A x \in T : d <= x
    BY Smallest
  <2>2. d \in Nat /\ d <= n /\ f[n + 1 - d] \notin Seq(S)
    BY <2>1
  <2>3. d # 0
    BY <1>0, <1>4, <2>2
  <2> DEFINE k == n + 1 - d
  <2>4. k \in 1..n /\ d - 1 \in Nat /\ d - 1 <= n /\ ~(d <= d - 1) /\ n + 1 - (d - 1) = k + 1
    BY <1>0, <2>2, <2>3
  <2>5. f[k + 1] \in Seq(S)
    BY <2>1, <2>4
  <2> HIDE DEF k
  <2>6. pieces[k] \o f[k + 1] \in Seq(S)
    BY <1>0, <2>4, <2>5, ConcatProperties
  <2> QED
    BY <1>3, <2>2, <2>4, <2>6 DEF k
<1>6. ASSUME NEW k \in 1..(n + 1) PROVE f[k] \in Seq(S)
  <2>1. n + 1 - k \in Nat /\ n + 1 - k <= n /\ n + 1 - (n + 1 - k) = k
    BY <1>0
  <2> QED
    BY <1>5, <2>1
<1> QED
  BY <1>2, <1>3, <1>4, <1>6 DEF StandTogether

\* Lists one behind the other, for all of them.
LEMMA Together ==
    \A S : \A a, b, c \in Seq(S) : (a \o b) \o c = a \o (b \o c)
BY ConcatAssociative, Zenon

LEMMA Behind ==
    \A S : \A a, b \in Seq(S) :
        /\ a \o b \in Seq(S) /\ Len(a \o b) = Len(a) + Len(b)
        /\ \A i \in 1..Len(a) : (a \o b)[i] = a[i]
        /\ \A i \in 1..Len(b) : (a \o b)[Len(a) + i] = b[i]
BY ConcatIs

\* What a reader sees of a text that starts with a character.
BeginsWith(s, a, rest) == s # << >> /\ Head(s) = a /\ Tail(s) = rest

LEMMA HeadIs ==
    ASSUME NEW S, NEW a \in S, NEW t \in Seq(S)
    PROVE  <<a>> \o t \in Seq(S) /\ BeginsWith(<<a>> \o t, a, t)
<1>1. <<a>> \in Seq(S) /\ Len(<<a>>) = 1 /\ <<a>>[1] = a
  OBVIOUS
<1> DEFINE s == <<a>> \o t
<1>2. /\ s \in Seq(S) /\ Len(s) = 1 + Len(t) /\ Len(t) \in Nat
      /\ s[1] = a /\ \A i \in 1..Len(t) : s[1 + i] = t[i]
  BY <1>1, ConcatIs
<1> HIDE DEF s
<1>3. s # << >> /\ Head(s) = a
  BY <1>2, EmptySeq
<1>4. /\ Tail(s) \in Seq(S) /\ Len(Tail(s)) = Len(s) - 1
      /\ \A i \in 1..Len(Tail(s)) : Tail(s)[i] = s[i + 1]
  BY <1>2, <1>3, HeadTailProperties
<1>5. Len(Tail(s)) = Len(t) /\ \A i \in 1..Len(Tail(s)) : Tail(s)[i] = t[i]
  BY <1>2, <1>4
<1>6. Tail(s) = t
  BY <1>4, <1>5, SeqEqual
<1> QED
  BY <1>2, <1>3, <1>6 DEF BeginsWith, s

LEMMA PairIs ==
    ASSUME NEW S, NEW a \in S, NEW b \in S, NEW t \in Seq(S)
    PROVE  <<a, b>> \o t = <<a>> \o (<<b>> \o t)
<1> DEFINE x == <<a>>
           y == <<b>>
           z == <<a, b>>
<1>1. /\ x \in Seq(S) /\ y \in Seq(S) /\ z \in Seq(S) /\ Len(x) = 1 /\ Len(y) = 1 /\ Len(z) = 2
      /\ x[1] = a /\ y[1] = b /\ z[1] = a /\ z[2] = b
  OBVIOUS
<1> HIDE DEF x, y, z
<1>2. /\ x \o y \in Seq(S) /\ Len(x \o y) = Len(x) + Len(y)
      /\ \A i \in 1..Len(x) + Len(y) : (x \o y)[i] = IF i <= Len(x) THEN x[i] ELSE y[i - Len(x)]
  BY <1>1, ConcatProperties
<1> DEFINE w == x \o y
<1>3. w \in Seq(S) /\ Len(w) = 2 /\ w[1] = a /\ w[2] = b
  BY <1>1, <1>2
<1> HIDE DEF w
<1>4. z = w
  <2>1. Len(z) = Len(w) /\ \A i \in 1..Len(z) : z[i] = w[i]
    BY <1>1, <1>3
  <2> QED
    BY <1>1, <1>3, <2>1, SeqEqual
<1>5. (x \o y) \o t = x \o (y \o t)
  <2>1. x \in Seq(S) /\ y \in Seq(S)
    BY <1>1
  <2> QED
    BY <2>1, Together
<1> QED
  BY <1>4, <1>5 DEF w, x, y, z

LEMMA OneIs == \A S : \A a \in S : <<a>> \in Seq(S)
OBVIOUS

LEMMA FourAre ==
    ASSUME NEW S, NEW a \in S, NEW b \in S, NEW c \in S, NEW d \in S, NEW t \in Seq(S)
    PROVE  /\ <<a, b, c, d>> \in Seq(S)
           /\ <<a, b, c, d>> \o t = Cons(a, Cons(b, Cons(c, Cons(d, t))))
<1> DEFINE x == <<a, b>>
           y == <<c, d>>
           z == <<a, b, c, d>>
           t1 == <<d>> \o t
           t2 == <<c>> \o t1
           t3 == <<b>> \o t2
<1>1. /\ x \in Seq(S) /\ Len(x) = 2 /\ x[1] = a /\ x[2] = b
  OBVIOUS
<1>2. /\ y \in Seq(S) /\ Len(y) = 2 /\ y[1] = c /\ y[2] = d
  OBVIOUS
<1>3. /\ z \in Seq(S) /\ Len(z) = 4 /\ z[1] = a /\ z[2] = b /\ z[3] = c /\ z[4] = d
  OBVIOUS
<1> DEFINE w == x \o y
<1>4. t1 \in Seq(S)
  BY HeadIs
<1>5. y \o t = <<c>> \o t1
  BY PairIs
<1> HIDE DEF t1
<1>6. t2 \in Seq(S)
  BY <1>4, HeadIs
<1> HIDE DEF t2
<1>7. x \o t2 = <<a>> \o t3
  BY <1>6, PairIs
<1> HIDE DEF x, y, z
<1>8. /\ w \in Seq(S) /\ Len(w) = Len(x) + Len(y)
      /\ \A i \in 1..Len(x) : w[i] = x[i]
      /\ \A i \in 1..Len(y) : w[Len(x) + i] = y[i]
  <2>1. x \in Seq(S) /\ y \in Seq(S)
    BY <1>1, <1>2
  <2> QED
    BY <2>1, Behind
<1> HIDE DEF w
<1>9. w[1] = a /\ w[2] = b /\ w[3] = c /\ w[4] = d /\ Len(w) = 4
  <2>1. w[2 + 1] = y[1] /\ w[2 + 2] = y[2] /\ w[1] = x[1] /\ w[2] = x[2]
    BY <1>1, <1>2, <1>8
  <2> QED
    BY <1>1, <1>2, <1>8, <2>1
<1>10. z = w
  <2>1. Len(z) = Len(w) /\ \A i \in 1..Len(z) : z[i] = w[i]
    BY <1>3, <1>9
  <2> QED
    BY <1>3, <1>8, <2>1, SeqEqual
<1>11. w \o t = x \o (y \o t)
  <2>1. x \in Seq(S) /\ y \in Seq(S)
    BY <1>1, <1>2
  <2> QED
    BY <2>1, Together DEF w
<1>12. z \o t = <<a>> \o t3
  BY <1>5, <1>7, <1>10, <1>11 DEF t2
<1>13. <<a, b, c, d>> \o t = Cons(a, Cons(b, Cons(c, Cons(d, t))))
  BY <1>12, Zenon DEF z, t1, t2, t3, Cons
<1> QED
  BY <1>3, <1>13 DEF z

\* A value that is read up to its i-th character.
LEMMA PrefixIs ==
    ASSUME NEW S, NEW v \in Seq(S), NEW i \in Nat, i < Len(v), NEW t \in Seq(S)
    PROVE  /\ SubSeq(v, i + 1, Len(v)) \o t = <<v[i + 1]>> \o (SubSeq(v, i + 2, Len(v)) \o t)
           /\ Append(SubSeq(v, 1, i), v[i + 1]) = SubSeq(v, 1, i + 1)
           /\ SubSeq(v, i + 2, Len(v)) \o t \in Seq(S) /\ v[i + 1] \in S
<1> DEFINE n == Len(v)
           a == SubSeq(v, i + 1, n)
           b == SubSeq(v, i + 2, n)
           c == <<v[i + 1]>>
           p == SubSeq(v, 1, i)
           q == SubSeq(v, 1, i + 1)
<1>1. n \in Nat /\ \A j \in 1..n : v[j] \in S
  BY LenProperties, ElementOfSeq
<1>2. /\ a \in Seq(S) /\ Len(a) = n - i /\ \A j \in 1..(n - i) : a[j] = v[i + j]
  <2>1. \A j \in (i + 1)..n : v[j] \in S
    BY <1>1
  <2>2. /\ a \in Seq(S) /\ Len(a) = (IF i + 1 <= n THEN n - (i + 1) + 1 ELSE 0)
        /\ \A j \in 1..(n - (i + 1) + 1) : a[j] = v[(i + 1) + j - 1]
    BY <1>1, <2>1, SubSeqProperties
  <2> HIDE DEF a
  <2> QED
    BY <1>1, <2>2
<1>3. /\ b \in Seq(S) /\ Len(b) = n - i - 1 /\ \A j \in 1..(n - i - 1) : b[j] = v[i + 1 + j]
  <2>1. \A j \in (i + 2)..n : v[j] \in S
    BY <1>1
  <2>2. /\ b \in Seq(S) /\ Len(b) = (IF i + 2 <= n THEN n - (i + 2) + 1 ELSE 0)
        /\ \A j \in 1..(n - (i + 2) + 1) : b[j] = v[(i + 2) + j - 1]
    BY <1>1, <2>1, SubSeqProperties
  <2> HIDE DEF b
  <2> QED
    BY <1>1, <2>2
<1>4. /\ p \in Seq(S) /\ Len(p) = i /\ \A j \in 1..i : p[j] = v[j]
  <2>1. \A j \in 1..i : v[j] \in S
    BY <1>1
  <2>2. /\ p \in Seq(S) /\ Len(p) = (IF 1 <= i THEN i - 1 + 1 ELSE 0)
        /\ \A j \in 1..(i - 1 + 1) : p[j] = v[1 + j - 1]
    BY <1>1, <2>1, SubSeqProperties
  <2> HIDE DEF p
  <2> QED
    BY <1>1, <2>2
<1>5. /\ q \in Seq(S) /\ Len(q) = i + 1 /\ \A j \in 1..(i + 1) : q[j] = v[j]
  <2>1. \A j \in 1..(i + 1) : v[j] \in S
    BY <1>1
  <2>2. /\ q \in Seq(S) /\ Len(q) = (IF 1 <= i + 1 THEN i + 1 - 1 + 1 ELSE 0)
        /\ \A j \in 1..(i + 1 - 1 + 1) : q[j] = v[1 + j - 1]
    BY <1>1, <2>1, SubSeqProperties
  <2> HIDE DEF q
  <2> QED
    BY <1>1, <2>2
<1>6. v[i + 1] \in S /\ c \in Seq(S) /\ Len(c) = 1 /\ c[1] = v[i + 1]
  BY <1>1
<1> HIDE DEF a, b, c, p, q
<1>7. /\ c \o b \in Seq(S) /\ Len(c \o b) = 1 + Len(b)
      /\ (c \o b)[1] = c[1] /\ \A j \in 1..Len(b) : (c \o b)[1 + j] = b[j]
  <2> DEFINE d == c \o b
  <2>1. /\ d \in Seq(S) /\ Len(d) = Len(c) + Len(b)
        /\ \A j \in 1..Len(c) : d[j] = c[j]
        /\ \A j \in 1..Len(b) : d[Len(c) + j] = b[j]
    <3>1. b \in Seq(S) /\ c \in Seq(S)
      BY <1>3, <1>6
    <3> QED
      BY <3>1, Behind DEF d
  <2> HIDE DEF d
  <2>2. 1 \in 1..Len(c)
    BY <1>6
  <2>3. d \in Seq(S) /\ Len(d) = 1 + Len(b) /\ d[1] = c[1] /\ \A j \in 1..Len(b) : d[1 + j] = b[j]
    BY <1>6, <2>1, <2>2
  <2> QED
    BY <2>3 DEF d
<1>8. a = c \o b
  <2> DEFINE d == c \o b
  <2>1. d \in Seq(S) /\ Len(d) = Len(a)
    BY <1>1, <1>2, <1>3, <1>7
  <2>2. ASSUME NEW j \in 1..Len(a) PROVE a[j] = d[j]
    <3>1. CASE j = 1
      BY <1>2, <1>6, <1>7, <3>1
    <3>2. CASE j # 1
      <4> DEFINE l == j - 1
      <4>1. l \in 1..Len(b) /\ l \in 1..(n - i - 1) /\ j \in 1..(n - i) /\ j = 1 + l /\ i + 1 + l = i + j
        BY <1>1, <1>2, <1>3, <3>2
      <4>2. a[j] = v[i + j] /\ b[l] = v[i + 1 + l] /\ d[1 + l] = b[l]
        BY <1>2, <1>3, <1>7, <4>1
      <4> QED
        BY <4>1, <4>2
    <3> QED
      BY <3>1, <3>2
  <2> HIDE DEF d
  <2>3. a = d
    BY <1>2, <2>1, <2>2, SeqEqual
  <2> QED
    BY <2>3 DEF d
<1>9. a \o t = c \o (b \o t)
  <2>1. (c \o b) \o t = c \o (b \o t)
    <3>1. b \in Seq(S) /\ c \in Seq(S)
      BY <1>3, <1>6
    <3> QED
      BY <3>1, Together
  <2> QED
    BY <1>8, <2>1
<1>10. b \o t \in Seq(S)
  BY <1>3, ConcatProperties
<1>11. Append(p, v[i + 1]) = q
  <2> DEFINE d == Append(p, v[i + 1])
  <2>1. /\ d \in Seq(S) /\ Len(d) = Len(p) + 1 /\ \A j \in 1..Len(p) : d[j] = p[j]
        /\ d[Len(p) + 1] = v[i + 1]
    BY <1>4, <1>6, AppendProperties
  <2> HIDE DEF d
  <2>2. Len(d) = i + 1 /\ Len(d) = Len(q) /\ d[i + 1] = v[i + 1] /\ \A j \in 1..i : d[j] = v[j]
    BY <1>4, <1>5, <2>1
  <2>4. \A j \in 1..Len(d) : d[j] = q[j]
    <3>1. \A j \in 1..Len(d) : j \in 1..i \/ j = i + 1
      BY <2>2
    <3>2. i + 1 \in 1..(i + 1) /\ \A j \in 1..i : j \in 1..(i + 1)
      OBVIOUS
    <3> QED
      BY <1>5, <2>2, <3>1, <3>2
  <2>3. d = q
    BY <1>5, <2>1, <2>2, <2>4, SeqEqual
  <2> QED
    BY <2>3 DEF d
<1> QED
  BY <1>6, <1>9, <1>10, <1>11 DEF a, b, c, p, q

\* The first part of it, for any list and any number.
LEMMA HeadOfRest ==
    \A S : \A v, t \in Seq(S) : \A i \in Nat :
        i < Len(v) => SubSeq(v, i + 1, Len(v)) \o t
                         = <<v[i + 1]>> \o (SubSeq(v, i + 2, Len(v)) \o t)
<1> SUFFICES ASSUME NEW S, NEW v \in Seq(S), NEW t \in Seq(S), NEW i \in Nat, i < Len(v)
             PROVE  SubSeq(v, i + 1, Len(v)) \o t
                       = <<v[i + 1]>> \o (SubSeq(v, i + 2, Len(v)) \o t)
  OBVIOUS
<1> QED
  BY PrefixIs

\* The beginning and the end of reading a value.
LEMMA WholeIs ==
    ASSUME NEW S, NEW v \in Seq(S), NEW t \in Seq(S)
    PROVE  /\ SubSeq(v, 1, 0) = << >> /\ SubSeq(v, 1, Len(v)) = v
           /\ SubSeq(v, Len(v) + 1, Len(v)) \o t = t
           /\ v \o t = SubSeq(v, 1, Len(v)) \o t
<1>1. Len(v) \in Nat
  BY LenProperties
<1>2. SubSeq(v, 1, 0) = << >> /\ SubSeq(v, Len(v) + 1, Len(v)) = << >>
  BY <1>1, SubSeqEmpty
<1>3. SubSeq(v, 1, Len(v)) = v
  <2> DEFINE w == SubSeq(v, 1, Len(v))
  <2>1. \A j \in 1..Len(v) : v[j] \in S
    BY <1>1, ElementOfSeq
  <2>2. /\ w \in Seq(S) /\ Len(w) = (IF 1 <= Len(v) THEN Len(v) - 1 + 1 ELSE 0)
        /\ \A j \in 1..(Len(v) - 1 + 1) : w[j] = v[1 + j - 1]
    BY <1>1, <2>1, SubSeqProperties
  <2> HIDE DEF w
  <2>3. Len(w) = Len(v) /\ \A j \in 1..Len(w) : w[j] = v[j]
    BY <1>1, <2>2
  <2>4. w = v
    BY <2>2, <2>3, SeqEqual
  <2> QED
    BY <2>4 DEF w
<1>4. << >> \o t = t
  BY ConcatEmptySeq
<1> QED
  BY <1>2, <1>3, <1>4

-----------------------------------------------------------------------------
(* What the parser keeps.                                                  *)

Options == {o \in [opt : OptionLetters, value : OptionValues, quoted : BOOLEAN] :
               o.quoted => o.opt # "-"}
ReaderStates == {"waiting", "normal", "opt follows", "sep follows", "first char", "value follows",
                 "quoted", "escaped char", "skip char", "done"}

Typed ==
    /\ written \in Seq(Options) /\ text \in Seq(Characters) /\ value \in Seq(Characters)
    /\ reader \in ReaderStates /\ parsed \in {"ok", "parse error", "duplicate"}
    /\ DOMAIN values \subseteq OptionLetters
    /\ \A letter \in DOMAIN values : Nul \notin ToSet(values[letter])
    /\ reader \in {"sep follows", "first char", "value follows", "quoted", "escaped char"} =>
          opt \in OptionLetters
    /\ reader # "done" => Nul \notin ToSet(value)

LEMMA CharactersAre ==
    /\ OptionLetters \subseteq Characters
    /\ {" ", "-", Nul, Quote, Backslash} \subseteq Characters
    /\ \A v \in OptionValues : v \in Seq(Characters) /\ Nul \notin ToSet(v)
<1>1. OptionLetters \subseteq Characters /\ {" ", "-", Nul, Quote, Backslash} \subseteq Characters
  BY DEF Characters
<1>2. ASSUME NEW v \in OptionValues PROVE v \in Seq(Characters) /\ Nul \notin ToSet(v)
  <2>1. v \in Seq(ToSet(v)) /\ Nul \notin ToSet(v)
    BY LineAssumption DEF LineAssumption
  <2>2. ToSet(v) \subseteq Characters
    BY DEF Characters
  <2> DEFINE S == ToSet(v)
             C == Characters
  <2> HIDE DEF S, C
  <2>3. v \in Seq(S) /\ S \subseteq C
    BY <2>1, <2>2 DEF S, C
  <2>4. /\ Len(v) \in Nat /\ v = [i \in 1..Len(v) |-> v[i]]
        /\ \A i \in 1..Len(v) : v[i] \in C
    BY <2>3, LenProperties, ElementOfSeq
  <2>5. v \in Seq(C)
    BY <2>4, SeqDef
  <2> QED
    BY <2>1, <2>5 DEF C
<1> QED
  BY <1>1, <1>2

\* A character more.
LEMMA AppendedIs ==
    ASSUME NEW S, NEW s \in Seq(S), NEW a \in S
    PROVE  /\ Append(s, a) \in Seq(S)
           /\ \A x : x \in ToSet(Append(s, a)) => x \in ToSet(s) \/ x = a
<1> DEFINE t == Append(s, a)
<1>1. /\ t \in Seq(S) /\ Len(s) \in Nat /\ Len(t) = Len(s) + 1
      /\ DOMAIN s = 1..Len(s) /\ DOMAIN t = 1..(Len(s) + 1)
      /\ \A i \in 1..Len(s) : t[i] = s[i]
      /\ t[Len(s) + 1] = a
  BY PushIs
<1> HIDE DEF t
<1>2. ASSUME NEW i \in DOMAIN t PROVE t[i] \in ToSet(s) \/ t[i] = a
  <2>1. i \in 1..Len(s) \/ i = Len(s) + 1
    BY <1>1
  <2> QED
    BY <1>1, <2>1 DEF ToSet
<1>3. \A x : x \in ToSet(t) => x \in ToSet(s) \/ x = a
  BY <1>2 DEF ToSet
<1> QED
  BY <1>1, <1>3 DEF t

-----------------------------------------------------------------------------
(* The line, in the pieces that the reader meets.                          *)

From(k) == Line(written)[k]
\* Behind the "-" of an option, behind its letter, and behind the space.
Behind3(k) == Spelled(written[k]) \o From(k + 1)
Behind2(k) == <<" ">> \o Behind3(k)
Behind1(k) == <<written[k].opt>> \o Behind2(k)
\* A value in quotes, from its i-th character on.
EscapedFrom(k, i) == Escaped(written[k].value)[i]

\* What is written of a value in quotes.
LEMMA EscapedIs ==
    ASSUME NEW v \in OptionValues
    PROVE  /\ \A i \in 1..(Len(v) + 1) : Escaped(v)[i] \in Seq(Characters)
           /\ \A i \in 1..Len(v) : Escaped(v)[i] = Escape(v[i]) \o Escaped(v)[i + 1]
           /\ Escaped(v)[Len(v) + 1] = <<Quote>>
<1> DEFINE C == Characters
           e == [i \in DOMAIN v |-> Escape(v[i])]
<1>1. v \in Seq(C) /\ Quote \in C /\ Backslash \in C
  BY CharactersAre
<1> HIDE DEF C
<1>2. /\ Len(v) \in Nat /\ DOMAIN v = 1..Len(v) /\ \A i \in 1..Len(v) : v[i] \in C
  BY <1>1, LenProperties, ElementOfSeq
<1>3. \A i \in 1..Len(v) : e[i] = Escape(v[i]) /\ e[i] \in Seq(C)
  <2>1. \A a \in C : <<a>> \in Seq(C) /\ <<Backslash, a>> \in Seq(C)
    BY <1>1
  <2> QED
    BY <1>2, <2>1 DEF Escape
<1>4. Len(e) = Len(v)
  <2>1. e \in [1..Len(v) -> Seq(C)]
    BY <1>2, <1>3
  <2>2. e \in Seq(Seq(C))
    BY <1>2, <2>1, SeqDef
  <2> HIDE DEF e
  <2>3. Len(e) \in Nat /\ DOMAIN e = 1..Len(e)
    BY <2>2, LenProperties
  <2> QED
    BY <1>2, <2>1, <2>3
<1>5. Escaped(v) = Joined(e, <<Quote>>)
  BY DEF Escaped
<1> DEFINE q == <<Quote>>
<1>6. q \in Seq(C)
  BY <1>1, OneIs
<1> HIDE DEF e, q
<1>7. ArePieces(C, e, q)
  BY <1>2, <1>3, <1>4, <1>6 DEF ArePieces
<1>8. /\ \A i \in 1..(Len(e) + 1) : Joined(e, q)[i] \in Seq(C)
      /\ \A i \in 1..Len(e) : Joined(e, q)[i] = e[i] \o Joined(e, q)[i + 1]
      /\ Joined(e, q)[Len(e) + 1] = q
  <2>1. StandTogether(C, e, q)
    BY <1>7, JoinedIs
  <2> QED
    BY <2>1 DEF StandTogether
<1> QED
  BY <1>3, <1>4, <1>5, <1>8 DEF C, q

LEMMA SpelledIs ==
    ASSUME NEW o \in Options
    PROVE  /\ Spelled(o) \in Seq(Characters) /\ o.value \in OptionValues /\ o.opt \in OptionLetters
           /\ o.quoted => o.opt # "-"
           /\ Len(o.value) \in Nat /\ o.value \in Seq(Characters)
<1>1. o.value \in OptionValues /\ o.opt \in OptionLetters /\ (o.quoted => o.opt # "-")
  BY DEF Options
<1> DEFINE C == Characters
           v == o.value
           e == Escaped(v)[1]
<1>2. v \in Seq(C) /\ Len(v) \in Nat
  BY <1>1, CharactersAre, LenProperties
<1>3. Quote \in C
  BY CharactersAre
<1>4. e \in Seq(C)
  <2>1. 1 \in 1..(Len(v) + 1)
    BY <1>2
  <2> HIDE DEF v, C
  <2>2. v \in OptionValues
    BY <1>1 DEF v
  <2>3. \A i \in 1..(Len(v) + 1) : Escaped(v)[i] \in Seq(C)
    BY <2>2, EscapedIs DEF C
  <2> QED
    BY <2>1, <2>3
<1>5. Spelled(o) = IF o.quoted THEN <<Quote>> \o e ELSE v
  BY DEF Spelled
<1> HIDE DEF C, v, e
<1>6. <<Quote>> \o e \in Seq(C)
  BY <1>3, <1>4, HeadIs
<1>7. Spelled(o) \in Seq(C)
  BY <1>2, <1>5, <1>6
<1> QED
  BY <1>1, <1>2, <1>7 DEF C, v

LEMMA LineIs ==
    ASSUME written \in Seq(Options)
    PROVE  /\ Len(written) \in Nat /\ DOMAIN written = 1..Len(written)
           /\ From(Len(written) + 1) = <<Nul>>
           /\ \A k \in 1..(Len(written) + 1) : From(k) \in Seq(Characters)
           /\ \A k \in 1..Len(written) :
                 /\ written[k] \in Options
                 /\ Behind1(k) \in Seq(Characters) /\ Behind2(k) \in Seq(Characters)
                 /\ Behind3(k) \in Seq(Characters) /\ From(k + 1) \in Seq(Characters)
                 /\ BeginsWith(From(k), " ", <<"-">> \o Behind1(k))
                 /\ <<"-">> \o Behind1(k) \in Seq(Characters)
<1> DEFINE C == Characters
           w == written
           n == Len(w)
           p == [k \in DOMAIN w |-> <<" ", "-", w[k].opt, " ">> \o Spelled(w[k])]
           f == Joined(p, <<Nul>>)
<1>1. /\ n \in Nat /\ DOMAIN w = 1..n
      /\ \A k \in 1..n : w[k] \in Options
  BY LenProperties, ElementOfSeq
<1>2. /\ " " \in C /\ "-" \in C /\ Nul \in C
      /\ \A k \in 1..n : w[k].opt \in C /\ Spelled(w[k]) \in Seq(C)
  BY <1>1, CharactersAre, SpelledIs
<1>3. Line(written) = f
  BY DEF Line
<1> HIDE DEF C
<1>4. ASSUME NEW k \in 1..n
      PROVE  /\ p[k] = <<" ", "-", w[k].opt, " ">> \o Spelled(w[k])
             /\ p[k] \in Seq(C)
             /\ \A t \in Seq(C) :
                  /\ Spelled(w[k]) \o t \in Seq(C)
                  /\ <<" ">> \o (Spelled(w[k]) \o t) \in Seq(C)
                  /\ <<w[k].opt>> \o (<<" ">> \o (Spelled(w[k]) \o t)) \in Seq(C)
                  /\ <<"-">> \o (<<w[k].opt>> \o (<<" ">> \o (Spelled(w[k]) \o t))) \in Seq(C)
                  /\ p[k] \o t
                       = <<" ">> \o (<<"-">> \o (<<w[k].opt>> \o (<<" ">> \o (Spelled(w[k]) \o t))))
  <2> DEFINE a == w[k].opt
             s == Spelled(w[k])
             sp == " "
             da == "-"
             b == <<sp, da, a, sp>>
  <2>1. p[k] = b \o s
    BY <1>1
  <2>2. a \in C /\ s \in Seq(C) /\ sp \in C /\ da \in C
    BY <1>2
  <2> HIDE DEF a, s, sp, da
  <2>3. b \in Seq(C)
    BY <2>2, FourAre
  <2> HIDE DEF b
  <2>4. p[k] \in Seq(C)
    <3>1. b \in Seq(C) /\ s \in Seq(C)
      BY <2>2, <2>3
    <3>2. b \o s \in Seq(C)
      BY <3>1, Behind
    <3> QED
      BY <2>1, <3>2
  <2>5. ASSUME NEW t \in Seq(C)
        PROVE  /\ s \o t \in Seq(C)
               /\ <<sp>> \o (s \o t) \in Seq(C)
               /\ <<a>> \o (<<sp>> \o (s \o t)) \in Seq(C)
               /\ <<da>> \o (<<a>> \o (<<sp>> \o (s \o t))) \in Seq(C)
               /\ p[k] \o t = <<sp>> \o (<<da>> \o (<<a>> \o (<<sp>> \o (s \o t))))
    <3> DEFINE t0 == s \o t
               t1 == <<sp>> \o t0
               t2 == <<a>> \o t1
               t3 == <<da>> \o t2
    <3>1. t0 \in Seq(C)
      BY <2>2, Behind
    <3>2. (b \o s) \o t = b \o t0
      BY <2>2, <2>3, Together, SMTT(30)
    <3> HIDE DEF t0
    <3>3. t1 \in Seq(C)
      BY <2>2, <3>1, HeadIs
    <3>4. b \o t0 = <<sp>> \o t3
      <4>1. <<sp, da, a, sp>> \o t0 = Cons(sp, Cons(da, Cons(a, Cons(sp, t0))))
        BY <2>2, <3>1, FourAre, SMTT(30)
      <4>2. b \o t0 = Cons(sp, Cons(da, Cons(a, Cons(sp, t0))))
        BY <4>1 DEF b
      <4> QED
        BY <4>2, Zenon DEF Cons
    <3> HIDE DEF t1
    <3>5. t2 \in Seq(C)
      BY <2>2, <3>3, HeadIs
    <3> HIDE DEF t2
    <3>6. t3 \in Seq(C)
      BY <2>2, <3>5, HeadIs
    <3> HIDE DEF t3
    <3>7. p[k] \o t = <<sp>> \o t3
      BY <2>1, <3>2, <3>4
    <3> QED
      BY <3>1, <3>3, <3>5, <3>6, <3>7 DEF t0, t1, t2, t3
  <2> QED
    BY <2>1, <2>4, <2>5 DEF a, s, sp, da, b
<1>5. Len(p) = n
  <2>1. p \in [1..n -> Seq(C)]
    BY <1>1, <1>4
  <2> HIDE DEF p
  <2>2. p \in Seq(Seq(C))
    BY <1>1, <2>1, SeqDef
  <2>3. Len(p) \in Nat /\ DOMAIN p = 1..Len(p)
    BY <2>2, LenProperties
  <2> QED
    BY <1>1, <2>1, <2>3
<1> DEFINE z == <<Nul>>
<1>6. z \in Seq(C)
  BY <1>2, OneIs
<1> HIDE DEF z
<1>7. ArePieces(C, p, z)
  BY <1>1, <1>4, <1>5, <1>6 DEF ArePieces
<1> HIDE DEF p
<1>11. /\ \A k \in 1..(Len(p) + 1) : Joined(p, z)[k] \in Seq(C)
       /\ \A k \in 1..Len(p) : Joined(p, z)[k] = p[k] \o Joined(p, z)[k + 1]
       /\ Joined(p, z)[Len(p) + 1] = z
  <2>1. StandTogether(C, p, z)
    BY <1>7, JoinedIs
  <2> QED
    BY <2>1 DEF StandTogether
<1>8. /\ \A k \in 1..(n + 1) : f[k] \in Seq(C)
      /\ \A k \in 1..n : f[k] = p[k] \o f[k + 1]
      /\ f[n + 1] = <<Nul>>
  BY <1>5, <1>11 DEF z
<1> HIDE DEF f
<1>9. ASSUME NEW k \in 1..n
      PROVE  /\ Behind1(k) \in Seq(C) /\ Behind2(k) \in Seq(C)
             /\ Behind3(k) \in Seq(C) /\ f[k + 1] \in Seq(C)
             /\ BeginsWith(f[k], " ", <<"-">> \o Behind1(k))
             /\ <<"-">> \o Behind1(k) \in Seq(C)
  <2> DEFINE t == f[k + 1]
             t0 == Spelled(w[k]) \o t
             t1 == <<" ">> \o t0
             t2 == <<w[k].opt>> \o t1
             t3 == <<"-">> \o t2
  <2>1. t \in Seq(C)
    BY <1>1, <1>8
  <2> HIDE DEF t
  <2>2. /\ t0 \in Seq(C) /\ t1 \in Seq(C) /\ t2 \in Seq(C) /\ t3 \in Seq(C)
        /\ p[k] \o t = <<" ">> \o t3
    BY <1>4, <2>1
  <2>3. t0 = Behind3(k) /\ t1 = Behind2(k) /\ t2 = Behind1(k)
    BY <1>3 DEF Behind1, Behind2, Behind3, From, t
  <2>4. f[k] = <<" ">> \o t3
    BY <1>8, <2>2 DEF t
  <2> HIDE DEF t3
  <2>5. BeginsWith(<<" ">> \o t3, " ", t3)
    BY <1>2, <2>2, HeadIs
  <2> HIDE DEF t0, t1, t2
  <2> QED
    BY <2>1, <2>2, <2>3, <2>4, <2>5 DEF t, t3
<1>10. \A k : From(k) = f[k]
  BY <1>3 DEF From
<1> QED
  BY <1>1, <1>8, <1>9, <1>10 DEF C

-----------------------------------------------------------------------------
(* What the parser keeps is what it may keep.                              *)

Reads == \/ Normal \/ OptFollows \/ SepFollows \/ FirstChar \/ ValueFollows
         \/ Quoted \/ EscapedChar \/ SkipChar

LEMMA CharIs ==
    ASSUME Typed, text # << >>
    PROVE  Char \in Characters /\ Tail(text) \in Seq(Characters)
BY HeadTailProperties DEF Typed, Char

LEMMA TypedInit == ParserInit => Typed
<1> SUFFICES ASSUME ParserInit PROVE Typed
  OBVIOUS
<1>1. /\ written = << >> /\ text = << >> /\ reader = "waiting" /\ parsed = "ok"
      /\ opt = " " /\ value = << >> /\ values = << >>
  BY DEF ParserInit
<1>2. \A S : << >> \in Seq(S)
  BY EmptySeq
<1>3. DOMAIN << >> = {} /\ ToSet(<< >>) = {}
  BY DEF ToSet
<1> QED
  BY <1>1, <1>2, <1>3 DEF Typed, ReaderStates

LEMMA WriteTyped ==
    ASSUME Typed, NEW letter \in OptionLetters, NEW chars \in OptionValues, NEW quoted \in BOOLEAN,
           WriteOption(letter, chars, quoted)
    PROVE  Typed'
<1> DEFINE o == [opt |-> letter, value |-> chars, quoted |-> quoted]
<1>1. o \in Options
  BY DEF WriteOption, Options
<1>2. written' = Append(written, o)
  BY DEF WriteOption
<1> HIDE DEF o
<1>3. written \in Seq(Options)
  BY DEF Typed
<1>4. written' \in Seq(Options)
  BY <1>1, <1>2, <1>3, AppendProperties
<1> QED
  BY <1>4 DEF WriteOption, Typed

LEMMA SendTyped == ASSUME Typed, SendLine PROVE Typed'
<1>1. written \in Seq(Options) /\ written # << >>
  BY DEF Typed, SendLine
<1>2. Len(written) \in Nat \ {0}
  BY <1>1, EmptySeq
<1>3. /\ From(1) \in Seq(Characters)
      /\ BeginsWith(From(1), " ", <<"-">> \o Behind1(1))
      /\ <<"-">> \o Behind1(1) \in Seq(Characters)
  <2>1. 1 \in 1..Len(written) /\ 1 \in 1..(Len(written) + 1)
    BY <1>2
  <2> QED
    BY <1>1, <2>1, LineIs
<1>4. text' \in Seq(Characters)
  BY <1>3 DEF BeginsWith, SendLine, From
<1> QED
  BY <1>4 DEF SendLine, Typed, ReaderStates

LEMMA StoredTyped ==
    ASSUME Typed, Nul \notin ToSet(value), opt \in OptionLetters
    PROVE  /\ DOMAIN With(value) \subseteq OptionLetters
           /\ \A letter \in DOMAIN With(value) : Nul \notin ToSet(With(value)[letter])
<1> DEFINE t == With(value)
<1>1. /\ DOMAIN t = DOMAIN values \cup {opt}
      /\ \A letter \in DOMAIN t : t[letter] = IF letter = opt THEN value ELSE values[letter]
  BY DEF With
<1> HIDE DEF t
<1>2. /\ DOMAIN t \subseteq OptionLetters
      /\ \A letter \in DOMAIN t : Nul \notin ToSet(t[letter])
  BY <1>1 DEF Typed
<1> QED
  BY <1>2 DEF t

LEMMA ReadsTyped == ASSUME Typed, Reads PROVE Typed'
<1>1. /\ written' = written /\ text' = Tail(text) /\ text # << >>
      /\ reader \in ReaderStates \ {"waiting", "done"}
  BY DEF Reads, Normal, OptFollows, SepFollows, FirstChar, ValueFollows, Quoted, EscapedChar,
         SkipChar, Read, ReaderStates
<1>2. Char \in Characters /\ text' \in Seq(Characters)
  BY <1>1, CharIs
<1>3. /\ written \in Seq(Options) /\ value \in Seq(Characters)
      /\ parsed \in {"ok", "parse error", "duplicate"}
      /\ DOMAIN values \subseteq OptionLetters
      /\ \A letter \in DOMAIN values : Nul \notin ToSet(values[letter])
      /\ Nul \notin ToSet(value)
  BY <1>1 DEF Typed
<1>4. /\ Append(value, Char) \in Seq(Characters)
      /\ Char # Nul => Nul \notin ToSet(Append(value, Char))
  <2> DEFINE C == Characters
             c == Char
  <2>1. c \in C /\ value \in Seq(C)
    BY <1>2, <1>3
  <2> HIDE DEF C, c
  <2>2. /\ Append(value, c) \in Seq(C)
        /\ \A x : x \in ToSet(Append(value, c)) => x \in ToSet(value) \/ x = c
    BY <2>1, AppendedIs
  <2> QED
    BY <1>3, <2>2 DEF C, c
<1>5. << >> \in Seq(Characters) /\ Nul \notin ToSet(<< >>)
  BY EmptySeq DEF ToSet
<1>6. \A state : Go(state) =>
        /\ reader' = IF Char = Nul THEN "done" ELSE state
        /\ parsed' = parsed
  BY DEF Go
<1>7. \A error : Fail(error) => reader' = "done" /\ parsed' = error
  BY DEF Fail
<1> DEFINE ValuesTyped == /\ DOMAIN values' \subseteq OptionLetters
                          /\ \A letter \in DOMAIN values' : Nul \notin ToSet(values'[letter])
<1>8. ASSUME NEW next, StoreValue(next), opt \in OptionLetters
      PROVE  /\ ValuesTyped
             /\ parsed' \in {"ok", "parse error", "duplicate"}
             /\ reader' = "done" \/ reader' = next
  <2>1. CASE opt \in DOMAIN values
    BY <1>3, <1>7, <1>8, <2>1 DEF StoreValue
  <2>2. CASE opt \notin DOMAIN values
    <3>1. Go(next) /\ values' = With(value)
      BY <1>8, <2>2 DEF StoreValue
    <3> QED
      BY <1>3, <1>6, <1>8, <3>1, StoredTyped
  <2> QED
    BY <2>1, <2>2
<1>9. CASE Normal
  <2>1. (Go("opt follows") \/ Fail("parse error")) /\ UNCHANGED <<opt, value, values>>
    BY <1>9 DEF Normal
  <2>2. reader' \in {"done", "opt follows"} /\ parsed' \in {"ok", "parse error", "duplicate"}
    BY <1>3, <1>6, <1>7, <2>1
  <2> QED
    BY <1>1, <1>2, <1>3, <2>1, <2>2 DEF Typed, ReaderStates
<1>10. CASE OptFollows
  <2>1. Char \in OptionLetters \/ reader' = "done"
    BY <1>7, <1>10 DEF OptFollows
  <2> QED
    BY <1>1, <1>2, <1>3, <1>6, <1>7, <1>10, <2>1 DEF OptFollows, Typed, ReaderStates
<1>11. CASE SepFollows
  <2>1. opt \in OptionLetters
    BY <1>11 DEF SepFollows, Read, Typed
  <2> QED
    BY <1>1, <1>2, <1>3, <1>5, <1>6, <1>7, <1>11, <2>1 DEF SepFollows, Typed, ReaderStates
<1>12. CASE FirstChar
  <2>1. opt \in OptionLetters
    BY <1>12 DEF FirstChar, Read, Typed
  <2> QED
    BY <1>1, <1>2, <1>3, <1>4, <1>6, <1>12, <2>1 DEF FirstChar, Typed, ReaderStates
<1>13. CASE ValueFollows
  <2>1. opt \in OptionLetters /\ opt' = opt
    BY <1>13 DEF ValueFollows, Read, Typed
  <2>2. CASE EndsValue
    <3>1. StoreValue("normal") /\ value' = value
      BY <1>13, <2>2 DEF ValueFollows
    <3>2. /\ ValuesTyped /\ parsed' \in {"ok", "parse error", "duplicate"}
          /\ reader' = "done" \/ reader' = "normal"
      BY <1>8, <2>1, <3>1
    <3> QED
      BY <1>1, <1>2, <1>3, <2>1, <3>1, <3>2 DEF Typed, ReaderStates
  <2>3. CASE ~EndsValue
    BY <1>1, <1>2, <1>3, <1>4, <1>6, <1>13, <2>1, <2>3 DEF ValueFollows, Typed, ReaderStates
  <2> QED
    BY <2>2, <2>3
<1>14. CASE Quoted
  <2>1. opt \in OptionLetters /\ opt' = opt
    BY <1>14 DEF Quoted, Read, Typed
  <2>2. Quote # Backslash
    BY DEF Quote, Backslash
  <2>3. CASE Char = Quote
    <3>1. StoreValue("skip char") /\ value' = value
      BY <1>14, <2>2, <2>3 DEF Quoted
    <3>2. /\ ValuesTyped /\ parsed' \in {"ok", "parse error", "duplicate"}
          /\ reader' = "done" \/ reader' = "skip char"
      BY <1>8, <2>1, <3>1
    <3> QED
      BY <1>1, <1>2, <1>3, <2>1, <3>1, <3>2 DEF Typed, ReaderStates
  <2>4. CASE Char = Backslash
    <3>1. Go("escaped char") /\ UNCHANGED <<value, values>>
      BY <1>14, <2>2, <2>4 DEF Quoted
    <3>2. reader' \in {"done", "escaped char"} /\ parsed' = parsed
      BY <1>6, <3>1
    <3> QED
      BY <1>1, <1>2, <1>3, <2>1, <3>1, <3>2 DEF Typed, ReaderStates
  <2>5. CASE Char # Quote /\ Char # Backslash
    BY <1>1, <1>2, <1>3, <1>4, <1>6, <1>14, <2>1, <2>5 DEF Quoted, Typed, ReaderStates
  <2> QED
    BY <2>3, <2>4, <2>5
<1>15. CASE EscapedChar
  <2>1. opt \in OptionLetters /\ opt' = opt
    BY <1>15 DEF EscapedChar, Read, Typed
  <2> QED
    BY <1>1, <1>2, <1>3, <1>4, <1>6, <1>15, <2>1 DEF EscapedChar, Typed, ReaderStates
<1>16. CASE SkipChar
  <2>1. Go("normal") /\ UNCHANGED <<opt, value, values>>
    BY <1>16 DEF SkipChar
  <2>2. reader' \in {"done", "normal"} /\ parsed' = parsed
    BY <1>6, <2>1
  <2> QED
    BY <1>1, <1>2, <1>3, <2>1, <2>2 DEF Typed, ReaderStates
<1> QED
  BY <1>9, <1>10, <1>11, <1>12, <1>13, <1>14, <1>15, <1>16 DEF Reads

LEMMA TypedStep == Typed /\ [ParserNext]_parserVars => Typed'
<1> SUFFICES ASSUME Typed, [ParserNext]_parserVars PROVE Typed'
  OBVIOUS
<1>1. CASE UNCHANGED parserVars
  BY <1>1 DEF parserVars, Typed
<1>2. CASE Reads
  BY <1>2, ReadsTyped
<1> QED
  BY <1>1, <1>2, WriteTyped, SendTyped DEF ParserNext, Reads

\* Whatever line is sent, the parser is in one of its states, and what it keeps is under a
\* letter that it was sent and does not reach behind the end of the line.
THEOREM ParserTypeCorrect == ParserSpec => []ParserTypeOK
<1>1. Typed => ParserTypeOK
  BY DEF Typed, ParserTypeOK, ReaderStates
<1> QED
  BY <1>1, TypedInit, TypedStep, PTL DEF ParserSpec

-----------------------------------------------------------------------------
(* Where the reader is in the line, as long as what it has met is sound.    *)

\* The reader is at, or behind, the i-th character of the value.
InPlain(k) ==
    LET v == written[k].value
    IN /\ reader = "value follows" /\ ~written[k].quoted
       /\ \E i \in 1..Len(v) : /\ value = SubSeq(v, 1, i)
                               /\ text = SubSeq(v, i + 1, Len(v)) \o From(k + 1)
InQuoted(k) ==
    LET v == written[k].value
    IN /\ reader = "quoted" /\ written[k].quoted
       /\ \E i \in 0..Len(v) : /\ value = SubSeq(v, 1, i)
                               /\ text = EscapedFrom(k, i + 1) \o From(k + 1)
AtEscaped(k) ==
    LET v == written[k].value
    IN /\ reader = "escaped char" /\ written[k].quoted
       /\ \E i \in 0..(Len(v) - 1) :
             /\ value = SubSeq(v, 1, i)
             /\ text = Cons(v[i + 1], EscapedFrom(k, i + 2) \o From(k + 1))

SoundUpTo(n) == \A j \in 1..n : Sound(j)

\* The values that have arrived are those of the first n options.
Arrived(n) ==
    /\ DOMAIN values = {written[j].opt : j \in 1..n}
    /\ \A j \in 1..n : values[written[j].opt] = written[j].value
    /\ \A i, j \in 1..n : i # j => written[i].opt # written[j].opt

\* Where the reader can be in an option that is sound.
InOption(k) ==
    \/ reader = "normal" /\ text = Cons("-", Behind1(k))
    \/ reader = "opt follows" /\ text = Behind1(k)
    \/ /\ opt = written[k].opt
       /\ \/ reader = "sep follows" /\ text = Behind2(k)
          \/ reader = "first char" /\ text = Behind3(k) /\ value = << >>
          \/ InPlain(k) \/ InQuoted(k) \/ AtEscaped(k)

Reading ==
    \E k \in 1..Len(written) : SoundUpTo(k) /\ Arrived(k - 1) /\ parsed = "ok" /\ InOption(k)
\* Behind a value in quotes.
Between ==
    \E k \in 1..Len(written) : /\ SoundUpTo(k) /\ Arrived(k) /\ parsed = "ok"
                               /\ reader = "skip char" /\ text = From(k + 1)
\* An option that is not sound: what is before it stands.
Lost ==
    \E k \in 1..Len(written) :
        /\ SoundUpTo(k - 1) /\ ~Sound(k)
        /\ \A j \in 1..(k - 1) : /\ written[j].opt \in DOMAIN values
                                 /\ values[written[j].opt] = written[j].value
Understood ==
    /\ reader = "done" /\ parsed = "ok" /\ Len(written) # 0
    /\ SoundUpTo(Len(written)) /\ Arrived(Len(written))
Refused ==
    /\ reader = "done" /\ parsed = "duplicate"
    /\ \E k \in 1..Len(written) :
          /\ SoundUpTo(k) /\ Arrived(k - 1)
          /\ \E j \in 1..(k - 1) : written[j].opt = written[k].opt

OnLine ==
    /\ reader = "waiting" => DOMAIN values = {} /\ parsed = "ok"
    /\ reader # "waiting" => Reading \/ Between \/ Lost \/ Understood \/ Refused

\* What is said of the line stays, while the line does.
LEMMA SameLine ==
    ASSUME written' = written
    PROVE  /\ \A k : From(k)' = From(k) /\ Behind1(k)' = Behind1(k) /\ Behind2(k)' = Behind2(k)
                     /\ Behind3(k)' = Behind3(k) /\ (Sound(k)' <=> Sound(k))
           /\ \A n : SoundUpTo(n)' <=> SoundUpTo(n)
           /\ \A k, i : EscapedFrom(k, i)' = EscapedFrom(k, i)
<1>1. \A k : From(k)' = From(k)
  BY DEF From
<1>2. \A k : Behind3(k)' = Behind3(k)
  BY <1>1 DEF Behind3
<1>3. \A k : Behind2(k)' = Behind2(k)
  BY <1>2 DEF Behind2
<1>4. \A k : Behind1(k)' = Behind1(k)
  BY <1>3 DEF Behind1
<1>5. \A k : Sound(k)' <=> Sound(k)
  BY DEF Sound
<1>6. \A n : SoundUpTo(n)' <=> SoundUpTo(n)
  BY <1>5 DEF SoundUpTo
<1>7. \A k, i : EscapedFrom(k, i)' = EscapedFrom(k, i)
  BY DEF EscapedFrom
<1> QED
  BY <1>1, <1>2, <1>3, <1>4, <1>5, <1>6, <1>7

LEMMA SameValues ==
    ASSUME written' = written, values' = values
    PROVE  \A n : Arrived(n)' <=> Arrived(n)
BY DEF Arrived

LEMMA ReadsKeep ==
    ASSUME Reads
    PROVE  /\ written' = written /\ text' = Tail(text) /\ text # << >>
           /\ reader \in ReaderStates \ {"waiting", "done"} /\ reader' # "waiting"
           /\ \A letter \in DOMAIN values :
                 letter \in DOMAIN values' /\ values'[letter] = values[letter]
<1>1. /\ written' = written /\ text' = Tail(text) /\ text # << >>
      /\ reader \in ReaderStates \ {"waiting", "done"}
  BY DEF Reads, Normal, OptFollows, SepFollows, FirstChar, ValueFollows, Quoted, EscapedChar,
         SkipChar, Read, ReaderStates
<1>2. \A state : state # "waiting" /\ Go(state) => reader' # "waiting"
  BY DEF Go
<1>3. \A error : Fail(error) => reader' # "waiting"
  BY DEF Fail
<1>4. \A next : next # "waiting" /\ StoreValue(next) => reader' # "waiting"
  BY <1>2, <1>3 DEF StoreValue
<1>5. reader' # "waiting"
  <2>1. CASE Normal \/ OptFollows \/ SepFollows \/ FirstChar \/ EscapedChar \/ SkipChar
    BY <1>2, <1>3, <2>1 DEF Normal, OptFollows, SepFollows, FirstChar, EscapedChar, SkipChar
  <2>2. CASE ValueFollows
    BY <1>2, <1>4, <2>2 DEF ValueFollows
  <2>3. CASE Quoted
    BY <1>2, <1>4, <2>3 DEF Quoted
  <2> QED
    BY <2>1, <2>2, <2>3 DEF Reads
<1>6. values' = values \/ (opt \notin DOMAIN values /\ values' = With(value))
  BY DEF Reads, Normal, OptFollows, SepFollows, FirstChar, ValueFollows, Quoted, EscapedChar,
         SkipChar, StoreValue
<1>7. \A letter \in DOMAIN values :
         letter \in DOMAIN values' /\ values'[letter] = values[letter]
  <2>1. CASE values' = values
    BY <2>1
  <2>2. CASE opt \notin DOMAIN values /\ values' = With(value)
    BY <2>2 DEF With
  <2> QED
    BY <1>6, <2>1, <2>2
<1> QED
  BY <1>1, <1>5, <1>7

LEMMA LostStays == ASSUME Typed, Lost, Reads PROVE Lost'
<1>1. PICK k \in 1..Len(written) :
        /\ SoundUpTo(k - 1) /\ ~Sound(k)
        /\ \A j \in 1..(k - 1) : /\ written[j].opt \in DOMAIN values
                                 /\ values[written[j].opt] = written[j].value
  BY DEF Lost
<1>2. /\ written' = written
      /\ \A letter \in DOMAIN values :
            letter \in DOMAIN values' /\ values'[letter] = values[letter]
  BY ReadsKeep
<1>3. (SoundUpTo(k - 1)' <=> SoundUpTo(k - 1)) /\ (Sound(k)' <=> Sound(k))
  BY <1>2, SameLine
<1> QED
  BY <1>1, <1>2, <1>3 DEF Lost

\* Behind an option comes the next one, or the end.
LEMMA NextOption ==
    ASSUME Typed, written' = written, NEW k \in 1..Len(written), SoundUpTo(k),
           Arrived(k)', parsed' = "ok", text = From(k + 1), text' = Tail(text),
           reader' = IF Char = Nul THEN "done" ELSE "normal"
    PROVE  OnLine'
<1>1. written \in Seq(Options)
  BY DEF Typed
<1>2. reader' # "waiting"
  OBVIOUS
<1>3. SoundUpTo(k)'
  BY SameLine
<1>4. Len(written) \in Nat
  BY <1>1, LenProperties
<1>5. CASE k = Len(written)
  <2>1. text = <<Nul>>
    BY <1>1, <1>5, LineIs
  <2>2. Char = Nul
    BY <2>1 DEF Char
  <2>3. Understood'
    BY <1>3, <1>4, <1>5, <2>2 DEF Understood
  <2> QED
    BY <1>2, <2>3 DEF OnLine
<1>6. CASE k # Len(written)
  <2>1. k + 1 \in 1..Len(written) /\ (k + 1) - 1 = k
    BY <1>4, <1>6
  <2>2. BeginsWith(text, " ", Cons("-", Behind1(k + 1)))
    BY <1>1, <2>1, LineIs DEF Cons
  <2>3. Char = " " /\ text' = Cons("-", Behind1(k + 1)) /\ " " # Nul
    BY <2>2 DEF BeginsWith, Char, Nul
  <2>4. text' = Cons("-", Behind1(k + 1)')
    BY <2>3, SameLine
  <2>5. reader' = "normal"
    BY <2>3
  <2>6. CASE Sound(k + 1)
    <3>1. SoundUpTo(k + 1)
      <4>1. \A j \in 1..(k + 1) : j \in 1..k \/ j = k + 1
        BY <2>1
      <4> QED
        BY <2>6, <4>1 DEF SoundUpTo
    <3>2. SoundUpTo(k + 1)'
      BY <3>1, SameLine
    <3>3. InOption(k + 1)'
      BY <2>4, <2>5 DEF InOption
    <3>4. Reading'
      BY <2>1, <3>2, <3>3 DEF Reading
    <3> QED
      BY <1>2, <3>4 DEF OnLine
  <2>7. CASE ~Sound(k + 1)
    <3>1. ~Sound(k + 1)'
      BY <2>7, SameLine
    <3>2. \A j \in 1..k : written'[j].opt \in DOMAIN values'
                          /\ values'[written'[j].opt] = written'[j].value
      BY DEF Arrived
    <3>3. Lost'
      BY <1>3, <2>1, <3>1, <3>2 DEF Lost
    <3> QED
      BY <1>2, <3>3 DEF OnLine
  <2> QED
    BY <2>6, <2>7
<1> QED
  BY <1>5, <1>6

\* The end of a value: it arrives, or the option has one.
LEMMA ValueArrives ==
    ASSUME Typed, Reads, NEW k \in 1..Len(written), SoundUpTo(k), Arrived(k - 1), parsed = "ok",
           opt = written[k].opt, value = written[k].value, NEW next, StoreValue(next)
    PROVE  \/ Refused'
           \/ Arrived(k)' /\ parsed' = "ok" /\ reader' = (IF Char = Nul THEN "done" ELSE next)
<1>1. written' = written
  BY ReadsKeep
<1>2. k - 1 \in Nat /\ k \in Nat /\ Len(written) \in Nat /\ \A j \in 1..k : j \in 1..(k - 1) \/ j = k
  <2>1. Len(written) \in Nat
    BY LenProperties DEF Typed
  <2> QED
    BY <2>1
<1>3. CASE opt \in DOMAIN values
  <2>1. values' = values /\ parsed' = "duplicate" /\ reader' = "done"
    BY <1>3 DEF StoreValue, Fail
  <2>2. \E j \in 1..(k - 1) : written[j].opt = written[k].opt
    BY <1>3 DEF Arrived
  <2>3. Arrived(k - 1)' /\ SoundUpTo(k)'
    BY <1>1, <2>1, SameLine, SameValues
  <2>4. Refused'
    BY <1>1, <2>1, <2>2, <2>3 DEF Refused
  <2> QED
    BY <2>4
<1>4. CASE opt \notin DOMAIN values
  <2>1. values' = With(value) /\ parsed' = "ok" /\ reader' = IF Char = Nul THEN "done" ELSE next
    BY <1>4 DEF StoreValue, Go
  <2>2. /\ DOMAIN values' = DOMAIN values \cup {opt}
        /\ values'[opt] = value
        /\ \A letter \in DOMAIN values : values'[letter] = values[letter]
    BY <1>4, <2>1 DEF With
  <2>3. /\ DOMAIN values = {written[j].opt : j \in 1..(k - 1)}
        /\ \A j \in 1..(k - 1) : values[written[j].opt] = written[j].value
        /\ \A i, j \in 1..(k - 1) : i # j => written[i].opt # written[j].opt
    BY DEF Arrived
  <2>4. \A j \in 1..(k - 1) : written[j].opt \in DOMAIN values /\ j \in 1..k
    BY <1>2, <2>3
  <2>5. DOMAIN values' = {written[j].opt : j \in 1..k}
    <3>1. k \in 1..k
      BY <1>2
    <3> QED
      BY <1>2, <2>2, <2>3, <2>4, <3>1
  <2>6. \A j \in 1..k : values'[written[j].opt] = written[j].value
    BY <1>2, <2>2, <2>3, <2>4
  <2>7. \A i, j \in 1..k : i # j => written[i].opt # written[j].opt
    BY <1>2, <1>4, <2>3, <2>4
  <2>8. Arrived(k)'
    BY <1>1, <2>5, <2>6, <2>7 DEF Arrived
  <2> QED
    BY <2>1, <2>8
<1> QED
  BY <1>3, <1>4

LEMMA StaysReading ==
    ASSUME Typed, Reads, NEW k \in 1..Len(written), SoundUpTo(k), Arrived(k - 1), parsed = "ok",
           parsed' = parsed, values' = values, InOption(k)'
    PROVE  OnLine'
<1>1. written' = written /\ reader' # "waiting"
  BY ReadsKeep
<1>2. SoundUpTo(k)' /\ Arrived(k - 1)'
  BY <1>1, SameLine, SameValues
<1>3. Reading'
  BY <1>1, <1>2 DEF Reading
<1> QED
  BY <1>1, <1>3 DEF OnLine

LEMMA BeginsIs ==
    ASSUME NEW a \in Characters, NEW t \in Seq(Characters), text = Cons(a, t), text' = Tail(text)
    PROVE  Char = a /\ text' = t
BY HeadIs DEF Cons, BeginsWith, Char

LEMMA OptionIs ==
    ASSUME Typed, NEW k \in 1..Len(written)
    PROVE  LET o == written[k]
           IN /\ o \in Options /\ o.opt \in OptionLetters /\ o.opt \in Characters /\ o.opt # Nul
              /\ o.value \in OptionValues /\ o.value \in Seq(Characters) /\ Len(o.value) \in Nat
              /\ o.quoted \in BOOLEAN /\ (o.quoted => o.opt # "-")
              /\ \A i \in 1..Len(o.value) : o.value[i] \in Characters /\ o.value[i] # Nul
              /\ Behind1(k) \in Seq(Characters) /\ Behind2(k) \in Seq(Characters)
              /\ Behind3(k) \in Seq(Characters) /\ From(k + 1) \in Seq(Characters)
<1>1. written \in Seq(Options)
  BY DEF Typed
<1>2. /\ written[k] \in Options
      /\ Behind1(k) \in Seq(Characters) /\ Behind2(k) \in Seq(Characters)
      /\ Behind3(k) \in Seq(Characters) /\ From(k + 1) \in Seq(Characters)
  BY <1>1, LineIs
<1> DEFINE o == written[k]
<1>3. /\ o.value \in OptionValues /\ o.opt \in OptionLetters /\ (o.quoted => o.opt # "-")
      /\ Len(o.value) \in Nat /\ o.value \in Seq(Characters) /\ o.quoted \in BOOLEAN
  <2>1. o.quoted \in BOOLEAN
    BY <1>2 DEF Options
  <2> QED
    BY <1>2, <2>1, SpelledIs
<1>4. o.opt \in Characters /\ o.opt # Nul
  BY <1>3, CharactersAre, LineAssumption DEF LineAssumption
<1> DEFINE v == o.value
<1>5. v \in Seq(Characters) /\ Nul \notin ToSet(v)
  BY <1>3, CharactersAre
<1> HIDE DEF v
<1>6. \A i \in 1..Len(v) : v[i] \in Characters /\ v[i] # Nul
  <2>1. DOMAIN v = 1..Len(v)
    BY <1>5, LenProperties
  <2>2. \A i \in 1..Len(v) : v[i] \in ToSet(v)
    BY <2>1 DEF ToSet
  <2> QED
    BY <1>5, <2>2, ElementOfSeq
<1> QED
  BY <1>2, <1>3, <1>4, <1>6 DEF v

LEMMA NormalKeeps == ASSUME Typed, OnLine, ~Lost, Normal PROVE OnLine'
<1>1. Reads /\ reader = "normal"
  BY DEF Reads, Normal, Read
<1>2. PICK k \in 1..Len(written) :
        SoundUpTo(k) /\ Arrived(k - 1) /\ parsed = "ok" /\ InOption(k)
  BY <1>1 DEF OnLine, Between, Understood, Refused, Reading
<1>3. text = Cons("-", Behind1(k))
  BY <1>1, <1>2 DEF InOption, InPlain, InQuoted, AtEscaped
<1>4. text' = Tail(text) /\ written' = written
  BY <1>1, ReadsKeep
<1>5. "-" \in Characters /\ Behind1(k) \in Seq(Characters) /\ "-" # Nul
  BY CharactersAre, OptionIs DEF Nul
<1>6. Char = "-" /\ text' = Behind1(k)
  BY <1>3, <1>4, <1>5, BeginsIs
<1>7. reader' = "opt follows" /\ parsed' = parsed /\ values' = values
  BY <1>5, <1>6 DEF Normal, Go
<1>8. InOption(k)'
  BY <1>4, <1>6, <1>7, SameLine DEF InOption
<1> QED
  BY <1>1, <1>2, <1>7, <1>8, StaysReading

LEMMA OptFollowsKeeps == ASSUME Typed, OnLine, ~Lost, OptFollows PROVE OnLine'
<1>1. Reads /\ reader = "opt follows"
  BY DEF Reads, OptFollows, Read
<1>2. PICK k \in 1..Len(written) :
        SoundUpTo(k) /\ Arrived(k - 1) /\ parsed = "ok" /\ InOption(k)
  BY <1>1 DEF OnLine, Between, Understood, Refused, Reading
<1>3. text = Cons(written[k].opt, Behind2(k))
  BY <1>1, <1>2 DEF InOption, InPlain, InQuoted, AtEscaped, Behind1, Cons
<1>4. text' = Tail(text) /\ written' = written
  BY <1>1, ReadsKeep
<1>5. /\ written[k].opt \in Characters /\ Behind2(k) \in Seq(Characters)
      /\ written[k].opt # Nul /\ written[k].opt \in OptionLetters
  BY OptionIs
<1>6. Char = written[k].opt /\ text' = Behind2(k)
  BY <1>3, <1>4, <1>5, BeginsIs
<1>7. /\ reader' = "sep follows" /\ parsed' = parsed /\ values' = values
      /\ opt' = written[k].opt
  BY <1>5, <1>6 DEF OptFollows, Go
<1>8. InOption(k)'
  BY <1>4, <1>6, <1>7, SameLine DEF InOption
<1> QED
  BY <1>1, <1>2, <1>7, <1>8, StaysReading

LEMMA SepFollowsKeeps == ASSUME Typed, OnLine, ~Lost, SepFollows PROVE OnLine'
<1>1. Reads /\ reader = "sep follows"
  BY DEF Reads, SepFollows, Read
<1>2. PICK k \in 1..Len(written) :
        SoundUpTo(k) /\ Arrived(k - 1) /\ parsed = "ok" /\ InOption(k)
  BY <1>1 DEF OnLine, Between, Understood, Refused, Reading
<1>3. text = Cons(" ", Behind3(k)) /\ opt = written[k].opt
  BY <1>1, <1>2 DEF InOption, InPlain, InQuoted, AtEscaped, Behind2, Cons
<1>4. text' = Tail(text) /\ written' = written
  BY <1>1, ReadsKeep
<1>5. " " \in Characters /\ Behind3(k) \in Seq(Characters) /\ " " # Nul
  BY CharactersAre, OptionIs DEF Nul
<1>6. Char = " " /\ text' = Behind3(k)
  BY <1>3, <1>4, <1>5, BeginsIs
<1>7. /\ reader' = "first char" /\ parsed' = parsed /\ values' = values
      /\ opt' = opt /\ value' = << >>
  BY <1>5, <1>6 DEF SepFollows, Go
<1>8. InOption(k)'
  BY <1>3, <1>4, <1>6, <1>7, SameLine DEF InOption
<1> QED
  BY <1>1, <1>2, <1>7, <1>8, StaysReading

LEMMA FirstCharKeeps == ASSUME Typed, OnLine, ~Lost, FirstChar PROVE OnLine'
<1>1. Reads /\ reader = "first char"
  BY DEF Reads, FirstChar, Read
<1>2. PICK k \in 1..Len(written) :
        SoundUpTo(k) /\ Arrived(k - 1) /\ parsed = "ok" /\ InOption(k)
  BY <1>1 DEF OnLine, Between, Understood, Refused, Reading
<1>3. text = Behind3(k) /\ opt = written[k].opt /\ value = << >>
  BY <1>1, <1>2 DEF InOption, InPlain, InQuoted, AtEscaped
<1>4. text' = Tail(text) /\ written' = written /\ values' = values /\ opt' = opt
  BY <1>1, ReadsKeep DEF FirstChar
<1> DEFINE o == written[k]
           v == o.value
           after == From(k + 1)
           e == EscapedFrom(k, 1)
<1>5. /\ o.opt # Nul /\ v \in OptionValues /\ v \in Seq(Characters) /\ Len(v) \in Nat
      /\ o.quoted => o.opt # "-"
      /\ \A i \in 1..Len(v) : v[i] \in Characters /\ v[i] # Nul
      /\ after \in Seq(Characters)
  BY OptionIs
<1>6. Quote \in Characters /\ Quote # Nul
  BY CharactersAre DEF Quote, Nul
<1>7. /\ SubSeq(v, 1, 0) = << >> /\ v \o after = SubSeq(v, 1, Len(v)) \o after
      /\ SubSeq(v, 1, Len(v)) = v
  BY <1>5, WholeIs
<1>8. Sound(k)
  BY <1>2 DEF SoundUpTo
<1>9. CASE o.quoted
  <2>1. Behind3(k) = (<<Quote>> \o e) \o after
    BY <1>9 DEF Behind3, Spelled, EscapedFrom
  <2>2. e \in Seq(Characters)
    <3>1. 1 \in 1..(Len(v) + 1)
      BY <1>5
    <3> HIDE DEF v
    <3>2. \A i \in 1..(Len(v) + 1) : Escaped(v)[i] \in Seq(Characters)
      BY <1>5, EscapedIs
    <3> QED
      BY <3>1, <3>2 DEF EscapedFrom, v
  <2> HIDE DEF e, after
  <2>3. <<Quote>> \in Seq(Characters) /\ e \o after \in Seq(Characters)
    BY <1>5, <1>6, <2>2, OneIs, Behind
  <2>4. text = Cons(Quote, e \o after)
    <3>1. (<<Quote>> \o e) \o after = <<Quote>> \o (e \o after)
      BY <1>5, <2>2, <2>3, Together
    <3> QED
      BY <1>3, <2>1, <3>1 DEF Cons
  <2>5. Char = Quote /\ text' = e \o after
    BY <1>4, <1>6, <2>3, <2>4, BeginsIs
  <2>6. reader' = "quoted" /\ parsed' = parsed /\ value' = << >>
    BY <1>3, <1>5, <1>6, <1>9, <2>5 DEF FirstChar, Go
  <2>8. InQuoted(k)'
    <3>1. 0 \in 0..Len(v) /\ 0 + 1 = 1
      BY <1>5
    <3>2. value' = SubSeq(v, 1, 0) /\ text' = EscapedFrom(k, 0 + 1) \o From(k + 1)
      BY <1>7, <2>5, <2>6, <3>1 DEF e, after
    <3>3. \E i \in 0..Len(v) : value' = SubSeq(v, 1, i) /\ text' = EscapedFrom(k, i + 1) \o From(k + 1)
      BY <3>1, <3>2
    <3> QED
      BY <1>4, <1>9, <2>6, <3>3, SameLine DEF InQuoted
  <2>9. InOption(k)'
    BY <1>3, <1>4, <2>8 DEF InOption
  <2> QED
    BY <1>1, <1>2, <1>4, <2>6, <2>9, StaysReading
<1>10. CASE ~o.quoted
  <2>1. Behind3(k) = v \o after
    BY <1>10 DEF Behind3, Spelled
  <2>2. v # << >> /\ (o.opt # "-" => v[1] # Quote)
    BY <1>8, <1>10 DEF Sound
  <2>3. Len(v) >= 1 /\ 0 < Len(v) /\ 1 \in 1..Len(v)
    BY <1>5, <2>2, EmptySeq
  <2> HIDE DEF v, after
  <2>4. /\ SubSeq(v, 0 + 1, Len(v)) \o after = <<v[0 + 1]>> \o (SubSeq(v, 0 + 2, Len(v)) \o after)
        /\ Append(SubSeq(v, 1, 0), v[0 + 1]) = SubSeq(v, 1, 0 + 1)
        /\ SubSeq(v, 0 + 2, Len(v)) \o after \in Seq(Characters) /\ v[0 + 1] \in Characters
    BY <1>5, <2>3, PrefixIs
  <2> DEFINE rest == SubSeq(v, 2, Len(v)) \o after
  <2>11. 0 + 1 = 1 /\ 0 + 2 = 2
    OBVIOUS
  <2>12. /\ SubSeq(v, 1, Len(v)) \o after = <<v[1]>> \o rest
         /\ Append(SubSeq(v, 1, 0), v[1]) = SubSeq(v, 1, 1)
         /\ rest \in Seq(Characters) /\ v[1] \in Characters
    BY <2>4, <2>11, Zenon
  <2> HIDE DEF rest
  <2>5. /\ v \o after = <<v[1]>> \o rest /\ Append(<< >>, v[1]) = SubSeq(v, 1, 1)
        /\ rest \in Seq(Characters) /\ v[1] \in Characters
    BY <1>7, <2>12
  <2>6. text = Cons(v[1], rest)
    BY <1>3, <2>1, <2>5 DEF Cons
  <2>7. Char = v[1] /\ text' = rest
    BY <1>4, <2>5, <2>6, BeginsIs
  <2>8. reader' = "value follows" /\ parsed' = parsed /\ value' = SubSeq(v, 1, 1)
    BY <1>3, <1>5, <2>2, <2>3, <2>5, <2>7 DEF FirstChar, Go
  <2>9. InPlain(k)'
    <3>1. text' = SubSeq(v, 1 + 1, Len(v)) \o after
      BY <2>7 DEF rest
    <3>2. \E i \in 1..Len(v) : value' = SubSeq(v, 1, i) /\ text' = SubSeq(v, i + 1, Len(v)) \o after
      BY <2>3, <2>8, <3>1
    <3> QED
      BY <1>4, <1>10, <2>8, <3>2, SameLine DEF InPlain, v, after
  <2>10. InOption(k)'
    BY <1>3, <1>4, <2>9 DEF InOption
  <2> QED
    BY <1>1, <1>2, <1>4, <2>8, <2>10, StaysReading
<1> QED
  BY <1>9, <1>10

LEMMA ValueFollowsKeeps == ASSUME Typed, OnLine, ~Lost, ValueFollows PROVE OnLine'
<1>1. Reads /\ reader = "value follows"
  BY DEF Reads, ValueFollows, Read
<1>2. PICK k \in 1..Len(written) :
        SoundUpTo(k) /\ Arrived(k - 1) /\ parsed = "ok" /\ InOption(k)
  BY <1>1 DEF OnLine, Between, Understood, Refused, Reading
<1> DEFINE o == written[k]
           v == o.value
           after == From(k + 1)
<1>3. InPlain(k) /\ opt = o.opt
  BY <1>1, <1>2 DEF InOption, InQuoted, AtEscaped
<1>4. text' = Tail(text) /\ written' = written /\ opt' = opt
  BY <1>1, ReadsKeep DEF ValueFollows
<1>5. /\ v \in OptionValues /\ v \in Seq(Characters) /\ Len(v) \in Nat
      /\ \A i \in 1..Len(v) : v[i] \in Characters /\ v[i] # Nul
      /\ after \in Seq(Characters)
  BY OptionIs
<1>6. /\ ~o.quoted
      /\ \/ o.opt = "-" /\ k = Len(written)
         \/ o.opt # "-" /\ " " \notin ToSet(v)
  <2>1. k \in 1..k
    OBVIOUS
  <2>2. Sound(k) /\ ~o.quoted
    BY <1>2, <1>3, <2>1 DEF InPlain, SoundUpTo
  <2> QED
    BY <2>2, Zenon DEF Sound
<1>7. PICK i \in 1..Len(v) : value = SubSeq(v, 1, i) /\ text = SubSeq(v, i + 1, Len(v)) \o after
  BY <1>3 DEF InPlain
<1>8. CASE i < Len(v)
  <2> HIDE DEF v, after
  <2> DEFINE rest == SubSeq(v, i + 2, Len(v)) \o after
  <2>1. i \in Nat /\ i + 1 \in 1..Len(v) /\ (i + 1) + 1 = i + 2
    BY <1>5, <1>8
  <2>2. /\ SubSeq(v, i + 1, Len(v)) \o after = <<v[i + 1]>> \o rest
        /\ Append(SubSeq(v, 1, i), v[i + 1]) = SubSeq(v, 1, i + 1)
        /\ rest \in Seq(Characters) /\ v[i + 1] \in Characters
    BY <1>5, <1>8, <2>1, PrefixIs
  <2> HIDE DEF rest
  <2>3. text = Cons(v[i + 1], rest)
    BY <1>7, <2>2 DEF Cons
  <2>4. Char = v[i + 1] /\ text' = rest
    BY <1>4, <2>2, <2>3, BeginsIs
  <2>5. v[i + 1] # Nul /\ (o.opt # "-" => v[i + 1] # " ")
    <3>1. DOMAIN v = 1..Len(v)
      BY <1>5, LenProperties
    <3>2. v[i + 1] \in ToSet(v)
      BY <2>1, <3>1 DEF ToSet
    <3> QED
      BY <1>5, <1>6, <2>1, <3>2
  <2>6. ~EndsValue
    BY <1>3, <2>4, <2>5 DEF EndsValue
  <2>7. /\ reader' = "value follows" /\ parsed' = parsed /\ values' = values
        /\ value' = Append(value, v[i + 1])
    BY <2>4, <2>5, <2>6 DEF ValueFollows, Go
  <2>8. value' = SubSeq(v, 1, i + 1)
    BY <1>7, <2>2, <2>7
  <2>9. InPlain(k)'
    <3>1. text' = SubSeq(v, (i + 1) + 1, Len(v)) \o after
      BY <2>1, <2>4 DEF rest
    <3>2. \E j \in 1..Len(v) : value' = SubSeq(v, 1, j) /\ text' = SubSeq(v, j + 1, Len(v)) \o after
      BY <2>1, <2>8, <3>1
    <3> QED
      BY <1>4, <1>6, <2>7, <3>2, SameLine DEF InPlain, v, after
  <2>10. InOption(k)'
    BY <1>3, <1>4, <2>9 DEF InOption
  <2> QED
    BY <1>1, <1>2, <2>7, <2>10, StaysReading
<1>9. CASE ~(i < Len(v))
  <2>1. i = Len(v)
    BY <1>5, <1>9
  <2>2. value = v /\ text = after
    <3> HIDE DEF v, after
    <3>1. SubSeq(v, 1, Len(v)) = v /\ SubSeq(v, Len(v) + 1, Len(v)) \o after = after
      BY <1>5, WholeIs
    <3> QED
      BY <1>7, <2>1, <3>1
  <2>3. Char = Nul \/ (Char = " " /\ o.opt # "-")
    <3>1. written \in Seq(Options) /\ Len(written) \in Nat
      BY LenProperties DEF Typed
    <3>2. CASE k = Len(written)
      <4>1. text = <<Nul>>
        BY <2>2, <3>1, <3>2, LineIs
      <4> QED
        BY <4>1 DEF Char
    <3>3. CASE k # Len(written)
      <4>1. k + 1 \in 1..Len(written)
        BY <3>1, <3>3
      <4>2. BeginsWith(text, " ", <<"-">> \o Behind1(k + 1))
        BY <2>2, <3>1, <4>1, LineIs
      <4> QED
        BY <1>6, <3>3, <4>2 DEF BeginsWith, Char
    <3> QED
      BY <3>2, <3>3
  <2>4. EndsValue
    BY <1>3, <2>3 DEF EndsValue
  <2>5. StoreValue("normal")
    BY <2>4 DEF ValueFollows
  <2>6. \/ Refused'
        \/ Arrived(k)' /\ parsed' = "ok" /\ reader' = (IF Char = Nul THEN "done" ELSE "normal")
    BY <1>1, <1>2, <1>3, <2>2, <2>5, ValueArrives
  <2>7. CASE Refused'
    BY <2>7 DEF OnLine, Refused
  <2>8. CASE /\ Arrived(k)' /\ parsed' = "ok"
             /\ reader' = (IF Char = Nul THEN "done" ELSE "normal")
    BY <1>2, <1>4, <2>2, <2>8, NextOption
  <2> QED
    BY <2>6, <2>7, <2>8
<1> QED
  BY <1>8, <1>9

\* What stands in quotes at the i-th character of a value.
LEMMA QuotedTextIs ==
    ASSUME Typed, NEW k \in 1..Len(written), NEW i \in 0..(Len(written[k].value) - 1)
    PROVE  LET v == written[k].value
               rest == EscapedFrom(k, i + 2) \o From(k + 1)
           IN /\ rest \in Seq(Characters) /\ Cons(v[i + 1], rest) \in Seq(Characters)
              /\ v[i + 1] \in Characters /\ v[i + 1] # Nul
              /\ EscapedFrom(k, i + 1) \o From(k + 1)
                   = IF v[i + 1] \in {Quote, Backslash} THEN Cons(Backslash, Cons(v[i + 1], rest))
                     ELSE Cons(v[i + 1], rest)
              /\ Append(SubSeq(v, 1, i), v[i + 1]) = SubSeq(v, 1, i + 1)
<1> DEFINE C == Characters
           v == written[k].value
           after == From(k + 1)
           e == EscapedFrom(k, i + 2)
           rest == e \o after
<1>1. /\ v \in OptionValues /\ v \in Seq(C) /\ Len(v) \in Nat
      /\ \A j \in 1..Len(v) : v[j] \in C /\ v[j] # Nul
      /\ after \in Seq(C)
  BY OptionIs
<1>2. Backslash \in C
  BY CharactersAre
<1>3. i \in Nat /\ i < Len(v) /\ i + 1 \in 1..Len(v) /\ i + 2 \in 1..(Len(v) + 1) /\ (i + 1) + 1 = i + 2
  BY <1>1
<1>4. e \in Seq(C) /\ EscapedFrom(k, i + 1) = Escape(v[i + 1]) \o e
  <2> HIDE DEF v, C
  <2>1. /\ \A j \in 1..(Len(v) + 1) : Escaped(v)[j] \in Seq(C)
        /\ \A j \in 1..Len(v) : Escaped(v)[j] = Escape(v[j]) \o Escaped(v)[j + 1]
    BY <1>1, EscapedIs DEF C
  <2>2. Escaped(v)[i + 2] \in Seq(C)
    BY <1>3, <2>1
  <2>3. Escaped(v)[i + 1] = Escape(v[i + 1]) \o Escaped(v)[i + 2]
    BY <1>3, <2>1
  <2> QED
    BY <2>2, <2>3 DEF EscapedFrom, v
<1>5. Append(SubSeq(v, 1, i), v[i + 1]) = SubSeq(v, 1, i + 1)
  <2> HIDE DEF v, C
  <2> QED
    BY <1>1, <1>3, PrefixIs
<1> DEFINE a == v[i + 1]
<1>6. a \in C /\ a # Nul
  BY <1>1, <1>3
<1>7. EscapedFrom(k, i + 1) = Escape(a) \o e
  BY <1>4
<1> HIDE DEF C, e, after
<1>8. rest \in Seq(C)
  BY <1>1, <1>4, Behind
<1> HIDE DEF a
<1>9. Cons(a, rest) \in Seq(C)
  <2> HIDE DEF rest
  <2> QED
    BY <1>6, <1>8, HeadIs DEF Cons
<1>10. ASSUME NEW s \in Seq(C) PROVE (s \o e) \o after = s \o rest
  <2>1. e \in Seq(C) /\ after \in Seq(C)
    BY <1>1, <1>4
  <2> HIDE DEF v
  <2> QED
    BY <2>1, Together, SMTT(30)
<1>11. CASE a \in {Quote, Backslash}
  <2> DEFINE s == <<Backslash, a>>
  <2>1. s \in Seq(C)
    BY <1>2, <1>6
  <2>2. Escape(a) = s
    BY <1>11 DEF Escape
  <2>3. s \o rest = Cons(Backslash, Cons(a, rest))
    <3> HIDE DEF rest
    <3> QED
      BY <1>2, <1>6, <1>8, PairIs DEF Cons
  <2> HIDE DEF s
  <2>4. EscapedFrom(k, i + 1) \o after = Cons(Backslash, Cons(a, rest))
    BY <1>7, <1>10, <2>1, <2>2, <2>3
  <2> QED
    BY <1>5, <1>6, <1>8, <1>9, <1>11, <2>4 DEF C, e, after, a
<1>12. CASE a \notin {Quote, Backslash}
  <2> DEFINE s == <<a>>
  <2>1. s \in Seq(C)
    BY <1>6
  <2>2. Escape(a) = s
    BY <1>12 DEF Escape
  <2>3. s \o rest = Cons(a, rest)
    BY DEF Cons
  <2> HIDE DEF s
  <2>4. EscapedFrom(k, i + 1) \o after = Cons(a, rest)
    BY <1>7, <1>10, <2>1, <2>2, <2>3
  <2> QED
    BY <1>5, <1>6, <1>8, <1>9, <1>12, <2>4 DEF C, e, after, a
<1> QED
  BY <1>11, <1>12

LEMMA QuotedKeeps == ASSUME Typed, OnLine, ~Lost, Quoted PROVE OnLine'
<1>1. Reads /\ reader = "quoted"
  BY DEF Reads, Quoted, Read
<1>2. PICK k \in 1..Len(written) :
        SoundUpTo(k) /\ Arrived(k - 1) /\ parsed = "ok" /\ InOption(k)
  BY <1>1 DEF OnLine, Between, Understood, Refused, Reading
<1> DEFINE v == written[k].value
           after == From(k + 1)
<1>3. InQuoted(k) /\ opt = written[k].opt /\ written[k].quoted
  BY <1>1, <1>2 DEF InOption, InPlain, InQuoted, AtEscaped
<1>4. text' = Tail(text) /\ written' = written /\ opt' = opt
  BY <1>1, ReadsKeep DEF Quoted
<1>5. v \in OptionValues /\ v \in Seq(Characters) /\ Len(v) \in Nat /\ after \in Seq(Characters)
  BY OptionIs
<1>6. /\ Quote \in Characters /\ Backslash \in Characters
      /\ Quote # Nul /\ Backslash # Nul /\ Quote # Backslash
  BY CharactersAre DEF Quote, Backslash, Nul
<1>7. PICK i \in 0..Len(v) : value = SubSeq(v, 1, i) /\ text = EscapedFrom(k, i + 1) \o after
  BY <1>3 DEF InQuoted
<1>8. CASE i # Len(v)
  <2> DEFINE a == v[i + 1]
             rest == EscapedFrom(k, i + 2) \o after
  <2>1. i \in 0..(Len(v) - 1) /\ i + 1 \in 0..Len(v) /\ (i + 1) + 1 = i + 2
    BY <1>5, <1>8
  <2>2. /\ rest \in Seq(Characters) /\ Cons(a, rest) \in Seq(Characters)
        /\ a \in Characters /\ a # Nul
        /\ EscapedFrom(k, i + 1) \o after
             = IF a \in {Quote, Backslash} THEN Cons(Backslash, Cons(a, rest)) ELSE Cons(a, rest)
        /\ Append(SubSeq(v, 1, i), a) = SubSeq(v, 1, i + 1)
    BY <2>1, QuotedTextIs
  <2> HIDE DEF a, rest, v, after
  <2>3. CASE a \in {Quote, Backslash}
    <3>1. text = Cons(Backslash, Cons(a, rest))
      BY <1>7, <2>2, <2>3
    <3>2. Char = Backslash /\ text' = Cons(a, rest)
      BY <1>4, <1>6, <2>2, <3>1, BeginsIs
    <3>3. reader' = "escaped char" /\ parsed' = parsed /\ value' = value /\ values' = values
      BY <1>6, <3>2 DEF Quoted, Go
    <3>4. AtEscaped(k)'
      <4>1. \E j \in 0..(Len(v) - 1) : /\ value' = SubSeq(v, 1, j)
                                       /\ text' = Cons(v[j + 1], EscapedFrom(k, j + 2) \o after)
        BY <1>7, <2>1, <3>2, <3>3 DEF a, rest
      <4> QED
        BY <1>3, <1>4, <3>3, <4>1, SameLine DEF AtEscaped, v, after
    <3>5. InOption(k)'
      BY <1>3, <1>4, <3>4 DEF InOption
    <3> QED
      BY <1>1, <1>2, <3>3, <3>5, StaysReading
  <2>4. CASE a \notin {Quote, Backslash}
    <3>1. text = Cons(a, rest)
      BY <1>7, <2>2, <2>4
    <3>2. Char = a /\ text' = rest
      BY <1>4, <2>2, <3>1, BeginsIs
    <3>3. /\ reader' = "quoted" /\ parsed' = parsed /\ values' = values
          /\ value' = Append(value, a)
      BY <2>2, <2>4, <3>2 DEF Quoted, Go
    <3>4. value' = SubSeq(v, 1, i + 1)
      BY <1>7, <2>2, <3>3
    <3>5. InQuoted(k)'
      <4>1. text' = EscapedFrom(k, (i + 1) + 1) \o after
        BY <2>1, <3>2 DEF rest
      <4>2. \E j \in 0..Len(v) : value' = SubSeq(v, 1, j) /\ text' = EscapedFrom(k, j + 1) \o after
        BY <2>1, <3>4, <4>1
      <4> QED
        BY <1>3, <1>4, <3>3, <4>2, SameLine DEF InQuoted, v, after
    <3>6. InOption(k)'
      BY <1>3, <1>4, <3>5 DEF InOption
    <3> QED
      BY <1>1, <1>2, <3>3, <3>6, StaysReading
  <2> QED
    BY <2>3, <2>4
<1>9. CASE i = Len(v)
  <2>1. value = v /\ text = Cons(Quote, after)
    <3>1. EscapedFrom(k, Len(v) + 1) = <<Quote>>
      <4> HIDE DEF v
      <4>1. Escaped(v)[Len(v) + 1] = <<Quote>>
        BY <1>5, EscapedIs
      <4> QED
        BY <4>1 DEF EscapedFrom, v
    <3> HIDE DEF v, after
    <3>2. SubSeq(v, 1, Len(v)) = v
      BY <1>5, WholeIs
    <3> QED
      BY <1>7, <1>9, <3>1, <3>2 DEF Cons
  <2> HIDE DEF after
  <2>2. Char = Quote /\ text' = after
    BY <1>4, <1>5, <1>6, <2>1, BeginsIs
  <2>3. StoreValue("skip char")
    BY <1>6, <2>2 DEF Quoted
  <2>4. \/ Refused'
        \/ Arrived(k)' /\ parsed' = "ok" /\ reader' = (IF Char = Nul THEN "done" ELSE "skip char")
    BY <1>1, <1>2, <1>3, <2>1, <2>3, ValueArrives
  <2>5. CASE Refused'
    BY <2>5 DEF OnLine, Refused
  <2>6. CASE Arrived(k)' /\ parsed' = "ok" /\ reader' = (IF Char = Nul THEN "done" ELSE "skip char")
    <3>1. reader' = "skip char"
      BY <1>6, <2>2, <2>6
    <3>2. SoundUpTo(k)' /\ text' = From(k + 1)'
      BY <1>2, <1>4, <2>2, SameLine DEF after
    <3>3. Between'
      BY <1>4, <2>6, <3>1, <3>2 DEF Between
    <3> QED
      BY <3>1, <3>3 DEF OnLine
  <2> QED
    BY <2>4, <2>5, <2>6
<1> QED
  BY <1>8, <1>9

LEMMA EscapedCharKeeps == ASSUME Typed, OnLine, ~Lost, EscapedChar PROVE OnLine'
<1>1. Reads /\ reader = "escaped char"
  BY DEF Reads, EscapedChar, Read
<1>2. PICK k \in 1..Len(written) :
        SoundUpTo(k) /\ Arrived(k - 1) /\ parsed = "ok" /\ InOption(k)
  BY <1>1 DEF OnLine, Between, Understood, Refused, Reading
<1> DEFINE v == written[k].value
           after == From(k + 1)
<1>3. AtEscaped(k) /\ opt = written[k].opt /\ written[k].quoted
  BY <1>1, <1>2 DEF InOption, InPlain, InQuoted, AtEscaped
<1>4. text' = Tail(text) /\ written' = written /\ opt' = opt /\ values' = values
  BY <1>1, ReadsKeep DEF EscapedChar
<1>5. PICK i \in 0..(Len(v) - 1) : /\ value = SubSeq(v, 1, i)
                                   /\ text = Cons(v[i + 1], EscapedFrom(k, i + 2) \o after)
  BY <1>3 DEF AtEscaped
<1> DEFINE a == v[i + 1]
           rest == EscapedFrom(k, i + 2) \o after
<1>6. Len(v) \in Nat
  BY OptionIs
<1>7. i + 1 \in 0..Len(v) /\ (i + 1) + 1 = i + 2
  BY <1>6
<1>8. /\ rest \in Seq(Characters) /\ a \in Characters /\ a # Nul
      /\ Append(SubSeq(v, 1, i), a) = SubSeq(v, 1, i + 1)
  BY QuotedTextIs
<1> HIDE DEF a, rest, v, after
<1>9. text = Cons(a, rest)
  BY <1>5 DEF a, rest
<1>10. Char = a /\ text' = rest
  BY <1>4, <1>8, <1>9, BeginsIs
<1>11. reader' = "quoted" /\ parsed' = parsed /\ value' = Append(value, a)
  BY <1>8, <1>10 DEF EscapedChar, Go
<1>12. value' = SubSeq(v, 1, i + 1)
  BY <1>5, <1>8, <1>11
<1>13. InQuoted(k)'
  <2>1. text' = EscapedFrom(k, (i + 1) + 1) \o after
    BY <1>7, <1>10 DEF rest
  <2>2. \E j \in 0..Len(v) : value' = SubSeq(v, 1, j) /\ text' = EscapedFrom(k, j + 1) \o after
    BY <1>7, <1>12, <2>1
  <2> QED
    BY <1>3, <1>4, <1>11, <2>2, SameLine DEF InQuoted, v, after
<1>14. InOption(k)'
  BY <1>3, <1>4, <1>13 DEF InOption
<1> QED
  BY <1>1, <1>2, <1>4, <1>11, <1>14, StaysReading

LEMMA SkipCharKeeps == ASSUME Typed, OnLine, ~Lost, SkipChar PROVE OnLine'
<1>1. Reads /\ reader = "skip char"
  BY DEF Reads, SkipChar, Read
<1>2. Between
  BY <1>1 DEF OnLine, Reading, InOption, InPlain, InQuoted, AtEscaped, Understood, Refused
<1>3. PICK k \in 1..Len(written) : /\ SoundUpTo(k) /\ Arrived(k) /\ parsed = "ok"
                                   /\ text = From(k + 1)
  BY <1>2 DEF Between
<1>4. /\ text' = Tail(text) /\ written' = written /\ values' = values /\ parsed' = "ok"
      /\ reader' = IF Char = Nul THEN "done" ELSE "normal"
  BY <1>1, <1>3, ReadsKeep DEF SkipChar, Go
<1>5. Arrived(k)'
  BY <1>3, <1>4, SameValues
<1> QED
  BY <1>3, <1>4, <1>5, NextOption

-----------------------------------------------------------------------------
(* The invariant, and what follows from it.                                *)

LEMMA OnLineInit == ParserInit => OnLine
<1>1. DOMAIN << >> = {}
  OBVIOUS
<1> QED
  BY <1>1 DEF ParserInit, OnLine

LEMMA SendKeeps == ASSUME Typed, OnLine, SendLine PROVE OnLine'
<1>1. /\ reader = "waiting" /\ written # << >> /\ text' = Tail(From(1)) /\ reader' = "normal"
      /\ written' = written /\ parsed' = parsed /\ values' = values
  BY DEF SendLine, From
<1>2. DOMAIN values = {} /\ parsed = "ok" /\ reader' # "waiting"
  BY <1>1 DEF OnLine
<1>3. written \in Seq(Options)
  BY DEF Typed
<1>4. Len(written) \in Nat \ {0}
  BY <1>1, <1>3, EmptySeq
<1>5. 1 \in 1..Len(written) /\ 1 - 1 = 0 /\ 1..0 = {} /\ 1..1 = {1}
  BY <1>4
<1>6. BeginsWith(From(1), " ", Cons("-", Behind1(1)))
  BY <1>3, <1>5, LineIs DEF Cons
<1>7. text' = Cons("-", Behind1(1)')
  <2>1. text' = Cons("-", Behind1(1))
    BY <1>1, <1>6 DEF BeginsWith
  <2> QED
    BY <1>1, <2>1, SameLine
<1>8. CASE Sound(1)
  <2>1. InOption(1)'
    BY <1>1, <1>7 DEF InOption
  <2>2. SoundUpTo(1)'
    <3>1. SoundUpTo(1)
      BY <1>5, <1>8 DEF SoundUpTo
    <3> QED
      BY <1>1, <3>1, SameLine
  <2>3. Arrived(0)'
    BY <1>1, <1>2, <1>5 DEF Arrived
  <2>4. Arrived(1 - 1)'
    BY <1>5, <2>3
  <2>5. Reading'
    BY <1>1, <1>2, <1>5, <2>1, <2>2, <2>4 DEF Reading
  <2> QED
    BY <1>2, <2>5 DEF OnLine
<1>9. CASE ~Sound(1)
  <2>1. ~Sound(1)'
    BY <1>1, <1>9, SameLine
  <2>2. SoundUpTo(1 - 1)'
    BY <1>5 DEF SoundUpTo
  <2>3. Lost'
    BY <1>1, <1>5, <2>1, <2>2 DEF Lost
  <2> QED
    BY <1>2, <2>3 DEF OnLine
<1> QED
  BY <1>8, <1>9

LEMMA OnLineStep == Typed /\ OnLine /\ [ParserNext]_parserVars => OnLine'
<1> SUFFICES ASSUME Typed, OnLine, [ParserNext]_parserVars PROVE OnLine'
  OBVIOUS
<1>1. CASE UNCHANGED parserVars
  <2>1. /\ written' = written /\ text' = text /\ reader' = reader /\ parsed' = parsed
        /\ opt' = opt /\ value' = value /\ values' = values
    BY <1>1 DEF parserVars
  <2>2. /\ \A k : (SoundUpTo(k)' <=> SoundUpTo(k)) /\ (Arrived(k)' <=> Arrived(k))
                  /\ From(k)' = From(k) /\ (Sound(k)' <=> Sound(k))
    BY <2>1, SameLine, SameValues
  <2>3. \A k : InOption(k)' <=> InOption(k)
    <3>1. \A k : InPlain(k)' <=> InPlain(k)
      BY <2>1, SameLine DEF InPlain
    <3>2. \A k : InQuoted(k)' <=> InQuoted(k)
      BY <2>1, SameLine DEF InQuoted
    <3>3. \A k : AtEscaped(k)' <=> AtEscaped(k)
      BY <2>1, SameLine DEF AtEscaped
    <3> QED
      BY <2>1, <3>1, <3>2, <3>3, SameLine DEF InOption
  <2>4. Reading => Reading'
    BY <2>1, <2>2, <2>3 DEF Reading
  <2>5. Between => Between'
    BY <2>1, <2>2 DEF Between
  <2>6. Lost => Lost'
    BY <2>1, <2>2 DEF Lost
  <2>7. Understood => Understood'
    BY <2>1, <2>2 DEF Understood
  <2>8. Refused => Refused'
    BY <2>1, <2>2 DEF Refused
  <2> QED
    BY <2>1, <2>4, <2>5, <2>6, <2>7, <2>8 DEF OnLine
<1>2. CASE \E letter \in OptionLetters, chars \in OptionValues, quoted \in BOOLEAN :
              WriteOption(letter, chars, quoted)
  BY <1>2 DEF WriteOption, OnLine
<1>3. CASE SendLine
  BY <1>3, SendKeeps
<1>4. CASE Reads
  <2>1. CASE Lost
    BY <1>4, <2>1, LostStays, ReadsKeep DEF OnLine
  <2>2. CASE ~Lost
    BY <1>4, <2>2, NormalKeeps, OptFollowsKeeps, SepFollowsKeeps, FirstCharKeeps,
       ValueFollowsKeeps, QuotedKeeps, EscapedCharKeeps, SkipCharKeeps DEF Reads
  <2> QED
    BY <2>1, <2>2
<1> QED
  BY <1>1, <1>2, <1>3, <1>4 DEF ParserNext, Reads

LEMMA LineInvariant == ParserSpec => [](Typed /\ OnLine)
BY TypedInit, TypedStep, OnLineInit, OnLineStep, PTL DEF ParserSpec

LEMMA AtTheEnd ==
    ASSUME Typed, OnLine, reader = "done"
    PROVE  Lost \/ Understood \/ Refused
BY DEF OnLine, Reading, InOption, InPlain, InQuoted, AtEscaped, Between

\* A command whose options a client spells as the parser reads them arrives as it was
\* meant, however long it is, and is refused exactly when an option is given twice.
THEOREM SoundIsUnderstood == ParserSpec => []UnderstoodAsWritten
<1>1. ASSUME Typed, OnLine PROVE UnderstoodAsWritten
  <2> SUFFICES ASSUME reader = "done", \A k \in DOMAIN written : Sound(k)
               PROVE  IF \E j, k \in DOMAIN written : j # k /\ written[j].opt = written[k].opt
                      THEN parsed = "duplicate"
                      ELSE /\ parsed = "ok"
                           /\ DOMAIN values = {written[k].opt : k \in DOMAIN written}
                           /\ \A k \in DOMAIN written : values[written[k].opt] = written[k].value
    BY DEF UnderstoodAsWritten
  <2>1. Len(written) \in Nat /\ DOMAIN written = 1..Len(written)
    BY <1>1, LenProperties DEF Typed
  <2>2. Lost \/ Understood \/ Refused
    BY <1>1, AtTheEnd
  <2>3. ~Lost
    BY <2>1 DEF Lost
  <2>4. CASE Understood
    BY <2>1, <2>4 DEF Understood, Arrived
  <2>5. CASE Refused
    <3>1. PICK k \in 1..Len(written) : \E j \in 1..(k - 1) : written[j].opt = written[k].opt
      BY <2>5 DEF Refused
    <3>2. PICK j \in 1..(k - 1) : written[j].opt = written[k].opt
      BY <3>1
    <3>3. j \in DOMAIN written /\ k \in DOMAIN written /\ j # k
      BY <2>1
    <3>4. \E a, b \in DOMAIN written : a # b /\ written[a].opt = written[b].opt
      BY <3>2, <3>3
    <3>5. parsed = "duplicate"
      BY <2>5 DEF Refused
    <3> QED
      BY <3>4, <3>5
  <2> QED
    BY <2>2, <2>3, <2>4, <2>5
<1> QED
  BY <1>1, LineInvariant, PTL

\* The option that is written first, as the transaction id is, arrives as it was
\* meant whatever stands behind it, so that an answer to the command can carry it.
THEOREM FirstOptionArrives == ParserSpec => []FirstOptionSurvives
<1>1. ASSUME Typed, OnLine PROVE FirstOptionSurvives
  <2> SUFFICES ASSUME reader = "done", Sound(1)
               PROVE  written[1].opt \in DOMAIN values /\ values[written[1].opt] = written[1].value
    BY DEF FirstOptionSurvives
  <2>1. Len(written) \in Nat
    BY <1>1, LenProperties DEF Typed
  <2>2. Lost \/ Understood \/ Refused
    BY <1>1, AtTheEnd
  <2>3. CASE Lost
    <3>1. PICK k \in 1..Len(written) :
            /\ ~Sound(k)
            /\ \A j \in 1..(k - 1) : /\ written[j].opt \in DOMAIN values
                                     /\ values[written[j].opt] = written[j].value
      BY <2>3 DEF Lost
    <3>2. k # 1
      BY <3>1
    <3>3. 1 \in 1..(k - 1)
      BY <2>1, <3>2
    <3> QED
      BY <3>1, <3>3
  <2>4. CASE Understood
    <3>1. Len(written) # 0
      BY <2>4 DEF Understood
    <3> QED
      BY <2>1, <2>4, <3>1 DEF Understood, Arrived
  <2>5. CASE Refused
    <3>1. PICK k \in 1..Len(written) : Arrived(k - 1) /\ \E j \in 1..(k - 1) : TRUE
      BY <2>5 DEF Refused
    <3>2. 1 \in 1..(k - 1)
      BY <2>1, <3>1
    <3> QED
      BY <3>1, <3>2 DEF Arrived
  <2> QED
    BY <2>2, <2>3, <2>4, <2>5
<1> QED
  BY <1>1, LineInvariant, PTL

-----------------------------------------------------------------------------
(* How a name is read.                                                     *)

\* What full names are made of.
Letters == KeyCharacters \cup ClassNames \cup Marks \cup {"\"", "\\", "0", "]", "}"}

Lexer(at, state, from, type, class, quote, val) ==
    [from |-> from, state |-> state, type |-> type, class |-> class, quote |-> quote,
     at |-> at, value |-> val]
LexerFields == {"from", "state", "type", "class", "quote", "at", "value"}
IsLexer(l, at) == l = [k \in LexerFields |-> l[k]] /\ l.at = at /\ l.from \in 0..at

\* Each character of a name leads from one state to the next.
IsRun(n, r) ==
    /\ r[1] = Plain
    /\ \A i \in 1..(Len(n) + 1) : IsLexer(r[i], i)
    /\ \A i \in 1..Len(n) : r[i + 1] = Advance(n, r[i], n[i])

Reached(n, l) == \E r : IsRun(n, r) /\ r[Len(n) + 1] = l

LEMMA KeywordStays ==
    ASSUME NEW S, NEW n \in Seq(S), NEW t \in Seq(S), NEW i \in 1..(Len(n) + 1), NEW from \in 1..i
    PROVE  SubSeq(n \o t, from, i - 1) = SubSeq(n, from, i - 1)
<1> DEFINE w == n \o t
<1>1. /\ w \in Seq(S) /\ Len(n) \in Nat /\ Len(t) \in Nat /\ Len(w) = Len(n) + Len(t)
      /\ \A j \in 1..Len(n) : w[j] = n[j]
  BY ConcatIs
<1> HIDE DEF w
<1>2. i - 1 \in 0..Len(n) /\ from \in Nat /\ i - 1 \in Nat
  BY <1>1
<1>3. \A j \in from..(i - 1) : j \in 1..Len(n) /\ w[j] = n[j] /\ n[j] \in S
  BY <1>1, <1>2, ElementOfSeq
<1> DEFINE a == SubSeq(n, from, i - 1)
           b == SubSeq(w, from, i - 1)
           m == IF from <= i - 1 THEN i - 1 - from + 1 ELSE 0
<1>4. a \in Seq(S) /\ Len(a) = m /\ \A j \in 1..(i - 1 - from + 1) : a[j] = n[from + j - 1]
  BY <1>2, <1>3, SubSeqProperties
<1>5. b \in Seq(S) /\ Len(b) = m /\ \A j \in 1..(i - 1 - from + 1) : b[j] = w[from + j - 1]
  BY <1>2, <1>3, SubSeqProperties
<1> HIDE DEF a, b
<1>6. \A j \in 1..Len(a) : a[j] = b[j]
  <2>1. \A j \in 1..Len(a) : j \in 1..(i - 1 - from + 1) /\ from + j - 1 \in from..(i - 1)
    BY <1>2, <1>4
  <2> QED
    BY <1>3, <1>4, <1>5, <2>1
<1>7. a = b
  BY <1>4, <1>5, <1>6, SeqEqual
<1> QED
  BY <1>7 DEF a, b, w

\* What is read of a name does not depend on what is behind it.
LEMMA FetchedStays ==
    ASSUME NEW S, NEW n \in Seq(S), NEW t \in Seq(S), NEW i \in 1..(Len(n) + 1), NEW keeps
    PROVE  \A l : l.at = i /\ l.from \in 0..i => Fetched(n \o t, l, keeps) = Fetched(n, l, keeps)
<1> SUFFICES ASSUME NEW l, l.at = i, l.from \in 0..i
             PROVE  Fetched(n \o t, l, keeps) = Fetched(n, l, keeps)
  OBVIOUS
<1>1. CASE l.from = 0
  BY <1>1 DEF Fetched
<1>2. CASE l.from # 0
  <2>1. l.from \in 1..i
    BY <1>2
  <2>2. SubSeq(n \o t, l.from, l.at - 1) = SubSeq(n, l.from, l.at - 1)
    BY <2>1, KeywordStays
  <2> QED
    BY <2>2, Zenon DEF Fetched
<1> QED
  BY <1>1, <1>2

LEMMA StepStays ==
    ASSUME NEW S, NEW n \in Seq(S), NEW t \in Seq(S), NEW i \in 1..(Len(n) + 1),
           NEW l, IsLexer(l, i), NEW c
    PROVE  Advance(n \o t, l, c) = Advance(n, l, c)
<1>1. l.at = i /\ l.from \in 0..i
  BY DEF IsLexer
<1> DEFINE b == [l EXCEPT !.from = l.at, !.state = 1]
<1>2. b.at = i /\ b.from = i /\ i \in 0..i
  BY <1>1 DEF IsLexer, LexerFields
<1> DEFINE name == n \o t
<1> HIDE DEF b, name
<1>3. \A keeps : Fetched(name, l, keeps) = Fetched(n, l, keeps) /\ Fetched(name, b, keeps) = Fetched(n, b, keeps)
  BY <1>1, <1>2, FetchedStays DEF name
<1>4. Name(name, l, c) = Name(n, l, c) /\ Name(name, b, c) = Name(n, b, c)
  BY <1>3, Zenon DEF Name
<1>5. \A escape, after : InQuotes(name, l, c, escape, after) = InQuotes(n, l, c, escape, after)
  BY <1>3, Zenon DEF InQuotes
<1>6. Step(name, l, c) = Step(n, l, c)
  BY <1>3, <1>4, <1>5, Zenon DEF Step, b
<1> QED
  BY <1>6 DEF Advance, name

LEMMA OneMore ==
    ASSUME NEW n \in Seq(Letters), NEW c \in Letters, NEW l, NEW m, Reached(n, l),
           m = Advance(n, l, c), IsLexer(m, Len(n) + 2)
    PROVE  Reached(n \o <<c>>, m) /\ n \o <<c>> \in Seq(Letters) /\ Len(n \o <<c>>) = Len(n) + 1
<1> DEFINE t == <<c>>
           name == n \o t
<1>1. t \in Seq(Letters) /\ Len(t) = 1 /\ t[1] = c
  OBVIOUS
<1> HIDE DEF t
<1>2. /\ name \in Seq(Letters) /\ Len(n) \in Nat /\ Len(name) = Len(n) + 1
      /\ \A i \in 1..Len(n) : name[i] = n[i]
      /\ name[Len(n) + 1] = c
  <2>1. /\ name \in Seq(Letters) /\ Len(n) \in Nat /\ Len(name) = Len(n) + Len(t)
        /\ \A i \in 1..Len(n) : name[i] = n[i]
        /\ \A i \in 1..Len(t) : name[Len(n) + i] = t[i]
    <3>1. n \in Seq(Letters) /\ t \in Seq(Letters) /\ Len(n) \in Nat
      BY <1>1, LenProperties
    <3> QED
      BY <3>1, Behind
  <2> HIDE DEF name
  <2>2. 1 \in 1..Len(t)
    BY <1>1
  <2> QED
    BY <1>1, <2>1, <2>2
<1>3. PICK r : IsRun(n, r) /\ r[Len(n) + 1] = l
  BY DEF Reached
<1> DEFINE q == [i \in 1..(Len(n) + 2) |-> IF i <= Len(n) + 1 THEN r[i] ELSE m]
<1>4. /\ \A i \in 1..(Len(n) + 1) : q[i] = r[i]
      /\ q[Len(n) + 2] = m
  BY <1>2
<1> HIDE DEF q, name
<1>5. /\ r[1] = Plain
      /\ \A i \in 1..(Len(n) + 1) : IsLexer(r[i], i)
      /\ \A i \in 1..Len(n) : r[i + 1] = Advance(n, r[i], n[i])
  BY <1>3 DEF IsRun
<1>6. \A i \in 1..(Len(n) + 1) : \A d : Advance(name, r[i], d) = Advance(n, r[i], d)
  BY <1>1, <1>5, StepStays DEF name
<1>7. q[1] = Plain
  BY <1>2, <1>4, <1>5
<1>8. \A i \in 1..(Len(name) + 1) : IsLexer(q[i], i)
  <2> SUFFICES ASSUME NEW i \in 1..(Len(name) + 1) PROVE IsLexer(q[i], i)
    OBVIOUS
  <2>1. i \in 1..(Len(n) + 1) \/ i = Len(n) + 2
    BY <1>2
  <2> QED
    BY <2>1, <1>4, <1>5
<1>9. \A i \in 1..Len(name) : q[i + 1] = Advance(name, q[i], name[i])
  <2> SUFFICES ASSUME NEW i \in 1..Len(name) PROVE q[i + 1] = Advance(name, q[i], name[i])
    OBVIOUS
  <2>1. CASE i \in 1..Len(n)
    <3>1. i \in 1..(Len(n) + 1) /\ i + 1 \in 1..(Len(n) + 1)
      BY <1>2, <2>1
    <3>2. q[i] = r[i] /\ q[i + 1] = r[i + 1] /\ name[i] = n[i] /\ r[i + 1] = Advance(n, r[i], n[i])
      BY <1>2, <1>4, <1>5, <2>1, <3>1
    <3>3. Advance(name, r[i], n[i]) = Advance(n, r[i], n[i])
      BY <1>6, <3>1
    <3> QED
      BY <3>2, <3>3, Zenon
  <2>2. CASE i = Len(n) + 1
    <3>1. i \in 1..(Len(n) + 1) /\ i + 1 = Len(n) + 2
      BY <1>2, <2>2
    <3>2. q[i] = l /\ q[i + 1] = m /\ name[i] = c /\ r[i] = l
      BY <1>2, <1>3, <1>4, <2>2, <3>1
    <3>3. Advance(name, r[i], c) = Advance(n, r[i], c)
      BY <1>6, <3>1
    <3> QED
      BY <3>2, <3>3, Zenon
  <2> QED
    BY <1>2, <2>1, <2>2
<1>10. IsRun(name, q)
  BY <1>7, <1>8, <1>9 DEF IsRun
<1>11. q[Len(name) + 1] = m
  BY <1>2, <1>4
<1>12. Reached(name, m)
  BY <1>10, <1>11 DEF Reached
<1> QED
  BY <1>2, <1>12 DEF name, t

LEMMA ReachedIs ==
    ASSUME NEW n \in Seq(Letters), NEW l, Reached(n, l)
    PROVE  IsLexer(l, Len(n) + 1) /\ Len(n) \in Nat
BY LenProperties DEF Reached, IsRun

LEMMA LexerIs ==
    \A at, state, from, type, class, quote, val :
        from \in 0..at => IsLexer(Lexer(at, state, from, type, class, quote, val), at)
BY DEF Lexer, IsLexer, LexerFields

LEMMA LexerStarts == Reached(<< >>, Plain) /\ Plain = Lexer(1, 0, 0, "root", "", "", Undefined)
<1>1. Plain = Lexer(1, 0, 0, "root", "", "", Undefined)
  BY DEF Plain, Lexer
<1> DEFINE r == [i \in 1..1 |-> Plain]
<1>2. r[1] = Plain /\ 0 \in 0..1 /\ Len(<< >>) = 0
  OBVIOUS
<1>3. IsLexer(Plain, 1)
  BY <1>1, <1>2, LexerIs
<1> HIDE DEF r
<1>4. IsRun(<< >>, r)
  BY <1>2, <1>3 DEF IsRun
<1>5. r[Len(<< >>) + 1] = Plain
  BY <1>2
<1>6. Reached(<< >>, Plain)
  BY <1>4, <1>5 DEF Reached
<1> QED
  BY <1>1, <1>6

\* Once its last keyword is taken, the reader is at this value.
Settled(l, n, v) ==
    IF l.from = 0 THEN l.value = v /\ l.class = ClassOf(v)
    ELSE Fetch(l, SubSeq(n, l.from, l.at - 1)) = v

LEMMA LexerExcepts ==
    \A at, state, from, type, class, quote, val, x :
        LET l == Lexer(at, state, from, type, class, quote, val)
        IN /\ [l EXCEPT !.at = x] = Lexer(x, state, from, type, class, quote, val)
           /\ [l EXCEPT !.state = x] = Lexer(at, x, from, type, class, quote, val)
           /\ [l EXCEPT !.from = x] = Lexer(at, state, x, type, class, quote, val)
           /\ [l EXCEPT !.type = x] = Lexer(at, state, from, x, class, quote, val)
           /\ [l EXCEPT !.class = x] = Lexer(at, state, from, type, x, quote, val)
           /\ [l EXCEPT !.quote = x] = Lexer(at, state, from, type, class, x, val)
           /\ [l EXCEPT !.value = x] = Lexer(at, state, from, type, class, quote, x)
BY DEF Lexer

Taken(l, v, class) == [l EXCEPT !.value = v, !.class = class, !.from = 0]

LEMMA TakenIs ==
    ASSUME NEW at, NEW state, NEW from, NEW type, NEW class, NEW quote, NEW val, NEW v, NEW k
    PROVE  Taken(Lexer(at, state, from, type, class, quote, val), v, k)
              = Lexer(at, state, 0, type, k, quote, v)
<1>1. [Lexer(at, state, from, type, class, quote, val) EXCEPT !.value = v]
         = Lexer(at, state, from, type, class, quote, v)
  BY LexerExcepts
<1>2. [Lexer(at, state, from, type, class, quote, v) EXCEPT !.class = k]
         = Lexer(at, state, from, type, k, quote, v)
  BY LexerExcepts
<1>3. [Lexer(at, state, from, type, k, quote, v) EXCEPT !.from = 0]
         = Lexer(at, state, 0, type, k, quote, v)
  BY LexerExcepts
<1>4. \A l : [l EXCEPT !.value = v, !.class = k, !.from = 0]
                = [[[l EXCEPT !.value = v] EXCEPT !.class = k] EXCEPT !.from = 0]
  OBVIOUS
<1> QED
  BY <1>1, <1>2, <1>3, <1>4, Zenon DEF Taken

LEMMA FetchedIs ==
    ASSUME NEW n, NEW at, NEW state, NEW from, NEW type, NEW class, NEW quote, NEW val, NEW v,
           Settled(Lexer(at, state, from, type, class, quote, val), n, v)
    PROVE  /\ Fetched(n, Lexer(at, state, from, type, class, quote, val), TRUE)
                 = Lexer(at, state, 0, type, ClassOf(v), quote, v)
           /\ ClassOf(v) = "" =>
                 Fetched(n, Lexer(at, state, from, type, class, quote, val), FALSE)
                    = Lexer(at, state, 0, type, ClassOf(v), quote, v)
<1> DEFINE l == Lexer(at, state, from, type, class, quote, val)
           m == Lexer(at, state, 0, type, ClassOf(v), quote, v)
<1>1. /\ l.at = at /\ l.state = state /\ l.from = from /\ l.type = type
      /\ l.class = class /\ l.quote = quote /\ l.value = val
  BY DEF Lexer
<1>2. CASE from = 0
  <2>1. val = v /\ class = ClassOf(v)
    BY <1>1, <1>2, Zenon DEF Settled
  <2>2. l = m
    BY <1>2, <2>1, Zenon
  <2>3. Fetched(n, l, TRUE) = l /\ Fetched(n, l, FALSE) = l
    BY <1>1, <1>2, Zenon DEF Fetched
  <2> QED
    BY <2>2, <2>3, Zenon
<1>3. CASE from # 0
  <2>1. Fetch(l, SubSeq(n, l.from, l.at - 1)) = v
    BY <1>1, <1>3, Zenon DEF Settled
  <2>2. Fetched(n, l, TRUE) = Taken(l, v, ClassOf(v))
    BY <1>1, <1>3, <2>1, Zenon DEF Fetched, Taken
  <2>3. Fetched(n, l, FALSE) = Taken(l, v, "")
    BY <1>1, <1>3, <2>1, Zenon DEF Fetched, Taken
  <2>4. \A x : Taken(l, v, x) = Lexer(at, state, 0, type, x, quote, v)
    BY TakenIs
  <2>5. Fetched(n, l, TRUE) = m
    BY <2>2, <2>4
  <2>6. ASSUME ClassOf(v) = "" PROVE Fetched(n, l, FALSE) = m
    BY <2>3, <2>4, <2>6
  <2> QED
    BY <2>5, <2>6
<1> QED
  BY <1>2, <1>3

LEMMA PlainMoves ==
    ASSUME NEW n, NEW l, NEW c
    PROVE  /\ l.state = 1 /\ c \notin {"[", "-", ":"} => Step(n, l, c) = l
           /\ l.state = 6 /\ c \in Digits => Step(n, l, c) = l
<1>1. l.state = 1 => Step(n, l, c) = Name(n, l, c)
  BY DEF Step
<1>2. c \notin {"[", "-", ":"} => Name(n, l, c) = l
  <2>1. c \notin {"[", "-", ":"} => c # "[" /\ c # "-" /\ c # ":"
    OBVIOUS
  <2> QED
    BY <2>1, Zenon DEF Name
<1>3. l.state = 6 => Step(n, l, c) = IF c = "]" THEN To(Fetched(n, l, TRUE), 1) ELSE l
  BY DEF Step
<1>4. l.state = 6 /\ c \in Digits => Step(n, l, c) = l
  <2>1. c \in Digits => c # "]"
    BY DEF Digits
  <2> QED
    BY <1>3, <2>1, Zenon
<1>5. l.state = 1 /\ c \notin {"[", "-", ":"} => Step(n, l, c) = l
  BY <1>1, <1>2, Zenon
<1> QED
  BY <1>4, <1>5

LEMMA MarkMoves ==
    ASSUME NEW n, NEW l
    PROVE  /\ l.state = 2 => Step(n, l, ">") = l
           /\ l.state = 2 => Step(n, l, "{") = To(l, 11)
           /\ l.state = 8 => Step(n, l, ":") = l
           /\ l.state = 5 => Step(n, l, "]") = To(l, 1)
           /\ l.state = 14 => Step(n, l, "}") = To(l, 1)
<1>3. ">" # "{"
  OBVIOUS
<1>4. l.state = 2 => Step(n, l, ">") = l
  <2>1. l.state = 2 => Step(n, l, ">") = (CASE ">" = ">" -> l
                                           [] ">" = "{" -> To(l, 11)
                                           [] OTHER -> Begin(l, 1, l.type))
    BY DEF Step
  <2> QED
    BY <1>3, <2>1, Zenon
<1>5. l.state = 2 => Step(n, l, "{") = To(l, 11)
  <2>1. l.state = 2 => Step(n, l, "{") = (CASE "{" = ">" -> l
                                           [] "{" = "{" -> To(l, 11)
                                           [] OTHER -> Begin(l, 1, l.type))
    BY DEF Step
  <2> QED
    BY <1>3, <2>1, Zenon
<1>6. l.state = 8 => Step(n, l, ":") = l
  <2>1. l.state = 8 => Step(n, l, ":") = IF ":" = ":" THEN l ELSE Begin(l, 1, l.type)
    BY DEF Step
  <2> QED
    BY <2>1, Zenon
<1>9. l.state = 5 => Step(n, l, "]") = To(l, 1)
  <2>1. l.state = 5 => Step(n, l, "]") = IF "]" = "]" THEN To(l, 1) ELSE l
    BY DEF Step
  <2> QED
    BY <2>1, Zenon
<1>10. l.state = 14 => Step(n, l, "}") = To(l, 1)
  <2>1. l.state = 14 => Step(n, l, "}") = IF "}" = "}" THEN To(l, 1) ELSE l
    BY DEF Step
  <2> QED
    BY <2>1, Zenon
<1> QED
  BY <1>4, <1>5, <1>6, <1>9, <1>10, Zenon

LEMMA EscapedMoves ==
    ASSUME NEW n, NEW l, NEW c
    PROVE  /\ l.state = 10 => Step(n, l, c) = To(l, 4)
           /\ l.state = 13 => Step(n, l, c) = To(l, 12)
<1>1. l.state = 10 => Step(n, l, c) = To(l, 4)
  BY DEF Step
<1>2. l.state = 13 => Step(n, l, c) = To(l, 12)
  BY DEF Step
<1> QED
  BY <1>1, <1>2

LEMMA QuotesAreLeft ==
    ASSUME NEW n, NEW l, NEW c
    PROVE  /\ l.state = 4 => Step(n, l, c) = InQuotes(n, l, c, 10, 5)
           /\ l.state = 12 => Step(n, l, c) = InQuotes(n, l, c, 13, 14)
<1>1. l.state = 4 => Step(n, l, c) = InQuotes(n, l, c, 10, 5)
  BY DEF Step
<1>2. l.state = 12 => Step(n, l, c) = InQuotes(n, l, c, 13, 14)
  BY DEF Step
<1> QED
  BY <1>1, <1>2

LEMMA QuotedMovesAre ==
    ASSUME NEW n, NEW l, NEW c, l.quote = "\""
    PROVE  /\ l.state = 4 => Step(n, l, "\\") = To(l, 10)
           /\ l.state = 12 => Step(n, l, "\\") = To(l, 13)
           /\ l.state \in {4, 12} /\ c \notin {"\"", "\\"} => Step(n, l, c) = l
           /\ l.state = 4 => Step(n, l, "\"") = To(Fetched(n, l, TRUE), 5)
           /\ l.state = 12 => Step(n, l, "\"") = To(Fetched(n, l, TRUE), 14)
<1>1. \A d : /\ l.state = 4 => Step(n, l, d) = InQuotes(n, l, d, 10, 5)
             /\ l.state = 12 => Step(n, l, d) = InQuotes(n, l, d, 13, 14)
  BY QuotesAreLeft
<1>2. "\"" # "\\"
  OBVIOUS
<1>3. \A escape, after : /\ InQuotes(n, l, "\\", escape, after) = To(l, escape)
                         /\ InQuotes(n, l, "\"", escape, after) = To(Fetched(n, l, TRUE), after)
                         /\ c # "\"" /\ c # "\\" => InQuotes(n, l, c, escape, after) = l
  BY <1>2, Zenon DEF InQuotes
<1>4. c \notin {"\"", "\\"} => c # "\"" /\ c # "\\"
  OBVIOUS
<1>5. l.state \in {4, 12} => l.state = 4 \/ l.state = 12
  OBVIOUS
<1> QED
  BY <1>1, <1>3, <1>4, <1>5, Zenon

\* A reader in this state is behind a name.
At(n, state, from, type, class, quote, val) ==
    n \in Seq(Letters) /\ Reached(n, Lexer(Len(n) + 1, state, from, type, class, quote, val))

LEMMA After ==
    ASSUME NEW n \in Seq(Letters), NEW c \in Letters, NEW l, Reached(n, l),
           NEW state, NEW from \in 0..(Len(n) + 2), NEW type, NEW class, NEW quote, NEW val,
           Step(n, l, c) = Lexer(Len(n) + 1, state, from, type, class, quote, val)
    PROVE  At(n \o <<c>>, state, from, type, class, quote, val) /\ Len(n \o <<c>>) = Len(n) + 1
<1>1. IsLexer(l, Len(n) + 1) /\ Len(n) \in Nat
  BY ReachedIs
<1>2. l.at = Len(n) + 1
  BY <1>1 DEF IsLexer
<1> DEFINE m == Lexer(Len(n) + 2, state, from, type, class, quote, val)
           k == Lexer(Len(n) + 1, state, from, type, class, quote, val)
<1>3. [k EXCEPT !.at = Len(n) + 2] = m
  BY LexerExcepts
<1>4. Len(n) + 1 + 1 = Len(n) + 2
  BY <1>1
<1>5. IsLexer(m, Len(n) + 2)
  BY LexerIs
<1> HIDE DEF m
<1>6. m = Advance(n, l, c)
  BY <1>2, <1>3, <1>4, Zenon DEF Advance
<1>7. Reached(n \o <<c>>, m) /\ n \o <<c>> \in Seq(Letters) /\ Len(n \o <<c>>) = Len(n) + 1
  BY <1>5, <1>6, OneMore
<1> QED
  BY <1>4, <1>7, Zenon DEF m, At

\* Characters that leave the reader in its state.
Passes(state, from, type, class, quote, val, c) ==
    \A n, at : Step(n, Lexer(at, state, from, type, class, quote, val), c)
                  = Lexer(at, state, from, type, class, quote, val)

LEMMA WordIsRead ==
    ASSUME NEW n, NEW w \in Seq(Letters),
           NEW state, NEW from, NEW type, NEW class, NEW quote, NEW val,
           At(n, state, from, type, class, quote, val),
           \A i \in 1..Len(w) : Passes(state, from, type, class, quote, val, w[i])
    PROVE  At(n \o w, state, from, type, class, quote, val)
<1> DEFINE Good(m) == At(m, state, from, type, class, quote, val)
           p(k) == SubSeq(w, 1, k)
           T == {k \in Nat : k <= Len(w) /\ ~Good(n \o p(k))}
<1>0. n \in Seq(Letters) /\ Len(n) \in Nat /\ Len(w) \in Nat /\ << >> \in Seq(Letters)
  BY LenProperties DEF At
<1>1. T = {}
  <2> SUFFICES ASSUME T # {} PROVE FALSE
    OBVIOUS
  <2>1. PICK k \in T : \A x \in T : k <= x
    <3> HIDE DEF Good
    <3> QED
      BY Smallest
  <2>2. k \in Nat /\ k <= Len(w) /\ ~Good(n \o p(k))
    BY <2>1
  <2>3. k # 0
    <3>1. p(0) = << >>
      BY <1>0, SubSeqEmpty
    <3>2. n \o << >> = n
      BY <1>0, ConcatEmptySeq
    <3>3. Good(n \o p(0))
      BY <3>1, <3>2, Zenon
    <3> HIDE DEF Good
    <3> QED
      BY <2>2, <3>3
  <2> DEFINE i == k - 1
             m == n \o p(i)
  <2>4. i \in Nat /\ i < Len(w) /\ i <= Len(w) /\ ~(k <= i) /\ i + 1 = k /\ i + 1 \in 1..Len(w)
    BY <1>0, <2>2, <2>3
  <2>5. Good(m)
    <3> HIDE DEF Good, i
    <3> QED
      BY <2>1, <2>4
  <2>6. Append(p(i), w[i + 1]) = p(i + 1) /\ w[i + 1] \in Letters
    <3> HIDE DEF i
    <3>1. << >> \in Seq(Letters) /\ w \in Seq(Letters)
      BY <1>0
    <3> QED
      BY <2>4, <3>1, PrefixIs
  <2>7. p(i) \in Seq(Letters)
    <3> HIDE DEF i
    <3>1. \A j \in 1..i : w[j] \in Letters
      BY <1>0, <2>4, ElementOfSeq
    <3> QED
      BY <1>0, <2>4, <3>1, SubSeqProperties
  <2> DEFINE c == w[i + 1]
  <2> HIDE DEF i
  <2>8. c \in Letters /\ Passes(state, from, type, class, quote, val, c)
    BY <2>4, <2>6
  <2>9. p(i) \o <<c>> = Append(p(i), c)
    BY <2>7, <2>8, AppendIsConcat
  <2>10. n \o (p(i) \o <<c>>) = m \o <<c>>
    <3>1. n \in Seq(Letters) /\ p(i) \in Seq(Letters) /\ <<c>> \in Seq(Letters)
      BY <1>0, <2>7, <2>8
    <3> HIDE DEF p, c
    <3> QED
      BY <3>1, Together
  <2>11. m \in Seq(Letters) /\ Reached(m, Lexer(Len(m) + 1, state, from, type, class, quote, val))
    BY <2>5 DEF At
  <2> DEFINE l == Lexer(Len(m) + 1, state, from, type, class, quote, val)
  <2>12. Step(m, l, c) = l
    BY <2>8 DEF Passes
  <2>13. from \in 0..(Len(m) + 2)
    <3>1. IsLexer(l, Len(m) + 1) /\ Len(m) \in Nat
      BY <2>11, ReachedIs
    <3>2. l.from \in 0..(Len(m) + 1)
      BY <3>1 DEF IsLexer
    <3>3. l.from = from
      BY DEF Lexer
    <3> HIDE DEF l, m
    <3> QED
      BY <3>1, <3>2, <3>3
  <2> HIDE DEF m, c
  <2>14. Good(m \o <<c>>)
    BY <2>8, <2>11, <2>12, <2>13, After
  <2> HIDE DEF Good
  <2>15. p(k) = p(i) \o <<c>>
    BY <2>4, <2>6, <2>9, Zenon DEF c
  <2> QED
    BY <2>2, <2>10, <2>14, <2>15, Zenon
<1>2. p(Len(w)) = w
  BY <1>0, WholeIs
<1>3. Good(n \o p(Len(w)))
  <2> HIDE DEF Good
  <2> QED
    BY <1>0, <1>1
<1> QED
  BY <1>2, <1>3, Zenon

-----------------------------------------------------------------------------
(* Keys in quotes.                                                         *)

LEMMA SlashedIs ==
    ASSUME NEW c \in KeyCharacters
    PROVE  /\ Slashed(c) \in Seq(Letters)
           /\ \/ c \notin Quotes \cup {"\\", NullByte} /\ Slashed(c) = <<c>>
              \/ c \in Quotes \cup {"\\"} /\ Slashed(c) = <<"\\", c>>
              \/ c = NullByte /\ Slashed(c) = <<"\\", "0">>
<1>1. c \in Letters /\ "\\" \in Letters /\ "0" \in Letters
  BY DEF Letters
<1>2. \A x, y \in Letters : <<x>> \in Seq(Letters) /\ <<x, y>> \in Seq(Letters)
  OBVIOUS
<1>3. NullByte \notin Quotes \cup {"\\"}
  BY DEF NullByte, Quotes
<1>4. CASE c \in Quotes \cup {"\\"}
  <2>1. c # NullByte
    BY <1>3, <1>4
  <2>2. Slashed(c) = <<"\\", c>>
    BY <1>4, <2>1, Zenon DEF Slashed
  <2> QED
    BY <1>1, <1>2, <1>4, <2>2
<1>5. CASE c = NullByte
  <2>1. c \notin Quotes \cup {"\\"}
    BY <1>3, <1>5
  <2>2. Slashed(c) = <<"\\", "0">>
    BY <1>5, <2>1, Zenon DEF Slashed
  <2> QED
    BY <1>1, <1>2, <1>5, <2>2
<1>6. CASE c \notin Quotes \cup {"\\", NullByte}
  <2>1. c \notin Quotes \cup {"\\"} /\ c # NullByte
    BY <1>6
  <2>2. Slashed(c) = <<c>>
    BY <2>1, Zenon DEF Slashed
  <2> QED
    BY <1>1, <1>2, <1>6, <2>2
<1> QED
  BY <1>4, <1>5, <1>6

SlashedPieces(key) == [i \in DOMAIN key |-> Slashed(key[i])]
SlashedFrom(key, k) == Joined(SlashedPieces(key), << >>)[k]

LEMMA SlashesAre ==
    ASSUME NEW key \in Seq(KeyCharacters)
    PROVE  /\ Len(key) \in Nat /\ \A k \in 1..Len(key) : key[k] \in KeyCharacters
           /\ \A k \in 1..(Len(key) + 1) : SlashedFrom(key, k) \in Seq(Letters)
           /\ \A k \in 1..Len(key) : SlashedFrom(key, k) = Slashed(key[k]) \o SlashedFrom(key, k + 1)
           /\ SlashedFrom(key, Len(key) + 1) = << >>
           /\ AddSlashes(key) = SlashedFrom(key, 1) /\ AddSlashes(key) \in Seq(Letters)
<1>1. Len(key) \in Nat /\ DOMAIN key = 1..Len(key) /\ \A k \in 1..Len(key) : key[k] \in KeyCharacters
  BY LenProperties, ElementOfSeq
<1> DEFINE p == SlashedPieces(key)
<1>2. p = [i \in 1..Len(key) |-> Slashed(key[i])]
  BY <1>1 DEF SlashedPieces
<1>3. \A k \in 1..Len(key) : p[k] = Slashed(key[k]) /\ p[k] \in Seq(Letters)
  BY <1>1, <1>2, SlashedIs
<1> HIDE DEF p
<1>4. Len(p) = Len(key)
  BY <1>1, <1>2
<1>5. << >> \in Seq(Letters)
  OBVIOUS
<1>6. ArePieces(Letters, p, << >>)
  BY <1>1, <1>3, <1>4, <1>5 DEF ArePieces
<1>7. StandTogether(Letters, p, << >>)
  BY <1>6, JoinedIs
<1>8. /\ \A k \in 1..(Len(p) + 1) : SlashedFrom(key, k) \in Seq(Letters)
      /\ \A k \in 1..Len(p) : SlashedFrom(key, k) = p[k] \o SlashedFrom(key, k + 1)
      /\ SlashedFrom(key, Len(p) + 1) = << >>
  BY <1>7 DEF StandTogether, SlashedFrom, p
<1>9. AddSlashes(key) = SlashedFrom(key, 1)
  BY Zenon DEF AddSlashes, SlashedFrom, SlashedPieces
<1>10. 1 \in 1..(Len(key) + 1)
  BY <1>1
<1> QED
  BY <1>1, <1>3, <1>4, <1>8, <1>9, <1>10

LEMMA TwoBehind ==
    ASSUME NEW S, NEW n \in Seq(S), NEW a \in S, NEW b \in S
    PROVE  n \o <<a, b>> = (n \o <<a>>) \o <<b>>
<1> DEFINE x == <<a>>
           y == <<b>>
<1>1. x \in Seq(S) /\ y \in Seq(S) /\ << >> \in Seq(S)
  OBVIOUS
<1>2. <<a, b>> \o << >> = x \o (y \o << >>)
  BY <1>1, PairIs
<1>3. <<a, b>> \o << >> = <<a, b>>
  <2>1. <<a, b>> \in Seq(S)
    OBVIOUS
  <2> QED
    BY <2>1, ConcatEmptySeq
<1>4. y \o << >> = y
  BY <1>1, ConcatEmptySeq
<1> HIDE DEF x, y
<1>5. (n \o x) \o y = n \o (x \o y)
  BY <1>1, Together
<1>6. <<a, b>> = x \o y
  BY <1>2, <1>3, <1>4, Zenon
<1> QED
  BY <1>5, <1>6, Zenon DEF x, y

LEMMA ToIs ==
    \A at, state, from, type, class, quote, val, next :
        To(Lexer(at, state, from, type, class, quote, val), next)
           = Lexer(at, next, from, type, class, quote, val)
BY DEF To, Lexer

LEMMA LexerHas ==
    \A at, state, from, type, class, quote, val :
        /\ Lexer(at, state, from, type, class, quote, val).at = at
        /\ Lexer(at, state, from, type, class, quote, val).state = state
        /\ Lexer(at, state, from, type, class, quote, val).from = from
        /\ Lexer(at, state, from, type, class, quote, val).type = type
        /\ Lexer(at, state, from, type, class, quote, val).class = class
        /\ Lexer(at, state, from, type, class, quote, val).quote = quote
        /\ Lexer(at, state, from, type, class, quote, val).value = val
BY DEF Lexer

\* Where the reader is, and where its keyword starts.
LEMMA AtIs ==
    ASSUME NEW n, NEW state, NEW from, NEW type, NEW class, NEW quote, NEW val,
           At(n, state, from, type, class, quote, val)
    PROVE  n \in Seq(Letters) /\ Len(n) \in Nat /\ from \in 0..(Len(n) + 1) /\ from \in 0..(Len(n) + 2)
           /\ Reached(n, Lexer(Len(n) + 1, state, from, type, class, quote, val))
<1> DEFINE l == Lexer(Len(n) + 1, state, from, type, class, quote, val)
<1>1. n \in Seq(Letters) /\ Reached(n, l)
  BY DEF At
<1>2. l.from = from
  BY DEF Lexer
<1> HIDE DEF l
<1>3. IsLexer(l, Len(n) + 1) /\ Len(n) \in Nat
  BY <1>1, ReachedIs
<1>4. l.from \in 0..(Len(n) + 1)
  BY <1>3 DEF IsLexer
<1>5. from \in 0..(Len(n) + 1)
  BY <1>2, <1>4
<1> QED
  BY <1>1, <1>3, <1>5 DEF l

\* One more character, that changes nothing but the state.
LEMMA Goes ==
    ASSUME NEW n, NEW c \in Letters, NEW state, NEW from, NEW type, NEW class, NEW quote, NEW val,
           At(n, state, from, type, class, quote, val), NEW next,
           LET l == Lexer(Len(n) + 1, state, from, type, class, quote, val)
           IN Step(n, l, c) = To(l, next)
    PROVE  At(n \o <<c>>, next, from, type, class, quote, val) /\ Len(n \o <<c>>) = Len(n) + 1
<1> DEFINE l == Lexer(Len(n) + 1, state, from, type, class, quote, val)
<1>1. n \in Seq(Letters) /\ Len(n) \in Nat /\ from \in 0..(Len(n) + 2) /\ Reached(n, l)
  BY AtIs
<1>2. To(l, next) = Lexer(Len(n) + 1, next, from, type, class, quote, val)
  BY ToIs
<1>3. Step(n, l, c) = Lexer(Len(n) + 1, next, from, type, class, quote, val)
  BY <1>2, Zenon
<1> HIDE DEF l
<1> QED
  BY <1>1, <1>3, After

Backslashed == "\\"
QuoteMark == "\""

LEMMA PieceIsRead ==
    ASSUME NEW n, NEW c \in KeyCharacters, NEW state \in {4, 12}, NEW from, NEW type, NEW class, NEW val,
           At(n, state, from, type, class, QuoteMark, val)
    PROVE  At(n \o Slashed(c), state, from, type, class, QuoteMark, val)
<1> DEFINE Good(m) == At(m, state, from, type, class, QuoteMark, val)
           l == Lexer(Len(n) + 1, state, from, type, class, QuoteMark, val)
           next == IF state = 4 THEN 10 ELSE 13
<1>1. n \in Seq(Letters)
  BY DEF At
<1>2. l.state = state /\ l.quote = QuoteMark
  BY LexerHas
<1>3. Backslashed \in Letters /\ "0" \in Letters /\ c \in Letters
  BY DEF Letters, Backslashed
<1>4. (state = 4 /\ next = 10) \/ (state = 12 /\ next = 13)
  <2>1. CASE state = 4
    BY <2>1, Zenon
  <2>2. CASE state = 12
    <3>1. 12 # 4
      OBVIOUS
    <3> QED
      BY <2>2, <3>1, Zenon
  <2> QED
    BY <2>1, <2>2
<1>5. /\ Step(n, l, Backslashed) = To(l, next)
      /\ c \notin {QuoteMark, Backslashed} => Step(n, l, c) = l
  <2> HIDE DEF l, next
  <2>1. /\ l.state = 4 => Step(n, l, Backslashed) = To(l, 10)
        /\ l.state = 12 => Step(n, l, Backslashed) = To(l, 13)
        /\ l.state \in {4, 12} /\ c \notin {QuoteMark, Backslashed} => Step(n, l, c) = l
    <3>1. l.quote = "\""
      BY <1>2 DEF QuoteMark
    <3>2. /\ l.state = 4 => Step(n, l, "\\") = To(l, 10)
          /\ l.state = 12 => Step(n, l, "\\") = To(l, 13)
          /\ l.state \in {4, 12} /\ c \notin {"\"", "\\"} => Step(n, l, c) = l
      BY <3>1, QuotedMovesAre, ZenonT(30)
    <3> QED
      BY <3>2, Zenon DEF QuoteMark, Backslashed
  <2>2. l.state \in {4, 12}
    BY <1>2
  <2> QED
    BY <1>2, <1>4, <2>1, <2>2
<1>6. To(l, state) = l
  BY ToIs
<1> HIDE DEF next
<1>7. ASSUME NEW d \in Letters PROVE Good(n \o <<Backslashed, d>>)
  <2> DEFINE m == n \o <<Backslashed>>
  <2>1. At(m, next, from, type, class, QuoteMark, val) /\ Len(m) = Len(n) + 1
    BY <1>3, <1>5, Goes
  <2> DEFINE j == Lexer(Len(m) + 1, next, from, type, class, QuoteMark, val)
  <2>2. j.state = next
    BY LexerHas
  <2>3. Step(m, j, d) = To(j, state)
    <3> HIDE DEF j
    <3>1. j.state = 10 => Step(m, j, d) = To(j, 4)
      BY EscapedMoves
    <3>2. j.state = 13 => Step(m, j, d) = To(j, 12)
      BY EscapedMoves
    <3> QED
      BY <1>4, <2>2, <3>1, <3>2
  <2> HIDE DEF m
  <2>4. Good(m \o <<d>>)
    BY <2>1, <2>3, Goes
  <2>5. n \o <<Backslashed, d>> = m \o <<d>>
    BY <1>1, <1>3, TwoBehind DEF m
  <2> QED
    BY <2>4, <2>5, Zenon
<1>8. CASE c \notin {QuoteMark, Backslashed} /\ Slashed(c) = <<c>>
  <2>1. Step(n, l, c) = To(l, state)
    BY <1>5, <1>6, <1>8
  <2>2. Good(n \o <<c>>)
    BY <1>3, <2>1, Goes
  <2> QED
    BY <1>8, <2>2, Zenon
<1>9. CASE Slashed(c) = <<Backslashed, c>> \/ Slashed(c) = <<Backslashed, "0">>
  <2>1. Good(n \o <<Backslashed, c>>) /\ Good(n \o <<Backslashed, "0">>)
    BY <1>3, <1>7
  <2> QED
    BY <1>9, <2>1, Zenon
<1>10. c \notin Quotes \cup {Backslashed, NullByte} => c \notin {QuoteMark, Backslashed}
  BY DEF Quotes, QuoteMark
<1> QED
  BY <1>8, <1>9, <1>10, SlashedIs DEF Backslashed

LEMMA QuotedIsRead ==
    ASSUME NEW n, NEW key \in Seq(KeyCharacters), NEW state \in {4, 12},
           NEW from, NEW type, NEW class, NEW val, At(n, state, from, type, class, QuoteMark, val)
    PROVE  At(n \o AddSlashes(key), state, from, type, class, QuoteMark, val)
<1> DEFINE Good(m) == At(m, state, from, type, class, QuoteMark, val)
           J(k) == SlashedFrom(key, k)
           Upto(k) == \E a \in Seq(Letters) : J(1) = a \o J(k + 1) /\ Good(n \o a)
           T == {k \in Nat : k <= Len(key) /\ ~Upto(k)}
<1>0. n \in Seq(Letters)
  BY DEF At
<1>1. /\ Len(key) \in Nat /\ \A k \in 1..Len(key) : key[k] \in KeyCharacters
      /\ \A k \in 1..(Len(key) + 1) : J(k) \in Seq(Letters)
      /\ \A k \in 1..Len(key) : J(k) = Slashed(key[k]) \o J(k + 1)
      /\ J(Len(key) + 1) = << >>
      /\ AddSlashes(key) = J(1)
  BY SlashesAre
<1>2. \A m : \A c \in KeyCharacters : Good(m) => Good(m \o Slashed(c))
  BY PieceIsRead
<1> HIDE DEF Good, J
<1>7. \A x, y, z \in Seq(Letters) : (x \o y) \o z = x \o (y \o z)
  BY Together
<1>3. Upto(0)
  <2>0. 1 \in 1..(Len(key) + 1)
    BY <1>1
  <2>1. << >> \in Seq(Letters) /\ J(1) \in Seq(Letters)
    BY <1>1, <2>0
  <2>2. << >> \o J(1) = J(1) /\ n \o << >> = n
    BY <1>0, <2>1, ConcatEmptySeq
  <2>3. Good(n)
    BY DEF Good
  <2>4. 0 + 1 = 1
    OBVIOUS
  <2>5. J(1) = << >> \o J(0 + 1) /\ Good(n \o << >>)
    BY <2>2, <2>3, <2>4, Zenon
  <2> QED
    BY <2>1, <2>5
<1>4. T = {}
  <2> SUFFICES ASSUME T # {} PROVE FALSE
    OBVIOUS
  <2>1. PICK k \in T : \A x \in T : k <= x
    <3> HIDE DEF Upto
    <3> QED
      BY Smallest
  <2>2. k \in Nat /\ k <= Len(key) /\ ~Upto(k)
    BY <2>1
  <2>3. k # 0
    <3> HIDE DEF Upto
    <3> QED
      BY <1>3, <2>2
  <2>4. k - 1 \in Nat /\ k - 1 <= Len(key) /\ ~(k <= k - 1) /\ k \in 1..Len(key)
        /\ k - 1 + 1 = k /\ k + 1 \in 1..(Len(key) + 1)
    <3>1. Len(key) \in Nat /\ k \in Nat /\ k <= Len(key) /\ k # 0
      BY <1>1, <2>2, <2>3
    <3> QED
      BY <3>1
  <2>5. Upto(k - 1)
    <3> HIDE DEF Upto
    <3> QED
      BY <2>1, <2>4
  <2>6. PICK a \in Seq(Letters) : J(1) = a \o J(k) /\ Good(n \o a)
    BY <2>4, <2>5
  <2> DEFINE s == Slashed(key[k])
  <2>7. s \in Seq(Letters) /\ J(k) = s \o J(k + 1) /\ Good((n \o a) \o s) /\ J(k + 1) \in Seq(Letters)
    BY <1>1, <1>2, <2>4, <2>6, SlashedIs
  <2> HIDE DEF s
  <2>8. a \o s \in Seq(Letters) /\ (n \o a) \o s = n \o (a \o s) /\ a \o (s \o J(k + 1)) = (a \o s) \o J(k + 1)
    <3>1. n \in Seq(Letters) /\ a \in Seq(Letters) /\ s \in Seq(Letters) /\ J(k + 1) \in Seq(Letters)
      BY <1>0, <2>7
    <3>2. a \o s \in Seq(Letters)
      BY <3>1, Behind
    <3>3. (n \o a) \o s = n \o (a \o s)
      BY <1>7, <3>1
    <3>4. (a \o s) \o J(k + 1) = a \o (s \o J(k + 1))
      BY <1>7, <3>1
    <3> QED
      BY <3>2, <3>3, <3>4
  <2>9. J(1) = (a \o s) \o J(k + 1) /\ Good(n \o (a \o s))
    BY <2>6, <2>7, <2>8, Zenon
  <2> QED
    BY <2>2, <2>8, <2>9
<1>5. Upto(Len(key))
  <2>1. Len(key) \in Nat /\ Len(key) <= Len(key)
    BY <1>1
  <2> HIDE DEF Upto
  <2> QED
    BY <1>4, <2>1
<1>6. PICK a \in Seq(Letters) : J(1) = a \o J(Len(key) + 1) /\ Good(n \o a)
  BY <1>5
<1>8. a \o << >> = a
  BY ConcatEmptySeq
<1> QED
  BY <1>1, <1>6, <1>8, Zenon DEF Good

-----------------------------------------------------------------------------
(* Keywords.                                                               *)

\* The reader is behind a name, and has found this value.
Found(n, v) ==
    \E from, type, class, quote, val :
        /\ At(n, 1, from, type, class, quote, val)
        /\ Settled(Lexer(Len(n) + 1, 1, from, type, class, quote, val), n, v)

LEMMA LettersTogether == \A x, y, z \in Seq(Letters) : (x \o y) \o z = x \o (y \o z)
BY Together

LEMMA BehindIs ==
    ASSUME NEW S, NEW n \in Seq(S), NEW w \in Seq(S)
    PROVE  SubSeq(n \o w, Len(n) + 1, Len(n \o w)) = w
<1> DEFINE m == n \o w
           a == SubSeq(m, Len(n) + 1, Len(m))
<1>1. /\ m \in Seq(S) /\ Len(n) \in Nat /\ Len(w) \in Nat /\ Len(m) = Len(n) + Len(w)
      /\ \A i \in 1..Len(w) : m[Len(n) + i] = w[i]
  BY ConcatIs
<1> HIDE DEF m
<1>2. \A i \in (Len(n) + 1)..Len(m) : m[i] \in S
  <2>1. \A i \in 1..Len(m) : m[i] \in S
    BY <1>1, ElementOfSeq
  <2> QED
    BY <1>1, <2>1
<1>3. /\ a \in Seq(S) /\ Len(a) = IF Len(n) + 1 <= Len(m) THEN Len(m) - (Len(n) + 1) + 1 ELSE 0
      /\ \A i \in 1..(Len(m) - (Len(n) + 1) + 1) : a[i] = m[Len(n) + 1 + i - 1]
  BY <1>1, <1>2, SubSeqProperties
<1> HIDE DEF a
<1>4. Len(a) = Len(w) /\ \A i \in 1..Len(a) : a[i] = w[i]
  <2>1. Len(a) = Len(w) /\ Len(m) - (Len(n) + 1) + 1 = Len(w)
    BY <1>1, <1>3
  <2>2. \A i \in 1..Len(w) : Len(n) + 1 + i - 1 = Len(n) + i
    BY <1>1
  <2> QED
    BY <1>1, <1>3, <2>1, <2>2
<1>5. a = w
  BY <1>3, <1>4, SeqEqual
<1> QED
  BY <1>5 DEF a, m

\* The keyword that was read is fetched.
LEMMA SettledIs ==
    ASSUME NEW p \in Seq(Letters), NEW w \in Seq(Letters), NEW state, NEW type, NEW class, NEW quote,
           NEW val, NEW v,
           LET l == Lexer(Len(p \o w) + 1, state, Len(p) + 1, type, class, quote, val)
           IN Fetch(l, w) = v
    PROVE  Settled(Lexer(Len(p \o w) + 1, state, Len(p) + 1, type, class, quote, val), p \o w, v)
<1> DEFINE n == p \o w
           l == Lexer(Len(n) + 1, state, Len(p) + 1, type, class, quote, val)
<1>1. SubSeq(n, Len(p) + 1, Len(n)) = w
  BY BehindIs
<1>2. l.from = Len(p) + 1 /\ l.at = Len(n) + 1
  BY LexerHas
<1>3. Len(p) + 1 # 0 /\ Len(n) + 1 - 1 = Len(n)
  BY ConcatProperties, LenProperties
<1>4. Fetch(l, w) = v
  OBVIOUS
<1> HIDE DEF l, n
<1>5. l.from # 0
  BY <1>2, <1>3
<1>6. SubSeq(n, l.from, l.at - 1) = w
  BY <1>1, <1>2, <1>3
<1>7. Settled(l, n, v)
  BY <1>4, <1>5, <1>6, Zenon DEF Settled
<1> QED
  BY <1>7 DEF l, n

\* A word, whose first character starts a keyword or follows it.
LEMMA WordBegins ==
    ASSUME NEW n \in Seq(Letters), NEW w \in Seq(Letters), w # << >>, NEW l, Reached(n, l),
           NEW state, NEW from \in 0..(Len(n) + 2), NEW type, NEW class, NEW quote, NEW val,
           Step(n, l, w[1]) = Lexer(Len(n) + 1, state, from, type, class, quote, val),
           \A i \in 2..Len(w) : Passes(state, from, type, class, quote, val, w[i])
    PROVE  At(n \o w, state, from, type, class, quote, val)
<1> DEFINE c == w[1]
           t == Tail(w)
           m == n \o <<c>>
<1>1. /\ c \in Letters /\ t \in Seq(Letters) /\ Len(t) = Len(w) - 1 /\ Len(w) \in Nat
      /\ \A i \in 1..Len(t) : t[i] = w[i + 1]
      /\ w = <<c>> \o t
  <2>1. /\ Head(w) \in Letters /\ t \in Seq(Letters) /\ Len(t) = Len(w) - 1 /\ Len(w) \in Nat
        /\ \A i \in 1..Len(t) : t[i] = w[i + 1]
    BY HeadTailProperties, LenProperties
  <2>2. Head(w) = c
    OBVIOUS
  <2>3. w = <<Head(w)>> \o t
    BY HeadTailProperties DEF Cons
  <2> QED
    BY <2>1, <2>2, <2>3
<1> HIDE DEF c, t
<1>2. At(m, state, from, type, class, quote, val)
  <2>1. Step(n, l, c) = Lexer(Len(n) + 1, state, from, type, class, quote, val)
    BY DEF c
  <2> QED
    BY <1>1, <2>1, After
<1>3. \A i \in 1..Len(t) : Passes(state, from, type, class, quote, val, t[i])
  <2>1. \A i \in 1..Len(t) : i + 1 \in 2..Len(w)
    BY <1>1
  <2> QED
    BY <1>1, <2>1
<1> HIDE DEF m
<1>4. At(m \o t, state, from, type, class, quote, val)
  BY <1>1, <1>2, <1>3, WordIsRead
<1>5. m \o t = n \o w
  <2> DEFINE x == <<c>>
  <2>1. x \in Seq(Letters) /\ n \in Seq(Letters) /\ t \in Seq(Letters)
    BY <1>1
  <2> HIDE DEF x
  <2>2. (n \o x) \o t = n \o (x \o t)
    BY <2>1, LettersTogether
  <2> QED
    BY <1>1, <2>2, Zenon DEF m, x
<1> QED
  BY <1>4, <1>5, Zenon

\* In the state 1, all but three characters are part of the keyword.
LEMMA NameGoesOn ==
    ASSUME NEW from, NEW type, NEW class, NEW quote, NEW val, NEW c, c \notin {"[", "-", ":"}
    PROVE  Passes(1, from, type, class, quote, val, c)
<1>1. ASSUME NEW n, NEW at
      PROVE  LET l == Lexer(at, 1, from, type, class, quote, val) IN Step(n, l, c) = l
  <2> DEFINE l == Lexer(at, 1, from, type, class, quote, val)
  <2>1. l.state = 1
    BY LexerHas
  <2> HIDE DEF l
  <2>2. Step(n, l, c) = l
    BY <2>1, PlainMoves
  <2> QED
    BY <2>2 DEF l
<1> QED
  BY <1>1 DEF Passes

LEMMA NumberGoesOn ==
    ASSUME NEW from, NEW type, NEW class, NEW quote, NEW val, NEW c \in Digits
    PROVE  Passes(6, from, type, class, quote, val, c)
<1>1. ASSUME NEW n, NEW at
      PROVE  LET l == Lexer(at, 6, from, type, class, quote, val) IN Step(n, l, c) = l
  <2> DEFINE l == Lexer(at, 6, from, type, class, quote, val)
  <2>1. l.state = 6
    BY LexerHas
  <2> HIDE DEF l
  <2>2. Step(n, l, c) = l
    BY <2>1, PlainMoves
  <2> QED
    BY <2>2 DEF l
<1> QED
  BY <1>1 DEF Passes

-----------------------------------------------------------------------------
(* The characters between the keywords.                                    *)

\* The changes to a lexer that have no name in the model.
Turned(l, state, type)  == [l EXCEPT !.state = state, !.type = type]
Started(l, from, state) == [l EXCEPT !.from = from, !.state = state]
Rooted(l, state, from, type, class) ==
    [l EXCEPT !.state = state, !.from = from, !.type = type, !.class = class]
Marked(l) == [l EXCEPT !.from = l.at + 1]

LEMMA OpeningMoves ==
    ASSUME NEW n, NEW l, l.state = 1
    PROVE  /\ Step(n, l, "[") = To(Fetched(n, l, FALSE), 3)
           /\ Step(n, l, "-") = Turned(Fetched(n, l, TRUE), 2, "property")
           /\ Step(n, l, ":") = Turned(Fetched(n, l, TRUE), 8, "static")
<1>1. \A c : Step(n, l, c) = Name(n, l, c)
  BY DEF Step
<1>2. "[" # "-" /\ "[" # ":" /\ "-" # ":"
  OBVIOUS
<1>3. Name(n, l, "[") = To(Fetched(n, l, FALSE), 3)
  BY <1>2, Zenon DEF Name
<1>4. Name(n, l, "-") = Turned(Fetched(n, l, TRUE), 2, "property")
  BY <1>2, Zenon DEF Name, Turned
<1>5. Name(n, l, ":") = Turned(Fetched(n, l, TRUE), 8, "static")
  BY <1>2, Zenon DEF Name, Turned
<1> QED
  BY <1>1, <1>3, <1>4, <1>5, Zenon

LEMMA FirstMoves ==
    ASSUME NEW n, NEW l, NEW c
    PROVE  /\ l.state = 2 /\ c \notin {">", "{"} => Step(n, l, c) = Begin(l, 1, l.type)
           /\ l.state = 8 /\ c # ":" => Step(n, l, c) = Begin(l, 1, l.type)
           /\ l.state = 0 /\ c \notin {"$", ":", "[", "-"} =>
                 Step(n, l, c) = Started(l, l.at, 1)
<1>1. l.state = 2 => Step(n, l, c) = (CASE c = ">" -> l
                                        [] c = "{" -> To(l, 11)
                                        [] OTHER -> Begin(l, 1, l.type))
  BY DEF Step
<1>2. c \notin {">", "{"} => c # ">" /\ c # "{"
  OBVIOUS
<1>3. l.state = 2 /\ c \notin {">", "{"} => Step(n, l, c) = Begin(l, 1, l.type)
  BY <1>1, <1>2, Zenon
<1>4. l.state = 8 => Step(n, l, c) = IF c = ":" THEN l ELSE Begin(l, 1, l.type)
  BY DEF Step
<1>5. l.state = 8 /\ c # ":" => Step(n, l, c) = Begin(l, 1, l.type)
  BY <1>4, Zenon
<1> DEFINE m == [l EXCEPT !.from = l.at, !.state = 1]
<1>6. l.state = 0 => Step(n, l, c) = (CASE c = "$" -> [l EXCEPT !.from = l.at + 1]
                                        [] c = ":" -> [l EXCEPT !.from = l.at, !.state = 7]
                                        [] OTHER -> Name(n, m, c))
  BY DEF Step
<1> HIDE DEF m
<1>7. c \notin {"$", ":", "[", "-"} => c # "$" /\ c # ":" /\ c # "[" /\ c # "-"
  OBVIOUS
<1>8. c # "[" /\ c # "-" /\ c # ":" => Name(n, m, c) = m
  BY Zenon DEF Name
<1>9. l.state = 0 /\ c \notin {"$", ":", "[", "-"} => Step(n, l, c) = m
  BY <1>6, <1>7, <1>8, Zenon
<1> QED
  BY <1>3, <1>5, <1>9, Zenon DEF m, Started

LEMMA RootMoves ==
    ASSUME NEW n, NEW l
    PROVE  /\ l.state = 0 => Step(n, l, "$") = Marked(l)
           /\ l.state = 0 => Step(n, l, ":") = Started(l, l.at, 7)
           /\ l.state = 7 /\ tree.class # "" /\ tree.scope.class # "" =>
                 Step(n, l, ":") = Rooted(l, 1, l.at + 1, "static root", tree.scope.class)
<1>1. "$" # ":"
  OBVIOUS
<1>2. \A c : l.state = 0 => Step(n, l, c) = (CASE c = "$" -> [l EXCEPT !.from = l.at + 1]
                                        [] c = ":" -> [l EXCEPT !.from = l.at, !.state = 7]
                                        [] OTHER -> Name(n, [l EXCEPT !.from = l.at, !.state = 1], c))
  BY DEF Step
<1>3. l.state = 0 => Step(n, l, "$") = Marked(l)
  BY <1>1, <1>2, Zenon DEF Marked
<1>4. l.state = 0 => Step(n, l, ":") = Started(l, l.at, 7)
  BY <1>1, <1>2, Zenon DEF Started
<1>5. l.state = 7 => Step(n, l, ":") =
         IF ":" # ":" THEN l
         ELSE IF tree.class = "" THEN [l EXCEPT !.state = 1, !.from = 0]
         ELSE IF tree.scope.class = "" THEN To(l, NoScope)
         ELSE [l EXCEPT !.state = 1, !.from = l.at + 1, !.type = "static root",
                        !.class = tree.scope.class]
  BY DEF Step
<1>6. l.state = 7 /\ tree.class # "" /\ tree.scope.class # "" =>
         Step(n, l, ":") = Rooted(l, 1, l.at + 1, "static root", tree.scope.class)
  BY <1>5, Zenon DEF Rooted
<1> QED
  BY <1>3, <1>4, <1>6, Zenon

LEMMA KeyMoves ==
    ASSUME NEW n, NEW l, NEW c
    PROVE  /\ l.state = 3 /\ c \in Digits => Step(n, l, c) = Begin(l, 6, "number")
           /\ l.state = 3 => Step(n, l, "-") = Begin(l, 9, l.type)
           /\ l.state = 3 => Step(n, l, QuoteMark) = OpenQuote(l, QuoteMark, 4, "assoc")
           /\ l.state = 11 => Step(n, l, QuoteMark) = OpenQuote(l, QuoteMark, 12, "escaped")
           /\ l.state = 9 /\ c \in Digits => Step(n, l, c) = Turned(l, 6, "number")
           /\ l.state = 6 => Step(n, l, "]") = To(Fetched(n, l, TRUE), 1)
<1>1. \A d : l.state = 3 => Step(n, l, d) = (CASE d \in Digits -> Begin(l, 6, "number")
                                               [] d = "-" -> Begin(l, 9, l.type)
                                               [] OTHER -> OpenQuote(l, d, 4, "assoc"))
  BY DEF Step
<1>2. "-" \notin Digits /\ QuoteMark \notin Digits /\ QuoteMark # "-"
  BY DEF Digits, QuoteMark
<1>3. c \in Digits => c # "-"
  BY <1>2
<1>4. l.state = 3 /\ c \in Digits => Step(n, l, c) = Begin(l, 6, "number")
  BY <1>1, <1>3, Zenon
<1>5. l.state = 3 => Step(n, l, "-") = Begin(l, 9, l.type)
  BY <1>1, <1>2, Zenon
<1>6. l.state = 3 => Step(n, l, QuoteMark) = OpenQuote(l, QuoteMark, 4, "assoc")
  BY <1>1, <1>2, Zenon
<1>7. \A d : l.state = 11 => Step(n, l, d) = OpenQuote(l, d, 12, "escaped")
  BY DEF Step
<1>8. l.state = 9 => Step(n, l, c) = IF c \in Digits THEN [l EXCEPT !.state = 6, !.type = "number"] ELSE l
  BY DEF Step
<1>9. l.state = 9 /\ c \in Digits => Step(n, l, c) = Turned(l, 6, "number")
  BY <1>8, Zenon DEF Turned
<1>10. \A d : l.state = 6 => Step(n, l, d) = IF d = "]" THEN To(Fetched(n, l, TRUE), 1) ELSE l
  BY DEF Step
<1>11. l.state = 6 => Step(n, l, "]") = To(Fetched(n, l, TRUE), 1)
  BY <1>10, Zenon
<1> QED
  BY <1>4, <1>5, <1>6, <1>7, <1>9, <1>11, Zenon

LEMMA BegunIs ==
    ASSUME NEW at, NEW state, NEW from, NEW type, NEW class, NEW quote, NEW val, NEW s, NEW t
    PROVE  Begin(Lexer(at, state, from, type, class, quote, val), s, t)
              = Lexer(at, s, at, t, class, quote, val)
<1> DEFINE l == Lexer(at, state, from, type, class, quote, val)
<1>1. l.at = at
  BY LexerHas
<1>2. [l EXCEPT !.state = s] = Lexer(at, s, from, type, class, quote, val)
  BY LexerExcepts
<1>3. [Lexer(at, s, from, type, class, quote, val) EXCEPT !.type = t]
         = Lexer(at, s, from, t, class, quote, val)
  BY LexerExcepts
<1>4. [Lexer(at, s, from, t, class, quote, val) EXCEPT !.from = at]
         = Lexer(at, s, at, t, class, quote, val)
  BY LexerExcepts
<1>5. \A m : [m EXCEPT !.state = s, !.type = t, !.from = at]
                = [[[m EXCEPT !.state = s] EXCEPT !.type = t] EXCEPT !.from = at]
  OBVIOUS
<1> HIDE DEF l
<1>6. Begin(l, s, t) = Lexer(at, s, at, t, class, quote, val)
  BY <1>1, <1>2, <1>3, <1>4, <1>5, Zenon DEF Begin
<1> QED
  BY <1>6 DEF l

LEMMA OpenedIs ==
    ASSUME NEW at, NEW state, NEW from, NEW type, NEW class, NEW quote, NEW val, NEW s, NEW t
    PROVE  OpenQuote(Lexer(at, state, from, type, class, quote, val), QuoteMark, s, t)
              = Lexer(at, s, at + 1, t, class, QuoteMark, val)
<1> DEFINE l == Lexer(at, state, from, type, class, quote, val)
<1>1. QuoteMark \in Quotes
  BY DEF QuoteMark, Quotes
<1>2. Begin(l, s, t) = Lexer(at, s, at, t, class, quote, val)
  BY BegunIs
<1>3. l.at = at
  BY LexerHas
<1>4. [Lexer(at, s, at, t, class, quote, val) EXCEPT !.from = at + 1]
         = Lexer(at, s, at + 1, t, class, quote, val)
  BY LexerExcepts
<1>5. [Lexer(at, s, at + 1, t, class, quote, val) EXCEPT !.quote = QuoteMark]
         = Lexer(at, s, at + 1, t, class, QuoteMark, val)
  BY LexerExcepts
<1>6. \A m : [m EXCEPT !.from = at + 1, !.quote = QuoteMark]
                = [[m EXCEPT !.from = at + 1] EXCEPT !.quote = QuoteMark]
  OBVIOUS
<1> HIDE DEF l
<1>7. OpenQuote(l, QuoteMark, s, t) = Lexer(at, s, at + 1, t, class, QuoteMark, val)
  BY <1>1, <1>2, <1>3, <1>4, <1>5, <1>6, Zenon DEF OpenQuote
<1> QED
  BY <1>7 DEF l

LEMMA TurnedIs ==
    ASSUME NEW at, NEW state, NEW from, NEW type, NEW class, NEW quote, NEW val, NEW s, NEW t
    PROVE  Turned(Lexer(at, state, from, type, class, quote, val), s, t)
              = Lexer(at, s, from, t, class, quote, val)
<1>1. [Lexer(at, state, from, type, class, quote, val) EXCEPT !.state = s]
         = Lexer(at, s, from, type, class, quote, val)
  BY LexerExcepts
<1>2. [Lexer(at, s, from, type, class, quote, val) EXCEPT !.type = t]
         = Lexer(at, s, from, t, class, quote, val)
  BY LexerExcepts
<1>3. \A m : [m EXCEPT !.state = s, !.type = t] = [[m EXCEPT !.state = s] EXCEPT !.type = t]
  OBVIOUS
<1> QED
  BY <1>1, <1>2, <1>3, Zenon DEF Turned

LEMMA StartedIs ==
    ASSUME NEW at, NEW state, NEW from, NEW type, NEW class, NEW quote, NEW val, NEW f, NEW s
    PROVE  Started(Lexer(at, state, from, type, class, quote, val), f, s)
              = Lexer(at, s, f, type, class, quote, val)
<1>1. [Lexer(at, state, from, type, class, quote, val) EXCEPT !.from = f]
         = Lexer(at, state, f, type, class, quote, val)
  BY LexerExcepts
<1>2. [Lexer(at, state, f, type, class, quote, val) EXCEPT !.state = s]
         = Lexer(at, s, f, type, class, quote, val)
  BY LexerExcepts
<1>3. \A m : [m EXCEPT !.from = f, !.state = s] = [[m EXCEPT !.from = f] EXCEPT !.state = s]
  OBVIOUS
<1> QED
  BY <1>1, <1>2, <1>3, Zenon DEF Started

LEMMA RootedIs ==
    ASSUME NEW at, NEW state, NEW from, NEW type, NEW class, NEW quote, NEW val,
           NEW s, NEW f, NEW t, NEW c
    PROVE  Rooted(Lexer(at, state, from, type, class, quote, val), s, f, t, c)
              = Lexer(at, s, f, t, c, quote, val)
<1>1. [Lexer(at, state, from, type, class, quote, val) EXCEPT !.state = s]
         = Lexer(at, s, from, type, class, quote, val)
  BY LexerExcepts
<1>2. [Lexer(at, s, from, type, class, quote, val) EXCEPT !.from = f]
         = Lexer(at, s, f, type, class, quote, val)
  BY LexerExcepts
<1>3. [Lexer(at, s, f, type, class, quote, val) EXCEPT !.type = t]
         = Lexer(at, s, f, t, class, quote, val)
  BY LexerExcepts
<1>4. [Lexer(at, s, f, t, class, quote, val) EXCEPT !.class = c]
         = Lexer(at, s, f, t, c, quote, val)
  BY LexerExcepts
<1>5. \A m : [m EXCEPT !.state = s, !.from = f, !.type = t, !.class = c]
         = [[[[m EXCEPT !.state = s] EXCEPT !.from = f] EXCEPT !.type = t] EXCEPT !.class = c]
  OBVIOUS
<1> QED
  BY <1>1, <1>2, <1>3, <1>4, <1>5, Zenon DEF Rooted

LEMMA MarkedIs ==
    ASSUME NEW at, NEW state, NEW from, NEW type, NEW class, NEW quote, NEW val
    PROVE  Marked(Lexer(at, state, from, type, class, quote, val))
              = Lexer(at, state, at + 1, type, class, quote, val)
<1> DEFINE l == Lexer(at, state, from, type, class, quote, val)
<1>1. l.at = at
  BY LexerHas
<1>2. [l EXCEPT !.from = at + 1] = Lexer(at, state, at + 1, type, class, quote, val)
  BY LexerExcepts
<1> HIDE DEF l
<1>3. Marked(l) = Lexer(at, state, at + 1, type, class, quote, val)
  BY <1>1, <1>2, Zenon DEF Marked
<1> QED
  BY <1>3 DEF l

LEMMA FoundIs ==
    ASSUME NEW n, NEW type, NEW quote, NEW v, At(n, 1, 0, type, ClassOf(v), quote, v)
    PROVE  Found(n, v)
<1> DEFINE l == Lexer(Len(n) + 1, 1, 0, type, ClassOf(v), quote, v)
<1>1. l.from = 0 /\ l.value = v /\ l.class = ClassOf(v)
  BY LexerHas
<1> HIDE DEF l
<1>2. Settled(l, n, v)
  BY <1>1, Zenon DEF Settled
<1> QED
  BY <1>2 DEF Found, l

\* One more character that only changes these.
LEMMA Leads ==
    ASSUME NEW n, NEW c \in Letters, NEW state, NEW from, NEW type, NEW class, NEW quote, NEW val,
           At(n, state, from, type, class, quote, val),
           NEW s, NEW f \in 0..(Len(n) + 2), NEW t, NEW k, NEW q, NEW v,
           Step(n, Lexer(Len(n) + 1, state, from, type, class, quote, val), c)
              = Lexer(Len(n) + 1, s, f, t, k, q, v)
    PROVE  At(n \o <<c>>, s, f, t, k, q, v) /\ Len(n \o <<c>>) = Len(n) + 1
<1> DEFINE l == Lexer(Len(n) + 1, state, from, type, class, quote, val)
<1>1. n \in Seq(Letters) /\ Reached(n, l)
  BY AtIs
<1>2. Step(n, l, c) = Lexer(Len(n) + 1, s, f, t, k, q, v)
  OBVIOUS
<1> HIDE DEF l
<1> QED
  BY <1>1, <1>2, After

\* Fetched(), for those who keep the class, and for all when there is none.
Fetches(n, l, m, v) ==
    Fetched(n, l, TRUE) = m /\ (ClassOf(v) = "" => Fetched(n, l, FALSE) = m)

LEMMA FetchesAre ==
    \A n, at, state, from, type, class, quote, val, v :
        Settled(Lexer(at, state, from, type, class, quote, val), n, v) =>
            Fetches(n, Lexer(at, state, from, type, class, quote, val),
                       Lexer(at, state, 0, type, ClassOf(v), quote, v), v)
BY FetchedIs DEF Fetches

\* The character behind a keyword.
LEMMA Closes ==
    ASSUME NEW n, NEW c \in Letters, NEW state, NEW from, NEW type, NEW class, NEW quote, NEW val, NEW v,
           NEW next, At(n, state, from, type, class, quote, val),
           Settled(Lexer(Len(n) + 1, state, from, type, class, quote, val), n, v),
           LET l == Lexer(Len(n) + 1, state, from, type, class, quote, val)
           IN Step(n, l, c) = To(Fetched(n, l, TRUE), next)
    PROVE  At(n \o <<c>>, next, 0, type, ClassOf(v), quote, v)
<1> DEFINE l == Lexer(Len(n) + 1, state, from, type, class, quote, val)
           m == Lexer(Len(n) + 1, state, 0, type, ClassOf(v), quote, v)
           k == Lexer(Len(n) + 1, next, 0, type, ClassOf(v), quote, v)
<1>1. Fetched(n, l, TRUE) = m
  <2>1. Fetches(n, l, m, v)
    BY FetchesAre
  <2> QED
    BY <2>1, Zenon DEF Fetches
<1>2. To(m, next) = k
  BY ToIs
<1>3. Step(n, l, c) = k
  BY <1>1, <1>2, Zenon
<1>4. 0 \in 0..(Len(n) + 2)
  BY AtIs
<1> QED
  BY <1>3, <1>4, Leads

LEMMA Opened ==
    ASSUME NEW n, NEW v, Found(n, v)
    PROVE  /\ n \in Seq(Letters)
           /\ ClassOf(v) = "" => \E type, quote : At(n \o <<"[">>, 3, 0, type, "", quote, v)
           /\ \E quote : At(n \o <<"-">>, 2, 0, "property", ClassOf(v), quote, v)
           /\ \E quote : At(n \o <<":">>, 8, 0, "static", ClassOf(v), quote, v)
<1>1. PICK from, type, class, quote, val :
         /\ At(n, 1, from, type, class, quote, val)
         /\ Settled(Lexer(Len(n) + 1, 1, from, type, class, quote, val), n, v)
  BY DEF Found
<1> DEFINE l == Lexer(Len(n) + 1, 1, from, type, class, quote, val)
           m == Lexer(Len(n) + 1, 1, 0, type, ClassOf(v), quote, v)
<1>2. /\ Fetched(n, l, TRUE) = m
      /\ ClassOf(v) = "" => Fetched(n, l, FALSE) = m
  <2>1. Fetches(n, l, m, v)
    BY <1>1, FetchesAre
  <2> QED
    BY <2>1, Zenon DEF Fetches
<1>3. l.state = 1
  BY LexerHas
<1>4. /\ Step(n, l, "[") = To(Fetched(n, l, FALSE), 3)
      /\ Step(n, l, "-") = Turned(Fetched(n, l, TRUE), 2, "property")
      /\ Step(n, l, ":") = Turned(Fetched(n, l, TRUE), 8, "static")
  <2> HIDE DEF l
  <2> QED
    BY <1>3, OpeningMoves
<1>5. To(m, 3) = Lexer(Len(n) + 1, 3, 0, type, ClassOf(v), quote, v)
  BY ToIs
<1>6. Turned(m, 2, "property") = Lexer(Len(n) + 1, 2, 0, "property", ClassOf(v), quote, v)
  BY TurnedIs
<1>7. Turned(m, 8, "static") = Lexer(Len(n) + 1, 8, 0, "static", ClassOf(v), quote, v)
  BY TurnedIs
<1>8. 0 \in 0..(Len(n) + 2) /\ n \in Seq(Letters)
  BY <1>1, AtIs
<1>9. "[" \in Letters /\ "-" \in Letters /\ ":" \in Letters
  BY DEF Letters, Marks
<1>10. ASSUME ClassOf(v) = "" PROVE At(n \o <<"[">>, 3, 0, type, "", quote, v)
  <2>1. Step(n, l, "[") = Lexer(Len(n) + 1, 3, 0, type, "", quote, v)
    BY <1>2, <1>4, <1>5, <1>10, Zenon
  <2> QED
    BY <1>1, <1>8, <1>9, <2>1, Leads
<1>11. At(n \o <<"-">>, 2, 0, "property", ClassOf(v), quote, v)
  <2>1. Step(n, l, "-") = Lexer(Len(n) + 1, 2, 0, "property", ClassOf(v), quote, v)
    BY <1>2, <1>4, <1>6, Zenon
  <2> QED
    BY <1>1, <1>8, <1>9, <2>1, Leads
<1>12. At(n \o <<":">>, 8, 0, "static", ClassOf(v), quote, v)
  <2>1. Step(n, l, ":") = Lexer(Len(n) + 1, 8, 0, "static", ClassOf(v), quote, v)
    BY <1>2, <1>4, <1>7, Zenon
  <2> QED
    BY <1>1, <1>8, <1>9, <2>1, Leads
<1> QED
  BY <1>8, <1>10, <1>11, <1>12, Zenon

-----------------------------------------------------------------------------
(* A name with one more part.                                              *)

NoClass == ""

LEMMA MarksAreLetters ==
    /\ "[" \in Letters /\ "-" \in Letters /\ ":" \in Letters /\ ">" \in Letters /\ "{" \in Letters
    /\ "$" \in Letters /\ "*" \in Letters /\ "]" \in Letters /\ "}" \in Letters
    /\ QuoteMark \in Letters
BY DEF Letters, Marks, QuoteMark

LEMMA SetOfSeq ==
    ASSUME NEW S, NEW s \in Seq(S)
    PROVE  /\ Len(s) \in Nat /\ \A i \in 1..Len(s) : s[i] \in ToSet(s) /\ s[i] \in S
           /\ (s # << >> => Len(s) >= 1 /\ s[1] \in ToSet(s))
<1>1. Len(s) \in Nat /\ DOMAIN s = 1..Len(s)
  BY LenProperties
<1>2. \A i \in 1..Len(s) : s[i] \in ToSet(s)
  BY <1>1 DEF ToSet
<1>3. s # << >> => Len(s) # 0
  BY EmptySeq
<1>4. Len(s) # 0 => Len(s) >= 1 /\ 1 \in 1..Len(s)
  BY <1>1
<1> QED
  BY <1>1, <1>2, <1>3, <1>4, ElementOfSeq

\* A number behind "[".
LEMMA NumberIsRead ==
    ASSUME NEW m, NEW type, NEW quote, NEW v, At(m, 3, 0, type, NoClass, quote, v),
           NEW key \in Seq(Letters), Numeral(key)
    PROVE  At(m \o key, 6, Len(m) + 1, "number", NoClass, quote, v)
<1> DEFINE l == Lexer(Len(m) + 1, 3, 0, type, NoClass, quote, v)
           f == Len(m) + 1
<1>1. m \in Seq(Letters) /\ Len(m) \in Nat /\ Reached(m, l)
  BY AtIs
<1>2. l.state = 3 /\ l.type = type
  BY LexerHas
<1>3. f \in 0..(Len(m) + 2)
  BY <1>1
<1>4. /\ Len(key) \in Nat /\ key # << >> /\ key[1] \in Letters
      /\ \A i \in 1..Len(key) : key[i] \in ToSet(key)
      /\ key[1] \in ToSet(key)
  <2>1. key # << >>
    BY DEF Numeral
  <2> QED
    BY <2>1, SetOfSeq
<1>5. CASE key[1] # "-"
  <2>1. ToSet(key) \subseteq Digits
    BY <1>5 DEF Numeral, NumeralDigits
  <2>2. key[1] \in Digits
    BY <1>4, <2>1
  <2>3. Begin(l, 6, "number") = Lexer(Len(m) + 1, 6, f, "number", NoClass, quote, v)
    BY BegunIs
  <2>4. Step(m, l, key[1]) = Begin(l, 6, "number")
    <3> HIDE DEF l
    <3> QED
      BY <1>2, <2>2, KeyMoves
  <2>5. \A i \in 2..Len(key) : Passes(6, f, "number", NoClass, quote, v, key[i])
    <3>1. \A i \in 2..Len(key) : i \in 1..Len(key)
      BY <1>4
    <3>2. \A i \in 2..Len(key) : key[i] \in Digits
      BY <1>4, <2>1, <3>1
    <3> QED
      BY <3>2, NumberGoesOn
  <2>6. Step(m, l, key[1]) = Lexer(Len(m) + 1, 6, f, "number", NoClass, quote, v)
    BY <2>3, <2>4, Zenon
  <2> HIDE DEF l, f
  <2>7. At(m \o key, 6, f, "number", NoClass, quote, v)
    BY <1>1, <1>3, <1>4, <2>5, <2>6, WordBegins
  <2> QED
    BY <2>7 DEF f
<1>6. CASE key[1] = "-"
  <2> DEFINE c == "-"
             n == m \o <<c>>
             t == Tail(key)
             h == Lexer(Len(n) + 1, 9, f, type, NoClass, quote, v)
  <2>1. t # << >> /\ ToSet(t) \subseteq Digits
    BY <1>6 DEF Numeral, NumeralDigits
  <2>2. Begin(l, 9, type) = Lexer(Len(m) + 1, 9, f, type, NoClass, quote, v)
    BY BegunIs
  <2>3. Step(m, l, c) = Begin(l, 9, type)
    <3> HIDE DEF l
    <3> QED
      BY <1>2, KeyMoves
  <2>4. Step(m, l, c) = Lexer(Len(m) + 1, 9, f, type, NoClass, quote, v)
    BY <2>2, <2>3, Zenon
  <2>5. At(n, 9, f, type, NoClass, quote, v) /\ Len(n) = Len(m) + 1
    <3> HIDE DEF f, c
    <3>1. c \in Letters
      BY MarksAreLetters DEF c
    <3> QED
      BY <1>3, <2>4, <3>1, Leads
  <2>6. /\ t \in Seq(Letters) /\ Len(t) \in Nat /\ t[1] \in Digits /\ \A i \in 1..Len(t) : t[i] \in Digits
    <3>1. t \in Seq(Letters)
      BY <1>4, HeadTailProperties
    <3> HIDE DEF t
    <3> QED
      BY <2>1, <3>1, SetOfSeq
  <2>7. n \in Seq(Letters) /\ Reached(n, h) /\ f \in 0..(Len(n) + 2)
    <3>1. n \in Seq(Letters) /\ Reached(n, h)
      BY <2>5, AtIs
    <3> QED
      BY <1>1, <2>5, <3>1
  <2>8. h.state = 9
    BY LexerHas
  <2>9. Turned(h, 6, "number") = Lexer(Len(n) + 1, 6, f, "number", NoClass, quote, v)
    BY TurnedIs
  <2>10. Step(n, h, t[1]) = Turned(h, 6, "number")
    <3> HIDE DEF h, t
    <3> QED
      BY <2>6, <2>8, KeyMoves
  <2>11. Step(n, h, t[1]) = Lexer(Len(n) + 1, 6, f, "number", NoClass, quote, v)
    BY <2>9, <2>10, Zenon
  <2>12. \A i \in 2..Len(t) : Passes(6, f, "number", NoClass, quote, v, t[i])
    <3>1. \A i \in 2..Len(t) : i \in 1..Len(t)
      BY <2>6
    <3> QED
      BY <2>6, <3>1, NumberGoesOn
  <2>13. n \o t = m \o key
    <3> DEFINE x == <<c>>
    <3>0. c \in Letters
      BY MarksAreLetters
    <3>1. x \in Seq(Letters) /\ m \in Seq(Letters) /\ t \in Seq(Letters)
      <4> HIDE DEF c, t
      <4> QED
        BY <1>1, <2>6, <3>0
    <3>2. key = x \o t
      <4>1. key = <<Head(key)>> \o Tail(key)
        BY <1>4, HeadTailProperties DEF Cons
      <4>2. Head(key) = c
        BY <1>4, <1>6
      <4> QED
        BY <4>1, <4>2, Zenon
    <3> HIDE DEF x, t
    <3>3. (m \o x) \o t = m \o (x \o t)
      BY <3>1, LettersTogether
    <3> QED
      BY <3>2, <3>3, Zenon DEF x
  <2> HIDE DEF h, t, n, f
  <2>14. At(n \o t, 6, f, "number", NoClass, quote, v)
    BY <2>1, <2>6, <2>7, <2>11, <2>12, WordBegins
  <2>15. At(m \o key, 6, f, "number", NoClass, quote, v)
    BY <2>13, <2>14, Zenon
  <2> QED
    BY <2>15 DEF f
<1> QED
  BY <1>5, <1>6

\* What a lexer with this type, class and value fetches.
Fetching(type, class, v, w, x) ==
    \A at, state, from, quote : Fetch(Lexer(at, state, from, type, class, quote, v), w) = x

LEMMA NumberedIsFound ==
    ASSUME NEW n, NEW v, Found(n, v), ClassOf(v) = NoClass, NEW key \in Seq(Letters), Numeral(key),
           NEW x, Fetching("number", NoClass, v, key, x)
    PROVE  Found(((n \o <<"[">>) \o key) \o <<"]">>, x)
<1> DEFINE m == n \o <<"[">>
           p == m \o key
<1>1. PICK type, quote : At(m, 3, 0, type, NoClass, quote, v)
  BY Opened DEF NoClass
<1> HIDE DEF m
<1>2. At(p, 6, Len(m) + 1, "number", NoClass, quote, v)
  BY <1>1, NumberIsRead
<1> DEFINE l == Lexer(Len(p) + 1, 6, Len(m) + 1, "number", NoClass, quote, v)
<1>3. m \in Seq(Letters)
  BY <1>1, AtIs
<1>4. Settled(l, p, x)
  <2>1. Fetch(l, key) = x
    BY DEF Fetching
  <2> QED
    BY <1>3, <2>1, SettledIs
<1>5. l.state = 6
  BY LexerHas
<1>6. Step(p, l, "]") = To(Fetched(p, l, TRUE), 1)
  <2> HIDE DEF l, p
  <2> QED
    BY <1>5, KeyMoves
<1> DEFINE c == "]"
<1>7. c \in Letters
  BY MarksAreLetters
<1> HIDE DEF p, c
<1>8. At(p \o <<c>>, 1, 0, "number", ClassOf(x), quote, x)
  BY <1>2, <1>4, <1>6, <1>7, Closes DEF c
<1>9. Found(p \o <<c>>, x)
  BY <1>8, FoundIs
<1> QED
  BY <1>9 DEF c, p, m

\* A key in quotes: behind a name that ends with the opening one.
LEMMA QuotedIsFound ==
    ASSUME NEW m, NEW state, NEW next, <<state, next>> \in {<<4, 5>>, <<12, 14>>},
           NEW type, NEW class, NEW v, At(m, state, Len(m) + 1, type, class, QuoteMark, v),
           NEW key \in Seq(KeyCharacters), NEW x, Fetching(type, class, v, AddSlashes(key), x)
    PROVE  /\ At((m \o AddSlashes(key)) \o <<QuoteMark>>, next, 0, type, ClassOf(x), QuoteMark, x)
           /\ m \in Seq(Letters) /\ AddSlashes(key) \in Seq(Letters)
<1> DEFINE w == AddSlashes(key)
           p == m \o w
           l == Lexer(Len(p) + 1, state, Len(m) + 1, type, class, QuoteMark, v)
<1>0. (state = 4 /\ next = 5) \/ (state = 12 /\ next = 14)
  OBVIOUS
<1>1. m \in Seq(Letters) /\ w \in Seq(Letters)
  BY AtIs, SlashesAre
<1>2. At(p, state, Len(m) + 1, type, class, QuoteMark, v)
  <2>1. state \in {4, 12}
    BY <1>0
  <2> QED
    BY <2>1, QuotedIsRead
<1>3. Settled(l, p, x)
  <2> HIDE DEF w
  <2>1. Fetch(l, w) = x
    BY DEF Fetching, w
  <2> QED
    BY <1>1, <2>1, SettledIs
<1>4. l.state = state /\ l.quote = QuoteMark
  BY LexerHas
<1>5. Step(p, l, QuoteMark) = To(Fetched(p, l, TRUE), next)
  <2> HIDE DEF l, p
  <2>1. l.state = 4 => Step(p, l, QuoteMark) = To(Fetched(p, l, TRUE), 5)
    BY <1>4, QuotedMovesAre DEF QuoteMark
  <2>2. l.state = 12 => Step(p, l, QuoteMark) = To(Fetched(p, l, TRUE), 14)
    BY <1>4, QuotedMovesAre DEF QuoteMark
  <2> QED
    BY <1>0, <1>4, <2>1, <2>2
<1> HIDE DEF p
<1>6. At(p \o <<QuoteMark>>, next, 0, type, ClassOf(x), QuoteMark, x)
  BY <1>2, <1>3, <1>5, MarksAreLetters, Closes
<1> QED
  BY <1>1, <1>6 DEF p

\* The quote that opens a key, and what is behind the one that closes it.
LEMMA QuoteOpens ==
    ASSUME NEW m, NEW state, NEW type, NEW class, NEW quote, NEW v, NEW next, NEW t,
           At(m, state, 0, type, class, quote, v),
           (state = 3 /\ next = 4 /\ t = "assoc") \/ (state = 11 /\ next = 12 /\ t = "escaped")
    PROVE  /\ At(m \o <<QuoteMark>>, next, Len(m \o <<QuoteMark>>) + 1, t, class, QuoteMark, v)
           /\ m \in Seq(Letters)
<1> DEFINE l == Lexer(Len(m) + 1, state, 0, type, class, quote, v)
           n == m \o <<QuoteMark>>
           f == Len(m) + 1 + 1
<1>1. m \in Seq(Letters) /\ Len(m) \in Nat
  BY AtIs
<1>2. l.state = state
  BY LexerHas
<1>3. OpenQuote(l, QuoteMark, next, t) = Lexer(Len(m) + 1, next, f, t, class, QuoteMark, v)
  BY OpenedIs
<1>4. Step(m, l, QuoteMark) = OpenQuote(l, QuoteMark, next, t)
  <2> HIDE DEF l
  <2>1. /\ l.state = 3 => Step(m, l, QuoteMark) = OpenQuote(l, QuoteMark, 4, "assoc")
        /\ l.state = 11 => Step(m, l, QuoteMark) = OpenQuote(l, QuoteMark, 12, "escaped")
    BY KeyMoves
  <2> QED
    BY <1>2, <2>1, Zenon
<1>5. Step(m, l, QuoteMark) = Lexer(Len(m) + 1, next, f, t, class, QuoteMark, v)
  BY <1>3, <1>4, Zenon
<1>6. f \in 0..(Len(m) + 2)
  BY <1>1
<1>8. QuoteMark \in Letters
  BY MarksAreLetters
<1>7. At(n, next, f, t, class, QuoteMark, v) /\ Len(n) = Len(m) + 1
  <2> HIDE DEF f
  <2> QED
    BY <1>5, <1>6, <1>8, Leads
<1> HIDE DEF n
<1> QED
  BY <1>1, <1>7, Zenon DEF n

Closing(state, c) == (state = 5 /\ c = "]") \/ (state = 14 /\ c = "}")

LEMMA BracketCloses ==
    ASSUME NEW n, NEW c, NEW state, NEW type, NEW quote, NEW v, At(n, state, 0, type, ClassOf(v), quote, v),
           Closing(state, c)
    PROVE  Found(n \o <<c>>, v)
<1> DEFINE l == Lexer(Len(n) + 1, state, 0, type, ClassOf(v), quote, v)
<1>1. l.state = state
  BY LexerHas
<1>2. Step(n, l, c) = To(l, 1)
  <2> HIDE DEF l
  <2>1. /\ l.state = 5 => Step(n, l, "]") = To(l, 1)
        /\ l.state = 14 => Step(n, l, "}") = To(l, 1)
    BY MarkMoves
  <2> QED
    BY <1>1, <2>1, Zenon DEF Closing
<1>3. c \in Letters
  BY MarksAreLetters, Zenon DEF Closing
<1>4. At(n \o <<c>>, 1, 0, type, ClassOf(v), quote, v)
  BY <1>2, <1>3, Goes
<1> QED
  BY <1>4, FoundIs

\* "::" and "->", with the state and the type they lead to.
IsMember(c, d, state, type) ==
    \/ c = ":" /\ d = ":" /\ state = 8 /\ type = "static"
    \/ c = "-" /\ d = ">" /\ state = 2 /\ type = "property"

LEMMA MemberOpens ==
    ASSUME NEW n, NEW v, Found(n, v), NEW c, NEW d, NEW state, NEW type, IsMember(c, d, state, type)
    PROVE  /\ \E quote : At(n \o <<c, d>>, state, 0, type, ClassOf(v), quote, v)
           /\ n \in Seq(Letters) /\ <<c, d>> \in Seq(Letters)
<1> DEFINE m == n \o <<c>>
           p == m \o <<d>>
<1>1. /\ n \in Seq(Letters)
      /\ \E quote : At(n \o <<"-">>, 2, 0, "property", ClassOf(v), quote, v)
      /\ \E quote : At(n \o <<":">>, 8, 0, "static", ClassOf(v), quote, v)
  BY Opened
<1>2. c \in Letters /\ d \in Letters
  BY MarksAreLetters, Zenon DEF IsMember
<1>3. PICK quote : At(m, state, 0, type, ClassOf(v), quote, v)
  BY <1>1, Zenon DEF IsMember
<1> DEFINE l == Lexer(Len(m) + 1, state, 0, type, ClassOf(v), quote, v)
<1>4. l.state = state
  BY LexerHas
<1>5. Step(m, l, d) = l
  <2> HIDE DEF l, m
  <2>1. (l.state = 2 => Step(m, l, ">") = l) /\ (l.state = 8 => Step(m, l, ":") = l)
    BY MarkMoves
  <2> QED
    BY <1>4, <2>1, Zenon DEF IsMember
<1>6. To(l, state) = l
  BY ToIs
<1>7. Step(m, l, d) = To(l, state)
  BY <1>5, <1>6, Zenon
<1> HIDE DEF m
<1>8. At(p, state, 0, type, ClassOf(v), quote, v)
  BY <1>2, <1>3, <1>7, Goes
<1>9. p = n \o <<c, d>>
  <2>1. n \o <<c, d>> = (n \o <<c>>) \o <<d>>
    BY <1>1, <1>2, TwoBehind
  <2> QED
    BY <2>1, Zenon DEF m
<1>10. At(n \o <<c, d>>, state, 0, type, ClassOf(v), quote, v)
  BY <1>8, <1>9, Zenon
<1>11. <<c, d>> \in Seq(Letters)
  BY <1>2
<1> QED
  BY <1>1, <1>10, <1>11

\* A name that has none of the characters that start the next part.
IsPlain(w, state) ==
    /\ w \in Seq(Letters) /\ w # << >> /\ ToSet(w) \cap {"[", "-", ":"} = {}
    /\ state = 2 => w[1] \notin {">", "{"}
    /\ state = 0 => w[1] # "$"

LEMMA PlainIs ==
    ASSUME NEW w, NEW state, IsPlain(w, state)
    PROVE  /\ w \in Seq(Letters) /\ w # << >> /\ Len(w) \in Nat
           /\ \A i \in 1..Len(w) : w[i] \notin {"[", "-", ":"}
           /\ w[1] \notin {"[", "-", ":"}
           /\ \A from, type, class, quote, val : \A i \in 2..Len(w) :
                 Passes(1, from, type, class, quote, val, w[i])
<1>1. w \in Seq(Letters) /\ w # << >> /\ ToSet(w) \cap {"[", "-", ":"} = {}
  BY DEF IsPlain
<1>2. Len(w) \in Nat /\ \A i \in 1..Len(w) : w[i] \in ToSet(w)
  BY <1>1, SetOfSeq
<1>3. w[1] \in ToSet(w)
  BY <1>1, SetOfSeq
<1>4. \A c \in ToSet(w) : c \notin {"[", "-", ":"}
  BY <1>1
<1>5. \A i \in 1..Len(w) : w[i] \notin {"[", "-", ":"}
  BY <1>2, <1>4
<1>6. \A i \in 2..Len(w) : i \in 1..Len(w)
  BY <1>2
<1>7. \A from, type, class, quote, val : \A i \in 2..Len(w) :
         Passes(1, from, type, class, quote, val, w[i])
  BY <1>5, <1>6, NameGoesOn
<1> QED
  BY <1>1, <1>2, <1>3, <1>4, <1>5, <1>7, Zenon

LEMMA MemberIsFound ==
    ASSUME NEW n, NEW v, Found(n, v), NEW c, NEW d, NEW state, NEW type, IsMember(c, d, state, type),
           NEW w, IsPlain(w, state), NEW x, Fetching(type, ClassOf(v), v, w, x)
    PROVE  Found((n \o <<c, d>>) \o w, x)
<1> DEFINE m == n \o <<c, d>>
           p == m \o w
<1>1. PICK quote : At(m, state, 0, type, ClassOf(v), quote, v)
  BY MemberOpens
<1> HIDE DEF m
<1> DEFINE l == Lexer(Len(m) + 1, state, 0, type, ClassOf(v), quote, v)
           f == Len(m) + 1
           k == Lexer(Len(p) + 1, 1, f, type, ClassOf(v), quote, v)
<1>2. m \in Seq(Letters) /\ Len(m) \in Nat /\ Reached(m, l)
  BY <1>1, AtIs
<1>3. f \in 0..(Len(m) + 2)
  BY <1>2
<1>4. /\ w \in Seq(Letters) /\ w # << >> /\ w[1] \notin {"[", "-", ":"}
      /\ \A i \in 2..Len(w) : Passes(1, f, type, ClassOf(v), quote, v, w[i])
  <2> HIDE DEF f
  <2> QED
    BY PlainIs
<1>5. l.state = state /\ l.type = type
  BY LexerHas
<1>6. Step(m, l, w[1]) = Begin(l, 1, type)
  <2> HIDE DEF l
  <2>1. /\ l.state = 2 /\ w[1] \notin {">", "{"} => Step(m, l, w[1]) = Begin(l, 1, l.type)
        /\ l.state = 8 /\ w[1] # ":" => Step(m, l, w[1]) = Begin(l, 1, l.type)
    BY FirstMoves
  <2>2. w[1] # ":"
    BY <1>4
  <2>3. state = 2 => w[1] \notin {">", "{"}
    BY DEF IsPlain
  <2>4. state = 2 \/ state = 8
    BY DEF IsMember
  <2> QED
    BY <1>5, <2>1, <2>2, <2>3, <2>4, Zenon
<1>7. Begin(l, 1, type) = Lexer(Len(m) + 1, 1, f, type, ClassOf(v), quote, v)
  BY BegunIs
<1>8. Step(m, l, w[1]) = Lexer(Len(m) + 1, 1, f, type, ClassOf(v), quote, v)
  BY <1>6, <1>7, Zenon
<1>9. At(p, 1, f, type, ClassOf(v), quote, v)
  <2> HIDE DEF l, f
  <2> QED
    BY <1>2, <1>3, <1>4, <1>8, WordBegins
<1>10. Settled(k, p, x)
  <2>1. Fetch(k, w) = x
    BY DEF Fetching
  <2> QED
    BY <1>2, <1>4, <2>1, SettledIs
<1>11. Found(p, x)
  <2> HIDE DEF p, f
  <2> QED
    BY <1>9, <1>10 DEF Found
<1> QED
  BY <1>11 DEF p, m

\* A property in braces, behind "->".
LEMMA EscapedIsFound ==
    ASSUME NEW n, NEW v, Found(n, v), NEW key \in Seq(KeyCharacters),
           NEW x, Fetching("escaped", ClassOf(v), v, AddSlashes(key), x)
    PROVE  Found((((((n \o <<"-", ">">>) \o <<"{">>) \o <<QuoteMark>>) \o AddSlashes(key))
                     \o <<QuoteMark>>) \o <<"}">>, x)
<1> DEFINE c == "-"
           d == ">"
           m == n \o <<c, d>>
           p == m \o <<"{">>
           q == p \o <<QuoteMark>>
           r == (q \o AddSlashes(key)) \o <<QuoteMark>>
           t == "escaped"
           prop == "property"
<1>1. IsMember(c, d, 2, prop)
  BY DEF IsMember
<1>2. PICK quote : At(m, 2, 0, prop, ClassOf(v), quote, v)
  <2> HIDE DEF c, d, prop
  <2> QED
    BY <1>1, MemberOpens
<1> HIDE DEF m, prop
<1> DEFINE l == Lexer(Len(m) + 1, 2, 0, prop, ClassOf(v), quote, v)
<1>3. l.state = 2
  BY LexerHas
<1>4. Step(m, l, "{") = To(l, 11)
  <2> HIDE DEF l
  <2> QED
    BY <1>3, MarkMoves
<1>5. "{" \in Letters
  BY MarksAreLetters
<1>6. At(p, 11, 0, prop, ClassOf(v), quote, v)
  BY <1>2, <1>4, <1>5, Goes
<1>7. At(q, 12, Len(q) + 1, t, ClassOf(v), QuoteMark, v)
  <2>1. (11 = 3 /\ 12 = 4 /\ t = "assoc") \/ (11 = 11 /\ 12 = 12 /\ t = "escaped")
    OBVIOUS
  <2> HIDE DEF p, t
  <2> QED
    BY <1>6, <2>1, QuoteOpens
<1>8. At(r, 14, 0, t, ClassOf(x), QuoteMark, x)
  <2>1. <<12, 14>> \in {<<4, 5>>, <<12, 14>>}
    OBVIOUS
  <2> HIDE DEF q, t
  <2>2. Fetching(t, ClassOf(v), v, AddSlashes(key), x)
    BY DEF t
  <2> QED
    BY <1>7, <2>1, <2>2, QuotedIsFound
<1> DEFINE e == "}"
<1>9. Closing(14, e)
  BY DEF Closing
<1> HIDE DEF r, e, t
<1>10. Found(r \o <<e>>, x)
  BY <1>8, <1>9, BracketCloses
<1> QED
  BY <1>10, Zenon DEF r, q, p, m, e, c, d

\* An element with a key in quotes.
LEMMA KeyedIsFound ==
    ASSUME NEW n, NEW v, Found(n, v), ClassOf(v) = NoClass, NEW key \in Seq(KeyCharacters),
           NEW x, Fetching("assoc", NoClass, v, AddSlashes(key), x)
    PROVE  Found(((((n \o <<"[">>) \o <<QuoteMark>>) \o AddSlashes(key)) \o <<QuoteMark>>) \o <<"]">>, x)
<1> DEFINE m == n \o <<"[">>
           q == m \o <<QuoteMark>>
           r == (q \o AddSlashes(key)) \o <<QuoteMark>>
           t == "assoc"
<1>1. PICK type, quote : At(m, 3, 0, type, NoClass, quote, v)
  BY Opened DEF NoClass
<1> HIDE DEF m
<1>2. At(q, 4, Len(q) + 1, t, NoClass, QuoteMark, v)
  <2>1. (3 = 3 /\ 4 = 4 /\ t = "assoc") \/ (3 = 11 /\ 4 = 12 /\ t = "escaped")
    OBVIOUS
  <2> HIDE DEF t
  <2> QED
    BY <1>1, <2>1, QuoteOpens
<1>3. At(r, 5, 0, t, ClassOf(x), QuoteMark, x)
  <2>1. <<4, 5>> \in {<<4, 5>>, <<12, 14>>}
    OBVIOUS
  <2> HIDE DEF q, t
  <2>2. Fetching(t, NoClass, v, AddSlashes(key), x)
    BY DEF t
  <2> QED
    BY <1>2, <2>1, <2>2, QuotedIsFound
<1> DEFINE e == "]"
<1>4. Closing(5, e)
  BY DEF Closing
<1> HIDE DEF r, e, t
<1>5. Found(r \o <<e>>, x)
  BY <1>3, <1>4, BracketCloses
<1> QED
  BY <1>5, Zenon DEF r, q, m, e

-----------------------------------------------------------------------------
(* The names that are exported with the context.                           *)

LEMMA VariableIsFound ==
    ASSUME NEW w, IsPlain(w, 0), NEW x, Fetching("root", NoClass, Undefined, w, x)
    PROVE  Found(<<"$">> \o w, x)
<1> DEFINE c == "$"
           m == <<c>>
           r == "root"
           o == << >>
           l == Lexer(1, 0, 0, r, NoClass, NoClass, Undefined)
           h == Lexer(2, 0, 2, r, NoClass, NoClass, Undefined)
           p == m \o w
           k == Lexer(Len(p) + 1, 1, 2, r, NoClass, NoClass, Undefined)
<1>1. o \in Seq(Letters) /\ Len(o) = 0 /\ At(o, 0, 0, r, NoClass, NoClass, Undefined)
  <2>1. o \in Seq(Letters) /\ Len(o) = 0 /\ Len(o) + 1 = 1
    OBVIOUS
  <2>2. Reached(o, l)
    BY LexerStarts DEF NoClass
  <2> QED
    BY <2>1, <2>2, Zenon DEF At
<1>2. c \in Letters
  BY MarksAreLetters
<1>3. Marked(l) = Lexer(1, 0, 1 + 1, r, NoClass, NoClass, Undefined)
  BY MarkedIs
<1>4. l.state = 0 /\ h.state = 0 /\ h.at = 2
  BY LexerHas
<1>5. Step(o, l, c) = Marked(l)
  <2> HIDE DEF l, o
  <2> QED
    BY <1>4, RootMoves
<1>6. Step(o, l, c) = Lexer(1, 0, 2, r, NoClass, NoClass, Undefined)
  <2>1. 1 + 1 = 2
    OBVIOUS
  <2> QED
    BY <1>3, <1>5, <2>1, Zenon
<1>7. At(o \o m, 0, 2, r, NoClass, NoClass, Undefined) /\ Len(o \o m) = 1
  <2>1. Len(o) + 1 = 1 /\ 2 \in 0..(Len(o) + 2)
    BY <1>1
  <2>2. Step(o, Lexer(Len(o) + 1, 0, 0, r, NoClass, NoClass, Undefined), c)
           = Lexer(Len(o) + 1, 0, 2, r, NoClass, NoClass, Undefined)
    BY <1>6, <2>1, Zenon
  <2> HIDE DEF o, c, r
  <2>3. At(o, 0, 0, r, NoClass, NoClass, Undefined) /\ c \in Letters /\ 2 \in 0..(Len(o) + 2)
    BY <1>1, <1>2, <2>1
  <2>4. At(o \o <<c>>, 0, 2, r, NoClass, NoClass, Undefined) /\ Len(o \o <<c>>) = Len(o) + 1
    BY <2>2, <2>3, Leads
  <2> QED
    BY <2>1, <2>4, Zenon
<1>8. o \o m = m
  <2>1. m \in Seq(Letters)
    <3> HIDE DEF c
    <3> QED
      BY <1>2
  <2> QED
    BY <2>1, ConcatEmptySeq
<1>9. Len(m) = 1 /\ m \in Seq(Letters) /\ Reached(m, h)
  <2>1. At(m, 0, 2, r, NoClass, NoClass, Undefined) /\ Len(m) = 1
    BY <1>7, <1>8, Zenon
  <2>2. m \in Seq(Letters) /\ Reached(m, Lexer(Len(m) + 1, 0, 2, r, NoClass, NoClass, Undefined))
    <3> HIDE DEF m
    <3> QED
      BY <2>1, AtIs
  <2>3. 1 + 1 = 2
    OBVIOUS
  <2> QED
    BY <2>1, <2>2, <2>3, Zenon
<1> HIDE DEF m
<1>10. /\ w \in Seq(Letters) /\ w # << >> /\ w[1] \notin {"[", "-", ":"}
       /\ \A i \in 2..Len(w) : Passes(1, 2, r, NoClass, NoClass, Undefined, w[i])
  BY PlainIs
<1>11. Started(h, 2, 1) = Lexer(2, 1, 2, r, NoClass, NoClass, Undefined)
  BY StartedIs
<1>12. Step(m, h, w[1]) = Started(h, 2, 1)
  <2>1. w[1] # "$"
    BY DEF IsPlain
  <2>2. w[1] \notin {"$", ":", "[", "-"}
    BY <1>10, <2>1
  <2> HIDE DEF h
  <2>3. h.state = 0 /\ w[1] \notin {"$", ":", "[", "-"} => Step(m, h, w[1]) = Started(h, h.at, 1)
    BY FirstMoves
  <2> QED
    BY <1>4, <2>2, <2>3, Zenon
<1>13. At(p, 1, 2, r, NoClass, NoClass, Undefined)
  <2>1. Len(m) + 1 = 2 /\ 2 \in 0..(Len(m) + 2)
    BY <1>9
  <2>2. Step(m, h, w[1]) = Lexer(Len(m) + 1, 1, 2, r, NoClass, NoClass, Undefined)
    BY <1>11, <1>12, <2>1, Zenon
  <2> HIDE DEF h, r
  <2> QED
    BY <1>9, <1>10, <2>1, <2>2, WordBegins
<1>14. Settled(k, p, x)
  <2>1. Fetch(k, w) = x
    BY DEF Fetching
  <2>2. Len(m) + 1 = 2
    BY <1>9
  <2>3. Settled(Lexer(Len(p) + 1, 1, Len(m) + 1, r, NoClass, NoClass, Undefined), p, x)
    <3> HIDE DEF r
    <3> QED
      BY <1>9, <1>10, <2>1, <2>2, SettledIs
  <2> QED
    BY <2>2, <2>3, Zenon
<1>15. Found(p, x)
  <2> HIDE DEF p, r
  <2> QED
    BY <1>13, <1>14 DEF Found
<1> QED
  BY <1>15, Zenon DEF p, m

StaticRoot == "static root"

LEMMA EmptyIsRead ==
    /\ << >> \in Seq(Letters) /\ Len(<< >>) = 0
    /\ At(<< >>, 0, 0, "root", NoClass, NoClass, Undefined)
<1> DEFINE l == Lexer(1, 0, 0, "root", NoClass, NoClass, Undefined)
           o == << >>
<1>1. o \in Seq(Letters) /\ Len(o) = 0 /\ Len(o) + 1 = 1
  OBVIOUS
<1>2. Reached(o, l)
  BY LexerStarts DEF NoClass
<1>3. At(o, 0, 0, "root", NoClass, NoClass, Undefined)
  BY <1>1, <1>2, Zenon DEF At
<1> QED
  BY <1>1, <1>3

LEMMA StaticIsFound ==
    ASSUME NEW w, IsPlain(w, 7), NEW class, class = tree.class, class = tree.scope.class,
           class # NoClass, NEW x, Fetching(StaticRoot, class, Undefined, w, x)
    PROVE  Found(<<":", ":">> \o w, x)
<1> DEFINE c == ":"
           o == << >>
           n == <<c>>
           m == <<c, c>>
           r == "root"
           s == StaticRoot
           l == Lexer(1, 0, 0, r, NoClass, NoClass, Undefined)
           h == Lexer(2, 7, 1, r, NoClass, NoClass, Undefined)
           p == m \o w
           k == Lexer(Len(p) + 1, 1, 3, s, class, NoClass, Undefined)
<1>1. o \in Seq(Letters) /\ Len(o) = 0 /\ At(o, 0, 0, r, NoClass, NoClass, Undefined)
  BY EmptyIsRead
<1>2. c \in Letters
  BY MarksAreLetters
<1>3. l.state = 0 /\ l.at = 1 /\ h.state = 7 /\ h.at = 2
  BY LexerHas
<1>4. Step(o, l, c) = Lexer(1, 7, 1, r, NoClass, NoClass, Undefined)
  <2>1. Started(l, 1, 7) = Lexer(1, 7, 1, r, NoClass, NoClass, Undefined)
    BY StartedIs
  <2>2. Step(o, l, c) = Started(l, l.at, 7)
    <3> HIDE DEF l, o
    <3> QED
      BY <1>3, RootMoves
  <2> QED
    BY <1>3, <2>1, <2>2, Zenon
<1>5. At(o \o n, 7, 1, r, NoClass, NoClass, Undefined) /\ Len(o \o n) = 1
  <2>1. Len(o) + 1 = 1 /\ 1 \in 0..(Len(o) + 2)
    BY <1>1
  <2>2. Step(o, Lexer(Len(o) + 1, 0, 0, r, NoClass, NoClass, Undefined), c)
           = Lexer(Len(o) + 1, 7, 1, r, NoClass, NoClass, Undefined)
    BY <1>4, <2>1, Zenon
  <2> HIDE DEF o, c, r
  <2>3. At(o, 0, 0, r, NoClass, NoClass, Undefined) /\ c \in Letters /\ 1 \in 0..(Len(o) + 2)
    BY <1>1, <1>2, <2>1
  <2>4. At(o \o <<c>>, 7, 1, r, NoClass, NoClass, Undefined) /\ Len(o \o <<c>>) = Len(o) + 1
    BY <2>2, <2>3, Leads
  <2> QED
    BY <2>1, <2>4, Zenon
<1>6. o \o n = n
  <2>1. n \in Seq(Letters)
    <3> HIDE DEF c
    <3> QED
      BY <1>2
  <2> QED
    BY <2>1, ConcatEmptySeq
<1>7. At(n, 7, 1, r, NoClass, NoClass, Undefined) /\ Len(n) = 1
  BY <1>5, <1>6, Zenon
<1>8. Step(n, h, c) = Lexer(2, 1, 3, s, class, NoClass, Undefined)
  <2>1. Rooted(h, 1, 3, s, class) = Lexer(2, 1, 3, s, class, NoClass, Undefined)
    BY RootedIs
  <2>2. Step(n, h, c) = Rooted(h, 1, h.at + 1, s, class)
    <3> HIDE DEF h, n
    <3> QED
      BY <1>3, RootMoves DEF NoClass, StaticRoot
  <2>3. h.at + 1 = 3
    BY <1>3
  <2> QED
    BY <2>1, <2>2, <2>3, Zenon
<1>9. At(n \o <<c>>, 1, 3, s, class, NoClass, Undefined) /\ Len(n \o <<c>>) = 2
  <2>1. Len(n) + 1 = 2 /\ 3 \in 0..(Len(n) + 2)
    BY <1>7
  <2>2. Step(n, Lexer(Len(n) + 1, 7, 1, r, NoClass, NoClass, Undefined), c)
           = Lexer(Len(n) + 1, 1, 3, s, class, NoClass, Undefined)
    BY <1>8, <2>1, Zenon
  <2> HIDE DEF n, c, r, s
  <2>3. At(n, 7, 1, r, NoClass, NoClass, Undefined) /\ c \in Letters /\ 3 \in 0..(Len(n) + 2)
    BY <1>2, <1>7, <2>1
  <2>4. At(n \o <<c>>, 1, 3, s, class, NoClass, Undefined) /\ Len(n \o <<c>>) = Len(n) + 1
    BY <2>2, <2>3, Leads
  <2> QED
    BY <2>1, <2>4, Zenon
<1>10. n \o <<c>> = m
  <2>1. o \o <<c, c>> = (o \o <<c>>) \o <<c>>
    <3> HIDE DEF o, c
    <3> QED
      BY <1>1, <1>2, TwoBehind
  <2>2. m \in Seq(Letters)
    <3> HIDE DEF c
    <3> QED
      BY <1>2
  <2>3. o \o m = m
    BY <2>2, ConcatEmptySeq
  <2> QED
    BY <1>6, <2>1, <2>3, Zenon
<1>11. At(m, 1, 3, s, class, NoClass, Undefined) /\ Len(m) = 2
  BY <1>9, <1>10, Zenon
<1> HIDE DEF m
<1>12. m \in Seq(Letters)
  BY <1>11, AtIs
<1>13. w \in Seq(Letters) /\ \A i \in 1..Len(w) : w[i] \notin {"[", "-", ":"}
  BY PlainIs
<1>14. \A i \in 1..Len(w) : Passes(1, 3, s, class, NoClass, Undefined, w[i])
  <2> HIDE DEF s
  <2> QED
    BY <1>13, NameGoesOn
<1>15. At(p, 1, 3, s, class, NoClass, Undefined)
  <2> HIDE DEF s
  <2> QED
    BY <1>11, <1>13, <1>14, WordIsRead
<1>16. Settled(k, p, x)
  <2>1. Fetch(k, w) = x
    BY DEF Fetching
  <2>2. Len(m) + 1 = 3
    BY <1>11
  <2>3. Settled(Lexer(Len(p) + 1, 1, Len(m) + 1, s, class, NoClass, Undefined), p, x)
    <3> HIDE DEF s
    <3> QED
      BY <1>12, <1>13, <2>1, <2>2, SettledIs
  <2> QED
    BY <2>2, <2>3, Zenon
<1>17. Found(p, x)
  <2> HIDE DEF p, s
  <2> QED
    BY <1>15, <1>16 DEF Found
<1> QED
  BY <1>17, Zenon DEF p, m

-----------------------------------------------------------------------------
(* A key with slashes is taken apart to that key.                          *)

OctalsAt(s, i) ==
    Cardinality({k \in 0..2 : \A j \in i..(i + k) : j \in DOMAIN s /\ s[j] \in Digits})
Unslash(s, g, i) ==
    IF i > Len(s) THEN << >>
    ELSE IF s[i] # "\\" \/ i = Len(s) THEN <<s[i]>> \o g[i + 1]
    ELSE IF s[i + 1] \notin Digits THEN <<s[i + 1]>> \o g[i + 2]
    ELSE (IF SubSeq(s, i + 1, i + OctalsAt(s, i + 1)) = <<"0">>
          THEN <<NullByte>> ELSE <<"other">>) \o g[i + 1 + OctalsAt(s, i + 1)]

LEMMA OctalsAre ==
    ASSUME NEW S, NEW s \in Seq(S), NEW i \in 1..(Len(s) + 1)
    PROVE  /\ OctalsAt(s, i) \in Nat /\ i + OctalsAt(s, i) <= Len(s) + 1
           /\ i <= Len(s) /\ s[i] \in Digits /\ (i = Len(s) \/ s[i + 1] \notin Digits)
                => OctalsAt(s, i) = 1
<1> DEFINE T == {k \in 0..2 : \A j \in i..(i + k) : j \in DOMAIN s /\ s[j] \in Digits}
           n == Len(s)
<1>1. n \in Nat /\ DOMAIN s = 1..n /\ i \in 1..(n + 1)
  BY LenProperties
<1>2. T \in SUBSET (0..(n - i))
  <2>1. ASSUME NEW k \in T PROVE k \in 0..(n - i)
    <3>1. k \in 0..2 /\ i + k \in i..(i + k)
      BY <1>1
    <3>2. i + k \in DOMAIN s
      BY <3>1
    <3> QED
      BY <1>1, <3>1, <3>2
  <2> QED
    BY <2>1
<1>3. OctalsAt(s, i) = Cardinality(T)
  BY DEF OctalsAt
<1> HIDE DEF T
<1>4. IsFiniteSet(T) /\ Cardinality(T) <= Cardinality(0..(n - i)) /\ IsFiniteSet(0..(n - i))
  <2>1. 0 \in Int /\ n - i \in Int
    BY <1>1
  <2>2. IsFiniteSet(0..(n - i))
    BY <2>1, FS_Interval
  <2> QED
    BY <1>2, <2>2, FS_Subset
<1>5. Cardinality(0..(n - i)) <= n - i + 1
  <2>1. \A b \in Int : Cardinality(0..b) = IF 0 > b THEN 0 ELSE b - 0 + 1
    BY FS_Interval
  <2>2. n - i \in Int /\ n - i + 1 >= 0
    BY <1>1
  <2>3. Cardinality(0..(n - i)) = IF 0 > n - i THEN 0 ELSE n - i - 0 + 1
    BY <2>1, <2>2
  <2> QED
    BY <2>2, <2>3
<1>6. Cardinality(T) \in Nat
  BY <1>4, FS_CardinalityType
<1>7. Cardinality(T) \in Nat /\ i + Cardinality(T) <= n + 1
  <2>1. Cardinality(0..(n - i)) \in Nat
    BY <1>4, FS_CardinalityType
  <2> QED
    BY <1>1, <1>4, <1>5, <1>6, <2>1
<1>8. ASSUME i <= n, s[i] \in Digits, i = n \/ s[i + 1] \notin Digits
      PROVE  Cardinality(T) = 1
  <2>1. ASSUME NEW k \in T PROVE k = 0
    <3>1. k \in 0..2 /\ \A j \in i..(i + k) : j \in DOMAIN s /\ s[j] \in Digits
      BY DEF T
    <3>2. k # 0 => i + 1 \in i..(i + k)
      BY <1>1, <3>1
    <3>3. i = n => i + 1 \notin DOMAIN s
      BY <1>1
    <3> QED
      BY <1>8, <3>1, <3>2, <3>3
  <2>2. 0 \in T
    <3>1. \A j \in i..(i + 0) : j = i
      BY <1>1
    <3>2. i \in DOMAIN s
      <4>1. i <= n
        BY <1>8
      <4> HIDE DEF n
      <4> QED
        BY <1>1, <4>1
    <3> QED
      BY <1>8, <3>1, <3>2 DEF T
  <2>3. T = {0}
    BY <2>1, <2>2
  <2> QED
    BY <2>3, FS_Singleton
<1> QED
  BY <1>3, <1>7, <1>8

LEMMA UnslashAhead ==
    ASSUME NEW S, NEW s \in Seq(S), NEW i \in 1..(Len(s) + 2), NEW g, NEW h,
           \A j \in (i + 1)..(Len(s) + 2) : g[j] = h[j]
    PROVE  Unslash(s, g, i) = Unslash(s, h, i)
<1>1. CASE i > Len(s)
  BY <1>1 DEF Unslash
<1>2. CASE ~(i > Len(s))
  <2>1. Len(s) \in Nat /\ i \in 1..Len(s)
    BY <1>2, LenProperties
  <2>2. g[i + 1] = h[i + 1] /\ g[i + 2] = h[i + 2]
    BY <2>1
  <2>3. i = Len(s) \/ g[i + 1 + OctalsAt(s, i + 1)] = h[i + 1 + OctalsAt(s, i + 1)]
    <3>1. i + 1 \in 1..(Len(s) + 1)
      BY <2>1
    <3>2. OctalsAt(s, i + 1) \in Nat /\ i + 1 + OctalsAt(s, i + 1) <= Len(s) + 1
      BY <3>1, OctalsAre
    <3>3. i + 1 + OctalsAt(s, i + 1) \in (i + 1)..(Len(s) + 2)
      BY <2>1, <3>2
    <3> QED
      BY <3>3
  <2> QED
    BY <2>2, <2>3, Zenon DEF Unslash
<1> QED
  BY <1>1, <1>2

LEMMA UnslashExists ==
    ASSUME NEW S, NEW s \in Seq(S)
    PROVE  \E g : g = [i \in 1..(Len(s) + 2) |-> Unslash(s, g, i)]
<1> DEFINE m == Len(s) + 2
           Upto(d) == d < m => \E g : g = [k \in (m - d)..m |-> Unslash(s, g, k)]
           T == {d \in Nat : ~Upto(d)}
<1>0. Len(s) \in Nat /\ m \in Nat
  BY LenProperties
<1>1. T = {}
  <2> SUFFICES ASSUME T # {} PROVE FALSE
    OBVIOUS
  <2>1. PICK d \in T : \A x \in T : d <= x
    <3> HIDE DEF Upto
    <3> QED
      BY Smallest
  <2>2. d \in Nat /\ d < m
    BY <2>1
  <2>3. ASSUME NEW g, d = 0 \/ g = [k \in (m - (d - 1))..m |-> Unslash(s, g, k)]
        PROVE  FALSE
    <3> DEFINE h == [k \in (m - d)..m |-> Unslash(s, g, k)]
    <3>1. ASSUME NEW k \in (m - d)..m PROVE Unslash(s, g, k) = Unslash(s, h, k)
      <4>1. ASSUME NEW j \in (k + 1)..(Len(s) + 2) PROVE g[j] = h[j]
        <5>1. j \in (m - (d - 1))..m /\ j \in (m - d)..m /\ d # 0
          BY <1>0, <2>2
        <5>2. g[j] = Unslash(s, g, j) /\ h[j] = Unslash(s, g, j)
          BY <2>3, <5>1
        <5> QED
          BY <5>2, Zenon
      <4>2. k \in 1..(Len(s) + 2)
        BY <1>0, <2>2
      <4> HIDE DEF h
      <4> QED
        BY <4>1, <4>2, UnslashAhead
    <3>2. h = [k \in (m - d)..m |-> Unslash(s, h, k)]
      BY <3>1
    <3> HIDE DEF h
    <3>3. Upto(d)
      BY <3>2
    <3> QED
      BY <2>1, <3>3
  <2>4. CASE d = 0
    BY <2>3, <2>4
  <2>5. CASE d # 0
    <3>1. d - 1 \in Nat /\ ~(d <= d - 1) /\ d - 1 < m
      BY <1>0, <2>2, <2>5
    <3>2. Upto(d - 1)
      <4> HIDE DEF Upto
      <4> QED
        BY <2>1, <3>1
    <3> QED
      BY <2>3, <3>1, <3>2
  <2> QED
    BY <2>4, <2>5
<1> HIDE DEF Upto
<1>2. Len(s) + 1 \in Nat /\ m - (Len(s) + 1) = 1 /\ Len(s) + 1 < m
  BY <1>0
<1>3. Upto(Len(s) + 1)
  BY <1>1, <1>2
<1> QED
  BY <1>2, <1>3 DEF Upto

Unslashes(s, g) == \A i \in 1..(Len(s) + 2) : g[i] = Unslash(s, g, i)

LEMMA StrippedIs ==
    ASSUME NEW S, NEW s \in Seq(S)
    PROVE  \E g : Unslashes(s, g) /\ StripSlashes(s) = g[1]
<1> DEFINE Is(g) == g = [i \in 1..(Len(s) + 2) |-> Unslash(s, g, i)]
           f == CHOOSE g : Is(g)
<1>1. Is(f)
  <2>1. \E g : Is(g)
    BY UnslashExists
  <2> QED
    BY <2>1
<1>2. StripSlashes(s) = f[1]
  BY Zenon DEF StripSlashes, Unslash, OctalsAt
<1> HIDE DEF f
<1>3. Unslashes(s, f)
  BY <1>1 DEF Unslashes
<1> QED
  BY <1>2, <1>3

LEMMA SingleIs ==
    ASSUME NEW S, NEW s \in Seq(S), NEW i \in 1..Len(s)
    PROVE  SubSeq(s, i, i) = <<s[i]>>
<1>1. i \in Int /\ (\A k \in i..i : s[k] \in S) /\ s[i] \in S
  BY LenProperties
<1>2. /\ SubSeq(s, i, i) \in Seq(S)
      /\ Len(SubSeq(s, i, i)) = IF i <= i THEN i - i + 1 ELSE 0
      /\ \A k \in 1..i - i + 1 : SubSeq(s, i, i)[k] = s[i + k - 1]
  BY <1>1, SubSeqProperties
<1> DEFINE u == SubSeq(s, i, i)
<1> HIDE DEF u
<1>3. 1 \in 1..i - i + 1 /\ i + 1 - 1 = i /\ i - i + 1 = 1 /\ i <= i
  BY <1>1
<1>4. u \in Seq(S) /\ Len(u) = 1 /\ u[1] = s[i]
  BY <1>2, <1>3 DEF u
<1> QED
  <2>1. u = <<s[i]>>
    BY <1>4
  <2> QED
    BY <2>1 DEF u

OneStands(a, x, t, e) ==
    /\ e \in Seq(Letters) /\ Len(a) \in Nat /\ Len(t) \in Nat /\ Len(e) = Len(a) + 1 + Len(t)
    /\ e[Len(a) + 1] = x
    /\ a \o <<x>> \in Seq(Letters) /\ (a \o <<x>>) \o t = e /\ Len(a \o <<x>>) = Len(a) + 1
TwoStand(a, x, y, t, e) ==
    /\ e \in Seq(Letters) /\ Len(a) \in Nat /\ Len(t) \in Nat /\ Len(e) = Len(a) + 2 + Len(t)
    /\ e[Len(a) + 1] = x /\ e[Len(a) + 2] = y /\ (t # << >> => e[Len(a) + 3] = t[1])
    /\ a \o <<x, y>> \in Seq(Letters) /\ (a \o <<x, y>>) \o t = e
    /\ Len(a \o <<x, y>>) = Len(a) + 2

LEMMA OneIn ==
    ASSUME NEW a \in Seq(Letters), NEW t \in Seq(Letters), NEW x \in Letters, NEW e, e = a \o (<<x>> \o t)
    PROVE  OneStands(a, x, t, e)
<1> DEFINE p == <<x>>
           r == p \o t
<1>1. p \in Seq(Letters) /\ Len(p) = 1 /\ p[1] = x /\ 1 \in 1..1
  OBVIOUS
<1> HIDE DEF p
<1>2. r \in Seq(Letters) /\ Len(r) = 1 + Len(t) /\ r[1] = x /\ Len(t) \in Nat
  <2>1. /\ r \in Seq(Letters) /\ Len(r) = Len(p) + Len(t)
        /\ \A i \in 1..Len(p) : r[i] = p[i]
    BY <1>1, Behind
  <2>2. Len(t) \in Nat
    BY LenProperties
  <2> QED
    BY <1>1, <2>1, <2>2
<1> HIDE DEF r
<1>3. /\ a \o r \in Seq(Letters) /\ Len(a \o r) = Len(a) + Len(r) /\ Len(a) \in Nat
      /\ \A i \in 1..Len(r) : (a \o r)[Len(a) + i] = r[i]
  <2>1. a \in Seq(Letters) /\ r \in Seq(Letters)
    BY <1>2
  <2>2. Len(a) \in Nat
    BY LenProperties
  <2> QED
    BY <2>1, <2>2, Behind
<1>4. 1 \in 1..Len(r)
  BY <1>2
<1>5. e = a \o r
  BY DEF r, p
<1>6. e[Len(a) + 1] = x
  BY <1>2, <1>3, <1>4, <1>5
<1>7. a \o p \in Seq(Letters) /\ Len(a \o p) = Len(a) + 1 /\ (a \o p) \o t = a \o r
  <2>1. a \o p \in Seq(Letters) /\ Len(a \o p) = Len(a) + Len(p)
    BY <1>1, Behind
  <2>2. (a \o p) \o t = a \o (p \o t)
    BY <1>1, Together
  <2> QED
    BY <1>1, <2>1, <2>2 DEF r
<1>8. Len(e) = Len(a) + 1 + Len(t)
  BY <1>2, <1>3, <1>5
<1> QED
  BY <1>2, <1>3, <1>5, <1>6, <1>7, <1>8 DEF p, OneStands

LEMMA TwoIn ==
    ASSUME NEW a \in Seq(Letters), NEW t \in Seq(Letters), NEW x \in Letters, NEW y \in Letters,
           NEW e, e = a \o (<<x, y>> \o t)
    PROVE  TwoStand(a, x, y, t, e)
<1> DEFINE p == <<x, y>>
           r == p \o t
<1>1. p \in Seq(Letters) /\ Len(p) = 2 /\ p[1] = x /\ p[2] = y /\ 1 \in 1..2 /\ 2 \in 1..2
  OBVIOUS
<1> HIDE DEF p
<1>2. /\ r \in Seq(Letters) /\ Len(r) = 2 + Len(t) /\ r[1] = x /\ r[2] = y /\ Len(t) \in Nat
      /\ t # << >> => r[3] = t[1] /\ Len(t) >= 1
  <2>1. /\ r \in Seq(Letters) /\ Len(r) = Len(p) + Len(t)
        /\ \A i \in 1..Len(p) : r[i] = p[i]
        /\ \A i \in 1..Len(t) : r[Len(p) + i] = t[i]
    <3>1. p \in Seq(Letters) /\ t \in Seq(Letters)
      BY <1>1
    <3> QED
      BY <3>1, Behind
  <2>2. Len(t) \in Nat /\ (t # << >> => Len(t) >= 1)
    BY LenProperties, EmptySeq
  <2>3. t # << >> => 1 \in 1..Len(t)
    BY <2>2
  <2>4. t # << >> => r[2 + 1] = t[1]
    BY <1>1, <2>1, <2>3
  <2>5. 2 + 1 = 3
    OBVIOUS
  <2>6. r[1] = x /\ r[2] = y /\ Len(r) = 2 + Len(t)
    BY <1>1, <2>1
  <2>7. t # << >> => r[3] = t[1]
    BY <2>4, <2>5, Zenon
  <2> QED
    BY <2>1, <2>2, <2>6, <2>7
<1> HIDE DEF r
<1>3. /\ a \o r \in Seq(Letters) /\ Len(a \o r) = Len(a) + Len(r) /\ Len(a) \in Nat
      /\ \A i \in 1..Len(r) : (a \o r)[Len(a) + i] = r[i]
  <2>1. a \in Seq(Letters) /\ r \in Seq(Letters)
    BY <1>2
  <2>2. Len(a) \in Nat
    BY LenProperties
  <2> QED
    BY <2>1, <2>2, Behind
<1>4. 1 \in 1..Len(r) /\ 2 \in 1..Len(r) /\ (t # << >> => 3 \in 1..Len(r))
  BY <1>2
<1>5. e = a \o r
  BY DEF r, p
<1>6. e[Len(a) + 1] = x /\ e[Len(a) + 2] = y /\ (t # << >> => e[Len(a) + 3] = t[1])
  BY <1>2, <1>3, <1>4, <1>5
<1>7. a \o p \in Seq(Letters) /\ Len(a \o p) = Len(a) + 2 /\ (a \o p) \o t = a \o r
  <2>1. a \o p \in Seq(Letters) /\ Len(a \o p) = Len(a) + Len(p)
    BY <1>1, Behind
  <2>2. (a \o p) \o t = a \o (p \o t)
    BY <1>1, Together
  <2> QED
    BY <1>1, <2>1, <2>2 DEF r
<1>8. Len(e) = Len(a) + 2 + Len(t)
  BY <1>2, <1>3, <1>5
<1> QED
  BY <1>2, <1>3, <1>5, <1>6, <1>7, <1>8 DEF p, TwoStand

NulsApart(key) ==
    \A i \in 1..(Len(key) - 1) : ~(key[i] = NullByte /\ key[i + 1] \in Digits)

\* What stands first behind a null byte is not a digit.
LEMMA FirstSlashed ==
    ASSUME NEW key \in Seq(KeyCharacters), NulsApart(key), NEW k \in 1..Len(key), key[k] = NullByte,
           SlashedFrom(key, k + 1) # << >>
    PROVE  SlashedFrom(key, k + 1)[1] \notin Digits
<1>1. /\ Len(key) \in Nat /\ \A j \in 1..Len(key) : key[j] \in KeyCharacters
      /\ \A j \in 1..(Len(key) + 1) : SlashedFrom(key, j) \in Seq(Letters)
      /\ \A j \in 1..Len(key) : SlashedFrom(key, j) = Slashed(key[j]) \o SlashedFrom(key, j + 1)
      /\ SlashedFrom(key, Len(key) + 1) = << >>
  BY SlashesAre
<1>2. k # Len(key)
  BY <1>1
<1>3. k + 1 \in 1..Len(key) /\ k \in 1..(Len(key) - 1) /\ k + 2 \in 1..(Len(key) + 1) /\ k + 1 + 1 = k + 2
  BY <1>1, <1>2
<1> DEFINE c == key[k + 1]
           t == SlashedFrom(key, k + 2)
           p == Slashed(c)
<1>4. c \notin Digits /\ c \in KeyCharacters
  BY <1>1, <1>3 DEF NulsApart
<1>5. SlashedFrom(key, k + 1) = p \o t /\ t \in Seq(Letters)
  BY <1>1, <1>3
<1> HIDE DEF c, t
<1>6. p \in Seq(Letters) /\ p[1] \notin Digits /\ Len(p) >= 1 /\ Len(p) \in Nat
  <2>1. /\ p \in Seq(Letters)
        /\ p = <<c>> \/ p = <<Backslashed, c>> \/ p = <<Backslashed, "0">>
    BY <1>4, SlashedIs DEF Backslashed
  <2>2. Backslashed \notin Digits
    BY DEF Backslashed, Digits
  <2> HIDE DEF p
  <2>3. (p[1] = c \/ p[1] = Backslashed) /\ (Len(p) = 1 \/ Len(p) = 2)
    BY <2>1
  <2> QED
    BY <1>4, <2>1, <2>2, <2>3
<1> HIDE DEF p
<1>7. (p \o t)[1] = p[1]
  <2>1. \A i \in 1..Len(p) : (p \o t)[i] = p[i]
    BY <1>5, <1>6, Behind
  <2>2. 1 \in 1..Len(p)
    BY <1>6
  <2> QED
    BY <2>1, <2>2
<1> QED
  BY <1>5, <1>6, <1>7

ComesOff(key, k, e, g, a) ==
    \E b \in Seq(Letters) : /\ e = b \o SlashedFrom(key, k + 1)
                            /\ g[Len(a) + 1] = <<key[k]>> \o g[Len(b) + 1]

LEMMA PieceComesOff ==
    ASSUME NEW key \in Seq(KeyCharacters), NulsApart(key), NEW k \in 1..Len(key),
           NEW e, NEW g, Unslashes(e, g),
           NEW a \in Seq(Letters), e = a \o SlashedFrom(key, k)
    PROVE  ComesOff(key, k, e, g, a)
<1> DEFINE c == key[k]
           t == SlashedFrom(key, k + 1)
           j == Len(a) + 1
<1>1. /\ c \in KeyCharacters /\ t \in Seq(Letters) /\ SlashedFrom(key, k) = Slashed(c) \o t
  <2>1. Len(key) \in Nat
    BY SlashesAre
  <2>2. k + 1 \in 1..(Len(key) + 1)
    BY <2>1
  <2> QED
    BY <2>2, SlashesAre
<1>2. e = a \o (Slashed(c) \o t)
  BY <1>1, Zenon
<1>3. c = NullByte /\ t # << >> => t[1] \notin Digits
  BY FirstSlashed
<1>4. c \in Letters /\ Backslashed \in Letters /\ "0" \in Letters
  BY <1>1 DEF Letters, Backslashed
<1> HIDE DEF c, t
<1>5. CASE c \notin Quotes \cup {"\\", NullByte} /\ Slashed(c) = <<c>>
  <2> DEFINE b == a \o <<c>>
  <2>1. /\ e \in Seq(Letters) /\ Len(a) \in Nat /\ Len(t) \in Nat /\ Len(e) = Len(a) + 1 + Len(t)
        /\ e[j] = c /\ b \in Seq(Letters) /\ b \o t = e /\ Len(b) = Len(a) + 1
    <3>1. e = a \o (<<c>> \o t)
      BY <1>2, <1>5, Zenon
    <3>2. a \in Seq(Letters) /\ t \in Seq(Letters) /\ c \in Letters
      BY <1>1, <1>4
    <3>3. OneStands(a, c, t, e)
      BY <3>1, <3>2, OneIn
    <3> QED
      BY <3>3, Zenon DEF OneStands
  <2> HIDE DEF b
  <2>2. j \in 1..(Len(e) + 2) /\ ~(j > Len(e)) /\ Len(b) + 1 = j + 1
    BY <2>1
  <2>3. c # "\\"
    BY <1>5
  <2>4. g[j] = Unslash(e, g, j)
    BY <2>2 DEF Unslashes
  <2> HIDE DEF j
  <2>5. g[j] = <<c>> \o g[j + 1]
    BY <2>1, <2>2, <2>3, <2>4, Zenon DEF Unslash
  <2> QED
    BY <2>1, <2>2, <2>5, Zenon DEF c, j, t, ComesOff
<1>6. CASE c \in Quotes \cup {"\\"} /\ Slashed(c) = <<"\\", c>>
  <2> DEFINE b == a \o <<Backslashed, c>>
  <2>1. /\ e \in Seq(Letters) /\ Len(a) \in Nat /\ Len(t) \in Nat /\ Len(e) = Len(a) + 2 + Len(t)
        /\ e[j] = Backslashed /\ e[Len(a) + 2] = c /\ b \in Seq(Letters) /\ b \o t = e
        /\ Len(b) = Len(a) + 2
    <3>1. e = a \o (<<Backslashed, c>> \o t)
      BY <1>2, <1>6, Zenon DEF Backslashed
    <3>2. a \in Seq(Letters) /\ t \in Seq(Letters) /\ c \in Letters
      BY <1>1, <1>4
    <3>3. TwoStand(a, Backslashed, c, t, e)
      BY <1>4, <3>1, <3>2, TwoIn
    <3> QED
      BY <3>3, Zenon DEF TwoStand
  <2> HIDE DEF b
  <2>2. /\ j \in 1..(Len(e) + 2) /\ ~(j > Len(e)) /\ Len(b) + 1 = j + 2 /\ j # Len(e)
        /\ Len(a) + 2 = j + 1
    BY <2>1
  <2>3. c \notin Digits
    BY <1>6 DEF Digits, Quotes
  <2>4. g[j] = Unslash(e, g, j)
    BY <2>2 DEF Unslashes
  <2>5. e[j + 1] = c
    BY <2>1, <2>2, Zenon
  <2> HIDE DEF j
  <2>6. g[j] = <<c>> \o g[j + 2]
    BY <2>1, <2>2, <2>3, <2>4, <2>5, Zenon DEF Unslash, Backslashed
  <2> QED
    BY <2>1, <2>2, <2>6, Zenon DEF c, j, t, ComesOff
<1>7. CASE c = NullByte /\ Slashed(c) = <<"\\", "0">>
  <2> DEFINE z == "0"
             b == a \o <<Backslashed, z>>
  <2>1. /\ e \in Seq(Letters) /\ Len(a) \in Nat /\ Len(t) \in Nat /\ Len(e) = Len(a) + 2 + Len(t)
        /\ e[j] = Backslashed /\ e[Len(a) + 2] = z /\ b \in Seq(Letters) /\ b \o t = e
        /\ Len(b) = Len(a) + 2 /\ (t # << >> => e[Len(a) + 3] = t[1])
    <3>1. e = a \o (<<Backslashed, z>> \o t)
      BY <1>2, <1>7, Zenon DEF Backslashed
    <3>2. z \in Letters
      BY <1>4
    <3> HIDE DEF z
    <3>3. a \in Seq(Letters) /\ t \in Seq(Letters)
      BY <1>1
    <3>4. TwoStand(a, Backslashed, z, t, e)
      BY <1>4, <3>1, <3>2, <3>3, TwoIn
    <3> QED
      BY <3>4, Zenon DEF TwoStand
  <2>2. z \in Digits
    BY DEF Digits
  <2> HIDE DEF b
  <2>3. /\ j \in 1..(Len(e) + 2) /\ ~(j > Len(e)) /\ Len(b) + 1 = j + 2 /\ j # Len(e)
        /\ Len(a) + 2 = j + 1 /\ j + 1 \in 1..(Len(e) + 1) /\ j + 1 \in 1..Len(e) /\ j + 1 <= Len(e)
        /\ Len(a) + 3 = j + 1 + 1 /\ j + 1 + 1 = j + 2
    BY <2>1
  <2>4. t = << >> => j + 1 = Len(e)
    <3>1. t = << >> => Len(t) = 0
      OBVIOUS
    <3> QED
      BY <2>1, <3>1
  <2>5. g[j] = Unslash(e, g, j)
    BY <2>3 DEF Unslashes
  <2>6. e[j + 1] = z /\ (j + 1 = Len(e) \/ e[j + 1 + 1] \notin Digits)
    BY <1>3, <1>7, <2>1, <2>3, <2>4, Zenon
  <2> HIDE DEF j, z
  <2>7. OctalsAt(e, j + 1) = 1
    BY <2>1, <2>2, <2>3, <2>6, OctalsAre
  <2>8. SubSeq(e, j + 1, j + 1) = <<z>>
    <3>1. e \in Seq(Letters) /\ j + 1 \in 1..Len(e) /\ Len(e) \in Nat /\ e[j + 1] = z
      BY <2>1, <2>3, <2>6
    <3>2. SubSeq(e, j + 1, j + 1) = <<e[j + 1]>>
      BY <3>1, SingleIs
    <3> QED
      BY <3>1, <3>2, Zenon
  <2>9. j + OctalsAt(e, j + 1) = j + 1 /\ j + 1 + OctalsAt(e, j + 1) = j + 2
    BY <2>3, <2>7
  <2>10. g[j] = <<NullByte>> \o g[j + 2]
    BY <2>1, <2>2, <2>3, <2>5, <2>6, <2>8, <2>9, Zenon DEF Unslash, Backslashed, z
  <2> QED
    BY <1>7, <2>1, <2>3, <2>10, Zenon DEF c, j, t, ComesOff
<1> QED
  BY <1>1, <1>5, <1>6, <1>7, SlashedIs

LEMMA SlashesComeOff ==
    ASSUME NEW key \in Seq(KeyCharacters), NulsApart(key)
    PROVE  StripSlashes(AddSlashes(key)) = key
<1> DEFINE e == AddSlashes(key)
           n == Len(key)
<1>1. /\ n \in Nat /\ e = SlashedFrom(key, 1) /\ e \in Seq(Letters)
      /\ SlashedFrom(key, n + 1) = << >>
      /\ \A k \in 1..n : key[k] \in KeyCharacters
  BY SlashesAre
<1> HIDE DEF e
<1>2. PICK g : Unslashes(e, g) /\ StripSlashes(e) = g[1]
  BY <1>1, StrippedIs
<1> DEFINE Good(k) == \A a \in Seq(Letters) : e = a \o SlashedFrom(key, k) =>
                         g[Len(a) + 1] = SubSeq(key, k, n)
           T == {d \in Nat : d <= n /\ ~Good(n + 1 - d)}
<1>3. T = {}
  <2> SUFFICES ASSUME T # {} PROVE FALSE
    OBVIOUS
  <2>1. PICK d \in T : \A y \in T : d <= y
    <3> HIDE DEF Good
    <3> QED
      BY Smallest
  <2>2. d \in Nat /\ d <= n
    BY <2>1
  <2> DEFINE k == n + 1 - d
  <2>3. ~Good(k)
    BY <2>1
  <2>4. PICK a \in Seq(Letters) : /\ e = a \o SlashedFrom(key, k)
                                  /\ g[Len(a) + 1] # SubSeq(key, k, n)
    BY <2>3
  <2> HIDE DEF Good
  <2>5. CASE d = 0
    <3>1. k = n + 1
      BY <1>1, <2>5
    <3>2. e = a
      <4>1. a \o << >> = a
        BY ConcatEmptySeq
      <4> QED
        BY <1>1, <2>4, <3>1, <4>1, Zenon
    <3>3. Len(a) \in Nat /\ Len(a) + 1 \in 1..(Len(e) + 2) /\ Len(a) + 1 > Len(e)
      BY <3>2, LenProperties
    <3>4. g[Len(a) + 1] = Unslash(e, g, Len(a) + 1)
      BY <1>2, <3>3 DEF Unslashes
    <3>5. g[Len(a) + 1] = << >>
      BY <3>3, <3>4, Zenon DEF Unslash
    <3>6. SubSeq(key, k, n) = << >>
      BY <1>1, <3>1, SubSeqEmpty
    <3> QED
      BY <2>4, <3>5, <3>6, Zenon
  <2>6. CASE d # 0
    <3>1. /\ k \in 1..n /\ d - 1 \in Nat /\ d - 1 <= n /\ ~(d <= d - 1)
          /\ n + 1 - (d - 1) = k + 1 /\ k \in Nat
      BY <1>1, <2>2, <2>6
    <3>2. Good(k + 1)
      BY <2>1, <3>1
    <3> HIDE DEF k
    <3>3. PICK b \in Seq(Letters) : /\ e = b \o SlashedFrom(key, k + 1)
                                    /\ g[Len(a) + 1] = <<key[k]>> \o g[Len(b) + 1]
      <4>1. a \in Seq(Letters) /\ e = a \o SlashedFrom(key, k) /\ k \in 1..Len(key)
        BY <2>4, <3>1
      <4> HIDE DEF n, T, Good
      <4>2. Unslashes(e, g) /\ NulsApart(key) /\ key \in Seq(KeyCharacters)
        BY <1>2
      <4>3. ComesOff(key, k, e, g, a)
        BY <4>1, <4>2, PieceComesOff
      <4> QED
        BY <4>3 DEF ComesOff
    <3>4. g[Len(b) + 1] = SubSeq(key, k + 1, n)
      BY <3>2, <3>3 DEF Good
    <3>5. <<key[k]>> \o SubSeq(key, k + 1, n) = SubSeq(key, k, n)
      <4>1. k - 1 \in Nat /\ k - 1 < n /\ k - 1 + 1 = k /\ k - 1 + 2 = k + 1 /\ << >> \in Seq(KeyCharacters)
        BY <1>1, <3>1
      <4>2. SubSeq(key, k, n) \o << >> = <<key[k]>> \o (SubSeq(key, k + 1, n) \o << >>)
        <5>1. \A i \in Nat : i < n =>
                 SubSeq(key, i + 1, n) \o << >> = <<key[i + 1]>> \o (SubSeq(key, i + 2, n) \o << >>)
          <6>1. key \in Seq(KeyCharacters) /\ << >> \in Seq(KeyCharacters) /\ n = Len(key)
            BY <4>1
          <6> HIDE DEF n
          <6> QED
            BY <6>1, HeadOfRest, Zenon
        <5> QED
          BY <4>1, <5>1, Zenon
      <4>3. SubSeq(key, k, n) \in Seq(KeyCharacters) /\ SubSeq(key, k + 1, n) \in Seq(KeyCharacters)
        BY <1>1, <3>1, SubSeqProperties
      <4> QED
        BY <4>2, <4>3, ConcatEmptySeq
    <3> QED
      BY <2>4, <3>3, <3>4, <3>5, Zenon
  <2> QED
    BY <2>5, <2>6
<1>4. Good(1)
  <2>1. n <= n /\ n + 1 - n = 1
    BY <1>1
  <2> HIDE DEF Good
  <2> QED
    BY <1>1, <1>3, <2>1
<1>5. g[1] = SubSeq(key, 1, n)
  <2> DEFINE o == << >>
  <2>1. o \in Seq(Letters) /\ Len(o) + 1 = 1
    OBVIOUS
  <2>2. e = o \o SlashedFrom(key, 1)
    BY <1>1, ConcatEmptySeq
  <2> HIDE DEF o
  <2> QED
    BY <1>4, <2>1, <2>2
<1>6. SubSeq(key, 1, n) = key
  BY WholeIs
<1> QED
  BY <1>2, <1>5, <1>6 DEF e

-----------------------------------------------------------------------------
(* What is fetched with the name of an item is that item.                  *)

LEMMA OneFirst ==
    ASSUME NEW items, NEW T, NEW i \in Nat, T = {i}
    PROVE  First(items, T) = items[i].value
<1>1. T \in SUBSET Nat /\ T # {}
  OBVIOUS
<1>2. Min(T) \in T
  BY <1>1, MinIs
<1>3. Min(T) = i
  BY <1>2
<1> QED
  BY <1>1, <1>3 DEF First

Alike(items, key) == {i \in DOMAIN items : items[i].key = key}
Keyed(items, number, key) == {i \in DOMAIN items : items[i].number = number /\ items[i].key = key}

LEMMA FetchMoves ==
    ASSUME NEW l, NEW w
    PROVE  /\ l.type = "root" => Fetch(l, w) = FetchRoot(w)
           /\ l.type = "static root" => Fetch(l, w) = FetchStatic(tree.scope.statics, w)
           /\ l.type = "static" /\ l.class # "" => Fetch(l, w) = FetchStatic(l.value.items, w)
           /\ l.type = "property" => Fetch(l, w) = FetchProperty(l.value, w, l.class)
           /\ l.type = "escaped" => Fetch(l, w) = FetchProperty(l.value, StripSlashes(w), l.class)
           /\ l.type = "assoc" /\ l.value.kind = "array" =>
                 Fetch(l, w) = First(l.value.items, Keyed(l.value.items, FALSE, StripSlashes(w)))
           /\ l.type = "number" /\ l.value.kind = "array" =>
                 Fetch(l, w) = First(l.value.items, Keyed(l.value.items, TRUE, w))
<1>1. l.type = "root" => Fetch(l, w) = FetchRoot(w)
  BY DEF Fetch
<1>2. l.type = "static root" => Fetch(l, w) = FetchStatic(tree.scope.statics, w)
  BY DEF Fetch
<1>3. l.type = "static" /\ l.class # "" => Fetch(l, w) = FetchStatic(l.value.items, w)
  BY DEF Fetch
<1>4. l.type = "property" => Fetch(l, w) = FetchProperty(l.value, w, l.class)
  BY DEF Fetch
<1>5. l.type = "escaped" => Fetch(l, w) = FetchProperty(l.value, StripSlashes(w), l.class)
  BY DEF Fetch
<1>6. l.type = "assoc" /\ l.value.kind = "array" =>
         Fetch(l, w) = First(l.value.items, Keyed(l.value.items, FALSE, StripSlashes(w)))
  BY DEF Fetch, Keyed
<1>7. l.type = "number" /\ l.value.kind = "array" =>
         Fetch(l, w) = First(l.value.items, Keyed(l.value.items, TRUE, w))
  BY DEF Fetch, Keyed
<1> QED
  BY <1>1, <1>2, <1>3, <1>4, <1>5, <1>6, <1>7

LEMMA ItemsAre ==
    ASSUME NEW items, AreItems(items)
    PROVE  /\ Len(items) \in Nat /\ DOMAIN items = 1..Len(items) /\ DOMAIN items \subseteq Nat
           /\ \A i \in DOMAIN items : items[i].key \in Seq(KeyCharacters) /\ items[i].value \in ShownValues
<1>1. /\ items \in Seq(ToSet(items))
      /\ \A item \in ToSet(items) : item.key \in Seq(KeyCharacters) /\ item.value \in ShownValues
  BY DEF AreItems
<1>2. Len(items) \in Nat /\ DOMAIN items = 1..Len(items)
  BY <1>1, LenProperties
<1>3. \A i \in DOMAIN items : items[i] \in ToSet(items)
  BY <1>1, <1>2, ElementOfSeq
<1>4. DOMAIN items \subseteq Nat
  BY <1>2
<1> QED
  BY <1>1, <1>2, <1>3, <1>4, Zenon

LEMMA PropertiesAre ==
    ASSUME NEW items, NEW class, AreProperties(items, class)
    PROVE  /\ AreItems(items)
           /\ \A i \in DOMAIN items :
                 /\ items[i].modifier \in {"public", "protected", "private"}
                 /\ items[i].static \in BOOLEAN /\ items[i].of \in ClassNames
                 /\ (items[i].static \/ items[i].modifier # "public") => Declarable(items[i].key)
           /\ \A i, j \in DOMAIN items :
                 items[i].key = items[j].key /\ items[i].static /\ items[j].static => i = j
           /\ \A i, j \in DOMAIN items :
                 /\ items[i].key = items[j].key /\ ~items[i].static /\ ~items[j].static
                 /\ Foreign(items[i], class) /\ Foreign(items[j], class) /\ items[i].of = items[j].of
                 => i = j
           /\ \A i, j \in DOMAIN items :
                 /\ items[i].key = items[j].key /\ ~items[i].static /\ ~items[j].static
                 /\ ~Foreign(items[i], class) /\ ~Foreign(items[j], class)
                 => i = j
           /\ \A i, j \in DOMAIN items : Foreign(items[i], class) => items[j].key # ForeignName(items[i])
BY Zenon DEF AreProperties

LEMMA DeclaredIs ==
    ASSUME NEW key \in Seq(KeyCharacters), Declarable(key), NEW state
    PROVE  key \in Seq(Letters) /\ IsPlain(key, state) /\ ~Starred(key) /\ ~Braced(key)
<1>1. key # << >> /\ \A c \in Marks : c \notin ToSet(key)
  BY DEF Declarable
<1>2. KeyCharacters \subseteq Letters
  BY DEF Letters
<1>3. key \in Seq(Letters)
  BY <1>2
<1>4. key[1] \in ToSet(key)
  BY <1>1, SetOfSeq
<1>5. /\ ToSet(key) \cap {"[", "-", ":"} = {} /\ key[1] \notin {">", "{"} /\ key[1] # "$"
      /\ key[1] # "*" /\ ToSet(key) \cap {"-", "[", "{"} = {}
  BY <1>1, <1>4 DEF Marks
<1>6. IsPlain(key, state)
  BY <1>1, <1>3, <1>5, Zenon DEF IsPlain
<1>7. ~Starred(key)
  BY <1>5, Zenon DEF Starred
<1>8. ~Braced(key)
  BY <1>1, <1>5, Zenon DEF Braced
<1> QED
  BY <1>3, <1>6, <1>7, <1>8

LEMMA ForeignIs ==
    ASSUME NEW item, item.key \in Seq(KeyCharacters), Declarable(item.key), item.of \in ClassNames,
           NEW state
    PROVE  LET w == ForeignName(item)
           IN /\ w \in Seq(Letters) /\ IsPlain(w, state) /\ Starred(w)
              /\ w[2] = item.of /\ SubSeq(w, 4, Len(w)) = item.key
<1> DEFINE star == "*"
           o == item.of
           p == <<star, o, star>>
           key == item.key
           w == p \o key
<1>1. star \in Letters /\ o \in Letters /\ KeyCharacters \subseteq Letters
  BY DEF Letters, Marks
<1>2. key \in Seq(Letters)
  BY <1>1
<1>3. o \notin Marks
  BY TreesAssumption DEF TreesAssumption
<1>4. star \notin {"[", "-", ":", ">", "{", "$"}
  OBVIOUS
<1>5. \A c \in {"[", "-", ":", ">", "{", "$"} : c \notin ToSet(key) /\ c # o
  BY <1>3 DEF Declarable, Marks
<1>6. star = "*"
  OBVIOUS
<1> HIDE DEF o, key, star
<1>7. p \in Seq(Letters) /\ Len(p) = 3 /\ p[1] = star /\ p[2] = o /\ p[3] = star
  BY <1>1
<1> HIDE DEF p
<1>8. /\ w \in Seq(Letters) /\ Len(w) = 3 + Len(key) /\ Len(key) \in Nat
      /\ w[1] = star /\ w[2] = o /\ w[3] = star
      /\ \A i \in 1..Len(key) : w[3 + i] = key[i]
  <2>1. p \in Seq(Letters) /\ key \in Seq(Letters)
    BY <1>2, <1>7
  <2>2. Len(key) \in Nat
    BY <2>1, LenProperties
  <2>3. /\ w \in Seq(Letters) /\ Len(w) = Len(p) + Len(key)
        /\ \A i \in 1..Len(p) : w[i] = p[i]
        /\ \A i \in 1..Len(key) : w[Len(p) + i] = key[i]
    BY <2>1, Behind
  <2>4. 1 \in 1..3 /\ 2 \in 1..3 /\ 3 \in 1..3
    OBVIOUS
  <2> HIDE DEF w
  <2> QED
    BY <1>7, <2>2, <2>3, <2>4
<1>9. SubSeq(w, 4, Len(w)) = key
  <2>1. SubSeq(w, Len(p) + 1, Len(w)) = key
    BY <1>2, <1>7, BehindIs
  <2>2. Len(p) + 1 = 4
    BY <1>7
  <2> QED
    BY <2>1, <2>2, Zenon
<1> HIDE DEF w
<1>10. \A c \in ToSet(w) : c = star \/ c = o \/ c \in ToSet(key)
  <2>1. ASSUME NEW c \in ToSet(w) PROVE c = star \/ c = o \/ c \in ToSet(key)
    <3>1. PICK i \in 1..Len(w) : w[i] = c
      <4>1. PICK i \in DOMAIN w : w[i] = c
        BY DEF ToSet
      <4> QED
        BY <1>8, <4>1, LenProperties
    <3>2. CASE i \in 1..3
      <4>1. i = 1 \/ i = 2 \/ i = 3
        BY <3>2
      <4> QED
        BY <1>8, <3>1, <4>1
    <3>3. CASE i \notin 1..3
      <4>1. i - 3 \in 1..Len(key) /\ 3 + (i - 3) = i
        BY <1>8, <3>3
      <4>2. w[i] = key[i - 3]
        BY <1>8, <4>1
      <4>3. key[i - 3] \in ToSet(key)
        BY <1>2, <4>1, SetOfSeq
      <4> QED
        BY <3>1, <4>2, <4>3
    <3> QED
      BY <3>2, <3>3
  <2> QED
    BY <2>1
<1>11. ToSet(w) \cap {"[", "-", ":"} = {} /\ w[1] \notin {">", "{"} /\ w[1] # "$"
  <2>1. \A c \in {"[", "-", ":"} : c \notin ToSet(w)
    BY <1>4, <1>5, <1>10
  <2> QED
    BY <1>4, <1>8, <2>1
<1>12. w # << >> /\ Len(w) >= 3
  <2>1. Len(w) >= 3
    BY <1>8
  <2>2. Len(<< >>) = 0
    OBVIOUS
  <2> QED
    BY <2>1, <2>2
<1>13. IsPlain(w, state)
  BY <1>8, <1>11, <1>12, Zenon DEF IsPlain
<1>14. Starred(w)
  BY <1>6, <1>8, <1>12, Zenon DEF Starred
<1>15. w = ForeignName(item)
  BY Zenon DEF w, p, star, o, key, ForeignName
<1> QED
  BY <1>8, <1>9, <1>13, <1>14, <1>15, Zenon DEF o, key

\* What PropertyName() is, without the braces.
LEMMA NamesAre ==
    ASSUME NEW item, NEW class
    PROVE  /\ Foreign(item, class) => PropertyName(item, class) = ForeignName(item)
           /\ ~Foreign(item, class) /\ ~Braced(item.key) => PropertyName(item, class) = item.key
           /\ ~Foreign(item, class) /\ Braced(item.key) =>
                 PropertyName(item, class)
                    = <<"{", "\"">> \o AddSlashes(item.key) \o <<"\"", "}">>
<1>1. Foreign(item, class) => PropertyName(item, class) = ForeignName(item)
  BY DEF PropertyName
<1>2. ~Foreign(item, class) /\ ~Braced(item.key) => PropertyName(item, class) = item.key
  BY DEF PropertyName
<1>3. ~Foreign(item, class) /\ Braced(item.key) =>
                 PropertyName(item, class)
                    = <<"{", "\"">> \o AddSlashes(item.key) \o <<"\"", "}">>
  BY DEF PropertyName
<1> QED
  BY <1>1, <1>2, <1>3, Zenon

Spoken(w) == IF Starred(w) THEN SubSeq(w, 4, Len(w)) ELSE w

LEMMA StaticIsFetched ==
    ASSUME NEW items, NEW class, AreProperties(items, class), NEW i \in DOMAIN items, items[i].static,
           NEW state
    PROVE  /\ FetchStatic(items, PropertyName(items[i], class)) = items[i].value
           /\ IsPlain(PropertyName(items[i], class), state)
<1> DEFINE item == items[i]
           w == PropertyName(item, class)
           T == {j \in DOMAIN items : items[j].static /\ items[j].key = Spoken(w)}
<1>1. /\ AreItems(items) /\ Declarable(item.key) /\ item.of \in ClassNames
      /\ \A j \in DOMAIN items : items[i].key = items[j].key /\ items[i].static /\ items[j].static => i = j
  BY PropertiesAre
<1>2. item.key \in Seq(KeyCharacters) /\ i \in Nat
  BY <1>1, ItemsAre
<1>3. Spoken(w) = item.key /\ IsPlain(w, state)
  <2> HIDE DEF item
  <2>1. CASE Foreign(item, class)
    <3>1. w = ForeignName(item)
      BY <2>1, NamesAre
    <3> DEFINE f == ForeignName(item)
    <3>2. IsPlain(f, state) /\ Starred(f) /\ SubSeq(f, 4, Len(f)) = item.key
      BY <1>1, <1>2, ForeignIs
    <3> HIDE DEF w, f
    <3>3. w = f
      BY <3>1 DEF f
    <3> QED
      BY <3>2, <3>3, Zenon DEF Spoken
  <2>2. CASE ~Foreign(item, class)
    <3>1. IsPlain(item.key, state) /\ ~Starred(item.key) /\ ~Braced(item.key)
      BY <1>1, <1>2, DeclaredIs
    <3>2. w = item.key
      BY <2>2, <3>1, NamesAre
    <3> HIDE DEF w
    <3> QED
      BY <3>1, <3>2, Zenon DEF Spoken
  <2> QED
    BY <2>1, <2>2
<1> HIDE DEF w
<1>4. T = {i}
  BY <1>1, <1>3
<1>5. FetchStatic(items, w) = First(items, T)
  BY Zenon DEF FetchStatic, Spoken
<1>6. First(items, T) = item.value
  <2> HIDE DEF T
  <2> QED
    BY <1>2, <1>4, OneFirst
<1> QED
  BY <1>3, <1>5, <1>6, Zenon DEF w, item

Dynamic(items)         == {j \in DOMAIN items : ~items[j].static}
Public(items, w)       == {j \in Dynamic(items) : items[j].modifier = "public" /\ items[j].key = w}
PrivateOf(items, w)    == {j \in Dynamic(items) : /\ Starred(w) /\ items[j].modifier = "private"
                                                  /\ items[j].of = w[2]
                                                  /\ items[j].key = SubSeq(w, 4, Len(w))}
Scoped(items, w, class) == {j \in Dynamic(items) : /\ class # "" /\ items[j].key = w
                                                   /\ items[j].modifier = "protected" \/ items[j].of = class}

LEMMA PropertyMoves ==
    ASSUME NEW v, NEW w, NEW class, v.kind = "object"
    PROVE  /\ Public(v.items, w) # {} => FetchProperty(v, w, class) = First(v.items, Public(v.items, w))
           /\ Public(v.items, w) = {} /\ PrivateOf(v.items, w) # {} =>
                 FetchProperty(v, w, class) = First(v.items, PrivateOf(v.items, w))
           /\ Public(v.items, w) = {} /\ PrivateOf(v.items, w) = {} =>
                 FetchProperty(v, w, class) = First(v.items, Scoped(v.items, w, class))
<1> DEFINE public  == {i \in {i \in DOMAIN v.items : ~v.items[i].static} :
                         v.items[i].modifier = "public" /\ v.items[i].key = w}
           private == {i \in {i \in DOMAIN v.items : ~v.items[i].static} :
                         /\ Starred(w) /\ v.items[i].modifier = "private"
                         /\ v.items[i].of = w[2] /\ v.items[i].key = SubSeq(w, 4, Len(w))}
           scoped  == {i \in {i \in DOMAIN v.items : ~v.items[i].static} :
                         /\ class # "" /\ v.items[i].key = w
                         /\ v.items[i].modifier = "protected" \/ v.items[i].of = class}
<1>1. public = Public(v.items, w) /\ private = PrivateOf(v.items, w) /\ scoped = Scoped(v.items, w, class)
  BY Zenon DEF Public, PrivateOf, Scoped, Dynamic
<1>2. FetchProperty(v, w, class) =
         CASE v.kind # "object" -> Undefined
           [] v.kind = "object" /\ public # {} -> First(v.items, public)
           [] v.kind = "object" /\ public = {} ->
                First(v.items, IF private # {} THEN private ELSE scoped)
  BY Zenon DEF FetchProperty
<1> HIDE DEF public, private, scoped
<1>3. public # {} => FetchProperty(v, w, class) = First(v.items, public)
  BY <1>2
<1>4. public = {} => FetchProperty(v, w, class) = First(v.items, IF private # {} THEN private ELSE scoped)
  BY <1>2
<1> QED
  BY <1>1, <1>3, <1>4, Zenon

Called(item, class) == IF Foreign(item, class) THEN ForeignName(item) ELSE item.key

LEMMA DynamicIsFetched ==
    ASSUME NEW v, v.kind = "object", v.class # "", AreProperties(v.items, v.class),
           NEW i \in DOMAIN v.items, ~v.items[i].static
    PROVE  FetchProperty(v, Called(v.items[i], v.class), v.class) = v.items[i].value
<1> DEFINE items == v.items
           class == v.class
           item == items[i]
           w == Called(item, class)
           public == Public(items, w)
           private == PrivateOf(items, w)
           scoped == Scoped(items, w, class)
<1>1. /\ AreItems(items) /\ class # ""
      /\ \A j \in DOMAIN items :
            /\ items[j].modifier \in {"public", "protected", "private"}
            /\ (items[j].static \/ items[j].modifier # "public") => Declarable(items[j].key)
            /\ items[j].of \in ClassNames
      /\ \A j, k \in DOMAIN items :
            /\ items[j].key = items[k].key /\ ~items[j].static /\ ~items[k].static
            /\ Foreign(items[j], class) /\ Foreign(items[k], class) /\ items[j].of = items[k].of
            => j = k
      /\ \A j, k \in DOMAIN items :
            /\ items[j].key = items[k].key /\ ~items[j].static /\ ~items[k].static
            /\ ~Foreign(items[j], class) /\ ~Foreign(items[k], class)
            => j = k
      /\ \A j, k \in DOMAIN items : Foreign(items[j], class) => items[k].key # ForeignName(items[j])
  BY PropertiesAre
<1>2. i \in Nat /\ item.key \in Seq(KeyCharacters)
  BY <1>1, ItemsAre
<1>3. \A j \in DOMAIN items : Foreign(items[j], class) <=> items[j].modifier = "private" /\ items[j].of # class
  BY DEF Foreign
<1>4. \A j \in Dynamic(items) : j \in DOMAIN items /\ ~items[j].static
  BY DEF Dynamic
<1>5. i \in Dynamic(items) /\ i \in DOMAIN items
  BY DEF Dynamic
<1>6. /\ public # {} => FetchProperty(v, w, class) = First(items, public)
      /\ public = {} /\ private # {} => FetchProperty(v, w, class) = First(items, private)
      /\ public = {} /\ private = {} => FetchProperty(v, w, class) = First(items, scoped)
  BY PropertyMoves, Zenon
<1>7. CASE Foreign(item, class)
  <2>1. w = ForeignName(item)
    BY <1>7, Zenon DEF Called
  <2>2. item.modifier = "private" /\ item.of # class
    BY <1>3, <1>7
  <2>3. Declarable(item.key) /\ item.of \in ClassNames
    BY <1>1, <2>2
  <2> HIDE DEF w
  <2>4. Starred(w) /\ w[2] = item.of /\ SubSeq(w, 4, Len(w)) = item.key
    <3> HIDE DEF item
    <3> DEFINE f == ForeignName(item)
    <3>1. Starred(f) /\ f[2] = item.of /\ SubSeq(f, 4, Len(f)) = item.key
      BY <1>2, <2>3, ForeignIs
    <3>2. w = f
      BY <2>1
    <3> HIDE DEF f
    <3> QED
      BY <3>1, <3>2, Zenon
  <2>5. public = {}
    <3>1. ASSUME NEW j \in public PROVE FALSE
      <4>1. j \in DOMAIN items /\ items[j].key = w
        BY <1>4 DEF Public
      <4> QED
        BY <1>1, <1>5, <1>7, <2>1, <4>1, Zenon
    <3> QED
      BY <3>1
  <2>6. private = {i}
    <3>1. i \in private
      BY <1>5, <2>2, <2>4, Zenon DEF PrivateOf
    <3>2. ASSUME NEW j \in private PROVE j = i
      <4>1. /\ j \in Dynamic(items) /\ items[j].modifier = "private" /\ items[j].of = w[2]
            /\ items[j].key = SubSeq(w, 4, Len(w))
        BY Zenon DEF PrivateOf
      <4>2. j \in DOMAIN items /\ ~items[j].static
        BY <1>4, <4>1
      <4>3. Foreign(items[j], class)
        BY <1>3, <2>2, <2>4, <4>1, <4>2, Zenon
      <4>4. items[j].key = items[i].key /\ items[j].of = items[i].of
        BY <2>4, <4>1, Zenon
      <4> QED
        BY <1>1, <1>5, <1>7, <4>2, <4>3, <4>4, Zenon
    <3> HIDE DEF private
    <3> QED
      BY <3>1, <3>2
  <2> HIDE DEF private, public
  <2>7. First(items, private) = items[i].value
    BY <1>2, <2>6, OneFirst
  <2>8. private # {}
    BY <2>6
  <2> QED
    BY <1>6, <2>5, <2>7, <2>8, Zenon DEF w
<1>8. CASE ~Foreign(item, class)
  <2>1. w = item.key
    BY <1>8, Zenon DEF Called
  <2> HIDE DEF w
  <2>2. \A j \in Dynamic(items) : items[j].key = w /\ ~Foreign(items[j], class) => j = i
    BY <1>1, <1>4, <1>5, <1>8, <2>1, Zenon
  <2>3. CASE item.modifier = "public"
    <3>1. i \in public
      BY <1>5, <2>1, <2>3, Zenon DEF Public
    <3>2. ASSUME NEW j \in public PROVE j = i
      <4>1. j \in Dynamic(items) /\ items[j].modifier = "public" /\ items[j].key = w
        BY Zenon DEF Public
      <4>2. "public" # "private"
        OBVIOUS
      <4>3. ~Foreign(items[j], class)
        BY <1>3, <1>4, <4>1, <4>2, Zenon
      <4> QED
        BY <2>2, <4>1, <4>3
    <3> HIDE DEF public
    <3>3. public = {i}
      BY <3>1, <3>2
    <3>4. First(items, public) = items[i].value
      BY <1>2, <3>3, OneFirst
    <3>5. public # {}
      BY <3>3
    <3> QED
      BY <1>6, <3>4, <3>5, Zenon DEF w
  <2>4. CASE item.modifier # "public"
    <3>1. Declarable(item.key)
      BY <1>1, <2>4
    <3>2. ~Starred(w)
      <4> HIDE DEF item
      <4> QED
        BY <1>2, <2>1, <3>1, DeclaredIs
    <3>3. public = {}
      <4>1. ASSUME NEW j \in public PROVE FALSE
        <5>1. j \in Dynamic(items) /\ items[j].modifier = "public" /\ items[j].key = w
          BY Zenon DEF Public
        <5>2. "public" # "private"
          OBVIOUS
        <5>3. ~Foreign(items[j], class)
          BY <1>3, <1>4, <5>1, <5>2, Zenon
        <5> QED
          BY <2>2, <2>4, <5>1, <5>3
      <4> QED
        BY <4>1
    <3>4. private = {}
      BY <3>2 DEF PrivateOf
    <3>5. i \in scoped
      <4>1. item.modifier = "protected" \/ item.of = class
        BY <1>1, <1>3, <1>8, <2>4
      <4> QED
        BY <1>1, <1>5, <2>1, <4>1, Zenon DEF Scoped
    <3>6. ASSUME NEW j \in scoped PROVE j = i
      <4>1. /\ j \in Dynamic(items) /\ items[j].key = w
            /\ items[j].modifier = "protected" \/ items[j].of = class
        BY Zenon DEF Scoped
      <4>2. "protected" # "private"
        OBVIOUS
      <4>3. ~Foreign(items[j], class)
        BY <1>3, <1>4, <4>1, <4>2, Zenon
      <4> QED
        BY <2>2, <4>1, <4>3
    <3> HIDE DEF scoped, public, private
    <3>7. scoped = {i}
      BY <3>5, <3>6
    <3>8. First(items, scoped) = items[i].value
      BY <1>2, <3>7, OneFirst
    <3> QED
      BY <1>6, <3>3, <3>4, <3>8, Zenon DEF w
  <2> QED
    BY <2>3, <2>4
<1> QED
  BY <1>7, <1>8

LEMMA FetchingsAre ==
    ASSUME NEW class, NEW v, NEW w
    PROVE  /\ Fetching("root", class, v, w, FetchRoot(w))
           /\ Fetching("static root", class, v, w, FetchStatic(tree.scope.statics, w))
           /\ class # "" => Fetching("static", class, v, w, FetchStatic(v.items, w))
           /\ Fetching("property", class, v, w, FetchProperty(v, w, class))
           /\ Fetching("escaped", class, v, w, FetchProperty(v, StripSlashes(w), class))
           /\ v.kind = "array" =>
                 /\ Fetching("assoc", class, v, w, First(v.items, Keyed(v.items, FALSE, StripSlashes(w))))
                 /\ Fetching("number", class, v, w, First(v.items, Keyed(v.items, TRUE, w)))
<1>1. ASSUME NEW type, NEW x,
             \A l : l.type = type /\ l.class = class /\ l.value = v => Fetch(l, w) = x
      PROVE  Fetching(type, class, v, w, x)
  <2>1. ASSUME NEW at, NEW state, NEW from, NEW quote
        PROVE  Fetch(Lexer(at, state, from, type, class, quote, v), w) = x
    <3> DEFINE l == Lexer(at, state, from, type, class, quote, v)
    <3>1. l.type = type /\ l.class = class /\ l.value = v
      BY LexerHas
    <3> HIDE DEF l
    <3>2. Fetch(l, w) = x
      BY <1>1, <3>1, Zenon
    <3> QED
      BY <3>2 DEF l
  <2> QED
    BY <2>1 DEF Fetching
<1>2. Fetching("root", class, v, w, FetchRoot(w))
  BY <1>1, FetchMoves, ZenonT(30)
<1>3. Fetching("static root", class, v, w, FetchStatic(tree.scope.statics, w))
  BY <1>1, FetchMoves, ZenonT(30)
<1>4. class # "" => Fetching("static", class, v, w, FetchStatic(v.items, w))
  BY <1>1, FetchMoves, ZenonT(30)
<1>5. Fetching("property", class, v, w, FetchProperty(v, w, class))
  BY <1>1, FetchMoves, ZenonT(30)
<1>6. Fetching("escaped", class, v, w, FetchProperty(v, StripSlashes(w), class))
  BY <1>1, FetchMoves, ZenonT(30)
<1>7. v.kind = "array" =>
         Fetching("assoc", class, v, w, First(v.items, Keyed(v.items, FALSE, StripSlashes(w))))
  BY <1>1, FetchMoves, ZenonT(30)
<1>8. v.kind = "array" =>
         Fetching("number", class, v, w, First(v.items, Keyed(v.items, TRUE, w)))
  BY <1>1, FetchMoves, ZenonT(30)
<1> QED
  BY <1>2, <1>3, <1>4, <1>5, <1>6, <1>7, <1>8

LEMMA TreeIs ==
    ASSUME NEW t \in Trees
    PROVE  /\ AreItems(t.variables) /\ AreProperties(t.statics, t.class)
           /\ \A i \in DOMAIN t.variables : Declarable(t.variables[i].key)
           /\ \A i, j \in DOMAIN t.variables : t.variables[i].key = t.variables[j].key => i = j
           /\ \A i \in DOMAIN t.statics : t.statics[i].static /\ t.class \in ClassNames
           /\ t.scope.class = t.class => t.scope.statics = t.statics
           /\ t.special.returned # Undefined => t.special.returned \in ShownValues
           /\ t.special.raised # Undefined => t.special.raised \in ShownValues
<1>1. AreVariables(t.variables) /\ AreProperties(t.statics, t.class)
      /\ (\A i \in DOMAIN t.statics : t.statics[i].static /\ t.class \in ClassNames)
      /\ (t.scope.class = t.class => t.scope.statics = t.statics)
      /\ {t.special.returned, t.special.between, t.special.raised} \subseteq ShownValues \cup {Undefined}
  BY TreesAssumption, Zenon DEF TreesAssumption
<1>2. /\ t.special.returned # Undefined => t.special.returned \in ShownValues
      /\ t.special.raised # Undefined => t.special.raised \in ShownValues
  BY <1>1
<1> QED
  BY <1>1, <1>2, Zenon DEF AreVariables

LEMMA ClassIsNamed == "" \notin ClassNames
BY TreesAssumption DEF TreesAssumption

\* What is read of a special name is the special value, and nothing else is called so.
LEMMA SpecialNames ==
    /\ ReturnName \in Seq(KeyCharacters) /\ ExceptionName \in Seq(KeyCharacters)
    /\ Declarable(ReturnName) /\ Declarable(ExceptionName)
    /\ tree.special.returned # Undefined => FetchRoot(ReturnName) = tree.special.returned
    /\ tree.special.raised # Undefined => FetchRoot(ExceptionName) = tree.special.raised
<1>1. /\ ReturnName = <<"_", "_", "R">> /\ ExceptionName = <<"_", "_", "E">>
      /\ ReturnName # << >> /\ ExceptionName # << >>
  BY DEF ReturnName, ExceptionName
<1>2. DOMAIN <<"_", "_", "R">> = 1..3 /\ DOMAIN <<"_", "_", "E">> = 1..3
  OBVIOUS
<1>3. ToSet(ReturnName) = {"_", "R"} /\ ToSet(ExceptionName) = {"_", "E"}
  <2>1. 1..3 = {1, 2, 3}
    OBVIOUS
  <2>2. \A c, d : <<c, c, d>>[1] = c /\ <<c, c, d>>[2] = c /\ <<c, c, d>>[3] = d
    OBVIOUS
  <2>3. \A f : {f[i] : i \in {1, 2, 3}} = {f[1], f[2], f[3]}
    OBVIOUS
  <2>4. \A c, d : {c, c, d} = {c, d}
    OBVIOUS
  <2>5. \A f : DOMAIN f = 1..3 => ToSet(f) = {f[1], f[2], f[3]}
    BY <2>1, <2>3, Zenon DEF ToSet
  <2>6. ToSet(ReturnName) = {ReturnName[1], ReturnName[2], ReturnName[3]}
    BY <1>1, <1>2, <2>5, Zenon
  <2>7. ToSet(ExceptionName) = {ExceptionName[1], ExceptionName[2], ExceptionName[3]}
    BY <1>1, <1>2, <2>5, Zenon
  <2> QED
    BY <1>1, <2>2, <2>4, <2>6, <2>7, Zenon
<1>4. ReturnName \in Seq(KeyCharacters) /\ ExceptionName \in Seq(KeyCharacters)
  <2>1. ToSet(ReturnName) \cup ToSet(ExceptionName) \subseteq KeyCharacters
    BY TreesAssumption, Zenon DEF TreesAssumption
  <2>2. "_" \in KeyCharacters /\ "R" \in KeyCharacters /\ "E" \in KeyCharacters
    BY <1>3, <2>1
  <2>3. \A c, d \in KeyCharacters : <<c, c, d>> \in Seq(KeyCharacters)
    OBVIOUS
  <2> QED
    BY <1>1, <2>2, <2>3, Zenon
<1>5. Declarable(ReturnName) /\ Declarable(ExceptionName)
  <2>1. ReturnName # << >> /\ ExceptionName # << >>
    BY <1>1
  <2>2. {"_", "R"} \cap Marks = {} /\ {"_", "E"} \cap Marks = {}
    BY DEF Marks
  <2> QED
    BY <1>3, <2>1, <2>2, Zenon DEF Declarable
<1>6. /\ StartsName(ReturnName, ReturnName) /\ StartsName(ExceptionName, ExceptionName)
      /\ ~StartsName(ExceptionName, ReturnName)
  <2>1. 3 \in DOMAIN ExceptionName
    <3>1. 3 \in 1..3
      OBVIOUS
    <3> QED
      BY <1>1, <1>2, <3>1, Zenon
  <2>2. \A c, d, e : <<c, d, e>>[3] = e
    OBVIOUS
  <2>3. ExceptionName[3] = "E" /\ ReturnName[3] = "R"
    BY <1>1, <2>2, Zenon
  <2>4. "E" # "R"
    OBVIOUS
  <2> QED
    BY <2>1, <2>3, <2>4, Zenon DEF StartsName
<1>7. tree.special.returned # Undefined => FetchRoot(ReturnName) = tree.special.returned
  BY <1>6, Zenon DEF FetchRoot, MeansReturned, Means
<1>8. tree.special.raised # Undefined => FetchRoot(ExceptionName) = tree.special.raised
  <2>1. ~MeansReturned(ExceptionName)
    BY <1>6, Zenon DEF MeansReturned, Means
  <2>2. tree.special.raised # Undefined => MeansRaised(ExceptionName)
    BY <1>6, Zenon DEF MeansRaised, Means
  <2> QED
    BY <2>1, <2>2, Zenon DEF FetchRoot
<1> QED
  BY <1>4, <1>5, <1>7, <1>8

LEMMA DollarIsFound ==
    ASSUME NEW key \in Seq(KeyCharacters), Declarable(key)
    PROVE  Found(<<"$">> \o key, FetchRoot(key))
<1> DEFINE x == FetchRoot(key)
<1>1. IsPlain(key, 0)
  BY DeclaredIs
<1>2. Fetching("root", NoClass, Undefined, key, x)
  BY FetchingsAre
<1> HIDE DEF x
<1> QED
  BY <1>1, <1>2, VariableIsFound DEF x

LEMMA VariableShown ==
    ASSUME tree \in Trees, NEW k \in DOMAIN tree.variables
    PROVE  LET key == tree.variables[k].key
           IN Found(<<"$">> \o key, FetchRoot(key)) /\ FetchRoot(key) \in ShownValues
<1> DEFINE items == tree.variables
           key == items[k].key
           T == Alike(items, key)
<1>1. /\ AreItems(items) /\ Declarable(key)
      /\ \A i, j \in DOMAIN items : items[i].key = items[j].key => i = j
      /\ tree.special.returned # Undefined => tree.special.returned \in ShownValues
      /\ tree.special.raised # Undefined => tree.special.raised \in ShownValues
  BY TreeIs
<1>2. k \in Nat /\ key \in Seq(KeyCharacters) /\ items[k].value \in ShownValues
  BY <1>1, ItemsAre
<1>3. Found(<<"$">> \o key, FetchRoot(key))
  <2> HIDE DEF key
  <2> QED
    BY <1>1, <1>2, DollarIsFound
<1>4. T = {k}
  BY <1>1 DEF Alike
<1>5. First(items, T) = items[k].value
  <2> HIDE DEF T
  <2> QED
    BY <1>2, <1>4, OneFirst
<1>6. FetchRoot(key) \in ShownValues
  <2>1. CASE MeansReturned(key)
    BY <1>1, <2>1, Zenon DEF FetchRoot, MeansReturned, Means
  <2>2. CASE ~MeansReturned(key) /\ MeansRaised(key)
    BY <1>1, <2>2, Zenon DEF FetchRoot, MeansRaised, Means
  <2>3. CASE ~MeansReturned(key) /\ ~MeansRaised(key)
    <3>1. FetchRoot(key) = First(items, T)
      BY <2>3, Zenon DEF FetchRoot, Alike
    <3> QED
      BY <1>2, <1>5, <3>1, Zenon
  <2> QED
    BY <2>1, <2>2, <2>3, Zenon
<1> QED
  BY <1>3, <1>6

LEMMA StaticShown ==
    ASSUME tree \in Trees, NEW k \in DOMAIN tree.statics, tree.scope.class = tree.class
    PROVE  /\ Found(<<":", ":">> \o PropertyName(tree.statics[k], tree.class), tree.statics[k].value)
           /\ tree.statics[k].value \in ShownValues
<1> DEFINE items == tree.statics
           class == tree.class
           w == PropertyName(items[k], class)
           x == items[k].value
<1>1. /\ AreProperties(items, class) /\ items[k].static /\ class \in ClassNames
      /\ tree.scope.statics = items
  BY TreeIs
<1>2. x \in ShownValues
  BY <1>1, PropertiesAre, ItemsAre
<1>3. class # NoClass /\ class = tree.class /\ class = tree.scope.class
  BY <1>1, ClassIsNamed DEF NoClass
<1>4. FetchStatic(items, w) = x /\ IsPlain(w, 7)
  BY <1>1, StaticIsFetched
<1>5. Fetching(StaticRoot, class, Undefined, w, x)
  <2>1. Fetching("static root", class, Undefined, w, FetchStatic(tree.scope.statics, w))
    BY FetchingsAre
  <2> QED
    BY <1>1, <1>4, <2>1, Zenon DEF StaticRoot
<1> HIDE DEF w, class
<1>6. Found(<<":", ":">> \o w, x)
  BY <1>3, <1>4, <1>5, StaticIsFound
<1> QED
  BY <1>2, <1>6 DEF w, class

LEMMA ValueIs ==
    ASSUME NEW v \in ShownValues
    PROVE  /\ v.kind = "array" => AreElements(v.items)
           /\ v.kind = "object" => v.class \in ClassNames /\ AreProperties(v.items, v.class)
BY TreesAssumption DEF TreesAssumption

LEMMA ElementsAre ==
    ASSUME NEW items, AreElements(items)
    PROVE  /\ AreItems(items)
           /\ \A i \in DOMAIN items : items[i].number \in BOOLEAN
                                     /\ (items[i].number => Numeral(items[i].key))
           /\ \A i, j \in DOMAIN items :
                 items[i].key = items[j].key /\ items[i].number = items[j].number => i = j
BY Zenon DEF AreElements

LEMMA KeyedIs ==
    ASSUME NEW items, AreElements(items), NEW i \in DOMAIN items
    PROVE  /\ items[i].number => First(items, Keyed(items, TRUE, items[i].key)) = items[i].value
           /\ ~items[i].number => First(items, Keyed(items, FALSE, items[i].key)) = items[i].value
<1>1. /\ AreItems(items) /\ items[i].number \in BOOLEAN
      /\ \A j \in DOMAIN items :
            items[i].key = items[j].key /\ items[i].number = items[j].number => i = j
  BY ElementsAre
<1>2. i \in Nat
  BY <1>1, ItemsAre
<1> DEFINE T == Keyed(items, items[i].number, items[i].key)
<1>3. i \in T
  BY Zenon DEF Keyed
<1>4. ASSUME NEW j \in T PROVE j = i
  <2>1. j \in DOMAIN items /\ items[j].number = items[i].number /\ items[j].key = items[i].key
    BY Zenon DEF Keyed
  <2> QED
    BY <1>1, <2>1, Zenon
<1> HIDE DEF T
<1>5. T = {i}
  BY <1>3, <1>4
<1>6. First(items, T) = items[i].value
  BY <1>2, <1>5, OneFirst
<1>7. items[i].number => T = Keyed(items, TRUE, items[i].key)
  <2>1. items[i].number => items[i].number = TRUE
    BY <1>1, Zenon
  <2> QED
    BY <2>1, Zenon DEF T
<1>8. ~items[i].number => T = Keyed(items, FALSE, items[i].key)
  <2>1. ~items[i].number => items[i].number = FALSE
    BY <1>1, Zenon
  <2> QED
    BY <2>1, Zenon DEF T
<1> QED
  BY <1>6, <1>7, <1>8, Zenon

LEMMA ElementIsFound ==
    ASSUME NEW n, NEW v \in ShownValues, Found(n, v), v.kind = "array",
           NEW i \in DOMAIN v.items, NulsApart(v.items[i].key)
    PROVE  Found(ElementName(n, v.items[i]), v.items[i].value)
<1> DEFINE items == v.items
           item == items[i]
           key == item.key
           x == item.value
<1>1. AreElements(items)
  BY ValueIs
<1>2. /\ AreItems(items) /\ item.number \in BOOLEAN /\ (item.number => Numeral(key))
  BY <1>1, ElementsAre
<1>3. key \in Seq(KeyCharacters)
  BY <1>2, ItemsAre
<1>4. key \in Seq(Letters) /\ AddSlashes(key) \in Seq(Letters)
  <2>1. KeyCharacters \subseteq Letters
    BY DEF Letters
  <2>2. AddSlashes(key) \in Seq(Letters)
    <3> HIDE DEF key
    <3> QED
      BY <1>3, SlashesAre
  <2> QED
    BY <1>3, <2>1, <2>2
<1>5. ClassOf(v) = NoClass
  <2>1. "array" # "object"
    OBVIOUS
  <2> QED
    BY <2>1, Zenon DEF ClassOf, NoClass
<1>6. n \in Seq(Letters)
  BY Opened
<1>7. CASE item.number
  <2>1. Fetching("number", NoClass, v, key, x)
    <3>1. Fetching("number", NoClass, v, key, First(v.items, Keyed(v.items, TRUE, key)))
      BY FetchingsAre
    <3>2. First(items, Keyed(items, TRUE, key)) = x
      BY <1>1, <1>7, KeyedIs, Zenon
    <3> QED
      BY <3>1, <3>2, Zenon
  <2>2. Numeral(key)
    BY <1>2, <1>7
  <2>3. ElementName(n, item) = ((n \o <<"[">>) \o key) \o <<"]">>
    BY <1>7, Zenon DEF ElementName
  <2> HIDE DEF key, x
  <2>4. Found(((n \o <<"[">>) \o key) \o <<"]">>, x)
    BY <1>4, <1>5, <2>1, <2>2, NumberedIsFound
  <2> QED
    BY <2>3, <2>4, Zenon DEF x
<1>8. CASE ~item.number
  <2> DEFINE w == AddSlashes(key)
             b == "["
             e == "]"
  <2>1. Fetching("assoc", NoClass, v, w, x)
    <3>1. Fetching("assoc", NoClass, v, w, First(v.items, Keyed(v.items, FALSE, StripSlashes(w))))
      BY FetchingsAre
    <3>2. First(items, Keyed(items, FALSE, key)) = x
      BY <1>1, <1>8, KeyedIs, Zenon
    <3>3. StripSlashes(w) = key
      <4> HIDE DEF key
      <4>1. NulsApart(key)
        BY DEF key
      <4> QED
        BY <1>3, <4>1, SlashesComeOff
    <3> QED
      BY <3>1, <3>2, <3>3, Zenon
  <2>2. ElementName(n, item) = ((n \o <<b, QuoteMark>>) \o w) \o <<QuoteMark, e>>
    BY <1>8, Zenon DEF ElementName, QuoteMark
  <2> HIDE DEF key, x
  <2>3. Found(((((n \o <<b>>) \o <<QuoteMark>>) \o w) \o <<QuoteMark>>) \o <<e>>, x)
    BY <1>3, <1>5, <2>1, KeyedIsFound
  <2> HIDE DEF w
  <2>4. b \in Letters /\ e \in Letters /\ QuoteMark \in Letters
    BY MarksAreLetters
  <2> HIDE DEF b, e
  <2>5. w \in Seq(Letters)
    BY <1>4 DEF w
  <2>6. n \o <<b, QuoteMark>> = (n \o <<b>>) \o <<QuoteMark>>
    BY <1>6, <2>4, TwoBehind
  <2> DEFINE p == (n \o <<b, QuoteMark>>) \o w
  <2>7. p \in Seq(Letters)
    <3>1. <<b, QuoteMark>> \in Seq(Letters)
      BY <2>4
    <3>2. n \o <<b, QuoteMark>> \in Seq(Letters)
      BY <1>6, <3>1, ConcatProperties
    <3> QED
      BY <2>5, <3>2, ConcatProperties
  <2>8. p \o <<QuoteMark, e>> = (p \o <<QuoteMark>>) \o <<e>>
    <3> HIDE DEF p
    <3> QED
      BY <2>4, <2>7, TwoBehind
  <2> QED
    BY <2>2, <2>3, <2>6, <2>8, Zenon DEF x
<1> QED
  BY <1>7, <1>8

LEMMA UnbracedIs ==
    ASSUME NEW key \in Seq(Letters), ~Braced(key), ":" \notin ToSet(key), key[1] # ">"
    PROVE  IsPlain(key, 2)
<1>1. key # << >> /\ ToSet(key) \cap {"-", "[", "{"} = {}
  BY DEF Braced
<1>2. key[1] \in ToSet(key)
  BY <1>1, SetOfSeq
<1>3. ToSet(key) \cap {"[", "-", ":"} = {} /\ key[1] \notin {">", "{"}
  BY <1>1, <1>2
<1>4. 2 # 0
  OBVIOUS
<1> QED
  BY <1>1, <1>3, <1>4, Zenon DEF IsPlain

LEMMA StaticMemberIsFound ==
    ASSUME NEW n, NEW v \in ShownValues, Found(n, v), v.kind = "object",
           NEW i \in DOMAIN v.items, v.items[i].static
    PROVE  Found(MemberName(n, v.items[i], v.class), v.items[i].value)
<1> DEFINE class == v.class
           items == v.items
           x == items[i].value
           w == PropertyName(items[i], class)
           colon == ":"
           type == "static"
<1>1. class \in ClassNames /\ AreProperties(items, class)
  BY ValueIs
<1>2. class # "" /\ ClassOf(v) = class
  BY <1>1, ClassIsNamed DEF ClassOf
<1>3. FetchStatic(items, w) = x /\ IsPlain(w, 8)
  BY <1>1, StaticIsFetched
<1>4. IsMember(colon, colon, 8, type)
  BY DEF IsMember
<1>5. Fetching(type, class, v, w, x)
  <2>1. Fetching("static", class, v, w, FetchStatic(v.items, w))
    BY <1>2, FetchingsAre
  <2> QED
    BY <1>3, <2>1, Zenon
<1>6. MemberName(n, items[i], class) = (n \o <<colon, colon>>) \o w
  BY Zenon DEF MemberName
<1> HIDE DEF w, x, class, type, colon
<1>7. Fetching(type, ClassOf(v), v, w, x)
  BY <1>2, <1>5, Zenon
<1>8. Found((n \o <<colon, colon>>) \o w, x)
  BY <1>3, <1>4, <1>7, MemberIsFound
<1> QED
  BY <1>6, <1>8, Zenon DEF x, class

LEMMA PlainMemberIsFound ==
    ASSUME NEW n, NEW v, Found(n, v), NEW w, IsPlain(w, 2), NEW x,
           NEW class, class = ClassOf(v), FetchProperty(v, w, class) = x
    PROVE  Found((n \o <<"-", ">">>) \o w, x)
<1> DEFINE dash == "-"
           tip == ">"
           type == "property"
<1>1. IsMember(dash, tip, 2, type)
  BY DEF IsMember
<1>2. Fetching(type, ClassOf(v), v, w, x)
  <2>1. Fetching("property", ClassOf(v), v, w, FetchProperty(v, w, ClassOf(v)))
    BY FetchingsAre
  <2> QED
    BY <2>1, Zenon
<1> HIDE DEF type, dash, tip
<1>3. Found((n \o <<dash, tip>>) \o w, x)
  BY <1>1, <1>2, MemberIsFound
<1> QED
  BY <1>3 DEF dash, tip

LEMMA BracedMemberIsFound ==
    ASSUME NEW n, NEW v, Found(n, v), NEW key \in Seq(KeyCharacters), NulsApart(key), NEW x,
           NEW class, class = ClassOf(v), FetchProperty(v, key, class) = x
    PROVE  Found((n \o <<"-", ">">>) \o (<<"{", "\"">> \o AddSlashes(key) \o <<"\"", "}">>), x)
<1> DEFINE m == n \o <<"-", ">">>
           w == AddSlashes(key)
           open == "{"
           close == "}"
           p == ((m \o <<open>>) \o <<QuoteMark>>) \o w
<1>1. Fetching("escaped", ClassOf(v), v, w, x)
  <2>1. Fetching("escaped", ClassOf(v), v, w, FetchProperty(v, StripSlashes(w), ClassOf(v)))
    BY FetchingsAre
  <2>2. StripSlashes(w) = key
    BY SlashesComeOff
  <2> QED
    BY <2>1, <2>2, Zenon
<1>2. Found((p \o <<QuoteMark>>) \o <<close>>, x)
  BY <1>1, EscapedIsFound
<1>3. m \in Seq(Letters) /\ w \in Seq(Letters)
  <2>1. n \in Seq(Letters)
    BY Opened
  <2> DEFINE dash == "-"
             tip == ">"
  <2>2. dash \in Letters /\ tip \in Letters
    BY MarksAreLetters
  <2> HIDE DEF dash, tip
  <2>3. <<dash, tip>> \in Seq(Letters)
    BY <2>2
  <2>4. <<"-", ">">> \in Seq(Letters)
    BY <2>3, Zenon DEF dash, tip
  <2> QED
    BY <2>1, <2>4, SlashesAre, ConcatProperties
<1>4. open \in Letters /\ close \in Letters /\ QuoteMark \in Letters
  BY MarksAreLetters
<1> DEFINE a == <<open, QuoteMark>>
           b == <<QuoteMark, close>>
<1> HIDE DEF open, close, w, m
<1>5. a \in Seq(Letters) /\ b \in Seq(Letters) /\ <<open>> \in Seq(Letters)
  BY <1>4
<1>6. m \o a = (m \o <<open>>) \o <<QuoteMark>>
  BY <1>3, <1>4, TwoBehind
<1> HIDE DEF a
<1>7. p = (m \o a) \o w /\ p \in Seq(Letters)
  <2>1. m \o a \in Seq(Letters)
    BY <1>3, <1>5, ConcatProperties
  <2>2. (m \o a) \o w \in Seq(Letters)
    BY <1>3, <2>1, ConcatProperties
  <2> QED
    BY <1>6, <2>2, Zenon
<1> HIDE DEF p
<1>8. p \o b = (p \o <<QuoteMark>>) \o <<close>>
  <2>1. p \in Seq(Letters)
    BY <1>7
  <2> QED
    BY <1>4, <2>1, TwoBehind
<1> HIDE DEF b
<1>9. m \o ((a \o w) \o b) = p \o b
  <2>1. a \o w \in Seq(Letters) /\ m \o a \in Seq(Letters)
    BY <1>3, <1>5, ConcatProperties
  <2>2. (m \o (a \o w)) \o b = m \o ((a \o w) \o b)
    <3>1. m \in Seq(Letters) /\ a \o w \in Seq(Letters) /\ b \in Seq(Letters)
      BY <1>3, <1>5, <2>1
    <3> QED
      BY <3>1, LettersTogether, Zenon
  <2>3. (m \o a) \o w = m \o (a \o w)
    <3>1. m \in Seq(Letters) /\ a \in Seq(Letters) /\ w \in Seq(Letters)
      BY <1>3, <1>5
    <3> QED
      BY <3>1, LettersTogether, Zenon
  <2> QED
    BY <1>7, <2>2, <2>3, Zenon
<1>10. Found(m \o ((a \o w) \o b), x)
  BY <1>2, <1>8, <1>9, Zenon
<1> QED
  BY <1>10, Zenon DEF m, a, w, b, open, close, QuoteMark

LEMMA MemberIsReached ==
    ASSUME NEW n, NEW v \in ShownValues, Found(n, v), v.kind = "object",
           NEW i \in DOMAIN v.items, Sayable(v, v.items[i])
    PROVE  Found(MemberName(n, v.items[i], v.class), v.items[i].value)
<1> DEFINE class == v.class
           items == v.items
           item == items[i]
           key == item.key
           x == item.value
           w == PropertyName(item, class)
<1>1. class \in ClassNames /\ AreProperties(items, class)
  BY ValueIs
<1>2. class # "" /\ ClassOf(v) = class
  BY <1>1, ClassIsNamed DEF ClassOf
<1>3. CASE item.static
  BY <1>3, StaticMemberIsFound
<1>4. CASE ~item.static
  <2>1. MemberName(n, item, class) = (n \o <<"-", ">">>) \o w
    BY <1>4, Zenon DEF MemberName
  <2>2. FetchProperty(v, Called(item, class), class) = x
    BY <1>1, <1>2, <1>4, DynamicIsFetched
  <2>3. /\ AreItems(items) /\ item.of \in ClassNames
        /\ (item.modifier # "public") => Declarable(key)
    BY <1>1, PropertiesAre
  <2>4. key \in Seq(KeyCharacters)
    BY <2>3, ItemsAre
  <2>5. /\ ~Braced(key) => ":" \notin ToSet(key) /\ key[1] # ">"
        /\ NulsApart(key)
    BY Zenon DEF Sayable, NulsApart
  <2>6. KeyCharacters \subseteq Letters
    BY DEF Letters
  <2>7. Foreign(item, class) => item.modifier = "private"
    BY DEF Foreign
  <2>8. CASE Foreign(item, class)
    <3>1. Declarable(key)
      BY <2>3, <2>7, <2>8
    <3> HIDE DEF item
    <3>2. IsPlain(ForeignName(item), 2)
      BY <2>3, <2>4, <3>1, ForeignIs
    <3>3. w = ForeignName(item) /\ Called(item, class) = ForeignName(item)
      BY <2>8, NamesAre, Zenon DEF Called
    <3> DEFINE f == ForeignName(item)
    <3>4. IsPlain(f, 2) /\ FetchProperty(v, f, class) = x /\ w = f
      BY <2>2, <3>2, <3>3, Zenon
    <3> HIDE DEF f, x, w, class
    <3>5. Found((n \o <<"-", ">">>) \o f, x)
      BY <1>2, <3>4, PlainMemberIsFound
    <3> QED
      BY <2>1, <3>4, <3>5, Zenon DEF x, class, item
  <2>9. CASE ~Foreign(item, class) /\ ~Braced(key)
    <3>1. key \in Seq(Letters)
      BY <2>4, <2>6
    <3> DEFINE f == key
    <3>2. w = f /\ Called(item, class) = f
      BY <2>9, NamesAre, Zenon DEF Called
    <3>3. FetchProperty(v, f, class) = x
      BY <2>2, <3>2, Zenon
    <3>4. f \in Seq(Letters) /\ ~Braced(f) /\ ":" \notin ToSet(f) /\ f[1] # ">"
      BY <2>5, <2>9, <3>1
    <3> HIDE DEF f, x, w, class
    <3>5. IsPlain(f, 2)
      BY <3>4, UnbracedIs
    <3>6. Found((n \o <<"-", ">">>) \o f, x)
      BY <1>2, <3>3, <3>5, PlainMemberIsFound
    <3> QED
      BY <2>1, <3>2, <3>6, Zenon DEF x, class
  <2>10. CASE ~Foreign(item, class) /\ Braced(key)
    <3> DEFINE f == key
    <3>1. w = (<<"{", "\"">> \o AddSlashes(f) \o <<"\"", "}">>) /\ Called(item, class) = f
      BY <2>10, NamesAre, Zenon DEF Called
    <3>2. FetchProperty(v, f, class) = x /\ f \in Seq(KeyCharacters) /\ NulsApart(f)
      BY <2>2, <2>4, <2>5, <3>1, Zenon
    <3> HIDE DEF f, x, w, class
    <3>3. Found((n \o <<"-", ">">>) \o (<<"{", "\"">> \o AddSlashes(f) \o <<"\"", "}">>), x)
      BY <1>2, <3>2, BracedMemberIsFound
    <3> QED
      BY <2>1, <3>1, <3>3, Zenon DEF x, class
  <2> QED
    BY <2>8, <2>9, <2>10
<1> QED
  BY <1>3, <1>4

LEMMA ChildIsFound ==
    ASSUME NEW n, NEW v \in ShownValues, Found(n, v), HasItems(v),
           NEW i \in DOMAIN v.items, Sayable(v, v.items[i])
    PROVE  Found(ChildName(n, v, v.items[i]), v.items[i].value) /\ v.items[i].value \in ShownValues
<1>1. CASE v.kind = "array"
  <2>1. AreItems(v.items)
    BY <1>1, ValueIs, ElementsAre
  <2>2. NulsApart(v.items[i].key)
    BY Zenon DEF Sayable, NulsApart
  <2>3. Found(ElementName(n, v.items[i]), v.items[i].value)
    BY <1>1, <2>2, ElementIsFound
  <2>4. ChildName(n, v, v.items[i]) = ElementName(n, v.items[i])
    BY <1>1, Zenon DEF ChildName
  <2> QED
    BY <2>1, <2>3, <2>4, ItemsAre
<1>2. CASE v.kind = "object"
  <2>1. AreItems(v.items)
    BY <1>2, ValueIs, PropertiesAre
  <2>2. Found(MemberName(n, v.items[i], v.class), v.items[i].value)
    BY <1>2, MemberIsReached
  <2>3. ChildName(n, v, v.items[i]) = MemberName(n, v.items[i], v.class)
    <3>1. "object" # "array"
      OBVIOUS
    <3> QED
      BY <1>2, <3>1, Zenon DEF ChildName
  <2> QED
    BY <2>1, <2>2, <2>3, ItemsAre
<1>3. v.kind = "array" \/ v.kind = "object"
  BY DEF HasItems
<1> QED
  BY <1>1, <1>2, <1>3

-----------------------------------------------------------------------------
(* A name is looked up a character at a time.                              *)

Ends(n, r, v) ==
    \E from, type, class, quote, val :
        /\ r[Len(n) + 1] = Lexer(Len(n) + 1, 1, from, type, class, quote, val)
        /\ Settled(Lexer(Len(n) + 1, 1, from, type, class, quote, val), n, v)
LooksUp(n, v, l) ==
    \E r : /\ n \in Seq(Letters) /\ IsRun(n, r) /\ Ends(n, r, v)
           /\ l.at \in 1..(Len(n) + 1) /\ l = r[l.at]

LEMMA LookupStarts ==
    ASSUME NEW n, NEW v, Found(n, v)
    PROVE  LooksUp(n, v, Plain)
<1>1. PICK from, type, class, quote, val :
         /\ At(n, 1, from, type, class, quote, val)
         /\ Settled(Lexer(Len(n) + 1, 1, from, type, class, quote, val), n, v)
  BY DEF Found
<1> DEFINE l == Lexer(Len(n) + 1, 1, from, type, class, quote, val)
<1>2. n \in Seq(Letters) /\ Len(n) \in Nat /\ Reached(n, l)
  BY <1>1, AtIs
<1>3. PICK r : IsRun(n, r) /\ r[Len(n) + 1] = l
  BY <1>2 DEF Reached
<1>4. Ends(n, r, v)
  BY <1>1, <1>3 DEF Ends
<1>5. r[1] = Plain
  BY <1>3 DEF IsRun
<1>6. Plain.at = 1
  BY DEF Plain
<1>7. 1 \in 1..(Len(n) + 1)
  BY <1>2
<1> QED
  BY <1>2, <1>3, <1>4, <1>5, <1>6, <1>7, Zenon DEF LooksUp

LEMMA LookupGoesOn ==
    ASSUME NEW n, NEW v, NEW l, LooksUp(n, v, l), l.at <= Len(n)
    PROVE  LooksUp(n, v, Advance(n, l, n[l.at]))
<1>1. PICK r : /\ n \in Seq(Letters) /\ IsRun(n, r) /\ Ends(n, r, v)
               /\ l.at \in 1..(Len(n) + 1) /\ l = r[l.at]
  BY DEF LooksUp
<1> DEFINE i == l.at
<1>2. i \in 1..Len(n) /\ i + 1 \in 1..(Len(n) + 1)
  BY <1>1, LenProperties
<1>3. r[i + 1] = Advance(n, l, n[i]) /\ IsLexer(r[i + 1], i + 1)
  <2>1. /\ \A j \in 1..(Len(n) + 1) : IsLexer(r[j], j)
        /\ \A j \in 1..Len(n) : r[j + 1] = Advance(n, r[j], n[j])
    BY <1>1 DEF IsRun
  <2> HIDE DEF i
  <2>2. l = r[i]
    BY <1>1 DEF i
  <2> QED
    BY <1>2, <2>1, <2>2
<1>4. r[i + 1].at = i + 1
  BY <1>3 DEF IsLexer
<1> DEFINE m == Advance(n, l, n[l.at])
<1>5. m = r[i + 1]
  BY <1>3
<1> HIDE DEF m, i
<1>6. m.at = i + 1 /\ m = r[m.at]
  BY <1>4, <1>5, Zenon
<1>7. LooksUp(n, v, m)
  BY <1>1, <1>2, <1>6, Zenon DEF LooksUp
<1> QED
  BY <1>7 DEF m

\* A name that is found does not make the script fail.
LEMMA LookupIsSound ==
    ASSUME NEW n, NEW v, NEW l, LooksUp(n, v, l)
    PROVE  l.state # NoScope
<1>1. PICK r : /\ n \in Seq(Letters) /\ IsRun(n, r) /\ Ends(n, r, v)
               /\ l.at \in 1..(Len(n) + 1) /\ l = r[l.at]
  BY DEF LooksUp
<1>2. /\ \A j \in 1..(Len(n) + 1) : IsLexer(r[j], j)
      /\ \A j \in 1..Len(n) : r[j + 1] = Advance(n, r[j], n[j])
      /\ Len(n) \in Nat
  BY <1>1, LenProperties DEF IsRun
<1>3. r[Len(n) + 1].state # NoScope
  <2>1. PICK from, type, class, quote, val :
          r[Len(n) + 1] = Lexer(Len(n) + 1, 1, from, type, class, quote, val)
    BY <1>1, Zenon DEF Ends
  <2> QED
    BY <2>1, LexerHas DEF NoScope
<1>4. ASSUME NEW j \in 1..Len(n), r[j].state = NoScope
      PROVE  r[j + 1].state = NoScope
  <2> DEFINE m == r[j]
  <2>1. m.state = 15 /\ IsLexer(m, j)
    BY <1>2, <1>4 DEF NoScope
  <2>2. r[j + 1] = Advance(n, m, n[j])
    BY <1>2
  <2> HIDE DEF m
  <2>3. Step(n, m, n[j]) = m
    BY <2>1 DEF Step
  <2>4. Advance(n, m, n[j]) = [m EXCEPT !.at = m.at + 1]
    BY <2>3, Zenon DEF Advance
  <2>5. [m EXCEPT !.at = m.at + 1].state = m.state
    BY <2>1 DEF IsLexer, LexerFields
  <2> QED
    BY <2>1, <2>2, <2>4, <2>5, Zenon DEF NoScope
<1>5. ASSUME l.state = NoScope PROVE FALSE
  <2> DEFINE T == {j \in 1..(Len(n) + 1) : l.at < j /\ r[j].state # NoScope}
             i == Min(T)
  <2>1. l.at # Len(n) + 1 /\ l.at \in Nat
    BY <1>1, <1>3, <1>5
  <2>2. Len(n) + 1 \in T /\ T \subseteq Nat
    BY <1>1, <1>2, <1>3, <2>1
  <2>3. i \in T /\ \A j \in T : i <= j
    <3> HIDE DEF T
    <3> QED
      BY <2>2, MinIs
  <2> HIDE DEF i
  <2>4. i \in 2..(Len(n) + 1) /\ i - 1 \in 1..Len(n) /\ l.at <= i - 1 /\ r[i].state # NoScope
    BY <1>1, <2>1, <2>3
  <2>5. i - 1 \notin T
    BY <2>3, <2>4
  <2>6. r[i - 1].state = NoScope
    <3>1. CASE l.at = i - 1
      BY <1>1, <1>5, <3>1
    <3>2. CASE l.at # i - 1
      BY <2>1, <2>4, <2>5, <3>2
    <3> QED
      BY <3>1, <3>2
  <2>7. r[(i - 1) + 1].state = NoScope /\ (i - 1) + 1 = i
    BY <1>4, <2>4, <2>6
  <2> QED
    BY <2>4, <2>7
<1> QED
  BY <1>5

LEMMA LookupEnds ==
    ASSUME NEW n, NEW v, NEW l, LooksUp(n, v, l), l.at > Len(n)
    PROVE  Fetched(n, l, TRUE).value = v
<1>1. PICK r : /\ n \in Seq(Letters) /\ IsRun(n, r) /\ Ends(n, r, v)
               /\ l.at \in 1..(Len(n) + 1) /\ l = r[l.at]
  BY DEF LooksUp
<1>2. l.at = Len(n) + 1
  BY <1>1, LenProperties
<1>3. PICK from, type, class, quote, val :
        /\ r[Len(n) + 1] = Lexer(Len(n) + 1, 1, from, type, class, quote, val)
        /\ Settled(Lexer(Len(n) + 1, 1, from, type, class, quote, val), n, v)
  BY <1>1, Zenon DEF Ends
<1> DEFINE k == Lexer(Len(n) + 1, 1, from, type, class, quote, val)
           m == Lexer(Len(n) + 1, 1, 0, type, ClassOf(v), quote, v)
<1>4. l = k
  BY <1>1, <1>2, <1>3, Zenon
<1>5. Fetches(n, k, m, v)
  BY <1>3, FetchesAre
<1>6. m.value = v
  BY LexerHas
<1> HIDE DEF k, m
<1>7. Fetched(n, k, TRUE) = m
  BY <1>5 DEF Fetches
<1> QED
  BY <1>4, <1>6, <1>7, Zenon

LEMMA SameFetch ==
    ASSUME tree' = tree
    PROVE  \A l, w : Fetch(l, w)' = Fetch(l, w)
<1>1. \A w : FetchRoot(w)' = FetchRoot(w)
  BY Zenon DEF FetchRoot, MeansReturned, MeansRaised
<1> QED
  BY <1>1, Zenon DEF Fetch

LEMMA SameStep ==
    ASSUME tree' = tree
    PROVE  /\ \A n, l, k : Fetched(n, l, k)' = Fetched(n, l, k)
           /\ \A n, l, c : Step(n, l, c)' = Step(n, l, c)
<1>1. \A n, l, k : Fetched(n, l, k)' = Fetched(n, l, k)
  BY SameFetch, Zenon DEF Fetched
<1>2. \A n, l, c : Name(n, l, c)' = Name(n, l, c)
  BY <1>1, Zenon DEF Name
<1>3. \A n, l, c, e, a : InQuotes(n, l, c, e, a)' = InQuotes(n, l, c, e, a)
  BY <1>1, Zenon DEF InQuotes
<1>4. ASSUME NEW n, NEW l, NEW c PROVE Step(n, l, c)' = Step(n, l, c)
  <2>0. Fetched(n, l, TRUE)' = Fetched(n, l, TRUE)
    BY <1>1, Zenon
  <2>1. l.state = 0 => Step(n, l, c)' = Step(n, l, c)
    BY <1>2 DEF Step
  <2>2. l.state = 1 => Step(n, l, c)' = Step(n, l, c)
    BY <1>2 DEF Step
  <2>3. l.state = 2 => Step(n, l, c)' = Step(n, l, c)
    BY DEF Step
  <2>4. l.state = 3 => Step(n, l, c)' = Step(n, l, c)
    BY DEF Step
  <2>5. l.state = 4 => Step(n, l, c)' = Step(n, l, c)
    BY <1>3 DEF Step
  <2>6. l.state = 5 => Step(n, l, c)' = Step(n, l, c)
    BY DEF Step
  <2>7. l.state = 6 => Step(n, l, c)' = Step(n, l, c)
    <3> DEFINE m == Fetched(n, l, TRUE)
    <3>1. l.state = 6 => Step(n, l, c) = (IF c = "]" THEN To(m, 1) ELSE l)
      BY DEF Step
    <3>2. l.state = 6 => Step(n, l, c)' = (IF c = "]" THEN To(m', 1) ELSE l)
      BY DEF Step
    <3>3. m' = m
      BY <2>0
    <3> HIDE DEF m
    <3> QED
      BY <3>1, <3>2, <3>3
  <2>8. l.state = 7 => Step(n, l, c)' = Step(n, l, c)
    BY DEF Step
  <2>9. l.state = 8 => Step(n, l, c)' = Step(n, l, c)
    BY DEF Step
  <2>10. l.state = 9 => Step(n, l, c)' = Step(n, l, c)
    BY DEF Step
  <2>11. l.state = 10 => Step(n, l, c)' = Step(n, l, c)
    BY DEF Step
  <2>12. l.state = 11 => Step(n, l, c)' = Step(n, l, c)
    BY DEF Step
  <2>13. l.state = 12 => Step(n, l, c)' = Step(n, l, c)
    BY <1>3 DEF Step
  <2>14. l.state = 13 => Step(n, l, c)' = Step(n, l, c)
    BY DEF Step
  <2>15. l.state = 14 => Step(n, l, c)' = Step(n, l, c)
    BY DEF Step
  <2>16. l.state \notin {0, 1, 2, 3, 4, 5, 6, 7, 8, 9, 10, 11, 12, 13, 14} => Step(n, l, c)' = Step(n, l, c)
    BY DEF Step
  <2> QED
    BY <2>1, <2>2, <2>3, <2>4, <2>5, <2>6, <2>7, <2>8,
       <2>9, <2>10, <2>11, <2>12, <2>13, <2>14, <2>15, <2>16
<1> QED
  BY <1>1, <1>4

LEMMA SameTree ==
    ASSUME tree' = tree
    PROVE  /\ \A n, v : Found(n, v)' <=> Found(n, v)
           /\ \A n, v, l : LooksUp(n, v, l)' <=> LooksUp(n, v, l)
<1>1. \A n, l, c : Advance(n, l, c)' = Advance(n, l, c)
  BY SameStep, Zenon DEF Advance
<1>2. \A n, r : IsRun(n, r)' <=> IsRun(n, r)
  BY <1>1, Zenon DEF IsRun
<1>3. \A n, l : Reached(n, l)' <=> Reached(n, l)
  BY <1>2, Zenon DEF Reached
<1>4. \A n, state, from, type, class, quote, val :
         At(n, state, from, type, class, quote, val)' <=> At(n, state, from, type, class, quote, val)
  BY <1>3, Zenon DEF At
<1>5. \A l, n, v : Settled(l, n, v)' <=> Settled(l, n, v)
  BY SameFetch, Zenon DEF Settled
<1>6. \A n, r, v : Ends(n, r, v)' <=> Ends(n, r, v)
  BY <1>5 DEF Ends
<1>7. \A n, v : Found(n, v)' <=> Found(n, v)
  BY <1>4, <1>5, ZenonT(30) DEF Found
<1>8. \A n, v, l : LooksUp(n, v, l)' <=> LooksUp(n, v, l)
  BY <1>2, <1>6, Zenon DEF LooksUp
<1> QED
  BY <1>7, <1>8

-----------------------------------------------------------------------------
(* Pages.                                                                  *)

LEMMA PartIs ==
    ASSUME NEW S, NEW q \in Seq(S), NEW a \in 0..Len(q), NEW b \in a..Len(q)
    PROVE  /\ SubSeq(q, a + 1, b) \in Seq(S) /\ Len(SubSeq(q, a + 1, b)) = b - a
           /\ \A i \in 1..(b - a) : SubSeq(q, a + 1, b)[i] = q[a + i]
<1> DEFINE p == SubSeq(q, a + 1, b)
<1>1. Len(q) \in Nat /\ a \in Nat /\ b \in Nat /\ a <= b /\ b <= Len(q)
  BY LenProperties
<1>2. a + 1 \in Int /\ b \in Int /\ \A i \in (a + 1)..b : q[i] \in S
  BY <1>1, ElementOfSeq
<1>3. /\ p \in Seq(S) /\ Len(p) = (IF a + 1 <= b THEN b - (a + 1) + 1 ELSE 0)
      /\ \A i \in 1..(b - (a + 1) + 1) : p[i] = q[(a + 1) + i - 1]
  BY <1>2, SubSeqProperties
<1> HIDE DEF p
<1>4. Len(p) = b - a
  BY <1>1, <1>3
<1>5. ASSUME NEW i \in 1..(b - a) PROVE p[i] = q[a + i]
  <2>1. i \in 1..(b - (a + 1) + 1) /\ (a + 1) + i - 1 = a + i
    BY <1>1
  <2> QED
    BY <1>3, <2>1
<1> QED
  BY <1>3, <1>4, <1>5 DEF p

LEMMA PartsMeet ==
    ASSUME NEW S, NEW q \in Seq(S), NEW a \in 0..Len(q), NEW b \in a..Len(q)
    PROVE  SubSeq(q, 1, a) \o SubSeq(q, a + 1, b) = SubSeq(q, 1, b)
<1> DEFINE p == SubSeq(q, 1, a)
           r == SubSeq(q, a + 1, b)
           w == SubSeq(q, 1, b)
           u == p \o r
<1>1. Len(q) \in Nat /\ a \in Nat /\ b \in Nat /\ a <= b /\ b <= Len(q)
  BY LenProperties
<1>2. p \in Seq(S) /\ Len(p) = a /\ \A i \in 1..a : p[i] = q[i]
  <2>1. 0 \in 0..Len(q) /\ a \in 0..Len(q) /\ 0 + 1 = 1 /\ a - 0 = a /\ \A i \in 1..a : 0 + i = i
    BY <1>1
  <2>2. /\ SubSeq(q, 0 + 1, a) \in Seq(S) /\ Len(SubSeq(q, 0 + 1, a)) = a - 0
        /\ \A i \in 1..(a - 0) : SubSeq(q, 0 + 1, a)[i] = q[0 + i]
    BY <2>1, PartIs
  <2> QED
    BY <2>1, <2>2
<1>3. w \in Seq(S) /\ Len(w) = b /\ \A i \in 1..b : w[i] = q[i]
  <2>1. 0 \in 0..Len(q) /\ b \in 0..Len(q) /\ 0 + 1 = 1 /\ b - 0 = b /\ \A i \in 1..b : 0 + i = i
    BY <1>1
  <2>2. /\ SubSeq(q, 0 + 1, b) \in Seq(S) /\ Len(SubSeq(q, 0 + 1, b)) = b - 0
        /\ \A i \in 1..(b - 0) : SubSeq(q, 0 + 1, b)[i] = q[0 + i]
    BY <2>1, PartIs
  <2> QED
    BY <2>1, <2>2
<1>4. r \in Seq(S) /\ Len(r) = b - a /\ \A i \in 1..(b - a) : r[i] = q[a + i]
  BY PartIs
<1> HIDE DEF p, r, w
<1>5. /\ u \in Seq(S) /\ Len(u) = Len(p) + Len(r)
      /\ \A i \in 1..Len(p) : u[i] = p[i]
      /\ \A i \in 1..Len(r) : u[Len(p) + i] = r[i]
  <2>1. p \in Seq(S) /\ r \in Seq(S)
    BY <1>2, <1>4
  <2> QED
    BY <2>1, Behind
<1> HIDE DEF u
<1>6. Len(u) = b
  BY <1>1, <1>2, <1>4, <1>5
<1>7. ASSUME NEW i \in 1..b PROVE u[i] = w[i]
  <2>1. CASE i <= a
    <3>1. i \in 1..a
      BY <1>1, <2>1
    <3> QED
      BY <1>2, <1>3, <1>5, <3>1
  <2>2. CASE ~(i <= a)
    <3>1. i - a \in 1..(b - a) /\ a + (i - a) = i
      BY <1>1, <2>2
    <3>2. u[a + (i - a)] = r[i - a] /\ r[i - a] = q[a + (i - a)]
      BY <1>2, <1>4, <1>5, <3>1
    <3> QED
      BY <1>3, <3>1, <3>2
  <2> QED
    BY <2>1, <2>2
<1>8. u = w
  BY <1>3, <1>5, <1>6, <1>7, SeqEqual
<1> QED
  BY <1>8 DEF u, p, r, w

Numbered(items) == [i \in DOMAIN items |-> <<i, items[i]>>]
Lesser(a, b)    == IF a <= b THEN a ELSE b
Covers(s, items, n) ==
    IF MaxDepth = 0 THEN s = << >> ELSE s = SubSeq(Numbered(items), 1, Lesser(n, Len(items)))

LEMMA LesserIs ==
    ASSUME NEW a \in Nat, NEW b \in Nat
    PROVE  Min({a, b}) = Lesser(a, b) /\ Lesser(a, b) \in 0..b /\ Lesser(a, b) \in 0..a
<1>1. {a, b} \in SUBSET Nat /\ {a, b} # {}
  OBVIOUS
<1>2. Min({a, b}) \in {a, b} /\ \A y \in {a, b} : Min({a, b}) <= y
  BY <1>1, MinIs
<1>3. Min({a, b}) = Lesser(a, b)
  BY <1>2 DEF Lesser
<1>4. Lesser(a, b) \in 0..b /\ Lesser(a, b) \in 0..a
  BY DEF Lesser
<1> QED
  BY <1>3, <1>4

LEMMA NumberedIs ==
    ASSUME NEW S, NEW items \in Seq(S)
    PROVE  /\ Numbered(items) \in Seq(Nat \X S) /\ Len(Numbered(items)) = Len(items)
           /\ Len(items) \in Nat /\ DOMAIN items = 1..Len(items)
           /\ \A i \in 1..Len(items) : Numbered(items)[i] = <<i, items[i]>>
<1> DEFINE t == Numbered(items)
           P == Nat \X S
<1>1. Len(items) \in Nat /\ DOMAIN items = 1..Len(items)
  BY LenProperties
<1>2. t = [i \in 1..Len(items) |-> <<i, items[i]>>]
  BY <1>1, Zenon DEF Numbered
<1>3. \A i \in 1..Len(items) : i \in Nat /\ items[i] \in S
  BY <1>1, ElementOfSeq
<1>4. \A i \in 1..Len(items) : <<i, items[i]>> \in P
  BY <1>3
<1> HIDE DEF P
<1>5. t \in [1..Len(items) -> P]
  BY <1>2, <1>4
<1>6. t \in Seq(P) /\ Len(t) = Len(items)
  BY <1>1, <1>5, SeqDef, LenProperties
<1>7. \A i \in 1..Len(items) : t[i] = <<i, items[i]>>
  BY <1>2
<1> QED
  BY <1>1, <1>6, <1>7 DEF P

LEMMA SliceIs ==
    ASSUME NEW S, NEW items \in Seq(S), NEW page \in Nat
    PROVE  /\ MaxChildren * page \in Nat
           /\ Slice(items, 0, page)
                 = SubSeq(Numbered(items), MaxChildren * page + 1,
                          Lesser(MaxChildren * page + MaxChildren, Len(items)))
           /\ Slice(items, 1, page) = SubSeq(Numbered(items), 1, Lesser(MaxChildren, Len(items)))
<1>1. MaxChildren \in Nat /\ Len(items) \in Nat
  BY ExportBoundsAssumption, LenProperties DEF ExportBoundsAssumption
<1> DEFINE first == MaxChildren * page
<1>2. first \in Nat
  BY <1>1
<1> HIDE DEF first
<1>3. Min({first + MaxChildren, Len(items)}) = Lesser(first + MaxChildren, Len(items))
  <2>1. first + MaxChildren \in Nat
    BY <1>1, <1>2
  <2> QED
    BY <1>1, <2>1, LesserIs
<1>4. Slice(items, 0, page) = SubSeq(Numbered(items), first + 1, Min({first + MaxChildren, Len(items)}))
  BY Zenon DEF Slice, Numbered, first
<1>5. Slice(items, 1, page) = SubSeq(Numbered(items), 1, Lesser(MaxChildren, Len(items)))
  <2>1. 0 + 1 = 1 /\ 0 + MaxChildren = MaxChildren /\ 1 # 0
    BY <1>1
  <2>2. Slice(items, 1, page) = SubSeq(Numbered(items), 0 + 1, Min({0 + MaxChildren, Len(items)}))
    BY <2>1, Zenon DEF Slice, Numbered
  <2>3. Min({MaxChildren, Len(items)}) = Lesser(MaxChildren, Len(items))
    BY <1>1, LesserIs
  <2> QED
    BY <2>1, <2>2, <2>3, Zenon
<1> QED
  BY <1>2, <1>3, <1>4, <1>5, Zenon DEF first

LEMMA PageFollows ==
    ASSUME NEW S, NEW items \in Seq(S), NEW page \in Nat, NEW s, Covers(s, items, MaxChildren * page),
           NEW t, t = IF 0 < MaxDepth THEN Slice(items, 0, page) ELSE << >>
    PROVE  Covers(s \o t, items, MaxChildren * (page + 1))
<1> DEFINE q == Numbered(items)
           n == Len(items)
           first == MaxChildren * page
           next == first + MaxChildren
<1>1. MaxChildren \in Nat /\ MaxDepth \in Nat /\ n \in Nat
  BY ExportBoundsAssumption, LenProperties DEF ExportBoundsAssumption
<1>2. MaxChildren * (page + 1) = next /\ first \in Nat
  BY <1>1
<1>3. t = IF 0 < MaxDepth THEN SubSeq(q, first + 1, Lesser(next, n)) ELSE << >>
  BY SliceIs
<1>4. q \in Seq(Nat \X S) /\ Len(q) = n
  BY NumberedIs
<1> HIDE DEF first, q, n
<1>5. first \in Nat /\ next \in Nat /\ first <= next
  BY <1>1, <1>2
<1>6. CASE MaxDepth = 0
  <2>1. s = << >> /\ t = << >>
    BY <1>3, <1>6 DEF Covers
  <2>2. s \o t = << >>
    BY <2>1
  <2> QED
    BY <1>6, <2>2 DEF Covers
<1>7. CASE MaxDepth # 0
  <2>0. 0 < MaxDepth
    BY <1>1, <1>7
  <2>1. s = SubSeq(q, 1, Lesser(first, n)) /\ t = SubSeq(q, first + 1, Lesser(next, n))
    BY <1>3, <1>7, <2>0 DEF Covers, first, q, n
  <2>2. s \o t = SubSeq(q, 1, Lesser(next, n))
    <3>1. CASE first <= n
      <4>1. Lesser(first, n) = first
        BY <3>1 DEF Lesser
      <4>2. first \in 0..Len(q) /\ Lesser(next, n) \in first..Len(q)
        BY <1>1, <1>4, <1>5, <3>1 DEF Lesser
      <4>3. SubSeq(q, 1, first) \o SubSeq(q, first + 1, Lesser(next, n)) = SubSeq(q, 1, Lesser(next, n))
        BY <1>4, <4>2, PartsMeet
      <4> QED
        BY <2>1, <4>1, <4>3, Zenon
    <3>2. CASE ~(first <= n)
      <4>1. Lesser(first, n) = n /\ Lesser(next, n) = n /\ n < first + 1 /\ first + 1 \in Int /\ n \in Int
        BY <1>1, <1>5, <3>2 DEF Lesser
      <4>2. t = << >>
        <5>1. SubSeq(q, first + 1, n) = << >>
          BY <4>1, SubSeqEmpty
        <5> QED
          BY <2>1, <4>1, <5>1, Zenon
      <4>3. SubSeq(q, 1, n) = q /\ SubSeq(q, 1, n) \o << >> = SubSeq(q, 1, n)
        <5>1. SubSeq(q, 1, n) = q
          BY <1>4, WholeIs
        <5>2. q \o << >> = q
          BY <1>4, ConcatEmptySeq
        <5> QED
          BY <5>1, <5>2, Zenon
      <4> QED
        BY <2>1, <4>1, <4>2, <4>3, Zenon
    <3> QED
      BY <3>1, <3>2
  <2> QED
    BY <1>2, <1>7, <2>2, Zenon DEF Covers, q, n
<1> QED
  BY <1>6, <1>7

\* What is shown of a value are items of it.
IsItem(pair, items) == \E i \in DOMAIN items : pair = <<i, items[i]>>

LEMMA PrefixShows ==
    ASSUME NEW S, NEW items \in Seq(S), NEW m, m \in 0..Len(items),
           NEW s, s = SubSeq(Numbered(items), 1, m), NEW k \in DOMAIN s
    PROVE  IsItem(s[k], items)
<1> DEFINE q == Numbered(items)
<1>1. /\ q \in Seq(Nat \X S) /\ Len(q) = Len(items) /\ Len(items) \in Nat
      /\ DOMAIN items = 1..Len(items)
      /\ \A i \in 1..Len(items) : q[i] = <<i, items[i]>>
  BY NumberedIs
<1> HIDE DEF q
<1>2. /\ SubSeq(q, 0 + 1, m) \in Seq(Nat \X S) /\ Len(SubSeq(q, 0 + 1, m)) = m - 0
      /\ \A i \in 1..(m - 0) : SubSeq(q, 0 + 1, m)[i] = q[0 + i]
  <2>1. 0 \in 0..Len(q) /\ m \in 0..Len(q)
    BY <1>1
  <2> QED
    BY <1>1, <2>1, PartIs
<1>3. s = SubSeq(q, 0 + 1, m) /\ m - 0 = m
  <2>1. 0 + 1 = 1 /\ m - 0 = m
    BY <1>1
  <2> QED
    BY <2>1 DEF q
<1>4. DOMAIN s = 1..m /\ s[k] = q[0 + k]
  <2>1. s \in Seq(Nat \X S) /\ Len(s) = m
    BY <1>2, <1>3
  <2>2. DOMAIN s = 1..m
    BY <2>1, LenProperties
  <2> QED
    BY <1>2, <1>3, <2>2
<1>5. k \in 1..Len(items) /\ 0 + k = k
  BY <1>1, <1>4
<1> QED
  BY <1>1, <1>4, <1>5 DEF IsItem

LEMMA NothingShown == DOMAIN << >> = {}
OBVIOUS

LEMMA CoveredAre ==
    ASSUME NEW S, NEW items \in Seq(S), NEW n \in Nat, NEW s, Covers(s, items, n), NEW k \in DOMAIN s
    PROVE  IsItem(s[k], items)
<1>1. MaxDepth # 0
  BY NothingShown DEF Covers
<1>2. s = SubSeq(Numbered(items), 1, Lesser(n, Len(items)))
  BY <1>1 DEF Covers
<1>3. Len(items) \in Nat
  BY LenProperties
<1> DEFINE m == Lesser(n, Len(items))
<1>4. m \in 0..Len(items)
  BY <1>3, LesserIs
<1> HIDE DEF m
<1> QED
  BY <1>2, <1>4, PrefixShows DEF m

LEMMA InnerAre ==
    ASSUME NEW S, NEW v, Items(v) \in Seq(S), NEW k \in DOMAIN Shown(v, 1, 0)
    PROVE  IsItem(Shown(v, 1, 0)[k], Items(v))
<1> DEFINE items == Items(v)
           s == Shown(v, 1, 0)
<1>1. 1 < MaxDepth /\ s = Slice(items, 1, 0)
  BY NothingShown DEF Shown
<1> HIDE DEF s, items
<1>2. Slice(items, 1, 0) = SubSeq(Numbered(items), 1, Lesser(MaxChildren, Len(items)))
  <2>1. 0 \in Nat /\ items \in Seq(S)
    BY DEF items
  <2> QED
    BY <2>1, SliceIs
<1> DEFINE m == Lesser(MaxChildren, Len(items))
<1>3. m \in 0..Len(items)
  <2>1. MaxChildren \in Nat /\ Len(items) \in Nat
    BY ExportBoundsAssumption, LenProperties DEF ExportBoundsAssumption, items
  <2> QED
    BY <2>1, LesserIs
<1>4. s = SubSeq(Numbered(items), 1, m) /\ k \in DOMAIN s /\ items \in Seq(S)
  BY <1>1, <1>2 DEF s, items
<1> HIDE DEF m
<1>5. IsItem(s[k], items)
  BY <1>3, <1>4, PrefixShows
<1> QED
  BY <1>5 DEF s, items

LEMMA ItemsOfAre ==
    ASSUME NEW v \in ShownValues
    PROVE  /\ Items(v) \in Seq(ToSet(Items(v)))
           /\ HasItems(v) => Items(v) = v.items
           /\ ~HasItems(v) => DOMAIN Items(v) = {}
<1>1. HasItems(v) => AreItems(v.items)
  <2>1. v.kind = "array" => AreItems(v.items)
    BY ValueIs, ElementsAre
  <2>2. v.kind = "object" => AreItems(v.items)
    BY ValueIs, PropertiesAre
  <2> QED
    BY <2>1, <2>2 DEF HasItems
<1>2. HasItems(v) => Items(v) = v.items /\ v.items \in Seq(ToSet(v.items))
  BY <1>1, Zenon DEF Items, AreItems
<1>3. ~HasItems(v) => Items(v) = << >>
  BY DEF Items
<1>4. << >> \in Seq(ToSet(<< >>)) /\ DOMAIN << >> = {}
  <2> DEFINE S == ToSet(<< >>)
  <2>1. << >> \in Seq(S)
    <3> HIDE DEF S
    <3> QED
      OBVIOUS
  <2> QED
    BY <2>1, NothingShown
<1>5. CASE HasItems(v)
  BY <1>2, <1>5, Zenon
<1>6. CASE ~HasItems(v)
  <2>1. Items(v) = << >>
    BY <1>3, <1>6
  <2> QED
    BY <1>4, <1>6, <2>1, Zenon
<1> QED
  BY <1>5, <1>6

-----------------------------------------------------------------------------
(* What holds of an exported name, while it is looked up, and after.        *)

SeenBefore(page) == Covers(seen, Items(sought), MaxChildren * page)
NameHolds == plain /\ exported # "nothing" => sought \in ShownValues /\ Found(fullname, sought)
LookupHolds == plain /\ exported = "looking" => LooksUp(fullname, sought, lex) /\ SeenBefore(runtimePage)
AnswerHolds == plain => exported # "failed" /\ (exported = "property" => lex.value = sought)
PagesHold == plain /\ exported \in {"context", "property"} => SeenBefore(runtimePage + 1)
ExportInv == /\ tree \in Trees /\ runtimePage \in Nat
             /\ NameHolds /\ LookupHolds /\ AnswerHolds /\ PagesHold

LEMMA ExportInitHolds == ExportInit => ExportInv
<1> SUFFICES ASSUME ExportInit PROVE ExportInv
  OBVIOUS
<1>1. tree \in Trees /\ exported = "nothing" /\ runtimePage = 0
  BY DEF ExportInit
<1>2. /\ exported # "looking" /\ exported # "property" /\ exported # "failed"
      /\ exported \notin {"context", "property"}
  BY <1>1
<1>3. runtimePage \in Nat
  BY <1>1
<1> QED
  BY <1>1, <1>2, <1>3, Zenon DEF ExportInv, NameHolds, LookupHolds, AnswerHolds, PagesHold

\* The first page.
LEMMA FirstPage ==
    ASSUME NEW v \in ShownValues, NEW s, s = Shown(v, 0, 0)
    PROVE  Covers(s, Items(v), MaxChildren * (0 + 1))
<1> DEFINE items == Items(v)
           S == ToSet(items)
           o == << >>
           t == IF 0 < MaxDepth THEN Slice(items, 0, 0) ELSE << >>
<1>1. items \in Seq(S)
  BY ItemsOfAre
<1>2. s = t
  BY Zenon DEF Shown
<1> HIDE DEF items, S
<1>3. Covers(o, items, MaxChildren * 0)
  <2>1. MaxChildren * 0 = 0 /\ Len(items) \in Nat
    BY <1>1, ExportBoundsAssumption, LenProperties DEF ExportBoundsAssumption
  <2>2. Lesser(0, Len(items)) = 0
    BY <2>1 DEF Lesser
  <2>3. SubSeq(Numbered(items), 1, 0) = << >>
    BY SubSeqEmpty
  <2> QED
    BY <2>1, <2>2, <2>3, Zenon DEF Covers
<1>4. 0 \in Nat
  OBVIOUS
<1> HIDE DEF t, o
<1>5. Covers(o \o t, items, MaxChildren * (0 + 1))
  BY <1>1, <1>3, <1>4, PageFollows DEF t
<1>6. o \o t = t
  <2>1. t \in Seq(Nat \X S)
    <3>1. CASE 0 < MaxDepth
      <4>1. t = SubSeq(Numbered(items), MaxChildren * 0 + 1, Lesser(MaxChildren * 0 + MaxChildren, Len(items)))
        BY <1>1, <1>4, <3>1, SliceIs DEF t
      <4>2. /\ Numbered(items) \in Seq(Nat \X S) /\ Len(Numbered(items)) = Len(items) /\ Len(items) \in Nat
        BY <1>1, NumberedIs
      <4>3. MaxChildren * 0 + 1 = 0 + 1 /\ MaxChildren * 0 + MaxChildren = MaxChildren /\ MaxChildren \in Nat
        BY ExportBoundsAssumption DEF ExportBoundsAssumption
      <4> DEFINE m == Lesser(MaxChildren, Len(items))
      <4>4. 0 \in 0..Len(Numbered(items)) /\ m \in 0..Len(Numbered(items))
        <5>1. m \in 0..Len(items)
          BY <4>2, <4>3, LesserIs
        <5> HIDE DEF m
        <5> QED
          BY <4>2, <5>1
      <4> HIDE DEF m
      <4>5. SubSeq(Numbered(items), 0 + 1, m) \in Seq(Nat \X S)
        BY <4>2, <4>4, PartIs
      <4> QED
        BY <4>1, <4>3, <4>5, Zenon DEF m
    <3>2. CASE ~(0 < MaxDepth)
      BY <3>2 DEF t
    <3> QED
      BY <3>1, <3>2
  <2> QED
    BY <2>1, ConcatEmptySeq DEF o
<1> QED
  BY <1>2, <1>5, <1>6, Zenon DEF items

LEMMA SpecialShown ==
    ASSUME ExportInv, NEW key \in {ReturnName, ExceptionName}, NEW v, NEW back,
           v = FetchRoot(key), v \in ShownValues \cup {Undefined}, OfferSpecial(key, v, back, 0)
    PROVE  Found(fullname', sought') /\ sought' \in ShownValues /\ seen' = Shown(sought', 0, 0)
<1>1. v \in ShownValues /\ fullname' = <<"$">> \o key /\ sought' = v /\ seen' = Shown(v, 0, 0)
  BY Zenon DEF OfferSpecial, Offer
<1>2. key \in Seq(KeyCharacters) /\ Declarable(key)
  BY SpecialNames
<1>3. Found(<<"$">> \o key, v)
  BY <1>2, DollarIsFound
<1> QED
  BY <1>1, <1>3, Zenon

LEMMA ContextKeeps == ASSUME ExportInv, ContextGet PROVE ExportInv'
<1>1. tree \in Trees /\ tree' = tree /\ exported' = "context" /\ runtimePage' = 0
  BY Zenon DEF ExportInv, ContextGet, Context
<1>2. /\ tree.special.returned # Undefined => tree.special.returned \in ShownValues
      /\ tree.special.raised # Undefined => tree.special.raised \in ShownValues
      /\ tree.special.returned # Undefined => FetchRoot(ReturnName) = tree.special.returned
      /\ tree.special.raised # Undefined => FetchRoot(ExceptionName) = tree.special.raised
  BY <1>1, TreeIs, SpecialNames
<1>3. ASSUME plain'
      PROVE  Found(fullname', sought') /\ sought' \in ShownValues /\ seen' = Shown(sought', 0, 0)
  <2>1. CASE OfferSpecial(ReturnName, tree.special.returned, TRUE, 0)
    <3>1. tree.special.returned # Undefined
      BY <2>1, Zenon DEF OfferSpecial
    <3>2. tree.special.returned = FetchRoot(ReturnName) /\ tree.special.returned \in ShownValues \cup {Undefined}
      BY <1>2, <3>1
    <3> QED
      BY <2>1, <3>2, SpecialShown
  <2>2. CASE OfferSpecial(BetweenName, tree.special.between, FALSE, 0)
    BY <1>3, <2>2, Zenon DEF OfferSpecial, Offer
  <2>3. CASE OfferSpecial(ExceptionName, tree.special.raised, TRUE, 0)
    <3>1. tree.special.raised # Undefined
      BY <2>3, Zenon DEF OfferSpecial
    <3>2. tree.special.raised = FetchRoot(ExceptionName) /\ tree.special.raised \in ShownValues \cup {Undefined}
      BY <1>2, <3>1
    <3> QED
      BY <2>3, <3>2, SpecialShown
  <2>4. ASSUME NEW k \in DOMAIN tree.variables,
               LET key == tree.variables[k].key
               IN Offer(<<"$">> \o key, FetchRoot(key), TRUE, 0)
        PROVE  Found(fullname', sought') /\ sought' \in ShownValues /\ seen' = Shown(sought', 0, 0)
    <3> DEFINE key == tree.variables[k].key
               v == FetchRoot(key)
    <3>1. fullname' = <<"$">> \o key /\ sought' = v /\ seen' = Shown(v, 0, 0)
      BY <2>4, Zenon DEF Offer
    <3>2. Found(<<"$">> \o key, v) /\ v \in ShownValues
      BY <1>1, VariableShown
    <3> HIDE DEF v, key
    <3> QED
      BY <3>1, <3>2, Zenon
  <2>5. ASSUME NEW k \in DOMAIN tree.statics,
               LET item == tree.statics[k]
               IN Offer(<<":", ":">> \o PropertyName(item, tree.class), item.value,
                        Sayable([kind |-> "array"], item) /\ tree.scope.class = tree.class, 0)
        PROVE  Found(fullname', sought') /\ sought' \in ShownValues /\ seen' = Shown(sought', 0, 0)
    <3> DEFINE name == <<":", ":">> \o PropertyName(tree.statics[k], tree.class)
               v == tree.statics[k].value
    <3>1. /\ fullname' = name /\ sought' = v /\ seen' = Shown(v, 0, 0)
          /\ tree.scope.class = tree.class
      BY <1>3, <2>5, Zenon DEF Offer
    <3>2. Found(name, v) /\ v \in ShownValues
      BY <1>1, <3>1, StaticShown
    <3> HIDE DEF v, name
    <3> QED
      BY <3>1, <3>2, Zenon
  <2> QED
    BY <2>1, <2>2, <2>3, <2>4, <2>5, Zenon DEF ContextGet, Context
<1>4. ASSUME plain'
      PROVE  Found(fullname, sought)' /\ sought' \in ShownValues /\ SeenBefore(runtimePage + 1)'
  <2>1. Found(fullname', sought') /\ sought' \in ShownValues /\ seen' = Shown(sought', 0, 0)
    BY <1>3, <1>4
  <2>2. Found(fullname, sought)'
    <3>1. \A n, w : Found(n, w)' <=> Found(n, w)
      BY <1>1, SameTree
    <3> QED
      BY <2>1, <3>1, Zenon
  <2>3. Covers(seen', Items(sought'), MaxChildren * (0 + 1))
    BY <2>1, FirstPage
  <2>4. Covers(seen', Items(sought'), MaxChildren * (runtimePage' + 1))
    BY <1>1, <2>3, Zenon
  <2>5. SeenBefore(runtimePage + 1)'
    BY <2>4, Zenon DEF SeenBefore, Covers, Items, Numbered
  <2> QED
    BY <2>1, <2>2, <2>5
<1>5. /\ exported' # "looking" /\ exported' # "property" /\ exported' # "failed"
      /\ runtimePage' \in Nat
  BY <1>1
<1> QED
  BY <1>1, <1>4, <1>5, Zenon DEF ExportInv, NameHolds, LookupHolds, AnswerHolds, PagesHold

\* What a lookup starts with.
LEMMA LookupKeeps ==
    ASSUME ExportInv, NEW name, NEW page \in Nat, PropertyGet(name, page),
           plain' => sought' \in ShownValues /\ Found(name, sought')
                     /\ Covers(seen', Items(sought'), MaxChildren * page)
    PROVE  ExportInv'
<1>1. /\ tree \in Trees /\ tree' = tree /\ fullname' = name /\ runtimePage' = page
      /\ exported' = "looking" /\ lex' = Plain
  BY Zenon DEF ExportInv, PropertyGet
<1>2. /\ exported' # "property" /\ exported' \notin {"context", "property"}
      /\ exported' = "looking" /\ exported' # "failed"
  BY <1>1
<1>3. /\ \A n, v : Found(n, v)' <=> Found(n, v)
      /\ \A n, v, l : LooksUp(n, v, l)' <=> LooksUp(n, v, l)
  BY <1>1, SameTree
<1>4. ASSUME plain'
      PROVE  /\ sought' \in ShownValues /\ Found(fullname, sought)'
             /\ LooksUp(fullname, sought, lex)' /\ SeenBefore(runtimePage)'
  <2>1. sought' \in ShownValues /\ Found(name, sought') /\ Covers(seen', Items(sought'), MaxChildren * page)
    BY <1>4
  <2>2. LooksUp(name, sought', Plain)
    BY <2>1, LookupStarts
  <2>3. Found(fullname, sought)' /\ LooksUp(fullname, sought, lex)'
    BY <1>1, <1>3, <2>1, <2>2, Zenon
  <2>4. SeenBefore(runtimePage)'
    <3>1. Covers(seen', Items(sought'), MaxChildren * runtimePage')
      BY <1>1, <2>1, Zenon
    <3> QED
      BY <3>1, Zenon DEF SeenBefore, Covers, Items, Numbered
  <2> QED
    BY <2>1, <2>3, <2>4
<1> QED
  BY <1>1, <1>2, <1>4, Zenon DEF ExportInv, NameHolds, LookupHolds, AnswerHolds, PagesHold

\* Before the first page nothing was shown.
LEMMA NothingCovers ==
    ASSUME NEW v \in ShownValues
    PROVE  Covers(<< >>, Items(v), MaxChildren * 0)
<1>1. Items(v) \in Seq(ToSet(Items(v)))
  BY ItemsOfAre
<1> DEFINE items == Items(v)
<1> HIDE DEF items
<1>2. MaxChildren * 0 = 0 /\ Len(items) \in Nat
  BY <1>1, ExportBoundsAssumption, LenProperties DEF ExportBoundsAssumption, items
<1>3. Lesser(0, Len(items)) = 0
  BY <1>2 DEF Lesser
<1>4. SubSeq(Numbered(items), 1, 0) = << >>
  BY SubSeqEmpty
<1> QED
  BY <1>2, <1>3, <1>4, Zenon DEF Covers, items

LEMMA GetChildKeeps == ASSUME ExportInv, GetChild PROVE ExportInv'
<1>1. exported \in {"context", "property"} /\ HasItems(sought) /\ seen' = << >>
  BY Zenon DEF GetChild
<1>2. PICK k \in DOMAIN seen :
          LET item == seen[k][2]
              name == ChildName(fullname, sought, item)
          IN \/ /\ PropertyGet(name, 0) /\ sought' = item.value
                /\ plain' = (plain /\ Sayable(sought, item))
             \/ \E j \in DOMAIN Shown(item.value, 1, 0) :
                   LET inner == Shown(item.value, 1, 0)[j][2]
                   IN /\ PropertyGet(ChildName(name, item.value, inner), 0)
                      /\ sought' = inner.value
                      /\ plain' = (plain /\ Sayable(sought, item) /\ Sayable(item.value, inner))
  BY Zenon DEF GetChild
<1> DEFINE item == seen[k][2]
           v == item.value
           name == ChildName(fullname, sought, item)
<1>3. exported # "nothing" /\ 0 \in Nat
  BY <1>1
<1>4. ASSUME plain
      PROVE  /\ sought \in ShownValues /\ Found(fullname, sought)
             /\ \E i \in DOMAIN sought.items : item = sought.items[i]
  <2>1. sought \in ShownValues /\ Found(fullname, sought)
    BY <1>3, <1>4, Zenon DEF ExportInv, NameHolds
  <2>2. Covers(seen, Items(sought), MaxChildren * (runtimePage + 1))
    BY <1>1, <1>4, Zenon DEF ExportInv, PagesHold, SeenBefore
  <2>3. Items(sought) \in Seq(ToSet(Items(sought))) /\ Items(sought) = sought.items
    BY <1>1, <2>1, ItemsOfAre
  <2> DEFINE n == MaxChildren * (runtimePage + 1)
  <2>4. n \in Nat
    BY ExportBoundsAssumption DEF ExportBoundsAssumption, ExportInv
  <2> HIDE DEF n
  <2>5. Covers(seen, Items(sought), n)
    BY <2>2 DEF n
  <2>6. IsItem(seen[k], Items(sought))
    BY <2>3, <2>4, <2>5, CoveredAre
  <2>7. PICK i \in DOMAIN Items(sought) : seen[k] = <<i, Items(sought)[i]>>
    BY <2>6 DEF IsItem
  <2>8. item = Items(sought)[i]
    BY <2>7
  <2> QED
    BY <2>1, <2>3, <2>8
<1>5. ASSUME plain, Sayable(sought, item)
      PROVE  Found(name, v) /\ v \in ShownValues
  <2>1. PICK i \in DOMAIN sought.items : item = sought.items[i]
    BY <1>4, <1>5
  <2>2. sought \in ShownValues /\ Found(fullname, sought) /\ Sayable(sought, sought.items[i])
    BY <1>4, <1>5, <2>1
  <2> HIDE DEF item
  <2>3. /\ Found(ChildName(fullname, sought, sought.items[i]), sought.items[i].value)
        /\ sought.items[i].value \in ShownValues
    BY <1>1, <2>2, ChildIsFound
  <2> QED
    BY <2>1, <2>3, Zenon
<1> HIDE DEF item
<1>6. CASE PropertyGet(name, 0) /\ sought' = v /\ plain' = (plain /\ Sayable(sought, item))
  <2>1. ASSUME plain'
        PROVE  sought' \in ShownValues /\ Found(name, sought') /\ Covers(seen', Items(sought'), MaxChildren * 0)
    <3>1. plain /\ Sayable(sought, item)
      BY <1>6, <2>1, Zenon
    <3>2. Found(name, v) /\ v \in ShownValues
      BY <1>5, <3>1
    <3>3. Covers(<< >>, Items(v), MaxChildren * 0)
      BY <3>2, NothingCovers
    <3> QED
      BY <1>1, <1>6, <3>2, <3>3, Zenon
  <2> HIDE DEF name
  <2> QED
    BY <1>3, <1>6, <2>1, LookupKeeps
<1>7. ASSUME NEW j \in DOMAIN Shown(v, 1, 0),
             LET inner == Shown(v, 1, 0)[j][2]
             IN /\ PropertyGet(ChildName(name, v, inner), 0) /\ sought' = inner.value
                /\ plain' = (plain /\ Sayable(sought, item) /\ Sayable(v, inner))
      PROVE  ExportInv'
  <2> DEFINE inner == Shown(v, 1, 0)[j][2]
             far == ChildName(name, v, inner)
  <2>1. /\ PropertyGet(far, 0) /\ sought' = inner.value
        /\ plain' = (plain /\ Sayable(sought, item) /\ Sayable(v, inner))
    BY <1>7
  <2>2. ASSUME plain'
        PROVE  sought' \in ShownValues /\ Found(far, sought') /\ Covers(seen', Items(sought'), MaxChildren * 0)
    <3>1. plain /\ Sayable(sought, item) /\ Sayable(v, inner)
      BY <2>1, <2>2, Zenon
    <3>2. Found(name, v) /\ v \in ShownValues
      BY <1>5, <3>1
    <3> HIDE DEF name, v
    <3>3. Items(v) \in Seq(ToSet(Items(v))) /\ (HasItems(v) => Items(v) = v.items)
          /\ (~HasItems(v) => DOMAIN Items(v) = {})
      BY <3>2, ItemsOfAre
    <3>4. IsItem(Shown(v, 1, 0)[j], Items(v))
      BY <3>3, InnerAre
    <3>5. PICK i \in DOMAIN Items(v) : Shown(v, 1, 0)[j] = <<i, Items(v)[i]>>
      BY <3>4 DEF IsItem
    <3>6. inner = Items(v)[i]
      BY <3>5
    <3>7. HasItems(v) /\ Items(v) = v.items
      BY <3>3
    <3>8. inner = v.items[i] /\ i \in DOMAIN v.items /\ Sayable(v, v.items[i])
      BY <3>1, <3>6, <3>7, Zenon
    <3> HIDE DEF inner
    <3>9. Found(ChildName(name, v, v.items[i]), v.items[i].value) /\ v.items[i].value \in ShownValues
      BY <3>2, <3>7, <3>8, ChildIsFound
    <3>10. Covers(<< >>, Items(v.items[i].value), MaxChildren * 0)
      BY <3>9, NothingCovers
    <3> QED
      BY <1>1, <2>1, <3>8, <3>9, <3>10, Zenon
  <2> HIDE DEF far, inner
  <2> QED
    BY <1>3, <2>1, <2>2, LookupKeeps
<1> QED
  BY <1>2, <1>6, <1>7, Zenon DEF item

LEMMA NextPageKeeps == ASSUME ExportInv, NextPage PROVE ExportInv'
<1>1. /\ exported \in {"context", "property"} /\ PropertyGet(fullname, runtimePage + 1)
      /\ sought' = sought /\ plain' = plain /\ seen' = seen
  BY Zenon DEF NextPage
<1>2. exported # "nothing" /\ runtimePage + 1 \in Nat
  BY <1>1 DEF ExportInv
<1>3. ASSUME plain'
      PROVE  /\ sought' \in ShownValues /\ Found(fullname, sought')
             /\ Covers(seen', Items(sought'), MaxChildren * (runtimePage + 1))
  <2>1. plain
    BY <1>1, <1>3, Zenon
  <2>2. /\ sought \in ShownValues /\ Found(fullname, sought)
        /\ Covers(seen, Items(sought), MaxChildren * (runtimePage + 1))
    BY <1>1, <1>2, <2>1, Zenon DEF ExportInv, NameHolds, PagesHold, SeenBefore
  <2> QED
    BY <1>1, <2>2, Zenon
<1> QED
  BY <1>1, <1>2, <1>3, LookupKeeps

LEMMA ReadNameKeeps == ASSUME ExportInv, ReadName PROVE ExportInv'
<1>1. /\ exported = "looking" /\ lex.at <= Len(fullname)
      /\ lex' = Advance(fullname, lex, fullname[lex.at])
      /\ exported' = (IF lex'.state = NoScope THEN "failed" ELSE "looking")
      /\ tree' = tree /\ fullname' = fullname /\ sought' = sought
      /\ plain' = plain /\ runtimePage' = runtimePage /\ seen' = seen
  BY Zenon DEF ReadName
<1>2. /\ exported # "nothing" /\ exported' # "property" /\ exported' \notin {"context", "property"}
      /\ lex'.state # NoScope => exported' # "failed"
  BY <1>1
<1>3. tree \in Trees /\ runtimePage \in Nat
  BY DEF ExportInv
<1>4. /\ \A n, v : Found(n, v)' <=> Found(n, v)
      /\ \A n, v, l : LooksUp(n, v, l)' <=> LooksUp(n, v, l)
  BY <1>1, SameTree
<1>5. ASSUME plain'
      PROVE  /\ sought' \in ShownValues /\ Found(fullname, sought)'
             /\ LooksUp(fullname, sought, lex)' /\ SeenBefore(runtimePage)'
             /\ exported' # "failed"
  <2>1. /\ sought \in ShownValues /\ Found(fullname, sought)
        /\ LooksUp(fullname, sought, lex) /\ SeenBefore(runtimePage)
    BY <1>1, <1>2, <1>5, Zenon DEF ExportInv, NameHolds, LookupHolds
  <2>2. LooksUp(fullname, sought, Advance(fullname, lex, fullname[lex.at]))
    BY <1>1, <2>1, LookupGoesOn
  <2>5. exported' # "failed"
    BY <1>1, <1>2, <2>2, LookupIsSound, Zenon
  <2>3. Found(fullname, sought)' /\ LooksUp(fullname, sought, lex)'
    BY <1>1, <1>4, <2>1, <2>2, Zenon
  <2>4. SeenBefore(runtimePage)'
    BY <1>1, <2>1, Zenon DEF SeenBefore, Covers, Items, Numbered
  <2> QED
    BY <1>1, <2>1, <2>3, <2>4, <2>5, Zenon
<1> QED
  BY <1>1, <1>2, <1>3, <1>5, Zenon DEF ExportInv, NameHolds, LookupHolds, AnswerHolds, PagesHold

LEMMA NameReadKeeps == ASSUME ExportInv, NameRead PROVE ExportInv'
<1>1. /\ exported = "looking" /\ lex.at > Len(fullname)
      /\ lex' = Fetched(fullname, lex, TRUE)
      /\ seen' = seen \o Shown(lex'.value, 0, runtimePage)
      /\ exported' = "property"
      /\ tree' = tree /\ fullname' = fullname /\ sought' = sought
      /\ plain' = plain /\ runtimePage' = runtimePage
  BY Zenon DEF NameRead
<1>2. exported' # "looking" /\ exported' # "failed" /\ exported # "nothing"
  BY <1>1
<1>3. tree \in Trees /\ runtimePage \in Nat
  BY DEF ExportInv
<1>4. \A n, v : Found(n, v)' <=> Found(n, v)
  BY <1>1, SameTree
<1>5. ASSUME plain'
      PROVE  /\ sought' \in ShownValues /\ Found(fullname, sought)'
             /\ lex'.value = sought' /\ SeenBefore(runtimePage + 1)'
  <2>1. /\ sought \in ShownValues /\ Found(fullname, sought)
        /\ LooksUp(fullname, sought, lex) /\ SeenBefore(runtimePage)
    BY <1>1, <1>2, <1>5, Zenon DEF ExportInv, NameHolds, LookupHolds
  <2>2. Fetched(fullname, lex, TRUE).value = sought
    BY <1>1, <2>1, LookupEnds
  <2>3. lex'.value = sought
    BY <1>1, <2>2, Zenon
  <2>4. Found(fullname, sought)'
    BY <1>1, <1>4, <2>1, Zenon
  <2> DEFINE items == Items(sought)
             t == Shown(sought, 0, runtimePage)
  <2>5. Covers(seen \o t, items, MaxChildren * (runtimePage + 1))
    <3>1. items \in Seq(ToSet(items))
      BY <2>1, ItemsOfAre
    <3>2. t = IF 0 < MaxDepth THEN Slice(items, 0, runtimePage) ELSE << >>
      BY Zenon DEF Shown
    <3>3. Covers(seen, items, MaxChildren * runtimePage)
      BY <2>1 DEF SeenBefore
    <3> HIDE DEF items, t
    <3> QED
      BY <1>3, <3>1, <3>2, <3>3, PageFollows
  <2>6. seen' = seen \o t
    BY <1>1, <2>3, Zenon
  <2> HIDE DEF t, items
  <2>7. SeenBefore(runtimePage + 1)'
    <3>1. Covers(seen', items, MaxChildren * (runtimePage + 1))
      BY <2>5, <2>6, Zenon
    <3> QED
      BY <1>1, <3>1, Zenon DEF SeenBefore, Covers, Items, Numbered, items
  <2> QED
    BY <1>1, <2>1, <2>3, <2>4, <2>7, Zenon
<1> QED
  BY <1>1, <1>2, <1>3, <1>5, Zenon DEF ExportInv, NameHolds, LookupHolds, AnswerHolds, PagesHold

LEMMA ExportStep == ExportInv /\ [ExportNext]_exportVars => ExportInv'
<1> SUFFICES ASSUME ExportInv, [ExportNext]_exportVars PROVE ExportInv'
  OBVIOUS
<1>1. CASE ContextGet
  BY <1>1, ContextKeeps
<1>2. CASE GetChild
  BY <1>2, GetChildKeeps
<1>3. CASE NextPage
  BY <1>3, NextPageKeeps
<1>4. CASE ReadName
  BY <1>4, ReadNameKeeps
<1>5. CASE NameRead
  BY <1>5, NameReadKeeps
<1>6. CASE UNCHANGED exportVars
  <2>1. /\ tree' = tree /\ exported' = exported /\ fullname' = fullname /\ sought' = sought
        /\ plain' = plain /\ runtimePage' = runtimePage /\ seen' = seen /\ lex' = lex
    BY <1>6 DEF exportVars
  <2>2. /\ \A n, v : Found(n, v)' <=> Found(n, v)
        /\ \A n, v, l : LooksUp(n, v, l)' <=> LooksUp(n, v, l)
    BY <2>1, SameTree
  <2>3. \A page : SeenBefore(page)' <=> SeenBefore(page)
    BY <2>1, Zenon DEF SeenBefore, Covers, Items, Numbered
  <2>4. NameHolds' /\ LookupHolds' /\ AnswerHolds' /\ PagesHold'
    BY <2>1, <2>2, <2>3, Zenon DEF ExportInv, NameHolds, LookupHolds, AnswerHolds, PagesHold
  <2> QED
    BY <2>1, <2>4, Zenon DEF ExportInv
<1> QED
  BY <1>1, <1>2, <1>3, <1>4, <1>5, <1>6 DEF ExportNext

LEMMA ExportInvariant == ExportSpec => []ExportInv
BY ExportInitHolds, ExportStep, PTL DEF ExportSpec

\* The full name that a variable, an element or a property is exported with is read
\* back as that same one: property_get shows what the client asked for.
THEOREM NamesAreReadBack == ExportSpec => []NamesComeBack
<1>1. ExportInv => NamesComeBack
  BY Zenon DEF ExportInv, AnswerHolds, NamesComeBack
<1> QED
  BY <1>1, ExportInvariant, PTL

\* The pages that were shown are a first part of the children, each of them once and in
\* their order, and as long as the pages are together.
THEOREM PagesShowAll == ExportSpec => []PagesCoverOnce
<1>1. ASSUME ExportInv, exported \in {"context", "property"}, plain
      PROVE  LET all == [i \in DOMAIN Items(sought) |-> <<i, Items(sought)[i]>>]
             IN IF MaxDepth = 0 THEN seen = << >>
                ELSE /\ IsPrefix(seen, all)
                     /\ Len(seen) = Min({Len(all), MaxChildren * (runtimePage + 1)})
  <2> DEFINE items == Items(sought)
             all == Numbered(items)
             n == MaxChildren * (runtimePage + 1)
             S == ToSet(items)
             m == Lesser(n, Len(items))
  <2>1. sought \in ShownValues /\ Covers(seen, items, n)
    <3>1. exported # "nothing"
      BY <1>1
    <3> QED
      BY <1>1, <3>1, Zenon DEF ExportInv, NameHolds, PagesHold, SeenBefore
  <2>2. items \in Seq(S)
    BY <2>1, ItemsOfAre
  <2>3. n \in Nat
    BY <1>1, ExportBoundsAssumption DEF ExportBoundsAssumption, ExportInv
  <2> HIDE DEF n, items
  <2>4. all \in Seq(Nat \X S) /\ Len(all) = Len(items) /\ Len(items) \in Nat
    BY <2>2, NumberedIs
  <2>5. Min({Len(all), n}) = m /\ m \in 0..Len(items)
    <3>1. Min({n, Len(items)}) = m /\ m \in 0..Len(items)
      BY <2>3, <2>4, LesserIs
    <3>2. {Len(all), n} = {n, Len(items)}
      BY <2>4
    <3> QED
      BY <3>1, <3>2, Zenon
  <2> HIDE DEF all, m
  <2>6. CASE MaxDepth = 0
    BY <2>1, <2>6, Zenon DEF Covers
  <2>7. CASE MaxDepth # 0
    <3>1. seen = SubSeq(all, 1, m)
      BY <2>1, <2>7, Zenon DEF Covers, all, m
    <3>2. 0 \in 0..Len(all) /\ m \in 0..Len(all) /\ 0 + 1 = 1 /\ m - 0 = m /\ m <= Len(all)
      BY <2>4, <2>5
    <3>3. SubSeq(all, 0 + 1, m) \in Seq(Nat \X S) /\ Len(SubSeq(all, 0 + 1, m)) = m - 0
      BY <2>4, <3>2, PartIs
    <3>4. seen \in Seq(Nat \X S) /\ Len(seen) = m
      BY <3>1, <3>2, <3>3, Zenon
    <3>5. SubSeq(seen, 1, Len(seen)) = seen
      BY <3>4, WholeIs
    <3>6. IsPrefix(seen, all)
      BY <3>1, <3>2, <3>4, <3>5, Zenon DEF IsPrefix
    <3> QED
      BY <2>5, <2>7, <3>4, <3>6, Zenon DEF all, Numbered, n, items
  <2> QED
    BY <2>6, <2>7, Zenon DEF all, Numbered, n, items
<1>2. ExportInv => PagesCoverOnce
  BY <1>1, Zenon DEF PagesCoverOnce
<1> QED
  BY <1>2, ExportInvariant, PTL
=============================================================================
