-------------------------- MODULE LineBreakpointsProofs --------------------------
(***************************************************************************)
(* What holds of LineBreakpoints for every file, whatever its functions, for *)
(* every number of fibers and every bound.                                 *)
(***************************************************************************)
EXTENDS LineBreakpoints, ListLemmas

-----------------------------------------------------------------------------
(* Functions of the file.                                                  *)

LEMMA FunctionIs ==
    ASSUME NEW f \in DOMAIN Functions
    PROVE  /\ f \in Nat \ {0} /\ Functions[f].start \in Nat \ {0} /\ Functions[f].end \in Nat
           /\ Functions[f].breakable \subseteq Lines(f) /\ Lines(f) \subseteq Nat \ {0}
<1>1. /\ Functions \in Seq([start : Nat \ {0}, end : Nat, breakable : SUBSET Nat])
      /\ Functions[f].breakable \subseteq Lines(f)
  BY FunctionsAssumption
<1>2. f \in 1..Len(Functions) /\ Len(Functions) \in Nat
  BY <1>1, LenProperties
<1>3. Functions[f] \in [start : Nat \ {0}, end : Nat, breakable : SUBSET Nat]
  BY <1>1, <1>2, ElementOfSeq
<1>4. Functions[f].start \in Nat \ {0} /\ Functions[f].end \in Nat
  BY <1>3
<1> QED
  BY <1>1, <1>2, <1>4 DEF Lines

LEMMA ScanIs == ScanRange \in Nat /\ 1 <= ScanRange
BY ScanAssumption

\* The innermost function around a line is one of them, and the one that Reach is about.
LEMMA SmallestRangeIs ==
    ASSUME NEW l \in Nat, Around(l) # {}
    PROVE  /\ SmallestRange(l) \in Around(l)
           /\ SmallestRange(l) =
                CHOOSE f \in Around(l) :
                    \A g \in Around(l) : Span(f) <= Span(g) /\ (g < f => Span(f) < Span(g))
<1>1. ASSUME NEW f \in Around(l)
      PROVE  f \in Nat /\ Span(f) \in Nat
  <2>1. /\ f \in DOMAIN Functions /\ f \in Nat /\ l \in Functions[f].start .. Functions[f].end
        /\ Functions[f].start \in Nat /\ Functions[f].end \in Nat
    BY FunctionIs DEF Around, Lines
  <2> QED
    BY <2>1 DEF Span
<1>2. PICK s \in {Span(f) : f \in Around(l)} : \A y \in {Span(f) : f \in Around(l)} : s <= y
  <2>1. {Span(f) : f \in Around(l)} \in SUBSET Nat /\ {Span(f) : f \in Around(l)} # {}
    BY <1>1
  <2> QED
    BY <2>1, Smallest
<1>3. PICK f \in {g \in Around(l) : Span(g) = s} : \A g \in Around(l) : Span(g) = s => f <= g
  <2>1. {g \in Around(l) : Span(g) = s} \in SUBSET Nat /\ {g \in Around(l) : Span(g) = s} # {}
    BY <1>1, <1>2
  <2>2. PICK f \in {g \in Around(l) : Span(g) = s} : \A g \in {h \in Around(l) : Span(h) = s} : f <= g
    BY <2>1, Smallest
  <2> QED
    BY <2>2
<1> DEFINE First(h) == \A g \in Around(l) : Span(h) < Span(g) \/ (Span(h) = Span(g) /\ h <= g)
           Least(h) == \A g \in Around(l) : Span(h) <= Span(g) /\ (g < h => Span(h) < Span(g))
<1>4. f \in Around(l) /\ First(f) /\ Least(f)
  <2>1. ASSUME NEW g \in Around(l)
        PROVE  /\ Span(f) < Span(g) \/ (Span(f) = Span(g) /\ f <= g)
               /\ Span(f) <= Span(g) /\ (g < f => Span(f) < Span(g))
    <3>1. /\ Span(f) = s /\ s \in Nat /\ f \in Nat /\ g \in Nat /\ Span(g) \in Nat
          /\ s <= Span(g) /\ (Span(g) = s => f <= g)
      BY <1>1, <1>2, <1>3
    <3> QED
      BY <3>1
  <2> QED
    BY <1>3, <2>1
<1>5. ASSUME NEW h \in Around(l), First(h) \/ Least(h)
      PROVE  h = f
  <2>1. /\ h \in Nat /\ f \in Nat /\ Span(h) \in Nat /\ Span(f) \in Nat
    BY <1>1, <1>3
  <2>2. Span(f) < Span(h) \/ (Span(f) = Span(h) /\ f <= h)
    BY <1>4
  <2>3. \/ Span(h) < Span(f) \/ (Span(h) = Span(f) /\ h <= f)
        \/ Span(h) <= Span(f) /\ (f < h => Span(h) < Span(f))
    BY <1>4, <1>5
  <2> QED
    BY <2>1, <2>2, <2>3
<1> HIDE DEF First, Least
<1>6. (CHOOSE h \in Around(l) : First(h)) = f /\ (CHOOSE h \in Around(l) : Least(h)) = f
  BY <1>4, <1>5
<1> QED
  BY <1>4, <1>6 DEF SmallestRange, First, Least

-----------------------------------------------------------------------------
(* The scans: their recursive functions exist, and what they find is the     *)
(* nearest line within reach.                                              *)

\* The equations of the scans for a following and for a previous line, with the lines that
\* can break, the last, or the first, line of their function, and where the scan ends.
Up(g, B, last, most) ==
    g = [t \in Nat |-> IF t \in B THEN t
                       ELSE IF t < last /\ t < most THEN g[t + 1] ELSE 0]
Down(g, B, first, l) ==
    g = [t \in Nat |-> IF t \in B THEN t
                       ELSE IF t > first /\ t + ScanRange > l THEN g[t - 1] ELSE 0]

LEMMA UpExists ==
    ASSUME NEW B \in SUBSET Nat, NEW last \in Nat, NEW most \in Nat, \A u \in B : u <= last
    PROVE  \E g : Up(g, B, last, most)
<1> DEFINE H(t) == {u \in B : t <= u /\ u <= most}
           L(T) == CHOOSE x \in T : \A y \in T : x <= y
           V(t) == IF t \in B THEN t ELSE IF H(t) = {} THEN 0 ELSE L(H(t))
           g    == [t \in Nat |-> V(t)]
<1>1. ASSUME NEW t \in Nat
      PROVE  V(t) = IF t \in B THEN t ELSE IF t < last /\ t < most THEN g[t + 1] ELSE 0
  <2>1. t + 1 \in Nat /\ g[t + 1] = V(t + 1)
    OBVIOUS
  <2>2. CASE t \in B
    BY <2>2
  <2>3. CASE t \notin B /\ t < last /\ t < most
    <3>1. H(t) = H(t + 1)
      <4>1. \A u \in B : t <= u <=> t + 1 <= u
        BY <2>3
      <4> QED
        BY <4>1
    <3>2. CASE t + 1 \in B
      <4>1. t + 1 \in H(t) /\ \A y \in H(t) : t + 1 <= y
        BY <2>3, <3>2
      <4>2. L(H(t)) = t + 1
        <5> HIDE DEF H
        <5>1. \A x \in H(t) : (\A y \in H(t) : x <= y) => x = t + 1
          <6>1. H(t) \subseteq Nat
            BY DEF H
          <6> QED
            BY <4>1, <6>1
        <5> QED
          BY <4>1, <5>1
      <4> QED
        BY <2>1, <2>3, <3>2, <4>1, <4>2
    <3>3. CASE t + 1 \notin B
      <4>1. V(t + 1) = V(t)
        <5> HIDE DEF H, L
        <5> QED
          BY <2>3, <3>1, <3>3
      <4> HIDE DEF V, g
      <4> QED
        BY <2>1, <2>3, <4>1
    <3> QED
      BY <3>2, <3>3
  <2>4. CASE t \notin B /\ ~(t < last /\ t < most)
    <3>1. \A u \in B : ~(t <= u /\ u <= most)
      BY <2>4
    <3>2. H(t) = {}
      BY <3>1
    <3> QED
      BY <2>4, <3>2
  <2> QED
    BY <2>2, <2>3, <2>4
<1> HIDE DEF V
<1>2. g = [t \in Nat |-> IF t \in B THEN t ELSE IF t < last /\ t < most THEN g[t + 1] ELSE 0]
  BY <1>1
<1> QED
  BY <1>2 DEF Up

\* From s upwards, the nearest line of B up to most, or 0.
FindsUp(g, B, most, s) ==
    /\ (\A u \in B : ~(s <= u /\ u <= most)) => g[s] = 0
    /\ (\E u \in B : s <= u /\ u <= most) =>
          g[s] \in B /\ s <= g[s] /\ g[s] <= most /\ \A u \in B : s <= u => g[s] <= u

LEMMA UpFinds ==
    ASSUME NEW B \in SUBSET Nat, NEW last \in Nat, NEW most \in Nat, \A u \in B : u <= last,
           NEW g, Up(g, B, last, most), NEW s \in Nat, s <= most
    PROVE  FindsUp(g, B, most, s)
<1> USE DEF FindsUp
<1> DEFINE P(t) == FindsUp(g, B, most, t)
           Bad == {d \in 0..most : ~P(most - d)}
<1>1. \A t \in Nat : g[t] = IF t \in B THEN t
                            ELSE IF t < last /\ t < most THEN g[t + 1] ELSE 0
  BY DEF Up
<1>2. Bad = {}
  <2> SUFFICES ASSUME Bad # {} PROVE FALSE
      OBVIOUS
  <2>1. PICK d \in Bad : \A y \in Bad : d <= y
    <3>1. Bad \in SUBSET Nat
      OBVIOUS
    <3> HIDE DEF Bad
    <3> QED
      BY <3>1, Smallest
  <2> DEFINE t == most - d
  <2>2. d \in 0..most /\ ~P(t)
    BY <2>1
  <2>3. t \in Nat /\ t <= most
    BY <2>2
  <2>4. t < most => P(t + 1)
    <3>1. t < most => d - 1 \in 0..most /\ most - (d - 1) = t + 1 /\ ~(d <= d - 1)
      BY <2>2
    <3>2. t < most => d - 1 \notin Bad
      <4> HIDE DEF Bad, t
      <4> QED
        BY <2>1, <3>1
    <3> HIDE DEF P, t
    <3> QED
      BY <3>1, <3>2
  <2> HIDE DEF t, Bad
  <2>5. CASE t \in B
    <3>1. g[t] = t
      BY <1>1, <2>3, <2>5
    <3>2. P(t)
      BY <2>3, <2>5, <3>1
    <3> QED
      BY <2>2, <3>2
  <2>6. CASE t \notin B /\ t < last /\ t < most
    <3>1. g[t] = g[t + 1]
      BY <1>1, <2>3, <2>6
    <3>2. \A u \in B : t <= u <=> t + 1 <= u
      BY <2>3, <2>6
    <3>3. P(t + 1)
      BY <2>4, <2>6
    <3>4. t + 1 <= g[t + 1] /\ g[t + 1] \in B => t <= g[t + 1]
      BY <3>2
    <3>5. P(t)
      BY <3>1, <3>2, <3>3, <3>4
    <3> QED
      BY <2>2, <3>5
  <2>7. CASE t \notin B /\ ~(t < last /\ t < most)
    <3>1. g[t] = 0
      BY <1>1, <2>3, <2>7
    <3>2. \A u \in B : ~(t <= u /\ u <= most)
      BY <2>3, <2>7
    <3>3. P(t)
      BY <3>1, <3>2
    <3> QED
      BY <2>2, <3>3
  <2> QED
    BY <2>5, <2>6, <2>7
<1>3. most - s \in 0..most /\ most - (most - s) = s
  OBVIOUS
<1> HIDE DEF P
<1>4. P(s)
  BY <1>2, <1>3
<1> QED
  BY <1>4 DEF P

LEMMA DownExists ==
    ASSUME NEW B \in SUBSET Nat, NEW first \in Nat \ {0}, NEW l \in Nat, \A u \in B : first <= u
    PROVE  \E g : Down(g, B, first, l)
<1> DEFINE H(t) == {u \in B : u <= t /\ l <= u + ScanRange}
           L(T) == CHOOSE x \in T : \A y \in T : y <= x
           V(t) == IF t \in B THEN t ELSE IF H(t) = {} THEN 0 ELSE L(H(t))
           g    == [t \in Nat |-> V(t)]
<1>1. ASSUME NEW t \in Nat
      PROVE  V(t) = IF t \in B THEN t ELSE IF t > first /\ t + ScanRange > l THEN g[t - 1] ELSE 0
  <2>1. t > first => t - 1 \in Nat /\ g[t - 1] = V(t - 1)
    <3>1. t > first => t - 1 \in Nat
      OBVIOUS
    <3> HIDE DEF V
    <3> QED
      BY <3>1
  <2>2. CASE t \in B
    BY <2>2
  <2>3. CASE t \notin B /\ t > first /\ t + ScanRange > l
    <3>1. H(t) = H(t - 1)
      <4>1. \A u \in B : u <= t <=> u <= t - 1
        BY <2>3
      <4> QED
        BY <4>1
    <3>2. CASE t - 1 \in B
      <4>1. t - 1 \in H(t) /\ \A y \in H(t) : y <= t - 1
        <5>1. t - 1 <= t /\ l <= (t - 1) + ScanRange
          BY <2>3, ScanIs
        <5> QED
          BY <3>1, <3>2, <5>1
      <4>2. L(H(t)) = t - 1
        <5>1. H(t) \subseteq Nat
          OBVIOUS
        <5> HIDE DEF H
        <5>2. \A x \in H(t) : (\A y \in H(t) : y <= x) => x = t - 1
          BY <4>1, <5>1
        <5> QED
          BY <4>1, <5>2
      <4> QED
        BY <2>1, <2>3, <3>2, <4>1, <4>2
    <3>3. CASE t - 1 \notin B
      <4>1. V(t - 1) = V(t)
        <5> HIDE DEF H, L
        <5> QED
          BY <2>3, <3>1, <3>3
      <4> HIDE DEF V, g
      <4> QED
        BY <2>1, <2>3, <4>1
    <3> QED
      BY <3>2, <3>3
  <2>4. CASE t \notin B /\ ~(t > first /\ t + ScanRange > l)
    <3>1. \A u \in B : ~(u <= t /\ l <= u + ScanRange)
      BY <2>4, ScanIs
    <3>2. H(t) = {}
      BY <3>1
    <3> QED
      BY <2>4, <3>2
  <2> QED
    BY <2>2, <2>3, <2>4
<1> HIDE DEF V
<1>2. g = [t \in Nat |-> IF t \in B THEN t
                         ELSE IF t > first /\ t + ScanRange > l THEN g[t - 1] ELSE 0]
  BY <1>1
<1> QED
  BY <1>2 DEF Down

LEMMA DownFinds ==
    ASSUME NEW B \in SUBSET Nat, NEW first \in Nat \ {0}, NEW l \in Nat, \A u \in B : first <= u,
           NEW g, Down(g, B, first, l), NEW s \in Nat, l <= s + ScanRange
    PROVE  /\ (\A u \in B : ~(u <= s /\ l <= u + ScanRange)) => g[s] = 0
           /\ (\E u \in B : u <= s /\ l <= u + ScanRange) =>
                 /\ g[s] \in B /\ g[s] <= s /\ l <= g[s] + ScanRange
                 /\ \A u \in B : u <= s => u <= g[s]
<1> DEFINE P(t) == l <= t + ScanRange =>
                   /\ (\A u \in B : ~(u <= t /\ l <= u + ScanRange)) => g[t] = 0
                   /\ (\E u \in B : u <= t /\ l <= u + ScanRange) =>
                         /\ g[t] \in B /\ g[t] <= t /\ l <= g[t] + ScanRange
                         /\ \A u \in B : u <= t => u <= g[t]
           Bad == {t \in Nat : ~P(t)}
<1>1. \A t \in Nat : g[t] = IF t \in B THEN t
                            ELSE IF t > first /\ t + ScanRange > l THEN g[t - 1] ELSE 0
  BY DEF Down
<1>2. Bad = {}
  <2> SUFFICES ASSUME Bad # {} PROVE FALSE
      OBVIOUS
  <2>1. PICK t \in Bad : \A y \in Bad : t <= y
    <3>1. Bad \in SUBSET Nat
      OBVIOUS
    <3> HIDE DEF Bad
    <3> QED
      BY <3>1, Smallest
  <2>2. t \in Nat /\ ~P(t) /\ l <= t + ScanRange
    BY <2>1
  <2>3. t > 0 => P(t - 1)
    <3>1. t > 0 => t - 1 \in Nat /\ ~(t <= t - 1)
      BY <2>2
    <3>2. t > 0 => t - 1 \notin Bad
      <4> HIDE DEF Bad
      <4> QED
        BY <2>1, <3>1
    <3> HIDE DEF P
    <3> QED
      BY <3>1, <3>2
  <2> HIDE DEF Bad
  <2>4. CASE t \in B
    <3>1. g[t] = t
      BY <1>1, <2>2, <2>4
    <3>2. P(t)
      BY <2>2, <2>4, <3>1
    <3> QED
      BY <2>2, <3>2
  <2>5. CASE t \notin B /\ t > first /\ t + ScanRange > l
    <3>1. g[t] = g[t - 1]
      BY <1>1, <2>2, <2>5
    <3>2. \A u \in B : u <= t <=> u <= t - 1
      BY <2>2, <2>5
    <3>3. P(t - 1) /\ l <= (t - 1) + ScanRange
      BY <2>2, <2>3, <2>5, ScanIs
    <3>4. g[t - 1] <= t - 1 /\ g[t - 1] \in B => g[t - 1] <= t
      BY <3>2
    <3>5. P(t)
      BY <3>1, <3>2, <3>3, <3>4
    <3> QED
      BY <2>2, <3>5
  <2>6. CASE t \notin B /\ ~(t > first /\ t + ScanRange > l)
    <3>1. g[t] = 0
      BY <1>1, <2>2, <2>6
    <3>2. \A u \in B : ~(u <= t /\ l <= u + ScanRange)
      BY <2>2, <2>6, ScanIs
    <3>3. P(t)
      BY <3>1, <3>2
    <3> QED
      BY <2>2, <3>3
  <2> QED
    BY <2>4, <2>5, <2>6
<1> HIDE DEF P
<1>3. P(s)
  BY <1>2
<1> QED
  BY <1>3 DEF P

\* What the scans of line_breakpoint_resolve_helper() find.
LEMMA FollowingIs ==
    ASSUME NEW f \in DOMAIN Functions, NEW l \in Nat
    PROVE  LET B == Functions[f].breakable
           IN /\ (\A u \in B : ~(l < u /\ u <= l + ScanRange)) => Following(l, f) = 0
              /\ (\E u \in B : l < u /\ u <= l + ScanRange) =>
                    /\ Following(l, f) \in B /\ l < Following(l, f)
                    /\ Following(l, f) <= l + ScanRange
                    /\ \A u \in B : l < u => Following(l, f) <= u
<1> DEFINE B    == Functions[f].breakable
           last == Functions[f].end
           most == l + ScanRange
           n    == l + 1
           g    == CHOOSE h : Up(h, B, last, most)
<1>1. /\ B \in SUBSET Nat /\ last \in Nat /\ most \in Nat /\ \A u \in B : u <= last
      /\ n \in Nat /\ n <= most /\ most = l + ScanRange
  BY FunctionIs, ScanIs DEF Lines
<1>2. Following(l, f) = g[n]
  BY DEF Following, Up
<1> HIDE DEF B, last, most
<1>3. Up(g, B, last, most)
  <2>1. \E h : Up(h, B, last, most)
    BY <1>1, UpExists
  <2> QED
    BY <2>1
<1> HIDE DEF g
<1>4. /\ (\A u \in B : ~(n <= u /\ u <= most)) => g[n] = 0
      /\ (\E u \in B : n <= u /\ u <= most) =>
            /\ g[n] \in B /\ n <= g[n] /\ g[n] <= most
            /\ \A u \in B : n <= u => g[n] <= u
  <2> HIDE DEF n
  <2>1. B \in SUBSET Nat /\ last \in Nat /\ most \in Nat /\ n \in Nat /\ n <= most
    BY <1>1
  <2>2. \A u \in B : u <= last
    BY <1>1
  <2>3. FindsUp(g, B, most, n)
    BY <2>1, <2>2, <1>3, UpFinds
  <2> QED
    BY <2>3 DEF FindsUp
<1>5. \A u \in B : n <= u <=> l < u
  BY <1>1
<1> HIDE DEF n
<1> QED
  BY <1>1, <1>2, <1>4, <1>5 DEF B

LEMMA PreviousIs ==
    ASSUME NEW f \in DOMAIN Functions, NEW l \in Nat \ {0}
    PROVE  LET B == Functions[f].breakable
           IN /\ (\A u \in B : ~(u < l /\ l <= u + ScanRange)) => Previous(l, f) = 0
              /\ (\E u \in B : u < l /\ l <= u + ScanRange) =>
                    /\ Previous(l, f) \in B /\ Previous(l, f) < l
                    /\ l <= Previous(l, f) + ScanRange
                    /\ \A u \in B : u < l => u <= Previous(l, f)
<1> DEFINE B     == Functions[f].breakable
           first == Functions[f].start
           g     == CHOOSE h : Down(h, B, first, l)
<1>1. /\ B \in SUBSET Nat /\ first \in Nat \ {0} /\ \A u \in B : first <= u
      /\ l - 1 \in Nat /\ l <= (l - 1) + ScanRange
  BY FunctionIs, ScanIs DEF Lines
<1>2. Previous(l, f) = g[l - 1]
  BY DEF Previous, Down
<1> HIDE DEF B, first
<1>3. Down(g, B, first, l)
  <2>1. \E h : Down(h, B, first, l)
    BY <1>1, DownExists
  <2> QED
    BY <2>1
<1> HIDE DEF g
<1>4. /\ (\A u \in B : ~(u <= l - 1 /\ l <= u + ScanRange)) => g[l - 1] = 0
      /\ (\E u \in B : u <= l - 1 /\ l <= u + ScanRange) =>
            /\ g[l - 1] \in B /\ g[l - 1] <= l - 1 /\ l <= g[l - 1] + ScanRange
            /\ \A u \in B : u <= l - 1 => u <= g[l - 1]
  BY <1>1, <1>3, DownFinds
<1>5. \A u \in B : u <= l - 1 <=> u < l
  BY <1>1
<1> QED
  BY <1>2, <1>4, <1>5 DEF B

\* Of the lines within reach, the nearest: following lines before previous ones.
Nearest(l, m) == \A r \in Reach(l) : IF m >= l THEN r < l \/ m <= r ELSE r <= m

LEMMA ReachIs ==
    ASSUME NEW l \in Nat, Around(l) # {}
    PROVE  /\ SmallestRange(l) \in DOMAIN Functions /\ l \in Lines(SmallestRange(l))
           /\ Reach(l) = {m \in Functions[SmallestRange(l)].breakable :
                              m <= l + ScanRange /\ l <= m + ScanRange}
<1>1. SmallestRange(l) \in Around(l)
  BY SmallestRangeIs
<1>2. SmallestRange(l) = CHOOSE f \in Around(l) :
          \A g \in Around(l) : Span(f) <= Span(g) /\ (g < f => Span(f) < Span(g))
  BY SmallestRangeIs
<1>3. Reach(l) = {m \in Functions[SmallestRange(l)].breakable :
                      m <= l + ScanRange /\ l <= m + ScanRange}
  BY <1>2 DEF Reach
<1> QED
  BY <1>1, <1>3 DEF Around

\* line_breakpoint_resolve_helper() finds the nearest line, if there is one.
LEMMA ResolvedIs ==
    ASSUME NEW b, b.orig \in Nat \ {0}
    PROVE  \/ Resolved(b) = b /\ (Around(b.orig) = {} \/ Reach(b.orig) = {})
           \/ \E m \in Reach(b.orig) :
                 /\ Around(b.orig) # {} /\ Nearest(b.orig, m)
                 /\ Resolved(b) = [b EXCEPT !.line = m, !.resolved = TRUE]
<1> DEFINE l    == b.orig
           f    == SmallestRange(l)
           B    == Functions[f].breakable
           next == Following(l, f)
           prev == Previous(l, f)
           to(m) == [b EXCEPT !.line = m, !.resolved = TRUE]
<1>1. CASE Around(l) = {}
  BY <1>1 DEF Resolved
<1>2. CASE Around(l) # {}
  <2>1. /\ f \in DOMAIN Functions /\ l \in Nat /\ l \in Nat \ {0}
        /\ Reach(l) = {m \in B : m <= l + ScanRange /\ l <= m + ScanRange}
    BY <1>2, ReachIs
  <2>2. B \subseteq Nat \ {0}
    BY <2>1, FunctionIs
  <2>3. /\ (\A u \in B : ~(l < u /\ u <= l + ScanRange)) => next = 0
        /\ (\E u \in B : l < u /\ u <= l + ScanRange) =>
              /\ next \in B /\ l < next /\ next <= l + ScanRange /\ \A u \in B : l < u => next <= u
    BY <2>1, FollowingIs
  <2>4. /\ (\A u \in B : ~(u < l /\ l <= u + ScanRange)) => prev = 0
        /\ (\E u \in B : u < l /\ l <= u + ScanRange) =>
              /\ prev \in B /\ prev < l /\ l <= prev + ScanRange /\ \A u \in B : u < l => u <= prev
    BY <2>1, PreviousIs
  <2>5. Resolved(b) = IF l \in B THEN to(l)
                      ELSE IF next # 0 THEN to(next) ELSE IF prev # 0 THEN to(prev) ELSE b
    BY <1>2 DEF Resolved
  <2> HIDE DEF to, B, f, next, prev, l
  <2>6. CASE l \in B
    <3>1. l \in Reach(l)
      BY <2>1, <2>2, <2>6, ScanIs
    <3>2. ASSUME NEW r \in Reach(l)
          PROVE  r < l \/ l <= r
      <4>1. r \in Nat
        BY <2>1, <2>2
      <4> QED
        BY <2>1, <4>1
    <3>3. Nearest(l, l)
      BY <2>1, <3>2 DEF Nearest
    <3> QED
      BY <1>2, <2>5, <2>6, <3>1, <3>3 DEF to, l
  <2>7. CASE l \notin B /\ next # 0
    <3>1. next \in B /\ l < next /\ next <= l + ScanRange /\ \A u \in B : l < u => next <= u
      BY <2>3, <2>7
    <3>2. next \in Nat
      BY <2>2, <3>1
    <3>3. next \in Reach(l)
      BY <2>1, <3>1, <3>2, ScanIs
    <3>4. ASSUME NEW r \in Reach(l)
          PROVE  r < l \/ next <= r
      <4>1. r \in B /\ r \in Nat /\ r # l
        BY <2>1, <2>2, <2>7
      <4> QED
        BY <2>1, <3>1, <4>1
    <3>5. next >= l
      BY <2>1, <3>1, <3>2
    <3>6. Nearest(l, next)
      BY <3>4, <3>5 DEF Nearest
    <3> QED
      BY <1>2, <2>5, <2>7, <3>3, <3>6 DEF to, l
  <2>8. CASE l \notin B /\ next = 0 /\ prev # 0
    <3>1. prev \in B /\ prev < l /\ l <= prev + ScanRange /\ \A u \in B : u < l => u <= prev
      BY <2>4, <2>8
    <3>2. prev \in Nat
      BY <2>2, <3>1
    <3>3. prev \in Reach(l)
      BY <2>1, <3>1, <3>2, ScanIs
    <3>4. \A u \in B : ~(l < u /\ u <= l + ScanRange)
      BY <2>2, <2>3, <2>8
    <3>5. ASSUME NEW r \in Reach(l)
          PROVE  r <= prev
      <4>1. r \in B /\ r \in Nat /\ r # l /\ r <= l + ScanRange
        BY <2>1, <2>2, <2>8
      <4>2. r < l
        BY <2>1, <3>4, <4>1
      <4> QED
        BY <3>1, <4>1, <4>2
    <3>6. ~(prev >= l)
      BY <2>1, <3>1, <3>2
    <3>7. Nearest(l, prev)
      BY <3>5, <3>6 DEF Nearest
    <3> QED
      BY <1>2, <2>5, <2>8, <3>3, <3>7 DEF to, l
  <2>9. CASE l \notin B /\ next = 0 /\ prev = 0
    <3>1. \A u \in B : ~(l < u /\ u <= l + ScanRange)
      BY <2>2, <2>3, <2>9
    <3>2. \A u \in B : ~(u < l /\ l <= u + ScanRange)
      BY <2>2, <2>4, <2>9
    <3>3. \A u \in B : ~(u <= l + ScanRange /\ l <= u + ScanRange)
      BY <2>1, <2>2, <2>9, <3>1, <3>2
    <3>4. Reach(l) = {}
      BY <2>1, <3>3
    <3> QED
      BY <2>5, <2>9, <3>4 DEF l
  <2> QED
    BY <2>6, <2>7, <2>8, <2>9
<1> QED
  BY <1>1, <1>2

-----------------------------------------------------------------------------
(* Frames and breakpoints.                                                 *)

LEMMA BreakpointIs ==
    ASSUME NEW b \in Breakpoint
    PROVE  b.orig \in Asked /\ b.orig \in Nat \ {0} /\ b.id \in 1..MaxIds
BY ScanAssumption DEF Breakpoint

LEMMA ResolvedType ==
    ASSUME NEW b \in Breakpoint
    PROVE  Resolved(b) \in Breakpoint /\ Resolved(b).id = b.id
<1>1. CASE Resolved(b) = b
  BY <1>1
<1>2. CASE Resolved(b) # b
  <2>1. PICK m \in Reach(b.orig) : /\ Around(b.orig) # {}
                                   /\ Resolved(b) = [b EXCEPT !.line = m, !.resolved = TRUE]
    BY <1>2, BreakpointIs, ResolvedIs
  <2>2. m \in Nat
    BY <2>1, BreakpointIs, ReachIs, FunctionIs
  <2> QED
    BY <2>1, <2>2 DEF Breakpoint
<1> QED
  BY <1>1, <1>2

LEMMA UnseenIs ==
    ASSUME NEW frame \in Frame, NEW id \in 1..MaxIds
    PROVE  /\ Unseen(frame, id) \in Frame
           /\ Unseen(frame, id).function = frame.function
           /\ Unseen(frame, id).marked = frame.marked
           /\ ~frame.marked => Unseen(frame, id).unseen = frame.unseen \cup {id}
<1> DEFINE unseen == IF frame.marked THEN {} ELSE frame.unseen \cup {id}
<1>1. unseen \in SUBSET (1..MaxIds)
  BY DEF Frame
<1>2. ~frame.marked => unseen = frame.unseen \cup {id}
  OBVIOUS
<1>3. Unseen(frame, id) = [frame EXCEPT !.unseen = unseen]
  BY DEF Unseen, Frame
<1> HIDE DEF unseen
<1> QED
  BY <1>1, <1>2, <1>3 DEF Frame

LEMMA StackIs ==
    ASSUME TypeOK, NEW t \in Threads
    PROVE  /\ stacks[t] \in Seq(Frame) /\ Len(stacks[t]) \in Nat
           /\ DOMAIN stacks[t] = 1..Len(stacks[t])
           /\ \A k \in DOMAIN stacks[t] : stacks[t][k] \in Frame
<1>1. stacks[t] \in Seq(Frame)
  BY DEF TypeOK
<1> QED
  BY <1>1, LenProperties, ElementOfSeq

LEMMA MappedStack ==
    ASSUME TypeOK, NEW t \in Threads, NEW s, s = [k \in DOMAIN stacks[t] |-> s[k]],
           \A k \in DOMAIN stacks[t] : s[k] \in Frame
    PROVE  s \in Seq(Frame) /\ DOMAIN s = DOMAIN stacks[t]
BY StackIs, MappedIs

\* The frames when a breakpoint is set.
LEMMA MarkedIs ==
    ASSUME TypeOK, NEW t \in Threads, NEW id \in 1..MaxIds
    PROVE  /\ Marked(t, id) \in Seq(Frame) /\ DOMAIN Marked(t, id) = DOMAIN stacks[t]
           /\ \A k \in DOMAIN stacks[t] :
                 IF t = current THEN Marked(t, id)[k].marked
                 ELSE Marked(t, id)[k] = Unseen(stacks[t][k], id)
<1> DEFINE s == Marked(t, id)
<1>1. s = [k \in DOMAIN stacks[t] |-> s[k]]
  BY DEF Marked
<1>2. \A k \in DOMAIN stacks[t] :
         s[k] = IF t = current THEN [stacks[t][k] EXCEPT !.marked = TRUE, !.unseen = {}]
                               ELSE Unseen(stacks[t][k], id)
  BY DEF Marked
<1> HIDE DEF s
<1>3. ASSUME NEW k \in DOMAIN stacks[t]
      PROVE  s[k] \in Frame /\ (t = current => s[k].marked)
  <2>1. stacks[t][k] \in Frame
    BY StackIs
  <2>2. [stacks[t][k] EXCEPT !.marked = TRUE, !.unseen = {}] \in Frame
    BY <2>1 DEF Frame
  <2>3. [stacks[t][k] EXCEPT !.marked = TRUE, !.unseen = {}].marked
    BY <2>1 DEF Frame
  <2> QED
    BY <1>2, <2>1, <2>2, <2>3, UnseenIs
<1>4. s \in Seq(Frame) /\ DOMAIN s = DOMAIN stacks[t]
  BY <1>1, <1>3, MappedStack
<1> QED
  BY <1>2, <1>3, <1>4 DEF s

-----------------------------------------------------------------------------
(* Type correctness.                                                       *)

LEMMA TypeParts ==
    TypeOK <=> /\ at \in {"php", "prompt"} /\ listed \in BOOLEAN /\ early \in BOOLEAN
               /\ count \in 0..MaxIds /\ bps \subseteq Breakpoint
               /\ stacks \in [Threads -> Seq(Frame)] /\ current \in Threads
BY DEF TypeOK

LEMMA TypeInit == Init => TypeOK
<1> SUFFICES ASSUME Init PROVE TypeOK
    OBVIOUS
<1>1. [t \in Threads |-> << >>] \in [Threads -> Seq(Frame)]
  OBVIOUS
<1>2. stacks \in [Threads -> Seq(Frame)] /\ bps \subseteq Breakpoint
  BY <1>1 DEF Init
<1>3. current \in Threads /\ at \in {"php", "prompt"}
  BY DEF Init, Threads
<1>4. listed \in BOOLEAN /\ early \in BOOLEAN
  BY DEF Init
<1>5. count \in 0..MaxIds
  BY BoundsAssumption DEF Init
<1> QED
  BY <1>2, <1>3, <1>4, <1>5, TypeParts

\* A breakpoint that is new, moved or resolved.
LEMMA SetType ==
    ASSUME TypeOK, NEW l \in Asked, SetBreakpoint(l)
    PROVE  /\ FreeId \in 1..MaxIds
           /\ \E b \in Breakpoint :
                 /\ b.id = FreeId /\ b.orig = l /\ b.line = l /\ ~b.resolved /\ ~b.moved
                 /\ bps' \in {bps \cup {b}, bps \cup {Resolved(b)}}
<1> DEFINE b == [id |-> FreeId, key |-> l, orig |-> l, line |-> l, resolved |-> FALSE,
                 moved |-> FALSE]
<1>1. FreeId \in 1..MaxIds
  BY BoundsAssumption DEF SetBreakpoint, FreeId, TypeOK
<1>2. l \in Nat
  BY ScanAssumption
<1>3. b \in Breakpoint
  BY <1>1, <1>2 DEF Breakpoint
<1>4. bps' \in {bps \cup {b}, bps \cup {Resolved(b)}}
  BY DEF SetBreakpoint
<1>5. b.id = FreeId /\ b.orig = l /\ b.line = l /\ ~b.resolved /\ ~b.moved
  OBVIOUS
<1> HIDE DEF b
<1> QED
  BY <1>1, <1>3, <1>4, <1>5

Moved(b, l) == [b EXCEPT !.orig = l, !.line = l, !.moved = b.resolved]

LEMMA MovedIs ==
    ASSUME NEW b \in Breakpoint, NEW l \in Asked
    PROVE  /\ Moved(b, l) \in Breakpoint /\ Moved(b, l).id = b.id /\ Moved(b, l).orig = l
           /\ Moved(b, l).line = l /\ Moved(b, l).resolved = b.resolved
           /\ Moved(b, l).moved = b.resolved
<1>1. l \in Nat /\ b.resolved \in BOOLEAN
  BY ScanAssumption DEF Breakpoint
<1> QED
  BY <1>1 DEF Moved, Breakpoint

LEMMA UpdateIs ==
    ASSUME TypeOK, NEW b \in bps, NEW l \in Asked, BreakpointUpdate(b, l)
    PROVE  /\ bps' = (bps \ {b}) \cup {Moved(b, l)}
           /\ stacks' \in [Threads -> Seq(Frame)]
           /\ \A t \in Threads :
                 /\ DOMAIN stacks'[t] = DOMAIN stacks[t]
                 /\ \A k \in DOMAIN stacks[t] : stacks'[t][k] = Unseen(stacks[t][k], b.id)
<1>1. bps' = (bps \ {b}) \cup {Moved(b, l)}
  BY DEF BreakpointUpdate, Moved
<1>2. stacks' = [t \in Threads |-> [k \in DOMAIN stacks[t] |-> Unseen(stacks[t][k], b.id)]]
  BY DEF BreakpointUpdate
<1>3. b.id \in 1..MaxIds
  BY BreakpointIs DEF TypeOK
<1>4. ASSUME NEW t \in Threads
      PROVE  /\ stacks'[t] \in Seq(Frame) /\ DOMAIN stacks'[t] = DOMAIN stacks[t]
             /\ \A k \in DOMAIN stacks[t] : stacks'[t][k] = Unseen(stacks[t][k], b.id)
  <2> DEFINE s == stacks'[t]
  <2>1. s = [k \in DOMAIN stacks[t] |-> Unseen(stacks[t][k], b.id)]
    BY <1>2
  <2>2. s = [k \in DOMAIN stacks[t] |-> s[k]]
    BY <2>1
  <2>3. \A k \in DOMAIN stacks[t] : s[k] = Unseen(stacks[t][k], b.id)
    BY <2>1
  <2> HIDE DEF s
  <2>4. \A k \in DOMAIN stacks[t] : s[k] \in Frame
    BY <1>3, <2>3, StackIs, UnseenIs
  <2>5. s \in Seq(Frame) /\ DOMAIN s = DOMAIN stacks[t]
    BY <2>2, <2>4, MappedStack
  <2> QED
    BY <2>3, <2>5 DEF s
<1>5. stacks' \in [Threads -> Seq(Frame)]
  BY <1>2, <1>4
<1> QED
  BY <1>1, <1>4, <1>5

LEMMA SetMarks ==
    ASSUME TypeOK, NEW l \in Asked, SetBreakpoint(l)
    PROVE  /\ stacks' \in [Threads -> Seq(Frame)]
           /\ \A t \in Threads :
                 /\ DOMAIN stacks'[t] = DOMAIN stacks[t]
                 /\ \A k \in DOMAIN stacks[t] :
                       IF t = current THEN stacks'[t][k].marked
                       ELSE stacks'[t][k] = Unseen(stacks[t][k], FreeId)
<1>1. FreeId \in 1..MaxIds
  BY SetType
<1>2. stacks' = [t \in Threads |-> Marked(t, FreeId)]
  BY DEF SetBreakpoint
<1> QED
  BY <1>1, <1>2, MarkedIs

\* What a call pushes.
Called(f) == [function |-> f, marked |-> HasLineBreakpoints(f), unseen |-> {}]

LEMMA CallIs ==
    ASSUME TypeOK, NEW f \in DOMAIN Functions, Call(f)
    PROVE  /\ stacks' \in [Threads -> Seq(Frame)]
           /\ \A t \in Threads : \A k \in DOMAIN stacks'[t] :
                 \/ stacks'[t][k] = Called(f)
                 \/ k \in DOMAIN stacks[t] /\ stacks'[t][k] = stacks[t][k]
<1> DEFINE frame == Called(f)
<1>1. frame \in Frame
  <2>1. HasLineBreakpoints(f) \in BOOLEAN
    BY DEF HasLineBreakpoints
  <2> QED
    BY <2>1 DEF Called, Frame
<1>2. stacks' = [stacks EXCEPT ![current] = Append(stacks[current], frame)]
  BY DEF Call, Called
<1> HIDE DEF frame
<1>3. current \in Threads /\ stacks \in [Threads -> Seq(Frame)]
  BY DEF TypeOK
<1> DEFINE s == stacks[current]
           n == Len(s)
           a == Append(s, frame)
<1>4. s \in Seq(Frame) /\ n \in Nat /\ DOMAIN s = 1..n
  BY <1>3, StackIs
<1>5. /\ a \in Seq(Frame) /\ Len(a) = n + 1 /\ DOMAIN a = 1..(n + 1)
      /\ a[n + 1] = frame /\ \A k \in 1..n : a[k] = s[k]
  BY <1>1, <1>4, AppendProperties, LenProperties
<1>6. stacks' = [stacks EXCEPT ![current] = a]
  BY <1>2
<1> HIDE DEF a, n
<1>7. ASSUME NEW k \in DOMAIN a
      PROVE  a[k] = frame \/ (k \in DOMAIN s /\ a[k] = s[k])
  <2>1. k \in 1..n \/ k = n + 1
    BY <1>4, <1>5
  <2> QED
    BY <1>4, <1>5, <2>1
<1>8. stacks' \in [Threads -> Seq(Frame)]
  BY <1>3, <1>5, <1>6
<1>9. ASSUME NEW t \in Threads, NEW k \in DOMAIN stacks'[t]
      PROVE  \/ stacks'[t][k] = frame
             \/ k \in DOMAIN stacks[t] /\ stacks'[t][k] = stacks[t][k]
  BY <1>3, <1>6, <1>7
<1> QED
  BY <1>8, <1>9 DEF frame

LEMMA ReturnIs ==
    ASSUME TypeOK, Return
    PROVE  /\ stacks' \in [Threads -> Seq(Frame)]
           /\ \A t \in Threads : \A k \in DOMAIN stacks'[t] :
                 k \in DOMAIN stacks[t] /\ stacks'[t][k] = stacks[t][k]
<1>1. current \in Threads /\ stacks \in [Threads -> Seq(Frame)]
  BY DEF TypeOK
<1> DEFINE s == stacks[current]
           n == Len(s)
           a == SubSeq(s, 1, n - 1)
<1>2. /\ s \in Seq(Frame) /\ n \in Nat /\ DOMAIN s = 1..n /\ \A k \in 1..n : s[k] \in Frame
      /\ s # << >>
  BY <1>1, StackIs DEF Return, Stack
<1>3. n > 0
  BY <1>2, EmptySeq
<1>4. stacks' = [stacks EXCEPT ![current] = a]
  BY DEF Return
<1>5. /\ a \in Seq(Frame) /\ Len(a) = n - 1 /\ \A k \in 1..(n - 1) : a[k] = s[k]
  <2>1. n - 1 \in Int /\ \A k \in 1..(n - 1) : s[k] \in Frame
    BY <1>2
  <2>2. /\ SubSeq(s, 1, n - 1) \in Seq(Frame)
        /\ Len(SubSeq(s, 1, n - 1)) = IF 1 <= n - 1 THEN (n - 1) - 1 + 1 ELSE 0
        /\ \A k \in 1..((n - 1) - 1 + 1) : SubSeq(s, 1, n - 1)[k] = s[1 + k - 1]
    <3> HIDE DEF n, s
    <3> QED
      BY <2>1, SubSeqProperties
  <2>3. /\ (IF 1 <= n - 1 THEN (n - 1) - 1 + 1 ELSE 0) = n - 1 /\ (n - 1) - 1 + 1 = n - 1
        /\ \A k \in 1..(n - 1) : 1 + k - 1 = k
    BY <1>2, <1>3
  <2> QED
    BY <2>2, <2>3
<1>6. DOMAIN a = 1..(n - 1) /\ \A k \in 1..(n - 1) : k \in 1..n
  <2> HIDE DEF a
  <2> QED
    BY <1>2, <1>5, LenProperties
<1> HIDE DEF a, n
<1>7. \A k \in DOMAIN a : k \in DOMAIN s /\ a[k] = s[k]
  BY <1>2, <1>5, <1>6
<1>8. stacks' \in [Threads -> Seq(Frame)]
  BY <1>1, <1>4, <1>5
<1>9. ASSUME NEW t \in Threads, NEW k \in DOMAIN stacks'[t]
      PROVE  k \in DOMAIN stacks[t] /\ stacks'[t][k] = stacks[t][k]
  BY <1>1, <1>4, <1>7
<1> QED
  BY <1>8, <1>9

\* A switch of fibers: the first frame of a fiber comes, the stack of a dead one goes.
LEMMA SwitchIs ==
    ASSUME TypeOK, NEW to \in Threads, Switch(to)
    PROVE  /\ stacks' \in [Threads -> Seq(Frame)]
           /\ \A t \in Threads : \A k \in DOMAIN stacks'[t] :
                 \/ stacks'[t][k].function = 0
                 \/ k \in DOMAIN stacks[t] /\ stacks'[t][k] = stacks[t][k]
<1> DEFINE frame == [function |-> 0, marked |-> FALSE, unseen |-> {}]
           first == <<frame>>
           new   == IF stacks[to] = << >> /\ to # Main THEN first ELSE stacks[to]
<1>1. current \in Threads /\ stacks \in [Threads -> Seq(Frame)]
  BY DEF TypeOK
<1>2. frame \in Frame /\ frame.function = 0
  BY DEF Frame
<1> HIDE DEF frame
<1>3. first \in Seq(Frame) /\ DOMAIN first = {1} /\ first[1] = frame
  BY <1>2
<1> HIDE DEF first
<1>4. /\ new \in Seq(Frame)
      /\ \A k \in DOMAIN new : \/ new[k].function = 0
                              \/ /\ k \in DOMAIN stacks[to]
                                 /\ new[k] = stacks[to][k]
  <2>1. CASE stacks[to] = << >> /\ to # Main
    <3>1. new = first
      BY <2>1
    <3> HIDE DEF new
    <3>2. \A k \in DOMAIN first : first[k].function = 0
      BY <1>2, <1>3
    <3> QED
      BY <1>3, <3>1, <3>2
  <2>2. CASE ~(stacks[to] = << >> /\ to # Main)
    <3>1. new = stacks[to]
      BY <2>2
    <3> HIDE DEF new
    <3> QED
      BY <1>1, <3>1
  <2> QED
    BY <2>1, <2>2
<1>5. PICK dead \in {FALSE, current # Main /\ Len(Stack) = 1} :
        stacks' = [stacks EXCEPT ![to] = new, ![current] = IF dead THEN << >> ELSE stacks[current]]
  <2>1. to # current
    BY DEF Switch
  <2>2. PICK dead \in {FALSE, current # Main /\ Len(Stack) = 1} :
        stacks' = [stacks EXCEPT
                       ![to] = IF @ = << >> /\ to # Main
                               THEN <<[function |-> 0, marked |-> FALSE, unseen |-> {}]>> ELSE @,
                       ![current] = IF dead THEN << >> ELSE @]
    BY DEF Switch
  <2> QED
    BY <2>1, <2>2, <1>1 DEF first, frame
<1>6. to # current
  BY DEF Switch
<1> HIDE DEF new
<1> DEFINE left == IF dead THEN << >> ELSE stacks[current]
<1>7. left \in Seq(Frame) /\ \A k \in DOMAIN left :
                                k \in DOMAIN stacks[current] /\ left[k] = stacks[current][k]
  <2>1. << >> \in Seq(Frame) /\ DOMAIN << >> = {}
    OBVIOUS
  <2> QED
    BY <1>1, <2>1
<1>8. stacks' = [stacks EXCEPT ![to] = new, ![current] = left]
  BY <1>5
<1> HIDE DEF left
<1>9. stacks' \in [Threads -> Seq(Frame)]
  BY <1>1, <1>4, <1>7, <1>8
<1>10. stacks'[current] = left /\ stacks'[to] = new
       /\ \A t \in Threads : t # current /\ t # to => stacks'[t] = stacks[t]
  BY <1>1, <1>6, <1>8
<1>11. ASSUME NEW t \in Threads, NEW k \in DOMAIN stacks'[t]
       PROVE  \/ stacks'[t][k].function = 0
              \/ k \in DOMAIN stacks[t] /\ stacks'[t][k] = stacks[t][k]
  <2>1. CASE t = current
    BY <1>7, <1>10, <2>1
  <2>2. CASE t = to
    BY <1>4, <1>10, <2>2
  <2>3. CASE t # current /\ t # to
    BY <1>10, <2>3
  <2> QED
    BY <2>1, <2>2, <2>3
<1> QED
  BY <1>9, <1>11

LEMMA CompileType ==
    ASSUME TypeOK
    PROVE  ResolveAll(bps) \subseteq Breakpoint
BY ResolvedType DEF ResolveAll, TypeOK

LEMMA TypeStep == TypeOK /\ [Next]_vars => TypeOK'
<1> SUFFICES ASSUME TypeOK, [Next]_vars PROVE TypeOK'
    OBVIOUS
<1>p. (/\ at \in {"php", "prompt"} /\ listed \in BOOLEAN /\ early \in BOOLEAN
       /\ count \in 0..MaxIds /\ bps \subseteq Breakpoint
       /\ stacks \in [Threads -> Seq(Frame)] /\ current \in Threads)' => TypeOK'
  BY TypeParts, PTL
<1>t. /\ at \in {"php", "prompt"} /\ listed \in BOOLEAN /\ early \in BOOLEAN
      /\ count \in 0..MaxIds /\ bps \subseteq Breakpoint
      /\ stacks \in [Threads -> Seq(Frame)] /\ current \in Threads
  BY TypeParts
<1>1. ASSUME NEW l \in Asked, SetBreakpoint(l) PROVE TypeOK'
  <2>1. PICK b \in Breakpoint : bps' \in {bps \cup {b}, bps \cup {Resolved(b)}}
    BY <1>1, SetType
  <2>2. bps' \subseteq Breakpoint
    BY <1>t, <2>1, ResolvedType
  <2>3. count' = count + 1 /\ count < MaxIds /\ UNCHANGED <<at, listed, early, current>>
    BY <1>1 DEF SetBreakpoint
  <2>4. count' \in 0..MaxIds
    BY <1>t, <2>3, BoundsAssumption
  <2>5. stacks' \in [Threads -> Seq(Frame)]
    BY <1>1, SetMarks
  <2> HIDE DEF SetBreakpoint
  <2>6. /\ at' \in {"php", "prompt"} /\ listed' \in BOOLEAN /\ early' \in BOOLEAN
        /\ current' \in Threads
    BY <1>t, <2>3
  <2> QED
    BY <1>p, <2>2, <2>4, <2>5, <2>6
<1>2. ASSUME NEW b \in bps, BreakpointRemove(b) PROVE TypeOK'
  <2>1. bps' \subseteq bps /\ UNCHANGED <<at, listed, early, count, stacks, current>>
    BY <1>2 DEF BreakpointRemove
  <2> QED
    BY <1>p, <1>t, <2>1
<1>3. ASSUME NEW b \in bps, NEW l \in Asked, BreakpointUpdate(b, l) PROVE TypeOK'
  <2>1. bps' = (bps \ {b}) \cup {Moved(b, l)} /\ stacks' \in [Threads -> Seq(Frame)]
    BY <1>3, UpdateIs
  <2>2. bps' \subseteq Breakpoint
    BY <1>t, <2>1, MovedIs
  <2>3. UNCHANGED <<at, listed, early, count, current>>
    BY <1>3 DEF BreakpointUpdate
  <2> QED
    BY <1>p, <1>t, <2>1, <2>2, <2>3
<1>4. CASE FeatureSet
  <2>1. early' = ~early /\ UNCHANGED <<at, listed, count, bps, stacks, current>>
    BY <1>4 DEF FeatureSet
  <2>2. early' \in BOOLEAN
    BY <2>1
  <2> QED
    BY <1>p, <1>t, <2>1, <2>2
<1>5. CASE Continue
  <2>1. at' = "php" /\ UNCHANGED <<listed, early, count, bps, stacks, current>>
    BY <1>5 DEF Continue
  <2> QED
    BY <1>p, <1>t, <2>1
<1>6. CASE Compile
  <2>1. /\ listed' = TRUE /\ bps' = ResolveAll(bps)
        /\ UNCHANGED <<at, early, count, stacks, current>>
    BY <1>6 DEF Compile
  <2>2. bps' \subseteq Breakpoint /\ listed' \in BOOLEAN
    BY <2>1, CompileType
  <2> QED
    BY <1>p, <1>t, <2>1, <2>2
<1>7. CASE Return
  <2>1. UNCHANGED <<at, listed, early, count, bps, current>>
    BY <1>7 DEF Return
  <2> QED
    BY <1>7, <1>p, <1>t, <2>1, ReturnIs
<1>8. ASSUME NEW f \in DOMAIN Functions, Call(f) PROVE TypeOK'
  <2>1. UNCHANGED <<at, listed, early, count, bps, current>>
    BY <1>8 DEF Call
  <2>2. stacks' \in [Threads -> Seq(Frame)]
    BY <1>8, CallIs
  <2> QED
    BY <1>p, <1>t, <2>1, <2>2
<1>9. ASSUME NEW l, Statement(l) PROVE TypeOK'
  <2>1. at' \in {"prompt", at} /\ UNCHANGED <<listed, early, count, bps, stacks, current>>
    BY <1>9 DEF Statement
  <2> QED
    BY <1>p, <1>t, <2>1
<1>10. ASSUME NEW to \in Threads, Switch(to) PROVE TypeOK'
  <2>1. current' = to /\ UNCHANGED <<at, listed, early, count, bps>>
    BY <1>10 DEF Switch
  <2>2. stacks' \in [Threads -> Seq(Frame)]
    BY <1>10, SwitchIs
  <2> QED
    BY <1>p, <1>t, <2>1, <2>2
<1>11. CASE UNCHANGED vars
  BY <1>p, <1>t, <1>11 DEF vars
<1> QED
  BY <1>1, <1>2, <1>3, <1>4, <1>5, <1>6, <1>7, <1>8, <1>9, <1>10, <1>11 DEF Next

\* In whatever order breakpoints are set, moved and removed, files compiled, functions
\* called and fibers switched, every stack holds frames of the script, every breakpoint an
\* id that was given and lines at which it can be.
THEOREM LinesTypeCorrect == Spec => []TypeOK
BY TypeInit, TypeStep, PTL DEF Spec

-----------------------------------------------------------------------------
(* Breakpoints are where they should be.                                   *)

\* A breakpoint is at the line asked for until it is resolved, to the nearest one then; one
\* that is moved is at the line it was moved to.
Placed(b) ==
    /\ b.moved => b.resolved
    /\ ~b.resolved \/ b.moved => b.line = b.orig
    /\ b.resolved /\ ~b.moved =>
          Around(b.orig) # {} /\ b.line \in Reach(b.orig) /\ Nearest(b.orig, b.line)

AllPlaced == \A b \in bps : Placed(b)

LEMMA ResolvedIsPlaced ==
    ASSUME NEW b \in Breakpoint, Placed(b), ~b.resolved
    PROVE  Placed(Resolved(b)) /\ (Resolved(b).resolved \/ Around(b.orig) = {} \/ Reach(b.orig) = {})
           /\ Resolved(b).orig = b.orig
<1>1. b.orig \in Nat \ {0} /\ ~b.moved
  BY BreakpointIs DEF Placed
<1>2. CASE Resolved(b) = b /\ (Around(b.orig) = {} \/ Reach(b.orig) = {})
  BY <1>2
<1>3. CASE \E m \in Reach(b.orig) : /\ Around(b.orig) # {} /\ Nearest(b.orig, m)
                                    /\ Resolved(b) = [b EXCEPT !.line = m, !.resolved = TRUE]
  <2> PICK m \in Reach(b.orig) : /\ Around(b.orig) # {} /\ Nearest(b.orig, m)
                                 /\ Resolved(b) = [b EXCEPT !.line = m, !.resolved = TRUE]
    BY <1>3
  <2> DEFINE c == Resolved(b)
  <2>1. c.line = m /\ c.resolved /\ c.orig = b.orig /\ c.moved = b.moved
    BY DEF Breakpoint
  <2> HIDE DEF c
  <2>2. Placed(c)
    BY <1>1, <2>1 DEF Placed
  <2> QED
    BY <2>1, <2>2 DEF c
<1> QED
  BY <1>1, <1>2, <1>3, ResolvedIs

LEMMA PlacedStep == TypeOK /\ AllPlaced /\ [Next]_vars => AllPlaced'
<1> SUFFICES ASSUME TypeOK, AllPlaced, [Next]_vars PROVE AllPlaced'
    OBVIOUS
<1>t. bps \subseteq Breakpoint
  BY DEF TypeOK
<1>1. ASSUME NEW l \in Asked, SetBreakpoint(l) PROVE AllPlaced'
  <2>1. PICK b \in Breakpoint :
                 /\ b.orig = l /\ b.line = l /\ ~b.resolved /\ ~b.moved
                 /\ bps' \in {bps \cup {b}, bps \cup {Resolved(b)}}
    BY <1>1, SetType
  <2>2. Placed(b)
    BY <2>1 DEF Placed
  <2>3. Placed(Resolved(b))
    BY <2>1, <2>2, ResolvedIsPlaced
  <2> QED
    BY <2>1, <2>2, <2>3 DEF AllPlaced
<1>2. ASSUME NEW b \in bps, BreakpointRemove(b) PROVE AllPlaced'
  BY <1>2 DEF AllPlaced, BreakpointRemove
<1>3. ASSUME NEW b \in bps, NEW l \in Asked, BreakpointUpdate(b, l) PROVE AllPlaced'
  <2>1. bps' = (bps \ {b}) \cup {Moved(b, l)}
    BY <1>3, UpdateIs
  <2>2. Placed(Moved(b, l))
    <3> DEFINE c == Moved(b, l)
    <3>1. c.orig = l /\ c.line = l /\ c.resolved = b.resolved /\ c.moved = b.resolved
      BY <1>t, MovedIs
    <3> HIDE DEF c
    <3>2. Placed(c)
      BY <3>1 DEF Placed
    <3> QED
      BY <3>2 DEF c
  <2> QED
    BY <2>1, <2>2 DEF AllPlaced
<1>4. CASE Compile
  <2>1. bps' = ResolveAll(bps)
    BY <1>4 DEF Compile
  <2> QED
    BY <1>t, <2>1, ResolvedIsPlaced DEF AllPlaced, ResolveAll
<1>5. ASSUME UNCHANGED bps PROVE AllPlaced'
  BY <1>5 DEF AllPlaced
<1>6. FeatureSet \/ Continue \/ Return => UNCHANGED bps
  BY DEF FeatureSet, Continue, Return
<1>7. ASSUME NEW f \in DOMAIN Functions, \/ Call(f)
                                         \/ \E l \in Functions[f].breakable : Statement(l)
      PROVE  UNCHANGED bps
  BY <1>7 DEF Call, Statement
<1>8. ASSUME NEW to \in Threads, Switch(to) PROVE UNCHANGED bps
  BY <1>8 DEF Switch
<1>9. CASE UNCHANGED vars
  BY <1>5, <1>9 DEF vars
<1> QED
  BY <1>1, <1>2, <1>3, <1>4, <1>5, <1>6, <1>7, <1>8, <1>9 DEF Next

LEMMA PlacedInit == Init => AllPlaced
BY DEF Init, AllPlaced

\* For every file, with functions and closures nested in any way, and every range that is
\* scanned: a breakpoint that line_breakpoint_resolve_helper() resolved is on the nearest
\* line within reach of the innermost function, and any other on the line asked for.
THEOREM ResolvedLinesAreNearest == Spec => []ResolvedToNearest
<1>1. TypeOK /\ AllPlaced => ResolvedToNearest
  BY DEF AllPlaced, Placed, Nearest, ResolvedToNearest
<1> QED
  BY <1>1, TypeInit, TypeStep, PlacedInit, PlacedStep, PTL DEF Spec

\* Compiling a file, for the first time or again, leaves a breakpoint unresolved only if no
\* line is within reach: xdebug_debugger_compile_file() passes over none that it could resolve.
THEOREM CompilingResolves == Spec => CompiledIsResolved
<1>1. TypeOK /\ AllPlaced /\ Compile =>
          \A b \in bps' : b.resolved \/ Around(b.orig) = {} \/ Reach(b.orig) = {}
  <2> SUFFICES ASSUME TypeOK, AllPlaced, Compile, NEW b \in bps'
               PROVE  b.resolved \/ Around(b.orig) = {} \/ Reach(b.orig) = {}
      OBVIOUS
  <2>1. PICK a \in bps : b = IF a.resolved THEN a ELSE Resolved(a)
    BY DEF Compile, ResolveAll
  <2>2. CASE a.resolved
    BY <2>1, <2>2
  <2>3. CASE ~a.resolved
    <3>1. a \in Breakpoint /\ Placed(a) /\ b = Resolved(a)
      BY <2>1, <2>3 DEF TypeOK, AllPlaced
    <3> QED
      BY <2>3, <3>1, ResolvedIsPlaced
  <2> QED
    BY <2>2, <2>3
<1> QED
  BY <1>1, TypeInit, TypeStep, PlacedInit, PlacedStep, PTL DEF Spec, CompiledIsResolved

-----------------------------------------------------------------------------
(* The marks of frames.                                                    *)

\* Why a frame need not be marked for this breakpoint: it was not seen, or it is on no line
\* at which the function can stop; and while it is not resolved yet, on no line of the
\* function at all, or resolving it could move it to one.
Harmless(frame, b) ==
    \/ b.id \in frame.unseen
    \/ /\ b.line \notin Functions[frame.function].breakable
       /\ ~b.resolved => b.line \notin Lines(frame.function)

Rightly(frame) == frame.function # 0 /\ ~frame.marked => \A b \in bps : Harmless(frame, b)

RightlyUnmarked == \A t \in Threads : \A k \in DOMAIN stacks[t] : Rightly(stacks[t][k])

LEMMA ResolvedIsHarmless ==
    ASSUME NEW frame \in Frame, frame.function # 0, NEW b \in Breakpoint, Placed(b),
           ~b.resolved, Harmless(frame, b)
    PROVE  Harmless(frame, Resolved(b))
<1>1. b.orig \in Nat \ {0} /\ b.line = b.orig
  BY BreakpointIs DEF Placed
<1>2. Resolved(b).id = b.id
  BY ResolvedType
<1>3. CASE b.id \in frame.unseen
  BY <1>2, <1>3 DEF Harmless
<1>4. CASE b.id \notin frame.unseen
  <2>1. b.orig \notin Lines(frame.function)
    BY <1>1, <1>4 DEF Harmless
  <2>2. CASE Resolved(b) = b
    BY <2>2
  <2>3. CASE Resolved(b) # b
    <3>1. PICK m \in Reach(b.orig) : /\ Around(b.orig) # {}
                                     /\ Resolved(b) = [b EXCEPT !.line = m, !.resolved = TRUE]
      BY <1>1, <2>3, ResolvedIs
    <3>2. Resolved(b).line = m /\ Resolved(b).resolved
      BY <3>1 DEF Breakpoint
    <3> DEFINE f == SmallestRange(b.orig)
    <3>3. f \in DOMAIN Functions /\ b.orig \in Lines(f) /\ m \in Functions[f].breakable
      BY <1>1, <3>1, ReachIs
    <3> HIDE DEF f
    <3>4. frame.function \in DOMAIN Functions /\ frame.function # f
      BY <2>1, <3>3 DEF Frame
    <3>5. m \notin Functions[frame.function].breakable
      BY <3>3, <3>4, FunctionsAssumption
    <3> DEFINE c == Resolved(b)
    <3>6. c.line = m /\ c.resolved
      BY <3>2
    <3> HIDE DEF c
    <3>7. Harmless(frame, c)
      BY <3>5, <3>6 DEF Harmless
    <3> QED
      BY <3>7 DEF c
  <2> QED
    BY <2>2, <2>3
<1> QED
  BY <1>3, <1>4

\* Frames that were there before are as they were, while breakpoints stay the same.
LEMMA FramesKept ==
    ASSUME RightlyUnmarked, UNCHANGED bps,
           \A t \in Threads : \A k \in DOMAIN stacks'[t] :
              \/ stacks'[t][k].function = 0
              \/ k \in DOMAIN stacks[t] /\ stacks'[t][k] = stacks[t][k]
    PROVE  RightlyUnmarked'
<1> SUFFICES ASSUME NEW t \in Threads, NEW k \in DOMAIN stacks'[t],
                    stacks'[t][k].function # 0, ~stacks'[t][k].marked, NEW b \in bps
             PROVE  Harmless(stacks'[t][k], b)
    BY DEF RightlyUnmarked, Rightly, Harmless
<1>1. k \in DOMAIN stacks[t] /\ stacks'[t][k] = stacks[t][k]
  OBVIOUS
<1> QED
  BY <1>1 DEF RightlyUnmarked, Rightly

LEMMA UnseenIsHarmless ==
    ASSUME NEW frame \in Frame, NEW id \in 1..MaxIds, ~frame.marked, NEW b
    PROVE  /\ b.id = id => Harmless(Unseen(frame, id), b)
           /\ Harmless(frame, b) => Harmless(Unseen(frame, id), b)
<1> DEFINE new == Unseen(frame, id)
<1>1. new.function = frame.function /\ new.unseen = frame.unseen \cup {id}
  BY UnseenIs
<1> HIDE DEF new
<1>2. /\ b.id = id => Harmless(new, b)
      /\ Harmless(frame, b) => Harmless(new, b)
  BY <1>1 DEF Harmless
<1> QED
  BY <1>2 DEF new

LEMMA RightlyStep == TypeOK /\ AllPlaced /\ RightlyUnmarked /\ [Next]_vars => RightlyUnmarked'
<1> SUFFICES ASSUME TypeOK, AllPlaced, RightlyUnmarked, [Next]_vars PROVE RightlyUnmarked'
    OBVIOUS
<1>t. bps \subseteq Breakpoint
  BY DEF TypeOK
<1>1. ASSUME NEW l \in Asked, SetBreakpoint(l) PROVE RightlyUnmarked'
  <2>1. FreeId \in 1..MaxIds
    BY <1>1, SetType
  <2>2. PICK b \in Breakpoint :
                 b.id = FreeId /\ bps' \in {bps \cup {b}, bps \cup {Resolved(b)}}
    BY <1>1, SetType
  <2>3. \A c \in bps' : c \in bps \/ c.id = FreeId
    BY <2>2, ResolvedType
  <2> SUFFICES ASSUME NEW t \in Threads, NEW k \in DOMAIN stacks'[t],
                      stacks'[t][k].function # 0, ~stacks'[t][k].marked, NEW c \in bps'
               PROVE  Harmless(stacks'[t][k], c)
      BY DEF RightlyUnmarked, Rightly, Harmless
  <2>4. k \in DOMAIN stacks[t] /\ stacks'[t][k] = Unseen(stacks[t][k], FreeId)
    BY <1>1, SetMarks
  <2> DEFINE frame == stacks[t][k]
  <2>5. frame \in Frame
    BY <2>4, StackIs
  <2>6. frame.function # 0 /\ ~frame.marked
    BY <2>1, <2>4, <2>5, UnseenIs
  <2>7. \A d \in bps : Harmless(frame, d)
    BY <2>4, <2>6 DEF RightlyUnmarked, Rightly
  <2> HIDE DEF frame
  <2>8. Harmless(Unseen(frame, FreeId), c)
    BY <2>1, <2>3, <2>5, <2>6, <2>7, UnseenIsHarmless
  <2> QED
    BY <2>4, <2>8 DEF frame
<1>2. ASSUME NEW b \in bps, BreakpointRemove(b) PROVE RightlyUnmarked'
  BY <1>2 DEF RightlyUnmarked, Rightly, Harmless, BreakpointRemove
<1>3. ASSUME NEW b \in bps, NEW l \in Asked, BreakpointUpdate(b, l) PROVE RightlyUnmarked'
  <2>1. b.id \in 1..MaxIds
    BY <1>t, BreakpointIs
  <2>2. \A c \in bps' : c \in bps \/ c.id = b.id
    BY <1>t, <1>3, UpdateIs, MovedIs
  <2> SUFFICES ASSUME NEW t \in Threads, NEW k \in DOMAIN stacks'[t],
                      stacks'[t][k].function # 0, ~stacks'[t][k].marked, NEW c \in bps'
               PROVE  Harmless(stacks'[t][k], c)
      BY DEF RightlyUnmarked, Rightly, Harmless
  <2>3. k \in DOMAIN stacks[t] /\ stacks'[t][k] = Unseen(stacks[t][k], b.id)
    BY <1>3, UpdateIs
  <2> DEFINE frame == stacks[t][k]
  <2>4. frame \in Frame
    BY <2>3, StackIs
  <2>5. frame.function # 0 /\ ~frame.marked
    BY <2>1, <2>3, <2>4, UnseenIs
  <2>6. \A d \in bps : Harmless(frame, d)
    BY <2>3, <2>5 DEF RightlyUnmarked, Rightly
  <2> HIDE DEF frame
  <2>7. Harmless(Unseen(frame, b.id), c)
    BY <2>1, <2>2, <2>4, <2>5, <2>6, UnseenIsHarmless
  <2> QED
    BY <2>3, <2>7 DEF frame
<1>4. CASE Compile
  <2>1. bps' = ResolveAll(bps) /\ UNCHANGED stacks
    BY <1>4 DEF Compile
  <2> SUFFICES ASSUME NEW t \in Threads, NEW k \in DOMAIN stacks[t],
                      stacks[t][k].function # 0, ~stacks[t][k].marked, NEW c \in bps'
               PROVE  Harmless(stacks[t][k], c)
      BY <2>1 DEF RightlyUnmarked, Rightly, Harmless
  <2>2. PICK a \in bps : c = IF a.resolved THEN a ELSE Resolved(a)
    BY <2>1 DEF ResolveAll
  <2>3. Harmless(stacks[t][k], a) /\ a \in Breakpoint /\ Placed(a)
    BY <1>t DEF RightlyUnmarked, Rightly, AllPlaced
  <2>4. stacks[t][k] \in Frame
    BY StackIs
  <2> QED
    BY <2>2, <2>3, <2>4, ResolvedIsHarmless
<1>5. CASE Return
  <2>1. UNCHANGED bps
    BY <1>5 DEF Return
  <2> QED
    BY <1>5, <2>1, ReturnIs, FramesKept
<1>6. ASSUME NEW f \in DOMAIN Functions, Call(f) PROVE RightlyUnmarked'
  <2>1. UNCHANGED bps
    BY <1>6 DEF Call
  <2> SUFFICES ASSUME NEW t \in Threads, NEW k \in DOMAIN stacks'[t],
                      stacks'[t][k].function # 0, ~stacks'[t][k].marked, NEW b \in bps
               PROVE  Harmless(stacks'[t][k], b)
      BY <2>1 DEF RightlyUnmarked, Rightly, Harmless
  <2>2. \/ stacks'[t][k] = Called(f)
        \/ k \in DOMAIN stacks[t] /\ stacks'[t][k] = stacks[t][k]
    BY <1>6, CallIs
  <2>3. CASE stacks'[t][k] = Called(f)
    <3>1. ~HasLineBreakpoints(f) /\ stacks'[t][k].function = f
      BY <2>3 DEF Called
    <3>2. b.line \notin Lines(f)
      BY <3>1 DEF HasLineBreakpoints
    <3>3. b.line \notin Functions[f].breakable
      BY <3>2, FunctionIs
    <3> QED
      BY <3>1, <3>2, <3>3 DEF Harmless
  <2>4. CASE k \in DOMAIN stacks[t] /\ stacks'[t][k] = stacks[t][k]
    BY <2>4 DEF RightlyUnmarked, Rightly
  <2> QED
    BY <2>2, <2>3, <2>4
<1>7. ASSUME NEW to \in Threads, Switch(to) PROVE RightlyUnmarked'
  <2>1. UNCHANGED bps
    BY <1>7 DEF Switch
  <2> QED
    BY <1>7, <2>1, SwitchIs, FramesKept
<1>8. ASSUME UNCHANGED <<bps, stacks>> PROVE RightlyUnmarked'
  BY <1>8 DEF RightlyUnmarked, Rightly, Harmless
<1>9. FeatureSet \/ Continue => UNCHANGED <<bps, stacks>>
  BY DEF FeatureSet, Continue
<1>10. ASSUME NEW l, Statement(l) PROVE UNCHANGED <<bps, stacks>>
  BY <1>10 DEF Statement
<1>11. CASE UNCHANGED vars
  BY <1>8, <1>11 DEF vars
<1> QED
  BY <1>1, <1>2, <1>3, <1>4, <1>5, <1>6, <1>7, <1>8, <1>9, <1>10, <1>11 DEF Next

LEMMA RightlyInit == Init => RightlyUnmarked
<1> SUFFICES ASSUME Init PROVE RightlyUnmarked
    OBVIOUS
<1>1. \A t \in Threads : DOMAIN stacks[t] = {}
  BY DEF Init
<1> QED
  BY <1>1 DEF RightlyUnmarked

\* For every file, any number of fibers and any order of setting, resolving, moving, calling
\* and switching: a frame that has no mark can stop at no breakpoint, but for one that was
\* set while its fiber was suspended, or moved while the frame was there.
THEOREM NothingIsHidden == Spec => []MarksHideNothing
<1>1. RightlyUnmarked => MarksHideNothing
  BY DEF RightlyUnmarked, Rightly, Harmless, MarksHideNothing
<1> QED
  BY <1>1, TypeInit, TypeStep, PlacedInit, PlacedStep, RightlyInit, RightlyStep, PTL DEF Spec
================================================================================
