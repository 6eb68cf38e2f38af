---------------------------- MODULE BreakpointsProofs ----------------------------
(***************************************************************************)
(* What holds of Breakpoints for every set of files, lines and names and    *)
(* every bound; and that it implements BreakpointTable when clients neither *)
(* move a breakpoint nor set an exception breakpoint twice, and no file's   *)
(* name is a prefix of another's.                                          *)
(***************************************************************************)
EXTENDS Breakpoints, ListLemmas

Conditions == {"none", ">=", "==", "%"}

LineBreakpoint ==
    [id : 1..MaxIds, kind : {"line"}, key : Files \X Lines, line : Lines \cup {0},
     resolved : BOOLEAN, disabled : BOOLEAN, temporary : BOOLEAN, guarded : BOOLEAN,
     hits : Nat, hitValue : Nat, cond : Conditions]

\* The list holds line breakpoints only.
Typed == TypeOK /\ lines \in Seq(LineBreakpoint)

-----------------------------------------------------------------------------
(* Positions of the list.                                                  *)

\* The positions of the list.
LEMMA Positions == Typed => /\ Len(lines) \in Nat /\ DOMAIN lines = 1..Len(lines)
                            /\ \A k \in DOMAIN lines : lines[k] \in LineBreakpoint
                            /\ lines # << >> => Len(lines) \in DOMAIN lines
<1> SUFFICES ASSUME Typed
             PROVE  /\ Len(lines) \in Nat /\ DOMAIN lines = 1..Len(lines)
                    /\ \A k \in DOMAIN lines : lines[k] \in LineBreakpoint
                    /\ lines # << >> => Len(lines) \in DOMAIN lines
    OBVIOUS
<1>1. lines \in Seq(LineBreakpoint)
  BY DEF Typed
<1>2. Len(lines) \in Nat /\ DOMAIN lines = 1..Len(lines)
  BY <1>1, LenProperties
<1>3. \A k \in DOMAIN lines : lines[k] \in LineBreakpoint
  BY <1>1, <1>2, ElementOfSeq
<1>4. lines # << >> => Len(lines) > 0
  BY <1>1, <1>2, EmptySeq
<1> QED
  BY <1>2, <1>3, <1>4

\* breakpoint_brk_info_fetch() stops at a position of the list.
LEMMA PositionIs ==
    ASSUME Typed, lines # << >>, NEW key
    PROVE  Position(key) \in DOMAIN lines
<1>1. Matching(key) \in SUBSET Nat
  BY Positions DEF Matching
<1>2. Matching(key) # {} => Min(Matching(key)) \in DOMAIN lines
  BY <1>1, MinIs DEF Matching
<1> QED
  BY <1>2, Positions DEF Position

-----------------------------------------------------------------------------
(* What commands and hits make of a breakpoint.                            *)

\* It keeps its id, its kind and the key under which it was set.
Same(b, c) == c.id = b.id /\ c.kind = b.kind /\ c.key = b.key

LEMMA LineIsBreakpoint == \A b \in LineBreakpoint : b \in Breakpoint /\ b.kind = "line"
BY DEF LineBreakpoint, Breakpoint, Conditions

LEMMA NewIs ==
    ASSUME TypeOK, count < MaxIds, NEW asked \in Asked, NEW key, NEW line \in Lines \cup {0}
    PROVE  /\ key \in Files \X Lines => New("line", key, line, asked) \in LineBreakpoint
           /\ key \in Names => New(Kind(key), key, line, asked) \in Breakpoint
           /\ New(Kind(key), key, line, asked).kind # "line"
<1> DEFINE typed == [disabled : BOOLEAN, temporary : BOOLEAN, guarded : BOOLEAN,
                     hitValue : Nat, cond : {"none", ">=", "==", "%"}]
<1>1. asked \in typed
  BY AskedAssumption
<1>2. count + 1 \in 1..MaxIds
  BY BoundsAssumption DEF TypeOK
<1>3. Kind(key) \in {"function", "exception"}
  BY DEF Kind
<1>4. /\ asked.disabled \in BOOLEAN /\ asked.temporary \in BOOLEAN /\ asked.guarded \in BOOLEAN
      /\ asked.hitValue \in Nat /\ asked.cond \in Conditions
  BY <1>1 DEF Conditions
<1>5. ("line" # "line") \in BOOLEAN /\ (Kind(key) # "line") \in BOOLEAN
  OBVIOUS
<1>6. key \in Files \X Lines => New("line", key, line, asked) \in LineBreakpoint
  BY <1>2, <1>4, <1>5 DEF New, LineBreakpoint
<1>7. key \in Names => New(Kind(key), key, line, asked) \in Breakpoint
  BY <1>2, <1>3, <1>4, <1>5 DEF New, Breakpoint, Conditions
<1>8. New(Kind(key), key, line, asked).kind # "line"
  BY <1>3 DEF New
<1> QED
  BY <1>6, <1>7, <1>8

LEMMA ResolvedIs ==
    ASSUME NEW b \in LineBreakpoint
    PROVE  Resolved(b) \in LineBreakpoint /\ Same(b, Resolved(b))
<1>1. CASE b.key[2] \in DOMAIN Target
  <2>1. Target[b.key[2]] \in Lines
    BY <1>1, TargetAssumption
  <2>2. Resolved(b) = [b EXCEPT !.line = Target[b.key[2]], !.resolved = TRUE]
    BY <1>1 DEF Resolved
  <2> QED
    BY <2>1, <2>2 DEF LineBreakpoint, Same
<1>2. CASE b.key[2] \notin DOMAIN Target
  BY <1>2 DEF Resolved, Same
<1> QED
  BY <1>1, <1>2

LEMMA CountedIs ==
    ASSUME NEW b
    PROVE  /\ b \in LineBreakpoint => Counted(b) \in LineBreakpoint /\ Same(b, Counted(b))
           /\ b \in Breakpoint => Counted(b) \in Breakpoint /\ Same(b, Counted(b))
<1>1. ASSUME b \in LineBreakpoint
      PROVE  Counted(b) \in LineBreakpoint /\ Same(b, Counted(b))
  <2>1. (b.disabled \/ b.temporary) \in BOOLEAN
    OBVIOUS
  <2>2. b.hits + 1 \in Nat
    BY <1>1 DEF LineBreakpoint
  <2> DEFINE disabled == b.disabled \/ b.temporary
             hits     == b.hits + 1
  <2>3. Counted(b) = [b EXCEPT !.hits = hits, !.disabled = disabled]
    BY DEF Counted
  <2> HIDE DEF disabled, hits
  <2>4. disabled \in BOOLEAN /\ hits \in Nat
    BY <2>1, <2>2 DEF disabled, hits
  <2> QED
    BY <1>1, <2>3, <2>4 DEF LineBreakpoint, Same
<1>2. ASSUME b \in Breakpoint
      PROVE  Counted(b) \in Breakpoint /\ Same(b, Counted(b))
  <2>1. (b.disabled \/ b.temporary) \in BOOLEAN
    OBVIOUS
  <2>2. b.hits + 1 \in Nat
    BY <1>2 DEF Breakpoint
  <2> DEFINE disabled == b.disabled \/ b.temporary
             hits     == b.hits + 1
  <2>3. Counted(b) = [b EXCEPT !.hits = hits, !.disabled = disabled]
    BY DEF Counted
  <2> HIDE DEF disabled, hits
  <2>4. disabled \in BOOLEAN /\ hits \in Nat
    BY <2>1, <2>2 DEF disabled, hits
  <2> QED
    BY <1>2, <2>3, <2>4 DEF Breakpoint, Same
<1> QED
  BY <1>1, <1>2

\* What breakpoint_update makes of it.
Updated(b, s, n, h, o) ==
    [b EXCEPT !.disabled = s, !.hitValue = h, !.cond = o,
              !.key  = IF n = 0 THEN @ ELSE <<@[1], n>>,
              !.line = IF n = 0 THEN @ ELSE n]

LEMMA UpdatedIs ==
    ASSUME NEW b, NEW s \in BOOLEAN, NEW n \in Lines \cup {0}, NEW h \in Nat, NEW o \in Conditions
    PROVE  /\ b \in LineBreakpoint => Updated(b, s, n, h, o) \in LineBreakpoint
           /\ b \in Breakpoint /\ n = 0 => Updated(b, s, n, h, o) \in Breakpoint
           /\ (b \in LineBreakpoint \/ b \in Breakpoint) /\ n = 0 => Same(b, Updated(b, s, n, h, o))
<1>1. ASSUME b \in LineBreakpoint
      PROVE  Updated(b, s, n, h, o) \in LineBreakpoint
  <2> DEFINE key == IF n = 0 THEN b.key ELSE <<b.key[1], n>>
             line == IF n = 0 THEN b.line ELSE n
  <2>1. key \in Files \X Lines
    <3>1. b.key \in Files \X Lines
      BY <1>1 DEF LineBreakpoint
    <3>2. n # 0 => <<b.key[1], n>> \in Files \X Lines
      BY <3>1
    <3> QED
      BY <3>1, <3>2
  <2>2. line \in Lines \cup {0}
    BY <1>1 DEF LineBreakpoint
  <2>3. Updated(b, s, n, h, o) = [b EXCEPT !.disabled = s, !.hitValue = h, !.cond = o,
                                           !.key = key, !.line = line]
    BY <1>1 DEF Updated, LineBreakpoint
  <2> HIDE DEF key, line
  <2> QED
    BY <1>1, <2>1, <2>2, <2>3 DEF LineBreakpoint
<1>2. ASSUME n = 0
      PROVE  Updated(b, s, n, h, o) = [b EXCEPT !.disabled = s, !.hitValue = h, !.cond = o,
                                                !.key = @, !.line = @]
  BY <1>2 DEF Updated
<1>3. ASSUME b \in Breakpoint, n = 0
      PROVE  Updated(b, s, n, h, o) \in Breakpoint
  <2> DEFINE key == b.key
             line == b.line
  <2>1. Updated(b, s, n, h, o) = [b EXCEPT !.disabled = s, !.hitValue = h, !.cond = o,
                                           !.key = key, !.line = line]
    BY <1>2, <1>3 DEF Breakpoint
  <2>2. key \in (Files \X Lines) \cup Names /\ line \in Lines \cup {0}
    BY <1>3 DEF Breakpoint
  <2> HIDE DEF key, line
  <2> QED
    BY <1>3, <2>1, <2>2 DEF Breakpoint, Conditions
<1>4. ASSUME b \in LineBreakpoint \/ b \in Breakpoint, n = 0
      PROVE  Same(b, Updated(b, s, n, h, o))
  BY <1>2, <1>4 DEF Same, Breakpoint, LineBreakpoint
<1> QED
  BY <1>1, <1>3, <1>4

-----------------------------------------------------------------------------
(* Type correctness.                                                       *)

Keys == (Files \X Lines) \cup Names

AdminOK ==
    /\ count \in 0..MaxIds /\ DOMAIN admin \subseteq 1..count
    /\ \A i \in DOMAIN admin :
          admin[i] \in [kind : {"line", "function", "exception"}, key : Keys]
NamedOK == DOMAIN named \subseteq Names /\ \A n \in DOMAIN named : named[n] \in Breakpoint

LEMMA TypedParts ==
    Typed <=> /\ AdminOK /\ NamedOK /\ lines \in Seq(LineBreakpoint)
              /\ compiled \subseteq Files /\ stopped \in 0..MaxIds
<1>1. lines \in Seq(LineBreakpoint) => \A k \in DOMAIN lines : lines[k] \in Breakpoint
  <2> SUFFICES ASSUME lines \in Seq(LineBreakpoint), NEW k \in DOMAIN lines
               PROVE  lines[k] \in Breakpoint
      OBVIOUS
  <2>1. lines[k] \in LineBreakpoint
    BY LenProperties, ElementOfSeq
  <2> QED
    BY <2>1, LineIsBreakpoint
<1> QED
  BY <1>1 DEF Typed, TypeOK, AdminOK, NamedOK, Keys

LEMMA RegisterType ==
    ASSUME AdminOK, NEW kind \in {"line", "function", "exception"}, NEW key \in Keys,
           Register(kind, key)
    PROVE  /\ AdminOK' /\ count' = count + 1 /\ count' \notin DOMAIN admin
           /\ DOMAIN admin' = DOMAIN admin \cup {count'}
           /\ admin'[count'] = [kind |-> kind, key |-> key]
           /\ \A i \in DOMAIN admin : admin'[i] = admin[i]
<1> DEFINE entry == [kind |-> kind, key |-> key]
<1>1. /\ count < MaxIds /\ count' = count + 1
      /\ admin' = [i \in DOMAIN admin \cup {count'} |-> IF i = count' THEN entry ELSE admin[i]]
  BY DEF Register, With
<1>2. entry \in [kind : {"line", "function", "exception"}, key : Keys]
  OBVIOUS
<1> HIDE DEF entry
<1>3. count' \in 0..MaxIds /\ 1..count \subseteq 1..count' /\ count' \in 1..count' /\ count' \notin 1..count
  BY <1>1, BoundsAssumption DEF AdminOK
<1>4. DOMAIN admin' = DOMAIN admin \cup {count'} /\ count' \notin DOMAIN admin
  BY <1>1, <1>3 DEF AdminOK
<1>5. admin'[count'] = entry /\ \A i \in DOMAIN admin : admin'[i] = admin[i]
  BY <1>1, <1>4
<1>6. AdminOK'
  BY <1>2, <1>3, <1>4, <1>5 DEF AdminOK
<1> QED
  BY <1>1, <1>4, <1>5, <1>6 DEF entry

LEMMA WithoutType ==
    ASSUME AdminOK, NEW i, admin' = Without(admin, i), count' = count
    PROVE  /\ AdminOK' /\ DOMAIN admin' = DOMAIN admin \ {i}
           /\ \A j \in DOMAIN admin' : admin'[j] = admin[j]
BY DEF Without, AdminOK

LEMMA WithoutNamed ==
    ASSUME NamedOK, NEW n, named' = Without(named, n)
    PROVE  /\ NamedOK' /\ DOMAIN named' = DOMAIN named \ {n}
           /\ \A m \in DOMAIN named' : named'[m] = named[m]
BY DEF Without, NamedOK

\* One breakpoint of the list, or of the hash, becomes another.
LEMMA ListReplaced ==
    ASSUME NEW k \in DOMAIN lines, NEW b \in LineBreakpoint, Typed,
           lines' = [lines EXCEPT ![k] = b]
    PROVE  /\ lines' \in Seq(LineBreakpoint) /\ DOMAIN lines' = DOMAIN lines
           /\ \A m \in DOMAIN lines : lines'[m] = IF m = k THEN b ELSE lines[m]
<1>1. lines \in Seq(LineBreakpoint) /\ k \in 1..Len(lines)
  BY LenProperties DEF Typed
<1>2. lines' \in Seq(LineBreakpoint) /\ DOMAIN lines' = DOMAIN lines
  BY <1>1, ExceptSeq
<1> QED
  BY <1>2

LEMMA HashReplaced ==
    ASSUME NEW n \in DOMAIN named, NEW b \in Breakpoint, NamedOK,
           named' = [named EXCEPT ![n] = b]
    PROVE  /\ NamedOK' /\ DOMAIN named' = DOMAIN named
           /\ \A m \in DOMAIN named : named'[m] = IF m = n THEN b ELSE named[m]
BY DEF NamedOK

\* Every breakpoint of the list may become another.
LEMMA ListMapped ==
    ASSUME Typed, NEW t, lines' = t, t = [k \in DOMAIN lines |-> t[k]],
           \A k \in DOMAIN lines : t[k] \in LineBreakpoint
    PROVE  lines' \in Seq(LineBreakpoint) /\ DOMAIN lines' = DOMAIN lines
BY MappedIs DEF Typed

\* Compilation resolves some of the list.
Fetched == {Position(admin[i].key) : i \in {j \in DOMAIN admin : admin[j].kind = "line"}}

CompiledLines(f) ==
    [k \in DOMAIN lines |-> IF k \in Fetched /\ ~lines[k].resolved /\ lines[k].key[1] = f
                            THEN Resolved(lines[k]) ELSE lines[k]]

LEMMA CompileIs ==
    ASSUME Typed, NEW f \in Files, Compile(f)
    PROVE  /\ lines' = CompiledLines(f)
           /\ lines' \in Seq(LineBreakpoint) /\ DOMAIN lines' = DOMAIN lines
           /\ \A k \in DOMAIN lines :
                 \/ lines'[k] = lines[k]
                 \/ ~lines[k].resolved /\ lines'[k] = Resolved(lines[k])
<1>1. lines' = CompiledLines(f)
  BY DEF Compile, CompiledLines, Fetched
<1> DEFINE t == CompiledLines(f)
<1>2. t = [k \in DOMAIN lines |-> t[k]]
  BY DEF CompiledLines
<1>3. \A k \in DOMAIN lines : \/ t[k] = lines[k]
                              \/ ~lines[k].resolved /\ t[k] = Resolved(lines[k])
  BY DEF CompiledLines
<1>4. \A k \in DOMAIN lines : t[k] \in LineBreakpoint
  BY <1>3, Positions, ResolvedIs
<1> HIDE DEF t
<1>5. lines' = t
  BY <1>1 DEF t
<1>6. lines' \in Seq(LineBreakpoint) /\ DOMAIN lines' = DOMAIN lines
  BY <1>2, <1>4, <1>5, ListMapped
<1> QED
  BY <1>1, <1>3, <1>5, <1>6

\* A statement counts hits, up to the breakpoint that stops.
LEMMA StatementIs ==
    ASSUME Typed, NEW f \in Files, NEW l \in Lines, Statement(f, l)
    PROVE  \E here \in SUBSET DOMAIN lines, due \in SUBSET DOMAIN lines, last \in Nat :
              /\ \A k \in here : ~lines[k].disabled
              /\ due \subseteq here
              /\ IF due = {} THEN stopped' = 0
                 ELSE last \in due /\ stopped' = lines[last].id
              /\ DOMAIN lines' = DOMAIN lines /\ lines' \in Seq(LineBreakpoint)
              /\ \A k \in DOMAIN lines :
                    lines'[k] = IF k \in here /\ k <= last THEN Counted(lines[k]) ELSE lines[k]
<1> PICK held \in SUBSET {k \in DOMAIN lines : lines[k].guarded} :
       LET here  == {k \in DOMAIN lines :
                       /\ lines[k].key[1] = f /\ lines[k].line = l
                       /\ ~lines[k].disabled /\ (lines[k].guarded => k \in held)}
           due   == {k \in here : Satisfied(Counted(lines[k]))}
           first == IF due = {} THEN Len(lines) ELSE Min(due)
       IN /\ lines' = [k \in DOMAIN lines |-> IF k \in here /\ k <= first THEN Counted(lines[k])
                                                                       ELSE lines[k]]
          /\ stopped' = (IF due = {} THEN 0 ELSE lines[first].id)
    BY DEF Statement
<1> DEFINE here  == {k \in DOMAIN lines :
                       /\ lines[k].key[1] = f /\ lines[k].line = l
                       /\ ~lines[k].disabled /\ (lines[k].guarded => k \in held)}
           due   == {k \in here : Satisfied(Counted(lines[k]))}
           first == IF due = {} THEN Len(lines) ELSE Min(due)
<1>1. here \in SUBSET DOMAIN lines /\ due \in SUBSET DOMAIN lines /\ due \subseteq here
      /\ \A k \in here : ~lines[k].disabled
  OBVIOUS
<1>2. /\ lines' = [k \in DOMAIN lines |-> IF k \in here /\ k <= first THEN Counted(lines[k])
                                                                   ELSE lines[k]]
      /\ stopped' = (IF due = {} THEN 0 ELSE lines[first].id)
  OBVIOUS
<1> HIDE DEF here, due
<1>3. due # {} => first \in due
  <2>1. DOMAIN lines \subseteq Nat
    BY Positions
  <2> QED
    BY <1>1, <2>1, MinIs
<1>4. first \in Nat
  <2>1. DOMAIN lines \subseteq Nat /\ Len(lines) \in Nat
    BY Positions
  <2> QED
    BY <1>1, <1>3, <2>1
<1> HIDE DEF first
<1>5. DOMAIN lines' = DOMAIN lines
      /\ \A k \in DOMAIN lines :
            lines'[k] = IF k \in here /\ k <= first THEN Counted(lines[k]) ELSE lines[k]
  BY <1>2
<1>6. \A k \in DOMAIN lines : lines'[k] \in LineBreakpoint
  BY <1>5, Positions, CountedIs
<1>7. lines' = [k \in DOMAIN lines |-> lines'[k]]
  BY <1>2
<1>8. lines' \in Seq(LineBreakpoint)
  BY <1>6, <1>7, ListMapped
<1>9. due # {} => first \in due /\ stopped' = lines[first].id
  BY <1>2, <1>3 DEF first
<1>10. due = {} => stopped' = 0
  BY <1>2
<1> QED
  BY <1>1, <1>4, <1>5, <1>8, <1>9, <1>10

LEMMA TypedInit == Init => Typed
<1> SUFFICES ASSUME Init PROVE Typed
    OBVIOUS
<1>1. DOMAIN << >> = {} /\ << >> \in Seq(LineBreakpoint)
  OBVIOUS
<1>2. AdminOK /\ NamedOK
  BY <1>1, BoundsAssumption DEF Init, AdminOK, NamedOK
<1> QED
  BY <1>1, <1>2, TypedParts, BoundsAssumption DEF Init

\* A breakpoint that an id leads to is where it should be: in the list, or in the hash.
LEMMA FetchIs ==
    ASSUME Typed, NEW i \in DOMAIN admin, Found(i)
    PROVE  /\ admin[i].kind = "line" =>
                  /\ Position(admin[i].key) \in DOMAIN lines
                  /\ Fetch(i) = lines[Position(admin[i].key)] /\ Fetch(i) \in LineBreakpoint
           /\ admin[i].kind # "line" =>
                  /\ admin[i].key \in DOMAIN named
                  /\ Fetch(i) = named[admin[i].key] /\ Fetch(i) \in Breakpoint
<1>1. ASSUME admin[i].kind = "line"
      PROVE  /\ Position(admin[i].key) \in DOMAIN lines
             /\ Fetch(i) = lines[Position(admin[i].key)] /\ Fetch(i) \in LineBreakpoint
  <2>1. lines # << >>
    BY <1>1 DEF Found
  <2>2. Position(admin[i].key) \in DOMAIN lines
    BY <2>1, PositionIs
  <2> QED
    BY <1>1, <2>2, Positions DEF Fetch
<1>2. ASSUME admin[i].kind # "line"
      PROVE  /\ admin[i].key \in DOMAIN named
             /\ Fetch(i) = named[admin[i].key] /\ Fetch(i) \in Breakpoint
  BY <1>2, TypedParts DEF Found, Fetch, NamedOK
<1> QED
  BY <1>1, <1>2

LEMMA SetLineType ==
    ASSUME Typed, NEW f \in Files, NEW l \in Lines, NEW asked \in Asked, SetLine(f, l, asked)
    PROVE  /\ Typed'
           /\ \E b \in LineBreakpoint :
                 /\ lines' = Append(lines, b) /\ b.id = count' /\ b.key = <<f, l>> /\ b.hits = 0
<1> DEFINE new == New("line", <<f, l>>, l, asked)
           b   == IF EarlyResolve /\ f \in compiled THEN Resolved(new) ELSE new
<1>1. /\ Register("line", <<f, l>>) /\ <<f, l>> \in Keys /\ <<f, l>> \in Files \X Lines
      /\ UNCHANGED <<named, compiled, stopped>> /\ lines' = Append(lines, b)
  BY DEF SetLine, Keys
<1>2. AdminOK' /\ count' = count + 1 /\ count < MaxIds
  BY <1>1, TypedParts, RegisterType DEF Register
<1>3. new \in LineBreakpoint
  BY <1>1, <1>2, NewIs DEF Typed
<1>4. new.id = count + 1 /\ new.key = <<f, l>> /\ new.hits = 0
  BY DEF New
<1> HIDE DEF new
<1>5. Resolved(new).hits = new.hits
  BY <1>3 DEF Resolved, LineBreakpoint
<1>6. b \in LineBreakpoint /\ b.id = count' /\ b.key = <<f, l>> /\ b.hits = 0
  BY <1>2, <1>3, <1>4, <1>5, ResolvedIs DEF Same
<1> HIDE DEF b
<1>7. lines' \in Seq(LineBreakpoint)
  BY <1>1, <1>6, AppendProperties DEF Typed
<1>8. Typed'
  <2>1. NamedOK' /\ compiled' \subseteq Files /\ stopped' \in 0..MaxIds
    BY <1>1, TypedParts DEF NamedOK
  <2>2. (AdminOK /\ NamedOK /\ lines \in Seq(LineBreakpoint) /\ compiled \subseteq Files
         /\ stopped \in 0..MaxIds)' => Typed'
    BY TypedParts, PTL
  <2> QED
    BY <1>2, <1>7, <2>1, <2>2
<1> QED
  BY <1>1, <1>6, <1>8

LEMMA TypedStep == Typed /\ [Next]_vars => Typed'
<1> SUFFICES ASSUME Typed, [Next]_vars PROVE Typed'
    OBVIOUS
<1>p. (AdminOK /\ NamedOK /\ lines \in Seq(LineBreakpoint) /\ compiled \subseteq Files
       /\ stopped \in 0..MaxIds)' => Typed'
  BY TypedParts, PTL
<1>t. /\ AdminOK /\ NamedOK /\ lines \in Seq(LineBreakpoint)
      /\ compiled \subseteq Files /\ stopped \in 0..MaxIds
  BY TypedParts
<1>1. ASSUME NEW f \in Files, NEW l \in Lines, NEW a \in Asked, SetLine(f, l, a) PROVE Typed'
  BY <1>1, SetLineType
<1>2. ASSUME NEW n \in Names, NEW a \in Asked, SetNamed(n, a) PROVE Typed'
  <2> DEFINE new == New(Kind(n), n, 0, a)
  <2>1. /\ Register(Kind(n), n) /\ Kind(n) \in {"line", "function", "exception"} /\ n \in Keys
        /\ UNCHANGED <<lines, compiled, stopped>> /\ named' = With(named, n, new)
    BY <1>2 DEF SetNamed, Kind, Keys
  <2>2. AdminOK' /\ count < MaxIds
    BY <1>t, <2>1, RegisterType DEF Register
  <2>3. new \in Breakpoint
    BY <2>2, NewIs DEF Typed
  <2> HIDE DEF new
  <2>4. NamedOK'
    BY <1>t, <2>1, <2>3 DEF NamedOK, With
  <2> QED
    BY <1>p, <1>t, <2>1, <2>2, <2>4
<1>3. ASSUME NEW i \in DOMAIN admin, NEW s \in BOOLEAN, NEW n \in Renumber \cup {0},
             NEW a \in Asked, BreakpointUpdate(i, s, n, a.hitValue, a.cond)
      PROVE  Typed'
  <2> DEFINE b == Updated(Fetch(i), s, n, a.hitValue, a.cond)
  <2>1. /\ Found(i) /\ (n # 0 => admin[i].kind = "line") /\ Store(i, b)
        /\ UNCHANGED <<count, admin, compiled, stopped>>
    BY <1>3 DEF BreakpointUpdate, Updated
  <2>2. n \in Lines \cup {0} /\ a.hitValue \in Nat /\ a.cond \in Conditions
    BY LinesAssumption, AskedAssumption DEF Conditions
  <2>3. CASE admin[i].kind = "line"
    <3>1. b \in LineBreakpoint
      BY <2>1, <2>2, <2>3, FetchIs, UpdatedIs
    <3> HIDE DEF b
    <3>2. lines' = [lines EXCEPT ![Position(admin[i].key)] = b] /\ UNCHANGED named
      BY <2>1, <2>3 DEF Store
    <3>3. lines' \in Seq(LineBreakpoint)
      BY <2>1, <2>3, <3>1, <3>2, FetchIs, ListReplaced
    <3> QED
      BY <1>p, <1>t, <2>1, <3>2, <3>3 DEF AdminOK, NamedOK
  <2>4. CASE admin[i].kind # "line"
    <3>1. b \in Breakpoint
      BY <2>1, <2>2, <2>4, FetchIs, UpdatedIs
    <3> HIDE DEF b
    <3>2. named' = [named EXCEPT ![admin[i].key] = b] /\ UNCHANGED lines
      BY <2>1, <2>4 DEF Store
    <3>3. NamedOK'
      BY <1>t, <2>1, <2>4, <3>1, <3>2, FetchIs, HashReplaced
    <3> QED
      BY <1>p, <1>t, <2>1, <3>2, <3>3 DEF AdminOK
  <2> QED
    BY <2>3, <2>4
<1>4. ASSUME NEW i \in DOMAIN admin, BreakpointRemove(i) PROVE Typed'
  <2>1. /\ Found(i) /\ admin' = Without(admin, i) /\ UNCHANGED <<count, compiled, stopped>>
    BY <1>4 DEF BreakpointRemove
  <2>2. AdminOK'
    BY <1>t, <2>1, WithoutType
  <2>3. CASE admin[i].kind = "line"
    <3>1. UNCHANGED named /\ lines' \in {lines, RemoveAt(lines, Position(admin[i].key))}
      BY <1>4, <2>3 DEF BreakpointRemove
    <3>2. Position(admin[i].key) \in 1..Len(lines)
      BY <2>1, <2>3, FetchIs, Positions
    <3>3. lines' \in Seq(LineBreakpoint)
      BY <1>t, <3>1, <3>2, RemoveAtIs
    <3> QED
      BY <1>p, <1>t, <2>1, <2>2, <3>1, <3>3 DEF NamedOK
  <2>4. CASE admin[i].kind # "line"
    <3>1. UNCHANGED lines /\ named' = Without(named, admin[i].key)
      BY <1>4, <2>4 DEF BreakpointRemove
    <3>2. NamedOK'
      BY <1>t, <3>1, WithoutNamed
    <3> QED
      BY <1>p, <1>t, <2>1, <2>2, <3>1, <3>2
  <2> QED
    BY <2>3, <2>4
<1>5. ASSUME NEW f \in Files, Compile(f) PROVE Typed'
  <2>1. lines' \in Seq(LineBreakpoint)
    BY <1>5, CompileIs
  <2>2. UNCHANGED <<count, admin, named, stopped>> /\ compiled' \subseteq Files
    BY <1>t, <1>5 DEF Compile
  <2> QED
    BY <1>p, <1>t, <2>1, <2>2 DEF AdminOK, NamedOK
<1>6. ASSUME NEW f \in Files, NEW l \in Lines, Statement(f, l) PROVE Typed'
  <2>1. PICK due \in SUBSET DOMAIN lines, last \in Nat :
              /\ lines' \in Seq(LineBreakpoint)
              /\ IF due = {} THEN stopped' = 0
                 ELSE last \in due /\ stopped' = lines[last].id
    BY <1>6, StatementIs
  <2>2. stopped' \in 0..MaxIds
    <3>1. due # {} => lines[last] \in LineBreakpoint /\ stopped' = lines[last].id
      BY <2>1, Positions
    <3>2. due # {} => stopped' \in 1..MaxIds
      BY <3>1 DEF LineBreakpoint
    <3>3. due = {} => stopped' = 0
      BY <2>1
    <3> QED
      BY <3>2, <3>3, BoundsAssumption
  <2>3. UNCHANGED <<count, admin, named, compiled>>
    BY <1>6 DEF Statement
  <2> QED
    BY <1>p, <1>t, <2>1, <2>2, <2>3 DEF AdminOK, NamedOK
<1>7. ASSUME NEW n \in Names, Function(n) \/ Exception(n) PROVE Typed'
  <2>1. /\ n \in DOMAIN named /\ named' = [named EXCEPT ![n] = Counted(named[n])]
        /\ stopped' \in {named[n].id, 0} /\ UNCHANGED <<count, admin, lines, compiled>>
    BY <1>7 DEF Function, Exception, HitNamed
  <2>2. named[n] \in Breakpoint /\ Counted(named[n]) \in Breakpoint
    BY <1>t, <2>1, CountedIs DEF NamedOK
  <2>3. NamedOK'
    BY <1>t, <2>1, <2>2, HashReplaced
  <2>4. stopped' \in 0..MaxIds
    <3>1. named[n].id \in 1..MaxIds
      BY <2>2 DEF Breakpoint
    <3> QED
      BY <2>1, <3>1, BoundsAssumption
  <2> QED
    BY <1>p, <1>t, <2>1, <2>3, <2>4 DEF AdminOK
<1>8. CASE UNCHANGED vars
  BY <1>p, <1>t, <1>8 DEF vars, AdminOK, NamedOK
<1> QED
  BY <1>1, <1>2, <1>3, <1>4, <1>5, <1>6, <1>7, <1>8 DEF Next, Client, Script

\* Whatever clients set, move and remove, and whatever the script compiles and reaches, the
\* administration leads from ids that were given to keys that can be, the list holds line
\* breakpoints, and the hash the others.
THEOREM BreakpointsTypeCorrect == Spec => []TypeOK
<1>1. Typed => TypeOK
  BY DEF Typed
<1> QED
  BY <1>1, TypedInit, TypedStep, PTL DEF Spec

-----------------------------------------------------------------------------
(* The administration, the list and the hash agree.                        *)

\* What clients and files have to be like for an id to name one breakpoint: `update -n`
\* changes the key of a breakpoint and not the administration's; an exception breakpoint
\* that is set again replaces the one there is; and names are compared by prefix.
Distinct ==
    /\ Renumber = {} /\ ~Twice
    /\ \A f, g \in Files : <<f, g>> \in Prefix => f = g

OnLines(i) == admin[i].kind = "line"

IdsLead ==
    \A i \in DOMAIN admin :
        /\ OnLines(i) => \E k \in DOMAIN lines : lines[k].id = i
        /\ ~OnLines(i) => \E n \in DOMAIN named : named[n].id = i
LinesLead ==
    \A k \in DOMAIN lines :
        /\ lines[k].id \in DOMAIN admin /\ OnLines(lines[k].id)
        /\ admin[lines[k].id].key = lines[k].key
NamedLead ==
    \A n \in DOMAIN named :
        /\ named[n].id \in DOMAIN admin /\ ~OnLines(named[n].id)
        /\ admin[named[n].id].key = n /\ named[n].key = n /\ named[n].kind = Kind(n)
KeysDiffer == \A k, m \in DOMAIN lines : lines[k].key = lines[m].key => k = m

Linked == IdsLead /\ LinesLead /\ NamedLead /\ KeysDiffer

\* What is shown for an id is the breakpoint of the list or of the hash that has it.
ShownWhereItIs ==
    /\ DOMAIN Shown = DOMAIN admin
    /\ \A i \in DOMAIN admin :
          /\ OnLines(i) => \E k \in DOMAIN lines : lines[k].id = i
          /\ ~OnLines(i) => \E n \in DOMAIN named : named[n].id = i
    /\ \A k \in DOMAIN lines :
          lines[k].id \in DOMAIN admin /\ Shown[lines[k].id] = lines[k]
    /\ \A n \in DOMAIN named :
          named[n].id \in DOMAIN admin /\ Shown[named[n].id] = named[n]

\* The key of a breakpoint of the list is found at its own position.
LEMMA OwnPosition ==
    ASSUME Distinct, Typed, Linked, NEW k \in DOMAIN lines
    PROVE  Matching(lines[k].key) = {k} /\ Position(lines[k].key) = k
<1>1. DOMAIN lines \in SUBSET Nat /\ \A m \in DOMAIN lines : lines[m].key \in Files \X Lines
  BY Positions DEF LineBreakpoint
<1>2. ASSUME NEW m \in DOMAIN lines, Sought(m, lines[k].key)
      PROVE  m = k
  <2>1. lines[m].key[2] = lines[k].key[2] /\ lines[m].key[1] = lines[k].key[1]
    BY <1>1, <1>2 DEF Sought, Distinct
  <2>2. lines[m].key = lines[k].key
    BY <1>1, <2>1
  <2> QED
    BY <2>2 DEF Linked, KeysDiffer
<1>3. Sought(k, lines[k].key)
  BY <1>1, PrefixAssumption DEF Sought
<1>4. Matching(lines[k].key) = {k}
  BY <1>2, <1>3 DEF Matching
<1>5. {k} \in SUBSET Nat /\ {k} # {}
  BY <1>1
<1>6. Min({k}) \in {k}
  BY <1>5, MinIs
<1> QED
  BY <1>4, <1>6 DEF Position

LEMMA ShownIs == Distinct /\ Typed /\ Linked => ShownWhereItIs /\ \A i \in DOMAIN admin : Found(i)
<1> SUFFICES ASSUME Distinct, Typed, Linked
             PROVE  ShownWhereItIs /\ \A i \in DOMAIN admin : Found(i)
    OBVIOUS
<1>1. ASSUME NEW k \in DOMAIN lines
      PROVE  lines[k].id \in DOMAIN admin /\ Found(lines[k].id) /\ Fetch(lines[k].id) = lines[k]
  <2>1. lines[k].id \in DOMAIN admin /\ OnLines(lines[k].id) /\ admin[lines[k].id].key = lines[k].key
    BY DEF Linked, LinesLead
  <2>2. Position(lines[k].key) = k
    BY OwnPosition
  <2>3. lines # << >>
    BY Positions
  <2> QED
    BY <2>1, <2>2, <2>3 DEF Found, Fetch, OnLines
<1>2. ASSUME NEW n \in DOMAIN named
      PROVE  named[n].id \in DOMAIN admin /\ Found(named[n].id) /\ Fetch(named[n].id) = named[n]
  BY DEF Linked, NamedLead, Found, Fetch, OnLines
<1>3. \A i \in DOMAIN admin : Found(i)
  BY <1>1, <1>2 DEF Linked, IdsLead
<1>4. DOMAIN Shown = DOMAIN admin /\ \A i \in DOMAIN admin : Shown[i] = Fetch(i)
  BY <1>3 DEF Shown
<1> QED
  BY <1>1, <1>2, <1>3, <1>4 DEF ShownWhereItIs, Linked, IdsLead

\* What changes breakpoints but neither ids nor keys changes nothing here.
LEMMA LinkedKept ==
    ASSUME Linked, UNCHANGED admin,
           DOMAIN lines' = DOMAIN lines, \A k \in DOMAIN lines : Same(lines[k], lines'[k]),
           DOMAIN named' = DOMAIN named, \A n \in DOMAIN named : Same(named[n], named'[n])
    PROVE  Linked'
<1>1. IdsLead'
  BY DEF Linked, IdsLead, OnLines, Same
<1>2. LinesLead'
  BY DEF Linked, LinesLead, OnLines, Same
<1>3. NamedLead'
  BY DEF Linked, NamedLead, OnLines, Same
<1>4. KeysDiffer'
  BY DEF Linked, KeysDiffer, Same
<1> QED
  BY <1>1, <1>2, <1>3, <1>4 DEF Linked

LEMMA SameItself == \A b : Same(b, b)
BY DEF Same

LEMMA UpdateChangesItsOwn ==
    ASSUME Distinct, Typed, Linked, NEW i \in DOMAIN admin, NEW s \in BOOLEAN,
           NEW n \in Renumber \cup {0}, NEW a \in Asked,
           BreakpointUpdate(i, s, n, a.hitValue, a.cond)
    PROVE  /\ n = 0 /\ UNCHANGED <<admin, stopped>>
           /\ DOMAIN lines' = DOMAIN lines /\ DOMAIN named' = DOMAIN named
           /\ \A k \in DOMAIN lines : lines'[k] = IF lines[k].id = i
                  THEN Updated(lines[k], s, 0, a.hitValue, a.cond) ELSE lines[k]
           /\ \A m \in DOMAIN named : named'[m] = IF named[m].id = i
                  THEN Updated(named[m], s, 0, a.hitValue, a.cond) ELSE named[m]
<1>1. n = 0
  BY DEF Distinct
<1> DEFINE b == Updated(Fetch(i), s, n, a.hitValue, a.cond)
<1>2. /\ Found(i) /\ Store(i, b) /\ UNCHANGED <<count, admin, compiled, stopped>>
  BY DEF BreakpointUpdate, Updated
<1>3. n \in Lines \cup {0} /\ a.hitValue \in Nat /\ a.cond \in Conditions
  BY LinesAssumption, AskedAssumption DEF Conditions
<1>4. CASE OnLines(i)
  <2>1. PICK k \in DOMAIN lines : lines[k].id = i
    BY <1>4 DEF Linked, IdsLead
  <2>2. Position(admin[i].key) = k
    BY <2>1, OwnPosition DEF Linked, LinesLead
  <2>3. Fetch(i) = lines[k] /\ b \in LineBreakpoint
    BY <1>2, <1>3, <1>4, <2>2, FetchIs, UpdatedIs DEF OnLines
  <2>4. b = Updated(lines[k], s, 0, a.hitValue, a.cond)
    BY <1>1, <2>3
  <2> HIDE DEF b
  <2>5. lines' = [lines EXCEPT ![k] = b] /\ UNCHANGED named
    BY <1>2, <1>4, <2>2 DEF Store, OnLines
  <2>6. DOMAIN lines' = DOMAIN lines
        /\ \A m \in DOMAIN lines : lines'[m] = IF m = k THEN b ELSE lines[m]
    BY <2>3, <2>5, ListReplaced
  <2>7. \A m \in DOMAIN lines : lines[m].id = i => m = k
    BY <2>2, OwnPosition DEF Linked, LinesLead
  <2>8. \A m \in DOMAIN named : named[m].id # i
    BY <1>4 DEF Linked, NamedLead
  <2> QED
    BY <1>1, <1>2, <2>1, <2>4, <2>5, <2>6, <2>7, <2>8
<1>5. CASE ~OnLines(i)
  <2>1. PICK m \in DOMAIN named : named[m].id = i
    BY <1>5 DEF Linked, IdsLead
  <2>2. admin[i].key = m
    BY <2>1 DEF Linked, NamedLead
  <2>3. Fetch(i) = named[m] /\ b \in Breakpoint
    BY <1>1, <1>2, <1>3, <1>5, <2>2, FetchIs, UpdatedIs DEF OnLines
  <2>4. b = Updated(named[m], s, 0, a.hitValue, a.cond)
    BY <1>1, <2>3
  <2> HIDE DEF b
  <2>5. named' = [named EXCEPT ![m] = b] /\ UNCHANGED lines
    BY <1>2, <1>5, <2>2 DEF Store, OnLines
  <2>6. DOMAIN named' = DOMAIN named
        /\ \A o \in DOMAIN named : named'[o] = IF o = m THEN b ELSE named[o]
    BY <2>3, <2>5, TypedParts, HashReplaced
  <2>7. \A o \in DOMAIN named : named[o].id = i => o = m
    BY <2>2 DEF Linked, NamedLead
  <2>8. \A k \in DOMAIN lines : lines[k].id # i
    BY <1>5 DEF Linked, LinesLead
  <2> QED
    BY <1>1, <1>2, <2>1, <2>4, <2>5, <2>6, <2>7, <2>8
<1> QED
  BY <1>4, <1>5

LEMMA RemoveRemovesItsOwn ==
    ASSUME Distinct, Typed, Linked, NEW i \in DOMAIN admin, BreakpointRemove(i)
    PROVE  /\ UNCHANGED stopped
           /\ DOMAIN admin' = DOMAIN admin \ {i} /\ \A j \in DOMAIN admin' : admin'[j] = admin[j]
           /\ \A m \in DOMAIN lines' :
                 \E k \in DOMAIN lines : lines'[m] = lines[k] /\ lines[k].id # i
           /\ \A k \in DOMAIN lines :
                 lines[k].id # i => \E m \in DOMAIN lines' : lines'[m] = lines[k]
           /\ \A k, m \in DOMAIN lines' : lines'[k].key = lines'[m].key => k = m
           /\ \A n \in DOMAIN named' :
                 n \in DOMAIN named /\ named'[n] = named[n] /\ named[n].id # i
           /\ \A n \in DOMAIN named : named[n].id # i => n \in DOMAIN named'
<1>1. /\ Found(i) /\ admin' = Without(admin, i) /\ UNCHANGED <<count, compiled, stopped>>
  BY DEF BreakpointRemove
<1>2. DOMAIN admin' = DOMAIN admin \ {i} /\ \A j \in DOMAIN admin' : admin'[j] = admin[j]
  BY <1>1 DEF Without
<1>3. CASE OnLines(i)
  <2>1. PICK k0 \in DOMAIN lines : lines[k0].id = i
    BY <1>3 DEF Linked, IdsLead
  <2>2. Matching(admin[i].key) = {k0} /\ Position(admin[i].key) = k0
    BY <2>1, OwnPosition DEF Linked, LinesLead
  <2>3. UNCHANGED named /\ lines' = RemoveAt(lines, k0)
    BY <1>3, <2>2 DEF BreakpointRemove, OnLines
  <2>4. \A m \in DOMAIN lines : lines[m].id = i => m = k0
    BY <2>2, OwnPosition DEF Linked, LinesLead
  <2>5. \A n \in DOMAIN named : named[n].id # i
    BY <1>3 DEF Linked, NamedLead
  <2> DEFINE len == Len(lines)
  <2>6. len \in Nat /\ DOMAIN lines = 1..len /\ k0 \in 1..len
    BY Positions
  <2>7. /\ lines' \in Seq(LineBreakpoint) /\ Len(lines') = len - 1
        /\ \A j \in 1..(len - 1) : lines'[j] = IF j < k0 THEN lines[j] ELSE lines[j + 1]
    BY <2>3, <2>6, RemoveAtIs DEF Typed
  <2>8. DOMAIN lines' = 1..(len - 1)
    BY <2>7, LenProperties
  <2> HIDE DEF len
  <2> DEFINE From(j) == IF j < k0 THEN j ELSE j + 1
             To(k)   == IF k < k0 THEN k ELSE k - 1
  <2>9. ASSUME NEW j \in 1..(len - 1)
        PROVE  From(j) \in 1..len /\ From(j) # k0 /\ lines'[j] = lines[From(j)]
               /\ To(From(j)) = j
    BY <2>6, <2>7
  <2>10. ASSUME NEW k \in 1..len, k # k0
         PROVE  To(k) \in 1..(len - 1) /\ From(To(k)) = k
    BY <2>6, <2>10
  <2> HIDE DEF From, To
  <2>11. \A m \in DOMAIN lines' :
            \E k \in DOMAIN lines : lines'[m] = lines[k] /\ lines[k].id # i
    BY <2>4, <2>6, <2>8, <2>9
  <2>12. \A k \in DOMAIN lines :
            lines[k].id # i => \E m \in DOMAIN lines' : lines'[m] = lines[k]
    <3> SUFFICES ASSUME NEW k \in DOMAIN lines, lines[k].id # i
                 PROVE  \E m \in DOMAIN lines' : lines'[m] = lines[k]
        OBVIOUS
    <3>1. To(k) \in DOMAIN lines' /\ From(To(k)) = k
      BY <2>1, <2>6, <2>8, <2>10
    <3>2. lines'[To(k)] = lines[k]
      BY <2>8, <2>9, <3>1
    <3> QED
      BY <3>1, <3>2
  <2>13. \A k, m \in DOMAIN lines' : lines'[k].key = lines'[m].key => k = m
    <3> SUFFICES ASSUME NEW k \in DOMAIN lines', NEW m \in DOMAIN lines',
                        lines'[k].key = lines'[m].key
                 PROVE  k = m
        OBVIOUS
    <3>1. From(k) = From(m)
      BY <2>6, <2>8, <2>9 DEF Linked, KeysDiffer
    <3> QED
      BY <2>8, <2>9, <3>1
  <2> QED
    BY <1>1, <1>2, <2>3, <2>5, <2>11, <2>12, <2>13
<1>4. CASE ~OnLines(i)
  <2>1. PICK n0 \in DOMAIN named : named[n0].id = i
    BY <1>4 DEF Linked, IdsLead
  <2>2. admin[i].key = n0
    BY <2>1 DEF Linked, NamedLead
  <2>3. UNCHANGED lines /\ named' = Without(named, n0)
    BY <1>4, <2>2 DEF BreakpointRemove, OnLines
  <2>4. DOMAIN named' = DOMAIN named \ {n0} /\ \A n \in DOMAIN named' : named'[n] = named[n]
    BY <2>3 DEF Without
  <2>5. \A n \in DOMAIN named : named[n].id = i => n = n0
    BY <2>2 DEF Linked, NamedLead
  <2>6. \A k \in DOMAIN lines : lines[k].id # i
    BY <1>4 DEF Linked, LinesLead
  <2> QED
    BY <1>1, <1>2, <2>1, <2>3, <2>4, <2>5, <2>6 DEF Linked, KeysDiffer
<1> QED
  BY <1>3, <1>4

\* A breakpoint that is set gets a new id, and is the last of the list or new in the hash.
LEMMA SetLineAdds ==
    ASSUME Typed, NEW f \in Files, NEW l \in Lines, NEW a \in Asked, SetLine(f, l, a)
    PROVE  /\ UNCHANGED <<named, stopped>> /\ \A i \in DOMAIN admin : admin[i].key # <<f, l>>
           /\ count' \notin DOMAIN admin /\ DOMAIN admin' = DOMAIN admin \cup {count'}
           /\ admin'[count'].kind = "line" /\ admin'[count'].key = <<f, l>>
           /\ \A i \in DOMAIN admin : admin'[i] = admin[i]
           /\ \E last :
                 /\ DOMAIN lines' = DOMAIN lines \cup {last} /\ last \notin DOMAIN lines
                 /\ lines'[last].id = count' /\ lines'[last].key = <<f, l>> /\ lines'[last].hits = 0
                 /\ \A k \in DOMAIN lines : lines'[k] = lines[k]
<1>1. PICK b \in LineBreakpoint :
         lines' = Append(lines, b) /\ b.id = count' /\ b.key = <<f, l>> /\ b.hits = 0
  BY SetLineType
<1>2. /\ count' \notin DOMAIN admin /\ DOMAIN admin' = DOMAIN admin \cup {count'}
      /\ admin'[count'] = [kind |-> "line", key |-> <<f, l>>]
      /\ \A i \in DOMAIN admin : admin'[i] = admin[i]
  <2>1. Register("line", <<f, l>>) /\ <<f, l>> \in Keys
    BY DEF SetLine, Keys
  <2> QED
    BY <2>1, TypedParts, RegisterType
<1> DEFINE last == Len(lines) + 1
<1>3. /\ DOMAIN lines' = DOMAIN lines \cup {last} /\ last \notin DOMAIN lines
      /\ lines'[last] = b /\ \A k \in DOMAIN lines : lines'[k] = lines[k]
  BY <1>1, AppendProperties, Positions DEF Typed
<1> HIDE DEF last
<1>4. /\ lines'[last].id = count' /\ lines'[last].key = <<f, l>> /\ lines'[last].hits = 0
  BY <1>1, <1>3
<1>5. UNCHANGED <<named, stopped>> /\ \A i \in DOMAIN admin : admin[i].key # <<f, l>>
  BY DEF SetLine
<1>6. admin'[count'].kind = "line" /\ admin'[count'].key = <<f, l>>
  BY <1>2
<1> QED
  BY <1>2, <1>3, <1>4, <1>5, <1>6

LEMMA SetNamedAdds ==
    ASSUME Distinct, Typed, NEW n \in Names, NEW a \in Asked, SetNamed(n, a)
    PROVE  /\ UNCHANGED <<lines, stopped>> /\ n \notin DOMAIN named
           /\ count' \notin DOMAIN admin /\ DOMAIN admin' = DOMAIN admin \cup {count'}
           /\ admin'[count'].key = n /\ admin'[count'].kind # "line"
           /\ \A i \in DOMAIN admin : admin'[i] = admin[i]
           /\ DOMAIN named' = DOMAIN named \cup {n} /\ \A m \in DOMAIN named : named'[m] = named[m]
           /\ named'[n].id = count' /\ named'[n].key = n /\ named'[n].kind = Kind(n)
           /\ named'[n].hits = 0
<1> DEFINE b == New(Kind(n), n, 0, a)
<1>1. /\ Register(Kind(n), n) /\ n \in Keys /\ Kind(n) \in {"function", "exception"}
      /\ named' = With(named, n, b) /\ UNCHANGED <<lines, stopped>> /\ n \notin DOMAIN named
  BY DEF SetNamed, Keys, Kind, Distinct
<1>2. /\ count' \notin DOMAIN admin /\ DOMAIN admin' = DOMAIN admin \cup {count'}
      /\ admin'[count'] = [kind |-> Kind(n), key |-> n] /\ count' = count + 1
      /\ \A i \in DOMAIN admin : admin'[i] = admin[i]
  BY <1>1, TypedParts, RegisterType
<1>3. b.id = count' /\ b.key = n /\ b.kind = Kind(n) /\ b.hits = 0
  BY <1>2 DEF New
<1> HIDE DEF b
<1>4. /\ DOMAIN named' = DOMAIN named \cup {n} /\ named'[n] = b
      /\ \A m \in DOMAIN named : named'[m] = named[m]
  BY <1>1 DEF With
<1>5. admin'[count'].key = n /\ admin'[count'].kind # "line"
  BY <1>1, <1>2
<1> QED
  BY <1>1, <1>2, <1>3, <1>4, <1>5

LEMMA LinkedStep ==
    ASSUME Distinct
    PROVE  Typed /\ Linked /\ [Next]_vars => Linked'
<1> SUFFICES ASSUME Typed, Linked, [Next]_vars PROVE Linked'
    OBVIOUS
<1>1. ASSUME NEW f \in Files, NEW l \in Lines, NEW a \in Asked, SetLine(f, l, a) PROVE Linked'
  <2>1. /\ UNCHANGED named /\ \A i \in DOMAIN admin : admin[i].key # <<f, l>>
        /\ DOMAIN admin' = DOMAIN admin \cup {count'} /\ count' \notin DOMAIN admin
        /\ admin'[count'].kind = "line" /\ admin'[count'].key = <<f, l>>
        /\ \A i \in DOMAIN admin : admin'[i] = admin[i]
    BY <1>1, SetLineAdds
  <2>2. PICK last :
           /\ DOMAIN lines' = DOMAIN lines \cup {last} /\ last \notin DOMAIN lines
           /\ lines'[last].id = count' /\ lines'[last].key = <<f, l>>
           /\ \A k \in DOMAIN lines : lines'[k] = lines[k]
    BY <1>1, SetLineAdds
  <2>3. IdsLead'
    BY <2>1, <2>2 DEF Linked, IdsLead, OnLines
  <2>4. LinesLead'
    BY <2>1, <2>2 DEF Linked, LinesLead, OnLines
  <2>5. NamedLead'
    BY <2>1 DEF Linked, NamedLead, OnLines
  <2>6. \A k \in DOMAIN lines : lines[k].key # <<f, l>>
    BY <2>1 DEF Linked, LinesLead
  <2>7. KeysDiffer'
    BY <2>2, <2>6 DEF Linked, KeysDiffer
  <2> QED
    BY <2>3, <2>4, <2>5, <2>7 DEF Linked
<1>2. ASSUME NEW n \in Names, NEW a \in Asked, SetNamed(n, a) PROVE Linked'
  <2>1. /\ UNCHANGED lines /\ n \notin DOMAIN named
        /\ DOMAIN admin' = DOMAIN admin \cup {count'} /\ count' \notin DOMAIN admin
        /\ admin'[count'].key = n /\ admin'[count'].kind # "line"
        /\ \A i \in DOMAIN admin : admin'[i] = admin[i]
    BY <1>2, SetNamedAdds
  <2>2. /\ DOMAIN named' = DOMAIN named \cup {n} /\ \A m \in DOMAIN named : named'[m] = named[m]
        /\ named'[n].id = count' /\ named'[n].key = n /\ named'[n].kind = Kind(n)
    BY <1>2, SetNamedAdds
  <2>3. IdsLead'
    BY <2>1, <2>2 DEF Linked, IdsLead, OnLines
  <2>4. LinesLead'
    BY <2>1 DEF Linked, LinesLead, OnLines
  <2>5. NamedLead'
    BY <2>1, <2>2 DEF Linked, NamedLead, OnLines
  <2>6. KeysDiffer'
    BY <2>1 DEF Linked, KeysDiffer
  <2> QED
    BY <2>3, <2>4, <2>5, <2>6 DEF Linked
<1>3. ASSUME NEW i \in DOMAIN admin, NEW s \in BOOLEAN, NEW n \in Renumber \cup {0},
             NEW a \in Asked, BreakpointUpdate(i, s, n, a.hitValue, a.cond)
      PROVE  Linked'
  <2>1. 0 \in Lines \cup {0} /\ a.hitValue \in Nat /\ a.cond \in Conditions
    BY AskedAssumption DEF Conditions
  <2>2. /\ \A k \in DOMAIN lines : Same(lines[k], Updated(lines[k], s, 0, a.hitValue, a.cond))
        /\ \A m \in DOMAIN named : Same(named[m], Updated(named[m], s, 0, a.hitValue, a.cond))
    BY <2>1, Positions, TypedParts, UpdatedIs DEF NamedOK
  <2>3. /\ \A k \in DOMAIN lines : Same(lines[k], lines'[k])
        /\ \A m \in DOMAIN named : Same(named[m], named'[m])
        /\ UNCHANGED admin /\ DOMAIN lines' = DOMAIN lines /\ DOMAIN named' = DOMAIN named
    BY <1>3, <2>2, UpdateChangesItsOwn, SameItself
  <2> QED
    BY <2>3, LinkedKept
<1>4. ASSUME NEW i \in DOMAIN admin, BreakpointRemove(i) PROVE Linked'
  <2>1. DOMAIN admin' = DOMAIN admin \ {i} /\ \A j \in DOMAIN admin' : admin'[j] = admin[j]
    BY <1>4, RemoveRemovesItsOwn
  <2>2. /\ \A m \in DOMAIN lines' :
              \E k \in DOMAIN lines : lines'[m] = lines[k] /\ lines[k].id # i
        /\ \A k \in DOMAIN lines :
              lines[k].id # i => \E m \in DOMAIN lines' : lines'[m] = lines[k]
    BY <1>4, RemoveRemovesItsOwn
  <2>3. /\ \A n \in DOMAIN named' :
              n \in DOMAIN named /\ named'[n] = named[n] /\ named[n].id # i
        /\ \A n \in DOMAIN named : named[n].id # i => n \in DOMAIN named'
    BY <1>4, RemoveRemovesItsOwn
  <2>4. IdsLead'
    BY <2>1, <2>2, <2>3 DEF Linked, IdsLead, OnLines
  <2>5. LinesLead'
    BY <2>1, <2>2 DEF Linked, LinesLead, OnLines
  <2>6. NamedLead'
    BY <2>1, <2>3 DEF Linked, NamedLead, OnLines
  <2>7. KeysDiffer'
    BY <1>4, RemoveRemovesItsOwn DEF KeysDiffer
  <2> QED
    BY <2>4, <2>5, <2>6, <2>7 DEF Linked
<1>5. ASSUME NEW f \in Files, Compile(f) PROVE Linked'
  <2>1. UNCHANGED <<admin, named>> /\ DOMAIN lines' = DOMAIN lines
    BY <1>5, CompileIs DEF Compile
  <2>2. \A k \in DOMAIN lines : Same(lines[k], lines'[k])
    BY <1>5, CompileIs, Positions, ResolvedIs, SameItself
  <2> QED
    BY <2>1, <2>2, LinkedKept, SameItself
<1>6. ASSUME NEW f \in Files, NEW l \in Lines, Statement(f, l) PROVE Linked'
  <2>1. PICK here \in SUBSET DOMAIN lines, last \in Nat :
              /\ DOMAIN lines' = DOMAIN lines
              /\ \A k \in DOMAIN lines :
                    lines'[k] = IF k \in here /\ k <= last THEN Counted(lines[k]) ELSE lines[k]
    BY <1>6, StatementIs
  <2>2. \A k \in DOMAIN lines : Same(lines[k], lines'[k])
    BY <2>1, Positions, CountedIs, SameItself
  <2>3. UNCHANGED <<admin, named>>
    BY <1>6 DEF Statement
  <2> QED
    BY <2>1, <2>2, <2>3, LinkedKept, SameItself
<1>7. ASSUME NEW n \in Names, Function(n) \/ Exception(n) PROVE Linked'
  <2>1. /\ n \in DOMAIN named /\ named' = [named EXCEPT ![n] = Counted(named[n])]
        /\ UNCHANGED <<admin, lines>>
    BY <1>7 DEF Function, Exception, HitNamed
  <2>2. Same(named[n], Counted(named[n]))
    BY <2>1, TypedParts, CountedIs DEF NamedOK
  <2>3. DOMAIN named' = DOMAIN named /\ \A m \in DOMAIN named : Same(named[m], named'[m])
    BY <2>1, <2>2, SameItself
  <2> QED
    BY <2>1, <2>3, LinkedKept, SameItself
<1>8. CASE UNCHANGED vars
  BY <1>8, LinkedKept, SameItself DEF vars
<1> QED
  BY <1>1, <1>2, <1>3, <1>4, <1>5, <1>6, <1>7, <1>8 DEF Next, Client, Script

LEMMA LinkedInit == Init => Linked
<1> SUFFICES ASSUME Init PROVE Linked
    OBVIOUS
<1>1. DOMAIN admin = {} /\ DOMAIN lines = {} /\ DOMAIN named = {}
  BY DEF Init
<1> QED
  BY <1>1 DEF Linked, IdsLead, LinesLead, NamedLead, KeysDiffer

LEMMA AlwaysLinked == ASSUME Distinct PROVE Spec => [](Typed /\ Linked)
BY LinkedInit, LinkedStep, TypedInit, TypedStep, PTL DEF Spec

\* breakpoint_get, _update and _remove concern the breakpoint that was given the id, for
\* any number of breakpoints on any files, lines, functions and exceptions, provided
\* clients and files are as Distinct says; the code has no other guard against the rest.
THEOREM IdsLeadToTheirOwn == ASSUME Distinct PROVE Spec => []AdminFindsItsOwn
<1>1. Typed /\ Linked => AdminFindsItsOwn
  <2> SUFFICES ASSUME Typed, Linked, NEW i \in DOMAIN admin
               PROVE  Found(i) /\ Fetch(i).id = i
      BY DEF AdminFindsItsOwn
  <2>1. ShownWhereItIs /\ Found(i)
    BY ShownIs
  <2>2. Shown[i] = Fetch(i)
    BY <2>1 DEF Shown
  <2> QED
    BY <2>1, <2>2 DEF ShownWhereItIs
<1> QED
  BY <1>1, AlwaysLinked, PTL

\* Under the same conditions the script stops at nothing that a client cannot name: every
\* breakpoint of the list and of the hash has its id in the administration.
THEOREM NothingIsOrphaned == ASSUME Distinct PROVE Spec => []NoOrphans
<1>1. Linked => NoOrphans
  BY DEF Linked, LinesLead, NamedLead, NoOrphans
<1> QED
  BY <1>1, AlwaysLinked, PTL

-----------------------------------------------------------------------------
(* The administration, the list and the hash implement BreakpointTable.    *)

\* What is shown for an id has the key of the administration.
LEMMA ShownKeys ==
    ASSUME Distinct, Typed, Linked, NEW i \in DOMAIN admin
    PROVE  Shown[i].key = admin[i].key
BY ShownIs DEF ShownWhereItIs, Linked, LinesLead, NamedLead

\* A breakpoint on a name has no key of a breakpoint on a line.
LEMMA LineKeys ==
    ASSUME Typed, Linked, NEW i \in DOMAIN admin, OnLines(i)
    PROVE  admin[i].key \in Files \X Lines
BY Positions DEF Linked, IdsLead, LinesLead, LineBreakpoint

LEMMA TableInit == ASSUME Distinct PROVE Init => Table!Init
<1> SUFFICES ASSUME Init PROVE Table!Init
    OBVIOUS
<1>1. DOMAIN Shown = DOMAIN admin
  BY DEF Shown
<1> QED
  BY <1>1 DEF Init, Table!Init, Table!Ids

LEMMA UpdateKeepsTheRest ==
    ASSUME NEW b, b \in LineBreakpoint \/ b \in Breakpoint, NEW c,
           NEW s, NEW h, NEW o, c = Updated(b, s, 0, h, o)
    PROVE  c = [b EXCEPT !.key = c.key, !.line = c.line, !.disabled = c.disabled,
                         !.hitValue = c.hitValue, !.cond = c.cond]
<1>1. c = [b EXCEPT !.disabled = s, !.hitValue = h, !.cond = o, !.key = @, !.line = @]
  BY DEF Updated
<1>2. CASE b \in LineBreakpoint
  BY <1>1, <1>2 DEF LineBreakpoint
<1>3. CASE b \in Breakpoint
  BY <1>1, <1>3 DEF Breakpoint
<1> QED
  BY <1>2, <1>3

\* What the script reaches counts.
LEMMA CountedIsHit ==
    ASSUME NEW i, ~Shown[i].disabled \/ Shown[i].kind = "exception",
           Shown'[i] = Counted(Shown[i])
    PROVE  Table!Hit(i)
BY DEF Table!Hit, Counted

LEMMA TableStep ==
    ASSUME Distinct
    PROVE  Typed /\ Linked /\ [Next]_vars => [Table!Next]_(Table!vars)
<1> SUFFICES ASSUME Typed, Linked, [Next]_vars PROVE [Table!Next]_(Table!vars)
    OBVIOUS
<1>s. ShownWhereItIs
  BY ShownIs
<1>t. ShownWhereItIs'
  <2>1. (Typed /\ Linked)' => ShownWhereItIs'
    BY ShownIs, PTL
  <2> QED
    BY <2>1, LinkedStep, TypedStep
<1>1. ASSUME NEW f \in Files, NEW l \in Lines, NEW a \in Asked, SetLine(f, l, a)
      PROVE  Table!Set
  <2>1. /\ UNCHANGED <<named, stopped>> /\ \A i \in DOMAIN admin : admin[i].key # <<f, l>>
        /\ DOMAIN admin' = DOMAIN admin \cup {count'} /\ count' \notin DOMAIN admin
    BY <1>1, SetLineAdds
  <2>2. PICK last :
           /\ DOMAIN lines' = DOMAIN lines \cup {last} /\ last \notin DOMAIN lines
           /\ lines'[last].id = count' /\ lines'[last].key = <<f, l>> /\ lines'[last].hits = 0
           /\ \A k \in DOMAIN lines : lines'[k] = lines[k]
    BY <1>1, SetLineAdds
  <2>3. \A i \in DOMAIN admin : Shown'[i] = Shown[i]
    BY <1>s, <1>t, <2>1, <2>2 DEF ShownWhereItIs
  <2>4. Shown'[count'] = lines'[last]
    BY <1>t, <2>2 DEF ShownWhereItIs
  <2>5. \A i \in DOMAIN admin : Shown[i].key # Shown'[count'].key
    BY <2>1, <2>2, <2>4, ShownKeys
  <2>6. DOMAIN Shown = DOMAIN admin /\ DOMAIN Shown' = DOMAIN admin'
    BY <1>s, <1>t DEF ShownWhereItIs
  <2> QED
    BY <2>1, <2>2, <2>3, <2>4, <2>5, <2>6 DEF Table!Set, Table!Ids, Table!Kept
<1>2. ASSUME NEW n \in Names, NEW a \in Asked, SetNamed(n, a)
      PROVE  Table!Set
  <2>1. /\ UNCHANGED <<lines, stopped>> /\ n \notin DOMAIN named
        /\ DOMAIN admin' = DOMAIN admin \cup {count'} /\ count' \notin DOMAIN admin
    BY <1>2, SetNamedAdds
  <2>2. /\ DOMAIN named' = DOMAIN named \cup {n} /\ \A m \in DOMAIN named : named'[m] = named[m]
        /\ named'[n].id = count' /\ named'[n].key = n /\ named'[n].hits = 0
    BY <1>2, SetNamedAdds
  <2>3. \A i \in DOMAIN admin : Shown'[i] = Shown[i]
    BY <1>s, <1>t, <2>1, <2>2 DEF ShownWhereItIs
  <2>4. Shown'[count'] = named'[n]
    BY <1>t, <2>2 DEF ShownWhereItIs
  <2>5. \A i \in DOMAIN admin : admin[i].key # n
    <3>1. \A i \in DOMAIN admin : OnLines(i) => admin[i].key # n
      BY LineKeys, NamesAssumption
    <3>2. \A i \in DOMAIN admin : ~OnLines(i) => admin[i].key # n
      BY <2>1 DEF Linked, IdsLead, NamedLead
    <3> QED
      BY <3>1, <3>2
  <2>6. \A i \in DOMAIN admin : Shown[i].key # Shown'[count'].key
    BY <2>2, <2>4, <2>5, ShownKeys
  <2>7. DOMAIN Shown = DOMAIN admin /\ DOMAIN Shown' = DOMAIN admin'
    BY <1>s, <1>t DEF ShownWhereItIs
  <2> QED
    BY <2>1, <2>2, <2>3, <2>4, <2>6, <2>7 DEF Table!Set, Table!Ids, Table!Kept
<1>3. ASSUME NEW i \in DOMAIN admin, NEW s \in BOOLEAN, NEW n \in Renumber \cup {0},
             NEW a \in Asked, BreakpointUpdate(i, s, n, a.hitValue, a.cond)
      PROVE  Table!Update
  <2> DEFINE After(b) == Updated(b, s, 0, a.hitValue, a.cond)
  <2>1. /\ UNCHANGED <<admin, stopped>>
        /\ DOMAIN lines' = DOMAIN lines /\ DOMAIN named' = DOMAIN named
        /\ \A k \in DOMAIN lines :
              lines'[k] = IF lines[k].id = i THEN After(lines[k]) ELSE lines[k]
        /\ \A m \in DOMAIN named :
              named'[m] = IF named[m].id = i THEN After(named[m]) ELSE named[m]
    BY <1>3, UpdateChangesItsOwn
  <2>2. /\ \A k \in DOMAIN lines : Same(lines[k], lines'[k])
        /\ \A m \in DOMAIN named : Same(named[m], named'[m])
    <3>1. 0 \in Lines \cup {0} /\ a.hitValue \in Nat /\ a.cond \in Conditions
      BY AskedAssumption DEF Conditions
    <3>2. /\ \A k \in DOMAIN lines : Same(lines[k], After(lines[k]))
          /\ \A m \in DOMAIN named : Same(named[m], After(named[m]))
      BY <3>1, Positions, TypedParts, UpdatedIs DEF NamedOK
    <3> HIDE DEF After
    <3> QED
      BY <2>1, <3>2, SameItself
  <2> HIDE DEF After
  <2>3. \A j \in DOMAIN admin : Shown'[j] = IF j = i THEN After(Shown[j]) ELSE Shown[j]
    BY <1>s, <1>t, <2>1, <2>2 DEF ShownWhereItIs, Same
  <2>4. Shown[i] \in LineBreakpoint \/ Shown[i] \in Breakpoint
    BY <1>s, Positions, TypedParts DEF ShownWhereItIs, NamedOK
  <2>5. Shown'[i] = [Shown[i] EXCEPT !.key = Shown'[i].key, !.line = Shown'[i].line,
                        !.disabled = Shown'[i].disabled, !.hitValue = Shown'[i].hitValue,
                        !.cond = Shown'[i].cond]
    <3> DEFINE b == Shown[i]
               c == Shown'[i]
    <3>1. c = Updated(b, s, 0, a.hitValue, a.cond) /\ (b \in LineBreakpoint \/ b \in Breakpoint)
      BY <2>3, <2>4 DEF After
    <3> HIDE DEF b, c
    <3>2. c = [b EXCEPT !.key = c.key, !.line = c.line, !.disabled = c.disabled,
                        !.hitValue = c.hitValue, !.cond = c.cond]
      BY <3>1, UpdateKeepsTheRest
    <3> QED
      BY <3>2 DEF b, c
  <2>6. DOMAIN Shown = DOMAIN admin /\ DOMAIN Shown' = DOMAIN admin
    BY <1>s, <1>t, <2>1 DEF ShownWhereItIs
  <2> QED
    BY <2>1, <2>3, <2>5, <2>6 DEF Table!Update, Table!Ids, Table!Kept
<1>4. ASSUME NEW i \in DOMAIN admin, BreakpointRemove(i)
      PROVE  Table!Remove
  <2>1. UNCHANGED stopped /\ DOMAIN admin' = DOMAIN admin \ {i}
    BY <1>4, RemoveRemovesItsOwn
  <2>2. /\ \A k \in DOMAIN lines :
              lines[k].id # i => \E m \in DOMAIN lines' : lines'[m] = lines[k]
        /\ \A n \in DOMAIN named : named[n].id # i => n \in DOMAIN named'
        /\ \A n \in DOMAIN named' : named'[n] = named[n]
    BY <1>4, RemoveRemovesItsOwn
  <2>3. \A j \in DOMAIN admin \ {i} : Shown'[j] = Shown[j]
    BY <1>s, <1>t, <2>1, <2>2 DEF ShownWhereItIs
  <2>4. DOMAIN Shown = DOMAIN admin /\ DOMAIN Shown' = DOMAIN admin'
    BY <1>s, <1>t DEF ShownWhereItIs
  <2> QED
    BY <2>1, <2>3, <2>4 DEF Table!Remove, Table!Ids, Table!Kept
<1>5. ASSUME NEW f \in Files, Compile(f)
      PROVE  Table!Resolve
  <2>1. UNCHANGED <<admin, named, stopped>> /\ DOMAIN lines' = DOMAIN lines
    BY <1>5, CompileIs DEF Compile
  <2>2. ASSUME NEW k \in DOMAIN lines
        PROVE  /\ lines'[k].id = lines[k].id
               /\ \/ lines'[k] = lines[k]
                  \/ /\ lines[k].kind = "line" /\ ~lines[k].resolved
                     /\ lines'[k] = [lines[k] EXCEPT !.line = lines'[k].line, !.resolved = TRUE]
    <3>1. \/ lines'[k] = lines[k]
          \/ ~lines[k].resolved /\ lines'[k] = Resolved(lines[k])
      BY <1>5, CompileIs
    <3>2. lines[k] \in LineBreakpoint /\ lines[k].kind = "line"
      BY Positions, LineIsBreakpoint
    <3>3. Resolved(lines[k]).id = lines[k].id
      BY <3>2, ResolvedIs DEF Same
    <3>4. \/ Resolved(lines[k]) = lines[k]
          \/ Resolved(lines[k]) = [lines[k] EXCEPT !.line = Resolved(lines[k]).line, !.resolved = TRUE]
      BY <3>2 DEF Resolved, LineBreakpoint
    <3> QED
      BY <3>1, <3>2, <3>3, <3>4
  <2>3. \A i \in DOMAIN admin :
           \/ Shown'[i] = Shown[i]
           \/ /\ Shown[i].kind = "line" /\ ~Shown[i].resolved
              /\ Shown'[i] = [Shown[i] EXCEPT !.line = Shown'[i].line, !.resolved = TRUE]
    <3> SUFFICES ASSUME NEW i \in DOMAIN admin
                 PROVE  \/ Shown'[i] = Shown[i]
                        \/ /\ Shown[i].kind = "line" /\ ~Shown[i].resolved
                           /\ Shown'[i] = [Shown[i] EXCEPT !.line = Shown'[i].line, !.resolved = TRUE]
        OBVIOUS
    <3>1. CASE \E k \in DOMAIN lines : lines[k].id = i
      <4> PICK k \in DOMAIN lines : lines[k].id = i
        BY <3>1
      <4>1. lines'[k].id = i /\ k \in DOMAIN lines'
        BY <2>1, <2>2
      <4>2. Shown[i] = lines[k] /\ Shown'[i] = lines'[k]
        BY <1>s, <1>t, <4>1 DEF ShownWhereItIs
      <4> QED
        BY <2>2, <4>2
    <3>2. CASE \E n \in DOMAIN named : named[n].id = i
      BY <1>s, <1>t, <2>1, <3>2 DEF ShownWhereItIs
    <3> QED
      BY <1>s, <3>1, <3>2 DEF ShownWhereItIs
  <2>4. DOMAIN Shown = DOMAIN admin /\ DOMAIN Shown' = DOMAIN admin
    BY <1>s, <1>t, <2>1 DEF ShownWhereItIs
  <2> QED
    BY <2>1, <2>3, <2>4 DEF Table!Resolve, Table!Ids
<1>6. ASSUME NEW f \in Files, NEW l \in Lines, Statement(f, l)
      PROVE  Table!Reach
  <2>1. PICK here \in SUBSET DOMAIN lines, due \in SUBSET DOMAIN lines, last \in Nat :
              /\ \A k \in here : ~lines[k].disabled
              /\ due \subseteq here
              /\ IF due = {} THEN stopped' = 0
                 ELSE last \in due /\ stopped' = lines[last].id
              /\ DOMAIN lines' = DOMAIN lines
              /\ \A k \in DOMAIN lines :
                    lines'[k] = IF k \in here /\ k <= last THEN Counted(lines[k]) ELSE lines[k]
    BY <1>6, StatementIs
  <2>2. UNCHANGED <<admin, named>>
    BY <1>6 DEF Statement
  <2>3. \A k \in DOMAIN lines : lines'[k].id = lines[k].id
    BY <2>1, Positions, CountedIs DEF Same
  <2>4. \A i \in DOMAIN admin : i # 0
    BY TypedParts DEF AdminOK
  <2>5. ASSUME NEW i \in DOMAIN admin
        PROVE  Table!Hit(i) \/ (Shown'[i] = Shown[i] /\ i # stopped')
    <3>1. CASE \E k \in DOMAIN lines : lines[k].id = i
      <4> PICK k \in DOMAIN lines : lines[k].id = i
        BY <3>1
      <4>1. Shown[i] = lines[k] /\ Shown'[i] = lines'[k]
        BY <1>s, <1>t, <2>1, <2>3 DEF ShownWhereItIs
      <4>2. CASE k \in here /\ k <= last
        BY <2>1, <4>1, <4>2, CountedIsHit
      <4>3. CASE ~(k \in here /\ k <= last)
        <5>1. Shown'[i] = Shown[i]
          BY <2>1, <4>1, <4>3
        <5>2. due # {} => k # last
          BY <2>1, <4>3
        <5>3. due # {} => lines[last].id # i
          <6>1. due # {} => last \in DOMAIN lines
            BY <2>1
          <6>2. \A m \in DOMAIN lines : lines[m].id = lines[k].id => m = k
            BY OwnPosition DEF Linked, LinesLead
          <6> QED
            BY <5>2, <6>1, <6>2
        <5> QED
          BY <2>1, <2>4, <5>1, <5>3
      <4> QED
        BY <4>2, <4>3
    <3>2. CASE \E n \in DOMAIN named : named[n].id = i
      <4>1. Shown'[i] = Shown[i]
        BY <1>s, <1>t, <2>2, <3>2 DEF ShownWhereItIs
      <4>2. \A k \in DOMAIN lines : lines[k].id # i
        BY <3>2 DEF Linked, LinesLead, NamedLead
      <4>3. i # stopped'
        BY <2>1, <2>4, <4>2
      <4> QED
        BY <4>1, <4>3
    <3> QED
      BY <1>s, <3>1, <3>2 DEF ShownWhereItIs
  <2>6. stopped' \in DOMAIN admin \cup {0}
    BY <2>1 DEF Linked, LinesLead
  <2>7. DOMAIN Shown = DOMAIN admin /\ DOMAIN Shown' = DOMAIN admin
    BY <1>s, <1>t, <2>2 DEF ShownWhereItIs
  <2> QED
    BY <2>5, <2>6, <2>7 DEF Table!Reach, Table!Ids
<1>7. ASSUME NEW n \in Names, Function(n) \/ Exception(n)
      PROVE  Table!Reach
  <2>1. /\ n \in DOMAIN named /\ named' = [named EXCEPT ![n] = Counted(named[n])]
        /\ stopped' \in {named[n].id, 0} /\ UNCHANGED <<admin, lines>>
        /\ ~named[n].disabled \/ Kind(n) = "exception"
    BY <1>7 DEF Function, Exception, HitNamed
  <2>2. /\ DOMAIN named' = DOMAIN named /\ named'[n] = Counted(named[n])
        /\ \A m \in DOMAIN named : m # n => named'[m] = named[m]
    BY <2>1
  <2>3. Counted(named[n]).id = named[n].id
    BY <2>1, TypedParts, CountedIs DEF NamedOK, Same
  <2>4. \A m \in DOMAIN named : named'[m].id = named[m].id
    BY <2>2, <2>3
  <2>5. \A i \in DOMAIN admin : i # 0
    BY TypedParts DEF AdminOK
  <2>6. ASSUME NEW i \in DOMAIN admin
        PROVE  Table!Hit(i) \/ (Shown'[i] = Shown[i] /\ i # stopped')
    <3>1. CASE i = named[n].id
      <4>1. Shown[i] = named[n] /\ Shown'[i] = Counted(named[n])
        BY <1>s, <1>t, <2>1, <2>2, <2>4, <3>1 DEF ShownWhereItIs
      <4>2. ~Shown[i].disabled \/ Shown[i].kind = "exception"
        BY <2>1, <4>1 DEF Linked, NamedLead
      <4> QED
        BY <4>1, <4>2, CountedIsHit
    <3>2. CASE i # named[n].id
      <4>1. Shown'[i] = Shown[i]
        BY <1>s, <1>t, <2>1, <2>2, <2>4, <3>2 DEF ShownWhereItIs
      <4> QED
        BY <2>1, <2>5, <3>2, <4>1
    <3> QED
      BY <3>1, <3>2
  <2>7. stopped' \in DOMAIN admin \cup {0}
    BY <2>1 DEF Linked, NamedLead
  <2>8. DOMAIN Shown = DOMAIN admin /\ DOMAIN Shown' = DOMAIN admin
    BY <1>s, <1>t, <2>1 DEF ShownWhereItIs
  <2> QED
    BY <2>6, <2>7, <2>8 DEF Table!Reach, Table!Ids
<1>8. CASE UNCHANGED vars
  <2>1. \A i \in DOMAIN admin : Shown'[i] = Shown[i]
    BY <1>s, <1>t, <1>8 DEF ShownWhereItIs, vars
  <2>2. DOMAIN Shown = DOMAIN admin /\ DOMAIN Shown' = DOMAIN admin
    BY <1>s, <1>t, <1>8 DEF ShownWhereItIs, vars
  <2>3. /\ Shown = [i \in DOMAIN Shown |-> Shown[i]]
        /\ Shown' = [i \in DOMAIN Shown' |-> Shown'[i]]
    BY DEF Shown
  <2>4. Shown' = Shown
    BY <2>1, <2>2, <2>3
  <2> QED
    BY <1>8, <2>4 DEF vars, Table!vars
<1>9. Table!Next \/ UNCHANGED vars
  BY <1>1, <1>2, <1>3, <1>4, <1>5, <1>6, <1>7 DEF Next, Client, Script, Table!Next
<1> QED
  BY <1>8, <1>9

\* Breakpoints keep the table that clients have in mind, each command touching the
\* breakpoint of its id only, each hit counted once and by those that are reached, for
\* every set of files, lines, names and attributes that is as Distinct says.
THEOREM TableIsImplemented == ASSUME Distinct PROVE Spec => ImplementsTable
<1>1. Init => Table!Init
  BY TableInit
<1>2. Typed /\ Linked /\ [Next]_vars => [Table!Next]_(Table!vars)
  BY TableStep
<1> QED
  BY <1>1, <1>2, AlwaysLinked, PTL DEF Spec, ImplementsTable, Table!Spec
================================================================================
