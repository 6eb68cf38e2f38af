------------------------------ MODULE Breakpoints ------------------------------
(***************************************************************************)
(* The breakpoints of a DBGp session: the administration of the ids that    *)
(* clients use, the list of line breakpoints, the hash of the breakpoints   *)
(* on functions and exceptions, and the commands and events that read and   *)
(* change them.                                                            *)
(*                                                                         *)
(* A breakpoint lives in the list or in the hash, under a key; the          *)
(* administration maps an id to a type and a key, and every command that    *)
(* names an id goes through the key to find the breakpoint again.           *)
(***************************************************************************)
EXTENDS Naturals, Sequences, SequencesExt

CONSTANTS
    Files, Lines,   \* where line breakpoints can be set; Lines \subseteq Nat
    Prefix,         \* {<<f, g>>} : the name f is a prefix of the name g
    Names,          \* {<<kind, name>>} : the keys of the other breakpoints
    Target,         \* line -> the line of its function that can break, if any
    Asked,          \* attributes that clients give a breakpoint
    Renumber,       \* the lines clients move a breakpoint to with `update -n`
    Twice,          \* clients set an exception breakpoint they have set
    EarlyResolve,   \* the feature resolved_breakpoints
    MaxIds, MaxHits \* bounds

ASSUME LinesAssumption == Lines \subseteq Nat /\ Renumber \subseteq Lines
ASSUME PrefixAssumption == \A f \in Files : <<f, f>> \in Prefix
ASSUME TargetAssumption == DOMAIN Target \subseteq Lines /\ \A l \in DOMAIN Target : Target[l] \in Lines
\* A name is no file with a line; attributes are of the types that the options have.
ASSUME NamesAssumption == \A n \in Names : n \notin Files \X Lines
ASSUME AskedAssumption ==
    Asked \subseteq [disabled : BOOLEAN, temporary : BOOLEAN, guarded : BOOLEAN,
                     hitValue : Nat, cond : {"none", ">=", "==", "%"}]
ASSUME BoundsAssumption == MaxIds \in Nat /\ MaxHits \in Nat

VARIABLES
    count,      \* breakpoint_count
    admin,      \* id -> [kind, key] : context->breakpoint_list
    lines,      \* context->line_breakpoints, in order
    named,      \* key -> breakpoint : function_breakpoints, exception_breakpoints
    compiled,   \* files with an entry in breakable_lines_map
    stopped     \* the id of the breakpoint at which execution stopped last

vars == <<count, admin, lines, named, compiled, stopped>>

\* xdebug_brk_info.  key is what it was set for: a file and its original_lineno,
\* or a kind and a name; line is resolved_lineno.
Breakpoint ==
    [id : 1..MaxIds, kind : {"line", "function", "exception"},
     key : (Files \X Lines) \cup Names, line : Lines \cup {0}, resolved : BOOLEAN,
     disabled : BOOLEAN, temporary : BOOLEAN, guarded : BOOLEAN,
     hits : Nat, hitValue : Nat, cond : {"none", ">=", "==", "%"}]

Kind(name) == IF name[1] = "exception" THEN "exception" ELSE "function"

\* The ids that were given lead to keys that can be, and the lists hold breakpoints of
\* what they are for.
TypeOK ==
    /\ count \in 0..MaxIds
    /\ DOMAIN admin \subseteq 1..count
    /\ \A i \in DOMAIN admin :
          admin[i] \in [kind : {"line", "function", "exception"}, key : (Files \X Lines) \cup Names]
    /\ \A k \in DOMAIN lines : lines[k] \in Breakpoint
    /\ DOMAIN named \subseteq Names /\ \A n \in DOMAIN named : named[n] \in Breakpoint
    /\ compiled \subseteq Files /\ stopped \in 0..MaxIds

Init ==
    /\ count = 0 /\ admin = << >> /\ lines = << >> /\ named = << >>
    /\ compiled = {} /\ stopped = 0

With(f, x, v) == [y \in DOMAIN f \cup {x} |-> IF y = x THEN v ELSE f[y]]
Without(f, x) == [y \in DOMAIN f \ {x} |-> f[y]]

-----------------------------------------------------------------------------
(* The administration.                                                     *)

RegisterUncounted(kind, key) ==                \* mutant: breakpoint_count stays
    /\ count < MaxIds /\ count' = count
    /\ admin' = With(admin, count + 1, [kind |-> kind, key |-> key])

\* breakpoint_admin_add()
Register(kind, key) ==
    /\ count < MaxIds
    /\ count' = count + 1
    /\ admin' = With(admin, count', [kind |-> kind, key |-> key])

New(kind, key, line, asked) ==
    [id |-> count + 1, kind |-> kind, key |-> key, line |-> line, resolved |-> kind # "line",
     disabled |-> asked.disabled, temporary |-> asked.temporary, guarded |-> asked.guarded,
     hits |-> 0, hitValue |-> asked.hitValue, cond |-> asked.cond]

\* The loop of breakpoint_brk_info_fetch() and of breakpoint_remove() over the
\* line breakpoints compares names over the length of the breakpoint's own.
Sought(k, key) == lines[k].key[2] = key[2] /\ <<lines[k].key[1], key[1]>> \in Prefix

Matching(key) == {k \in DOMAIN lines : Sought(k, key)}

\* The position fetch stops at: without a match it is left at the last one.
Position(key) == IF Matching(key) = {} THEN Len(lines) ELSE Min(Matching(key))

\* Whether breakpoint_brk_info_fetch() returns a breakpoint for this id at all,
\* and which.
Found(i) ==
    IF admin[i].kind = "line" THEN lines # << >> ELSE admin[i].key \in DOMAIN named
Fetch(i) ==
    IF admin[i].kind = "line" THEN lines[Position(admin[i].key)] ELSE named[admin[i].key]

-----------------------------------------------------------------------------
(* The commands.                                                           *)

\* line_breakpoint_resolve_helper()
Resolved(b) ==
    IF b.key[2] \in DOMAIN Target
    THEN [b EXCEPT !.line = Target[b.key[2]], !.resolved = TRUE]
    ELSE b

SetLineAgain(f, l, asked) ==                   \* mutant: set keys are not compared
    /\ Register("line", <<f, l>>)
    /\ lines' = Append(lines, New("line", <<f, l>>, l, asked))
    /\ UNCHANGED <<named, compiled, stopped>>

\* breakpoint_set -t line and -t conditional: refused when there is a breakpoint
\* under this key.
SetLine(f, l, asked) ==
    /\ \A i \in DOMAIN admin : admin[i].key # <<f, l>>
    /\ Register("line", <<f, l>>)
    /\ LET b == New("line", <<f, l>>, l, asked)
       IN lines' = Append(lines, IF EarlyResolve /\ f \in compiled THEN Resolved(b) ELSE b)
    /\ UNCHANGED <<named, compiled, stopped>>

\* breakpoint_set -t call, -t return and -t exception.  A function's key is
\* looked up first; an exception is added to its hash, which replaces what is
\* there.
SetNamed(n, asked) ==
    /\ n \in DOMAIN named => Kind(n) = "exception" /\ Twice
    /\ Register(Kind(n), n)
    /\ named' = With(named, n, New(Kind(n), n, 0, asked))
    /\ UNCHANGED <<lines, compiled, stopped>>

\* The fetched breakpoint, changed.
Store(i, b) ==
    IF admin[i].kind = "line"
    THEN lines' = [lines EXCEPT ![Position(admin[i].key)] = b] /\ UNCHANGED named
    ELSE named' = [named EXCEPT ![admin[i].key] = b] /\ UNCHANGED lines

\* breakpoint_update -s -n -h -o.  An option that is left out is one with the
\* current value, except -n (0: left out), which undoes what was resolved.
BreakpointUpdate(i, s, n, h, o) ==
    /\ Found(i) /\ (n # 0 => admin[i].kind = "line")
    /\ LET b == Fetch(i)
       IN Store(i, [b EXCEPT
                      !.disabled = s, !.hitValue = h, !.cond = o,
                      !.key      = IF n = 0 THEN @ ELSE <<@[1], n>>,
                      !.line     = IF n = 0 THEN @ ELSE n])
    /\ UNCHANGED <<count, admin, compiled, stopped>>

RemoveLast(i) ==                               \* mutant: the position fetch found
    /\ Found(i)
    /\ IF admin[i].kind = "line"
       THEN lines' = RemoveAt(lines, Len(lines)) /\ UNCHANGED named
       ELSE named' = Without(named, admin[i].key) /\ UNCHANGED lines
    /\ admin' = Without(admin, i)
    /\ UNCHANGED <<count, compiled, stopped>>

\* breakpoint_remove shows the breakpoint, so there has to be one, and takes the
\* id out of the administration whether it found the key or not.
BreakpointRemove(i) ==
    /\ Found(i)
    /\ IF admin[i].kind = "line"
       THEN /\ lines' = (IF Matching(admin[i].key) = {} THEN lines
                         ELSE RemoveAt(lines, Position(admin[i].key)))
            /\ UNCHANGED named
       ELSE named' = Without(named, admin[i].key) /\ UNCHANGED lines
    /\ admin' = Without(admin, i)
    /\ UNCHANGED <<count, compiled, stopped>>

-----------------------------------------------------------------------------
(* Compilation and execution.                                              *)

\* xdebug_dbgp_resolve_breakpoints(), for a file that has been compiled: the
\* breakpoints that the ids lead to, unless they are resolved already.
Compile(f) ==
    /\ compiled' = compiled \cup {f}
    /\ LET fetched == {Position(admin[i].key) :
                          i \in {j \in DOMAIN admin : admin[j].kind = "line"}}
       IN lines' = [k \in DOMAIN lines |->
                      IF k \in fetched /\ ~lines[k].resolved /\ lines[k].key[1] = f
                      THEN Resolved(lines[k]) ELSE lines[k]]
    /\ UNCHANGED <<count, admin, named, stopped>>

\* xdebug_handle_hit_value(): what it counts, and whether it is satisfied then.
CountedForever(b) == [b EXCEPT !.hits = @ + 1] \* mutant: temporary is forgotten
Counted(b) == [b EXCEPT !.hits = @ + 1, !.disabled = @ \/ b.temporary]
Satisfied(b) ==
    \/ b.hitValue = 0 \/ b.cond = "none"
    \/ b.cond = ">=" /\ b.hits >= b.hitValue
    \/ b.cond = "==" /\ b.hits = b.hitValue
    \/ b.cond = "%" /\ b.hits % b.hitValue = 0

\* A statement of the script: in the order of the list, breakpoints here that
\* are enabled, and whose condition holds, count a hit, up to the one that
\* stops.  `held` are the conditions that hold.
Statement(f, l) ==
    \E held \in SUBSET {k \in DOMAIN lines : lines[k].guarded} :
       LET here  == {k \in DOMAIN lines :
                       /\ lines[k].key[1] = f /\ lines[k].line = l
                       /\ ~lines[k].disabled /\ (lines[k].guarded => k \in held)}
           due   == {k \in here : Satisfied(Counted(lines[k]))}
           first == IF due = {} THEN Len(lines) ELSE Min(due)
       IN /\ \A k \in here : lines[k].hits < MaxHits
          /\ lines' = [k \in DOMAIN lines |-> IF k \in here /\ k <= first THEN Counted(lines[k])
                                                                       ELSE lines[k]]
          /\ stopped' = (IF due = {} THEN 0 ELSE lines[first].id)
          /\ UNCHANGED <<count, admin, named, compiled>>

\* The breakpoint under this key is hit.
HitNamed(n) ==
    /\ named[n].hits < MaxHits
    /\ named' = [named EXCEPT ![n] = Counted(@)]
    /\ stopped' = (IF Satisfied(named'[n]) THEN named[n].id ELSE 0)
    /\ UNCHANGED <<count, admin, lines, compiled>>

\* A call, or a return from it.
Function(n) ==
    /\ n \in DOMAIN named /\ Kind(n) = "function" /\ ~named[n].disabled
    /\ HitNamed(n)

\* An exception, looked up under "*" first, or an error, under its own name
\* first.  Whether the breakpoint is disabled is not looked at.
Exception(n) ==
    /\ n \in DOMAIN named /\ Kind(n) = "exception"
    /\ HitNamed(n)

-----------------------------------------------------------------------------
Client ==
    \/ \E f \in Files, l \in Lines, a \in Asked : SetLine(f, l, a)
    \/ \E n \in Names, a \in Asked : SetNamed(n, a)
    \/ \E i \in DOMAIN admin :
          \/ \E s \in BOOLEAN, n \in Renumber \cup {0}, a \in Asked :
                BreakpointUpdate(i, s, n, a.hitValue, a.cond)
          \/ BreakpointRemove(i)

Script ==
    \/ \E f \in Files : Compile(f) \/ \E l \in Lines : Statement(f, l)
    \/ \E n \in Names : Function(n) \/ Exception(n)

Next == Client \/ Script

Spec == Init /\ [][Next]_vars

-----------------------------------------------------------------------------
(* Properties.                                                             *)

\* breakpoint_do_action() and the resolving of a compiled file use what fetch
\* returns without looking whether it is there: it always is.
FetchFindsSomething == \A i \in DOMAIN admin : Found(i)

\* What an id leads to, by way of its key, is the breakpoint that was given this
\* id: `get`, `update` and `remove` concern the breakpoint the client meant.
AdminFindsItsOwn == \A i \in DOMAIN admin : Found(i) /\ Fetch(i).id = i

\* Every breakpoint at which the script can stop has an id by which it can be
\* removed.
NoOrphans ==
    /\ \A k \in DOMAIN lines : lines[k].id \in DOMAIN admin
    /\ \A n \in DOMAIN named : named[n].id \in DOMAIN admin

\* The commands keep the table that a client has in mind: what is shown for each id.
Shown == [i \in DOMAIN admin |-> IF Found(i) THEN Fetch(i) ELSE [id |-> 0]]
Table == INSTANCE BreakpointTable WITH table <- Shown
ImplementsTable == Table!Spec
=============================================================================
