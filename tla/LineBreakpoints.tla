---------------------------- MODULE LineBreakpoints ----------------------------
(***************************************************************************)
(* Where a line breakpoint stops: how the line that a client asked for is    *)
(* resolved to one that can break, and which frames are marked as having     *)
(* line breakpoints, without which the statement handler does not look at    *)
(* the list of breakpoints at all.                                          *)
(*                                                                         *)
(* One file, whose functions, the script itself among them, are listed in    *)
(* the order in which they were compiled.  As in Stepping, a fiber has a     *)
(* stack of its own.                                                        *)
(***************************************************************************)
EXTENDS Naturals, Sequences

CONSTANTS
    Functions,      \* the functions of the file, [start, end, breakable]
    ScanRange,      \* XDEBUG_DBGP_SCAN_RANGE
    Fibers, Main,   \* the fibers, and the main program
    Asked,          \* the lines that clients ask for
    MaxLevel,       \* bound: frames on a stack
    MaxIds          \* bound: breakpoints set

Lines(f) == Functions[f].start .. Functions[f].end

\* Lines count from 1.  No line has statements of two functions: which of them a
\* breakpoint on such a line is for, nobody can say.
ASSUME FunctionsAssumption ==
    /\ Functions \in Seq([start : Nat \ {0}, end : Nat, breakable : SUBSET Nat])
    /\ \A f \in DOMAIN Functions : Functions[f].breakable \subseteq Lines(f)
    /\ \A f, g \in DOMAIN Functions :
          f # g => Functions[f].breakable \cap Functions[g].breakable = {}
ASSUME ScanAssumption == ScanRange \in Nat \ {0} /\ Asked \subseteq Nat \ {0}
ASSUME FibersAssumption == Main \notin Fibers
ASSUME BoundsAssumption == MaxLevel \in Nat \ {0} /\ MaxIds \in Nat

Threads == Fibers \cup {Main}

VARIABLES
    at,         \* "php", or "prompt" in the command loop
    listed,     \* the file has an entry in breakable_lines_map
    early,      \* the feature resolved_breakpoints
    count,      \* breakpoint_count
    bps,        \* context->line_breakpoints
    stacks,     \* fiber -> its frames
    current     \* the fiber that runs

vars == <<at, listed, early, count, bps, stacks, current>>

\* A frame of a function, or (function 0) the first of a fiber.  marked is
\* has_line_breakpoints.  unseen is history: the breakpoints that were set while
\* this frame was on the stack of a suspended fiber, or moved while it was on any; of
\* a marked frame, none.
Frame == [function : DOMAIN Functions \cup {0}, marked : BOOLEAN, unseen : SUBSET (1..MaxIds)]

\* key: the line under which it is listed, for which it was set.  moved is history: it
\* got its line when it was resolved already, and is taken to be resolved still.
Breakpoint == [id : 1..MaxIds, key : Asked, orig : Asked, line : Nat, resolved : BOOLEAN,
               moved : BOOLEAN]

\* Every stack holds frames of functions of the script, or first frames of fibers, and
\* every breakpoint has an id that was given and a line, at which it was asked for.
TypeOK ==
    /\ at \in {"php", "prompt"} /\ listed \in BOOLEAN /\ early \in BOOLEAN
    /\ count \in 0..MaxIds /\ bps \subseteq Breakpoint
    /\ stacks \in [Threads -> Seq(Frame)] /\ current \in Threads

Init ==
    /\ at = "prompt" /\ listed \in BOOLEAN /\ early = FALSE
    /\ count = 0 /\ bps = {}
    /\ stacks = [t \in Threads |-> << >>] /\ current = Main

Stack == stacks[current]
Top   == Stack[Len(Stack)]

-----------------------------------------------------------------------------
(* Resolving a line.                                                       *)

Span(f) == Functions[f].end - Functions[f].start

Around(l) == {f \in DOMAIN Functions : l \in Lines(f)}

\* find_smallest_range(): of equal ones, the first.
SmallestRange(l) ==
    CHOOSE f \in Around(l) :
        \A g \in Around(l) : Span(f) < Span(g) \/ (Span(f) = Span(g) /\ f <= g)

\* mutant: one line short of the range
FollowingShort(l, f) ==
    LET from[t \in Nat] ==
            IF t \in Functions[f].breakable THEN t
            ELSE IF t < Functions[f].end /\ t + 1 < l + ScanRange THEN from[t + 1] ELSE 0
    IN from[l + 1]

\* mutant: any breakable line of the file
FollowingAnywhere(l, f) ==
    LET from[t \in Nat] ==
            IF \E g \in DOMAIN Functions : t \in Functions[g].breakable THEN t
            ELSE IF t < Functions[f].end /\ t < l + ScanRange THEN from[t + 1] ELSE 0
    IN from[l + 1]

\* The scan for a following, and for a previous line: the first probe is made
\* in any case.  0: none.
Following(l, f) ==
    LET from[t \in Nat] ==
            IF t \in Functions[f].breakable THEN t
            ELSE IF t < Functions[f].end /\ t < l + ScanRange THEN from[t + 1] ELSE 0
    IN from[l + 1]

Previous(l, f) ==
    LET from[t \in Nat] ==
            IF t \in Functions[f].breakable THEN t
            ELSE IF t > Functions[f].start /\ t + ScanRange > l THEN from[t - 1] ELSE 0
    IN from[l - 1]

\* line_breakpoint_resolve_helper(): the line itself, a following one, or a
\* previous one of the same function.
Resolved(b) ==
    IF Around(b.orig) = {} THEN b
    ELSE LET f    == SmallestRange(b.orig)
             next == Following(b.orig, f)
             prev == Previous(b.orig, f)
             to(l) == [b EXCEPT !.line = l, !.resolved = TRUE]
         IN IF b.orig \in Functions[f].breakable THEN to(b.orig)
            ELSE IF next # 0 THEN to(next)
            ELSE IF prev # 0 THEN to(prev) ELSE b

-----------------------------------------------------------------------------
(* The commands.                                                           *)

Unseen(frame, id) == [frame EXCEPT !.unseen = IF frame.marked THEN {} ELSE @ \cup {id}]

MarkedTop(t, id) ==                             \* mutant: only the function that runs
    [k \in DOMAIN stacks[t] |->
       IF t = current THEN [stacks[t][k] EXCEPT !.marked = @ \/ k = Len(stacks[t])]
                      ELSE Unseen(stacks[t][k], id)]

\* The frames when this breakpoint is set: it may be anywhere on the stack that
\* is current.
Marked(t, id) ==
    [k \in DOMAIN stacks[t] |->
       IF t = current THEN [stacks[t][k] EXCEPT !.marked = TRUE, !.unseen = {}]
                      ELSE Unseen(stacks[t][k], id)]

UsedId == count                                 \* mutant: the id of the one before

\* breakpoint_admin_add(): the next id.
FreeId == count + 1

\* breakpoint_set -t line
SetBreakpoint(l) ==
    /\ at = "prompt" /\ count < MaxIds
    /\ \A b \in bps : b.key # l
    /\ count' = count + 1
    /\ LET b == [id |-> FreeId, key |-> l, orig |-> l, line |-> l, resolved |-> FALSE,
               moved |-> FALSE]
       IN bps' = bps \cup {IF early /\ listed THEN Resolved(b) ELSE b}
    /\ stacks' = [t \in Threads |-> Marked(t, FreeId)]
    /\ UNCHANGED <<at, listed, early, current>>

\* breakpoint_update -n neither resolves the line again, nor marks a frame.
\* Bounded: one is moved at a time, to a line that is not its own.
BreakpointUpdate(b, l) ==
    /\ at = "prompt" /\ l # b.key /\ \A c \in bps : c.orig = c.key
    /\ bps' = (bps \ {b}) \cup {[b EXCEPT !.orig = l, !.line = l, !.moved = b.resolved]}
    /\ stacks' = [t \in Threads |-> [k \in DOMAIN stacks[t] |-> Unseen(stacks[t][k], b.id)]]
    /\ UNCHANGED <<at, listed, early, count, current>>

BreakpointRemove(b) ==
    /\ at = "prompt"
    /\ bps' = bps \ {b}
    /\ UNCHANGED <<at, listed, early, count, stacks, current>>

\* feature_set -n resolved_breakpoints
FeatureSet ==
    /\ at = "prompt" /\ early' = ~early
    /\ UNCHANGED <<at, listed, count, bps, stacks, current>>

Continue ==
    /\ at = "prompt" /\ at' = "php"
    /\ UNCHANGED <<listed, early, count, bps, stacks, current>>

-----------------------------------------------------------------------------
(* The script.                                                             *)

\* breakpoint_resolve_helper() on every breakpoint.
ResolveAll(all) == {IF b.resolved THEN b ELSE Resolved(b) : b \in all}

\* xdebug_debugger_compile_file(), for the first or for another inclusion.
Compile ==
    /\ at = "php"
    /\ listed' = TRUE
    /\ bps' = ResolveAll(bps)
    /\ UNCHANGED <<at, early, count, stacks, current>>

\* mark_fse_as_having_line_breakpoints()
HasLineBreakpoints(f) == \E b \in bps : b.line \in Lines(f)

Call(f) ==
    /\ at = "php" /\ listed /\ Len(Stack) < MaxLevel
    /\ stacks' = [stacks EXCEPT ![current] =
                    Append(@, [function |-> f, marked |-> HasLineBreakpoints(f), unseen |-> {}])]
    /\ UNCHANGED <<at, listed, early, count, bps, current>>

\* A statement stops for a step, or at a breakpoint if its frame is marked.
Statement(l) ==
    /\ at = "php" /\ Stack # << >> /\ Top.function # 0 /\ l \in Functions[Top.function].breakable
    /\ \/ at' = "prompt"
       \/ ~(Top.marked /\ \E b \in bps : b.line = l) /\ UNCHANGED at
    /\ UNCHANGED <<listed, early, count, bps, stacks, current>>

Return ==
    /\ at = "php" /\ Stack # << >> /\ Top.function # 0
    /\ stacks' = [stacks EXCEPT ![current] = SubSeq(@, 1, Len(@) - 1)]
    /\ UNCHANGED <<at, listed, early, count, bps, current>>

\* xdebug_fiber_switch_observer(): a fiber that starts gets a stack with a frame
\* of its own; one that has come back to that frame may be dead, and leaves none.
Switch(to) ==
    /\ at = "php" /\ to # current /\ (current = Main => Stack # << >>)
    /\ current' = to
    /\ \E dead \in {FALSE, current # Main /\ Len(Stack) = 1} :
          stacks' = [stacks EXCEPT
                       ![to] = IF @ = << >> /\ to # Main
                               THEN <<[function |-> 0, marked |-> FALSE, unseen |-> {}]>> ELSE @,
                       ![current] = IF dead THEN << >> ELSE @]
    /\ UNCHANGED <<at, listed, early, count, bps>>

Next ==
    \/ \E l \in Asked : SetBreakpoint(l)
    \/ \E b \in bps : BreakpointRemove(b) \/ \E l \in Asked : BreakpointUpdate(b, l)
    \/ FeatureSet \/ Continue \/ Compile \/ Return
    \/ \E f \in DOMAIN Functions : Call(f) \/ \E l \in Functions[f].breakable : Statement(l)
    \/ \E t \in Threads : Switch(t)

Spec == Init /\ [][Next]_vars

-----------------------------------------------------------------------------
(* Properties.                                                             *)

\* The marks hide no breakpoint: a frame whose function can stop at a breakpoint
\* is marked, whatever order setting, resolving, moving, calling and switching come
\* in, unless its stack was that of a suspended fiber when the breakpoint was set, or
\* the breakpoint was moved while the frame was there.
MarksHideNothing ==
    \A t \in Threads : \A k \in DOMAIN stacks[t] :
        LET frame == stacks[t][k]
        IN frame.function # 0 /\ ~frame.marked
           => \A b \in bps : b.id \in frame.unseen \/ b.line \notin Functions[frame.function].breakable

\* What a resolved breakpoint stops at, said with sets: in the innermost function
\* around the line asked for, the nearest line within reach that can break,
\* following lines before previous ones; or, once it was moved after it had been
\* resolved, at the line that it was moved to.
Reach(l) ==
    LET f == CHOOSE f \in Around(l) :
                \A g \in Around(l) : Span(f) <= Span(g) /\ (g < f => Span(f) < Span(g))
    IN {m \in Functions[f].breakable : m <= l + ScanRange /\ l <= m + ScanRange}

ResolvedToNearest ==
    \A b \in bps :
        IF ~b.resolved \/ b.moved THEN b.line = b.orig
        ELSE /\ Around(b.orig) # {} /\ b.line \in Reach(b.orig)
             /\ \A m \in Reach(b.orig) :
                   IF b.line >= b.orig THEN m < b.orig \/ b.line <= m ELSE m <= b.line

\* Once the file has been compiled with a breakpoint in place, the breakpoint
\* stays unresolved only if there is nothing to resolve it to.
CompiledIsResolved ==
    [][Compile => \A b \in bps' : b.resolved \/ Around(b.orig) = {} \/ Reach(b.orig) = {}]_vars
=============================================================================
