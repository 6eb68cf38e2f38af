---------------------------- MODULE BreakpointTable ----------------------------
(***************************************************************************)
(* What the breakpoint commands promise a client: a table from the ids it   *)
(* was given to breakpoints.  A command that names an id concerns that one  *)
(* breakpoint, whatever else is set; a breakpoint stays until it is         *)
(* removed; and the script stops at a breakpoint of the table only.         *)
(***************************************************************************)
EXTENDS Naturals

VARIABLES
    table,      \* id -> the breakpoint a client is shown for this id
    stopped     \* the id at which execution stopped last; 0: it ran past

vars == <<table, stopped>>

Ids == DOMAIN table

\* The breakpoints with these ids are what they were.
Kept(ids) == \A i \in ids : table'[i] = table[i]

Init == Ids = {} /\ stopped = 0

\* A new id, and no second breakpoint for the same key.
Set ==
    \E i \in DOMAIN table' \ Ids :
        /\ DOMAIN table' = Ids \cup {i} /\ Kept(Ids)
        /\ table'[i].id = i /\ table'[i].hits = 0
        /\ \A j \in Ids : table[j].key # table'[i].key
        /\ UNCHANGED stopped

\* An update keeps what the breakpoint has counted, and what it is.
Update ==
    \E i \in Ids :
        /\ DOMAIN table' = Ids /\ Kept(Ids \ {i})
        /\ LET b == table[i]  c == table'[i]
           IN c = [b EXCEPT !.key = c.key, !.line = c.line, !.disabled = c.disabled,
                            !.hitValue = c.hitValue, !.cond = c.cond]
        /\ UNCHANGED stopped

Remove ==
    \E i \in Ids :
        /\ DOMAIN table' = Ids \ {i} /\ Kept(Ids \ {i})
        /\ UNCHANGED stopped

\* A file is compiled: line breakpoints move to a line that can break.
Resolve ==
    /\ DOMAIN table' = Ids
    /\ \A i \in Ids : \/ table'[i] = table[i]
                      \/ /\ table[i].kind = "line" /\ ~table[i].resolved
                         /\ table'[i] = [table[i] EXCEPT !.line = table'[i].line,
                                                         !.resolved = TRUE]
    /\ UNCHANGED stopped

\* Execution reaches a place: breakpoints there count the hit, each once, and a
\* temporary one will not do so again.  The script stops only at one that has
\* counted.  Exception breakpoints are hit while they are disabled, too.
Hit(i) ==
    /\ ~table[i].disabled \/ table[i].kind = "exception"
    /\ table'[i] = [table[i] EXCEPT !.hits = @ + 1,
                                    !.disabled = @ \/ table[i].temporary]

Reach ==
    /\ DOMAIN table' = Ids
    /\ stopped' \in Ids \cup {0}
    /\ \A i \in Ids : Hit(i) \/ (table'[i] = table[i] /\ i # stopped')

Next == Set \/ Update \/ Remove \/ Resolve \/ Reach

Spec == Init /\ [][Next]_vars
=============================================================================
