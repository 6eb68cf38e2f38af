--------------------------- MODULE MCLineBreakpoints ---------------------------
(* LineBreakpoints with a script of five lines, with a function and a closure. *)
EXTENDS LineBreakpoints

Function(start, end, breakable) == [start |-> start, end |-> end, breakable |-> breakable]

\* The file, in the order of its list: a function that returns a closure, which
\* begins on its first and ends on its last line, and the script.
Script == << Function(3, 4, {3}), Function(3, 4, {4}), Function(1, 5, {5}) >>
=============================================================================
