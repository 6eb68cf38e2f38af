---------------------------------- MODULE Pieces ----------------------------------
(***************************************************************************)
(* Texts, as sequences of characters, that are put together from pieces.    *)
(***************************************************************************)
EXTENDS Naturals, Sequences

\* From each of the pieces on: it, the pieces behind it, and what ends them.
Joined(pieces, end) ==
    LET from[k \in 1..(Len(pieces) + 1)] ==
            IF k > Len(pieces) THEN end ELSE pieces[k] \o from[k + 1]
    IN from
=============================================================================
