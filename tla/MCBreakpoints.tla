----------------------------- MODULE MCBreakpoints -----------------------------
(* Breakpoints with one file and one or two keys of every kind. *)
EXTENDS Breakpoints

\* No name is a prefix of another.
Apart == {<<f, f>> : f \in Files}

\* Line 1 cannot break; line 2 can, and is where line 1 resolves to.
ToSecond == 1 :> 2 @@ 2 :> 2

Call      == <<"call", "f">>
AnyError  == <<"exception", "*">>
Keys      == {Call, AnyError}
NoKeys    == {}

\* A temporary breakpoint with a condition, that stops when it is hit again.
OnSecond  == [disabled |-> FALSE, temporary |-> TRUE, guarded |-> TRUE,
              hitValue |-> 2, cond |-> "=="]
Plain     == [OnSecond EXCEPT !.temporary = FALSE, !.guarded = FALSE, !.hitValue = 0,
                              !.cond = "none"]
OnlySecond == {OnSecond}
OnlyPlain  == {Plain}
=============================================================================
