----------------------------- MODULE SessionHistory -----------------------------
(***************************************************************************)
(* DbgpSession with its past: whether anything asked for a session since    *)
(* the client last detached.                                                *)
(***************************************************************************)
EXTENDS DbgpSession

VARIABLE asked      \* something asked for a session since the last detach, or is still asking

historyVars == <<vars, asked>>

\* A connection is signalled (by the script, the control socket or a worker's request), the
\* script breaks into the debugger, or there is an error that starts a session.
Asking == doConnect' \/ XdebugBreak \/ (conf.uponError /\ Error)

\* What a detach does not take back: a connection that is signalled and not made yet, and
\* the second attempt that the statement handler makes in trigger mode.
StillAsked == doConnect \/ (at = "initConnect" /\ conf.start = "trigger")

HistoryInit == Init /\ asked = FALSE

HistoryNext == Next /\ asked' = (IF Detach THEN StillAsked ELSE asked \/ Asking)

HistorySpec == HistoryInit /\ [][HistoryNext]_historyVars

\* A client that detached is left alone until something asks anew: none of the places that
\* start sessions (the first frame of another top-level script of a request that carries the
\* trigger, statements, errors, xdebug_break(), forks) takes the request's old wish, or what
\* is left of its session, for a new one.
DetachLasts == detached /\ enabled => asked
=============================================================================
