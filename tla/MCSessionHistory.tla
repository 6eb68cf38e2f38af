---------------------------- MODULE MCSessionHistory ----------------------------
(* SessionHistory on a few configurations, for TLC. *)
EXTENDS MCDbgpSession, SessionHistory

\* A request that `pause` may reach although the trigger is looked for.
PausedTrigger == [Plain EXCEPT !.start = "trigger", !.ctrl = TRUE]

HistoryConfs == AllConfs \cup {PausedTrigger}
=============================================================================
