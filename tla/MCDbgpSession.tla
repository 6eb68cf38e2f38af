---------------------------- MODULE MCDbgpSession ----------------------------
(* DbgpSession on a few configurations, for TLC. *)
EXTENDS DbgpSession

\* A configuration with nothing switched on.
Plain == [sapi |-> "request", start |-> "no", onDemand |-> FALSE, uponError |-> FALSE,
          ctrl |-> FALSE, cloud |-> FALSE]

\* One PHP request per RINIT.
ByDefault     == [Plain EXCEPT !.start = "yes"]
OnDemand      == [Plain EXCEPT !.start = "trigger", !.onDemand = TRUE]
UponError     == [Plain EXCEPT !.start = "trigger", !.uponError = TRUE]
ControlSocket == [Plain EXCEPT !.ctrl = TRUE]

\* The worker of tests/frankenphp, and the control socket under the default
\* start_with_request=yes.
InWorker      == [Plain EXCEPT !.start = "trigger", !.sapi = "worker"]
PausedDefault == [ByDefault EXCEPT !.ctrl = TRUE]

AllConfs     == {ByDefault, OnDemand, UponError, ControlSocket, InWorker}
FairConfs    == {OnDemand, ControlSocket, InWorker}
DefaultConfs == {ByDefault}
DemandConfs  == {OnDemand}
WorkerConfs  == {InWorker}
PauseConfs   == {PausedDefault}
=============================================================================
