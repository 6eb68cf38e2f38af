-------------------------------- MODULE Connecting --------------------------------
(***************************************************************************)
(* How a client is reached: which host is tried, the addresses of a host    *)
(* one after the other with a time-out each, the fall back from a host that *)
(* a header names to the configured one, and the two places that connect:   *)
(* early, at the start of a request, and when a session is to begin.        *)
(***************************************************************************)
EXTENDS Naturals, Sequences, SequencesExt

CONSTANTS
    Settings,       \* [cloud, discover, host, headers, routes, nameservers] : see below
    MaxAddresses,   \* addresses of a host
    MaxTries        \* bound on the calls that connect

ASSUME AddressesAssumption == MaxAddresses \in Nat

\* cloud: "none", or where a cloud id comes from, "setting" or "ide key".
\* discover: discover_client_host.  host: client_host, one of which is "unix".
\* headers: of each name in client_discovery_header the value, a sequence of
\* hosts; << >> when there is no such header.
\* routes: [default, gateway]; nameservers: [private, address].

\* Nobody is called what stands for no host here.
NoHost    == "none"
ASSUME HeadersAssumption == \A s \in Settings : s.headers \in Seq(Seq(STRING \ {NoHost}))
CloudHost == "cloud"
Uri       == "uri"                             \* a host with "://" in it
Pseudo    == {"gateway", "nameserver", "other"}

VARIABLES
    setting,        \* one of Settings
    phase,          \* "idle", "lookup", "address", "connect" or "connected"
    caller,         \* "early" or "session"
    host,           \* the argument of xdebug_create_socket()
    left,           \* addresses that are left to try
    fallback,       \* the configured host is tried when this one fails
    headerCut,      \* the "," in the header is overwritten
    descriptors,    \* open sockets
    socket,         \* context.socket: "open" or why not
    peer,           \* what an open socket is connected to
    hostname,       \* connected_hostname
    early,          \* early_connection
    session,        \* remote_connection_enabled
    tried, calls    \* hosts that were tried; calls that connect, so far

connectingVars == <<setting, phase, caller, host, left, fallback, headerCut, descriptors, socket,
                    peer, hostname, early, session, tried, calls>>

Errors == {"error", "timeout", "no access"}    \* SOCK_ERR and so on, -1 to -3

ConnectingInit ==
    /\ setting \in Settings
    /\ phase = "idle" /\ caller = "session" /\ host = NoHost /\ left = 0 /\ fallback = FALSE
    /\ headerCut = FALSE /\ descriptors = 0 /\ socket = "error" /\ peer = NoHost /\ hostname = NoHost
    /\ early = FALSE /\ session = FALSE /\ tried = {} /\ calls = 0

-----------------------------------------------------------------------------
(* Which host.                                                             *)

\* xdebug_get_gateway_ip(): of the first default route.
Gateway(routes) ==
    LET k == SelectInSeq(routes, LAMBDA route : route.default)
    IN IF k = 0 THEN {} ELSE {routes[k].gateway}

\* xdebug_get_private_nameserver(): the first one, if it is on a private network.
Nameserver(servers) ==
    IF servers # << >> /\ servers[1].private THEN {servers[1].address} ELSE {}

\* resolve_pseudo_hosts(); what it does not find is looked up as it is.
ResolvedHost ==
    LET found == CASE setting.host = "gateway"    -> Gateway(setting.routes)
                   [] setting.host = "nameserver" -> Nameserver(setting.nameservers)
                   [] OTHER -> {}
    IN IF found = {} THEN setting.host ELSE CHOOSE h \in found : TRUE

\* get_client_discovery_address(): the first header there is; not used with a URI.
Header ==
    LET k == SelectInSeq(setting.headers, LAMBDA value : value # << >>)
    IN IF k = 0 \/ Uri \in ToSet(setting.headers[k]) THEN << >> ELSE setting.headers[k]

Cloud      == setting.cloud # "none"
Discovered == ~Cloud /\ setting.discover /\ Header # << >>

\* The host that the settings name, with which every attempt ends.
Configured ==
    IF Cloud THEN CloudHost ELSE IF setting.discover THEN setting.host ELSE ResolvedHost

Try(h) == host' = h /\ phase' = "lookup" /\ tried' = tried \cup {h}

\* xdebug_init_normal_debugger() and xdebug_init_cloud_debugger() up to
\* xdebug_create_socket().
StartTrying ==
    /\ Try(IF Discovered THEN Header[1] ELSE Configured)
    /\ fallback' = Discovered
    /\ headerCut' = (Discovered /\ Len(Header) > 1)
    /\ left' = 0

-----------------------------------------------------------------------------
(* xdebug_create_socket()                                                  *)

KeepsWhole == UNCHANGED <<setting, caller, early, session, calls>>

ResultUncut(result) ==                         \* mutant: the comma stays away
    IF fallback /\ result \in Errors
    THEN Try(setting.host) /\ fallback' = FALSE /\ UNCHANGED <<headerCut, socket>>
    ELSE /\ phase' = "connected" /\ socket' = result
         /\ UNCHANGED <<host, tried, fallback, headerCut>>

ResultAfterError(result) ==                    \* mutant: a time-out ends the attempt
    IF fallback /\ result = "error"
    THEN Try(setting.host) /\ fallback' = FALSE /\ UNCHANGED <<headerCut, socket>>
    ELSE /\ phase' = "connected" /\ socket' = result /\ headerCut' = FALSE
         /\ UNCHANGED <<host, tried, fallback>>

\* It returns; xdebug_init_normal_debugger() may have another host to try, and then
\* puts the comma back.
Result(result) ==
    IF fallback /\ result \in Errors
    THEN Try(setting.host) /\ fallback' = FALSE /\ UNCHANGED <<headerCut, socket>>
    ELSE /\ phase' = "connected" /\ socket' = result /\ headerCut' = FALSE
         /\ UNCHANGED <<host, tried, fallback>>

\* xdebug_create_socket_unix(), which does not set connected_hostname.
Unix ==
    /\ phase = "lookup" /\ host = "unix"
    /\ \/ \E error \in {"error", "no access"} : Result(error) /\ UNCHANGED <<descriptors, peer>>
       \/ Result("open") /\ descriptors' = descriptors + 1 /\ peer' = host
    /\ KeepsWhole /\ UNCHANGED <<left, hostname>>

\* getaddrinfo(); it knows no pseudo hosts.
Lookup ==
    /\ phase = "lookup" /\ host # "unix"
    /\ \/ Result("error") /\ UNCHANGED left
       \/ /\ host \notin Pseudo
          /\ phase' = "address" /\ left' \in 1..MaxAddresses
          /\ UNCHANGED <<host, tried, fallback, headerCut, socket>>
    /\ KeepsWhole /\ UNCHANGED <<descriptors, peer, hostname>>

\* An address has failed: the next one, or the error of this one.
NextAddress(error) ==
    /\ left' = left - 1
    /\ IF left = 1 THEN Result(error)
       ELSE phase' = "address" /\ UNCHANGED <<host, tried, fallback, headerCut, socket>>

Socket ==
    /\ phase = "address"
    /\ \/ phase' = "connect" /\ descriptors' = descriptors + 1
          /\ UNCHANGED <<host, tried, fallback, headerCut, socket, left>>
       \/ NextAddress("error") /\ UNCHANGED descriptors
    /\ KeepsWhole /\ UNCHANGED <<peer, hostname>>

ConnectFailsOpen ==                            \* mutant: a time-out does not close
    /\ phase = "connect"
    /\ \E error \in Errors :
          /\ NextAddress(error)
          /\ descriptors' = IF error = "timeout" THEN descriptors ELSE descriptors - 1
    /\ KeepsWhole /\ UNCHANGED <<peer, hostname>>

\* connect() is refused, or poll() runs into the time-out, an error or a signal, or
\* there is no peer in the end.
ConnectFails ==
    /\ phase = "connect"
    /\ \E error \in Errors : NextAddress(error)
    /\ descriptors' = descriptors - 1
    /\ KeepsWhole /\ UNCHANGED <<peer, hostname>>

Connect ==
    /\ phase = "connect"
    /\ Result("open") /\ peer' = host /\ hostname' = host
    /\ KeepsWhole /\ UNCHANGED <<left, descriptors>>

-----------------------------------------------------------------------------
(* The callers.                                                            *)

Calls == phase = "idle" /\ calls < MaxTries /\ calls' = calls + 1

\* xdebug_early_connect_to_client(), which leaves a cloud for later.
EarlyConnect ==
    /\ Calls /\ calls = 0
    /\ caller' = "early" /\ early' = TRUE
    /\ IF Cloud
       THEN UNCHANGED <<phase, host, left, fallback, headerCut, tried>>
       ELSE StartTrying
    /\ UNCHANGED <<setting, descriptors, socket, peer, hostname, session>>

EarlyConnected ==
    /\ phase = "connected" /\ caller = "early"
    /\ phase' = "idle"
    /\ UNCHANGED <<setting, caller, host, left, fallback, headerCut, descriptors, socket, peer,
                   hostname, early, session, tried, calls>>

\* xdebug_init_debugger(): a connection that was attempted early is not again.
BeginSession ==
    /\ Calls /\ ~session
    /\ caller' = "session"
    /\ IF early
       THEN phase' = "connected" /\ UNCHANGED <<host, left, fallback, headerCut, tried>>
       ELSE StartTrying
    /\ UNCHANGED <<setting, descriptors, socket, peer, hostname, early, session>>

CloseSocket == descriptors' = descriptors - 1 /\ socket' = "error"

\* With the socket, or without one, remote_init() or nothing.
SessionBegun ==
    /\ phase = "connected" /\ caller = "session"
    /\ phase' = "idle"
    /\ IF socket = "open"
       THEN \/ session' = TRUE /\ UNCHANGED <<descriptors, socket>>
            \/ CloseSocket /\ UNCHANGED session
       ELSE UNCHANGED <<session, descriptors, socket>>
    /\ UNCHANGED <<setting, caller, host, left, fallback, headerCut, peer, hostname, early, tried,
                   calls>>

\* xdebug_mark_debug_connection_not_active()
LoseSession ==
    /\ session /\ phase = "idle"
    /\ session' = FALSE /\ CloseSocket
    /\ UNCHANGED <<setting, phase, caller, host, left, fallback, headerCut, peer, hostname, early,
                   tried, calls>>

ConnectingNext ==
    \/ EarlyConnect \/ EarlyConnected \/ BeginSession \/ SessionBegun \/ LoseSession
    \/ Unix \/ Lookup \/ Socket \/ ConnectFails \/ Connect

ConnectingSpec == ConnectingInit /\ [][ConnectingNext]_connectingVars

-----------------------------------------------------------------------------
(* Properties.                                                             *)

\* A session has an open socket, and a discovery header is whole again, as it is cut
\* at its first comma while that address is tried, whenever nothing is being tried.
ConnectingTypeOK ==
    /\ phase \in {"idle", "lookup", "address", "connect", "connected"}
    /\ left \in 0..MaxAddresses /\ descriptors \in Nat /\ socket \in Errors \cup {"open"}
    /\ session => socket = "open"
    /\ phase \in {"idle", "connected"} => ~headerCut

\* Every socket that was opened for an address, of whatever host, was closed again
\* but the one that is used, however its connection failed.
NoDescriptorLost ==
    descriptors = (IF phase = "connect" THEN 1 ELSE 0) + (IF socket = "open" THEN 1 ELSE 0)

\* A session has the peer that is reported as connected_hostname, be it discovered,
\* resolved, configured or fallen back to; a Unix socket leaves the old one there.
\* And connecting, as long as it never succeeded, does not fail before the host of
\* the settings was tried (a cloud's is not when the early connection has left it
\* for later).
ClientIsTheOneReported ==
    /\ session /\ peer # "unix" => hostname = peer
    /\ phase = "connected" /\ socket # "open" /\ peer = NoHost /\ ~(early /\ Cloud) =>
          Configured \in tried
=============================================================================
