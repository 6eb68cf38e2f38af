------------------------------ MODULE StartDecision ------------------------------
(***************************************************************************)
(* Whether a request is debugged.  A browser sends requests one after the   *)
(* other; the names in their GET, POST, COOKIE and in the environment       *)
(* decide, first in RINIT, which connects early, and again when the first   *)
(* user code is called.  A session start sets a cookie, which makes the     *)
(* browser's later requests triggers, until a session stop removes it.      *)
(***************************************************************************)
EXTENDS Naturals, Sequences, SequencesExt, Functions

CONSTANTS
    StartSettings,  \* [mode, secrets, ideKey, env, envTracked, cli, onDemand, control]
    Requests,       \* [GET, POST], each a function from names to values
    TrimmedValue(_) \* a value without the space around it

\* mode: start_with_request.  secrets: the values of trigger_value, trimmed; {} when
\* it is not set.  env: the environment, a function from names to values;
\* envTracked: $_ENV is filled from it.  cli: the headers count as sent from the
\* start of the script, and no browser keeps cookies.  control: control socket.

\* xdebug_lib_set_start_with_request() takes no other value.
ModesAssumption == \A c \in StartSettings : c.mode \in {"yes", "no", "trigger"}
ASSUME ModesAssumption

\* What lookups return for no value.
NotFound == "not found"
Triggers == <<"XDEBUG_TRIGGER", "PHP_DEBUGGER_TRIGGER", "XDEBUG_SESSION", "PHP_DEBUGGER_SESSION">>
Ignores  == <<"XDEBUG_IGNORE", "PHP_DEBUGGER_IGNORE">>
Starts   == <<"XDEBUG_SESSION_START", "PHP_DEBUGGER_SESSION_START">>
Configs  == <<"XDEBUG_CONFIG", "PHP_DEBUGGER_CONFIG">>
StopNames   == {"XDEBUG_SESSION_STOP", "PHP_DEBUGGER_SESSION_STOP"}
NoExecNames == {"XDEBUG_SESSION_STOP_NO_EXEC", "PHP_DEBUGGER_SESSION_STOP_NO_EXEC"}
Cookies  == {"XDEBUG_SESSION", "PHP_DEBUGGER_SESSION"}

PlaceValues(place) == {place[name] : name \in DOMAIN place}

\* NotFound stands for NULL, and is not the value of anything.
ValuesAssumption ==
    /\ \A r \in Requests : NotFound \notin PlaceValues(r.GET) \cup PlaceValues(r.POST)
    /\ \A c \in StartSettings : NotFound \notin PlaceValues(c.env) \cup {c.ideKey}
ASSUME ValuesAssumption

VARIABLES
    conf,           \* one of StartSettings
    jar,            \* the browser's cookies, a function from names to values
    request,        \* [GET, POST, COOKIE]
    stage,          \* "idle", "started" (RINIT is over) or "running"
    headersSent,
    ideKey,         \* ide_key, "" when there is none
    startResult,    \* start_session_result
    asked, askedKey,\* debug_requested, and ide_key then
    watched,        \* observer_active
    begun, begunKey,\* the second decision, and ide_key then
    sticky          \* "yes": a session was started for the browser and not stopped, "no",
                    \* or "unclear": it was started with an empty value since then

startVars == <<conf, jar, request, stage, headersSent, ideKey, startResult, asked, askedKey,
               watched, begun, begunKey, sticky>>

Nothing == [name \in {} |-> ""]

StartInit ==
    /\ conf \in StartSettings
    /\ jar = Nothing /\ request = [GET |-> Nothing, POST |-> Nothing, COOKIE |-> Nothing]
    /\ stage = "idle" /\ headersSent = FALSE /\ ideKey = "" /\ startResult = "unchecked"
    /\ asked = FALSE /\ askedKey = "" /\ watched = FALSE /\ begun = FALSE /\ begunKey = ""
    /\ sticky = "no"

-----------------------------------------------------------------------------
(* Looking names up.  Each function takes the request as an argument, as    *)
(* RINIT is the first to see it.                                            *)

FirstHit(places, name) ==
    LET k == SelectInSeq(places, LAMBDA place : name \in DOMAIN place)
    IN IF k = 0 THEN NotFound ELSE places[k][name]

\* xdebug_lib_find_in_globals()
InGlobals(r, name) == FirstHit(<<r.GET, r.POST, r.COOKIE, conf.env>>, name)

\* find_session_start_variable()
InTrackVars(r, name) ==
    FirstHit(<<IF conf.envTracked THEN conf.env ELSE Nothing, r.GET, r.POST>>, name)

\* find_session_start_env()
InEnv(r, name) == FirstHit(<<conf.env>>, name)

\* The first of the names that is found: <<name, value>>, or << >>.
FirstNamed(Find(_, _), r, names) ==
    LET k == SelectInSeq(names, LAMBDA name : Find(r, name) # NotFound)
    IN IF k = 0 THEN << >> ELSE <<names[k], Find(r, names[k])>>

\* xdebug_should_ignore()
Ignored(r) ==
    LET found == FirstNamed(InGlobals, r, Ignores)
    IN found # << >> /\ found[2] \notin {"no", "0"}

HasSecret == conf.secrets # {}

OldTriggers(r) ==                              \* mutant: without the later alias
    FirstNamed(InGlobals, r, SubSeq(Triggers, 1, 3))

TriggerOf(r) == FirstNamed(InGlobals, r, Triggers)

\* trigger_enabled() and does_shared_secret_match(): the value, or NotFound.
Trigger(r) ==
    LET found == TriggerOf(r)
    IN CASE found = << >> -> NotFound
         [] found # << >> /\ ~HasSecret -> found[2]
         [] found # << >> /\ HasSecret ->
              IF TrimmedValue(found[2]) \in conf.secrets THEN TrimmedValue(found[2]) ELSE NotFound

\* session_cookie_name_for()
CookieName(name) ==
    IF name \in {"PHP_DEBUGGER_SESSION_START", "PHP_DEBUGGER_CONFIG"}
    THEN "PHP_DEBUGGER_SESSION" ELSE "XDEBUG_SESSION"

\* xdebug_setcookie(), and the browser; an empty value removes the cookie.
WithCookie(cookies, name, value) ==
    IF value = "" THEN Restrict(cookies, DOMAIN cookies \ {name})
    ELSE [n \in DOMAIN cookies \cup {name} |-> IF n = name THEN value ELSE cookies[n]]

WithoutSession(cookies) == Restrict(cookies, DOMAIN cookies \ Cookies)

StartsSession(r, key, sent) ==
    LET nothing  == [active |-> FALSE, key |-> key, cookies |-> jar]
        Started(found, cookie) ==
            [active |-> TRUE, key |-> found[2],
             cookies |-> IF cookie THEN WithCookie(jar, CookieName(found[1]), found[2]) ELSE jar]
        variable == FirstNamed(InTrackVars, r, Starts)
        inEnv    == FirstNamed(InEnv, r, Starts)
        config   == FirstNamed(InEnv, r, Configs)
    IN CASE HasSecret -> nothing
         [] ~HasSecret /\ variable # << >> /\ ~sent -> Started(variable, TRUE)
         [] ~HasSecret /\ (variable = << >> \/ sent) /\ inEnv # << >> -> Started(inEnv, ~sent)
         [] ~HasSecret /\ (variable = << >> \/ sent) /\ inEnv = << >> ->
              IF config # << >> /\ key # "" /\ ~sent
              THEN Started(<<config[1], key>>, TRUE) ELSE nothing

HandleStartUncached(r, key, sent, cached) == StartsSession(r, key, sent)  \* mutant

\* xdebug_handle_start_session(), which answers from its cache the second time.
HandleStart(r, key, sent, cached) ==
    IF cached = "unchecked" THEN StartsSession(r, key, sent)
    ELSE [active |-> cached = "yes", key |-> key, cookies |-> jar]

Cached(active) == IF active THEN "yes" ELSE "no"

-----------------------------------------------------------------------------
(* A request.                                                              *)

\* xdebug_debugger_get_ide_key()
ConfiguredKey ==
    IF conf.ideKey # "" THEN conf.ideKey
    ELSE IF "DBGP_IDEKEY" \in DOMAIN conf.env THEN conf.env["DBGP_IDEKEY"] ELSE ""

Has(r, names) == names \cap (DOMAIN r.GET \cup DOMAIN r.POST) # {}

\* The extension is asked for a request with one of these, at the latest.
Carries(r) ==
    \/ TriggerOf(r) # << >> /\ TriggerOf(r)[1] \notin DOMAIN r.COOKIE
    \/ FirstNamed(InTrackVars, r, Starts) # << >>
    \/ FirstNamed(InEnv, r, Starts \o Configs) # << >>

\* A start with an empty value: it removes the cookie, if there is one.
StartsEmpty(r) ==
    \E name \in ToSet(Starts), place \in {r.GET, r.POST, conf.env} :
        name \in DOMAIN place /\ place[name] = ""

\* Ends the request, as far as the session that the browser sees is concerned.
Finish(r, decided) ==
    LET stops  == decided /\ Has(r, StopNames)
        starts == asked /\ ~conf.cli /\ ~HasSecret /\ Has(r, ToSet(Starts))
    IN /\ stage' = "idle"
       /\ sticky' = IF stops THEN "no"
                    ELSE IF asked /\ StartsEmpty(r) THEN "unclear"
                    ELSE IF starts THEN "yes" ELSE sticky

\* A request to stop that runs no code.
StopNoExec(r) ==
    /\ stage = "idle" /\ Has(r, NoExecNames)
    /\ jar' = WithoutSession(jar) /\ sticky' = "no"
    /\ UNCHANGED <<conf, request, stage, headersSent, ideKey, startResult, asked, askedKey, watched,
                   begun, begunKey>>

\* PHP_RINIT_FUNCTION(xdebug), after the no-exec check: the early decision, and the
\* early connection, which succeeds or does not.
Rinit(r) ==
    /\ stage = "idle" /\ ~Has(r, NoExecNames)
    /\ LET start    == HandleStart(r, ConfiguredKey, FALSE, "unchecked")
           eligible == conf.mode # "no" /\ ~Ignored(r)
           trigger  == IF eligible /\ conf.mode = "trigger" /\ ~start.active
                       THEN Trigger(r) ELSE NotFound
       IN /\ asked' = (eligible /\ (start.active \/ conf.mode = "yes" \/ trigger # NotFound))
          /\ startResult' = IF eligible THEN Cached(start.active) ELSE "unchecked"
          /\ jar' = IF eligible /\ ~conf.cli THEN start.cookies ELSE jar
          /\ ideKey' = CASE ~eligible -> ConfiguredKey
                         [] eligible /\ trigger # NotFound -> trigger
                         [] eligible /\ trigger = NotFound -> start.key
    /\ askedKey' = ideKey'
    /\ \E connected \in {FALSE} \cup {asked'} :
          watched' = (connected \/ conf.onDemand \/ conf.control)
    /\ request' = r /\ stage' = "started" /\ begun' = FALSE /\ begunKey' = ""
    /\ headersSent' = conf.cli
    /\ UNCHANGED <<conf, sticky>>

\* xdebug_debug_init_if_requested_at_startup(), with the first user code.
AtStartup ==
    /\ stage = "started" /\ watched
    /\ LET start    == HandleStart(request, ideKey, headersSent, startResult)
           checks   == conf.mode = "trigger" /\ ~Ignored(request)
           trigger  == IF checks /\ ~start.active THEN Trigger(request) ELSE NotFound
           cookies  == IF checks /\ ~conf.cli THEN start.cookies ELSE jar
       IN /\ begun' = (~Ignored(request)
                       /\ (conf.mode = "yes" \/ (checks /\ start.active) \/ trigger # NotFound))
          /\ ideKey' = CASE trigger # NotFound -> trigger
                         [] trigger = NotFound -> IF checks THEN start.key ELSE ideKey
          /\ startResult' = IF checks THEN Cached(start.active) ELSE startResult
          /\ jar' = IF ~Ignored(request) /\ Has(request, StopNames) /\ ~headersSent
                    THEN WithoutSession(cookies) ELSE cookies
    /\ begunKey' = ideKey'
    /\ stage' = "running"
    /\ UNCHANGED <<conf, request, headersSent, asked, askedKey, watched, sticky>>

RequestOver ==
    /\ stage = "running" \/ (stage = "started" /\ ~watched)
    /\ Finish(request, stage = "running" /\ ~Ignored(request))
    /\ UNCHANGED <<conf, jar, request, headersSent, ideKey, startResult, asked, askedKey, watched,
                   begun, begunKey>>

Serve(r) ==
    LET whole == [GET |-> r.GET, POST |-> r.POST, COOKIE |-> IF conf.cli THEN Nothing ELSE jar]
    IN Rinit(whole) \/ StopNoExec(whole)

StartNext == (\E r \in Requests : Serve(r)) \/ AtStartup \/ RequestOver

StartSpec == StartInit /\ [][StartNext]_startVars

-----------------------------------------------------------------------------
(* Properties.                                                             *)

\* The two decisions agree, also where the headers were sent in between: a session
\* begins exactly in the requests for which RINIT connected, under the same key.
DecisionsAgree ==
    stage = "running" => begun = asked /\ (begun => begunKey = askedKey)

\* With triggers and no secret, a session start makes every later request of that
\* browser a debugged one, under either spelling of the names, until a session stop
\* is served; and a request is debugged only if it says so or one before it did.
\* (A start with an empty value removes the cookie that others have set.)
SessionSticks ==
    (stage # "idle" /\ conf.mode = "trigger" /\ ~HasSecret /\ ~Ignored(request)) =>
        /\ sticky = "yes" => asked
        /\ asked => sticky # "no" \/ Carries(request)
=============================================================================
