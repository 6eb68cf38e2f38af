-------------------------------- MODULE MCParts --------------------------------
(***************************************************************************)
(* The parts of the debugger that keep their state to themselves, on small  *)
(* instances, one part in each behaviour: what is chosen in the beginning   *)
(* runs, and the others stay as they begin.                                 *)
(***************************************************************************)
EXTENDS PathMaps, CommandParser, CommandLoop, Connecting, StartDecision, VariableExport,
        DataCommands, ControlSocket

VARIABLE part

-----------------------------------------------------------------------------
(* Path maps: one directory with a file of a few lines.                    *)

WwwScript    == <<"srv", "www", "x.php">>
PipedScript  == <<"stdin">>
SomeScripts  == {WwwScript, PipedScript}
HomeDir      == <<"/", "home">>
SomePrefixes == {<<".", "/", "r">>, <<"r", "/">>}

MapRule(remote, remoteRange, local, localRange) ==
    [remote |-> remote, remoteRange |-> remoteRange, local |-> local, localRange |-> localRange]

RemoteDir  == <<"/", "r", "/">>
RemoteFile == <<"/", "r", "/", "f">>
OtherFile  == <<"/", "s">>
LocalDir   == <<"/", "l", "/">>
LocalFile  == <<"/", "l", "/", "g">>
LocalTwin  == <<"/", "l", "/", "h">>

SomeRules == {
    MapRule(RemoteDir, << >>, LocalDir, << >>),
    MapRule(<<"/", "f">>, << >>, LocalFile, << >>),
    MapRule(RemoteFile, << >>, LocalFile, << >>),
    MapRule(RemoteFile, <<1>>, LocalFile, <<2>>),
    MapRule(RemoteFile, <<1>>, LocalFile, <<7>>),
    MapRule(RemoteFile, <<2, 3>>, LocalFile, <<3, 4>>),
    MapRule(RemoteFile, <<2, 4>>, LocalTwin, <<1>>),
    MapRule(RemoteFile, <<4, Eof>>, LocalFile, <<5, Eof>>),
    MapRule(RemoteFile, <<0, 3>>, LocalTwin, << >>),
    MapRule(RemoteFile, <<3>>, Skip, << >>),
    MapRule(RemoteFile, << >>, Skip, << >>),
    MapRule(OtherFile, << >>, LocalFile, << >>),
    MapRule(OtherFile, <<1>>, LocalFile, <<1>>),
    MapRule(RemoteDir, <<3, 2>>, Skip, << >>)}

-----------------------------------------------------------------------------
(* Commands: three options, and three packets.                             *)

SomeLetters  == {"i", "n", "-"}
SomeValues   == {<< >>, <<"k">>, <<"k", " ", "-", "n", " ", "k">>, <<Quote, Backslash>>}
SomeCommands == {"status", "source", "run", "stop", "detach", "unknown", "parse error", "no id"}

-----------------------------------------------------------------------------
(* Connecting: each way to find the host.                                  *)

SomeRoutes == <<[default |-> FALSE, gateway |-> "10.1.0.1"],
                [default |-> TRUE, gateway |-> "10.0.0.1"]>>

ToHost == [cloud |-> "none", discover |-> FALSE, host |-> "ide", headers |-> << >>,
           routes |-> SomeRoutes,
           nameservers |-> <<[private |-> FALSE, address |-> "8.8.8.8"]>>]

SomeSettings == {
    ToHost,
    [ToHost EXCEPT !.cloud = "setting"],
    [ToHost EXCEPT !.host = "unix"],
    [ToHost EXCEPT !.host = "gateway"],
    [ToHost EXCEPT !.host = "nameserver"],
    [ToHost EXCEPT !.discover = TRUE, !.headers = << << >>, <<"browser", "proxy">> >>],
    [ToHost EXCEPT !.discover = TRUE, !.host = "unix", !.headers = << <<"browser">> >>],
    [ToHost EXCEPT !.discover = TRUE, !.headers = << <<Uri>>, <<"proxy">> >>]}

-----------------------------------------------------------------------------
(* The start decision: the settings with each place of a trigger.          *)

Just(name, word) == [n \in {name} |-> word]
WithoutSpaces(word) == IF word = " k2 " THEN "k2" ELSE word

WaitsForTrigger == [mode |-> "trigger", secrets |-> {}, ideKey |-> "", env |-> Nothing,
                    envTracked |-> FALSE, cli |-> FALSE, onDemand |-> FALSE, control |-> FALSE]

SomeStarts ==
    {[WaitsForTrigger EXCEPT !.mode = m, !.secrets = s, !.env = e, !.ideKey = k, !.cli = c,
                             !.onDemand = o] :
        m \in {"yes", "no", "trigger"}, s \in {{}, {"k1", "k2"}},
        e \in {Nothing, Just("XDEBUG_CONFIG", "x"), Just("PHP_DEBUGGER_SESSION_START", "k4")},
        k \in {"", "me"}, c \in BOOLEAN, o \in BOOLEAN}
    \cup {[WaitsForTrigger EXCEPT !.env = Just("XDEBUG_SESSION_START", "k4"),
                                  !.envTracked = TRUE, !.control = TRUE, !.cli = c] :
             c \in BOOLEAN}

Sent(get, post) == [GET |-> get, POST |-> post]

SomeRequests == {
    Sent(Nothing, Nothing),
    Sent(Just("XDEBUG_SESSION_START", "k1"), Nothing),
    Sent(Just("XDEBUG_SESSION_START", ""), Nothing),
    Sent(Nothing, Just("PHP_DEBUGGER_SESSION_START", "k3")),
    Sent(Just("PHP_DEBUGGER_TRIGGER", " k2 "), Just("XDEBUG_SESSION_STOP", "")),
    Sent(Just("PHP_DEBUGGER_SESSION_STOP", ""), Nothing),
    Sent(Just("XDEBUG_SESSION_STOP_NO_EXEC", ""), Nothing),
    Sent(Just("XDEBUG_IGNORE", "1"), Just("XDEBUG_SESSION_START", "k1")),
    Sent(Just("PHP_DEBUGGER_IGNORE", "no"), Nothing)}

-----------------------------------------------------------------------------
(* Variable export: an array with odd keys, an object with every kind of    *)
(* property, and both inside of each other.                                 *)

Scalar(id) == [kind |-> "scalar", id |-> id]
ArrayOf(items) == [kind |-> "array", items |-> items]
ObjectOf(class, items) == [kind |-> "object", class |-> class, items |-> items]
Text(key, v) == [key |-> key, number |-> FALSE, value |-> v]
Number(key, v) == [key |-> key, number |-> TRUE, value |-> v]

Member(key, modifier, of, v) ==
    [key |-> key, modifier |-> modifier, of |-> of, static |-> FALSE, value |-> v]
Shared(key, modifier, of, v) ==
    [key |-> key, modifier |-> modifier, of |-> of, static |-> TRUE, value |-> v]

OddKeys == ArrayOf(<<
    Text(<<"a", "\"">>, Scalar("1")), Text(<<"\\", "a">>, Scalar("2")),
    Text(<<"]">>, Scalar("3")), Text(<<NullByte>>, Scalar("4")),
    Number(<<"1">>, Scalar("5")), Number(<<"-", "5">>, Scalar("6")),
    Text(<<"-", "5", "x">>, Scalar("7")), Text(<<"\\">>, Scalar("8")),
    Text(<<NullByte, "1">>, Scalar("9")), Text(<<"'", "a">>, Scalar("10")),
    Text(<< >>, Scalar("11"))>>)

Dynamic == ObjectOf("D", <<
    Member(<<"a", "-", ">", "b">>, "public", "D", ArrayOf(<<Number(<<"0">>, Scalar("20"))>>)),
    Member(<< >>, "public", "D", Scalar("21"))>>)

EveryKind == ObjectOf("C", <<
    Shared(<<"s">>, "public", "C", Scalar("1")), Shared(<<"t">>, "private", "B", Scalar("2")),
    Member(<<"p">>, "public", "C", OddKeys), Member(<<"q">>, "protected", "C", Scalar("3")),
    Member(<<"r">>, "private", "C", Scalar("4")), Member(<<"r">>, "private", "B", Dynamic),
    Member(<<"a", "[", "\"", "]">>, "public", "C", Scalar("6")),
    Member(<<"a", ":", "b">>, "public", "C", Scalar("7")),
    Member(<<">", "b">>, "public", "C", Scalar("8")),
    Member(<<"a", "-", ":", "b">>, "public", "C", Scalar("9")),
    Member(<<"1">>, "public", "C", Scalar("10"))>>)

NothingSpecial == [returned |-> Undefined, included |-> FALSE, between |-> Undefined,
                   raised |-> Undefined]

InFunction == [
    variables |-> <<[key |-> <<"a">>, value |-> OddKeys],
                    [key |-> <<"b">>,
                     value |-> ArrayOf(<<Number(<<"0">>, EveryKind),
                                         Number(<<"1">>, ArrayOf(<< >>))>>)]>>,
    statics |-> << >>, class |-> "",
    top |-> TRUE, scope |-> [class |-> "", statics |-> << >>], special |-> NothingSpecial]

InStaticMethod == [
    variables |-> <<[key |-> <<"a">>, value |-> EveryKind]>>,
    statics |-> <<Shared(<<"s">>, "public", "C", EveryKind),
                  Shared(<<"t">>, "private", "B", Scalar("22"))>>,
    class |-> "C", top |-> TRUE,
    scope |-> [class |-> "C",
               statics |-> <<Shared(<<"s">>, "public", "C", EveryKind),
                             Shared(<<"t">>, "private", "B", Scalar("22"))>>],
    special |-> NothingSpecial]

\* A static method that has called a method of another class, or a function.
CalledOther == [InStaticMethod EXCEPT !.top = FALSE, !.variables = << >>,
    !.scope = [class |-> "D", statics |-> <<Shared(<<"s">>, "public", "D", Dynamic)>>]]
CalledFunction == [CalledOther EXCEPT !.scope = [class |-> "", statics |-> << >>]]

\* A return with variables whose names begin that of the return value, or nearly; the
\* caller; and an exception that is thrown in an expression.
Returning(shown) == [InFunction EXCEPT
    !.variables = <<[key |-> <<"_">>, value |-> Dynamic],
                    [key |-> <<"_", "a">>, value |-> Dynamic]>>,
    !.special.returned = OddKeys, !.special.included = shown]
Throwing == [Returning(FALSE) EXCEPT !.special.returned = Undefined,
    !.special.raised = EveryKind, !.special.between = Dynamic]

\* A script before its first variable.
InScript == [InFunction EXCEPT !.variables = << >>]

SomeTrees == {InScript, InFunction, InStaticMethod, CalledOther, CalledFunction,
              Returning(TRUE), Returning(FALSE), [Returning(TRUE) EXCEPT !.top = FALSE],
              Throwing, [Throwing EXCEPT !.special.returned = Dynamic]}

WithItems == {OddKeys, Dynamic, EveryKind} \cup {v.value : v \in ToSet(InFunction.variables)}
                 \cup {item.value : item \in ToSet(Dynamic.items)}
SomeShown == WithItems \cup UNION {{item.value : item \in ToSet(Items(v))} : v \in WithItems}
                 \cup {item.value : item \in ToSet(InStaticMethod.statics)}
SomeKeyCharacters == {"a", "b", "p", "q", "r", "s", "t", "x", "_", "R", "E",
                      "0", "1", "5",
                      "'", "\"", "\\", "[", "]", "-", ">", ":", NullByte}

-----------------------------------------------------------------------------
(* Data commands: a function with a variable that the script has as well.  *)

SomeLocals == [fun \in {"main", "f"} |-> IF fun = "main" THEN {"x", "_"} ELSE {"x"}]

-----------------------------------------------------------------------------
(* The control socket: it is the same which peer is which.                 *)

PeerSymmetry == Permutations(Peers)

-----------------------------------------------------------------------------
(* One of the parts.                                                       *)

Parts == {"maps", "parser", "loop", "connecting", "start", "export", "data", "socket"}

PartsInit ==
    /\ part \in Parts
    /\ MapsInit /\ (part # "maps" => mapsTodo = <<HomeDir>>)
    /\ ParserInit /\ LoopInit
    /\ ConnectingInit /\ (part # "connecting" => setting = ToHost)
    /\ StartInit /\ (part # "start" => conf = WaitsForTrigger)
    /\ ExportInit /\ (part # "export" => tree = InScript)
    /\ DataInit
    /\ SocketInit /\ (part # "socket" => ~processes["parent"].observer)

PartsNext ==
    \/ /\ part = "maps" /\ MapsNext
       /\ UNCHANGED <<part, parserVars, loopVars, connectingVars, startVars, exportVars,
                      dataVars, socketVars>>
    \/ /\ part = "parser" /\ ParserNext
       /\ UNCHANGED <<part, mapsVars, loopVars, connectingVars, startVars, exportVars,
                      dataVars, socketVars>>
    \/ /\ part = "loop" /\ LoopNext
       /\ UNCHANGED <<part, mapsVars, parserVars, connectingVars, startVars, exportVars,
                      dataVars, socketVars>>
    \/ /\ part = "connecting" /\ ConnectingNext
       /\ UNCHANGED <<part, mapsVars, parserVars, loopVars, startVars, exportVars,
                      dataVars, socketVars>>
    \/ /\ part = "start" /\ StartNext
       /\ UNCHANGED <<part, mapsVars, parserVars, loopVars, connectingVars, exportVars,
                      dataVars, socketVars>>
    \/ /\ part = "export" /\ ExportNext
       /\ UNCHANGED <<part, mapsVars, parserVars, loopVars, connectingVars, startVars,
                      dataVars, socketVars>>
    \/ /\ part = "data" /\ DataNext
       /\ UNCHANGED <<part, mapsVars, parserVars, loopVars, connectingVars, startVars,
                      exportVars, socketVars>>
    \/ /\ part = "socket" /\ SocketNext
       /\ UNCHANGED <<part, mapsVars, parserVars, loopVars, connectingVars, startVars,
                      exportVars, dataVars>>

PartsSpec == PartsInit /\ [][PartsNext]_<<part, mapsVars, parserVars, loopVars, connectingVars,
                                          startVars, exportVars,
                                          dataVars, socketVars>>
=============================================================================
