------------------------------ MODULE DataCommands ------------------------------
(***************************************************************************)
(* The commands that look into the stopped script: stack_get, context_get,  *)
(* property_get, property_value, property_set, source and the features.     *)
(* They find a frame's variables through global pointers, and override      *)
(* settings for as long as they run.  To show a value may run PHP code (a   *)
(* property hook, __get(), __debugInfo(), a stream wrapper) which can stop  *)
(* as well, so that a client gives commands in the middle of a command.     *)
(***************************************************************************)
EXTENDS Integers, Sequences, FiniteSets, SequencesExt, FiniteSetsExt

CONSTANTS
    Locals,         \* the variables of a function, by function; "main" is the script's
    Asked,          \* the names that a client asks for
    BeginReturn,    \* the names that "__RETURN_VALUE" begins with, as "_"
    BeginException, \* those that "__EXCEPTION" begins with
    DataSizes,      \* values for max_data
    MaxCalls,       \* bound on the calls that the script makes
    MaxNested       \* bound on commands within commands; the innermost runs no code

\* A call is [id, fun].  Its identity is where it is in the engine's memory, which a call
\* that is over leaves to the next one.  A place <<id, name>> is a variable of that call;
\* those of "main" are the global ones.  The value that a call returns and the exception
\* that is thrown have a place as well.

NoCall  == 0
Nowhere == <<NoCall, "nowhere">>

ReturnValue    == "__RETURN_VALUE"
ExceptionValue == "__EXCEPTION"
Exception      == <<NoCall, ExceptionValue>>

VARIABLES
    active,         \* the engine's calls, oldest first; EG(current_execute_data) is the last
    recorded,       \* XG_BASE(stack): [id, caller] of the calls that have a frame
    control,        \* who runs: "script", "prompt" (the client's turn), "command"
    pending,        \* the commands that were begun, innermost last
    activeData,     \* xdebug_lib_get_active_data(), as the identity of a call
    activeTable,    \* xdebug_lib_get_active_symbol_table() is that of the globals
    maxData,        \* options->max_data
    inhibited,      \* inhibit_notifications
    allowed,        \* breakpoints_allowed
    returned,       \* current_return_value: the call that returns it at this stop, or none
    thrown,         \* EG(exception), if the client set virtual_exception_value
    included,       \* breakpoint_include_return_value
    wanted,         \* what the client set max_data to
    lastLocal,      \* the last command that set the pointers to a frame: "property", or
                    \* "context" or none
    answered        \* the last command that was answered

dataVars == <<active, recorded, control, pending, activeData, activeTable, maxData, inhibited,
              allowed, returned, thrown, included, wanted, lastLocal, answered>>

\* The script is a function among the others, and none has variables without end.
ASSUME LocalsAssumption ==
    "main" \in DOMAIN Locals /\ \A fun \in DOMAIN Locals : IsFiniteSet(Locals[fun])

Functions == DOMAIN Locals
Main      == 1

\* The commands with -m.
Sized == {"property_get", "property_value"}

\* A command: the frame that was asked for, the names that it is to look up and has yet to,
\* the places it has shown; "disturbed" when others were given in the middle of it.
Command(cmd, context, frame, names) ==
    [cmd |-> cmd, context |-> context, frame |-> frame, names |-> ToSet(names), todo |-> names,
     places |-> {},
     oldMax |-> IF cmd \in Sized THEN maxData ELSE 0, disturbed |-> FALSE,
     height |-> Len(active)]

NoAnswer == [cmd |-> "none", context |-> 0, frame |-> NoCall, names |-> {}, todo |-> << >>,
             places |-> {}, oldMax |-> 0, disturbed |-> FALSE, height |-> 0]

DataInit ==
    /\ active = <<[id |-> Main, fun |-> "main"]>>
    /\ recorded = <<[id |-> Main, caller |-> NoCall]>>
    /\ control = "script" /\ pending = << >>
    /\ activeData = NoCall /\ activeTable = FALSE
    /\ maxData = Min(DataSizes) /\ wanted = Min(DataSizes)
    /\ inhibited = FALSE /\ allowed = TRUE
    /\ returned = NoCall /\ thrown = FALSE /\ included = FALSE
    /\ lastLocal = "context" /\ answered = NoAnswer

Pointers == <<activeData, activeTable>>
Switches == <<maxData, inhibited, allowed>>
Values   == <<returned, thrown, included>>
Ghosts   == <<wanted, lastLocal>>

Current  == Last(active).id
Hidden   == Len(recorded) < Len(active)
NextCall == LET Ids == {active[k].id : k \in DOMAIN active} IN Max(Ids) + 1

-----------------------------------------------------------------------------
(* The script.                                                             *)

Enter(fun, hasFrame) ==
    /\ NextCall <= MaxCalls
    /\ active' = Append(active, [id |-> NextCall, fun |-> fun])
    /\ recorded' = IF hasFrame THEN Append(recorded, [id |-> NextCall, caller |-> Current])
                   ELSE recorded

Call ==
    /\ control = "script"
    /\ \E fun \in Functions \ {"main"} : Enter(fun, TRUE)
    /\ UNCHANGED <<control, pending, Pointers, Switches, Values, Ghosts, answered>>

\* A call returns; when it was made by a command then the command goes on.
Return ==
    /\ control = "script" /\ Len(active) > 1
    /\ recorded' = IF Last(recorded).id = Current THEN Front(recorded) ELSE recorded
    /\ active' = Front(active)
    /\ control' = IF pending # << >> /\ Last(pending).height = Len(active) - 1
                  THEN "command" ELSE "script"
    /\ UNCHANGED <<pending, Pointers, Switches, Values, Ghosts, answered>>

\* A statement at which the script stops, even when breakpoints are not allowed; or else an
\* exception that is thrown, or a call that returns, which then has a frame.
StopScript ==
    /\ control = "script" /\ control' = "prompt"
    /\ \/ returned' = NoCall /\ thrown' = FALSE
       \/ allowed /\ returned' = NoCall /\ thrown' = TRUE
       \/ allowed /\ Last(recorded).id = Current /\ returned' = Current /\ thrown' = FALSE
    /\ UNCHANGED <<active, recorded, pending, Pointers, Switches, included, Ghosts, answered>>

\* The loop of commands ends, and with it what this stop had to show; that of an outer stop
\* is not there again.
Resume ==
    /\ control = "prompt" /\ control' = "script" /\ answered' = NoAnswer
    /\ returned' = NoCall /\ thrown' = FALSE
    /\ UNCHANGED <<active, recorded, pending, Pointers, Switches, included, Ghosts>>

-----------------------------------------------------------------------------
(* Frames and variables.                                                   *)

\* xdebug_get_stack_frame()
Frame(depth) == recorded[Len(recorded) - depth]

FrameDataOwn(depth) ==                         \* mutant: the frame's own execute_data
    IF depth > 0 THEN Frame(depth).caller ELSE Current

\* The execute_data of a frame is that of its caller, hence that of the frame before.
FrameData(depth) == IF depth > 0 THEN Frame(depth - 1).caller ELSE Current

\* fse->symbol_table, which only the script has.
FrameTable(depth) == Frame(depth).id = Main

\* The function of a call; one that is over could be any.
FunctionsOf(id) ==
    LET live == {c \in ToSet(active) : c.id = id}
    IN IF live # {} THEN {c.fun : c \in live} ELSE Functions

\* A name that stands for one of the special values, as far as it goes.
AsReturned(name) == name = ReturnValue \/ name \in BeginReturn
AsThrown(name)   == name = ExceptionValue \/ name \in BeginException

\* The root of a name in fetch_zval_from_symbol_table(): first the special values, then the
\* compiled variables of the active call, then the active symbol table.
Lookups(name) ==
    LET InTable == IF activeTable /\ name \in Locals["main"] THEN <<Main, name>> ELSE Nowhere
    IN IF returned # NoCall /\ AsReturned(name) THEN {<<returned, ReturnValue>>}
       ELSE IF thrown /\ AsThrown(name) THEN {Exception}
       ELSE IF activeData = NoCall THEN {InTable}
       ELSE {IF name \in Locals[fun] THEN <<activeData, name>> ELSE InTable :
                fun \in FunctionsOf(activeData)}

-----------------------------------------------------------------------------
(* Commands.                                                               *)

\* The commands that leave the pointers alone; "return_value" is a context_get that shows
\* nothing else.
Aside == {"source", "return_value"}

\* What is below the new command was disturbed by it, if it uses the pointers.
Started(command) ==
    Append([k \in DOMAIN pending |->
               [pending[k] EXCEPT !.disturbed = @ \/ command.cmd \notin Aside]], command)

\* -c 0 and a depth: the three pointers to the frame (that to the stack entry is only
\* used for static properties).
SetFrame(depth) ==
    /\ activeData' = FrameData(depth)
    /\ activeTable' = FrameTable(depth)

SetGlobals == activeTable' = TRUE /\ UNCHANGED activeData

BeginCommand(command) ==
    /\ control = "prompt" /\ Len(pending) < MaxNested
    /\ control' = "command" /\ pending' = Started(command) /\ answered' = NoAnswer
    /\ UNCHANGED <<active, recorded, Values, wanted>>

\* property_get, with -d and -c, and with -m or not.
GetProperty ==
    /\ \E name \in Asked :
          \/ \E depth \in 0..(Len(recorded) - 1) :
                /\ BeginCommand(Command("property_get", 0, Frame(depth).id, <<name>>))
                /\ SetFrame(depth) /\ lastLocal' = "property"
          \/ /\ BeginCommand(Command("property_get", 1, Main, <<name>>))
             /\ SetGlobals /\ UNCHANGED lastLocal
    /\ maxData' \in DataSizes \cup {maxData}
    /\ inhibited' = TRUE /\ UNCHANGED allowed

\* property_value: the same, without notifications being inhibited; and a negative size is
\* an error, which is found when the pointers are set.
GetPropertyValue ==
    \E name \in Asked :
        /\ \/ \E depth \in 0..(Len(recorded) - 1) :
                 /\ BeginCommand(Command("property_value", 0, Frame(depth).id, <<name>>))
                 /\ SetFrame(depth) /\ lastLocal' = "property"
           \/ /\ BeginCommand(Command("property_value", 1, Main, <<name>>))
              /\ SetGlobals /\ UNCHANGED lastLocal
        /\ maxData' \in DataSizes \cup {maxData}
        /\ UNCHANGED <<inhibited, allowed>>

\* attach_context_vars() begins: the globals without an active call; or a frame's variables,
\* and at depth 0 the exception before them.
GetContext ==
    /\ \/ /\ BeginCommand(Command("context_get", 1, Main, SetToSeq(Locals["main"])))
          /\ activeTable' = TRUE /\ activeData' = NoCall
          /\ UNCHANGED lastLocal
       \/ \E depth \in 0..(Len(recorded) - 1) :
             \E fun \in FunctionsOf(Frame(depth).id) :
                /\ ~(depth = 0 /\ included /\ returned # NoCall)
                /\ BeginCommand([Command("context_get", 0, Frame(depth).id, SetToSeq(Locals[fun]))
                                    EXCEPT !.places = IF depth = 0 /\ thrown THEN {Exception}
                                                      ELSE {}])
                /\ SetFrame(depth) /\ lastLocal' = "context"
    /\ UNCHANGED Switches

\* At depth 0 the return value is all that is shown, if the client has asked for it; and the
\* pointers stay as the last command left them.
GetReturnValue ==
    /\ included /\ returned # NoCall
    /\ BeginCommand(Command("return_value", 0, Frame(0).id, <<ReturnValue>>))
    /\ UNCHANGED <<Pointers, Switches, lastLocal>>

\* source, of a file that a stream wrapper of the script may provide.
Source ==
    /\ BeginCommand(Command("source", 0, NoCall, << >>))
    /\ allowed' = FALSE
    /\ UNCHANGED <<Pointers, maxData, inhibited, lastLocal>>

\* The next name is looked up and shown; to show it may run code, which has a frame
\* unless it is called from a statement.  The engine runs none while an exception is thrown.
LookUp(runsCode) ==
    /\ control = "command" /\ Last(pending).todo # << >>
    /\ \E place \in Lookups(Head(Last(pending).todo)) :
          pending' = [pending EXCEPT ![Len(pending)].todo = Tail(@),
                                     ![Len(pending)].places = @ \cup {place},
                                     ![Len(pending)].height = Len(active)]
    /\ \/ ~runsCode /\ UNCHANGED <<active, recorded, control>>
       \/ /\ runsCode /\ ~thrown /\ Len(pending) < MaxNested /\ control' = "script"
          /\ \E fun \in Functions \ {"main"}, hasFrame \in BOOLEAN : Enter(fun, hasFrame)
    /\ UNCHANGED <<Pointers, Switches, Values, Ghosts, answered>>

ShowValue  == LookUp(FALSE)
RunsAccess == LookUp(TRUE)

\* The stream wrapper runs.
RunsWrapper ==
    /\ control = "command" /\ Last(pending).cmd = "source" /\ Len(pending) < MaxNested
    /\ control' = "script" /\ ~thrown
    /\ \E fun \in Functions \ {"main"}, hasFrame \in BOOLEAN : Enter(fun, hasFrame)
    /\ UNCHANGED <<pending, Pointers, Switches, Values, Ghosts, answered>>

RestoreLeaky(command) ==                        \* mutant: not when there is no such property
    /\ inhibited' = IF command.cmd = "property_get" THEN FALSE ELSE inhibited
    /\ maxData' = IF command.cmd \in Sized
                     /\ Nowhere \notin command.places THEN command.oldMax ELSE maxData
    /\ allowed' = IF command.cmd = "source" THEN TRUE ELSE allowed

\* What a command restores, whether it found what it was asked for or not.
Restore(command) ==
    /\ inhibited' = IF command.cmd = "property_get" THEN FALSE ELSE inhibited
    /\ maxData' = IF command.cmd \in Sized THEN command.oldMax
                  ELSE maxData
    /\ allowed' = IF command.cmd = "source" THEN TRUE ELSE allowed

EndCommand ==
    /\ control = "command" /\ Last(pending).todo = << >>
    /\ Restore(Last(pending))
    /\ answered' = [Last(pending) EXCEPT !.oldMax = 0, !.height = 0]
    /\ pending' = Front(pending) /\ control' = "prompt"
    /\ IF Last(pending).cmd = "context_get"
       THEN activeTable' = FALSE /\ activeData' = NoCall
       ELSE UNCHANGED Pointers
    /\ UNCHANGED <<active, recorded, Values, Ghosts>>

\* property_set evaluates an assignment, with the call of the frame as the engine's; the
\* engine then stops nowhere.  Without a call, it is evaluated for the globals.
PropertySet ==
    /\ control = "prompt"
    /\ \E depth \in 0..(Len(recorded) - 1), name \in Locals["main"], local \in BOOLEAN :
          /\ IF local THEN SetFrame(depth) ELSE SetGlobals
          /\ lastLocal' = IF local THEN "property" ELSE lastLocal
          /\ LET scope == IF depth > 0 THEN activeData' ELSE Current
             IN answered' = [NoAnswer EXCEPT
                   !.cmd = "property_set", !.context = IF local THEN 0 ELSE 1,
                   !.frame = IF local THEN Frame(depth).id ELSE Main,
                   !.places = {<<IF scope = NoCall THEN Main ELSE scope, name>>}]
    /\ pending' = [k \in DOMAIN pending |-> [pending[k] EXCEPT !.disturbed = TRUE]]
    /\ inhibited' = FALSE /\ allowed' = TRUE
    /\ UNCHANGED <<active, recorded, control, maxData, Values, wanted>>

\* eval, in the current call.
Eval ==
    /\ control = "prompt" /\ inhibited' = FALSE /\ allowed' = TRUE
    /\ UNCHANGED <<active, recorded, control, pending, Pointers, maxData, Values, Ghosts, answered>>

\* stack_get: each frame with the position at which its call is.
StackGet ==
    /\ control = "prompt"
    /\ answered' = [NoAnswer EXCEPT !.cmd = "stack_get",
          !.places = {<<Frame(depth).id, FrameData(depth)>> : depth \in 0..(Len(recorded) - 1)}]
    /\ UNCHANGED <<active, recorded, control, pending, Pointers, Switches, Values, Ghosts>>

\* feature_set; in the middle of property_get or property_value the size lasts until that is
\* answered.
FeatureSet ==
    /\ control = "prompt"
    /\ \/ /\ maxData' \in DataSizes /\ UNCHANGED included
          /\ wanted' = IF \E k \in DOMAIN pending : pending[k].cmd \in Sized THEN wanted
                       ELSE maxData'
       \/ included' \in BOOLEAN /\ UNCHANGED <<maxData, wanted>>
    /\ UNCHANGED <<active, recorded, control, pending, Pointers, inhibited, allowed, returned,
                   thrown, lastLocal, answered>>

DataNext ==
    \/ Call \/ Return \/ StopScript \/ Resume
    \/ GetProperty \/ GetPropertyValue \/ GetContext \/ GetReturnValue \/ Source
    \/ ShowValue \/ RunsAccess \/ RunsWrapper \/ EndCommand
    \/ PropertySet \/ Eval \/ StackGet \/ FeatureSet

DataSpec == DataInit /\ [][DataNext]_dataVars

-----------------------------------------------------------------------------
(* Properties.                                                             *)

\* What a name may be shown as instead of a variable: a value of the call that is stopped.
SpecialPlaces(name) ==
    (IF AsReturned(name) THEN {<<Current, ReturnValue>>} ELSE {})
        \cup (IF AsThrown(name) THEN {Exception} ELSE {})

\* A client that asks for a frame's variables is shown, or changes, those of the frame that
\* stack_get shows at that depth; and the globals when it asks for these, at least with
\* context_get, and with property_get when context_get was the last command for a frame's
\* variables and has ended.  Only a name that begins that of a special value may be shown
\* as that value, which is that of the call that is stopped; and a context_get that shows
\* the return value shows that of the frame it was asked for.  This is so while every call
\* has a frame, and for a command in whose middle no others were given.
AnsweredFromFrame ==
    control = "prompt" /\ ~Hidden /\ ~answered.disturbed =>
        /\ answered.cmd = "stack_get" =>
              answered.places = {<<active[k].id, active[k].id>> : k \in DOMAIN active}
        /\ answered.cmd = "context_get" =>
              \A fun \in FunctionsOf(answered.frame) :
                 /\ \A name \in Locals[fun] :
                       \E place \in {<<answered.frame, name>>} \cup SpecialPlaces(name) :
                          place \in answered.places
                 /\ \A place \in answered.places :
                       \/ place = Exception
                       \/ \E name \in Locals[fun] :
                             place \in {<<answered.frame, name>>} \cup SpecialPlaces(name)
        /\ answered.cmd = "return_value" =>
              answered.places = {<<answered.frame, ReturnValue>>}
        /\ answered.cmd \in Sized
              /\ (answered.context = 0 \/ (lastLocal # "property" /\ pending = << >>)) =>
              \A name \in answered.names : \A place \in answered.places :
                 place \in {<<answered.frame, name>>, Nowhere} \cup SpecialPlaces(name)
        /\ answered.cmd = "property_set" /\ answered.context = 0 =>
              \A place \in answered.places : place[1] = answered.frame

\* When the client has its turn and no command is half done, what a command overrode has
\* come back, even if it found nothing and whatever was asked in the middle of it: max_data
\* is what was set with feature_set, notifications are sent, and breakpoints allowed.
SettingsComeBack ==
    control = "prompt" /\ pending = << >> =>
        maxData = wanted /\ ~inhibited /\ allowed
=============================================================================
