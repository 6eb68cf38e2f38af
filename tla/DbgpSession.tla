------------------------------ MODULE DbgpSession ------------------------------
(***************************************************************************)
(* The life of one PHP process under the debugger: when a debugging        *)
(* session is started, where the engine hands control to the client, what  *)
(* each client command changes, and when the instrumentation that makes    *)
(* breakpoints fire is switched on and off again.                          *)
(*                                                                         *)
(* The process is sequential C code.  `at` is the place it has reached:    *)
(* "php" while the engine runs PHP code (or waits for a request), the name *)
(* of a caller of xdebug_dbgp_cmdloop() while that loop reads commands,    *)
(* and a few names for the rest of a handler after such a loop returned.   *)
(* What the script, the engine, the network and the client do next is      *)
(* nondeterministic.                                                       *)
(***************************************************************************)
EXTENDS Naturals, Sequences, FiniteSets

CONSTANTS
    Confs,      \* the configurations to consider, a subset of ConfSpace
    MaxDepth,   \* bound: nested PHP calls
    MaxFrames,  \* bound: frames on the debugger's stack, stale ones included
    MaxKinds    \* bound: kinds of breakpoints set at the same time

\* The ini settings, and the SAPI, that the session logic reads.
ConfSpace ==
    [sapi : {"request", "worker"},          \* one request, or a FrankenPHP worker
     start : {"yes", "trigger", "no"},      \* xdebug.start_with_request
     onDemand : BOOLEAN,                    \* xdebug.on_demand_debugging_enabled
     uponError : BOOLEAN,                   \* xdebug.start_upon_error
     ctrl : BOOLEAN,                        \* the control socket is being served
     cloud : BOOLEAN]                       \* xdebug.cloud_id is set

ASSUME ConfsAssumption == Confs \subseteq ConfSpace
ASSUME BoundsAssumption == MaxDepth \in Nat \ {0} /\ MaxFrames \in Nat /\ MaxKinds \in Nat

VARIABLES
    conf, trig,                             \* settings, kind of request
    phase, at,                              \* of the request, and of the C code
    socket, enabled, owner, early,          \* the connection
    detached, bps,                          \* the DBGp session
    doConnect, doBreak, pending, stepping,  \* what the next statement must do
    observer, stmt, hooks,                  \* the instrumentation
    calls, stack, cached                    \* real PHP calls, the debugger's frames

env   == <<conf, trig>>
conn  == <<socket, enabled, owner, early>>
sess  == <<detached, bps>>
flags == <<doConnect, doBreak, pending, stepping>>
instr == <<observer, stmt, hooks>>
exec  == <<calls, stack, cached>>
vars  == <<env, phase, at, conn, sess, flags, instr, exec>>

Kinds == {"line", "call", "return", "exception"}

\* The callers of the command loop: a session being started, a stop, and the
\* end of the session.  After says where the C code goes on from there.
Inits == {"initStartup", "initConnect", "initRetry", "initError", "initBreak", "initFork"}
Stops == {"stopStatement", "stopCall", "stopReturn", "stopValue", "stopError"}
Loops == Inits \cup Stops \cup {"deinit"}
After == [initStartup |-> "enter", initConnect |-> "retry", initRetry |-> "check",
          initError |-> "checkError", initBreak |-> "signal", initFork |-> "php",
          stopStatement |-> "php", stopCall |-> "php", stopReturn |-> "value",
          stopValue |-> "leave", stopError |-> "php", deinit |-> "ended"]
Rest == {"enter", "retry", "check", "checkError", "signal", "forked", "value", "leave", "ended"}

Worker == conf.sapi = "worker"
User == Len(calls) > 0 /\ calls[Len(calls)].user      \* the running function is PHP code

\* The request asks for a debugging session (the trigger, a session cookie,
\* or start_with_request=yes), and does not carry XDEBUG_IGNORE.
RequestedBy(t) ==
    conf.start # "no" /\ t # "ignore" /\ (conf.start = "yes" \/ t = "start")
Requested == RequestedBy(trig)

EnvOK   == conf \in Confs /\ trig \in {"none", "start", "ignore"}
PlaceOK == /\ phase \in {"idle", "parked", "run", "bail", "shutdown", "over"}
           /\ at \in {"php"} \cup Loops \cup Rest
ConnOK  == /\ socket \in {"none", "open"} /\ enabled \in BOOLEAN
           /\ owner \in {"none", "self", "parent"} /\ early \in BOOLEAN
SessOK  == detached \in BOOLEAN /\ bps \subseteq Kinds
FlagsOK == /\ doConnect \in BOOLEAN /\ doBreak \in BOOLEAN
           /\ pending \in {"none", "call"} /\ stepping \in {"none", "into", "over", "out"}
InstrOK == observer \in BOOLEAN /\ stmt \in BOOLEAN /\ hooks \in BOOLEAN
ExecOK  == /\ calls \in Seq([handled : BOOLEAN, user : BOOLEAN]) /\ Len(calls) <= MaxDepth
           /\ stack \in Seq(Nat) /\ cached \subseteq BOOLEAN
\* The flags of the session, the switches and the stack that the handlers leave have
\* their types, and the stack of the engine its bound.
TypeOK  == EnvOK /\ PlaceOK /\ ConnOK /\ SessOK /\ FlagsOK /\ InstrOK /\ ExecOK

Init ==
    /\ conf \in Confs /\ trig = "none"
    /\ phase = "idle" /\ at = "php"
    /\ socket = "none" /\ enabled = FALSE /\ owner = "none" /\ early = FALSE
    /\ detached = FALSE /\ bps = {}
    /\ doConnect = FALSE /\ doBreak = FALSE /\ pending = "none" /\ stepping = "none"
    /\ observer = FALSE /\ stmt = FALSE /\ hooks = FALSE
    /\ calls = << >> /\ stack = << >> /\ cached = {}

-----------------------------------------------------------------------------
(* The connection.                                                         *)

\* xdebug_mark_debug_connection_not_active()
MarkNotActive ==
    /\ socket' = (IF enabled THEN "none" ELSE socket)
    /\ enabled' = FALSE /\ owner' = "none"
    /\ UNCHANGED early

\* xdebug_init_debugger(): connect, unless an early connection was attempted
\* in this process, in which case the socket is taken as it is.  With a
\* connection, go through xdebug_dbgp_init(), whose command loop is `loop`;
\* otherwise go on at `otherwise`.  Whether a client answers is its business.
InitDebugger(current, loop, otherwise) ==
    /\ \E answered \in (IF early THEN {current = "open"} ELSE BOOLEAN) :
        IF answered
        THEN /\ socket' = "open" /\ enabled' = TRUE /\ owner' = "self"
             /\ observer' = TRUE /\ at' = loop
             /\ UNCHANGED <<stmt, hooks>>
        ELSE /\ socket' = "none" /\ enabled' = FALSE /\ owner' = "none"
             /\ stmt' = (stmt /\ ~conf.onDemand) /\ at' = otherwise
             /\ UNCHANGED <<observer, hooks>>
    /\ bps' = {} /\ UNCHANGED <<early, detached>>

-----------------------------------------------------------------------------
(* The client's commands.  Each is one round of xdebug_dbgp_cmdloop(); a    *)
(* command with a non-zero result also ends the loop.                       *)

\* The end of the loop: instrumentation nothing needs any more is switched
\* off, `stop` unwinds the script (or the shutdown functions), anything else
\* goes on where the loop was called.  After `detach` the breakpoint lists have
\* been freed, and the test of their sizes reads whatever is there.
KeepsObserverNever(off) == ~off                \* mutant: on-demand is forgotten
KeepsObserver(off) == off => conf.onDemand

LeaveLoop(looksEmpty, stop) ==
    \E empty \in looksEmpty :
        LET off  == /\ empty /\ ~doConnect /\ ~doBreak /\ stepping' = "none"
                    /\ ~conf.uponError
            bail == stop /\ at # "deinit"
        IN /\ observer' = (observer /\ KeepsObserver(off))
           /\ stmt' = (IF at \in Inits /\ conf.onDemand /\ ~bail THEN enabled'
                                                                 ELSE stmt /\ ~off)
           /\ at' = (IF bail THEN "php" ELSE After[at])
           /\ phase' = (IF ~bail THEN phase ELSE IF phase = "run" THEN "bail" ELSE "over")
           /\ calls' = (IF bail /\ phase # "run" THEN << >> ELSE calls)
           /\ UNCHANGED <<hooks, stack, cached>>

\* run, and step_into, step_over and step_out, each of which replaces the
\* step before it.
Continue(step) ==
    /\ at \in Loops
    /\ stepping' = (IF step = "none" THEN stepping ELSE step)
    /\ UNCHANGED <<env, conn, sess, doConnect, doBreak, pending>>
    /\ LeaveLoop({bps = {}}, FALSE)

StopCommand ==
    /\ at \in Loops
    /\ UNCHANGED <<env, conn, sess, flags>>
    /\ LeaveLoop({bps = {}}, TRUE)

\* detach ends the session from inside its own loop, and frees the lists the
\* end of the loop looks at.
Detach ==
    /\ at \in Loops
    /\ detached' = TRUE /\ bps' = {}
    /\ MarkNotActive
    /\ UNCHANGED <<env, flags>>
    /\ LeaveLoop(BOOLEAN, FALSE)

\* A command that does not exist (error 4), or that is not available once the
\* script has ended (error 5), also ends the loop.
RefusedCommand ==
    /\ at \in Loops
    /\ UNCHANGED <<env, conn, sess, flags>>
    /\ LeaveLoop({bps = {}}, FALSE)

ConfigureAnything ==                           \* mutant: a `watch` breakpoint is accepted
    /\ at \in Loops \ {"deinit"}
    /\ bps' = bps \cup {"watch"}
    /\ UNCHANGED <<env, phase, at, conn, detached, flags, instr, exec>>

\* breakpoint_set and breakpoint_remove answer, and the loop goes on; bps is
\* the set of the kinds of which there is a breakpoint.
Configure ==
    /\ at \in Loops \ {"deinit"}
    /\ \/ \E k \in Kinds \ bps : Cardinality(bps) < MaxKinds /\ bps' = bps \cup {k}
       \/ \E k \in bps : bps' = bps \ {k}
    /\ UNCHANGED <<env, phase, at, conn, detached, flags, instr, exec>>

\* The read fails: the IDE has gone.
ConnectionLost ==
    /\ at \in Loops
    /\ MarkNotActive
    /\ stmt' = (stmt /\ ~(at \in Inits /\ conf.onDemand))
    /\ at' = After[at] /\ bps' = {}
    /\ UNCHANGED <<env, phase, detached, flags, observer, hooks, exec>>

\* A notification or copied output cannot be sent while the script runs.
SendFails ==
    /\ at = "php" /\ enabled
    /\ MarkNotActive
    /\ bps' = {}
    /\ UNCHANGED <<env, phase, at, detached, flags, instr, exec>>

-----------------------------------------------------------------------------
(* PHP code runs: calls, statements, returns, errors.                       *)

Running == at = "php" /\ phase \in {"run", "shutdown"}

FirstFrameAfterDetach(user) ==                 \* mutant: `detached` is not looked at
    user /\ stack = << >> /\ phase = "run" /\ ~enabled /\ Requested

\* The first frame of a request starts the session that was asked for.
FirstFrame(user) ==
    user /\ stack = << >> /\ phase = "run" /\ ~detached /\ ~enabled /\ Requested

\* xdebug_observer_init() decides once per function whether its calls are
\* observed; xdebug_execute_begin() does nothing when the observer is off.
Call(user) ==
    /\ Running /\ Len(calls) < MaxDepth /\ Len(stack) < MaxFrames /\ (calls = << >> => user)
    /\ \E h \in cached \cup {observer \/ Worker} :
        /\ cached' = cached \cup {h}
        /\ calls' = Append(calls, [handled |-> h, user |-> user])
        /\ IF ~(h /\ observer) THEN UNCHANGED <<at, conn, sess, instr>>
           ELSE IF FirstFrame(user)
                THEN InitDebugger(socket, "initStartup", "enter")
                ELSE at' = "enter" /\ UNCHANGED <<conn, sess, instr>>
    /\ UNCHANGED <<env, phase, flags, stack>>

\* The rest of xdebug_execute_user_code_begin() and
\* xdebug_execute_internal_begin(): no frame and no observer when the session
\* did not start; otherwise the new frame, and the call breakpoints.
Enter ==
    /\ at = "enter"
    /\ IF User /\ stack = << >> /\ phase = "run" /\ ~enabled /\ ~conf.onDemand
       THEN /\ observer' = FALSE /\ at' = "php"
            /\ UNCHANGED <<stmt, hooks, stack, doBreak, pending>>
       ELSE /\ stack' = Append(stack, Len(calls) - 1)
            /\ UNCHANGED instr
            /\ \/ at' = "php" /\ UNCHANGED <<doBreak, pending>>
               \/ /\ enabled /\ "call" \in bps /\ User
                  /\ doBreak' = TRUE /\ pending' = "call" /\ at' = "php"
               \/ /\ enabled /\ "call" \in bps /\ ~User
                  /\ at' = "stopCall"
                  /\ UNCHANGED <<doBreak, pending>>
    /\ UNCHANGED <<env, phase, conn, sess, doConnect, stepping, calls, cached>>

\* The statement handler is called where code was compiled with EXT_STMT.
\* A connection that was signalled is attempted first.
Statement ==
    /\ Running /\ User /\ stmt /\ (hooks \/ Worker)
    /\ doConnect' = FALSE
    /\ IF ~doConnect
       THEN at' = "check" /\ UNCHANGED <<conn, sess, instr>>
       ELSE IF trig = "ignore" \/ enabled
       THEN at' = "retry" /\ UNCHANGED <<conn, sess, instr>>
       ELSE InitDebugger(socket, "initConnect", "retry")
    /\ UNCHANGED <<env, phase, doBreak, pending, stepping, exec>>

RetryForever ==                                \* mutant: the second attempt is not the last
    /\ at = "retry"
    /\ IF enabled \/ conf.start # "trigger"
       THEN at' = "check" /\ UNCHANGED <<conn, sess, instr>>
       ELSE InitDebugger(socket, "initConnect", "check")
    /\ UNCHANGED <<env, phase, flags, exec>>

\* ... and, in trigger mode, once more if that left no session.
Retry ==
    /\ at = "retry"
    /\ IF enabled \/ conf.start # "trigger"
       THEN at' = "check" /\ UNCHANGED <<conn, sess, instr>>
       ELSE InitDebugger(socket, "initRetry", "check")
    /\ UNCHANGED <<env, phase, flags, exec>>

\* Which stop the statement makes: a signalled break, then the step, then the
\* line breakpoints.  Locations that are mapped to "skip", and an implicit
\* return, make none.  Whether a step over or out is due at this depth is
\* left open here.
CheckStatement ==
    /\ at = "check"
    /\ \/ at' = "php" /\ UNCHANGED flags
       \/ /\ enabled /\ stack # << >>
          /\ \/ /\ doBreak
                /\ doBreak' = FALSE /\ pending' = "none" /\ UNCHANGED stepping
             \/ /\ ~doBreak /\ stepping # "none"
                /\ stepping' = "none" /\ UNCHANGED <<doBreak, pending>>
             \/ /\ ~doBreak /\ stepping # "into" /\ "line" \in bps
                /\ UNCHANGED <<doBreak, pending, stepping>>
          /\ at' = "stopStatement" /\ UNCHANGED doConnect
    /\ UNCHANGED <<env, phase, conn, sess, instr, exec>>

\* A call ends.  xdebug_frame_belongs_to_call() compares the caller stamped on
\* the last frame with the caller of the call that ends; callers are named by
\* their depth.
Return ==
    /\ at = "php" /\ phase \in {"run", "bail", "shutdown"} /\ calls # << >>
    /\ IF calls[Len(calls)].handled /\ observer
          /\ stack # << >> /\ stack[Len(stack)] = Len(calls) - 1
       THEN /\ \/ at' = "value"
               \/ enabled /\ "return" \in bps /\ at' = "stopReturn"
            /\ UNCHANGED calls
       ELSE /\ calls' = SubSeq(calls, 1, Len(calls) - 1)
            /\ UNCHANGED at
    /\ UNCHANGED <<env, phase, conn, sess, flags, instr, stack, cached>>

PopFrame ==
    /\ calls' = SubSeq(calls, 1, Len(calls) - 1)
    /\ stack' = SubSeq(stack, 1, Len(stack) - 1)

\* The rest of the end handlers: a step that is due at the return itself, when
\* the client asked to see return values (which is left open here); then the
\* frame is popped.
ReturnValue ==
    /\ at = "value"
    /\ \/ at' = "php" /\ PopFrame /\ UNCHANGED stepping
       \/ /\ enabled /\ phase # "bail" /\ stepping \in {"into", "out"}
          /\ stepping' = "none"
          /\ at' = "stopValue"
          /\ UNCHANGED <<calls, stack>>
    /\ UNCHANGED <<env, phase, conn, sess, doConnect, doBreak, pending, instr, cached>>

Leave ==
    /\ at = "leave" /\ at' = "php"
    /\ PopFrame
    /\ UNCHANGED <<env, phase, conn, sess, flags, instr, cached>>

\* xdebug_debugger_error_cb() and xdebug_debugger_throw_exception_hook().
Error ==
    /\ at = "php" /\ phase \in {"run", "bail", "shutdown"} /\ hooks
    /\ IF conf.uponError /\ ~enabled
       THEN InitDebugger(socket, "initError", "checkError")
       ELSE at' = "checkError" /\ UNCHANGED <<conn, sess, instr>>
    /\ UNCHANGED <<env, phase, flags, exec>>

CheckError ==
    /\ at = "checkError"
    /\ \/ at' = "php"
       \/ enabled /\ "exception" \in bps /\ at' = "stopError"
    /\ UNCHANGED <<env, phase, conn, sess, flags, instr, exec>>

-----------------------------------------------------------------------------
(* What the script, the control socket and the engine do to the session.    *)

\* xdebug_rebuild_stack(), without the frame of the function that asked for
\* it.  In a worker the frames of the worker script lie below the request's.
Rebuilt ==
    IF observer THEN stack
    ELSE (IF Worker THEN <<MaxDepth>> ELSE << >>) \o [i \in 1..Len(calls) |-> i - 1]

\* xdebug_break().  With neither a session nor on-demand debugging it only
\* raises a notice.
XdebugBreak ==
    /\ Running /\ User /\ (enabled \/ conf.onDemand)
    /\ stack' = Rebuilt
    /\ IF enabled \/ conf.start # "trigger"
       THEN at' = "signal" /\ UNCHANGED <<conn, sess, instr>>
       ELSE InitDebugger(socket, "initBreak", "signal")
    /\ UNCHANGED <<env, phase, flags, calls, cached>>

SignalOnly ==                                  \* mutant: the handlers stay switched off
    /\ at = "signal" /\ at' = "php"
    /\ IF enabled
       THEN doBreak' = TRUE /\ pending' = "none"
       ELSE UNCHANGED <<doBreak, pending>>
    /\ UNCHANGED <<env, phase, conn, sess, doConnect, stepping, instr, exec>>

Signal ==
    /\ at = "signal" /\ at' = "php"
    /\ IF enabled
       THEN /\ doBreak' = TRUE /\ pending' = "none" /\ stmt' = TRUE /\ observer' = TRUE
       ELSE UNCHANGED <<doBreak, pending, stmt, observer>>
    /\ UNCHANGED <<env, phase, conn, sess, doConnect, stepping, hooks, exec>>

\* xdebug_connect_to_client()
ConnectToClient ==
    /\ Running /\ User /\ conf.onDemand
    /\ doConnect' = TRUE /\ stack' = Rebuilt
    /\ stmt' = TRUE /\ observer' = TRUE
    /\ UNCHANGED <<env, phase, at, conn, sess, doBreak, pending, stepping, hooks, calls, cached>>

\* The `pause` command on the control socket, which instrumented statements
\* and calls poll.
Pause ==
    /\ Running /\ User /\ conf.ctrl /\ hooks
    /\ doConnect' = (doConnect \/ ~enabled)
    /\ doBreak' = (doBreak \/ enabled)
    /\ stack' = Rebuilt
    /\ stmt' = TRUE /\ observer' = TRUE
    /\ UNCHANGED <<env, phase, at, conn, sess, pending, stepping, hooks, calls, cached>>

\* pcntl_fork(), followed into the child; then, in the overloaded function, a
\* connection that belongs to the parent is given up and a new one is made.
Fork ==
    /\ Running /\ User
    /\ owner' = (IF owner = "none" THEN "none" ELSE "parent")
    /\ at' = "forked"
    /\ UNCHANGED <<env, phase, socket, enabled, early, sess, flags, instr, exec>>

ForkedTogether ==                              \* mutant: the child goes on with the socket
    /\ at = "forked" /\ at' = "php"
    /\ UNCHANGED <<env, phase, conn, sess, flags, instr, exec>>

Forked ==
    /\ at = "forked"
    /\ IF enabled /\ owner # "self"
       THEN InitDebugger("none", "initFork", "php")
       ELSE at' = "php" /\ UNCHANGED <<conn, sess, instr>>
    /\ UNCHANGED <<env, phase, flags, exec>>

\* A fatal error unwinds the script, as `stop` does; the engine then ends the
\* calls that are still open.
Fatal ==
    /\ at = "php" /\ phase = "run"
    /\ phase' = "bail"
    /\ UNCHANGED <<env, at, conn, sess, flags, instr, exec>>

\* The script, or the worker's loop, is over; shutdown functions run.
EndOfScript ==
    /\ at = "php" /\ calls = << >>
    /\ phase \in {"bail", IF Worker THEN "parked" ELSE "run"}
    /\ phase' = "shutdown"
    /\ UNCHANGED <<env, at, conn, sess, flags, instr, exec>>

-----------------------------------------------------------------------------
(* Requests.                                                               *)

\* RINIT.  The client is tried before the script is compiled, and what it
\* finds decides whether the request is instrumented at all.  A worker runs
\* RINIT once, for its own script, which carries no trigger.
RequestStart(t) ==
    /\ phase = "idle" /\ at = "php" /\ (Worker => t = "none")
    /\ trig' = t
    /\ phase' = (IF Worker THEN "parked" ELSE "run")
    /\ \E answered \in BOOLEAN :
       LET wanted    == RequestedBy(t)
           connected == wanted /\ (conf.cloud \/ answered)
           used      == connected \/ conf.onDemand \/ conf.ctrl
       IN /\ socket' = (IF connected /\ ~conf.cloud THEN "open" ELSE "none")
          /\ early' = (early \/ wanted)
          /\ observer' = used
          /\ stmt' = (connected \/ ~used)
          /\ hooks' = (hooks \/ used)
    /\ enabled' = FALSE /\ owner' = "none" /\ detached' = FALSE
    /\ doConnect' = FALSE /\ doBreak' = FALSE /\ pending' = "none" /\ stepping' = "none"
    /\ calls' = << >> /\ stack' = << >> /\ cached' = {}
    /\ UNCHANGED <<conf, at, bps>>

\* sapi_activate: the next request of a worker.
WorkerActivate(t) ==
    /\ phase = "parked" /\ at = "php"
    /\ trig' = t
    /\ phase' = "run"
    /\ detached' = FALSE
    /\ doBreak' = FALSE /\ stepping' = "none"
    /\ LET armed == conf.start = "yes" \/ t # "none"
       IN doConnect' = armed /\ observer' = armed
    /\ UNCHANGED <<conf, at, conn, bps, pending, stmt, hooks, exec>>

\* post_deactivate, and sapi_deactivate of a worker: a live session is told
\* that the script is stopping, and may ask about it.
RequestEnd ==
    /\ at = "php" /\ calls = << >>
    /\ phase \in {"shutdown", "over"} \/ (Worker /\ phase = "run")
    /\ at' = (IF enabled THEN "deinit" ELSE "ended")
    /\ UNCHANGED <<env, phase, conn, sess, flags, instr, exec>>

EndedWithSession ==                            \* mutant: the connection is not closed
    /\ at = "ended" /\ at' = "php"
    /\ phase' = (IF phase = "run" THEN "parked" ELSE "idle")
    /\ bps' = {}
    /\ stack' = (IF phase = "run" THEN stack ELSE << >>)
    /\ UNCHANGED <<env, conn, detached, flags, instr, calls, cached>>

\* The rest of xdebug_dbgp_deinit(), which frees the lists of a live session.
Ended ==
    /\ at = "ended" /\ at' = "php"
    /\ phase' = (IF phase = "run" THEN "parked" ELSE "idle")
    /\ bps' = {}
    /\ MarkNotActive
    /\ stack' = (IF phase = "run" THEN stack ELSE << >>)
    /\ UNCHANGED <<env, detached, flags, instr, calls, cached>>

-----------------------------------------------------------------------------
Client ==
    \/ \E step \in {"none", "into", "over", "out"} : Continue(step)
    \/ StopCommand \/ Detach \/ RefusedCommand \/ Configure

Script ==
    \/ \E user \in BOOLEAN : Call(user)
    \/ Statement \/ Return \/ Error \/ XdebugBreak \/ ConnectToClient \/ Fork \/ Fatal

Handlers ==
    \/ Enter \/ Retry \/ CheckStatement \/ ReturnValue \/ Leave \/ CheckError
    \/ Signal \/ Forked \/ Ended

Engine ==
    \/ \E t \in {"none", "start", "ignore"} : RequestStart(t) \/ WorkerActivate(t)
    \/ EndOfScript \/ RequestEnd

Next == Client \/ Script \/ Handlers \/ Engine \/ Pause \/ ConnectionLost \/ SendFails

Spec == Init /\ [][Next]_vars

\* The C code goes on by itself, and a client that is shown a prompt sooner or
\* later lets the script continue, or goes away: the loop has no time-out.
Fairness ==
    /\ WF_vars(Handlers)
    /\ WF_vars((\E step \in {"none", "into", "over", "out"} : Continue(step))
               \/ StopCommand \/ Detach \/ RefusedCommand \/ ConnectionLost)

FairSpec == Spec /\ Fairness

-----------------------------------------------------------------------------
(* Safety.                                                                 *)

\* The command loop reads from a connection that is open and that this process
\* made: a forked child never talks on its parent's connection, and the script
\* never runs under a session whose socket was closed.
LoopOwnsConnection ==
    /\ at \in Loops => enabled
    /\ enabled /\ at # "forked" => socket = "open" /\ owner = "self"

\* Something the client waits for: a signalled break, a step or a breakpoint.
Awaited == doBreak \/ stepping # "none" \/ bps # {}

\* While a session waits for something, the running script is instrumented:
\* the switch-off at the end of the command loop, the on-demand switch at the
\* end of xdebug_init_debugger() and the observer's own switch-off never blind
\* a session that can still stop.  This is not so for the sessions of a
\* FrankenPHP worker and for those started through the control socket, which
\* can find the statement handler switched off by the session before them.
SessionSeesScript ==
    /\ enabled /\ Awaited /\ at = "php" /\ phase = "run"
    /\ ~Worker /\ ~conf.ctrl
    => stmt /\ observer

\* A worker's request that carries the trigger arms the connect-on-next-statement
\* flag, and the statement handler is there to pick it up.
ArmedIsPickedUp == Worker /\ phase = "run" /\ doConnect => stmt

\* Each request, of a worker too, begins and ends without a session.
NoSessionBetweenRequests == phase \in {"idle", "parked"} /\ at = "php" => ~enabled

\* The frames of the calls that are open now.
OpenFrames == [i \in 1..Len(calls) |-> i - 1]

\* What the client sees as the stack at a statement is the stack of calls that
\* are really open: no frame is missing, and none is left behind by a call
\* that ended unobserved.
FramesMirrorCalls == at = "stopStatement" => stack = OpenFrames

\* With on-demand debugging the observer is never switched off, and the frames
\* are exact from the first call on, whatever stops, detaches and forks occur.
OnDemandFramesMirrorCalls ==
    conf.onDemand /\ ~Worker /\ phase = "run" => FramesMirrorCalls

\* A connection that was signalled, by xdebug_connect_to_client(), by `pause`
\* or by a worker's trigger, is one the next statement can really make: it does
\* not take for an open connection what an earlier attempt left behind.
SignalCanConnect == doConnect /\ ~enabled => ~early \/ socket = "open"

\* A request that carries XDEBUG_IGNORE gets no session at start-up, nor at a
\* signalled connection.
IgnoreRespected == trig = "ignore" => at \notin {"initStartup", "initConnect", "initRetry"}

-----------------------------------------------------------------------------
(* What must happen.                                                        *)

\* A prompt leads back to the script: the loops that can follow one another
\* (a second attempt to connect, the stop of the same statement, the stop at a
\* return value) form no cycle.
PromptLeadsBack == at \in Loops ~> at = "php"
=============================================================================
