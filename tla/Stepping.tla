------------------------------- MODULE Stepping -------------------------------
(***************************************************************************)
(* The step commands of a DBGp session: what step_into, step_over and       *)
(* step_out remember of the place where the client gave them, and at which  *)
(* statements and returns they stop, over calls, callbacks and fibers.      *)
(*                                                                         *)
(* Every fiber has a stack of frames of its own.  A frame's level is its    *)
(* position, and its number counts the frames pushed so far.  `at` names    *)
(* the place the C code has reached, as in DbgpSession.                     *)
(***************************************************************************)
EXTENDS Integers, Sequences

CONSTANTS
    Fibers,         \* the fibers a script may create
    Main,           \* its main program
    ReturnValues,   \* the feature breakpoint_include_return_value
    MaxLevel,       \* bound: frames on one stack
    MaxFrames       \* bound: frames pushed

ASSUME FibersAssumption ==
    Main \notin Fibers /\ "none" \notin Fibers \cup {Main} /\ ReturnValues \in BOOLEAN
\* A frame's level is a field of 15 bits.
ASSUME BoundsAssumption == MaxLevel \in 1..(32767) /\ MaxFrames \in Nat

Threads == Fibers \cup {Main}

VARIABLES
    at,             \* the place in the C code
    stacks,         \* fiber -> its frames, [nr, user]
    current,        \* the fiber that runs: XG_BASE(stack) is its stack
    resumer,        \* fiber -> the one that resumed it; itself: not running
    ended,          \* the fibers that have run to their end
    count,          \* function_count
    step,           \* do_step, do_next, do_finish and what goes with them
    suppressed,     \* suppress_return_value_step
    why, origin     \* why the script stopped, and where the last step was given

script == <<stacks, current, resumer, ended, count>>
vars   == <<at, script, step, suppressed, why, origin>>

Stack == stacks[current]
Level == Len(Stack)
Top   == Stack[Level]

Loops == {"init", "stop", "stopReturn", "stopValue"}

None == [kind |-> "none", level |-> 0, nr |-> 0, stack |-> Main]

Numbers == -1..MaxFrames

\* A step is of a kind that was asked for, with a level a stack can have, and every fiber
\* that runs or ended is one that the script has.
TypeOK ==
    /\ at \in {"php", "value", "leave"} \cup Loops
    /\ stacks \in [Threads -> Seq([nr : Numbers \ {-1}, user : BOOLEAN])]
    /\ current \in Threads /\ resumer \in [Threads -> Threads] /\ ended \subseteq Fibers
    /\ count \in Numbers
    /\ step \in [kind : {"none", "into", "over", "out"}, level : -1..MaxLevel,
                 nr : Numbers, stack : Threads \cup {"none"}]
    /\ suppressed \in BOOLEAN
    /\ why \in {"none", "break", "into", "over", "out"}
    /\ origin \in [fiber : Threads, level : 0..MaxLevel, nr : Numbers]

\* A session starts, and shows its first prompt, before the first frame.
Init ==
    /\ at = "init"
    /\ stacks = [f \in Threads |-> << >>] /\ current = Main
    /\ resumer = [f \in Threads |-> f] /\ ended = {}
    /\ count = -1
    /\ step = None /\ suppressed = FALSE
    /\ why = "none" /\ origin = [fiber |-> Main, level |-> 0, nr |-> 0]

-----------------------------------------------------------------------------
(* The commands.                                                           *)

\* Where the command loop returns to.
After == [init |-> "php", stop |-> "php", stopReturn |-> "value", stopValue |-> "leave"]

Continue(s) ==
    /\ at \in Loops /\ at' = After[at]
    /\ step' = s /\ why' = "none"
    /\ origin' = (IF s = step THEN origin
                  ELSE [fiber |-> current, level |-> Level,
                        nr |-> IF Level = 0 THEN -1 ELSE Top.nr])
    /\ UNCHANGED <<script, suppressed>>

\* run leaves a step that has not been finished as it is.
Run == Continue(step)

StepInto == Continue([None EXCEPT !.kind = "into"])

\* next_stack is NULL ("none") when there is no frame.
StepOver ==
    Continue([None EXCEPT !.kind = "over", !.level = Level,
                          !.stack = IF Level = 0 THEN "none" ELSE current])

StepOut ==
    Continue([None EXCEPT !.kind = "out",
                          !.level = IF Level = 0 THEN -1 ELSE Level,
                          !.nr = IF Level = 0 THEN -1 ELSE Top.nr])

-----------------------------------------------------------------------------
(* When a step is due.                                                     *)

NextConditionOnAnyStack ==                      \* mutant: the stack is not compared
    step.level >= Level

\* next_condition_met()
NextCondition == step.stack \in {"none", current} /\ step.level >= Level

FinishConditionOnAnyReturn(atReturn) ==         \* mutant: as before bug #2098 was fixed
    atReturn \/ Level < step.level

\* finish_condition_met()
FinishCondition(atReturn) ==
    \/ Level < step.level
    \/ atReturn /\ Level = step.level
    \/ Level = step.level /\ Top.nr > step.nr

StepDue ==
    \/ step.kind = "into"
    \/ step.kind = "over" /\ NextCondition
    \/ step.kind = "out" /\ FinishCondition(FALSE)

-----------------------------------------------------------------------------
(* The script.                                                             *)

\* A break that was signalled comes first and leaves the step for later; then
\* the step; then the line breakpoints.
Statement ==
    /\ at = "php" /\ Level > 0 /\ Top.user
    /\ suppressed' = FALSE
    /\ \/ at' = "stop" /\ why' = "break" /\ UNCHANGED step
       \/ StepDue /\ at' = "stop" /\ why' = step.kind /\ step' = None
       \/ ~StepDue /\ UNCHANGED <<at, why, step>>
    /\ UNCHANGED <<script, origin>>

\* xdebug_add_stack_frame(), for a function of the script or of PHP; only the
\* latter can have a breakpoint that stops at once.
Call(user) ==
    /\ at = "php" /\ Level < MaxLevel /\ count < MaxFrames /\ (Level = 0 => user)
    /\ count' = count + 1
    /\ stacks' = [stacks EXCEPT ![current] = Append(@, [nr |-> count', user |-> user])]
    /\ \/ UNCHANGED <<at, why>>
       \/ ~user /\ at' = "stop" /\ why' = "break"
    /\ UNCHANGED <<current, resumer, ended, step, suppressed, origin>>

\* A call ends: the breakpoint on its return.  The frame of a fiber itself, its
\* first, ends with the fiber.
Return ==
    /\ at = "php" /\ Level > (IF current = Main THEN 0 ELSE 1)
    /\ \/ at' = "value" /\ UNCHANGED why
       \/ at' = "stopReturn" /\ why' = "break"
    /\ UNCHANGED <<script, step, suppressed, origin>>

\* ... then the step, if the client wants to see return values and the function
\* has one.
ReturnValue ==
    /\ at = "value"
    /\ \/ /\ ReturnValues /\ ~suppressed
          /\ step.kind = "into" \/ (step.kind = "out" /\ FinishCondition(TRUE))
          /\ at' = "stopValue" /\ why' = step.kind /\ step' = None
       \/ at' = "leave" /\ UNCHANGED <<why, step>>
    /\ UNCHANGED <<script, suppressed, origin>>

Leave ==
    /\ at = "leave" /\ at' = "php"
    /\ stacks' = [stacks EXCEPT ![current] = SubSeq(@, 1, Level - 1)]
    /\ UNCHANGED <<current, resumer, ended, count, step, suppressed, why, origin>>

\* An exception: returns on the way to its catch do not end a step.
Throw ==
    /\ at = "php" /\ Level > 0
    /\ suppressed' = TRUE
    /\ \/ UNCHANGED <<at, why>>
       \/ at' = "stop" /\ why' = "break"
    /\ UNCHANGED <<script, step, origin>>

-----------------------------------------------------------------------------
(* Fibers, which methods of PHP's switch to: xdebug_fiber_switch_observer(). *)

InMethod == at = "php" /\ Level > 0 /\ ~Top.user

\* start() and resume(): a fiber that starts gets a stack with its own frame.
Resume(f) ==
    /\ InMethod /\ f \notin ended /\ f # current /\ resumer[f] = f
    /\ current' = f
    /\ resumer' = [resumer EXCEPT ![f] = current]
    /\ stacks' = (IF stacks[f] # << >> THEN stacks
                  ELSE [stacks EXCEPT ![f] = <<[nr |-> 0, user |-> FALSE]>>])
    /\ UNCHANGED <<at, ended, count, step, suppressed, why, origin>>

Suspend ==
    /\ InMethod /\ current # Main /\ Level > 1
    /\ current' = resumer[current]
    /\ resumer' = [resumer EXCEPT ![current] = current]
    /\ UNCHANGED <<at, stacks, ended, count, step, suppressed, why, origin>>

EndFiberOfMain ==                               \* mutant: the main program's, too
    /\ at = "php" /\ Level = 1
    /\ current' = resumer[current]
    /\ ended' = ended \cup {current}
    /\ stacks' = [stacks EXCEPT ![current] = << >>]
    /\ step' = (IF step.stack = current THEN [step EXCEPT !.stack = "none"] ELSE step)
    /\ UNCHANGED <<at, resumer, count, suppressed, why, origin>>

EndFiberOnly ==                                 \* mutant: next_stack keeps pointing to it
    /\ at = "php" /\ current # Main /\ Level = 1
    /\ current' = resumer[current]
    /\ ended' = ended \cup {current}
    /\ stacks' = [stacks EXCEPT ![current] = << >>]
    /\ UNCHANGED <<at, resumer, count, step, suppressed, why, origin>>

\* A fiber that has come to its end takes its stack with it; a step over that
\* was to stop on this stack may then stop on any.
EndFiber ==
    /\ at = "php" /\ current # Main /\ Level = 1
    /\ current' = resumer[current]
    /\ ended' = ended \cup {current}
    /\ stacks' = [stacks EXCEPT ![current] = << >>]
    /\ step' = (IF step.stack = current THEN [step EXCEPT !.stack = "none"] ELSE step)
    /\ UNCHANGED <<at, resumer, count, suppressed, why, origin>>

-----------------------------------------------------------------------------
Client == Run \/ StepInto \/ StepOver \/ StepOut

Script ==
    \/ Statement \/ Return \/ ReturnValue \/ Leave \/ Throw
    \/ \E user \in BOOLEAN : Call(user)
    \/ \E f \in Fibers : Resume(f)
    \/ Suspend \/ EndFiber

Next == Client \/ Script

Spec == Init /\ [][Next]_vars

-----------------------------------------------------------------------------
(* Properties.                                                             *)

\* The frame in which the last step was given is still on its stack.
OriginIsOpen ==
    /\ origin.level \in 1..Len(stacks[origin.fiber])
    /\ stacks[origin.fiber][origin.level].nr = origin.nr
OriginIsTop == current = origin.fiber /\ Level = origin.level

\* step_over stops in the function where it was given, or after that function
\* has returned: never in one that it called, in a recursion of it, or in
\* another fiber while it is suspended.
StepOverSkipsCallees == why = "over" => (OriginIsOpen => OriginIsTop)

\* A step over does not wait for the stack of a fiber that has ended, which
\* never runs again and whose memory may become another fiber's stack.
StepOverCanEnd == step.kind = "over" => step.stack \notin ended

\* step_out stops when the function where it was given has returned, or at its
\* return: never before, nor at the return of a function it calls.  It does so in
\* the fiber where it was given: levels are compared across their stacks.
StepOutSkipsCallees ==
    why = "out" /\ current = origin.fiber
    => (OriginIsOpen => OriginIsTop /\ at = "stopValue")
=============================================================================
