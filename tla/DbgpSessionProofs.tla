--------------------------- MODULE DbgpSessionProofs ---------------------------
(* What holds of DbgpSession for every set of configurations and every bound. *)
EXTENDS SessionHistory, SequenceTheorems, TLAPS

-----------------------------------------------------------------------------
(* Type correctness.                                                       *)

\* Where the code goes on after a loop is a place, not a loop and not a fork;
\* only three of the callers go on inside a call's handlers.
LEMMA AfterType ==
    /\ \A l \in Loops : After[l] \in {"php"} \cup Rest
    /\ \A l \in Loops : After[l] \notin Loops \cup {"forked"}
    /\ After["initStartup"] = "enter" /\ After["stopReturn"] = "value"
    /\ After["stopValue"] = "leave"
    /\ \A l \in Loops \ {"initStartup", "stopReturn", "stopValue"} :
          After[l] \notin {"enter", "value", "leave"}
BY DEF Loops, Inits, Stops, Rest, After

LEMMA TypeInit == Init => TypeOK
<1> SUFFICES ASSUME Init PROVE TypeOK
    OBVIOUS
<1> USE DEF Init
<1>1. EnvOK /\ PlaceOK
  BY DEF EnvOK, PlaceOK
<1>2. ConnOK /\ SessOK /\ FlagsOK /\ InstrOK
  BY DEF ConnOK, SessOK, FlagsOK, InstrOK
<1>3. ExecOK
  BY BoundsAssumption DEF ExecOK
<1> QED
  BY <1>1, <1>2, <1>3 DEF TypeOK

\* Whoever calls xdebug_init_debugger() changes the connection and the
\* instrumentation within their types, and goes on at one of two places.
LEMMA InitDebuggerType ==
    ASSUME NEW current, NEW loop, NEW otherwise, TypeOK, InitDebugger(current, loop, otherwise)
    PROVE  ConnOK' /\ SessOK' /\ InstrOK' /\ at' \in {loop, otherwise}
<1>1. PICK answered \in BOOLEAN :
        IF answered
        THEN /\ socket' = "open" /\ enabled' = TRUE /\ owner' = "self"
             /\ observer' = TRUE /\ at' = loop
             /\ UNCHANGED <<stmt, hooks>>
        ELSE /\ socket' = "none" /\ enabled' = FALSE /\ owner' = "none"
             /\ stmt' = (stmt /\ ~conf.onDemand) /\ at' = otherwise
             /\ UNCHANGED <<observer, hooks>>
  BY DEF InitDebugger
<1>2. bps' = {} /\ UNCHANGED <<early, detached>>
  BY DEF InitDebugger
<1> QED
  BY <1>1, <1>2 DEF TypeOK, ConnOK, SessOK, InstrOK

\* So does the end of the command loop.
LEMMA LeaveLoopType ==
    ASSUME NEW looksEmpty, NEW stop, TypeOK, at \in Loops, enabled' \in BOOLEAN,
           LeaveLoop(looksEmpty, stop)
    PROVE  PlaceOK' /\ InstrOK' /\ ExecOK'
<1>1. at' \in {"php", After[at]} /\ phase' \in {phase, "bail", "over"}
  BY DEF LeaveLoop
<1>2. PlaceOK'
  BY <1>1, AfterType DEF TypeOK, PlaceOK
<1>3. InstrOK'
  BY DEF LeaveLoop, TypeOK, InstrOK
<1>4. calls' \in {calls, << >>} /\ UNCHANGED <<stack, cached>>
  BY DEF LeaveLoop
<1>5. ExecOK'
  <2>1. CASE UNCHANGED calls
    BY <1>4, <2>1 DEF TypeOK, ExecOK
  <2>2. CASE calls' = << >>
    BY <1>4, <2>2, BoundsAssumption DEF TypeOK, ExecOK
  <2> QED
    BY <1>4, <2>1, <2>2
<1> QED
  BY <1>2, <1>3, <1>5

\* The two stacks stay sequences of their kind when an element is pushed or
\* popped.
LEMMA PushPop ==
    ASSUME NEW S, NEW s \in Seq(S)
    PROVE  /\ \A x \in S : Append(s, x) \in Seq(S) /\ Len(Append(s, x)) = Len(s) + 1
           /\ SubSeq(s, 1, Len(s) - 1) \in Seq(S)
           /\ Len(SubSeq(s, 1, Len(s) - 1)) = IF s = << >> THEN 0 ELSE Len(s) - 1
<1>1. \A x \in S : Append(s, x) \in Seq(S) /\ Len(Append(s, x)) = Len(s) + 1
  BY AppendProperties
<1>2. Len(s) \in Nat /\ \A i \in 1..(Len(s) - 1) : s[i] \in S
  BY LenProperties, ElementOfSeq
<1>3. /\ SubSeq(s, 1, Len(s) - 1) \in Seq(S)
      /\ Len(SubSeq(s, 1, Len(s) - 1)) = IF 1 <= Len(s) - 1 THEN Len(s) - 1 ELSE 0
  BY <1>2, SubSeqProperties
<1>4. s # << >> => Len(s) > 0
  BY EmptySeq
<1> QED
  BY <1>1, <1>2, <1>3, <1>4, EmptySeq

\* A call that ends leaves the calls below it.
LEMMA CallEnds ==
    ASSUME TypeOK, calls' = SubSeq(calls, 1, Len(calls) - 1)
    PROVE  calls' \in Seq([handled : BOOLEAN, user : BOOLEAN]) /\ Len(calls') <= MaxDepth
<1> DEFINE C == [handled : BOOLEAN, user : BOOLEAN]
<1>1. calls \in Seq(C) /\ Len(calls) \in Nat /\ Len(calls) <= MaxDepth
  BY DEF TypeOK, ExecOK
<1>2. /\ calls' \in Seq(C)
      /\ Len(calls') = IF calls = << >> THEN 0 ELSE Len(calls) - 1
  BY <1>1, PushPop
<1> QED
  BY <1>1, <1>2, BoundsAssumption

LEMMA RebuiltType == TypeOK => Rebuilt \in Seq(Nat)
<1> SUFFICES ASSUME TypeOK PROVE Rebuilt \in Seq(Nat)
    OBVIOUS
<1> DEFINE open == [i \in 1..Len(calls) |-> i - 1]
<1>1. Len(calls) \in Nat
  BY DEF TypeOK, ExecOK
<1>2. open \in Seq(Nat)
  BY <1>1
<1>3. <<MaxDepth>> \in Seq(Nat) /\ << >> \in Seq(Nat)
  BY BoundsAssumption
<1>4. <<MaxDepth>> \o open \in Seq(Nat) /\ << >> \o open \in Seq(Nat)
  BY <1>2, <1>3
<1> QED
  BY <1>4 DEF Rebuilt, TypeOK, ExecOK

\* The rest of a call's begin and end handlers runs while the call is open:
\* without this the frame pushed for it would name a caller below the first.
CallIsOpen ==
    at \in {"initStartup", "enter", "stopReturn", "value", "stopValue", "leave"}
    => calls # << >>

LEMMA TypeStep == TypeOK /\ CallIsOpen /\ [Next]_vars => TypeOK'
<1> SUFFICES ASSUME TypeOK, CallIsOpen, [Next]_vars PROVE TypeOK'
    OBVIOUS
<1> USE DEF env, conn, sess, flags, instr, exec
<1>1. ASSUME NEW step \in {"none", "into", "over", "out"}, Continue(step) PROVE TypeOK'
  <2>1. PlaceOK' /\ InstrOK' /\ ExecOK'
    BY <1>1, LeaveLoopType DEF Continue, TypeOK, ConnOK
  <2>2. EnvOK' /\ ConnOK' /\ SessOK' /\ FlagsOK'
    BY <1>1 DEF Continue, TypeOK, EnvOK, ConnOK, SessOK, FlagsOK
  <2> QED
    BY <2>1, <2>2 DEF TypeOK
<1>2. CASE StopCommand
  <2>1. PlaceOK' /\ InstrOK' /\ ExecOK'
    BY <1>2, LeaveLoopType DEF StopCommand, TypeOK, ConnOK
  <2>2. EnvOK' /\ ConnOK' /\ SessOK' /\ FlagsOK'
    BY <1>2 DEF StopCommand, TypeOK, EnvOK, ConnOK, SessOK, FlagsOK
  <2> QED
    BY <2>1, <2>2 DEF TypeOK
<1>3. CASE Detach
  <2>1. ConnOK'
    BY <1>3 DEF Detach, MarkNotActive, TypeOK, ConnOK
  <2>2. PlaceOK' /\ InstrOK' /\ ExecOK'
    BY <1>3, <2>1, LeaveLoopType DEF Detach, ConnOK
  <2>3. EnvOK' /\ SessOK' /\ FlagsOK'
    BY <1>3 DEF Detach, TypeOK, EnvOK, SessOK, FlagsOK
  <2> QED
    BY <2>1, <2>2, <2>3 DEF TypeOK
<1>4. CASE RefusedCommand
  <2>1. PlaceOK' /\ InstrOK' /\ ExecOK'
    BY <1>4, LeaveLoopType DEF RefusedCommand, TypeOK, ConnOK
  <2>2. EnvOK' /\ ConnOK' /\ SessOK' /\ FlagsOK'
    BY <1>4 DEF RefusedCommand, TypeOK, EnvOK, ConnOK, SessOK, FlagsOK
  <2> QED
    BY <2>1, <2>2 DEF TypeOK
<1>5. CASE Configure
  <2>1. SessOK'
    BY <1>5 DEF Configure, TypeOK, SessOK
  <2> QED
    BY <1>5, <2>1
    DEF Configure, TypeOK, EnvOK, PlaceOK, ConnOK, FlagsOK, InstrOK, ExecOK
<1>6. ASSUME NEW user \in BOOLEAN, Call(user) PROVE TypeOK'
  <2>1. PICK h \in cached \cup {observer \/ Worker} :
          /\ cached' = cached \cup {h}
          /\ calls' = Append(calls, [handled |-> h, user |-> user])
    BY <1>6 DEF Call
  <2>2. h \in BOOLEAN /\ cached' \subseteq BOOLEAN
    BY <2>1 DEF TypeOK, ExecOK
  <2>3. ExecOK'
    BY <1>6, <2>1, <2>2, BoundsAssumption, PushPop DEF Call, TypeOK, ExecOK
  <2>4. \/ UNCHANGED <<at, conn, sess, instr>>
        \/ InitDebugger(socket, "initStartup", "enter")
        \/ at' = "enter" /\ UNCHANGED <<conn, sess, instr>>
    BY <1>6 DEF Call
  <2>5. ConnOK' /\ SessOK' /\ InstrOK' /\ at' \in {at, "initStartup", "enter"}
    <3>1. CASE InitDebugger(socket, "initStartup", "enter")
      BY <3>1, InitDebuggerType
    <3>2. CASE UNCHANGED <<conn, sess, instr>> /\ at' \in {at, "enter"}
      BY <3>2 DEF TypeOK, ConnOK, SessOK, InstrOK
    <3> QED
      BY <2>4, <3>1, <3>2
  <2>6. EnvOK' /\ PlaceOK' /\ FlagsOK'
    BY <1>6, <2>5 DEF Call, TypeOK, EnvOK, PlaceOK, FlagsOK, Loops, Inits, Rest
  <2> QED
    BY <2>3, <2>5, <2>6 DEF TypeOK
<1>7. CASE Enter
  <2>1. Len(calls) - 1 \in Nat
    BY <1>7 DEF Enter, CallIsOpen, TypeOK, ExecOK
  <2>2. stack' \in Seq(Nat)
    <3>1. CASE stack' = stack
      BY <3>1 DEF TypeOK, ExecOK
    <3>2. CASE stack' = Append(stack, Len(calls) - 1)
      BY <2>1, <3>2, PushPop DEF TypeOK, ExecOK
    <3> QED
      BY <1>7, <3>1, <3>2 DEF Enter
  <2>3. ExecOK'
    BY <1>7, <2>2 DEF Enter, TypeOK, ExecOK
  <2>4. InstrOK' /\ FlagsOK'
    BY <1>7 DEF Enter, TypeOK, InstrOK, FlagsOK
  <2>5. EnvOK' /\ ConnOK' /\ SessOK'
    BY <1>7 DEF Enter, TypeOK, EnvOK, ConnOK, SessOK
  <2>6. PlaceOK'
    BY <1>7 DEF Enter, TypeOK, PlaceOK, Loops, Stops
  <2> QED
    BY <2>3, <2>4, <2>5, <2>6 DEF TypeOK
<1>8. CASE Statement
  <2>1. ConnOK' /\ SessOK' /\ InstrOK' /\ at' \in {"check", "retry", "initConnect"}
    <3>1. CASE InitDebugger(socket, "initConnect", "retry")
      BY <3>1, InitDebuggerType
    <3>2. CASE UNCHANGED <<conn, sess, instr>> /\ at' \in {"check", "retry"}
      BY <3>2 DEF TypeOK, ConnOK, SessOK, InstrOK
    <3> QED
      BY <1>8, <3>1, <3>2 DEF Statement
  <2>2. EnvOK' /\ PlaceOK' /\ FlagsOK' /\ ExecOK'
    BY <1>8, <2>1 DEF Statement, TypeOK, EnvOK, PlaceOK, FlagsOK, ExecOK, Loops, Inits, Rest
  <2> QED
    BY <2>1, <2>2 DEF TypeOK
<1>9. CASE Retry
  <2>1. ConnOK' /\ SessOK' /\ InstrOK' /\ at' \in {"check", "initRetry"}
    <3>1. CASE InitDebugger(socket, "initRetry", "check")
      BY <3>1, InitDebuggerType
    <3>2. CASE UNCHANGED <<conn, sess, instr>> /\ at' = "check"
      BY <3>2 DEF TypeOK, ConnOK, SessOK, InstrOK
    <3> QED
      BY <1>9, <3>1, <3>2 DEF Retry
  <2>2. EnvOK' /\ PlaceOK' /\ FlagsOK' /\ ExecOK'
    BY <1>9, <2>1 DEF Retry, TypeOK, EnvOK, PlaceOK, FlagsOK, ExecOK, Loops, Inits, Rest
  <2> QED
    BY <2>1, <2>2 DEF TypeOK
<1>10. CASE CheckStatement
  <2>1. FlagsOK'
    BY <1>10 DEF CheckStatement, TypeOK, FlagsOK
  <2>2. PlaceOK'
    BY <1>10 DEF CheckStatement, TypeOK, PlaceOK, Loops, Stops
  <2> QED
    BY <1>10, <2>1, <2>2
    DEF CheckStatement, TypeOK, EnvOK, ConnOK, SessOK, InstrOK, ExecOK
<1>11. CASE Return
  <2>1. calls # << >> /\ calls' \in {calls, SubSeq(calls, 1, Len(calls) - 1)}
    BY <1>11 DEF Return
  <2>2. ExecOK'
    <3>1. CASE calls' = calls
      BY <1>11, <3>1 DEF Return, TypeOK, ExecOK
    <3>2. CASE calls' = SubSeq(calls, 1, Len(calls) - 1)
      BY <1>11, <3>2, CallEnds DEF Return, TypeOK, ExecOK
    <3> QED
      BY <2>1, <3>1, <3>2
  <2>3. PlaceOK'
    BY <1>11 DEF Return, TypeOK, PlaceOK, Loops, Stops, Rest
  <2> QED
    BY <1>11, <2>2, <2>3 DEF Return, TypeOK, EnvOK, ConnOK, SessOK, FlagsOK, InstrOK
<1>12. ASSUME PopFrame, UNCHANGED cached PROVE ExecOK'
  <2>1. calls' \in Seq([handled : BOOLEAN, user : BOOLEAN]) /\ Len(calls') <= MaxDepth
    BY <1>12, CallEnds DEF PopFrame
  <2>2. stack' \in Seq(Nat)
    BY <1>12, PushPop DEF PopFrame, TypeOK, ExecOK
  <2> QED
    BY <1>12, <2>1, <2>2 DEF TypeOK, ExecOK
<1>13. CASE ReturnValue
  <2>1. ExecOK'
    BY <1>12, <1>13 DEF ReturnValue, TypeOK, ExecOK
  <2>2. PlaceOK' /\ FlagsOK'
    BY <1>13 DEF ReturnValue, PopFrame, TypeOK, PlaceOK, FlagsOK, Loops, Stops
  <2> QED
    BY <1>13, <2>1, <2>2 DEF ReturnValue, TypeOK, EnvOK, ConnOK, SessOK, InstrOK
<1>14. CASE Leave
  <2>1. ExecOK'
    BY <1>12, <1>14 DEF Leave
  <2> QED
    BY <1>14, <2>1
    DEF Leave, PopFrame, TypeOK, EnvOK, PlaceOK, ConnOK, SessOK, FlagsOK, InstrOK
<1>15. CASE Error
  <2>1. ConnOK' /\ SessOK' /\ InstrOK' /\ at' \in {"initError", "checkError"}
    <3>1. CASE InitDebugger(socket, "initError", "checkError")
      BY <3>1, InitDebuggerType
    <3>2. CASE UNCHANGED <<conn, sess, instr>> /\ at' = "checkError"
      BY <3>2 DEF TypeOK, ConnOK, SessOK, InstrOK
    <3> QED
      BY <1>15, <3>1, <3>2 DEF Error
  <2>2. EnvOK' /\ PlaceOK' /\ FlagsOK' /\ ExecOK'
    BY <1>15, <2>1 DEF Error, TypeOK, EnvOK, PlaceOK, FlagsOK, ExecOK, Loops, Inits, Rest
  <2> QED
    BY <2>1, <2>2 DEF TypeOK
<1>16. CASE CheckError
  BY <1>16 DEF CheckError, TypeOK, EnvOK, PlaceOK, ConnOK, SessOK, FlagsOK, InstrOK, ExecOK,
               Loops, Stops
<1>17. CASE XdebugBreak
  <2>1. ConnOK' /\ SessOK' /\ InstrOK' /\ at' \in {"signal", "initBreak"}
    <3>1. CASE InitDebugger(socket, "initBreak", "signal")
      BY <3>1, InitDebuggerType
    <3>2. CASE UNCHANGED <<conn, sess, instr>> /\ at' = "signal"
      BY <3>2 DEF TypeOK, ConnOK, SessOK, InstrOK
    <3> QED
      BY <1>17, <3>1, <3>2 DEF XdebugBreak
  <2>2. ExecOK'
    BY <1>17, RebuiltType DEF XdebugBreak, TypeOK, ExecOK
  <2>3. EnvOK' /\ PlaceOK' /\ FlagsOK'
    BY <1>17, <2>1 DEF XdebugBreak, TypeOK, EnvOK, PlaceOK, FlagsOK, Loops, Inits, Rest
  <2> QED
    BY <2>1, <2>2, <2>3 DEF TypeOK
<1>18. CASE Signal
  <2>1. FlagsOK' /\ InstrOK'
    BY <1>18 DEF Signal, TypeOK, FlagsOK, InstrOK
  <2> QED
    BY <1>18, <2>1 DEF Signal, TypeOK, EnvOK, PlaceOK, ConnOK, SessOK, ExecOK
<1>19. CASE ConnectToClient
  <2>1. ExecOK'
    BY <1>19, RebuiltType DEF ConnectToClient, TypeOK, ExecOK
  <2> QED
    BY <1>19, <2>1
    DEF ConnectToClient, TypeOK, EnvOK, PlaceOK, ConnOK, SessOK, FlagsOK, InstrOK
<1>20. CASE Pause
  <2>1. ExecOK'
    BY <1>20, RebuiltType DEF Pause, TypeOK, ExecOK
  <2> QED
    BY <1>20, <2>1 DEF Pause, TypeOK, EnvOK, PlaceOK, ConnOK, SessOK, FlagsOK, InstrOK
<1>21. CASE Fork
  BY <1>21 DEF Fork, TypeOK, EnvOK, PlaceOK, ConnOK, SessOK, FlagsOK, InstrOK, ExecOK, Rest
<1>22. CASE Forked
  <2>1. ConnOK' /\ SessOK' /\ InstrOK' /\ at' \in {"php", "initFork"}
    <3>1. CASE InitDebugger("none", "initFork", "php")
      BY <3>1, InitDebuggerType
    <3>2. CASE UNCHANGED <<conn, sess, instr>> /\ at' = "php"
      BY <3>2 DEF TypeOK, ConnOK, SessOK, InstrOK
    <3> QED
      BY <1>22, <3>1, <3>2 DEF Forked
  <2>2. EnvOK' /\ PlaceOK' /\ FlagsOK' /\ ExecOK'
    BY <1>22, <2>1 DEF Forked, TypeOK, EnvOK, PlaceOK, FlagsOK, ExecOK, Loops, Inits
  <2> QED
    BY <2>1, <2>2 DEF TypeOK
<1>23. CASE Fatal
  BY <1>23 DEF Fatal, TypeOK, EnvOK, PlaceOK, ConnOK, SessOK, FlagsOK, InstrOK, ExecOK
<1>24. CASE EndOfScript
  BY <1>24 DEF EndOfScript, TypeOK, EnvOK, PlaceOK, ConnOK, SessOK, FlagsOK, InstrOK, ExecOK
<1>25. ASSUME NEW t \in {"none", "start", "ignore"}, RequestStart(t) PROVE TypeOK'
  <2>1. EnvOK' /\ PlaceOK' /\ SessOK' /\ FlagsOK'
    BY <1>25 DEF RequestStart, TypeOK, EnvOK, PlaceOK, SessOK, FlagsOK
  <2>2. ExecOK'
    BY <1>25, BoundsAssumption DEF RequestStart, ExecOK
  <2>3. ConnOK' /\ InstrOK'
    BY <1>25 DEF RequestStart, TypeOK, ConnOK, InstrOK
  <2> QED
    BY <2>1, <2>2, <2>3 DEF TypeOK
<1>26. ASSUME NEW t \in {"none", "start", "ignore"}, WorkerActivate(t) PROVE TypeOK'
  BY <1>26 DEF WorkerActivate, TypeOK, EnvOK, PlaceOK, ConnOK, SessOK, FlagsOK, InstrOK, ExecOK
<1>27. CASE RequestEnd
  BY <1>27 DEF RequestEnd, TypeOK, EnvOK, PlaceOK, ConnOK, SessOK, FlagsOK, InstrOK, ExecOK,
               Loops, Rest
<1>28. CASE Ended
  <2>1. ExecOK'
    BY <1>28 DEF Ended, TypeOK, ExecOK
  <2>2. ConnOK'
    BY <1>28 DEF Ended, MarkNotActive, TypeOK, ConnOK
  <2> QED
    BY <1>28, <2>1, <2>2 DEF Ended, TypeOK, EnvOK, PlaceOK, SessOK, FlagsOK, InstrOK
<1>29. CASE ConnectionLost
  <2>1. PlaceOK'
    BY <1>29, AfterType DEF ConnectionLost, TypeOK, PlaceOK
  <2>2. ConnOK'
    BY <1>29 DEF ConnectionLost, MarkNotActive, TypeOK, ConnOK
  <2>3. InstrOK'
    BY <1>29 DEF ConnectionLost, TypeOK, InstrOK
  <2> QED
    BY <1>29, <2>1, <2>2, <2>3 DEF ConnectionLost, TypeOK, EnvOK, SessOK, FlagsOK, ExecOK
<1>30. CASE SendFails
  <2>1. ConnOK'
    BY <1>30 DEF SendFails, MarkNotActive, TypeOK, ConnOK
  <2> QED
    BY <1>30, <2>1
    DEF SendFails, TypeOK, EnvOK, PlaceOK, SessOK, FlagsOK, InstrOK, ExecOK
<1>31. CASE UNCHANGED vars
  BY <1>31 DEF vars, TypeOK, EnvOK, PlaceOK, ConnOK, SessOK, FlagsOK, InstrOK, ExecOK
<1> QED
  BY <1>1, <1>2, <1>3, <1>4, <1>5, <1>6, <1>7, <1>8, <1>9, <1>10, <1>11, <1>13, <1>14,
     <1>15, <1>16, <1>17, <1>18, <1>19, <1>20, <1>21, <1>22, <1>23, <1>24, <1>25, <1>26,
     <1>27, <1>28, <1>29, <1>30, <1>31
  DEF Next, Client, Script, Handlers, Engine

-----------------------------------------------------------------------------
(* The inductive invariant.                                                *)

\* An active connection has an open socket, also while a forked child has not
\* yet looked at whose it is.
ActiveIsOpen == enabled => socket = "open"

\* Between the requests nothing of a handler is left to do, and no session.
QuietBetweenRequests == phase \in {"idle", "parked"} => at = "php" /\ ~enabled

SessionInv ==
    TypeOK /\ CallIsOpen /\ LoopOwnsConnection /\ ActiveIsOpen /\ QuietBetweenRequests

LEMMA InvInit == Init => SessionInv
BY TypeInit
DEF Init, SessionInv, CallIsOpen, LoopOwnsConnection, ActiveIsOpen, QuietBetweenRequests,
    Loops, Inits, Stops

\* A connection that was made is this process's own; the places differ with it.
LEMMA InitDebuggerOwns ==
    ASSUME NEW current, NEW loop, NEW otherwise, TypeOK, InitDebugger(current, loop, otherwise)
    PROVE  \/ enabled' /\ socket' = "open" /\ owner' = "self" /\ at' = loop
           \/ ~enabled' /\ at' = otherwise
<1>1. PICK answered \in BOOLEAN :
        IF answered
        THEN /\ socket' = "open" /\ enabled' = TRUE /\ owner' = "self"
             /\ observer' = TRUE /\ at' = loop
             /\ UNCHANGED <<stmt, hooks>>
        ELSE /\ socket' = "none" /\ enabled' = FALSE /\ owner' = "none"
             /\ stmt' = (stmt /\ ~conf.onDemand) /\ at' = otherwise
             /\ UNCHANGED <<observer, hooks>>
  BY DEF InitDebugger
<1> QED
  BY <1>1

\* After a loop, the code is in none, and still between the same calls.
LEMMA LoopIsLeft ==
    ASSUME NEW stop, NEW looksEmpty, SessionInv, at \in Loops, LeaveLoop(looksEmpty, stop)
    PROVE  /\ CallIsOpen' /\ QuietBetweenRequests'
           /\ at' \notin Loops \cup {"forked"}
<1>1. \/ at' = "php"
      \/ at' = After[at] /\ UNCHANGED calls
  BY DEF LeaveLoop
<1>2. CallIsOpen' /\ at' \notin Loops \cup {"forked"}
  <2>1. CASE at' = "php"
    BY <2>1 DEF CallIsOpen, Loops, Inits, Stops
  <2>2. CASE at' = After[at] /\ UNCHANGED calls
    BY <2>2, AfterType DEF SessionInv, CallIsOpen, Loops, Inits, Stops
  <2> QED
    BY <1>1, <2>1, <2>2
<1>3. phase \notin {"idle", "parked"}
  BY DEF SessionInv, QuietBetweenRequests, Loops, Inits, Stops
<1>4. phase' \in {phase, "bail", "over"}
  BY DEF LeaveLoop
<1> QED
  BY <1>2, <1>3, <1>4 DEF QuietBetweenRequests

LEMMA InvStep == SessionInv /\ [Next]_vars => SessionInv'
<1> SUFFICES ASSUME SessionInv, [Next]_vars PROVE SessionInv'
    OBVIOUS
<1> DEFINE Kept == CallIsOpen' /\ LoopOwnsConnection' /\ ActiveIsOpen' /\ QuietBetweenRequests'
<1> USE DEF env, conn, sess, flags, instr, exec
<1>0. TypeOK /\ TypeOK'
  BY TypeStep DEF SessionInv
<1> SUFFICES Kept
    BY <1>0 DEF SessionInv
<1>1. ASSUME NEW step \in {"none", "into", "over", "out"}, Continue(step) PROVE Kept
  <2>1. at \in Loops /\ UNCHANGED conn /\ LeaveLoop({bps = {}}, FALSE)
    BY <1>1 DEF Continue
  <2> QED
    BY <2>1, LoopIsLeft
    DEF SessionInv, LoopOwnsConnection, ActiveIsOpen, Loops, Inits, Stops
<1>2. CASE StopCommand
  <2>1. at \in Loops /\ UNCHANGED conn /\ LeaveLoop({bps = {}}, TRUE)
    BY <1>2 DEF StopCommand
  <2> QED
    BY <2>1, LoopIsLeft
    DEF SessionInv, LoopOwnsConnection, ActiveIsOpen, Loops, Inits, Stops
<1>3. CASE Detach
  <2>1. at \in Loops /\ ~enabled' /\ LeaveLoop(BOOLEAN, FALSE)
    BY <1>3 DEF Detach, MarkNotActive
  <2> QED
    BY <2>1, LoopIsLeft DEF LoopOwnsConnection, ActiveIsOpen
<1>4. CASE RefusedCommand
  <2>1. at \in Loops /\ UNCHANGED conn /\ LeaveLoop({bps = {}}, FALSE)
    BY <1>4 DEF RefusedCommand
  <2> QED
    BY <2>1, LoopIsLeft
    DEF SessionInv, LoopOwnsConnection, ActiveIsOpen, Loops, Inits, Stops
<1>5. CASE Configure
  BY <1>5 DEF Configure, SessionInv, CallIsOpen, LoopOwnsConnection, ActiveIsOpen,
              QuietBetweenRequests
<1>6. ASSUME NEW user \in BOOLEAN, Call(user) PROVE Kept
  <2>1. /\ at = "php" /\ phase \notin {"idle", "parked"} /\ UNCHANGED phase
    BY <1>6 DEF Call, Running
  <2>2. calls' # << >>
    <3>1. PICK h \in cached \cup {observer \/ Worker} :
            calls' = Append(calls, [handled |-> h, user |-> user])
      BY <1>6 DEF Call
    <3>2. [handled |-> h, user |-> user] \in [handled : BOOLEAN, user : BOOLEAN]
      BY <1>0, <1>6, <3>1 DEF TypeOK, ExecOK
    <3>3. Len(calls') = Len(calls) + 1 /\ Len(calls) \in Nat
      BY <1>0, <3>1, <3>2, PushPop DEF TypeOK, ExecOK
    <3> QED
      BY <3>3, EmptySeq
  <2>3. \/ UNCHANGED <<at, conn>>
        \/ InitDebugger(socket, "initStartup", "enter")
        \/ at' = "enter" /\ UNCHANGED conn
    BY <1>6 DEF Call
  <2> QED
    BY <1>0, <2>1, <2>2, <2>3, InitDebuggerOwns
    DEF SessionInv, CallIsOpen, LoopOwnsConnection, ActiveIsOpen, QuietBetweenRequests,
        Loops, Inits, Stops
<1>7. CASE Enter
  <2>1. at = "enter" /\ at' \in {"php", "stopCall"} /\ UNCHANGED <<phase, conn, calls>>
    BY <1>7 DEF Enter
  <2>2. at' = "stopCall" => enabled
    BY <1>7 DEF Enter
  <2> QED
    BY <2>1, <2>2 DEF SessionInv, CallIsOpen, LoopOwnsConnection, ActiveIsOpen,
                      QuietBetweenRequests, Loops, Inits, Stops
<1>8. CASE Statement
  <2>1. at = "php" /\ phase \notin {"idle", "parked"} /\ UNCHANGED <<phase, calls>>
    BY <1>8 DEF Statement, Running
  <2>2. \/ at' \in {"check", "retry"} /\ UNCHANGED conn
        \/ InitDebugger(socket, "initConnect", "retry")
    BY <1>8 DEF Statement
  <2> QED
    BY <1>0, <2>1, <2>2, InitDebuggerOwns
    DEF SessionInv, CallIsOpen, LoopOwnsConnection, ActiveIsOpen, QuietBetweenRequests,
        Loops, Inits, Stops
<1>9. CASE Retry
  <2>1. at = "retry" /\ UNCHANGED <<phase, calls>>
    BY <1>9 DEF Retry
  <2>2. \/ at' = "check" /\ UNCHANGED conn
        \/ InitDebugger(socket, "initRetry", "check")
    BY <1>9 DEF Retry
  <2> QED
    BY <1>0, <2>1, <2>2, InitDebuggerOwns
    DEF SessionInv, CallIsOpen, LoopOwnsConnection, ActiveIsOpen, QuietBetweenRequests,
        Loops, Inits, Stops
<1>10. CASE CheckStatement
  <2>1. at = "check" /\ at' \in {"php", "stopStatement"} /\ UNCHANGED <<phase, conn, calls>>
    BY <1>10 DEF CheckStatement
  <2>2. at' = "stopStatement" => enabled
    BY <1>10 DEF CheckStatement
  <2> QED
    BY <2>1, <2>2 DEF SessionInv, CallIsOpen, LoopOwnsConnection, ActiveIsOpen,
                      QuietBetweenRequests, Loops, Inits, Stops
<1>11. CASE Return
  <2>1. at = "php" /\ phase \notin {"idle", "parked"} /\ calls # << >> /\ UNCHANGED <<phase, conn>>
    BY <1>11 DEF Return
  <2>2. \/ at' = "php"
        \/ at' = "value" /\ UNCHANGED calls
        \/ at' = "stopReturn" /\ enabled /\ UNCHANGED calls
    BY <1>11, <2>1 DEF Return
  <2> QED
    BY <2>1, <2>2 DEF SessionInv, CallIsOpen, LoopOwnsConnection, ActiveIsOpen,
                      QuietBetweenRequests, Loops, Inits, Stops
<1>12. CASE ReturnValue
  <2>1. at = "value" /\ UNCHANGED <<phase, conn>>
    BY <1>12 DEF ReturnValue
  <2>2. \/ at' = "php"
        \/ at' = "stopValue" /\ enabled /\ UNCHANGED calls
    BY <1>12 DEF ReturnValue
  <2> QED
    BY <2>1, <2>2 DEF SessionInv, CallIsOpen, LoopOwnsConnection, ActiveIsOpen,
                      QuietBetweenRequests, Loops, Inits, Stops
<1>13. CASE Leave
  BY <1>13 DEF Leave, SessionInv, CallIsOpen, LoopOwnsConnection, ActiveIsOpen,
               QuietBetweenRequests, Loops, Inits, Stops
<1>14. CASE Error
  <2>1. at = "php" /\ phase \notin {"idle", "parked"} /\ UNCHANGED <<phase, calls>>
    BY <1>14 DEF Error
  <2>2. \/ at' = "checkError" /\ UNCHANGED conn
        \/ InitDebugger(socket, "initError", "checkError")
    BY <1>14 DEF Error
  <2> QED
    BY <1>0, <2>1, <2>2, InitDebuggerOwns
    DEF SessionInv, CallIsOpen, LoopOwnsConnection, ActiveIsOpen, QuietBetweenRequests,
        Loops, Inits, Stops
<1>15. CASE CheckError
  BY <1>15 DEF CheckError, SessionInv, CallIsOpen, LoopOwnsConnection, ActiveIsOpen,
               QuietBetweenRequests, Loops, Inits, Stops
<1>16. CASE XdebugBreak
  <2>1. at = "php" /\ phase \notin {"idle", "parked"} /\ UNCHANGED <<phase, calls>>
    BY <1>16 DEF XdebugBreak, Running
  <2>2. \/ at' = "signal" /\ UNCHANGED conn
        \/ InitDebugger(socket, "initBreak", "signal")
    BY <1>16 DEF XdebugBreak
  <2> QED
    BY <1>0, <2>1, <2>2, InitDebuggerOwns
    DEF SessionInv, CallIsOpen, LoopOwnsConnection, ActiveIsOpen, QuietBetweenRequests,
        Loops, Inits, Stops
<1>17. CASE Signal
  BY <1>17 DEF Signal, SessionInv, CallIsOpen, LoopOwnsConnection, ActiveIsOpen,
               QuietBetweenRequests, Loops, Inits, Stops
<1>18. CASE ConnectToClient
  BY <1>18 DEF ConnectToClient, SessionInv, CallIsOpen, LoopOwnsConnection, ActiveIsOpen,
               QuietBetweenRequests
<1>19. CASE Pause
  BY <1>19 DEF Pause, SessionInv, CallIsOpen, LoopOwnsConnection, ActiveIsOpen,
               QuietBetweenRequests
<1>20. CASE Fork
  BY <1>20 DEF Fork, Running, SessionInv, CallIsOpen, LoopOwnsConnection, ActiveIsOpen,
               QuietBetweenRequests, Loops, Inits, Stops
<1>21. CASE Forked
  <2>1. at = "forked" /\ UNCHANGED <<phase, calls>>
    BY <1>21 DEF Forked
  <2>2. \/ at' = "php" /\ UNCHANGED conn /\ ~(enabled /\ owner # "self")
        \/ InitDebugger("none", "initFork", "php")
    BY <1>21 DEF Forked
  <2> QED
    BY <1>0, <2>1, <2>2, InitDebuggerOwns
    DEF SessionInv, CallIsOpen, LoopOwnsConnection, ActiveIsOpen, QuietBetweenRequests,
        Loops, Inits, Stops
<1>22. CASE Fatal
  BY <1>22 DEF Fatal, SessionInv, CallIsOpen, LoopOwnsConnection, ActiveIsOpen,
               QuietBetweenRequests
<1>23. CASE EndOfScript
  BY <1>23 DEF EndOfScript, SessionInv, CallIsOpen, LoopOwnsConnection, ActiveIsOpen,
               QuietBetweenRequests
<1>24. ASSUME NEW t \in {"none", "start", "ignore"}, RequestStart(t) PROVE Kept
  BY <1>24 DEF RequestStart, CallIsOpen, LoopOwnsConnection, ActiveIsOpen,
               QuietBetweenRequests, Loops, Inits, Stops
<1>25. ASSUME NEW t \in {"none", "start", "ignore"}, WorkerActivate(t) PROVE Kept
  BY <1>25 DEF WorkerActivate, SessionInv, CallIsOpen, LoopOwnsConnection, ActiveIsOpen,
               QuietBetweenRequests
<1>26. CASE RequestEnd
  <2>1. phase \notin {"idle", "parked"}
    BY <1>26 DEF RequestEnd
  <2> QED
    BY <1>26, <2>1 DEF RequestEnd, SessionInv, CallIsOpen, LoopOwnsConnection, ActiveIsOpen,
                       QuietBetweenRequests, Loops, Inits, Stops
<1>27. CASE Ended
  BY <1>27 DEF Ended, MarkNotActive, CallIsOpen, LoopOwnsConnection, ActiveIsOpen,
               QuietBetweenRequests, Loops, Inits, Stops
<1>28. CASE ConnectionLost
  <2>1. at \in Loops /\ ~enabled' /\ at' = After[at] /\ UNCHANGED <<phase, calls>>
    BY <1>28 DEF ConnectionLost, MarkNotActive
  <2>2. CallIsOpen' /\ at' \notin Loops
    BY <2>1, AfterType DEF SessionInv, CallIsOpen, Loops, Inits, Stops
  <2>3. QuietBetweenRequests'
    BY <2>1 DEF SessionInv, QuietBetweenRequests, Loops, Inits, Stops
  <2> QED
    BY <2>1, <2>2, <2>3 DEF LoopOwnsConnection, ActiveIsOpen
<1>29. CASE SendFails
  BY <1>29 DEF SendFails, MarkNotActive, SessionInv, CallIsOpen, LoopOwnsConnection,
               ActiveIsOpen, QuietBetweenRequests, Loops, Inits, Stops
<1>30. CASE UNCHANGED vars
  BY <1>30 DEF vars, SessionInv, CallIsOpen, LoopOwnsConnection, ActiveIsOpen,
               QuietBetweenRequests
<1> QED
  BY <1>1, <1>2, <1>3, <1>4, <1>5, <1>6, <1>7, <1>8, <1>9, <1>10, <1>11, <1>12, <1>13, <1>14,
     <1>15, <1>16, <1>17, <1>18, <1>19, <1>20, <1>21, <1>22, <1>23, <1>24, <1>25, <1>26,
     <1>27, <1>28, <1>29, <1>30
  DEF Next, Client, Script, Handlers, Engine

-----------------------------------------------------------------------------
(* The theorems.                                                           *)

LEMMA Invariance == Spec => []SessionInv
<1>1. Init => SessionInv
  BY InvInit
<1>2. SessionInv /\ [Next]_vars => SessionInv'
  BY InvStep
<1> QED
  BY <1>1, <1>2, PTL DEF Spec

\* Every variable of the session logic keeps to its values, whatever the
\* configuration and however deep the script nests its calls.
THEOREM TypeCorrect == Spec => []TypeOK
<1>1. SessionInv => TypeOK
  BY DEF SessionInv
<1> QED
  BY <1>1, Invariance, PTL

\* xdebug_dbgp_cmdloop() reads only from an open connection that this process
\* made itself: not from a closed socket, and not, in the child of a fork, from
\* its parent's.
THEOREM LoopOwnsItsConnection == Spec => []LoopOwnsConnection
<1>1. SessionInv => LoopOwnsConnection
  BY DEF SessionInv
<1> QED
  BY <1>1, Invariance, PTL

\* However a request ends (normally, by `stop`, by a fatal error, in a worker or
\* in a forked child), no session outlives it.
THEOREM NoSessionOutlivesItsRequest == Spec => []NoSessionBetweenRequests
<1>1. SessionInv => NoSessionBetweenRequests
  BY DEF SessionInv, QuietBetweenRequests, NoSessionBetweenRequests
<1> QED
  BY <1>1, Invariance, PTL

-----------------------------------------------------------------------------
(* A session sees the script.                                              *)

\* Only on-demand debugging, the control socket and a worker signal a connection.
ConnectAsked ==
    doConnect \/ at \in {"retry", "initConnect"} => Worker \/ conf.ctrl \/ conf.onDemand

\* Only a worker ends a request from within its script, and waits for another.
PlaceInRequest ==
    /\ at \in {"deinit", "ended"} /\ phase = "run" => Worker
    /\ phase = "parked" => Worker

\* A session that was not tried for before the script was compiled was asked for by a
\* function, an error, the control socket or a worker's request.
EarlyTried ==
    /\ phase = "run" /\ Requested => Worker \/ early
    /\ enabled => early \/ conf.onDemand \/ conf.uponError \/ conf.ctrl \/ Worker

\* The script of a request that neither a worker nor the control socket shares.
Alone == ~Worker /\ ~conf.ctrl /\ phase = "run"

\* On-demand debugging never switches the observer off.  Without it both switches are
\* turned together, except that a session that did not start takes the observer only.
ObserverKept == conf.onDemand /\ ~Worker /\ phase = "run" => observer
SwitchedTogether == Alone /\ ~conf.onDemand /\ (observer \/ conf.uponError) => stmt

\* At a prompt a client can ask for anything: the script must be instrumented, or be
\* so at the end of a prompt at which an on-demand session starts.
PromptSees == Alone /\ at \in Loops => observer /\ (stmt \/ (at \in Inits /\ conf.onDemand))

\* Outside of the prompts, in the rest of the handlers too, what is awaited is seen.
AwaitedSees == Alone /\ at \notin Loops /\ enabled /\ Awaited => stmt /\ observer

SightInv ==
    /\ ConnectAsked /\ PlaceInRequest /\ EarlyTried /\ ObserverKept /\ SwitchedTogether
    /\ PromptSees /\ AwaitedSees

\* What xdebug_init_debugger() does to the switches.
LEMMA InitDebuggerSwitches ==
    ASSUME NEW current, NEW loop, NEW otherwise, InitDebugger(current, loop, otherwise)
    PROVE  /\ bps' = {} /\ UNCHANGED <<early, detached>>
           /\ \/ /\ enabled' = TRUE /\ observer' = TRUE /\ at' = loop /\ UNCHANGED stmt
                 /\ early => current = "open"
              \/ /\ enabled' = FALSE /\ at' = otherwise /\ UNCHANGED observer
                 /\ stmt' = (stmt /\ ~conf.onDemand)
<1>1. PICK answered \in (IF early THEN {current = "open"} ELSE BOOLEAN) :
        IF answered
        THEN /\ socket' = "open" /\ enabled' = TRUE /\ owner' = "self"
             /\ observer' = TRUE /\ at' = loop
             /\ UNCHANGED <<stmt, hooks>>
        ELSE /\ socket' = "none" /\ enabled' = FALSE /\ owner' = "none"
             /\ stmt' = (stmt /\ ~conf.onDemand) /\ at' = otherwise
             /\ UNCHANGED <<observer, hooks>>
  BY DEF InitDebugger
<1>2. early /\ answered => current = "open"
  BY <1>1
<1>3. bps' = {} /\ UNCHANGED <<early, detached>>
  BY DEF InitDebugger
<1> QED
  BY <1>1, <1>2, <1>3

\* At the end of a loop the script goes on unseen only if nothing is awaited.
LEMMA LoopLeavesSight ==
    ASSUME NEW looksEmpty, NEW stop \in BOOLEAN, SessionInv, SightInv, at \in Loops,
           LeaveLoop(looksEmpty, stop), UNCHANGED <<env, early, doConnect, doBreak>>,
           enabled' \in {enabled, FALSE}, enabled' => looksEmpty = {bps' = {}}
    PROVE  SightInv'
<1>1. PICK empty \in looksEmpty :
        LET off  == /\ empty /\ ~doConnect /\ ~doBreak /\ stepping' = "none"
                    /\ ~conf.uponError
            bail == stop /\ at # "deinit"
        IN /\ observer' = (observer /\ KeepsObserver(off))
           /\ stmt' = (IF at \in Inits /\ conf.onDemand /\ ~bail THEN enabled'
                                                                 ELSE stmt /\ ~off)
           /\ at' = (IF bail THEN "php" ELSE After[at])
           /\ phase' = (IF ~bail THEN phase ELSE IF phase = "run" THEN "bail" ELSE "over")
  BY DEF LeaveLoop
<1> DEFINE off  == /\ empty /\ ~doConnect /\ ~doBreak /\ stepping' = "none"
                   /\ ~conf.uponError
           bail == stop /\ at # "deinit"
<1>2. enabled /\ TypeOK
  BY DEF SessionInv, LoopOwnsConnection
<1>3. /\ conf' = conf /\ trig' = trig /\ early' = early
      /\ doConnect' = doConnect /\ doBreak' = doBreak
  BY DEF env
<1>4. enabled' /\ Awaited' => ~off
  <2> SUFFICES ASSUME enabled', off PROVE ~Awaited'
      OBVIOUS
  <2>1. empty \in {bps' = {}} /\ empty
    BY <1>1
  <2>2. bps' = {}
    BY <2>1
  <2>3. ~doBreak' /\ stepping' = "none"
    BY <1>3
  <2> QED
    BY <2>2, <2>3 DEF Awaited
<1>5. off => ~conf.uponError
  OBVIOUS
<1>6. /\ bail => at' = "php" /\ phase' # "run" /\ phase' # "parked"
      /\ ~bail => at' = After[at] /\ phase' = phase
  BY <1>1
<1>7. observer' = (observer /\ (off => conf.onDemand))
  BY <1>1 DEF KeepsObserver
<1>8. stmt' = (IF at \in Inits /\ conf.onDemand /\ ~bail THEN enabled' ELSE stmt /\ ~off)
  BY <1>1
<1> HIDE DEF off, bail
<1>9. at' \notin Loops \cup {"retry", "initConnect"} \/ (at = "initConnect" /\ at' = "retry")
  BY <1>6 DEF After, Loops, Inits, Stops
<1>10. at' \in {"deinit", "ended"} /\ ~bail => at = "deinit"
  BY <1>6 DEF After, Loops, Inits, Stops
<1>11. ConnectAsked'
  BY <1>3, <1>9 DEF SightInv, ConnectAsked, Worker, Loops, Inits
<1>12. PlaceInRequest'
  BY <1>3, <1>6, <1>10 DEF SightInv, PlaceInRequest, Worker
<1>13. EarlyTried'
  BY <1>2, <1>3, <1>6 DEF SightInv, EarlyTried, Worker, Requested, RequestedBy
<1>14. phase' = "run" => ~bail /\ phase = "run"
  BY <1>6
<1>15. ObserverKept'
  BY <1>3, <1>7, <1>14 DEF SightInv, ObserverKept, Worker
<1>16. SwitchedTogether'
  BY <1>3, <1>5, <1>7, <1>8, <1>14 DEF SightInv, SwitchedTogether, Alone, Worker
<1>17. PromptSees'
  BY <1>9 DEF PromptSees, Loops, Inits, Stops
<1>18. AwaitedSees'
  BY <1>3, <1>4, <1>7, <1>8, <1>14 DEF SightInv, PromptSees, AwaitedSees, Alone, Worker
<1> QED
  BY <1>11, <1>12, <1>13, <1>15, <1>16, <1>17, <1>18 DEF SightInv

LEMMA SightInit == Init => SightInv
BY DEF Init, SightInv, ConnectAsked, PlaceInRequest, EarlyTried, ObserverKept,
       SwitchedTogether, PromptSees, AwaitedSees, Alone, Loops, Inits, Stops

\* A session that starts sees the script, at the latest when its first prompt ends.
LEMMA StartSees ==
    ASSUME NEW current, NEW loop \in Inits, NEW otherwise, otherwise \notin Loops,
           InitDebugger(current, loop, otherwise), SightInv,
           UNCHANGED <<env, phase>>, doConnect' \in {doConnect, FALSE},
           loop \in {"initConnect"} \/ otherwise \in {"retry"} => Worker \/ conf.ctrl \/ conf.onDemand,
           otherwise \notin {"ended", "initConnect"},
           \/ early \/ conf.onDemand \/ conf.uponError \/ conf.ctrl \/ Worker,
           Alone => conf.onDemand \/ stmt \/ (early /\ current # "open")
    PROVE  SightInv'
<1>1. /\ bps' = {} /\ early' = early /\ conf' = conf /\ trig' = trig /\ phase' = phase
      /\ \/ /\ enabled' = TRUE /\ observer' = TRUE /\ at' = loop /\ stmt' = stmt
            /\ early => current = "open"
         \/ /\ enabled' = FALSE /\ at' = otherwise /\ observer' = observer
            /\ stmt' = (stmt /\ ~conf.onDemand)
  BY InitDebuggerSwitches DEF env
<1>2. ConnectAsked'
  BY <1>1 DEF SightInv, ConnectAsked, Worker, Inits
<1>3. PlaceInRequest'
  BY <1>1 DEF SightInv, PlaceInRequest, Worker, Inits, Loops
<1>4. EarlyTried'
  BY <1>1 DEF SightInv, EarlyTried, Worker, Requested, RequestedBy
<1>5. ObserverKept'
  BY <1>1 DEF SightInv, ObserverKept, Worker
<1>6. SwitchedTogether'
  BY <1>1 DEF SightInv, SwitchedTogether, Alone, Worker
<1>7. PromptSees'
  BY <1>1 DEF PromptSees, Alone, Worker
<1>8. AwaitedSees'
  BY <1>1 DEF AwaitedSees, Loops
<1> QED
  BY <1>2, <1>3, <1>4, <1>5, <1>6, <1>7, <1>8 DEF SightInv

\* Steps that neither touch the switches nor let anything new be awaited, and that
\* stop only for what is awaited.
LEMMA SightUntouched ==
    ASSUME SightInv, UNCHANGED <<env, early, observer, stmt>>,
           phase' = "run" => phase = "run", phase' = "parked" => phase = "parked",
           doConnect' => doConnect,
           enabled' => enabled, enabled' /\ Awaited' /\ at' \notin Loops => Awaited,
           at \notin Loops, at' \in Loops => at' \notin Inits /\ enabled /\ Awaited,
           at' \in {"retry"} => Worker \/ conf.ctrl \/ conf.onDemand,
           at' \in {"deinit", "ended"} /\ phase' = "run" => Worker
    PROVE  SightInv'
<1>1. conf' = conf /\ trig' = trig /\ early' = early /\ observer' = observer /\ stmt' = stmt
  BY DEF env
<1>2. ConnectAsked'
  BY <1>1 DEF SightInv, ConnectAsked, Worker, Loops, Inits
<1>3. PlaceInRequest'
  BY <1>1 DEF SightInv, PlaceInRequest, Worker
<1>4. EarlyTried'
  BY <1>1 DEF SightInv, EarlyTried, Worker, Requested, RequestedBy
<1>5. ObserverKept' /\ SwitchedTogether'
  BY <1>1 DEF SightInv, ObserverKept, SwitchedTogether, Alone, Worker
<1>6. PromptSees'
  BY <1>1 DEF SightInv, AwaitedSees, PromptSees, Alone, Worker
<1>7. AwaitedSees'
  BY <1>1 DEF SightInv, AwaitedSees, Alone, Worker
<1> QED
  BY <1>2, <1>3, <1>4, <1>5, <1>6, <1>7 DEF SightInv

LEMMA SightStep == SessionInv /\ SightInv /\ [Next]_vars => SightInv'
<1> SUFFICES ASSUME SessionInv, SightInv, [Next]_vars PROVE SightInv'
    OBVIOUS
<1> USE DEF env, conn, sess, flags, instr, exec
<1>0. /\ at \in Loops => enabled
      /\ phase = "run" /\ Requested => Worker \/ early
      /\ enabled => early \/ conf.onDemand \/ conf.uponError \/ conf.ctrl \/ Worker
      /\ Alone /\ ~conf.onDemand /\ (observer \/ conf.uponError) => stmt
      /\ Alone /\ at \notin Loops /\ enabled /\ Awaited => stmt /\ observer
      /\ doConnect \/ at \in {"retry", "initConnect"} => Worker \/ conf.ctrl \/ conf.onDemand
      /\ at \in {"deinit", "ended"} /\ phase = "run" => Worker
      /\ phase = "parked" => Worker
  BY DEF SessionInv, LoopOwnsConnection, SightInv, EarlyTried, SwitchedTogether, AwaitedSees,
         ConnectAsked, PlaceInRequest
<1>p. /\ "php" \notin Loops /\ "enter" \notin Loops /\ "check" \notin Loops
      /\ "retry" \notin Loops /\ "value" \notin Loops /\ "leave" \notin Loops
      /\ "checkError" \notin Loops /\ "signal" \notin Loops /\ "forked" \notin Loops
      /\ "ended" \notin Loops
  BY DEF Loops, Inits, Stops
<1>q. /\ Stops \subseteq Loops /\ "deinit" \in Loops
      /\ \A l \in Stops \cup {"deinit"} : l \notin Inits
      /\ \A l \in Stops : l \notin {"deinit", "ended", "retry"}
  BY DEF Loops, Inits, Stops
<1>1. ASSUME NEW step \in {"none", "into", "over", "out"}, Continue(step) PROVE SightInv'
  <2>1. /\ at \in Loops /\ LeaveLoop({bps' = {}}, FALSE) /\ enabled' = enabled
        /\ UNCHANGED <<env, early, doConnect, doBreak>>
    BY <1>1 DEF Continue
  <2> QED
    BY <2>1, LoopLeavesSight
<1>2. CASE StopCommand \/ RefusedCommand
  <2>1. PICK stop \in BOOLEAN : LeaveLoop({bps' = {}}, stop)
    BY <1>2 DEF StopCommand, RefusedCommand
  <2>2. at \in Loops /\ enabled' = enabled /\ UNCHANGED <<env, early, doConnect, doBreak>>
    BY <1>2 DEF StopCommand, RefusedCommand
  <2> QED
    BY <2>1, <2>2, LoopLeavesSight
<1>3. CASE Detach
  <2>1. /\ at \in Loops /\ LeaveLoop(BOOLEAN, FALSE) /\ enabled' = FALSE
        /\ UNCHANGED <<env, early, doConnect, doBreak>>
    BY <1>3 DEF Detach, MarkNotActive
  <2> QED
    BY <2>1, LoopLeavesSight
<1>4. CASE Configure
  BY <1>4 DEF Configure, SightInv, ConnectAsked, PlaceInRequest, EarlyTried, ObserverKept,
              SwitchedTogether, PromptSees, AwaitedSees, Alone, Worker, Requested, RequestedBy
<1>5. ASSUME NEW user \in BOOLEAN, Call(user) PROVE SightInv'
  <2>1. /\ at = "php" /\ UNCHANGED <<env, phase, flags>>
    BY <1>5 DEF Call, Running
  <2>2. PICK h \in BOOLEAN :
          IF ~(h /\ observer) THEN UNCHANGED <<at, conn, sess, instr>>
          ELSE IF FirstFrame(user)
               THEN InitDebugger(socket, "initStartup", "enter")
               ELSE at' = "enter" /\ UNCHANGED <<conn, sess, instr>>
    BY <1>5 DEF Call, SessionInv, TypeOK, ExecOK
  <2>3. CASE at' \in {"php", "enter"} /\ UNCHANGED <<conn, sess, instr>>
    BY <2>1, <2>3, <1>p, SightUntouched DEF Awaited
  <2>4. CASE observer /\ FirstFrame(user) /\ InitDebugger(socket, "initStartup", "enter")
    <3>1. early \/ Worker
      BY <2>4, <1>0 DEF FirstFrame
    <3>2. Alone => conf.onDemand \/ stmt
      BY <2>4, <1>0
    <3>3. "initStartup" \in Inits
      BY DEF Inits
    <3> QED
      BY <2>1, <2>4, <3>1, <3>2, <3>3, <1>p, StartSees
  <2> QED
    BY <2>1, <2>2, <2>3, <2>4
<1>6. CASE Enter
  <2>1. CASE ~enabled /\ ~conf.onDemand /\ at' = "php" /\ observer' = FALSE /\ UNCHANGED stmt
    <3>1. UNCHANGED <<env, phase, conn, doConnect>>
      BY <1>6 DEF Enter
    <3> QED
      BY <2>1, <3>1, <1>p
      DEF SightInv, ConnectAsked, PlaceInRequest, EarlyTried, ObserverKept, SwitchedTogether,
          PromptSees, AwaitedSees, Alone, Worker, Requested, RequestedBy
  <2>2. CASE UNCHANGED instr
    <3>1. /\ at = "enter" /\ at' \in {"php", "stopCall"} /\ (at' = "stopCall" => enabled /\ "call" \in bps)
          /\ UNCHANGED <<env, phase, conn, sess, doConnect, stepping>>
          /\ doBreak' = doBreak \/ (enabled /\ "call" \in bps)
      BY <1>6, <2>2 DEF Enter
    <3> QED
      BY <2>2, <3>1, <1>p, <1>q, SightUntouched DEF Awaited, Stops
  <2> QED
    BY <1>6, <2>1, <2>2 DEF Enter
<1>7. CASE Statement
  <2>1. at = "php" /\ UNCHANGED <<env, phase, doBreak, stepping>> /\ doConnect' = FALSE /\ stmt
    BY <1>7 DEF Statement, Running
  <2>2. CASE UNCHANGED <<conn, sess, instr>> /\ at' \in {"check", "retry"}
    <3>1. at' = "retry" => doConnect
      BY <1>7, <2>2 DEF Statement, InitDebugger
    <3> QED
      BY <2>1, <2>2, <3>1, <1>0, <1>p, SightUntouched DEF Awaited
  <2>3. CASE doConnect /\ InitDebugger(socket, "initConnect", "retry")
    <3>1. "initConnect" \in Inits
      BY DEF Inits
    <3>2. conf.onDemand \/ conf.ctrl \/ Worker
      BY <2>3, <1>0
    <3> QED
      BY <2>1, <2>3, <3>1, <3>2, <1>p, StartSees
  <2> QED
    BY <1>7, <2>2, <2>3 DEF Statement
<1>8. CASE Retry
  <2>1. at = "retry" /\ UNCHANGED <<env, phase, flags>>
    BY <1>8 DEF Retry
  <2>2. CASE UNCHANGED <<conn, sess, instr>> /\ at' = "check"
    BY <2>1, <2>2, <1>p, SightUntouched DEF Awaited
  <2>3. CASE InitDebugger(socket, "initRetry", "check")
    <3>1. "initRetry" \in Inits
      BY DEF Inits
    <3>2. conf.onDemand \/ conf.ctrl \/ Worker
      BY <2>1, <1>0
    <3>3. Alone => conf.onDemand
      BY <3>2 DEF Alone
    <3> QED
      BY <2>1, <2>3, <3>1, <3>2, <3>3, <1>p, StartSees
  <2> QED
    BY <1>8, <2>2, <2>3 DEF Retry
<1>9. CASE CheckStatement
  <2>1. /\ at = "check" /\ at' \in {"php", "stopStatement"}
        /\ UNCHANGED <<env, phase, conn, sess, instr>> /\ doConnect' = doConnect
        /\ at' = "stopStatement" => enabled /\ (doBreak \/ stepping # "none" \/ "line" \in bps)
        /\ at' = "php" => UNCHANGED <<doBreak, stepping>>
    BY <1>9 DEF CheckStatement
  <2> QED
    BY <2>1, <1>p, <1>q, SightUntouched DEF Awaited, Stops
<1>10. CASE Return
  <2>1. /\ at = "php" /\ at' \in {"php", "value", "stopReturn"}
        /\ UNCHANGED <<env, phase, conn, sess, instr, flags>>
        /\ at' = "stopReturn" => enabled /\ "return" \in bps
    BY <1>10 DEF Return
  <2> QED
    BY <2>1, <1>p, <1>q, SightUntouched DEF Awaited, Stops
<1>11. CASE ReturnValue
  <2>1. /\ at = "value" /\ at' \in {"php", "stopValue"}
        /\ UNCHANGED <<env, phase, conn, sess, instr, doConnect, doBreak>>
        /\ at' = "stopValue" => enabled /\ stepping # "none"
        /\ at' = "php" => UNCHANGED stepping
    BY <1>11 DEF ReturnValue
  <2> QED
    BY <2>1, <1>p, <1>q, SightUntouched DEF Awaited, Stops
<1>12. CASE Leave \/ Fork \/ Fatal \/ EndOfScript
  <2>1. /\ at \notin Loops /\ at' \in {"php", "forked"}
        /\ UNCHANGED <<env, enabled, early, sess, instr, flags>>
        /\ phase' \in {phase, "bail", "shutdown"}
    BY <1>12, <1>p DEF Leave, Fork, Fatal, EndOfScript, Running
  <2> QED
    BY <2>1, <1>p, SightUntouched DEF Awaited
<1>13. CASE Error
  <2>1. at = "php" /\ UNCHANGED <<env, phase, flags>>
    BY <1>13 DEF Error
  <2>2. CASE UNCHANGED <<conn, sess, instr>> /\ at' = "checkError"
    BY <2>1, <2>2, <1>p, SightUntouched DEF Awaited
  <2>3. CASE conf.uponError /\ InitDebugger(socket, "initError", "checkError")
    <3>1. "initError" \in Inits
      BY DEF Inits
    <3>2. Alone => conf.onDemand \/ stmt
      BY <2>3, <1>0
    <3> QED
      BY <2>1, <2>3, <3>1, <3>2, <1>p, StartSees
  <2> QED
    BY <1>13, <2>2, <2>3 DEF Error
<1>14. CASE CheckError
  <2>1. /\ at = "checkError" /\ at' \in {"php", "stopError"}
        /\ UNCHANGED <<env, phase, conn, sess, instr, flags>>
        /\ at' = "stopError" => enabled /\ "exception" \in bps
    BY <1>14 DEF CheckError
  <2> QED
    BY <2>1, <1>p, <1>q, SightUntouched DEF Awaited, Stops
<1>15. CASE XdebugBreak
  <2>1. at = "php" /\ UNCHANGED <<env, phase, flags>> /\ (enabled \/ conf.onDemand)
    BY <1>15 DEF XdebugBreak, Running
  <2>2. CASE UNCHANGED <<conn, sess, instr>> /\ at' = "signal"
    BY <2>1, <2>2, <1>p, SightUntouched DEF Awaited
  <2>3. CASE ~enabled /\ InitDebugger(socket, "initBreak", "signal")
    <3>1. "initBreak" \in Inits
      BY DEF Inits
    <3> QED
      BY <2>1, <2>3, <3>1, <1>p, StartSees
  <2> QED
    BY <1>15, <2>2, <2>3 DEF XdebugBreak
<1>16. CASE Signal
  BY <1>16, <1>0
  DEF Signal, SightInv, ConnectAsked, PlaceInRequest, EarlyTried, ObserverKept,
      SwitchedTogether, PromptSees, AwaitedSees, Awaited, Alone, Worker, Requested,
      RequestedBy, Loops, Inits, Stops
<1>17. CASE ConnectToClient \/ Pause
  <2>1. /\ at = "php" /\ at' = "php" /\ (conf.onDemand \/ conf.ctrl)
        /\ UNCHANGED <<env, phase, conn>> /\ stmt' = TRUE /\ observer' = TRUE
    BY <1>17 DEF ConnectToClient, Pause, Running
  <2> QED
    BY <2>1, <1>p
    DEF SightInv, ConnectAsked, PlaceInRequest, EarlyTried, ObserverKept,
        SwitchedTogether, PromptSees, AwaitedSees, Alone, Worker, Requested, RequestedBy
<1>18. CASE Forked
  <2>1. at = "forked" /\ UNCHANGED <<env, phase, flags>>
    BY <1>18 DEF Forked
  <2>2. CASE UNCHANGED <<conn, sess, instr>> /\ at' = "php"
    BY <2>1, <2>2, <1>p, SightUntouched DEF Awaited
  <2>3. CASE enabled /\ InitDebugger("none", "initFork", "php")
    <3>1. "initFork" \in Inits
      BY DEF Inits
    <3>2. Alone => conf.onDemand \/ stmt \/ (early /\ "none" # "open")
      BY <2>3, <1>0 DEF Alone
    <3> QED
      BY <2>1, <2>3, <3>1, <3>2, <1>0, <1>p, StartSees
  <2> QED
    BY <1>18, <2>2, <2>3 DEF Forked
<1>19. ASSUME NEW t \in {"none", "start", "ignore"}, RequestStart(t) PROVE SightInv'
  <2>1. PICK answered \in BOOLEAN :
       LET wanted    == RequestedBy(t)
           connected == wanted /\ (conf.cloud \/ answered)
           used      == connected \/ conf.onDemand \/ conf.ctrl
       IN /\ early' = (early \/ wanted) /\ observer' = used /\ stmt' = (connected \/ ~used)
    BY <1>19 DEF RequestStart
  <2>2. /\ at = "php" /\ at' = "php" /\ conf' = conf /\ trig' = t
        /\ enabled' = FALSE /\ doConnect' = FALSE
        /\ phase' = (IF Worker THEN "parked" ELSE "run")
    BY <1>19 DEF RequestStart
  <2>3. RequestedBy(t) => early'
    BY <2>1
  <2>4. conf.onDemand => observer'
    BY <2>1
  <2>5. ~conf.onDemand /\ ~conf.ctrl => stmt'
    BY <2>1
  <2>6. Requested' <=> RequestedBy(t)
    BY <2>2 DEF Requested, RequestedBy
  <2> QED
    BY <2>2, <2>3, <2>4, <2>5, <2>6, <1>p
    DEF SightInv, ConnectAsked, PlaceInRequest, EarlyTried, ObserverKept,
        SwitchedTogether, PromptSees, AwaitedSees, Alone, Worker
<1>20. ASSUME NEW t \in {"none", "start", "ignore"}, WorkerActivate(t) PROVE SightInv'
  <2>1. Worker /\ Worker' /\ at = "php" /\ at' = "php" /\ ~enabled'
    BY <1>20, <1>0 DEF WorkerActivate, Worker, SessionInv, QuietBetweenRequests
  <2> QED
    BY <2>1, <1>p
    DEF SightInv, ConnectAsked, PlaceInRequest, EarlyTried, ObserverKept,
        SwitchedTogether, PromptSees, AwaitedSees, Alone
<1>21. CASE RequestEnd
  <2>1. /\ at = "php" /\ UNCHANGED <<env, phase, conn, sess, flags, instr>>
        /\ at' \in {"deinit", "ended"} /\ (phase = "run" => Worker)
    BY <1>21 DEF RequestEnd
  <2> QED
    BY <2>1, <1>0
    DEF SightInv, ConnectAsked, PlaceInRequest, EarlyTried, ObserverKept, Requested,
        RequestedBy, SwitchedTogether, PromptSees, AwaitedSees, Alone, Worker
<1>22. CASE Ended
  <2>1. /\ at = "ended" /\ at' = "php" /\ UNCHANGED <<env, early, flags, instr>> /\ enabled' = FALSE
        /\ phase' = (IF phase = "run" THEN "parked" ELSE "idle")
    BY <1>22 DEF Ended, MarkNotActive
  <2> QED
    BY <2>1, <1>0, <1>p
    DEF SightInv, ConnectAsked, PlaceInRequest, EarlyTried, ObserverKept, Requested,
        RequestedBy, SwitchedTogether, PromptSees, AwaitedSees, Alone, Worker
<1>23. CASE ConnectionLost
  <2>1. /\ at \in Loops /\ at' = After[at] /\ enabled' = FALSE
        /\ UNCHANGED <<env, phase, early, flags, observer>>
        /\ stmt' = (stmt /\ ~(at \in Inits /\ conf.onDemand))
    BY <1>23 DEF ConnectionLost, MarkNotActive
  <2>2. /\ at' \notin Loops /\ (at' = "retry" => at = "initConnect")
        /\ at' \in {"deinit", "ended"} => at = "deinit"
    BY <2>1 DEF After, Loops, Inits, Stops
  <2> QED
    BY <2>1, <2>2, <1>0
    DEF SightInv, ConnectAsked, PlaceInRequest, EarlyTried, ObserverKept, Requested, Inits,
        Loops, RequestedBy, SwitchedTogether, PromptSees, AwaitedSees, Alone, Worker
<1>24. CASE SendFails
  <2>1. /\ at = "php" /\ at' = "php" /\ enabled' = FALSE
        /\ UNCHANGED <<env, phase, early, flags, instr>>
    BY <1>24 DEF SendFails, MarkNotActive
  <2> QED
    BY <2>1, <1>0, <1>p, SightUntouched DEF Awaited
<1>25. CASE UNCHANGED vars
  BY <1>25
  DEF vars, SightInv, ConnectAsked, PlaceInRequest, EarlyTried, ObserverKept, Requested,
      RequestedBy, SwitchedTogether, PromptSees, AwaitedSees, Awaited, Alone, Worker
<1> QED
  BY <1>1, <1>2, <1>3, <1>4, <1>5, <1>6, <1>7, <1>8, <1>9, <1>10, <1>11, <1>12, <1>13, <1>14,
     <1>15, <1>16, <1>17, <1>18, <1>19, <1>20, <1>21, <1>22, <1>23, <1>24, <1>25
  DEF Next, Client, Script, Handlers, Engine

\* While a session waits for a break, a step or a breakpoint, the handlers that would see
\* it are switched on: nothing that switches the instrumentation off, at the end of
\* xdebug_dbgp_cmdloop(), of xdebug_init_debugger() or in the observer, blinds it.
THEOREM SessionsSeeTheScript == Spec => []SessionSeesScript
<1>1. SightInv => SessionSeesScript
  BY DEF SightInv, AwaitedSees, Alone, SessionSeesScript, Loops, Inits, Stops
<1> QED
  BY <1>1, SightInit, SightStep, Invariance, PTL DEF Spec

-----------------------------------------------------------------------------
(* With on-demand debugging the debugger's frames are those of the calls.  *)

\* Between the start of a call and its frame the stack is one frame behind.
Entering == at \in {"initStartup", "enter"}

\* Every call is observed, and has its frame.
FramesInStep ==
    conf.onDemand /\ ~Worker /\ phase = "run" =>
        /\ cached \subseteq {TRUE}
        /\ \A i \in 1..Len(calls) : calls[i].handled
        /\ Entering => Len(calls) = Len(stack) + 1
        /\ ~Entering => Len(calls) = Len(stack)
        /\ \A i \in 1..Len(stack) : stack[i] = i - 1

LEMMA FramesUntouched ==
    ASSUME FramesInStep, UNCHANGED <<conf, stack, cached>>,
           phase' = "run" => phase = "run" /\ calls' = calls /\ (Entering' <=> Entering)
    PROVE  FramesInStep'
BY DEF FramesInStep, Worker

\* The place after a loop is in a call's begin handler only for the loop that starts a
\* session in it.
LEMMA AfterEntering == \A l \in Loops : After[l] \in {"initStartup", "enter"} <=> l = "initStartup"
BY DEF Loops, Inits, Stops, After

\* The last frame goes with the last call.
LEMMA FramesPopped ==
    ASSUME TypeOK, FramesInStep, ~Entering, calls # << >>, PopFrame, ~Entering',
           UNCHANGED <<conf, phase, cached>>
    PROVE  FramesInStep'
<1> SUFFICES ASSUME conf.onDemand /\ ~Worker /\ phase = "run"
             PROVE  /\ cached' \subseteq {TRUE}
                    /\ \A i \in 1..Len(calls') : calls'[i].handled
                    /\ Len(calls') = Len(stack')
                    /\ \A i \in 1..Len(stack') : stack'[i] = i - 1
    BY DEF FramesInStep, Worker
<1> DEFINE C == [handled : BOOLEAN, user : BOOLEAN]
<1>1. calls \in Seq(C) /\ stack \in Seq(Nat) /\ Len(calls) \in Nat /\ Len(calls) > 0
  BY EmptySeq DEF TypeOK, ExecOK
<1>2. /\ cached \subseteq {TRUE} /\ (\A i \in 1..Len(calls) : calls[i].handled)
      /\ Len(calls) = Len(stack) /\ (\A i \in 1..Len(stack) : stack[i] = i - 1)
  BY DEF FramesInStep
<1>3. ASSUME NEW S, NEW s \in Seq(S), Len(s) > 0
      PROVE  /\ Len(SubSeq(s, 1, Len(s) - 1)) = Len(s) - 1
             /\ \A i \in 1..(Len(s) - 1) : SubSeq(s, 1, Len(s) - 1)[i] = s[i]
  <2>1. Len(s) \in Nat /\ Len(s) - 1 \in Int /\ \A i \in 1..(Len(s) - 1) : s[i] \in S
    BY LenProperties, ElementOfSeq
  <2>2. /\ Len(SubSeq(s, 1, Len(s) - 1)) = IF 1 <= Len(s) - 1 THEN (Len(s) - 1) - 1 + 1 ELSE 0
        /\ \A i \in 1..((Len(s) - 1) - 1 + 1) : SubSeq(s, 1, Len(s) - 1)[i] = s[1 + i - 1]
    BY <2>1, SubSeqProperties
  <2>3. ASSUME NEW n \in Nat, n > 0
        PROVE  /\ (IF 1 <= n - 1 THEN (n - 1) - 1 + 1 ELSE 0) = n - 1
               /\ (n - 1) - 1 + 1 = n - 1
               /\ \A i \in 1..(n - 1) : 1 + i - 1 = i
    BY <2>3
  <2> QED
    BY <1>3, <2>1, <2>2, <2>3
<1>4. /\ Len(calls') = Len(calls) - 1 /\ Len(stack') = Len(stack) - 1
      /\ \A i \in 1..(Len(calls) - 1) : calls'[i] = calls[i]
      /\ \A i \in 1..(Len(stack) - 1) : stack'[i] = stack[i]
  BY <1>1, <1>2, <1>3 DEF PopFrame
<1>5. \A i \in 1..(Len(calls) - 1) : i \in 1..Len(calls)
  BY <1>1
<1>6. \A i \in 1..Len(calls') : calls'[i].handled
  BY <1>2, <1>4, <1>5
<1> QED
  BY <1>1, <1>2, <1>4, <1>5, <1>6

LEMMA FramesInit == Init => FramesInStep
<1>1. Len(<< >>) = 0
  OBVIOUS
<1> QED
  BY <1>1 DEF Init, FramesInStep

LEMMA FramesStep == SessionInv /\ SightInv /\ FramesInStep /\ [Next]_vars => FramesInStep'
<1> SUFFICES ASSUME SessionInv, SightInv, FramesInStep, [Next]_vars PROVE FramesInStep'
    OBVIOUS
<1> USE DEF env, conn, sess, flags, instr, exec
<1>0. /\ TypeOK /\ (phase = "parked" => Worker)
      /\ conf.onDemand /\ ~Worker /\ phase = "run" => observer
      /\ at \in {"initStartup", "enter", "stopReturn", "value", "stopValue", "leave"}
         => calls # << >>
  BY DEF SessionInv, SightInv, PlaceInRequest, ObserverKept, CallIsOpen
<1>1. ASSUME NEW looksEmpty, NEW stop, at \in Loops, LeaveLoop(looksEmpty, stop), conf' = conf
      PROVE  FramesInStep'
  <2>1. /\ UNCHANGED <<stack, cached>> /\ (phase # "run" \/ calls' = calls)
        /\ \/ phase' # "run"
           \/ phase' = phase /\ at' = After[at]
    BY <1>1 DEF LeaveLoop
  <2>2. phase' = "run" => phase = "run" /\ (Entering' <=> Entering)
    BY <1>1, <2>1, AfterEntering DEF Entering, Loops, Inits, Stops
  <2> QED
    BY <1>1, <2>1, <2>2, FramesUntouched
<1>2. CASE Client
  <2>1. CASE Configure
    BY <2>1, FramesUntouched DEF Configure, Entering
  <2> QED
    BY <1>1, <1>2, <2>1 DEF Client, Continue, StopCommand, Detach, RefusedCommand
<1>3. ASSUME NEW user \in BOOLEAN, Call(user) PROVE FramesInStep'
  <2> SUFFICES ASSUME conf.onDemand, ~Worker, phase = "run"
               PROVE  /\ cached' \subseteq {TRUE}
                      /\ \A i \in 1..Len(calls') : calls'[i].handled
                      /\ Len(calls') = Len(stack) + 1
                      /\ Entering'
                      /\ UNCHANGED stack
                      /\ \A i \in 1..Len(stack) : stack[i] = i - 1
    <3>1. UNCHANGED <<conf, phase>>
      BY <1>3 DEF Call
    <3> QED
      BY <3>1 DEF FramesInStep, Worker
  <2>1. /\ at = "php" /\ UNCHANGED stack /\ cached \subseteq {TRUE} /\ observer
        /\ \A i \in 1..Len(calls) : calls[i].handled
        /\ Len(calls) = Len(stack)
        /\ \A i \in 1..Len(stack) : stack[i] = i - 1
    BY <1>0, <1>3 DEF Call, Running, FramesInStep, Entering
  <2>2. PICK h \in cached \cup {observer \/ Worker} :
          /\ cached' = cached \cup {h}
          /\ calls' = Append(calls, [handled |-> h, user |-> user])
          /\ IF ~(h /\ observer) THEN UNCHANGED <<at, conn, sess, instr>>
             ELSE IF FirstFrame(user)
                  THEN InitDebugger(socket, "initStartup", "enter")
                  ELSE at' = "enter" /\ UNCHANGED <<conn, sess, instr>>
    BY <1>3 DEF Call
  <2>3. h = TRUE
    BY <2>1, <2>2
  <2>4. Entering'
    BY <2>1, <2>2, <2>3, InitDebuggerSwitches DEF Entering
  <2> DEFINE call == [handled |-> h, user |-> user]
             C    == [handled : BOOLEAN, user : BOOLEAN]
  <2>5. call \in C /\ call.handled /\ calls \in Seq(C)
    BY <1>0, <2>3 DEF TypeOK, ExecOK
  <2> HIDE DEF call
  <2>6. /\ Len(calls') = Len(calls) + 1 /\ Len(calls) \in Nat
        /\ \A i \in 1..(Len(calls) + 1) : calls'[i] = IF i = Len(calls) + 1 THEN call ELSE calls[i]
    BY <2>2, <2>5 DEF call
  <2>7. \A i \in 1..Len(calls') : calls'[i].handled
    <3> SUFFICES ASSUME NEW i \in 1..Len(calls') PROVE calls'[i].handled
        OBVIOUS
    <3>1. CASE i = Len(calls) + 1
      BY <2>5, <2>6, <3>1
    <3>2. CASE i \in 1..Len(calls)
      <4>1. calls'[i] = calls[i]
        BY <2>6, <3>2
      <4> QED
        BY <2>1, <3>2, <4>1
    <3> QED
      BY <2>6, <3>1, <3>2
  <2>8. cached' \subseteq {TRUE}
    BY <2>1, <2>2, <2>3
  <2>9. Len(calls') = Len(stack) + 1
    BY <2>1, <2>6
  <2> QED
    BY <2>1, <2>4, <2>7, <2>8, <2>9
<1>4. CASE Enter
  <2> SUFFICES ASSUME conf.onDemand, ~Worker, phase = "run"
               PROVE  /\ UNCHANGED <<calls, cached>> /\ ~Entering'
                      /\ Len(calls) = Len(stack')
                      /\ \A i \in 1..Len(stack') : stack'[i] = i - 1
    <3>1. UNCHANGED <<conf, phase, calls, cached>>
      BY <1>4 DEF Enter
    <3> QED
      BY <3>1 DEF FramesInStep, Worker
  <2>1. /\ UNCHANGED <<calls, cached>> /\ ~Entering' /\ Entering
        /\ stack' = Append(stack, Len(calls) - 1)
    BY <1>4 DEF Enter, Entering
  <2>2. /\ Len(calls) = Len(stack) + 1 /\ stack \in Seq(Nat) /\ Len(stack) \in Nat
        /\ \A i \in 1..Len(stack) : stack[i] = i - 1
    BY <1>0, <2>1 DEF FramesInStep, TypeOK, ExecOK
  <2>3. /\ Len(stack') = Len(stack) + 1
        /\ \A i \in 1..(Len(stack) + 1) :
              stack'[i] = IF i = Len(stack) + 1 THEN Len(calls) - 1 ELSE stack[i]
    BY <2>1, <2>2
  <2> QED
    BY <2>1, <2>2, <2>3
<1>5. CASE Return
  <2>1. /\ at = "php" /\ ~Entering /\ ~Entering' /\ calls # << >>
        /\ UNCHANGED <<conf, phase, stack, cached>>
    BY <1>5 DEF Return, Entering
  <2>2. ASSUME conf.onDemand, ~Worker, phase = "run" PROVE UNCHANGED calls
    <3>1. /\ Len(calls) \in Nat /\ Len(calls) > 0 /\ Len(stack) = Len(calls)
          /\ calls[Len(calls)].handled
          /\ stack[Len(stack)] = Len(calls) - 1
      <4>1. Len(calls) \in Nat /\ Len(calls) > 0 /\ Len(stack) = Len(calls)
        BY <1>0, <2>1, <2>2, EmptySeq DEF TypeOK, ExecOK, FramesInStep
      <4>2. Len(calls) \in 1..Len(calls)
        BY <4>1
      <4> QED
        BY <2>1, <2>2, <4>1, <4>2 DEF FramesInStep
    <3>2. stack # << >> /\ observer
      <4>1. Len(<< >>) = 0
        OBVIOUS
      <4> QED
        BY <1>0, <2>2, <3>1, <4>1
    <3> QED
      BY <1>5, <3>1, <3>2 DEF Return
  <2>3. CASE UNCHANGED calls
    BY <2>1, <2>3, FramesUntouched
  <2>4. CASE ~(conf.onDemand /\ ~Worker /\ phase = "run")
    BY <2>1, <2>4 DEF FramesInStep, Worker
  <2> QED
    BY <2>2, <2>3, <2>4
<1>6. CASE ReturnValue
  <2>1. /\ at = "value" /\ ~Entering /\ ~Entering' /\ UNCHANGED <<conf, phase, cached>>
        /\ PopFrame \/ UNCHANGED <<calls, stack>>
    BY <1>6 DEF ReturnValue, Entering
  <2> QED
    BY <1>0, <2>1, FramesPopped, FramesUntouched
<1>7. CASE Leave
  <2>1. at = "leave" /\ ~Entering /\ ~Entering' /\ UNCHANGED <<conf, phase, cached>> /\ PopFrame
    BY <1>7 DEF Leave, Entering
  <2> QED
    BY <1>0, <2>1, FramesPopped
<1>8. CASE Statement \/ Retry \/ Error \/ Forked
  <2>1. /\ UNCHANGED <<conf, phase, exec>> /\ ~Entering /\ ~Entering'
    <3>1. /\ UNCHANGED <<conf, phase, exec>> /\ at \in {"php", "retry", "forked"}
          /\ \/ at' \in {"check", "retry", "checkError", "php"}
             \/ InitDebugger(socket, "initConnect", "retry")
             \/ InitDebugger(socket, "initRetry", "check")
             \/ InitDebugger(socket, "initError", "checkError")
             \/ InitDebugger("none", "initFork", "php")
      BY <1>8 DEF Statement, Retry, Error, Forked, Running
    <3>2. at' \in {"check", "retry", "checkError", "php", "initConnect", "initRetry",
                   "initError", "initFork"}
      BY <3>1, InitDebuggerSwitches
    <3> QED
      BY <3>1, <3>2 DEF Entering
  <2> QED
    BY <2>1, FramesUntouched
<1>9. CASE XdebugBreak
  <2>1. /\ UNCHANGED <<conf, phase, calls, cached>> /\ ~Entering /\ ~Entering' /\ stack' = Rebuilt
    <3>1. /\ UNCHANGED <<conf, phase, calls, cached>> /\ at = "php" /\ stack' = Rebuilt
          /\ at' = "signal" \/ InitDebugger(socket, "initBreak", "signal")
      BY <1>9 DEF XdebugBreak, Running
    <3>2. at' \in {"signal", "initBreak"}
      BY <3>1, InitDebuggerSwitches
    <3> QED
      BY <3>1, <3>2 DEF Entering
  <2>2. conf.onDemand /\ ~Worker /\ phase = "run" => UNCHANGED stack
    BY <1>0, <2>1 DEF Rebuilt
  <2> QED
    BY <2>1, <2>2 DEF FramesInStep, Worker
<1>10. CASE ConnectToClient \/ Pause
  <2>1. /\ UNCHANGED <<conf, phase, at, calls, cached>> /\ stack' = Rebuilt
    BY <1>10 DEF ConnectToClient, Pause
  <2>2. conf.onDemand /\ ~Worker /\ phase = "run" => UNCHANGED stack
    BY <1>0, <2>1 DEF Rebuilt
  <2> QED
    BY <2>1, <2>2 DEF FramesInStep, Worker, Entering
<1>11. CASE CheckStatement \/ CheckError \/ Signal \/ Fork \/ SendFails
  BY <1>11, FramesUntouched
  DEF CheckStatement, CheckError, Signal, Fork, SendFails, Running, Entering
<1>12. CASE Fatal \/ EndOfScript \/ RequestEnd
  BY <1>12, FramesUntouched DEF Fatal, EndOfScript, RequestEnd, Entering
<1>13. CASE Ended
  BY <1>13 DEF Ended, FramesInStep
<1>14. CASE ConnectionLost
  <2>1. Entering' <=> Entering
    BY <1>14, AfterEntering DEF ConnectionLost, Entering, Loops, Inits, Stops
  <2> QED
    BY <1>14, <2>1, FramesUntouched DEF ConnectionLost
<1>15. ASSUME NEW t \in {"none", "start", "ignore"}, RequestStart(t) PROVE FramesInStep'
  <2>1. Len(<< >>) = 0
    OBVIOUS
  <2>2. calls' = << >> /\ stack' = << >> /\ cached' = {} /\ at' = "php"
    BY <1>15 DEF RequestStart
  <2> QED
    BY <2>1, <2>2 DEF FramesInStep, Entering
<1>16. ASSUME NEW t \in {"none", "start", "ignore"}, WorkerActivate(t) PROVE FramesInStep'
  BY <1>0, <1>16 DEF WorkerActivate, FramesInStep, Worker
<1>17. CASE UNCHANGED vars
  BY <1>17, FramesUntouched DEF vars, Entering
<1> QED
  BY <1>2, <1>3, <1>4, <1>5, <1>6, <1>7, <1>8, <1>9, <1>10, <1>11, <1>12, <1>13, <1>14,
     <1>15, <1>16, <1>17
  DEF Next, Script, Handlers, Engine

\* With on-demand debugging a client sees, at every statement where the script stops, the
\* frames of the calls that are open: the observer is never switched off, so that
\* xdebug_execute_begin() and xdebug_execute_end() see every call begin and end.
THEOREM OnDemandFramesAreExact == Spec => []OnDemandFramesMirrorCalls
<1>1. SessionInv /\ FramesInStep => OnDemandFramesMirrorCalls
  <2> SUFFICES ASSUME SessionInv, FramesInStep, conf.onDemand, ~Worker, phase = "run",
                      at = "stopStatement"
               PROVE  stack = OpenFrames
      BY DEF OnDemandFramesMirrorCalls, FramesMirrorCalls
  <2>1. /\ Len(calls) = Len(stack) /\ stack \in Seq(Nat)
        /\ \A i \in 1..Len(stack) : stack[i] = i - 1
    BY DEF FramesInStep, Entering, SessionInv, TypeOK, ExecOK
  <2>2. stack = [i \in 1..Len(stack) |-> stack[i]]
    BY <2>1
  <2> QED
    BY <2>1, <2>2 DEF OpenFrames
<1> QED
  BY <1>1, SightInit, SightStep, FramesInit, FramesStep, Invariance, PTL DEF Spec

-----------------------------------------------------------------------------
(* A client that has detached stays away.                                   *)

\* When nothing asks any more, no session and nothing on the way to one is left.
LeftAlone ==
    detached /\ ~asked =>
        ~enabled /\ ~doConnect /\ ~(at = "retry" /\ conf.start = "trigger")

HistoryInv == SessionInv /\ LeftAlone

\* Detaching keeps what was signalled before; where the code goes on at its second attempt to
\* connect, the first one was left by detaching.
LEMMA DetachLeaves == SessionInv /\ Detach /\ asked' = StillAsked => LeftAlone'
<1> SUFFICES ASSUME SessionInv, Detach, asked' = StillAsked, ~asked'
             PROVE  ~enabled' /\ ~doConnect' /\ ~(at' = "retry" /\ conf'.start = "trigger")
    BY DEF LeftAlone
<1>1. ~enabled' /\ UNCHANGED doConnect /\ UNCHANGED conf /\ at \in Loops /\ at' \in {"php", After[at]}
  BY DEF Detach, MarkNotActive, flags, env, LeaveLoop
<1>2. ~doConnect /\ ~(at = "initConnect" /\ conf.start = "trigger")
  BY DEF StillAsked
<1>3. at' = "retry" => at = "initConnect"
  BY <1>1 DEF Loops, Inits, Stops, After
<1> QED
  BY <1>1, <1>2, <1>3

\* Any other step leaves the script alone, or asks.
LEMMA LeftAloneStep ==
    ASSUME HistoryInv, Next, ~Detach, asked' = (asked \/ Asking)
    PROVE  LeftAlone'
<1> SUFFICES ASSUME detached', ~asked'
             PROVE  ~enabled' /\ ~doConnect' /\ ~(at' = "retry" /\ conf'.start = "trigger")
    BY DEF LeftAlone
<1> USE DEF env, conn, sess, flags, instr, exec
<1>1. ~asked /\ ~doConnect' /\ ~XdebugBreak /\ ~(conf.uponError /\ Error)
  BY DEF Asking
<1>2. /\ detached => ~enabled /\ ~doConnect /\ ~(at = "retry" /\ conf.start = "trigger")
      /\ at \in Loops => enabled
  BY <1>1 DEF HistoryInv, LeftAlone, SessionInv, LoopOwnsConnection
<1> SUFFICES enabled' = FALSE /\ ~(at' = "retry" /\ conf'.start = "trigger")
    BY <1>1
<1>4. detached
  <2>1. ASSUME Client \/ ConnectionLost, ~detached PROVE FALSE
    BY <2>1 DEF Client, Continue, StopCommand, RefusedCommand, Configure, ConnectionLost
  <2>2. ASSUME NEW user \in BOOLEAN, Call(user), ~detached PROVE FALSE
    BY <2>2 DEF Call, InitDebugger
  <2>3. ASSUME Statement \/ Retry \/ Error \/ Forked, ~detached PROVE FALSE
    BY <2>3 DEF Statement, Retry, Error, Forked, InitDebugger
  <2>4. ASSUME Return \/ ConnectToClient \/ Fork \/ Fatal \/ Pause \/ SendFails, ~detached
        PROVE  FALSE
    BY <2>4 DEF Return, ConnectToClient, Fork, Fatal, Pause, SendFails
  <2>5. ASSUME Enter \/ CheckStatement \/ ReturnValue \/ Leave \/ CheckError \/ Signal \/ Ended,
               ~detached
        PROVE  FALSE
    BY <2>5 DEF Enter, CheckStatement, ReturnValue, Leave, CheckError, Signal, Ended
  <2>6. ~Engine \/ detached
    BY DEF Engine, RequestStart, WorkerActivate, EndOfScript, RequestEnd
  <2> QED
    BY <1>1, <2>1, <2>2, <2>3, <2>4, <2>5, <2>6 DEF Next, Script, Handlers
<1>5. /\ enabled = FALSE /\ ~doConnect /\ ~(at = "retry" /\ conf.start = "trigger")
      /\ at \notin Loops
  BY <1>2, <1>4 DEF HistoryInv, SessionInv, TypeOK, ConnOK
<1>6. ~Client /\ ~ConnectionLost
  BY <1>5 DEF Client, Continue, StopCommand, Detach, RefusedCommand, Configure, ConnectionLost
<1>7. ASSUME NEW user \in BOOLEAN, Call(user)
      PROVE  enabled' = FALSE /\ ~(at' = "retry" /\ conf'.start = "trigger")
  <2>1. ~FirstFrame(user)
    BY <1>4 DEF FirstFrame
  <2> QED
    BY <1>5, <1>7, <2>1 DEF Call, Running
<1>8. CASE Statement \/ Retry
  BY <1>5, <1>8 DEF Statement, Retry, Running
<1>9. CASE Error
  BY <1>1, <1>5, <1>9 DEF Error
<1>10. CASE Forked
  BY <1>5, <1>10 DEF Forked
<1>11. CASE Return \/ Fork \/ Fatal \/ SendFails
  BY <1>5, <1>11 DEF Return, Fork, Fatal, SendFails
<1>12. CASE ConnectToClient \/ Pause
  BY <1>5, <1>12 DEF ConnectToClient, Pause, Running
<1>13. CASE Enter \/ CheckStatement \/ ReturnValue \/ Leave \/ CheckError \/ Signal
  BY <1>5, <1>13 DEF Enter, CheckStatement, ReturnValue, Leave, CheckError, Signal
<1>14. CASE Ended
  BY <1>14 DEF Ended, MarkNotActive
<1>15. ASSUME NEW t \in {"none", "start", "ignore"}, RequestStart(t) \/ WorkerActivate(t)
       PROVE  enabled' = FALSE /\ ~(at' = "retry" /\ conf'.start = "trigger")
  BY <1>5, <1>15 DEF RequestStart, WorkerActivate
<1>16. CASE EndOfScript \/ RequestEnd
  BY <1>5, <1>16 DEF EndOfScript, RequestEnd
<1> QED
  BY <1>1, <1>6, <1>7, <1>8, <1>9, <1>10, <1>11, <1>12, <1>13, <1>14, <1>15, <1>16
  DEF Next, Script, Handlers, Engine

\* After detach no session begins, by whatever way the code starts one, until the script, an
\* error, the control socket or another request of a worker asks for it.
THEOREM DetachingLasts == HistorySpec => []DetachLasts
<1>1. HistoryInit => HistoryInv
  BY InvInit DEF HistoryInit, HistoryInv, LeftAlone, Init
<1>2. HistoryInv /\ [HistoryNext]_historyVars => HistoryInv'
  <2> SUFFICES ASSUME HistoryInv, [HistoryNext]_historyVars PROVE HistoryInv'
      OBVIOUS
  <2>1. SessionInv'
    BY InvStep DEF HistoryInv, HistoryNext, historyVars
  <2>2. CASE HistoryNext /\ Detach
    BY <2>1, <2>2, DetachLeaves DEF HistoryInv, HistoryNext
  <2>3. CASE HistoryNext /\ ~Detach
    BY <2>1, <2>3, LeftAloneStep DEF HistoryInv, HistoryNext
  <2>4. CASE UNCHANGED historyVars
    BY <2>1, <2>4 DEF historyVars, vars, env, conn, sess, flags, HistoryInv, LeftAlone
  <2> QED
    BY <2>2, <2>3, <2>4
<1>3. HistoryInv => DetachLasts
  BY DEF HistoryInv, LeftAlone, DetachLasts
<1> QED
  BY <1>1, <1>2, <1>3, PTL DEF HistorySpec
=============================================================================
