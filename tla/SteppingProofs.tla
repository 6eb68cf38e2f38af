---------------------------- MODULE SteppingProofs ----------------------------
(* What holds of Stepping for every set of fibers and every bound. *)
EXTENDS Stepping, SequenceTheorems, TLAPS

Frame == [nr : Numbers \ {-1}, user : BOOLEAN]
Step  == [kind : {"none", "into", "over", "out"}, level : -1..MaxLevel,
          nr : Numbers, stack : Threads \cup {"none"}]

-----------------------------------------------------------------------------
(* The inductive invariant.                                                *)

\* No stack is higher than MaxLevel, and a fiber that has ended has left none.
StacksAreBounded ==
    /\ \A f \in Threads : Len(stacks[f]) <= MaxLevel
    /\ \A f \in ended : stacks[f] = << >>

\* The fibers between the main program and the one that runs: each was resumed by
\* another that waits for it, and for no one else.
Waiting == {f \in Threads \ ended : resumer[f] # f}

ResumersWait ==
    /\ current \notin ended /\ current \in Waiting \cup {Main}
    /\ Main \notin Waiting
    /\ \A f \in Waiting : /\ resumer[f] \notin ended /\ resumer[f] # current
                          /\ resumer[f] \in Waiting \cup {Main}
    /\ \A f, g \in Waiting : resumer[f] = resumer[g] => f = g

\* What a step compares with is the place where it was given, as long as that place
\* has a stack.
StepRemembersOrigin ==
    /\ step.kind = "over" =>
          /\ step.level = origin.level
          /\ step.stack = origin.fiber \/ origin.level = 0 \/ origin.fiber \in ended
          /\ step.stack \notin ended
    /\ step.kind = "out" =>
          IF origin.level = 0 THEN step.level = -1
                              ELSE step.level = origin.level /\ step.nr = origin.nr

\* why tells of the stop the client is looking at, and of no other.
StopsAreShown == at \in {"php", "value", "leave"} => why = "none"

IInv == TypeOK /\ StacksAreBounded /\ ResumersWait /\ StepRemembersOrigin /\ StopsAreShown

-----------------------------------------------------------------------------
(* Stacks.                                                                 *)

\* What the proofs use of the bounds.
LEMMA BoundsAre == MaxLevel \in Nat /\ MaxLevel >= 1 /\ MaxFrames \in Nat
BY BoundsAssumption

\* Pushing and popping a frame.
LEMMA PushPop ==
    ASSUME NEW S, NEW s \in Seq(S)
    PROVE  /\ Len(s) \in Nat
           /\ s # << >> => Len(s) > 0
           /\ Len(s) > 0 => s[Len(s)] \in S
           /\ \A x \in S : Append(s, x) \in Seq(S) /\ Len(Append(s, x)) = Len(s) + 1
           /\ Len(s) > 0 => /\ SubSeq(s, 1, Len(s) - 1) \in Seq(S)
                            /\ Len(SubSeq(s, 1, Len(s) - 1)) = Len(s) - 1
<1>1. Len(s) \in Nat
  BY LenProperties
<1>2. s # << >> => Len(s) > 0
  BY <1>1, EmptySeq
<1>3. Len(s) > 0 => s[Len(s)] \in S
  BY <1>1, ElementOfSeq
<1>4. \A x \in S : Append(s, x) \in Seq(S) /\ Len(Append(s, x)) = Len(s) + 1
  BY AppendProperties
<1>5. ASSUME Len(s) > 0
      PROVE  /\ SubSeq(s, 1, Len(s) - 1) \in Seq(S)
             /\ Len(SubSeq(s, 1, Len(s) - 1)) = Len(s) - 1
  <2>1. \A i \in 1..(Len(s) - 1) : s[i] \in S
    BY <1>1, ElementOfSeq
  <2>2. /\ SubSeq(s, 1, Len(s) - 1) \in Seq(S)
        /\ Len(SubSeq(s, 1, Len(s) - 1)) = IF 1 <= Len(s) - 1 THEN Len(s) - 1 ELSE 0
    BY <1>1, <2>1, SubSeqProperties
  <2>3. ASSUME NEW n \in Nat, n > 0
        PROVE  (IF 1 <= n - 1 THEN n - 1 ELSE 0) = n - 1
    BY <2>3
  <2> QED
    BY <1>1, <1>5, <2>2, <2>3
<1> QED
  BY <1>1, <1>2, <1>3, <1>4, <1>5

LEMMA TopType ==
    ASSUME TypeOK
    PROVE  /\ current \in Threads
           /\ Stack \in Seq(Frame)
           /\ Level \in Nat
           /\ Level > 0 => Top \in Frame
           /\ Level > 0 => Top.nr \in Numbers \ {-1}
<1>1. current \in Threads /\ Stack \in Seq(Frame)
  BY DEF TypeOK, Stack, Frame
<1>2. Level \in Nat /\ (Level > 0 => Top \in Frame)
  BY <1>1, PushPop DEF Level, Top
<1>3. Level > 0 => Top.nr \in Numbers \ {-1}
  BY <1>2 DEF Frame
<1> QED
  BY <1>1, <1>2, <1>3

\* The level and the number that a command notes are those a stack can have.
LEMMA NotedType ==
    ASSUME TypeOK, StacksAreBounded
    PROVE  /\ Level \in 0..MaxLevel
           /\ -1 \in Numbers /\ 0 \in Numbers
           /\ (IF Level = 0 THEN -1 ELSE Top.nr) \in Numbers
<1>1. -1 \in Numbers /\ 0 \in Numbers
  BY BoundsAre DEF Numbers
<1>2. Level <= MaxLevel
  BY TopType DEF StacksAreBounded, Level, Stack
<1>3. Level \in 0..MaxLevel
  BY <1>2, TopType, BoundsAre
<1> QED
  BY <1>1, <1>3, TopType

-----------------------------------------------------------------------------
LEMMA TypeInit == Init => TypeOK
<1> SUFFICES ASSUME Init PROVE TypeOK
    OBVIOUS
<1>1. stacks \in [Threads -> Seq(Frame)]
  BY DEF Init
<1>2. current \in Threads /\ resumer \in [Threads -> Threads] /\ ended \subseteq Fibers
  BY DEF Init, Threads
<1>3. count \in Numbers
  BY BoundsAre DEF Init, Numbers
<1>4. step \in Step
  BY BoundsAre DEF Init, None, Step, Numbers, Threads
<1>5. suppressed \in BOOLEAN
  BY DEF Init
<1>6. origin \in [fiber : Threads, level : 0..MaxLevel, nr : Numbers]
  BY BoundsAre DEF Init, Numbers, Threads
<1> QED
  BY <1>1, <1>2, <1>3, <1>4, <1>5, <1>6 DEF Init, TypeOK, Frame, Step, Loops

LEMMA StepsAreTyped ==
    ASSUME TypeOK, StacksAreBounded
    PROVE  /\ None \in Step
           /\ [None EXCEPT !.kind = "into"] \in Step
           /\ [None EXCEPT !.kind = "over", !.level = Level,
                           !.stack = IF Level = 0 THEN "none" ELSE current] \in Step
           /\ [None EXCEPT !.kind = "out",
                           !.level = IF Level = 0 THEN -1 ELSE Level,
                           !.nr = IF Level = 0 THEN -1 ELSE Top.nr] \in Step
<1> DEFINE stack == IF Level = 0 THEN "none" ELSE current
           level == IF Level = 0 THEN -1 ELSE Level
           nr    == IF Level = 0 THEN -1 ELSE Top.nr
<1>1. Main \in Threads /\ stack \in Threads \cup {"none"}
  BY TopType DEF Threads
<1>2. Level \in -1..MaxLevel /\ level \in -1..MaxLevel /\ 0 \in -1..MaxLevel
  BY NotedType, BoundsAre
<1>3. nr \in Numbers /\ 0 \in Numbers
  BY NotedType
<1> HIDE DEF stack, level, nr
<1>4. None \in Step
  BY <1>1, <1>2, <1>3 DEF None, Step
<1>5. [None EXCEPT !.kind = "into"] \in Step
  BY <1>4 DEF Step
<1>6. [None EXCEPT !.kind = "over", !.level = Level, !.stack = stack] \in Step
  BY <1>1, <1>2, <1>4 DEF Step
<1>7. [None EXCEPT !.kind = "out", !.level = level, !.nr = nr] \in Step
  BY <1>2, <1>3, <1>4 DEF Step
<1> QED
  BY <1>4, <1>5, <1>6, <1>7 DEF stack, level, nr

-----------------------------------------------------------------------------
(* The commands.                                                           *)

\* A new step compares with the place where it is given.
GivenHere(s) ==
    /\ s.kind = "over" => /\ s.level = Level
                          /\ IF Level = 0 THEN s.stack = "none" ELSE s.stack = current
    /\ s.kind = "out" => IF Level = 0 THEN s.level = -1
                                      ELSE s.level = Level /\ s.nr = Top.nr

\* A command goes on with a step, the old one or a new one.
LEMMA ContinueInvariant ==
    ASSUME IInv, NEW s \in Step, Continue(s), s = step \/ GivenHere(s)
    PROVE  IInv'
<1>1. at' \in {"php", "value", "leave"} /\ why' = "none"
  BY DEF Continue, Loops, After
<1>2. step' = s /\ UNCHANGED <<stacks, current, resumer, ended, count, suppressed>>
  BY DEF Continue, script
<1>3. s = step => origin' = origin
  BY DEF Continue
<1>4. s # step => origin' = [fiber |-> current, level |-> Level,
                             nr |-> IF Level = 0 THEN -1 ELSE Top.nr]
  BY DEF Continue
<1>5. origin' \in [fiber : Threads, level : 0..MaxLevel, nr : Numbers]
  <2>1. CASE s = step
    BY <1>3, <2>1 DEF IInv, TypeOK
  <2>2. CASE s # step
    <3> DEFINE nr == IF Level = 0 THEN -1 ELSE Top.nr
    <3>1. Level \in 0..MaxLevel /\ nr \in Numbers /\ current \in Threads
      BY NotedType, TopType DEF IInv
    <3> QED
      BY <1>4, <2>2, <3>1
  <2> QED
    BY <2>1, <2>2
<1>6. TypeOK'
  <2>1. at' \in {"php", "value", "leave"} \cup Loops /\ suppressed' \in BOOLEAN
    BY <1>1, <1>2 DEF IInv, TypeOK
  <2>2. step' \in Step
    BY <1>2
  <2> QED
    BY <1>1, <1>2, <1>5, <2>1, <2>2 DEF IInv, TypeOK, Step, Loops
<1>7. StacksAreBounded' /\ ResumersWait' /\ StopsAreShown'
  BY <1>1, <1>2 DEF IInv, StacksAreBounded, ResumersWait, Waiting, StopsAreShown
<1>8. StepRemembersOrigin'
  <2>1. CASE s = step
    BY <1>2, <1>3, <2>1 DEF IInv, StepRemembersOrigin
  <2>2. CASE s # step
    <3>1. /\ origin'.fiber = current /\ origin'.level = Level
          /\ origin'.nr = IF Level = 0 THEN -1 ELSE Top.nr
      BY <1>4, <2>2
    <3>2. step'.kind = "over" => /\ step'.level = origin'.level
                                 /\ step'.stack = origin'.fiber \/ origin'.level = 0
                                 /\ step'.stack \notin ended'
      <4>1. current \notin ended /\ "none" \notin ended
        BY FibersAssumption DEF IInv, TypeOK, ResumersWait
      <4> QED
        BY <1>2, <2>2, <3>1, <4>1 DEF GivenHere
    <3>3. step'.kind = "out" =>
             IF origin'.level = 0 THEN step'.level = -1
                                 ELSE step'.level = origin'.level /\ step'.nr = origin'.nr
      <4>1. s.kind = "out" => IF Level = 0 THEN s.level = -1
                                           ELSE s.level = Level /\ s.nr = Top.nr
        BY <2>2 DEF GivenHere
      <4>2. IF Level = 0 THEN origin'.level = 0
                         ELSE origin'.level = Level /\ origin'.nr = Top.nr
        BY <3>1
      <4>3. step' = s
        BY <1>2
      <4> QED
        BY <3>1, <4>1, <4>2, <4>3
    <3> QED
      BY <3>2, <3>3 DEF StepRemembersOrigin
  <2> QED
    BY <2>1, <2>2
<1> QED
  BY <1>6, <1>7, <1>8 DEF IInv

LEMMA ClientInvariant == IInv /\ Client => IInv'
<1> SUFFICES ASSUME IInv, Client PROVE IInv'
    OBVIOUS
<1> USE StepsAreTyped
<1>1. CASE Run
  <2>1. step \in Step
    BY DEF IInv, TypeOK, Step
  <2> QED
    BY <1>1, <2>1, ContinueInvariant DEF Run
<1>2. CASE StepInto
  <2> DEFINE s == [None EXCEPT !.kind = "into"]
  <2>1. s \in Step /\ s.kind = "into"
    BY DEF IInv, None
  <2>2. Continue(s)
    BY <1>2 DEF StepInto
  <2> HIDE DEF s
  <2>3. GivenHere(s)
    BY <2>1 DEF GivenHere
  <2> QED
    BY <2>1, <2>2, <2>3, ContinueInvariant
<1>3. CASE StepOver
  <2> DEFINE s == [None EXCEPT !.kind = "over", !.level = Level,
                               !.stack = IF Level = 0 THEN "none" ELSE current]
  <2>1. /\ s \in Step /\ s.kind = "over" /\ s.level = Level
        /\ s.stack = IF Level = 0 THEN "none" ELSE current
    BY DEF IInv, None
  <2>2. Continue(s)
    BY <1>3 DEF StepOver
  <2> HIDE DEF s
  <2>3. GivenHere(s)
    BY <2>1 DEF GivenHere
  <2> QED
    BY <2>1, <2>2, <2>3, ContinueInvariant
<1>4. CASE StepOut
  <2> DEFINE s == [None EXCEPT !.kind = "out",
                               !.level = IF Level = 0 THEN -1 ELSE Level,
                               !.nr = IF Level = 0 THEN -1 ELSE Top.nr]
  <2>1. /\ s \in Step /\ s.kind = "out"
        /\ s.level = IF Level = 0 THEN -1 ELSE Level
        /\ s.nr = IF Level = 0 THEN -1 ELSE Top.nr
    BY DEF IInv, None
  <2>2. Continue(s)
    BY <1>4 DEF StepOut
  <2> HIDE DEF s
  <2>3. GivenHere(s)
    BY <2>1 DEF GivenHere
  <2> QED
    BY <2>1, <2>2, <2>3, ContinueInvariant
<1> QED
  BY <1>1, <1>2, <1>3, <1>4 DEF Client

-----------------------------------------------------------------------------
(* The script.                                                             *)

\* Actions that neither push nor pop a frame, nor switch fibers, and at most drop the
\* step or stop.
LEMMA QuietInvariant ==
    ASSUME IInv, UNCHANGED <<script, origin>>,
           at' \in {"php", "value", "leave"} \cup Loops, suppressed' \in BOOLEAN,
           why' \in {"none", "break", "into", "over", "out"},
           step' \in {step, None}, StopsAreShown'
    PROVE  IInv'
<1>1. UNCHANGED <<stacks, current, resumer, ended, count, origin>>
  BY DEF script
<1>2. step' \in Step
  BY StepsAreTyped DEF IInv, TypeOK, Step
<1>3. TypeOK'
  BY <1>1, <1>2 DEF IInv, TypeOK, Step
<1>4. StacksAreBounded' /\ ResumersWait'
  BY <1>1 DEF IInv, StacksAreBounded, ResumersWait, Waiting
<1>5. StepRemembersOrigin'
  <2>1. CASE step' = step
    BY <1>1, <2>1 DEF IInv, StepRemembersOrigin
  <2>2. CASE step' = None
    BY <2>2 DEF StepRemembersOrigin, None
  <2> QED
    BY <2>1, <2>2
<1> QED
  BY <1>3, <1>4, <1>5 DEF IInv

LEMMA QuietActions ==
    IInv /\ (Statement \/ Return \/ ReturnValue \/ Throw) => IInv'
<1> SUFFICES ASSUME IInv, Statement \/ Return \/ ReturnValue \/ Throw PROVE IInv'
    OBVIOUS
<1>1. at \in {"php", "value", "leave"} \cup Loops /\ suppressed \in BOOLEAN
  BY DEF IInv, TypeOK
<1>2. at \in {"php", "value"} /\ why = "none"
  BY DEF IInv, StopsAreShown, Statement, Return, ReturnValue, Throw
<1>3. CASE Statement
  <2>1. step.kind \in {"none", "into", "over", "out"}
    BY DEF IInv, TypeOK
  <2>2. /\ UNCHANGED <<script, origin>> /\ suppressed' = FALSE
        /\ at' = "stop" \/ (at' = at /\ why' = why)
        /\ why' \in {"none", "break", "into", "over", "out"} /\ step' \in {step, None}
    BY <1>2, <1>3, <2>1 DEF Statement
  <2>3. at' \in {"php", "value", "leave"} \cup Loops /\ StopsAreShown'
    BY <1>1, <1>2, <2>2 DEF StopsAreShown, Loops
  <2> QED
    BY <2>2, <2>3, QuietInvariant
<1>4. CASE Return
  <2>1. /\ UNCHANGED <<script, origin, step, suppressed>>
        /\ at' \in {"php", "value", "leave"} \cup Loops
        /\ why' \in {"none", "break", "into", "over", "out"} /\ StopsAreShown'
    BY <1>2, <1>4 DEF Return, StopsAreShown, Loops
  <2> QED
    BY <1>1, <2>1, QuietInvariant
<1>5. CASE ReturnValue
  <2>1. step.kind \in {"none", "into", "over", "out"}
    BY DEF IInv, TypeOK
  <2>2. /\ UNCHANGED <<script, origin, suppressed>>
        /\ at' \in {"php", "value", "leave"} \cup Loops
        /\ why' \in {"none", "break", "into", "over", "out"}
        /\ step' \in {step, None} /\ StopsAreShown'
    BY <1>2, <1>5, <2>1 DEF ReturnValue, StopsAreShown, Loops
  <2> QED
    BY <1>1, <2>2, QuietInvariant
<1>6. CASE Throw
  <2>1. /\ UNCHANGED <<script, origin, step>> /\ suppressed' = TRUE
        /\ at' \in {"php", "value", "leave"} \cup Loops
        /\ why' \in {"none", "break", "into", "over", "out"} /\ StopsAreShown'
    BY <1>1, <1>2, <1>6 DEF Throw, StopsAreShown, Loops
  <2> QED
    BY <2>1, QuietInvariant
<1> QED
  BY <1>3, <1>4, <1>5, <1>6

\* The stack of the fiber that runs becomes another one.
LEMMA StackReplaced ==
    ASSUME TypeOK, StacksAreBounded, NEW s \in Seq(Frame), Len(s) <= MaxLevel,
           current \notin ended, ended' = ended,
           stacks' = [stacks EXCEPT ![current] = s]
    PROVE  stacks' \in [Threads -> Seq(Frame)] /\ StacksAreBounded'
<1>1. stacks \in [Threads -> Seq(Frame)] /\ ended \subseteq Threads
  BY DEF TypeOK, Frame, Threads
<1>2. stacks' \in [Threads -> Seq(Frame)]
  BY <1>1
<1>3. \A f \in Threads : stacks'[f] = IF f = current THEN s ELSE stacks[f]
  BY <1>1
<1>4. StacksAreBounded'
  BY <1>1, <1>3 DEF StacksAreBounded
<1> QED
  BY <1>2, <1>4

LEMMA CallInvariant ==
    ASSUME IInv, NEW user \in BOOLEAN, Call(user)
    PROVE  IInv'
<1> DEFINE frame == [nr |-> count', user |-> user]
<1>1. count' = count + 1 /\ count < MaxFrames /\ Level < MaxLevel
  BY DEF Call
<1>2. count' \in Numbers \ {-1}
  BY <1>1, BoundsAre DEF IInv, TypeOK, Numbers
<1>3. frame \in Frame
  BY <1>2 DEF Frame
<1>4. stacks' = [stacks EXCEPT ![current] = Append(Stack, frame)]
  BY DEF Call, Stack
<1> HIDE DEF frame
<1>5. Stack \in Seq(Frame) /\ Level \in Nat
  BY TopType DEF IInv
<1>6. Append(Stack, frame) \in Seq(Frame) /\ Len(Append(Stack, frame)) = Level + 1
  BY <1>3, <1>5, PushPop DEF Level
<1>7. Len(Append(Stack, frame)) <= MaxLevel
  BY <1>1, <1>5, <1>6, BoundsAre
<1>8. UNCHANGED <<current, resumer, ended, step, suppressed, origin>>
  BY DEF Call
<1>9. at' \in {"php", "stop"} /\ (at' = "php" => why' = "none")
      /\ why' \in {"none", "break"}
  BY DEF IInv, StopsAreShown, Call
<1>10. stacks' \in [Threads -> Seq(Frame)] /\ StacksAreBounded'
  BY <1>4, <1>6, <1>7, <1>8, StackReplaced DEF IInv, ResumersWait
<1>11. TypeOK'
  BY <1>2, <1>8, <1>9, <1>10 DEF IInv, TypeOK, Frame, Loops
<1>12. ResumersWait' /\ StepRemembersOrigin'
  BY <1>8 DEF IInv, ResumersWait, Waiting, StepRemembersOrigin
<1>13. StopsAreShown'
  BY <1>9 DEF StopsAreShown
<1> QED
  BY <1>10, <1>11, <1>12, <1>13 DEF IInv

LEMMA LeaveInvariant ==
    ASSUME IInv, Leave
    PROVE  IInv'
<1> DEFINE s == SubSeq(Stack, 1, Level - 1)
<1>1. Stack \in Seq(Frame) /\ Level \in Nat /\ Level <= MaxLevel
  BY TopType, NotedType, BoundsAre DEF IInv
<1>2. /\ at = "leave" /\ at' = "php"
      /\ stacks' = [stacks EXCEPT ![current] = s]
      /\ UNCHANGED <<current, resumer, ended, count, step, suppressed, why, origin>>
  BY DEF Leave, Stack
<1>3. s \in Seq(Frame) /\ Len(s) <= MaxLevel
  <2>1. CASE Level > 0
    BY <1>1, <2>1, PushPop, BoundsAre DEF Level
  <2>2. CASE Level = 0
    <3>1. s = << >>
      BY <1>1, <2>2, SubSeqEmpty
    <3>2. << >> \in Seq(Frame) /\ Len(<< >>) = 0
      OBVIOUS
    <3>3. 0 <= MaxLevel
      BY BoundsAre
    <3> HIDE DEF s
    <3> QED
      BY <3>1, <3>2, <3>3
  <2> QED
    BY <1>1, <2>1, <2>2
<1> HIDE DEF s
<1>4. stacks' \in [Threads -> Seq(Frame)] /\ StacksAreBounded'
  BY <1>2, <1>3, StackReplaced DEF IInv, ResumersWait
<1>5. TypeOK'
  BY <1>2, <1>4 DEF IInv, TypeOK, Frame, Loops
<1>6. ResumersWait' /\ StepRemembersOrigin' /\ StopsAreShown'
  BY <1>2 DEF IInv, ResumersWait, Waiting, StepRemembersOrigin, StopsAreShown
<1> QED
  BY <1>4, <1>5, <1>6 DEF IInv

LEMMA ResumeInvariant ==
    ASSUME IInv, NEW f \in Fibers, Resume(f)
    PROVE  IInv'
<1>1. /\ f \notin ended /\ f # current /\ resumer[f] = f /\ f # Main
      /\ current' = f /\ resumer' = [resumer EXCEPT ![f] = current]
      /\ UNCHANGED <<at, ended, count, step, suppressed, why, origin>>
  BY FibersAssumption DEF Resume
<1>2. /\ stacks \in [Threads -> Seq(Frame)] /\ f \in Threads /\ current \in Threads
      /\ ended \subseteq Threads /\ resumer \in [Threads -> Threads]
  BY DEF IInv, TypeOK, Frame, Threads
<1>3. stacks' \in [Threads -> Seq(Frame)] /\ StacksAreBounded'
  <2>1. CASE stacks' = stacks
    BY <1>1, <1>2, <2>1 DEF IInv, StacksAreBounded
  <2>2. CASE stacks' = [stacks EXCEPT ![f] = <<[nr |-> 0, user |-> FALSE]>>]
    <3> DEFINE frame == [nr |-> 0, user |-> FALSE]
    <3>1. frame \in Frame
      BY BoundsAre DEF Frame, Numbers
    <3>2. <<frame>> \in Seq(Frame) /\ Len(<<frame>>) = 1
      BY <3>1
    <3> HIDE DEF frame
    <3>3. \A g \in Threads : stacks'[g] = IF g = f THEN <<frame>> ELSE stacks[g]
      BY <1>2, <2>2 DEF frame
    <3>4. StacksAreBounded'
      <4>1. 1 <= MaxLevel
        BY BoundsAre
      <4>2. \A g \in Threads : Len(stacks'[g]) <= MaxLevel
        BY <1>2, <3>2, <3>3, <4>1 DEF IInv, StacksAreBounded
      <4>3. \A g \in ended' : stacks'[g] = << >>
        BY <1>1, <1>2, <3>3 DEF IInv, StacksAreBounded
      <4> QED
        BY <4>2, <4>3 DEF StacksAreBounded
    <3>5. stacks' \in [Threads -> Seq(Frame)]
      BY <1>2, <2>2, <3>2 DEF frame
    <3> QED
      BY <3>4, <3>5
  <2> QED
    BY <2>1, <2>2 DEF Resume
<1>4. TypeOK'
  <2>1. resumer' \in [Threads -> Threads]
    BY <1>1, <1>2
  <2> QED
    BY <1>1, <1>2, <1>3, <2>1 DEF IInv, TypeOK, Frame
<1>5. ResumersWait'
  <2>1. \A g \in Threads : resumer'[g] = IF g = f THEN current ELSE resumer[g]
    BY <1>1, <1>2
  <2>2. Waiting' = Waiting \cup {f} /\ f \notin Waiting
    BY <1>1, <1>2, <2>1 DEF Waiting
  <2> QED
    BY <1>1, <1>2, <2>1, <2>2 DEF IInv, ResumersWait, Waiting
<1>6. StepRemembersOrigin' /\ StopsAreShown'
  BY <1>1 DEF IInv, StepRemembersOrigin, StopsAreShown
<1> QED
  BY <1>3, <1>4, <1>5, <1>6 DEF IInv

LEMMA SuspendInvariant ==
    ASSUME IInv, Suspend
    PROVE  IInv'
<1>1. /\ current # Main
      /\ current' = resumer[current] /\ resumer' = [resumer EXCEPT ![current] = current]
      /\ UNCHANGED <<at, stacks, ended, count, step, suppressed, why, origin>>
  BY DEF Suspend
<1>2. current \in Threads /\ ended \subseteq Threads /\ resumer \in [Threads -> Threads]
  BY DEF IInv, TypeOK, Threads
<1>3. TypeOK'
  <2>1. resumer' \in [Threads -> Threads] /\ current' \in Threads
    BY <1>1, <1>2
  <2> QED
    BY <1>1, <2>1 DEF IInv, TypeOK
<1>4. ResumersWait'
  <2>1. \A g \in Threads : resumer'[g] = IF g = current THEN current ELSE resumer[g]
    BY <1>1, <1>2
  <2>2. Waiting' = Waiting \ {current} /\ current \in Waiting
    BY <1>1, <1>2, <2>1 DEF IInv, Waiting, ResumersWait
  <2> QED
    BY <1>1, <1>2, <2>1, <2>2 DEF IInv, ResumersWait, Waiting
<1>5. StacksAreBounded' /\ StepRemembersOrigin' /\ StopsAreShown'
  BY <1>1 DEF IInv, StacksAreBounded, StepRemembersOrigin, StopsAreShown
<1> QED
  BY <1>3, <1>4, <1>5 DEF IInv

\* The step over that waits for the stack of the fiber that ends waits for none any more.
LEMMA EndFiberInvariant ==
    ASSUME IInv, EndFiber
    PROVE  IInv'
<1>1. /\ at = "php" /\ current # Main
      /\ current' = resumer[current] /\ ended' = ended \cup {current}
      /\ stacks' = [stacks EXCEPT ![current] = << >>]
      /\ UNCHANGED <<at, resumer, count, suppressed, why, origin>>
  BY DEF EndFiber
<1>2. /\ stacks \in [Threads -> Seq(Frame)] /\ current \in Threads /\ current \in Fibers
      /\ ended \subseteq Fibers /\ ended \subseteq Threads /\ resumer \in [Threads -> Threads]
  BY <1>1 DEF IInv, TypeOK, Frame, Threads
<1>3. stacks' \in [Threads -> Seq(Frame)]
  BY <1>1, <1>2
<1>4. StacksAreBounded'
  <2>1. \A f \in Threads : stacks'[f] = IF f = current THEN << >> ELSE stacks[f]
    BY <1>1, <1>2
  <2>2. Len(<< >>) = 0
    OBVIOUS
  <2> QED
    <3>1. \A f \in Threads : Len(stacks[f]) <= MaxLevel
      BY DEF IInv, StacksAreBounded
    <3>2. \A f \in Threads : Len(stacks'[f]) <= MaxLevel
      BY <2>1, <2>2, <3>1, BoundsAre
    <3>3. \A f \in ended' : stacks'[f] = << >>
      BY <1>1, <1>2, <2>1 DEF IInv, StacksAreBounded
    <3> QED
      BY <3>2, <3>3 DEF StacksAreBounded
<1>5. /\ step'.kind = step.kind /\ step'.level = step.level /\ step'.nr = step.nr
      /\ step'.stack = IF step.stack = current THEN "none" ELSE step.stack
      /\ step' \in Step
  <2>1. step \in Step
    BY DEF IInv, TypeOK, Step
  <2>2. CASE step.stack = current
    <3>1. step' = [step EXCEPT !.stack = "none"]
      BY <2>2 DEF EndFiber
    <3> QED
      BY <2>1, <2>2, <3>1 DEF Step
  <2>3. CASE step.stack # current
    BY <2>1, <2>3 DEF EndFiber
  <2> QED
    BY <2>2, <2>3
<1>6. TypeOK'
  <2>1. current' \in Threads /\ ended' \subseteq Fibers
    BY <1>1, <1>2
  <2> QED
    BY <1>1, <1>3, <1>5, <2>1 DEF IInv, TypeOK, Frame, Step
<1>7. ResumersWait'
  <2>1. Waiting' = Waiting \ {current} /\ current \in Waiting
    BY <1>1, <1>2 DEF IInv, Waiting, ResumersWait
  <2> QED
    BY <1>1, <1>2, <2>1 DEF IInv, ResumersWait, Waiting
<1>8. StepRemembersOrigin'
  <2>1. "none" \notin ended'
    BY <1>1, <1>2, FibersAssumption
  <2> QED
    BY <1>1, <1>5, <2>1 DEF IInv, StepRemembersOrigin
<1>9. StopsAreShown'
  BY <1>1 DEF IInv, StopsAreShown
<1> QED
  BY <1>4, <1>6, <1>7, <1>8, <1>9 DEF IInv

LEMMA InvariantInit == Init => IInv
<1> SUFFICES ASSUME Init PROVE IInv
    OBVIOUS
<1>1. TypeOK
  BY TypeInit
<1>2. StacksAreBounded
  BY BoundsAre DEF Init, StacksAreBounded
<1>3. ResumersWait
  BY DEF Init, ResumersWait, Waiting
<1>4. StepRemembersOrigin /\ StopsAreShown
  BY DEF Init, StepRemembersOrigin, StopsAreShown, None
<1> QED
  BY <1>1, <1>2, <1>3, <1>4 DEF IInv

LEMMA InvariantStep == IInv /\ [Next]_vars => IInv'
<1> SUFFICES ASSUME IInv, [Next]_vars PROVE IInv'
    OBVIOUS
<1>1. CASE Client
  BY <1>1, ClientInvariant
<1>2. CASE Statement \/ Return \/ ReturnValue \/ Throw
  BY <1>2, QuietActions
<1>3. CASE \E user \in BOOLEAN : Call(user)
  BY <1>3, CallInvariant
<1>4. CASE Leave
  BY <1>4, LeaveInvariant
<1>5. CASE \E f \in Fibers : Resume(f)
  BY <1>5, ResumeInvariant
<1>6. CASE Suspend
  BY <1>6, SuspendInvariant
<1>7. CASE EndFiber
  BY <1>7, EndFiberInvariant
<1>8. CASE UNCHANGED vars
  <2>1. UNCHANGED <<at, stacks, current, resumer, ended, count, step, suppressed, why, origin>>
    BY <1>8 DEF vars, script
  <2>2. TypeOK' /\ StacksAreBounded'
    BY <2>1 DEF IInv, TypeOK, StacksAreBounded
  <2>3. ResumersWait'
    BY <2>1 DEF IInv, ResumersWait, Waiting
  <2>4. StepRemembersOrigin' /\ StopsAreShown'
    BY <2>1 DEF IInv, StepRemembersOrigin, StopsAreShown, Stack, Level
  <2> QED
    BY <2>2, <2>3, <2>4 DEF IInv
<1> QED
  BY <1>1, <1>2, <1>3, <1>4, <1>5, <1>6, <1>7, <1>8 DEF Next, Script

LEMMA Invariant == Spec => []IInv
<1> QED
  BY InvariantInit, InvariantStep, PTL DEF Spec

\* Every step command leaves a step of a kind that exists, with a level of 15 bits, and
\* the fibers stay those that the script has.
THEOREM SteppingTypeCorrect == Spec => []TypeOK
<1>1. IInv => TypeOK
  BY DEF IInv
<1> QED
  BY <1>1, Invariant, PTL

\* The end of a fiber lets go of the step over that waits for its stack
\* (xdebug_fiber_switch_observer()), so that a step over never waits for a stack that has
\* been freed.
THEOREM StepOverEnds == Spec => []StepOverCanEnd
<1>1. IInv => StepOverCanEnd
  BY DEF IInv, StepRemembersOrigin, StepOverCanEnd
<1> QED
  BY <1>1, Invariant, PTL

-----------------------------------------------------------------------------
(* Where steps stop.                                                       *)

\* Only a statement and a return value can show the end of a step.
LEMMA OnlyStepsStop ==
    ASSUME IInv, [Next]_vars, why' \in {"over", "out"}
    PROVE  \/ UNCHANGED vars
           \/ Statement /\ StepDue /\ why' = step.kind /\ at' = "stop"
           \/ /\ ReturnValue /\ why' = step.kind /\ at' = "stopValue"
              /\ step.kind = "out" /\ FinishCondition(TRUE)
<1>1. at \in {"php", "value", "leave"} => why = "none"
  BY DEF IInv, StopsAreShown
<1>2. CASE UNCHANGED vars
  BY <1>2
<1>3. CASE Client
  BY <1>3 DEF Client, Run, StepInto, StepOver, StepOut, Continue
<1>4. CASE Statement
  BY <1>1, <1>4 DEF Statement
<1>5. CASE ReturnValue
  BY <1>1, <1>5 DEF ReturnValue
<1>6. CASE Return \/ Throw \/ Leave \/ \E user \in BOOLEAN : Call(user)
  BY <1>1, <1>6 DEF Return, Throw, Leave, Call
<1>7. CASE Suspend \/ EndFiber \/ \E f \in Fibers : Resume(f)
  BY <1>1, <1>7 DEF Suspend, EndFiber, Resume, InMethod
<1> QED
  BY <1>2, <1>3, <1>4, <1>5, <1>6, <1>7 DEF Next, Script

\* A stop leaves the stacks, and so whether the origin is open, as they are.
LEMMA StopsLeaveStacks ==
    ASSUME UNCHANGED <<script, origin>>
    PROVE  /\ OriginIsOpen' <=> OriginIsOpen
           /\ OriginIsTop' <=> OriginIsTop
BY DEF script, OriginIsOpen, OriginIsTop, Level, Stack

\* The levels of an open origin.
LEMMA OpenOrigin ==
    ASSUME IInv, OriginIsOpen
    PROVE  /\ origin.fiber \in Threads /\ origin.fiber \notin ended /\ origin.level # 0
           /\ origin.fiber = current => /\ origin.level \in 1..Level
                                        /\ Stack[origin.level].nr = origin.nr
<1>1. origin.fiber \in Threads
  BY DEF IInv, TypeOK
<1>2. origin.level \in 1..Len(stacks[origin.fiber])
  BY DEF OriginIsOpen
<1>3. origin.fiber \notin ended
  <2>1. Len(<< >>) = 0
    OBVIOUS
  <2> QED
    BY <1>2, <2>1 DEF IInv, StacksAreBounded
<1> QED
  BY <1>1, <1>2, <1>3 DEF OriginIsOpen, Level, Stack

\* A step over stops in the fiber where it was given and no deeper than there, or when
\* that place has gone.
LEMMA StepOverStep == IInv /\ StepOverSkipsCallees /\ [Next]_vars => StepOverSkipsCallees'
<1> SUFFICES ASSUME IInv, StepOverSkipsCallees, [Next]_vars, why' = "over", OriginIsOpen'
             PROVE  OriginIsTop'
    BY DEF StepOverSkipsCallees
<1>1. CASE UNCHANGED vars
  BY <1>1 DEF vars, script, StepOverSkipsCallees, OriginIsOpen, OriginIsTop, Level, Stack
<1>2. CASE Statement /\ StepDue /\ step.kind = "over"
  <2>1. UNCHANGED <<script, origin>>
    BY <1>2 DEF Statement
  <2>2. OriginIsOpen
    BY <2>1, StopsLeaveStacks
  <2>3. step.stack \in {"none", current} /\ step.level >= Level
    BY <1>2 DEF StepDue, NextCondition
  <2>4. step.level = origin.level /\ step.stack = origin.fiber
    BY <1>2, <2>2, OpenOrigin DEF IInv, StepRemembersOrigin
  <2>5. origin.fiber = current
    BY <2>2, <2>3, <2>4, OpenOrigin, FibersAssumption DEF Threads
  <2>6. Level = origin.level
    BY <2>2, <2>3, <2>4, <2>5, OpenOrigin, TopType DEF IInv
  <2> QED
    BY <2>1, <2>5, <2>6, StopsLeaveStacks DEF OriginIsTop
<1> QED
  BY <1>1, <1>2, OnlyStepsStop

\* step_over stops in the function where it was given, or after that function has
\* returned: never in one that it called, in a recursion of it, or in another fiber while
\* it is suspended (next_condition_met()).
THEOREM StepOverSkips == Spec => []StepOverSkipsCallees
<1>1. Init => StepOverSkipsCallees
  BY DEF Init, StepOverSkipsCallees
<1> QED
  BY <1>1, StepOverStep, Invariant, PTL DEF Spec

\* A step out compares with the level and the number of the frame where it was given: a
\* frame that is open at that level is that frame itself.
LEMMA StepOutStep == IInv /\ StepOutSkipsCallees /\ [Next]_vars => StepOutSkipsCallees'
<1> SUFFICES ASSUME IInv, StepOutSkipsCallees, [Next]_vars,
                    why' = "out", current' = origin'.fiber, OriginIsOpen'
             PROVE  OriginIsTop' /\ at' = "stopValue"
    BY DEF StepOutSkipsCallees
<1>1. CASE UNCHANGED vars
  BY <1>1 DEF vars, script, StepOutSkipsCallees, OriginIsOpen, OriginIsTop, Level, Stack
<1>2. ASSUME UNCHANGED <<script, origin>>, step.kind = "out"
      PROVE  /\ OriginIsOpen /\ current = origin.fiber
             /\ Level \in Nat /\ Level > 0 /\ Top.nr \in Int
             /\ step.level = origin.level /\ step.level \in Int /\ step.level <= Level
             /\ step.level = Level => Top.nr = step.nr
  <2>1. OriginIsOpen /\ current = origin.fiber
    BY <1>2, StopsLeaveStacks DEF script
  <2>2. origin.level \in 1..Level /\ Stack[origin.level].nr = origin.nr /\ origin.level # 0
    BY <2>1, OpenOrigin
  <2>3. step.level = origin.level /\ step.nr = origin.nr
    BY <1>2, <2>2 DEF IInv, StepRemembersOrigin
  <2>4. Level \in Nat /\ (Level > 0 => Top.nr \in Int)
    BY TopType DEF IInv, Numbers
  <2> QED
    BY <2>1, <2>2, <2>3, <2>4 DEF Top
<1>3. CASE Statement /\ StepDue /\ step.kind = "out"
  <2>1. UNCHANGED <<script, origin>> /\ FinishCondition(FALSE)
    BY <1>3 DEF Statement, StepDue
  <2>2. Level < step.level \/ (Level = step.level /\ Top.nr > step.nr)
    BY <2>1 DEF FinishCondition
  <2> QED
    BY <1>2, <1>3, <2>1, <2>2
<1>4. CASE ReturnValue /\ step.kind = "out" /\ FinishCondition(TRUE) /\ at' = "stopValue"
  <2>1. UNCHANGED <<script, origin>>
    BY <1>4 DEF ReturnValue
  <2>2. Level <= step.level
    BY <1>2, <1>4, <2>1 DEF FinishCondition
  <2>3. Level = origin.level /\ current = origin.fiber
    BY <1>2, <1>4, <2>1, <2>2
  <2> QED
    BY <1>4, <2>1, <2>3, StopsLeaveStacks DEF OriginIsTop
<1> QED
  BY <1>1, <1>3, <1>4, OnlyStepsStop

\* In the fiber where it was given, step_out stops when the function has returned, or at
\* its return: never before, nor at the return of a function it calls
\* (finish_condition_met()).
THEOREM StepOutSkips == Spec => []StepOutSkipsCallees
<1>1. Init => StepOutSkipsCallees
  BY DEF Init, StepOutSkipsCallees
<1> QED
  BY <1>1, StepOutStep, Invariant, PTL DEF Spec
===============================================================================
