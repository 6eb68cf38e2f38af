--------------------------- MODULE DataCommandsProofs ---------------------------
(* What holds of DataCommands for all functions and variables, and any nesting.  *)
EXTENDS DataCommands, ListLemmas

-----------------------------------------------------------------------------
(* The inductive invariant.                                                *)

Names  == (UNION {Locals[fun] : fun \in Functions}) \cup Asked \cup {ReturnValue}
Places == Nat \X (Names \cup {"nowhere", ExceptionValue})
Sizes  == DataSizes \cup {0, Min(DataSizes)}
Kinds  == Sized \cup {"context_get"} \cup Aside
Given  == [cmd : Kinds, context : {0, 1}, frame : Nat, names : SUBSET Names, todo : Seq(Names),
           places : SUBSET Places, oldMax : Sizes, disturbed : BOOLEAN, height : Nat]

Typed ==
    /\ active \in Seq([id : Nat, fun : Functions])
    /\ recorded \in Seq([id : Nat, caller : Nat])
    /\ control \in {"script", "prompt", "command"}
    /\ pending \in Seq(Given)
    /\ activeData \in Nat /\ returned \in Nat /\ maxData \in Sizes /\ wanted \in Sizes

\* Whatever is overridden now, a command that will bring it back is pending.  The outermost
\* of those that override max_data has the client's.
Overridden ==
    /\ inhibited => \E k \in DOMAIN pending : pending[k].cmd = "property_get"
    /\ ~allowed => \E k \in DOMAIN pending : pending[k].cmd = "source"
    /\ (\A k \in DOMAIN pending : pending[k].cmd \notin Sized) => maxData = wanted
    /\ \A k \in DOMAIN pending :
          pending[k].cmd \in Sized /\ (\A j \in 1..(k - 1) : pending[j].cmd \notin Sized)
             => pending[k].oldMax = wanted
    /\ control = "command" => pending # << >>

\* The calls, the later ones with the larger identities, begin with that of the script.
CallsInOrder ==
    /\ active # << >> /\ active[1] = [id |-> Main, fun |-> "main"]
    /\ \A j \in DOMAIN active : \A i \in 1..(j - 1) : active[i].id < active[j].id

\* The position among the calls of the one that frame k records.
IsAt(k, j) == recorded[k].id = active[j].id

\* A frame is that of a call, with the one before it as its caller; frames are in the order
\* of their calls, hence at least as far from one another as they are in the stack.
FramesInOrder ==
    /\ recorded # << >> /\ recorded[1] = [id |-> Main, caller |-> NoCall]
    /\ \A k \in DOMAIN recorded : \E j \in DOMAIN active :
          IsAt(k, j) /\ recorded[k].caller = IF j = 1 THEN NoCall ELSE active[j - 1].id
    /\ \A l \in DOMAIN recorded : \A k \in 1..l : \A i, j \in DOMAIN active :
          IsAt(k, i) /\ IsAt(l, j) => l - k <= j - i

\* A command that is pending has calls of its own on top of those it was given among, and
\* goes on when they are over.
CommandsNest ==
    /\ \A k \in DOMAIN pending :
          /\ pending[k].height \in DOMAIN active
          /\ pending[k].height = Len(active) <=> k = Len(pending) /\ control = "command"
    /\ \A k \in DOMAIN pending : \A j \in 1..(k - 1) : pending[j].height < pending[k].height

\* Only commands that do not use the pointers are given in the middle of one that is
\* not disturbed.
Undisturbed ==
    \A k \in DOMAIN pending : \A j \in 1..(k - 1) :
        ~pending[j].disturbed => pending[k].cmd \in Aside

\* The call whose return value there is: the one at which the script stopped, or had stopped
\* when the code began to run that a command runs.
ReturnIsCurrent ==
    returned # NoCall =>
        IF control = "script"
        THEN pending # << >> /\ returned = active[pending[Len(pending)].height].id
        ELSE returned = active[Len(active)].id

\* The context_get that shows the return value looks it up at once.
ReturnIsShown ==
    \A k \in DOMAIN pending :
        pending[k].cmd = "return_value" =>
            /\ pending[k].todo \in {<< >>, <<ReturnValue>>}
            /\ pending[k].todo # << >> =>
                  k = Len(pending) /\ control = "command" /\ returned # NoCall

\* Every call up to this height has a frame.
Seen(height) == \A m \in 1..height : m \in DOMAIN recorded /\ IsAt(m, m)

\* What may be shown for a name that is looked up in a frame, while the call with this
\* identity is stopped.
MayShow(frame, id, name) ==
    {<<frame, name>>}
        \cup (IF AsReturned(name) THEN {<<id, ReturnValue>>} ELSE {})
        \cup (IF AsThrown(name) THEN {Exception} ELSE {})

\* What a command has shown, and will show, is what the context of function fun has.
ShowsAll(c, fun, id) ==
    /\ ToSet(c.todo) \subseteq Locals[fun]
    /\ \A name \in Locals[fun] :
          name \in ToSet(c.todo) \/ \E place \in MayShow(c.frame, id, name) : place \in c.places
    /\ \A place \in c.places :
          place = Exception \/ \E name \in Locals[fun] : place \in MayShow(c.frame, id, name)

OfFrame(c, id) ==
    \A name \in c.names :
        /\ ToSet(c.todo) \subseteq {name}
        /\ \A place \in c.places : place \in MayShow(c.frame, id, name) \cup {Nowhere}

OfReturn(c, id) ==
    c.frame = id /\ c.places = IF c.todo = << >> THEN {<<id, ReturnValue>>} ELSE {}

\* The call that was stopped when a command began.
Stopped(c) == active[c.height].id

\* The pointers, and what was shown so far, of a command that is not disturbed.
ShownIsAsked(c) ==
    /\ c.cmd \in Sized /\ c.context = 0 /\ Seen(c.height) =>
          activeData = c.frame /\ (activeTable => c.frame = Main) /\ OfFrame(c, Stopped(c))
    /\ c.cmd = "context_get" /\ c.context = 0 /\ Seen(c.height) =>
          /\ activeData = c.frame
          /\ \E i \in 1..c.height :
                active[i].id = c.frame /\ ShowsAll(c, active[i].fun, Stopped(c))
    /\ c.cmd = "context_get" /\ c.context = 1 =>
          activeData = NoCall /\ activeTable /\ c.frame = Main /\ ShowsAll(c, "main", Stopped(c))
    /\ c.cmd = "return_value" /\ Seen(c.height) => OfReturn(c, Stopped(c))

\* property_get for a global variable looks among those of the active call first; there is
\* none unless a command for locals left it, or is pending.
GlobalsAreGlobal ==
    /\ lastLocal # "property" =>
          activeData = NoCall \/ \E k \in DOMAIN pending : pending[k].cmd = "context_get"
    /\ pending # << >> =>
          LET c == pending[1]
          IN c.cmd \in Sized /\ c.context = 1 =>
                c.frame = Main
                /\ (lastLocal # "property" /\ ~c.disturbed => OfFrame(c, Stopped(c)))

Shown == \A k \in DOMAIN pending : ~pending[k].disturbed => ShownIsAsked(pending[k])

Answered == AnsweredFromFrame /\ (control # "prompt" => answered = NoAnswer)

-----------------------------------------------------------------------------
(* Calls and frames.                                                       *)

CallRecord  == [id : Nat, fun : Functions]
FrameRecord == [id : Nat, caller : Nat]

\* The newest call is the one with the largest identity, and the next one's is larger.
LEMMA NewestCall ==
    ASSUME Typed, CallsInOrder
    PROVE  /\ Len(active) \in Nat /\ Len(active) >= 1 /\ DOMAIN active = 1..Len(active)
           /\ \A i \in DOMAIN active : active[i] \in CallRecord
           /\ Last(active) = active[Len(active)] /\ Current = active[Len(active)].id
           /\ NextCall = Current + 1 /\ Current \in Nat
           /\ \A i \in DOMAIN active : active[i].id \in 1..Current
<1> DEFINE n == Len(active)
           Ids == {active[k].id : k \in DOMAIN active}
<1>1. /\ active \in Seq(CallRecord) /\ active # << >> /\ active[1].id = 1
      /\ \A j \in DOMAIN active : \A i \in 1..(j - 1) : active[i].id < active[j].id
  BY DEF Typed, CallRecord, CallsInOrder, Main
<1>2. n \in Nat /\ n >= 1 /\ DOMAIN active = 1..n /\ Last(active) = active[n]
  BY <1>1, PopIs
<1>3. \A i \in 1..n : active[i] \in CallRecord
  BY <1>1, ElementOfSeq
<1>4. \A i \in 1..n : active[i].id \in Nat
  BY <1>3 DEF CallRecord
<1>5. \A i \in 1..n : active[i].id <= active[n].id
  <2> TAKE i \in 1..n
  <2>1. CASE i = n
    BY <1>2, <1>4, <2>1
  <2>2. CASE i # n
    <3>1. n \in DOMAIN active /\ i \in 1..(n - 1)
      <4>1. n \in DOMAIN active /\ n \in Nat /\ n >= 1
        BY <1>2
      <4> QED
        BY <2>2, <4>1
    <3>2. active[i].id < active[n].id
      BY <1>1, <3>1
    <3> QED
      BY <1>2, <1>4, <3>2
  <2> QED
    BY <2>1, <2>2
<1>6. \A i \in 1..n : active[i].id >= 1
  <2> TAKE i \in 1..n
  <2>1. CASE i = 1
    BY <1>1, <2>1
  <2>2. CASE i # 1
    <3>1. i \in DOMAIN active /\ 1 \in 1..(i - 1)
      <4>1. i \in DOMAIN active /\ i \in Nat /\ i >= 1
        BY <1>2
      <4> QED
        BY <2>2, <4>1
    <3>2. active[1].id < active[i].id
      BY <1>1, <3>1
    <3> QED
      BY <1>1, <1>4, <3>2
  <2> QED
    BY <2>1, <2>2
<1>7. Max(Ids) = active[n].id
  <2> DEFINE m == active[n].id
  <2>1. m \in Ids /\ Ids \subseteq Nat
    BY <1>2, <1>4
  <2>2. \A y \in Ids : m >= y
    BY <1>2, <1>4, <1>5
  <2> HIDE DEF Ids, m
  <2>3. ASSUME NEW x \in Ids, \A y \in Ids : x >= y PROVE x = m
    <3>1. x >= m /\ m >= x /\ x \in Nat /\ m \in Nat
      BY <2>1, <2>2, <2>3
    <3> QED
      BY <3>1
  <2> QED
    <3>1. Max(Ids) = m
      BY <2>1, <2>2, <2>3 DEF Max
    <3> QED
      BY <3>1 DEF m
<1>8. NextCall = active[n].id + 1
  BY <1>7 DEF NextCall
<1>9. Current = active[n].id /\ n \in 1..n
  BY <1>2 DEF Current
<1> QED
  BY <1>2, <1>3, <1>4, <1>5, <1>6, <1>8, <1>9

\* No two calls that are active have the same identity.
LEMMA CallsDiffer ==
    ASSUME Typed, CallsInOrder, NEW i \in DOMAIN active, NEW j \in DOMAIN active,
           active[i].id = active[j].id
    PROVE  i = j
<1>1. /\ Len(active) \in Nat /\ i \in 1..Len(active) /\ j \in 1..Len(active)
      /\ active[i].id \in Nat /\ active[j].id \in Nat
  BY NewestCall DEF CallRecord
<1>0. i \in Nat /\ j \in Nat /\ i >= 1 /\ j >= 1
  BY <1>1
<1>2. ASSUME i < j PROVE FALSE
  <2>1. i \in 1..(j - 1)
    BY <1>0, <1>2
  <2>2. active[i].id < active[j].id
    BY <2>1 DEF CallsInOrder
  <2> QED
    BY <1>1, <2>2
<1>3. ASSUME j < i PROVE FALSE
  <2>1. j \in 1..(i - 1)
    BY <1>0, <1>3
  <2>2. active[j].id < active[i].id
    BY <2>1 DEF CallsInOrder
  <2> QED
    BY <1>1, <2>2
<1> QED
  BY <1>0, <1>2, <1>3

LEMMA FramesAre ==
    ASSUME Typed, FramesInOrder
    PROVE  /\ Len(recorded) \in Nat /\ Len(recorded) >= 1 /\ DOMAIN recorded = 1..Len(recorded)
           /\ recorded \in Seq(FrameRecord) /\ recorded # << >>
           /\ \A k \in DOMAIN recorded : recorded[k] \in FrameRecord
<1>1. recorded \in Seq(FrameRecord) /\ recorded # << >>
  BY DEF Typed, FrameRecord, FramesInOrder
<1>2. Len(recorded) \in Nat /\ Len(recorded) >= 1 /\ DOMAIN recorded = 1..Len(recorded)
  BY <1>1, PopIs
<1> QED
  BY <1>1, <1>2, ElementOfSeq

\* There are no more frames than calls, and when there are as many each call has one.
LEMMA NotHidden ==
    ASSUME Typed, CallsInOrder, FramesInOrder, ~Hidden
    PROVE  Len(recorded) = Len(active) /\ Seen(Len(active))
<1> DEFINE n == Len(active)
           r == Len(recorded)
<1>1. /\ n \in Nat /\ n >= 1 /\ DOMAIN active = 1..n
      /\ r \in Nat /\ r >= 1 /\ DOMAIN recorded = 1..r
  BY NewestCall, FramesAre
<1>2. ~(r < n)
  BY DEF Hidden
<1>3. PICK p \in 1..n : IsAt(r, p)
  BY <1>1 DEF FramesInOrder
<1>4. IsAt(1, 1)
  BY DEF FramesInOrder, CallsInOrder, IsAt
<1>5. ASSUME NEW k \in 1..r PROVE k \in 1..n /\ IsAt(k, k)
  <2>1. PICK j \in 1..n : IsAt(k, j)
    BY <1>1 DEF FramesInOrder
  <2>2. k - 1 <= j - 1
    <3>1. k \in DOMAIN recorded /\ 1 \in 1..k /\ 1 \in DOMAIN active /\ j \in DOMAIN active
      BY <1>1
    <3> QED
      BY <1>4, <2>1, <3>1 DEF FramesInOrder
  <2>3. r - k <= p - j
    <3>1. r \in DOMAIN recorded /\ k \in 1..r /\ j \in DOMAIN active /\ p \in DOMAIN active
      BY <1>1
    <3> QED
      BY <1>3, <2>1, <3>1 DEF FramesInOrder
  <2>4. j = k
    BY <1>1, <1>2, <2>2, <2>3
  <2> QED
    BY <2>1, <2>4
<1>6. r = n
  <2>1. r \in 1..n
    BY <1>1, <1>5
  <2>2. r \in Nat /\ n \in Nat
    BY <1>1
  <2> QED
    BY <1>2, <2>1, <2>2
<1> QED
  BY <1>1, <1>5, <1>6 DEF Seen

-----------------------------------------------------------------------------
(* Commands.                                                               *)

\* What a command that begins does, whichever it is.
Begun(c) ==
    /\ control = "prompt" /\ control' = "command"
    /\ pending' = Started(c) /\ answered' = NoAnswer
    /\ UNCHANGED <<active, recorded, returned, wanted>>
    /\ c \in Given
    /\ ~c.disturbed /\ c.height = Len(active)
    /\ c.places \subseteq {Exception} /\ (c.cmd # "context_get" => c.places = {})
    /\ (c.cmd \in Sized => \A name \in c.names : ToSet(c.todo) \subseteq {name})
    /\ (inhibited' => inhibited \/ c.cmd = "property_get")
    /\ (~allowed' => ~allowed \/ c.cmd = "source")
    /\ (c.cmd \in Sized => c.oldMax = maxData) /\ (c.cmd \notin Sized => maxData' = maxData)
    /\ maxData' \in Sizes

\* -c 0
BegunLocal(c) ==
    /\ c.context = 0 /\ c.cmd \notin Aside
    /\ \E depth \in 0..(Len(recorded) - 1) : c.frame = Frame(depth).id /\ SetFrame(depth)
    /\ (c.cmd \in Sized => lastLocal' = "property")
    /\ (c.cmd = "context_get" => lastLocal' = "context"
                                /\ \E fun \in FunctionsOf(c.frame) : ToSet(c.todo) = Locals[fun])

\* -c 1
BegunGlobal(c) ==
    /\ c.context = 1 /\ c.frame = Main /\ c.cmd \notin Aside
    /\ lastLocal' = lastLocal /\ activeTable'
    /\ (c.cmd \in Sized => activeData' = activeData)
    /\ (c.cmd = "context_get" => activeData' = NoCall /\ ToSet(c.todo) = Locals["main"])

\* source, and a context_get that shows the return value alone.
BegunAside(c) ==
    /\ c.cmd \in Aside /\ UNCHANGED <<activeData, activeTable, lastLocal>>
    /\ c.cmd = "return_value" =>
          c.frame = Frame(0).id /\ c.todo = <<ReturnValue>> /\ returned # NoCall

\* What can be asked for, and which commands there are.
LEMMA NamesAre ==
    /\ Asked \subseteq Names /\ ReturnValue \in Names
    /\ \A fun \in Functions : Locals[fun] \subseteq Names
  BY DEF Names

LEMMA SizedAre ==
    \A cmd \in Sized : cmd \in Kinds /\ cmd \notin Aside /\ cmd # "context_get"
  BY DEF Sized, Kinds, Aside

LEMMA AsideAre ==
    \A cmd \in Aside : cmd \in Kinds /\ cmd \notin Sized /\ cmd # "context_get"
  BY DEF Sized, Kinds, Aside

LEMMA CommandIs ==
    ASSUME Typed, CallsInOrder, NEW cmd \in Kinds, NEW context \in {0, 1}, NEW frame \in Nat,
           NEW names \in Seq(Names)
    PROVE  /\ Command(cmd, context, frame, names) \in Given
           /\ Command(cmd, context, frame, names).cmd = cmd
           /\ Command(cmd, context, frame, names).context = context
           /\ Command(cmd, context, frame, names).frame = frame
           /\ Command(cmd, context, frame, names).todo = names
           /\ Command(cmd, context, frame, names).names = ToSet(names)
           /\ Command(cmd, context, frame, names).places = {}
           /\ Command(cmd, context, frame, names).height = Len(active)
           /\ ~Command(cmd, context, frame, names).disturbed
           /\ cmd \in Sized => Command(cmd, context, frame, names).oldMax = maxData
<1>1. Len(active) \in Nat
  BY NewestCall
<1> DEFINE old == IF cmd \in Sized THEN maxData ELSE 0
<1>2. old \in Sizes
  BY DEF Typed, Sizes
<1> DEFINE asked == ToSet(names)
<1>3. Command(cmd, context, frame, names)
        = [cmd |-> cmd, context |-> context, frame |-> frame, names |-> asked, todo |-> names,
           places |-> {}, oldMax |-> old, disturbed |-> FALSE, height |-> Len(active)]
  BY DEF Command
<1>4. cmd \in Sized => old = maxData
  OBVIOUS
<1>6. asked \in SUBSET Names
  BY ElementOfSeq DEF ToSet
<1> HIDE DEF old
<1>7. asked = ToSet(names)
  OBVIOUS
<1> HIDE DEF asked
<1>5. [cmd |-> cmd, context |-> context, frame |-> frame, names |-> asked, todo |-> names,
       places |-> {}, oldMax |-> old, disturbed |-> FALSE, height |-> Len(active)] \in Given
  BY <1>1, <1>2, <1>6 DEF Given
<1> QED
  BY <1>3, <1>4, <1>5, <1>7

LEMMA FrameIs ==
    ASSUME Typed, FramesInOrder, NEW depth \in 0..(Len(recorded) - 1)
    PROVE  /\ Len(recorded) - depth \in 1..Len(recorded)
           /\ Frame(depth) = recorded[Len(recorded) - depth]
           /\ Frame(depth).id \in Nat
           /\ depth > 0 => /\ Len(recorded) - (depth - 1) \in 1..Len(recorded)
                           /\ FrameData(depth) = recorded[Len(recorded) - (depth - 1)].caller
                           /\ FrameData(depth) \in Nat
<1>1. Len(recorded) \in Nat /\ DOMAIN recorded = 1..Len(recorded)
      /\ \A k \in 1..Len(recorded) : recorded[k].id \in Nat /\ recorded[k].caller \in Nat
  BY FramesAre DEF FrameRecord
<1>2. Len(recorded) \in Nat /\ depth \in Nat /\ depth <= Len(recorded) - 1
  BY <1>1
<1>3. /\ Len(recorded) - depth \in 1..Len(recorded)
      /\ depth > 0 => Len(recorded) - (depth - 1) \in 1..Len(recorded)
  BY <1>2
<1>4. depth > 0 => FrameData(depth) = recorded[Len(recorded) - (depth - 1)].caller
  BY DEF FrameData, Frame
<1> QED
  BY <1>1, <1>3, <1>4 DEF Frame

LEMMA DataIsNat ==
    ASSUME Typed, CallsInOrder, FramesInOrder, NEW depth \in 0..(Len(recorded) - 1)
    PROVE  FrameData(depth) \in Nat
<1>1. CASE depth > 0
  BY <1>1, FrameIs
<1>2. CASE ~(depth > 0)
  <2>1. Current \in Nat
    BY NewestCall
  <2> QED
    BY <1>2, <2>1 DEF FrameData
<1> QED
  BY <1>1, <1>2

LEMMA CommandsBegin ==
    ASSUME Typed, CallsInOrder, FramesInOrder,
           GetProperty \/ GetPropertyValue \/ GetContext \/ GetReturnValue \/ Source
    PROVE  \E c \in Given : Begun(c) /\ (BegunLocal(c) \/ BegunGlobal(c) \/ BegunAside(c))
<1>0. DataSizes \cup {maxData} \subseteq Sizes /\ Main \in Nat /\ NoCall \in Nat
  BY DEF Typed, Sizes, Main, NoCall
<1>1. CASE GetProperty \/ GetPropertyValue
  <2> DEFINE Gets(cmd) ==
           /\ maxData' \in DataSizes \cup {maxData} /\ UNCHANGED allowed
           /\ (inhibited' => inhibited \/ cmd = "property_get")
           /\ \E name \in Names :
                \/ \E depth \in 0..(Len(recorded) - 1) :
                      /\ BeginCommand(Command(cmd, 0, Frame(depth).id, <<name>>))
                      /\ SetFrame(depth) /\ lastLocal' = "property"
                \/ /\ BeginCommand(Command(cmd, 1, Main, <<name>>))
                   /\ SetGlobals /\ UNCHANGED lastLocal
  <2>0. Asked \subseteq Names
    BY NamesAre
  <2>a. GetProperty => Gets("property_get")
    BY <2>0 DEF GetProperty
  <2>b. GetPropertyValue => Gets("property_value")
    <3> SUFFICES ASSUME GetPropertyValue PROVE Gets("property_value")
        OBVIOUS
    <3>1. PICK name \in Names :
             /\ \/ \E depth \in 0..(Len(recorded) - 1) :
                      /\ BeginCommand(Command("property_value", 0, Frame(depth).id, <<name>>))
                      /\ SetFrame(depth) /\ lastLocal' = "property"
                \/ /\ BeginCommand(Command("property_value", 1, Main, <<name>>))
                   /\ SetGlobals /\ UNCHANGED lastLocal
             /\ maxData' \in DataSizes \cup {maxData}
             /\ UNCHANGED <<inhibited, allowed>>
      BY <2>0 DEF GetPropertyValue
    <3> QED
      BY <3>1
  <2> HIDE DEF Gets
  <2>c. PICK cmd \in Sized : Gets(cmd)
    BY <1>1, <2>a, <2>b DEF Sized
  <2>1. /\ maxData' \in DataSizes \cup {maxData} /\ UNCHANGED allowed
        /\ (inhibited' => inhibited \/ cmd = "property_get")
    BY <2>c DEF Gets
  <2>2. PICK name \in Names :
                \/ \E depth \in 0..(Len(recorded) - 1) :
                      /\ BeginCommand(Command(cmd, 0, Frame(depth).id, <<name>>))
                      /\ SetFrame(depth) /\ lastLocal' = "property"
                \/ /\ BeginCommand(Command(cmd, 1, Main, <<name>>))
                   /\ SetGlobals /\ UNCHANGED lastLocal
    BY <2>c DEF Gets
  <2>3. cmd \in Kinds /\ cmd \notin Aside /\ cmd # "context_get" /\ <<name>> \in Seq(Names)
    BY SizedAre
  <2> DEFINE names == <<name>>
  <2>6. names \in Seq(Names) /\ \A x \in ToSet(names) : ToSet(names) \subseteq {x}
    BY <2>3 DEF ToSet
  <2> HIDE DEF names
  <2>4. ASSUME NEW depth \in 0..(Len(recorded) - 1),
               BeginCommand(Command(cmd, 0, Frame(depth).id, <<name>>)),
               SetFrame(depth), lastLocal' = "property"
        PROVE  \E c \in Given : Begun(c) /\ BegunLocal(c)
    <3> DEFINE c == Command(cmd, 0, Frame(depth).id, names)
    <3>1. /\ c \in Given /\ c.cmd = cmd /\ c.context = 0 /\ c.frame = Frame(depth).id
          /\ c.places = {} /\ c.height = Len(active) /\ ~c.disturbed /\ c.oldMax = maxData
          /\ c.todo = names /\ c.names = ToSet(names)
      BY <2>3, <2>6, CommandIs, FrameIs
    <3>2. BeginCommand(c)
      BY <2>4 DEF names
    <3> HIDE DEF c
    <3>3. Begun(c)
      BY <1>0, <2>1, <2>6, <3>1, <3>2 DEF Begun, BeginCommand, Values
    <3>4. BegunLocal(c)
      BY <2>3, <2>4, <3>1 DEF BegunLocal
    <3> QED
      BY <3>1, <3>3, <3>4
  <2>5. ASSUME BeginCommand(Command(cmd, 1, Main, <<name>>)), SetGlobals, UNCHANGED lastLocal
        PROVE  \E c \in Given : Begun(c) /\ BegunGlobal(c)
    <3> DEFINE c == Command(cmd, 1, Main, names)
    <3>1. /\ c \in Given /\ c.cmd = cmd /\ c.context = 1 /\ c.frame = Main
          /\ c.places = {} /\ c.height = Len(active) /\ ~c.disturbed /\ c.oldMax = maxData
          /\ c.todo = names /\ c.names = ToSet(names)
      BY <1>0, <2>3, <2>6, CommandIs
    <3>2. BeginCommand(c)
      BY <2>5 DEF names
    <3> HIDE DEF c
    <3>3. Begun(c)
      BY <1>0, <2>1, <2>6, <3>1, <3>2 DEF Begun, BeginCommand, Values
    <3>4. BegunGlobal(c)
      BY <2>3, <2>5, <3>1 DEF BegunGlobal, SetGlobals
    <3> QED
      BY <3>1, <3>3, <3>4
  <2> QED
    BY <2>2, <2>4, <2>5
<1>2. CASE GetContext
  <2>0. \A fun \in Functions : SetToSeq(Locals[fun]) \in Seq(Names)
                               /\ ToSet(SetToSeq(Locals[fun])) = Locals[fun]
    <3> TAKE fun \in Functions
    <3>1. IsFiniteSet(Locals[fun]) /\ Locals[fun] \subseteq Names
      BY LocalsAssumption DEF Functions, Names
    <3>2. SetToSeq(Locals[fun]) \in Seq(Locals[fun])
          /\ ToSet(SetToSeq(Locals[fun])) = Locals[fun]
      BY <3>1, SetToSeqIs
    <3> QED
      BY <3>1, <3>2, SeqMonotonic
  <2>1. maxData' = maxData /\ inhibited' = inhibited /\ allowed' = allowed
        /\ "context_get" \in Kinds /\ "context_get" \notin Sized /\ "context_get" \notin Aside
    BY <1>2 DEF GetContext, Switches, Kinds, Sized, Aside
  <2>2. ASSUME BeginCommand(Command("context_get", 1, Main, SetToSeq(Locals["main"]))),
               activeTable' = TRUE, activeData' = NoCall, UNCHANGED lastLocal
        PROVE  \E c \in Given : Begun(c) /\ BegunGlobal(c)
    <3> DEFINE c == Command("context_get", 1, Main, SetToSeq(Locals["main"]))
    <3>0. "main" \in Functions
      BY LocalsAssumption DEF Functions
    <3>1. /\ c \in Given /\ c.cmd = "context_get" /\ c.context = 1 /\ c.frame = Main
          /\ c.places = {} /\ c.height = Len(active) /\ ~c.disturbed
          /\ c.todo = SetToSeq(Locals["main"])
      BY <1>0, <2>0, <2>1, <3>0, CommandIs
    <3> HIDE DEF c
    <3>2. BeginCommand(c)
      BY <2>2 DEF c
    <3>3. Begun(c)
      BY <1>0, <2>1, <3>1, <3>2 DEF Begun, BeginCommand, Values
    <3>4. BegunGlobal(c)
      BY <2>0, <2>1, <2>2, <3>0, <3>1 DEF BegunGlobal
    <3> QED
      BY <3>1, <3>3, <3>4
  <2>3. ASSUME NEW depth \in 0..(Len(recorded) - 1), NEW fun \in FunctionsOf(Frame(depth).id),
               NEW before \in SUBSET {Exception},
               BeginCommand([Command("context_get", 0, Frame(depth).id, SetToSeq(Locals[fun]))
                                EXCEPT !.places = before]),
               SetFrame(depth), lastLocal' = "context"
        PROVE  \E c \in Given : Begun(c) /\ BegunLocal(c)
    <3> DEFINE b == Command("context_get", 0, Frame(depth).id, SetToSeq(Locals[fun]))
               c == [b EXCEPT !.places = before]
    <3>0. fun \in Functions
      <4>1. FunctionsOf(Frame(depth).id) \subseteq Functions
        <5>1. \A a \in ToSet(active) : a.fun \in Functions
          BY NewestCall DEF CallRecord, ToSet
        <5> QED
          BY <5>1 DEF FunctionsOf
      <4> QED
        BY <4>1
    <3>a. BeginCommand(c)
      BY <2>3
    <3>b. /\ b \in Given /\ b.cmd = "context_get" /\ b.context = 0 /\ b.frame = Frame(depth).id
          /\ b.height = Len(active) /\ ~b.disturbed /\ b.todo = SetToSeq(Locals[fun])
      BY <2>0, <2>1, <3>0, CommandIs, FrameIs
    <3>c. before \in SUBSET Places
      <4>1. Exception \in Places
        BY <1>0 DEF Exception, Places
      <4> QED
        BY <4>1
    <3> HIDE DEF b
    <3>1. /\ c \in Given /\ c.cmd = "context_get" /\ c.context = 0 /\ c.frame = Frame(depth).id
          /\ c.places = before /\ c.height = Len(active) /\ ~c.disturbed
          /\ c.todo = SetToSeq(Locals[fun])
      BY <3>b, <3>c DEF Given
    <3> HIDE DEF c
    <3>3. Begun(c)
      BY <1>0, <2>1, <2>3, <3>1, <3>a DEF Begun, BeginCommand, Values
    <3>4. BegunLocal(c)
      BY <2>0, <2>1, <2>3, <3>0, <3>1 DEF BegunLocal
    <3> QED
      BY <3>1, <3>3, <3>4
  <2>4. ASSUME NEW depth \in 0..(Len(recorded) - 1), NEW fun \in FunctionsOf(Frame(depth).id),
               BeginCommand([Command("context_get", 0, Frame(depth).id, SetToSeq(Locals[fun]))
                                EXCEPT !.places = IF depth = 0 /\ thrown THEN {Exception}
                                                  ELSE {}]),
               SetFrame(depth), lastLocal' = "context"
        PROVE  \E c \in Given : Begun(c) /\ BegunLocal(c)
    <3> DEFINE before == IF depth = 0 /\ thrown THEN {Exception} ELSE {}
    <3>1. before \in SUBSET {Exception}
      OBVIOUS
    <3>2. BeginCommand([Command("context_get", 0, Frame(depth).id, SetToSeq(Locals[fun]))
                            EXCEPT !.places = before])
      BY <2>4
    <3> HIDE DEF before
    <3> QED
      BY <2>3, <2>4, <3>1, <3>2
  <2> QED
    BY <1>2, <2>2, <2>4 DEF GetContext
<1>3. CASE Source
  <2> DEFINE names == << >>
             c == Command("source", 0, NoCall, names)
  <2>1. "source" \in Kinds /\ "source" \notin Sized /\ names \in Seq(Names)
        /\ "source" \in Aside
    BY EmptySeq DEF Kinds, Sized, Aside
  <2>3. BeginCommand(c) /\ UNCHANGED <<activeData, activeTable, maxData, inhibited, lastLocal>>
    BY <1>3 DEF Source, Pointers
  <2> HIDE DEF names
  <2>2. /\ c \in Given /\ c.cmd = "source"
        /\ c.places = {} /\ c.height = Len(active) /\ ~c.disturbed
    BY <1>0, <2>1, CommandIs
  <2> HIDE DEF c
  <2>4. Begun(c)
    BY <1>0, <2>1, <2>2, <2>3 DEF Begun, BeginCommand, Values
  <2>5. BegunAside(c)
    BY <2>1, <2>2, <2>3 DEF BegunAside
  <2> QED
    BY <2>2, <2>4, <2>5
<1>4. CASE GetReturnValue
  <2> DEFINE names == <<ReturnValue>>
             frame == Frame(0).id
             c == Command("return_value", 0, frame, names)
  <2>b. "return_value" \in Aside /\ "return_value" # "source"
    BY DEF Aside
  <2>1. "return_value" \in Kinds /\ "return_value" \notin Sized /\ names \in Seq(Names)
        /\ "return_value" \in Aside /\ "return_value" # "source" /\ names = <<ReturnValue>>
        /\ "return_value" # "context_get"
    BY <2>b, AsideAre, NamesAre
  <2>2. frame \in Nat
    <3>1. 0 \in 0..(Len(recorded) - 1)
      BY FramesAre
    <3> QED
      BY <3>1, FrameIs
  <2>3. BeginCommand(c) /\ returned # NoCall
        /\ UNCHANGED <<activeData, activeTable, maxData, inhibited, allowed, lastLocal>>
    BY <1>4 DEF GetReturnValue, Pointers, Switches
  <2>a. frame = Frame(0).id
    OBVIOUS
  <2> HIDE DEF names, frame
  <2>4. /\ c \in Given /\ c.cmd = "return_value" /\ c.frame = frame /\ c.todo = names
        /\ c.places = {} /\ c.height = Len(active) /\ ~c.disturbed
    <3>1. "return_value" \in Kinds /\ 0 \in {0, 1} /\ frame \in Nat /\ names \in Seq(Names)
      BY <2>1, <2>2
    <3> QED
      BY <3>1, CommandIs
  <2> HIDE DEF c
  <2>5. Begun(c)
    BY <1>0, <2>1, <2>3, <2>4 DEF Begun, BeginCommand, Values
  <2>6. BegunAside(c)
    BY <2>1, <2>3, <2>4, <2>a DEF BegunAside
  <2> QED
    BY <2>4, <2>5, <2>6
<1> QED
  BY <1>1, <1>2, <1>3, <1>4

-----------------------------------------------------------------------------
(* What a step does to the calls and their frames.                         *)

StackInv == /\ active \in Seq(CallRecord) /\ recorded \in Seq(FrameRecord)
            /\ CallsInOrder /\ FramesInOrder

\* What is below stays; and calls that have frames now had them before.
Steadily ==
    /\ \A i \in DOMAIN active : i \in DOMAIN active' => active'[i] = active[i]
    /\ \A h \in DOMAIN active : h \in DOMAIN active' /\ Seen(h)' => Seen(h)

LEMMA StillStack ==
    ASSUME Typed, CallsInOrder, FramesInOrder, UNCHANGED <<active, recorded>>
    PROVE  StackInv' /\ Steadily
<1>1. active' = active /\ recorded' = recorded
  OBVIOUS
<1>2. Steadily
  BY <1>1 DEF Steadily, Seen, IsAt
<1>3. CallsInOrder' /\ FramesInOrder'
  BY <1>1 DEF CallsInOrder, FramesInOrder, IsAt
<1> QED
  BY <1>1, <1>2, <1>3 DEF StackInv, Typed, CallRecord, FrameRecord

\* A call, with a frame or without.
LEMMA EnterStack ==
    ASSUME Typed, CallsInOrder, FramesInOrder, NEW fun \in Functions, NEW hasFrame \in BOOLEAN,
           Enter(fun, hasFrame)
    PROVE  StackInv' /\ Steadily /\ Len(active') = Len(active) + 1
<1> DEFINE n == Len(active)
           r == Len(recorded)
           call == [id |-> NextCall, fun |-> fun]
           frame == [id |-> NextCall, caller |-> Current]
<1>1. /\ active \in Seq(CallRecord) /\ n \in Nat /\ n >= 1 /\ DOMAIN active = 1..n
      /\ Current = active[n].id /\ NextCall = Current + 1 /\ Current \in Nat
      /\ \A i \in 1..n : active[i] \in CallRecord /\ active[i].id \in 1..Current
  BY NewestCall DEF Typed, CallRecord
<1>2. /\ recorded \in Seq(FrameRecord) /\ r \in Nat /\ r >= 1 /\ DOMAIN recorded = 1..r
      /\ \A k \in 1..r : recorded[k] \in FrameRecord
  BY FramesAre
<1>3. call \in CallRecord /\ frame \in FrameRecord /\ call.id = NextCall /\ frame.id = NextCall
      /\ frame.caller = Current
  BY <1>1 DEF CallRecord, FrameRecord
<1> HIDE DEF call, frame
<1>4. active' = Append(active, call)
  BY DEF Enter, call
<1>5. recorded' = IF hasFrame THEN Append(recorded, frame) ELSE recorded
  BY DEF Enter, frame
<1>6. /\ active' \in Seq(CallRecord) /\ Len(active') = n + 1 /\ DOMAIN active' = 1..(n + 1)
      /\ \A i \in 1..n : active'[i] = active[i]
      /\ active'[n + 1] = call
  BY <1>1, <1>3, <1>4, PushIs
<1>7. PICK m \in {r, r + 1} :
         /\ recorded' \in Seq(FrameRecord) /\ DOMAIN recorded' = 1..m
         /\ \A k \in 1..r : recorded'[k] = recorded[k]
         /\ m = r + 1 => recorded'[r + 1] = frame
  <2>1. CASE hasFrame
    <3>1. /\ recorded' \in Seq(FrameRecord) /\ DOMAIN recorded' = 1..(r + 1)
          /\ \A k \in 1..r : recorded'[k] = recorded[k]
          /\ recorded'[r + 1] = frame
      BY <1>2, <1>3, <1>5, <2>1, PushIs
    <3> QED
      BY <3>1
  <2>2. CASE ~hasFrame
    <3>1. recorded' = recorded
      BY <1>5, <2>2
    <3>0. r \in Nat
      BY <1>2
    <3> HIDE DEF r
    <3>2. r # r + 1
      BY <3>0
    <3> QED
      BY <1>2, <3>1, <3>2
  <2> QED
    BY <2>1, <2>2
<1> HIDE DEF n, r
\* The frames there were are those of the calls there were; a new one is of the new call.
<1>8. ASSUME NEW k \in 1..r, NEW j \in 1..(n + 1), IsAt(k, j)'
      PROVE  j \in 1..n /\ IsAt(k, j)
  <2>1. recorded'[k].id = active'[j].id /\ recorded'[k] = recorded[k]
    BY <1>7, <1>8 DEF IsAt
  <2>2. PICK p \in 1..n : recorded[k].id = active[p].id
    BY <1>1, <1>2 DEF FramesInOrder, IsAt
  <2>3. active'[j].id # NextCall
    BY <1>1, <2>1, <2>2
  <2>4. j # n + 1
    BY <1>3, <1>6, <2>3
  <2>5. j \in 1..n
    BY <1>1, <2>4
  <2> QED
    BY <1>6, <2>1, <2>5 DEF IsAt
<1>9. ASSUME m = r + 1, NEW k, k = r + 1, NEW j \in 1..(n + 1), IsAt(k, j)'
      PROVE  j = n + 1
  <2>1. active'[j].id = NextCall
    BY <1>3, <1>7, <1>9 DEF IsAt
  <2>2. ASSUME j \in 1..n PROVE FALSE
    BY <1>1, <1>6, <2>1, <2>2
  <2> QED
    BY <1>1, <2>2
<1>10. CallsInOrder'
  <2>1. active' # << >> /\ active'[1] = active[1]
    <3>1. 1 \in DOMAIN active' /\ 1 \in 1..n
      BY <1>1, <1>6
    <3>2. 1 \notin DOMAIN << >>
      OBVIOUS
    <3> QED
      BY <1>6, <3>1, <3>2
  <2>2. ASSUME NEW j \in 1..(n + 1), NEW i \in 1..(j - 1)
        PROVE  active'[i].id < active'[j].id
    <3>1. n \in Nat /\ i \in 1..n /\ j \in Nat
      BY <1>1
    <3>2. CASE j \in 1..n
      <4>1. active[i].id < active[j].id
        BY <1>1, <3>2 DEF CallsInOrder
      <4> QED
        BY <1>6, <3>1, <3>2, <4>1
    <3>3. CASE j \notin 1..n
      <4>1. j = n + 1
        BY <3>1, <3>3
      <4>2. active'[j].id = Current + 1 /\ active'[i].id \in 1..Current
        BY <1>1, <1>3, <1>6, <3>1, <4>1
      <4> QED
        BY <1>1, <4>2
    <3> QED
      BY <3>2, <3>3
  <2> QED
    BY <1>6, <2>1, <2>2 DEF CallsInOrder
<1>11. FramesInOrder'
  <2>1. recorded' # << >> /\ recorded'[1] = recorded[1]
    <3>1. 1 \in DOMAIN recorded' /\ 1 \in 1..r
      BY <1>2, <1>7
    <3>2. 1 \notin DOMAIN << >>
      OBVIOUS
    <3> QED
      BY <1>7, <3>1, <3>2
  <2>2. ASSUME NEW k \in 1..m
        PROVE  \E j \in 1..(n + 1) :
                  IsAt(k, j)' /\ recorded'[k].caller = IF j = 1 THEN NoCall ELSE active'[j - 1].id
    <3>0. n \in Nat /\ r \in Nat /\ n >= 1
      BY <1>1, <1>2
    <3>1. CASE k \in 1..r
      <4>1. PICK j \in 1..n :
               IsAt(k, j) /\ recorded[k].caller = IF j = 1 THEN NoCall ELSE active[j - 1].id
        BY <1>1, <1>2, <3>1 DEF FramesInOrder
      <4>2. j \in 1..(n + 1) /\ (j # 1 => j - 1 \in 1..n)
        BY <3>0
      <4>3. IsAt(k, j)'
        BY <1>6, <1>7, <3>1, <4>1 DEF IsAt
      <4>4. recorded'[k].caller = IF j = 1 THEN NoCall ELSE active'[j - 1].id
        BY <1>6, <1>7, <3>1, <4>1, <4>2
      <4> QED
        BY <4>2, <4>3, <4>4
    <3>2. CASE k \notin 1..r
      <4>1. k = r + 1 /\ m = r + 1 /\ n + 1 \in 1..(n + 1) /\ n + 1 # 1 /\ (n + 1) - 1 = n
            /\ n \in 1..n
        BY <3>0, <3>2
      <4>2. recorded'[k] = frame /\ active'[n + 1] = call /\ active'[n] = active[n]
        BY <1>6, <1>7, <4>1
      <4>3. recorded'[k].id = active'[n + 1].id
        BY <1>3, <4>2
      <4>4. recorded'[k].caller = active'[(n + 1) - 1].id
        BY <1>1, <1>3, <4>1, <4>2 DEF n
      <4>5. PICK j \in 1..(n + 1) : j = n + 1
        BY <4>1
      <4>6. IsAt(k, j)'
        BY <4>3, <4>5 DEF IsAt
      <4> QED
        BY <4>1, <4>4, <4>5, <4>6
    <3> QED
      BY <3>1, <3>2
  <2>3. ASSUME NEW l \in 1..m, NEW k \in 1..l, NEW i \in 1..(n + 1), NEW j \in 1..(n + 1),
               IsAt(k, i)', IsAt(l, j)'
        PROVE  l - k <= j - i
    <3>0. n \in Nat /\ r \in Nat /\ n >= 1 /\ r >= 1 /\ k \in Nat /\ l \in Nat
      BY <1>1, <1>2
    <3>1. CASE l \in 1..r
      <4>1. k \in 1..r
        BY <3>0, <3>1
      <4>2. i \in 1..n /\ j \in 1..n /\ IsAt(k, i) /\ IsAt(l, j)
        BY <1>8, <2>3, <3>1, <4>1
      <4> QED
        BY <1>1, <1>2, <3>1, <4>2 DEF FramesInOrder
    <3>2. CASE l \notin 1..r
      <4>1. l = r + 1 /\ m = r + 1
        BY <3>0, <3>2
      <4>2. j = n + 1
        BY <1>9, <2>3, <4>1
      <4>3. CASE k \in 1..r
        <5>1. i \in 1..n /\ IsAt(k, i)
          BY <1>8, <2>3, <4>3
        <5>2. PICK p \in 1..n : IsAt(r, p)
          <6>1. r \in 1..r
            BY <3>0
          <6> QED
            BY <1>1, <1>2, <6>1 DEF FramesInOrder
        <5>3. r - k <= p - i
          <6>1. r \in 1..r
            BY <3>0
          <6> QED
            BY <1>1, <1>2, <4>3, <5>1, <5>2, <6>1 DEF FramesInOrder
        <5> QED
          BY <3>0, <4>1, <4>2, <5>1, <5>2, <5>3
      <4>4. CASE k \notin 1..r
        <5>1. k = r + 1
          BY <3>0, <4>1, <4>4
        <5>2. i = n + 1
          BY <1>9, <2>3, <4>1, <5>1
        <5> QED
          BY <3>0, <4>1, <4>2, <5>1, <5>2
      <4> QED
        BY <4>3, <4>4
    <3> QED
      BY <3>1, <3>2
  <2> QED
    <3>1. recorded'[1] = [id |-> Main, caller |-> NoCall]
      BY <2>1 DEF FramesInOrder
    <3>2. DOMAIN recorded' = 1..m /\ DOMAIN active' = 1..(n + 1)
      BY <1>6, <1>7
    <3> QED
      BY <2>1, <2>2, <2>3, <3>1, <3>2 DEF FramesInOrder
<1>12. Steadily
  <2>1. \A i \in DOMAIN active : active'[i] = active[i]
    BY <1>1, <1>6
  <2>2. ASSUME NEW h \in 1..n, Seen(h)', NEW k \in 1..h
        PROVE  k \in DOMAIN recorded /\ IsAt(k, k)
    <3>0. n \in Nat /\ r \in Nat /\ k \in 1..n /\ k \in 1..(n + 1) /\ k # n + 1
      BY <1>1, <1>2
    <3>1. k \in 1..m /\ IsAt(k, k)'
      BY <1>7, <2>2 DEF Seen
    <3>2. k \in 1..r
      <4>1. ASSUME k \notin 1..r PROVE FALSE
        <5>1. k = r + 1 /\ m = r + 1
          BY <3>0, <3>1, <4>1
        <5> QED
          BY <1>9, <3>0, <3>1, <5>1
      <4> QED
        BY <4>1
    <3> QED
      BY <1>2, <1>8, <3>0, <3>1, <3>2
  <2> QED
    BY <1>1, <2>1, <2>2 DEF Steadily, Seen
<1> QED
  BY <1>6, <1>7, <1>10, <1>11, <1>12 DEF StackInv, n

\* A call that is over takes its frame with it, if it has one, and no other.
LEMMA ReturnStack ==
    ASSUME Typed, CallsInOrder, FramesInOrder, Return
    PROVE  StackInv' /\ Steadily /\ Len(active') = Len(active) - 1
<1> DEFINE n == Len(active)
           r == Len(recorded)
<1>1. /\ active \in Seq(CallRecord) /\ n \in Nat /\ n >= 2 /\ DOMAIN active = 1..n
      /\ active # << >> /\ Current = active[n].id
      /\ \A i \in 1..n : active[i] \in CallRecord
  <2>1. n > 1
    BY DEF Return
  <2> QED
    BY <2>1, NewestCall DEF Typed, CallRecord, CallsInOrder
<1>2. /\ recorded \in Seq(FrameRecord) /\ r \in Nat /\ r >= 1 /\ DOMAIN recorded = 1..r
      /\ recorded # << >> /\ \A k \in 1..r : recorded[k] \in FrameRecord
  BY FramesAre
<1>3. /\ active' \in Seq(CallRecord) /\ Len(active') = n - 1 /\ DOMAIN active' = 1..(n - 1)
      /\ \A i \in 1..(n - 1) : active'[i] = active[i]
  BY <1>1, PopIs DEF Return
<1>4. recorded' = IF recorded[r].id = Current THEN Front(recorded) ELSE recorded
  <2>1. Last(recorded) = recorded[r]
    BY <1>2, PopIs
  <2> QED
    BY <2>1 DEF Return
<1>5. PICK m \in (r - 1)..r :
         /\ recorded' \in Seq(FrameRecord) /\ DOMAIN recorded' = 1..m
         /\ \A k \in 1..m : recorded'[k] = recorded[k]
         /\ m = r => recorded[r].id # Current
         /\ m # r => recorded[r].id = Current
  <2>0. r \in (r - 1)..r /\ r - 1 \in (r - 1)..r /\ r # r - 1
    <3>1. r \in Nat
      BY <1>2
    <3> HIDE DEF r
    <3> QED
      BY <3>1
  <2>1. CASE recorded[r].id = Current
    <3>1. /\ recorded' \in Seq(FrameRecord) /\ DOMAIN recorded' = 1..(r - 1)
          /\ \A k \in 1..(r - 1) : recorded'[k] = recorded[k]
      BY <1>2, <1>4, <2>1, PopIs
    <3> QED
      BY <2>0, <2>1, <3>1
  <2>2. CASE recorded[r].id # Current
    <3>1. recorded' = recorded
      BY <1>4, <2>2
    <3> QED
      BY <1>2, <2>0, <2>2, <3>1
  <2> QED
    BY <2>1, <2>2
<1> HIDE DEF n, r
<1>6. n \in Nat /\ n >= 2 /\ r \in Nat /\ r >= 1 /\ m \in Nat /\ (m = r \/ m = r - 1)
  BY <1>1, <1>2, <1>5
<1>7. PICK p \in 1..n : recorded[r].id = active[p].id
  <2>1. r \in 1..r
    BY <1>6
  <2> QED
    BY <1>1, <1>2, <2>1 DEF FramesInOrder, IsAt
\* The frames that are left are those of calls that are left.
<1>8. ASSUME NEW k \in 1..m PROVE recorded[k].id # active[n].id
  <2> SUFFICES ASSUME recorded[k].id = active[n].id PROVE FALSE
      OBVIOUS
  <2>1. r \in 1..r /\ k \in 1..r /\ n \in 1..n
    BY <1>6
  <2>2. r - k <= p - n
    BY <1>1, <1>2, <1>7, <2>1 DEF FramesInOrder, IsAt
  <2>3. k = r /\ p = n
    BY <1>6, <2>1, <2>2
  <2> QED
    BY <1>1, <1>5, <1>6, <1>7, <2>3
<1>9. m >= 1 /\ 1 \in 1..m
  <2>1. ASSUME m = 0 PROVE FALSE
    <3>1. r = 1 /\ m # r /\ 1 \in 1..n /\ n \in 1..n
      BY <1>6, <2>1
    <3>2. active[1].id = active[n].id
      BY <1>1, <1>5, <3>1 DEF FramesInOrder, CallsInOrder
    <3>3. n = 1
      BY <1>1, <3>1, <3>2, CallsDiffer
    <3> QED
      BY <1>6, <3>3
  <2> QED
    BY <1>6, <2>1
<1>10. CallsInOrder'
  <2>1. active' # << >> /\ active'[1] = active[1]
    <3>1. 1 \in DOMAIN active' /\ 1 \in 1..(n - 1)
      BY <1>3, <1>6
    <3>2. 1 \notin DOMAIN << >>
      OBVIOUS
    <3> QED
      BY <1>3, <3>1, <3>2
  <2>2. ASSUME NEW j \in 1..(n - 1), NEW i \in 1..(j - 1)
        PROVE  active'[i].id < active'[j].id
    <3>1. i \in 1..(n - 1) /\ j \in 1..n
      BY <1>6
    <3> QED
      BY <1>1, <1>3, <3>1 DEF CallsInOrder
  <2> QED
    BY <1>3, <2>1, <2>2 DEF CallsInOrder
<1>11. FramesInOrder'
  <2>1. recorded' # << >> /\ recorded'[1] = recorded[1]
    <3>1. 1 \in DOMAIN recorded'
      BY <1>5, <1>9
    <3>2. 1 \notin DOMAIN << >>
      OBVIOUS
    <3> QED
      BY <1>5, <1>9, <3>1, <3>2
  <2>2. ASSUME NEW k \in 1..m
        PROVE  \E j \in 1..(n - 1) :
                  IsAt(k, j)' /\ recorded'[k].caller = IF j = 1 THEN NoCall ELSE active'[j - 1].id
    <3>1. k \in 1..r
      BY <1>6
    <3>2. PICK j \in 1..n :
             IsAt(k, j) /\ recorded[k].caller = IF j = 1 THEN NoCall ELSE active[j - 1].id
      BY <1>1, <1>2, <3>1 DEF FramesInOrder
    <3>3. j # n
      BY <1>8, <3>2 DEF IsAt
    <3>4. j \in 1..(n - 1) /\ (j # 1 => j - 1 \in 1..(n - 1))
      BY <1>6, <3>3
    <3>5. IsAt(k, j)'
      BY <1>3, <1>5, <3>2, <3>4 DEF IsAt
    <3>6. recorded'[k].caller = IF j = 1 THEN NoCall ELSE active'[j - 1].id
      BY <1>3, <1>5, <3>2, <3>4
    <3> QED
      BY <3>4, <3>5, <3>6
  <2>3. ASSUME NEW l \in 1..m, NEW k \in 1..l, NEW i \in 1..(n - 1), NEW j \in 1..(n - 1),
               IsAt(k, i)', IsAt(l, j)'
        PROVE  l - k <= j - i
    <3>1. l \in 1..r /\ k \in 1..m /\ i \in 1..n /\ j \in 1..n
      BY <1>6
    <3>2. IsAt(k, i) /\ IsAt(l, j)
      BY <1>3, <1>5, <2>3, <3>1 DEF IsAt
    <3> QED
      BY <1>1, <1>2, <3>1, <3>2 DEF FramesInOrder
  <2> QED
    <3>1. recorded'[1] = [id |-> Main, caller |-> NoCall]
      BY <2>1 DEF FramesInOrder
    <3>2. DOMAIN recorded' = 1..m /\ DOMAIN active' = 1..(n - 1)
      BY <1>3, <1>5
    <3> QED
      BY <2>1, <2>2, <2>3, <3>1, <3>2 DEF FramesInOrder
<1>12. Steadily
  <2>1. ASSUME NEW h \in 1..(n - 1), Seen(h)', NEW k \in 1..h
        PROVE  k \in DOMAIN recorded /\ IsAt(k, k)
    <3>1. k \in 1..m /\ IsAt(k, k)'
      BY <1>5, <2>1 DEF Seen
    <3>2. k \in 1..(n - 1) /\ k \in 1..r
      BY <1>6, <3>1
    <3> QED
      BY <1>2, <1>3, <1>5, <3>1, <3>2 DEF IsAt
  <2> QED
    BY <1>1, <1>3, <2>1 DEF Steadily, Seen
<1> QED
  BY <1>3, <1>5, <1>10, <1>11, <1>12 DEF StackInv, n

\* Every other action leaves the calls alone, or makes one.
LEMMA CallSteps ==
    ASSUME DataNext
    PROVE  \/ UNCHANGED <<active, recorded>>
           \/ \E fun \in Functions, hasFrame \in BOOLEAN : Enter(fun, hasFrame)
           \/ Return
<1>1. CASE Call
  BY <1>1 DEF Call
<1>2. CASE ShowValue
  BY <1>2 DEF ShowValue, LookUp
<1>3. CASE RunsAccess
  BY <1>3 DEF RunsAccess, LookUp
<1>4. CASE RunsWrapper
  BY <1>4 DEF RunsWrapper
<1>5. CASE \/ GetProperty \/ GetPropertyValue \/ GetContext \/ GetReturnValue \/ Source
  BY <1>5 DEF GetProperty, GetPropertyValue, GetContext, GetReturnValue, Source, BeginCommand
<1>6. CASE StopScript \/ Resume \/ EndCommand \/ PropertySet
  BY <1>6 DEF StopScript, Resume, EndCommand, PropertySet
<1>7. CASE Eval \/ StackGet \/ FeatureSet
  BY <1>7 DEF Eval, StackGet, FeatureSet
<1> QED
  BY <1>1, <1>2, <1>3, <1>4, <1>5, <1>6, <1>7 DEF DataNext

LEMMA StackStep ==
    ASSUME Typed, CallsInOrder, FramesInOrder, [DataNext]_dataVars
    PROVE  StackInv' /\ Steadily
<1>1. CASE UNCHANGED <<active, recorded>>
  BY <1>1, StillStack
<1>2. CASE \E fun \in Functions, hasFrame \in BOOLEAN : Enter(fun, hasFrame)
  BY <1>2, EnterStack
<1>3. CASE Return
  BY <1>3, ReturnStack
<1> QED
  BY <1>1, <1>2, <1>3, CallSteps DEF dataVars

-----------------------------------------------------------------------------
(* What a step does to the commands that are pending.                      *)

\* The same command, perhaps disturbed by now.
Same(c, d) ==
    /\ c.cmd = d.cmd /\ c.context = d.context /\ c.frame = d.frame /\ c.oldMax = d.oldMax
    /\ c.height = d.height /\ c.names = d.names /\ (~c.disturbed => ~d.disturbed)

\* And it has shown nothing in between.
Waits(c, d) == Same(c, d) /\ c.todo = d.todo /\ c.places = d.places

LEMMA DisturbedIs ==
    ASSUME NEW d \in Given, NEW b \in BOOLEAN, d.disturbed => b
    PROVE  /\ [d EXCEPT !.disturbed = b] \in Given
           /\ Waits([d EXCEPT !.disturbed = b], d)
           /\ [d EXCEPT !.disturbed = b].disturbed <=> b
<1> DEFINE e == [d EXCEPT !.disturbed = b]
<1>1. e \in Given
  BY DEF Given
<1>2. /\ e.cmd = d.cmd /\ e.context = d.context /\ e.frame = d.frame /\ e.oldMax = d.oldMax
      /\ e.height = d.height /\ e.names = d.names /\ e.todo = d.todo /\ e.places = d.places
  BY DEF Given
<1>3. e.disturbed = b
  BY DEF Given
<1> QED
  BY <1>1, <1>2, <1>3 DEF Waits, Same

LEMMA PendingAre ==
    ASSUME Typed
    PROVE  /\ Len(pending) \in Nat /\ DOMAIN pending = 1..Len(pending)
           /\ \A k \in DOMAIN pending : pending[k] \in Given /\ pending[k].disturbed \in BOOLEAN
<1>1. Len(pending) \in Nat /\ DOMAIN pending = 1..Len(pending)
  BY LenProperties DEF Typed
<1>2. \A k \in 1..Len(pending) : pending[k] \in Given
  BY ElementOfSeq DEF Typed
<1> QED
  BY <1>1, <1>2 DEF Given

LEMMA StartedIs ==
    ASSUME Typed, NEW c \in Given, pending' = Started(c)
    PROVE  /\ pending' \in Seq(Given) /\ Len(pending') = Len(pending) + 1
           /\ DOMAIN pending' = 1..(Len(pending) + 1)
           /\ pending'[Len(pending) + 1] = c /\ Last(pending') = c /\ pending' # << >>
           /\ \A k \in DOMAIN pending :
                 /\ Waits(pending'[k], pending[k])
                 /\ ~pending'[k].disturbed => c.cmd \in Aside
<1> DEFINE b(k) == pending[k].disturbed \/ c.cmd \notin Aside
           t == [k \in DOMAIN pending |-> [pending[k] EXCEPT !.disturbed = b(k)]]
<1>1. \A k \in DOMAIN pending : b(k) \in BOOLEAN /\ (pending[k].disturbed => b(k))
  OBVIOUS
<1>2. \A k \in DOMAIN pending : t[k] = [pending[k] EXCEPT !.disturbed = b(k)]
  OBVIOUS
<1>3. pending' = Append(t, c)
  BY DEF Started
<1>4. \A k \in DOMAIN pending : ~b(k) => c.cmd \in Aside
  OBVIOUS
<1>5. t = [k \in DOMAIN pending |-> t[k]]
  OBVIOUS
<1> HIDE DEF t, b
<1>6. ASSUME NEW k \in DOMAIN pending
      PROVE  t[k] \in Given /\ Waits(t[k], pending[k]) /\ (t[k].disturbed <=> b(k))
  <2>1. pending[k] \in Given /\ b(k) \in BOOLEAN /\ (pending[k].disturbed => b(k))
    BY <1>1, PendingAre
  <2>2. /\ [pending[k] EXCEPT !.disturbed = b(k)] \in Given
        /\ Waits([pending[k] EXCEPT !.disturbed = b(k)], pending[k])
        /\ [pending[k] EXCEPT !.disturbed = b(k)].disturbed <=> b(k)
    BY <2>1, DisturbedIs
  <2> QED
    BY <1>2, <2>2
<1>7. t \in Seq(Given) /\ Len(t) = Len(pending) /\ DOMAIN t = DOMAIN pending
  BY <1>5, <1>6, MappedIs DEF Typed
<1>8. /\ pending' \in Seq(Given) /\ Len(pending') = Len(pending) + 1
      /\ DOMAIN pending' = 1..(Len(pending) + 1)
      /\ pending'[Len(pending) + 1] = c
      /\ \A k \in 1..Len(pending) : pending'[k] = t[k]
  BY <1>3, <1>7, PushIs
<1>9. Len(pending) \in Nat /\ DOMAIN pending = 1..Len(pending)
  BY PendingAre
<1>10. Last(pending') = c /\ pending' # << >>
  <2>1. Len(pending) + 1 # 0 /\ Len(<< >>) = 0
    BY <1>9
  <2> QED
    BY <1>8, <2>1 DEF Last
<1> QED
  BY <1>4, <1>6, <1>8, <1>9, <1>10

LEMMA AllDisturbed ==
    ASSUME Typed,
           pending' = [k \in DOMAIN pending |-> [pending[k] EXCEPT !.disturbed = TRUE]]
    PROVE  /\ pending' \in Seq(Given) /\ Len(pending') = Len(pending)
           /\ DOMAIN pending' = DOMAIN pending
           /\ \A k \in DOMAIN pending : Waits(pending'[k], pending[k]) /\ pending'[k].disturbed
<1> DEFINE t == [k \in DOMAIN pending |-> [pending[k] EXCEPT !.disturbed = TRUE]]
<1>1. \A k \in DOMAIN pending : t[k] = [pending[k] EXCEPT !.disturbed = TRUE]
  OBVIOUS
<1>2. pending' = t /\ t = [k \in DOMAIN pending |-> t[k]]
  OBVIOUS
<1> HIDE DEF t
<1>3. ASSUME NEW k \in DOMAIN pending
      PROVE  t[k] \in Given /\ Waits(t[k], pending[k]) /\ t[k].disturbed
  <2>1. pending[k] \in Given /\ (pending[k].disturbed => TRUE)
    BY PendingAre
  <2>2. /\ [pending[k] EXCEPT !.disturbed = TRUE] \in Given
        /\ Waits([pending[k] EXCEPT !.disturbed = TRUE], pending[k])
        /\ [pending[k] EXCEPT !.disturbed = TRUE].disturbed <=> TRUE
    BY <2>1, DisturbedIs
  <2> QED
    BY <1>1, <2>2
<1>4. t \in Seq(Given) /\ Len(t) = Len(pending) /\ DOMAIN t = DOMAIN pending
  BY <1>2, <1>3, MappedIs DEF Typed
<1> QED
  BY <1>2, <1>3, <1>4

\* The place that a name leads to.
LEMMA LookupsType ==
    ASSUME Typed, NEW name \in Names
    PROVE  Lookups(name) \subseteq Places
<1>1. /\ Nowhere \in Places /\ <<Main, name>> \in Places /\ <<activeData, name>> \in Places
      /\ <<returned, ReturnValue>> \in Places /\ Exception \in Places
  BY DEF Nowhere, Exception, NoCall, Main, Places, Names, Typed
<1> HIDE DEF Places
<1> DEFINE table == IF activeTable /\ name \in Locals["main"] THEN <<Main, name>> ELSE Nowhere
<1>2. table \in Places
  BY <1>1
<1> HIDE DEF table
<1>3. \A fun : (IF name \in Locals[fun] THEN <<activeData, name>> ELSE table) \in Places
  BY <1>1, <1>2
<1>4. Lookups(name) =
         IF returned # NoCall /\ AsReturned(name) THEN {<<returned, ReturnValue>>}
         ELSE IF thrown /\ AsThrown(name) THEN {Exception}
         ELSE IF activeData = NoCall THEN {table}
         ELSE {IF name \in Locals[fun] THEN <<activeData, name>> ELSE table :
                  fun \in FunctionsOf(activeData)}
  BY DEF Lookups, table
<1> QED
  BY <1>1, <1>2, <1>3, <1>4

Shows(place) ==
    pending' = [pending EXCEPT ![Len(pending)].todo = Tail(@),
                               ![Len(pending)].places = @ \cup {place},
                               ![Len(pending)].height = Len(active)]

LEMMA ShownNow ==
    ASSUME Typed, CallsInOrder, pending # << >>, Last(pending).todo # << >>,
           NEW place \in Places, Shows(place)
    PROVE  LET n == Len(pending)
           IN /\ pending' \in Seq(Given) /\ Len(pending') = n /\ DOMAIN pending' = 1..n
              /\ n \in 1..n /\ Last(pending) = pending[n] /\ Last(pending') = pending'[n]
              /\ \A k \in 1..n : k # n => pending'[k] = pending[k]
              /\ pending'[n].cmd = pending[n].cmd /\ pending'[n].context = pending[n].context
              /\ pending'[n].frame = pending[n].frame /\ pending'[n].oldMax = pending[n].oldMax
              /\ pending'[n].disturbed = pending[n].disturbed
              /\ pending'[n].names = pending[n].names
              /\ pending'[n].todo = Tail(pending[n].todo)
              /\ pending'[n].places = pending[n].places \cup {place}
              /\ pending'[n].height = Len(active)
<1> DEFINE n == Len(pending)
           c == pending[n]
           d == [c EXCEPT !.todo = Tail(c.todo), !.places = c.places \cup {place},
                          !.height = Len(active)]
<1>1. /\ n \in Nat /\ n >= 1 /\ n \in 1..n /\ DOMAIN pending = 1..n
      /\ Last(pending) = c /\ c \in Given /\ pending \in Seq(Given)
  BY PopIs DEF Typed
<1>2. /\ Tail(c.todo) \in Seq(Names) /\ c.places \cup {place} \in SUBSET Places
      /\ Len(active) \in Nat
  BY <1>1, HeadTailProperties, NewestCall DEF Given
<1>3. /\ d \in Given /\ d.cmd = c.cmd /\ d.context = c.context /\ d.frame = c.frame
      /\ d.oldMax = c.oldMax /\ d.disturbed = c.disturbed /\ d.names = c.names
      /\ d.todo = Tail(c.todo)
      /\ d.places = c.places \cup {place} /\ d.height = Len(active)
  BY <1>1, <1>2 DEF Given
<1>4. pending' = [pending EXCEPT ![n] = d]
  BY DEF Shows
<1> HIDE DEF d
<1>5. /\ pending' \in Seq(Given) /\ Len(pending') = n
      /\ \A j \in 1..n : pending'[j] = IF j = n THEN d ELSE pending[j]
  BY <1>1, <1>3, <1>4, ExceptSeq
<1>6. DOMAIN pending' = 1..n /\ Last(pending') = pending'[n]
  BY <1>5, LenProperties DEF Last
<1> QED
  BY <1>1, <1>3, <1>5, <1>6

\* The actions that leave the commands and the pointers alone.
Quiet == \/ Call \/ Return \/ StopScript \/ Resume
         \/ RunsWrapper \/ Eval \/ StackGet \/ FeatureSet
         \/ UNCHANGED dataVars

Begins == GetProperty \/ GetPropertyValue \/ GetContext \/ GetReturnValue \/ Source

LEMMA DataSteps ==
    ASSUME [DataNext]_dataVars
    PROVE  \/ Quiet \/ Begins \/ (\E runsCode \in BOOLEAN : LookUp(runsCode))
           \/ EndCommand \/ PropertySet
BY DEF DataNext, Quiet, Begins, ShowValue, RunsAccess

LEMMA QuietIs ==
    ASSUME Quiet
    PROVE  /\ pending' = pending /\ activeData' = activeData /\ activeTable' = activeTable
           /\ lastLocal' = lastLocal
<1>1. CASE Call \/ Return \/ RunsWrapper
  BY <1>1 DEF Call, Return, RunsWrapper, Pointers, Ghosts
<1>2. CASE StopScript \/ Resume \/ Eval
  BY <1>2 DEF StopScript, Resume, Eval, Pointers, Ghosts
<1>3. CASE StackGet \/ FeatureSet
  BY <1>3 DEF StackGet, FeatureSet, Pointers, Ghosts
<1> QED
  BY <1>1, <1>2, <1>3 DEF Quiet, dataVars

LEMMA LookUpIs ==
    ASSUME Typed, CallsInOrder, control = "command" => pending # << >>,
           NEW runsCode \in BOOLEAN, LookUp(runsCode)
    PROVE  /\ control = "command" /\ pending # << >> /\ Last(pending).todo # << >>
           /\ \E place \in Lookups(Head(Last(pending).todo)) : place \in Places /\ Shows(place)
           /\ control' \in {"command", "script"}
           /\ UNCHANGED <<activeData, activeTable, maxData, inhibited, allowed, returned, wanted,
                          lastLocal, answered>>
<1>1. /\ control = "command" /\ pending # << >> /\ Last(pending).todo # << >>
      /\ UNCHANGED <<activeData, activeTable, maxData, inhibited, allowed, returned, wanted,
                     lastLocal, answered>>
  BY DEF LookUp, Pointers, Switches, Values, Ghosts
<1>2. control' \in {"command", "script"}
  <2>1. CASE ~runsCode
    BY <1>1, <2>1 DEF LookUp
  <2>2. CASE runsCode
    BY <2>2 DEF LookUp
  <2> QED
    BY <2>1, <2>2
<1>3. Last(pending) \in Given
  BY <1>1, PopIs DEF Typed
<1>4. Head(Last(pending).todo) \in Names
  BY <1>1, <1>3, HeadTailProperties DEF Given
<1>5. Lookups(Head(Last(pending).todo)) \subseteq Places
  BY <1>4, LookupsType
<1>6. \E place \in Lookups(Head(Last(pending).todo)) : Shows(place)
  BY DEF LookUp, Shows
<1> QED
  BY <1>1, <1>2, <1>5, <1>6

LEMMA EndIs ==
    ASSUME Typed, control = "command" => pending # << >>, EndCommand
    PROVE  LET n == Len(pending)
               c == pending[n]
           IN /\ n \in Nat /\ n >= 1 /\ DOMAIN pending = 1..n /\ c \in Given
              /\ Last(pending) = c /\ Restore(c) /\ c.todo = << >>
              /\ control = "command" /\ control' = "prompt"
              /\ pending' \in Seq(Given) /\ Len(pending') = n - 1 /\ DOMAIN pending' = 1..(n - 1)
              /\ \A k \in 1..(n - 1) : pending'[k] = pending[k]
              /\ answered' = [c EXCEPT !.oldMax = 0, !.height = 0]
              /\ c.cmd = "context_get" => ~activeTable' /\ activeData' = NoCall
              /\ c.cmd # "context_get" => UNCHANGED <<activeData, activeTable>>
              /\ UNCHANGED <<active, recorded, returned, wanted, lastLocal>>
<1> DEFINE n == Len(pending)
           c == pending[n]
<1>1. pending # << >> /\ pending \in Seq(Given)
  BY DEF EndCommand, Typed
<1>2. /\ n \in Nat /\ n >= 1 /\ DOMAIN pending = 1..n /\ Last(pending) = c /\ c \in Given
      /\ Front(pending) \in Seq(Given) /\ Len(Front(pending)) = n - 1
      /\ DOMAIN Front(pending) = 1..(n - 1)
      /\ \A k \in 1..(n - 1) : Front(pending)[k] = pending[k]
  BY <1>1, PopIs
<1>3. /\ Restore(c) /\ c.todo = << >> /\ pending' = Front(pending)
      /\ answered' = [c EXCEPT !.oldMax = 0, !.height = 0]
      /\ control = "command" /\ control' = "prompt"
      /\ UNCHANGED <<active, recorded, returned, wanted, lastLocal>>
  BY <1>2 DEF EndCommand, Values, Ghosts
<1>4. /\ c.cmd = "context_get" => ~activeTable' /\ activeData' = NoCall
      /\ c.cmd # "context_get" => UNCHANGED <<activeData, activeTable>>
  BY <1>2 DEF EndCommand, Pointers
<1> QED
  BY <1>2, <1>3, <1>4

PropertySets(depth, name, local) ==
    /\ IF local THEN SetFrame(depth) ELSE SetGlobals
    /\ lastLocal' = IF local THEN "property" ELSE lastLocal
    /\ LET scope == IF depth > 0 THEN activeData' ELSE Current
       IN answered' = [NoAnswer EXCEPT
             !.cmd = "property_set", !.context = IF local THEN 0 ELSE 1,
             !.frame = IF local THEN Frame(depth).id ELSE Main,
             !.places = {<<IF scope = NoCall THEN Main ELSE scope, name>>}]

-----------------------------------------------------------------------------
(* Types, and what is overridden.                                          *)

\* What is returned changes when the script stops or goes on.
LEMMA ReturnedIs ==
    ASSUME [DataNext]_dataVars, ~StopScript, ~Resume
    PROVE  returned' = returned
<1>1. CASE Call \/ Return \/ RunsWrapper
  BY <1>1 DEF Call, Return, RunsWrapper, Values
<1>2. CASE Begins
  BY <1>2 DEF Begins, GetProperty, GetPropertyValue, GetContext, GetReturnValue, Source,
              BeginCommand, Values
<1>3. CASE \E runsCode \in BOOLEAN : LookUp(runsCode)
  BY <1>3 DEF LookUp, Values
<1>4. CASE EndCommand
  BY <1>4 DEF EndCommand, Values
<1>5. CASE PropertySet \/ Eval \/ StackGet \/ FeatureSet
  BY <1>5 DEF PropertySet, Eval, StackGet, FeatureSet, Values
<1>6. CASE UNCHANGED dataVars
  BY <1>6 DEF dataVars
<1> QED
  BY <1>1, <1>2, <1>3, <1>4, <1>5, <1>6, DataSteps DEF Quiet

LEMMA TypedStep ==
    ASSUME Typed, CallsInOrder, FramesInOrder, control = "command" => pending # << >>,
           [DataNext]_dataVars
    PROVE  Typed'
<1>1. active' \in Seq([id : Nat, fun : Functions]) /\ recorded' \in Seq([id : Nat, caller : Nat])
  BY StackStep DEF StackInv, CallRecord, FrameRecord
<1>2. pending \in Seq(Given) /\ activeData \in Nat /\ maxData \in Sizes /\ wanted \in Sizes
      /\ control \in {"script", "prompt", "command"}
  BY DEF Typed
<1>3. ASSUME Quiet
      PROVE  /\ pending' \in Seq(Given) /\ activeData' \in Nat /\ maxData' \in Sizes
             /\ wanted' \in Sizes /\ control' \in {"script", "prompt", "command"}
  <2>1. pending' \in Seq(Given) /\ activeData' \in Nat
    BY <1>2, <1>3, QuietIs
  <2>2. CASE Call \/ Return \/ RunsWrapper
    BY <1>2, <2>1, <2>2 DEF Call, Return, RunsWrapper, Switches, Ghosts
  <2>3. CASE StopScript \/ Resume \/ Eval \/ StackGet
    BY <1>2, <2>1, <2>3 DEF StopScript, Resume, Eval, StackGet, Switches, Ghosts
  <2>4. CASE FeatureSet
    BY <1>2, <2>1, <2>4 DEF FeatureSet, Sizes
  <2>5. CASE UNCHANGED dataVars
    BY <1>2, <2>1, <2>5 DEF dataVars
  <2> QED
    BY <1>3, <2>2, <2>3, <2>4, <2>5 DEF Quiet
<1>4. ASSUME Begins
      PROVE  /\ pending' \in Seq(Given) /\ activeData' \in Nat /\ maxData' \in Sizes
             /\ wanted' \in Sizes /\ control' \in {"script", "prompt", "command"}
  <2>1. PICK c \in Given : Begun(c) /\ (BegunLocal(c) \/ BegunGlobal(c) \/ BegunAside(c))
    BY <1>4, CommandsBegin DEF Begins
  <2>2. pending' \in Seq(Given)
    BY <2>1, StartedIs DEF Begun
  <2>3. activeData' \in Nat
    <3>1. CASE BegunLocal(c)
      BY <3>1, DataIsNat DEF BegunLocal, SetFrame
    <3>2. CASE BegunGlobal(c)
      <4>1. c.cmd \in Sized \/ c.cmd = "context_get"
        BY <2>1, <3>2 DEF BegunGlobal, Given, Kinds
      <4> QED
        BY <1>2, <3>2, <4>1 DEF BegunGlobal, NoCall
    <3>3. CASE BegunAside(c)
      BY <1>2, <3>3 DEF BegunAside
    <3> QED
      BY <2>1, <3>1, <3>2, <3>3
  <2> QED
    BY <1>2, <2>1, <2>2, <2>3 DEF Begun
<1>5. ASSUME NEW runsCode \in BOOLEAN, LookUp(runsCode)
      PROVE  /\ pending' \in Seq(Given) /\ activeData' \in Nat /\ maxData' \in Sizes
             /\ wanted' \in Sizes /\ control' \in {"script", "prompt", "command"}
  <2>1. PICK place \in Places : Shows(place)
    BY <1>5, LookUpIs
  <2>2. pending' \in Seq(Given)
    BY <1>5, <2>1, LookUpIs, ShownNow
  <2> QED
    BY <1>2, <1>5, <2>2, LookUpIs
<1>6. ASSUME EndCommand
      PROVE  /\ pending' \in Seq(Given) /\ activeData' \in Nat /\ maxData' \in Sizes
             /\ wanted' \in Sizes /\ control' \in {"script", "prompt", "command"}
  <2> DEFINE c == pending[Len(pending)]
  <2>1. c \in Given /\ Restore(c) /\ pending' \in Seq(Given) /\ control' = "prompt"
        /\ wanted' = wanted
        /\ (c.cmd = "context_get" => activeData' = NoCall)
        /\ (c.cmd # "context_get" => activeData' = activeData)
    BY <1>6, EndIs
  <2>2. c.oldMax \in Sizes
    BY <2>1 DEF Given
  <2> HIDE DEF c
  <2>3. maxData' \in Sizes
    BY <1>2, <2>1, <2>2 DEF Restore
  <2> QED
    BY <1>2, <2>1, <2>3 DEF NoCall
<1>7. ASSUME PropertySet
      PROVE  /\ pending' \in Seq(Given) /\ activeData' \in Nat /\ maxData' \in Sizes
             /\ wanted' \in Sizes /\ control' \in {"script", "prompt", "command"}
  <2>1. pending' \in Seq(Given)
    BY <1>7, AllDisturbed DEF PropertySet
  <2>2. PICK depth \in 0..(Len(recorded) - 1), local \in BOOLEAN :
           IF local THEN SetFrame(depth) ELSE SetGlobals
    BY <1>7 DEF PropertySet
  <2>3. activeData' \in Nat
    BY <1>2, <2>2, DataIsNat DEF SetFrame, SetGlobals
  <2> QED
    BY <1>2, <1>7, <2>1, <2>3 DEF PropertySet
<1>8. returned' \in Nat
  <2>1. returned \in Nat /\ Current \in Nat /\ NoCall \in Nat
    BY NewestCall DEF Typed, NoCall
  <2>2. StopScript \/ Resume => returned' \in {NoCall, Current}
    BY DEF StopScript, Resume
  <2> QED
    BY <2>1, <2>2, ReturnedIs
<1> QED
  BY <1>1, <1>3, <1>4, <1>5, <1>6, <1>7, <1>8, DataSteps DEF Typed

\* Commands that stay keep what they are and what they will restore.
SameCommands ==
    /\ DOMAIN pending' = DOMAIN pending
    /\ \A k \in DOMAIN pending :
          pending'[k].cmd = pending[k].cmd /\ pending'[k].oldMax = pending[k].oldMax

LEMMA OverriddenBySame ==
    ASSUME Typed, Overridden, SameCommands, wanted' = wanted, maxData' = maxData,
           inhibited' => inhibited, ~allowed' => ~allowed, control' = "command" => pending' # << >>
    PROVE  Overridden'
<1>0. DOMAIN pending = 1..Len(pending) /\ Len(pending) \in Nat
  BY PendingAre
<1>1. inhibited' => \E k \in DOMAIN pending' : pending'[k].cmd = "property_get"
  BY DEF Overridden, SameCommands
<1>2. ~allowed' => \E k \in DOMAIN pending' : pending'[k].cmd = "source"
  BY DEF Overridden, SameCommands
<1>3. (\A k \in DOMAIN pending' : pending'[k].cmd \notin Sized) => maxData' = wanted'
  BY DEF Overridden, SameCommands
<1>4. ASSUME NEW k \in DOMAIN pending', pending'[k].cmd \in Sized,
             \A j \in 1..(k - 1) : pending'[j].cmd \notin Sized
      PROVE  pending'[k].oldMax = wanted'
  <2>1. k \in DOMAIN pending /\ \A j \in 1..(k - 1) : j \in DOMAIN pending
    BY <1>0 DEF SameCommands
  <2> QED
    BY <1>4, <2>1 DEF Overridden, SameCommands
<1> QED
  BY <1>1, <1>2, <1>3, <1>4 DEF Overridden

\* The innermost command restores what it overrode: the client's setting, or what the
\* command around it overrides.
LEMMA OverriddenByEnd ==
    ASSUME Typed, Overridden, EndCommand
    PROVE  Overridden'
<1> DEFINE n == Len(pending)
           c == pending[n]
<1>1. /\ n \in Nat /\ n >= 1 /\ DOMAIN pending = 1..n
      /\ DOMAIN pending' = 1..(n - 1) /\ \A k \in 1..(n - 1) : pending'[k] = pending[k]
      /\ wanted' = wanted /\ Restore(c) /\ control' = "prompt"
  BY EndIs DEF Overridden
<1> HIDE DEF n
<1>2. \A k \in 1..n : k # n => k \in 1..(n - 1)
  BY <1>1
<1>3. ASSUME inhibited' PROVE \E k \in DOMAIN pending' : pending'[k].cmd = "property_get"
  <2>1. c.cmd # "property_get" /\ inhibited
    BY <1>1, <1>3 DEF Restore
  <2>2. PICK k \in 1..n : pending[k].cmd = "property_get"
    BY <1>1, <2>1 DEF Overridden
  <2> QED
    BY <1>1, <1>2, <2>1, <2>2
<1>4. ASSUME ~allowed' PROVE \E k \in DOMAIN pending' : pending'[k].cmd = "source"
  <2>1. c.cmd # "source" /\ ~allowed
    BY <1>1, <1>4 DEF Restore
  <2>2. PICK k \in 1..n : pending[k].cmd = "source"
    BY <1>1, <2>1 DEF Overridden
  <2> QED
    BY <1>1, <1>2, <2>1, <2>2
<1>5. ASSUME \A k \in DOMAIN pending' : pending'[k].cmd \notin Sized
      PROVE  maxData' = wanted'
  <2>1. \A k \in 1..(n - 1) : pending[k].cmd \notin Sized
    BY <1>1, <1>5
  <2>2. n \in DOMAIN pending
    BY <1>1
  <2>3. CASE c.cmd \in Sized
    <3>1. c.oldMax = wanted
      BY <2>1, <2>2, <2>3 DEF Overridden
    <3> QED
      BY <1>1, <2>3, <3>1 DEF Restore
  <2>4. CASE c.cmd \notin Sized
    <3>1. \A k \in DOMAIN pending : pending[k].cmd \notin Sized
      BY <1>1, <1>2, <2>1, <2>4
    <3>2. maxData = wanted
      BY <3>1 DEF Overridden
    <3> QED
      BY <1>1, <2>4, <3>2 DEF Restore
  <2> QED
    BY <2>3, <2>4
<1>6. ASSUME NEW k \in DOMAIN pending', pending'[k].cmd \in Sized,
             \A j \in 1..(k - 1) : pending'[j].cmd \notin Sized
      PROVE  pending'[k].oldMax = wanted'
  <2>1. k \in 1..(n - 1) /\ k \in DOMAIN pending /\ \A j \in 1..(k - 1) : j \in 1..(n - 1)
    BY <1>1
  <2>2. pending[k].cmd \in Sized /\ \A j \in 1..(k - 1) : pending[j].cmd \notin Sized
    BY <1>1, <1>6, <2>1
  <2>3. pending[k].oldMax = wanted
    BY <2>1, <2>2 DEF Overridden
  <2> QED
    BY <1>1, <2>1, <2>3
<1> QED
  BY <1>1, <1>3, <1>4, <1>5, <1>6 DEF Overridden

LEMMA OverriddenByBegin ==
    ASSUME Typed, Overridden, NEW c \in Given, Begun(c)
    PROVE  Overridden'
<1> DEFINE n == Len(pending)
<1>1. n \in Nat /\ DOMAIN pending = 1..n
  BY PendingAre
<1>2. /\ pending' # << >> /\ DOMAIN pending' = 1..(n + 1) /\ pending'[n + 1] = c
      /\ \A k \in 1..n : pending'[k].cmd = pending[k].cmd
                         /\ pending'[k].oldMax = pending[k].oldMax
  BY <1>1, StartedIs DEF Begun, Waits, Same
<1>3. /\ wanted' = wanted
      /\ (inhibited' => inhibited \/ c.cmd = "property_get")
      /\ (~allowed' => ~allowed \/ c.cmd = "source")
      /\ (c.cmd \in Sized => c.oldMax = maxData) /\ (c.cmd \notin Sized => maxData' = maxData)
  BY DEF Begun
<1> HIDE DEF n
<1>4. n + 1 \in 1..(n + 1) /\ \A k \in 1..n : k \in 1..(n + 1)
  BY <1>1
<1>5. inhibited' => \E k \in DOMAIN pending' : pending'[k].cmd = "property_get"
  BY <1>1, <1>2, <1>3, <1>4 DEF Overridden
<1>6. ~allowed' => \E k \in DOMAIN pending' : pending'[k].cmd = "source"
  BY <1>1, <1>2, <1>3, <1>4 DEF Overridden
<1>7. ASSUME \A k \in DOMAIN pending' : pending'[k].cmd \notin Sized
      PROVE  maxData' = wanted'
  <2>1. c.cmd \notin Sized /\ \A k \in DOMAIN pending : pending[k].cmd \notin Sized
    BY <1>1, <1>2, <1>4, <1>7
  <2> QED
    BY <1>3, <2>1 DEF Overridden
<1>8. ASSUME NEW k \in DOMAIN pending', pending'[k].cmd \in Sized,
             \A j \in 1..(k - 1) : pending'[j].cmd \notin Sized
      PROVE  pending'[k].oldMax = wanted'
  <2>1. k \in 1..(n + 1) /\ \A j \in 1..(k - 1) : j \in 1..n
    BY <1>1, <1>2
  <2>2. \A j \in 1..(k - 1) : pending[j].cmd \notin Sized
    BY <1>2, <1>8, <2>1
  <2>3. CASE k \in 1..n
    <3>1. pending[k].oldMax = wanted
      BY <1>1, <1>2, <1>8, <2>2, <2>3 DEF Overridden
    <3> QED
      BY <1>2, <1>3, <2>3, <3>1
  <2>4. CASE k \notin 1..n
    <3>1. k = n + 1 /\ (n + 1) - 1 = n
      BY <1>1, <2>1, <2>4
    <3>2. c.cmd \in Sized /\ \A j \in DOMAIN pending : pending[j].cmd \notin Sized
      BY <1>1, <1>2, <1>8, <2>2, <3>1
    <3> QED
      BY <1>2, <1>3, <3>1, <3>2 DEF Overridden
  <2> QED
    BY <2>3, <2>4
<1> QED
  BY <1>2, <1>5, <1>6, <1>7, <1>8 DEF Overridden

LEMMA OverriddenStep ==
    ASSUME Typed, CallsInOrder, FramesInOrder, Overridden, [DataNext]_dataVars
    PROVE  Overridden'
<1>0. control = "command" => pending # << >>
  BY DEF Overridden
<1>1. CASE Quiet
  <2>1. pending' = pending
    BY <1>1, QuietIs
  <2>2. SameCommands
    BY <2>1 DEF SameCommands
  <2>3. CASE FeatureSet
    <3>1. /\ inhibited' = inhibited /\ allowed' = allowed /\ control' = control
          /\ \/ wanted' = IF \E k \in DOMAIN pending : pending[k].cmd \in Sized THEN wanted
                          ELSE maxData'
             \/ maxData' = maxData /\ wanted' = wanted
      BY <2>3 DEF FeatureSet
    <3>2. (\A k \in DOMAIN pending : pending[k].cmd \notin Sized) => maxData' = wanted'
      BY <3>1 DEF Overridden
    <3>3. (\E k \in DOMAIN pending : pending[k].cmd \in Sized) => wanted' = wanted
      BY <3>1
    <3>4. \A k \in DOMAIN pending :
             pending[k].cmd \in Sized /\ (\A j \in 1..(k - 1) : pending[j].cmd \notin Sized)
                => pending[k].oldMax = wanted'
      BY <3>3 DEF Overridden
    <3> QED
      BY <2>1, <3>1, <3>2, <3>4 DEF Overridden
  <2>4. CASE Eval
    <3>1. ~inhibited' /\ allowed' /\ wanted' = wanted /\ maxData' = maxData /\ control' = control
      BY <2>4 DEF Eval, Ghosts
    <3> QED
      BY <1>0, <2>1, <2>2, <3>1, OverriddenBySame
  <2>5. CASE Return
    <3>1. wanted' = wanted /\ maxData' = maxData /\ inhibited' = inhibited /\ allowed' = allowed
          /\ (control' = "command" => pending # << >>)
      BY <2>5 DEF Return, Ghosts, Switches
    <3> QED
      BY <2>1, <2>2, <3>1, OverriddenBySame
  <2>6. CASE Call \/ StopScript \/ Resume \/ RunsWrapper \/ StackGet
    <3>1. wanted' = wanted /\ maxData' = maxData /\ inhibited' = inhibited /\ allowed' = allowed
          /\ (control' = "command" => control = "command")
      BY <2>6 DEF Call, StopScript, Resume, RunsWrapper, StackGet, Ghosts, Switches
    <3> QED
      BY <1>0, <2>1, <2>2, <3>1, OverriddenBySame
  <2>7. CASE UNCHANGED dataVars
    <3>1. wanted' = wanted /\ maxData' = maxData /\ inhibited' = inhibited /\ allowed' = allowed
          /\ control' = control
      BY <2>7 DEF dataVars
    <3> QED
      BY <1>0, <2>1, <2>2, <3>1, OverriddenBySame
  <2> QED
    BY <1>1, <2>3, <2>4, <2>5, <2>6, <2>7 DEF Quiet
<1>2. CASE Begins
  BY <1>2, CommandsBegin, OverriddenByBegin DEF Begins
<1>3. CASE \E runsCode \in BOOLEAN : LookUp(runsCode)
  <2>1. PICK runsCode \in BOOLEAN : LookUp(runsCode)
    BY <1>3
  <2>2. /\ wanted' = wanted /\ maxData' = maxData /\ inhibited' = inhibited /\ allowed' = allowed
        /\ pending # << >> /\ Last(pending).todo # << >>
        /\ \E place \in Places : Shows(place)
    BY <1>0, <2>1, LookUpIs
  <2>3. PICK place \in Places : Shows(place)
    BY <2>2
  <2>4. SameCommands /\ pending' # << >>
    <3>1. /\ Len(pending) \in 1..Len(pending) /\ DOMAIN pending = 1..Len(pending)
          /\ DOMAIN pending' = 1..Len(pending)
          /\ \A k \in 1..Len(pending) : k # Len(pending) => pending'[k] = pending[k]
          /\ pending'[Len(pending)].cmd = pending[Len(pending)].cmd
          /\ pending'[Len(pending)].oldMax = pending[Len(pending)].oldMax
      BY <2>2, <2>3, ShownNow, PendingAre
    <3>2. Len(pending) \notin DOMAIN << >>
      BY <3>1
    <3> QED
      BY <3>1, <3>2 DEF SameCommands
  <2> QED
    BY <2>2, <2>4, OverriddenBySame
<1>4. CASE EndCommand
  BY <1>4, OverriddenByEnd
<1>5. CASE PropertySet
  <2>1. SameCommands
    BY <1>5, AllDisturbed DEF PropertySet, SameCommands, Waits, Same
  <2>2. /\ wanted' = wanted /\ maxData' = maxData /\ ~inhibited' /\ allowed'
        /\ control' # "command"
    BY <1>5 DEF PropertySet
  <2> QED
    BY <2>1, <2>2, OverriddenBySame
<1> QED
  BY <1>1, <1>2, <1>3, <1>4, <1>5, DataSteps

LEMMA DataStart == DataInit => Typed /\ Overridden /\ CallsInOrder /\ FramesInOrder
<1> SUFFICES ASSUME DataInit PROVE Typed /\ Overridden /\ CallsInOrder /\ FramesInOrder
    OBVIOUS
<1> DEFINE call == [id |-> Main, fun |-> "main"]
           frame == [id |-> Main, caller |-> NoCall]
<1>1. /\ active = <<call>> /\ recorded = <<frame>> /\ control = "script" /\ pending = << >>
      /\ activeData = NoCall /\ returned = NoCall
      /\ maxData = Min(DataSizes) /\ wanted = Min(DataSizes) /\ ~inhibited /\ allowed
  BY DEF DataInit
<1>2. call \in CallRecord /\ frame \in FrameRecord /\ call.id = Main /\ frame.id = Main
      /\ frame.caller = NoCall
  BY LocalsAssumption DEF CallRecord, FrameRecord, Main, NoCall, Functions
<1> HIDE DEF call, frame
<1>3. /\ active \in Seq(CallRecord) /\ DOMAIN active = 1..1 /\ active[1] = call /\ active # << >>
      /\ recorded \in Seq(FrameRecord) /\ DOMAIN recorded = 1..1 /\ recorded[1] = frame
      /\ recorded # << >>
  BY <1>1, <1>2
<1>4. Typed
  BY <1>1, <1>3, EmptySeq DEF Typed, CallRecord, FrameRecord, Sizes, NoCall
<1>5. Overridden
  BY <1>1 DEF Overridden
<1>6. CallsInOrder
  BY <1>3 DEF CallsInOrder, call
<1>7. FramesInOrder
  <2>1. \A k \in 1..1 : k = 1
    OBVIOUS
  <2> QED
    BY <1>2, <1>3, <2>1 DEF FramesInOrder, IsAt, frame
<1> QED
  BY <1>4, <1>5, <1>6, <1>7

\* SettingsComeBack: property_get, property_value and source bring back what they found, and
\* eval and property_set the defaults; so that the client's settings are there again when
\* the last command has been answered.
THEOREM SettingsAreRestored == DataSpec => []SettingsComeBack
<1> DEFINE Inv == Typed /\ CallsInOrder /\ FramesInOrder /\ Overridden
<1>1. DataInit => Inv
  BY DataStart
<1>2. Inv /\ [DataNext]_dataVars => Inv'
  <2> SUFFICES ASSUME Inv, [DataNext]_dataVars PROVE Inv'
      OBVIOUS
  <2>1. Typed'
    BY TypedStep DEF Overridden
  <2>2. CallsInOrder' /\ FramesInOrder'
    BY StackStep DEF StackInv
  <2>3. Overridden'
    BY OverriddenStep
  <2> QED
    BY <2>1, <2>2, <2>3
<1>3. Inv => SettingsComeBack
  <2> SUFFICES ASSUME Inv, control = "prompt", pending = << >>
               PROVE  maxData = wanted /\ ~inhibited /\ allowed
      BY DEF SettingsComeBack
  <2>1. \A k \in DOMAIN pending : FALSE
    OBVIOUS
  <2> QED
    BY <2>1 DEF Overridden
<1> QED
  BY <1>1, <1>2, <1>3, PTL DEF DataSpec

-----------------------------------------------------------------------------
(* Commands within commands.                                               *)

CommandsInv == Typed /\ CallsInOrder /\ FramesInOrder /\ Overridden /\ CommandsNest

\* The heights of the commands, one above the other.
LEMMA HeightsAre ==
    ASSUME CommandsInv
    PROVE  /\ Len(active) \in Nat /\ Len(active) >= 1 /\ DOMAIN active = 1..Len(active)
           /\ Len(pending) \in Nat /\ DOMAIN pending = 1..Len(pending)
           /\ \A k \in 1..Len(pending) :
                 /\ pending[k].height \in Nat /\ pending[k].height >= 1
                 /\ pending[k].height <= Len(active)
                 /\ k # Len(pending) \/ control # "command" => pending[k].height < Len(active)
           /\ control = "command" => Len(pending) >= 1
                                     /\ pending[Len(pending)].height = Len(active)
<1>1. /\ Len(active) \in Nat /\ Len(active) >= 1 /\ DOMAIN active = 1..Len(active)
      /\ Len(pending) \in Nat /\ DOMAIN pending = 1..Len(pending)
  BY NewestCall, PendingAre DEF CommandsInv
<1>2. ASSUME NEW k \in 1..Len(pending)
      PROVE  /\ pending[k].height \in 1..Len(active)
             /\ k # Len(pending) \/ control # "command" => pending[k].height # Len(active)
  BY <1>1 DEF CommandsInv, CommandsNest
<1>3. ASSUME control = "command"
      PROVE  Len(pending) >= 1 /\ pending[Len(pending)].height = Len(active)
  <2>1. pending # << >> /\ pending \in Seq(Given)
    BY <1>3 DEF CommandsInv, Overridden, Typed
  <2>2. Len(pending) >= 1
    BY <2>1, PopIs
  <2>3. Len(pending) \in DOMAIN pending
    BY <1>1, <2>2
  <2> QED
    BY <1>3, <2>2, <2>3 DEF CommandsInv, CommandsNest
<1>4. ASSUME NEW k \in 1..Len(pending)
      PROVE  /\ pending[k].height \in Nat /\ pending[k].height >= 1
             /\ pending[k].height <= Len(active)
             /\ k # Len(pending) \/ control # "command" => pending[k].height < Len(active)
  <2> DEFINE h == pending[k].height
             top == Len(active)
  <2>1. h \in 1..top /\ (k # Len(pending) \/ control # "command" => h # top) /\ top \in Nat
    BY <1>1, <1>2
  <2> HIDE DEF h, top
  <2>2. h \in Nat /\ h >= 1 /\ h <= top /\ (h # top => h < top)
    BY <2>1
  <2> QED
    BY <2>1, <2>2 DEF h, top
<1> QED
  BY <1>1, <1>3, <1>4

\* Whether the innermost command runs shows in its height.
TopRuns == pending # << >> /\ pending[Len(pending)].height = Len(active)

LEMMA TopIs ==
    ASSUME CommandsInv
    PROVE  /\ control = "command" <=> TopRuns
           /\ pending # << >> => pending[Len(pending)].height \in 1..Len(active)
<1> DEFINE n == Len(pending)
<1>1. /\ Len(active) \in Nat /\ n \in Nat /\ DOMAIN pending = 1..n
      /\ control = "command" => n >= 1 /\ pending[n].height = Len(active)
  BY HeightsAre
<1>2. ASSUME pending # << >> PROVE n \in DOMAIN pending
  <2>1. pending \in Seq(Given)
    BY DEF CommandsInv, Typed
  <2> QED
    BY <1>2, <2>1, PopIs
<1>3. control = "command" => pending # << >>
  BY DEF CommandsInv, Overridden
<1>4. ASSUME pending # << >>
      PROVE  /\ pending[n].height = Len(active) <=> control = "command"
             /\ pending[n].height \in 1..Len(active)
  <2>1. DOMAIN active = 1..Len(active)
    BY HeightsAre
  <2> QED
    BY <1>2, <1>4, <2>1 DEF CommandsInv, CommandsNest
<1> QED
  BY <1>3, <1>4 DEF TopRuns

\* Commands that wait, while the calls on top of them come and go.
LEMMA NestByWaiting ==
    ASSUME CommandsInv, DOMAIN pending' = DOMAIN pending, Len(pending') = Len(pending),
           \A k \in DOMAIN pending : pending'[k].height = pending[k].height,
           Len(active') \in Nat, DOMAIN active' = 1..Len(active'),
           Len(active') >= Len(active) - 1, control = "command" => Len(active') >= Len(active),
           control' = "command"
              <=> pending # << >> /\ pending[Len(pending)].height = Len(active')
    PROVE  CommandsNest'
<1> DEFINE n == Len(pending)
           top == Len(active)
           new == Len(active')
<1>1. /\ top \in Nat /\ n \in Nat /\ DOMAIN pending = 1..n
      /\ \A k \in 1..n : /\ pending[k].height \in Nat /\ pending[k].height >= 1
                         /\ pending[k].height <= top
                         /\ k # n \/ control # "command" => pending[k].height < top
  BY HeightsAre
<1>2. \A k \in 1..n : \A j \in 1..(k - 1) : pending[j].height < pending[k].height
  BY <1>1 DEF CommandsInv, CommandsNest
<1>3. /\ new \in Nat /\ new >= top - 1 /\ (control = "command" => new >= top)
      /\ control' = "command" <=> pending # << >> /\ pending[n].height = new
      /\ DOMAIN pending' = 1..n /\ Len(pending') = n /\ DOMAIN active' = 1..new
      /\ \A k \in 1..n : pending'[k].height = pending[k].height
  BY <1>1
<1>4. pending = << >> => n = 0
  BY <1>1
<1> HIDE DEF n, top
<1>5. \A k \in 1..n : \A j \in 1..(k - 1) : pending'[j].height < pending'[k].height
  <2>1. \A k \in 1..n : \A j \in 1..(k - 1) : j \in 1..n
    BY <1>1
  <2> QED
    BY <1>2, <1>3, <2>1
<1> HIDE DEF new
<1>6. ASSUME NEW k \in 1..n
      PROVE  /\ pending'[k].height \in 1..new
             /\ pending'[k].height = new <=> k = n /\ control' = "command"
  <2> DEFINE h == pending[k].height
  <2>1. /\ pending'[k].height = h /\ h \in Nat /\ h >= 1 /\ h <= top
        /\ (control # "command" => h < top)
    BY <1>1, <1>3
  <2>2. n # 0 /\ n \in 1..n
    BY <1>1
  <2>3. ASSUME k # n PROVE h < pending[n].height
    <3>1. k \in 1..(n - 1)
      BY <1>1, <2>3
    <3> QED
      BY <1>2, <2>2, <3>1
  <2>4. ASSUME NEW i \in 1..n PROVE pending[i].height <= new /\ pending[i].height \in Nat
    <3>1. /\ pending[i].height \in Nat /\ pending[i].height <= top
          /\ (control # "command" => pending[i].height < top)
      BY <1>1
    <3> QED
      BY <1>1, <1>3, <3>1
  <2>5. h <= new /\ pending[n].height <= new /\ pending[n].height \in Nat
    BY <2>2, <2>4
  <2>6. CASE k = n
    <3>1. control' = "command" <=> h = new
      BY <1>3, <1>4, <2>2, <2>6
    <3> HIDE DEF h
    <3> QED
      BY <1>3, <2>1, <2>5, <2>6, <3>1
  <2>7. CASE k # n
    <3>1. h < new
      BY <1>3, <2>1, <2>3, <2>5, <2>7
    <3> HIDE DEF h
    <3>2. h \in 1..new /\ h # new
      BY <1>3, <2>1, <3>1
    <3> QED
      BY <2>1, <2>7, <3>2
  <2> QED
    BY <2>6, <2>7
<1> QED
  BY <1>3, <1>5, <1>6 DEF CommandsNest, new

LEMMA NestByBegin ==
    ASSUME CommandsInv, NEW c \in Given, Begun(c)
    PROVE  CommandsNest'
<1> DEFINE n == Len(pending)
           top == Len(active)
<1>1. /\ top \in Nat /\ top >= 1 /\ n \in Nat /\ DOMAIN pending = 1..n /\ DOMAIN active = 1..top
      /\ \A k \in 1..n : /\ pending[k].height \in Nat /\ pending[k].height >= 1
                         /\ pending[k].height < top
  BY HeightsAre DEF Begun
<1>2. \A k \in 1..n : \A j \in 1..(k - 1) : pending[j].height < pending[k].height
  BY <1>1 DEF CommandsInv, CommandsNest
<1>3. /\ DOMAIN pending' = 1..(n + 1) /\ Len(pending') = n + 1 /\ pending'[n + 1].height = top
      /\ \A k \in 1..n : pending'[k].height = pending[k].height
  BY <1>1, StartedIs DEF Begun, Waits, Same, CommandsInv
<1>4. active' = active /\ control' = "command"
  BY DEF Begun
<1> HIDE DEF n, top
<1>5. ASSUME NEW k \in 1..(n + 1)
      PROVE  /\ pending'[k].height \in 1..top
             /\ pending'[k].height = top <=> k = n + 1
             /\ \A j \in 1..(k - 1) : pending'[j].height < pending'[k].height
  <2>1. CASE k = n + 1
    <3>1. \A j \in 1..(k - 1) : j \in 1..n
      BY <1>1, <2>1
    <3> QED
      BY <1>1, <1>3, <2>1, <3>1
  <2>2. CASE k # n + 1
    <3>1. k \in 1..n /\ \A j \in 1..(k - 1) : j \in 1..n
      BY <1>1, <2>2
    <3>2. pending'[k].height = pending[k].height
      BY <1>3, <3>1
    <3>3. \A j \in 1..(k - 1) : pending'[j].height < pending'[k].height
      BY <1>2, <1>3, <3>1
    <3>4. pending[k].height \in Nat /\ pending[k].height >= 1 /\ pending[k].height < top
      BY <1>1, <3>1
    <3> QED
      BY <1>1, <2>2, <3>2, <3>3, <3>4
  <2> QED
    BY <2>1, <2>2
<1> QED
  BY <1>1, <1>3, <1>4, <1>5 DEF CommandsNest, top

LEMMA NestByEnd ==
    ASSUME CommandsInv, EndCommand
    PROVE  CommandsNest'
<1> DEFINE n == Len(pending)
<1>1. /\ DOMAIN pending = 1..n /\ n \in Nat
      /\ \A k \in 1..n : /\ pending[k].height \in Nat /\ pending[k].height >= 1
                         /\ pending[k].height <= Len(active)
                         /\ (k # n => pending[k].height < Len(active))
      /\ Len(active) \in Nat
  BY HeightsAre
<1>2. /\ DOMAIN pending' = 1..(n - 1) /\ Len(pending') = n - 1
      /\ \A k \in 1..(n - 1) : pending'[k] = pending[k]
      /\ control' = "prompt" /\ active' = active
  BY EndIs DEF CommandsInv, Overridden
<1>3. \A k \in 1..n : \A j \in 1..(k - 1) : pending[j].height < pending[k].height
  BY <1>1 DEF CommandsInv, CommandsNest
<1> HIDE DEF n
<1>4. \A k \in 1..(n - 1) : k \in 1..n /\ k # n /\ \A j \in 1..(k - 1) : j \in 1..(n - 1)
  BY <1>1
<1>5. ASSUME NEW k \in 1..(n - 1)
      PROVE  /\ pending'[k].height \in DOMAIN active /\ pending'[k].height # Len(active)
             /\ \A j \in 1..(k - 1) : pending'[j].height < pending'[k].height
  <2>1. k \in 1..n /\ k # n /\ \A j \in 1..(k - 1) : j \in 1..(n - 1)
    BY <1>4
  <2>2. pending[k].height \in 1..Len(active) /\ pending[k].height < Len(active)
    <3> DEFINE h == pending[k].height
               top == Len(active)
    <3>1. h \in Nat /\ h >= 1 /\ h <= top /\ h < top /\ top \in Nat
      BY <1>1, <2>1
    <3> HIDE DEF h, top
    <3>2. h \in 1..top /\ h < top
      BY <3>1
    <3> QED
      BY <3>2 DEF h, top
  <2>3. DOMAIN active = 1..Len(active)
    BY HeightsAre
  <2>4. pending[k].height # Len(active)
    BY <1>1, <2>2
  <2> QED
    BY <1>2, <1>3, <2>1, <2>2, <2>3, <2>4
<1> QED
  BY <1>2, <1>5 DEF CommandsNest

LEMMA NestStep ==
    ASSUME CommandsInv, [DataNext]_dataVars
    PROVE  CommandsNest'
<1>0. /\ Typed /\ CallsInOrder /\ FramesInOrder /\ Overridden
      /\ control = "command" => pending # << >>
  BY DEF CommandsInv, Overridden
<1> DEFINE n == Len(pending)
           top == Len(active)
<1>1. DOMAIN active' = 1..Len(active') /\ Len(active') \in Nat /\ top \in Nat
  BY <1>0, StackStep, LenProperties, NewestCall DEF StackInv
<1>2. /\ control = "command" <=> pending # << >> /\ pending[n].height = top
      /\ pending # << >> => pending[n].height \in 1..top
  BY TopIs DEF TopRuns
<1>a. ASSUME DOMAIN pending' = DOMAIN pending, Len(pending') = n,
             \A k \in DOMAIN pending : pending'[k].height = pending[k].height,
             active' = active, control' = "command" <=> control = "command"
      PROVE  CommandsNest'
  <2>1. control' = "command" <=> pending # << >> /\ pending[n].height = Len(active')
    BY <1>2, <1>a
  <2>2. Len(active') >= top - 1 /\ Len(active') >= top
    BY <1>1, <1>a
  <2> QED
    BY <1>1, <1>a, <2>1, <2>2, NestByWaiting
<1>b. ASSUME DOMAIN pending' = DOMAIN pending, Len(pending') = n,
             \A k \in DOMAIN pending : pending'[k].height = pending[k].height,
             Len(active') = top + 1, control' # "command"
      PROVE  CommandsNest'
  <2> HIDE DEF top
  <2>1. Len(active') >= top - 1 /\ Len(active') >= top /\ Len(active') \notin 1..top
    BY <1>1, <1>b
  <2>2. control' = "command" <=> pending # << >> /\ pending[n].height = Len(active')
    BY <1>2, <1>b, <2>1
  <2> QED
    BY <1>1, <1>b, <2>1, <2>2, NestByWaiting DEF top
<1>3. CASE Quiet
  <2>1. pending' = pending
    BY <1>3, QuietIs
  <2>2. CASE Call
    <3>1. PICK fun \in Functions : Enter(fun, TRUE)
      BY <2>2 DEF Call
    <3>2. Len(active') = top + 1 /\ control' # "command"
      BY <1>0, <2>2, <3>1, EnterStack DEF Call
    <3> QED
      BY <1>b, <2>1, <3>2
  <2>3. CASE RunsWrapper
    <3>1. PICK fun \in Functions, hasFrame \in BOOLEAN : Enter(fun, hasFrame)
      BY <2>3 DEF RunsWrapper
    <3>2. Len(active') = top + 1 /\ control' # "command"
      BY <1>0, <2>3, <3>1, EnterStack DEF RunsWrapper
    <3> QED
      BY <1>b, <2>1, <3>2
  <2>4. CASE Return
    <3>1. Len(active') = top - 1 /\ control # "command"
      BY <1>0, <2>4, ReturnStack DEF Return
    <3>2. control' = "command" <=> pending # << >> /\ Last(pending).height = top - 1
      BY <2>4 DEF Return
    <3>3. control' = "command" <=> pending # << >> /\ pending[n].height = Len(active')
      BY <3>1, <3>2 DEF Last
    <3>4. Len(active') >= top - 1
      BY <1>1, <3>1
    <3> QED
      BY <1>1, <2>1, <3>1, <3>3, <3>4, NestByWaiting
  <2>5. CASE StopScript \/ Resume \/ Eval \/ StackGet \/ FeatureSet \/ UNCHANGED dataVars
    <3>1. active' = active /\ (control' = "command" <=> control = "command")
      BY <2>5 DEF StopScript, Resume, Eval, StackGet, FeatureSet, dataVars
    <3> QED
      BY <1>a, <2>1, <3>1
  <2> QED
    BY <1>3, <2>2, <2>3, <2>4, <2>5 DEF Quiet
<1>4. CASE Begins
  BY <1>0, <1>4, CommandsBegin, NestByBegin DEF Begins
<1>5. ASSUME NEW runsCode \in BOOLEAN, LookUp(runsCode) PROVE CommandsNest'
  <2>1. /\ control = "command" /\ pending # << >> /\ Last(pending).todo # << >>
        /\ \E place \in Places : Shows(place)
    BY <1>0, <1>5, LookUpIs
  <2>2. PICK place \in Places : Shows(place)
    BY <2>1
  <2>3. /\ Len(pending') = n /\ DOMAIN pending' = 1..n /\ n \in 1..n
        /\ \A k \in 1..n : k # n => pending'[k] = pending[k]
        /\ pending'[n].height = top
    BY <1>0, <2>1, <2>2, ShownNow
  <2>4. DOMAIN pending = 1..n /\ pending[n].height = top
    BY <2>1, HeightsAre
  <2>5. /\ DOMAIN pending' = DOMAIN pending
        /\ \A k \in DOMAIN pending : pending'[k].height = pending[k].height
    BY <2>3, <2>4
  <2>6. CASE ~runsCode
    <3>1. active' = active /\ control' = control
      BY <1>5, <2>6 DEF LookUp
    <3> QED
      BY <1>a, <2>3, <2>5, <3>1
  <2>7. CASE runsCode
    <3>1. control' = "script" /\ \E fun \in Functions, hasFrame \in BOOLEAN : Enter(fun, hasFrame)
      BY <1>5, <2>7 DEF LookUp
    <3>2. PICK fun \in Functions, hasFrame \in BOOLEAN : Enter(fun, hasFrame)
      BY <3>1
    <3>3. Len(active') = top + 1
      BY <1>0, <3>2, EnterStack
    <3> QED
      BY <1>b, <2>3, <2>5, <3>1, <3>3
  <2> QED
    BY <2>6, <2>7
<1>6. CASE EndCommand
  BY <1>6, NestByEnd
<1>7. CASE PropertySet
  <2>1. /\ Len(pending') = n /\ DOMAIN pending' = DOMAIN pending
        /\ \A k \in DOMAIN pending : pending'[k].height = pending[k].height
    BY <1>0, <1>7, AllDisturbed DEF PropertySet, Waits, Same
  <2>2. active' = active /\ control' = control
    BY <1>7 DEF PropertySet
  <2> QED
    BY <1>a, <2>1, <2>2
<1> QED
  BY <1>3, <1>4, <1>5, <1>6, <1>7, DataSteps

\* A command in whose middle one was given that uses the pointers is disturbed.
LEMMA UndisturbedStep ==
    ASSUME CommandsInv, Undisturbed, [DataNext]_dataVars
    PROVE  Undisturbed'
<1>0. /\ Typed /\ CallsInOrder /\ FramesInOrder
      /\ control = "command" => pending # << >>
      /\ Len(pending) \in Nat /\ DOMAIN pending = 1..Len(pending)
  BY PendingAre DEF CommandsInv, Overridden
<1>1. CASE Quiet
  BY <1>1, QuietIs DEF Undisturbed
<1>2. CASE Begins
  <2> DEFINE n == Len(pending)
  <2>1. PICK c \in Given : Begun(c)
    BY <1>0, <1>2, CommandsBegin DEF Begins
  <2>2. /\ DOMAIN pending' = 1..(n + 1) /\ pending'[n + 1] = c
        /\ \A k \in 1..n : /\ pending'[k].cmd = pending[k].cmd
                           /\ ~pending'[k].disturbed => ~pending[k].disturbed /\ c.cmd \in Aside
    BY <1>0, <2>1, StartedIs DEF Begun, Waits, Same
  <2>a. n \in Nat /\ \A k \in 1..n : \A j \in 1..(k - 1) : ~pending[j].disturbed
                                                          => pending[k].cmd \in Aside
    BY <1>0 DEF Undisturbed
  <2> HIDE DEF n
  <2>3. ASSUME NEW k \in 1..(n + 1), NEW j \in 1..(k - 1), ~pending'[j].disturbed
        PROVE  pending'[k].cmd \in Aside
    <3>1. j \in 1..n
      BY <2>a
    <3>2. CASE k = n + 1
      BY <2>2, <2>3, <3>1, <3>2
    <3>3. CASE k # n + 1
      <4>1. k \in 1..n
        BY <2>a, <3>3
      <4> QED
        BY <2>2, <2>3, <2>a, <3>1, <4>1
    <3> QED
      BY <3>2, <3>3
  <2> QED
    BY <2>2, <2>3 DEF Undisturbed
<1>3. CASE \E runsCode \in BOOLEAN : LookUp(runsCode)
  <2>1. /\ pending # << >> /\ Last(pending).todo # << >>
        /\ \E place \in Places : Shows(place)
    BY <1>0, <1>3, LookUpIs
  <2>2. /\ DOMAIN pending' = DOMAIN pending
        /\ \A k \in DOMAIN pending : /\ pending'[k].cmd = pending[k].cmd
                                     /\ pending'[k].disturbed = pending[k].disturbed
    BY <1>0, <2>1, ShownNow
  <2>3. \A k \in 1..Len(pending) : \A j \in 1..(k - 1) : j \in 1..Len(pending)
    BY <1>0
  <2> QED
    BY <1>0, <2>2, <2>3 DEF Undisturbed
<1>4. CASE EndCommand
  <2> DEFINE n == Len(pending)
  <2>1. /\ DOMAIN pending' = 1..(n - 1) /\ \A k \in 1..(n - 1) : pending'[k] = pending[k]
    BY <1>0, <1>4, EndIs
  <2>2. \A k \in 1..(n - 1) : k \in 1..n /\ \A j \in 1..(k - 1) : j \in 1..(n - 1)
    BY <1>0
  <2> QED
    BY <1>0, <2>1, <2>2 DEF Undisturbed
<1>5. CASE PropertySet
  <2>1. /\ DOMAIN pending' = DOMAIN pending
        /\ \A k \in DOMAIN pending : pending'[k].disturbed
    BY <1>0, <1>5, AllDisturbed DEF PropertySet
  <2>2. \A k \in 1..Len(pending) : \A j \in 1..(k - 1) : j \in 1..Len(pending)
    BY <1>0
  <2> QED
    BY <1>0, <2>1, <2>2 DEF Undisturbed
<1> QED
  BY <1>1, <1>2, <1>3, <1>4, <1>5, DataSteps

-----------------------------------------------------------------------------
(* The return value.                                                       *)

LEMMA ReturnIsCurrentStep ==
    ASSUME CommandsInv, ReturnIsCurrent, [DataNext]_dataVars
    PROVE  ReturnIsCurrent'
<1> DEFINE n == Len(pending)
           top == Len(active)
<1>0. /\ Typed /\ CallsInOrder /\ FramesInOrder /\ Overridden
      /\ control = "command" => pending # << >>
  BY DEF CommandsInv, Overridden
<1>1. /\ top \in Nat /\ top >= 1 /\ DOMAIN active = 1..top /\ n \in Nat /\ DOMAIN pending = 1..n
      /\ \A k \in 1..n : pending[k].height \in 1..top
      /\ control = "command" => pending[n].height = top
  BY HeightsAre DEF CommandsInv, CommandsNest
<1>2. /\ \A i \in 1..top : i \in DOMAIN active' => active'[i] = active[i]
      /\ active' \in Seq(CallRecord)
  BY <1>0, <1>1, StackStep DEF Steadily, StackInv
<1>3. pending # << >> => n \in 1..n
  <2>1. pending \in Seq(Given)
    BY <1>0 DEF Typed
  <2> QED
    BY <2>1, PopIs
<1>4. ASSUME returned' = returned, returned # NoCall
      PROVE  control = "script" => pending # << >> /\ n \in 1..n
                                   /\ returned = active[pending[n].height].id
  BY <1>3, <1>4 DEF ReturnIsCurrent
<1>5. ASSUME returned # NoCall, control # "script" PROVE returned = active[top].id
  BY <1>5 DEF ReturnIsCurrent
\* The calls stay and so does who runs, or not the script.
<1>a. ASSUME returned' = returned, active' = active, control # "script", control' # "script"
      PROVE  ReturnIsCurrent'
  BY <1>5, <1>a DEF ReturnIsCurrent
\* The script runs, or code that a command runs.
<1>b. ASSUME returned' = returned, control' = "script", DOMAIN active' = 1..(top + 1),
             DOMAIN pending' = DOMAIN pending, Len(pending') = n,
             pending # << >> => pending' # << >> /\ pending'[n].height = pending[n].height,
             control # "prompt"
      PROVE  ReturnIsCurrent'
  <2> SUFFICES ASSUME returned # NoCall
               PROVE  pending' # << >> /\ returned = active'[pending'[n].height].id
      BY <1>b DEF ReturnIsCurrent
  <2>1. pending # << >>
    <3>1. control = "script" \/ control = "command"
      BY <1>0, <1>b DEF Typed
    <3>2. CASE control = "script"
      BY <1>4, <1>b, <3>2
    <3>3. CASE control = "command"
      BY <1>0, <3>3
    <3> QED
      BY <3>1, <3>2, <3>3
  <2>2. PICK h \in 1..top : h = pending[n].height
    BY <1>1, <1>3, <2>1
  <2>3. returned = active[h].id
    <3>1. CASE control = "script"
      BY <1>4, <1>b, <2>2, <3>1
    <3>2. CASE control # "script"
      <4>1. control = "command"
        BY <1>0, <1>b, <3>2 DEF Typed
      <4> QED
        BY <1>1, <1>5, <2>2, <3>2, <4>1
    <3> QED
      BY <3>1, <3>2
  <2>4. active'[h] = active[h]
    <3>1. h \in 1..(top + 1)
      BY <1>1
    <3> QED
      BY <1>2, <1>b, <3>1
  <2> QED
    BY <1>b, <2>1, <2>2, <2>3, <2>4
<1>c. ASSUME NEW fun \in Functions, NEW hasFrame \in BOOLEAN, Enter(fun, hasFrame)
      PROVE  DOMAIN active' = 1..(top + 1)
  <2>1. Len(active') = top + 1 /\ active' \in Seq(CallRecord)
    BY <1>0, <1>c, EnterStack DEF StackInv
  <2> QED
    BY <2>1, LenProperties
<1>6. CASE Call
  <2>1. returned' = returned /\ control = "script" /\ control' = "script" /\ pending' = pending
        /\ \E fun \in Functions : Enter(fun, TRUE)
    BY <1>6 DEF Call, Values
  <2> QED
    BY <1>b, <1>c, <2>1
<1>7. CASE RunsWrapper
  <2>1. returned' = returned /\ control = "command" /\ control' = "script" /\ pending' = pending
        /\ \E fun \in Functions, hasFrame \in BOOLEAN : Enter(fun, hasFrame)
    BY <1>7 DEF RunsWrapper, Values
  <2> QED
    BY <1>b, <1>c, <2>1
<1>8. ASSUME NEW runsCode \in BOOLEAN, LookUp(runsCode) PROVE ReturnIsCurrent'
  <2>1. /\ pending # << >> /\ Last(pending).todo # << >> /\ control = "command"
        /\ returned' = returned /\ \E place \in Places : Shows(place)
    BY <1>0, <1>8, LookUpIs
  <2>2. /\ Len(pending') = n /\ DOMAIN pending' = 1..n /\ n \in 1..n /\ pending'[n].height = top
    BY <1>0, <2>1, ShownNow
  <2>3. CASE ~runsCode
    <3>1. active' = active /\ control' = control
      BY <1>8, <2>3 DEF LookUp
    <3> QED
      BY <1>a, <2>1, <3>1
  <2>4. CASE runsCode
    <3>1. control' = "script" /\ \E fun \in Functions, hasFrame \in BOOLEAN : Enter(fun, hasFrame)
      BY <1>8, <2>4 DEF LookUp
    <3>2. DOMAIN active' = 1..(top + 1)
      BY <1>c, <3>1
    <3>3. pending' # << >> /\ pending'[n].height = pending[n].height
      <4>1. n \notin DOMAIN << >>
        BY <2>2
      <4> QED
        BY <1>1, <2>1, <2>2, <4>1
    <3> QED
      BY <1>1, <1>b, <2>1, <2>2, <3>1, <3>2, <3>3
  <2> QED
    BY <2>3, <2>4
<1>9. CASE Return
  <2>1. returned' = returned /\ control = "script" /\ pending' = pending
        /\ control' = IF pending # << >> /\ Last(pending).height = top - 1
                      THEN "command" ELSE "script"
    BY <1>9 DEF Return, Values
  <2>2. Len(active') = top - 1 /\ DOMAIN active' = 1..(top - 1)
    <3>1. Len(active') = top - 1
      BY <1>0, <1>9, ReturnStack
    <3> QED
      BY <1>2, <3>1, LenProperties
  <2> SUFFICES ASSUME returned # NoCall
               PROVE  IF control' = "script"
                      THEN pending # << >> /\ returned = active'[pending[n].height].id
                      ELSE returned = active'[top - 1].id
      BY <2>1, <2>2 DEF ReturnIsCurrent
  <2>3. pending # << >> /\ n \in 1..n /\ returned = active[pending[n].height].id
    BY <1>4, <2>1
  <2>4. PICK h \in 1..(top - 1) : h = pending[n].height
    <3> DEFINE g == pending[n].height
    <3>1. g \in Nat /\ g >= 1 /\ g < top
      BY <2>1, <2>3, HeightsAre
    <3> HIDE DEF g, top
    <3>2. g \in 1..(top - 1)
      BY <1>1, <3>1
    <3> QED
      BY <3>2 DEF g
  <2>5. active'[h] = active[h]
    <3>1. h \in 1..top
      BY <1>1
    <3> QED
      BY <1>2, <2>2, <3>1
  <2>6. Last(pending).height = h
    BY <2>4 DEF Last
  <2> QED
    BY <2>1, <2>3, <2>4, <2>5, <2>6
<1>10. CASE StopScript \/ Resume
  <2>1. CASE StopScript
    <3>1. /\ active' = active /\ control' = "prompt" /\ returned' \in {NoCall, Current}
      BY <2>1 DEF StopScript
    <3>2. Current = active[top].id
      BY <1>0, NewestCall
    <3> QED
      BY <3>1, <3>2 DEF ReturnIsCurrent
  <2>2. CASE Resume
    BY <2>2 DEF Resume, ReturnIsCurrent
  <2> QED
    BY <1>10, <2>1, <2>2
<1>11. CASE Begins
  <2>1. PICK c \in Given : Begun(c)
    BY <1>0, <1>11, CommandsBegin DEF Begins
  <2> QED
    BY <1>a, <2>1 DEF Begun
<1>12. CASE EndCommand
  <2>1. active' = active /\ returned' = returned /\ control = "command" /\ control' = "prompt"
    BY <1>0, <1>12, EndIs
  <2> QED
    BY <1>a, <2>1
<1>13. CASE PropertySet \/ Eval \/ StackGet \/ FeatureSet
  <2>1. active' = active /\ returned' = returned /\ control = "prompt" /\ control' = "prompt"
    BY <1>13 DEF PropertySet, Eval, StackGet, FeatureSet, Values
  <2> QED
    BY <1>a, <2>1
<1>14. CASE UNCHANGED dataVars
  BY <1>14 DEF dataVars, ReturnIsCurrent
<1> QED
  BY <1>6, <1>7, <1>8, <1>9, <1>10, <1>11, <1>12, <1>13, <1>14, DataSteps DEF Quiet

LEMMA ReturnIsShownStep ==
    ASSUME CommandsInv, ReturnIsShown, [DataNext]_dataVars
    PROVE  ReturnIsShown'
<1> DEFINE n == Len(pending)
<1>0. /\ Typed /\ CallsInOrder /\ FramesInOrder /\ Overridden
      /\ control = "command" => pending # << >>
      /\ n \in Nat /\ DOMAIN pending = 1..n
  BY PendingAre DEF CommandsInv, Overridden
<1>1. ASSUME NEW k \in 1..n, pending[k].cmd = "return_value"
      PROVE  /\ pending[k].todo \in {<< >>, <<ReturnValue>>}
             /\ pending[k].todo # << >> => k = n /\ control = "command" /\ returned # NoCall
  BY <1>0, <1>1 DEF ReturnIsShown
\* Nothing is left to look up when it is not this command that runs.
<1>a. ASSUME control # "command" \/ pending[n].cmd # "return_value",
             DOMAIN pending' \subseteq DOMAIN pending,
             \A k \in DOMAIN pending' : /\ pending'[k].cmd = pending[k].cmd
                                        /\ pending'[k].todo = pending[k].todo
      PROVE  ReturnIsShown'
  <2>1. ASSUME NEW k \in DOMAIN pending', pending'[k].cmd = "return_value"
        PROVE  pending'[k].todo = << >>
    <3>1. k \in 1..n /\ pending[k].cmd = "return_value" /\ pending'[k].todo = pending[k].todo
      BY <1>0, <1>a, <2>1
    <3> QED
      BY <1>1, <1>a, <3>1
  <2> QED
    BY <2>1 DEF ReturnIsShown
<1>2. CASE Call \/ Return \/ StopScript \/ Resume \/ Eval \/ StackGet \/ FeatureSet
  <2>1. pending' = pending
    BY <1>2, QuietIs DEF Quiet
  <2>2. control # "command"
    BY <1>2 DEF Call, Return, StopScript, Resume, Eval, StackGet, FeatureSet
  <2> QED
    BY <1>a, <2>1, <2>2
<1>3. CASE RunsWrapper
  <2>1. pending' = pending /\ Last(pending).cmd = "source"
    BY <1>3 DEF RunsWrapper
  <2>2. pending[n].cmd # "return_value"
    BY <2>1 DEF Last
  <2> QED
    BY <1>a, <2>1, <2>2
<1>4. CASE UNCHANGED dataVars
  BY <1>4 DEF dataVars, ReturnIsShown
<1>5. CASE Begins
  <2>1. PICK c \in Given : Begun(c) /\ (BegunLocal(c) \/ BegunGlobal(c) \/ BegunAside(c))
    BY <1>0, <1>5, CommandsBegin DEF Begins
  <2>2. /\ DOMAIN pending' = 1..(n + 1) /\ Len(pending') = n + 1 /\ pending'[n + 1] = c
        /\ \A k \in 1..n : /\ pending'[k].cmd = pending[k].cmd
                           /\ pending'[k].todo = pending[k].todo
    BY <1>0, <2>1, StartedIs DEF Begun, Waits, Same
  <2>3. control = "prompt" /\ control' = "command" /\ returned' = returned
    BY <2>1 DEF Begun
  <2>4. c.cmd = "return_value" => c.todo = <<ReturnValue>> /\ returned # NoCall
    BY <2>1 DEF BegunLocal, BegunGlobal, BegunAside, Aside
  <2> HIDE DEF n
  <2>5. ASSUME NEW k \in 1..(n + 1), pending'[k].cmd = "return_value"
        PROVE  /\ pending'[k].todo \in {<< >>, <<ReturnValue>>}
               /\ pending'[k].todo # << >> => k = n + 1
    <3>1. CASE k = n + 1
      BY <2>2, <2>4, <2>5, <3>1
    <3>2. CASE k # n + 1
      <4>1. k \in 1..n
        BY <1>0, <3>2
      <4>2. pending[k].cmd = "return_value" /\ pending'[k].todo = pending[k].todo
        BY <2>2, <2>5, <4>1
      <4> QED
        BY <1>1, <2>3, <4>1, <4>2
    <3> QED
      BY <3>1, <3>2
  <2>6. ASSUME NEW k \in 1..(n + 1), pending'[k].cmd = "return_value", pending'[k].todo # << >>
        PROVE  k = n + 1 /\ returned # NoCall
    <3>1. k = n + 1
      BY <2>5, <2>6
    <3> QED
      BY <2>2, <2>4, <2>6, <3>1
  <2> QED
    BY <2>2, <2>3, <2>5, <2>6 DEF ReturnIsShown
<1>6. CASE \E runsCode \in BOOLEAN : LookUp(runsCode)
  <2>1. /\ pending # << >> /\ Last(pending).todo # << >> /\ \E place \in Places : Shows(place)
        /\ control = "command"
    BY <1>0, <1>6, LookUpIs
  <2>2. /\ DOMAIN pending' = 1..n /\ n \in 1..n /\ Last(pending) = pending[n]
        /\ \A k \in 1..n : k # n => pending'[k] = pending[k]
        /\ pending'[n].cmd = pending[n].cmd /\ pending'[n].todo = Tail(pending[n].todo)
    BY <1>0, <2>1, ShownNow
  <2>3. Tail(<<ReturnValue>>) = << >>
    OBVIOUS
  <2>4. ASSUME NEW k \in 1..n, pending'[k].cmd = "return_value" PROVE pending'[k].todo = << >>
    <3>1. CASE k = n
      <4>1. pending[n].todo = <<ReturnValue>>
        BY <1>1, <2>1, <2>2, <2>4, <3>1
      <4> QED
        BY <2>2, <2>3, <3>1, <4>1
    <3>2. CASE k # n
      BY <1>1, <2>2, <2>4, <3>2
    <3> QED
      BY <3>1, <3>2
  <2> QED
    BY <2>2, <2>4 DEF ReturnIsShown
<1>7. CASE EndCommand
  <2>1. /\ DOMAIN pending' = 1..(n - 1) /\ \A k \in 1..(n - 1) : pending'[k] = pending[k]
        /\ n >= 1
    BY <1>0, <1>7, EndIs
  <2>2. \A k \in 1..(n - 1) : k \in 1..n /\ k # n
    <3> HIDE DEF n
    <3> QED
      BY <1>0
  <2>3. ASSUME NEW k \in 1..(n - 1), pending'[k].cmd = "return_value"
        PROVE  pending'[k].todo = << >>
    BY <1>1, <2>1, <2>2, <2>3
  <2> QED
    BY <2>1, <2>3 DEF ReturnIsShown
<1>8. CASE PropertySet
  <2>1. /\ DOMAIN pending' = DOMAIN pending
        /\ \A k \in DOMAIN pending : Waits(pending'[k], pending[k])
    BY <1>0, <1>8, AllDisturbed DEF PropertySet
  <2>2. control # "command"
    BY <1>8 DEF PropertySet
  <2> QED
    BY <1>a, <2>1, <2>2 DEF Waits, Same
<1> QED
  BY <1>2, <1>3, <1>4, <1>5, <1>6, <1>7, <1>8, DataSteps DEF Quiet

-----------------------------------------------------------------------------
(* What commands show.                                                     *)

\* While every call has a frame, the frame at a depth is that of the call at this depth, and
\* its data are found in the frame before it.
LEMMA AskedFrame ==
    ASSUME Typed, CallsInOrder, FramesInOrder, ~Hidden, NEW depth \in 0..(Len(recorded) - 1)
    PROVE  /\ Len(active) - depth \in DOMAIN active
           /\ active[Len(active) - depth].id = Frame(depth).id
           /\ FrameData(depth) = Frame(depth).id
           /\ Frame(depth).id # NoCall
<1> DEFINE top == Len(active)
           r == Len(recorded)
<1>1. /\ r = top /\ top \in Nat /\ top >= 1 /\ DOMAIN active = 1..top /\ DOMAIN recorded = 1..r
      /\ Current = active[top].id
  BY NotHidden, NewestCall, FramesAre
<1>2. \A m \in 1..top : recorded[m].id = active[m].id
  BY NotHidden DEF Seen, IsAt
<1>3. \A i \in 1..top : active[i].id # NoCall
  BY <1>1, NewestCall DEF NoCall
<1>4. /\ Frame(depth) = recorded[r - depth]
      /\ depth > 0 => FrameData(depth) = recorded[r - (depth - 1)].caller
  BY FrameIs
<1>5. depth \in 0..(r - 1)
  OBVIOUS
<1> HIDE DEF top, r
<1>6. PICK i \in 1..top : i = top - depth
  BY <1>1, <1>5
<1>7. Frame(depth).id = active[i].id /\ i = r - depth
  BY <1>1, <1>2, <1>4, <1>6
<1>8. CASE depth > 0
  <2>1. PICK k \in 1..r : k = r - (depth - 1)
    BY <1>1, <1>5, <1>8
  <2>2. PICK j \in 1..top :
           IsAt(k, j) /\ recorded[k].caller = IF j = 1 THEN NoCall ELSE active[j - 1].id
    BY <1>1, <2>1 DEF FramesInOrder
  <2>3. active[j].id = active[k].id /\ k \in 1..top
    BY <1>1, <1>2, <2>1, <2>2 DEF IsAt
  <2>4. j = k
    BY <1>1, <2>3, CallsDiffer
  <2>5. k = i + 1 /\ k - 1 = i /\ k # 1
    BY <1>1, <1>5, <1>6, <1>8, <2>1
  <2>6. FrameData(depth) = active[i].id
    BY <1>4, <1>8, <2>1, <2>2, <2>4, <2>5
  <2> QED
    BY <1>1, <1>3, <1>6, <1>7, <2>6 DEF top
<1>9. CASE ~(depth > 0)
  <2>1. depth = 0 /\ i = top
    BY <1>1, <1>5, <1>6, <1>9
  <2>2. FrameData(depth) = Current
    BY <2>1 DEF FrameData
  <2> QED
    BY <1>1, <1>3, <1>6, <1>7, <2>1, <2>2 DEF top
<1> QED
  BY <1>8, <1>9

LEMMA FunctionOfCall ==
    ASSUME Typed, CallsInOrder, NEW i \in DOMAIN active
    PROVE  FunctionsOf(active[i].id) = {active[i].fun}
<1> DEFINE live == {c \in ToSet(active) : c.id = active[i].id}
<1>1. live = {active[i]}
  <2>1. active[i] \in live
    BY DEF ToSet
  <2>2. \A c \in live : c = active[i]
    <3> TAKE c \in live
    <3>1. PICK j \in DOMAIN active : c = active[j]
      BY DEF ToSet
    <3>2. active[j].id = active[i].id
      BY <3>1
    <3>3. j = i
      BY <3>2, CallsDiffer
    <3> QED
      BY <3>1, <3>3
  <2> QED
    BY <2>1, <2>2
<1>2. FunctionsOf(active[i].id) = IF live # {} THEN {c.fun : c \in live} ELSE Functions
  BY DEF FunctionsOf
<1> HIDE DEF live
<1> QED
  BY <1>1, <1>2

\* The names that are left, and the one that is looked up.
LEMMA TodoIs ==
    ASSUME NEW S, NEW s \in Seq(S), s # << >>
    PROVE  ToSet(s) = {Head(s)} \cup ToSet(Tail(s))
<1>1. /\ Len(s) \in Nat /\ Len(s) >= 1 /\ DOMAIN s = 1..Len(s)
  BY PopIs
<1>2. /\ Tail(s) \in Seq(S) /\ Len(Tail(s)) = Len(s) - 1
      /\ \A i \in 1..Len(Tail(s)) : Tail(s)[i] = s[i + 1]
  BY HeadTailProperties
<1>3. DOMAIN Tail(s) = 1..(Len(s) - 1) /\ \A i \in 1..(Len(s) - 1) : Tail(s)[i] = s[i + 1]
  BY <1>2, LenProperties
<1>4. Head(s) = s[1]
  <2>1. 1 \in 1..Len(s) /\ Len(s) \in 1..Len(s)
    BY <1>1
  <2>2. Head(SubSeq(s, 1, Len(s))) = s[1]
    BY <2>1, HeadTailOfSubSeq
  <2> QED
    BY <2>2, SubSeqFull
<1> DEFINE n == Len(s)
<1>5. ASSUME NEW x \in ToSet(s) PROVE x = Head(s) \/ x \in ToSet(Tail(s))
  <2>1. PICK i \in 1..n : x = s[i]
    BY <1>1 DEF ToSet
  <2>2. CASE i = 1
    BY <1>4, <2>1, <2>2
  <2>3. CASE i # 1
    <3>1. n \in Nat
      BY <1>1
    <3> HIDE DEF n
    <3>2. i - 1 \in 1..(n - 1) /\ (i - 1) + 1 = i
      BY <2>3, <3>1
    <3>3. Tail(s)[i - 1] = s[i]
      BY <1>3, <3>2 DEF n
    <3> QED
      BY <1>3, <2>1, <3>2, <3>3 DEF ToSet, n
  <2> QED
    BY <2>2, <2>3
<1>6. Head(s) \in ToSet(s)
  <2>1. 1 \in DOMAIN s
    BY <1>1
  <2> QED
    BY <1>4, <2>1 DEF ToSet
<1>7. ASSUME NEW x \in ToSet(Tail(s)) PROVE x \in ToSet(s)
  <2>1. PICK i \in 1..(n - 1) : x = s[i + 1]
    BY <1>3, <1>7 DEF ToSet
  <2>2. i + 1 \in 1..n
    BY <1>1
  <2> QED
    BY <1>1, <2>1, <2>2 DEF ToSet
<1> QED
  BY <1>5, <1>6, <1>7

\* What a command shows next is one of the places it has yet to show.
LEMMA ShownMore ==
    ASSUME NEW c \in Given, NEW fun, NEW id, c.todo # << >>, ShowsAll(c, fun, id)
    PROVE  /\ Head(c.todo) \in Locals[fun]
           /\ \A d, place : /\ d.frame = c.frame /\ d.todo = Tail(c.todo)
                            /\ d.places = c.places \cup {place}
                            /\ place \in MayShow(c.frame, id, Head(c.todo))
                            => ShowsAll(d, fun, id)
<1> DEFINE name == Head(c.todo)
           rest == Tail(c.todo)
           May(x) == MayShow(c.frame, id, x)
<1>1. c.todo \in Seq(Names)
  BY DEF Given
<1>2. ToSet(c.todo) = {name} \cup ToSet(rest)
  BY <1>1, TodoIs
<1>3. /\ ToSet(c.todo) \subseteq Locals[fun]
      /\ \A x \in Locals[fun] : x \in ToSet(c.todo) \/ \E p \in May(x) : p \in c.places
      /\ \A p \in c.places : p = Exception \/ \E x \in Locals[fun] : p \in May(x)
  BY DEF ShowsAll
<1>4. name \in Locals[fun] /\ ToSet(rest) \subseteq Locals[fun]
  BY <1>2, <1>3
<1> HIDE DEF name, rest, May
<1>5. ASSUME NEW d, NEW place, d.frame = c.frame, d.todo = rest,
             d.places = c.places \cup {place}, place \in May(name)
      PROVE  ShowsAll(d, fun, id)
  <2>1. ToSet(d.todo) \subseteq Locals[fun]
    BY <1>4, <1>5
  <2>2. ASSUME NEW x \in Locals[fun]
        PROVE  x \in ToSet(d.todo) \/ \E p \in May(x) : p \in d.places
    <3>1. CASE x = name
      BY <1>5, <3>1
    <3>2. CASE x # name
      BY <1>2, <1>3, <1>5, <3>2
    <3> QED
      BY <3>1, <3>2
  <2>3. ASSUME NEW p \in d.places PROVE p = Exception \/ \E x \in Locals[fun] : p \in May(x)
    BY <1>3, <1>4, <1>5
  <2>4. \A x : MayShow(d.frame, id, x) = May(x)
    BY <1>5 DEF May
  <2> QED
    BY <2>1, <2>2, <2>3, <2>4 DEF ShowsAll
<1> QED
  BY <1>4, <1>5 DEF name, rest, May

-----------------------------------------------------------------------------
(* What the steps change of it.                                            *)

\* What command k shows in this step, if anything, is what it was asked for.
Progresses(k) ==
    LET c == pending[k]
        d == pending'[k]
        id == active[c.height].id
    IN /\ c.cmd \in Sized /\ c.context = 0 /\ activeData = c.frame
             /\ (activeTable => c.frame = Main) /\ OfFrame(c, id) =>
             OfFrame(d, id)
       /\ \A i \in DOMAIN active :
             c.cmd = "context_get" /\ c.context = 0 /\ activeData = c.frame
                /\ active[i].id = c.frame /\ ShowsAll(c, active[i].fun, id) =>
                ShowsAll(d, active[i].fun, id)
       /\ c.cmd = "context_get" /\ c.context = 1 /\ activeData = NoCall /\ activeTable
             /\ c.frame = Main /\ ShowsAll(c, "main", id) =>
             ShowsAll(d, "main", id)
       /\ c.cmd = "return_value" /\ OfReturn(c, id) => OfReturn(d, id)

\* What was shown is all that matters of a command.
LEMMA Alike ==
    ASSUME NEW c, NEW d, NEW id, d.frame = c.frame, d.names = c.names, d.todo = c.todo,
           d.places = c.places
    PROVE  /\ OfFrame(c, id) => OfFrame(d, id)
           /\ \A fun : ShowsAll(c, fun, id) => ShowsAll(d, fun, id)
           /\ OfReturn(c, id) => OfReturn(d, id)
<1>1. OfFrame(c, id) => OfFrame(d, id)
  BY DEF OfFrame
<1>2. \A fun : ShowsAll(c, fun, id) => ShowsAll(d, fun, id)
  BY DEF ShowsAll
<1>3. OfReturn(c, id) => OfReturn(d, id)
  BY DEF OfReturn
<1> QED
  BY <1>1, <1>2, <1>3

LEMMA WaitingProgresses ==
    ASSUME NEW k \in DOMAIN pending, Waits(pending'[k], pending[k])
    PROVE  Progresses(k) /\ Same(pending'[k], pending[k])
<1> DEFINE c == pending[k]
           d == pending'[k]
           id == active[c.height].id
<1>1. /\ d.frame = c.frame /\ d.todo = c.todo /\ d.places = c.places /\ d.names = c.names
      /\ Same(d, c)
  BY DEF Waits, Same
<1>2. /\ OfFrame(c, id) => OfFrame(d, id)
      /\ \A fun : ShowsAll(c, fun, id) => ShowsAll(d, fun, id)
      /\ OfReturn(c, id) => OfReturn(d, id)
  BY <1>1, Alike
<1> QED
  BY <1>1, <1>2 DEF Progresses

LEMMA ShownByWaiting ==
    ASSUME CommandsInv, Shown, Steadily, DOMAIN active' = 1..Len(active'), Len(active') \in Nat,
           activeData' = activeData, activeTable' = activeTable,
           NEW k \in DOMAIN pending, Same(pending'[k], pending[k]), ~pending'[k].disturbed,
           pending[k].height \in DOMAIN active', Progresses(k)
    PROVE  ShownIsAsked(pending[k])'
<1> DEFINE c == pending[k]
           d == pending'[k]
           id == active[c.height].id
<1>1. /\ d.cmd = c.cmd /\ d.context = c.context /\ d.frame = c.frame /\ d.height = c.height
      /\ ~c.disturbed
  BY DEF Same
<1>2. ShownIsAsked(c)
  BY <1>1 DEF Shown
<1>3. PICK h \in DOMAIN active : h = c.height
  BY DEF CommandsInv, CommandsNest
<1>4. DOMAIN active = 1..Len(active) /\ Len(active) \in Nat
  BY NewestCall DEF CommandsInv
<1>5. Seen(pending[k].height)' => Seen(h)
  <2>1. ASSUME Seen(pending[k].height)' PROVE Seen(h)'
    BY <1>1, <1>3, <2>1 DEF Seen
  <2> QED
    BY <1>3, <2>1 DEF Steadily
<1>6. \A i \in 1..h : i \in DOMAIN active /\ active'[i] = active[i]
  <2>1. \A i \in 1..h : i \in DOMAIN active /\ i \in DOMAIN active'
    BY <1>3, <1>4
  <2> QED
    BY <2>1 DEF Steadily
<1>a. active'[d.height].id = id
  <2>1. h \in 1..h
    BY <1>3, <1>4
  <2> QED
    BY <1>1, <1>3, <1>6, <2>1
<1>7. ASSUME d.cmd \in Sized, d.context = 0, Seen(pending[k].height)'
      PROVE  activeData' = d.frame /\ (activeTable' => d.frame = Main) /\ OfFrame(d, id)
  <2>1. activeData = c.frame /\ (activeTable => c.frame = Main) /\ OfFrame(c, id)
    BY <1>1, <1>2, <1>3, <1>5, <1>7 DEF ShownIsAsked, Stopped
  <2> QED
    BY <1>1, <1>7, <2>1 DEF Progresses
<1>8. ASSUME d.cmd = "context_get", d.context = 0, Seen(pending[k].height)'
      PROVE  /\ activeData' = d.frame
             /\ \E i \in 1..d.height : active'[i].id = d.frame /\ ShowsAll(d, active'[i].fun, id)
  <2>1. activeData = c.frame
        /\ \E i \in 1..h : active[i].id = c.frame /\ ShowsAll(c, active[i].fun, id)
    BY <1>1, <1>2, <1>3, <1>5, <1>8 DEF ShownIsAsked, Stopped
  <2>2. PICK i \in 1..h : active[i].id = c.frame /\ ShowsAll(c, active[i].fun, id)
    BY <2>1
  <2>3. ShowsAll(d, active[i].fun, id)
    BY <1>1, <1>6, <1>8, <2>1, <2>2 DEF Progresses
  <2> QED
    BY <1>1, <1>3, <1>6, <2>1, <2>2, <2>3
<1>9. ASSUME d.cmd = "context_get", d.context = 1
      PROVE  activeData' = NoCall /\ activeTable' /\ d.frame = Main /\ ShowsAll(d, "main", id)
  <2>1. activeData = NoCall /\ activeTable /\ c.frame = Main /\ ShowsAll(c, "main", id)
    BY <1>1, <1>2, <1>9 DEF ShownIsAsked, Stopped
  <2> QED
    BY <1>1, <1>9, <2>1 DEF Progresses
<1>10. ASSUME d.cmd = "return_value", Seen(pending[k].height)'
       PROVE  OfReturn(d, id)
  <2>1. OfReturn(c, id)
    BY <1>1, <1>2, <1>3, <1>5, <1>10 DEF ShownIsAsked, Stopped
  <2> QED
    BY <1>1, <1>10, <2>1 DEF Progresses
<1> HIDE DEF id
<1> QED
  BY <1>7, <1>8, <1>9, <1>10, <1>a
     DEF ShownIsAsked, Stopped, ShowsAll, OfFrame, OfReturn, MayShow, AsReturned, AsThrown

ShownInv == CommandsInv /\ Undisturbed /\ ReturnIsCurrent /\ ReturnIsShown /\ Shown

\* A command that begins has the pointers set for it.
LEMMA ShownByBegin ==
    ASSUME ShownInv, NEW c \in Given, Begun(c),
           BegunLocal(c) \/ BegunGlobal(c) \/ BegunAside(c)
    PROVE  Shown'
<1> DEFINE n == Len(pending)
<1>0. Typed /\ CallsInOrder /\ FramesInOrder /\ CommandsInv /\ Shown
  BY DEF ShownInv, CommandsInv
<1>1. /\ n \in Nat /\ DOMAIN pending = 1..n /\ DOMAIN pending' = 1..(n + 1)
      /\ pending'[n + 1] = c
      /\ \A k \in 1..n : /\ Waits(pending'[k], pending[k])
                         /\ ~pending'[k].disturbed => c.cmd \in Aside
  BY <1>0, PendingAre, StartedIs DEF Begun
<1>2. /\ active' = active /\ recorded' = recorded /\ c.height = Len(active)
      /\ c.places \subseteq {Exception} /\ (c.cmd # "context_get" => c.places = {})
      /\ (c.cmd \in Sized => \A name \in c.names : ToSet(c.todo) \subseteq {name})
  BY DEF Begun
<1> DEFINE id == active[Len(active)].id
<1>7. \A fun : ToSet(c.todo) = Locals[fun] => ShowsAll(c, fun, id)
  BY <1>2 DEF ShowsAll
<1> HIDE DEF id
<1>3. Steadily /\ DOMAIN active' = 1..Len(active') /\ Len(active') \in Nat
  <2>1. UNCHANGED <<active, recorded>>
    BY <1>2
  <2> QED
    BY <1>0, <1>2, <2>1, StillStack, NewestCall
<1> HIDE DEF n
<1>4. ASSUME NEW k \in 1..n, ~pending'[k].disturbed PROVE ShownIsAsked(pending[k])'
  <2>1. BegunAside(c)
    BY <1>1, <1>4 DEF BegunLocal, BegunGlobal
  <2>2. Progresses(k) /\ Same(pending'[k], pending[k])
    BY <1>1, WaitingProgresses
  <2>3. pending[k].height \in DOMAIN active'
    BY <1>0, <1>1, <1>2 DEF CommandsInv, CommandsNest
  <2> QED
    BY <1>0, <1>1, <1>3, <1>4, <2>1, <2>2, <2>3, ShownByWaiting DEF BegunAside
<1>5. ASSUME NEW k \in 1..(n + 1), k = n + 1 PROVE ShownIsAsked(pending[k])'
  <2>0. active'[c.height].id = id
    BY <1>2 DEF id
  <2>1. /\ pending'[k] = c /\ (c.cmd \in Sized => OfFrame(c, id))
    BY <1>1, <1>2, <1>5 DEF OfFrame, Sized
  <2>2. Seen(pending[k].height)' => ~Hidden
    <3> SUFFICES ASSUME Seen(pending[k].height)' PROVE ~Hidden
        OBVIOUS
    <3>1. Len(active) \in 1..Len(active) /\ Len(active) \in Nat /\ Len(recorded) \in Nat
          /\ DOMAIN recorded = 1..Len(recorded)
      BY <1>0, NewestCall, FramesAre
    <3>2. Len(active) \in DOMAIN recorded
      BY <1>2, <2>1, <3>1 DEF Seen
    <3> QED
      BY <3>1, <3>2 DEF Hidden
  <2>3. ASSUME BegunLocal(c), ~Hidden
        PROVE  /\ activeData' = c.frame /\ (activeTable' => c.frame = Main)
               /\ c.cmd = "context_get" =>
                     \E i \in 1..c.height :
                        active'[i].id = c.frame /\ ShowsAll(c, active'[i].fun, id)
    <3>1. PICK depth \in 0..(Len(recorded) - 1) : c.frame = Frame(depth).id /\ SetFrame(depth)
      BY <2>3 DEF BegunLocal
    <3>2. /\ Len(active) - depth \in DOMAIN active
          /\ active[Len(active) - depth].id = c.frame /\ FrameData(depth) = c.frame
      BY <1>0, <2>3, <3>1, AskedFrame
    <3>3. activeData' = c.frame /\ (activeTable' => c.frame = Main)
      BY <3>1, <3>2 DEF SetFrame, FrameTable
    <3>4. PICK i \in DOMAIN active : active[i].id = c.frame
      BY <3>2
    <3>5. FunctionsOf(c.frame) = {active[i].fun}
      BY <1>0, <3>4, FunctionOfCall
    <3>6. ASSUME c.cmd = "context_get" PROVE ShowsAll(c, active[i].fun, id)
      <4>1. ToSet(c.todo) = Locals[active[i].fun]
        BY <2>3, <3>5, <3>6 DEF BegunLocal
      <4> QED
        BY <1>7, <4>1
    <3>7. i \in 1..c.height
      BY <1>0, <1>2, NewestCall
    <3> QED
      BY <1>2, <3>3, <3>4, <3>6, <3>7
  <2>4. ASSUME BegunGlobal(c), c.cmd = "context_get"
        PROVE  activeData' = NoCall /\ activeTable' /\ c.frame = Main /\ ShowsAll(c, "main", id)
    BY <1>7, <2>4 DEF BegunGlobal
  <2>5. /\ BegunLocal(c) => c.context = 0 /\ c.cmd # "return_value"
        /\ BegunGlobal(c) => c.context = 1 /\ c.cmd # "return_value"
        /\ BegunAside(c) => c.cmd \notin Sized /\ c.cmd # "context_get"
        /\ "context_get" \notin Sized
    BY DEF BegunLocal, BegunGlobal, BegunAside, Sized, Aside
  <2>6. c.cmd \in Sized /\ c.context = 0 /\ Seen(pending[k].height)' =>
           activeData' = c.frame /\ (activeTable' => c.frame = Main) /\ OfFrame(c, id)
    BY <2>1, <2>2, <2>3, <2>5
  <2>7. c.cmd = "context_get" /\ c.context = 0 /\ Seen(pending[k].height)' =>
           /\ activeData' = c.frame
           /\ \E i \in 1..c.height : active'[i].id = c.frame /\ ShowsAll(c, active'[i].fun, id)
    BY <2>2, <2>3, <2>5
  <2>8. c.cmd = "context_get" /\ c.context = 1 =>
           activeData' = NoCall /\ activeTable' /\ c.frame = Main /\ ShowsAll(c, "main", id)
    BY <2>4, <2>5
  <2>9. ASSUME c.cmd = "return_value", ~Hidden PROVE OfReturn(c, id)
    <3>1. c.frame = Frame(0).id /\ c.todo = <<ReturnValue>> /\ c.places = {}
      BY <1>2, <2>5, <2>9 DEF BegunAside
    <3>2. 0 \in 0..(Len(recorded) - 1) /\ Len(active) - 0 = Len(active)
      BY <1>0, FramesAre, NewestCall
    <3>3. active[Len(active)].id = Frame(0).id
      BY <1>0, <2>9, <3>2, AskedFrame
    <3>4. <<ReturnValue>> # << >>
      OBVIOUS
    <3> QED
      BY <3>1, <3>3, <3>4 DEF OfReturn, id
  <2>10. c.cmd = "return_value" /\ Seen(pending[k].height)' => OfReturn(c, id)
    BY <2>2, <2>9
  <2>11. /\ pending'[k] = c /\ Stopped(pending[k])' = id
         /\ \A fun : ShowsAll(pending[k], fun, Stopped(pending[k]))' <=> ShowsAll(c, fun, id)
    BY <2>0, <2>1 DEF Stopped, ShowsAll, MayShow, AsReturned, AsThrown
  <2>12. /\ OfFrame(pending[k], Stopped(pending[k]))' <=> OfFrame(c, id)
         /\ OfReturn(pending[k], Stopped(pending[k]))' <=> OfReturn(c, id)
    BY <2>11 DEF OfFrame, OfReturn, MayShow, AsReturned, AsThrown
  <2> QED
    BY <2>6, <2>7, <2>8, <2>10, <2>11, <2>12 DEF ShownIsAsked
<1>6. \A k \in 1..(n + 1) : k \in 1..n \/ k = n + 1
  BY <1>1
<1> QED
  BY <1>1, <1>4, <1>5, <1>6 DEF Shown

\* Where a name leads to, which is one place unless the active call is over.
LEMMA LookupsAre ==
    ASSUME NEW name, NEW place \in Lookups(name)
    PROVE  \/ returned # NoCall /\ AsReturned(name) /\ place = <<returned, ReturnValue>>
           \/ AsThrown(name) /\ place = Exception
           \/ /\ \/ activeData # NoCall /\ place = <<activeData, name>>
                 \/ activeTable /\ place = <<Main, name>>
                 \/ place = Nowhere
              /\ \A fun : activeData # NoCall /\ FunctionsOf(activeData) = {fun}
                          /\ name \in Locals[fun] =>
                          place = <<activeData, name>>
              /\ activeData = NoCall /\ activeTable /\ name \in Locals["main"] =>
                    place = <<Main, name>>
<1> DEFINE table == IF activeTable /\ name \in Locals["main"] THEN <<Main, name>> ELSE Nowhere
           local == <<activeData, name>>
           global == <<Main, name>>
           value == <<returned, ReturnValue>>
<1>1. /\ \/ activeTable /\ table = global
         \/ table = Nowhere
      /\ activeTable /\ name \in Locals["main"] => table = global
  OBVIOUS
<1>2. Lookups(name) =
         IF returned # NoCall /\ AsReturned(name) THEN {value}
         ELSE IF thrown /\ AsThrown(name) THEN {Exception}
         ELSE IF activeData = NoCall THEN {table}
         ELSE {IF name \in Locals[fun] THEN local ELSE table : fun \in FunctionsOf(activeData)}
  BY DEF Lookups
<1> HIDE DEF table, local, global, value
<1>5. CASE returned # NoCall /\ AsReturned(name)
  <2>1. place = value
    BY <1>2, <1>5
  <2> QED
    BY <1>5, <2>1 DEF value
<1>6. CASE ~(returned # NoCall /\ AsReturned(name)) /\ thrown /\ AsThrown(name)
  <2>1. place = Exception
    BY <1>2, <1>6
  <2> QED
    BY <1>6, <2>1
<1>7. ASSUME ~(returned # NoCall /\ AsReturned(name)), ~(thrown /\ AsThrown(name))
      PROVE  Lookups(name) =
                IF activeData = NoCall THEN {table}
                ELSE {IF name \in Locals[fun] THEN local ELSE table :
                         fun \in FunctionsOf(activeData)}
  BY <1>2, <1>7
<1>8. CASE ~(returned # NoCall /\ AsReturned(name)) /\ ~(thrown /\ AsThrown(name))
  <2>3. CASE activeData = NoCall
    <3>1. place = table
      BY <1>7, <1>8, <2>3
    <3> QED
      BY <1>1, <2>3, <3>1 DEF global
  <2>4. CASE activeData # NoCall
    <3>1. PICK f \in FunctionsOf(activeData) :
             place = IF name \in Locals[f] THEN local ELSE table
      BY <1>7, <1>8, <2>4
    <3>2. place = local \/ place = table
      BY <3>1
    <3>3. \A fun : FunctionsOf(activeData) = {fun} /\ name \in Locals[fun] => place = local
      BY <3>1
    <3> QED
      BY <1>1, <2>4, <3>2, <3>3 DEF global, local
  <2> QED
    BY <2>3, <2>4
<1> QED
  BY <1>5, <1>6, <1>8

\* A name that was asked for is shown as what it stands for, or not found.
LEMMA FrameShown ==
    ASSUME NEW c \in Given, NEW d, NEW id, NEW place, c.todo # << >>, OfFrame(c, id),
           d.frame = c.frame, d.names = c.names, d.todo = Tail(c.todo),
           d.places = c.places \cup {place},
           place \in MayShow(c.frame, id, Head(c.todo)) \cup {Nowhere}
    PROVE  OfFrame(d, id)
<1> DEFINE name == Head(c.todo)
           rest == Tail(c.todo)
<1>1. ToSet(c.todo) = {name} \cup ToSet(rest)
  <2>1. c.todo \in Seq(Names)
    BY DEF Given
  <2> QED
    BY <2>1, TodoIs
<1>2. d.todo = rest /\ place \in MayShow(c.frame, id, name) \cup {Nowhere}
  OBVIOUS
<1> HIDE DEF name, rest
<1>3. ASSUME NEW asked \in d.names
      PROVE  /\ ToSet(d.todo) \subseteq {asked}
             /\ \A p \in d.places : p \in MayShow(d.frame, id, asked) \cup {Nowhere}
  <2>1. /\ ToSet(c.todo) \subseteq {asked}
        /\ \A p \in c.places : p \in MayShow(c.frame, id, asked) \cup {Nowhere}
    BY <1>3 DEF OfFrame
  <2>2. asked = name /\ ToSet(rest) \subseteq {asked}
    BY <1>1, <2>1
  <2> QED
    BY <1>2, <2>1, <2>2
<1> QED
  BY <1>3 DEF OfFrame

\* The innermost command shows what it was asked for, when the pointers are set for it.
LEMMA LookUpProgresses ==
    ASSUME CommandsInv, ReturnIsCurrent, ReturnIsShown, NEW runsCode \in BOOLEAN, LookUp(runsCode)
    PROVE  /\ DOMAIN pending' = DOMAIN pending
           /\ \A k \in DOMAIN pending : Progresses(k) /\ Same(pending'[k], pending[k])
                                        /\ (pending'[k].disturbed <=> pending[k].disturbed)
<1> DEFINE n == Len(pending)
           c == pending[n]
           d == pending'[n]
           id == active[Len(active)].id
<1>0. Typed /\ CallsInOrder /\ (control = "command" => pending # << >>)
  BY DEF CommandsInv, Overridden
<1>1. /\ pending # << >> /\ Last(pending).todo # << >> /\ control = "command"
      /\ \E place \in Lookups(Head(Last(pending).todo)) : place \in Places /\ Shows(place)
  BY <1>0, LookUpIs
<1>2. PICK place \in Lookups(Head(Last(pending).todo)) : place \in Places /\ Shows(place)
  BY <1>1
<1>3. /\ DOMAIN pending' = 1..n /\ n \in 1..n /\ Last(pending) = c
      /\ \A k \in 1..n : k # n => pending'[k] = pending[k]
      /\ d.cmd = c.cmd /\ d.context = c.context /\ d.frame = c.frame /\ d.oldMax = c.oldMax
      /\ d.disturbed = c.disturbed /\ d.names = c.names
      /\ d.todo = Tail(c.todo) /\ d.places = c.places \cup {place}
      /\ d.height = Len(active)
  BY <1>0, <1>1, <1>2, ShownNow
<1>4. /\ DOMAIN pending = 1..n /\ c.height = Len(active) /\ c \in Given
      /\ DOMAIN active = 1..Len(active)
  BY <1>0, <1>1, <1>3, HeightsAre, PendingAre
<1>5. Same(d, c)
  BY <1>3, <1>4 DEF Same
<1>6. ASSUME NEW k \in 1..n, k # n
      PROVE  /\ Progresses(k) /\ Same(pending'[k], pending[k])
             /\ (pending'[k].disturbed <=> pending[k].disturbed)
  <2>1. pending'[k] = pending[k]
    BY <1>3, <1>6
  <2>2. Waits(pending'[k], pending[k])
    BY <2>1 DEF Waits, Same
  <2> QED
    BY <1>4, <2>1, <2>2, WaitingProgresses
<1> DEFINE name == Head(c.todo)
           fetched == /\ \/ activeData # NoCall /\ place = <<activeData, name>>
                         \/ activeTable /\ place = <<Main, name>>
                         \/ place = Nowhere
                      /\ \A fun : activeData # NoCall /\ FunctionsOf(activeData) = {fun}
                                  /\ name \in Locals[fun] =>
                                  place = <<activeData, name>>
                      /\ activeData = NoCall /\ activeTable /\ name \in Locals["main"] =>
                            place = <<Main, name>>
<1>a. returned # NoCall => returned = id
  BY <1>1 DEF ReturnIsCurrent
<1>7. \/ AsReturned(name) /\ place = <<id, ReturnValue>>
      \/ AsThrown(name) /\ place = Exception
      \/ fetched
  BY <1>2, <1>3, <1>a, LookupsAre
<1>8. c.todo # << >> /\ c.todo \in Seq(Names)
  BY <1>1, <1>3, <1>4 DEF Given
<1>c. ASSUME NEW frame, place = <<frame, name>> \/ ~fetched
      PROVE  place \in MayShow(frame, id, name)
  BY <1>7, <1>c DEF MayShow
<1>9. ASSUME activeData = c.frame, activeTable => c.frame = Main, OfFrame(c, id)
      PROVE  OfFrame(d, id)
  <2>1. place \in MayShow(c.frame, id, name) \cup {Nowhere}
    BY <1>9, <1>c
  <2> HIDE DEF c, d, id
  <2> QED
    BY <1>3, <1>4, <1>8, <1>9, <2>1, FrameShown
<1>10. ASSUME NEW i \in DOMAIN active, activeData = c.frame, active[i].id = c.frame,
              ShowsAll(c, active[i].fun, id)
       PROVE  ShowsAll(d, active[i].fun, id)
  <2>1. FunctionsOf(activeData) = {active[i].fun}
    BY <1>0, <1>10, FunctionOfCall
  <2>2. activeData # NoCall
    <3>1. active[i].id \in 1..Current /\ Current \in Nat
      BY <1>0, NewestCall
    <3> QED
      BY <1>10, <3>1 DEF NoCall
  <2>3. name \in Locals[active[i].fun]
    BY <1>4, <1>8, <1>10, ShownMore
  <2>4. fetched => place = <<c.frame, name>>
    BY <1>10, <2>1, <2>2, <2>3
  <2>5. place \in MayShow(c.frame, id, name)
    BY <1>c, <2>4
  <2> QED
    BY <1>3, <1>4, <1>8, <1>10, <2>5, ShownMore
<1>11. ASSUME activeData = NoCall, activeTable, c.frame = Main, ShowsAll(c, "main", id)
       PROVE  ShowsAll(d, "main", id)
  <2>1. name \in Locals["main"]
    BY <1>4, <1>8, <1>11, ShownMore
  <2>2. fetched => place = <<c.frame, name>>
    BY <1>11, <2>1
  <2>3. place \in MayShow(c.frame, id, name)
    BY <1>c, <2>2
  <2> QED
    BY <1>3, <1>4, <1>8, <1>11, <2>3, ShownMore
<1>13. ASSUME c.cmd = "return_value", OfReturn(c, id) PROVE OfReturn(d, id)
  <2>1. c.todo = <<ReturnValue>> /\ returned # NoCall
    BY <1>3, <1>4, <1>8, <1>13 DEF ReturnIsShown
  <2>2. name = ReturnValue /\ d.todo = << >>
    BY <1>3, <2>1
  <2>3. place = <<id, ReturnValue>>
    <3>1. AsReturned(name)
      BY <2>2 DEF AsReturned
    <3>2. Lookups(name) = {<<returned, ReturnValue>>}
      BY <2>1, <3>1 DEF Lookups
    <3> QED
      BY <1>2, <1>3, <1>a, <2>1, <3>2
  <2>4. c.places = {} /\ c.frame = id
    BY <1>8, <1>13 DEF OfReturn
  <2> HIDE DEF name, id
  <2> QED
    BY <1>3, <2>2, <2>3, <2>4 DEF OfReturn
<1>12. Progresses(n)
  <2>1. c.cmd \in Sized /\ c.context = 0 /\ activeData = c.frame
           /\ (activeTable => c.frame = Main) /\ OfFrame(c, id) =>
           OfFrame(d, id)
    BY <1>9
  <2>2. \A i \in DOMAIN active :
           c.cmd = "context_get" /\ c.context = 0 /\ activeData = c.frame
              /\ active[i].id = c.frame /\ ShowsAll(c, active[i].fun, id) =>
              ShowsAll(d, active[i].fun, id)
    BY <1>10
  <2>3. c.cmd = "context_get" /\ c.context = 1 /\ activeData = NoCall /\ activeTable
           /\ c.frame = Main /\ ShowsAll(c, "main", id) =>
           ShowsAll(d, "main", id)
    BY <1>11
  <2>4. id = active[pending[n].height].id
    BY <1>4
  <2> QED
    BY <1>13, <2>1, <2>2, <2>3, <2>4 DEF Progresses
<1> QED
  BY <1>3, <1>4, <1>5, <1>6, <1>12

\* The step for Shown.
LEMMA ShownStep ==
    ASSUME ShownInv, [DataNext]_dataVars
    PROVE  Shown'
<1> DEFINE n == Len(pending)
<1>0. /\ Typed /\ CallsInOrder /\ FramesInOrder /\ CommandsInv /\ Shown /\ Undisturbed
      /\ ReturnIsCurrent /\ ReturnIsShown
      /\ control = "command" => pending # << >>
      /\ n \in Nat /\ DOMAIN pending = 1..n
  BY PendingAre DEF ShownInv, CommandsInv, Overridden
<1>1. /\ Steadily /\ DOMAIN active' = 1..Len(active') /\ Len(active') \in Nat
      /\ CommandsNest'
  BY <1>0, StackStep, LenProperties, NestStep DEF StackInv
<1>2. \A k \in DOMAIN pending' : pending'[k].height \in DOMAIN active'
  BY <1>1 DEF CommandsNest
\* The commands that are left progress, the pointers are where they were.
<1>a. ASSUME activeData' = activeData, activeTable' = activeTable,
             DOMAIN pending' \subseteq DOMAIN pending,
             \A k \in DOMAIN pending' :
                ~pending'[k].disturbed => Progresses(k) /\ Same(pending'[k], pending[k])
      PROVE  Shown'
  <2>1. ASSUME NEW k \in DOMAIN pending', ~pending'[k].disturbed
        PROVE  ShownIsAsked(pending[k])'
    <3>1. /\ Progresses(k) /\ Same(pending'[k], pending[k]) /\ k \in DOMAIN pending
          /\ pending'[k].height \in DOMAIN active'
      BY <1>2, <1>a, <2>1
    <3>2. pending[k].height \in DOMAIN active'
      BY <3>1 DEF Same
    <3> QED
      BY <1>0, <1>1, <1>a, <2>1, <3>1, <3>2, ShownByWaiting
  <2> QED
    BY <2>1 DEF Shown
<1>3. CASE Quiet
  <2>1. /\ pending' = pending /\ activeData' = activeData /\ activeTable' = activeTable
    BY <1>3, QuietIs
  <2>2. \A k \in DOMAIN pending : Waits(pending'[k], pending[k])
    BY <2>1 DEF Waits, Same
  <2> QED
    BY <1>a, <2>1, <2>2, WaitingProgresses
<1>4. CASE Begins
  <2>1. PICK c \in Given : Begun(c) /\ (BegunLocal(c) \/ BegunGlobal(c) \/ BegunAside(c))
    BY <1>0, <1>4, CommandsBegin DEF Begins
  <2> QED
    BY <2>1, ShownByBegin
<1>5. ASSUME NEW runsCode \in BOOLEAN, LookUp(runsCode) PROVE Shown'
  <2>1. activeData' = activeData /\ activeTable' = activeTable
    BY <1>0, <1>5, LookUpIs
  <2> QED
    BY <1>0, <1>5, <1>a, <2>1, LookUpProgresses
<1>6. CASE EndCommand
  <2>0. n >= 1
    BY <1>0, <1>6, EndIs
  <2>1. /\ DOMAIN pending' = 1..(n - 1) /\ n \in Nat
        /\ \A k \in 1..(n - 1) : pending'[k] = pending[k]
        /\ pending[n].cmd # "context_get" => UNCHANGED <<activeData, activeTable>>
    BY <1>0, <1>6, EndIs
  <2> HIDE DEF n
  <2>2. n \in 1..n /\ \A k \in 1..(n - 1) : k \in 1..n /\ n \in 1..n /\ k \in 1..(n - 1)
    BY <2>0, <2>1
  <2>3. \A k \in 1..(n - 1) : Waits(pending'[k], pending[k])
    BY <2>1 DEF Waits, Same
  <2>4. CASE pending[n].cmd # "context_get"
    BY <1>0, <1>a, <2>1, <2>2, <2>3, <2>4, WaitingProgresses
  <2>5. CASE pending[n].cmd = "context_get"
    <3>1. \A k \in 1..(n - 1) : pending[k].disturbed
      BY <1>0, <2>1, <2>5 DEF Undisturbed, Aside
    <3> QED
      BY <2>1, <3>1 DEF Shown
  <2> QED
    BY <2>4, <2>5
<1>7. CASE PropertySet
  <2>1. /\ DOMAIN pending' = DOMAIN pending
        /\ \A k \in DOMAIN pending : pending'[k].disturbed
    BY <1>0, <1>7, AllDisturbed DEF PropertySet
  <2> QED
    BY <2>1 DEF Shown
<1> QED
  BY <1>3, <1>4, <1>5, <1>6, <1>7, DataSteps

LEMMA GlobalsByBegin ==
    ASSUME Typed, GlobalsAreGlobal, NEW c \in Given, Begun(c),
           BegunLocal(c) \/ BegunGlobal(c) \/ BegunAside(c)
    PROVE  GlobalsAreGlobal'
<1> DEFINE n == Len(pending)
<1>1. /\ n \in Nat /\ DOMAIN pending = 1..n /\ DOMAIN pending' = 1..(n + 1)
      /\ pending'[n + 1] = c
      /\ \A k \in 1..n : /\ Waits(pending'[k], pending[k])
                         /\ ~pending'[k].disturbed => c.cmd \in Aside
  BY PendingAre, StartedIs DEF Begun
<1>2. c.cmd \in Sized \/ c.cmd = "context_get" \/ c.cmd \in Aside
  BY DEF Given, Kinds
<1>3. /\ \A id : c.cmd \in Sized => OfFrame(c, id)
      /\ active' = active
  BY DEF Begun, OfFrame, Sized
<1>4. ASSUME lastLocal' # "property"
      PROVE  activeData' = NoCall \/ \E k \in DOMAIN pending' : pending'[k].cmd = "context_get"
  <2> HIDE DEF n
  <2>1. CASE c.cmd = "context_get"
    <3>1. n + 1 \in 1..(n + 1)
      BY <1>1
    <3> QED
      BY <1>1, <2>1, <3>1
  <2>2. CASE c.cmd # "context_get"
    <3>1. \/ BegunGlobal(c) /\ c.cmd \in Sized
          \/ BegunAside(c)
      BY <1>2, <1>4, <2>2 DEF BegunLocal, BegunGlobal
    <3>2. activeData' = activeData /\ lastLocal' = lastLocal
      BY <3>1 DEF BegunGlobal, BegunAside
    <3>3. CASE activeData = NoCall
      BY <3>2, <3>3
    <3>4. CASE activeData # NoCall
      <4>1. PICK k \in 1..n : pending[k].cmd = "context_get"
        BY <1>1, <1>4, <3>2, <3>4 DEF GlobalsAreGlobal
      <4>2. k \in 1..(n + 1)
        BY <1>1
      <4> QED
        BY <1>1, <4>1, <4>2 DEF Waits, Same
    <3> QED
      BY <3>3, <3>4
  <2> QED
    BY <2>1, <2>2
<1>5. ASSUME pending'[1].cmd \in Sized, pending'[1].context = 1
      PROVE  /\ pending'[1].frame = Main
             /\ lastLocal' # "property" /\ ~pending'[1].disturbed =>
                   OfFrame(pending'[1], active'[pending'[1].height].id)
  <2> HIDE DEF n
  <2>1. CASE n = 0
    <3>1. pending'[1] = c
      BY <1>1, <2>1
    <3>2. BegunGlobal(c)
      BY <1>5, <3>1 DEF BegunLocal, BegunAside, Sized, Aside
    <3> QED
      BY <1>3, <1>5, <3>1, <3>2 DEF BegunGlobal
  <2>2. CASE n # 0
    <3>1. 1 \in 1..n
      BY <1>1, <2>2
    <3>2. pending # << >>
      BY <1>1, <3>1
    <3>3. /\ Waits(pending'[1], pending[1])
          /\ ~pending'[1].disturbed => c.cmd \in Aside
      BY <1>1, <3>1
    <3>4. /\ pending[1].cmd \in Sized /\ pending[1].context = 1
          /\ pending'[1].frame = pending[1].frame /\ pending'[1].places = pending[1].places
          /\ pending'[1].names = pending[1].names /\ pending'[1].todo = pending[1].todo
          /\ pending'[1].height = pending[1].height
          /\ ~pending'[1].disturbed => ~pending[1].disturbed
      BY <1>5, <3>3 DEF Waits, Same
    <3>7. \A id : OfFrame(pending[1], id) => OfFrame(pending'[1], id)
      BY <3>4, Alike
    <3>5. /\ pending[1].frame = Main
          /\ lastLocal # "property" /\ ~pending[1].disturbed =>
                OfFrame(pending[1], active[pending[1].height].id)
      BY <3>2, <3>4 DEF GlobalsAreGlobal, Stopped
    <3>6. ~pending'[1].disturbed => lastLocal' = lastLocal
      BY <3>3 DEF BegunLocal, BegunGlobal, BegunAside
    <3> QED
      BY <1>3, <3>4, <3>5, <3>6, <3>7
  <2> QED
    BY <2>1, <2>2
<1> QED
  BY <1>4, <1>5
     DEF GlobalsAreGlobal, Stopped, OfFrame, MayShow, AsReturned, AsThrown

LEMMA GlobalsStep ==
    ASSUME CommandsInv, ReturnIsCurrent, GlobalsAreGlobal, [DataNext]_dataVars
    PROVE  GlobalsAreGlobal'
<1> DEFINE n == Len(pending)
<1>0. /\ Typed /\ CallsInOrder /\ FramesInOrder
      /\ control = "command" => pending # << >>
      /\ n \in Nat /\ DOMAIN pending = 1..n
  BY PendingAre DEF CommandsInv, Overridden
\* The outermost command stands on the same call.
<1>a. ASSUME 1 \in DOMAIN pending, 1 \in DOMAIN pending',
             pending'[1].height = pending[1].height
      PROVE  active'[pending'[1].height].id = active[pending[1].height].id
  <2>1. PICK h \in DOMAIN active : h = pending[1].height
    BY <1>a DEF CommandsInv, CommandsNest
  <2>2. pending'[1].height \in DOMAIN active'
    BY <1>a, NestStep DEF CommandsNest
  <2>3. active'[h] = active[h]
    BY <1>0, <1>a, <2>1, <2>2, StackStep DEF Steadily
  <2> QED
    BY <1>a, <2>1, <2>3
<1>b. pending # << >> => 1 \in DOMAIN pending
  <2>1. pending \in Seq(Given)
    BY <1>0 DEF Typed
  <2>2. pending # << >> => Len(pending) >= 1
    BY <2>1, PopIs
  <2> QED
    BY <1>0, <2>2
<1>1. CASE Quiet
  <2>1. /\ pending' = pending /\ activeData' = activeData /\ activeTable' = activeTable
        /\ lastLocal' = lastLocal
    BY <1>1, QuietIs
  <2>2. pending # << >> => active'[pending'[1].height].id = active[pending[1].height].id
    BY <1>a, <1>b, <2>1
  <2>3. ASSUME pending # << >>, pending[1].cmd \in Sized, pending[1].context = 1
        PROVE  /\ pending[1].frame = Main
               /\ lastLocal # "property" /\ ~pending[1].disturbed =>
                     OfFrame(pending[1], active'[pending'[1].height].id)
    BY <2>2, <2>3 DEF GlobalsAreGlobal, Stopped
  <2> QED
    BY <2>1, <2>3 DEF GlobalsAreGlobal, Stopped, OfFrame, MayShow, AsReturned, AsThrown
<1>2. CASE Begins
  BY <1>0, <1>2, CommandsBegin, GlobalsByBegin DEF Begins
<1>3. ASSUME NEW runsCode \in BOOLEAN, LookUp(runsCode) PROVE GlobalsAreGlobal'
  <2> DEFINE name == Head(pending[n].todo)
             id == active[Len(active)].id
  <2>0. pending # << >> => Last(pending) = pending[n]
    BY DEF Last
  <2>1. /\ pending # << >> /\ pending[n].todo # << >> /\ Last(pending).todo # << >>
        /\ \E place \in Lookups(name) : place \in Places /\ Shows(place)
        /\ UNCHANGED <<activeData, activeTable, lastLocal>> /\ control = "command"
    BY <1>0, <1>3, <2>0, LookUpIs
  <2>2. PICK place \in Lookups(name) : place \in Places /\ Shows(place)
    BY <2>1
  <2>3. /\ DOMAIN pending' = 1..n /\ n \in 1..n
        /\ \A k \in 1..n : k # n => pending'[k] = pending[k]
        /\ pending'[n].cmd = pending[n].cmd /\ pending'[n].context = pending[n].context
        /\ pending'[n].frame = pending[n].frame
        /\ pending'[n].disturbed = pending[n].disturbed
        /\ pending'[n].names = pending[n].names
        /\ pending'[n].todo = Tail(pending[n].todo)
        /\ pending'[n].places = pending[n].places \cup {place}
        /\ pending'[n].height = pending[n].height /\ pending[n].height = Len(active)
        /\ pending[n] \in Given
    BY <1>0, <2>1, <2>2, ShownNow, HeightsAre, PendingAre
  <2>4. activeData = NoCall => place \in MayShow(Main, id, name) \cup {Nowhere}
    <3>1. returned # NoCall => returned = id
      BY <2>1 DEF ReturnIsCurrent
    <3>2. \/ returned # NoCall /\ AsReturned(name) /\ place = <<returned, ReturnValue>>
          \/ AsThrown(name) /\ place = Exception
          \/ activeData # NoCall
          \/ place = <<Main, name>>
          \/ place = Nowhere
      BY <2>2, LookupsAre
    <3> HIDE DEF id, name
    <3> QED
      BY <3>1, <3>2 DEF MayShow
  <2>8. n = 1 => active[pending[1].height].id = id
    BY <2>3
  <2>9. 1 \in 1..n /\ pending'[1].height = pending[1].height
    <3> HIDE DEF n
    <3>1. 1 \in 1..n
      <4>1. n \in 1..n
        BY <2>3
      <4> QED
        BY <4>1
    <3> QED
      BY <2>3, <3>1
  <2>10. active'[pending'[1].height].id = active[pending[1].height].id
    BY <1>0, <1>a, <2>3, <2>9
  <2> HIDE DEF n, id
  <2>5. \A k \in 1..n : pending'[k].cmd = pending[k].cmd
    BY <2>3
  <2>6. ASSUME lastLocal' # "property"
        PROVE  activeData' = NoCall
               \/ \E k \in DOMAIN pending' : pending'[k].cmd = "context_get"
    BY <1>0, <2>1, <2>3, <2>5, <2>6 DEF GlobalsAreGlobal
  <2>7. ASSUME pending'[1].cmd \in Sized, pending'[1].context = 1
        PROVE  /\ pending'[1].frame = Main
               /\ lastLocal' # "property" /\ ~pending'[1].disturbed =>
                   OfFrame(pending'[1], active'[pending'[1].height].id)
    <3>2. /\ pending'[1].cmd = pending[1].cmd /\ pending'[1].context = pending[1].context
          /\ pending'[1].frame = pending[1].frame
          /\ pending'[1].disturbed = pending[1].disturbed
          /\ n # 1 => pending'[1] = pending[1]
      BY <2>3, <2>9
    <3>3. /\ pending[1].frame = Main
          /\ lastLocal # "property" /\ ~pending[1].disturbed =>
                OfFrame(pending[1], active[pending[1].height].id)
      BY <2>1, <2>7, <3>2 DEF GlobalsAreGlobal, Stopped
    <3>4. ASSUME lastLocal' # "property", ~pending'[1].disturbed
          PROVE  OfFrame(pending'[1], active[pending[1].height].id)
      <4>1. OfFrame(pending[1], active[pending[1].height].id)
        BY <2>1, <3>2, <3>3, <3>4
      <4>2. CASE n # 1
        BY <3>2, <4>1, <4>2
      <4>3. CASE n = 1
        <5>1. \A k \in DOMAIN pending : pending[k].cmd # "context_get"
          BY <1>0, <2>7, <3>2, <4>3 DEF Sized
        <5>2. activeData = NoCall
          BY <2>1, <3>4, <5>1 DEF GlobalsAreGlobal
        <5>3. place \in MayShow(pending[1].frame, id, Head(pending[1].todo)) \cup {Nowhere}
          BY <2>4, <3>3, <4>3, <5>2
        <5>4. /\ pending[1] \in Given /\ pending[1].todo # << >> /\ OfFrame(pending[1], id)
              /\ pending'[1].frame = pending[1].frame /\ pending'[1].names = pending[1].names
              /\ pending'[1].todo = Tail(pending[1].todo)
              /\ pending'[1].places = pending[1].places \cup {place}
          BY <2>1, <2>3, <2>8, <4>1, <4>3
        <5>5. OfFrame(pending'[1], id)
          BY <5>3, <5>4, FrameShown
        <5> QED
          BY <2>8, <4>3, <5>5
      <4> QED
        BY <4>2, <4>3
    <3> QED
      BY <2>10, <3>2, <3>3, <3>4
  <2> QED
    BY <2>6, <2>7 DEF GlobalsAreGlobal, Stopped, OfFrame, MayShow, AsReturned, AsThrown
<1>4. CASE EndCommand
  <2>1. /\ n >= 1 /\ DOMAIN pending' = 1..(n - 1)
        /\ \A k \in 1..(n - 1) : pending'[k] = pending[k]
        /\ pending[n].cmd = "context_get" => activeData' = NoCall
        /\ pending[n].cmd # "context_get" => UNCHANGED <<activeData, activeTable>>
        /\ lastLocal' = lastLocal /\ pending' \in Seq(Given) /\ Len(pending') = n - 1
        /\ active' = active
    BY <1>0, <1>4, EndIs
  <2> HIDE DEF n
  <2>2. ASSUME lastLocal' # "property"
        PROVE  activeData' = NoCall
               \/ \E k \in DOMAIN pending' : pending'[k].cmd = "context_get"
    <3>1. CASE pending[n].cmd = "context_get" \/ activeData = NoCall
      BY <2>1, <3>1
    <3>2. CASE ~(pending[n].cmd = "context_get" \/ activeData = NoCall)
      <4>1. PICK k \in 1..n : pending[k].cmd = "context_get"
        BY <1>0, <2>1, <2>2, <3>2 DEF GlobalsAreGlobal
      <4>2. k # n
        BY <3>2, <4>1
      <4>3. k \in 1..(n - 1)
        BY <1>0, <4>2
      <4> QED
        BY <2>1, <4>1, <4>3
    <3> QED
      BY <3>1, <3>2
  <2>3. ASSUME pending' # << >>
        PROVE  pending # << >> /\ pending'[1] = pending[1]
    <3>1. n - 1 >= 1
      BY <2>1, <2>3, PopIs
    <3>2. 1 \in 1..(n - 1) /\ 1 \in 1..n
      BY <1>0, <3>1
    <3> QED
      BY <1>0, <2>1, <3>2
  <2>4. ASSUME pending' # << >>, pending'[1].cmd \in Sized, pending'[1].context = 1
        PROVE  /\ pending'[1].frame = Main
               /\ lastLocal' # "property" /\ ~pending'[1].disturbed =>
                   OfFrame(pending'[1], active'[pending'[1].height].id)
    BY <2>1, <2>3, <2>4 DEF GlobalsAreGlobal, Stopped
  <2> QED
    BY <2>2, <2>4 DEF GlobalsAreGlobal, Stopped, OfFrame, MayShow, AsReturned, AsThrown
<1>5. CASE PropertySet
  <2>1. /\ DOMAIN pending' = DOMAIN pending /\ Len(pending') = n
        /\ \A k \in DOMAIN pending : Waits(pending'[k], pending[k]) /\ pending'[k].disturbed
    BY <1>0, <1>5, AllDisturbed DEF PropertySet
  <2>2. PICK depth \in 0..(Len(recorded) - 1), local \in BOOLEAN :
           /\ IF local THEN SetFrame(depth) ELSE SetGlobals
           /\ lastLocal' = IF local THEN "property" ELSE lastLocal
    BY <1>5 DEF PropertySet
  <2>3. lastLocal' # "property" => activeData' = activeData /\ lastLocal' = lastLocal
    BY <2>2 DEF SetGlobals
  <2>4. ASSUME lastLocal' # "property"
        PROVE  activeData' = NoCall
               \/ \E k \in DOMAIN pending' : pending'[k].cmd = "context_get"
    BY <2>1, <2>3, <2>4 DEF GlobalsAreGlobal, Waits, Same
  <2>5. ASSUME pending' # << >>, pending'[1].cmd \in Sized, pending'[1].context = 1
        PROVE  pending'[1].frame = Main /\ pending'[1].disturbed
    <3> HIDE DEF n
    <3>0. pending # << >>
      <4>1. pending' \in Seq(Given)
        BY <1>0, <1>5, AllDisturbed DEF PropertySet
      <4>2. Len(pending') >= 1
        BY <2>5, <4>1, PopIs
      <4> QED
        BY <2>1, <4>2 DEF n
    <3>1. 1 \in DOMAIN pending
      <4>1. Len(pending) >= 1 /\ Len(pending) \in Nat
        BY <1>0, <3>0, PopIs DEF Typed
      <4> QED
        BY <1>0, <4>1 DEF n
    <3>2. /\ pending'[1].disturbed /\ pending[1].cmd \in Sized /\ pending[1].context = 1
          /\ pending'[1].frame = pending[1].frame
      BY <2>1, <2>5, <3>1 DEF Waits, Same
    <3> QED
      BY <3>0, <3>2 DEF GlobalsAreGlobal
  <2> QED
    BY <2>4, <2>5 DEF GlobalsAreGlobal
<1> QED
  BY <1>1, <1>2, <1>3, <1>4, <1>5, DataSteps

\* Nothing was answered, or it was and nothing has changed.
LEMMA AnsweredBefore ==
    ASSUME AnsweredFromFrame,
           \/ answered' = NoAnswer
           \/ UNCHANGED <<active, recorded, control, pending, lastLocal, answered>>
    PROVE  AnsweredFromFrame'
<1>1. CASE answered' = NoAnswer
  <2>1. /\ answered'.cmd # "stack_get" /\ answered'.cmd # "context_get"
        /\ answered'.cmd \notin Sized /\ answered'.cmd # "property_set"
        /\ answered'.cmd # "return_value"
    BY <1>1 DEF NoAnswer, Sized
  <2> QED
    BY <2>1 DEF AnsweredFromFrame
<1>2. CASE UNCHANGED <<active, recorded, control, pending, lastLocal, answered>>
  <2>1. Hidden' = Hidden /\ \A i : FunctionsOf(i)' = FunctionsOf(i)
    BY <1>2 DEF Hidden, FunctionsOf
  <2>2. \A name : SpecialPlaces(name)' = SpecialPlaces(name)
    BY <1>2 DEF SpecialPlaces, Current, AsReturned, AsThrown
  <2> QED
    BY <1>2, <2>1, <2>2 DEF AnsweredFromFrame
<1> QED
  BY <1>1, <1>2

LEMMA AnsweredByStackGet ==
    ASSUME Typed, CallsInOrder, FramesInOrder, StackGet
    PROVE  AnsweredFromFrame'
<1> DEFINE shown == {<<Frame(depth).id, FrameData(depth)>> : depth \in 0..(Len(recorded) - 1)}
           calls == {<<active[k].id, active[k].id>> : k \in DOMAIN active}
<1>1. /\ active' = active /\ recorded' = recorded
      /\ answered' = [NoAnswer EXCEPT !.cmd = "stack_get", !.places = shown]
  BY DEF StackGet
<1>2. ~Hidden => shown = calls
  <2> SUFFICES ASSUME ~Hidden PROVE shown = calls
      OBVIOUS
  <2>0. /\ Len(recorded) = Len(active) /\ Len(active) \in Nat /\ DOMAIN active = 1..Len(active)
    BY NotHidden, NewestCall
  <2>1. ASSUME NEW depth \in 0..(Len(recorded) - 1)
        PROVE  <<Frame(depth).id, FrameData(depth)>> \in calls
    <3>1. PICK k \in DOMAIN active : k = Len(active) - depth
      BY AskedFrame
    <3>2. active[k].id = Frame(depth).id /\ FrameData(depth) = Frame(depth).id
      BY <3>1, AskedFrame
    <3> QED
      BY <3>2
  <2>2. ASSUME NEW k \in DOMAIN active PROVE <<active[k].id, active[k].id>> \in shown
    <3> DEFINE top == Len(active)
    <3>1. top \in Nat /\ k \in 1..top
      BY <2>0
    <3> HIDE DEF top
    <3>2. PICK depth \in 0..(top - 1) : k = top - depth
      <4>1. top - k \in 0..(top - 1) /\ k = top - (top - k)
        BY <3>1
      <4> QED
        BY <4>1
    <3>3. depth \in 0..(Len(recorded) - 1)
      BY <2>0 DEF top
    <3>4. active[k].id = Frame(depth).id /\ FrameData(depth) = Frame(depth).id
      BY <3>2, <3>3, AskedFrame DEF top
    <3> QED
      BY <3>3, <3>4
  <2> QED
    BY <2>1, <2>2
<1> HIDE DEF shown, calls
<1>3. answered'.cmd = "stack_get" /\ answered'.places = shown
  BY <1>1 DEF NoAnswer
<1>4. Hidden' = Hidden
  BY <1>1 DEF Hidden
<1>5. {<<active[k].id, active[k].id>> : k \in DOMAIN active}' = calls
  BY <1>1 DEF calls
<1>6. ~Hidden' => answered'.places = {<<active[k].id, active[k].id>> : k \in DOMAIN active}'
  BY <1>2, <1>3, <1>4, <1>5
<1> QED
  BY <1>3, <1>6 DEF AnsweredFromFrame, Sized

LEMMA AnsweredByPropertySet ==
    ASSUME Typed, CallsInOrder, FramesInOrder, PropertySet
    PROVE  AnsweredFromFrame'
<1>1. PICK depth \in 0..(Len(recorded) - 1), name \in Locals["main"], local \in BOOLEAN :
         PropertySets(depth, name, local)
  BY DEF PropertySet, PropertySets
<1> DEFINE scope == IF depth > 0 THEN activeData' ELSE Current
           place == <<IF scope = NoCall THEN Main ELSE scope, name>>
           context == IF local THEN 0 ELSE 1
           frame == IF local THEN Frame(depth).id ELSE Main
<1>2. answered' = [NoAnswer EXCEPT !.cmd = "property_set", !.context = context,
                                   !.frame = frame, !.places = {place}]
  BY <1>1 DEF PropertySets
<1>3. context = 0 /\ ~Hidden => frame = Frame(depth).id /\ place[1] = frame
  <2> SUFFICES ASSUME context = 0, ~Hidden PROVE frame = Frame(depth).id /\ place[1] = frame
      OBVIOUS
  <2>1. local
    OBVIOUS
  <2>2. activeData' = FrameData(depth)
    BY <1>1, <2>1 DEF PropertySets, SetFrame
  <2>3. FrameData(depth) = Frame(depth).id /\ Frame(depth).id # NoCall
    BY AskedFrame
  <2>4. ~(depth > 0) => FrameData(depth) = Current
    BY DEF FrameData
  <2>5. scope = Frame(depth).id
    BY <2>2, <2>3, <2>4
  <2> HIDE DEF scope
  <2> QED
    BY <2>1, <2>3, <2>5
<1> HIDE DEF context, frame, place
<1>4. /\ answered'.cmd = "property_set" /\ answered'.context = context
      /\ answered'.frame = frame /\ answered'.places = {place}
  BY <1>2 DEF NoAnswer
<1>5. Hidden' = Hidden
  BY DEF PropertySet, Hidden
<1> QED
  BY <1>3, <1>4, <1>5 DEF AnsweredFromFrame, Sized

LEMMA AnsweredByEnd ==
    ASSUME ShownInv, GlobalsAreGlobal, EndCommand
    PROVE  AnsweredFromFrame'
<1> DEFINE n == Len(pending)
           c == pending[n]
           id == active[Len(active)].id
<1>0. Typed /\ CallsInOrder /\ FramesInOrder /\ CommandsInv /\ Shown
      /\ (control = "command" => pending # << >>)
  BY DEF ShownInv, CommandsInv, Overridden
<1>1. /\ n \in Nat /\ n >= 1 /\ DOMAIN pending = 1..n /\ c \in Given /\ c.todo = << >>
      /\ control = "command" /\ Len(pending') = n - 1
      /\ answered' = [c EXCEPT !.oldMax = 0, !.height = 0]
      /\ UNCHANGED <<active, recorded, lastLocal>>
  BY <1>0, EndIs
<1>2. /\ answered'.cmd = c.cmd /\ answered'.context = c.context /\ answered'.frame = c.frame
      /\ answered'.names = c.names /\ answered'.places = c.places
      /\ answered'.disturbed = c.disturbed
  BY <1>1 DEF Given
<1>3. n \in DOMAIN pending
  <2>1. DOMAIN pending = 1..n /\ n \in Nat /\ n >= 1
    BY <1>1
  <2> HIDE DEF n
  <2> QED
    BY <2>1
<1>4. c.height = Len(active) /\ active[c.height].id = id
  BY <1>0, <1>1, HeightsAre
<1>5. Hidden' = Hidden /\ \A i : FunctionsOf(i)' = FunctionsOf(i)
  BY <1>1 DEF Hidden, FunctionsOf
<1>a. \A frame, name : {<<frame, name>>} \cup SpecialPlaces(name)' = MayShow(frame, id, name)
  <2>1. active' = active /\ Current = id
    BY <1>0, <1>1, NewestCall
  <2> HIDE DEF id
  <2> QED
    BY <2>1 DEF SpecialPlaces, MayShow, Current, AsReturned, AsThrown
<1> DEFINE Complete(fun) ==
        /\ \A name \in Locals[fun] :
              \E place \in MayShow(c.frame, id, name) : place \in c.places
        /\ \A place \in c.places :
              \/ place = Exception
              \/ \E name \in Locals[fun] : place \in MayShow(c.frame, id, name)
<1>6. \A fun : ShowsAll(c, fun, id) => Complete(fun)
  <2>1. ToSet(c.todo) = {}
    BY <1>1 DEF ToSet
  <2> QED
    BY <2>1 DEF ShowsAll
<1>7. c.cmd \in Kinds /\ c.context \in {0, 1}
  BY <1>1 DEF Given
<1>8. ASSUME ~Hidden, ~c.disturbed, c.cmd = "context_get", NEW fun \in FunctionsOf(c.frame)
      PROVE  Complete(fun)
  <2>1. ShownIsAsked(c)
    BY <1>0, <1>3, <1>8 DEF Shown
  <2>2. PICK i \in DOMAIN active : active[i].id = c.frame /\ ShowsAll(c, active[i].fun, id)
    <3>1. CASE c.context = 0
      <4>1. Seen(c.height)
        BY <1>0, <1>4, <1>8, NotHidden
      <4>2. DOMAIN active = 1..c.height
        BY <1>0, <1>4, NewestCall
      <4>3. \E i \in 1..c.height : active[i].id = c.frame /\ ShowsAll(c, active[i].fun, id)
        BY <1>4, <1>8, <2>1, <3>1, <4>1 DEF ShownIsAsked, Stopped
      <4> QED
        BY <4>2, <4>3
    <3>2. CASE c.context = 1
      <4>1. c.frame = Main /\ ShowsAll(c, "main", id)
        BY <1>4, <1>8, <2>1, <3>2 DEF ShownIsAsked, Stopped
      <4>2. 1 \in DOMAIN active /\ active[1].id = Main /\ active[1].fun = "main"
        <5>1. Len(active) \in Nat /\ Len(active) >= 1 /\ DOMAIN active = 1..Len(active)
          BY <1>0, NewestCall
        <5> QED
          BY <1>0, <5>1 DEF CallsInOrder
      <4> QED
        BY <4>1, <4>2
    <3> QED
      BY <1>7, <3>1, <3>2
  <2>3. fun = active[i].fun
    BY <1>0, <1>8, <2>2, FunctionOfCall
  <2> HIDE DEF Complete
  <2> QED
    BY <1>6, <2>2, <2>3
<1>9. ASSUME ~Hidden, ~c.disturbed, c.cmd \in Sized,
             c.context = 0 \/ (lastLocal # "property" /\ pending' = << >>)
      PROVE  OfFrame(c, id)
  <2>1. CASE c.context = 0
    <3>1. Seen(c.height)
      BY <1>0, <1>4, <1>9, NotHidden
    <3>2. ShownIsAsked(c)
      BY <1>0, <1>3, <1>9 DEF Shown
    <3> QED
      BY <1>4, <1>9, <2>1, <3>1, <3>2 DEF ShownIsAsked, Stopped
  <2>2. CASE c.context # 0
    <3>1. n = 1
      <4>1. Len(pending') = 0 /\ Len(pending') = n - 1 /\ n \in Nat
        BY <1>1, <1>9, <2>2
      <4> HIDE DEF n
      <4> QED
        BY <4>1
    <3>2. c = pending[1] /\ c.context = 1 /\ pending # << >>
      BY <1>0, <1>1, <1>7, <2>2, <3>1
    <3>3. OfFrame(pending[1], active[pending[1].height].id)
      BY <1>9, <2>2, <3>2 DEF GlobalsAreGlobal, Stopped
    <3> QED
      BY <1>4, <3>2, <3>3
  <2> QED
    BY <2>1, <2>2
<1>13. ASSUME ~Hidden, ~c.disturbed, c.cmd = "return_value"
       PROVE  c.places = {<<c.frame, ReturnValue>>}
  <2>1. Seen(c.height)
    BY <1>0, <1>4, <1>13, NotHidden
  <2>2. ShownIsAsked(c)
    BY <1>0, <1>3, <1>13 DEF Shown
  <2>3. OfReturn(c, id)
    BY <1>4, <1>13, <2>1, <2>2 DEF ShownIsAsked, Stopped
  <2> QED
    BY <1>1, <2>3 DEF OfReturn
<1>10. c.cmd # "stack_get" /\ c.cmd # "property_set"
  BY <1>7 DEF Kinds, Sized, Aside
<1> HIDE DEF c, id
<1>11. ASSUME ~Hidden', ~answered'.disturbed, answered'.cmd = "context_get",
              NEW fun \in FunctionsOf(answered.frame)'
       PROVE  /\ \A name \in Locals[fun] :
                    \E place \in {<<answered'.frame, name>>} \cup SpecialPlaces(name)' :
                       place \in answered'.places
              /\ \A place \in answered'.places :
                    \/ place = Exception
                    \/ \E name \in Locals[fun] :
                          place \in {<<answered'.frame, name>>} \cup SpecialPlaces(name)'
  <2>1. fun \in FunctionsOf(c.frame)
    BY <1>1, <1>2, <1>11 DEF FunctionsOf
  <2>2. Complete(fun)
    BY <1>2, <1>5, <1>8, <1>11, <2>1
  <2> QED
    BY <1>2, <1>a, <2>2
<1>12. ASSUME ~Hidden', ~answered'.disturbed, answered'.cmd \in Sized,
              answered'.context = 0 \/ (lastLocal' # "property" /\ pending' = << >>),
              NEW name \in answered'.names, NEW place \in answered'.places
       PROVE  place \in {<<answered'.frame, name>>, Nowhere} \cup SpecialPlaces(name)'
  <2>1. lastLocal' = lastLocal
    BY <1>1
  <2>2. OfFrame(c, id)
    BY <1>2, <1>5, <1>9, <1>12, <2>1
  <2>3. place \in MayShow(c.frame, id, name) \cup {Nowhere}
    BY <1>2, <1>12, <2>2 DEF OfFrame
  <2>4. MayShow(c.frame, id, name) = {<<c.frame, name>>} \cup SpecialPlaces(name)'
    BY <1>a
  <2> QED
    BY <1>2, <2>3, <2>4
<1>14. ASSUME ~Hidden', ~answered'.disturbed, answered'.cmd = "return_value"
       PROVE  answered'.places = {<<answered'.frame, ReturnValue>>}
  BY <1>2, <1>5, <1>13, <1>14
<1> QED
  BY <1>2, <1>10, <1>11, <1>12, <1>14 DEF AnsweredFromFrame

LEMMA AnsweredStep ==
    ASSUME ShownInv, GlobalsAreGlobal, Answered, [DataNext]_dataVars
    PROVE  Answered'
<1>0. /\ Typed /\ CallsInOrder /\ FramesInOrder
      /\ control = "command" => pending # << >>
  BY DEF ShownInv, CommandsInv, Overridden
<1>1. AnsweredFromFrame /\ (control # "prompt" => answered = NoAnswer)
  BY DEF Answered
<1>2. ASSUME \/ answered' = NoAnswer
             \/ UNCHANGED <<active, recorded, control, pending, lastLocal, answered>>
      PROVE  Answered'
  BY <1>1, <1>2, AnsweredBefore DEF Answered
<1>3. CASE Call \/ Return \/ StopScript \/ RunsWrapper
  <2>1. control # "prompt" /\ answered' = answered
    BY <1>3 DEF Call, Return, StopScript, RunsWrapper
  <2> QED
    BY <1>1, <1>2, <2>1
<1>4. CASE Resume
  BY <1>2, <1>4 DEF Resume
<1>5. CASE Eval \/ FeatureSet \/ UNCHANGED dataVars
  BY <1>2, <1>5 DEF Eval, FeatureSet, dataVars, Ghosts
<1>6. CASE StackGet
  BY <1>0, <1>6, AnsweredByStackGet DEF Answered, StackGet
<1>7. CASE Begins
  <2>1. PICK c \in Given : Begun(c)
    BY <1>0, <1>7, CommandsBegin DEF Begins
  <2> QED
    BY <1>2, <2>1 DEF Begun
<1>8. ASSUME NEW runsCode \in BOOLEAN, LookUp(runsCode) PROVE Answered'
  <2>1. control = "command" /\ answered' = answered
    BY <1>0, <1>8, LookUpIs
  <2> QED
    BY <1>1, <1>2, <2>1
<1>9. CASE EndCommand
  BY <1>9, AnsweredByEnd DEF Answered, EndCommand
<1>10. CASE PropertySet
  BY <1>0, <1>10, AnsweredByPropertySet DEF Answered, PropertySet
<1> QED
  BY <1>3, <1>4, <1>5, <1>6, <1>7, <1>8, <1>9, <1>10, DataSteps DEF Quiet

\* AnsweredFromFrame: a command that is not disturbed shows the variables of the frame that
\* stack_get shows at the depth it was given, or for a name that begins that of a special value
\* the value of the call that is stopped; and the return value alone, when that is asked for.
THEOREM AnswersAreOfTheFrame == DataSpec => []AnsweredFromFrame
<1> DEFINE Inv == ShownInv /\ GlobalsAreGlobal /\ Answered
<1>1. DataInit => Inv
  <2> SUFFICES ASSUME DataInit PROVE Inv
      OBVIOUS
  <2>1. Typed /\ Overridden /\ CallsInOrder /\ FramesInOrder
    BY DataStart
  <2>2. /\ DOMAIN pending = {} /\ pending = << >> /\ activeData = NoCall
        /\ answered = NoAnswer /\ control = "script"
    BY DEF DataInit
  <2>3. CommandsNest /\ Undisturbed /\ Shown /\ GlobalsAreGlobal
        /\ ReturnIsCurrent /\ ReturnIsShown
    <3>1. returned = NoCall
      BY DEF DataInit
    <3> QED
      BY <2>2, <3>1
         DEF CommandsNest, Undisturbed, Shown, GlobalsAreGlobal, ReturnIsCurrent, ReturnIsShown
  <2>4. Answered
    BY <2>2 DEF Answered, AnsweredFromFrame
  <2> QED
    BY <2>1, <2>3, <2>4 DEF ShownInv, CommandsInv
<1>2. Inv /\ [DataNext]_dataVars => Inv'
  <2> SUFFICES ASSUME Inv, [DataNext]_dataVars PROVE Inv'
      OBVIOUS
  <2>0. CommandsInv /\ Undisturbed /\ Typed /\ CallsInOrder /\ FramesInOrder /\ Overridden
        /\ ReturnIsCurrent /\ ReturnIsShown /\ (control = "command" => pending # << >>)
    BY DEF ShownInv, CommandsInv, Overridden
  <2>1. Typed'
    BY <2>0, TypedStep
  <2>2. CallsInOrder' /\ FramesInOrder'
    BY <2>0, StackStep DEF StackInv
  <2>3. Overridden'
    BY <2>0, OverriddenStep
  <2>4. CommandsNest' /\ Undisturbed' /\ Shown'
    BY <2>0, NestStep, UndisturbedStep, ShownStep
  <2>5. ReturnIsCurrent' /\ ReturnIsShown'
    BY <2>0, ReturnIsCurrentStep, ReturnIsShownStep
  <2>6. GlobalsAreGlobal' /\ Answered'
    BY <2>0, GlobalsStep, AnsweredStep
  <2> QED
    BY <2>1, <2>2, <2>3, <2>4, <2>5, <2>6 DEF ShownInv, CommandsInv
<1>3. Inv => AnsweredFromFrame
  BY DEF Answered
<1> QED
  BY <1>1, <1>2, <1>3, PTL DEF DataSpec
================================================================================
