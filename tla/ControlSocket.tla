------------------------------ MODULE ControlSocket ------------------------------
(***************************************************************************)
(* The control socket: programs on the same machine connect to a running    *)
(* script and ask for its state (ps) or signal it to connect to an IDE      *)
(* (pause).  The script looks at the socket between statements, but not     *)
(* more often than control_socket_threshold_ms.  A script that forks shares *)
(* the listening socket, under the parent's name, with its child.           *)
(***************************************************************************)
EXTENDS Integers, Sequences, FiniteSets, SequencesExt, FiniteSetsExt

CONSTANTS
    Peers,          \* the programs that connect
    Orders,         \* what they may write: "ps", "pause", and others which are errors
    Threshold,      \* control_socket_threshold_ms
    MaxClock,       \* bound on the time
    MaxStack        \* bound on the depth of the calls

Processes == {"parent", "child"}

VARIABLES
    peers,          \* of every peer: where its connection is, what it wrote, its answers
    backlog,        \* connections that were not accepted yet, first one first
    processes,      \* of every process: see Fresh
    now             \* xdebug_get_nanotime()

socketVars == <<peers, backlog, processes, now>>

\* A call, or its frame: its identity, and whether xdebug_observer_init() gave its function
\* handlers, as it does for the script itself while the control socket is active.
MainCall == [id |-> 1, handled |-> TRUE]

\* A process: what it does (at), with whom; calls: its engine's; frames: XG_BASE(stack);
\* observer: XG_BASE(observer_active); cached: what was decided for functions so far;
\* session: it has a client; signals: what pause asked for, to "connect" or to "break".
Fresh == [at |-> "absent", peer |-> "none", lastTrigger |-> 0, calls |-> <<MainCall>>,
          frames |-> << >>, observer |-> FALSE, cached |-> {TRUE}, session |-> FALSE,
          signals |-> {}]

\* The parent listens, and runs the main script.  Without a client the script's own frame was
\* not made and the observer was switched off, unless there is on-demand debugging.
SocketInit ==
    /\ peers = [p \in Peers |-> [at |-> "away", wrote |-> "nothing", answers |-> << >>]]
    /\ backlog = << >> /\ now = 0
    /\ \E client, onDemand \in BOOLEAN :
          processes = [q \in Processes |->
             IF q = "child" THEN Fresh
             ELSE [Fresh EXCEPT !.at = "code", !.session = client,
                                !.observer = client \/ onDemand,
                                !.frames = IF client \/ onDemand THEN <<MainCall>> ELSE << >>]]

-----------------------------------------------------------------------------
(* The peers, and the network.                                             *)

PeerConnects(p) ==
    /\ peers[p].at = "away" /\ \E q \in Processes : processes[q].at \notin {"absent", "gone"}
    /\ peers' = [peers EXCEPT ![p].at = "queued"] /\ backlog' = Append(backlog, p)
    /\ UNCHANGED <<processes, now>>

\* It writes before or after it is accepted, or it breaks the connection off.
Write(p) ==
    /\ peers[p].at \in {"queued", "taken"} /\ peers[p].wrote = "nothing"
    /\ \E order \in Orders \cup {"reset"} : peers' = [peers EXCEPT ![p].wrote = order]
    /\ UNCHANGED <<backlog, processes, now>>

-----------------------------------------------------------------------------
(* What the script does meanwhile.                                         *)

Code(q) == processes[q].at = "code"

\* Calls and frames are in the order in which their calls were made.
Youngest(s) ==
    IF s.frames # << >> /\ Last(s.frames).id > Last(s.calls).id
    THEN Last(s.frames).id ELSE Last(s.calls).id

\* xdebug_observer_init() decides once per function; the begin handler does nothing while the
\* observer is off.
CallFunction(q) ==
    /\ Code(q) /\ Len(processes[q].calls) < MaxStack
    /\ LET s == processes[q]
       IN \E h \in s.cached \cup {s.observer} :
             LET call == [id |-> Youngest(s) + 1, handled |-> h]
             IN processes' = [processes EXCEPT
                   ![q].cached = @ \cup {h},
                   ![q].calls = Append(@, call),
                   ![q].frames = IF h /\ s.observer THEN Append(@, call) ELSE @]
    /\ UNCHANGED <<peers, backlog, now>>

\* The frame is popped by the end handler, if the function has one and the observer is on;
\* xdebug_frame_belongs_to_call() keeps frames of other calls.
ReturnFunction(q) ==
    /\ Code(q) /\ Len(processes[q].calls) > 1
    /\ LET s    == processes[q]
           call == Last(s.calls)
           pops == call.handled /\ s.observer /\ s.frames # << >> /\ Last(s.frames) = call
       IN processes' = [processes EXCEPT
             ![q].calls = Front(@),
             ![q].frames = IF pops THEN Front(@) ELSE @]
    /\ UNCHANGED <<peers, backlog, now>>

\* fork(): the child has the parent's globals, and the socket.
Fork ==
    /\ Code("parent") /\ processes["child"].at = "absent"
    /\ processes' = [processes EXCEPT !["child"] = processes["parent"]]
    /\ UNCHANGED <<peers, backlog, now>>

\* xdebug_base_post_deactivate(); who is queued is gone when nobody listens any more.
Teardown(q) ==
    /\ Code(q)
    /\ processes' = [processes EXCEPT ![q] = [Fresh EXCEPT !.at = "gone"]]
    /\ IF \A other \in Processes \ {q} : processes[other].at \in {"absent", "gone"}
       THEN backlog' = << >> /\ peers' = [p \in Peers |->
               IF p \in ToSet(backlog) THEN [peers[p] EXCEPT !.at = "refused"] ELSE peers[p]]
       ELSE UNCHANGED <<backlog, peers>>
    /\ UNCHANGED now

Tick == now < MaxClock /\ now' = now + 1 /\ UNCHANGED <<peers, backlog, processes>>

-----------------------------------------------------------------------------
(* Dispatch.                                                               *)

\* xdebug_control_socket_dispatch() and the select() that it does: nobody is waiting, or
\* the process goes on to accept, whatever happens in between.
Dispatch(q) ==
    /\ Code(q) /\ now >= processes[q].lastTrigger + Threshold
    /\ processes' = [processes EXCEPT ![q].lastTrigger = now,
                                      ![q].at = IF backlog = << >> THEN "code" ELSE "accept"]
    /\ UNCHANGED <<peers, backlog, now>>

\* The listening socket blocks: when the other process was faster, this one waits.
Accept(q) ==
    /\ processes[q].at = "accept" /\ backlog # << >>
    /\ processes' = [processes EXCEPT ![q].at = "read", ![q].peer = Head(backlog)]
    /\ peers' = [peers EXCEPT ![Head(backlog)].at = "taken"]
    /\ backlog' = Tail(backlog)
    /\ UNCHANGED now

Rebuilt(s) == [s EXCEPT !.frames = s.calls]

\* The stack that ps needs is built when there is none.
WithStack(s) == IF s.frames = << >> THEN Rebuilt(s) ELSE s

PsReport(s) == [file |-> Head(WithStack(s).frames).id, success |-> TRUE]

PsKeeps(s) == WithStack(s)                     \* mutant: the stack is kept

\* And it is dropped again.
Ps(s) == IF s.frames = << >> THEN [WithStack(s) EXCEPT !.frames = << >>] ELSE s

PauseScript(s) ==
    LET seen == IF s.observer THEN s ELSE Rebuilt(s)
    IN [seen EXCEPT !.signals = @ \cup {IF s.session THEN "break" ELSE "connect"},
                    !.observer = TRUE]

Error == [file |-> 0, success |-> FALSE]

\* handle_command(): every command is answered.
Handle(s, order) ==
    CASE order = "ps"    -> [state |-> Ps(s), answer |-> PsReport(s)]
      [] order = "pause" -> [state |-> PauseScript(s), answer |-> [Error EXCEPT !.success = TRUE]]
      [] order \notin {"ps", "pause"} -> [state |-> s, answer |-> Error]

AfterReadEarly(p, answers) ==                  \* mutant: an early return
    IF peers[p].wrote = "reset" THEN peers[p]
    ELSE [peers[p] EXCEPT !.at = "closed", !.answers = answers]

\* The connection is closed, whether it could be read or not.
AfterRead(p, answers) == [peers[p] EXCEPT !.at = "closed", !.answers = answers]

\* read() waits for what the peer writes; then what it wrote is handled.
ReadOrder(q) ==
    /\ processes[q].at = "read" /\ peers[processes[q].peer].wrote # "nothing"
    /\ LET p       == processes[q].peer
           s       == [processes[q] EXCEPT !.at = "code", !.peer = "none"]
           handled == Handle(s, peers[p].wrote)
           reset   == peers[p].wrote = "reset"
       IN /\ processes' = [processes EXCEPT ![q] = IF reset THEN s ELSE handled.state]
          /\ peers' = [peers EXCEPT ![p] =
                AfterRead(p, IF reset THEN @.answers ELSE Append(@.answers, handled.answer))]
    /\ UNCHANGED <<backlog, now>>

SocketNext ==
    \/ \E p \in Peers : PeerConnects(p) \/ Write(p)
    \/ \E q \in Processes : \/ CallFunction(q) \/ ReturnFunction(q) \/ Teardown(q)
                            \/ Dispatch(q) \/ Accept(q) \/ ReadOrder(q)
    \/ Fork \/ Tick

SocketSpec == SocketInit /\ [][SocketNext]_socketVars

-----------------------------------------------------------------------------
(* Properties.                                                             *)

\* Whoever is accepted, by the parent or by the child, is held by the one process that
\* reads from it, and closed by it; with one answer, unless it broke the connection off.
\* Nobody else gets an answer.
OneAnswerEach ==
    \A p \in Peers :
        LET holders == {q \in Processes : processes[q].at = "read" /\ processes[q].peer = p}
        IN /\ Cardinality(holders) = IF peers[p].at = "taken" THEN 1 ELSE 0
           /\ Len(peers[p].answers) =
                 IF peers[p].at = "closed" /\ peers[p].wrote # "reset" THEN 1 ELSE 0

\* Calls that are open, and frames that were left.
Open(s) == ToSet(s.calls)
LeftOver(s, k) == s.frames[k] \notin Open(s)

\* Commands leave the recorded stack as the observer needs it.  While it is off there is none.
\* While it is on every open call that is observed has its frame, in the order of the calls;
\* the frames of calls that are over are those that pause built for functions without
\* handlers, which nothing pops, and those that such a frame covers.  And ps says of any
\* moment which script runs.
StackFitsObserver ==
    /\ \A q \in Processes : Code(q) =>
          LET s == processes[q]
          IN IF ~s.observer THEN s.frames = << >>
             ELSE /\ \A c \in Open(s) : c.handled => c \in ToSet(s.frames)
                  /\ \A k, m \in DOMAIN s.frames : k < m => s.frames[k].id < s.frames[m].id
                  /\ \A k \in DOMAIN s.frames : LeftOver(s, k) =>
                        \E m \in DOMAIN s.frames :
                           m >= k /\ LeftOver(s, m) /\ ~s.frames[m].handled
    /\ \A p \in Peers : \A k \in DOMAIN peers[p].answers :
          peers[p].wrote = "ps" => peers[p].answers[k].file = MainCall.id
=============================================================================
