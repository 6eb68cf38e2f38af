------------------------------- MODULE CommandLoop -------------------------------
(***************************************************************************)
(* The conversation of a DBGp session: packets that arrive in pieces, the   *)
(* buffer they are put together in, the commands that are answered at once, *)
(* later or by the end of the session, and the loop they come out of.       *)
(*                                                                         *)
(* Packet k of the client has k as its transaction id (or none).  On the    *)
(* wire it is two pieces, its text and the NUL that ends it.                *)
(***************************************************************************)
EXTENDS Naturals, Sequences, SequencesExt

CONSTANTS
    Commands,       \* kinds of packets that clients send
    MaxPackets,     \* how many
    MaxReceived,    \* pieces one recv() takes: DBGP_READ_BUFFER_SIZE
    MaxBuffered     \* pieces the buffer can hold: DBGP_MAX_PACKET_SIZE

Continuations == {"run"}                       \* cont = 1: run and the steps
Endings       == {"stop", "detach"}            \* cont = -1
PostMortem    == {"status", "stop", "detach"}  \* ... and others like status
Malformed     == {"parse error", "no id"}

VARIABLES
    packets,    \* what the client has sent: a sequence of Commands
    wire,       \* pieces on their way
    buffer,     \* context->buffer
    handled,    \* how many packets were taken out of it
    place,      \* "prompt", "script", "post mortem" (the loop of deinit) or "closed"
    status,     \* of the session
    last,       \* lasttransid (and lastcmd), 0 when it is not set
    answers     \* what was sent: a sequence of [id, status]

loopVars == <<packets, wire, buffer, handled, place, status, last, answers>>

\* xdebug_dbgp_init() has sent its packet and enters the loop.
LoopInit ==
    /\ packets = << >> /\ wire = << >> /\ buffer = << >> /\ handled = 0
    /\ place = "prompt" /\ status = "starting" /\ last = 0 /\ answers = << >>

Pieces(k) == <<<<k, "text">>, <<k, "nul">>>>
Ends(s)   == s # << >> /\ Last(s)[2] = "nul"

AtPrompt == place \in {"prompt", "post mortem"}

\* The client does not wait for answers.
SendPacket(kind) ==
    /\ Len(packets) < MaxPackets
    /\ packets' = Append(packets, kind)
    /\ wire' = wire \o Pieces(Len(packets) + 1)
    /\ UNCHANGED <<buffer, handled, place, status, last, answers>>

-----------------------------------------------------------------------------
(* Reading, in xdebug_fd_read_line_delim().                                *)

\* As long as what is buffered does not end in a NUL.
Receive(n) ==
    /\ AtPrompt /\ ~Ends(buffer) /\ n <= Len(wire)
    /\ Len(buffer) + n <= MaxBuffered
    /\ buffer' = buffer \o SubSeq(wire, 1, n)
    /\ wire' = SubSeq(wire, n + 1, Len(wire))
    /\ UNCHANGED <<packets, handled, place, status, last, answers>>

\* The client has closed the connection, or what it sent is more than fits.
Lose ==
    /\ AtPrompt /\ ~Ends(buffer)
    /\ buffer' = << >> /\ place' = "closed"
    /\ UNCHANGED <<packets, wire, handled, status, last, answers>>

TakenAll == buffer' = << >>                    \* mutant: the rest is forgotten

\* What is behind the first NUL stays.
Taken == buffer' = SubSeq(buffer, SelectInSeq(buffer, LAMBDA p : p[2] = "nul") + 1, Len(buffer))

-----------------------------------------------------------------------------
(* One turn of xdebug_dbgp_cmdloop(), with xdebug_dbgp_parse_option().      *)

Kind == packets[handled + 1]
Id   == handled + 1

Answer(id, s) == answers' = Append(answers, [id |-> id, status |-> s])

\* Out of the loop: the script goes on, or xdebug_dbgp_deinit() closes.  (After a
\* stop there is a bailout, but shutdown functions are run, and can break.)
Leave == place' = IF place = "post mortem" THEN "closed" ELSE "script"

Take(kinds) ==
    /\ AtPrompt /\ Ends(buffer) /\ Kind \in kinds
    /\ Taken /\ handled' = handled + 1
    /\ UNCHANGED <<packets, wire>>

\* A packet that cannot be parsed, or has no transaction id.
Refuse ==
    /\ Take(Malformed)
    /\ Answer(IF Kind = "no id" THEN 0 ELSE Id, "error")
    /\ UNCHANGED <<place, status, last>>

\* A command that there is none of.
Unimplemented ==
    /\ Take({"unknown"})
    /\ Answer(Id, "error") /\ Leave
    /\ UNCHANGED <<status, last>>

\* Any other command; after the script has ended only some are left.
Execute ==
    /\ Take(Commands \ (Continuations \cup Endings \cup Malformed \cup {"unknown"}))
    /\ last' = Id
    /\ IF status = "stopping" /\ Kind \notin PostMortem
       THEN Answer(Id, "error") /\ Leave
       ELSE Answer(Id, status) /\ UNCHANGED place
    /\ UNCHANGED status

ContinueUnnamed ==                             \* mutant: the id is not kept
    /\ Take(Continuations)
    /\ status' = "running" /\ Leave
    /\ UNCHANGED <<last, answers>>

\* Running is a status in which every command is available; it is answered when
\* the script stops or ends.
Continue ==
    /\ Take(Continuations)
    /\ last' = Id /\ status' = "running" /\ Leave
    /\ UNCHANGED answers

Stop ==
    /\ Take({"stop"})
    /\ last' = Id /\ status' = "stopped"
    /\ Answer(Id, "stopped") /\ Leave

\* The answer comes from xdebug_dbgp_deinit(), which does not go into its loop; the
\* loop's own finds the connection closed.
Detach ==
    /\ Take({"detach"})
    /\ last' = 0 /\ status' = "stopping" /\ place' = "closed"
    /\ Answer(Id, "stopping")

-----------------------------------------------------------------------------
(* The script.                                                             *)

BreakRunning ==                                \* mutant: the status stays
    /\ place = "script"
    /\ place' = "prompt"
    /\ Answer(last, "break") /\ last' = 0
    /\ UNCHANGED <<packets, wire, buffer, handled, status>>

\* xdebug_dbgp_breakpoint()
Break ==
    /\ place = "script"
    /\ status' = "break" /\ place' = "prompt"
    /\ Answer(last, "break") /\ last' = 0
    /\ UNCHANGED <<packets, wire, buffer, handled>>

\* xdebug_dbgp_deinit() at the end of the request
ScriptEnds ==
    /\ place = "script"
    /\ status' = "stopping" /\ place' = "post mortem"
    /\ Answer(last, "stopping")
    /\ UNCHANGED <<packets, wire, buffer, handled, last>>

LoopNext ==
    \/ \E kind \in Commands : SendPacket(kind)
    \/ \E n \in 1..MaxReceived : Receive(n)
    \/ Lose \/ Refuse \/ Unimplemented \/ Execute \/ Continue \/ Stop \/ Detach
    \/ Break \/ ScriptEnds

LoopSpec == LoopInit /\ [][LoopNext]_loopVars

-----------------------------------------------------------------------------
(* Properties.                                                             *)

\* No answer names a command that was not handled, and the loop waits only in a
\* status in which the script stands still.
LoopTypeOK ==
    /\ packets \in Seq(Commands) /\ handled \in 0..Len(packets) /\ last \in 0..handled
    /\ place \in {"prompt", "script", "post mortem", "closed"}
    /\ status \in {"starting", "running", "break", "stopping", "stopped"}
    /\ \A k \in DOMAIN answers : answers[k].id \in 0..handled
    /\ place = "prompt" => status \in {"starting", "break"}

\* Nothing the client sent is lost or read twice, in whatever pieces it arrives:
\* in the buffer and on the wire are the packets that were sent and not handled yet,
\* each whole and in its turn.
StreamIsWhole ==
    place # "closed" =>
       LET stream  == buffer \o wire
           waiting == Len(packets) - handled
       IN /\ Len(stream) = 2 * waiting
          /\ \A k \in 1..waiting : SubSeq(stream, 2 * k - 1, 2 * k) = Pieces(handled + k)

\* When the session waits for a command, each earlier one with an id has had an
\* answer; and without an unknown command or a stop among them, exactly one each,
\* in the order of the commands, though some answers come from the loop, some
\* from the next break and some from the end of the session.
AnswersMatchCommands ==
    AtPrompt =>
       LET done  == SubSeq(packets, 1, handled)
           Shown == [k \in 1..handled |-> IF done[k] = "no id" THEN 0 ELSE k]
           ids   == [k \in DOMAIN answers |-> answers[k].id]
       IN /\ ToSet(Shown) \subseteq ToSet(ids) \cup {0}
          /\ {"unknown", "stop"} \cap ToSet(done) = {} => ids = Shown
=============================================================================
