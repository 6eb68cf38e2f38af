# A TLA+ model of PHP Debugger

PHP Debugger is a PHP extension (a fork of Xdebug reduced to its step debugger). It
runs inside a PHP process, connects to an IDE over a socket and speaks DBGp with it:
the IDE sets breakpoints, steps, reads variables. This directory holds TLA+ modules
translated from its C code, the TLC configurations that check them, and theorems
checked by TLAPS.

The C code is sequential: a request is one thread, and while the script is paused the
command loop blocks on the socket. What makes it hard is that *everything around it* is
out of its hands. The script calls, returns, throws, forks and switches fibers in any
order; the client may set, step, stop, detach or vanish at every prompt; connections
answer or do not; requests follow one another in the same process; and to cost nothing
when nobody debugs, the extension switches its own eyes off and on again in a dozen
places. The properties are about what survives all that.

## Inventory

| Part | Code | State | Operations | What makes it correct |
|---|---|---|---|---|
| Session and connection | `src/src/debugger/com.c`, `handler_dbgp.c` (init, deinit, cmdloop) | socket, `remote_connection_enabled`, `_pid`, `early_connection`, `detached`, `do_connect_to_client` | start at RINIT, at the first frame, at a statement, on an error, in `xdebug_break()`; re-connect in a forked child; lose, detach, stop, end | talks only on its own open connection; ends with its request; after `detach`, left alone until something asks anew; a signalled connection is really attempted |
| Instrumentation | `xdebug.c` (RINIT, statement handler), `base.c` (observer) | `observer_active`, `statement_handler_enabled`, EXT_STMT and hooks, the engine's cache of observer handlers | switched on by sessions, `xdebug_break()`, `connect_to_client`, `pause`; off by RINIT, the first frame, the end of a command loop, a failed on-demand connection | a session that waits for something sees the script |
| The debugger's stack | `base.c` | `XG_BASE(stack)` | push and pop by observers, rebuild from the engine's frames | what the client is shown is what is really open |
| Fibers | `base.c` 797–892 | a stack per fiber, `next_stack` | create, switch, remove | steps are not confused by switches |
| Step commands | `handler_dbgp.c` 1360–1404, `debugger.c` 242–275 | `do_step`, `do_next`, `do_finish`, level, stack and number of the origin | step_into, step_over, step_out, run; checks at statements and returns | a step never stops inside what the function called |
| Breakpoints | `handler_dbgp.c` 703–1260, `debugger.c` 103–139, 597–679 | ids, the list of line breakpoints, hashes of function and exception breakpoints, hit counts | set, get, update, remove, list; resolve; hit | an id means one breakpoint; hits are counted once; nothing stops that cannot be removed |
| Resolving lines | `handler_dbgp.c` 3002–3147, `debugger.c` 974–1187 | the map of breakable lines | at compile time, and on `breakpoint_set` | the nearest breakable line of the innermost function |
| Command loop and parser | `handler_dbgp.c` 2342–2557, `lib/cmd_parser.c` | the receive buffer, the last command | read a line, parse, dispatch, answer | no byte is lost or read twice; one answer per command; options arrive as they were written |
| Data commands | `handler_dbgp.c` 1262–2337 | options of a session, the active data and symbol table | eval, property, context, source, feature; the return value or exception of a stop | the frame that was asked for is the one shown; what a command overrides comes back |
| Start decision | `com.c` 748–1005, `lib/lib.c` 282–610 | settings, trigger, the session cookie | at RINIT and at the first frame | both places decide alike; a session stays over requests until it is stopped; XDEBUG_IGNORE wins |
| Control socket | `base/ctrl_socket.c` | the socket, the time of the last poll | ps, pause | `pause` leads to a pause; every peer has its answer; the stack that either builds is one the observer can go on with |
| FrankenPHP hooks | `debugger/frankenphp.c` | none of its own | activate and deactivate around each request of a worker | requests do not inherit from one another |
| Path maps | `lib/maps/` | maps from remote to local, and back | read map files, map a place, map it back | a search finds what was mapped; a breakpoint is shown where it was set; a later file changes no earlier rule |
| Host discovery, sockets | `com.c` 65–624, `ip_info.c` | the socket, `early_connection`, `connected_hostname` | dial with a time-out, fall back | no descriptor is lost; the client reported is the one connected |
| Variable export | `lib/var.c`, `lib/var_export_xml.c` | the runtime's pages | show a value's children under full names; find a value by such a name | a name leads back to what it was shown for; pages show every child once |
| Log, XML, containers, compatibility | `lib/` | containers | | used through what they promise |

Interaction: the engine calls the observer (`xdebug_execute_begin`/`_end`), the
statement handler and the error hooks; these start sessions and call
`xdebug_dbgp_breakpoint()`, which runs the command loop *inside* the handler. The
commands change the flags that the handlers read when the loop returns. All share the
process's globals (`XG_BASE`, `XG_DBG`); there are no locks and no threads.

## Modules

| Module | Models | Extends or uses |
|---|---|---|
| `DbgpSession` | sessions, connections, instrumentation, the stack, across requests | |
| `MCDbgpSession` | five configurations for TLC | `DbgpSession` |
| `SessionHistory` | the session with its past: was one asked for since the last detach | `DbgpSession` |
| `MCSessionHistory` | six configurations for TLC, those of `MCDbgpSession` and one more | `MCDbgpSession`, `SessionHistory` |
| `DbgpSessionProofs` | theorems about `DbgpSession` and `SessionHistory` | these, `TLAPS` |
| `SteppingProofs` | theorems about `Stepping` | `Stepping`, `ListLemmas` |
| `BreakpointsProofs` | theorems about `Breakpoints`, and that it implements the table | `Breakpoints`, `ListLemmas` |
| `LineBreakpointsProofs` | theorems about `LineBreakpoints` | `LineBreakpoints`, `ListLemmas` |
| `DataCommandsProofs` | theorems about `DataCommands` | `DataCommands`, `ListLemmas` |
| `PartsProofs` | theorems about `ControlSocket`, `CommandLoop`, `StartDecision` and `Connecting` | these, `ListLemmas` |
| `TextProofs` | theorems about what is read: `PathMaps`, `CommandParser`, `VariableExport` | these, `ListLemmas` |
| `ListLemmas` | what the operators on lists and sets return, for all the proofs | |
| `BreakpointTable` | abstract: what the breakpoint commands promise | |
| `Breakpoints` | ids, list, hashes, commands, hits | implements `BreakpointTable` |
| `MCBreakpoints` | attributes and keys for TLC | `Breakpoints` |
| `Stepping` | step commands over stacks and fibers | |
| `MCStepping` | for TLC | `Stepping` |
| `LineBreakpoints` | resolving lines, and the marks of frames | |
| `MCLineBreakpoints` | a script for TLC | `LineBreakpoints` |
| `Pieces` | a text put together from pieces, as `CommandParser` and `VariableExport` need it | |
| `PathMaps` | map files, rules, and the lookups in both directions | |
| `CommandParser` | the state machine over a command's characters | |
| `CommandLoop` | packets, buffer, dispatch and answers | |
| `Connecting` | finding the host and dialling it | |
| `StartDecision` | triggers, secrets, session cookies over requests | |
| `VariableExport` | names of children, the way back, pages | |
| `DataCommands` | frames, overrides and code run inside commands | |
| `ControlSocket` | peers, polling, `ps`, `pause`, a fork | |
| `MCParts` | values for TLC, one of eight parts in each behaviour | `PathMaps`, `CommandParser`, `CommandLoop`, `Connecting`, `StartDecision`, `VariableExport`, `DataCommands`, `ControlSocket` |

### DbgpSession

`at` is the place the C code has reached: `"php"` while the engine runs, the name of the
caller of `xdebug_dbgp_cmdloop()` while it reads commands, or the rest of a handler
after such a loop. So a handler is cut exactly where it hands control to the client,
and everything between two cuts is one action. `After` says where a loop returns to;
`stop` never returns, it bails out (`phase = "bail"`), and the engine ends the calls
that are open.

| Variables | Code |
|---|---|
| `conf`, `trig` | ini settings and SAPI; what the request asks for: nothing, a session, or XDEBUG_IGNORE |
| `phase` | of the request: idle, a parked worker, running, bailing out, shutdown functions, over |
| `socket`, `enabled`, `owner`, `early` | `context.socket`, `remote_connection_enabled`, `remote_connection_pid`, `early_connection` |
| `detached`, `bps` | `detached`; the kinds of which the three lists hold a breakpoint |
| `doConnect`, `doBreak`, `pending`, `stepping` | `do_connect_to_client`, `do_break`, `pending_breakpoint`, `do_step`/`do_next`/`do_finish` |
| `observer`, `stmt`, `hooks` | `observer_active`, `statement_handler_enabled`, EXT_STMT and hooks installed |
| `calls`, `stack`, `cached` | the engine's frames and whether they are observed; `XG_BASE(stack)`, each frame with its caller; the engine's cached decisions for functions |

Actions are named after commands, handlers and hooks; the comment over each, and the
`map` of `PROJECT.json`, name the C function. `InitDebugger` is `xdebug_init_debugger()`
with the connection attempt as a choice, and with the rule that an early attempt is
taken as it is. After `detach` the lists are freed and read; the model lets the test
come out either way.

A function's cached observer decision is per function in the engine; the model has a
set of the decisions taken so far, and a call uses any of them or the one taken now.
Whether a step over or out is due is open here and settled in `Stepping`; which line
breakpoint is hit is settled in `Breakpoints`.

`SessionHistory` adds one history variable, `asked`: since the client last detached, a
connection was signalled, the script broke into the debugger, or there was an error that
starts a session. `DetachLasts` says that there is no other way back to a session, whatever
the request once asked for. Within an ordinary request `early_connection` already keeps the
first frame from connecting again; the test of `detached` counts in a worker, whose request
may run several top-level scripts. What `detach` does not take back is in `StillAsked`: a
connection that is signalled and not made yet, and, in trigger mode, the second attempt of
the statement handler, from whose first session the client detached.

### Breakpoints and BreakpointTable

`admin` maps ids to a kind and a *key* (a file and line, or a name), and `lines` and
`named` hold the breakpoints. As in the code, a command goes from the id to the key and
searches the list for the key, with the comparison of names over the length of the
breakpoint's own (`Prefix`), and is left with the last breakpoint if it finds none.
`BreakpointTable` is what a client has in mind: a table from ids to breakpoints. `Table`
maps one to the other, and `ImplementsTable` says every step of `Breakpoints` is one of
the table, as long as clients do not use `update -n` and do not set an exception
breakpoint twice, and no file name is a prefix of another. Without these restrictions
it does not hold; see the findings.

### Stepping

Each fiber has a stack; `step` is the step that was given with the level, number and
stack of its origin; `origin` remembers the frame for the properties. `why` is why the
script stands at a prompt. A statement makes at most one stop: a signalled break, then
the step, then a line breakpoint. Returns may stop twice, at a breakpoint and for the
step. A suspended fiber that is destroyed is resumed by the engine to end, which is an
ordinary switch here. `StepOutSkipsCallees` speaks of the fiber in which the step was given:
elsewhere the code compares levels of different stacks.

### LineBreakpoints

`Functions` is the list of `breakable_lines_map` for one file; `Resolved` is
`line_breakpoint_resolve_helper()`, with the two scans as recursive functions whose
first probe is unconditional, as in the `do` loops; lines count from 1. A frame is marked when it is entered
(`HasLineBreakpoints`, from the lines the breakpoints have then) or when a breakpoint is
set while it is on the current stack (`Marked`). `MarksHideNothing` says that the marks
lose nothing, with one exception that is in the code: `breakpoint_set` marks the frames
of the current stack only, so a fiber that is suspended at the time runs past the
breakpoint in the functions it is in, and `breakpoint_update -n` marks none, so that a
breakpoint is not seen by the calls that were open when it was moved there. The history
field `unseen` names exactly those. `moved` is history too: a breakpoint that was resolved
when it was moved is still taken to be, at a line that may not break, and no later
inclusion resolves it.
The scans are checked against a definition by sets (`ResolvedToNearest`,
`CompiledIsResolved`); of two equal ranges around a line the one compiled first is taken,
also if the line can break in the other only. Hits, conditions and removed ids are in
`Breakpoints`.

### PathMaps

The directories around the script are scanned one after the other, each with any number of
map files (`NextDirectory`, `OpenMapFile`), which are read line by line (`ReadLine` and
the kinds of line). The rules of a file that ends without an error are copied into the map
from remote to local and then, reversed, into the other (`EndOfFile`), in the order of a
hash table, which is any order; what was copied before a failure stays.
`ValidRange`, `ValidElement` and `Corresponds` are the checks of a rule, in the order of
their errors, and `Follows` is the check that a rule's lines come after those of the rule
before. A path is a sequence of names and "/", so that "directory", "prefix" and "joins"
can be said. The lookup is by the whole path, with the binary search over ranges, and else
by its directories, the longest first.
`SearchMissesNothing` compares the search with a definition by quantifiers,
`BreakpointsShownWhereSet` goes from a local line to the remote and back. Both hold only
for files without `SKIP` ranges, which the code exempts from the order (parser.c 641); the
properties say so. `EarlierRulesStand` says that copying a file changes nothing that an
earlier one said.

### CommandParser and CommandLoop

`CommandParser` is `xdebug_cmd_parse()` with one action per state, fed by a client that
writes any options in any order, quoted or not. `Sound` says which options a client can
expect to come through: plain values without spaces, quoted values, data at the end.

`CommandLoop` has two pieces for every packet, its text and the NUL that ends it, and lets
the wire deliver up to `MaxReceived` pieces in a read. `Take` takes a packet from the buffer, refuses or executes
it, and `Answer` is what is sent with the id of `lastcmd`. A continuation command has no
answer of its own: the next break, or the end, answers it. `AnswersMatchCommands` pairs
the two lists up, except where the code repeats an id: after an unknown command, and at
`stop`.

### Connecting

`Try` begins with a host, `Lookup`, `Socket`, `Connect` and `ConnectFails` go through its
addresses, `Result` returns to `xdebug_init_normal_debugger()`, which may fall back from a
discovered host to the configured one. `descriptors` counts sockets that are open, and
`headerCut` says that the comma of a discovery header is overwritten. The outcomes of
getaddrinfo(), socket(), connect() and poll() are choices.

### StartDecision

A request carries parameters; the browser carries the cookie. `InGlobals`, `InTrackVars`
and `InEnv` are the searches, in the order of the code and under the old and new names;
`StartsSession` and `TriggerOf` the two ways to ask for a session, with shared secrets.
`Rinit` and `AtStartup` decide; on the command line headers count as sent in between, and
the second decision would come out differently if the result of the first were not cached
(com.c 943). `SessionSticks` speaks of several requests of one browser.

### VariableExport

A tree stands for a stop: the variables of the frame that was asked for and the statics of
its class, the class in whose scope the script is executed, and the special values of the
stop, which are what a call returns, the exception that is thrown, and the intermediate value
of an expression. Going down, `Offer` is one of the values that `context_get` shows, and
`MemberName` and `ElementName` build the full name of a child; going back, `Step` and `Fetch`
are the parser and the search of `xdebug_get_php_symbol()`, with their states and their loss
of characters (`AddSlashes` and `StripSlashes` are on the way). Special values come first at
the root of a name, and their names are compared over the length of the name that is looked
up (`StartsName`). `context_get` looks a variable up by its name as well, so that `$_` at a
return stop is shown as the return value already, and comes back as what it was shown as.
A leading "::" is resolved in the scope that is executed and not in the class of the frame;
outside of any class that is a fatal error of the script (`NoScope`). `NamesComeBack` says
that what is shown comes back, for names that are `Sayable`, and statics of the executed
class: the ones left out are listed under "Deviations". `Slice` is a page; `PagesCoverOnce`
says that the pages of a parent, got one after the other whatever came in between, show each
child once.

### DataCommands

`active` are the engine's calls and `recorded` those with a frame: code that a command runs
from inside of a statement has a call and no frame. `activeData` is the identity of a call
that may be over. A command is cut where it may run PHP code (`RunsAccess`,
`RunsWrapper`), which may call, return and stop, so that other commands come in the middle
of it. A stop is at a statement, at a return, whose value is in `returned`, or at an
exception (`thrown`); leaving a stop takes these away, those of an outer stop too, as
`xdebug_dbgp_breakpoint()` clears the return value when it ends. A name at the root finds the
return value or the exception first, if it begins the name of that (`Lookups`). At depth 0 of
a return stop a client that included return values is shown nothing else
(`GetReturnValue`), and the pointers stay what an earlier command made them.

`AnsweredFromFrame` is stated where the code can keep it: all calls have frames, and no
command was given in the middle; and it allows for the special values (`SpecialPlaces`), but
only under the names that begin theirs, and only those of the call that is stopped.
`SettingsComeBack` is not so restricted.

Simplified: `thrown` is chosen at the stop, though the client sets
`virtual_exception_value` before it; the engine runs no code while an exception is thrown,
which is a rule of the engine; after a return stop the script may do anything, where in fact
the call returns. The intermediate value is left to `VariableExport`: it is shown before the
pointers are touched and cannot be looked up.

### ControlSocket

A process looks at the socket when the threshold is over (`Dispatch`), and then accepts,
which can block when the other process of a fork was faster, and reads, which blocks until
the peer writes. `CallFunction` takes the decision for a function as `xdebug_observer_init()`
does, with or without handlers according to `observer_active` at its first call, or uses one
that was taken before (`cached`); only a call with handlers pushes and pops its frame, and
only while the observer is on. `ps` builds the stack when the observer has none, and drops it
again; `pause` builds it and switches the observer on, so that it has frames of functions
without handlers, which nothing pops (finding 2). `StackFitsObserver` says how far the
stack can be trusted in spite of that: every open call with handlers has its frame, all are
in the order of the calls, and a frame of a call that is over is one of those, or below one.
The script itself has handlers, as `observer_active` is set at RINIT. A frame is recognised by
the call it belongs to (`xdebug_frame_belongs_to_call()`), for which identities stand here.
Whether there is a session stays as it is, and the observer stays on once it is on: what a
client does is in `DbgpSession`.

## Runs

| Run | Result | Shows |
|---|---|---|
| `session` | passes, 1,747,043 states | six configurations together, one of them a worker, two nested calls, one kind of breakpoint at a time; also that after a detach no session begins that nothing asked for |
| `session_live` | passes, 173,685 states | prompts lead back to the script |
| `breakpoints` | passes, 29,876 states | ids lead to their breakpoint; refinement of `BreakpointTable` |
| `stepping` | passes, 4,072,781 states | steps over calls, exceptions and two fibers |
| `line_breakpoints` | passes, 1,625,622 states | marks of frames, and the line a breakpoint resolves to |
| `parts` | passes, 1,389,067 states | path maps, parser, command loop, connecting, start decision and export; that commands show the frame they were asked for and bring back what they override; one answer for each peer of the control socket, and the stack that `ps` and `pause` leave |
| `worker_blind`, `stale_frames`, `pause_lost`, `ignore_lost`, `renumbered`, `exception_twice` | violations | the findings |

**Bounds.** `MaxDepth = 2` lets a callee be entered, observed or not, while its caller
is open, which is where frames go stale; `MaxFrames` caps the stack with the stale
frames. `MaxKinds = 1`: no guard asks for two kinds at a time, only whether there is
any. All safety properties of `session` were also checked over every configuration of
`ConfSpace` at depth 1 (5.4 million states). `Breakpoints` has three ids over two lines
and two named keys: enough for one breakpoint between two others in the list, for two
that resolve to one line, and for one of each kind; the attributes are those of a
temporary, conditional breakpoint that stops at its second hit, and updates may disable
it and enable it again. In `Stepping` five calls on stacks of three frames and two
fibers let a function recurse, a fiber start another and each resume the other.
`LineBreakpoints` has a script with a function and a closure that share their lines, so
that ranges nest and tie, one line for each outcome (the line itself, a previous and a
following one), and a `ScanRange` of 3 (5 in the code) that the following line just
reaches; stacks of two frames, one fiber, two breakpoints, one of which at a time is moved,
once, to a line that is not its own.

`parts` holds eight modules that share no state: `part` chooses one at the start and the
others stay as they begin, so that the state space is the sum of theirs and each property
is checked as if it had a run of its own. Its bounds:

- `PathMaps`: three lines in all files together, out of fourteen rules and two prefixes, over
  five line numbers; enough for a rule that overlaps another, one that reverses onto the
  same path, and one in between, in one file or several.
- `CommandParser`: three options of three letters, one of them "-", with values that are
  empty, have spaces, look like an option, or hold a quote and a backslash.
- `CommandLoop`: three packets, at most three pieces received in one read and four buffered: a
  packet can be split, follow another, fill the buffer, and wait over a break.
- `Connecting`: two addresses for each host, three calls that connect, each way to find the
  host.
- `StartDecision`: eight requests, of which any sequence is served: every state of the
  cookie is reached, so that nothing more comes of longer ones.
- `VariableExport`: pages of three children, depth 2, four pages; a value has eleven keys, so
  that the last page is not full. Nine stops: in a function, in a static method of the class
  that is executed, of another, or called from a function; a return with and without its value
  shown, an exception, and variables whose names begin those of the special values.
- `DataCommands`: three calls of the script and of a function that has a variable of the same
  name, and a command within a command, of which the inner one runs no code: disturbing and
  being disturbed are both reached. A client asks for `$_`, whose name begins those of the
  special values and which only the script has; the other variable is shown by `context_get`.
- `ControlSocket`: two peers, which may be exchanged (`PeerSymmetry`: no action or property
  names one), two processes, a clock to 2 with a threshold of 1, and three calls or frames at a
  time, so that a call with handlers can be above and below one without.

The run ends in states without a step when a part is done, hence `CHECK_DEADLOCK FALSE`.
Deadlock is checked everywhere but in `parts` and in `stepping`, where the main program has
returned and the bound on calls is reached.

**Fairness** (`session_live`). The C code goes on by itself (weak fairness of
`Handlers`: the rest of a handler after a loop). A client that is shown a prompt answers
with *some* command that ends the loop, or goes away: the loop has no time-out, so
without this a session may pause for ever, which is what a debugger is for. No fairness
is assumed of the script or of connections: `PromptLeadsBack` is about the loops the
extension itself starts one after the other.

## Findings

Each is a run that TLC finds violated, with the line it contradicts in `PROJECT.json`.

1. `worker_blind`: in a FrankenPHP worker a session that ends with nothing to wait for
   leaves the statement handler off, and later requests with a trigger never connect.
2. `stale_frames`: a function that is first called while the observer is off, and calls
   `xdebug_break()`, stays on the debugger's stack after it has returned.
3. `pause_lost`: after a failed early connection, `pause` and
   `xdebug_connect_to_client()` signal a connection that is never attempted.
4. `ignore_lost`: in trigger mode XDEBUG_IGNORE does not stop a signalled connection.
5. `renumbered`: after `breakpoint_update -n`, the id leads to another breakpoint.
6. `exception_twice`: a second breakpoint on an exception replaces the first, and ids
   can lead nowhere.

## Deviations

While modelling, these were met as well. They are in the modules as the code has them, and
a property that could not hold because of one excepts it by name.

- Path maps: an error in the middle of copying rules leaves the first ones in the maps,
  though parser.c 865 says that there are no modifications; `SKIP` ranges need not be in
  order, so that the binary search can miss a range; a range from 0 stands for the whole
  file; in the reverse map the lines of one file replace those of another.
- Parser and loop: a packet that has arrived is not read while one behind it is incomplete;
  packets that arrive together share the limit of 64 K; `stop` is answered twice; after an unknown command the next break answers under an earlier id.
- Connecting: an early connection of a cloud is reported as there but never made; a
  signal during poll() counts as an error; a Unix socket leaves the reported host name as
  it was; a header that names a URI is not followed by the next header.
- Start decision: a `SESSION_STOP` is not honoured while no client is connected, as the
  observer is off; a start parameter with an empty value removes the cookie.
- Export: a property whose name has a ':' and is not in braces, or begins with '>', and a
  key with a null byte and an octal digit after it do not come back; nor does a static
  property of a class other than the one that is executed, as "::" is resolved with
  `ZEND_FETCH_CLASS_SELF` (var.c 772), which ends the script outside of any class; nor the
  intermediate value, which `context_get` shows under a name that nothing looks up. At a
  return stop, or one at an exception, a variable whose name begins that of the special value
  (`$_`, `$__`, `$__R`) is shown as that value (var.c 373, 383).
- Data commands: `-c 1` changes the table only, so that a local of the frame used before is
  found first, and `property_set -c 1` assigns in the frame; commands given in the middle
  of `context_get` make the rest of its variables look uninitialized; `feature_set` given in
  the middle of `property_get` is undone by it; `eval` sets `breakpoints_allowed`
  whatever it was; at a return stop `context_get` may show the return value alone, and leaves
  the pointers to an earlier command (handler_dbgp.c 2121); a stop in code that a command runs
  takes the return value of the outer stop away (handler_dbgp.c 2928).
- Control socket: frames that `pause` builds for functions without handlers stay, see finding
  2; of two processes that share it, one can wait in accept() for a peer that
  the other took; a peer that writes nothing holds the script in read().

## Proofs

Every theorem is about a specification of one module alone, for every value of its
constants: any number of fibers, breakpoints, peers, addresses or packets, any script,
any depth. Each comes from an inductive invariant: the property together with what it
takes for a step to keep it. `TypeOK` is part of it everywhere and is not repeated below.
The assumptions on constants are the `ASSUME`s of the modules, which TLC evaluates in the
runs; except where one is named they are types.

| Module | Theorem | States |
|---|---|---|
| `DbgpSessionProofs` | `TypeCorrect` | `TypeOK` |
| | `LoopOwnsItsConnection` | commands are read only from an open connection of this process |
| | `NoSessionOutlivesItsRequest` | no session is alive between requests |
| | `DetachingLasts` | after a detach no session begins that nothing asked for |
| | `SessionsSeeTheScript` | a session that waits for something finds the script instrumented |
| | `OnDemandFramesAreExact` | with on-demand debugging the stack is that of the calls |
| `SteppingProofs` | `SteppingTypeCorrect` | `TypeOK` |
| | `StepOverEnds` | a step over does not wait for a stack that is gone |
| | `StepOverSkips`, `StepOutSkips` | steps do not stop in what the function called |
| `BreakpointsProofs` | `BreakpointsTypeCorrect` | `TypeOK` |
| | `IdsLeadToTheirOwn`, `NothingIsOrphaned` | an id is one breakpoint, a breakpoint has an id |
| | `TableIsImplemented` | `Breakpoints` implements `BreakpointTable` |
| `LineBreakpointsProofs` | `LinesTypeCorrect` | `TypeOK` |
| | `ResolvedLinesAreNearest`, `CompilingResolves` | the scans find the line that the definition by sets has |
| | `NothingIsHidden` | marks hide no breakpoint but those named above |
| `DataCommandsProofs` | `SettingsAreRestored` | what commands override comes back, however they nest |
| | `AnswersAreOfTheFrame` | a command shows the frame of its depth |
| `PartsProofs` | `PeersAreAnswered`, `CommandsKeepTheStack` | `OneAnswerEach`, `StackFitsObserver` of the control socket |
| | `LoopTypeCorrect`, `StreamStaysWhole`, `CommandsAreAnswered` | the properties of the command loop |
| | `BothDecisionsAgree` | RINIT and the first user code decide alike |
| | `SessionLasts` | without secrets a browser's session lasts from a start to a stop |
| | `ConnectingTypeCorrect` | a session has its socket, a header is whole again |
| | `NoDescriptorIsLost` | no socket stays open but the one in use |
| | `ReportedClientIsConnected` | the client that is reported is the one that is connected |
| `TextProofs` | `MapsTypeCorrect` | `MapsTypeOK` |
| | `EarlierFilesStand` | no map file changes what an earlier one said |
| | `SearchIsComplete` | the binary search finds every line that a range covers |
| | `BreakpointsComeBack` | a breakpoint mapped to a remote line is shown where it was set |
| | `ParserTypeCorrect` | `ParserTypeOK` |
| | `SoundIsUnderstood` | a line whose options are sound arrives as it was meant |
| | `FirstOptionArrives` | the option written first arrives, whatever follows |
| | `NamesAreReadBack` | a full name leads back to the child that it was shown for |
| | `PagesShowAll` | the pages of a value show every child once, in their order |

**DbgpSession.** `SessionInv` holds

- `CallIsOpen`: the rest of a return handler runs between calls that are still open, so
  that popping one is defined;
- `LoopOwnsConnection` itself;
- `ActiveIsOpen`: a session that is enabled has an open socket, also in the instant
  after a fork, when it is the parent's. `LoopOwnsConnection` excepts that instant, so
  alone it would not carry over the step that leaves it;
- `QuietBetweenRequests`: between requests the code is in no handler but the end of the
  session, which is why an ended request has no session.

`TypeInit` and `TypeStep` carry `TypeOK`, with lemmas for the parts that several
actions share (`InitDebuggerType`, `LeaveLoopType`, `PushPop`, `CallEnds`,
`RebuiltType`); `InvInit` and `InvStep` carry the rest, one step per action, with
`InitDebuggerOwns` (what a connection attempt leaves) and `LoopIsLeft` (what the end of
a loop leaves).

`HistoryInv` is for `DetachingLasts`. `LeftAlone` adds to the property what could still lead
to a session: as long as nothing asked, no connection is signalled and no second attempt is
due. `DetachLeaves` says so of the state after `detach`, and `LeftAloneStep` that no other
step starts a session from there: of the places that call `xdebug_init_debugger()` each is
closed by `detached`, by these two, or asks.

`SightInv` is for `SessionsSeeTheScript`. The property speaks of sessions that await
something; the switches are turned where nobody awaits anything, so the invariant says
what each of these places leaves: `ObserverKept` and `SwitchedTogether` how the two
switches go together, `PromptSees` that every prompt but the first one of an on-demand
session has both on, `ConnectAsked`, `PlaceInRequest` and `EarlyTried` who can have started
a session at all. `FramesInStep` is for the frames: with the observer never off every call
is observed, and the stack is one frame short only while one is entered.

**Connecting.** `SocketInv` holds the first two properties of the table with

- `AddressIsLeft`: while addresses are tried there is one left, so that counting them down
  stays in range;
- `CallsAreCounted`: before the first call nothing is open, which is why the early
  connection may begin;
- `SocketHasOwner`: a socket that is open is that of a session or of an early connection
  that waits for one. An attempt therefore never begins with an open socket; if one did,
  its result would overwrite the socket and lose the descriptor.

`SocketStep` has one step for each action, each in two halves: what is counted
(`CountsFollow`, `CountsAtRest`, `FailedCounts`) and whose the socket is
(`WholeIsKept`, `FailedHasNoOwner`); `ResultIsKept` and `AddressFails` say how a host
and an address fail. `HostInv` follows the name that is reported through the fall-backs
(`TriesHost`, `TriedInTheEnd`). `HeadersAssumption`: no host has the name that stands for
none.

**Stepping.** A step over compares the level and the stack of its origin. `StepRemembersOrigin`
says that these are those of the frame it was given in as long as that has a stack, and
`ResumersWait` that the fibers form a chain to the main program, each waiting for one: a
fiber that ends goes back to one that has not ended, and the step with it
(`StepOverEnds`). `StacksAreBounded` keeps a level within its field; `BoundsAssumption` has
the 15 bits of `lib.h`, beyond which levels wrap and the theorems would not hold.
`StepOutSkips` is about the fiber in which the step was given; in others `step_out` compares
levels only, and can stop (see the hazards).

**Breakpoints.** Type correctness holds always, also when ids lead astray. The others are
proved under `Distinct`: no `update -n`, no exception breakpoint set twice, no file name the
prefix of another. It cannot be left out, as `renumbered` and `exception_twice` show for the
first two, and the `breakpoints` run meets it. `Linked` is what makes the detour over keys
safe: from ids to breakpoints (`IdsLead`), from these back to the same ids and keys
(`LinesLead`, `NamedLead`), and no two with one key (`KeysDiffer`), without which the search
would find the first. `TableIsImplemented` has one step for each action: it maps to the
operation of the table with the same name, or to nothing, as for a command that fails.

**LineBreakpoints.** The scans and the search for the smallest range are recursive functions.
The provers have no induction over data; `Smallest` takes its place: a nonempty set of
numbers has a least element. A counterexample to what such a function returns would be one
of a shortest scan, and the next shorter one is right. `AllPlaced` says where each breakpoint
is, `RightlyUnmarked` that a frame without a mark has nothing to stop at, now or after a
breakpoint has been resolved. `FunctionsAssumption` says what the compiler delivers: lines
from 1 up, a function's breakable lines within its range, and no line with statements of
two functions, of which a breakpoint would stop in one only.

**DataCommands.** `Overridden`: whatever is overridden, a pending command will bring it back,
and the outermost of those that change `max_data` has the client's value. For the answers,
`CallsInOrder` and `FramesInOrder` say that frames are those of a part of the calls, in their
order; when all calls have frames they must be the same, so that a depth leads to the same
call through either. `CommandsNest` says that the calls of a pending command are on top of
those it was given among, `Undisturbed` and `Shown` what the pointers are while no other
command came between, `GlobalsAreGlobal` why a global is not looked up in a local table.
`ReturnIsCurrent` says whose value `returned` is, also while code runs that a command runs:
that of the call that was on top when the command went there. Hence a value that is shown in
place of a variable is one of the stop at which the command was given (`MayShow`), and
`ReturnIsShown` that a `context_get` which shows the return value finds it there.
`LocalsAssumption`: a function has finitely many variables.

**ControlSocket.** `QueuedOnce` and `TakenAreHeld`: each peer is in one place, and a process
that is after `accept` has one that nobody else has. `Fits` says in every place of a process
what `StackFitsObserver` says while it runs code, and that the first call is the script's,
whose name `ps` answers; `Records` is the part of it about calls and frames, which a push or a
pop of one end of the two lists must keep, whether the call has handlers or not. `LargestIs` is an induction over lists by `Smallest` again.

**CommandLoop.** `WholeFrom` says piece by piece what `StreamIsWhole` says by packets; a
buffer that ends in a NUL therefore begins with a whole packet (`TakingKeeps`), which needs no
bound on the buffer. `EachHasAnswer` and `AnswersInOrder` also cover the time when the script
runs and one answer is still to come: that to the last command.

**StartDecision.** `Decided` is what RINIT leaves behind for the second decision: the result
of looking for a start, if it looked, and the key of a trigger, if that was what decided.
`SaysTheSame`: what a request asks for depends on the settings alone. `ModesAssumption` has
the three values that `start_with_request` takes, `ValuesAssumption` that the value which
stands for NULL is not that of a parameter. `CookieStands` is for `SessionLasts`: what the
jar of the browser holds between two requests fits what it was told (`Stands`), and while one
is served the decision that is still to come will leave it so (`Stopped`, `Kept`). A start
with an empty value removes the cookie of a session that is on; what the browser then has
depends on the order of its names, so that the history variable `sticky` is `"unclear"`, and
the theorem says nothing until the next stop or the next start with a value.

**PathMaps.** The binary search is a recursive function over the bounds of what is left, and
so are the copies of a rule's ranges and of a file's rules. That each of them exists, and what it
returns, is shown by `Smallest`: over the width of what is left, and over the ranges and rules
that were copied. `MapsInv` says of both maps what `IsRule` says of a rule that was checked
when it was read, and `LocalLeads` that all that can be found by a local path leads back to a
rule of the map from remote paths. `InOrder` is what the checks leave of a rule's ranges when none is
skipped: each behind the one before, with both its lines. `SearchIsComplete` and
`BreakpointsComeBack` need it, and like the properties they speak of files with no skipped
ranges. `EarlierFilesStand` follows from what one copy changes (`Added`, `AddedBack`). `RangesAssumption`
and `MapBoundsAssumption` are types: a range in a rule has a number, two, or none.

**CommandParser.** `OnLine` says where the reader can be: `Reading` in the k-th option, with
all before it arrived, `Between` two options, `Lost` behind one that is not sound,
`Understood` or `Refused` at the end. In a value it is behind the i-th character (`InPlain`,
`InQuoted`, `AtEscaped`), so that one character read is one of the cases again. What is left
of the line is said by `From` and `EscapedFrom`, the ends of the texts that `Joined` builds, and
`NextOption` leads from one option to the next. `LineAssumption`: a line ends at its first NUL,
which therefore is in no value, and no option has that letter.

**VariableExport.** A name that is exported is not yet read when the invariant has to speak of
it, and a child's name is put together from its parent's. So `NameHolds` says of a name what
the reader *would* do: `Found(n, v)` is that there is a run of the state machine over all of
`n` that ends ready for another part (`At`), and that what it has by then, or fetches with the rest of the name, is `v`
(`Settled`). The root is a variable or a special value (`DollarIsFound`), or a static property
of the class that is executed (`StaticIsFound`); `ChildIsFound` is for one part more: an element (`ElementIsFound`), by its number or by its key, and a member that
is static, written as it is, or in braces (`StaticMemberIsFound`, `PlainMemberIsFound`,
`BracedMemberIsFound`), private to an ancestor or not. Keys go through `AddSlashes` and `StripSlashes`; `SlashesComeOff` says that
the second takes off what the first puts on, but for a null byte before a digit (`NulsApart`).
`LookupHolds` says while a name is read that the reader is on such a run (`LooksUp`), and at
its end there is the value sought. `PagesHold` and `SeenBefore` count the children shown by
whole pages; a page follows the one before it (`PageFollows`) because it is a page of the same
value, which `NamesAreReadBack` says. Finding one child rather than another rests on `TreesAssumption`: a
hash table has a key once; what is declared has an identifier as its name, and only dynamic
and public properties have others (the comment in `var_export_xml.c`, line 342); no dynamic
property is called as a private one of an ancestor is written, like `*B*r`. With such a property
the names of both are the same, and no reader could tell them apart.

### Only model-checked

- Liveness: `PromptLeadsBack`. TLAPS does not prove properties under fairness.
- The findings, which are counterexamples.

Every other property of the runs that pass is stated by a theorem above.

## Not modelled

- The text of answers, types and facets of values, `typemap_get`, `feature_get`, constants:
  they report and change nothing.
- Breakable lines of evaluated code and of property hooks.
- `remote_poll_pending`, which is only called when a session is alive at the start of a
  worker's request, when there is none (`NoSessionBetweenRequests`).
- What a frame records beside its call: names, arguments, memory, time.
- Notifications and streams beyond their failure.
- The stack that `ps` sees inside a fiber, and truncation of an order at 255 bytes.
- A map file that cannot be read half-way, and the length of its lines.
- Socket options, Windows' named pipes, `strtol` on odd numbers, negative depths of
  `feature_set`.
- Log, formatting and memory management, except where memory is read after it is freed.

## Plan

The modules above are written, and their safety properties proved. What would come next:

1. `LineBreakpoints` composed with `Breakpoints` in place of its `Target`.
2. `DebugSession`: an abstract specification of a session (off, paused, running, ended) that
   `DbgpSession` implements, in place of a property that it implies.
3. Dynamic properties that are named as private ones of an ancestor are written, and
   variables that are not named by an identifier, as exceptions in `Sayable` in place of an assumption.
