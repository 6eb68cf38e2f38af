-------------------------------- MODULE PathMaps --------------------------------
(***************************************************************************)
(* The path mapping: at the start of a request the .map files around the    *)
(* script are read, rule by rule, into two maps, from remote paths (those   *)
(* of the script) to local ones (those of the client) and back; breakpoints *)
(* and stops are then translated through them.                             *)
(*                                                                         *)
(* A path is a sequence of names and "/"; a directory ends in "/".  A line  *)
(* of a file is a stanza with a prefix, a rule, or one that is refused;     *)
(* which error it is refused with is left out.                             *)
(***************************************************************************)
EXTENDS Integers, Sequences, SequencesExt, FiniteSetsExt

CONSTANTS
    MapScripts,     \* path_translated: names between slashes, or StandardInput
    StandardInput,  \* what xdebug_path_maps_scan() is given for a CLI without one
    WorkingDir,     \* the current directory, a path without a trailing "/"
    MapPrefixes,    \* what stanzas say
    MapRules,       \* {[remote, remoteRange, local, localRange]} : what rules say
    MapMaxLines,    \* bound on the lines of all files
    MapLineNumbers  \* the lines that are looked up

\* A range is what strtol() makes of the one or two numbers that were written.
RangesAssumption ==
    \A rule \in MapRules : \A range \in {rule.remoteRange, rule.localRange} :
        range \in Seq(Int) /\ Len(range) \in 0..2
ASSUME RangesAssumption

MapBoundsAssumption == MapMaxLines \in Nat /\ MapLineNumbers \subseteq Int
ASSUME MapBoundsAssumption

Skip == <<"SKIP">>
Eof == 1073741824                              \* XDEBUG_PATH_MAP_EOF, 1 << 30
NotANumber == 0 - 1                            \* in a range that is written wrong

VARIABLES
    mapsTodo,       \* the directories that are still to be scanned
    mapsFile,       \* the file that is read: path_maps_parser_state
    mapsLines,      \* how many lines were read
    mapsRemote,     \* remote_to_local_map
    mapsLocal       \* local_to_remote_map

mapsVars == <<mapsTodo, mapsFile, mapsLines, mapsRemote, mapsLocal>>

Closed == [open |-> FALSE, remotePrefix |-> << >>, localPrefix |-> << >>, rules |-> << >>]

\* xdebug_explode() and xdebug_join(): the grandparent, parent and directory of
\* the script, the outermost first, as far as its path has that many parts.
ScanDirectories(parts) ==
    LET Joined(k) == FoldLeft(LAMBDA path, name : path \o <<"/", name>>, << >>, SubSeq(parts, 1, k))
        depth     == Len(parts) - 1
    IN [k \in 1..Min({depth + 1, 3}) |-> Joined(depth - Min({depth + 1, 3}) + k)]

MapsInit ==
    /\ \E script \in MapScripts :
          mapsTodo = IF script = StandardInput THEN <<WorkingDir>> ELSE ScanDirectories(script)
    /\ mapsFile = Closed /\ mapsLines = 0
    /\ mapsRemote = << >> /\ mapsLocal = << >>

-----------------------------------------------------------------------------
(* One line of a file.                                                     *)

Begins(text, c) == text # << >> /\ Head(text) = c
EndsIn(text, c) == text # << >> /\ Last(text) = c
Relative(text)  == Len(text) > 1 /\ text[1] = "." /\ text[2] = "/"

\* is_valid_prefix()
ValidPrefix(prefix) == Begins(prefix, "/") \/ Relative(prefix)

\* Neither has_no_separator() nor has_double_separator().
Joins(prefix, text) == prefix = << >> \/ EndsIn(prefix, "/") # Begins(text, "/")

\* extract_line_range(): a range is << >>, <<line>> or <<first, last>>.
ValidRange(text, range) ==
    \/ range = << >>
    \/ /\ text # << >> /\ ~EndsIn(text, "/")
       /\ NotANumber \notin ToSet(range)
       /\ IF Len(range) = 1 THEN range[1] >= 1 ELSE range[1] <= range[2]

\* What prepare_remote_element() and prepare_local_element() make of the text
\* and range on their side of the rule.  A range from 0 counts as none.
Element(prefix, text, range) ==
    LET Whole(t) == IF Relative(t) THEN Head(mapsTodo) \o Tail(t) ELSE t
        lines    == range # << >> /\ range[1] > 0
    IN [path  |-> Whole(prefix) \o Whole(text),
        type  |-> IF lines THEN "lines" ELSE IF EndsIn(text, "/") THEN "directory" ELSE "file",
        begin |-> IF lines THEN range[1] ELSE 0,
        end   |-> IF lines THEN Last(range) ELSE 0]

ValidElement(prefix, text, range) ==
    /\ text # << >> \/ range # << >>
    /\ Joins(prefix, text) /\ ValidRange(text, range)

Skipped == [path |-> << >>, type |-> "skip", begin |-> NotANumber, end |-> NotANumber]

\* A remote range up to EOF makes a local one up to EOF as long as itself.
LocalEnd(remote, local) ==
    IF remote.end = Eof /\ remote.begin # Eof /\ local.begin # local.end /\ local.end = Eof
    THEN Eof + local.begin - remote.begin ELSE local.end

\* The checks of state_add_rule() between the two sides of a rule.
Corresponds(remote, local) ==
    \/ local.type = "skip"
    \/ /\ remote.type = local.type
       /\ local.begin # local.end =>
             remote.end - remote.begin = LocalEnd(remote, local) - local.begin

NewRange(remote, local) ==
    [remoteBegin |-> remote.begin, remoteEnd |-> remote.end, skip |-> local.type = "skip",
     path |-> local.path, localBegin |-> local.begin, localEnd |-> LocalEnd(remote, local)]

\* xdebug_hash_update()
Entered(map, key, mapping) ==
    [k \in DOMAIN map \cup {key} |-> IF k = key THEN mapping ELSE map[k]]

\* mutants: the paths, the remote lines are not compared
FollowsAnyPath(last, range) ==
    range.skip \/ (range.remoteBegin > last.remoteEnd /\ range.localBegin > last.localEnd)
FollowsLocally(last, range) ==
    \/ range.skip
    \/ /\ last.skip \/ last.path = range.path
       /\ range.localBegin > last.localEnd

\* Its checks between a range and the last one for the same remote path.  A
\* skipped range is not checked, and what follows one only in part.
Follows(last, range) ==
    \/ range.skip
    \/ /\ last.skip \/ last.path = range.path
       /\ range.remoteBegin > last.remoteEnd /\ range.localBegin > last.localEnd

NewMapping(remote, local) ==
    [type |-> remote.type, skip |-> local.type = "skip" /\ remote.type # "lines",
     remote |-> remote.path, local |-> IF remote.type = "lines" THEN << >> ELSE local.path,
     ranges |-> IF remote.type = "lines" THEN <<NewRange(remote, local)>> ELSE << >>]

\* state_add_rule(): file_rules with the rule, or without any when it is refused.
RulesWith(rule) ==
    LET remote == Element(mapsFile.remotePrefix, rule.remote, rule.remoteRange)
        local  == IF rule.local = Skip THEN Skipped
                  ELSE Element(mapsFile.localPrefix, rule.local, rule.localRange)
        rules  == mapsFile.rules
        range  == NewRange(remote, local)
        valid  == /\ ValidElement(mapsFile.remotePrefix, rule.remote, rule.remoteRange)
                  /\ \/ rule.local = Skip
                     \/ ValidElement(mapsFile.localPrefix, rule.local, rule.localRange)
                  /\ Corresponds(remote, local)
        follows == /\ rules[remote.path].type = "lines"
                   /\ Follows(Last(rules[remote.path].ranges), range)
    IN IF ~valid THEN {}
       ELSE IF remote.path \notin DOMAIN rules
            THEN {Entered(rules, remote.path, NewMapping(remote, local))}
       ELSE IF follows THEN {[rules EXCEPT ![remote.path].ranges = Append(@, range)]}
       ELSE {}

-----------------------------------------------------------------------------
(* The maps, as functions from keys to mappings.                           *)

CopyRuleOver(copy, rule) ==                    \* mutant: no look at what is there
    [copy EXCEPT !.map = Entered(@, rule.remote, rule)]

\* copy_rule(): nothing more is copied once a rule was there already.
CopyRule(copy, rule) ==
    IF copy.failed THEN copy
    ELSE IF rule.remote \in DOMAIN copy.map THEN [copy EXCEPT !.failed = TRUE]
    ELSE [copy EXCEPT !.map = Entered(@, rule.remote, rule)]

\* The vector that copy_rule_reverse() makes, in which paths are remote ones, and
\* the local path of its last range.
Unskipped(rule) ==
    LET kept[n \in 0..Len(rule.ranges)] ==
            IF n = 0 THEN << >>
            ELSE IF rule.ranges[n].skip THEN kept[n - 1] ELSE Append(kept[n - 1], rule.ranges[n])
    IN kept[Len(rule.ranges)]
Reversed(rule) ==
    [rule EXCEPT !.remote = << >>,
                 !.ranges = [k \in DOMAIN Unskipped(rule) |->
                                [Unskipped(rule)[k] EXCEPT !.path = rule.remote]]]

CopyRuleReverseSkipped(copy, rule) ==          \* mutant: SKIP is copied too
    IF copy.failed THEN copy ELSE [copy EXCEPT !.map = Entered(@, rule.local, rule)]

\* copy_rule_reverse(): ranges go over what is there.
CopyRuleReverse(copy, rule) ==
    IF copy.failed \/ rule.skip THEN copy
    ELSE IF rule.type = "lines"
         THEN IF Unskipped(rule) = << >> THEN copy
              ELSE [copy EXCEPT !.map = Entered(@, Last(Unskipped(rule)).path, Reversed(rule))]
    ELSE IF rule.local \in DOMAIN copy.map THEN [copy EXCEPT !.failed = TRUE]
    ELSE [copy EXCEPT !.map = Entered(@, rule.local, rule)]

\* The rules of the file, one after the other, into a map.
Copied(order) ==
    LET copy[n \in 0..Len(order)] ==
            IF n = 0 THEN [map |-> mapsRemote, failed |-> FALSE]
            ELSE CopyRule(copy[n - 1], mapsFile.rules[order[n]])
    IN copy[Len(order)]

CopiedReverse(order) ==
    LET copy[n \in 0..Len(order)] ==
            IF n = 0 THEN [map |-> mapsLocal, failed |-> FALSE]
            ELSE CopyRuleReverse(copy[n - 1], mapsFile.rules[order[n]])
    IN copy[Len(order)]

\* do_local_binary_search(), do_remote_binary_search(): the index of the interval
\* in which n lies, or 0.
Bisect(intervals, n) ==
    LET from[span \in (1..(Len(intervals) + 1)) \X (0..Len(intervals))] ==
            LET low  == span[1]
                high == span[2]
                mid  == low + (high - low) \div 2
            IN IF low > high THEN 0
               ELSE IF n < intervals[mid][1] THEN from[<<low, mid - 1>>]
               ELSE IF n > intervals[mid][2] THEN from[<<mid + 1, high>>]
               ELSE mid
    IN from[<<1, Len(intervals)>>]

RemoteLines(mapping) ==
    [k \in DOMAIN mapping.ranges |-> <<mapping.ranges[k].remoteBegin, mapping.ranges[k].remoteEnd>>]
LocalLines(mapping) ==
    [k \in DOMAIN mapping.ranges |-> <<mapping.ranges[k].localBegin, mapping.ranges[k].localEnd>>]

Unknown == [result |-> "unknown"]
SkippedPlace == [result |-> "skip"]
Place(path, line) == [result |-> "mapped", path |-> path, line |-> line]

\* Lines of one interval in the other: a single line takes them all.
Translated(n, from, to) == IF to[1] = to[2] THEN to[1] ELSE n - from[1] + to[1]

\* The longest directory around the path that has an entry, as its length.
Directory(path, map) ==
    Max({0} \cup {k \in DOMAIN path : path[k] = "/" /\ SubSeq(path, 1, k) \in DOMAIN map})
Beyond(path, k) == SubSeq(path, k + 1, Len(path))

\* remote_to_local()
RemoteToLocal(path, n) ==
    LET k       == Directory(path, mapsRemote)
        mapping == mapsRemote[IF path \in DOMAIN mapsRemote THEN path ELSE SubSeq(path, 1, k)]
        found   == Bisect(RemoteLines(mapping), n)
    IN IF path \notin DOMAIN mapsRemote /\ k = 0 THEN Unknown
       ELSE IF mapping.skip THEN SkippedPlace
       ELSE IF path \notin DOMAIN mapsRemote THEN Place(mapping.local \o Beyond(path, k), n)
       ELSE IF mapping.type # "lines" THEN Place(mapping.local, n)
       ELSE IF found = 0 THEN Unknown
       ELSE IF mapping.ranges[found].skip THEN SkippedPlace
       ELSE Place(mapping.ranges[found].path,
                  Translated(n, RemoteLines(mapping)[found], LocalLines(mapping)[found]))

\* local_to_remote()
LocalToRemote(path, n) ==
    LET k       == Directory(path, mapsLocal)
        mapping == mapsLocal[IF path \in DOMAIN mapsLocal THEN path ELSE SubSeq(path, 1, k)]
        found   == Bisect(LocalLines(mapping), n)
    IN IF path \notin DOMAIN mapsLocal /\ k = 0 THEN Unknown
       ELSE IF path \notin DOMAIN mapsLocal THEN Place(mapping.remote \o Beyond(path, k), n)
       ELSE IF mapping.type # "lines" THEN Place(mapping.remote, n)
       ELSE IF found = 0 THEN Unknown
       ELSE Place(mapping.ranges[found].path,
                  Translated(n, LocalLines(mapping)[found], RemoteLines(mapping)[found]))

\* map_local_to_remote_replace(): where a breakpoint of the client is set.
BreakpointPlace(path, n) ==
    LET remote == LocalToRemote(path, n) IN IF remote = Unknown THEN Place(path, n) ELSE remote

\* map_remote_brkinfo_to_local() and xdebug_debugger_map_remote_to_local(): where
\* it is shown, and where a stop is; at a skipped place execution does not stop.
ShownPlace(place) ==
    LET local == RemoteToLocal(place.path, place.line) IN IF local = Unknown THEN place ELSE local

-----------------------------------------------------------------------------
(* Scanning, in xdebug_path_maps_scan(), scan_directory() and               *)
(* xdebug_path_maps_parse_file().                                          *)

OpenMapFile ==
    /\ mapsTodo # << >> /\ ~mapsFile.open /\ mapsLines < MapMaxLines
    /\ mapsFile' = [Closed EXCEPT !.open = TRUE]
    /\ UNCHANGED <<mapsTodo, mapsLines, mapsRemote, mapsLocal>>

\* No (other) file in the directory ends in .map.
NextDirectory ==
    /\ mapsTodo # << >> /\ ~mapsFile.open
    /\ mapsTodo' = Tail(mapsTodo)
    /\ UNCHANGED <<mapsFile, mapsLines, mapsRemote, mapsLocal>>

ReadLine ==
    /\ mapsFile.open /\ mapsLines < MapMaxLines
    /\ mapsLines' = mapsLines + 1
    /\ UNCHANGED <<mapsTodo, mapsRemote, mapsLocal>>

RemotePrefix(prefix) ==
    /\ ReadLine
    /\ mapsFile' = IF ValidPrefix(prefix) THEN [mapsFile EXCEPT !.remotePrefix = prefix] ELSE Closed

LocalPrefix(prefix) ==
    /\ ReadLine
    /\ mapsFile' = IF ValidPrefix(prefix) THEN [mapsFile EXCEPT !.localPrefix = prefix] ELSE Closed

Rule(rule) ==
    /\ ReadLine
    /\ LET rules == RulesWith(rule)
       IN mapsFile' = IF rules = {} THEN Closed
                      ELSE [mapsFile EXCEPT !.rules = CHOOSE r \in rules : TRUE]

\* A line without a newline at its end, without "=", or that starts with one.
Garbage ==
    /\ ReadLine
    /\ mapsFile' = Closed

\* The end of the file, if it gave rules: both maps take them, in the order of the
\* hash they are in; what was copied before a failure stays.
EndOfFile ==
    /\ mapsFile.open /\ mapsFile.rules # << >>
    /\ \E order \in SetToSeqs(DOMAIN mapsFile.rules) :
          /\ mapsRemote' = Copied(order).map
          /\ mapsLocal' = IF Copied(order).failed THEN mapsLocal ELSE CopiedReverse(order).map
    /\ mapsFile' = Closed
    /\ UNCHANGED <<mapsTodo, mapsLines>>

\* A file without rules is an error.
EndOfEmptyFile ==
    /\ mapsFile.open /\ mapsFile.rules = << >>
    /\ mapsFile' = Closed
    /\ UNCHANGED <<mapsTodo, mapsLines, mapsRemote, mapsLocal>>

MapsNext ==
    \/ OpenMapFile \/ NextDirectory \/ Garbage \/ EndOfFile \/ EndOfEmptyFile
    \/ \E prefix \in MapPrefixes : RemotePrefix(prefix) \/ LocalPrefix(prefix)
    \/ \E rule \in MapRules : Rule(rule)

MapsSpec == MapsInit /\ [][MapsNext]_mapsVars

-----------------------------------------------------------------------------
(* Properties.                                                             *)

Mapping(mapping) ==
    /\ mapping.type \in {"directory", "file", "lines"} /\ mapping.skip \in BOOLEAN
    /\ (mapping.type = "lines") <=> (mapping.ranges # << >>)
    /\ \A k \in DOMAIN mapping.ranges : mapping.ranges[k].remoteEnd \in Nat

\* The maps hold mappings; what skips is only in the one from remote to local.
MapsTypeOK ==
    /\ mapsLines \in 0..MapMaxLines
    /\ \A path \in DOMAIN mapsRemote : Mapping(mapsRemote[path]) /\ mapsRemote[path].remote = path
    /\ \A path \in DOMAIN mapsLocal : Mapping(mapsLocal[path]) /\ ~mapsLocal[path].skip

Ordered(mapping) == \A k \in DOMAIN mapping.ranges : ~mapping.ranges[k].skip

\* A breakpoint that the client sets in a file that a rule names is set at a place
\* of the script that is shown as the very place the client meant, however many
\* files gave rules, and whether or not they were refused half-way.  (Not so
\* with ranges around a skipped one, which are not checked against each other.)
BreakpointsShownWhereSet ==
    \A path \in DOMAIN mapsLocal, n \in MapLineNumbers :
       LET place == BreakpointPlace(path, n)
       IN /\ LocalToRemote(path, n) # Unknown
          /\ place.path \in DOMAIN mapsRemote /\ Ordered(mapsRemote[place.path])
          => ShownPlace(place) = Place(path, n)

\* The binary search misses no range that a line lies in, as long as no range of
\* the file is skipped: the checks on each rule keep the ranges in order.
SearchMissesNothing ==
    \A path \in DOMAIN mapsRemote, n \in MapLineNumbers :
       LET lines == RemoteLines(mapsRemote[path])
       IN Ordered(mapsRemote[path]) =>
          (Bisect(lines, n) = 0 <=> \A k \in DOMAIN lines : n \notin lines[k][1]..lines[k][2])

\* No file that is read later, nearer to the script, changes what an earlier one
\* said of a remote path, nor takes a local path from it but for ranges.
EarlierRulesStand ==
    [][/\ \A path \in DOMAIN mapsRemote :
             path \in DOMAIN mapsRemote' /\ mapsRemote'[path] = mapsRemote[path]
       /\ \A path \in DOMAIN mapsLocal :
             /\ path \in DOMAIN mapsLocal'
             /\ mapsLocal'[path] = mapsLocal[path] \/ mapsLocal'[path].type = "lines"]_mapsVars
=============================================================================
