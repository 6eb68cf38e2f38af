------------------------------ MODULE CommandParser ------------------------------
(***************************************************************************)
(* xdebug_cmd_parse(): the options of a DBGp command, taken apart character *)
(* by character, and a client that writes them.  The name of the command   *)
(* is what stands before the first space; the text here starts after it.   *)
(***************************************************************************)
EXTENDS Naturals, Sequences, SequencesExt, Pieces

CONSTANTS
    OptionLetters,      \* the letters that clients use, and "-"
    OptionValues,       \* what they give an option: sequences of characters
    MaxOptions

Nul == "NUL"
Quote == "\""
Backslash == "\\"

\* What the line is made of.  It ends at its first NUL, which therefore is in none of it.
Characters == OptionLetters \cup {" ", "-", Nul, Quote, Backslash}
                \cup UNION {ToSet(chars) : chars \in OptionValues}
LineAssumption ==
    /\ \A chars \in OptionValues : chars \in Seq(ToSet(chars)) /\ Nul \notin ToSet(chars)
    /\ Nul \notin OptionLetters
ASSUME LineAssumption

VARIABLES
    written,    \* what the client wrote: a sequence of [opt, value, quoted]
    text,       \* the characters that are still to be read; << >> while it writes
    reader,     \* state
    opt,        \* opt
    value,      \* the characters from value_begin on
    values,     \* args->value
    parsed      \* what is returned: "ok", "parse error" or "duplicate"

parserVars == <<written, text, reader, opt, value, values, parsed>>

ParserInit ==
    /\ written = << >> /\ text = << >> /\ reader = "waiting" /\ parsed = "ok"
    /\ opt = " " /\ value = << >> /\ values = << >>

-----------------------------------------------------------------------------
(* The client.                                                             *)

Escape(char) == IF char \in {Quote, Backslash} THEN <<Backslash, char>> ELSE <<char>>
Escaped(chars) == Joined([i \in DOMAIN chars |-> Escape(chars[i])], <<Quote>>)

\* The value of an option; in quotes, behind the first of them.
Spelled(o) == IF o.quoted THEN <<Quote>> \o Escaped(o.value)[1] ELSE o.value

\* The options as they are sent, from each of them on, with a space before.
Line(options) ==
    Joined([k \in DOMAIN options |-> <<" ", "-", options[k].opt, " ">> \o Spelled(options[k])],
           <<Nul>>)

WriteOption(letter, chars, quoted) ==
    /\ reader = "waiting" /\ Len(written) < MaxOptions
    /\ quoted => letter # "-"
    /\ written' = Append(written, [opt |-> letter, value |-> chars, quoted |-> quoted])
    /\ UNCHANGED <<text, reader, opt, value, values, parsed>>

SendLine ==
    /\ reader = "waiting" /\ written # << >>
    /\ text' = Tail(Line(written)[1])
    /\ reader' = "normal"
    /\ UNCHANGED <<written, opt, value, values, parsed>>

-----------------------------------------------------------------------------
(* The states of the parser, one action each.  The loop ends behind the NUL, *)
(* in whatever state that is.                                              *)

Char == Head(text)

Read(state) == text # << >> /\ reader = state /\ text' = Tail(text) /\ UNCHANGED written
Go(state)   == reader' = (IF Char = Nul THEN "done" ELSE state) /\ UNCHANGED parsed
Fail(error) == reader' = "done" /\ parsed' = error

Normal ==
    /\ Read("normal")
    /\ IF Char = "-" THEN Go("opt follows") ELSE Fail("parse error")
    /\ UNCHANGED <<opt, value, values>>

OptFollows ==
    /\ Read("opt follows")
    /\ opt' = Char
    /\ IF Char \in OptionLetters THEN Go("sep follows") ELSE Fail("parse error")
    /\ UNCHANGED <<value, values>>

SepFollows ==
    /\ Read("sep follows")
    /\ IF Char = " " THEN Go("first char") ELSE Fail("parse error")
    /\ value' = << >>
    /\ UNCHANGED <<opt, values>>

\* Whatever stands here, and be it a space or the NUL, is part of the value.
FirstChar ==
    /\ Read("first char")
    /\ IF Char = Quote /\ opt # "-"
       THEN Go("quoted") /\ UNCHANGED value
       ELSE Go("value follows") /\ value' = Append(value, Char)
    /\ UNCHANGED <<opt, values>>

\* args->value with what one option gets.
With(chars) == [letter \in DOMAIN values \cup {opt} |-> IF letter = opt THEN chars ELSE values[letter]]

StoreLatest(next) ==                           \* mutant: no look at what is there
    /\ values' = With(value)
    /\ Go(next)

StoreWithEnd(next) ==                          \* mutant: one character too many
    IF opt \in DOMAIN values
    THEN Fail("duplicate") /\ UNCHANGED values
    ELSE Go(next) /\ values' = With(Append(value, Char))

\* The end of a value: it is kept unless the option has one.
StoreValue(next) ==
    IF opt \in DOMAIN values
    THEN Fail("duplicate") /\ UNCHANGED values
    ELSE Go(next) /\ values' = With(value)

EndsValueAtSpace == Char \in {" ", Nul}        \* mutant: also for the option "-"
EndsValue == (Char = " " /\ opt # "-") \/ Char = Nul

ValueFollows ==
    /\ Read("value follows")
    /\ IF EndsValue
       THEN StoreValue("normal") /\ UNCHANGED value
       ELSE Go("value follows") /\ value' = Append(value, Char) /\ UNCHANGED values
    /\ UNCHANGED opt

\* With xdebug_stripcslashes() on the value: of the characters of an escape the
\* second stays.  (Escapes for control characters are left out.)
Quoted ==
    /\ Read("quoted")
    /\ CASE Char = Backslash -> Go("escaped char") /\ UNCHANGED <<value, values>>
         [] Char = Quote     -> StoreValue("skip char") /\ UNCHANGED value
         [] OTHER            -> Go("quoted") /\ value' = Append(value, Char) /\ UNCHANGED values
    /\ UNCHANGED opt

EscapedChar ==
    /\ Read("escaped char")
    /\ Go("quoted") /\ value' = Append(value, Char)
    /\ UNCHANGED <<opt, values>>

SkipChar ==
    /\ Read("skip char")
    /\ Go("normal")
    /\ UNCHANGED <<opt, value, values>>

ParserNext ==
    \/ \E letter \in OptionLetters, chars \in OptionValues, quoted \in BOOLEAN :
          WriteOption(letter, chars, quoted)
    \/ SendLine
    \/ Normal \/ OptFollows \/ SepFollows \/ FirstChar \/ ValueFollows
    \/ Quoted \/ EscapedChar \/ SkipChar

ParserSpec == ParserInit /\ [][ParserNext]_parserVars

-----------------------------------------------------------------------------
(* Properties.                                                             *)

\* An option that comes out as it was meant: one in quotes; a plain value with no
\* space in it that does not start with a quote; data behind "--", at the end.
Sound(k) ==
    LET o == written[k]
    IN \/ o.quoted
       \/ o.opt = "-" /\ k = Len(written) /\ o.value # << >>
       \/ o.opt # "-" /\ o.value # << >> /\ " " \notin ToSet(o.value) /\ o.value[1] # Quote

\* Every option is under its own letter, the reader in a state the code has, and a
\* value it keeps was read before the end of the line.
ParserTypeOK ==
    /\ reader \in {"waiting", "normal", "opt follows", "sep follows", "first char",
                   "value follows", "quoted", "escaped char", "skip char", "done"}
    /\ parsed \in {"ok", "parse error", "duplicate"}
    /\ DOMAIN values \subseteq OptionLetters
    /\ \A letter \in DOMAIN values : Nul \notin ToSet(values[letter])

\* A command whose options are all sound is understood as it was meant: every
\* value arrives under its option, and no more options than were written, and it
\* is refused exactly when an option is given twice.
UnderstoodAsWritten ==
    (reader = "done" /\ \A k \in DOMAIN written : Sound(k)) =>
       IF \E j, k \in DOMAIN written : j # k /\ written[j].opt = written[k].opt
       THEN parsed = "duplicate"
       ELSE /\ parsed = "ok"
            /\ DOMAIN values = {written[k].opt : k \in DOMAIN written}
            /\ \A k \in DOMAIN written : values[written[k].opt] = written[k].value

\* A transaction id that is written first is there for the answer, and is the one
\* the client gave, whatever is wrong with the rest of the line.
FirstOptionSurvives ==
    (reader = "done" /\ Sound(1)) =>
       /\ written[1].opt \in DOMAIN values
       /\ values[written[1].opt] = written[1].value
=============================================================================
