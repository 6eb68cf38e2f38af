----------------------------- MODULE VariableExport -----------------------------
(***************************************************************************)
(* What a client does to look at a variable: context_get shows the          *)
(* variables with the first page of their children; every child has a full  *)
(* name, and property_get with that name shows the child with its own       *)
(* children, a page at a time.  The full names are put together by          *)
(* var_export_xml.c and taken apart by a state machine in var.c.            *)
(***************************************************************************)
EXTENDS Integers, Sequences, FiniteSets, SequencesExt, FiniteSetsExt, Pieces

CONSTANTS
    Trees,          \* what there is to be shown at a stop, see below
    ShownValues,    \* the values in them, and the values in these
    KeyCharacters,  \* what keys are made of
    ClassNames,     \* each of them stands in a name as one character
    MaxChildren,    \* max_children
    MaxDepth,       \* max_depth
    MaxPage         \* bound on the pages that are asked for

\* A value is [kind |-> "scalar", id], or has items: [kind |-> "array", items] with
\* items [key, number, value], or [kind |-> "object", class, items] with items
\* [key, of, modifier, static, value], static ones first.  A key is a sequence of
\* characters.  A tree has the variables of a frame, a sequence of [key, value]; its
\* class, and the static properties of that, which are items, if it is the frame of a
\* static method; top, whether it is the frame that is executed, and scope, the class
\* in whose scope that one is, or "", with its static properties.  Its special is
\* [returned, included, between, raised]: what a function returns at this stop, and
\* whether the client asked for it to be shown; the value of an expression that is not
\* done; the exception that is thrown, if the client asked for that.

Undefined == [kind |-> "undefined", id |-> "undefined"]
Digits    == {"0", "1", "2", "5", "7"}         \* octal digits stand for all
Quotes    == {"'", "\""}
NullByte  == "NUL"
Marks     == {"$", ":", "[", "-", ">", "{", "*"}

\* The names of the special values, each with "__" and one letter for what they are.
ReturnName    == <<"_", "_", "R">>
BetweenName   == <<"_", "_", "I">>
ExceptionName == <<"_", "_", "E">>

\* What can be declared; other names are those of dynamic properties and of elements.
\* (A variable with another name, as ${'a-b'}, is left out.)
Declarable(key) == key # << >> /\ ToSet(key) \cap Marks = {}

\* The key of an element with a number.
NumeralDigits(key) == IF key[1] = "-" THEN Tail(key) ELSE key
Numeral(key) == key # << >> /\ NumeralDigits(key) # << >> /\ ToSet(NumeralDigits(key)) \subseteq Digits

\* A private property of an ancestor, and the name it is given.
Foreign(item, class) == item.modifier = "private" /\ item.of # class
ForeignName(item)    == <<"*", item.of, "*">> \o item.key

\* Items are those of a hash table, in which a key is there once.
AreItems(items) ==
    /\ items \in Seq(ToSet(items))
    /\ \A item \in ToSet(items) : item.key \in Seq(KeyCharacters) /\ item.value \in ShownValues
AreVariables(items) ==
    /\ AreItems(items)
    /\ \A i \in DOMAIN items : Declarable(items[i].key)
    /\ \A i, j \in DOMAIN items : items[i].key = items[j].key => i = j
AreElements(items) ==
    /\ AreItems(items)
    /\ \A i \in DOMAIN items : items[i].number \in BOOLEAN
                              /\ (items[i].number => Numeral(items[i].key))
    /\ \A i, j \in DOMAIN items :
          items[i].key = items[j].key /\ items[i].number = items[j].number => i = j
\* A static property is there once, others once for each ancestor that hides them; and
\* none that is dynamic is called as one of those is written.
AreProperties(items, class) ==
    /\ AreItems(items)
    /\ \A i \in DOMAIN items :
          /\ items[i].modifier \in {"public", "protected", "private"}
          /\ items[i].static \in BOOLEAN /\ items[i].of \in ClassNames
          /\ items[i].static \/ items[i].modifier # "public" => Declarable(items[i].key)
    /\ \A i, j \in DOMAIN items :
          /\ items[i].key = items[j].key /\ items[i].static = items[j].static
          /\ \/ items[i].static
             \/ Foreign(items[i], class) /\ Foreign(items[j], class) /\ items[i].of = items[j].of
             \/ ~Foreign(items[i], class) /\ ~Foreign(items[j], class)
          => i = j
    /\ \A i, j \in DOMAIN items : Foreign(items[i], class) => items[j].key # ForeignName(items[i])

TreesAssumption ==
    /\ "" \notin ClassNames /\ ClassNames \cap Marks = {} /\ Undefined \notin ShownValues
    /\ \A v \in ShownValues :
          \/ v.kind = "scalar"
          \/ v.kind = "array" /\ AreElements(v.items)
          \/ v.kind = "object" /\ v.class \in ClassNames /\ AreProperties(v.items, v.class)
    /\ ToSet(ReturnName) \cup ToSet(ExceptionName) \subseteq KeyCharacters
    /\ \A t \in Trees :
          /\ AreVariables(t.variables) /\ AreProperties(t.statics, t.class)
          /\ \A i \in DOMAIN t.statics : t.statics[i].static /\ t.class \in ClassNames
          /\ t.scope.class = t.class => t.scope.statics = t.statics
          /\ {t.special.returned, t.special.between, t.special.raised}
                \subseteq ShownValues \cup {Undefined}
ExportBoundsAssumption == MaxChildren \in Nat /\ MaxDepth \in Nat /\ MaxPage \in Nat
ASSUME TreesAssumption
ASSUME ExportBoundsAssumption

Plain     == [from |-> 0, state |-> 0, type |-> "root", class |-> "", quote |-> "",
              at |-> 1, value |-> Undefined]

VARIABLES
    tree,           \* one of Trees
    exported,       \* "nothing", "context", "looking", "property" or "failed"
    fullname,       \* the -n of the last property_get
    sought,         \* the value that the name was exported for
    plain,          \* the name has none of the parts that do not come back
    lex,            \* the state of xdebug_get_php_symbol()
    runtimePage,    \* runtime[0].page
    seen            \* the children of the value that were shown so far, with their pages

exportVars == <<tree, exported, fullname, sought, plain, lex, runtimePage, seen>>

ExportInit ==
    /\ tree \in Trees
    /\ exported = "nothing" /\ fullname = << >> /\ sought = Undefined /\ plain = TRUE
    /\ lex = Plain /\ runtimePage = 0 /\ seen = << >>

-----------------------------------------------------------------------------
(* Full names.                                                             *)

SlashedQuote(c) ==                             \* mutant: a backslash stays as it is
    CASE c \in Quotes -> <<"\\", c>>
      [] c = NullByte -> <<"\\", "0">>
      [] OTHER -> <<c>>

\* xdebug_addslashes()
Slashed(c) ==
    CASE c \in Quotes \cup {"\\"} -> <<"\\", c>>
      [] c = NullByte -> <<"\\", "0">>
      [] OTHER -> <<c>>
AddSlashes(s) == Joined([i \in DOMAIN s |-> Slashed(s[i])], << >>)[1]

\* xdebug_array_element_export_xml_node()
ElementName(parent, item) ==
    IF item.number THEN parent \o <<"[">> \o item.key \o <<"]">>
    ELSE parent \o <<"[", "\"">> \o AddSlashes(item.key) \o <<"\"", "]">>

Braced(key) == key = << >> \/ ToSet(key) \cap {"-", "[", "{"} # {}

PropertyName(item, class) ==
    CASE Foreign(item, class) -> ForeignName(item)
      [] ~Foreign(item, class) /\ Braced(item.key) ->
           <<"{", "\"">> \o AddSlashes(item.key) \o <<"\"", "}">>
      [] ~Foreign(item, class) /\ ~Braced(item.key) -> item.key

\* xdebug_object_element_export_xml_node()
MemberName(parent, item, class) ==
    parent \o (IF item.static THEN <<":", ":">> ELSE <<"-", ">">>) \o PropertyName(item, class)

ChildName(parent, value, item) ==
    IF value.kind = "array" THEN ElementName(parent, item)
    ELSE MemberName(parent, item, value.class)

HasItems(value) == value.kind \in {"array", "object"}
Items(value)    == IF HasItems(value) THEN value.items ELSE << >>

\* A ":" or a leading ">" in a property's name, and a null byte before an octal
\* digit anywhere, do not come back.
Sayable(value, item) ==
    /\ value.kind = "object" /\ ~Braced(item.key) =>
          ":" \notin ToSet(item.key) /\ item.key[1] # ">"
    /\ \A i \in 1..(Len(item.key) - 1) : ~(item.key[i] = NullByte /\ item.key[i + 1] \in Digits)

-----------------------------------------------------------------------------
(* Pages.                                                                  *)

\* Of the elements, which xdebug_var_export_xml_node() numbers from 0, those from
\* start_element_nr up to end_element_nr; only the first level has pages.
Slice(items, level, page) ==
    LET first == IF level = 0 THEN MaxChildren * page ELSE 0
    IN SubSeq([i \in DOMAIN items |-> <<i, items[i]>>],
              first + 1, Min({first + MaxChildren, Len(items)}))

Shown(value, level, page) ==
    IF level < MaxDepth THEN Slice(Items(value), level, page) ELSE << >>

-----------------------------------------------------------------------------
(* xdebug_get_php_symbol()                                                 *)

\* xdebug_stripcslashes(), for the escapes that AddSlashes() produces.
StripSlashes(s) ==
    LET Octals(i) == Cardinality({k \in 0..2 : \A j \in i..(i + k) :
                                                  j \in DOMAIN s /\ s[j] \in Digits})
        rest[i \in 1..(Len(s) + 2)] ==
            IF i > Len(s) THEN << >>
            ELSE IF s[i] # "\\" \/ i = Len(s) THEN <<s[i]>> \o rest[i + 1]
            ELSE IF s[i + 1] \notin Digits THEN <<s[i + 1]>> \o rest[i + 2]
            ELSE (IF SubSeq(s, i + 1, i + Octals(i + 1)) = <<"0">>
                  THEN <<NullByte>> ELSE <<"other">>) \o rest[i + 1 + Octals(i + 1)]
    IN rest[1]

\* The first of the items with one of these numbers.
First(items, found) == IF found = {} THEN Undefined ELSE items[Min(found)].value

ClassOf(value) == IF value.kind = "object" THEN value.class ELSE ""

\* The part of a name between two stars, and what is after them.
Starred(name) == Len(name) >= 3 /\ name[1] = "*" /\ name[3] = "*"

FetchStatic(items, name) ==
    LET key == IF Starred(name) THEN SubSeq(name, 4, Len(name)) ELSE name
    IN First(items, {i \in DOMAIN items : items[i].static /\ items[i].key = key})

FetchProperty(value, name, class) ==
    LET items     == value.items
        dynamic   == {i \in DOMAIN items : ~items[i].static}
        public    == {i \in dynamic : items[i].modifier = "public" /\ items[i].key = name}
        private   == {i \in dynamic : /\ Starred(name) /\ items[i].modifier = "private"
                                      /\ items[i].of = name[2]
                                      /\ items[i].key = SubSeq(name, 4, Len(name))}
        scoped    == {i \in dynamic : /\ class # "" /\ items[i].key = name
                                      /\ items[i].modifier = "protected" \/ items[i].of = class}
    IN CASE value.kind # "object" -> Undefined
         [] value.kind = "object" /\ public # {} -> First(items, public)
         [] value.kind = "object" /\ public = {} ->
              First(items, IF private # {} THEN private ELSE scoped)

\* A name is compared with that of a special value as far as the name goes.
StartsName(name, full) == \A i \in DOMAIN name : i \in DOMAIN full /\ full[i] = name[i]
Means(value, name, full) == value # Undefined /\ StartsName(name, full)
MeansReturned(name) == Means(tree.special.returned, name, ReturnName)
MeansRaised(name)   == Means(tree.special.raised, name, ExceptionName)

FetchRoot(name) ==
    CASE MeansReturned(name) -> tree.special.returned
      [] ~MeansReturned(name) /\ MeansRaised(name) -> tree.special.raised
      [] OTHER ->
           First(tree.variables, {i \in DOMAIN tree.variables : tree.variables[i].key = name})

\* fetch_zval_from_symbol_table()
Fetch(l, name) ==
    CASE l.type = "root" -> FetchRoot(name)
      [] l.type = "static root" -> FetchStatic(tree.scope.statics, name)
      [] l.type = "static" ->
           IF l.class = "" THEN Undefined ELSE FetchStatic(l.value.items, name)
      [] l.type = "property" -> FetchProperty(l.value, name, l.class)
      [] l.type = "escaped" -> FetchProperty(l.value, StripSlashes(name), l.class)
      [] l.type \in {"assoc", "number"} ->
           IF l.value.kind # "array" THEN Undefined
           ELSE LET key == IF l.type = "assoc" THEN StripSlashes(name) ELSE name
                IN First(l.value.items,
                         {i \in DOMAIN l.value.items :
                             /\ l.value.items[i].number = (l.type = "number")
                             /\ l.value.items[i].key = key})

\* With a keyword, what it names becomes the value; its class is kept, or not.
Fetched(name, l, keepsClass) ==
    IF l.from = 0 THEN l
    ELSE LET v == Fetch(l, SubSeq(name, l.from, l.at - 1))
         IN [l EXCEPT !.value = v, !.class = IF keepsClass THEN ClassOf(v) ELSE "", !.from = 0]

To(l, state)          == [l EXCEPT !.state = state]
Begin(l, state, type) == [l EXCEPT !.state = state, !.type = type, !.from = l.at]

Name(name, l, c) ==
    CASE c = "[" -> To(Fetched(name, l, FALSE), 3)
      [] c = "-" -> [Fetched(name, l, TRUE) EXCEPT !.state = 2, !.type = "property"]
      [] c = ":" -> [Fetched(name, l, TRUE) EXCEPT !.state = 8, !.type = "static"]
      [] OTHER   -> l

\* Inside quotes, up to the same one.
InQuotes(name, l, c, escape, after) ==
    CASE c = "\\"    -> To(l, escape)
      [] c = l.quote -> To(Fetched(name, l, TRUE), after)
      [] OTHER       -> l

OpenQuote(l, c, state, type) ==
    IF c \in Quotes THEN [Begin(l, state, type) EXCEPT !.from = l.at + 1, !.quote = c] ELSE l

\* There is no class to find the static properties in: a fatal error of the script.
NoScope == 15

\* One character of a name.
Step(name, l, c) ==
    CASE l.state = 0 -> (CASE c = "$" -> [l EXCEPT !.from = l.at + 1]
                           [] c = ":" -> [l EXCEPT !.from = l.at, !.state = 7]
                           [] OTHER -> Name(name, [l EXCEPT !.from = l.at, !.state = 1], c))
      [] l.state = 1 -> Name(name, l, c)
      [] l.state = 2 -> (CASE c = ">" -> l
                           [] c = "{" -> To(l, 11)
                           [] OTHER -> Begin(l, 1, l.type))
      [] l.state = 8 -> IF c = ":" THEN l ELSE Begin(l, 1, l.type)
      [] l.state = 3 -> (CASE c \in Digits -> Begin(l, 6, "number")
                           [] c = "-" -> Begin(l, 9, l.type)
                           [] OTHER -> OpenQuote(l, c, 4, "assoc"))
      [] l.state = 9 -> IF c \in Digits THEN [l EXCEPT !.state = 6, !.type = "number"] ELSE l
      [] l.state = 4 -> InQuotes(name, l, c, 10, 5)
      [] l.state = 10 -> To(l, 4)
      [] l.state = 5 -> IF c = "]" THEN To(l, 1) ELSE l
      [] l.state = 6 -> IF c = "]" THEN To(Fetched(name, l, TRUE), 1) ELSE l
      [] l.state = 7 -> IF c # ":" THEN l
                        ELSE IF tree.class = "" THEN [l EXCEPT !.state = 1, !.from = 0]
                        ELSE IF tree.scope.class = "" THEN To(l, NoScope)
                        ELSE [l EXCEPT !.state = 1, !.from = l.at + 1, !.type = "static root",
                                       !.class = tree.scope.class]
      [] l.state = 11 -> OpenQuote(l, c, 12, "escaped")
      [] l.state = 12 -> InQuotes(name, l, c, 13, 14)
      [] l.state = 13 -> To(l, 12)
      [] l.state = 14 -> IF c = "}" THEN To(l, 1) ELSE l
      [] OTHER -> l
Advance(name, l, c) == [Step(name, l, c) EXCEPT !.at = l.at + 1]

-----------------------------------------------------------------------------
(* The client.                                                             *)

\* One of what is shown, with its name; what the client looks at next.
Offer(name, value, comesBack, page) ==
    /\ fullname' = name /\ sought' = value /\ plain' = comesBack
    /\ seen' = Shown(value, 0, page)

OfferSpecial(name, value, comesBack, page) ==
    value # Undefined /\ Offer(<<"$">> \o name, value, comesBack, page)

\* context_get has then answered before it comes to the other values.
OnlyReturned == tree.top /\ tree.special.included /\ tree.special.returned # Undefined

Context(page) ==
    /\ exported \notin {"looking", "failed"}
    /\ \/ OnlyReturned /\ OfferSpecial(ReturnName, tree.special.returned, TRUE, page)
       \/ ~OnlyReturned /\ OfferSpecial(BetweenName, tree.special.between, FALSE, page)
       \/ ~OnlyReturned /\ tree.top
          /\ OfferSpecial(ExceptionName, tree.special.raised, TRUE, page)
       \/ /\ ~OnlyReturned
          /\ \E k \in DOMAIN tree.variables :
                LET key == tree.variables[k].key
                IN Offer(<<"$">> \o key, FetchRoot(key), TRUE, page)
       \/ /\ ~OnlyReturned
          /\ \E k \in DOMAIN tree.statics :
                LET item == tree.statics[k]
                IN Offer(<<":", ":">> \o PropertyName(item, tree.class), item.value,
                         Sayable([kind |-> "array"], item) /\ tree.scope.class = tree.class, page)
    /\ exported' = "context" /\ runtimePage' = page
    /\ UNCHANGED <<tree, lex>>

ContextGetStale == Context(runtimePage)        \* mutant: the page of the last property

\* context_get; the client goes on with one of the variables it is shown.
ContextGet == Context(0)

\* property_get for the name, and a -p or without.
PropertyGet(name, page) ==
    /\ fullname' = name /\ runtimePage' = page
    /\ exported' = "looking" /\ lex' = Plain
    /\ UNCHANGED tree

\* A child that was shown, or a child of one that was shown with it.
GetChild ==
    /\ exported \in {"context", "property"} /\ HasItems(sought)
    /\ \E k \in DOMAIN seen :
          LET item == seen[k][2]
              name == ChildName(fullname, sought, item)
          IN \/ /\ PropertyGet(name, 0) /\ sought' = item.value
                /\ plain' = (plain /\ Sayable(sought, item))
             \/ \E j \in DOMAIN Shown(item.value, 1, 0) :
                   LET inner == Shown(item.value, 1, 0)[j][2]
                   IN /\ PropertyGet(ChildName(name, item.value, inner), 0)
                      /\ sought' = inner.value
                      /\ plain' = (plain /\ Sayable(sought, item) /\ Sayable(item.value, inner))
    /\ seen' = << >>

\* The next page, while the client has not seen as many as numchildren says.
NextPage ==
    /\ exported \in {"context", "property"}
    /\ Len(seen) < Len(Items(sought)) /\ runtimePage < MaxPage
    /\ PropertyGet(fullname, runtimePage + 1)
    /\ UNCHANGED <<sought, plain, seen>>

ReadName ==
    /\ exported = "looking" /\ lex.at <= Len(fullname)
    /\ lex' = Advance(fullname, lex, fullname[lex.at])
    /\ exported' = IF lex'.state = NoScope THEN "failed" ELSE "looking"
    /\ UNCHANGED <<tree, fullname, sought, plain, runtimePage, seen>>

\* The last keyword, and the answer: an error when there is no such property.
NameRead ==
    /\ exported = "looking" /\ lex.at > Len(fullname)
    /\ lex' = Fetched(fullname, lex, TRUE)
    /\ seen' = seen \o Shown(lex'.value, 0, runtimePage)
    /\ exported' = "property"
    /\ UNCHANGED <<tree, fullname, sought, plain, runtimePage>>

ExportNext == ContextGet \/ GetChild \/ NextPage \/ ReadName \/ NameRead

ExportSpec == ExportInit /\ [][ExportNext]_exportVars

-----------------------------------------------------------------------------
(* Properties.                                                             *)

\* The full name that a value is shown with is taken apart to that same value: whatever
\* its key, its class and the names above it; but for the three cases of Sayable(), a
\* static property of another class than the one that is executed, and the value of an
\* expression that is not done, which cannot be looked up.  (A variable whose name
\* begins that of a special value is shown as that value, and comes back as it.)
NamesComeBack ==
    plain => exported # "failed" /\ (exported = "property" => lex.value = sought)

\* The pages of a value, the first with the context or with the property and then one
\* after the other, show each of its children once, in their order.
PagesCoverOnce ==
    exported \in {"context", "property"} /\ plain =>
        LET all == [i \in DOMAIN Items(sought) |-> <<i, Items(sought)[i]>>]
        IN IF MaxDepth = 0 THEN seen = << >>
           ELSE /\ IsPrefix(seen, all)
                /\ Len(seen) = Min({Len(all), MaxChildren * (runtimePage + 1)})
=============================================================================
