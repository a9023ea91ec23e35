----------------------------- MODULE LpdOptions -----------------------------
(***************************************************************************)
(* The options behind the '?' of a device name, as main() of lpd and of    *)
(* lpdstat reads them: name=value, joined by '+'.  A name ends only at '=' *)
(* and a value only at '+', so what the loop makes of an option that lacks *)
(* the one or the other depends on what follows it.                        *)
(*                                                                         *)
(* The text is a sequence of words and the two separators.  The word       *)
(* "long" stands for 254 characters or more: more than name[] and value[]  *)
(* hold.  "on" stands for on, yes and true, a number for any above 0.      *)
(***************************************************************************)
EXTENDS Integers, SequencesExt, FiniteSetsExt

CONSTANT Texts     \* the option texts looked at

ASSUME TextsAssumption == Texts \subseteq Seq(STRING)

VARIABLES
    text,          \* the options as they were given
    rest,          \* what the pointer options still has before it
    name, value,   \* the two buffers
    opts,          \* the variables that the options set
    parse          \* where the loop is

parser == <<text, rest, name, value, opts, parse>>

Flags   == {"banner", "manual_copies", "sanitize_title"}
Options == Flags \union {"format", "order", "reserve", "timeout"}

Defaults == [o \in Options |->
    CASE o = "banner" -> "off"
      [] o = "format" -> "l"
      [] o = "order" -> "control,data"
      [] o = "reserve" -> "any"
      [] o \in {"manual_copies", "sanitize_title"} -> "on"
      [] o = "timeout" -> "300"]

-----------------------------------------------------------------------------
(* s up to the first c, and what follows that c.                           *)
Before(s, c) ==
    LET i == SelectInSeq(s, LAMBDA w : w = c)
    IN  IF i = 0 THEN s ELSE SubSeq(s, 1, i - 1)

After(s, c) == SubSeq(s, Len(Before(s, c)) + 2, Len(s))

(* The loops that fill name[] and value[] take a character only while      *)
(* there is room, and come to the end of a text they do not take never.    *)
Fits(s) == ~Contains(s, "long")

(* The first letter of a word, where format= takes it for a format.        *)
FormatOf == [w \in {"on", "control,data", "data,control", "rfc1179"} |->
    CASE w = "on" -> "o" [] w = "control,data" -> "c"
      [] w = "data,control" -> "d" [] w = "rfc1179" -> "r"]

(* What the option o becomes, set to v, from old.                          *)
Meaning(o, v, old) ==
    CASE o \in Flags ->
            IF v \in {<<>>, <<"on">>} THEN "on" ELSE "off"
      [] o = "format" ->
            IF v # <<>> /\ Head(v) \in DOMAIN FormatOf THEN FormatOf[Head(v)] ELSE old
      [] o = "order" ->
            IF v \in {<<"control,data">>, <<"data,control">>} THEN Head(v) ELSE old
      [] o = "reserve" ->
            IF v \in {<<>>, <<"on">>, <<"rfc1179">>} THEN "rfc1179"
            ELSE IF v = <<"any">> THEN "any" ELSE "none"
      [] o = "timeout" ->
            IF v # <<>> /\ Head(v) = "5" THEN "5" ELSE old

-----------------------------------------------------------------------------
ParserInit ==
    /\ text \in Texts
    /\ rest = text
    /\ name = <<>> /\ value = <<>>
    /\ opts = Defaults
    /\ parse = "name"

(* Mutant: the pointer stays at the '='.                                   *)
ReadNameStays ==
    /\ parse = "name" /\ rest # <<>>
    /\ Fits(Before(rest, "="))
    /\ name' = Before(rest, "=")
    /\ rest' = SubSeq(rest, Len(name') + 1, Len(rest))
    /\ parse' = "set" /\ value' = <<>>
    /\ UNCHANGED <<text, opts>>

(* The name, and the '=' after it.  Without one there is no value.         *)
ReadName ==
    /\ parse = "name" /\ rest # <<>>
    /\ Fits(Before(rest, "="))
    /\ name' = Before(rest, "=")
    /\ rest' = After(rest, "=")
    /\ IF Contains(rest, "=")
       THEN parse' = "value" /\ UNCHANGED value
       ELSE parse' = "set" /\ value' = <<>>
    /\ UNCHANGED <<text, opts>>

(* Mutant: the value goes on to the next '=', not to the '+'.              *)
ReadValueToName ==
    /\ parse = "value"
    /\ Fits(Before(rest, "="))
    /\ value' = Before(rest, "=")
    /\ rest' = After(rest, "=")
    /\ parse' = "set"
    /\ UNCHANGED <<text, name, opts>>

(* The value, and the '+' after it.                                        *)
ReadValue ==
    /\ parse = "value"
    /\ Fits(Before(rest, "+"))
    /\ value' = Before(rest, "+")
    /\ rest' = After(rest, "+")
    /\ parse' = "set"
    /\ UNCHANGED <<text, name, opts>>

(* The option is processed; an unknown name sets nothing.                  *)
SetOption ==
    /\ parse = "set"
    /\ opts' = [o \in Options |->
                  IF name = <<o>> THEN Meaning(o, value, opts[o]) ELSE opts[o]]
    /\ parse' = "name"
    /\ UNCHANGED <<text, rest, name, value>>

EndOptions ==
    /\ parse = "name" /\ rest = <<>>
    /\ parse' = "parsed"
    /\ UNCHANGED <<text, rest, name, value, opts>>

ParserNext == ReadName \/ ReadValue \/ SetOption \/ EndOptions

ParserSpec == ParserInit /\ [][ParserNext]_parser /\ WF_parser(ParserNext)

-----------------------------------------------------------------------------
(* Every variable has its type.                                            *)
ParserOK ==
    /\ text \in Seq(STRING) /\ rest \in Seq(STRING)
    /\ name \in Seq(STRING) /\ value \in Seq(STRING)
    /\ DOMAIN opts = Options
    /\ parse \in {"name", "value", "set", "parsed"}

(* Where the fields of the text begin, and the field that begins at i.     *)
Starts   == {i \in 1..Len(text) : i = 1 \/ text[i - 1] = "+"}
Field(i) == Before(SubSeq(text, i, Len(text)), "+")

(* The fields that set o: its name, alone at the end of the text or with a *)
(* value that o can take.                                                  *)
Says(o) ==
    {i \in Starts :
        /\ Before(Field(i), "=") = <<o>>
        /\ Contains(Field(i), "=") \/ i = Len(text)
        /\ Meaning(o, After(Field(i), "="), "kept") # "kept"}

(* Once the text is read an option has what the last field that sets it    *)
(* says, or its default, as long as every field but the last has its '='.  *)
(* Whatever the text is, no option has a value that no field gives it.     *)
OptionsAsWritten ==
    parse = "parsed" =>
        \A o \in Options :
            LET said(i) == Meaning(o, After(Field(i), "="), "kept")
            IN  /\ opts[o] \in {Defaults[o]} \union {said(i) : i \in Says(o)}
                /\ (\A i \in Starts : Contains(Field(i), "=") \/ i + Len(Field(i)) > Len(text))
                      => opts[o] = IF Says(o) = {} THEN Defaults[o]
                                   ELSE said(Max(Says(o)))

=============================================================================
