------------------------------- MODULE MCRepl -------------------------------
\* Lines for model checking.  A key word is one capital letter: S for SELECT, F
\* FROM, I INSERT, N INTO, V VALUES.  The table is u, its columns are a and b.
EXTENDS Repl

MCSpace == {" "}
MCDigit == {"1"}
MCUpper == [c \in {"S", "s", "F", "I", "N", "V", "u", "a", "b"} |->
              IF c = "s" THEN "S" ELSE c]
MCLetter == DOMAIN MCUpper
MCKeyword == [k \in {<<"S">>, <<"F">>, <<"I">>, <<"N">>, <<"V">>} |->
                CASE k = <<"S">> -> "SELECT"
                  [] k = <<"F">> -> "FROM"
                  [] k = <<"I">> -> "INSERT"
                  [] k = <<"N">> -> "INTO"
                  [] k = <<"V">> -> "VALUES"]

MCUsers == <<"u">>
MCSchema == <<<<"a">>, <<"b">>>>
MCHelpLine == <<".", "h">>
MCExitLines == {<<"b">>, <<".", "b">>}

\* Three statements in words, and the lines that are one word away from one.
Select == <<"S", "*", "F", "u", ";">>
SelectColumns == <<"S", "b", ",", "a", "F", "u", ";">>
Insert == <<"I", "N", "u", "V", "(", "1", ",", "L", ")", ";">>
Words == {"S", "F", "I", "V", "u", "a", "*", ",", ";", "(", ")", "1", "L"}

Dropped(s, i) == SubSeq(s, 1, i - 1) \o SubSeq(s, i + 1, Len(s))
Added(s, i, w) == SubSeq(s, 1, i - 1) \o <<w>> \o SubSeq(s, i, Len(s))
Near(s) ==
    {s}
    \cup {Dropped(s, i) : i \in DOMAIN s}
    \cup {[s EXCEPT ![i] = w] : i \in DOMAIN s, w \in Words}
    \cup {Added(s, i, w) : i \in 1..(Len(s) + 1), w \in Words}

\* Words with a space behind each; L stands for a literal.
Spaced(s) ==
    LET upTo[n \in 0..Len(s)] ==
          IF n = 0 THEN <<>>
          ELSE upTo[n - 1] \o (IF s[n] = "L" THEN <<"'", "a", "'">> ELSE <<s[n]>>)
                           \o <<" ">>
    IN  upTo[Len(s)]

ShortLines ==
    UNION {[1..n -> {" ", "'", "1", "a", "_", ",", "-"}] : n \in 0..3}

InsertOf(first, second) ==
    <<"I", " ", "N", " ", "u", " ", "V", "(">> \o first \o <<",">> \o second \o <<")", ";">>
Literal(s) == <<"'">> \o s \o <<"'">>

\* Rows with empty values, with a space, a quoted separator, a comma in a literal,
\* too long for a page; a lower-case key word; statements without spaces.
OtherLines ==
    { InsertOf(Literal(<<>>), Literal(<<>>)),
      InsertOf(Literal(<<"|">>), Literal(<<"a">>)),
      InsertOf(Literal(<<"a", " ", ",", ";">>), <<"1", "1">>),
      InsertOf(Literal([i \in 1..9 |-> "a"]), <<"1">>),
      <<"s", "*", "F", " ", "u", ";">>,
      <<"S", "a", ",", "b", ",", "a", "F", "u", ";">>,
      <<"S", " ", "a", "F", " ", "u", ";">>,
      MCHelpLine,
      <<".", "b">> }

MCLines ==
    ShortLines
    \cup {Spaced(s) : s \in Near(Select) \cup Near(SelectColumns) \cup Near(Insert)}
    \cup OtherLines

=============================================================================
