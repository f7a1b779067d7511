----------------------------- MODULE Tokenizer -----------------------------
(***************************************************************************)
(* Tokenizer: from the characters of a line to its tokens.  A line is a    *)
(* sequence of characters; what matters of a character is its class.  The  *)
(* key words are a parameter, so that they can be short when the lines are *)
(* enumerated.                                                             *)
(***************************************************************************)
EXTENDS Integers, Sequences, FiniteSets, Functions, Optional

CONSTANTS
    Space, Letter, Digit, \* the characters with isspace, isalpha, isdigit
    Upper,                \* toupper, on the letters
    Keyword               \* from the key words, in capitals, to token types

Quote == "'"
Underscore == "_"

Punctuation ==
    [c \in {"*", ",", ";", "(", ")"} |->
        CASE c = "*" -> "STAR"
          [] c = "," -> "COMMA"
          [] c = ";" -> "SEMICOLON"
          [] c = "(" -> "LEFT_PAREN"
          [] c = ")" -> "RIGHT_PAREN"]

\* The signs belong to no other class, a key word has a type of its own.
ASSUME TokenizerAssumption ==
    /\ Letter \cap Digit = {} /\ Space \cap (Letter \cup Digit) = {}
    /\ ({Quote, Underscore} \cup DOMAIN Punctuation) \cap (Space \cup Letter \cup Digit) = {}
    /\ Upper \in [Letter -> Letter]
    /\ DOMAIN Keyword \subseteq Seq(Letter)
    /\ Range(Keyword) \subseteq {"SELECT", "FROM", "INSERT", "INTO", "VALUES"}

IdentifierStart == Letter \cup {Underscore}
IdentifierPart == Letter \cup Digit \cup {Underscore}

Token(type, lexeme) == [type |-> type, lexeme |-> lexeme]

classifyIdentifier(lexeme) ==
    LET uppercased == [k \in DOMAIN lexeme |->
                         IF lexeme[k] \in Letter THEN Upper[lexeme[k]] ELSE lexeme[k]]
    IN  IF uppercased \in DOMAIN Keyword THEN Keyword[uppercased] ELSE "IDENTIFIER"

\* Where a run of such characters ends that starts at i: behind its last one.
EndOf(input, i, chars) ==
    CHOOSE j \in i..(Len(input) + 1) :
        /\ \A k \in i..(j - 1) : input[k] \in chars
        /\ j = Len(input) + 1 \/ input[j] \notin chars

\* A token and the index behind it.
Read(token, next) == Some([token |-> token, next |-> next])

\* Mutant: a literal may end with the line.
MutantReadStringLiteral(input, i) ==
    LET chars == {input[k] : k \in DOMAIN input}
        end   == EndOf(input, i + 1, chars \ {Quote})
    IN  Read(Token("STRING_LITERAL", SubSeq(input, i + 1, end - 1)),
             IF end > Len(input) THEN end ELSE end + 1)

readStringLiteral(input, i) ==
    LET chars == {input[k] : k \in DOMAIN input}
        end   == EndOf(input, i + 1, chars \ {Quote})
    IN  IF end > Len(input)
        THEN nullopt
        ELSE Read(Token("STRING_LITERAL", SubSeq(input, i + 1, end - 1)), end + 1)

readIntegerLiteral(input, i) ==
    LET end == EndOf(input, i, Digit)
    IN  Read(Token("INTEGER_LITERAL", SubSeq(input, i, end - 1)), end)

readIdentifier(input, i) ==
    LET end    == EndOf(input, i, IdentifierPart)
        lexeme == SubSeq(input, i, end - 1)
    IN  Read(Token(classifyIdentifier(lexeme), lexeme), end)

\* One turn of the loop, at a character that is no space.
readToken(input, i) ==
    LET c == input[i] IN
      CASE c \in DOMAIN Punctuation -> Read(Token(Punctuation[c], <<c>>), i + 1)
        [] c = Quote                -> readStringLiteral(input, i)
        [] c \in Digit              -> readIntegerLiteral(input, i)
        [] c \in IdentifierStart    -> readIdentifier(input, i)
        [] OTHER                    -> nullopt

tokenize(input) ==
    LET from[i \in 1..(Len(input) + 1)] ==
          IF i > Len(input) THEN Some(<<>>)
          ELSE IF input[i] \in Space THEN from[i + 1]
          ELSE LET first == readToken(input, i)
                   rest  == from[first.value.next]
               IN  IF first.has_value /\ rest.has_value
                   THEN Some(<<first.value.token>> \o rest.value)
                   ELSE nullopt
    IN  from[1]

-----------------------------------------------------------------------------
(***************************************************************************)
(* What tokenize has to return, said of the line as a whole.               *)
(***************************************************************************)

\* A position is inside a literal when an odd number of quotes comes before it.
QuotesBefore(line, i) == Cardinality({k \in 1..(i - 1) : line[k] = Quote})
Inside(line, i) == line[i] # Quote /\ QuotesBefore(line, i) % 2 = 1

Legible(line) ==
    /\ QuotesBefore(line, Len(line) + 1) % 2 = 0
    /\ \A i \in DOMAIN line :
         \/ Inside(line, i)
         \/ line[i] \in Space \cup IdentifierPart \cup {Quote} \cup DOMAIN Punctuation

\* The characters before i that a word at i would belong to.
WordBefore(line, i) ==
    {k \in 1..(i - 1) : \A m \in k..(i - 1) :
        ~Inside(line, m) /\ line[m] \in IdentifierPart}

\* A token starts at a sign, at an opening quote, at the first character of a
\* word, and at the first character that is no digit of one that began with one.
StartsToken(line, i) ==
    /\ ~Inside(line, i)
    /\ \/ line[i] \in DOMAIN Punctuation
       \/ line[i] = Quote /\ QuotesBefore(line, i) % 2 = 0
       \/ line[i] \in IdentifierPart /\ WordBefore(line, i) = {}
       \/ /\ line[i] \in IdentifierStart
          /\ WordBefore(line, i) # {}
          /\ \A k \in WordBefore(line, i) : line[k] \in Digit

\* The characters of the line that end up in tokens, and those of a token.
Kept(line) ==
    LET keeps[i \in 0..Len(line)] ==
          IF i = 0 THEN <<>>
          ELSE IF line[i] \in Space /\ ~Inside(line, i) THEN keeps[i - 1]
          ELSE Append(keeps[i - 1], line[i])
    IN  keeps[Len(line)]

Source(token) ==
    IF token.type = "STRING_LITERAL"
    THEN <<Quote>> \o token.lexeme \o <<Quote>>
    ELSE token.lexeme

Sources(tokens) ==
    LET upTo[n \in 0..Len(tokens)] ==
          IF n = 0 THEN <<>> ELSE upTo[n - 1] \o Source(tokens[n])
    IN  upTo[Len(tokens)]

=============================================================================
