--------------------------------- MODULE Jsmn ---------------------------------
(***************************************************************************)
(* jsmn.c, the tokenizer of request bodies.  jsmn_parse goes through the   *)
(* body once and fills an array of tokens; a container gets its end when   *)
(* its closing bracket is found.  One step per character, with the         *)
(* position in the switch statements as the mode of the parser.            *)
(*                                                                         *)
(* The body is chosen character by character as it is read.  A character   *)
(* is a bracket, a quote, a backslash, a separator (white space, colon or  *)
(* comma), a character no primitive may contain, or a word: words stand    *)
(* for the text of keys and values and count as one character.             *)
(* Token numbers start at 1 here, positions at 0 as in the code; -1 is an  *)
(* unset position and 0 the number of no token.                            *)
(***************************************************************************)
EXTENDS Integers, Sequences, FiniteSetsExt

CONSTANTS
  Words,       \* words that occur in bodies
  Escapable,   \* words that may follow a backslash
  NumTokens,   \* size of the token array
  MayFollow(_, _)  \* MayFollow(s, c): bodies that begin with s and then c are explored

NUL == "NUL"

Marks == {"{", "}", "[", "]", "quote", "backslash", "separator", "control"}

Chars == Marks \cup Words

ASSUME JsmnAssumption ==
  /\ Escapable \subseteq Words
  /\ NumTokens \in Nat
  /\ Words \cap (Marks \cup {NUL}) = {}

VARIABLES
  js,        \* the body as far as it has been read
  pos,       \* parser->pos
  tokens,    \* the tokens allocated so far, parser->toknext of them
  toksuper,  \* parser->toksuper
  mode,      \* where the parser is, or the result of jsmn_parse
  start      \* start of the string or primitive being read

parserVars == <<js, pos, tokens, toksuper, mode, start>>

Scanning == {"value", "string", "escape", "primitive"}
Errors == {"INVAL", "NOMEM", "PART"}

\* jsmn_init.
ParserInit ==
  /\ js = <<>>
  /\ pos = 0
  /\ tokens = <<>>
  /\ toksuper = 0
  /\ mode = "value"
  /\ start = 0

\* The character at pos is c.
Reading(c) ==
  IF pos < Len(js)
    THEN c = js[pos + 1] /\ js' = js
    ELSE MayFollow(js, c) /\ js' = Append(js, c)

Token(type, from, to) == [type |-> type, start |-> from, end |-> to, size |-> 0]

\* Mutant: only the members of an array are counted.
CountedInArrays(toks) ==
  IF toksuper = 0 \/ toks[toksuper].type = "OBJECT" THEN toks
  ELSE [toks EXCEPT ![toksuper].size = @ + 1]

\* tokens[parser->toksuper].size++, unless there is no container.
Counted(toks) == IF toksuper = 0 THEN toks ELSE [toks EXCEPT ![toksuper].size = @ + 1]

IsOpen(t) == t.start # -1 /\ t.end = -1

\* The last token that is still open, or 0.
LastOpen(toks) == Max({0} \cup {i \in DOMAIN toks : IsOpen(toks[i])})

\* '{' and '['.
Open(c) ==
  /\ mode = "value"
  /\ c \in {"{", "["}
  /\ Reading(c)
  /\ IF Len(tokens) = NumTokens
       THEN /\ mode' = "NOMEM"
            /\ UNCHANGED <<pos, tokens, toksuper>>
       ELSE /\ tokens' = Append(Counted(tokens), Token(IF c = "{" THEN "OBJECT" ELSE "ARRAY", pos, -1))
            /\ toksuper' = Len(tokens) + 1
            /\ pos' = pos + 1
            /\ UNCHANGED mode
  /\ UNCHANGED start

\* '}' and ']': close the last open token, whose container becomes the current
\* one again.
Close(c) ==
  LET i == LastOpen(tokens)
  IN  /\ mode = "value"
      /\ c \in {"}", "]"}
      /\ Reading(c)
      /\ IF i = 0 \/ tokens[i].type # (IF c = "}" THEN "OBJECT" ELSE "ARRAY")
           THEN mode' = "INVAL" /\ UNCHANGED <<pos, tokens, toksuper>>
           ELSE /\ tokens' = [tokens EXCEPT ![i].end = pos + 1]
                /\ toksuper' = LastOpen(tokens')
                /\ pos' = pos + 1
                /\ UNCHANGED mode
      /\ UNCHANGED start

Skip(c) ==
  /\ mode = "value"
  /\ c = "separator"
  /\ Reading(c)
  /\ pos' = pos + 1
  /\ UNCHANGED <<tokens, toksuper, mode, start>>

\* A string token lies between its quotes; jsmn_parse counts it afterwards.
Leaf(type, from, to) ==
  IF Len(tokens) = NumTokens
    THEN mode' = "NOMEM" /\ UNCHANGED tokens
    ELSE mode' = "value" /\ tokens' = Append(Counted(tokens), Token(type, from, to))

BeginString(c) ==
  /\ mode = "value"
  /\ c = "quote"
  /\ Reading(c)
  /\ mode' = "string"
  /\ start' = pos
  /\ pos' = pos + 1
  /\ UNCHANGED <<tokens, toksuper>>

\* jsmn_parse_string, one character.
InString(c) ==
  /\ mode = "string"
  /\ Reading(c)
  /\ CASE c = "quote"     -> Leaf("STRING", start + 1, pos)
       [] c = "backslash" -> mode' = "escape" /\ UNCHANGED tokens
       [] c = NUL         -> mode' = "PART" /\ UNCHANGED tokens
       [] OTHER           -> UNCHANGED <<mode, tokens>>
  /\ pos' = IF mode' \in Errors THEN start ELSE pos + 1
  /\ UNCHANGED <<toksuper, start>>

\* The character after a backslash.
InEscape(c) ==
  /\ mode = "escape"
  /\ Reading(c)
  /\ mode' = IF c \in {"quote", "backslash"} \cup Escapable THEN "string" ELSE "INVAL"
  /\ pos' = IF mode' = "INVAL" THEN start ELSE pos + 1
  /\ UNCHANGED <<tokens, toksuper, start>>

\* Every other character begins a primitive, which jsmn_parse_primitive reads
\* from that character on.
BeginPrimitive(c) ==
  /\ mode = "value"
  /\ c \in {"backslash", "control"} \cup Words
  /\ Reading(c)
  /\ mode' = "primitive"
  /\ start' = pos
  /\ UNCHANGED <<pos, tokens, toksuper>>

\* jsmn_parse_primitive, one character; the delimiter is left to jsmn_parse.
InPrimitive(c) ==
  /\ mode = "primitive"
  /\ Reading(c)
  /\ CASE c \in {"separator", "]", "}", NUL} -> Leaf("PRIMITIVE", start, pos)
       [] c = "control" -> mode' = "INVAL" /\ UNCHANGED tokens
       [] OTHER         -> UNCHANGED <<mode, tokens>>
  /\ pos' = CASE mode' \in Errors -> start [] mode' = "value" -> pos [] OTHER -> pos + 1
  /\ UNCHANGED <<toksuper, start>>

\* The end of the body: no token may be open.
EndOfBody ==
  /\ mode = "value"
  /\ Reading(NUL)
  /\ mode' = IF LastOpen(tokens) = 0 THEN "SUCCESS" ELSE "PART"
  /\ UNCHANGED <<pos, tokens, toksuper, start>>

ParserStep ==
  \/ \E c \in Chars : Open(c) \/ Close(c) \/ Skip(c) \/ BeginString(c) \/ BeginPrimitive(c)
  \/ \E c \in Chars \cup {NUL} : InString(c) \/ InEscape(c) \/ InPrimitive(c)
  \/ EndOfBody

-------------------------------------------------------------------------------
(* What the tokens say about the body *)

\* Token j lies inside token i.
Inside(j, i) == tokens[i].start < tokens[j].start /\ tokens[j].end <= tokens[i].end

Children(i) ==
  {j \in DOMAIN tokens : Inside(j, i) /\ ~ \E k \in DOMAIN tokens : Inside(j, k) /\ Inside(k, i)}

\* What skip_item and find_key build on.  After a successful parse any two tokens
\* are nested or disjoint, a token comes after the ones it lies in, and the size
\* of a container is the number of its direct members.  This rests on
\* parser->toksuper, in whose size a token is counted, being the innermost open
\* container, although closing one only looks at the tokens and keeps no stack.
TokensFormTree ==
  /\ mode \in Scanning => toksuper = LastOpen(tokens)
  /\ mode = "SUCCESS" =>
       \A i \in DOMAIN tokens :
         /\ tokens[i].size = Cardinality(Children(i))
         /\ \A j \in DOMAIN tokens : i < j => Inside(j, i) \/ tokens[i].end <= tokens[j].start
===============================================================================
