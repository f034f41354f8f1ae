---------------------------- MODULE ConfigTokens ----------------------------
(***************************************************************************)
(* ParseToken of NginxConfigParser: the tokens of a configuration text.  A *)
(* text is a sequence of pieces, as in NginxConfig.                        *)
(***************************************************************************)
EXTENDS Integers, Sequences
LOCAL INSTANCE FiniteSetsExt
LOCAL INSTANCE Functions

CONSTANT Pieces  \* what texts are made of

ASSUME PiecesAssumption ==
  {" ", "\t", "\n", "\r", ";", "{", "}", "#", "'", "\"", "\\", "n", "t"} \subseteq Pieces

Blanks == {" ", "\t", "\n", "\r"}
EndsWord == Blanks \union {";", "{", "}", "'", "\""}
Unescaped == [p \in {"'", "\"", "n", "t", "\\"} |->
                CASE p = "n" -> "\n" [] p = "t" -> "\t" [] OTHER -> p]

Words == {"NORMAL", "QUOTED_STRING"}
TokenTypes == Words \union {"START", "START_BLOCK", "END_BLOCK", "COMMENT",
                            "STATEMENT_END", "EOF", "ERROR", "WHITESPACE"}

Token(type, value, next) == [type |-> type, value |-> value, next |-> next]

(* The numbers of 1..n that are in S, in their order.                      *)
InOrder(S, n) ==
  LET upTo[k \in Nat] == IF k = 0 THEN << >>
                         ELSE IF k \in S THEN Append(upTo[k - 1], k) ELSE upTo[k - 1]
  IN  upTo[n]

Selected(s, S) == LET at == InOrder(S, Len(s)) IN [i \in DOMAIN at |-> s[at[i]]]

(* The place of the first piece from i on that is one of stops, or behind. *)
SkipTo(text, i, stops) ==
  Min({j \in i..Len(text) : text[j] \in stops} \union {Len(text) + 1})

(* Which places of the quoted string opened at from a backslash escapes.   *)
Escapes(text, from) ==
  LET escaped[i \in Nat] == /\ i > from + 1
                            /\ text[i - 1] = "\\" /\ ~escaped[i - 1]
                            /\ text[i] \in DOMAIN Unescaped
  IN  escaped

(***************************************************************************)
(* A quoted string opened at from: the value keeps its quotes, a backslash *)
(* before one of five pieces is dropped and the piece translated; what     *)
(* follows the closing quote must be a blank, ";" or "{".                  *)
(***************************************************************************)
QuotedString(text, from) ==
  LET escaped == Escapes(text, from)
      close == {i \in (from + 1)..(Len(text) - 1) : text[i] = text[from] /\ ~escaped[i]}
      kept == InOrder({i \in from..Min(close) : ~escaped[i + 1]}, Min(close))
      value == [k \in DOMAIN kept |-> LET i == kept[k]
                  IN  IF escaped[i] THEN Unescaped[text[i]] ELSE text[i]]
  IN  IF close # {} /\ text[Min(close) + 1] \in Blanks \union {";", "{"}
      THEN Token("QUOTED_STRING", value, Min(close) + 1)
      ELSE Token("ERROR", << >>, Len(text) + 1)

(* ParseToken.  Words, blanks and comments that the file ends are dropped. *)
ParseToken(text, from) ==
  LET upTo(next, type, skipped) ==
        IF next > Len(text) THEN Token("EOF", << >>, next)
        ELSE Token(type, SubSeq(text, from, next - 1), next + skipped)
      c == text[from]
  IN  IF from > Len(text) THEN Token("EOF", << >>, from)
      ELSE CASE c = "{" -> Token("START_BLOCK", <<c>>, from + 1)
             [] c = "}" -> Token("END_BLOCK", <<c>>, from + 1)
             [] c = ";" -> Token("STATEMENT_END", <<c>>, from + 1)
             [] c \in {"'", "\""} -> QuotedString(text, from)
             [] c = "#" -> upTo(SkipTo(text, from, {"\n", "\r"}), "COMMENT", 1)
             [] c \in Blanks -> upTo(SkipTo(text, from, Range(text) \ Blanks), "WHITESPACE", 0)
             [] OTHER -> upTo(SkipTo(text, from, EndsWord), "NORMAL", 0)

(***************************************************************************)
(* All the tokens from place i on, up to the end of the file or a mistake; *)
(* rest[j] are those from j on.                                            *)
(***************************************************************************)
TokenAndRest(text, rest, i) ==
  LET t == ParseToken(text, i)
  IN  IF t.type \in {"EOF", "ERROR"} THEN <<t>> ELSE <<t>> \o rest[t.next]

TokensFrom(text, i) ==
  LET from[j \in Nat \ {0}] == TokenAndRest(text, from, j)
  IN  from[i]

(* Without blanks and comments.                                            *)
Meaningful(tokens) ==
  Selected(tokens, {k \in DOMAIN tokens : tokens[k].type \notin {"COMMENT", "WHITESPACE"}})
=============================================================================
