----------------------------- MODULE HttpParser -----------------------------
(***************************************************************************)
(* httpParser: how a request is cut out of the text of one read, and how a *)
(* message is printed.  A text is a sequence of pieces: one special        *)
(* character, or a run of ordinary ones; a version is one piece, too.      *)
(* Beast's own parser, which reads the same text before, is external; the  *)
(* session uses its verdict only.                                          *)
(***************************************************************************)
EXTENDS Integers, Sequences
LOCAL INSTANCE FiniteSetsExt

CONSTANT Small  \* pieces with capital letters -> the same in small ones

ASSUME SmallAssumption == Small \in [DOMAIN Small -> STRING]

KnownMethods == {"GET", "POST", "PUT", "DELETE", "HEAD", "CONNECT", "TRACE", "OPTIONS"}
NoMethod == "unknown"  \* verb::unknown, whose method_string() is ""

(* The first place of the piece c from i on, or the place behind the text. *)
Find(text, c, i) == Min({j \in i..Len(text) : text[j] = c} \union {Len(text) + 1})

LineEnds(text, i) == i < Len(text) /\ text[i] = "\r" /\ text[i + 1] = "\n"

(***************************************************************************)
(* The header lines from place i on, up to the empty one, and the body     *)
(* behind it.  A line that no CR LF ends is dropped, and there is no body. *)
(* One line, from place j on; rest[k] is what follows from k on.           *)
(***************************************************************************)
HeaderLine(text, rest, j) ==
  LET end == Find(text, "\r", j)
  IN  IF ~LineEnds(text, end)
      THEN [lines |-> << >>, body |-> << >>]
      ELSE IF end = j
      THEN [lines |-> << >>, body |-> SubSeq(text, j + 2, Len(text))]
      ELSE [rest[end + 2] EXCEPT !.lines = <<SubSeq(text, j, end - 1)>> \o @]

HeaderSection(text, i) ==
  LET from[j \in Nat] == HeaderLine(text, from, j)
  IN  from[i]

(* mutant: the value loses its first character. *)
LateField(line) ==
  LET colon == Find(line, ":", 1)
  IN  [name |-> SubSeq(line, 1, colon - 1), value |-> SubSeq(line, colon + 3, Len(line))]

(* A name and a value from a header line: the value starts one character   *)
(* behind the colon's next, whatever that one is.                          *)
Field(line) ==
  LET colon == Find(line, ":", 1)
  IN  [name |-> SubSeq(line, 1, colon - 1), value |-> SubSeq(line, colon + 2, Len(line))]

HasColon(line) == Find(line, ":", 1) <= Len(line)

(* substr(pos + 2) throws std::out_of_range when nothing follows ":".      *)
FieldThrows(line) == Find(line, ":", 1) = Len(line)

(* External: set leaves out the blanks around a value. *)
Blanks == {" ", "\t"}

Trim(value) ==
  LET solid == {i \in DOMAIN value : value[i] \notin Blanks}
  IN  IF solid = {} THEN << >> ELSE SubSeq(value, Min(solid), Max(solid))

(* Names of fields are compared without regard to capital letters.         *)
InSmall(name) ==
  [i \in DOMAIN name |-> IF name[i] \in DOMAIN Small THEN Small[name[i]] ELSE name[i]]

SameName(name, other) == InSmall(name) = InSmall(other)

(* req.set: a field replaces those of its name and is the last.            *)
SetField(fields, field) ==
  LET others[i \in 0..Len(fields)] ==
        IF i = 0 THEN << >>
        ELSE IF SameName(fields[i].name, field.name) THEN others[i - 1]
        ELSE Append(others[i - 1], fields[i])
  IN  Append(others[Len(fields)], [field EXCEPT !.value = Trim(@)])

(* The fields of the lines, one line after the other. *)
FieldsOf(lines) ==
  LET upTo[i \in 0..Len(lines)] ==
        IF i = 0 THEN << >>
        ELSE IF HasColon(lines[i]) THEN SetField(upTo[i - 1], Field(lines[i]))
        ELSE upTo[i - 1]
  IN  upTo[Len(lines)]

(***************************************************************************)
(* getFields.  Reading stops at a method it does not know, before the      *)
(* target, and at a version line that no CR LF ends.  The version itself   *)
(* is not kept: a request is always of version 1.1.                        *)
(***************************************************************************)
getFields(text) ==
  LET sp1 == Find(text, " ", 1)
      sp2 == Find(text, " ", sp1 + 1)
      eol == Find(text, "\r", sp2 + 1)
      known == sp1 = 2 /\ Len(text) >= 2 /\ text[1] \in KnownMethods
      headers == IF known /\ LineEnds(text, eol) THEN HeaderSection(text, eol + 2)
                 ELSE [lines |-> << >>, body |-> << >>]
  IN  [method |-> IF known THEN text[1] ELSE NoMethod,
       target |-> IF known THEN SubSeq(text, sp1 + 1, sp2 - 1) ELSE << >>,
       fields |-> FieldsOf(headers.lines),
       body   |-> headers.body,
       throws |-> \E i \in DOMAIN headers.lines : FieldThrows(headers.lines[i])]

(* A request as operator<< prints it: its lines, the empty one, its body.  *)
Serialize(req) ==
  LET print[i \in 0..Len(req.fields)] ==
        IF i = 0 THEN <<req.method, " ">> \o req.target \o <<" ", "HTTP/1.1", "\r", "\n">>
        ELSE print[i - 1] \o req.fields[i].name \o <<":", " ">> \o req.fields[i].value
             \o <<"\r", "\n">>
  IN  print[Len(req.fields)] \o <<"\r", "\n">> \o req.body

(***************************************************************************)
(* External: Beast's request_parser::put.  It parses the start line as far *)
(* as the text goes, part by part, and finds fault with a part at once;    *)
(* the version takes eight characters, the end of its line two.  Then it   *)
(* wants the rest of the header section; while that is not whole, a fault  *)
(* in it is need_more here, as the session refuses both.  It does not look *)
(* at the body, and what the fields mean to it (a length) is left out.     *)
(***************************************************************************)
NotInTarget == {" ", "\t", "\r", "\n"}
NotInToken == NotInTarget \union {"/", ":"}

(* The first place from i on of one of the pieces, or the one behind.      *)
FirstOf(text, pieces, i) == Min({j \in i..Len(text) : text[j] \in pieces} \union {Len(text) + 1})

(* The number of characters from place i on.                               *)
Characters(text, i) == MapThenSumSet(LAMBDA j : Len(text[j]), i..Len(text))

EndsSection(text, i) == LineEnds(text, i) /\ LineEnds(text, i + 2)

(* A field is a name, a colon, and a value; a line that starts with a      *)
(* blank goes on with the value of the line before.                        *)
IsField(line) ==
  LET colon == FirstOf(line, NotInToken, 1)
  IN  colon \in 2..Len(line) /\ line[colon] = ":"

LinesAreFields(lines) ==
  \A i \in DOMAIN lines :
    /\ IsField(lines[i]) \/ (i > 1 /\ lines[i][1] \in Blanks)
    /\ \A k \in DOMAIN lines[i] : lines[i][k] # "\n"

(* The rest of the section, behind the CR LF at eol.                       *)
SectionVerdict(text, eol) ==
  IF \A i \in DOMAIN text : ~EndsSection(text, i) THEN "need_more"
  ELSE IF \E i \in eol..Len(text) : /\ text[i] = "\r" /\ ~LineEnds(text, i)
                                    /\ \A k \in 1..i : ~EndsSection(text, k)
  THEN "bad_line_ending"
  ELSE IF LinesAreFields(HeaderSection(text, eol + 2).lines) THEN "none" ELSE "bad_field"

BeastVerdict(text) ==
  LET sp1 == FirstOf(text, NotInToken, 1)
      sp2 == FirstOf(text, NotInTarget, sp1 + 1)
  IN  IF sp1 > Len(text) THEN "need_more"
      ELSE IF sp1 = 1 \/ text[sp1] # " " THEN "bad_method"
      ELSE IF sp2 > Len(text) THEN "need_more"
      ELSE IF sp2 = sp1 + 1 \/ text[sp2] # " " THEN "bad_target"
      ELSE IF Characters(text, sp2 + 1) < 8 THEN "need_more"
      ELSE IF text[sp2 + 1] \notin {"HTTP/1.0", "HTTP/1.1"} THEN "bad_version"
      ELSE IF Characters(text, sp2 + 1) < 10 THEN "need_more"
      ELSE IF ~LineEnds(text, sp2 + 2) THEN "bad_version"
      ELSE SectionVerdict(text, sp2 + 2)
=============================================================================
