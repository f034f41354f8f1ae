---------------------------- MODULE ConfigParser ----------------------------
(***************************************************************************)
(* NginxConfigParser: reads a configuration text token by token and builds *)
(* the tree of NginxConfig.  A step is one turn of the loop in Parse.  The *)
(* caller keeps the tree whether Parse returns true or false: main starts  *)
(* the server from it, and the config_parser program prints it.            *)
(***************************************************************************)
EXTENDS ConfigGrammar

CONSTANT TextsRead  \* the configuration texts that are parsed

ASSUME TextsReadAssumption == TextsRead \subseteq Seq(Pieces)

VARIABLES
  text, pos,      \* the stream: the text and where the next token starts
  last, second,   \* last_token_type, second_last_token_type
  depth, stack,   \* depth, config_stack (the top is the last element)
  config,         \* the tree built so far
  outcome,        \* "reading", then what Parse returned: "valid", "invalid"
  printed         \* the tree whose text is read, << >> for a text of a file

vars == <<text, pos, last, second, depth, stack, config, outcome, printed>>

-----------------------------------------------------------------------------
Fresh == << << >> >>   \* the tree of a new NginxConfig: one block, no statement

Init ==
  /\ text \in TextsRead /\ pos = 1
  /\ last = "START" /\ second = "START"
  /\ depth = 0 /\ stack = <<1>> /\ config = Fresh
  /\ outcome = "reading"
  /\ printed = << >>

(* The last token, blanks apart, is of one of the types.                   *)
After(types) == last \in types \/ (last = "WHITESPACE" /\ second \in types)

top == stack[Len(stack)]

Read(token) ==
  /\ pos' = token.next
  /\ last' = token.type /\ second' = last
  /\ UNCHANGED <<text, outcome, printed>>

Comment(token) ==
  /\ token.type = "COMMENT"
  /\ pos' = token.next
  /\ UNCHANGED <<text, last, second, depth, stack, config, outcome, printed>>

Whitespace(token) ==
  /\ token.type = "WHITESPACE"
  /\ pos' = token.next
  /\ IF last = "WHITESPACE" THEN UNCHANGED <<last, second>>
     ELSE last' = "WHITESPACE" /\ second' = last
  /\ UNCHANGED <<text, depth, stack, config, outcome, printed>>

WordFits == last \in {"START", "WHITESPACE", "STATEMENT_END", "START_BLOCK", "END_BLOCK"}

(* mutant: every word opens a statement.                                   *)
OnlyNewStatements(token) ==
  /\ token.type \in Words /\ WordFits
  /\ config' = [config EXCEPT ![top] = Append(@, Statement(<<token.value>>, NoBlock))]
  /\ Read(token) /\ UNCHANGED <<depth, stack>>

Word(token) ==
  /\ token.type \in Words /\ WordFits
  /\ config' = IF After(Words)
               THEN [config EXCEPT ![top][Len(config[top])].tokens = Append(@, token.value)]
               ELSE [config EXCEPT ![top] = Append(@, Statement(<<token.value>>, NoBlock))]
  /\ Read(token) /\ UNCHANGED <<depth, stack>>

EndStatement(token) ==
  /\ token.type = "STATEMENT_END" /\ After(Words)
  /\ Read(token) /\ UNCHANGED <<depth, stack, config>>

StartBlock(token) ==
  /\ token.type = "START_BLOCK" /\ After(Words)
  /\ config' = Append([config EXCEPT ![top][Len(config[top])].child = Len(config) + 1], << >>)
  /\ stack' = Append(stack, Len(config) + 1)
  /\ depth' = depth + 1
  /\ Read(token)

(* mutant: "}" is not checked against the depth.                           *)
UnmatchedBlockMayEnd == After({"STATEMENT_END", "START_BLOCK", "END_BLOCK"})

BlockMayEnd == After({"STATEMENT_END", "START_BLOCK", "END_BLOCK"}) /\ depth >= 1

(* mutant: the block that ends is not popped.                              *)
EndBlockKept(token) ==
  /\ token.type = "END_BLOCK" /\ BlockMayEnd
  /\ depth' = depth - 1
  /\ Read(token) /\ UNCHANGED <<config, stack>>

EndBlock(token) ==
  /\ token.type = "END_BLOCK" /\ BlockMayEnd
  /\ stack' = SubSeq(stack, 1, Len(stack) - 1)
  /\ depth' = depth - 1
  /\ Read(token) /\ UNCHANGED config

Return(result) ==
  /\ outcome' = result
  /\ UNCHANGED <<text, pos, last, second, depth, stack, config, printed>>

(* mutant: the depth is not checked at the end of the file.                *)
FileMayEndAnywhere == After({"STATEMENT_END", "END_BLOCK", "START"})

FileMayEnd == After({"STATEMENT_END", "END_BLOCK", "START"}) /\ depth = 0

EndOfFile(token) == token.type = "EOF" /\ FileMayEnd /\ Return("valid")

(* mutant: the loop goes on when the file ends inside a block.             *)
RejectBeforeTheEnd(token) ==
  /\ \/ token.type = "ERROR"
     \/ token.type \in Words /\ ~WordFits
     \/ token.type \in {"STATEMENT_END", "START_BLOCK"} /\ ~After(Words)
     \/ token.type = "END_BLOCK" /\ ~BlockMayEnd
  /\ Return("invalid")

(* A bad transition: every token that none of the other steps takes.       *)
Reject(token) ==
  /\ \/ token.type = "ERROR"
     \/ token.type \in Words /\ ~WordFits
     \/ token.type \in {"STATEMENT_END", "START_BLOCK"} /\ ~After(Words)
     \/ token.type = "END_BLOCK" /\ ~BlockMayEnd
     \/ token.type = "EOF" /\ ~FileMayEnd
  /\ Return("invalid")

(* The config_parser program prints the tree, valid or not, and somebody   *)
(* gives what it printed to a parser again.                                *)
Reprint ==
  /\ outcome # "reading" /\ printed = << >>
  /\ printed' = config
  /\ text' = ToString(config) /\ pos' = 1
  /\ last' = "START" /\ second' = "START"
  /\ depth' = 0 /\ stack' = <<1>> /\ config' = Fresh
  /\ outcome' = "reading"

Parse ==
  /\ outcome = "reading"
  /\ LET token == ParseToken(text, pos)
     IN  \/ Comment(token) \/ Whitespace(token) \/ Word(token)
         \/ EndStatement(token) \/ StartBlock(token) \/ EndBlock(token)
         \/ EndOfFile(token) \/ Reject(token)

Next == Parse \/ Reprint

Spec == Init /\ [][Next]_vars
FairSpec == Spec /\ WF_vars(Parse)

-----------------------------------------------------------------------------
(* The depth never goes below zero, whatever braces the text has, and      *)
(* every variable has its type.                                            *)
TypeOK ==
  /\ text \in Seq(Pieces) /\ pos \in Nat \ {0}
  /\ last \in TokenTypes /\ second \in TokenTypes
  /\ depth \in Nat /\ stack \in Seq(Nat)
  /\ config \in Seq(Seq([tokens : Seq(Seq(Pieces)), child : Nat]))
  /\ outcome \in {"reading", "valid", "invalid"}

(* Parse uses statements_.back() and config_stack.top() unchecked: the     *)
(* stack holds the configuration and the depth blocks open in it, each the *)
(* child_block_ of the last statement of the one below; and behind a word  *)
(* the innermost has a last statement, whose child_block_ is not yet set.  *)
BlocksAreNested ==
  /\ Len(stack) = depth + 1 /\ stack[1] = 1
  /\ \A i \in DOMAIN stack : stack[i] \in DOMAIN config
  /\ \A i \in 2..Len(stack) :
       LET outer == config[stack[i - 1]]
       IN  outer # << >> /\ outer[Len(outer)].child = stack[i]
  /\ After(Words) =>
       /\ config[top] # << >>
       /\ config[top][Len(config[top])].child = NoBlock

(* The tokens read so far, without blanks and comments, for the properties *)
(* below.                                                                  *)
TokensRead ==
  LET all == TokensFrom(text, 1)
      read == {k \in DOMAIN all : all[k].type \notin {"EOF", "ERROR"} /\ all[k].next <= pos}
  IN  Meaningful(Selected(all, read))

(* In every state the tree is what the tokens read so far say, so main,    *)
(* which ignores what Parse returned, starts the server from the           *)
(* statements in front of the first mistake and from nothing else.         *)
ParsedAsWritten == config = Tree(TokensRead)

(* Parse returns true for the well formed token sequences in which no two  *)
(* words touch, and for no other.                                          *)
ValidIffWellFormed ==
  outcome # "reading" =>
    LET all == TokensFrom(text, 1)
    IN  outcome = "valid"
          <=> /\ WellFormed(Meaningful(all))
              /\ \A k \in 2..Len(all) : ~(all[k - 1].type \in Words /\ all[k].type \in Words)

(* Unless one of them is -1, which the search takes for "no port here",    *)
(* the server listens on the first port the text names, however deep in    *)
(* blocks, or on 8080 when it is out of range or there is none.            *)
PortIsFirst ==
  LET ports == Ports(TokensRead)
  IN  (\A i \in DOMAIN ports : ports[i] # NoPort) =>
        GetPort(config) =
          CASE ports = << >> -> DefaultPort
            [] ports # << >> /\ ports[1] # << >> /\ ports[1][1] \notin PortNumbers -> DefaultPort
            [] OTHER -> ports[1]

(* What config_parser prints, even for a file Parse rejected, is a valid   *)
(* file with the same tree, provided that no quoted word holds a backslash *)
(* or its own quote: ToString does not put escapes back.                   *)
PlainWord(word) ==
  word[1] \in {"'", "\""} =>
    \A i \in 2..(Len(word) - 1) : word[i] \notin {word[1], "\\"}

ReprintParsesTheSame ==
  (/\ printed # << >> /\ outcome # "reading"
   /\ \A b \in DOMAIN printed : \A i \in DOMAIN printed[b] :
        \A k \in DOMAIN printed[b][i].tokens : PlainWord(printed[b][i].tokens[k]))
  => outcome = "valid" /\ config = printed

(* The loop of Parse ends for every text: each token moves the stream on.  *)
ParseReturns == (outcome = "reading") ~> (outcome # "reading")
=============================================================================
