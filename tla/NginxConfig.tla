----------------------------- MODULE NginxConfig ----------------------------
(***************************************************************************)
(* NginxConfig and NginxConfigStatement: the tree a configuration file is  *)
(* parsed into, and what the server asks of it.  A text is a sequence of   *)
(* pieces: a piece is one special character, or any run of ordinary ones.  *)
(* The tree is a heap: config[1] is the configuration itself, config[b]    *)
(* the block that was opened b-th, each the sequence of its statements.    *)
(***************************************************************************)
EXTENDS Integers, Sequences
LOCAL SE == INSTANCE SequencesExt

CONSTANT Numbers  \* ordinary pieces std::stoi reads a number from -> that number

ASSUME NumbersAssumption ==
  /\ DOMAIN Numbers \subseteq STRING
  /\ Numbers \in [DOMAIN Numbers -> Int]

NoBlock == 0      \* a statement without child_block_
Statement(tokens, child) == [tokens |-> tokens, child |-> child]

(***************************************************************************)
(* std::stoi of a token: <<n>>, or <<>> when it throws.                    *)
(***************************************************************************)
Stoi(token) ==
  IF token[1] \in DOMAIN Numbers THEN <<Numbers[token[1]]>> ELSE <<>>

NoPort == <<-1>>
DefaultPort == <<8080>>
PortNumbers == 0..65535

(* mutant: the children are not searched. *)
FlatPortHelper(config) ==
  LET at == {i \in DOMAIN config[1] : /\ Len(config[1][i].tokens) = 2
                                      /\ config[1][i].tokens[1] = <<"port">>}
  IN  IF at = {} THEN NoPort
      ELSE Stoi(config[1][CHOOSE i \in at : \A j \in at : i <= j].tokens[2])

(***************************************************************************)
(* GetPortHelper: the first statement "port" of two tokens, searched       *)
(* through the blocks in text order; a block that answers -1 is passed     *)
(* over.  PortFrom searches block b from its statement i; helper is what   *)
(* the search finds elsewhere.                                             *)
(***************************************************************************)
PortFrom(config, helper, b, i) ==
  IF i > Len(config[b]) THEN NoPort
  ELSE LET s == config[b][i]
           nested == IF s.child = NoBlock THEN NoPort ELSE helper[<<s.child, 1>>]
       IN  IF Len(s.tokens) = 2 /\ s.tokens[1] = <<"port">> THEN Stoi(s.tokens[2])
           ELSE IF nested # NoPort THEN nested ELSE helper[<<b, i + 1>>]

GetPortHelper(config) ==
  LET helper[at \in (DOMAIN config) \X (Nat \ {0})] == PortFrom(config, helper, at[1], at[2])
  IN  helper[<<1, 1>>]

(* GetPort: <<>> when std::stoi throws, which ends main.                   *)
GetPort(config) ==
  LET port == GetPortHelper(config)
  IN  IF port = <<>> \/ port[1] \in PortNumbers THEN port ELSE DefaultPort

(***************************************************************************)
(* ToString: the text of the tree, one statement a line, a block indented  *)
(* by two blanks.                                                          *)
(***************************************************************************)
Indent(depth) == [i \in 1..(2 * depth) |-> " "]

(* mutant: tokens are not separated. *)
GluedTokens(tokens) == SE!FlattenSeq(tokens)

Tokens(tokens) ==
  SE!FlattenSeq([i \in DOMAIN tokens |->
                IF i = 1 THEN tokens[i] ELSE <<" ">> \o tokens[i]])

(* The statements of block b; print is the text of the blocks in them.     *)
BlockText(config, print, b, depth) ==
  SE!FlattenSeq([i \in DOMAIN config[b] |->
    LET s == config[b][i]
    IN  Indent(depth) \o Tokens(s.tokens)
        \o (IF s.child = NoBlock THEN <<";">>
            ELSE <<" ", "{", "\n">> \o print[<<s.child, depth + 1>>] \o Indent(depth) \o <<"}">>)
        \o <<"\n">>])

ToString(config) ==
  LET print[at \in (DOMAIN config) \X Nat] == BlockText(config, print, at[1], at[2])
  IN  print[<<1, 0>>]

(***************************************************************************)
(* removeSlash: a path without its trailing slashes, but for a first one.  *)
(***************************************************************************)
removeSlash(path) ==
  LET last == CHOOSE i \in 1..Len(path) :
                /\ i = 1 \/ path[i] # "/"
                /\ \A j \in (i + 1)..Len(path) : path[j] = "/"
  IN  SubSeq(path, 1, last)

(***************************************************************************)
(* populateHandlerMap: location -> handler name and block, from the        *)
(* top-level statements "location <path> <handler>"; the last one counts.  *)
(***************************************************************************)
populateHandlerMap(config) ==
  LET isLocation(s) == Len(s.tokens) = 3 /\ s.tokens[1] = <<"location">>
      at(path) == {i \in DOMAIN config[1] :
                     /\ isLocation(config[1][i])
                     /\ removeSlash(config[1][i].tokens[2]) = path}
      paths == {removeSlash(config[1][i].tokens[2]) :
                  i \in {j \in DOMAIN config[1] : isLocation(config[1][j])}}
  IN  [path \in paths |->
         LET s == config[1][CHOOSE i \in at(path) : \A j \in at(path) : j <= i]
         IN  [handler |-> s.tokens[3], block |-> s.child]]
=============================================================================
