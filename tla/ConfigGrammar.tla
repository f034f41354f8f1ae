--------------------------- MODULE ConfigGrammar ----------------------------
(***************************************************************************)
(* What a sequence of tokens says, whatever reads it: which configurations *)
(* are well formed, the tree they stand for, the port they ask for.  It is *)
(* the reference ConfigParser is compared with.  T is a sequence of tokens *)
(* without blanks and comments.                                            *)
(***************************************************************************)
EXTENDS NginxConfig, ConfigTokens, FiniteSets
LOCAL INSTANCE FiniteSetsExt

IsWord(t) == t.type \in Words
WordAt(T, k) == k \in DOMAIN T /\ IsWord(T[k])
Places(T, type, k) == {j \in 1..k : T[j].type = type}

(* Blocks open in front of token k.                                        *)
Level(T, k) ==
  Cardinality(Places(T, "START_BLOCK", k - 1)) - Cardinality(Places(T, "END_BLOCK", k - 1))

(* Words end at ";" or "{", and only there; braces match; the file ends    *)
(* behind a statement.  A token sequence is whole when its last is EOF.    *)
WellFormed(T) ==
  /\ Len(T) > 0 /\ T[Len(T)].type = "EOF"
  /\ \A k \in DOMAIN T :
       /\ T[k].type # "ERROR"
       /\ T[k].type \in {"STATEMENT_END", "START_BLOCK"} => WordAt(T, k - 1)
       /\ T[k].type \in {"END_BLOCK", "EOF"} => ~WordAt(T, k - 1)
       /\ Level(T, k + 1) >= 0
  /\ Level(T, Len(T)) = 0

Begins(T, k) == IsWord(T[k]) /\ ~WordAt(T, k - 1)

(* The last word of the statement that begins at k.                        *)
LastWord(T, k) == Max({j \in k..Len(T) : \A i \in k..j : IsWord(T[i])})

TokensAt(T, k) == [i \in 1..(LastWord(T, k) - k + 1) |-> T[k + i - 1].value]

(* Blocks are numbered in the order they open, the configuration is 1.     *)
BlockOpenedAt(T, k) == 1 + Cardinality(Places(T, "START_BLOCK", k))

(* The innermost block open at k.                                          *)
BlockAround(T, k) ==
  LET open == {j \in Places(T, "START_BLOCK", k - 1) : Level(T, j) = Level(T, k) - 1}
  IN  IF open = {} THEN 1 ELSE BlockOpenedAt(T, Max(open))

StatementAt(T, k) ==
  LET next == LastWord(T, k) + 1
  IN  Statement(TokensAt(T, k),
                IF next \in DOMAIN T /\ T[next].type = "START_BLOCK" THEN BlockOpenedAt(T, next)
                ELSE NoBlock)

Tree(T) ==
  [b \in 1..BlockOpenedAt(T, Len(T)) |->
     LET starts == InOrder({k \in DOMAIN T : Begins(T, k) /\ BlockAround(T, k) = b}, Len(T))
     IN  [i \in DOMAIN starts |-> StatementAt(T, starts[i])]]

(* The statements that name a port, in text order, and what they name.     *)
Ports(T) ==
  LET names == InOrder({k \in DOMAIN T : /\ Begins(T, k) /\ Len(TokensAt(T, k)) = 2
                                         /\ TokensAt(T, k)[1] = <<"port">>}, Len(T))
  IN  [i \in DOMAIN names |-> Stoi(TokensAt(T, names[i])[2])]
=============================================================================
