------------------------ MODULE ConfigParserProofs --------------------------
(***************************************************************************)
(* Proofs about Parse, whatever the text: it never reads the last          *)
(* statement of an empty block, nor the top of an empty stack; the tree is *)
(* at every token what the tokens read so far say; it accepts exactly the  *)
(* well formed texts; and every turn of its loop moves on.                 *)
(***************************************************************************)
EXTENDS ConfigParser, ConfigGrammarProofs

(* The heap, with any set of values for the tokens.                        *)
Heaps(Values) == Seq(Seq([tokens : Seq(Values), child : Nat]))

Shape ==
  /\ depth \in Nat
  /\ stack \in Seq(Nat)
  /\ \E Values : config \in Heaps(Values)

(* Blocks are opened in the order of their numbers, so the block a word is *)
(* written into is none of those around it.                                *)
StackGrows == \A i, j \in DOMAIN stack : i < j => stack[i] < stack[j]

IInv == Shape /\ StackGrows /\ BlocksAreNested

(* A statement written at the end of a block, new or in place of the last, *)
(* leaves the other blocks alone and is the last of a block not empty.     *)
LEMMA SequenceOfMore ==
  ASSUME NEW S, NEW T, S \subseteq T
  PROVE  Seq(S) \subseteq Seq(T)
OBVIOUS

LEMMA MoreValues ==
  ASSUME NEW Values, NEW More, Values \subseteq More
  PROVE  Heaps(Values) \subseteq Heaps(More)
<1> DEFINE Few == [tokens : Seq(Values), child : Nat]
           Many == [tokens : Seq(More), child : Nat]
<1>1. Seq(Values) \subseteq Seq(More)
  BY SequenceOfMore
<1>2. Few \subseteq Many
  BY <1>1
<1> HIDE DEF Few, Many
<1>3. Seq(Few) \subseteq Seq(Many)
  BY <1>2, SequenceOfMore
<1>4. Seq(Seq(Few)) \subseteq Seq(Seq(Many))
  BY <1>3, SequenceOfMore
<1> QED
  BY <1>4 DEF Heaps, Few, Many

LEMMA NotEmpty ==
  ASSUME NEW S, NEW s \in Seq(S), Len(s) > 0
  PROVE  s # << >>
OBVIOUS

LEMMA LastElement ==
  ASSUME NEW S, NEW s \in Seq(S), s # << >>
  PROVE  Len(s) \in DOMAIN s /\ s[Len(s)] \in S
OBVIOUS

LEMMA ContinueStatement ==
  ASSUME NEW V, NEW old \in [tokens : Seq(V), child : Nat], NEW v \in V
  PROVE  LET new == [old EXCEPT !.tokens = Append(@, v)]
         IN  new \in [tokens : Seq(V), child : Nat] /\ new.child = old.child
<1>1. old.tokens \in Seq(V)
  OBVIOUS
<1>2. Append(old.tokens, v) \in Seq(V)
  BY <1>1
<1> QED
  BY <1>2

LEMMA SetChild ==
  ASSUME NEW V, NEW old \in [tokens : Seq(V), child : Nat], NEW b \in Nat
  PROVE  LET new == [old EXCEPT !.child = b]
         IN  new \in [tokens : Seq(V), child : Nat] /\ new.child = b
OBVIOUS

LEMMA AppendStatement ==
  ASSUME NEW S, NEW heap \in Seq(Seq(S)), NEW b \in DOMAIN heap, NEW s \in S
  PROVE  LET new == [heap EXCEPT ![b] = Append(@, s)]
         IN  /\ new \in Seq(Seq(S))
             /\ DOMAIN new = DOMAIN heap /\ Len(new) = Len(heap)
             /\ \A c \in DOMAIN heap \ {b} : new[c] = heap[c]
             /\ new[b] # << >> /\ new[b][Len(new[b])] = s
<1> DEFINE block == Append(heap[b], s)
           new == [heap EXCEPT ![b] = block]
<1>1. heap[b] \in Seq(S)
  OBVIOUS
<1>2. block \in Seq(S) /\ Len(block) = Len(heap[b]) + 1 /\ block[Len(block)] = s
  BY <1>1
<1>5. block # << >>
  <2>1. Len(heap[b]) \in Nat /\ Len(block) > 0
    BY <1>1, <1>2
  <2> HIDE DEF block
  <2> QED
    BY <1>2, <2>1, NotEmpty
<1>3. new \in Seq(Seq(S)) /\ DOMAIN new = DOMAIN heap /\ Len(new) = Len(heap)
  BY <1>2
<1>4. new[b] = block /\ \A c \in DOMAIN heap \ {b} : new[c] = heap[c]
  OBVIOUS
<1> QED
  BY <1>2, <1>3, <1>4, <1>5

LEMMA ReplaceLast ==
  ASSUME NEW S, NEW heap \in Seq(Seq(S)), NEW b \in DOMAIN heap, heap[b] # << >>, NEW s \in S
  PROVE  LET new == [heap EXCEPT ![b][Len(heap[b])] = s]
         IN  /\ new \in Seq(Seq(S))
             /\ DOMAIN new = DOMAIN heap /\ Len(new) = Len(heap)
             /\ \A c \in DOMAIN heap \ {b} : new[c] = heap[c]
             /\ new[b] # << >> /\ new[b][Len(new[b])] = s
<1> DEFINE block == [heap[b] EXCEPT ![Len(heap[b])] = s]
           new == [heap EXCEPT ![b] = block]
<1>1. heap[b] \in Seq(S) /\ Len(heap[b]) \in DOMAIN heap[b]
  OBVIOUS
<1>2. block \in Seq(S) /\ block # << >> /\ block[Len(block)] = s
  BY <1>1
<1>3. new \in Seq(Seq(S)) /\ DOMAIN new = DOMAIN heap /\ Len(new) = Len(heap)
  BY <1>2
<1>4. new[b] = block /\ \A c \in DOMAIN heap \ {b} : new[c] = heap[c]
  OBVIOUS
<1> QED
  BY <1>2, <1>3, <1>4
-----------------------------------------------------------------------------
LEMMA InitIInv == Init => IInv
<1> SUFFICES ASSUME Init PROVE IInv
  OBVIOUS
<1>1. config \in Heaps({}) /\ config = << << >> >> /\ DOMAIN config = {1}
  BY DEF Init, Fresh, Heaps
<1>2. stack = <<1>> /\ depth = 0 /\ Len(stack) = 1 /\ DOMAIN stack = {1}
  BY DEF Init
<1>3. ~After(Words)
  BY DEF Init, After, Words
<1> QED
  BY <1>1, <1>2, <1>3 DEF IInv, Shape, StackGrows, BlocksAreNested

(* What the step of one token may rely on.                                 *)
LEMMA TopOfStack ==
  ASSUME IInv
  PROVE  /\ Len(stack) \in Nat /\ Len(stack) > 0 /\ DOMAIN stack = 1..Len(stack)
         /\ top \in DOMAIN config
         /\ \A i \in 1..(Len(stack) - 1) : stack[i] \in DOMAIN config /\ stack[i] < top
<1>1. stack \in Seq(Nat) /\ depth \in Nat /\ Len(stack) = depth + 1
  BY DEF IInv, Shape, BlocksAreNested
<1>2. Len(stack) \in Nat /\ Len(stack) > 0 /\ DOMAIN stack = 1..Len(stack)
  BY <1>1
<1>3. \A i \in DOMAIN stack : stack[i] \in DOMAIN config
  BY DEF IInv, BlocksAreNested
<1> QED
  BY <1>2, <1>3 DEF IInv, StackGrows, top

(* Words and ends of statements change the type of the last token only.    *)
LEMMA StepWhitespace ==
  ASSUME IInv, NEW token, Whitespace(token)
  PROVE  IInv'
<1>1. After(Words)' => After(Words)
  BY DEF Whitespace, After, Words
<1>2. UNCHANGED <<depth, stack, config>>
  BY DEF Whitespace
<1> QED
  BY <1>1, <1>2 DEF IInv, Shape, StackGrows, BlocksAreNested, top

LEMMA StepEndStatement ==
  ASSUME IInv, NEW token, EndStatement(token)
  PROVE  IInv'
<1>1. ~After(Words)'
  BY DEF EndStatement, Read, After, Words
<1>2. UNCHANGED <<depth, stack, config>>
  BY DEF EndStatement
<1> QED
  BY <1>1, <1>2 DEF IInv, Shape, StackGrows, BlocksAreNested, top

(* A word: only the innermost block changes, and its last statement has    *)
(* no block yet.                                                           *)
LEMMA StepWord ==
  ASSUME IInv, NEW token, Word(token)
  PROVE  IInv'
<1> DEFINE v == token.value
           Stmt(V) == [tokens : Seq(V), child : Nat]
<1>1. PICK Values : config \in Heaps(Values)
  BY DEF IInv, Shape
<1> DEFINE More == Values \union {v}
<1>2. config \in Heaps(More)
  BY <1>1, MoreValues
<1>3. config \in Seq(Seq(Stmt(More)))
  BY <1>2 DEF Heaps
<1>4. top \in DOMAIN config
  BY TopOfStack
<1>5. UNCHANGED <<depth, stack>>
  BY DEF Word
<1> HIDE DEF v, More
<1>6. \E s \in Stmt(More) :
        /\ s.child = NoBlock
        /\ config' \in Seq(Seq(Stmt(More)))
        /\ DOMAIN config' = DOMAIN config
        /\ \A c \in DOMAIN config \ {top} : config'[c] = config[c]
        /\ config'[top] # << >> /\ config'[top][Len(config'[top])] = s
  <2>0. v \in More
    BY DEF More
  <2>1. CASE After(Words)
    <3> DEFINE n == Len(config[top])
               s == [config[top][n] EXCEPT !.tokens = Append(@, v)]
    <3>1. config[top] # << >> /\ config[top][n].child = NoBlock
      BY <2>1 DEF IInv, BlocksAreNested
    <3>2. config[top] \in Seq(Stmt(More))
      BY <1>3, <1>4
    <3>3. config[top][n] \in Stmt(More)
      BY <3>1, <3>2, LastElement
    <3>4. s \in Stmt(More) /\ s.child = NoBlock
      BY <2>0, <3>1, <3>3, ContinueStatement
    <3>5. config' = [config EXCEPT ![top][n] = s]
      BY <2>1 DEF Word, v
    <3> HIDE DEF s
    <3> QED
      BY <1>3, <1>4, <3>1, <3>4, <3>5, ReplaceLast
  <2>2. CASE ~After(Words)
    <3> DEFINE s == Statement(<<v>>, NoBlock)
    <3>1. s \in Stmt(More) /\ s.child = NoBlock
      BY <2>0 DEF Statement, NoBlock
    <3>2. config' = [config EXCEPT ![top] = Append(@, s)]
      BY <2>2 DEF Word, v
    <3> HIDE DEF s, Stmt
    <3> QED
      BY <1>3, <1>4, <3>1, <3>2, AppendStatement
  <2> QED
    BY <2>1, <2>2
<1>7. Shape'
  BY <1>5, <1>6 DEF IInv, Shape, Heaps
<1>8. StackGrows'
  BY <1>5 DEF IInv, StackGrows
<1>9. BlocksAreNested'
  <2>1. top' = top
    BY <1>5 DEF top
  <2>2. \A i \in 2..Len(stack) : /\ stack[i - 1] \in DOMAIN config
                                 /\ config'[stack[i - 1]] = config[stack[i - 1]]
    BY <1>6, TopOfStack
  <2>3. config'[top] # << >> /\ config'[top][Len(config'[top])].child = NoBlock
    BY <1>6
  <2>4. DOMAIN config' = DOMAIN config
    BY <1>6
  <2> QED
    BY <1>5, <2>1, <2>2, <2>3, <2>4 DEF IInv, BlocksAreNested
<1> QED
  BY <1>7, <1>8, <1>9 DEF IInv

(* A block opens as the last of the heap and the top of the stack, and the *)
(* last statement of the block around it becomes its parent.               *)
LEMMA StepStartBlock ==
  ASSUME IInv, NEW token, StartBlock(token)
  PROVE  IInv'
<1> DEFINE Stmt(V) == [tokens : Seq(V), child : Nat]
           n == Len(config[top])
           b == Len(config) + 1
           s == [config[top][n] EXCEPT !.child = b]
           heap == [config EXCEPT ![top][n] = s]
<1>1. PICK Values : config \in Heaps(Values)
  BY DEF IInv, Shape
<1>2. config \in Seq(Seq(Stmt(Values)))
  BY <1>1 DEF Heaps
<1>3. top \in DOMAIN config /\ b \in Nat /\ DOMAIN config = 1..(b - 1)
  BY <1>2, TopOfStack
<1>4. config[top] # << >>
  BY DEF StartBlock, IInv, BlocksAreNested
<1>5. config[top] \in Seq(Stmt(Values))
  BY <1>2, <1>3
<1>6. config[top][n] \in Stmt(Values)
  BY <1>4, <1>5, LastElement
<1>7. s \in Stmt(Values) /\ s.child = b
  BY <1>3, <1>6, SetChild
<1>8. config' = Append(heap, << >>) /\ stack' = Append(stack, b) /\ depth' = depth + 1
  BY DEF StartBlock
<1>9. ~After(Words)'
  BY DEF StartBlock, Read, After, Words
<1> HIDE DEF s, Stmt
<1>10. /\ heap \in Seq(Seq(Stmt(Values)))
       /\ DOMAIN heap = DOMAIN config /\ Len(heap) = Len(config)
       /\ \A c \in DOMAIN config \ {top} : heap[c] = config[c]
       /\ heap[top] # << >> /\ heap[top][Len(heap[top])] = s
  BY <1>2, <1>3, <1>4, <1>7, ReplaceLast
<1> HIDE DEF heap
<1>11. /\ config' \in Seq(Seq(Stmt(Values)))
       /\ DOMAIN config' = 1..b
       /\ \A c \in 1..(b - 1) : config'[c] = heap[c]
  <2>1. << >> \in Seq(Stmt(Values))
    OBVIOUS
  <2> QED
    BY <1>3, <1>8, <1>10, <2>1
<1> HIDE DEF b
<1>12. /\ stack' \in Seq(Nat)
       /\ Len(stack') = Len(stack) + 1 /\ DOMAIN stack' = 1..(Len(stack) + 1)
       /\ stack'[Len(stack) + 1] = b
       /\ \A i \in 1..Len(stack) : stack'[i] = stack[i]
  BY <1>3, <1>8 DEF IInv, Shape
<1>13. \A i \in 1..Len(stack) : stack[i] \in 1..(b - 1)
  BY <1>3, TopOfStack DEF IInv, BlocksAreNested
<1>14. Shape'
  <2>1. depth' \in Nat
    BY <1>8 DEF IInv, Shape
  <2>2. config' \in Heaps(Values)
    BY <1>11 DEF Heaps, Stmt
  <2> QED
    BY <1>12, <2>1, <2>2 DEF Shape
<1>15. Len(stack) \in Nat /\ DOMAIN stack = 1..Len(stack) /\ b \in Nat
  BY <1>3, TopOfStack
<1>16. StackGrows'
  <2> SUFFICES ASSUME NEW i \in DOMAIN stack', NEW j \in DOMAIN stack', i < j
               PROVE  stack'[i] < stack'[j]
    BY DEF StackGrows
  <2>1. i \in 1..Len(stack) /\ stack'[i] = stack[i] /\ stack[i] \in 1..(b - 1)
    BY <1>12, <1>13, <1>15
  <2>2. CASE j = Len(stack) + 1
    BY <1>12, <1>15, <2>1, <2>2
  <2>3. CASE j \in 1..Len(stack)
    BY <1>12, <1>15, <2>1, <2>3 DEF IInv, StackGrows
  <2> QED
    BY <1>12, <1>15, <2>2, <2>3
<1>17. BlocksAreNested'
  <2>1. Len(stack') = depth' + 1 /\ stack'[1] = 1
    BY <1>8, <1>12, TopOfStack DEF IInv, BlocksAreNested
  <2>2. \A i \in DOMAIN stack' : stack'[i] \in DOMAIN config'
    <3> SUFFICES ASSUME NEW i \in 1..(Len(stack) + 1) PROVE stack'[i] \in 1..b
      BY <1>11, <1>12
    <3>1. CASE i = Len(stack) + 1
      BY <1>12, <1>15, <1>3, <3>1
    <3>2. CASE i \in 1..Len(stack)
      BY <1>12, <1>13, <1>15, <3>2
    <3> QED
      BY <1>15, <3>1, <3>2
  <2>3. ASSUME NEW i \in 2..Len(stack')
        PROVE  LET outer == config'[stack'[i - 1]]
               IN  outer # << >> /\ outer[Len(outer)].child = stack'[i]
    <3>1. CASE i = Len(stack) + 1
      <4>1. stack'[i - 1] = top /\ stack'[i] = b
        BY <1>12, <3>1, TopOfStack DEF top
      <4> QED
        BY <1>3, <1>7, <1>10, <1>11, <4>1
    <3>2. CASE i # Len(stack) + 1
      <4>1. i \in 2..Len(stack) /\ i - 1 \in 1..(Len(stack) - 1)
        BY <1>12, <2>3, <3>2, TopOfStack
      <4>2. stack'[i - 1] = stack[i - 1] /\ stack'[i] = stack[i]
        BY <1>12, <4>1, TopOfStack
      <4>3. stack[i - 1] \in DOMAIN config \ {top}
        BY <1>3, <4>1, TopOfStack
      <4>4. config'[stack[i - 1]] = config[stack[i - 1]]
        BY <1>3, <1>10, <1>11, <4>3
      <4> QED
        BY <4>1, <4>2, <4>4 DEF IInv, BlocksAreNested
    <3> QED
      BY <3>1, <3>2
  <2> QED
    BY <1>9, <2>1, <2>2, <2>3 DEF BlocksAreNested
<1> QED
  BY <1>14, <1>16, <1>17 DEF IInv

LEMMA StepEndBlock ==
  ASSUME IInv, NEW token, EndBlock(token)
  PROVE  IInv'
<1>1. /\ stack' = SubSeq(stack, 1, Len(stack) - 1)
      /\ depth' = depth - 1 /\ depth >= 1 /\ UNCHANGED config
  BY DEF EndBlock, BlockMayEnd
<1>2. ~After(Words)'
  BY DEF EndBlock, Read, After, Words
<1>3. stack \in Seq(Nat) /\ depth \in Nat /\ Len(stack) = depth + 1
  BY DEF IInv, Shape, BlocksAreNested
<1>4. /\ stack' \in Seq(Nat) /\ Len(stack') = depth
      /\ DOMAIN stack' = 1..depth
      /\ \A i \in 1..depth : stack'[i] = stack[i]
  BY <1>1, <1>3
<1>5. Shape'
  BY <1>1, <1>3, <1>4 DEF IInv, Shape
<1>6. StackGrows'
  BY <1>1, <1>3, <1>4 DEF IInv, StackGrows
<1>7. BlocksAreNested'
  BY <1>1, <1>2, <1>3, <1>4 DEF IInv, BlocksAreNested
<1> QED
  BY <1>5, <1>6, <1>7 DEF IInv

LEMMA StepReprint ==
  ASSUME Reprint
  PROVE  IInv'
<1>1. config' \in Heaps({}) /\ config' = << << >> >> /\ DOMAIN config' = {1}
  BY DEF Reprint, Fresh, Heaps
<1>2. stack' = <<1>> /\ depth' = 0 /\ Len(stack') = 1 /\ DOMAIN stack' = {1}
  BY DEF Reprint
<1>3. ~After(Words)'
  BY DEF Reprint, After, Words
<1> QED
  BY <1>1, <1>2, <1>3 DEF IInv, Shape, StackGrows, BlocksAreNested

(* Steps that change nothing the invariant looks at.                       *)
LEMMA StepOthers ==
  ASSUME IInv, UNCHANGED <<last, second, depth, stack, config>>
  PROVE  IInv'
BY DEF IInv, Shape, StackGrows, BlocksAreNested, After, top

(* For every configuration text, Parse opens, closes and fills blocks      *)
(* without ever using statements_.back() or config_stack.top() where there *)
(* is none, or replacing a child_block_ already set.                       *)
THEOREM BlocksStayNested == Spec => []BlocksAreNested
<1>1. Init => IInv
  BY InitIInv
<1>2. IInv /\ [Next]_vars => IInv'
  <2> SUFFICES ASSUME IInv, [Next]_vars PROVE IInv'
    OBVIOUS
  <2>1. CASE UNCHANGED vars
    BY <2>1, StepOthers DEF vars
  <2>2. CASE Reprint
    BY <2>2, StepReprint
  <2>3. CASE Parse
    <3> DEFINE token == ParseToken(text, pos)
    <3> HIDE DEF token
    <3>1. \/ Comment(token) \/ Whitespace(token) \/ Word(token)
          \/ EndStatement(token) \/ StartBlock(token) \/ EndBlock(token)
          \/ EndOfFile(token) \/ Reject(token)
      BY <2>3 DEF Parse, token
    <3>2. CASE Comment(token)
      BY <3>2, StepOthers DEF Comment
    <3>3. CASE EndOfFile(token) \/ Reject(token)
      BY <3>3, StepOthers DEF EndOfFile, Reject, Return
    <3> QED
      BY <3>1, <3>2, <3>3, StepWhitespace, StepWord, StepEndStatement,
         StepStartBlock, StepEndBlock
  <2> QED
    BY <2>1, <2>2, <2>3 DEF Next
<1>3. IInv => BlocksAreNested
  BY DEF IInv
<1> QED
  BY <1>1, <1>2, <1>3, PTL DEF Spec

-----------------------------------------------------------------------------
(* What Parse remembers of the tokens it has read.  A word is never        *)
(* followed by a comment, so that Parse forgets no word it has to keep     *)
(* apart from the next.                                                    *)
Remembered(before) ==
  LET T == Meaningful(before)
  IN  /\ last = LastType(T) \/ (last = "WHITESPACE" /\ second = LastType(T))
      /\ last \in Words <=> WordAt(before, Len(before))
      /\ last \in Words => pos <= Len(text) /\ text[pos] # "#"

AsRead(before) ==
  LET T == Meaningful(before)
  IN  /\ FirstTokens(text, pos, before) /\ Remembered(before)
      /\ config = Tree(T) /\ StackOf(T, depth, stack)
      /\ InPlace(T) /\ Apart(before)

RInv ==
  /\ text \in AnyText /\ pos \in Place
  /\ last \in TokenTypes /\ second \in TokenTypes
  /\ outcome \in {"reading", "valid", "invalid"}
  /\ \E before : AsRead(before)

LEMMA NothingOutOfPlace == InPlace(<< >>) /\ Apart(<< >>) /\ ~WordAt(<< >>, Len(<< >>))
<1>1. Len(<< >>) = 0 /\ DOMAIN << >> = {}
  OBVIOUS
<1> QED
  BY <1>1 DEF InPlace, Apart, WordAt

LEMMA InitRInv == Init => RInv
<1> SUFFICES ASSUME Init PROVE RInv
  OBVIOUS
<1>1. /\ text \in AnyText /\ pos = 1 /\ last = "START" /\ second = "START"
      /\ depth = 0 /\ stack = <<1>> /\ config = << << >> >> /\ outcome = "reading"
  BY TextsReadAssumption DEF Init, Fresh, AnyText
<1>2. pos \in Place /\ "START" \in TokenTypes /\ "START" \notin Words
  BY <1>1 DEF Place, TokenTypes, Words
<1>3. FirstTokens(text, pos, << >>) /\ Meaningful(<< >>) = << >>
  BY <1>1, NoneInFront
<1>4. LastType(<< >>) = "START"
  BY DEF LastType
<1>5. Remembered(<< >>)
  BY <1>1, <1>2, <1>3, <1>4, NothingOutOfPlace, Zenon DEF Remembered
<1>6. AsRead(<< >>)
  BY <1>1, <1>3, <1>5, NothingOutOfPlace, NothingIsOpen, TreeOfNothing, Zenon DEF AsRead
<1> QED
  BY <1>1, <1>2, <1>6, Zenon DEF RInv

LEMMA ReprintRInv ==
  ASSUME RInv, Reprint
  PROVE  RInv'
<1>0. PICK before : AsRead(before)
  BY DEF RInv
<1>1. /\ text' = ToString(config) /\ pos' = 1 /\ last' = "START" /\ second' = "START"
      /\ depth' = 0 /\ stack' = <<1>> /\ config' = << << >> >> /\ outcome' = "reading"
  BY DEF Reprint, Fresh
<1>2. text' \in AnyText
  <2>1. before \in AnyTokens
    BY <1>0 DEF AsRead, FirstTokens
  <2>2. Meaningful(before) \in AnyTokens
    BY <2>1, MeaningfulIs
  <2> QED
    BY <1>0, <1>1, <2>2, PrintedTreeIsText DEF AsRead
<1>3. pos' \in Place /\ "START" \in TokenTypes /\ "START" \notin Words
  BY <1>1 DEF Place, TokenTypes, Words
<1>4. FirstTokens(text', pos', << >>) /\ Meaningful(<< >>) = << >>
  BY <1>1, <1>2, NoneInFront
<1>5. LastType(<< >>) = "START"
  BY DEF LastType
<1>6. Remembered(<< >>)'
  BY <1>1, <1>3, <1>4, <1>5, NothingOutOfPlace, Zenon DEF Remembered
<1>7. AsRead(<< >>)'
  BY <1>1, <1>4, <1>6, NothingOutOfPlace, NothingIsOpen, TreeOfNothing, Zenon DEF AsRead
<1> QED
  BY <1>1, <1>2, <1>3, <1>7, Zenon DEF RInv

(* What After asks is what the last meaningful token is.                   *)
LEMMA AfterIs ==
  ASSUME NEW before, AsRead(before), NEW types, "WHITESPACE" \notin types
  PROVE  After(types) <=> LastType(Meaningful(before)) \in types
<1>1. LastType(Meaningful(before)) # "WHITESPACE"
  BY LastTypeIs DEF AsRead, Words
<1>2. \/ last = LastType(Meaningful(before))
      \/ last = "WHITESPACE" /\ second = LastType(Meaningful(before))
  BY DEF AsRead, Remembered
<1> QED
  BY <1>1, <1>2 DEF After

(* The step of one token, but for the tree, the stack and its place.       *)
LEMMA OneMoreToken ==
  ASSUME RInv, NEW before, AsRead(before), NEW token, token = ParseToken(text, pos),
         ~Ends(token), UNCHANGED text, pos' = token.next
  PROVE  LET after == Append(before, token)
             T == Meaningful(before)
         IN  /\ token \in AnyToken /\ before \in AnyTokens /\ T \in AnyTokens
             /\ text' \in AnyText /\ pos' \in Place
             /\ FirstTokens(text', pos', after)
             /\ WordAt(after, Len(after)) <=> IsWord(token)
             /\ IsWord(token) => pos' <= Len(text') /\ text'[pos'] # "#"
             /\ token.type = "COMMENT" => text[pos] = "#"
             /\ token.type \in {"COMMENT", "WHITESPACE"} => Meaningful(after) = T
             /\ token.type \notin {"COMMENT", "WHITESPACE"} => Meaningful(after) = Append(T, token)
<1> DEFINE after == Append(before, token)
<1>1. text \in AnyText /\ pos \in Place
  BY DEF RInv
<1>2. FirstTokens(text, pos, before) /\ before \in AnyTokens
  BY DEF AsRead, FirstTokens
<1>3. token \in AnyToken /\ token.next \in Place /\ FirstTokens(text, token.next, after)
  BY <1>1, <1>2, OneMoreInFront
<1>4. Meaningful(before) \in AnyTokens
  BY <1>2, MeaningfulIs
<1>5. SoundToken(text, pos, token)
  BY <1>1, ParseTokenIsSound DEF Place
<1>6. /\ IsWord(token) => token.next <= Len(text) /\ text[token.next] # "#"
      /\ token.type = "COMMENT" => text[pos] = "#"
  BY <1>5 DEF SoundToken, IsWord
<1>7. WordAt(after, Len(after)) <=> IsWord(token)
  <2>1. after \in AnyTokens /\ Len(after) = Len(before) + 1 /\ after[Len(before) + 1] = token
    BY <1>2, <1>3, AppendStartsWith
  <2>2. Len(before) + 1 \in DOMAIN after
    <3>1. Len(before) \in Nat
      BY <1>2, TokensAre
    <3> HIDE DEF after
    <3>2. DOMAIN after = 1..Len(after)
      BY <2>1, TokensAre
    <3> QED
      BY <2>1, <3>1, <3>2
  <2> HIDE DEF after
  <2> QED
    BY <2>1, <2>2 DEF WordAt
<1>8. /\ token.type \in {"COMMENT", "WHITESPACE"} => Meaningful(after) = Meaningful(before)
      /\ token.type \notin {"COMMENT", "WHITESPACE"} =>
           Meaningful(after) = Append(Meaningful(before), token)
  BY <1>2, <1>3, MeaningfulGrows DEF AnyTokens
<1> HIDE DEF after
<1>9. text' = text /\ pos' = token.next
  OBVIOUS
<1> QED
  BY <1>1, <1>2, <1>3, <1>4, <1>6, <1>7, <1>8, <1>9, Zenon DEF after

(* Blanks and comments leave the tree as it is.                            *)
LEMMA BlankIsRead ==
  ASSUME RInv, NEW token, token = ParseToken(text, pos),
         Comment(token) \/ Whitespace(token)
  PROVE  RInv'
<1>0. PICK before : AsRead(before)
  BY DEF RInv
<1> DEFINE after == Append(before, token)
           T == Meaningful(before)
<1>1. /\ token.type \in {"COMMENT", "WHITESPACE"} /\ pos' = token.next
      /\ UNCHANGED <<text, depth, stack, config, outcome>>
  BY DEF Comment, Whitespace
<1>2. ~Ends(token) /\ ~IsWord(token)
  BY <1>1 DEF Ends, IsWord, Words
<1>3. /\ token \in AnyToken /\ before \in AnyTokens /\ T \in AnyTokens
      /\ text' \in AnyText /\ pos' \in Place
      /\ FirstTokens(text', pos', after) /\ ~WordAt(after, Len(after))
      /\ token.type = "COMMENT" => text[pos] = "#"
      /\ Meaningful(after) = T
  BY <1>0, <1>1, <1>2, OneMoreToken
<1>4. LastType(T) # "WHITESPACE"
  BY <1>0, LastTypeIs DEF AsRead, Words
<1>5. Apart(after)
  BY <1>0, <1>2, <1>3, ApartGrows DEF AsRead
<1> HIDE DEF after, T
<1>6. /\ last = LastType(T) \/ (last = "WHITESPACE" /\ second = LastType(T))
      /\ last \in Words => text[pos] # "#"
  BY <1>0 DEF AsRead, Remembered, T
<1>7. /\ last' = LastType(T) \/ (last' = "WHITESPACE" /\ second' = LastType(T))
      /\ last' \notin Words
      /\ last' \in TokenTypes /\ second' \in TokenTypes
  <2>0. last \in TokenTypes /\ second \in TokenTypes
    BY DEF RInv
  <2>1. CASE Comment(token)
    <3>1. UNCHANGED <<last, second>> /\ token.type = "COMMENT"
      BY <2>1 DEF Comment
    <3> QED
      BY <1>3, <1>6, <2>0, <3>1, Zenon
  <2>2. CASE Whitespace(token)
    <3>1. \/ last = "WHITESPACE" /\ last' = last /\ second' = second
          \/ last # "WHITESPACE" /\ last' = "WHITESPACE" /\ second' = last
      BY <2>2, Zenon DEF Whitespace
    <3>2. "WHITESPACE" \notin Words /\ "WHITESPACE" \in TokenTypes
      BY DEF Words, TokenTypes
    <3> QED
      BY <1>4, <1>6, <2>0, <3>1, <3>2, Zenon
  <2> QED
    BY <2>1, <2>2
<1>8. Remembered(after)'
  BY <1>3, <1>7, Zenon DEF Remembered
<1>9. config' = Tree(T) /\ StackOf(T, depth', stack') /\ InPlace(T)
  BY <1>0, <1>1, Zenon DEF AsRead, T
<1>10. AsRead(after)'
  BY <1>3, <1>5, <1>8, <1>9, Zenon DEF AsRead
<1>11. outcome' \in {"reading", "valid", "invalid"}
  BY <1>1 DEF RInv
<1> QED
  BY <1>3, <1>7, <1>10, <1>11, Zenon DEF RInv

(* Another token that fits.                                                *)
LEMMA TokenIsRead ==
  ASSUME RInv, NEW before, AsRead(before), NEW token, token = ParseToken(text, pos),
         ~Ends(token), token.type \notin {"COMMENT", "WHITESPACE"}, Read(token),
         config' = Tree(Append(Meaningful(before), token)),
         StackOf(Append(Meaningful(before), token), depth', stack'),
         InPlace(Append(Meaningful(before), token)),
         IsWord(token) => last \notin Words
  PROVE  RInv'
<1> DEFINE after == Append(before, token)
           T == Meaningful(before)
           U == Append(T, token)
<1>1. /\ pos' = token.next /\ last' = token.type /\ second' = last
      /\ UNCHANGED <<text, outcome>>
  BY DEF Read
<1>2. /\ token \in AnyToken /\ before \in AnyTokens /\ T \in AnyTokens
      /\ text' \in AnyText /\ pos' \in Place
      /\ FirstTokens(text', pos', after)
      /\ WordAt(after, Len(after)) <=> IsWord(token)
      /\ IsWord(token) => pos' <= Len(text') /\ text'[pos'] # "#"
      /\ Meaningful(after) = U
  BY <1>1, OneMoreToken
<1>3. Apart(after)
  <2>1. last \in Words <=> WordAt(before, Len(before))
    BY DEF AsRead, Remembered
  <2>2. Apart(before)
    BY DEF AsRead
  <2> QED
    BY <1>2, <2>1, <2>2, ApartGrows
<1>4. LastType(U) = token.type
  <2>1. Len(U) = Len(T) + 1 /\ U[Len(T) + 1] = token /\ Len(T) \in Nat
    BY <1>2, AppendStartsWith, TokensAre
  <2> HIDE DEF U, T
  <2>2. Len(U) # 0
    BY <2>1
  <2> QED
    BY <2>1, <2>2, Zenon DEF LastType
<1> HIDE DEF after, U, T
<1>5. Remembered(after)'
  <2>1. last' = LastType(U)
    BY <1>1, <1>4, Zenon
  <2>2. last' \in Words <=> IsWord(token)
    BY <1>1, Zenon DEF IsWord
  <2> QED
    BY <1>2, <2>1, <2>2, Zenon DEF Remembered
<1>6. AsRead(after)'
  BY <1>2, <1>3, <1>5, Zenon DEF AsRead, U, T
<1>7. last' \in TokenTypes /\ second' \in TokenTypes /\ outcome' \in {"reading", "valid", "invalid"}
  BY <1>1, <1>2 DEF RInv, AnyToken
<1> QED
  BY <1>2, <1>6, <1>7, Zenon DEF RInv

(* What may be used of the tokens read, whatever comes next.               *)
LEMMA ReadSoFar ==
  ASSUME RInv, NEW before, AsRead(before), NEW token, token = ParseToken(text, pos)
  PROVE  LET T == Meaningful(before)
         IN  /\ T \in AnyTokens /\ token \in AnyToken
             /\ config = Tree(T) /\ StackOf(T, depth, stack) /\ InPlace(T)
             /\ top = BlockAround(T, Len(T) + 1)
             /\ After(Words) <=> WordAt(T, Len(T))
<1>1. /\ Meaningful(before) \in AnyTokens
      /\ LastType(Meaningful(before)) \in Words <=> WordAt(Meaningful(before), Len(Meaningful(before)))
  BY LastTypeIs DEF AsRead
<1>2. token \in AnyToken
  BY AllTokensAre DEF AsRead, RInv
<1>3. /\ config = Tree(Meaningful(before)) /\ StackOf(Meaningful(before), depth, stack)
      /\ InPlace(Meaningful(before))
  BY DEF AsRead
<1>4. top = BlockAround(Meaningful(before), Len(Meaningful(before)) + 1)
  BY <1>1, <1>3, TopIsAround DEF top
<1>5. After(Words) <=> LastType(Meaningful(before)) \in Words
  <2>1. "WHITESPACE" \notin Words
    BY DEF Words
  <2> QED
    BY <2>1, AfterIs
<1> QED
  BY <1>1, <1>2, <1>3, <1>4, <1>5, Zenon

LEMMA WordIsRead ==
  ASSUME RInv, NEW token, token = ParseToken(text, pos), Word(token)
  PROVE  RInv'
<1>0. PICK before : AsRead(before)
  BY DEF RInv
<1> DEFINE T == Meaningful(before)
           U == Append(T, token)
           b == BlockAround(T, Len(T) + 1)
<1>1. /\ T \in AnyTokens /\ token \in AnyToken
      /\ config = Tree(T) /\ StackOf(T, depth, stack) /\ InPlace(T)
      /\ top = b /\ (After(Words) <=> WordAt(T, Len(T)))
  BY <1>0, ReadSoFar
<1>2. IsWord(token) /\ WordFits /\ Read(token) /\ UNCHANGED <<depth, stack>>
  BY DEF Word, IsWord
<1>3. /\ ~Ends(token) /\ last \notin Words
      /\ token.type \notin {"COMMENT", "WHITESPACE", "START_BLOCK", "END_BLOCK", "STATEMENT_END"}
  BY <1>2 DEF IsWord, Words, Ends, WordFits
<1>4. config' = Tree(U)
  <2>1. CASE After(Words)
    <3>1. config' = [config EXCEPT ![top][Len(config[top])].tokens = Append(@, token.value)]
      BY <2>1 DEF Word
    <3>2. Tree(U) = [Tree(T) EXCEPT ![b][Len(Tree(T)[b])].tokens = Append(@, token.value)]
      BY <1>1, <1>2, <2>1, TreeContinues
    <3> HIDE DEF T, U, b
    <3> QED
      BY <1>1, <3>1, <3>2
  <2>2. CASE ~After(Words)
    <3>1. config' = [config EXCEPT ![top] = Append(@, Statement(<<token.value>>, NoBlock))]
      BY <2>2 DEF Word
    <3>2. Tree(U) = [Tree(T) EXCEPT ![b] = Append(@, Statement(<<token.value>>, NoBlock))]
      BY <1>1, <1>2, <2>2, TreeGetsStatement
    <3> HIDE DEF T, U, b
    <3> QED
      BY <1>1, <3>1, <3>2
  <2> QED
    BY <2>1, <2>2
<1>5. StackOf(U, depth', stack')
  BY <1>1, <1>2, <1>3, StackStays
<1>6. InPlace(U)
  BY <1>1, <1>3, InPlaceGrows
<1> QED
  BY <1>0, <1>2, <1>3, <1>4, <1>5, <1>6, TokenIsRead

LEMMA EndStatementIsRead ==
  ASSUME RInv, NEW token, token = ParseToken(text, pos), EndStatement(token)
  PROVE  RInv'
<1>0. PICK before : AsRead(before)
  BY DEF RInv
<1> DEFINE T == Meaningful(before)
           U == Append(T, token)
<1>1. /\ T \in AnyTokens /\ token \in AnyToken
      /\ config = Tree(T) /\ StackOf(T, depth, stack) /\ InPlace(T)
      /\ After(Words) <=> WordAt(T, Len(T))
  BY <1>0, ReadSoFar
<1>2. /\ token.type = "STATEMENT_END" /\ After(Words) /\ Read(token)
      /\ UNCHANGED <<depth, stack, config>>
  BY DEF EndStatement
<1>3. ~Ends(token) /\ ~IsWord(token)
  BY <1>2 DEF IsWord, Words, Ends
<1>4. config' = Tree(U)
  BY <1>1, <1>2, <1>3, TreeUnchanged
<1>5. StackOf(U, depth', stack')
  BY <1>1, <1>2, StackStays
<1>6. InPlace(U)
  BY <1>1, <1>2, InPlaceGrows
<1> QED
  BY <1>0, <1>2, <1>3, <1>4, <1>5, <1>6, TokenIsRead

LEMMA StartBlockIsRead ==
  ASSUME RInv, NEW token, token = ParseToken(text, pos), StartBlock(token)
  PROVE  RInv'
<1>0. PICK before : AsRead(before)
  BY DEF RInv
<1> DEFINE T == Meaningful(before)
           U == Append(T, token)
           b == BlockAround(T, Len(T) + 1)
<1>1. /\ T \in AnyTokens /\ token \in AnyToken
      /\ config = Tree(T) /\ StackOf(T, depth, stack) /\ InPlace(T)
      /\ top = b /\ (After(Words) <=> WordAt(T, Len(T)))
  BY <1>0, ReadSoFar
<1>2. /\ token.type = "START_BLOCK" /\ After(Words) /\ Read(token)
      /\ config' = Append([config EXCEPT ![top][Len(config[top])].child = Len(config) + 1], << >>)
      /\ stack' = Append(stack, Len(config) + 1) /\ depth' = depth + 1
  BY DEF StartBlock
<1>3. ~Ends(token) /\ ~IsWord(token)
  BY <1>2 DEF IsWord, Words, Ends
<1>4. config' = Tree(U)
  <2>1. Tree(U) = Append([Tree(T) EXCEPT ![b][Len(Tree(T)[b])].child = Len(Tree(T)) + 1], << >>)
    BY <1>1, <1>2, TreeOpens
  <2> HIDE DEF T, U, b
  <2> QED
    BY <1>1, <1>2, <2>1
<1>5. StackOf(U, depth', stack')
  <2>1. StackOf(U, depth + 1, Append(stack, Len(Tree(T)) + 1))
    BY <1>1, <1>2, StackOpens
  <2> HIDE DEF T, U
  <2> QED
    BY <1>1, <1>2, <2>1, Zenon
<1>6. InPlace(U)
  BY <1>1, <1>2, InPlaceGrows
<1> QED
  BY <1>0, <1>2, <1>3, <1>4, <1>5, <1>6, TokenIsRead

LEMMA EndBlockIsRead ==
  ASSUME RInv, NEW token, token = ParseToken(text, pos), EndBlock(token)
  PROVE  RInv'
<1>0. PICK before : AsRead(before)
  BY DEF RInv
<1> DEFINE T == Meaningful(before)
           U == Append(T, token)
<1>1. /\ T \in AnyTokens /\ token \in AnyToken
      /\ config = Tree(T) /\ StackOf(T, depth, stack) /\ InPlace(T)
  BY <1>0, ReadSoFar
<1>2. /\ token.type = "END_BLOCK" /\ BlockMayEnd /\ depth >= 1 /\ Read(token)
      /\ UNCHANGED config /\ depth' = depth - 1 /\ stack' = SubSeq(stack, 1, Len(stack) - 1)
  BY DEF EndBlock, BlockMayEnd
<1>3. ~Ends(token) /\ ~IsWord(token)
  BY <1>2 DEF IsWord, Words, Ends
<1>4. ~WordAt(T, Len(T))
  <2>1. LastType(T) \in {"STATEMENT_END", "START_BLOCK", "END_BLOCK"}
    BY <1>0, <1>2, AfterIs DEF BlockMayEnd
  <2>2. LastType(T) \notin Words
    BY <2>1 DEF Words
  <2> QED
    BY <1>0, <2>2, LastTypeIs DEF AsRead
<1>5. config' = Tree(U)
  BY <1>1, <1>2, <1>3, TreeUnchanged
<1>6. StackOf(U, depth', stack')
  <2>1. StackOf(U, depth - 1, SubSeq(stack, 1, Len(stack) - 1))
    BY <1>1, <1>2, StackCloses
  <2> HIDE DEF T, U
  <2> QED
    BY <1>2, <2>1, Zenon
<1>7. InPlace(U)
  BY <1>1, <1>2, <1>4, InPlaceGrows
<1> QED
  BY <1>0, <1>2, <1>3, <1>5, <1>6, <1>7, TokenIsRead

LEMMA ReadingEnds ==
  ASSUME RInv, outcome' \in {"reading", "valid", "invalid"},
         UNCHANGED <<text, pos, last, second, depth, stack, config>>
  PROVE  RInv'
<1>1. PICK before : AsRead(before)
  BY DEF RInv
<1>2. Remembered(before)'
  BY <1>1 DEF AsRead, Remembered
<1>3. AsRead(before)'
  BY <1>1, <1>2 DEF AsRead
<1> QED
  BY <1>3 DEF RInv

LEMMA RInvIsInductive == RInv /\ [Next]_vars => RInv'
<1> SUFFICES ASSUME RInv, [Next]_vars PROVE RInv'
  OBVIOUS
<1>1. CASE UNCHANGED vars
  <2>1. outcome' \in {"reading", "valid", "invalid"}
    BY <1>1 DEF vars, RInv
  <2> QED
    BY <1>1, <2>1, ReadingEnds DEF vars
<1>2. CASE Reprint
  BY <1>2, ReprintRInv
<1>3. CASE Parse
  <2>1. PICK token : token = ParseToken(text, pos)
    OBVIOUS
  <2>2. \/ Comment(token) \/ Whitespace(token) \/ Word(token)
        \/ EndStatement(token) \/ StartBlock(token) \/ EndBlock(token)
        \/ EndOfFile(token) \/ Reject(token)
    BY <1>3, <2>1, Zenon DEF Parse
  <2>3. CASE EndOfFile(token) \/ Reject(token)
    <3>1. /\ outcome' \in {"reading", "valid", "invalid"}
          /\ UNCHANGED <<text, pos, last, second, depth, stack, config>>
      BY <2>3 DEF EndOfFile, Reject, Return
    <3> QED
      BY <3>1, ReadingEnds
  <2> QED
    BY <2>1, <2>2, <2>3, BlankIsRead, WordIsRead, EndStatementIsRead, StartBlockIsRead,
       EndBlockIsRead
<1> QED
  BY <1>1, <1>2, <1>3 DEF Next

(* Behind any number of tokens, every variable of the parser has its type, *)
(* and the depth is never negative, whatever braces the text has.          *)
THEOREM TypesStayCorrect == Spec => []TypeOK
<1>1. RInv => TypeOK
  <2> SUFFICES ASSUME RInv PROVE TypeOK
    OBVIOUS
  <2>1. PICK before : AsRead(before)
    BY DEF RInv
  <2>2. Meaningful(before) \in AnyTokens
    BY <2>1, LastTypeIs DEF AsRead
  <2>3. config \in AnyHeap
    BY <2>1, <2>2, TreeIs DEF AsRead
  <2>4. depth \in Nat /\ stack \in Seq(Nat)
    BY <2>1 DEF AsRead, StackOf
  <2> QED
    BY <2>3, <2>4 DEF TypeOK, RInv, AnyHeap, AnyStatement, AnyText, Place
<1> QED
  BY <1>1, InitRInv, RInvIsInductive, PTL DEF Spec

LEMMA TokensReadAre ==
  ASSUME NEW before, AsRead(before), text \in AnyText, pos \in Place
  PROVE  TokensRead = Meaningful(before)
<1> DEFINE rest == TokensFrom(text, pos)
           all == TokensFrom(text, 1)
           read == {k \in DOMAIN all : all[k].type \notin {"EOF", "ERROR"} /\ all[k].next <= pos}
           n == Len(before)
<1>1. /\ before \in AnyTokens /\ all = before \o rest
      /\ \A i \in 1..n : before[i].next <= pos /\ before[i].type \notin {"EOF", "ERROR", "START"}
  BY DEF AsRead, FirstTokens
<1>2. rest \in AnyTokens
  BY TokensFromUnfolds DEF AnyTokens
<1>3. \A k \in 1..Len(rest) : Ends(rest[k]) \/ rest[k].next > pos
  BY TokensMoveOn
<1>4. TokensRead = Meaningful(Selected(all, read))
  BY DEF TokensRead
<1> HIDE DEF rest
<1>5. n \in Nat /\ Len(rest) \in Nat /\ \A k \in 1..Len(rest) : rest[k] \in AnyToken
  BY <1>1, <1>2, TokensAre
<1>6. all \in AnyTokens /\ Len(all) = n + Len(rest) /\ DOMAIN all = 1..(n + Len(rest))
  <2>1. all \in AnyTokens /\ Len(all) = n + Len(rest)
    BY <1>1, <1>2, ConcatProperties DEF AnyTokens
  <2> HIDE DEF all
  <2> QED
    BY <2>1, TokensAre
<1>7. \A i \in 1..(n + Len(rest)) : all[i] = IF i <= n THEN before[i] ELSE rest[i - n]
  BY <1>1, <1>2, ConcatProperties DEF AnyTokens
<1> HIDE DEF all
<1>8. ASSUME NEW k \in 1..n PROVE k \in read
  <2>1. k \in DOMAIN all /\ all[k] = before[k]
    BY <1>5, <1>6, <1>7
  <2> QED
    BY <1>1, <2>1
<1>9. ASSUME NEW k \in (n + 1)..(n + Len(rest)) PROVE k \notin read
  <2>1. k \in 1..(n + Len(rest)) /\ ~(k <= n) /\ k - n \in 1..Len(rest)
    BY <1>5
  <2>2. all[k] = rest[k - n]
    BY <1>7, <2>1
  <2>3. all[k].type \in {"EOF", "ERROR"} \/ all[k].next > pos
    BY <1>3, <2>1, <2>2 DEF Ends
  <2>4. all[k].next \in Nat /\ pos \in Nat
    BY <1>5, <2>1, <2>2 DEF AnyToken, Place
  <2> QED
    BY <2>3, <2>4
<1> HIDE DEF read
<1>10. Selected(before \o rest, read) = before
  BY <1>1, <1>2, <1>8, <1>9, SelectedFront DEF AnyTokens
<1> QED
  BY <1>1, <1>4, <1>10, Zenon

(* For every text, well formed or not, the tree is at every token what the *)
(* tokens read so far say, and nothing else.                               *)
THEOREM TreeIsAsWritten == Spec => []ParsedAsWritten
<1>1. RInv => ParsedAsWritten
  <2> SUFFICES ASSUME RInv PROVE config = Tree(TokensRead)
    BY DEF ParsedAsWritten
  <2>1. PICK before : AsRead(before)
    BY DEF RInv
  <2>2. TokensRead = Meaningful(before)
    BY <2>1, TokensReadAre DEF RInv
  <2> QED
    BY <2>1, <2>2, Zenon DEF AsRead
<1> QED
  BY <1>1, InitRInv, RInvIsInductive, PTL DEF Spec

-----------------------------------------------------------------------------
(* The verdict.                                                            *)

(* Whether the text is right, as ValidIffWellFormed has it.                *)
Right(txt) == WellFormed(Meaningful(TokensFrom(txt, 1))) /\ Apart(TokensFrom(txt, 1))

LEMMA EveryTokenIsTyped ==
  ASSUME RInv
  PROVE  DOMAIN TokensFrom(text, 1) = 1..Len(TokensFrom(text, 1))
<1>1. 1 \in Place
  BY DEF Place
<1>2. TokensFrom(text, 1) \in AnyTokens
  BY <1>1, TokensFromUnfolds DEF RInv, AnyTokens
<1> QED
  BY <1>2, TokensAre

LEMMA AcceptedIsRight ==
  ASSUME RInv, NEW token, token = ParseToken(text, pos), EndOfFile(token)
  PROVE  Right(text)
<1>0. PICK before : AsRead(before)
  BY DEF RInv
<1> DEFINE T == Meaningful(before)
<1>1. text \in AnyText /\ pos \in Place /\ FirstTokens(text, pos, before) /\ Apart(before)
  BY <1>0 DEF RInv, AsRead
<1>2. /\ T \in AnyTokens /\ token \in AnyToken
      /\ StackOf(T, depth, stack) /\ InPlace(T)
  BY <1>0, ReadSoFar
<1>3. token.type = "EOF" /\ After({"STATEMENT_END", "END_BLOCK", "START"}) /\ depth = 0
  BY DEF EndOfFile, FileMayEnd
<1>4. Ends(token) /\ ~IsWord(token) /\ token.type \notin {"COMMENT", "WHITESPACE"}
  BY <1>3 DEF Ends, IsWord, Words
<1>5. ~WordAt(T, Len(T))
  <2>1. LastType(T) \in {"STATEMENT_END", "END_BLOCK", "START"}
    BY <1>0, <1>3, AfterIs
  <2>2. LastType(T) \notin Words
    BY <2>1 DEF Words
  <2> QED
    BY <1>1, <2>2, LastTypeIs
<1>6. \A k \in 1..Len(T) : T[k].type \notin {"EOF", "ERROR"}
  BY <1>1, LastTypeIs
<1>7. Meaningful(TokensFrom(text, 1)) = Append(T, token)
  BY <1>1, <1>4, MeaningfulFront
<1>8. WellFormed(Append(T, token))
  BY <1>2, <1>3, <1>5, <1>6, EndsWell
<1>9. TokensFrom(text, 1) = Append(before, token)
  <2>1. PICK rest \in AnyTokens : TokensFrom(text, 1) = Append(before, token) \o rest /\ (Ends(token) => rest = << >>)
    BY <1>1, AllTokensAre
  <2>2. Append(before, token) \in Seq(AnyToken)
    BY <1>1, <1>2, AppendStartsWith DEF FirstTokens, AnyTokens
  <2>3. Append(before, token) \o << >> = Append(before, token)
    BY <2>2, ConcatEmptySeq
  <2> QED
    BY <1>4, <2>1, <2>3, Zenon
<1>10. Apart(Append(before, token))
  BY <1>1, <1>2, <1>4, ApartGrows DEF FirstTokens
<1> QED
  BY <1>7, <1>8, <1>9, <1>10, Zenon DEF Right

LEMMA RejectedIsNot ==
  ASSUME RInv, NEW token, token = ParseToken(text, pos), Reject(token)
  PROVE  ~Right(text)
<1> SUFFICES ASSUME Right(text) PROVE FALSE
  OBVIOUS
<1>0. PICK before : AsRead(before)
  BY DEF RInv
<1> DEFINE T == Meaningful(before)
           W == Meaningful(TokensFrom(text, 1))
<1>1. text \in AnyText /\ pos \in Place /\ FirstTokens(text, pos, before)
  BY <1>0 DEF RInv, AsRead
<1>2. /\ T \in AnyTokens /\ token \in AnyToken /\ StackOf(T, depth, stack)
      /\ After(Words) <=> WordAt(T, Len(T))
  BY <1>0, ReadSoFar
<1>3. /\ LastType(T) \in Words \union {"START", "START_BLOCK", "END_BLOCK", "STATEMENT_END"}
      /\ LastType(T) = "START" <=> Len(T) = 0
      /\ LastType(T) # "START" => Len(T) \in 1..Len(T) /\ LastType(T) = T[Len(T)].type
      /\ LastType(T) \in Words <=> WordAt(T, Len(T))
  BY <1>1, LastTypeIs
<1>4. depth \in Nat /\ depth = Level(T, Len(T) + 1)
  BY <1>2 DEF StackOf
<1>5. token.type \notin {"COMMENT", "WHITESPACE"}
  BY DEF Reject, Words
<1>6. /\ W \in AnyTokens /\ StartsWith(W, Append(T, token))
      /\ Ends(token) => W = Append(T, token)
  BY <1>1, <1>5, MeaningfulFront
<1>7. WellFormed(W) /\ Apart(TokensFrom(text, 1))
  BY DEF Right
<1> HIDE DEF W
<1>8. /\ token.type # "ERROR"
      /\ token.type \in {"STATEMENT_END", "START_BLOCK"} => WordAt(T, Len(T))
      /\ token.type \in {"END_BLOCK", "EOF"} => ~WordAt(T, Len(T))
      /\ token.type = "END_BLOCK" => depth >= 1
  BY <1>2, <1>4, <1>6, <1>7, StaysBad
<1>9. CASE token.type \in Words /\ ~WordFits
  <2>1. last \in Words
    <3>1. last = LastType(T) \/ last = "WHITESPACE"
      BY <1>0 DEF AsRead, Remembered
    <3> HIDE DEF T
    <3> QED
      BY <1>3, <1>9, <3>1 DEF WordFits
  <2>2. WordAt(before, Len(before)) /\ before \in AnyTokens
    BY <1>0, <2>1 DEF AsRead, Remembered, FirstTokens
  <2>3. PICK rest \in AnyTokens : TokensFrom(text, 1) = Append(before, token) \o rest
    BY <1>1, AllTokensAre
  <2>4. ~Apart(Append(before, token) \o rest)
    BY <1>2, <1>9, <2>2, StaysTouching DEF IsWord
  <2> QED
    BY <1>7, <2>3, <2>4
<1>10. CASE token.type \in {"STATEMENT_END", "START_BLOCK"} /\ ~After(Words)
  BY <1>2, <1>8, <1>10
<1>11. CASE token.type = "END_BLOCK" /\ ~BlockMayEnd
  <2>1. ~After({"STATEMENT_END", "START_BLOCK", "END_BLOCK"})
    BY <1>8, <1>11 DEF BlockMayEnd
  <2>2. LastType(T) \notin {"STATEMENT_END", "START_BLOCK", "END_BLOCK"}
    BY <1>0, <2>1, AfterIs
  <2>3. LastType(T) \notin Words
    BY <1>3, <1>8, <1>11
  <2> HIDE DEF T
  <2>4. Len(T) = 0
    BY <1>3, <2>2, <2>3
  <2>5. depth = 0
    BY <1>4, <2>4, NoLevel
  <2> QED
    BY <1>8, <1>11, <2>5
<1>12. CASE token.type = "EOF" /\ ~FileMayEnd
  <2>1. LastType(T) \notin Words
    BY <1>3, <1>8, <1>12
  <2>2. W = Append(T, token)
    BY <1>6, <1>12 DEF Ends
  <2>3. depth = 0
    <3>1. Len(Append(T, token)) = Len(T) + 1
      BY <1>2, AppendStartsWith
    <3>2. Level(W, Len(T) + 1) = 0
      BY <1>7, <2>2, <3>1, Zenon DEF WellFormed
    <3>3. Level(Append(T, token), Len(T) + 1) = depth
      BY <1>2, LevelsGrow
    <3> QED
      BY <2>2, <3>2, <3>3
  <2>4. ~After({"STATEMENT_END", "END_BLOCK", "START"})
    BY <1>12, <2>3 DEF FileMayEnd
  <2>5. LastType(T) \notin {"STATEMENT_END", "END_BLOCK", "START"}
    BY <1>0, <2>4, AfterIs
  <2>6. LastType(T) = "START_BLOCK" /\ Len(T) \in 1..Len(T) /\ T[Len(T)].type = "START_BLOCK"
    <3> HIDE DEF T
    <3> QED
      BY <1>3, <2>1, <2>5
  <2>7. Level(T, Len(T) + 1) = Level(T, Len(T)) + 1 /\ Level(T, Len(T)) \in Int
    BY <1>2, <2>6, LevelGrows
  <2>8. Level(T, Len(T)) >= 0
    <3>1. Len(T) \in 1..(Len(T) + 1)
      BY <2>6
    <3> QED
      BY <1>2, <3>1 DEF StackOf
  <2> QED
    BY <1>4, <2>3, <2>7, <2>8
<1> QED
  BY <1>8, <1>9, <1>10, <1>11, <1>12 DEF Reject

LEMMA RightIs ==
  ASSUME RInv
  PROVE  ValidIffWellFormed <=> (outcome # "reading" => (outcome = "valid" <=> Right(text)))
<1>1. DOMAIN TokensFrom(text, 1) = 1..Len(TokensFrom(text, 1))
  BY EveryTokenIsTyped
<1> QED
  BY DEF ValidIffWellFormed, Right, Apart, IsWord

(* Parse accepts exactly the texts whose tokens are well formed and in     *)
(* which no two words touch.                                               *)
THEOREM VerdictIsRight == Spec => []ValidIffWellFormed
<1> DEFINE Verdict == outcome # "reading" => (outcome = "valid" <=> Right(text))
<1>1. Init => RInv /\ Verdict
  BY InitRInv DEF Init
<1>2. RInv /\ Verdict /\ [Next]_vars => (RInv /\ Verdict)'
  <2> SUFFICES ASSUME RInv, Verdict, [Next]_vars PROVE Verdict'
    BY RInvIsInductive
  <2>1. CASE UNCHANGED vars
    BY <2>1 DEF vars
  <2>2. CASE Reprint
    BY <2>2 DEF Reprint
  <2>3. CASE Parse
    <3>1. PICK token : token = ParseToken(text, pos)
      OBVIOUS
    <3>2. outcome = "reading"
      BY <2>3 DEF Parse
    <3>3. \/ Comment(token) \/ Whitespace(token) \/ Word(token)
          \/ EndStatement(token) \/ StartBlock(token) \/ EndBlock(token)
          \/ EndOfFile(token) \/ Reject(token)
      BY <2>3, <3>1, Zenon DEF Parse
    <3>4. CASE EndOfFile(token)
      <4>1. Right(text) /\ outcome' = "valid" /\ text' = text
        BY <3>1, <3>4, AcceptedIsRight DEF EndOfFile, Return
      <4> QED
        BY <4>1
    <3>5. CASE Reject(token)
      <4>1. ~Right(text) /\ outcome' = "invalid" /\ text' = text
        BY <3>1, <3>5, RejectedIsNot DEF Reject, Return
      <4> QED
        BY <4>1
    <3>6. CASE ~EndOfFile(token) /\ ~Reject(token)
      <4>1. outcome' = outcome
        BY <3>3, <3>6 DEF Comment, Whitespace, Word, EndStatement, StartBlock, EndBlock, Read
      <4> QED
        BY <3>2, <4>1
    <3> QED
      BY <3>4, <3>5, <3>6
  <2> QED
    BY <2>1, <2>2, <2>3 DEF Next
<1>3. RInv /\ Verdict => ValidIffWellFormed
  BY RightIs
<1> QED
  BY <1>1, <1>2, <1>3, PTL DEF Spec

(* What makes the loop of Parse end: every turn of it returns, or moves    *)
(* the stream on, at most to the end of the text.                          *)
MovesOn ==
  Parse => \/ outcome' # "reading"
           \/ text' = text /\ pos' > pos /\ pos' <= Len(text) + 1

THEOREM EveryTurnMovesOn == Spec => [][MovesOn]_vars
<1>1. RInv /\ [Next]_vars => [MovesOn]_vars
  <2> SUFFICES ASSUME RInv, Parse, outcome' = "reading"
               PROVE  text' = text /\ pos' > pos /\ pos' <= Len(text) + 1
    BY DEF MovesOn
  <2>1. PICK token : token = ParseToken(text, pos)
    OBVIOUS
  <2>2. SoundToken(text, pos, token)
    BY <2>1, ParseTokenIsSound DEF RInv, Place
  <2>3. \/ Comment(token) \/ Whitespace(token) \/ Word(token)
        \/ EndStatement(token) \/ StartBlock(token) \/ EndBlock(token)
    BY <2>1, Zenon DEF Parse, EndOfFile, Reject, Return
  <2>4. pos' = token.next /\ text' = text /\ token.type \notin {"EOF", "ERROR"}
    BY <2>3 DEF Comment, Whitespace, Word, EndStatement, StartBlock, EndBlock, Read, Words
  <2> QED
    BY <2>2, <2>4 DEF SoundToken
<1> QED
  BY <1>1, InitRInv, RInvIsInductive, PTL DEF Spec

-----------------------------------------------------------------------------
(* The port.                                                               *)

(* The server listens on the first port the text names, in whatever block, *)
(* as far as it has been read.                                             *)
THEOREM FirstPortIsTaken == Spec => []PortIsFirst
<1>1. RInv => PortIsFirst
  <2> DEFINE T == TokensRead
             ports == Ports(T)
  <2> SUFFICES ASSUME RInv, \A i \in DOMAIN ports : ports[i] # NoPort
               PROVE  GetPort(config) =
                        CASE ports = << >> -> DefaultPort
                          [] ports # << >> /\ ports[1] # << >> /\ ports[1][1] \notin PortNumbers -> DefaultPort
                          [] OTHER -> ports[1]
    BY DEF PortIsFirst
  <2>1. PICK before : AsRead(before)
    BY DEF RInv
  <2>2. T = Meaningful(before)
    BY <2>1, TokensReadAre DEF RInv
  <2>3. T \in AnyTokens /\ InPlace(T) /\ config = Tree(T) /\ StackOf(T, depth, stack)
    BY <2>1, <2>2, LastTypeIs, Zenon DEF AsRead
  <2> HIDE DEF T
  <2>4. Balanced(T)
    BY <2>3 DEF Balanced, StackOf
  <2>5. \A k \in Names(T) : PortAt(T, k) # NoPort
    BY <2>3, PortsAre
  <2>6. GetPortHelper(config) = FirstPort(T, Names(T))
    BY <2>3, <2>4, <2>5, PortSearchIs
  <2>7. CASE ports = << >>
    <3>1. GetPortHelper(config) = <<-1>>
      BY <2>3, <2>6, <2>7, PortsAre DEF NoPort
    <3>2. GetPort(config) = DefaultPort
      BY <3>1 DEF GetPort, PortNumbers
    <3> QED
      BY <2>7, <3>2
  <2>8. CASE ports # << >>
    <3>1. GetPortHelper(config) = ports[1]
      BY <2>3, <2>6, <2>8, PortsAre
    <3>2. GetPort(config) = IF ports[1] = << >> \/ ports[1][1] \in PortNumbers THEN ports[1] ELSE DefaultPort
      BY <3>1, Zenon DEF GetPort
    <3> HIDE DEF ports
    <3> QED
      BY <2>8, <3>2
  <2> QED
    BY <2>7, <2>8
<1> QED
  BY <1>1, InitRInv, RInvIsInductive, PTL DEF Spec
=============================================================================
