--------------------------- MODULE DispatchProofs ---------------------------
(***************************************************************************)
(* Proofs about Dispatch for any configurations, any texts and any buffer: *)
(* what is handled has the parts its handler needs, at the longest         *)
(* location it matches; a static location hands out what lies below its    *)
(* root unless the target leads up; an echo location sends a plain request *)
(* back as it came; and no null pointer of the dispatch ends the process   *)
(* when the configuration is complete.                                     *)
(***************************************************************************)
EXTENDS Dispatch, Extrema, SequenceTheorems, TLAPS
LOCAL INSTANCE FiniteSetsExt
LOCAL SE == INSTANCE SequencesExt

AnyText == Seq(STRING)
-----------------------------------------------------------------------------
(* Texts.                                                                  *)

LEMMA TextLength ==
  ASSUME NEW text \in AnyText
  PROVE  Len(text) \in Nat /\ DOMAIN text = 1..Len(text)
BY LenProperties DEF AnyText

(* Find gives the first place of a piece, or the one behind the text.      *)
LEMMA FindIsFirst ==
  ASSUME NEW text \in AnyText, NEW c, NEW i \in Nat
  PROVE  /\ Find(text, c, i) \in Nat /\ Find(text, c, i) <= Len(text) + 1
         /\ Find(text, c, i) <= Len(text) => Find(text, c, i) >= i /\ text[Find(text, c, i)] = c
         /\ \A j \in i..Len(text) : text[j] = c => Find(text, c, i) <= j
<1> DEFINE S == {j \in i..Len(text) : text[j] = c} \union {Len(text) + 1}
<1>1. Len(text) \in Nat
  BY LenProperties DEF AnyText
<1>2. S \in SUBSET Nat /\ S # {}
  BY <1>1
<1>3. PICK x \in S : \A y \in S : x <= y
  BY <1>2, LeastNatural
<1>4. Find(text, c, i) \in S /\ \A y \in S : Find(text, c, i) <= y
  BY <1>3 DEF Find, Min
<1>5. Len(text) + 1 \in S /\ \A j \in i..Len(text) : text[j] = c => j \in S
  OBVIOUS
<1>6. \/ Find(text, c, i) \in i..Len(text) /\ text[Find(text, c, i)] = c
      \/ Find(text, c, i) = Len(text) + 1
  BY <1>4
<1> HIDE DEF S
<1> QED
  BY <1>1, <1>4, <1>5, <1>6

(* FirstOf gives the first place of one of its pieces.                     *)
LEMMA FirstOfIsFirst ==
  ASSUME NEW text \in AnyText, NEW pieces, NEW i \in Nat
  PROVE  /\ FirstOf(text, pieces, i) \in Nat /\ FirstOf(text, pieces, i) <= Len(text) + 1
         /\ FirstOf(text, pieces, i) <= Len(text) =>
              FirstOf(text, pieces, i) >= i /\ text[FirstOf(text, pieces, i)] \in pieces
         /\ \A j \in i..Len(text) : text[j] \in pieces => FirstOf(text, pieces, i) <= j
<1> DEFINE S == {j \in i..Len(text) : text[j] \in pieces} \union {Len(text) + 1}
<1>1. Len(text) \in Nat
  BY LenProperties DEF AnyText
<1>2. S \in SUBSET Nat /\ S # {}
  BY <1>1
<1>3. PICK x \in S : \A y \in S : x <= y
  BY <1>2, LeastNatural
<1>4. FirstOf(text, pieces, i) \in S /\ \A y \in S : FirstOf(text, pieces, i) <= y
  BY <1>3 DEF FirstOf, Min
<1>5. Len(text) + 1 \in S /\ \A j \in i..Len(text) : text[j] \in pieces => j \in S
  OBVIOUS
<1>6. \/ FirstOf(text, pieces, i) \in i..Len(text) /\ text[FirstOf(text, pieces, i)] \in pieces
      \/ FirstOf(text, pieces, i) = Len(text) + 1
  BY <1>4
<1> HIDE DEF S
<1> QED
  BY <1>1, <1>4, <1>5, <1>6

(* The first of several pieces, if it is a given one, is the first of that.*)
LEMMA FirstOfFinds ==
  ASSUME NEW text \in AnyText, NEW pieces, NEW c \in pieces, NEW i \in Nat,
         FirstOf(text, pieces, i) <= Len(text), text[FirstOf(text, pieces, i)] = c
  PROVE  Find(text, c, i) = FirstOf(text, pieces, i)
<1> DEFINE first == FirstOf(text, pieces, i)
           found == Find(text, c, i)
<1>1. /\ Len(text) \in Nat /\ first \in Nat /\ found \in Nat
      /\ first >= i /\ first <= Len(text) /\ text[first] = c
      /\ \A j \in i..Len(text) : text[j] \in pieces => first <= j
  BY FirstOfIsFirst, FindIsFirst, TextLength
<1>2. /\ \A j \in i..Len(text) : text[j] = c => found <= j
      /\ found <= Len(text) => found >= i /\ text[found] = c
  BY FindIsFirst
<1> HIDE DEF first, found
<1>3. found <= first
  BY <1>1, <1>2
<1>4. found \in i..Len(text)
  BY <1>1, <1>2, <1>3
<1>5. first <= found
  BY <1>1, <1>2, <1>4
<1>6. found = first
  BY <1>1, <1>3, <1>5
<1> QED
  BY <1>6 DEF first, found

LEMMA FirstOfSecond ==
  ASSUME NEW text \in AnyText, NEW pieces, Len(text) >= 2, text[2] \in pieces,
         FirstOf(text, pieces, 1) # 1
  PROVE  FirstOf(text, pieces, 1) = 2
<1> DEFINE first == FirstOf(text, pieces, 1)
<1>1. Len(text) \in Nat /\ 2 \in 1..Len(text)
  BY TextLength
<1>2. first \in Nat /\ first <= 2 /\ (first <= Len(text) => first >= 1)
  BY <1>1, FirstOfIsFirst
<1> HIDE DEF first
<1>3. first = 2
  BY <1>1, <1>2 DEF first
<1> QED
  BY <1>3 DEF first

LEMMA PartOfText ==
  ASSUME NEW text \in AnyText, NEW i \in Nat \ {0}, NEW j \in Nat, j <= Len(text)
  PROVE  /\ SubSeq(text, i, j) \in AnyText
         /\ Len(SubSeq(text, i, j)) = IF i <= j THEN j - i + 1 ELSE 0
         /\ \A k \in 1 .. j - i + 1 : SubSeq(text, i, j)[k] = text[i + k - 1]
<1>1. \A k \in i .. j : text[k] \in STRING
  BY ElementOfSeq, LenProperties DEF AnyText
<1> QED
  BY <1>1, SubSeqProperties DEF AnyText

(* What a read is taken for: all of it up to a NUL, when it left room.     *)
LEMMA TextOfRead ==
  ASSUME NEW arrived \in Arrivals \union {<< >>}, NEW text \in Texts(arrived)
  PROVE  /\ arrived \in AnyText /\ text \in AnyText
         /\ Len(arrived) < Capacity =>
              /\ Len(text) <= Len(arrived)
              /\ \A i \in 1..Len(text) : text[i] = arrived[i] /\ text[i] # "NUL"
<1> DEFINE nul == Find(arrived, "NUL", 1)
<1>1. arrived \in AnyText /\ Garbage \subseteq AnyText /\ Len(arrived) \in Nat
  BY DispatchAssumption, EmptySeq, LenProperties DEF AnyText
<1>2. /\ nul \in Nat \ {0} /\ nul <= Len(arrived) + 1
      /\ \A j \in 1..Len(arrived) : arrived[j] = "NUL" => nul <= j
  BY <1>1, FindIsFirst
<1> HIDE DEF nul
<1>3. CASE nul <= Len(arrived)
  <2>1. text = SubSeq(arrived, 1, nul - 1)
    BY <1>3 DEF Texts, nul
  <2>2. /\ SubSeq(arrived, 1, nul - 1) \in AnyText
        /\ Len(SubSeq(arrived, 1, nul - 1)) = nul - 1
        /\ \A k \in 1 .. nul - 1 : SubSeq(arrived, 1, nul - 1)[k] = arrived[k]
    BY <1>1, <1>2, <1>3, PartOfText
  <2> QED
    BY <1>1, <1>2, <1>3, <2>1, <2>2
<1>4. CASE nul > Len(arrived) /\ Len(arrived) < Capacity
  <2>1. text = arrived
    BY <1>1, <1>2, <1>4 DEF Texts, nul
  <2> QED
    BY <1>1, <1>2, <1>4, <2>1
<1>5. CASE nul > Len(arrived) /\ ~(Len(arrived) < Capacity)
  <2>1. PICK g \in Garbage : text = arrived \o g
    BY <1>1, <1>2, <1>5 DEF Texts, nul
  <2> QED
    BY <1>1, <1>5, <2>1, ConcatProperties DEF AnyText
<1> QED
  BY <1>1, <1>2, <1>3, <1>4, <1>5

-----------------------------------------------------------------------------
(* The header section.                                                     *)

(* A line depends on what follows it only.                                 *)
LEMMA HeaderLineLooksAhead ==
  ASSUME NEW text \in AnyText, NEW j \in Nat, NEW f, NEW g,
         \A k \in Nat : k > j => f[k] = g[k]
  PROVE  HeaderLine(text, f, j) = HeaderLine(text, g, j)
<1> DEFINE end == Find(text, "\r", j)
<1>1. CASE ~LineEnds(text, end)
  BY <1>1 DEF HeaderLine
<1>2. CASE LineEnds(text, end) /\ end = j
  BY <1>2 DEF HeaderLine
<1>3. CASE LineEnds(text, end) /\ end # j
  <2>1. end \in Nat /\ end >= j
    BY <1>3, FindIsFirst DEF LineEnds
  <2>2. f[end + 2] = g[end + 2]
    BY <2>1
  <2> QED
    BY <1>3, <2>2 DEF HeaderLine
<1> QED
  BY <1>1, <1>2, <1>3

(* The recursion of HeaderSection ends at the text's end, so that there is *)
(* a function it defines: it is put together from the end on.              *)
LEMMA HeaderLinesExist ==
  ASSUME NEW text \in AnyText
  PROVE  \E f : f = [j \in Nat |-> HeaderLine(text, f, j)]
<1> DEFINE size == Len(text)
           Fits(f, n) == /\ f = [j \in Nat |-> f[j]]
                         /\ \A j \in Nat : j + n > size => f[j] = HeaderLine(text, f, j)
           Good == {n \in Nat : \E f : Fits(f, n)}
<1>1. size \in Nat
  BY LenProperties DEF AnyText
<1>2. 0 \in Good
  <2> DEFINE f == [j \in Nat |-> [lines |-> << >>, body |-> << >>]]
  <2>1. ASSUME NEW j \in Nat, j > size PROVE f[j] = HeaderLine(text, f, j)
    <3>1. ~LineEnds(text, Find(text, "\r", j))
      BY <1>1, <2>1, FindIsFirst DEF LineEnds
    <3> QED
      BY <3>1 DEF HeaderLine
  <2> HIDE DEF f
  <2>2. f = [j \in Nat |-> f[j]]
    BY DEF f
  <2> QED
    BY <1>1, <2>1, <2>2
<1>3. ASSUME NEW n \in Nat, n \in Good PROVE n + 1 \in Good
  <2>1. PICK f : Fits(f, n)
    BY <1>3
  <2> DEFINE g == [j \in Nat |-> IF j + n = size THEN HeaderLine(text, f, j) ELSE f[j]]
  <2>2. g = [j \in Nat |-> g[j]]
    OBVIOUS
  <2>3. ASSUME NEW j \in Nat, j + (n + 1) > size PROVE g[j] = HeaderLine(text, g, j)
    <3>1. \A k \in Nat : k > j => f[k] = g[k]
      BY <1>1, <2>3
    <3>2. HeaderLine(text, f, j) = HeaderLine(text, g, j)
      BY <3>1, HeaderLineLooksAhead
    <3>3. g[j] = HeaderLine(text, f, j)
      BY <1>1, <2>1, <2>3
    <3> QED
      BY <3>2, <3>3
  <2> HIDE DEF g
  <2> QED
    BY <2>2, <2>3
<1>4. size + 1 \in Good
  <2> HIDE DEF Good
  <2> QED
    BY <1>1, <1>2, <1>3, SetInduction
<1>5. PICK f : Fits(f, size + 1)
  BY <1>4
<1>6. \A j \in Nat : f[j] = HeaderLine(text, f, j)
  BY <1>1, <1>5
<1> QED
  BY <1>5, <1>6

LEMMA HeaderSectionUnfolds ==
  ASSUME NEW text \in AnyText, NEW j \in Nat
  PROVE  HeaderSection(text, j) = HeaderLine(text, [k \in Nat |-> HeaderSection(text, k)], j)
<1> DEFINE f == CHOOSE g : g = [k \in Nat |-> HeaderLine(text, g, k)]
<1>1. f = [k \in Nat |-> HeaderLine(text, f, k)]
  BY HeaderLinesExist
<1>2. \A k \in Nat : HeaderSection(text, k) = f[k]
  BY DEF HeaderSection
<1> HIDE DEF f
<1>3. \A k \in Nat : k > j => f[k] = [i \in Nat |-> HeaderSection(text, i)][k]
  BY <1>2
<1> QED
  BY <1>1, <1>2, <1>3, HeaderLineLooksAhead

(* Every line of the section stands in the text before a CR LF.            *)
LineOf(text, line) ==
  \E a \in Nat \ {0}, e \in Nat \ {0} : a < e /\ LineEnds(text, e) /\ line = SubSeq(text, a, e - 1)

LEMMA LinesStandInText ==
  ASSUME NEW text \in AnyText, NEW j \in Nat \ {0}
  PROVE  /\ HeaderSection(text, j) \in [lines : Seq(AnyText), body : AnyText]
         /\ \A i \in DOMAIN HeaderSection(text, j).lines : LineOf(text, HeaderSection(text, j).lines[i])
<1> DEFINE size == Len(text)
           Sound(k) == /\ HeaderSection(text, k) \in [lines : Seq(AnyText), body : AnyText]
                       /\ \A i \in DOMAIN HeaderSection(text, k).lines : LineOf(text, HeaderSection(text, k).lines[i])
           Good == {n \in Nat : \A k \in Nat \ {0} : k + n > size => Sound(k)}
<1>1. size \in Nat
  BY LenProperties DEF AnyText
<1>2. ASSUME NEW k \in Nat \ {0}, \A i \in Nat \ {0} : i > k => Sound(i) \/ i > size + 1
      PROVE  Sound(k)
  <2> DEFINE end == Find(text, "\r", k)
             rest == HeaderSection(text, end + 2)
             line == SubSeq(text, k, end - 1)
  <2>1. end \in Nat /\ end <= size + 1 /\ (end <= size => end >= k)
    BY FindIsFirst
  <2>2. HeaderSection(text, k) = HeaderLine(text, [i \in Nat |-> HeaderSection(text, i)], k)
    BY HeaderSectionUnfolds
  <2>3. CASE ~LineEnds(text, end)
    <3>1. HeaderSection(text, k) = [lines |-> << >>, body |-> << >>]
      BY <2>2, <2>3 DEF HeaderLine
    <3> QED
      BY <3>1, EmptySeq DEF AnyText
  <2>4. CASE LineEnds(text, end) /\ end = k
    <3>1. HeaderSection(text, k) = [lines |-> << >>, body |-> SubSeq(text, k + 2, size)]
      BY <2>2, <2>4 DEF HeaderLine
    <3>2. SubSeq(text, k + 2, size) \in AnyText
      BY <1>1, PartOfText
    <3> QED
      BY <3>1, <3>2, EmptySeq
  <2>5. CASE LineEnds(text, end) /\ end # k
    <3>1. end < size /\ k < end
      BY <1>1, <2>1, <2>5 DEF LineEnds
    <3>2. HeaderSection(text, k) = [rest EXCEPT !.lines = <<line>> \o @]
      <4> DEFINE ahead == [i \in Nat |-> HeaderSection(text, i)]
      <4>1. ahead[end + 2] = rest
        BY <2>1
      <4>2. HeaderSection(text, k) = HeaderLine(text, ahead, k)
        BY <2>2
      <4> HIDE DEF ahead
      <4>3. HeaderLine(text, ahead, k) = [ahead[end + 2] EXCEPT !.lines = <<line>> \o @]
        BY <2>5 DEF HeaderLine
      <4> HIDE DEF rest, line
      <4> QED
        BY <4>1, <4>2, <4>3
    <3>3. Sound(end + 2)
      BY <1>1, <1>2, <2>1, <3>1
    <3>4. line \in AnyText
      <4>1. end - 1 \in Nat /\ end - 1 <= Len(text)
        BY <1>1, <2>1, <3>1
      <4> HIDE DEF end
      <4> QED
        BY <4>1, PartOfText
    <3>5. LineOf(text, line)
      <4>1. k \in Nat \ {0} /\ end \in Nat \ {0} /\ k < end /\ LineEnds(text, end) /\ line = SubSeq(text, k, end - 1)
        BY <2>1, <2>5, <3>1
      <4> HIDE DEF end, line
      <4> QED
        BY <4>1 DEF LineOf
    <3> HIDE DEF end, rest, line
    <3>6. <<line>> \in Seq(AnyText) /\ Len(<<line>>) = 1 /\ <<line>>[1] = line
      <4>1. Len(<<line>>) = 1 /\ <<line>>[1] = line
        OBVIOUS
      <4>2. <<line>> \in Seq({line})
        OBVIOUS
      <4> QED
        BY <3>4, <4>1, <4>2, SeqMonotonic
    <3>7. rest \in [lines : Seq(AnyText), body : AnyText]
      BY <3>3 DEF rest
    <3>9. <<line>> \o rest.lines \in Seq(AnyText)
      BY <3>6, <3>7, ConcatProperties
    <3>10. /\ HeaderSection(text, k) \in [lines : Seq(AnyText), body : AnyText]
           /\ HeaderSection(text, k).lines = <<line>> \o rest.lines
      BY <3>2, <3>7, <3>9
    <3>8. ASSUME NEW i \in DOMAIN (<<line>> \o rest.lines) PROVE LineOf(text, (<<line>> \o rest.lines)[i])
      <4>1. /\ <<line>> \o rest.lines \in Seq(AnyText)
            /\ Len(<<line>> \o rest.lines) = 1 + Len(rest.lines)
            /\ (<<line>> \o rest.lines)[i] = IF i <= 1 THEN <<line>>[i] ELSE rest.lines[i - 1]
            /\ i \in 1..(1 + Len(rest.lines)) /\ Len(rest.lines) \in Nat /\ DOMAIN rest.lines = 1..Len(rest.lines)
        BY <3>6, <3>7, ConcatProperties, LenProperties
      <4>2. CASE i = 1
        BY <3>5, <3>6, <4>1, <4>2
      <4>3. CASE i # 1
        <5>1. i - 1 \in DOMAIN rest.lines /\ ~(i <= 1)
          BY <4>1, <4>3
        <5> QED
          BY <3>3, <4>1, <5>1 DEF rest
      <4> QED
        BY <4>2, <4>3
    <3> QED
      BY <3>8, <3>10
  <2> QED
    BY <2>3, <2>4, <2>5
<1>3. 0 \in Good
  <2> SUFFICES ASSUME NEW k \in Nat \ {0}, k > size PROVE Sound(k)
    BY <1>1
  <2> HIDE DEF Sound
  <2> QED
    BY <1>1, <1>2
<1>4. ASSUME NEW n \in Nat, n \in Good PROVE n + 1 \in Good
  <2> SUFFICES ASSUME NEW k \in Nat \ {0}, k + (n + 1) > size PROVE Sound(k)
    BY <1>4
  <2> HIDE DEF Sound
  <2>1. \A i \in Nat \ {0} : i > k => Sound(i)
    BY <1>1, <1>4
  <2> QED
    BY <1>2, <2>1
<1> HIDE DEF Good, Sound
<1>5. size \in Good
  BY <1>1, <1>3, <1>4, SetInduction
<1>6. Sound(j)
  BY <1>1, <1>5 DEF Good
<1> QED
  BY <1>6 DEF Sound

-----------------------------------------------------------------------------
(* Requests.                                                               *)

(* A request whose method is known: its method and target are pieces of    *)
(* the text, in their places.                                              *)
LEMMA RequestLine ==
  ASSUME NEW text \in AnyText
  PROVE  /\ getFields(text).method # NoMethod =>
              /\ Len(text) >= 2 /\ text[1] \in KnownMethods /\ text[2] = " "
              /\ Find(text, " ", 1) = 2 /\ getFields(text).method = text[1]
              /\ getFields(text).target = SubSeq(text, 3, Find(text, " ", 3) - 1)
         /\ getFields(text).method = NoMethod => getFields(text).target = << >>
<1> DEFINE sp1 == Find(text, " ", 1)
           known == sp1 = 2 /\ Len(text) >= 2 /\ text[1] \in KnownMethods
<1>1. /\ getFields(text).method = IF known THEN text[1] ELSE NoMethod
      /\ getFields(text).target = IF known THEN SubSeq(text, sp1 + 1, Find(text, " ", sp1 + 1) - 1) ELSE << >>
  BY DEF getFields
<1>2. NoMethod \notin KnownMethods
  BY DEF NoMethod, KnownMethods
<1>3. sp1 = 2 /\ Len(text) >= 2 => text[2] = " "
  <2>1. sp1 <= Len(text) => text[sp1] = " "
    BY FindIsFirst
  <2> QED
    BY <2>1, TextLength
<1> HIDE DEF sp1
<1>4. sp1 = 2 => sp1 + 1 = 3
  OBVIOUS
<1> QED
  BY <1>1, <1>2, <1>3, <1>4 DEF sp1

(* getFields throws at a line that ends with its first colon.              *)
LEMMA ThrowsAtColon ==
  ASSUME NEW text \in AnyText, getFields(text).throws
  PROVE  \E i \in DOMAIN text : LineEnds(text, i + 1) /\ text[i] = ":"
<1> DEFINE sp1 == Find(text, " ", 1)
           sp2 == Find(text, " ", sp1 + 1)
           eol == Find(text, "\r", sp2 + 1)
           section == HeaderSection(text, eol + 2)
<1>1. Len(text) \in Nat /\ eol + 2 \in Nat \ {0}
  <2>1. sp1 \in Nat
    BY FindIsFirst
  <2> HIDE DEF sp1
  <2>2. sp2 \in Nat
    <3>1. sp1 + 1 \in Nat
      BY <2>1
    <3> QED
      BY <3>1, FindIsFirst
  <2> HIDE DEF sp2
  <2>3. eol \in Nat
    <3>1. sp2 + 1 \in Nat
      BY <2>2
    <3> QED
      BY <3>1, FindIsFirst
  <2> HIDE DEF eol
  <2> QED
    BY <2>3, TextLength
<1>2. \E i \in DOMAIN section.lines : FieldThrows(section.lines[i])
  <2>1. \E lines \in {section.lines, << >>} : \E i \in DOMAIN lines : FieldThrows(lines[i])
    BY DEF getFields
  <2>2. DOMAIN << >> = {}
    OBVIOUS
  <2> HIDE DEF section
  <2> QED
    BY <2>1, <2>2
<1>3. PICK i \in DOMAIN section.lines : FieldThrows(section.lines[i])
  BY <1>2
<1> HIDE DEF sp1, sp2, eol
<1>5. PICK a \in Nat \ {0}, e \in Nat \ {0} : /\ a < e /\ LineEnds(text, e)
                                            /\ section.lines[i] = SubSeq(text, a, e - 1)
  BY <1>1, <1>3, LinesStandInText DEF LineOf
<1> DEFINE line == SubSeq(text, a, e - 1)
<1>6. /\ line \in AnyText /\ Len(line) = e - a /\ e <= Len(text)
      /\ \A k \in 1 .. e - a : line[k] = text[a + k - 1]
  <2>1. e \in Nat /\ e < Len(text) /\ a \in Nat \ {0} /\ a < e /\ e - 1 \in Nat /\ e - 1 <= Len(text)
    BY <1>1, <1>5 DEF LineEnds
  <2>2. /\ line \in AnyText
        /\ Len(line) = IF a <= e - 1 THEN (e - 1) - a + 1 ELSE 0
        /\ \A k \in 1 .. (e - 1) - a + 1 : line[k] = text[a + k - 1]
    BY <2>1, PartOfText
  <2> HIDE DEF line
  <2>3. (e - 1) - a + 1 = e - a
    BY <2>1
  <2> QED
    BY <2>1, <2>2, <2>3
<1>7. Find(line, ":", 1) = Len(line)
  BY <1>3, <1>5 DEF FieldThrows
<1> HIDE DEF line
<1>8. line[e - a] = ":"
  <2>1. Find(line, ":", 1) <= Len(line) => line[Find(line, ":", 1)] = ":"
    BY <1>6, FindIsFirst
  <2> QED
    BY <1>5, <1>6, <1>7, <2>1
<1>9. line[e - a] = text[a + (e - a) - 1] /\ a + (e - a) - 1 = e - 1
  BY <1>5, <1>6
<1>10. text[e - 1] = ":" /\ e - 1 \in 1..Len(text) /\ (e - 1) + 1 = e
  BY <1>1, <1>5, <1>6, <1>8, <1>9
<1>11. DOMAIN text = 1..Len(text)
  BY TextLength
<1> QED
  BY <1>5, <1>10, <1>11

Space == " "
LetThrough == {"need_more", "bad_method", "bad_target"}

LEMMA SpaceEndsParts ==
  Space \in NotInToken /\ Space \in NotInTarget
BY Zenon DEF Space, NotInToken, NotInTarget

(* The start line Beast has parsed when it has no fault but the version,   *)
(* and what it goes on with when the version is one and ends its line.     *)
LEMMA VerdictMeans ==
  ASSUME NEW text, BeastVerdict(text) \notin LetThrough
  PROVE  LET sp1 == FirstOf(text, NotInToken, 1)
             sp2 == FirstOf(text, NotInTarget, sp1 + 1)
         IN  /\ ~(sp1 > Len(text)) /\ sp1 # 1 /\ text[sp1] = Space
             /\ ~(sp2 > Len(text)) /\ sp2 # sp1 + 1 /\ text[sp2] = Space
             /\ LineEnds(text, sp2 + 2) /\ text[sp2 + 1] \in {"HTTP/1.0", "HTTP/1.1"} =>
                  BeastVerdict(text) = SectionVerdict(text, sp2 + 2)
             /\ BeastVerdict(text) = "none" =>
                  LineEnds(text, sp2 + 2) /\ text[sp2 + 1] \in {"HTTP/1.0", "HTTP/1.1"}
<1> DEFINE sp1 == FirstOf(text, NotInToken, 1)
           sp2 == FirstOf(text, NotInTarget, sp1 + 1)
<1>1. BeastVerdict(text) =
        IF sp1 > Len(text) THEN "need_more"
        ELSE IF sp1 = 1 \/ text[sp1] # Space THEN "bad_method"
        ELSE IF sp2 > Len(text) THEN "need_more"
        ELSE IF sp2 = sp1 + 1 \/ text[sp2] # Space THEN "bad_target"
        ELSE IF Characters(text, sp2 + 1) < 8 THEN "need_more"
        ELSE IF text[sp2 + 1] \notin {"HTTP/1.0", "HTTP/1.1"} THEN "bad_version"
        ELSE IF Characters(text, sp2 + 1) < 10 THEN "need_more"
        ELSE IF ~LineEnds(text, sp2 + 2) THEN "bad_version"
        ELSE SectionVerdict(text, sp2 + 2)
  BY Zenon DEF BeastVerdict, Space
<1> HIDE DEF sp1, sp2
<1>2. /\ ~(sp1 > Len(text)) /\ sp1 # 1 /\ text[sp1] = Space
      /\ ~(sp2 > Len(text)) /\ sp2 # sp1 + 1 /\ text[sp2] = Space
      /\ LineEnds(text, sp2 + 2) /\ text[sp2 + 1] \in {"HTTP/1.0", "HTTP/1.1"} =>
           BeastVerdict(text) = SectionVerdict(text, sp2 + 2)
      /\ BeastVerdict(text) = "none" =>
           LineEnds(text, sp2 + 2) /\ text[sp2 + 1] \in {"HTTP/1.0", "HTTP/1.1"}
  BY <1>1 DEF LetThrough
<1> QED
  BY <1>2 DEF sp1, sp2

(* What Beast lets through and the server knows the method of has a target *)
(* that ends with a blank; and an empty line behind it, when a version     *)
(* that is one follows the blank and a CR LF the version.                  *)
WholeBehind(text, sp2) ==
  LineEnds(text, sp2 + 2) /\ text[sp2 + 1] \in {"HTTP/1.0", "HTTP/1.1"} =>
    \E i \in DOMAIN text : EndsSection(text, i)

LEMMA SectionIsWhole ==
  ASSUME NEW text, NEW eol, SectionVerdict(text, eol) # "need_more"
  PROVE  \E i \in DOMAIN text : EndsSection(text, i)
BY DEF SectionVerdict

LEMMA TargetInPlace ==
  ASSUME NEW text \in AnyText, BeastVerdict(text) \notin LetThrough,
         Len(text) >= 2, text[2] = Space
  PROVE  /\ FirstOf(text, NotInToken, 1) = 2
         /\ FirstOf(text, NotInTarget, 3) = Find(text, Space, 3)
         /\ Find(text, Space, 3) \in 4..Len(text)
<1> DEFINE sp1 == FirstOf(text, NotInToken, 1)
           sp2 == FirstOf(text, NotInTarget, sp1 + 1)
<1>1. /\ sp1 # 1
      /\ ~(sp2 > Len(text)) /\ sp2 # sp1 + 1 /\ text[sp2] = Space
  BY VerdictMeans
<1>2. sp1 = 2
  BY <1>1, FirstOfSecond, SpaceEndsParts
<1> HIDE DEF sp1
<1>3. sp1 + 1 = 3
  BY <1>2
<1> DEFINE at == FirstOf(text, NotInTarget, 3)
<1>4. /\ ~(at > Len(text)) /\ at # 3 /\ text[at] = Space
      /\ at \in Nat /\ (at <= Len(text) => at >= 3) /\ Len(text) \in Nat
  BY <1>1, <1>3, FirstOfIsFirst, TextLength
<1> HIDE DEF at
<1>5. at \in 4..Len(text) /\ at <= Len(text)
  BY <1>4
<1>6. Find(text, Space, 3) = at
  BY <1>4, <1>5, FirstOfFinds, SpaceEndsParts DEF at
<1> QED
  BY <1>2, <1>5, <1>6 DEF sp1, at

LEMMA AcceptedRequest ==
  ASSUME NEW text \in AnyText, ~Refuses(text), getFields(text).method # NoMethod
  PROVE  Find(text, " ", 3) \in 4..Len(text) /\ WholeBehind(text, Find(text, " ", 3))
<1>1. BeastVerdict(text) \notin LetThrough
  BY DEF Refuses, LetThrough
<1>2. Len(text) >= 2 /\ text[2] = Space
  BY RequestLine DEF Space
<1> DEFINE sp2 == Find(text, Space, 3)
<1>3. /\ FirstOf(text, NotInToken, 1) = 2 /\ FirstOf(text, NotInTarget, 3) = sp2
      /\ sp2 \in 4..Len(text)
  BY <1>1, <1>2, TargetInPlace
<1>4. LineEnds(text, sp2 + 2) /\ text[sp2 + 1] \in {"HTTP/1.0", "HTTP/1.1"} =>
        BeastVerdict(text) = SectionVerdict(text, sp2 + 2)
  <2> DEFINE sp1 == FirstOf(text, NotInToken, 1)
             at == FirstOf(text, NotInTarget, sp1 + 1)
  <2>1. LineEnds(text, at + 2) /\ text[at + 1] \in {"HTTP/1.0", "HTTP/1.1"} =>
          BeastVerdict(text) = SectionVerdict(text, at + 2)
    BY <1>1, VerdictMeans
  <2>2. sp1 + 1 = 3
    BY <1>3
  <2> HIDE DEF sp1
  <2>3. at = sp2
    BY <1>3, <2>2
  <2> QED
    BY <2>1, <2>3
<1> HIDE DEF sp2
<1>5. BeastVerdict(text) # "need_more"
  BY <1>1 DEF LetThrough
<1>6. WholeBehind(text, sp2)
  BY <1>4, <1>5, SectionIsWhole DEF WholeBehind
<1> QED
  BY <1>3, <1>6, Zenon DEF sp2, Space

-----------------------------------------------------------------------------
(* Locations.                                                              *)

(* One sequence is a prefix of another place by place.                     *)
LEMMA PrefixMeans ==
  ASSUME NEW S, NEW s \in Seq(S), NEW t \in Seq(S)
  PROVE  SE!IsPrefix(s, t) <=> Len(s) <= Len(t) /\ \A i \in 1..Len(s) : s[i] = t[i]
<1>1. Len(s) \in Nat /\ Len(t) \in Nat
  BY LenProperties
<1>2. ASSUME Len(s) <= Len(t)
      PROVE  SubSeq(s, 1, Len(s)) = SubSeq(t, 1, Len(s)) <=> \A i \in 1..Len(s) : s[i] = t[i]
  <2>1. /\ SubSeq(s, 1, Len(s)) \in Seq(S) /\ SubSeq(t, 1, Len(s)) \in Seq(S)
        /\ Len(SubSeq(s, 1, Len(s))) = Len(s) /\ Len(SubSeq(t, 1, Len(s))) = Len(s)
        /\ \A i \in 1..Len(s) : SubSeq(s, 1, Len(s))[i] = s[i] /\ SubSeq(t, 1, Len(s))[i] = t[i]
    <3>1. \A i \in 1..Len(s) : s[i] \in S /\ t[i] \in S
      BY <1>1, <1>2, ElementOfSeq
    <3> QED
      BY <1>1, <1>2, <3>1, SubSeqProperties
  <2> QED
    BY <2>1, SeqEqual
<1> QED
  BY <1>1, <1>2 DEF SE!IsPrefix

LEMMA MatchMeans ==
  ASSUME NEW target \in AnyText, NEW path \in AnyText
  PROVE  Matches(target, path) <=>
           /\ Len(path) <= Len(target) /\ \A i \in 1..Len(path) : path[i] = target[i]
           /\ Len(target) = Len(path) \/ target[Len(path) + 1] = "/"
BY PrefixMeans DEF Matches, AnyText

(* A location keeps at least one character.                                *)
LEMMA SlashRemoved ==
  ASSUME NEW path \in AnyText, path # << >>
  PROVE  removeSlash(path) \in AnyText /\ removeSlash(path) # << >>
<1> DEFINE tails == {i \in 1..Len(path) : \A j \in (i + 1)..Len(path) : path[j] = "/"}
           IsLast(i) == /\ i = 1 \/ path[i] # "/"
                        /\ \A j \in (i + 1)..Len(path) : path[j] = "/"
           last == CHOOSE i \in 1..Len(path) : IsLast(i)
<1>1. Len(path) \in Nat /\ Len(path) # 0
  BY EmptySeq, LenProperties DEF AnyText
<1>2. tails \in SUBSET Nat /\ Len(path) \in tails
  BY <1>1
<1>3. PICK x \in tails : \A y \in tails : x <= y
  <2> HIDE DEF tails
  <2> QED
    BY <1>2, LeastNatural
<1>4. x \in 1..Len(path) /\ IsLast(x)
  <2>1. ASSUME x # 1, path[x] = "/" PROVE x - 1 \in tails
    <3>1. x \in Nat /\ x - 1 \in 1..Len(path) /\ \A j \in ((x - 1) + 1)..Len(path) : j = x \/ j \in (x + 1)..Len(path)
      BY <1>1, <2>1
    <3> QED
      BY <2>1, <3>1
  <2>2. x \in Nat /\ ~(x <= x - 1)
    BY <1>1
  <2> QED
    BY <1>3, <2>1, <2>2
<1>5. last \in 1..Len(path)
  BY <1>4
<1> HIDE DEF last
<1>6. /\ SubSeq(path, 1, last) \in AnyText /\ Len(SubSeq(path, 1, last)) = last
  BY <1>1, <1>5, PartOfText
<1>7. removeSlash(path) = SubSeq(path, 1, last)
  BY DEF removeSlash, last
<1>8. SubSeq(path, 1, last) # << >>
  <2>1. Len(<< >>) = 0
    OBVIOUS
  <2> QED
    BY <1>5, <1>6, <2>1
<1> QED
  BY <1>6, <1>7, <1>8

LEMMA LocationsAreTexts ==
  ASSUME NEW tree \in Configs
  PROVE  DOMAIN populateHandlerMap(tree) \subseteq AnyText \ {<< >>}
<1> DEFINE Tokens1 == Seq(STRING) \ {<< >>}
           Stmt == [tokens : Seq(Tokens1), child : 0..Len(tree)]
<1>1. tree \in Seq(Seq(Stmt)) /\ tree # << >>
  BY DispatchAssumption
<1>2. 1 \in DOMAIN tree /\ tree[1] \in Seq(Stmt)
  <2> HIDE DEF Stmt
  <2> QED
    BY <1>1, LenProperties, EmptySeq, ElementOfSeq
<1>3. ASSUME NEW i \in DOMAIN tree[1], Len(tree[1][i].tokens) = 3
      PROVE  tree[1][i].tokens[2] \in Tokens1
  <2>1. tree[1][i] \in Stmt
    <3> HIDE DEF Stmt
    <3> QED
      BY <1>2, LenProperties, ElementOfSeq
  <2>2. tree[1][i].tokens \in Seq(Tokens1)
    BY <2>1
  <2> HIDE DEF Tokens1
  <2> QED
    BY <1>3, <2>2, ElementOfSeq
<1>4. ASSUME NEW i \in DOMAIN tree[1], Len(tree[1][i].tokens) = 3
      PROVE  removeSlash(tree[1][i].tokens[2]) \in AnyText \ {<< >>}
  BY <1>3, <1>4, SlashRemoved DEF AnyText
<1> QED
  BY <1>4 DEF populateHandlerMap

(* match finds a location when there is one, and no longer one exists.     *)
Matching(target) == {path \in DOMAIN routes : Matches(target, path)}

LEMMA MatchIsLongest ==
  ASSUME NEW target \in AnyText, DOMAIN routes \subseteq AnyText \ {<< >>}
  PROVE  /\ Matching(target) = {} => match(target) = << >>
         /\ Matching(target) # {} =>
              /\ match(target) \in Matching(target) /\ match(target) # << >>
              /\ \A other \in Matching(target) : Len(other) <= Len(match(target))
<1>1. ASSUME Matching(target) # {}
      PROVE  \E path \in Matching(target) : \A other \in Matching(target) : Len(other) <= Len(path)
  <2> DEFINE lengths == {Len(path) : path \in Matching(target)}
  <2>1. \A path \in Matching(target) : Len(path) \in Int /\ Len(path) <= Len(target)
    BY MatchMeans, LenProperties DEF Matching, AnyText
  <2>2. lengths \in SUBSET Int /\ lengths # {} /\ \A n \in lengths : n <= Len(target)
    BY <1>1, <2>1
  <2>3. PICK n \in lengths : \A m \in lengths : m <= n
    <3>1. Len(target) \in Int
      BY TextLength
    <3> HIDE DEF lengths
    <3> QED
      BY <2>2, <3>1, GreatestInteger
  <2>4. PICK path \in Matching(target) : n = Len(path)
    BY <2>3
  <2> QED
    BY <2>3, <2>4
<1>2. Matching(target) \subseteq DOMAIN routes
  BY DEF Matching
<1> QED
  BY <1>1, <1>2 DEF match, Matching

-----------------------------------------------------------------------------
(* The steps.                                                              *)

(* The server's routes are those of its configuration.                     *)
RoutesOf(tree) ==
  [path \in DOMAIN populateHandlerMap(tree) |-> createHandlerFactory(populateHandlerMap(tree)[path].handler)]

RoutesOfConfig == routes = IF server = "starting" THEN << >> ELSE RoutesOf(config)

(* Nothing is answered before the server serves.                           *)
SilentAtFirst == server = "starting" => reply = NoReply

(* A location is kept with its answer only.                                *)
IdleWithoutLocation == reply = NoReply => location = << >>

DispatchInv == TypeOK /\ RoutesOfConfig /\ SilentAtFirst /\ IdleWithoutLocation

LEMMA RoutesAreTexts ==
  ASSUME DispatchInv
  PROVE  DOMAIN routes \subseteq AnyText \ {<< >>} /\ DOMAIN handler_map \subseteq AnyText \ {<< >>}
<1>1. config \in Configs /\ RoutesOfConfig
  BY DEF DispatchInv, TypeOK
<1>2. DOMAIN handler_map \subseteq AnyText \ {<< >>}
  BY <1>1, LocationsAreTexts DEF handler_map
<1>3. DOMAIN << >> = {}
  OBVIOUS
<1>4. DOMAIN RoutesOf(config) = DOMAIN handler_map
  BY DEF RoutesOf, handler_map
<1> QED
  BY <1>1, <1>2, <1>3, <1>4 DEF RoutesOfConfig

(* What a handler answers with.                                            *)
LEMMA AnswerMeans ==
  ASSUME NEW kind, NEW req, NEW path, NEW b
  PROVE  /\ Answer(kind, req, path, b).status \in {1, 200, 400, 404}
         /\ Answer(kind, req, path, b).status \in {1, 200} => req.method # NoMethod
         /\ Answer(kind, req, path, b).file # << >> =>
              /\ req.method # NoMethod /\ kind = "StaticHandler" /\ BlockFits(kind, b)
              /\ Answer(kind, req, path, b).file = Resolve(FilePath(b, path, req.target))
<1> DEFINE answer == Answer(kind, req, path, b)
           file == Resolve(FilePath(b, path, req.target))
           contents == Ok(<<"contents">>, ContentType(req.target), file)
           ok == Ok(<<"OK">>, "text/plain", << >>)
           passed == Reply(1, << >>, "", << >>)
<1>1. \/ answer = BadRequest \/ answer = NotFound
      \/ req.method # NoMethod /\ (answer = Echo(req) \/ answer = passed \/ answer = ok)
      \/ req.method # NoMethod /\ answer = contents /\ kind = "StaticHandler" /\ BlockFits(kind, b)
  <2>1. CASE kind = "HealthHandler"
    BY <2>1 DEF Answer, Health, NoMethod
  <2>2. CASE kind = "StaticHandler"
    <3>1. answer = Static(req, path, b)
      BY <2>2 DEF Answer
    <3>2. CASE req.method = NoMethod
      BY <3>1, <3>2 DEF Static
    <3>3. CASE req.method # NoMethod /\ ~BlockFits("StaticHandler", b)
      BY <3>1, <3>3 DEF Static
    <3>4. CASE req.method # NoMethod /\ BlockFits("StaticHandler", b) /\ req.method # "GET"
      BY <3>1, <3>4 DEF Static
    <3>5. CASE req.method # NoMethod /\ BlockFits("StaticHandler", b) /\ req.method = "GET"
      BY <2>2, <3>1, <3>5 DEF Static
    <3> QED
      BY <3>2, <3>3, <3>4, <3>5
  <2>3. CASE kind \notin {"HealthHandler", "StaticHandler"}
    BY <2>3 DEF Answer
  <2> QED
    BY <2>1, <2>2, <2>3
<1> HIDE DEF answer, file
<1>2. \/ /\ answer.status = 400 \/ answer.status = 404
         /\ answer.file = << >>
      \/ /\ req.method # NoMethod
         /\ answer.status = 200 \/ answer.status = 1
         /\ answer.file = << >> \/ (answer.file = file /\ kind = "StaticHandler" /\ BlockFits(kind, b))
  <2>1. BadRequest.status = 400 /\ BadRequest.file = << >> /\ NotFound.status = 404 /\ NotFound.file = << >>
    BY DEF BadRequest, NotFound, Reply
  <2>2. passed.status = 1 /\ passed.file = << >> /\ ok.status = 200 /\ ok.file = << >>
    BY DEF Ok, Reply
  <2>3. contents.status = 200 /\ contents.file = file
    BY DEF Ok, Reply
  <2>4. Echo(req).status = 200 /\ Echo(req).file = << >>
    BY DEF Echo, Ok, Reply
  <2> HIDE DEF passed, ok, contents
  <2> QED
    BY <1>1, <2>1, <2>2, <2>3, <2>4
<1>3. /\ answer.status \in {1, 200, 400, 404}
      /\ answer.status \in {1, 200} => req.method # NoMethod
      /\ answer.file # << >> =>
           req.method # NoMethod /\ answer.file = file /\ kind = "StaticHandler" /\ BlockFits(kind, b)
  <2> DEFINE status == answer.status
  <2>1. \/ status = 400 \/ status = 404
        \/ req.method # NoMethod /\ (status = 200 \/ status = 1)
    BY <1>2
  <2> HIDE DEF status
  <2>2. status \in {1, 200, 400, 404} /\ (status \in {1, 200} => req.method # NoMethod)
    BY <2>1
  <2> QED
    BY <1>2, <2>2 DEF status
<1> QED
  BY <1>3 DEF answer, file

(* How a read ends: the process goes down, the request is refused, or the  *)
(* handler of its location answers it.                                     *)
GoesDown(arrived) ==
  /\ server' = "down" /\ UNCHANGED <<location, reply>>
  /\ \E text \in Texts(arrived) :
       LET req == getFields(text)
           path == Location(req.target)
           kind == IF path \in DOMAIN routes THEN routes[path] ELSE nullptr
       IN  \/ req.throws
           \/ /\ ~Refuses(text)
              /\ \/ kind = nullptr
                 \/ kind \in NeedsBlock /\ handler_map[path].block = NoBlock
                 \/ OutOfRange(kind, req, path, handler_map[path].block)
                 \/ kind # nullptr /\ StatusThrows(kind, req, path, handler_map[path].block)
                 \/ kind # nullptr /\ MayEndProcess(kind, handler_map[path].block)

RefusesRead == location' = << >> /\ reply' = BadRequest /\ UNCHANGED server

Answers(text) ==
  LET req == getFields(text)
  IN  /\ ~Refuses(text) /\ UNCHANGED server
      /\ location' = Location(req.target) /\ location' \in DOMAIN routes
      /\ routes[location'] \in NeedsBlock => handler_map[location'].block # NoBlock
      /\ reply' = Answer(routes[location'], req, location', handler_map[location'].block)

LEMMA HandleReadCases ==
  ASSUME NEW arrived, HandleRead(arrived)
  PROVE  GoesDown(arrived) \/ RefusesRead \/ \E text \in Texts(arrived) : Answers(text)
<1> DEFINE kind(path) == IF path \in DOMAIN routes THEN routes[path] ELSE nullptr
           fails(req, path) == \/ kind(path) = nullptr
                               \/ kind(path) \in NeedsBlock /\ handler_map[path].block = NoBlock
                               \/ OutOfRange(kind(path), req, path, handler_map[path].block)
                               \/ StatusThrows(kind(path), req, path, handler_map[path].block)
           mayFail(path) == MayEndProcess(kind(path), handler_map[path].block)
<1>1. PICK text \in Texts(arrived) :
        LET req == getFields(text)
            path == Location(req.target)
        IN  \/ req.throws /\ Terminate
            \/ RefusesRead
            \/ /\ ~req.throws /\ ~Refuses(text)
               /\ IF fails(req, path) THEN Terminate
                  ELSE \/ mayFail(path) /\ Terminate
                       \/ /\ location' = path
                          /\ reply' = Answer(kind(path), req, path, handler_map[path].block)
                          /\ UNCHANGED server
  BY DEF HandleRead, RefusesRead
<1> DEFINE req == getFields(text)
           path == Location(req.target)
<1>2. CASE req.throws /\ Terminate
  BY <1>2 DEF GoesDown, Terminate
<1>3. CASE ~Refuses(text) /\ fails(req, path) /\ Terminate
  BY <1>3 DEF GoesDown, Terminate
<1>4. CASE ~Refuses(text) /\ ~fails(req, path) /\ mayFail(path) /\ Terminate
  BY <1>4 DEF GoesDown, Terminate
<1>5. CASE /\ ~Refuses(text) /\ ~fails(req, path) /\ UNCHANGED server /\ location' = path
           /\ reply' = Answer(kind(path), req, path, handler_map[path].block)
  <2>1. path \in DOMAIN routes /\ kind(path) = routes[path]
    BY <1>5
  <2> QED
    BY <1>5, <2>1 DEF Answers
<1> QED
  BY <1>1, <1>2, <1>3, <1>4, <1>5

(* The blank behind the target, or the end of a text without one.          *)
FirstBlank(text, i) ==
  /\ i <= Len(text) => i >= 3 /\ text[i] = " "
  /\ \A j \in 3..Len(text) : text[j] = " " => i <= j

(* The same text with more behind it has the same first blank.             *)
LEMMA SameBlank ==
  ASSUME NEW text \in AnyText, NEW arrived \in AnyText, Len(text) <= Len(arrived),
         \A i \in 1..Len(text) : text[i] = arrived[i],
         NEW sp \in 3..Len(text), NEW at \in Nat, FirstBlank(text, sp), FirstBlank(arrived, at)
  PROVE  at = sp
<1>1. Len(text) \in Nat /\ Len(arrived) \in Nat
  BY TextLength
<1>2. sp \in 1..Len(text) /\ sp \in 3..Len(arrived)
  BY <1>1
<1>3. arrived[sp] = " "
  <2>0. sp <= Len(text)
    BY <1>1
  <2>1. text[sp] = " "
    BY <2>0 DEF FirstBlank
  <2> QED
    BY <1>2, <2>1
<1>4. at <= sp
  BY <1>2, <1>3 DEF FirstBlank
<1>5. at <= Len(arrived)
  BY <1>1, <1>4
<1>6. at >= 3
  BY <1>5 DEF FirstBlank
<1>7. at \in 1..Len(text) /\ at \in 3..Len(text)
  BY <1>1, <1>4, <1>6
<1>8. text[at] = " "
  <2>1. arrived[at] = " "
    BY <1>5 DEF FirstBlank
  <2> QED
    BY <1>7, <2>1
<1>9. sp <= at
  BY <1>7, <1>8 DEF FirstBlank
<1> QED
  BY <1>4, <1>9

LEMMA SamePart ==
  ASSUME NEW text \in AnyText, NEW arrived \in AnyText, Len(text) <= Len(arrived),
         \A i \in 1..Len(text) : text[i] = arrived[i],
         NEW n \in 3..Len(text)
  PROVE  SubSeq(text, 3, n) = SubSeq(arrived, 3, n)
<1>1. /\ Len(text) \in Nat /\ Len(arrived) \in Nat
      /\ n \in Nat /\ 3 <= n /\ n <= Len(text) /\ n <= Len(arrived)
  BY TextLength
<1>2. /\ SubSeq(text, 3, n) \in AnyText /\ Len(SubSeq(text, 3, n)) = n - 3 + 1
      /\ \A k \in 1 .. n - 3 + 1 : SubSeq(text, 3, n)[k] = text[3 + k - 1]
  BY <1>1, PartOfText
<1>3. /\ SubSeq(arrived, 3, n) \in AnyText /\ Len(SubSeq(arrived, 3, n)) = n - 3 + 1
      /\ \A k \in 1 .. n - 3 + 1 : SubSeq(arrived, 3, n)[k] = arrived[3 + k - 1]
  BY <1>1, PartOfText
<1>4. ASSUME NEW k \in 1 .. n - 3 + 1 PROVE text[3 + k - 1] = arrived[3 + k - 1]
  <2>1. 3 + k - 1 \in 1..Len(text)
    BY <1>1
  <2> QED
    BY <2>1
<1> QED
  BY <1>2, <1>3, <1>4, SeqEqual DEF AnyText

LEMMA FindsFirstBlank ==
  ASSUME NEW text \in AnyText
  PROVE  Find(text, " ", 3) \in Nat /\ FirstBlank(text, Find(text, " ", 3))
BY FindIsFirst DEF FirstBlank

LEMMA OneBefore ==
  ASSUME NEW m \in Nat, NEW k \in 4..m
  PROVE  k \in 3..m /\ k - 1 \in 3..m
OBVIOUS

LEMMA SameTarget ==
  ASSUME NEW text \in AnyText, NEW arrived \in AnyText, Len(text) <= Len(arrived),
         \A i \in 1..Len(text) : text[i] = arrived[i],
         NEW sp \in 4..Len(text), sp = Find(text, " ", 3)
  PROVE  SubSeq(text, 3, sp - 1) = SubSeq(arrived, 3, Find(arrived, " ", 3) - 1)
<1> DEFINE at == Find(arrived, " ", 3)
<1>1. FirstBlank(text, sp)
  BY FindsFirstBlank
<1>2. FirstBlank(arrived, at) /\ at \in Nat
  BY FindsFirstBlank
<1> HIDE DEF at
<1>3. sp \in 3..Len(text) /\ sp - 1 \in 3..Len(text)
  BY TextLength, OneBefore
<1>4. at = sp
  BY <1>1, <1>2, <1>3, SameBlank
<1>5. SubSeq(text, 3, sp - 1) = SubSeq(arrived, 3, sp - 1)
  BY <1>3, SamePart
<1> QED
  BY <1>4, <1>5 DEF at

(* What is handled of a read that left room stands in data_ as it does in  *)
(* the text: method and target.                                            *)
LEMMA ReadInRoom ==
  ASSUME NEW arrived \in Arrivals, Len(arrived) < Capacity, NEW text \in Texts(arrived),
         ~Refuses(text), getFields(text).method # NoMethod
  PROVE  /\ arrived[1] \in KnownMethods /\ arrived[2] = " "
         /\ getFields(text).target = SubSeq(arrived, 3, Find(arrived, " ", 3) - 1)
<1>0. arrived \in AnyText /\ text \in AnyText
  BY TextOfRead
<1>1. \A i \in 1..Len(text) : text[i] = arrived[i] /\ text[i] # "NUL"
  BY TextOfRead
<1>2. /\ Len(text) \in Nat /\ DOMAIN text = 1..Len(text)
      /\ Len(arrived) \in Nat /\ DOMAIN arrived = 1..Len(arrived)
      /\ Len(text) <= Len(arrived)
  BY <1>0, TextOfRead, TextLength
<1>3. /\ Len(text) >= 2 /\ text[1] \in KnownMethods /\ text[2] = " "
      /\ getFields(text).target = SubSeq(text, 3, Find(text, " ", 3) - 1)
  BY <1>0, RequestLine
<1>4. getFields(text).target = SubSeq(arrived, 3, Find(arrived, " ", 3) - 1)
  <2>1. Find(text, " ", 3) \in 4..Len(text)
    BY <1>0, AcceptedRequest
  <2>2. SubSeq(text, 3, Find(text, " ", 3) - 1) = SubSeq(arrived, 3, Find(arrived, " ", 3) - 1)
    BY <1>0, <1>1, <1>2, <2>1, SameTarget
  <2> QED
    BY <1>3, <2>2
<1> QED
  <2>1. 1 \in 1..Len(text) /\ 2 \in 1..Len(text)
    <3>1. Len(text) >= 2 /\ Len(text) \in Nat
      BY <1>2, <1>3
    <3> QED
      BY <3>1
  <2>2. arrived[1] = text[1] /\ arrived[2] = text[2]
    BY <1>1, <2>1
  <2> QED
    BY <1>3, <1>4, <2>2

LEMMA TargetIsText ==
  ASSUME NEW text \in AnyText
  PROVE  /\ getFields(text).target \in AnyText
         /\ ~Refuses(text) /\ getFields(text).method # NoMethod => getFields(text).target # << >>
<1> DEFINE sp == Find(text, " ", 3)
<1>1. sp \in Nat /\ sp <= Len(text) + 1 /\ (sp <= Len(text) => sp >= 3) /\ Len(text) \in Nat
  BY FindIsFirst, TextLength
<1>2. ~Refuses(text) /\ getFields(text).method # NoMethod => sp \in 4..Len(text)
  BY AcceptedRequest
<1>3. getFields(text).method = NoMethod => getFields(text).target = << >>
  BY RequestLine
<1>4. ASSUME getFields(text).method # NoMethod
      PROVE  getFields(text).target = SubSeq(text, 3, sp - 1) /\ Len(text) >= 2
  BY <1>4, RequestLine
<1> HIDE DEF sp
<1>5. ASSUME getFields(text).method # NoMethod
      PROVE  /\ getFields(text).target \in AnyText
             /\ ~Refuses(text) => Len(getFields(text).target) # 0
  <2> DEFINE n == sp - 1
  <2>1. Len(text) >= 2 /\ getFields(text).target = SubSeq(text, 3, n)
    BY <1>4, <1>5
  <2>2. n \in Nat /\ n <= Len(text) /\ (~Refuses(text) => 3 <= n)
    BY <1>1, <1>2, <1>5, <2>1
  <2> HIDE DEF n
  <2>3. SubSeq(text, 3, n) \in AnyText /\ (3 <= n => Len(SubSeq(text, 3, n)) = n - 3 + 1)
    BY <2>2, PartOfText
  <2>4. 3 <= n => n - 3 + 1 # 0
    BY <2>2
  <2> QED
    BY <2>1, <2>2, <2>3, <2>4
<1>6. << >> \in AnyText /\ Len(<< >>) = 0
  BY EmptySeq DEF AnyText
<1> QED
  BY <1>3, <1>5, <1>6

-----------------------------------------------------------------------------
(* The invariant.                                                          *)

LEMMA NoReplyIsEmpty ==
  /\ NoReply.status = 0 /\ NoReply.file = << >>
  /\ BadRequest.status = 400 /\ BadRequest.file = << >>
BY DEF NoReply, BadRequest, Reply

LEMMA InvHolds ==
  Spec => []DispatchInv
<1>1. Init => DispatchInv
  <2>1. DOMAIN << >> = {}
    OBVIOUS
  <2>2. NoReply.status = 0
    BY DEF NoReply, Reply
  <2> QED
    BY <2>1, <2>2 DEF Init, DispatchInv, TypeOK, RoutesOfConfig, SilentAtFirst, IdleWithoutLocation
<1>2. DispatchInv /\ [Next]_vars => DispatchInv'
  <2> SUFFICES ASSUME DispatchInv, [Next]_vars PROVE DispatchInv'
    OBVIOUS
  <2> USE DEF DispatchInv
  <2>1. CASE StartServer
    <3>1. \A name : createHandlerFactory(name) \in HandlerNames \union {nullptr}
      BY DEF createHandlerFactory, nullptr
    <3>2. routes = << >> /\ DOMAIN << >> = {} /\ server = "starting"
      BY <2>1 DEF RoutesOfConfig, StartServer
    <3>3. location = << >>
      BY <3>2 DEF TypeOK
    <3> QED
      <4>1. routes' = RoutesOf(config) /\ server' = "serving"
        BY <2>1 DEF StartServer, RoutesOf, handler_map
      <4>2. \A path \in DOMAIN RoutesOf(config) : RoutesOf(config)[path] \in HandlerNames \union {nullptr}
        BY <3>1 DEF RoutesOf
      <4> QED
        BY <2>1, <3>3, <4>1, <4>2 DEF StartServer, TypeOK, RoutesOfConfig, SilentAtFirst, IdleWithoutLocation
  <2>2. CASE HandleWrite
    <3>1. NoReply.status = 0
      BY DEF NoReply, Reply
    <3> QED
      BY <2>2, <3>1 DEF HandleWrite, TypeOK, RoutesOfConfig, SilentAtFirst, IdleWithoutLocation
  <2>3. ASSUME NEW arrived \in Arrivals, HandleRead(arrived)
        PROVE  DispatchInv'
    <3>1. data' = arrived /\ UNCHANGED <<config, routes>> /\ server = "serving"
      BY <2>3 DEF HandleRead
    <3>2. CASE GoesDown(arrived)
      BY <3>1, <3>2 DEF GoesDown, TypeOK, RoutesOfConfig, SilentAtFirst, IdleWithoutLocation
    <3>3. CASE RefusesRead
      <4>1. BadRequest.status = 400
        BY DEF BadRequest, Reply
      <4> QED
        BY <3>1, <3>3, <4>1 DEF RefusesRead, TypeOK, RoutesOfConfig, SilentAtFirst, IdleWithoutLocation
    <3>4. ASSUME NEW text \in Texts(arrived), Answers(text)
          PROVE  DispatchInv'
      <4>1. /\ reply'.status \in {1, 200, 400, 404}
            /\ location' \in DOMAIN routes /\ UNCHANGED server
        BY <3>4, AnswerMeans DEF Answers
      <4>2. reply' # NoReply
        <5>1. \A n \in {1, 200, 400, 404} : n # 0
          OBVIOUS
        <5> QED
          BY <4>1, <5>1, NoReplyIsEmpty
      <4> QED
        BY <3>1, <4>1, <4>2 DEF TypeOK, RoutesOfConfig, SilentAtFirst, IdleWithoutLocation
    <3> QED
      BY <2>3, <3>2, <3>3, <3>4, HandleReadCases
  <2>4. CASE UNCHANGED vars
    BY <2>4 DEF vars, TypeOK, RoutesOfConfig, SilentAtFirst, IdleWithoutLocation
  <2> QED
    BY <2>1, <2>2, <2>3, <2>4 DEF Next
<1> QED
  BY <1>1, <1>2, PTL DEF Spec

(* TypeOK: a request is answered at a location with a route, and every     *)
(* route is a factory the server has or nullptr, whatever is configured    *)
(* and read.                                                               *)
THEOREM DispatchTypeCorrect ==
  Spec => []TypeOK
BY InvHolds, PTL DEF DispatchInv

-----------------------------------------------------------------------------
(* What the session promises.  A step that is not a read leaves no answer, *)
(* or leaves everything as it is.                                          *)
LEMMA QuietSteps ==
  ASSUME DispatchInv, [Next]_vars
  PROVE  \/ reply' = NoReply /\ location' = << >> /\ (server' = "down" => FALSE)
         \/ UNCHANGED vars
         \/ \E arrived \in Arrivals : HandleRead(arrived)
<1>1. CASE StartServer
  <2>1. server = "starting" /\ UNCHANGED <<location, reply>> /\ server' = "serving"
    BY <1>1 DEF StartServer
  <2>2. routes = << >> /\ DOMAIN << >> = {}
    BY <2>1 DEF DispatchInv, RoutesOfConfig
  <2>3. location = << >> /\ reply = NoReply
    BY <2>1, <2>2 DEF DispatchInv, TypeOK, SilentAtFirst
  <2> QED
    BY <2>1, <2>3
<1>2. CASE HandleWrite
  BY <1>2 DEF HandleWrite
<1> QED
  BY <1>1, <1>2 DEF Next

(* What every read does.                                                   *)
LEMMA ReadSteps ==
  ASSUME NEW arrived, HandleRead(arrived)
  PROVE  data' = arrived /\ reply = NoReply /\ server = "serving" /\ UNCHANGED <<config, routes>>
BY DEF HandleRead

(* A text with a method the server knows and a target, and whole if its    *)
(* version is one and ends its line.                                       *)
WholeRequest(text) ==
  LET sp2 == Find(text, " ", 3)
  IN  /\ text[1] \in KnownMethods /\ text[2] = " " /\ sp2 \in 4..Len(text)
      /\ WholeBehind(text, sp2)

LEMMA HandledIsWhole ==
  ASSUME NEW text \in AnyText, ~Refuses(text), getFields(text).method # NoMethod
  PROVE  WholeRequest(text)
BY RequestLine, AcceptedRequest, Zenon DEF WholeRequest

(* A read that left room is taken for one text only.                       *)
LEMMA OneTextInRoom ==
  ASSUME NEW arrived \in Arrivals, Len(arrived) < Capacity,
         NEW text \in Texts(arrived), NEW other \in Texts(arrived)
  PROVE  text = other
<1>1. \E only : Texts(arrived) = {only}
  BY DEF Texts
<1> QED
  BY <1>1

(* The invariant relates the state of a reply to the text it answers.      *)
WholeIfShort(arrived) ==
  Len(arrived) < Capacity => \A text \in Texts(arrived) : WholeRequest(text)

LEMMA OnlyWholeMeans ==
  /\ OnlyWholeRequestsAreHandled <=> (reply.status \in {1, 200} => WholeIfShort(data))
  /\ OnlyWholeRequestsAreHandled' <=> (reply'.status \in {1, 200} => WholeIfShort(data'))
BY Zenon DEF OnlyWholeRequestsAreHandled, HasRoom, WholeIfShort, WholeRequest, WholeBehind

(* OnlyWholeRequestsAreHandled: a handler's answer is to a request with a  *)
(* method the server knows and a target, whose header section is whole if  *)
(* its version is one and ends its line.                                   *)
THEOREM DispatchOnlyWholeRequests ==
  Spec => []OnlyWholeRequestsAreHandled
<1>1. Init => OnlyWholeRequestsAreHandled
  <2>1. 0 \notin {1, 200}
    OBVIOUS
  <2> QED
    BY <2>1, NoReplyIsEmpty DEF Init, OnlyWholeRequestsAreHandled
<1>2. DispatchInv /\ OnlyWholeRequestsAreHandled /\ [Next]_vars => OnlyWholeRequestsAreHandled'
  <2> SUFFICES ASSUME DispatchInv, OnlyWholeRequestsAreHandled, [Next]_vars
               PROVE  OnlyWholeRequestsAreHandled'
    OBVIOUS
  <2>0. 0 \notin {1, 200} /\ 400 \notin {1, 200}
    OBVIOUS
  <2>1. CASE reply' = NoReply
    BY <2>0, <2>1, NoReplyIsEmpty DEF OnlyWholeRequestsAreHandled
  <2>2. CASE UNCHANGED vars
    <3>1. data' = data /\ reply' = reply
      BY <2>2 DEF vars
    <3> QED
      BY <3>1, OnlyWholeMeans
  <2>3. ASSUME NEW arrived \in Arrivals, HandleRead(arrived)
        PROVE  OnlyWholeRequestsAreHandled'
    <3>1. data' = arrived /\ reply = NoReply
      BY <2>3, ReadSteps
    <3>2. CASE GoesDown(arrived)
      <4>1. reply' = NoReply
        BY <3>1, <3>2 DEF GoesDown
      <4> QED
        BY <2>1, <4>1
    <3>3. CASE RefusesRead
      BY <2>0, <3>3, NoReplyIsEmpty DEF RefusesRead, OnlyWholeRequestsAreHandled
    <3>4. ASSUME NEW text \in Texts(arrived), Answers(text)
          PROVE  OnlyWholeRequestsAreHandled'
      <4>1. ~Refuses(text) /\ (reply'.status \in {1, 200} => getFields(text).method # NoMethod)
        BY <3>4, AnswerMeans DEF Answers
      <4>2. reply'.status \in {1, 200} => WholeIfShort(arrived)
        <5>1. reply'.status \in {1, 200} => WholeRequest(text)
          BY <4>1, TextOfRead, HandledIsWhole
        <5>2. Len(arrived) < Capacity => \A other \in Texts(arrived) : other = text
          BY OneTextInRoom
        <5> QED
          BY <5>1, <5>2 DEF WholeIfShort
      <4> QED
        BY <3>1, <4>2, OnlyWholeMeans
    <3> QED
      BY <2>3, <3>2, <3>3, <3>4, HandleReadCases
  <2> QED
    BY <2>1, <2>2, <2>3, QuietSteps
<1> QED
  BY <1>1, <1>2, InvHolds, PTL DEF Spec

(* A target is its location and the rest, which starts with a slash.       *)
LEMMA SplitAtLocation ==
  ASSUME NEW target \in AnyText, NEW path \in AnyText, Matches(target, path)
  PROVE  LET rest == SubSeq(target, Len(path) + 1, Len(target))
         IN  /\ Len(path) \in 0..Len(target)
             /\ path \o rest = target /\ (rest # << >> => rest[1] = "/")
<1> DEFINE n == Len(path)
           m == Len(target)
           rest == SubSeq(target, n + 1, m)
<1>1. n \in Nat /\ m \in Nat
  BY TextLength
<1>2. /\ n <= m /\ \A i \in 1..n : path[i] = target[i]
      /\ m = n \/ target[n + 1] = "/"
  BY MatchMeans
<1>3. /\ rest \in AnyText /\ Len(rest) = IF n + 1 <= m THEN m - (n + 1) + 1 ELSE 0
      /\ \A k \in 1 .. m - (n + 1) + 1 : rest[k] = target[(n + 1) + k - 1]
  BY <1>1, PartOfText
<1>4. Len(rest) = m - n
  BY <1>1, <1>2, <1>3
<1>5. /\ path \o rest \in AnyText /\ Len(path \o rest) = n + Len(rest)
      /\ \A i \in 1..(n + Len(rest)) : (path \o rest)[i] = IF i <= n THEN path[i] ELSE rest[i - n]
  BY <1>3, ConcatProperties DEF AnyText
<1> HIDE DEF n, m, rest
<1>6. ASSUME NEW i \in 1..m PROVE (path \o rest)[i] = target[i]
  <2>1. i \in 1..(n + Len(rest))
    BY <1>1, <1>4
  <2>2. CASE i <= n
    BY <1>1, <1>2, <1>5, <2>1, <2>2
  <2>3. CASE ~(i <= n)
    <3>1. i - n \in 1 .. m - (n + 1) + 1 /\ (n + 1) + (i - n) - 1 = i
      BY <1>1, <2>3
    <3>2. rest[i - n] = target[i]
      BY <1>3, <3>1
    <3> QED
      BY <1>5, <2>1, <2>3, <3>2
  <2> QED
    BY <2>2, <2>3
<1>7. Len(path \o rest) = m
  BY <1>1, <1>4, <1>5
<1>8. path \o rest = target
  BY <1>5, <1>6, <1>7, SeqEqual DEF AnyText, m
<1>9. ASSUME rest # << >> PROVE rest[1] = "/"
  <2>1. Len(rest) # 0 /\ m # n
    BY <1>1, <1>3, <1>4, <1>9, EmptySeq DEF AnyText
  <2>2. 1 \in 1 .. m - (n + 1) + 1 /\ (n + 1) + 1 - 1 = n + 1
    BY <1>1, <1>2, <2>1
  <2>3. rest[1] = target[n + 1]
    BY <1>3, <2>2
  <2> QED
    BY <1>2, <2>1, <2>3
<1>10. n \in 0..m
  BY <1>1, <1>2
<1> QED
  BY <1>8, <1>9, <1>10 DEF n, m, rest

(* The location of a request is "/" or matches its target.                 *)
LEMMA LocationMatches ==
  ASSUME DispatchInv, NEW target \in AnyText
  PROVE  Location(target) = <<"/">> \/ Location(target) \in Matching(target)
<1>1. DOMAIN routes \subseteq AnyText \ {<< >>}
  BY RoutesAreTexts
<1>2. match(target) = << >> \/ match(target) \in Matching(target)
  BY <1>1, MatchIsLongest
<1> QED
  BY <1>2 DEF Location

(* A route of a complete configuration has a factory, and its block.       *)
LEMMA CompleteRoutes ==
  ASSUME DispatchInv, server = "serving", Complete
  PROVE  /\ <<"/">> \in DOMAIN routes
         /\ \A path \in DOMAIN routes :
              /\ routes[path] # nullptr
              /\ routes[path] \in NeedsBlock => handler_map[path].block # NoBlock
<1>1. routes = RoutesOf(config)
  BY DEF DispatchInv, RoutesOfConfig
<1>2. DOMAIN routes = DOMAIN handler_map
  BY <1>1 DEF RoutesOf, handler_map
<1>3. ASSUME NEW path \in DOMAIN routes
      PROVE  routes[path] = createHandlerFactory(handler_map[path].handler)
  BY <1>1, <1>3 DEF RoutesOf, handler_map
<1>4. ASSUME NEW path \in DOMAIN routes
      PROVE  /\ routes[path] # nullptr
             /\ routes[path] \in NeedsBlock => handler_map[path].block # NoBlock
  <2> DEFINE handler == handler_map[path].handler
  <2>1. /\ handler \in {<<name>> : name \in HandlerNames}
        /\ handler[1] \in NeedsBlock => handler_map[path].block # NoBlock
    BY <1>2, <1>4 DEF Complete
  <2>2. routes[path] = createHandlerFactory(handler)
    BY <1>3, <1>4
  <2> HIDE DEF handler
  <2>3. PICK name \in HandlerNames : handler = <<name>>
    BY <2>1
  <2>4. handler[1] = name /\ Len(handler) = 1
    BY <2>3
  <2>5. createHandlerFactory(handler) = name
    BY <2>4 DEF createHandlerFactory
  <2>6. name # nullptr
    BY DEF HandlerNames, nullptr
  <2> QED
    BY <2>1, <2>2, <2>4, <2>5, <2>6
<1> QED
  BY <1>2, <1>4 DEF Complete

(* A static location is never longer than the target it is found for.      *)
LEMMA NeverOutOfRange ==
  ASSUME DispatchInv, NEW text \in AnyText, ~Refuses(text), NEW kind, NEW b
  PROVE  ~OutOfRange(kind, getFields(text), Location(getFields(text).target), b)
<1> DEFINE req == getFields(text)
           path == Location(req.target)
<1> SUFFICES ASSUME req.method = "GET" PROVE ~ (Len(req.target) < Len(path))
  BY DEF OutOfRange
<1>1. req.target \in AnyText /\ req.target # << >>
  <2>1. req.method # NoMethod
    BY DEF NoMethod
  <2> QED
    BY <2>1, TargetIsText
<1>2. CASE path = <<"/">>
  <2>1. Len(<<"/">>) = 1
    OBVIOUS
  <2>2. Len(req.target) \in Nat /\ Len(req.target) # 0
    BY <1>1, TextLength, EmptySeq DEF AnyText
  <2>3. \A n \in Nat : n # 0 => ~ (n < 1)
    OBVIOUS
  <2>4. Len(path) = 1
    BY <1>2, <2>1
  <2> QED
    BY <2>2, <2>3, <2>4
<1>3. CASE path \in Matching(req.target)
  <2>1. path \in AnyText /\ Matches(req.target, path)
    BY <1>3, RoutesAreTexts DEF Matching
  <2>2. Len(path) <= Len(req.target)
    BY <1>1, <2>1, MatchMeans
  <2>3. Len(path) \in Nat /\ Len(req.target) \in Nat
    BY <1>1, <2>1, TextLength
  <2>4. \A m, n \in Nat : m <= n => ~ (n < m)
    OBVIOUS
  <2> QED
    BY <2>2, <2>3, <2>4
<1> QED
  BY <1>1, <1>2, <1>3, LocationMatches

(* What may end the process at a location stays the same with the routes.  *)
LEMMA SameTrouble ==
  ASSUME NEW text, UNCHANGED <<config, routes>>
  PROVE  AsksForTrouble(text)' = AsksForTrouble(text)
BY DEF AsksForTrouble, handler_map, Location, match, MayEndProcess, StatusThrows, BlockFits,
       Setting, FilePath, Root

(* ServesWhenComplete: with "/" configured, known handlers and the blocks  *)
(* they need, the server goes down only by a field that ends with its      *)
(* colon, by a file whose status cannot be had, or at a location that      *)
(* keeps data.                                                             *)
THEOREM DispatchServesWhenComplete ==
  Spec => []ServesWhenComplete
<1>1. Init => ServesWhenComplete
  BY DEF Init, ServesWhenComplete
<1>2. DispatchInv /\ ServesWhenComplete /\ [Next]_vars => ServesWhenComplete'
  <2> SUFFICES ASSUME DispatchInv, ServesWhenComplete, [Next]_vars
               PROVE  ServesWhenComplete'
    OBVIOUS
  <2>1. CASE server' # "down"
    BY <2>1 DEF ServesWhenComplete
  <2>2. CASE UNCHANGED vars
    <3>1. handler_map' = handler_map
      BY <2>2 DEF vars, handler_map
    <3>2. \A text : AsksForTrouble(text)' = AsksForTrouble(text)
      BY <2>2, <3>1, SameTrouble DEF vars
    <3> QED
      BY <2>2, <3>1, <3>2 DEF vars, ServesWhenComplete, Complete
  <2>3. ASSUME NEW arrived \in Arrivals, HandleRead(arrived)
        PROVE  ServesWhenComplete'
    <3>1. data' = arrived /\ server = "serving" /\ config' = config
      BY <2>3, ReadSteps
    <3>2. ASSUME NEW text \in Texts(arrived), getFields(text).throws
          PROVE  ServesWhenComplete'
      <4>1. \E i \in DOMAIN text : LineEnds(text, i + 1) /\ text[i] = ":"
        BY <3>2, TextOfRead, ThrowsAtColon
      <4> QED
        BY <3>1, <3>2, <4>1 DEF ServesWhenComplete, EndsWithColon
    <3>3. CASE GoesDown(arrived)
      <4>1. PICK text \in Texts(arrived) :
              LET req == getFields(text)
                  path == Location(req.target)
                  kind == IF path \in DOMAIN routes THEN routes[path] ELSE nullptr
              IN  \/ req.throws
                  \/ /\ ~Refuses(text)
                     /\ \/ kind = nullptr
                        \/ kind \in NeedsBlock /\ handler_map[path].block = NoBlock
                        \/ OutOfRange(kind, req, path, handler_map[path].block)
                        \/ kind # nullptr /\ StatusThrows(kind, req, path, handler_map[path].block)
                        \/ kind # nullptr /\ MayEndProcess(kind, handler_map[path].block)
        BY <3>3 DEF GoesDown
      <4>2. CASE ~Refuses(text) /\ ~getFields(text).throws
        <5> DEFINE target == getFields(text).target
                   path == Location(target)
                   kind == IF path \in DOMAIN routes THEN routes[path] ELSE nullptr
        <5>1. text \in AnyText /\ target \in AnyText
          BY TextOfRead, TargetIsText
        <5>2. ~OutOfRange(kind, getFields(text), path, handler_map[path].block)
          BY <4>2, <5>1, NeverOutOfRange
        <5>3. path = <<"/">> \/ path \in DOMAIN routes
          BY <5>1, LocationMatches DEF Matching
        <5>4. CASE \/ kind = nullptr
                   \/ kind \in NeedsBlock /\ handler_map[path].block = NoBlock
          <6> HIDE DEF path
          <6>1. ~Complete
            BY <3>1, <5>3, <5>4, CompleteRoutes
          <6>2. handler_map' = handler_map
            BY <3>1 DEF handler_map
          <6>3. Complete' = Complete
            BY <6>2 DEF Complete
          <6> QED
            BY <6>1, <6>3 DEF ServesWhenComplete
        <5>5. CASE /\ kind # nullptr
                   /\ \/ StatusThrows(kind, getFields(text), path, handler_map[path].block)
                      \/ MayEndProcess(kind, handler_map[path].block)
          <6>1. path \in DOMAIN routes /\ kind = routes[path]
            BY <5>5
          <6>2. AsksForTrouble(text)
            BY <4>2, <5>5, <6>1 DEF AsksForTrouble
          <6>3. AsksForTrouble(text)'
            <7>1. UNCHANGED <<config, routes>>
              BY <2>3, ReadSteps
            <7>2. AsksForTrouble(text)' = AsksForTrouble(text)
              BY <7>1, SameTrouble
            <7> QED
              BY <6>2, <7>2
          <6> QED
            BY <3>1, <6>3 DEF ServesWhenComplete
        <5> QED
          BY <4>1, <4>2, <5>2, <5>4, <5>5
      <4> QED
        BY <3>2, <4>1, <4>2
    <3>4. CASE RefusesRead
      BY <2>1, <3>1, <3>4 DEF RefusesRead
    <3>5. ASSUME NEW text \in Texts(arrived), Answers(text)
          PROVE  ServesWhenComplete'
      BY <2>1, <3>1, <3>5 DEF Answers
    <3> QED
      BY <2>3, <3>3, <3>4, <3>5, HandleReadCases
  <2> QED
    BY <2>1, <2>2, <2>3, QuietSteps
<1> QED
  BY <1>1, <1>2, InvHolds, PTL DEF Spec

-----------------------------------------------------------------------------
(* Path components.                                                        *)
AllParts == Seq(AnyText)

(* Extend adds a piece to the last component, or opens an empty one.       *)
LEMMA ExtendMeans ==
  ASSUME NEW parts \in AllParts, Len(parts) # 0, NEW piece \in STRING
  PROVE  /\ Extend(parts, piece) \in AllParts
         /\ Len(Extend(parts, piece)) = IF piece = "/" THEN Len(parts) + 1 ELSE Len(parts)
         /\ \A i \in 1..Len(parts) : (piece = "/" \/ i # Len(parts)) => Extend(parts, piece)[i] = parts[i]
         /\ piece # "/" => Extend(parts, piece)[Len(parts)] = Append(parts[Len(parts)], piece)
<1> DEFINE last == Len(parts)
<1>1. last \in Nat /\ last # 0 /\ DOMAIN parts = 1..last
  BY LenProperties DEF AllParts
<1>2. CASE piece = "/"
  <2>1. << >> \in AnyText
    BY EmptySeq DEF AnyText
  <2>2. /\ Append(parts, << >>) \in AllParts /\ Len(Append(parts, << >>)) = last + 1
        /\ \A i \in 1..last : Append(parts, << >>)[i] = parts[i]
    BY <2>1, AppendProperties DEF AllParts
  <2> QED
    BY <1>2, <2>2 DEF Extend
<1>3. CASE piece # "/"
  <2> DEFINE grown == Append(parts[last], piece)
             e == [parts EXCEPT ![last] = grown]
  <2>1. last \in 1..last /\ parts[last] \in AnyText
    BY <1>1, ElementOfSeq DEF AllParts
  <2>2. grown \in AnyText
    BY <2>1, AppendProperties DEF AnyText
  <2> HIDE DEF grown
  <2>3. e \in AllParts /\ Len(e) = last
    BY <1>1, <2>1, <2>2, ExceptSeq DEF AllParts
  <2>4. e[last] = grown /\ \A i \in 1..last : i # last => e[i] = parts[i]
    BY <1>1, <2>1
  <2> HIDE DEF e
  <2>5. Extend(parts, piece) = e
    BY <1>3 DEF Extend, e, grown
  <2> QED
    BY <1>3, <2>3, <2>4, <2>5 DEF grown
<1> QED
  BY <1>2, <1>3

(* The components of a path's first pieces, for each number of pieces.     *)
Unfolds(f, path, n) ==
  f[n] = IF n = 0 THEN << << >> >> ELSE Extend(f[n - 1], path[n])

PartsOf(path) ==
  CHOOSE f : f = [n \in 0..Len(path) |-> IF n = 0 THEN << << >> >> ELSE Extend(f[n - 1], path[n])]

LEMMA PartsUnfold ==
  ASSUME NEW path \in AnyText
  PROVE  /\ Components(path) = PartsOf(path)[Len(path)]
         /\ \A n \in 0..Len(path) : Unfolds(PartsOf(path), path, n)
<1> DEFINE size == Len(path)
           Body(f, n) == IF n = 0 THEN << << >> >> ELSE Extend(f[n - 1], path[n])
           Fits(f, m) == /\ f = [n \in 0..size |-> f[n]]
                         /\ \A n \in 0..size : n < m => f[n] = Body(f, n)
           Good == {m \in Nat : \E f : Fits(f, m)}
<1>1. size \in Nat
  BY TextLength
<1>2. 0 \in Good
  <2> DEFINE f == [n \in 0..size |-> << >>]
  <2>1. Fits(f, 0)
    OBVIOUS
  <2> QED
    BY <2>1
<1>3. ASSUME NEW m \in Nat, m \in Good PROVE m + 1 \in Good
  <2>1. PICK f : Fits(f, m)
    BY <1>3
  <2> DEFINE g == [n \in 0..size |-> IF n = m THEN Body(f, n) ELSE f[n]]
  <2>2. g = [n \in 0..size |-> g[n]]
    OBVIOUS
  <2>3. ASSUME NEW n \in 0..size, n < m + 1 PROVE g[n] = Body(g, n)
    <3>1. g[n] = Body(f, n)
      BY <2>1, <2>3
    <3>2. n # 0 => n - 1 \in 0..size /\ n - 1 # m
      BY <1>1, <2>3
    <3>3. n # 0 => g[n - 1] = f[n - 1]
      BY <3>2
    <3> HIDE DEF g
    <3> QED
      BY <3>1, <3>3
  <2> HIDE DEF g
  <2>4. Fits(g, m + 1)
    BY <2>2, <2>3
  <2>5. m + 1 \in Nat
    OBVIOUS
  <2> HIDE DEF Fits
  <2> QED
    BY <2>4, <2>5
<1>4. size + 1 \in Good
  <2> HIDE DEF Good
  <2> QED
    BY <1>1, <1>2, <1>3, SetInduction
<1>5. PICK f : Fits(f, size + 1)
  BY <1>4
<1>6. \A n \in 0..size : f[n] = Body(f, n)
  <2>1. \A n \in 0..size : n < size + 1
    BY <1>1
  <2> QED
    BY <1>5, <2>1
<1>7. f = [n \in 0..size |-> Body(f, n)]
  BY <1>5, <1>6
<1>8. PartsOf(path) = [n \in 0..size |-> Body(PartsOf(path), n)]
  BY <1>7 DEF PartsOf
<1>9. \A n \in 0..size : PartsOf(path)[n] = Body(PartsOf(path), n)
  <2> DEFINE parts == PartsOf(path)
  <2>1. parts = [n \in 0..size |-> Body(parts, n)]
    BY <1>8
  <2> HIDE DEF parts
  <2>2. \A n \in 0..size : parts[n] = Body(parts, n)
    BY <2>1
  <2> QED
    BY <2>2 DEF parts
<1> QED
  BY <1>9 DEF Components, PartsOf, Unfolds

LEMMA PartsType ==
  ASSUME NEW path \in AnyText, NEW n \in 0..Len(path)
  PROVE  PartsOf(path)[n] \in AllParts /\ Len(PartsOf(path)[n]) \in Nat \ {0}
<1> DEFINE parts == PartsOf(path)
           Good == {m \in Nat : m <= Len(path) => parts[m] \in AllParts /\ Len(parts[m]) \in Nat \ {0}}
<1>1. Len(path) \in Nat
  BY TextLength
<1>2. \A m \in 0..Len(path) : parts[m] = IF m = 0 THEN << << >> >> ELSE Extend(parts[m - 1], path[m])
  BY PartsUnfold DEF Unfolds
<1> HIDE DEF parts
<1>3. 0 \in Good
  <2>1. << >> \in AnyText
    BY EmptySeq DEF AnyText
  <2> DEFINE empty == << >>
  <2> HIDE DEF empty
  <2>2. <<empty>> \in Seq({empty}) /\ Len(<<empty>>) = 1
    OBVIOUS
  <2>3. <<empty>> \in AllParts
    BY <2>1, <2>2, SeqMonotonic DEF AllParts, empty
  <2>4. parts[0] = <<empty>>
    BY <1>1, <1>2 DEF empty
  <2> QED
    BY <2>2, <2>3, <2>4
<1>4. ASSUME NEW m \in Nat, m \in Good PROVE m + 1 \in Good
  <2> SUFFICES ASSUME m + 1 <= Len(path)
               PROVE  parts[m + 1] \in AllParts /\ Len(parts[m + 1]) \in Nat \ {0}
    OBVIOUS
  <2>1. m + 1 \in 1..Len(path) /\ m + 1 \in 0..Len(path) /\ m + 1 # 0 /\ (m + 1) - 1 = m /\ m <= Len(path)
    BY <1>1
  <2>2. parts[m] \in AllParts /\ Len(parts[m]) \in Nat \ {0}
    BY <1>4, <2>1
  <2>3. path[m + 1] \in STRING
    BY <2>1, ElementOfSeq DEF AnyText
  <2>4. parts[m + 1] = Extend(parts[m], path[m + 1])
    BY <1>2, <2>1
  <2>5. /\ Extend(parts[m], path[m + 1]) \in AllParts
        /\ Len(Extend(parts[m], path[m + 1])) \in {Len(parts[m]), Len(parts[m]) + 1}
    BY <2>2, <2>3, ExtendMeans
  <2>6. \A k \in Nat \ {0} : k + 1 \in Nat \ {0}
    OBVIOUS
  <2> QED
    BY <2>2, <2>4, <2>5, <2>6
<1> HIDE DEF Good
<1>5. n \in Good
  BY <1>1, <1>3, <1>4, SetInduction
<1> QED
  BY <1>5 DEF Good, parts

(* b is what a becomes as its path goes on.                                *)
StartsWith(v, w) == Len(w) <= Len(v) /\ \A k \in 1..Len(w) : v[k] = w[k]

Grown(a, b) ==
  /\ Len(a) <= Len(b)
  /\ \A i \in 1..Len(a) : i # Len(a) => b[i] = a[i]
  /\ StartsWith(b[Len(a)], a[Len(a)])

LEMMA LastPart ==
  ASSUME NEW parts \in AllParts, Len(parts) # 0
  PROVE  /\ Len(parts) \in Nat /\ Len(parts) \in 1..Len(parts)
         /\ \A i \in 1..Len(parts) : parts[i] \in AnyText
<1>1. Len(parts) \in Nat
  BY LenProperties DEF AllParts
<1>2. \A i \in 1..Len(parts) : parts[i] \in AnyText
  BY ElementOfSeq DEF AllParts
<1> QED
  BY <1>1, <1>2

LEMMA GrowsOn ==
  ASSUME NEW a \in AllParts, Len(a) # 0, NEW b \in AllParts, Len(b) # 0, Grown(a, b),
         NEW piece \in STRING
  PROVE  Grown(a, Extend(b, piece))
<1> DEFINE e == Extend(b, piece)
           la == Len(a)
           lb == Len(b)
<1>1. la \in Nat /\ lb \in Nat /\ la <= lb /\ la \in 1..la /\ lb \in 1..lb /\ la \in 1..lb
  <2>1. la \in Nat /\ lb \in Nat /\ la # 0 /\ lb # 0
    BY LastPart
  <2>2. la <= lb
    BY DEF Grown
  <2> QED
    BY <2>1, <2>2
<1>2. Len(e) \in {lb, lb + 1}
  BY ExtendMeans
<1>3. \A i \in 1..lb : (piece = "/" \/ i # lb) => e[i] = b[i]
  BY ExtendMeans
<1>4. /\ \A i \in 1..la : i # la => b[i] = a[i]
      /\ StartsWith(b[la], a[la])
  BY DEF Grown
<1>5. piece # "/" => e[lb] = Append(b[lb], piece)
  BY ExtendMeans
<1>6. b[la] \in AnyText /\ a[la] \in AnyText /\ b[lb] \in AnyText
  BY <1>1, LastPart
<1> HIDE DEF e, la, lb
<1>7. la <= Len(e)
  BY <1>1, <1>2
<1>8. ASSUME NEW i \in 1..la, i # la PROVE e[i] = a[i]
  <2>1. i \in 1..lb /\ i # lb
    BY <1>1, <1>8
  <2> QED
    BY <1>3, <1>4, <1>8, <2>1
<1>9. StartsWith(e[la], a[la])
  <2>1. CASE piece = "/" \/ la # lb
    BY <1>1, <1>3, <1>4, <2>1
  <2>2. CASE piece # "/" /\ la = lb
    <3> DEFINE v == b[la]
               w == a[la]
               x == Append(v, piece)
    <3>1. v \in Seq(STRING) /\ w \in Seq(STRING)
      BY <1>6 DEF AnyText
    <3> HIDE DEF v, w
    <3>2. /\ Len(x) = Len(v) + 1 /\ Len(v) \in Nat /\ Len(w) \in Nat
          /\ \A k \in 1..Len(v) : x[k] = v[k]
      BY <3>1, AppendProperties, LenProperties
    <3>3. StartsWith(v, w)
      BY <1>4 DEF v, w
    <3> HIDE DEF x
    <3>4. Len(w) <= Len(v) /\ \A k \in 1..Len(w) : v[k] = w[k]
      BY <3>3 DEF StartsWith
    <3>5. Len(w) <= Len(x)
      BY <3>2, <3>4
    <3>6. ASSUME NEW k \in 1..Len(w) PROVE x[k] = w[k]
      <4>1. k \in 1..Len(v)
        BY <3>2, <3>4
      <4> QED
        BY <3>2, <3>4, <4>1
    <3>7. StartsWith(x, w)
      BY <3>5, <3>6 DEF StartsWith
    <3> QED
      BY <1>5, <2>2, <3>7 DEF x, v, w
  <2> QED
    BY <2>1, <2>2
<1> QED
  BY <1>7, <1>8, <1>9 DEF Grown, e, la

LEMMA PartsGrow ==
  ASSUME NEW path \in AnyText, NEW m \in Nat, NEW n \in Nat, m <= n, n <= Len(path)
  PROVE  Grown(PartsOf(path)[m], PartsOf(path)[n])
<1> DEFINE parts == PartsOf(path)
           Good == {d \in Nat : m + d <= Len(path) => Grown(parts[m], parts[m + d])}
<1>1. Len(path) \in Nat
  BY TextLength
<1>2. \A k \in 0..Len(path) : parts[k] \in AllParts /\ Len(parts[k]) \in Nat \ {0}
  BY PartsType
<1>3. \A k \in 0..Len(path) : k # 0 => parts[k] = Extend(parts[k - 1], path[k])
  BY PartsUnfold DEF Unfolds
<1> HIDE DEF parts
<1>4. 0 \in Good
  <2> SUFFICES ASSUME m <= Len(path) PROVE Grown(parts[m], parts[m])
    OBVIOUS
  <2>1. parts[m] \in AllParts /\ Len(parts[m]) # 0
    BY <1>1, <1>2
  <2> DEFINE a == parts[m]
  <2>2. Len(a) \in Nat /\ a[Len(a)] \in AnyText
    BY <2>1, LastPart
  <2>3. Len(a[Len(a)]) \in Nat
    BY <2>2, TextLength
  <2>4. \A k \in Nat : k <= k
    OBVIOUS
  <2> HIDE DEF a
  <2>5. Grown(a, a)
    BY <2>2, <2>3, <2>4 DEF Grown, StartsWith
  <2> QED
    BY <2>5 DEF a
<1>5. ASSUME NEW d \in Nat, d \in Good PROVE d + 1 \in Good
  <2> SUFFICES ASSUME m + (d + 1) <= Len(path)
               PROVE  Grown(parts[m], parts[m + (d + 1)])
    OBVIOUS
  <2> DEFINE k == m + (d + 1)
  <2>1. /\ k \in 0..Len(path) /\ k # 0 /\ k - 1 = m + d /\ m + d <= Len(path)
        /\ m \in 0..Len(path) /\ m + d \in 0..Len(path) /\ k \in 1..Len(path)
    BY <1>1
  <2>2. Grown(parts[m], parts[m + d])
    BY <1>5, <2>1
  <2>3. path[k] \in STRING
    BY <2>1, ElementOfSeq DEF AnyText
  <2> HIDE DEF k
  <2>4. /\ parts[m] \in AllParts /\ Len(parts[m]) # 0
        /\ parts[m + d] \in AllParts /\ Len(parts[m + d]) # 0
    BY <1>2, <2>1
  <2>5. parts[k] = Extend(parts[m + d], path[k])
    BY <1>3, <2>1
  <2>6. Grown(parts[m], Extend(parts[m + d], path[k]))
    BY <2>2, <2>3, <2>4, GrowsOn
  <2> QED
    BY <2>5, <2>6 DEF k
<1>6. n - m \in Good
  <2> HIDE DEF Good
  <2>1. Nat \subseteq Good
    BY <1>4, <1>5, SetInduction
  <2>2. n - m \in Nat
    OBVIOUS
  <2> QED
    BY <2>1, <2>2
<1>7. m + (n - m) = n
  OBVIOUS
<1> QED
  BY <1>6, <1>7 DEF parts

(* Paths that begin alike have the same components so far.                 *)
LEMMA SameParts ==
  ASSUME NEW p \in AnyText, NEW t \in AnyText, NEW m \in Nat, m <= Len(p), m <= Len(t),
         \A i \in 1..m : p[i] = t[i]
  PROVE  PartsOf(p)[m] = PartsOf(t)[m]
<1> DEFINE a == PartsOf(p)
           b == PartsOf(t)
           Good == {k \in Nat : k <= m => a[k] = b[k]}
<1>1. Len(p) \in Nat /\ Len(t) \in Nat
  BY TextLength
<1>2. \A k \in 0..Len(p) : a[k] = IF k = 0 THEN << << >> >> ELSE Extend(a[k - 1], p[k])
  BY PartsUnfold DEF Unfolds
<1>3. \A k \in 0..Len(t) : b[k] = IF k = 0 THEN << << >> >> ELSE Extend(b[k - 1], t[k])
  BY PartsUnfold DEF Unfolds
<1> HIDE DEF a, b
<1>4. 0 \in Good
  <2>1. 0 \in 0..Len(p) /\ 0 \in 0..Len(t)
    BY <1>1
  <2> QED
    BY <1>2, <1>3, <2>1
<1>5. ASSUME NEW k \in Nat, k \in Good PROVE k + 1 \in Good
  <2> SUFFICES ASSUME k + 1 <= m PROVE a[k + 1] = b[k + 1]
    OBVIOUS
  <2>1. /\ k + 1 \in 1..m /\ k + 1 # 0 /\ (k + 1) - 1 = k /\ k <= m
        /\ k + 1 \in 0..Len(p) /\ k + 1 \in 0..Len(t)
    BY <1>1
  <2>2. a[k] = b[k] /\ p[k + 1] = t[k + 1]
    BY <1>5, <2>1
  <2>3. a[k + 1] = Extend(a[k], p[k + 1])
    BY <1>2, <2>1
  <2>4. b[k + 1] = Extend(b[k], t[k + 1])
    BY <1>3, <2>1
  <2> QED
    BY <2>2, <2>3, <2>4
<1> HIDE DEF Good
<1>6. m \in Good
  BY <1>4, <1>5, SetInduction
<1>7. m <= m
  OBVIOUS
<1> QED
  BY <1>6, <1>7 DEF Good, a, b

(* The piece behind the first m of a path shows in its components: a slash *)
(* ends the component they reach, any other piece goes on with it.         *)
LEMMA NextPiece ==
  ASSUME NEW path \in AnyText, NEW m \in Nat, m < Len(path)
  PROVE  LET d == PartsOf(path)[m]
             c == Components(path)
             n == Len(d)
         IN  /\ n <= Len(c) /\ \A i \in 1..n : i # n => c[i] = d[i]
             /\ path[m + 1] = "/" => n + 1 <= Len(c) /\ c[n] = d[n]
             /\ path[m + 1] # "/" => Len(d[n]) + 1 <= Len(c[n]) /\ c[n][Len(d[n]) + 1] = path[m + 1]
<1> DEFINE d == PartsOf(path)[m]
           e == PartsOf(path)[m + 1]
           c == Components(path)
           n == Len(d)
           piece == path[m + 1]
<1>1. /\ Len(path) \in Nat /\ m + 1 \in Nat /\ m + 1 <= Len(path) /\ m \in 0..Len(path)
      /\ m + 1 \in 1..Len(path) /\ m + 1 \in 0..Len(path) /\ m + 1 # 0 /\ (m + 1) - 1 = m
      /\ Len(path) <= Len(path)
  BY TextLength
<1>2. d \in AllParts /\ Len(d) # 0
  BY <1>1, PartsType
<1>3. piece \in STRING
  BY <1>1, ElementOfSeq DEF AnyText
<1>4. e = Extend(d, piece)
  BY <1>1, PartsUnfold DEF Unfolds
<1>5. Grown(e, c)
  <2>1. Grown(PartsOf(path)[m + 1], PartsOf(path)[Len(path)])
    BY <1>1, PartsGrow
  <2> QED
    BY <2>1, PartsUnfold
<1> HIDE DEF d, e, c, piece
<1>6. n \in Nat /\ n \in 1..n /\ d[n] \in AnyText
  BY <1>2, LastPart
<1>7. /\ Len(e) = IF piece = "/" THEN n + 1 ELSE n
      /\ \A i \in 1..n : (piece = "/" \/ i # n) => e[i] = d[i]
      /\ piece # "/" => e[n] = Append(d[n], piece)
  BY <1>2, <1>3, <1>4, ExtendMeans
<1>8. /\ Len(e) <= Len(c)
      /\ \A i \in 1..Len(e) : i # Len(e) => c[i] = e[i]
      /\ StartsWith(c[Len(e)], e[Len(e)])
  BY <1>5 DEF Grown
<1>9. CASE piece = "/"
  <2>1. Len(e) = n + 1
    BY <1>7, <1>9
  <2>2. \A i \in 1..n : i \in 1..Len(e) /\ i # Len(e)
    BY <1>6, <2>1
  <2>3. \A i \in 1..n : c[i] = d[i]
    BY <1>7, <1>8, <1>9, <2>2
  <2>4. n + 1 <= Len(c)
    BY <1>8, <2>1
  <2>5. n <= Len(c)
    <3>1. c \in AllParts
      BY <1>1, PartsType, PartsUnfold DEF c
    <3>2. Len(c) \in Nat
      BY <3>1, LenProperties DEF AllParts
    <3> HIDE DEF n
    <3> QED
      BY <1>6, <2>4, <3>2
  <2> QED
    BY <1>6, <1>9, <2>3, <2>4, <2>5 DEF d, c, piece
<1>10. CASE piece # "/"
  <2>1. Len(e) = n /\ e[n] = Append(d[n], piece)
    BY <1>7, <1>10
  <2>2. \A i \in 1..n : i # n => c[i] = d[i]
    BY <1>7, <1>8, <2>1
  <2> DEFINE w == d[n]
             x == Append(w, piece)
             v == c[n]
  <2>3. StartsWith(v, x)
    BY <1>8, <2>1
  <2>4. w \in Seq(STRING)
    BY <1>6 DEF AnyText
  <2> HIDE DEF w, v
  <2> HIDE DEF piece
  <2>5. Len(x) = Len(w) + 1 /\ x[Len(w) + 1] = piece /\ Len(w) \in Nat
    <3>1. Len(w) \in Nat
      BY <2>4, LenProperties
    <3>2. Len(x) = Len(w) + 1 /\ x[Len(w) + 1] = piece
      BY <1>3, <2>4, AppendProperties
    <3> QED
      BY <3>1, <3>2
  <2> HIDE DEF x
  <2>6. Len(w) + 1 <= Len(v) /\ v[Len(w) + 1] = piece
    <3>1. Len(w) + 1 \in 1..Len(x)
      BY <2>5
    <3> QED
      BY <2>3, <2>5, <3>1 DEF StartsWith
  <2>7. n <= Len(c)
    BY <1>8, <2>1
  <2> QED
    BY <1>10, <2>2, <2>6, <2>7 DEF d, c, piece, w, v
<1> QED
  BY <1>9, <1>10

(* What path components begin with is what a location matches.             *)
LEMMA MatchesByComponents ==
  ASSUME NEW target \in AnyText, NEW path \in AnyText
  PROVE  SE!IsPrefix(Components(path), Components(target)) <=> Matches(target, path)
<1> DEFINE c == Components(path)
           t == Components(target)
           size == Len(path)
           all == Len(target)
<1>1. size \in Nat /\ all \in Nat
  BY TextLength
<1>2. c \in AllParts /\ Len(c) \in Nat \ {0} /\ t \in AllParts /\ Len(t) \in Nat \ {0}
  BY <1>1, PartsType, PartsUnfold
<1>3. c = PartsOf(path)[size] /\ t = PartsOf(target)[all]
  BY PartsUnfold
<1>4. SE!IsPrefix(c, t) <=> Len(c) <= Len(t) /\ \A i \in 1..Len(c) : c[i] = t[i]
  BY <1>2, PrefixMeans DEF AllParts
<1>5. Matches(target, path) <=>
        /\ size <= all /\ \A i \in 1..size : path[i] = target[i]
        /\ all = size \/ target[size + 1] = "/"
  BY MatchMeans
<1> HIDE DEF c, t
<1>6. ASSUME Matches(target, path) PROVE SE!IsPrefix(c, t)
  <2>1. c = PartsOf(target)[size]
    BY <1>1, <1>3, <1>5, <1>6, SameParts
  <2>2. CASE all = size
    <3>1. c = t
      BY <1>3, <2>1, <2>2
    <3> QED
      BY <1>2, <1>4, <3>1
  <2>3. CASE all # size
    <3>1. size < all /\ target[size + 1] = "/"
      BY <1>1, <1>5, <1>6, <2>3
    <3>2. /\ Len(c) <= Len(t) /\ \A i \in 1..Len(c) : i # Len(c) => t[i] = c[i]
          /\ t[Len(c)] = c[Len(c)]
      BY <1>1, <2>1, <3>1, NextPiece DEF t
    <3> QED
      BY <1>4, <3>2
  <2> QED
    BY <2>2, <2>3
<1>7. ASSUME SE!IsPrefix(c, t), NEW m \in Nat, m < size, m <= all, \A i \in 1..m : path[i] = target[i]
      PROVE  m < all /\ path[m + 1] = target[m + 1]
  <2> DEFINE d == PartsOf(path)[m]
             n == Len(d)
  <2>1. d = PartsOf(target)[m]
    BY <1>1, <1>7, SameParts
  <2>2. d \in AllParts /\ Len(d) # 0
    <3>1. m \in 0..Len(path)
      BY <1>1, <1>7
    <3> QED
      BY <3>1, PartsType
  <2>3. /\ n <= Len(c)
        /\ path[m + 1] = "/" => n + 1 <= Len(c) /\ c[n] = d[n]
        /\ path[m + 1] # "/" => Len(d[n]) + 1 <= Len(c[n]) /\ c[n][Len(d[n]) + 1] = path[m + 1]
    BY <1>7, NextPiece DEF c
  <2> HIDE DEF d
  <2>4. n \in 1..Len(c) /\ n \in Nat /\ Len(d[n]) \in Nat
    <3>1. n \in Nat /\ n \in 1..n /\ d[n] \in AnyText
      BY <2>2, LastPart
    <3>2. n <= Len(c)
      BY <2>3
    <3>3. n # 0
      BY <2>2
    <3> HIDE DEF n
    <3>4. n \in 1..Len(c)
      BY <1>2, <3>1, <3>2, <3>3
    <3> QED
      BY <3>1, <3>4, TextLength DEF n
  <2>5. c[n] = t[n] /\ Len(c) <= Len(t)
    BY <1>4, <1>7, <2>4
  <2>6. CASE m = all
    <3>1. d = t
      BY <1>3, <2>1, <2>6
    <3>2. ~ (n + 1 <= Len(c))
      BY <1>2, <2>4, <2>5, <3>1
    <3>3. Len(d[n]) + 1 <= Len(d[n])
      BY <2>3, <2>5, <3>1, <3>2
    <3> QED
      BY <2>4, <3>3
  <2>7. CASE m < all
    <3>1. /\ target[m + 1] = "/" => t[n] = d[n]
          /\ target[m + 1] # "/" => Len(d[n]) + 1 <= Len(t[n]) /\ t[n][Len(d[n]) + 1] = target[m + 1]
      BY <1>7, <2>1, <2>7, NextPiece DEF t
    <3>2. ~ (Len(d[n]) + 1 <= Len(d[n]))
      BY <2>4
    <3> QED
      BY <2>3, <2>5, <2>7, <3>1, <3>2
  <2>8. m = all \/ m < all
    BY <1>1, <1>7
  <2> QED
    BY <2>6, <2>7, <2>8
<1>8. ASSUME SE!IsPrefix(c, t) PROVE Matches(target, path)
  <2> DEFINE Good == {k \in Nat : k <= size => k <= all /\ \A i \in 1..k : path[i] = target[i]}
  <2>1. 0 \in Good
    BY <1>1
  <2>2. ASSUME NEW k \in Nat, k \in Good PROVE k + 1 \in Good
    <3> SUFFICES ASSUME k + 1 <= size
                 PROVE  k + 1 <= all /\ \A i \in 1..(k + 1) : path[i] = target[i]
      OBVIOUS
    <3>1. k < size /\ k <= all /\ \A i \in 1..k : path[i] = target[i]
      BY <1>1, <2>2
    <3>2. k < all /\ path[k + 1] = target[k + 1]
      BY <1>7, <1>8, <3>1
    <3>3. \A i \in 1..(k + 1) : i \in 1..k \/ i = k + 1
      OBVIOUS
    <3>4. k + 1 <= all
      BY <1>1, <3>2
    <3> QED
      BY <3>1, <3>2, <3>3, <3>4
  <2>3. size <= all /\ \A i \in 1..size : path[i] = target[i]
    <3>1. size \in Good
      <4> HIDE DEF Good
      <4> QED
        BY <1>1, <2>1, <2>2, SetInduction
    <3>2. size <= size
      BY <1>1
    <3> QED
      BY <3>1, <3>2
  <2>4. ASSUME size < all PROVE target[size + 1] = "/"
    <3> DEFINE n == Len(c)
    <3>1. c = PartsOf(target)[size]
      BY <1>1, <1>3, <2>3, SameParts
    <3>2. target[size + 1] # "/" => Len(c[n]) + 1 <= Len(t[n])
      BY <1>1, <2>4, <3>1, NextPiece DEF t
    <3>3. n \in 1..Len(c) /\ Len(c[n]) \in Nat
      BY <1>2, LastPart, TextLength
    <3>4. c[n] = t[n]
      BY <1>4, <1>8, <3>3
    <3>5. ~ (Len(c[n]) + 1 <= Len(c[n]))
      BY <3>3
    <3> QED
      BY <3>2, <3>4, <3>5
  <2>5. size < all \/ all = size
    BY <1>1, <2>3
  <2> QED
    BY <1>5, <2>3, <2>4, <2>5
<1> QED
  BY <1>6, <1>8 DEF c, t

(* A longer location has more components, among those a target matches.    *)
LEMMA LongerHasMore ==
  ASSUME NEW target \in AnyText, NEW path \in AnyText, NEW other \in AnyText,
         Matches(target, path), Matches(target, other), Len(other) <= Len(path)
  PROVE  Len(Components(other)) <= Len(Components(path))
<1>1. /\ Len(path) \in Nat /\ Len(other) \in Nat
      /\ Len(path) <= Len(target) /\ \A i \in 1..Len(path) : path[i] = target[i]
      /\ Len(other) <= Len(target) /\ \A i \in 1..Len(other) : other[i] = target[i]
  BY TextLength, MatchMeans
<1>2. Components(path) = PartsOf(target)[Len(path)]
  BY <1>1, SameParts, PartsUnfold
<1>3. Components(other) = PartsOf(target)[Len(other)]
  BY <1>1, SameParts, PartsUnfold
<1>4. Grown(PartsOf(target)[Len(other)], PartsOf(target)[Len(path)])
  BY <1>1, PartsGrow
<1> QED
  BY <1>2, <1>3, <1>4 DEF Grown

(* A request whose method and first blank are in place has that method.    *)
LEMMA LongEnough ==
  ASSUME NEW text \in AnyText, ~Refuses(text)
  PROVE  Len(text) >= 2 /\ 1 \in 1..Len(text) /\ 2 \in 1..Len(text)
<1>1. Len(text) \in Nat /\ DOMAIN text = 1..Len(text)
  BY TextLength
<1> DEFINE sp1 == FirstOf(text, NotInToken, 1)
           sp2 == FirstOf(text, NotInTarget, sp1 + 1)
<1>2. /\ ~(sp1 > Len(text)) /\ sp1 # 1 /\ ~(sp2 > Len(text))
  BY VerdictMeans DEF Refuses, LetThrough
<1>3. sp1 \in Nat /\ (sp1 <= Len(text) => sp1 >= 1)
  BY FirstOfIsFirst
<1> HIDE DEF sp2
<1> HIDE DEF sp1
<1>4. Len(text) >= 2
  BY <1>1, <1>2, <1>3
<1> QED
  BY <1>1, <1>4

LEMMA SecondPlace ==
  ASSUME NEW n \in Nat, n >= 2, NEW i \in Nat, i <= 2, i <= n => i >= 1 /\ i # 1
  PROVE  i = 2
OBVIOUS

OneRunFirst(text) == text[1] # " " /\ text[2] = " "

LEMMA BlankIsSecond ==
  ASSUME NEW text \in AnyText, Len(text) >= 2, OneRunFirst(text)
  PROVE  Find(text, " ", 1) = 2
<1> DEFINE sp1 == Find(text, " ", 1)
<1>1. Len(text) \in Nat /\ 2 \in 1..Len(text)
  BY TextLength
<1>2. \A j \in 1..Len(text) : text[j] = " " => sp1 <= j
  BY FindIsFirst
<1>3. sp1 <= 2
  BY <1>1, <1>2 DEF OneRunFirst
<1>4. sp1 \in Nat /\ (sp1 <= Len(text) => sp1 >= 1)
  BY FindIsFirst
<1>5. sp1 <= Len(text) => text[sp1] = " "
  BY FindIsFirst
<1>6. sp1 <= Len(text) => sp1 # 1
  BY <1>5 DEF OneRunFirst
<1> HIDE DEF sp1
<1>7. sp1 = 2
  BY <1>1, <1>3, <1>4, <1>6, SecondPlace
<1> QED
  BY <1>7 DEF sp1

LEMMA MethodInPlace ==
  ASSUME NEW text \in AnyText, ~Refuses(text), text[1] \in KnownMethods, text[2] = " "
  PROVE  getFields(text).method # NoMethod
<1>1. text[1] # " " /\ text[1] # NoMethod
  BY DEF KnownMethods, NoMethod
<1>2. Len(text) >= 2
  BY LongEnough
<1>3. Find(text, " ", 1) = 2
  BY <1>1, <1>2, BlankIsSecond DEF OneRunFirst
<1>4. getFields(text).method = text[1]
  BY <1>2, <1>3 DEF getFields
<1> QED
  BY <1>1, <1>4

LEMMA KnownWhenAsked ==
  ASSUME NEW arrived \in Arrivals, Len(arrived) < Capacity, NEW text \in Texts(arrived),
         ~Refuses(text), arrived[1] \in KnownMethods, arrived[2] = " "
  PROVE  getFields(text).method # NoMethod
<1>1. text \in AnyText /\ \A i \in 1..Len(text) : text[i] = arrived[i]
  BY TextOfRead
<1>2. 1 \in 1..Len(text) /\ 2 \in 1..Len(text)
  BY <1>1, LongEnough
<1>3. text[1] = arrived[1] /\ text[2] = arrived[2]
  BY <1>1, <1>2
<1> QED
  BY <1>1, <1>3, MethodInPlace

(* The locations whose components a text's target begins with.             *)
Around(map, text) ==
  {path \in DOMAIN map : SE!IsPrefix(Components(path), Components(SubSeq(text, 3, Find(text, " ", 3) - 1)))}

LongestOf(map, text, at) ==
  IF Around(map, text) = {} THEN at = <<"/">>
  ELSE /\ at \in Around(map, text)
       /\ \A path \in Around(map, text) : Len(Components(path)) <= Len(Components(at))

(* LongestLocationWins: the location of a request is the longest one in    *)
(* whose path its target lies, component by component, or "/".             *)
THEOREM DispatchLongestLocationWins ==
  Spec => []LongestLocationWins
<1> DEFINE Asks(text) == text[1] \in KnownMethods /\ text[2] = " " /\ Len(text) < Capacity
           Wins == location # << >> /\ Asks(data) => LongestOf(handler_map, data, location)
<1>1. LongestLocationWins <=> Wins
  BY DEF LongestLocationWins, HasRoom, Target, LongestOf, Around
<1>2. Init => Wins
  BY DEF Init
<1>3. DispatchInv /\ Wins /\ [Next]_vars => Wins'
  <2> SUFFICES ASSUME DispatchInv, Wins, [Next]_vars PROVE Wins'
    OBVIOUS
  <2>1. CASE location' = << >>
    BY <2>1
  <2>2. CASE UNCHANGED vars
    BY <2>2 DEF vars, handler_map
  <2>3. ASSUME NEW arrived \in Arrivals, HandleRead(arrived)
        PROVE  Wins'
    <3>1. data' = arrived /\ reply = NoReply /\ config' = config /\ server = "serving"
      BY <2>3, ReadSteps
    <3>2. CASE GoesDown(arrived)
      <4>1. location' = location /\ location = << >>
        BY <3>1, <3>2 DEF GoesDown, DispatchInv, IdleWithoutLocation
      <4> QED
        BY <2>1, <4>1
    <3>3. CASE RefusesRead
      BY <2>1, <3>3 DEF RefusesRead
    <3>4. ASSUME NEW text \in Texts(arrived), Answers(text)
          PROVE  Wins'
      <4> SUFFICES ASSUME Asks(arrived) PROVE LongestOf(handler_map, arrived, location')
        <5>1. handler_map' = handler_map
          BY <3>1 DEF handler_map
        <5> QED
          BY <3>1, <5>1
      <4> DEFINE target == getFields(text).target
                 path == Location(target)
      <4>1. ~Refuses(text) /\ location' = path /\ text \in AnyText /\ target \in AnyText
        BY <3>4, TextOfRead, TargetIsText DEF Answers
      <4>2. getFields(text).method # NoMethod
        BY <4>1, KnownWhenAsked
      <4>3. target = SubSeq(arrived, 3, Find(arrived, " ", 3) - 1)
        BY <4>1, <4>2, ReadInRoom
      <4>4. Around(handler_map, arrived) = Matching(target)
        <5>1. DOMAIN handler_map = DOMAIN routes /\ DOMAIN routes \subseteq AnyText
          BY <3>1, RoutesAreTexts DEF DispatchInv, RoutesOfConfig, RoutesOf, handler_map
        <5>2. \A other \in DOMAIN routes :
                SE!IsPrefix(Components(other), Components(target)) <=> Matches(target, other)
          BY <4>1, <5>1, MatchesByComponents
        <5> HIDE DEF target
        <5> QED
          BY <4>3, <5>1, <5>2 DEF Around, Matching
      <4> HIDE DEF target
      <4>5. /\ Matching(target) = {} => path = <<"/">>
            /\ Matching(target) # {} =>
                 /\ path \in Matching(target)
                 /\ \A other \in Matching(target) : Len(other) <= Len(path)
        BY <4>1, MatchIsLongest, RoutesAreTexts DEF Location
      <4>6. ASSUME path \in Matching(target), NEW other \in Matching(target), Len(other) <= Len(path)
            PROVE  Len(Components(other)) <= Len(Components(path))
        <5>1. path \in AnyText /\ other \in AnyText /\ Matches(target, path) /\ Matches(target, other)
          BY <4>6, RoutesAreTexts DEF Matching
        <5> HIDE DEF path
        <5> QED
          BY <4>1, <4>6, <5>1, LongerHasMore
      <4> HIDE DEF path
      <4> QED
        BY <4>1, <4>4, <4>5, <4>6 DEF LongestOf
    <3> QED
      BY <2>3, <3>2, <3>3, <3>4, HandleReadCases
  <2> QED
    BY <2>1, <2>2, <2>3, QuietSteps
<1> QED
  BY <1>1, <1>2, <1>3, InvHolds, PTL DEF Spec
-----------------------------------------------------------------------------
(* Where names lead.                                                       *)

(* Step stays, goes one up, or goes one further down.                      *)
LEMMA StepMeans ==
  ASSUME NEW at \in AllParts, NEW name \in AnyText
  PROVE  /\ Step(at, name) \in AllParts
         /\ name # DotDot => Step(at, name) = at \/ Step(at, name) = Append(at, name)
<1>1. Append(at, name) \in AllParts
  BY AppendProperties DEF AllParts
<1>2. ASSUME at # << >> PROVE SubSeq(at, 1, Len(at) - 1) \in AllParts
  <2>1. Len(at) \in Nat /\ Len(at) # 0 /\ DOMAIN at = 1..Len(at)
    BY <1>2, EmptySeq, LenProperties DEF AllParts
  <2>2. \A i \in 1 .. (Len(at) - 1) : at[i] \in AnyText
    <3>1. \A i \in 1 .. (Len(at) - 1) : i \in 1..Len(at)
      BY <2>1
    <3> QED
      BY <3>1, ElementOfSeq DEF AllParts
  <2>3. Len(at) - 1 \in Nat /\ 1 \in Nat
    BY <2>1
  <2> QED
    BY <2>2, <2>3, SubSeqProperties DEF AllParts
<1> QED
  BY <1>1, <1>2 DEF Step

(* The places on the way along the names.                                  *)
Start(names) == IF names[1] = << >> THEN << >> ELSE Here

Way(names) ==
  CHOOSE f : f = [n \in 0..Len(names) |->
                    IF n = 0 THEN IF names[1] = << >> THEN << >> ELSE Here
                    ELSE Step(f[n - 1], names[n])]

LEMMA WayUnfolds ==
  ASSUME NEW names \in AllParts
  PROVE  /\ Walk(names) = Way(names)[Len(names)]
         /\ \A n \in 0..Len(names) :
              Way(names)[n] = IF n = 0 THEN Start(names) ELSE Step(Way(names)[n - 1], names[n])
<1> DEFINE size == Len(names)
           Body(f, n) == IF n = 0 THEN Start(names) ELSE Step(f[n - 1], names[n])
           Fits(f, m) == /\ f = [n \in 0..size |-> f[n]]
                         /\ \A n \in 0..size : n < m => f[n] = Body(f, n)
           Good == {m \in Nat : \E f : Fits(f, m)}
<1>1. size \in Nat
  BY LenProperties DEF AllParts
<1>2. 0 \in Good
  <2> DEFINE f == [n \in 0..size |-> << >>]
  <2>1. Fits(f, 0)
    OBVIOUS
  <2> QED
    BY <2>1
<1>3. ASSUME NEW m \in Nat, m \in Good PROVE m + 1 \in Good
  <2>1. PICK f : Fits(f, m)
    BY <1>3
  <2> DEFINE g == [n \in 0..size |-> IF n = m THEN Body(f, n) ELSE f[n]]
  <2>2. g = [n \in 0..size |-> g[n]]
    OBVIOUS
  <2>3. ASSUME NEW n \in 0..size, n < m + 1 PROVE g[n] = Body(g, n)
    <3>1. g[n] = Body(f, n)
      <4>1. g[n] = IF n = m THEN Body(f, n) ELSE f[n]
        OBVIOUS
      <4>2. n # m => n < m
        BY <1>1, <2>3
      <4>3. n < m => f[n] = Body(f, n)
        BY <2>1
      <4> HIDE DEF g, Body
      <4> QED
        BY <4>1, <4>2, <4>3
    <3>2. n # 0 => n - 1 \in 0..size /\ n - 1 # m
      BY <1>1, <2>3
    <3>3. n # 0 => g[n - 1] = f[n - 1]
      BY <3>2
    <3> HIDE DEF g
    <3> QED
      BY <3>1, <3>3
  <2> HIDE DEF g
  <2>4. Fits(g, m + 1)
    BY <2>2, <2>3
  <2>5. m + 1 \in Nat
    OBVIOUS
  <2> HIDE DEF Fits
  <2> QED
    BY <2>4, <2>5
<1>4. size + 1 \in Good
  <2> HIDE DEF Good
  <2> QED
    BY <1>1, <1>2, <1>3, SetInduction
<1>5. PICK f : Fits(f, size + 1)
  BY <1>4
<1>6. \A n \in 0..size : f[n] = Body(f, n)
  <2>1. \A n \in 0..size : n < size + 1
    BY <1>1
  <2> QED
    BY <1>5, <2>1
<1>7. f = [n \in 0..size |-> Body(f, n)]
  BY <1>5, <1>6
<1>8. Way(names) = [n \in 0..size |-> Body(Way(names), n)]
  BY <1>7 DEF Way, Start
<1>9. \A n \in 0..size : Way(names)[n] = Body(Way(names), n)
  <2> DEFINE way == Way(names)
  <2>1. way = [n \in 0..size |-> Body(way, n)]
    BY <1>8
  <2> HIDE DEF way
  <2>2. \A n \in 0..size : way[n] = Body(way, n)
    BY <2>1
  <2> QED
    BY <2>2 DEF way
<1> QED
  BY <1>9 DEF Walk, Way

LEMMA WayType ==
  ASSUME NEW names \in AllParts, NEW n \in 0..Len(names)
  PROVE  Way(names)[n] \in AllParts
<1> DEFINE way == Way(names)
           Good == {m \in Nat : m <= Len(names) => way[m] \in AllParts}
<1>1. Len(names) \in Nat
  BY LenProperties DEF AllParts
<1>2. \A m \in 0..Len(names) : way[m] = IF m = 0 THEN Start(names) ELSE Step(way[m - 1], names[m])
  BY WayUnfolds
<1> HIDE DEF way
<1>3. 0 \in Good
  <2>1. << >> \in AllParts /\ Here \in AllParts
    BY EmptySeq, FilePathsAssumption DEF AllParts, AnyText
  <2>2. Start(names) \in AllParts
    BY <2>1 DEF Start
  <2>3. way[0] = Start(names)
    BY <1>1, <1>2
  <2> QED
    BY <2>2, <2>3
<1>4. ASSUME NEW m \in Nat, m \in Good PROVE m + 1 \in Good
  <2> SUFFICES ASSUME m + 1 <= Len(names) PROVE way[m + 1] \in AllParts
    OBVIOUS
  <2>1. /\ m + 1 \in 1..Len(names) /\ m + 1 \in 0..Len(names) /\ m + 1 # 0
        /\ (m + 1) - 1 = m /\ m <= Len(names)
    BY <1>1
  <2>2. way[m] \in AllParts
    BY <1>4, <2>1
  <2>3. names[m + 1] \in AnyText
    BY <2>1, ElementOfSeq DEF AllParts
  <2>4. way[m + 1] = Step(way[m], names[m + 1])
    BY <1>2, <2>1
  <2> QED
    BY <2>2, <2>3, <2>4, StepMeans
<1> HIDE DEF Good
<1>5. n \in Good
  BY <1>1, <1>3, <1>4, SetInduction
<1> QED
  BY <1>5 DEF Good, way

(* Names that begin alike lead the same way so far.                        *)
LEMMA SameWay ==
  ASSUME NEW p \in AllParts, NEW c \in AllParts, Len(p) # 0, Len(p) <= Len(c),
         \A i \in 1..Len(p) : c[i] = p[i]
  PROVE  Walk(p) = Way(c)[Len(p)]
<1> DEFINE a == Way(p)
           b == Way(c)
           Good == {k \in Nat : k <= Len(p) => a[k] = b[k]}
<1>1. Len(p) \in Nat /\ Len(c) \in Nat
  BY LenProperties DEF AllParts
<1>2. \A k \in 0..Len(p) : a[k] = IF k = 0 THEN Start(p) ELSE Step(a[k - 1], p[k])
  BY WayUnfolds
<1>3. \A k \in 0..Len(c) : b[k] = IF k = 0 THEN Start(c) ELSE Step(b[k - 1], c[k])
  BY WayUnfolds
<1>4. Walk(p) = a[Len(p)]
  BY WayUnfolds
<1> HIDE DEF a, b
<1>5. 0 \in Good
  <2>1. c[1] = p[1]
    BY <1>1
  <2>2. Start(c) = Start(p)
    BY <2>1 DEF Start
  <2> QED
    BY <1>1, <1>2, <1>3, <2>2
<1>6. ASSUME NEW k \in Nat, k \in Good PROVE k + 1 \in Good
  <2> SUFFICES ASSUME k + 1 <= Len(p) PROVE a[k + 1] = b[k + 1]
    OBVIOUS
  <2>1. /\ k + 1 \in 1..Len(p) /\ k + 1 # 0 /\ (k + 1) - 1 = k /\ k <= Len(p)
        /\ k + 1 \in 0..Len(p) /\ k + 1 \in 0..Len(c)
    BY <1>1
  <2>2. a[k] = b[k] /\ c[k + 1] = p[k + 1]
    BY <1>6, <2>1
  <2>3. a[k + 1] = Step(a[k], p[k + 1])
    BY <1>2, <2>1
  <2>4. b[k + 1] = Step(b[k], c[k + 1])
    BY <1>3, <2>1
  <2> QED
    BY <2>2, <2>3, <2>4
<1> HIDE DEF Good
<1>7. Len(p) \in Good
  BY <1>1, <1>5, <1>6, SetInduction
<1>8. Len(p) <= Len(p)
  BY <1>1
<1> QED
  BY <1>4, <1>7, <1>8 DEF Good, b

(* Further names that are not ".." lead on from where one was.             *)
LEMMA LeadsOn ==
  ASSUME NEW c \in AllParts, NEW m \in Nat, m <= Len(c),
         \A i \in (m + 1)..Len(c) : c[i] # DotDot
  PROVE  SE!IsPrefix(Way(c)[m], Walk(c))
<1> DEFINE way == Way(c)
           from == way[m]
           Leads(w) == Len(from) <= Len(w) /\ \A i \in 1..Len(from) : w[i] = from[i]
           Good == {d \in Nat : m + d <= Len(c) => Leads(way[m + d])}
<1>1. Len(c) \in Nat
  BY LenProperties DEF AllParts
<1>2. \A k \in 0..Len(c) : way[k] \in AllParts
  BY WayType
<1>3. \A k \in 0..Len(c) : k # 0 => way[k] = Step(way[k - 1], c[k])
  BY WayUnfolds
<1>4. Walk(c) = way[Len(c)]
  BY WayUnfolds
<1> HIDE DEF way
<1>5. from \in AllParts /\ Len(from) \in Nat
  <2>1. m \in 0..Len(c)
    BY <1>1
  <2>2. from \in AllParts
    BY <1>2, <2>1
  <2> QED
    BY <2>2, LenProperties DEF AllParts
<1>6. 0 \in Good
  <2>1. way[m + 0] = from
    OBVIOUS
  <2> HIDE DEF from
  <2> QED
    BY <1>5, <2>1
<1>7. ASSUME NEW d \in Nat, d \in Good PROVE d + 1 \in Good
  <2> SUFFICES ASSUME m + (d + 1) <= Len(c) PROVE Leads(way[m + (d + 1)])
    OBVIOUS
  <2> DEFINE k == m + (d + 1)
             w == way[m + d]
  <2>1. /\ k \in 0..Len(c) /\ k # 0 /\ k - 1 = m + d /\ m + d <= Len(c)
        /\ m + d \in 0..Len(c) /\ k \in (m + 1)..Len(c) /\ k \in 1..Len(c)
    BY <1>1
  <2>2. Leads(w)
    BY <1>7, <2>1
  <2>3. way[k] = Step(w, c[k])
    BY <1>3, <2>1
  <2>4. w \in AllParts
    BY <1>2, <2>1
  <2>5. c[k] \in AnyText
    BY <2>1, ElementOfSeq DEF AllParts
  <2>6. c[k] # DotDot
    BY <2>1
  <2> HIDE DEF k, w, from
  <2>7. way[k] = w \/ way[k] = Append(w, c[k])
    BY <2>3, <2>4, <2>5, <2>6, StepMeans
  <2>8. /\ Len(Append(w, c[k])) = Len(w) + 1 /\ Len(w) \in Nat
        /\ \A i \in 1..Len(w) : Append(w, c[k])[i] = w[i]
    BY <2>4, <2>5, AppendProperties, LenProperties DEF AllParts
  <2>9. Leads(Append(w, c[k]))
    BY <1>5, <2>2, <2>8
  <2>10. Leads(way[k])
    BY <2>2, <2>7, <2>9
  <2> QED
    BY <2>10 DEF k
<1>8. Leads(Walk(c))
  <2>1. Len(c) - m \in Nat /\ m + (Len(c) - m) = Len(c) /\ Len(c) <= Len(c)
    BY <1>1
  <2>2. Len(c) - m \in Good
    <3> HIDE DEF Good
    <3> QED
      BY <1>6, <1>7, <2>1, SetInduction
  <2> HIDE DEF Leads
  <2> QED
    BY <1>4, <2>1, <2>2
<1>9. Walk(c) \in AllParts
  <2>1. Len(c) \in 0..Len(c)
    BY <1>1
  <2> QED
    BY <1>2, <1>4, <2>1
<1>10. SE!IsPrefix(from, Walk(c)) <=> Leads(Walk(c))
  <2> HIDE DEF from
  <2> QED
    BY <1>5, <1>9, PrefixMeans DEF AllParts
<1> QED
  BY <1>8, <1>10 DEF way

(* The components c of a path that goes on behind one with the components  *)
(* p: those, and all but the first one of what it goes on with.            *)
Behind(c, p, names) ==
  /\ Len(names) >= 2 /\ Len(c) = Len(p) + Len(names) - 1
  /\ \A i \in 1..Len(p) : c[i] = p[i]
  /\ \A k \in 2..Len(names) : c[Len(p) + k - 1] = names[k]

LEMMA StaysBehind ==
  ASSUME NEW c \in AllParts, NEW p \in AllParts, NEW names \in AllParts, Len(p) # 0,
         Behind(c, p, names), NEW piece \in STRING
  PROVE  Behind(Extend(c, piece), p, Extend(names, piece))
<1> DEFINE lc == Len(c)
           lp == Len(p)
           ln == Len(names)
           ec == Extend(c, piece)
           en == Extend(names, piece)
<1>1. /\ lc \in Nat /\ lp \in Nat /\ ln \in Nat /\ ln >= 2 /\ lp # 0 /\ lc = lp + ln - 1
      /\ \A i \in 1..lp : c[i] = p[i]
      /\ \A k \in 2..ln : c[lp + k - 1] = names[k]
  BY LenProperties DEF Behind, AllParts
<1>2. lc # 0 /\ ln # 0 /\ lp < lc
  BY <1>1
<1>3. /\ Len(ec) = IF piece = "/" THEN lc + 1 ELSE lc
      /\ \A i \in 1..lc : (piece = "/" \/ i # lc) => ec[i] = c[i]
      /\ piece # "/" => ec[lc] = Append(c[lc], piece)
  BY <1>2, ExtendMeans
<1>4. /\ Len(en) = IF piece = "/" THEN ln + 1 ELSE ln
      /\ \A i \in 1..ln : (piece = "/" \/ i # ln) => en[i] = names[i]
      /\ piece # "/" => en[ln] = Append(names[ln], piece)
  BY <1>2, ExtendMeans
<1>5. piece = "/" => ec[lc + 1] = << >> /\ en[ln + 1] = << >>
  <2>1. << >> \in AnyText
    BY EmptySeq DEF AnyText
  <2>2. Append(c, << >>)[lc + 1] = << >> /\ Append(names, << >>)[ln + 1] = << >>
    BY <2>1, AppendProperties DEF AllParts
  <2> QED
    BY <2>2 DEF Extend
<1> HIDE DEF lc, lp, ln, ec, en
<1>6. ASSUME NEW i \in 1..lp PROVE ec[i] = p[i]
  <2>1. i \in 1..lc /\ i # lc
    BY <1>1, <1>2
  <2> QED
    BY <1>1, <1>3, <2>1
<1>7. CASE piece = "/"
  <2>1. Len(ec) = lc + 1 /\ Len(en) = ln + 1
    BY <1>3, <1>4, <1>7
  <2>2. Len(en) >= 2 /\ Len(ec) = lp + Len(en) - 1
    BY <1>1, <2>1
  <2>3. ASSUME NEW k \in 2..Len(en) PROVE ec[lp + k - 1] = en[k]
    <3>1. CASE k = ln + 1
      <4>1. lp + k - 1 = lc + 1
        BY <1>1, <3>1
      <4> QED
        BY <1>5, <1>7, <3>1, <4>1
    <3>2. CASE k # ln + 1
      <4>1. k \in 2..ln /\ k \in 1..ln /\ lp + k - 1 \in 1..lc
        BY <1>1, <2>1, <3>2
      <4>2. ec[lp + k - 1] = c[lp + k - 1] /\ en[k] = names[k]
        BY <1>3, <1>4, <1>7, <4>1
      <4> QED
        BY <1>1, <4>1, <4>2
    <3> QED
      BY <3>1, <3>2
  <2> QED
    BY <1>6, <2>2, <2>3 DEF Behind, lp, ec, en
<1>8. CASE piece # "/"
  <2>1. Len(ec) = lc /\ Len(en) = ln
    BY <1>3, <1>4, <1>8
  <2>2. Len(en) >= 2 /\ Len(ec) = lp + Len(en) - 1
    BY <1>1, <2>1
  <2>3. ASSUME NEW k \in 2..Len(en) PROVE ec[lp + k - 1] = en[k]
    <3>0. k \in 2..ln
      BY <2>1
    <3>1. CASE k = ln
      <4>1. lp + k - 1 = lc
        BY <1>1, <3>1
      <4>2. c[lc] = names[ln]
        BY <1>1, <3>0, <3>1, <4>1
      <4> QED
        BY <1>3, <1>4, <1>8, <3>1, <4>1, <4>2
    <3>2. CASE k # ln
      <4>1. k \in 1..ln /\ lp + k - 1 \in 1..lc /\ lp + k - 1 # lc
        BY <1>1, <3>0, <3>2
      <4>2. ec[lp + k - 1] = c[lp + k - 1] /\ en[k] = names[k]
        BY <1>3, <1>4, <1>8, <3>2, <4>1
      <4> QED
        BY <1>1, <3>0, <4>2
    <3> QED
      BY <3>1, <3>2
  <2> QED
    BY <1>6, <2>2, <2>3 DEF Behind, lp, ec, en
<1> QED
  BY <1>7, <1>8 DEF ec, en

LEMMA StartsBehind ==
  ASSUME NEW p \in AllParts, Len(p) # 0, NEW f, f = Extend(<< << >> >>, "/")
  PROVE  Behind(Extend(p, "/"), p, f)
<1>1. << >> \in AnyText /\ Len(p) \in Nat
  BY EmptySeq, LenProperties DEF AnyText, AllParts
<1> DEFINE empty == << >>
<1>2. empty \in AnyText
  BY <1>1
<1> HIDE DEF empty
<1>3. <<empty>> \in Seq({empty}) /\ Len(<<empty>>) = 1 /\ <<empty>>[1] = empty
  OBVIOUS
<1>4. <<empty>> \in AllParts
  BY <1>2, <1>3, SeqMonotonic DEF AllParts
<1>5. f = Append(<<empty>>, empty) /\ Extend(p, "/") = Append(p, empty)
  BY DEF Extend, empty
<1>6. /\ Len(Append(<<empty>>, empty)) = 2 /\ Append(<<empty>>, empty)[2] = empty
  BY <1>2, <1>3, <1>4, AppendProperties DEF AllParts
<1>7. /\ Len(Append(p, empty)) = Len(p) + 1 /\ Append(p, empty)[Len(p) + 1] = empty
      /\ \A i \in 1..Len(p) : Append(p, empty)[i] = p[i]
  BY <1>2, AppendProperties DEF AllParts
<1>8. \A k \in 2..2 : k = 2 /\ Len(p) + k - 1 = Len(p) + 1
  BY <1>1
<1>9. Len(p) + 1 = Len(p) + 2 - 1
  BY <1>1
<1> DEFINE c == Append(p, empty)
           names == Append(<<empty>>, empty)
<1>10. /\ Len(names) = 2 /\ names[2] = empty /\ Len(c) = Len(p) + 1 /\ c[Len(p) + 1] = empty
       /\ \A i \in 1..Len(p) : c[i] = p[i]
  BY <1>6, <1>7
<1>11. f = names /\ Extend(p, "/") = c
  BY <1>5
<1> HIDE DEF c, names
<1>12. /\ Len(names) >= 2 /\ Len(c) = Len(p) + Len(names) - 1
       /\ \A k \in 2..Len(names) : c[Len(p) + k - 1] = names[k]
  BY <1>1, <1>8, <1>9, <1>10
<1> QED
  BY <1>10, <1>11, <1>12 DEF Behind

(* So it is with a path and what starts with a slash.                      *)
LEMMA PartsBehind ==
  ASSUME NEW path \in AnyText, NEW rest \in AnyText, Len(rest) # 0, rest[1] = "/"
  PROVE  Behind(Components(path \o rest), Components(path), Components(rest))
<1> DEFINE all == path \o rest
           size == Len(path)
           p == Components(path)
           whole == PartsOf(all)
           tail == PartsOf(rest)
           base == << << >> >>
           Good == {m \in Nat : m + 1 <= Len(rest) => Behind(whole[size + (m + 1)], p, tail[m + 1])}
<1>1. /\ all \in AnyText /\ Len(all) = size + Len(rest) /\ size \in Nat /\ Len(rest) \in Nat
      /\ \A i \in 1..(size + Len(rest)) : all[i] = IF i <= size THEN path[i] ELSE rest[i - size]
  BY ConcatProperties, TextLength DEF AnyText
<1> HIDE DEF all
<1>2. p = whole[size]
  <2>1. \A i \in 1..size : path[i] = all[i]
    BY <1>1
  <2>2. size <= Len(path) /\ size <= Len(all)
    BY <1>1
  <2>3. PartsOf(path)[size] = whole[size]
    BY <1>1, <2>1, <2>2, SameParts
  <2> QED
    BY <2>3, PartsUnfold
<1>3. /\ \A k \in 0..Len(all) : whole[k] \in AllParts /\ Len(whole[k]) # 0
      /\ \A k \in 0..Len(rest) : tail[k] \in AllParts
  BY <1>1, PartsType
<1>4. /\ \A k \in 0..Len(all) : k # 0 => whole[k] = Extend(whole[k - 1], all[k])
      /\ \A k \in 0..Len(rest) : tail[k] = IF k = 0 THEN base ELSE Extend(tail[k - 1], rest[k])
  BY <1>1, PartsUnfold DEF Unfolds
<1>5. Components(all) = whole[Len(all)] /\ Components(rest) = tail[Len(rest)]
  BY <1>1, PartsUnfold
<1>6. p \in AllParts /\ Len(p) # 0
  BY <1>1, <1>2, <1>3
<1> HIDE DEF p, whole, tail, size, base
<1>7. 0 \in Good
  <2>1. /\ size + 1 \in 0..Len(all) /\ size + 1 # 0 /\ (size + 1) - 1 = size /\ size + 1 \in 1..(size + Len(rest))
        /\ ~(size + 1 <= size) /\ (size + 1) - size = 1 /\ 1 \in 0..Len(rest) /\ 0 \in 0..Len(rest) /\ 0 + 1 = 1
    BY <1>1
  <2>2. all[size + 1] = "/"
    BY <1>1, <2>1
  <2>3. whole[size + 1] = Extend(p, "/")
    BY <1>2, <1>4, <2>1, <2>2
  <2>4. tail[1] = Extend(tail[0], "/") /\ tail[0] = base
    <3>1. tail[0] = base
      BY <1>4, <2>1
    <3>2. 1 \in 0..Len(rest) /\ 1 # 0 /\ 1 - 1 = 0
      BY <2>1
    <3>3. tail[1] = Extend(tail[1 - 1], rest[1])
      BY <1>4, <3>2
    <3> QED
      BY <3>1, <3>2, <3>3
  <2>5. Behind(whole[size + 1], p, tail[1])
    BY <1>6, <2>3, <2>4, StartsBehind DEF base
  <2> QED
    BY <2>1, <2>5
<1>8. ASSUME NEW m \in Nat, m \in Good PROVE m + 1 \in Good
  <2> SUFFICES ASSUME (m + 1) + 1 <= Len(rest)
               PROVE  Behind(whole[size + ((m + 1) + 1)], p, tail[(m + 1) + 1])
    OBVIOUS
  <2> DEFINE n == m + 1
             at == size + n
  <2>1. /\ n <= Len(rest) /\ n \in 0..Len(rest) /\ n + 1 \in 0..Len(rest) /\ n + 1 # 0 /\ (n + 1) - 1 = n
        /\ at \in 0..Len(all) /\ at + 1 \in 0..Len(all) /\ at + 1 # 0 /\ (at + 1) - 1 = at
        /\ at + 1 \in 1..(size + Len(rest)) /\ ~(at + 1 <= size) /\ (at + 1) - size = n + 1
        /\ size + (n + 1) = at + 1 /\ n + 1 \in 1..Len(rest)
    BY <1>1
  <2>2. Behind(whole[at], p, tail[n])
    BY <1>8, <2>1
  <2> HIDE DEF at, n
  <2>3. rest[n + 1] \in STRING
    BY <2>1, ElementOfSeq DEF AnyText
  <2>4. all[at + 1] = rest[n + 1]
    BY <1>1, <2>1
  <2>5. whole[at + 1] = Extend(whole[at], rest[n + 1]) /\ tail[n + 1] = Extend(tail[n], rest[n + 1])
    BY <1>4, <2>1, <2>4
  <2>6. whole[at] \in AllParts /\ tail[n] \in AllParts
    BY <1>3, <2>1
  <2>7. Behind(Extend(whole[at], rest[n + 1]), p, Extend(tail[n], rest[n + 1]))
    BY <1>6, <2>2, <2>3, <2>6, StaysBehind
  <2>8. Behind(whole[size + (n + 1)], p, tail[n + 1])
    BY <2>1, <2>5, <2>7
  <2> QED
    BY <2>8 DEF n
<1>9. Behind(whole[Len(all)], p, tail[Len(rest)])
  <2>1. Len(rest) - 1 \in Nat /\ (Len(rest) - 1) + 1 = Len(rest) /\ Len(rest) <= Len(rest)
    BY <1>1
  <2>2. Len(rest) - 1 \in Good
    <3> HIDE DEF Good
    <3> QED
      BY <1>7, <1>8, <2>1, SetInduction
  <2> QED
    BY <1>1, <2>1, <2>2
<1> QED
  BY <1>5, <1>9 DEF all, p

(* A path leads to no place outside another that it goes on from, unless   *)
(* one of its further names is "..".                                       *)
LEMMA StaysInside ==
  ASSUME NEW path \in AnyText, NEW rest \in AnyText, rest # << >> => rest[1] = "/",
         \A i \in DOMAIN Components(rest) : Components(rest)[i] # DotDot
  PROVE  SE!IsPrefix(Resolve(path), Resolve(path \o rest))
<1> DEFINE p == Components(path)
           c == Components(path \o rest)
           names == Components(rest)
<1>0. path \o rest \in AnyText
  BY ConcatProperties DEF AnyText
<1>1. /\ p \in AllParts /\ Len(p) \in Nat \ {0} /\ c \in AllParts /\ Len(c) \in Nat
      /\ names \in AllParts /\ Len(names) \in Nat /\ DOMAIN names = 1..Len(names)
  <2>1. \A text \in AnyText : Components(text) \in AllParts /\ Len(Components(text)) \in Nat \ {0}
    <3> TAKE text \in AnyText
    <3>1. Len(text) \in 0..Len(text)
      BY TextLength
    <3> QED
      BY <3>1, PartsType, PartsUnfold
  <2>2. names \in AllParts
    BY <2>1
  <2>3. DOMAIN names = 1..Len(names)
    BY <2>2, LenProperties DEF AllParts
  <2> QED
    BY <1>0, <2>1, <2>3
<1>2. Resolve(path) = Walk(p) /\ Resolve(path \o rest) = Walk(c)
  BY DEF Resolve
<1>3. \A i \in 1..Len(names) : names[i] # DotDot
  BY <1>1
<1>4. /\ Len(p) <= Len(c) /\ \A i \in 1..Len(p) : c[i] = p[i]
      /\ \A i \in (Len(p) + 1)..Len(c) : c[i] # DotDot
  <2>1. CASE rest = << >>
    <3>1. Len(rest) = 0
      BY <2>1
    <3>2. /\ Len(path \o rest) = Len(path) /\ Len(path) \in Nat
          /\ \A i \in 1..Len(path) : (path \o rest)[i] = path[i]
      BY <3>1, ConcatProperties, TextLength DEF AnyText
    <3>3. path \o rest = path
      BY <1>0, <3>2, SeqEqual DEF AnyText
    <3>4. c = p
      BY <3>3
    <3> HIDE DEF c, p
    <3> QED
      BY <1>1, <3>4
  <2>2. CASE rest # << >>
    <3>1. Len(rest) # 0 /\ rest[1] = "/"
      BY <2>2, EmptySeq DEF AnyText
    <3>2. Behind(c, p, names)
      BY <3>1, PartsBehind
    <3> HIDE DEF c, p, names
    <3>3. /\ Len(names) >= 2 /\ Len(c) = Len(p) + Len(names) - 1
          /\ \A i \in 1..Len(p) : c[i] = p[i]
          /\ \A k \in 2..Len(names) : c[Len(p) + k - 1] = names[k]
      BY <3>2 DEF Behind
    <3>4. Len(p) <= Len(c)
      BY <1>1, <3>3
    <3>5. ASSUME NEW i \in (Len(p) + 1)..Len(c) PROVE c[i] # DotDot
      <4> DEFINE k == i - Len(p) + 1
      <4>1. k \in 2..Len(names) /\ k \in 1..Len(names) /\ Len(p) + k - 1 = i
        BY <1>1, <3>3
      <4> HIDE DEF k
      <4> QED
        BY <1>3, <3>3, <4>1
    <3> QED
      BY <3>3, <3>4, <3>5
  <2> QED
    BY <2>1, <2>2
<1> HIDE DEF p, c, names
<1>5. Walk(p) = Way(c)[Len(p)]
  BY <1>1, <1>4, SameWay
<1>6. SE!IsPrefix(Way(c)[Len(p)], Walk(c))
  BY <1>1, <1>4, LeadsOn
<1> QED
  BY <1>2, <1>5, <1>6

-----------------------------------------------------------------------------
(* The root of a location.                                                 *)
LEMMA BlockOfLocation ==
  ASSUME NEW tree \in Configs, NEW path \in DOMAIN populateHandlerMap(tree),
         populateHandlerMap(tree)[path].block # NoBlock
  PROVE  populateHandlerMap(tree)[path].block \in 1..Len(tree)
<1> DEFINE Stmt == [tokens : Seq(Seq(STRING) \ {<< >>}), child : 0..Len(tree)]
           isLocation(s) == Len(s.tokens) = 3 /\ s.tokens[1] = <<"location">>
           at == {i \in DOMAIN tree[1] : /\ isLocation(tree[1][i])
                                         /\ removeSlash(tree[1][i].tokens[2]) = path}
           last == CHOOSE i \in at : \A j \in at : j <= i
<1>1. tree \in Seq(Seq(Stmt)) /\ tree # << >>
  BY DispatchAssumption
<1>2. 1 \in DOMAIN tree /\ tree[1] \in Seq(Stmt) /\ Len(tree) \in Nat
  <2> HIDE DEF Stmt
  <2> QED
    BY <1>1, LenProperties, EmptySeq, ElementOfSeq
<1>3. at \in SUBSET Int /\ at # {} /\ Len(tree[1]) \in Int /\ \A i \in at : i <= Len(tree[1])
  <2>1. DOMAIN tree[1] = 1..Len(tree[1]) /\ Len(tree[1]) \in Nat
    <3> HIDE DEF Stmt
    <3> QED
      BY <1>2, LenProperties
  <2>2. at # {}
    BY DEF populateHandlerMap
  <2> QED
    BY <2>1, <2>2
<1>4. PICK x \in at : \A y \in at : y <= x
  <2> HIDE DEF at
  <2> QED
    BY <1>3, GreatestInteger
<1>5. last \in at
  <2> HIDE DEF at
  <2> QED
    BY <1>4
<1>6. populateHandlerMap(tree)[path].block = tree[1][last].child
  BY DEF populateHandlerMap
<1> HIDE DEF last
<1>7. tree[1][last] \in Stmt
  <2>1. last \in DOMAIN tree[1]
    BY <1>5
  <2> HIDE DEF Stmt
  <2> QED
    BY <1>2, <2>1, LenProperties, ElementOfSeq
<1>8. tree[1][last].child \in 0..Len(tree)
  BY <1>7
<1> QED
  BY <1>2, <1>6, <1>8 DEF NoBlock

LEMMA RootIsText ==
  ASSUME NEW tree \in Configs, NEW b \in 1..Len(tree),
         1 <= Len(tree[b]), Len(tree[b][1].tokens) = 2
  PROVE  tree[b][1].tokens[2] \in AnyText
<1> DEFINE Token == Seq(STRING) \ {<< >>}
           Stmt == [tokens : Seq(Token), child : 0..Len(tree)]
<1>1. tree \in Seq(Seq(Stmt))
  BY DispatchAssumption
<1>2. tree[b] \in Seq(Stmt)
  <2> HIDE DEF Stmt
  <2> QED
    BY <1>1, LenProperties, ElementOfSeq
<1>3. tree[b][1] \in Stmt
  <2> HIDE DEF Stmt
  <2>1. 1 \in 1..Len(tree[b])
    BY <1>2, LenProperties
  <2> QED
    BY <1>2, <2>1, LenProperties, ElementOfSeq
<1>4. tree[b][1].tokens \in Seq(Token)
  BY <1>3
<1>5. tree[b][1].tokens[2] \in Token
  <2> HIDE DEF Token
  <2> QED
    BY <1>4, ElementOfSeq
<1> QED
  BY <1>5 DEF AnyText

(* What a file handed out at a location has to do with its target.         *)
Serves(root, at, target, file) ==
  \E n \in 0..Len(target) :
    LET rest == SubSeq(target, n + 1, Len(target))
        names == Components(rest)
    IN  /\ at \o rest = target /\ Resolve(root \o rest) = file
        /\ rest # << >> => rest[1] = "/"
        /\ (\A i \in DOMAIN names : names[i] # DotDot) => SE!IsPrefix(Resolve(root), file)

LEMMA ServesRoot ==
  ASSUME NEW root \in AnyText, NEW at \in AnyText, NEW target \in AnyText, Matches(target, at)
  PROVE  Serves(root, at, target, Resolve(root \o SubSeq(target, Len(at) + 1, Len(target))))
<1> DEFINE rest == SubSeq(target, Len(at) + 1, Len(target))
           names == Components(rest)
<1>1. Len(at) \in 0..Len(target) /\ at \o rest = target /\ (rest # << >> => rest[1] = "/")
  BY SplitAtLocation
<1>2. rest \in AnyText
  <2>1. Len(at) + 1 \in Nat \ {0} /\ Len(target) \in Nat /\ Len(target) <= Len(target)
    BY TextLength
  <2> QED
    BY <2>1, PartOfText
<1>3. (\A i \in DOMAIN names : names[i] # DotDot) => SE!IsPrefix(Resolve(root), Resolve(root \o rest))
  <2> HIDE DEF rest
  <2> QED
    BY <1>1, <1>2, StaysInside
<1> QED
  BY <1>1, <1>3 DEF Serves

(* StaticServesItsRoot: a static location hands out the file its root and  *)
(* the rest of the target lead to; it lies below the root unless a name    *)
(* ".." is in that rest.                                                   *)
THEOREM DispatchStaticServesItsRoot ==
  Spec => []StaticServesItsRoot
<1> DEFINE Below == reply.file # << >> /\ location # <<"/">> /\ Len(data) < Capacity =>
                      Serves(config[handler_map[location].block][1].tokens[2], location,
                             SubSeq(data, 3, Find(data, " ", 3) - 1), reply.file)
<1>1. StaticServesItsRoot <=> Below
  BY Zenon DEF StaticServesItsRoot, HasRoom, Target, Serves
<1>2. Init => Below
  BY NoReplyIsEmpty DEF Init
<1>3. DispatchInv /\ Below /\ [Next]_vars => Below'
  <2> SUFFICES ASSUME DispatchInv, Below, [Next]_vars PROVE Below'
    OBVIOUS
  <2>1. CASE reply' = NoReply
    BY <2>1, NoReplyIsEmpty
  <2>2. CASE UNCHANGED vars
    BY <2>2 DEF vars, handler_map
  <2>3. ASSUME NEW arrived \in Arrivals, HandleRead(arrived)
        PROVE  Below'
    <3>1. data' = arrived /\ reply = NoReply /\ config' = config
      BY <2>3, ReadSteps
    <3>2. CASE GoesDown(arrived)
      <4>1. reply' = NoReply
        BY <3>1, <3>2 DEF GoesDown
      <4> QED
        BY <2>1, <4>1
    <3>3. CASE RefusesRead
      BY <3>3, NoReplyIsEmpty DEF RefusesRead
    <3>4. ASSUME NEW text \in Texts(arrived), Answers(text)
          PROVE  Below'
      <4> SUFFICES ASSUME reply'.file # << >>, location' # <<"/">>, Len(arrived) < Capacity
                   PROVE  Serves(config[handler_map[location'].block][1].tokens[2], location',
                                 SubSeq(arrived, 3, Find(arrived, " ", 3) - 1), reply'.file)
        BY <3>1 DEF handler_map
      <4> DEFINE target == getFields(text).target
                 path == Location(target)
                 b == handler_map[path].block
                 root == config[b][1].tokens[2]
      <4>1. /\ ~Refuses(text) /\ getFields(text).method # NoMethod
            /\ location' = path /\ path \in DOMAIN routes
            /\ reply'.file = Resolve(FilePath(b, path, target))
            /\ BlockFits("StaticHandler", b) /\ b # NoBlock
        <5>1. /\ ~Refuses(text) /\ location' = path /\ path \in DOMAIN routes
              /\ reply' = Answer(routes[path], getFields(text), path, b)
              /\ routes[path] \in NeedsBlock => b # NoBlock
          BY <3>4 DEF Answers
        <5>2. "StaticHandler" \in NeedsBlock
          BY DEF NeedsBlock
        <5> HIDE DEF path, b, Below
        <5>3. /\ getFields(text).method # NoMethod /\ routes[path] = "StaticHandler"
              /\ reply'.file = Resolve(FilePath(b, path, target)) /\ BlockFits("StaticHandler", b)
          BY <5>1, AnswerMeans
        <5> QED
          BY <5>1, <5>2, <5>3
      <4>2. target = SubSeq(arrived, 3, Find(arrived, " ", 3) - 1)
        BY <4>1, ReadInRoom
      <4>3. target \in AnyText
        BY TextOfRead, TargetIsText
      <4>4. path \in Matching(target)
        BY <4>1, <4>3, LocationMatches
      <4>5. path \in AnyText /\ Matches(target, path)
        BY <4>4, RoutesAreTexts DEF Matching
      <4>6. root \in AnyText
        <5>1. config \in Configs /\ handler_map = populateHandlerMap(config)
          BY DEF DispatchInv, TypeOK, handler_map
        <5>2. path \in DOMAIN handler_map
          BY <3>1, <4>1, <2>3, ReadSteps DEF DispatchInv, RoutesOfConfig, RoutesOf, handler_map
        <5> HIDE DEF path
        <5>3. b \in 1..Len(config)
          BY <4>1, <5>1, <5>2, BlockOfLocation
        <5>4. 1 <= Len(config[b]) /\ Len(config[b][1].tokens) = 2
          BY <4>1 DEF BlockFits, Setting
        <5> HIDE DEF b
        <5> QED
          BY <5>1, <5>3, <5>4, RootIsText
      <4>7. FilePath(b, path, target) = root \o SubSeq(target, Len(path) + 1, Len(target))
        BY DEF FilePath, Root
      <4> HIDE DEF path, target, root
      <4>8. Serves(root, path, target, reply'.file)
        BY <4>1, <4>3, <4>5, <4>6, <4>7, ServesRoot
      <4> QED
        BY <4>1, <4>2, <4>8 DEF root
    <3> QED
      BY <2>3, <3>2, <3>3, <3>4, HandleReadCases
  <2> QED
    BY <2>1, <2>2, <2>3, QuietSteps
<1> QED
  BY <1>1, <1>2, <1>3, InvHolds, PTL DEF Spec

-----------------------------------------------------------------------------
(* The echo of a request.  First, the fields cut out of its lines.         *)
FieldRecord == [name : AnyText, value : AnyText]

(* A field whose name is new is the last, and the others stay.             *)
LEMMA SetFieldAppends ==
  ASSUME NEW fields \in Seq(FieldRecord), NEW field \in FieldRecord,
         \A i \in DOMAIN fields : ~SameName(fields[i].name, field.name)
  PROVE  SetField(fields, field) = Append(fields, [field EXCEPT !.value = Trim(@)])
<1> DEFINE n == Len(fields)
           Body(f, i) == IF i = 0 THEN << >>
                         ELSE IF SameName(fields[i].name, field.name) THEN f[i - 1]
                         ELSE Append(f[i - 1], fields[i])
           others == CHOOSE f : f = [i \in 0..n |-> Body(f, i)]
           g == [i \in 0..n |-> SubSeq(fields, 1, i)]
<1>1. n \in Nat /\ DOMAIN fields = 1..n
  BY LenProperties
<1>2. ASSUME NEW i \in 0..n PROVE g[i] = Body(g, i)
  <2>1. CASE i = 0
    BY <2>1, SubSeqEmpty
  <2>2. CASE i # 0
    <3>1. i \in 1..n /\ i - 1 \in 0..n
      BY <1>1, <2>2
    <3>2. ~SameName(fields[i].name, field.name)
      BY <1>1, <3>1
    <3>3. SubSeq(fields, 1, i) = Append(SubSeq(fields, 1, i - 1), fields[i])
      BY <1>1, <3>1, SubSeqRecursiveSecond
    <3> QED
      BY <2>2, <3>1, <3>2, <3>3
  <2> QED
    BY <2>1, <2>2
<1>3. g = [i \in 0..n |-> Body(g, i)]
  <2>1. g = [i \in 0..n |-> g[i]]
    OBVIOUS
  <2> HIDE DEF g, Body
  <2> QED
    BY <1>2, <2>1
<1>4. others = [i \in 0..n |-> Body(others, i)]
  <2> HIDE DEF g, Body
  <2> QED
    BY <1>3
<1>5. SetField(fields, field) = Append(others[n], [field EXCEPT !.value = Trim(@)])
  BY DEF SetField
<1> HIDE DEF others
<1>6. \A i \in 0..n : others[i] = Body(others, i)
  BY <1>4
<1> DEFINE S == {i \in Nat : i <= n => others[i] = g[i]}
<1>7. 0 \in S
  <2>1. 0 \in 0..n
    BY <1>1
  <2>2. others[0] = << >>
    BY <1>6, <2>1
  <2>3. g[0] = << >>
    <3> HIDE DEF g
    <3> QED
      BY <1>2, <2>1
  <2> HIDE DEF g
  <2> QED
    BY <2>2, <2>3
<1>8. ASSUME NEW i \in Nat, i \in S PROVE i + 1 \in S
  <2> SUFFICES ASSUME i + 1 <= n PROVE others[i + 1] = g[i + 1]
    OBVIOUS
  <2>1. i + 1 \in 0..n /\ (i + 1) - 1 = i /\ i + 1 # 0 /\ others[i] = g[i]
    BY <1>1, <1>8
  <2> HIDE DEF g
  <2>2. Body(others, i + 1) = Body(g, i + 1)
    BY <2>1
  <2> QED
    BY <1>2, <1>6, <2>1, <2>2
<1>9. n \in S
  <2> HIDE DEF S
  <2> QED
    BY <1>1, <1>7, <1>8, SetInduction
<1>10. others[n] = SubSeq(fields, 1, n)
  BY <1>1, <1>9
<1>11. SubSeq(fields, 1, n) = fields
  BY SubSeqFull
<1> QED
  BY <1>5, <1>10, <1>11

(* A text without blanks at its ends is kept as it is.                     *)
LEMMA TrimKeeps ==
  ASSUME NEW value \in AnyText,
         value # << >> => value[1] \notin Blanks /\ value[Len(value)] \notin Blanks
  PROVE  Trim(value) = value
<1> DEFINE solid == {i \in DOMAIN value : value[i] \notin Blanks}
<1>1. Len(value) \in Nat /\ DOMAIN value = 1..Len(value)
  BY TextLength
<1>2. CASE value = << >>
  <2>1. solid = {}
    BY <1>2
  <2> QED
    BY <1>2, <2>1 DEF Trim
<1>3. CASE value # << >>
  <2>1. Len(value) # 0
    BY <1>3, EmptySeq DEF AnyText
  <2>2. 1 \in solid /\ Len(value) \in solid /\ \A i \in solid : i \in Int /\ 1 <= i /\ i <= Len(value)
    BY <1>1, <1>3, <2>1
  <2> HIDE DEF solid
  <2>3. Min(solid) = 1 /\ Max(solid) = Len(value)
    BY <1>1, <2>2 DEF Min, Max
  <2>4. Trim(value) = SubSeq(value, 1, Len(value))
    BY <2>2, <2>3 DEF Trim, solid
  <2> QED
    BY <2>4, SubSeqFull DEF AnyText
<1> QED
  BY <1>2, <1>3

(* A line with one blank behind its colon is the field it makes: what is   *)
(* printed for the field is the line.                                      *)
LEMMA FieldIs ==
  ASSUME NEW line \in AnyText, HasColon(line)
  PROVE  /\ Find(line, ":", 1) \in 1..Len(line) /\ line[Find(line, ":", 1)] = ":"
         /\ Field(line) \in FieldRecord
         /\ Field(line).name = SubSeq(line, 1, Find(line, ":", 1) - 1)
         /\ Field(line).value = SubSeq(line, Find(line, ":", 1) + 2, Len(line))
<1> DEFINE colon == Find(line, ":", 1)
<1>1. colon \in Nat /\ colon <= Len(line) /\ colon >= 1 /\ line[colon] = ":" /\ Len(line) \in Nat
  BY FindIsFirst, TextLength DEF HasColon
<1>2. Field(line) = [name |-> SubSeq(line, 1, colon - 1), value |-> SubSeq(line, colon + 2, Len(line))]
  BY DEF Field
<1> HIDE DEF colon
<1>3. SubSeq(line, 1, colon - 1) \in AnyText
  <2>1. colon - 1 \in Nat /\ colon - 1 <= Len(line)
    BY <1>1
  <2> QED
    BY <2>1, PartOfText
<1>4. SubSeq(line, colon + 2, Len(line)) \in AnyText
  <2>1. colon + 2 \in Nat \ {0}
    BY <1>1
  <2> QED
    BY <1>1, <2>1, PartOfText
<1>5. colon \in 1..Len(line)
  BY <1>1
<1> QED
  BY <1>1, <1>2, <1>3, <1>4, <1>5 DEF FieldRecord, colon

LEMMA ValueKept ==
  ASSUME NEW line \in AnyText, HasColon(line), OneBlank(line)
  PROVE  /\ Trim(Field(line).value) = Field(line).value
         /\ Find(line, ":", 1) + 1 <= Len(line) /\ line[Find(line, ":", 1) + 1] = " "
<1> DEFINE colon == Find(line, ":", 1)
           value == SubSeq(line, colon + 2, Len(line))
<1>1. colon \in 1..Len(line) /\ Field(line).value = value /\ Len(line) \in Nat
  BY FieldIs, TextLength
<1>2. /\ colon + 2 <= Len(line) + 1 /\ line[(colon + 2) - 1] = " "
      /\ colon + 2 <= Len(line) => line[colon + 2] \notin Blanks /\ line[Len(line)] \notin Blanks
  BY DEF OneBlank
<1> HIDE DEF colon
<1>3. /\ value \in AnyText /\ Len(value) = IF colon + 2 <= Len(line) THEN Len(line) - (colon + 2) + 1 ELSE 0
      /\ \A k \in 1 .. Len(line) - (colon + 2) + 1 : value[k] = line[colon + 2 + k - 1]
  <2>1. colon + 2 \in Nat \ {0}
    BY <1>1
  <2> QED
    BY <1>1, <2>1, PartOfText
<1> HIDE DEF value
<1>4. (colon + 2) - 1 = colon + 1 /\ colon + 1 <= Len(line)
  <2>1. colon \in 1..Len(line) /\ Len(line) \in Nat /\ colon + 2 <= Len(line) + 1
    BY <1>1, <1>2
  <2> QED
    BY <2>1
<1>5. Trim(Field(line).value) = Field(line).value
  <2>1. Trim(value) = value
    <3>1. CASE colon + 2 <= Len(line)
      <4> DEFINE n == Len(line) - (colon + 2) + 1
      <4>1. n \in Nat /\ 1 \in 1..n /\ n \in 1..n /\ Len(value) = n /\ colon + 2 + 1 - 1 = colon + 2
            /\ colon + 2 + n - 1 = Len(line)
        BY <1>1, <1>3, <3>1
      <4>2. value[1] = line[colon + 2 + 1 - 1] /\ value[n] = line[colon + 2 + n - 1]
        BY <1>3, <4>1
      <4> HIDE DEF n
      <4>3. value[1] \notin Blanks /\ value[Len(value)] \notin Blanks
        BY <1>2, <3>1, <4>1, <4>2
      <4> QED
        BY <1>3, <4>3, TrimKeeps
    <3>2. CASE ~(colon + 2 <= Len(line))
      <4>1. Len(value) = 0
        BY <1>3, <3>2
      <4>2. value = << >>
        BY <1>3, <4>1, EmptySeq DEF AnyText
      <4> QED
        BY <1>3, <4>2, TrimKeeps
    <3> QED
      BY <3>1, <3>2
  <2> QED
    BY <1>1, <2>1
<1> QED
  BY <1>2, <1>4, <1>5 DEF colon

LEMMA FieldsAreTheLines ==
  ASSUME NEW lines \in Seq(AnyText),
         \A i \in DOMAIN lines : HasColon(lines[i]) /\ OneBlank(lines[i]),
         \A i, j \in DOMAIN lines : SameName(Field(lines[i]).name, Field(lines[j]).name) => i = j
  PROVE  /\ FieldsOf(lines) \in Seq(FieldRecord) /\ Len(FieldsOf(lines)) = Len(lines)
         /\ \A i \in 1..Len(lines) : FieldsOf(lines)[i] = Field(lines[i])
<1> DEFINE n == Len(lines)
           all == [i \in 1..n |-> Field(lines[i])]
           Body(f, i) == IF i = 0 THEN << >>
                         ELSE IF HasColon(lines[i]) THEN SetField(f[i - 1], Field(lines[i]))
                         ELSE f[i - 1]
           upTo == CHOOSE f : f = [i \in 0..n |-> Body(f, i)]
           g == [i \in 0..n |-> SubSeq(all, 1, i)]
<1>1. n \in Nat /\ DOMAIN lines = 1..n
  BY LenProperties
<1>2. \A i \in 1..n : lines[i] \in AnyText /\ Field(lines[i]) \in FieldRecord
  <2>1. \A i \in 1..n : lines[i] \in AnyText
    BY <1>1, ElementOfSeq
  <2> QED
    BY <1>1, <2>1, FieldIs
<1>3. all \in Seq(FieldRecord) /\ Len(all) = n /\ \A i \in 1..n : all[i] = Field(lines[i])
  <2> DEFINE field(i) == Field(lines[i])
  <2>1. \A i \in 1..n : field(i) \in FieldRecord
    BY <1>2
  <2> HIDE DEF field
  <2>2. [i \in 1..n |-> field(i)] \in Seq(FieldRecord)
    BY <1>1, <2>1, IsASeq
  <2>3. Len([i \in 1..n |-> field(i)]) = n
    BY <1>1, <2>2, LenProperties
  <2> QED
    BY <2>2, <2>3 DEF field
<1> HIDE DEF all
<1>4. ASSUME NEW i \in 0..n PROVE g[i] = Body(g, i)
  <2>1. CASE i = 0
    BY <2>1, SubSeqEmpty
  <2>2. CASE i # 0
    <3>1. i \in 1..n /\ i - 1 \in 0..n /\ lines[i] \in AnyText /\ HasColon(lines[i]) /\ OneBlank(lines[i])
      BY <1>1, <1>2, <2>2
    <3>2. SubSeq(all, 1, i) = Append(SubSeq(all, 1, i - 1), all[i])
      BY <1>1, <1>3, <3>1, SubSeqRecursiveSecond
    <3> DEFINE before == SubSeq(all, 1, i - 1)
               field == Field(lines[i])
    <3>3. before \in Seq(FieldRecord) /\ Len(before) = i - 1 /\ \A k \in 1 .. i - 1 : before[k] = all[k]
      <4>1. \A k \in 1 .. i - 1 : all[k] \in FieldRecord
        BY <1>1, <1>2, <1>3, <3>1
      <4>2. /\ before \in Seq(FieldRecord)
            /\ Len(before) = IF 1 <= i - 1 THEN (i - 1) - 1 + 1 ELSE 0
            /\ \A k \in 1 .. (i - 1) - 1 + 1 : before[k] = all[1 + k - 1]
        BY <3>1, <4>1, SubSeqProperties
      <4> HIDE DEF before
      <4> QED
        BY <3>1, <4>2
    <3> HIDE DEF before
    <3>4. ASSUME NEW k \in DOMAIN before PROVE ~SameName(before[k].name, field.name)
      <4>1. k \in 1 .. i - 1
        BY <3>3, LenProperties
      <4>2. k \in 1..n /\ k # i /\ before[k] = Field(lines[k])
        BY <1>1, <1>3, <3>1, <3>3, <4>1
      <4> QED
        BY <1>1, <3>1, <4>2
    <3>5. field \in FieldRecord /\ Trim(field.value) = field.value
      BY <3>1, FieldIs, ValueKept
    <3> HIDE DEF field
    <3>6. SetField(before, field) = Append(before, [field EXCEPT !.value = Trim(@)])
      BY <3>3, <3>4, <3>5, SetFieldAppends
    <3>7. [field EXCEPT !.value = Trim(@)] = field
      BY <3>5 DEF FieldRecord
    <3>8. all[i] = field
      BY <1>3, <3>1 DEF field
    <3>9. g[i] = SubSeq(all, 1, i) /\ g[i - 1] = before
      BY <3>1 DEF before
    <3> HIDE DEF g
    <3>10. Body(g, i) = SetField(g[i - 1], Field(lines[i]))
      BY <2>2, <3>1
    <3> HIDE DEF Body
    <3>11. SetField(before, field) = Append(before, field)
      BY <3>6, <3>7
    <3>12. Body(g, i) = Append(before, field)
      BY <3>9, <3>10, <3>11 DEF field
    <3>13. SubSeq(all, 1, i) = Append(before, field)
      BY <3>2, <3>8 DEF before
    <3> QED
      BY <3>9, <3>12, <3>13
  <2> QED
    BY <2>1, <2>2
<1>5. g = [i \in 0..n |-> Body(g, i)]
  <2>1. g = [i \in 0..n |-> g[i]]
    OBVIOUS
  <2> HIDE DEF g, Body
  <2> QED
    BY <1>4, <2>1
<1>6. upTo = [i \in 0..n |-> Body(upTo, i)]
  <2> HIDE DEF g, Body
  <2> QED
    BY <1>5
<1>7. FieldsOf(lines) = upTo[n]
  BY DEF FieldsOf
<1> HIDE DEF upTo
<1>8. \A i \in 0..n : upTo[i] = Body(upTo, i)
  BY <1>6
<1> DEFINE S == {i \in Nat : i <= n => upTo[i] = g[i]}
<1>9. 0 \in S
  <2>1. 0 \in 0..n
    BY <1>1
  <2>2. upTo[0] = << >>
    BY <1>8, <2>1
  <2>3. g[0] = << >>
    <3> HIDE DEF g
    <3> QED
      BY <1>4, <2>1
  <2> HIDE DEF g
  <2> QED
    BY <2>2, <2>3
<1>10. ASSUME NEW i \in Nat, i \in S PROVE i + 1 \in S
  <2> SUFFICES ASSUME i + 1 <= n PROVE upTo[i + 1] = g[i + 1]
    OBVIOUS
  <2>1. i + 1 \in 0..n /\ (i + 1) - 1 = i /\ i + 1 # 0 /\ upTo[i] = g[i]
    BY <1>1, <1>10
  <2> HIDE DEF g
  <2>2. Body(upTo, i + 1) = Body(g, i + 1)
    BY <2>1
  <2> HIDE DEF Body
  <2> QED
    BY <1>4, <1>8, <2>1, <2>2
<1>11. n \in S
  <2> HIDE DEF S
  <2> QED
    BY <1>1, <1>9, <1>10, SetInduction
<1>12. upTo[n] = SubSeq(all, 1, n)
  BY <1>1, <1>11
<1>13. SubSeq(all, 1, n) = all
  BY <1>3, SubSeqFull
<1> QED
  BY <1>3, <1>7, <1>12, <1>13

(* The lines of a section and the body stand in the text one behind the    *)
(* other: line i from p[i] on, the empty line at the last place of p.      *)
LineAt(text, line, at) ==
  /\ LineEnds(text, at + Len(line))
  /\ \A k \in 1..Len(line) : text[at + k - 1] = line[k]

InPlace(text, j, section, p) ==
  LET n == Len(section.lines)
  IN  /\ p \in [1..(n + 1) -> Nat \ {0}] /\ p[1] = j
      /\ \A i \in 1..n : LineAt(text, section.lines[i], p[i]) /\ p[i + 1] = p[i] + Len(section.lines[i]) + 2
      /\ LineEnds(text, p[n + 1]) /\ section.body = SubSeq(text, p[n + 1] + 2, Len(text))

LEMMA EmptyLineIs ==
  ASSUME NEW text \in AnyText, NEW j \in Nat \ {0}, Find(text, "\r", j) = j, LineEnds(text, j)
  PROVE  \E p : InPlace(text, j, HeaderSection(text, j), p)
<1> DEFINE end == Find(text, "\r", j)
           p == [i \in 1..1 |-> j]
<1>1. HeaderSection(text, j) = HeaderLine(text, [k \in Nat |-> HeaderSection(text, k)], j)
  BY HeaderSectionUnfolds
<1>2. HeaderSection(text, j) = [lines |-> << >>, body |-> SubSeq(text, j + 2, Len(text))]
  <2>1. end = j /\ LineEnds(text, end)
    OBVIOUS
  <2> QED
    BY <1>1, <2>1 DEF HeaderLine
<1> DEFINE section == HeaderSection(text, j)
<1>3. Len(section.lines) = 0 /\ section.body = SubSeq(text, j + 2, Len(text))
  BY <1>2
<1> HIDE DEF section
<1>4. p \in [1..(0 + 1) -> Nat \ {0}] /\ p[1] = j /\ p[0 + 1] = j
  OBVIOUS
<1> HIDE DEF p
<1>5. InPlace(text, j, section, p)
  BY <1>3, <1>4 DEF InPlace
<1> QED
  BY <1>5 DEF section

(* A line, and what follows it.                                            *)
LEMMA LineAndRest ==
  ASSUME NEW text \in AnyText, NEW j \in Nat \ {0}, NEW end \in Nat, end = Find(text, "\r", j),
         LineEnds(text, end), j < end
  PROVE  LET section == HeaderSection(text, j)
             rest == HeaderSection(text, end + 2)
         IN  /\ section.body = rest.body
             /\ Len(rest.lines) \in Nat /\ Len(section.lines) = Len(rest.lines) + 1
             /\ section.lines[1] = SubSeq(text, j, end - 1)
             /\ \A i \in 1..Len(rest.lines) : section.lines[i + 1] = rest.lines[i]
<1> DEFINE ahead == [i \in Nat |-> HeaderSection(text, i)]
           rest == HeaderSection(text, end + 2)
           line == SubSeq(text, j, end - 1)
<1>1. HeaderSection(text, j) = HeaderLine(text, ahead, j)
  BY HeaderSectionUnfolds
<1>2. ahead[end + 2] = rest
  OBVIOUS
<1> HIDE DEF ahead
<1>3. HeaderLine(text, ahead, j) = [ahead[end + 2] EXCEPT !.lines = <<line>> \o @]
  <2>1. end # j
    OBVIOUS
  <2> QED
    BY <2>1 DEF HeaderLine
<1>4. rest \in [lines : Seq(AnyText), body : AnyText]
  <2>1. end + 2 \in Nat \ {0}
    OBVIOUS
  <2> QED
    BY <2>1, LinesStandInText
<1>5. line \in AnyText
  <2>1. end - 1 \in Nat /\ end - 1 <= Len(text)
    BY TextLength DEF LineEnds
  <2> QED
    BY <2>1, PartOfText
<1> HIDE DEF rest, line
<1>6. <<line>> \in Seq(AnyText) /\ Len(<<line>>) = 1 /\ <<line>>[1] = line
  <2>1. Len(<<line>>) = 1 /\ <<line>>[1] = line
    OBVIOUS
  <2>2. <<line>> \in Seq({line})
    OBVIOUS
  <2> QED
    BY <1>5, <2>1, <2>2, SeqMonotonic
<1> DEFINE lines == <<line>> \o rest.lines
           section == HeaderSection(text, j)
<1>7. section.lines = lines /\ section.body = rest.body
  BY <1>1, <1>2, <1>3, <1>4
<1>8. rest.lines \in Seq(AnyText) /\ Len(rest.lines) \in Nat
  BY <1>4, LenProperties
<1>9. /\ Len(lines) = 1 + Len(rest.lines)
      /\ \A i \in 1 .. 1 + Len(rest.lines) : lines[i] = IF i <= 1 THEN <<line>>[i] ELSE rest.lines[i - 1]
  BY <1>6, <1>8, ConcatProperties
<1> HIDE DEF lines, section
<1>10. lines[1] = line
  <2>1. 1 \in 1 .. 1 + Len(rest.lines)
    BY <1>8
  <2> QED
    BY <1>6, <1>9, <2>1
<1>11. ASSUME NEW i \in 1..Len(rest.lines) PROVE lines[i + 1] = rest.lines[i]
  <2>1. i + 1 \in 1 .. 1 + Len(rest.lines) /\ ~(i + 1 <= 1) /\ (i + 1) - 1 = i
    BY <1>8
  <2> QED
    BY <1>9, <2>1
<1>12. Len(section.lines) = Len(rest.lines) + 1
  BY <1>7, <1>8, <1>9
<1> QED
  BY <1>7, <1>8, <1>10, <1>11, <1>12 DEF rest, line, section

LEMMA LineBefore ==
  ASSUME NEW text \in AnyText, NEW j \in Nat \ {0}, NEW end \in Nat, end = Find(text, "\r", j),
         LineEnds(text, end), j < end,
         NEW q, InPlace(text, end + 2, HeaderSection(text, end + 2), q)
  PROVE  \E p : InPlace(text, j, HeaderSection(text, j), p)
<1> DEFINE section == HeaderSection(text, j)
           rest == HeaderSection(text, end + 2)
           line == SubSeq(text, j, end - 1)
           n == Len(rest.lines)
           p == [i \in 1..((n + 1) + 1) |-> IF i = 1 THEN j ELSE q[i - 1]]
<1>1. /\ section.body = rest.body
      /\ n \in Nat /\ Len(section.lines) = n + 1 /\ section.lines[1] = line
      /\ \A i \in 1..n : section.lines[i + 1] = rest.lines[i]
  BY LineAndRest
<1>2. Len(line) = end - j /\ \A k \in 1 .. end - j : line[k] = text[j + k - 1]
  <2>1. end - 1 \in Nat /\ end - 1 <= Len(text) /\ j <= end - 1 /\ (end - 1) - j + 1 = end - j
    BY TextLength DEF LineEnds
  <2>2. /\ Len(line) = IF j <= end - 1 THEN (end - 1) - j + 1 ELSE 0
        /\ \A k \in 1 .. (end - 1) - j + 1 : line[k] = text[j + k - 1]
    BY <2>1, PartOfText
  <2> HIDE DEF line
  <2> QED
    BY <2>1, <2>2
<1>3. /\ q \in [1..(n + 1) -> Nat \ {0}] /\ q[1] = end + 2
      /\ \A i \in 1..n : LineAt(text, rest.lines[i], q[i]) /\ q[i + 1] = q[i] + Len(rest.lines[i]) + 2
      /\ LineEnds(text, q[n + 1]) /\ rest.body = SubSeq(text, q[n + 1] + 2, Len(text))
  BY DEF InPlace
<1> HIDE DEF rest, line, section, n
<1>4. ASSUME NEW i \in 1..(n + 1) PROVE p[i + 1] = q[i]
  <2>1. i + 1 \in 1..((n + 1) + 1) /\ i + 1 # 1 /\ (i + 1) - 1 = i
    BY <1>1
  <2> QED
    BY <2>1
<1>5. p[1] = j
  <2>1. 1 \in 1..((n + 1) + 1)
    BY <1>1
  <2> QED
    BY <2>1
<1>6. p \in [1..((n + 1) + 1) -> Nat \ {0}]
  <2>1. ASSUME NEW i \in 1..((n + 1) + 1) PROVE (IF i = 1 THEN j ELSE q[i - 1]) \in Nat \ {0}
    <3>1. i # 1 => i - 1 \in 1..(n + 1)
      BY <1>1
    <3> QED
      BY <1>3, <3>1
  <2> QED
    BY <2>1
<1> HIDE DEF p
<1>7. ASSUME NEW i \in 1..(n + 1)
      PROVE  LineAt(text, section.lines[i], p[i]) /\ p[i + 1] = p[i] + Len(section.lines[i]) + 2
  <2>1. CASE i = 1
    <3>1. 1 \in 1..(n + 1) /\ p[i + 1] = end + 2 /\ p[i] = j /\ section.lines[i] = line
      BY <1>1, <1>3, <1>4, <1>5, <2>1
    <3>2. j + Len(line) = end
      BY <1>2
    <3>3. \A k \in 1..Len(line) : text[j + k - 1] = line[k]
      BY <1>2
    <3>4. LineAt(text, line, j)
      BY <3>2, <3>3 DEF LineAt
    <3> QED
      BY <3>1, <3>2, <3>4
  <2>2. CASE i # 1
    <3> DEFINE k == i - 1
    <3>1. k \in 1..n /\ k \in 1..(n + 1) /\ k + 1 \in 1..(n + 1) /\ i = k + 1
      BY <1>1, <2>2
    <3> HIDE DEF k
    <3>2. p[i] = q[k] /\ p[i + 1] = q[k + 1] /\ section.lines[i] = rest.lines[k]
      BY <1>1, <1>4, <3>1
    <3> QED
      BY <1>3, <3>1, <3>2
  <2> QED
    BY <2>1, <2>2
<1>8. p[(n + 1) + 1] = q[n + 1]
  <2>1. n + 1 \in 1..(n + 1)
    BY <1>1
  <2> QED
    BY <1>4, <2>1
<1>9. InPlace(text, j, section, p)
  <2>1. LineEnds(text, p[(n + 1) + 1]) /\ section.body = SubSeq(text, p[(n + 1) + 1] + 2, Len(text))
    BY <1>1, <1>3, <1>8
  <2> QED
    BY <1>1, <1>5, <1>6, <1>7, <2>1 DEF InPlace
<1> QED
  BY <1>9 DEF section

(* Where every CR up to the end of the section ends a line, the section is *)
(* whole from each of its lines on.                                        *)
LEMMA SectionInPlace ==
  ASSUME NEW text \in AnyText, NEW first \in Nat \ {0}, NEW eom \in Nat, EndsSection(text, eom),
         \A i \in first..eom : text[i] = "\r" => LineEnds(text, i),
         NEW start \in first..(eom + 2), start # eom + 1
  PROVE  \E p : InPlace(text, start, HeaderSection(text, start), p)
<1> DEFINE Whole(j) == \E p : InPlace(text, j, HeaderSection(text, j), p)
           Begins(j) == j \in first..(eom + 2) /\ j # eom + 1
           S == {m \in Nat : \A j \in Nat : Begins(j) /\ j + m >= eom + 2 => Whole(j)}
<1>1. /\ Len(text) \in Nat /\ eom + 2 < Len(text)
      /\ text[eom] = "\r" /\ text[eom + 1] = "\n" /\ text[eom + 2] = "\r" /\ LineEnds(text, eom + 2)
  BY TextLength DEF EndsSection, LineEnds
<1>2. ASSUME NEW j \in Nat, Begins(j), \A i \in Nat : Begins(i) /\ i > j => Whole(i)
      PROVE  Whole(j)
  <2> DEFINE end == Find(text, "\r", j)
  <2>1. j \in Nat \ {0} /\ j <= eom + 2
    BY <1>2
  <2>2. /\ end \in Nat /\ (end <= Len(text) => end >= j /\ text[end] = "\r")
        /\ \A i \in j..Len(text) : text[i] = "\r" => end <= i
    BY <2>1, FindIsFirst
  <2> HIDE DEF end, Whole
  <2>3. j <= eom \/ j = eom + 2
    BY <1>2
  <2>4. end >= j /\ LineEnds(text, end) /\ (j <= eom => end <= eom) /\ (j = eom + 2 => end = j)
    <3>1. CASE j <= eom
      <4>1. eom \in j..Len(text)
        BY <1>1, <2>1, <3>1
      <4>2. end <= eom /\ end <= Len(text)
        BY <1>1, <2>2, <4>1
      <4>3. end \in first..eom /\ text[end] = "\r"
        BY <1>2, <2>2, <4>2
      <4> QED
        BY <2>2, <3>1, <4>2, <4>3
    <3>2. CASE j = eom + 2
      <4>1. eom + 2 \in j..Len(text)
        BY <1>1, <3>2
      <4>2. end = j
        BY <1>1, <2>2, <3>2, <4>1
      <4> QED
        BY <1>1, <2>1, <3>2, <4>2
    <3> QED
      BY <2>3, <3>1, <3>2
  <2>5. CASE end = j
    <3>1. Find(text, "\r", j) = j /\ LineEnds(text, j)
      BY <2>4, <2>5 DEF end
    <3> QED
      BY <2>1, <3>1, EmptyLineIs DEF Whole
  <2>6. CASE end # j
    <3>1. j < end /\ end <= eom /\ text[end + 1] = "\n"
      BY <2>1, <2>2, <2>3, <2>4, <2>6 DEF LineEnds
    <3>2. end + 1 # eom
      BY <1>1, <3>1
    <3>3. Begins(end + 2) /\ end + 2 > j /\ end + 2 \in Nat
      BY <1>2, <2>1, <2>2, <3>1, <3>2
    <3>4. Whole(end + 2)
      BY <1>2, <3>3
    <3>5. PICK q : InPlace(text, end + 2, HeaderSection(text, end + 2), q)
      BY <3>4 DEF Whole
    <3>6. end = Find(text, "\r", j)
      BY DEF end
    <3> QED
      BY <2>1, <2>2, <2>4, <3>1, <3>5, <3>6, LineBefore DEF Whole
  <2> QED
    BY <2>5, <2>6
<1> HIDE DEF Whole, Begins
<1>3. \A j \in Nat : Begins(j) => j <= eom + 2
  BY DEF Begins
<1>4. 0 \in S
  BY <1>2, <1>3
<1>5. ASSUME NEW m \in Nat, m \in S PROVE m + 1 \in S
  <2> SUFFICES ASSUME NEW j \in Nat, Begins(j), j + (m + 1) >= eom + 2 PROVE Whole(j)
    OBVIOUS
  <2>1. \A i \in Nat : Begins(i) /\ i > j => Whole(i)
    BY <1>5
  <2> QED
    BY <1>2, <2>1
<1>6. eom + 2 \in S
  <2> HIDE DEF S
  <2> QED
    BY <1>4, <1>5, SetInduction
<1>7. start \in Nat /\ Begins(start) /\ start + (eom + 2) >= eom + 2
  BY DEF Begins
<1> QED
  BY <1>6, <1>7 DEF Whole

(* A text grows by what stands next in it.                                 *)
LEMMA GrowsBy ==
  ASSUME NEW text \in AnyText, NEW a \in Nat, NEW T, NEW w \in Seq(T), a + Len(w) <= Len(text),
         \A k \in 1..Len(w) : text[a + k] = w[k]
  PROVE  SubSeq(text, 1, a) \o w = SubSeq(text, 1, a + Len(w))
<1> DEFINE s == SubSeq(text, 1, a)
           t == SubSeq(text, 1, a + Len(w))
<1>1. Len(w) \in Nat /\ Len(text) \in Nat
  BY TextLength, LenProperties
<1>2. s \in AnyText /\ Len(s) = a /\ \A k \in 1..a : s[k] = text[k]
  <2>1. /\ s \in AnyText /\ Len(s) = IF 1 <= a THEN a - 1 + 1 ELSE 0
        /\ \A k \in 1 .. a - 1 + 1 : s[k] = text[1 + k - 1]
    BY <1>1, PartOfText
  <2> HIDE DEF s
  <2> QED
    BY <2>1
<1>3. t \in AnyText /\ Len(t) = a + Len(w) /\ \A k \in 1 .. a + Len(w) : t[k] = text[k]
  <2> DEFINE b == a + Len(w)
  <2>0. b \in Nat /\ b <= Len(text)
    BY <1>1
  <2> HIDE DEF b
  <2>1. /\ SubSeq(text, 1, b) \in AnyText /\ Len(SubSeq(text, 1, b)) = IF 1 <= b THEN b - 1 + 1 ELSE 0
        /\ \A k \in 1 .. b - 1 + 1 : SubSeq(text, 1, b)[k] = text[1 + k - 1]
    BY <2>0, PartOfText
  <2>2. Len(SubSeq(text, 1, b)) = b /\ \A k \in 1..b : SubSeq(text, 1, b)[k] = text[k]
    BY <2>0, <2>1
  <2> QED
    BY <2>1, <2>2 DEF b
<1> HIDE DEF s, t
<1>4. /\ s \o w \in Seq(STRING \union T) /\ Len(s \o w) = a + Len(w)
      /\ \A k \in 1 .. a + Len(w) : (s \o w)[k] = IF k <= a THEN s[k] ELSE w[k - a]
  <2>1. s \in Seq(STRING \union T) /\ w \in Seq(STRING \union T)
    BY <1>2, SeqMonotonic DEF AnyText
  <2> QED
    BY <1>2, <2>1, ConcatProperties
<1>5. ASSUME NEW k \in 1 .. a + Len(w) PROVE (s \o w)[k] = t[k]
  <2>1. CASE k <= a
    <3>1. k \in 1..a
      BY <2>1
    <3> QED
      BY <1>2, <1>3, <1>4, <2>1, <3>1
  <2>2. CASE ~(k <= a)
    <3>1. k - a \in 1..Len(w) /\ a + (k - a) = k
      BY <1>1, <2>2
    <3>2. text[k] = w[k - a]
      BY <3>1
    <3> QED
      BY <1>3, <1>4, <2>2, <3>2
  <2> QED
    BY <2>1, <2>2
<1>6. s \o w = t
  <2>1. t \in Seq(STRING \union T)
    BY <1>3, SeqMonotonic DEF AnyText
  <2> QED
    BY <1>3, <1>4, <1>5, <2>1, SeqEqual
<1> QED
  BY <1>6 DEF s, t

(* What is printed between the parts of a request.                         *)
Separator == {":", " ", "\r", "\n", "HTTP/1.1"}
ColonBlank == <<":", " ">>
CrLf == <<"\r", "\n">>
Version == <<" ", "HTTP/1.1", "\r", "\n">>
Opening(req) == <<req.method, " ">> \o req.target \o Version

LEMMA Separators ==
  /\ ColonBlank \in Seq(Separator) /\ Len(ColonBlank) = 2 /\ ColonBlank[1] = ":" /\ ColonBlank[2] = " "
  /\ CrLf \in Seq(Separator) /\ Len(CrLf) = 2 /\ CrLf[1] = "\r" /\ CrLf[2] = "\n"
  /\ Version \in Seq(Separator) /\ Len(Version) = 4
  /\ Version[1] = " " /\ Version[2] = "HTTP/1.1" /\ Version[3] = "\r" /\ Version[4] = "\n"
<1>1. ColonBlank \in Seq(Separator) /\ CrLf \in Seq(Separator) /\ Version \in Seq(Separator)
  <2>1. ColonBlank \in Seq(Separator)
    BY DEF ColonBlank, Separator
  <2>2. CrLf \in Seq(Separator)
    BY DEF CrLf, Separator
  <2>3. Version \in Seq(Separator)
    BY DEF Version, Separator
  <2> QED
    BY <2>1, <2>2, <2>3
<1>2. Len(ColonBlank) = 2 /\ ColonBlank[1] = ":" /\ ColonBlank[2] = " "
  BY DEF ColonBlank
<1>3. Len(CrLf) = 2 /\ CrLf[1] = "\r" /\ CrLf[2] = "\n"
  BY DEF CrLf
<1>4. Len(Version) = 4
  BY DEF Version
<1>5. Version[1] = " " /\ Version[2] = "HTTP/1.1" /\ Version[3] = "\r" /\ Version[4] = "\n"
  BY DEF Version
<1> QED
  BY <1>1, <1>2, <1>3, <1>4, <1>5

LEMMA PairGrows ==
  ASSUME NEW text \in AnyText, NEW a \in Nat, a + 2 <= Len(text),
         NEW T, NEW w \in Seq(T), Len(w) = 2, text[a + 1] = w[1], text[a + 2] = w[2]
  PROVE  SubSeq(text, 1, a) \o w = SubSeq(text, 1, a + 2)
<1>1. \A k \in 1..Len(w) : text[a + k] = w[k]
  OBVIOUS
<1>2. SubSeq(text, 1, a) \o w = SubSeq(text, 1, a + Len(w))
  BY <1>1, GrowsBy
<1> QED
  BY <1>2

(* A line of the text is what is printed for its field.                    *)
LEMMA FieldPrinted ==
  ASSUME NEW text \in AnyText, NEW line \in AnyText, NEW at \in Nat \ {0}, LineAt(text, line, at),
         HasColon(line), OneBlank(line)
  PROVE  SubSeq(text, 1, at - 1) \o Field(line).name \o ColonBlank \o Field(line).value \o CrLf
           = SubSeq(text, 1, (at + Len(line) + 2) - 1)
<1> DEFINE colon == Find(line, ":", 1)
           name == Field(line).name
           value == Field(line).value
           n == Len(line)
           a == at - 1
<1> HIDE DEF colon, name, value, n, a
<1>0. /\ line[colon] = ":" /\ line[colon + 1] = " "
      /\ name = SubSeq(line, 1, colon - 1) /\ value = SubSeq(line, colon + 2, Len(line))
  BY FieldIs, ValueKept DEF colon, name, value
<1>1. colon \in 1..n /\ colon + 1 <= n /\ n \in Nat
  <2>1. colon \in 1..Len(line) /\ colon + 1 <= Len(line) /\ Len(line) \in Nat
    BY FieldIs, ValueKept, TextLength DEF colon
  <2> QED
    BY <2>1 DEF n
<1>2. a \in Nat /\ Len(text) \in Nat /\ at + n < Len(text)
  <2>1. at + Len(line) < Len(text) /\ Len(text) \in Nat
    BY TextLength DEF LineAt, LineEnds
  <2> QED
    BY <2>1 DEF a, n
<1>10. text[at + n] = "\r" /\ text[at + n + 1] = "\n"
  BY DEF LineAt, LineEnds, n
<1>3. name \in AnyText /\ Len(name) = colon - 1 /\ \A k \in 1 .. colon - 1 : name[k] = line[k]
  <2> DEFINE b == colon - 1
  <2>1. b \in Nat /\ b <= Len(line)
    BY <1>1 DEF n
  <2> HIDE DEF b
  <2>2. /\ SubSeq(line, 1, b) \in AnyText
        /\ Len(SubSeq(line, 1, b)) = IF 1 <= b THEN b - 1 + 1 ELSE 0
        /\ \A k \in 1 .. b - 1 + 1 : SubSeq(line, 1, b)[k] = line[1 + k - 1]
    BY <2>1, PartOfText
  <2>3. Len(SubSeq(line, 1, b)) = b /\ \A k \in 1..b : SubSeq(line, 1, b)[k] = line[k]
    BY <2>1, <2>2
  <2>4. name = SubSeq(line, 1, b)
    BY <1>0 DEF b
  <2> QED
    BY <2>2, <2>3, <2>4 DEF b
<1>4. /\ value \in AnyText /\ Len(value) = n - colon - 1
      /\ \A k \in 1 .. n - colon - 1 : value[k] = line[colon + 1 + k]
  <2> DEFINE b == colon + 2
             m == Len(line)
  <2>1. b \in Nat \ {0} /\ m \in Nat /\ m <= Len(line) /\ b <= m + 1 /\ m - b + 1 = n - colon - 1
        /\ \A k \in Nat : b + k - 1 = colon + 1 + k
    BY <1>1 DEF n
  <2> HIDE DEF b, m
  <2>2. /\ SubSeq(line, b, m) \in AnyText
        /\ Len(SubSeq(line, b, m)) = IF b <= m THEN m - b + 1 ELSE 0
        /\ \A k \in 1 .. m - b + 1 : SubSeq(line, b, m)[k] = line[b + k - 1]
    BY <2>1, PartOfText
  <2>3. /\ Len(SubSeq(line, b, m)) = n - colon - 1
        /\ \A k \in 1 .. n - colon - 1 : SubSeq(line, b, m)[k] = line[colon + 1 + k]
    BY <1>1, <2>1, <2>2
  <2>4. value = SubSeq(line, b, m)
    BY <1>0 DEF b, m
  <2> QED
    BY <2>2, <2>3, <2>4
<1>5. \A k \in 1..n : text[a + k] = line[k]
  <2>1. \A k \in 1..n : at + k - 1 = a + k
    BY <1>1 DEF a
  <2>2. \A k \in 1..n : text[at + k - 1] = line[k]
    BY DEF LineAt, n
  <2> QED
    BY <2>1, <2>2
<1>6. SubSeq(text, 1, a) \o name = SubSeq(text, 1, a + (colon - 1))
  <2>1. \A k \in 1..Len(name) : text[a + k] = name[k]
    BY <1>1, <1>2, <1>3, <1>5
  <2>2. a + Len(name) <= Len(text)
    BY <1>1, <1>2, <1>3 DEF a
  <2>3. name \in Seq(STRING) /\ a + Len(name) = a + (colon - 1)
    BY <1>3 DEF AnyText
  <2>4. SubSeq(text, 1, a) \o name = SubSeq(text, 1, a + Len(name))
    BY <1>2, <2>1, <2>2, <2>3, GrowsBy
  <2> QED
    BY <2>3, <2>4
<1>7. SubSeq(text, 1, a + (colon - 1)) \o ColonBlank = SubSeq(text, 1, a + (colon + 1))
  <2> DEFINE b == a + (colon - 1)
  <2>1. b \in Nat /\ b + 2 <= Len(text) /\ b + 1 = a + colon /\ b + 2 = a + (colon + 1)
    BY <1>1, <1>2 DEF a
  <2>2. text[a + colon] = ":" /\ text[a + (colon + 1)] = " "
    <3>1. colon \in 1..n /\ colon + 1 \in 1..n
      BY <1>1, <1>2
    <3> QED
      BY <1>0, <1>5, <3>1
  <2> HIDE DEF b
  <2>3. SubSeq(text, 1, b) \o ColonBlank = SubSeq(text, 1, b + 2)
    BY <2>1, <2>2, Separators, PairGrows
  <2> QED
    BY <2>1, <2>3 DEF b
<1>8. SubSeq(text, 1, a + (colon + 1)) \o value = SubSeq(text, 1, a + n)
  <2> DEFINE b == a + (colon + 1)
  <2>1. b \in Nat /\ b + Len(value) = a + n /\ a + n <= Len(text)
    BY <1>1, <1>2, <1>4 DEF a
  <2>2. ASSUME NEW k \in 1..Len(value) PROVE text[b + k] = value[k]
    <3>1. k \in 1 .. n - colon - 1 /\ colon + 1 + k \in 1..n /\ b + k = a + (colon + 1 + k)
      BY <1>1, <1>2, <1>4
    <3> QED
      BY <1>4, <1>5, <3>1
  <2> HIDE DEF b
  <2>3. SubSeq(text, 1, b) \o value = SubSeq(text, 1, b + Len(value))
    <3>1. value \in Seq(STRING)
      BY <1>4 DEF AnyText
    <3> QED
      BY <2>1, <2>2, <3>1, GrowsBy
  <2> QED
    BY <2>1, <2>3 DEF b
<1>9. SubSeq(text, 1, a + n) \o CrLf = SubSeq(text, 1, (at + n + 2) - 1)
  <2> DEFINE b == a + n
  <2>1. b \in Nat /\ b + 2 <= Len(text) /\ b + 1 = at + n /\ b + 2 = at + n + 1 /\ b + 2 = (at + n + 2) - 1
    BY <1>1, <1>2 DEF a
  <2> HIDE DEF b
  <2>2. SubSeq(text, 1, b) \o CrLf = SubSeq(text, 1, b + 2)
    BY <1>10, <2>1, Separators, PairGrows
  <2> QED
    BY <2>1, <2>2 DEF b
<1> QED
  BY <1>6, <1>7, <1>8, <1>9 DEF a, n, name, value

(* What is printed, when each part stands in the text behind the others.   *)
LEMMA Printed ==
  ASSUME NEW text \in AnyText, NEW req, NEW n \in Nat, n = Len(req.fields), NEW p,
         Opening(req) = SubSeq(text, 1, p[1] - 1),
         \A i \in 1..n :
           SubSeq(text, 1, p[i] - 1) \o req.fields[i].name \o ColonBlank \o req.fields[i].value \o CrLf
             = SubSeq(text, 1, p[i + 1] - 1)
  PROVE  Serialize(req) = SubSeq(text, 1, p[n + 1] - 1) \o CrLf \o req.body
<1> DEFINE m == Len(req.fields)
           Body(f, i) ==
             IF i = 0 THEN Opening(req)
             ELSE f[i - 1] \o req.fields[i].name \o ColonBlank \o req.fields[i].value \o CrLf
           print == CHOOSE f : f = [i \in 0..m |-> Body(f, i)]
           g == [i \in 0..m |-> SubSeq(text, 1, p[i + 1] - 1)]
<1>1. Serialize(req) = print[m] \o CrLf \o req.body
  BY DEF Serialize, Opening, ColonBlank, CrLf, Version
<1>2. ASSUME NEW i \in 0..m PROVE g[i] = Body(g, i)
  <2>1. CASE i = 0
    <3>1. g[i] = SubSeq(text, 1, p[1] - 1)
      <4>1. g[i] = SubSeq(text, 1, p[i + 1] - 1)
        OBVIOUS
      <4>2. i + 1 = 1
        BY <2>1
      <4> HIDE DEF g
      <4> QED
        BY <4>1, <4>2
    <3> HIDE DEF g
    <3> QED
      BY <2>1, <3>1
  <2>2. CASE i # 0
    <3>1. i \in 1..n /\ i - 1 \in 0..m /\ (i - 1) + 1 = i
      BY <2>2
    <3>2. g[i] = SubSeq(text, 1, p[i + 1] - 1) /\ g[i - 1] = SubSeq(text, 1, p[i] - 1)
      BY <3>1
    <3> HIDE DEF g
    <3> QED
      BY <2>2, <3>1, <3>2
  <2> QED
    BY <2>1, <2>2
<1>3. g = [i \in 0..m |-> g[i]]
  OBVIOUS
<1> HIDE DEF g, Body
<1>4. g = [i \in 0..m |-> Body(g, i)]
  BY <1>2, <1>3
<1>5. print = [i \in 0..m |-> Body(print, i)]
  BY <1>4
<1> HIDE DEF print
<1>6. \A i \in 0..m : print[i] = Body(print, i)
  BY <1>5
<1> DEFINE S == {i \in Nat : i <= n => print[i] = g[i]}
<1>7. 0 \in S
  <2>1. 0 \in 0..m /\ \A f, h : Body(f, 0) = Body(h, 0)
    BY DEF Body
  <2> QED
    BY <1>2, <1>6, <2>1
<1>8. ASSUME NEW i \in Nat, i \in S PROVE i + 1 \in S
  <2> SUFFICES ASSUME i + 1 <= n PROVE print[i + 1] = g[i + 1]
    OBVIOUS
  <2>1. i + 1 \in 0..m /\ (i + 1) - 1 = i /\ i + 1 # 0 /\ print[i] = g[i]
    BY <1>8
  <2>2. Body(print, i + 1) = Body(g, i + 1)
    BY <2>1 DEF Body
  <2> QED
    BY <1>2, <1>6, <2>1, <2>2
<1>9. n \in S
  <2> HIDE DEF S
  <2> QED
    BY <1>7, <1>8, SetInduction
<1>10. print[m] = SubSeq(text, 1, p[n + 1] - 1)
  <2>1. m \in 0..m /\ m = n
    OBVIOUS
  <2>2. g[m] = SubSeq(text, 1, p[m + 1] - 1)
    BY <2>1 DEF g
  <2> HIDE DEF m
  <2>3. print[m] = g[m]
    BY <1>9, <2>1
  <2> QED
    BY <2>1, <2>2, <2>3
<1> QED
  BY <1>1, <1>10

(* What Beast finds no fault with.                                         *)
WholeSection(text, eol) ==
  /\ \E i \in DOMAIN text : EndsSection(text, i)
  /\ \A i \in eol..Len(text) :
       text[i] = "\r" => LineEnds(text, i) \/ \E k \in 1..i : EndsSection(text, k)

MethodAndBlank(text) == text[1] \in KnownMethods /\ text[2] = Space

LEMMA FaultlessSection ==
  ASSUME NEW text, NEW eol, SectionVerdict(text, eol) = "none"
  PROVE  WholeSection(text, eol)
BY DEF SectionVerdict, WholeSection

LEMMA FaultlessRequest ==
  ASSUME NEW text \in AnyText, BeastVerdict(text) = "none", MethodAndBlank(text)
  PROVE  LET sp2 == Find(text, Space, 3)
         IN  /\ FirstOf(text, NotInTarget, 3) = sp2 /\ sp2 \in 4..Len(text)
             /\ text[sp2 + 1] \in {"HTTP/1.0", "HTTP/1.1"}
             /\ LineEnds(text, sp2 + 2) /\ WholeSection(text, sp2 + 2)
<1>1. BeastVerdict(text) \notin LetThrough
  BY DEF LetThrough
<1> DEFINE sp1 == FirstOf(text, NotInToken, 1)
           sp2 == Find(text, Space, 3)
<1>2. Len(text) >= 2
  <2>1. ~(sp1 > Len(text)) /\ sp1 # 1 /\ sp1 \in Nat /\ (sp1 <= Len(text) => sp1 >= 1) /\ Len(text) \in Nat
    BY <1>1, VerdictMeans, FirstOfIsFirst, TextLength
  <2> HIDE DEF sp1
  <2> QED
    BY <2>1
<1>3. sp1 = 2 /\ FirstOf(text, NotInTarget, 3) = sp2 /\ sp2 \in 4..Len(text)
  BY <1>1, <1>2, TargetInPlace DEF MethodAndBlank
<1>4. /\ LineEnds(text, sp2 + 2) /\ text[sp2 + 1] \in {"HTTP/1.0", "HTTP/1.1"}
      /\ SectionVerdict(text, sp2 + 2) = "none"
  <2> DEFINE at == FirstOf(text, NotInTarget, sp1 + 1)
  <2>1. /\ LineEnds(text, at + 2) /\ text[at + 1] \in {"HTTP/1.0", "HTTP/1.1"}
        /\ SectionVerdict(text, at + 2) = "none"
    BY <1>1, VerdictMeans
  <2>2. sp1 + 1 = 3
    BY <1>3
  <2> HIDE DEF sp1
  <2>3. at = sp2
    BY <1>3, <2>2
  <2> QED
    BY <2>1, <2>3
<1> HIDE DEF sp2
<1>5. WholeSection(text, sp2 + 2)
  BY <1>4, FaultlessSection
<1> QED
  BY <1>3, <1>4, <1>5 DEF sp2

(* No CR stands in front of the one that ends the start line.              *)
LEMMA NotReturn ==
  "\r" \in NotInTarget /\ Space # "\r" /\ "\r" \notin KnownMethods /\ "\r" \notin {"HTTP/1.0", "HTTP/1.1"}
<1>1. "\r" \in NotInTarget
  BY Zenon DEF NotInTarget
<1>2. Space # "\r" /\ "\r" \notin KnownMethods
  BY DEF Space, KnownMethods
<1> QED
  BY <1>1, <1>2

(* The start line: method, target and version, each with what is behind it. *)
LEMMA StartLineIs ==
  ASSUME NEW text \in AnyText, BeastVerdict(text) = "none", MethodAndBlank(text)
  PROVE  LET sp2 == Find(text, Space, 3)
             eol == Find(text, "\r", 1)
         IN  /\ Find(text, Space, 1) = 2 /\ Find(text, "\r", sp2 + 1) = eol
             /\ sp2 \in 4..Len(text) /\ eol = sp2 + 2 /\ text[sp2] = Space
             /\ LineEnds(text, eol) /\ WholeSection(text, eol)
<1> DEFINE sp1 == Find(text, Space, 1)
           sp2 == Find(text, Space, 3)
           at == Find(text, "\r", sp2 + 1)
           eol == Find(text, "\r", 1)
<1>1. /\ FirstOf(text, NotInTarget, 3) = sp2 /\ sp2 \in 4..Len(text)
      /\ text[sp2 + 1] \in {"HTTP/1.0", "HTTP/1.1"}
      /\ LineEnds(text, sp2 + 2) /\ WholeSection(text, sp2 + 2)
  BY FaultlessRequest
<1>2. text[1] # Space /\ text[1] # "\r" /\ text[2] # "\r" /\ text[2] = Space
  BY DEF MethodAndBlank, KnownMethods, Space
<1>3. Len(text) \in Nat
  BY TextLength
<1>4. /\ sp1 \in Nat /\ (sp1 <= Len(text) => sp1 >= 1 /\ text[sp1] = Space)
      /\ \A j \in 1..Len(text) : text[j] = Space => sp1 <= j
  BY FindIsFirst
<1>5. (sp2 <= Len(text) => text[sp2] = Space) /\ sp2 \in Nat
  BY FindIsFirst
<1>6. /\ eol \in Nat /\ (eol <= Len(text) => eol >= 1 /\ text[eol] = "\r")
      /\ \A j \in 1..Len(text) : text[j] = "\r" => eol <= j
  BY FindIsFirst
<1>7. \A j \in 3..Len(text) : text[j] \in NotInTarget => sp2 <= j
  BY <1>1, FirstOfIsFirst
<1> HIDE DEF sp1, sp2, eol
<1>8. /\ at \in Nat /\ (at <= Len(text) => at >= sp2 + 1 /\ text[at] = "\r")
      /\ \A j \in (sp2 + 1)..Len(text) : text[j] = "\r" => at <= j
  <2>1. sp2 + 1 \in Nat
    BY <1>5
  <2> QED
    BY <2>1, FindIsFirst
<1> HIDE DEF at
<1>9. sp1 = 2
  <2>1. sp1 <= 2
    BY <1>1, <1>2, <1>3, <1>4
  <2> QED
    BY <1>1, <1>2, <1>3, <1>4, <2>1
<1>10. sp2 + 2 < Len(text) /\ text[sp2 + 2] = "\r"
  BY <1>1 DEF LineEnds
<1>11. ASSUME NEW j \in 1..(sp2 + 1) PROVE text[j] # "\r"
  <2>1. CASE j \in {1, 2}
    BY <1>2, <2>1
  <2>2. CASE j \in 3..(sp2 - 1)
    <3>1. j \in 3..Len(text) /\ ~(sp2 <= j)
      BY <1>1, <1>3, <2>2
    <3>2. text[j] \notin NotInTarget
      BY <1>7, <3>1
    <3> QED
      BY <3>2, NotReturn
  <2>3. CASE j = sp2
    BY <1>1, <1>5, <2>3, NotReturn
  <2>4. CASE j = sp2 + 1
    BY <1>1, <2>4, NotReturn
  <2> QED
    BY <1>1, <2>1, <2>2, <2>3, <2>4
<1>12. eol = sp2 + 2
  <2>1. eol <= sp2 + 2
    BY <1>1, <1>3, <1>6, <1>10
  <2>2. eol \in 1..Len(text) /\ text[eol] = "\r"
    BY <1>1, <1>3, <1>6, <1>10, <2>1
  <2> QED
    BY <1>1, <1>11, <2>1, <2>2
<1>13. at = sp2 + 2
  <2>1. at <= sp2 + 2
    BY <1>1, <1>3, <1>8, <1>10
  <2>2. at \in 1..Len(text) /\ text[at] = "\r"
    BY <1>1, <1>3, <1>8, <1>10, <2>1
  <2> QED
    BY <1>1, <1>11, <2>1, <2>2
<1>14. text[sp2] = Space
  BY <1>1, <1>5
<1> QED
  BY <1>1, <1>9, <1>12, <1>13, <1>14 DEF sp1, sp2, at, eol

(* The section that Beast accepts is whole.                                *)
LEMMA AcceptedSection ==
  ASSUME NEW text \in AnyText, NEW eol \in Nat \ {0}, LineEnds(text, eol), WholeSection(text, eol),
         \A i \in 1 .. eol - 1 : text[i] # "\r"
  PROVE  \E p : InPlace(text, eol + 2, HeaderSection(text, eol + 2), p)
<1> DEFINE E == {i \in DOMAIN text : EndsSection(text, i)}
<1>1. DOMAIN text = 1..Len(text) /\ Len(text) \in Nat
  BY TextLength
<1>2. E \in SUBSET Nat /\ E # {}
  BY <1>1 DEF WholeSection
<1>3. PICK eom \in E : \A i \in E : eom <= i
  BY <1>2, LeastNatural
<1>4. eom \in 1..Len(text) /\ EndsSection(text, eom) /\ text[eom] = "\r" /\ eom < Len(text)
  BY <1>1, <1>3 DEF EndsSection, LineEnds
<1>5. eol <= eom
  BY <1>4
<1>6. eol + 1 # eom
  <2>1. text[eol + 1] = "\n"
    BY DEF LineEnds
  <2> QED
    BY <1>4, <2>1
<1>7. ASSUME NEW i \in eol..eom, text[i] = "\r" PROVE LineEnds(text, i)
  <2>1. i \in eol..Len(text)
    BY <1>1, <1>4
  <2>2. LineEnds(text, i) \/ \E k \in 1..i : EndsSection(text, k)
    BY <1>7, <2>1 DEF WholeSection
  <2>3. ASSUME NEW k \in 1..i, EndsSection(text, k) PROVE k = eom /\ i = eom
    <3>1. k \in E
      BY <1>1, <1>4, <2>3
    <3>2. eom <= k
      BY <1>3, <3>1
    <3> HIDE DEF E
    <3> QED
      BY <1>4, <3>2
  <2> QED
    BY <1>4, <2>2, <2>3 DEF EndsSection
<1> HIDE DEF E
<1>8. eol + 2 \in eol..(eom + 2) /\ eol + 2 # eom + 1
  BY <1>4, <1>5, <1>6
<1>9. eom \in Nat
  BY <1>4
<1> QED
  BY <1>4, <1>7, <1>8, <1>9, SectionInPlace

(* The parts that getFields makes of a text that Beast accepts.            *)
LEMMA PartsOfRequest ==
  ASSUME NEW text \in AnyText, BeastVerdict(text) = "none", MethodAndBlank(text),
         NEW sp2, sp2 = Find(text, Space, 3), NEW eol, eol = Find(text, "\r", 1)
  PROVE  /\ getFields(text).method = text[1] /\ getFields(text).method # NoMethod
         /\ getFields(text).target = SubSeq(text, 3, sp2 - 1)
         /\ getFields(text).fields = FieldsOf(HeaderSection(text, eol + 2).lines)
         /\ getFields(text).body = HeaderSection(text, eol + 2).body
<1>1. /\ Find(text, Space, 1) = 2 /\ Find(text, "\r", sp2 + 1) = eol
      /\ sp2 \in 4..Len(text) /\ LineEnds(text, eol)
  BY StartLineIs
<1>2. Len(text) >= 2 /\ text[1] \in KnownMethods
  BY <1>1, TextLength DEF MethodAndBlank
<1> DEFINE s1 == Find(text, Space, 1)
           s2 == Find(text, Space, s1 + 1)
           e == Find(text, "\r", s2 + 1)
           known == s1 = 2 /\ Len(text) >= 2 /\ text[1] \in KnownMethods
           headers == IF known /\ LineEnds(text, e) THEN HeaderSection(text, e + 2)
                      ELSE [lines |-> << >>, body |-> << >>]
<1>3. s1 = 2 /\ known
  BY <1>1, <1>2
<1>4. s2 = sp2 /\ e = eol
  <2>1. s1 + 1 = 3
    <3> HIDE DEF s1
    <3> QED
      BY <1>3
  <2> QED
    BY <1>1, <2>1
<1>5. headers = HeaderSection(text, eol + 2)
  <2>1. LineEnds(text, e) /\ HeaderSection(text, e + 2) = HeaderSection(text, eol + 2)
    BY <1>1, <1>4
  <2> HIDE DEF known, e
  <2> QED
    BY <1>3, <2>1
<1>6. /\ getFields(text).fields = FieldsOf(headers.lines)
      /\ getFields(text).body = headers.body
      /\ getFields(text).method = IF known THEN text[1] ELSE NoMethod
  BY DEF getFields, Space
<1> HIDE DEF known, headers
<1>7. getFields(text).method = text[1]
  BY <1>3, <1>6
<1>8. text[1] # NoMethod
  BY <1>2 DEF NoMethod, KnownMethods
<1>9. getFields(text).target = SubSeq(text, 3, sp2 - 1)
  BY <1>7, <1>8, RequestLine DEF Space
<1> QED
  BY <1>5, <1>6, <1>7, <1>8, <1>9

(* The request's first line, as far as its text.                           *)
LEMMA FirstLinePrinted ==
  ASSUME NEW text \in AnyText, NEW req, NEW sp2 \in 4..Len(text), sp2 + 3 <= Len(text),
         req.method = text[1], req.target = SubSeq(text, 3, sp2 - 1),
         text[2] = Space, text[sp2] = Space, text[sp2 + 1] = "HTTP/1.1",
         text[sp2 + 2] = "\r", text[sp2 + 3] = "\n"
  PROVE  Opening(req) = SubSeq(text, 1, sp2 + 3)
<1>1. Len(text) \in Nat /\ sp2 \in Nat
  BY TextLength
<1> DEFINE first == <<text[1], text[2]>>
           target == SubSeq(text, 3, sp2 - 1)
<1>2. first = SubSeq(text, 1, 2)
  <2> DEFINE c == text[1]
             d == text[2]
             S == STRING
  <2>1. c \in S /\ d \in S
    <3>1. 1 \in 1..Len(text) /\ 2 \in 1..Len(text)
      BY <1>1
    <3> QED
      BY <3>1, ElementOfSeq DEF AnyText
  <2> HIDE DEF S
  <2>2. SubSeq(text, 1, 2) \in Seq(S) /\ Len(SubSeq(text, 1, 2)) = 2
        /\ SubSeq(text, 1, 2)[1] = c /\ SubSeq(text, 1, 2)[2] = d
    <3>1. /\ SubSeq(text, 1, 2) \in AnyText
          /\ Len(SubSeq(text, 1, 2)) = IF 1 <= 2 THEN 2 - 1 + 1 ELSE 0
          /\ \A k \in 1 .. 2 - 1 + 1 : SubSeq(text, 1, 2)[k] = text[1 + k - 1]
      BY <1>1, PartOfText
    <3> QED
      BY <3>1 DEF AnyText, S
  <2> HIDE DEF c, d
  <2>3. <<c, d>> \in Seq(S) /\ Len(<<c, d>>) = 2 /\ <<c, d>>[1] = c /\ <<c, d>>[2] = d
    BY <2>1
  <2> DEFINE w == <<c, d>>
             t == SubSeq(text, 1, 2)
  <2>4. w \in Seq(S) /\ t \in Seq(S) /\ Len(w) = Len(t) /\ w[1] = t[1] /\ w[2] = t[2] /\ Len(w) = 2
    BY <2>2, <2>3
  <2> HIDE DEF w, t
  <2>5. \A i \in 1..Len(w) : w[i] = t[i]
    BY <2>4
  <2>6. w = t
    BY <2>4, <2>5, SeqEqual
  <2> QED
    BY <2>6 DEF w, t, c, d
<1>3. target \in AnyText /\ Len(target) = sp2 - 3 /\ \A k \in 1 .. sp2 - 3 : text[2 + k] = target[k]
  <2>1. 3 \in Nat \ {0} /\ sp2 - 1 \in Nat /\ sp2 - 1 <= Len(text) /\ 3 <= sp2 - 1 /\ (sp2 - 1) - 3 + 1 = sp2 - 3
    BY <1>1
  <2>2. /\ target \in AnyText
        /\ Len(target) = IF 3 <= sp2 - 1 THEN (sp2 - 1) - 3 + 1 ELSE 0
        /\ \A k \in 1 .. (sp2 - 1) - 3 + 1 : target[k] = text[3 + k - 1]
    BY <2>1, PartOfText
  <2> HIDE DEF target
  <2>3. \A k \in 1 .. sp2 - 3 : 3 + k - 1 = 2 + k
    BY <1>1
  <2> QED
    BY <2>1, <2>2, <2>3
<1>4. first \o target = SubSeq(text, 1, sp2 - 1)
  <2> HIDE DEF first, target
  <2>1. 2 + Len(target) = sp2 - 1 /\ 2 + Len(target) <= Len(text) /\ \A k \in 1..Len(target) : text[2 + k] = target[k]
    BY <1>1, <1>3
  <2>2. SubSeq(text, 1, 2) \o target = SubSeq(text, 1, 2 + Len(target))
    <3>1. target \in Seq(STRING)
      BY <1>3 DEF AnyText
    <3> QED
      BY <2>1, <3>1, GrowsBy
  <2> QED
    BY <1>2, <2>1, <2>2
<1>5. SubSeq(text, 1, sp2 - 1) \o Version = SubSeq(text, 1, sp2 + 3)
  <2> DEFINE b == sp2 - 1
             w == Version
  <2>1. /\ b \in Nat /\ b + 1 = sp2 /\ b + 2 = sp2 + 1 /\ b + 3 = sp2 + 2 /\ b + 4 = sp2 + 3 /\ b + 4 <= Len(text)
    BY <1>1
  <2>2. w \in Seq(Separator) /\ Len(w) = 4 /\ w[1] = Space /\ w[2] = "HTTP/1.1" /\ w[3] = "\r" /\ w[4] = "\n"
    BY Separators DEF Space
  <2> HIDE DEF b, w
  <2>3. text[b + 1] = w[1] /\ text[b + 2] = w[2] /\ text[b + 3] = w[3] /\ text[b + 4] = w[4]
    BY <2>1, <2>2
  <2>4. \A k \in 1..Len(w) : text[b + k] = w[k]
    BY <2>2, <2>3
  <2>5. SubSeq(text, 1, b) \o w = SubSeq(text, 1, b + Len(w))
    BY <2>1, <2>2, <2>4, GrowsBy
  <2> QED
    BY <2>1, <2>2, <2>5 DEF b, w
<1>6. Opening(req) = first \o target \o Version
  BY DEF Opening, Space
<1> HIDE DEF first, target
<1> QED
  BY <1>4, <1>5, <1>6

(* A request that is printed as it came: one that Beast accepts, of        *)
(* version 1.1, with one blank behind the colon of every field, and no     *)
(* name twice.                                                             *)
PlainFields(lines) ==
  LET name(i) == SubSeq(lines[i], 1, Find(lines[i], ":", 1) - 1)
  IN  /\ \A i \in DOMAIN lines : OneBlank(lines[i])
      /\ \A i, j \in DOMAIN lines : SameName(name(i), name(j)) => i = j

PlainRequest(text) ==
  /\ BeastVerdict(text) = "none" /\ MethodAndBlank(text)
  /\ text[Find(text, "\r", 1) - 1] = "HTTP/1.1"
  /\ PlainFields(HeaderSection(text, Find(text, "\r", 1) + 2).lines)

LEMMA FieldsOfSection ==
  ASSUME NEW text \in AnyText, PlainRequest(text),
         NEW lines, lines = HeaderSection(text, Find(text, "\r", 1) + 2).lines
  PROVE  /\ lines \in Seq(AnyText) /\ Len(lines) \in Nat /\ DOMAIN lines = 1..Len(lines)
         /\ \A i \in DOMAIN lines : lines[i] \in AnyText /\ HasColon(lines[i]) /\ OneBlank(lines[i])
         /\ Len(FieldsOf(lines)) = Len(lines)
         /\ \A i \in 1..Len(lines) : FieldsOf(lines)[i] = Field(lines[i])
<1> DEFINE eol == Find(text, "\r", 1)
<1>1. BeastVerdict(text) = "none" /\ MethodAndBlank(text) /\ PlainFields(lines)
  BY DEF PlainRequest
<1>2. eol \in Nat
  BY FindIsFirst
<1>4. lines \in Seq(AnyText)
  <2>1. eol + 2 \in Nat \ {0}
    BY <1>2
  <2>2. HeaderSection(text, eol + 2) \in [lines : Seq(AnyText), body : AnyText]
    BY <2>1, LinesStandInText
  <2> DEFINE section == HeaderSection(text, eol + 2)
  <2>3. section \in [lines : Seq(AnyText), body : AnyText] /\ lines = section.lines
    BY <2>2
  <2> HIDE DEF section
  <2> QED
    BY <2>3
<1>5. Len(lines) \in Nat /\ DOMAIN lines = 1..Len(lines)
  BY <1>4, LenProperties
<1>6. ASSUME NEW i \in DOMAIN lines
      PROVE  lines[i] \in AnyText /\ HasColon(lines[i]) /\ OneBlank(lines[i])
  <2>1. lines[i] \in AnyText
    BY <1>4, <1>5, ElementOfSeq
  <2>2. OneBlank(lines[i])
    BY <1>1 DEF PlainFields
  <2> DEFINE colon == Find(lines[i], ":", 1)
  <2>3. colon \in Nat /\ Len(lines[i]) \in Nat /\ colon + 2 <= Len(lines[i]) + 1
    BY <2>1, <2>2, FindIsFirst, TextLength DEF OneBlank
  <2> HIDE DEF colon
  <2>4. colon <= Len(lines[i])
    BY <2>3
  <2>5. HasColon(lines[i])
    BY <2>4 DEF HasColon, colon
  <2> QED
    BY <2>1, <2>2, <2>5
<1>7. ASSUME NEW i \in DOMAIN lines, NEW j \in DOMAIN lines,
             SameName(Field(lines[i]).name, Field(lines[j]).name)
      PROVE  i = j
  <2> DEFINE name(k) == SubSeq(lines[k], 1, Find(lines[k], ":", 1) - 1)
  <2>1. Field(lines[i]).name = name(i) /\ Field(lines[j]).name = name(j)
    BY <1>6, FieldIs
  <2>2. SameName(name(i), name(j)) => i = j
    BY <1>1 DEF PlainFields
  <2> HIDE DEF name
  <2> QED
    BY <1>7, <2>1, <2>2
<1>8. \A i \in DOMAIN lines : HasColon(lines[i]) /\ OneBlank(lines[i])
  BY <1>6
<1>9. \A i, j \in DOMAIN lines : SameName(Field(lines[i]).name, Field(lines[j]).name) => i = j
  BY <1>7
<1>10. Len(FieldsOf(lines)) = Len(lines) /\ \A i \in 1..Len(lines) : FieldsOf(lines)[i] = Field(lines[i])
  BY <1>4, <1>8, <1>9, FieldsAreTheLines
<1> QED
  BY <1>4, <1>5, <1>6, <1>10

LEMMA EchoIsTheText ==
  ASSUME NEW text \in AnyText, PlainRequest(text)
  PROVE  getFields(text).method # NoMethod /\ Serialize(getFields(text)) = text
<1> DEFINE sp2 == Find(text, Space, 3)
           eol == Find(text, "\r", 1)
           section == HeaderSection(text, eol + 2)
           req == getFields(text)
           n == Len(section.lines)
<1>1. BeastVerdict(text) = "none" /\ MethodAndBlank(text) /\ text[eol - 1] = "HTTP/1.1"
  BY DEF PlainRequest
<1>2. /\ sp2 \in 4..Len(text) /\ eol = sp2 + 2 /\ text[sp2] = Space
      /\ LineEnds(text, eol) /\ WholeSection(text, eol)
  BY <1>1, StartLineIs
<1>3. /\ req.method = text[1] /\ req.method # NoMethod
      /\ req.target = SubSeq(text, 3, sp2 - 1)
      /\ req.fields = FieldsOf(section.lines) /\ req.body = section.body
  BY <1>1, PartsOfRequest DEF Space
<1>4. /\ n \in Nat /\ DOMAIN section.lines = 1..n
      /\ \A i \in 1..n : section.lines[i] \in AnyText /\ HasColon(section.lines[i]) /\ OneBlank(section.lines[i])
      /\ Len(req.fields) = n /\ \A i \in 1..n : req.fields[i] = Field(section.lines[i])
  <2>1. \A i \in DOMAIN section.lines :
          section.lines[i] \in AnyText /\ HasColon(section.lines[i]) /\ OneBlank(section.lines[i])
    BY FieldsOfSection
  <2>2. /\ n \in Nat /\ DOMAIN section.lines = 1..n
        /\ Len(FieldsOf(section.lines)) = n
        /\ \A i \in 1..n : FieldsOf(section.lines)[i] = Field(section.lines[i])
    BY FieldsOfSection
  <2> HIDE DEF req, section
  <2> QED
    BY <1>3, <2>1, <2>2
<1> HIDE DEF req, n, sp2
<1>5. Len(text) \in Nat /\ eol \in Nat \ {0} /\ eol < Len(text) /\ text[eol] = "\r" /\ text[eol + 1] = "\n"
  <2>1. eol \in Nat
    BY FindIsFirst
  <2> HIDE DEF eol
  <2> QED
    BY <1>2, <2>1, TextLength DEF LineEnds
<1>6. \A i \in 1 .. eol - 1 : text[i] # "\r"
  <2>1. \A j \in 1..Len(text) : text[j] = "\r" => eol <= j
    BY FindIsFirst
  <2> HIDE DEF eol
  <2> QED
    BY <1>5, <2>1
<1>7. PICK p : InPlace(text, eol + 2, section, p)
  <2>1. eol \in Nat \ {0} /\ LineEnds(text, eol) /\ WholeSection(text, eol) /\ \A i \in 1 .. eol - 1 : text[i] # "\r"
    BY <1>2, <1>5, <1>6
  <2> HIDE DEF eol
  <2> QED
    BY <2>1, AcceptedSection
<1> HIDE DEF section, eol
<1>8. /\ p \in [1..(n + 1) -> Nat \ {0}] /\ p[1] = eol + 2
      /\ \A i \in 1..n : LineAt(text, section.lines[i], p[i]) /\ p[i + 1] = p[i] + Len(section.lines[i]) + 2
      /\ LineEnds(text, p[n + 1]) /\ section.body = SubSeq(text, p[n + 1] + 2, Len(text))
  BY <1>7 DEF InPlace, n
<1>9. Opening(req) = SubSeq(text, 1, p[1] - 1)
  <2>1. /\ sp2 + 3 <= Len(text) /\ eol = sp2 + 2 /\ eol - 1 = sp2 + 1 /\ eol + 1 = sp2 + 3
        /\ p[1] - 1 = sp2 + 3
    BY <1>2, <1>5, <1>8
  <2>2. text[sp2 + 1] = "HTTP/1.1" /\ text[sp2 + 2] = "\r" /\ text[sp2 + 3] = "\n"
    BY <1>1, <1>5, <2>1
  <2>3. text[2] = Space
    BY <1>1 DEF MethodAndBlank
  <2>4. Opening(req) = SubSeq(text, 1, sp2 + 3)
    BY <1>2, <1>3, <2>1, <2>2, <2>3, FirstLinePrinted
  <2> QED
    BY <2>1, <2>4
<1>10. ASSUME NEW i \in 1..n
       PROVE  SubSeq(text, 1, p[i] - 1) \o req.fields[i].name \o ColonBlank \o req.fields[i].value \o CrLf
                = SubSeq(text, 1, p[i + 1] - 1)
  <2> DEFINE line == section.lines[i]
             at == p[i]
  <2>1. /\ line \in AnyText /\ HasColon(line) /\ OneBlank(line) /\ req.fields[i] = Field(line)
        /\ at \in Nat \ {0} /\ LineAt(text, line, at) /\ p[i + 1] = at + Len(line) + 2
    BY <1>4, <1>8
  <2> HIDE DEF line, at
  <2>2. SubSeq(text, 1, at - 1) \o Field(line).name \o ColonBlank \o Field(line).value \o CrLf
          = SubSeq(text, 1, (at + Len(line) + 2) - 1)
    BY <2>1, FieldPrinted
  <2> QED
    BY <2>1, <2>2 DEF at
<1>11. Serialize(req) = SubSeq(text, 1, p[n + 1] - 1) \o CrLf \o req.body
  BY <1>4, <1>9, <1>10, Printed
<1>12. SubSeq(text, 1, p[n + 1] - 1) \o CrLf \o req.body = text
  <2> DEFINE q == p[n + 1]
             b == q - 1
             body == SubSeq(text, q + 2, Len(text))
  <2>1. q \in Nat \ {0} /\ LineEnds(text, q) /\ req.body = body
    <3>1. n + 1 \in 1..(n + 1)
      BY <1>4
    <3> QED
      BY <1>3, <1>8, <3>1
  <2> HIDE DEF q
  <2>2. /\ b \in Nat /\ b + 1 = q /\ b + 2 = q + 1 /\ b + 2 <= Len(text) /\ b + 2 \in Nat
        /\ text[q] = "\r" /\ text[q + 1] = "\n"
    BY <1>5, <2>1 DEF LineEnds
  <2>3. SubSeq(text, 1, b) \o CrLf = SubSeq(text, 1, b + 2)
    <3> HIDE DEF b
    <3> QED
      BY <2>2, Separators, PairGrows
  <2>4. body \in AnyText /\ (b + 2) + Len(body) = Len(text) /\ \A k \in 1..Len(body) : text[(b + 2) + k] = body[k]
    <3> DEFINE m == Len(text)
               c == q + 2
    <3>1. m \in Nat /\ m <= Len(text) /\ c \in Nat \ {0} /\ c = b + 3 /\ c <= m + 1
      BY <1>5, <2>1, <2>2
    <3> HIDE DEF m, c
    <3>2. /\ SubSeq(text, c, m) \in AnyText /\ Len(SubSeq(text, c, m)) = IF c <= m THEN m - c + 1 ELSE 0
          /\ \A k \in 1 .. m - c + 1 : SubSeq(text, c, m)[k] = text[c + k - 1]
      BY <3>1, PartOfText
    <3>3. body = SubSeq(text, c, m)
      BY DEF c, m
    <3> HIDE DEF body, b
    <3>4. Len(body) = m - c + 1 /\ \A k \in 1..Len(body) : text[c + k - 1] = body[k]
      BY <3>1, <3>2, <3>3
    <3>5. \A k \in 1..Len(body) : c + k - 1 = (b + 2) + k
      BY <2>2, <3>1
    <3>6. (b + 2) + Len(body) = m
      BY <2>2, <3>1, <3>4
    <3> QED
      BY <3>2, <3>3, <3>4, <3>5, <3>6 DEF m
  <2> HIDE DEF body, b
  <2>5. SubSeq(text, 1, b + 2) \o body = SubSeq(text, 1, (b + 2) + Len(body))
    <3> DEFINE a == b + 2
    <3>1. a \in Nat /\ body \in Seq(STRING) /\ a + Len(body) <= Len(text) /\ \A k \in 1..Len(body) : text[a + k] = body[k]
      BY <1>5, <2>2, <2>4 DEF AnyText
    <3> HIDE DEF a
    <3>2. SubSeq(text, 1, a) \o body = SubSeq(text, 1, a + Len(body))
      BY <3>1, GrowsBy
    <3> QED
      BY <3>2 DEF a
  <2>6. SubSeq(text, 1, Len(text)) = text
    BY SubSeqFull DEF AnyText
  <2>7. p[n + 1] - 1 = b
    BY DEF b, q
  <2> QED
    BY <2>1, <2>3, <2>4, <2>5, <2>6, <2>7
<1> QED
  BY <1>3, <1>11, <1>12 DEF req

LEMMA EchoMeans ==
  /\ EchoReturnsRequest <=>
       (location # << >> /\ routes[location] = "EchoHandler" /\ PlainRequest(data)
          /\ "NUL" \notin {data[i] : i \in DOMAIN data} /\ Len(data) < Capacity
        => reply.status = 200 /\ reply.body = data)
  /\ EchoReturnsRequest' <=>
       (location' # << >> /\ routes'[location'] = "EchoHandler" /\ PlainRequest(data')
          /\ "NUL" \notin {data'[i] : i \in DOMAIN data'} /\ Len(data') < Capacity
        => reply'.status = 200 /\ reply'.body = data')
BY DEF EchoReturnsRequest, PlainRequest, PlainFields, MethodAndBlank, Space, HasRoom

(* A read with room left and without a NUL is taken for what it is.        *)
LEMMA TextIsRead ==
  ASSUME NEW arrived \in Arrivals, Len(arrived) < Capacity,
         "NUL" \notin {arrived[i] : i \in DOMAIN arrived}, NEW text \in Texts(arrived)
  PROVE  text = arrived /\ arrived \in AnyText
<1>1. arrived \in AnyText
  BY TextOfRead
<1>2. Len(arrived) \in Nat /\ DOMAIN arrived = 1..Len(arrived)
  BY <1>1, TextLength
<1> DEFINE nul == Find(arrived, "NUL", 1)
<1>3. nul <= Len(arrived) => nul \in 1..Len(arrived) /\ arrived[nul] = "NUL"
  <2>1. nul \in Nat /\ (nul <= Len(arrived) => nul >= 1 /\ arrived[nul] = "NUL")
    BY <1>1, FindIsFirst
  <2> HIDE DEF nul
  <2> QED
    BY <1>2, <2>1
<1> HIDE DEF nul
<1>4. ~(nul <= Len(arrived))
  BY <1>2, <1>3
<1> QED
  BY <1>1, <1>4 DEF Texts, nul

(* EchoReturnsRequest: an echo location sends a plain request back as it   *)
(* came, whatever its method, target, fields and body are.                 *)
THEOREM DispatchEchoReturnsRequest ==
  Spec => []EchoReturnsRequest
<1>1. Init => EchoReturnsRequest
  BY EchoMeans DEF Init
<1>2. DispatchInv /\ EchoReturnsRequest /\ [Next]_vars => EchoReturnsRequest'
  <2> SUFFICES ASSUME DispatchInv, EchoReturnsRequest, [Next]_vars
               PROVE  EchoReturnsRequest'
    OBVIOUS
  <2>1. CASE location' = << >>
    BY <2>1, EchoMeans
  <2>2. CASE UNCHANGED vars
    BY <2>2, EchoMeans DEF vars
  <2>3. ASSUME NEW arrived \in Arrivals, HandleRead(arrived)
        PROVE  EchoReturnsRequest'
    <3>1. data' = arrived /\ reply = NoReply /\ routes' = routes
      BY <2>3, ReadSteps
    <3>2. CASE GoesDown(arrived)
      <4>1. location' = location /\ location = << >>
        BY <3>1, <3>2 DEF GoesDown, DispatchInv, IdleWithoutLocation
      <4> QED
        BY <2>1, <4>1
    <3>3. CASE RefusesRead
      BY <2>1, <3>3 DEF RefusesRead
    <3>4. ASSUME NEW text \in Texts(arrived), Answers(text)
          PROVE  EchoReturnsRequest'
      <4> SUFFICES ASSUME routes[location'] = "EchoHandler", PlainRequest(arrived),
                          "NUL" \notin {arrived[i] : i \in DOMAIN arrived}, Len(arrived) < Capacity
                   PROVE  reply'.status = 200 /\ reply'.body = arrived
        BY <3>1, EchoMeans
      <4>1. text = arrived /\ arrived \in AnyText
        BY TextIsRead
      <4> DEFINE req == getFields(arrived)
      <4>2. req.method # NoMethod /\ Serialize(req) = arrived
        BY <4>1, EchoIsTheText
      <4>3. \E b : reply' = Answer("EchoHandler", req, location', b)
        BY <3>4, <4>1 DEF Answers
      <4> QED
        BY <4>2, <4>3 DEF Answer, Echo, Ok, Reply
    <3> QED
      BY <2>3, <3>2, <3>3, <3>4, HandleReadCases
  <2> QED
    BY <2>1, <2>2, <2>3, QuietSteps
<1> QED
  BY <1>1, <1>2, InvHolds, PTL DEF Spec
=============================================================================
