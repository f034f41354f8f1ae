-------------------------- MODULE ApiHandlerProofs --------------------------
(***************************************************************************)
(* Proofs about ApiHandler for any number of workers, any tree of targets, *)
(* any range of int and any faults: types, the lock, and how the map       *)
(* json_storage_ and the files agree.                                      *)
(***************************************************************************)
EXTENDS ApiHandler, Extrema, SequenceTheorems, TLAPS

-----------------------------------------------------------------------------
(* Facts about paths.                                                      *)
Paths == Seq(Components)

(* What a file's path and a collection's name have to do with each other.  *)
LEMMA ParentAndName ==
  ASSUME NEW p \in Paths, p # <<>>
  PROVE  /\ Parent(p) \in Paths /\ Name(p) \in Components
         /\ p = Append(Parent(p), Name(p))
<1> USE DEF Paths
<1>1. Len(p) \in Nat \ {0} /\ \A i \in 1 .. Len(p) : p[i] \in Components
  BY EmptySeq, LenProperties
<1>2. /\ Parent(p) \in Seq(Components) /\ Len(Parent(p)) = Len(p) - 1
      /\ \A i \in 1 .. Len(p) - 1 : Parent(p)[i] = p[i]
  <2> DEFINE n == Len(p) - 1
  <2>1. n \in Nat /\ \A i \in 1 .. n : p[i] \in Components
    BY <1>1
  <2> HIDE DEF n
  <2>2. /\ SubSeq(p, 1, n) \in Seq(Components)
        /\ Len(SubSeq(p, 1, n)) = IF 1 <= n THEN n - 1 + 1 ELSE 0
        /\ \A i \in 1 .. n - 1 + 1 : SubSeq(p, 1, n)[i] = p[1 + i - 1]
    BY <2>1, SubSeqProperties
  <2>3. /\ Len(SubSeq(p, 1, n)) = n
        /\ \A i \in 1 .. n : SubSeq(p, 1, n)[i] = p[i]
    BY <2>1, <2>2
  <2> QED
    BY <2>2, <2>3 DEF Parent, n
<1>3. Name(p) \in Components
  BY <1>1 DEF Name
<1>4. /\ Append(Parent(p), Name(p)) \in Seq(Components)
      /\ Len(Append(Parent(p), Name(p))) = Len(p)
      /\ \A i \in 1 .. Len(p) : Append(Parent(p), Name(p))[i] = p[i]
  BY <1>1, <1>2, <1>3, AppendProperties DEF Name
<1>5. p = Append(Parent(p), Name(p))
  BY <1>1, <1>4, SeqEqual
<1> QED
  BY <1>2, <1>3, <1>5

LEMMA AppendToPath ==
  ASSUME NEW n \in Paths, NEW c \in Components
  PROVE  /\ Append(n, c) \in Paths /\ Append(n, c) # <<>>
         /\ Parent(Append(n, c)) = n /\ Name(Append(n, c)) = c
<1> DEFINE p == Append(n, c)
<1>1. p \in Paths /\ p # <<>> /\ Len(n) \in Nat /\ Len(p) = Len(n) + 1 /\ p[Len(n) + 1] = c
  BY AppendProperties, LenProperties DEF Paths
<1>2. Name(p) = c
  BY <1>1 DEF Name
<1>3. p = Append(Parent(p), Name(p)) /\ Parent(p) \in Paths /\ Name(p) \in Components
  BY <1>1, ParentAndName
<1>4. Parent(p) = n
  BY <1>3, AppendInjective DEF Paths
<1> QED
  BY <1>1, <1>2, <1>4

LEMMA IntRange == MinInt \in Int /\ MaxInt \in Nat \ {0} /\ MinInt < 0
BY ConstantsAssumption

LEMMA ShortType == Short \in [Components -> Components]
BY ConstantsAssumption

LEMMA IdType ==
  ASSUME NEW p \in Paths
  PROVE  IdOf(p) \in Int32
BY IntRange DEF IdOf, Int32

(* The constructor makes a path of a path.                                 *)
LEMMA TruncateType ==
  ASSUME NEW n \in Paths
  PROVE  Truncate(n) \in Paths
<1>1. CASE n = <<>>
  BY <1>1 DEF Truncate
<1>2. CASE n # <<>>
  <2>1. Len(n) \in 1 .. Len(n)
    BY <1>2, EmptySeq DEF Paths
  <2>2. Short[Name(n)] \in Components
    BY <1>2, ParentAndName, ShortType
  <2> QED
    BY <1>2, <2>1, <2>2, ExceptSeq DEF Truncate, Paths
<1> QED
  BY <1>1, <1>2

-----------------------------------------------------------------------------
(* The next id.                                                            *)

(* It is an int, and no id of the collection before the end of the range.  *)
LEMMA NextIdIsFresh ==
  ASSUME NEW ids \in SUBSET Int32
  PROVE  /\ NextId(ids) \in Int32
         /\ MaxInt \notin ids => NextId(ids) \notin ids
<1> USE IntRange DEF Int32
<1>1. CASE ids = {}
  BY <1>1 DEF NextId
<1>2. CASE ids # {}
  <2> DEFINE top == CHOOSE i \in ids : \A j \in ids : j <= i
  <2>1. top \in ids /\ \A j \in ids : j <= top
    <3>1. ids \in SUBSET Int /\ MaxInt \in Int /\ \A i \in ids : i <= MaxInt
      OBVIOUS
    <3>2. \E i \in ids : \A j \in ids : j <= i
      BY <1>2, <3>1, GreatestInteger
    <3> QED
      BY <3>2
  <2>2. NextId(ids) = Wrap(1 + top)
    BY <1>2 DEF NextId
  <2> HIDE DEF top
  <2> QED
    BY <2>1, <2>2 DEF Wrap
<1> QED
  BY <1>1, <1>2

-----------------------------------------------------------------------------
(* Layer 1: types, and what a worker has in hand at each step.             *)

(* A worker is in the handler its request names; the file it opens and     *)
(* writes is named by a number.                                            *)
Placed ==
  \A w \in Workers :
    /\ pc[w] = "post" => request[w].method = "POST"
    /\ pc[w] = "put" => request[w].method = "PUT" /\ IdOf(request[w].path) # -1
    /\ pc[w] \in {"open", "write"} => item[w] # <<>> /\ Name(item[w]) \in Int32

LEMMA RequestType ==
  ASSUME NEW r \in Requests \union {NoRequest}
  PROVE  r.path \in Paths /\ r.body \in Contents
<1>1. CASE r = NoRequest
  BY <1>1, EmptySeq DEF NoRequest, Paths, Contents
<1>2. CASE r \in Requests
  <2>1. PICK m \in Methods : r \in [method : {m}, path : Targets[m],
                    body : IF m \in {"POST", "PUT"} THEN Bodies \union {""} ELSE {""}]
    BY <1>2 DEF Requests
  <2>2. Targets[m] \subseteq Seq(Components)
    BY ConstantsAssumption
  <2> QED
    BY <2>1, <2>2 DEF Paths, Contents
<1> QED
  BY <1>1, <1>2

(* operator[] of the map gives ids, and changes no other entry.            *)
LEMMA EntryType ==
  ASSUME TypeOK, NEW n
  PROVE  Entry(n) \in SUBSET Int32
BY DEF TypeOK, Entry

LEMMA WithEntryType ==
  ASSUME TypeOK, NEW n \in Paths, NEW ids \in SUBSET Int32
  PROVE  \A m \in DOMAIN WithEntry(n, ids) :
           m \in Seq(Components) /\ WithEntry(n, ids)[m] \in SUBSET Int32
BY DEF TypeOK, WithEntry, Paths

Statuses == {0, 200, 201, 400, 404, 500}
Replies == [status : Statuses, ids : SUBSET Int32, body : Contents]

LEMMA StatusCodes ==
  /\ 0 \in Statuses /\ 200 \in Statuses /\ 201 \in Statuses
  /\ 400 \in Statuses /\ 404 \in Statuses /\ 500 \in Statuses
BY DEF Statuses

IdSets == SUBSET Int32

LEMMA ReplyType ==
  ASSUME NEW status \in Statuses, NEW ids \in IdSets, NEW body \in Contents
  PROVE  Reply(status, ids, body) \in Replies
BY DEF Reply, Replies, IdSets

LEMMA EmptyContents == "" \in Contents /\ Torn \in Contents /\ {} \in IdSets
BY DEF Contents, IdSets

LEMMA PlainReplies ==
  /\ NoReply \in Replies
  /\ Reply(200, {}, "") \in Replies /\ Reply(400, {}, "") \in Replies
  /\ Reply(404, {}, "") \in Replies /\ Reply(500, {}, "") \in Replies
<1>1. \A status \in Statuses : Reply(status, {}, "") \in Replies
  BY EmptyContents, ReplyType
<1> QED
  BY <1>1, StatusCodes DEF NoReply

(* The control state alone: where the workers are, who holds the lock and  *)
(* what was answered.                                                      *)
Control ==
  /\ writers \subseteq Workers /\ readers \subseteq Workers
  /\ pc \in [Workers -> Steps]
  /\ request \in [Workers -> Requests \union {NoRequest}]
  /\ reply \in [Workers -> Replies]
  /\ up \in BOOLEAN /\ arrivals \in Nat

(* The data: the tree, the map and what workers copied from them.          *)
Data ==
  /\ dirs \subseteq Paths
  /\ DOMAIN files \subseteq Paths /\ \A p \in DOMAIN files : files[p] \in Contents
  /\ \A n \in DOMAIN store : n \in Paths /\ store[n] \in SUBSET Int32
  /\ item \in [Workers -> Paths]
  /\ listed \in [Workers -> SUBSET Int32]
  /\ mine \subseteq Paths

LEMMA TypeParts == (TypeOK <=> Control /\ Data) /\ (TypeOK' <=> Control' /\ Data')
BY DEF TypeOK, Control, Data, Paths, Replies, Statuses

LEMMA TypesAtStart == Init => TypeOK /\ Placed
<1> SUFFICES ASSUME Init PROVE TypeOK /\ Placed
  OBVIOUS
<1> USE DEF Init
<1>1. Control
  BY PlainReplies, ConstantsAssumption DEF Control, Steps
<1>2. <<>> \in Paths
  BY EmptySeq DEF Paths
<1>3. Data
  BY <1>2 DEF Data
<1>4. Placed
  BY DEF Placed
<1> QED
  BY <1>1, <1>3, <1>4, TypeParts

(* Control changes as the helpers say.                                     *)
LEMMA ContinueKeepsControl ==
  ASSUME Control, NEW w \in Workers, NEW from \in Steps, NEW to \in Steps, Continue(w, from, to),
         writers' \subseteq writers \union {w}, readers' \subseteq readers \union {w}
  PROVE  Control'
BY DEF Control, Continue, Goto

LEMMA AnswerKeepsControl ==
  ASSUME Control, NEW w \in Workers, NEW from \in Steps, NEW r \in Replies, Answer(w, from, r),
         writers' \subseteq writers, readers' \subseteq readers
  PROVE  Control'
BY DEF Control, Answer, Goto, Steps

(* What the helpers leave alone: the hands of a worker that goes to a step *)
(* where it has nothing in hand.                                           *)
LEMMA EmptyHands ==
  ASSUME Control, Placed, NEW w \in Workers, NEW from \in Steps,
         NEW to \in Steps \ {"post", "put", "open", "write"},
         Goto(w, from, to), request' = request, item' = item
  PROVE  Placed'
BY DEF Control, Placed, Goto, IdOf, Name

LEMMA TerminateKeepsTypes ==
  ASSUME TypeOK, Placed, Terminate, dirs' \subseteq dirs
  PROVE  TypeOK' /\ Placed'
<1> USE TypeParts DEF Terminate, Mutex!ResetMutex
<1>1. Control'
  BY DEF Control, Steps
<1>2. Data'
  BY DEF Data
<1>3. Placed'
  BY DEF Placed, Control
<1> QED
  BY <1>1, <1>2, <1>3

(* The steps that take a lock.                                             *)
LEMMA AcquireKeepsTypes ==
  ASSUME TypeOK, Placed, NEW w \in Workers, NEW from \in Steps, NEW to \in Steps \ {"open", "write"},
         Acquire(w, from, to),
         to = "post" => request[w].method = "POST",
         to = "put" => request[w].method = "PUT" /\ IdOf(request[w].path) # -1
  PROVE  TypeOK' /\ Placed'
<1> USE TypeParts
<1>1. Continue(w, from, to) /\ UNCHANGED <<dirs, files, store, item, listed>> /\ mine' = mine
  BY DEF Acquire, Continue, tree
<1>2. writers' \subseteq writers \union {w} /\ readers' \subseteq readers \union {w}
  BY DEF Acquire, Mutex!LockExclusive, Mutex!LockShared
<1>3. Control'
  BY <1>1, <1>2, ContinueKeepsControl
<1>4. Data'
  BY <1>1 DEF Data
<1>5. request' = request /\ pc' = [pc EXCEPT ![w] = to]
  BY <1>1 DEF Continue, Goto
<1>6. Placed'
  BY <1>1, <1>5 DEF Placed, Control, IdOf, Name
<1> QED
  BY <1>3, <1>4, <1>6

(* The steps that change no file and no entry of the map.                  *)
LEMMA AnswerKeepsTypes ==
  ASSUME TypeOK, Placed, NEW w \in Workers, NEW from \in Steps, NEW r \in Replies, Answer(w, from, r),
         listed' \in [Workers -> SUBSET Int32], writers' \subseteq writers, readers' \subseteq readers,
         UNCHANGED <<dirs, files, store, item>>
  PROVE  TypeOK' /\ Placed'
<1>1. Control'
  BY TypeParts, AnswerKeepsControl
<1>2. Data'
  BY TypeParts DEF Data, Answer
<1>3. Placed'
  BY TypeParts, EmptyHands DEF Answer, Steps
<1> QED
  BY <1>1, <1>2, <1>3, TypeParts

LEMMA ContinueKeepsTypes ==
  ASSUME TypeOK, Placed, NEW w \in Workers, NEW from \in Steps, NEW to \in {"toList", "toRead", "format"},
         Continue(w, from, to),
         listed' \in [Workers -> SUBSET Int32], writers' \subseteq writers, readers' \subseteq readers,
         UNCHANGED <<dirs, files, store, item>>
  PROVE  TypeOK' /\ Placed'
<1>1. Control'
  BY TypeParts, ContinueKeepsControl DEF Steps
<1>2. Data'
  BY TypeParts DEF Data, Continue
<1>3. Placed'
  BY TypeParts, EmptyHands DEF Continue, Steps
<1> QED
  BY <1>1, <1>2, <1>3, TypeParts

LEMMA LookingKeepsTypes ==
  ASSUME TypeOK, Placed, NEW w \in Workers,
         Refuse(w) \/ Look(w) \/ List(w) \/ Format(w) \/ Read(w) \/ OpenFails(w) \/ DeleteFails(w)
  PROVE  TypeOK' /\ Placed'
<1>1. /\ Reply(400, {}, "") \in Replies /\ Reply(404, {}, "") \in Replies
      /\ Reply(500, {}, "") \in Replies /\ Reply(200, {}, "") \in Replies
  BY PlainReplies
<1>2. listed \in [Workers -> SUBSET Int32]
  BY TypeParts DEF Data
<1>3. /\ "dispatch" \in Steps /\ "list" \in Steps /\ "format" \in Steps
      /\ "read" \in Steps /\ "open" \in Steps /\ "delete" \in Steps
  BY DEF Steps
<1>4. CASE Refuse(w)
  <2>1. /\ Answer(w, "dispatch", Reply(400, {}, ""))
        /\ UNCHANGED <<dirs, files, store, item, listed, writers, readers>>
    BY <1>4 DEF Refuse, AnswerError, tree, lock
  <2> QED
    BY <1>1, <1>2, <1>3, <2>1, AnswerKeepsTypes
<1>5. CASE Look(w)
  <2>1. /\ \/ \E to \in {"toList", "toRead"} : Continue(w, "dispatch", to)
           \/ Answer(w, "dispatch", Reply(404, {}, ""))
        /\ UNCHANGED <<dirs, files, store, item, listed, writers, readers>>
    BY <1>5 DEF Look, AnswerError, tree, lock
  <2>2. CASE Answer(w, "dispatch", Reply(404, {}, ""))
    BY <1>1, <1>2, <1>3, <2>1, <2>2, AnswerKeepsTypes
  <2>3. ASSUME NEW to \in {"toList", "toRead"}, Continue(w, "dispatch", to) PROVE TypeOK' /\ Placed'
    BY <1>2, <1>3, <2>1, <2>3, ContinueKeepsTypes
  <2> QED
    BY <2>1, <2>2, <2>3
<1>6. CASE List(w)
  <2>1. writers' \subseteq writers /\ readers' \subseteq readers /\ UNCHANGED <<dirs, files, store, item>>
    BY <1>6 DEF List, tree, Mutex!UnlockShared
  <2>2. CASE request[w].path \in DOMAIN store
    <3>1. [listed EXCEPT ![w] = store[request[w].path]] \in [Workers -> SUBSET Int32]
      BY <1>2, <2>2, TypeParts DEF Data
    <3>2. Continue(w, "list", "format") /\ listed' = [listed EXCEPT ![w] = store[request[w].path]]
      BY <1>6, <2>2 DEF List
    <3> QED
      BY <1>3, <2>1, <3>1, <3>2, ContinueKeepsTypes
  <2>3. CASE request[w].path \notin DOMAIN store
    <3>1. Answer(w, "list", Reply(404, {}, "")) /\ listed' = listed
      BY <1>6, <2>3 DEF List, AnswerError
    <3> QED
      BY <1>1, <1>2, <1>3, <2>1, <3>1, AnswerKeepsTypes
  <2> QED
    BY <2>2, <2>3
<1>7. CASE Format(w)
  <2>1. Reply(200, listed[w], "") \in Replies
    <3>1. listed[w] \in IdSets
      BY <1>2 DEF IdSets
    <3> QED
      BY <3>1, EmptyContents, StatusCodes, ReplyType
  <2>2. /\ Answer(w, "format", Reply(200, listed[w], ""))
        /\ UNCHANGED <<dirs, files, store, item, listed, writers, readers>>
    BY <1>7 DEF Format, tree, lock
  <2> QED
    BY <1>2, <1>3, <2>1, <2>2, AnswerKeepsTypes
<1>8. CASE Read(w)
  <2>1. /\ writers' = writers /\ readers' \subseteq readers
        /\ UNCHANGED <<dirs, files, store, item, listed>>
    BY <1>8 DEF Read, tree, Mutex!UnlockShared
  <2>2. \E r \in Replies : Answer(w, "read", r)
    <3> DEFINE path == request[w].path
    <3>1. path \in DOMAIN files => files[path] \in Contents
      BY TypeParts DEF Data
    <3>2. path \in DOMAIN files => Reply(200, {}, files[path]) \in Replies
      <4>1. \A status \in Statuses, body \in Contents : Reply(status, {}, body) \in Replies
        BY EmptyContents, ReplyType
      <4> QED
        BY <3>1, <4>1, StatusCodes
    <3>3. \/ path \in DOMAIN files /\ Answer(w, "read", Reply(200, {}, files[path]))
          \/ Answer(w, "read", Reply(200, {}, "")) \/ Answer(w, "read", Reply(404, {}, ""))
      BY <1>8, Zenon DEF Read, AnswerError
    <3> QED
      BY <1>1, <3>2, <3>3
  <2> QED
    BY <1>2, <1>3, <2>1, <2>2, AnswerKeepsTypes
<1>9. CASE OpenFails(w)
  <2>1. /\ Answer(w, "open", Reply(500, {}, ""))
        /\ writers' \subseteq writers /\ readers' = readers
        /\ UNCHANGED <<dirs, files, store, item, listed>>
    BY <1>9 DEF OpenFails, AnswerError, tree, Mutex!UnlockExclusive
  <2> QED
    BY <1>1, <1>2, <1>3, <2>1, AnswerKeepsTypes
<1>10. CASE DeleteFails(w)
  <2>1. Answer(w, "delete", Reply(404, {}, "")) \/ Answer(w, "delete", Reply(500, {}, ""))
    BY <1>10, Zenon DEF DeleteFails, AnswerError
  <2>2. /\ writers' \subseteq writers /\ readers' = readers
        /\ UNCHANGED <<dirs, files, store, item, listed>>
    BY <1>10 DEF DeleteFails, tree, Mutex!UnlockExclusive
  <2> QED
    <3>1. CASE Answer(w, "delete", Reply(404, {}, ""))
      BY <1>1, <1>2, <1>3, <2>2, <3>1, AnswerKeepsTypes
    <3>2. CASE Answer(w, "delete", Reply(500, {}, ""))
      BY <1>1, <1>2, <1>3, <2>2, <3>2, AnswerKeepsTypes
    <3> QED
      BY <2>1, <3>1, <3>2
<1> QED
  BY <1>4, <1>5, <1>6, <1>7, <1>8, <1>9, <1>10

(* The steps that write.                                                   *)
LEMMA WritingKeepsTypes ==
  ASSUME TypeOK, Placed, NEW w \in Workers,
         Load(w) \/ Post(w) \/ Put(w) \/ Open(w) \/ Write(w) \/ Delete(w)
  PROVE  TypeOK' /\ Placed'
<1> DEFINE path == request[w].path
<1>1. Control /\ Data
  BY TypeParts
<1>2. path \in Paths /\ request[w].body \in Contents
  BY <1>1, RequestType DEF Control
<1>3. /\ item[w] \in Paths
      /\ item[w] # <<>> => Parent(item[w]) \in Paths /\ Name(item[w]) \in Components
  BY <1>1, ParentAndName DEF Data
<1>4. {"load", "dispatch", "post", "put", "open", "write", "delete", "idle"} \subseteq Steps
  BY DEF Steps
<1>5. CASE Load(w)
  <2>1. /\ Continue(w, "load", "dispatch") /\ dirs' = dirs \union {<<>>}
        /\ writers' \subseteq writers /\ readers' = readers
        /\ UNCHANGED <<files, item, listed>>
    BY <1>5 DEF Load, Mutex!UnlockExclusive
  <2>2. Control'
    BY <1>1, <1>4, <2>1, ContinueKeepsControl
  <2>3. \A p \in NumericFiles : p \in Paths /\ p # <<>> /\ Name(p) \in Int32
    BY <1>1 DEF NumericFiles, Data
  <2>4. \A p \in NumericFiles : LoadedName(p) \in Paths
    BY <2>3, ParentAndName, TruncateType DEF LoadedName
  <2>5. \A n \in DOMAIN store' : n \in Paths /\ store'[n] \in SUBSET Int32
    <3> TAKE n \in DOMAIN store'
    <3>1. store' = [m \in DOMAIN store \union {LoadedName(p) : p \in NumericFiles} |->
                      Entry(m) \union {Name(p) : p \in {q \in NumericFiles : LoadedName(q) = m}}]
      BY <1>5 DEF Load
    <3>2. n \in DOMAIN store \/ \E p \in NumericFiles : n = LoadedName(p)
      BY <3>1
    <3>3. n \in Paths
      BY <1>1, <2>4, <3>2 DEF Data
    <3>4. store'[n] = Entry(n) \union {Name(p) : p \in {q \in NumericFiles : LoadedName(q) = n}}
      BY <3>1, <3>2
    <3> QED
      BY <2>3, <3>3, <3>4, EntryType
  <2>6. Data'
    BY <1>1, <2>1, <2>5, EmptySeq DEF Data, Paths, Continue
  <2>7. Placed'
    BY <1>1, <1>4, <2>1, EmptyHands DEF Continue
  <2> QED
    BY <2>2, <2>6, <2>7, TypeParts
<1>6. ASSUME NEW n \in Paths, MakeDirs(n)
      PROVE  dirs' \subseteq Paths
  <2>1. \A p \in Paths : Prefixes(p) \subseteq Paths
    <3> SUFFICES ASSUME NEW p \in Paths, NEW k \in 0 .. Len(p) PROVE SubSeq(p, 1, k) \in Paths
      BY DEF Prefixes
    <3>1. /\ Len(p) \in Nat /\ 1 \in Int /\ k \in Int
          /\ \A i \in 1 .. k : p[i] \in Components
      BY LenProperties, ElementOfSeq DEF Paths
    <3> QED
      BY <3>1, SubSeqProperties DEF Paths
  <2> QED
    BY <1>1, <1>6, <2>1 DEF MakeDirs, Data
<1>7. CASE Post(w)
  <2> DEFINE next == NextId(Entry(path))
  <2>1. next \in Int32
    BY EntryType, NextIdIsFresh
  <2>2. /\ Append(path, next) \in Paths /\ Append(path, next) # <<>>
        /\ Name(Append(path, next)) = next
    BY <1>2, <2>1, AppendToPath DEF Components
  <2>3. /\ Continue(w, "post", "open") /\ store' = WithEntry(path, Entry(path)) /\ MakeDirs(path)
        /\ item' = [item EXCEPT ![w] = Append(path, next)]
        /\ UNCHANGED <<files, listed, writers, readers>>
    BY <1>7 DEF Post, lock
  <2> HIDE DEF next
  <2>4. Control'
    BY <1>1, <1>4, <2>3, ContinueKeepsControl
  <2>5. Data'
    <3>1. \A n \in DOMAIN store' : n \in Paths /\ store'[n] \in SUBSET Int32
      <4>1. Entry(path) \in SUBSET Int32
        BY EntryType
      <4> HIDE DEF path
      <4> QED
        BY <1>2, <2>3, <4>1, WithEntryType DEF Paths
    <3>2. dirs' \subseteq Paths
      BY <1>2, <1>6, <2>3
    <3> QED
      BY <1>1, <2>2, <2>3, <3>1, <3>2 DEF Data, Continue
  <2>6. Placed'
    <3>1. pc' = [pc EXCEPT ![w] = "open"] /\ request' = request
      BY <2>3 DEF Continue, Goto
    <3> QED
      BY <1>1, <2>1, <2>2, <2>3, <3>1 DEF Placed, Control, Data
  <2> QED
    BY <2>4, <2>5, <2>6, TypeParts
<1>8. CASE Put(w)
  <2>1. /\ Continue(w, "put", "open") /\ MakeDirs(Parent(path))
        /\ item' = [item EXCEPT ![w] = path]
        /\ UNCHANGED <<files, store, listed, writers, readers>>
    BY <1>8 DEF Put, lock
  <2>2. path # <<>> /\ Name(path) \in Int32
    BY <2>1 DEF Placed, Continue, Goto, IdOf
  <2>3. Control'
    BY <1>1, <1>4, <2>1, ContinueKeepsControl
  <2>4. Data'
    <3>1. dirs' \subseteq Paths
      BY <1>2, <1>6, <2>1, <2>2, ParentAndName
    <3> QED
      BY <1>1, <1>2, <2>1, <3>1 DEF Data, Continue
  <2>5. Placed'
    <3>1. pc' = [pc EXCEPT ![w] = "open"] /\ request' = request
      BY <2>1 DEF Continue, Goto
    <3> QED
      BY <1>1, <2>1, <2>2, <3>1 DEF Placed, Control, Data
  <2> QED
    BY <2>3, <2>4, <2>5, TypeParts
<1>9. CASE Open(w)
  <2>1. /\ Continue(w, "open", "write")
        /\ files' = [p \in DOMAIN files \union {item[w]} |-> IF p = item[w] THEN Torn ELSE files[p]]
        /\ UNCHANGED <<dirs, store, item, listed, writers, readers>>
    BY <1>9 DEF Open, lock
  <2>2. Control'
    BY <1>1, <1>4, <2>1, ContinueKeepsControl
  <2>3. Data'
    BY <1>1, <1>3, <2>1, EmptyContents DEF Data, Continue
  <2>4. Placed'
    <3>1. pc' = [pc EXCEPT ![w] = "write"] /\ request' = request /\ pc[w] = "open"
      BY <2>1 DEF Continue, Goto
    <3> QED
      BY <1>1, <2>1, <3>1 DEF Placed, Control
  <2> QED
    BY <2>2, <2>3, <2>4, TypeParts
<1>10. CASE Write(w)
  <2> DEFINE r == IF request[w].method = "POST" THEN Reply(201, {Name(item[w])}, "") ELSE Reply(200, {}, "")
             name == Parent(item[w])
  <2>1. /\ Answer(w, "write", r)
        /\ \E c \in {request[w].body, Torn} : files' = [files EXCEPT ![item[w]] = c]
        /\ store' = WithEntry(name, Entry(name) \union {Name(item[w])})
        /\ writers' \subseteq writers /\ readers' = readers
        /\ UNCHANGED <<dirs, item, listed>>
    BY <1>10 DEF Write, Mutex!UnlockExclusive
  <2>2. item[w] # <<>> /\ Name(item[w]) \in Int32
    BY <2>1 DEF Placed, Answer, Goto
  <2>3. r \in Replies
    <3>1. {Name(item[w])} \in IdSets
      BY <2>2 DEF IdSets
    <3>2. Reply(201, {Name(item[w])}, "") \in Replies
      BY <3>1, EmptyContents, StatusCodes, ReplyType
    <3> QED
      BY <3>2, PlainReplies
  <2>4. name \in Paths /\ Entry(name) \union {Name(item[w])} \in SUBSET Int32
    BY <1>3, <2>2, EntryType
  <2> HIDE DEF r, name
  <2>5. Control'
    BY <1>1, <1>4, <2>1, <2>3, AnswerKeepsControl
  <2>6. DOMAIN files' = DOMAIN files /\ \A p \in DOMAIN files' : files'[p] \in Contents
    BY <1>1, <1>2, <2>1, EmptyContents DEF Data
  <2>7. Data'
    BY <1>1, <2>1, <2>4, <2>6, WithEntryType DEF Data, Answer, Paths
  <2>8. Placed'
    BY <1>1, <1>4, <2>1, EmptyHands DEF Answer
  <2> QED
    BY <2>5, <2>7, <2>8, TypeParts
<1>11. CASE Delete(w)
  <2> DEFINE name == Parent(path)
  <2>1. /\ Answer(w, "delete", Reply(200, {}, "")) /\ path # <<>>
        /\ dirs' = dirs \ {path} /\ files' = [p \in DOMAIN files \ {path} |-> files[p]]
        /\ store' = WithEntry(name, Entry(name) \ {IdOf(path)})
        /\ writers' \subseteq writers /\ readers' = readers
        /\ UNCHANGED <<item, listed>>
    BY <1>11 DEF Delete, Mutex!UnlockExclusive
  <2>2. name \in Paths /\ Entry(name) \ {IdOf(path)} \in SUBSET Int32
    BY <1>2, <2>1, ParentAndName, EntryType
  <2>3. Reply(200, {}, "") \in Replies
    BY PlainReplies
  <2> HIDE DEF name
  <2>4. Control'
    BY <1>1, <1>4, <2>1, <2>3, AnswerKeepsControl
  <2>5. Data'
    BY <1>1, <2>1, <2>2, WithEntryType DEF Data, Answer, Paths
  <2>6. Placed'
    BY <1>1, <1>4, <2>1, EmptyHands DEF Answer
  <2> QED
    BY <2>4, <2>5, <2>6, TypeParts
<1> QED
  BY <1>5, <1>7, <1>8, <1>9, <1>10, <1>11

(* A request arrives.                                                      *)
LEMMA ReceiveKeepsTypes ==
  ASSUME TypeOK, Placed, NEW w \in Workers, NEW r \in Requests, Receive(w, r)
  PROVE  TypeOK' /\ Placed'
<1>1. /\ Control /\ Data
      /\ arrivals > 0 /\ arrivals' = arrivals - 1
      /\ pc' = [pc EXCEPT ![w] = "arrived"]
      /\ request' = [request EXCEPT ![w] = r]
      /\ reply' = [reply EXCEPT ![w] = NoReply]
      /\ UNCHANGED <<dirs, files, store, writers, readers, item, listed, up, mine>>
  BY TypeParts DEF Receive, Goto, tree, lock
<1>2. Control'
  <2>1. arrivals' \in Nat
    BY <1>1 DEF Control
  <2>2. pc' \in [Workers -> Steps] /\ request' \in [Workers -> Requests \union {NoRequest}]
    BY <1>1 DEF Control, Steps
  <2>3. reply' \in [Workers -> Replies]
    BY <1>1, PlainReplies DEF Control
  <2> QED
    BY <1>1, <2>1, <2>2, <2>3 DEF Control
<1>3. Data'
  BY <1>1 DEF Data
<1>4. Placed'
  BY <1>1 DEF Placed, Control, IdOf, Name
<1> QED
  BY <1>2, <1>3, <1>4, TypeParts

LEMMA TypesKept ==
  ASSUME TypeOK, Placed, [Next]_vars
  PROVE  TypeOK' /\ Placed'
<1> DEFINE Good == TypeOK' /\ Placed'
<1>1. CASE UNCHANGED vars
  BY <1>1 DEF vars, tree, lock, TypeOK, Placed, IdOf, Name
<1>2. ASSUME NEW w \in Workers, NEW r \in Requests, Receive(w, r) PROVE Good
  BY <1>2, ReceiveKeepsTypes
<1>3. CASE Signal
  BY <1>3, TerminateKeepsTypes DEF Signal
<1>4. CASE Restart
  BY <1>4 DEF Restart, tree, lock, TypeOK, Placed, IdOf, Name
<1>5. ASSUME NEW w \in Workers,
             LockLoad(w) \/ LockPost(w) \/ LockPut(w) \/ LockDelete(w) \/ LockList(w) \/ LockRead(w)
      PROVE  Good
  BY <1>5, AcquireKeepsTypes DEF LockLoad, LockPost, LockPut, LockDelete, LockList, LockRead, Steps
<1>6. ASSUME NEW w \in Workers, WriteThrows(w) \/ DeleteThrows(w) \/ FormatThrows(w) PROVE Good
  BY <1>6, TerminateKeepsTypes DEF WriteThrows, DeleteThrows, FormatThrows
<1>7. ASSUME NEW w \in Workers, Run(w) PROVE Good
  BY <1>5, <1>6, <1>7, LookingKeepsTypes, WritingKeepsTypes DEF Run, Modify, Get
<1> QED
  BY <1>1, <1>2, <1>3, <1>4, <1>7 DEF Next

LEMMA TypesPlaced == Spec => [](TypeOK /\ Placed)
BY TypesAtStart, TypesKept, PTL DEF Spec

(* Every variable keeps its type whatever the requests, the tree and the   *)
(* disk do, ids included: the addition that makes them never leaves int.   *)
THEOREM ApiTypeCorrect == Spec => []TypeOK
BY TypesPlaced, PTL

-----------------------------------------------------------------------------
(* Layer 2: the lock.                                                      *)

(* api_lock is held by the workers whose step needs it, and by them alone: *)
(* one writer and no reader, or readers only.                              *)
LockHeld ==
  /\ writers = {w \in Workers : pc[w] \in ExclusiveSteps}
  /\ readers = {w \in Workers : pc[w] \in SharedSteps}
  /\ \A v, w \in writers : v = w
  /\ writers # {} => readers = {}

LEMMA LockKept ==
  ASSUME TypeOK, LockHeld, [Next]_vars
  PROVE  LockHeld'
<1> USE DEF LockHeld, ExclusiveSteps, SharedSteps
<1>0. pc \in [Workers -> Steps]
  BY DEF TypeOK
<1>1. CASE UNCHANGED vars \/ Restart
  BY <1>1 DEF vars, lock, Restart
<1>2. ASSUME Terminate PROVE LockHeld'
  BY <1>2 DEF Terminate, Mutex!ResetMutex
<1>3. ASSUME NEW w \in Workers, NEW from \in {"idle", "arrived", "dispatch", "format", "post", "put", "open"},
             NEW to \in {"arrived", "idle", "toList", "toRead", "open", "write"},
             from \in {"post", "put", "open"} <=> to \in {"open", "write"},
             Goto(w, from, to), UNCHANGED lock
      PROVE  LockHeld'
  BY <1>0, <1>3 DEF Goto, lock
<1>4. ASSUME NEW w \in Workers, NEW from \in {"arrived", "dispatch"},
             NEW to \in {"load", "post", "put", "delete"}, Acquire(w, from, to)
      PROVE  LockHeld'
  BY <1>0, <1>4 DEF Acquire, Continue, Goto, Mutex!LockExclusive
<1>5. ASSUME NEW w \in Workers, NEW from \in {"toList", "toRead"}, NEW to \in {"list", "read"}, Acquire(w, from, to)
      PROVE  LockHeld'
  BY <1>0, <1>5 DEF Acquire, Continue, Goto, Mutex!LockShared
<1>6. ASSUME NEW w \in Workers, NEW from \in {"load", "open", "write", "delete"}, NEW to \in {"dispatch", "idle"},
             Goto(w, from, to), Mutex!UnlockExclusive(w)
      PROVE  LockHeld'
  BY <1>0, <1>6 DEF Goto, Mutex!UnlockExclusive
<1>7. ASSUME NEW w \in Workers, NEW from \in {"list", "read"}, NEW to \in {"format", "idle"},
             Goto(w, from, to), Mutex!UnlockShared(w)
      PROVE  LockHeld'
  BY <1>0, <1>7 DEF Goto, Mutex!UnlockShared
<1>8. ASSUME NEW w \in Workers, NEW r \in Requests, Receive(w, r) PROVE LockHeld'
  BY <1>3, <1>8 DEF Receive
<1>9. ASSUME NEW w \in Workers, LockLoad(w) \/ LockPost(w) \/ LockPut(w) \/ LockDelete(w) PROVE LockHeld'
  BY <1>4, <1>9 DEF LockLoad, LockPost, LockPut, LockDelete
<1>10. ASSUME NEW w \in Workers, LockList(w) \/ LockRead(w) PROVE LockHeld'
  BY <1>5, <1>10 DEF LockList, LockRead
<1>11. ASSUME NEW w \in Workers, Refuse(w) \/ Look(w) \/ Format(w) PROVE LockHeld'
  <2>1. UNCHANGED lock /\ \E from \in {"dispatch", "format"}, to \in {"idle", "toList", "toRead"} : Goto(w, from, to)
    BY <1>11, Zenon DEF Refuse, Look, Format, AnswerError, Answer, Continue
  <2> QED
    BY <1>3, <2>1
<1>12. ASSUME NEW w \in Workers, Post(w) \/ Put(w) \/ Open(w) PROVE LockHeld'
  <2>1. UNCHANGED lock /\ (Goto(w, "post", "open") \/ Goto(w, "put", "open") \/ Goto(w, "open", "write"))
    BY <1>12, Zenon DEF Post, Put, Open, Continue
  <2> QED
    BY <1>3, <2>1
<1>13. ASSUME NEW w \in Workers, Load(w) \/ OpenFails(w) \/ Write(w) \/ Delete(w) \/ DeleteFails(w) PROVE LockHeld'
  <2>1. /\ Mutex!UnlockExclusive(w)
        /\ \/ Goto(w, "load", "dispatch") \/ Goto(w, "open", "idle")
           \/ Goto(w, "write", "idle") \/ Goto(w, "delete", "idle")
    BY <1>13, Zenon DEF Load, OpenFails, Write, Delete, DeleteFails, AnswerError, Answer, Continue
  <2> QED
    BY <1>6, <2>1
<1>14. ASSUME NEW w \in Workers, List(w) \/ Read(w) PROVE LockHeld'
  <2>1. /\ Mutex!UnlockShared(w)
        /\ Goto(w, "list", "format") \/ Goto(w, "list", "idle") \/ Goto(w, "read", "idle")
    BY <1>14, Zenon DEF List, Read, AnswerError, Answer, Continue
  <2> QED
    BY <1>7, <2>1
<1>15. ASSUME NEW w \in Workers, WriteThrows(w) \/ DeleteThrows(w) \/ FormatThrows(w) PROVE LockHeld'
  BY <1>2, <1>15 DEF WriteThrows, DeleteThrows, FormatThrows
<1>16. CASE Signal
  BY <1>2, <1>16 DEF Signal
<1>17. ASSUME NEW w \in Workers, Run(w) PROVE LockHeld'
  BY <1>9, <1>10, <1>11, <1>12, <1>13, <1>14, <1>15, <1>17 DEF Run, Modify, Get
<1> QED
  BY <1>1, <1>8, <1>16, <1>17 DEF Next

(* No two handlers are inside api_lock at once when one of them writes,    *)
(* whatever path each has taken: no return keeps the lock and none gives   *)
(* it up early.                                                            *)
LEMMA LockIsHeld == Spec => []LockHeld
<1>1. Init => LockHeld
  BY DEF Init, LockHeld, ExclusiveSteps, SharedSteps
<1> QED
  BY <1>1, TypesPlaced, LockKept, PTL DEF Spec

LEMMA OneWriter ==
  ASSUME LockHeld, NEW v \in Workers, NEW w \in Workers,
         pc[v] \in ExclusiveSteps, pc[w] \in ExclusiveSteps
  PROVE  v = w
BY DEF LockHeld

-----------------------------------------------------------------------------
(* Layer 3: the files, the map and the next id.                            *)

(* Every file this process opened to write is named by a number.           *)
MineNumbered == \A p \in mine : p # <<>> /\ Name(p) \in Int32

(* The map knows such a file, or a worker is about to tell it; -1 excepted.*)
Mapped ==
  \A p \in mine \intersect DOMAIN files :
    \/ Name(p) = -1 \/ Name(p) \in Entry(Parent(p))
    \/ \E w \in Workers : pc[w] = "write" /\ item[w] = p

(* A create that is about to open its file still has the next id: nobody   *)
(* changes the map between the moment it took it and the opening.          *)
OpensNextId ==
  \A w \in Workers : pc[w] = "open" /\ request[w].method = "POST" =>
    item[w] = Append(request[w].path, NextId(Entry(request[w].path)))

MapInv == FilesAreNumbered /\ MineNumbered /\ Mapped /\ OpensNextId

(* Steps that leave files, map and what is being written alone.            *)
LEMMA QuietKeepsMap ==
  ASSUME TypeOK, MapInv, UNCHANGED <<files, store, mine>>,
         \A w \in Workers : /\ pc[w] = "write" => pc'[w] = "write" /\ item'[w] = item[w]
                            /\ pc'[w] = "open" => /\ pc[w] = "open" /\ item'[w] = item[w]
                                                  /\ request'[w] = request[w]
  PROVE  MapInv'
<1> USE DEF MapInv
<1>1. \A n : Entry(n)' = Entry(n)
  BY DEF Entry
<1>2. FilesAreNumbered' /\ MineNumbered'
  BY DEF FilesAreNumbered, MineNumbered
<1>3. Mapped'
  BY <1>1 DEF Mapped
<1>4. OpensNextId'
  BY <1>1 DEF OpensNextId
<1> QED
  BY <1>2, <1>3, <1>4

LEMMA TerminateKeepsMap ==
  ASSUME MapInv, Terminate
  PROVE  MapInv'
BY DEF MapInv, FilesAreNumbered, MineNumbered, Mapped, OpensNextId, Terminate

(* Files of this process by name.                                          *)
LEMMA SameNameSameFile ==
  ASSUME NEW p \in Paths, NEW q \in Paths, p # <<>>, q # <<>>,
         Parent(p) = Parent(q), Name(p) = Name(q)
  PROVE  p = q
BY ParentAndName

(* Worker w alone is inside the lock for writing, and its step shows in    *)
(* the map or in the files.                                                *)
LEMMA WritingKeepsMap ==
  ASSUME TypeOK, Placed, LockHeld, MapInv, NEW w \in Workers,
         Load(w) \/ Post(w) \/ Open(w) \/ Write(w) \/ Delete(w)
  PROVE  MapInv'
<1> DEFINE path == request[w].path
<1>1. Data /\ pc \in [Workers -> Steps] /\ item \in [Workers -> Paths] /\ path \in Paths
  BY TypeParts, RequestType DEF Control, Data
<1>2. pc[w] \in ExclusiveSteps
  BY DEF Load, Post, Open, Write, Delete, Continue, Answer, Goto, ExclusiveSteps
<1>3. \A v \in Workers \ {w} : pc[v] \notin {"open", "write"}
  BY <1>2, OneWriter DEF ExclusiveSteps
<1>4. \A p \in mine \intersect DOMAIN files :
        Name(p) = -1 \/ Name(p) \in Entry(Parent(p)) \/ (pc[w] = "write" /\ item[w] = p)
  <2> TAKE p \in mine \intersect DOMAIN files
  <2>1. \/ Name(p) = -1 \/ Name(p) \in Entry(Parent(p))
        \/ \E v \in Workers : pc[v] = "write" /\ item[v] = p
    BY DEF MapInv, Mapped
  <2>2. \A v \in Workers : pc[v] = "write" => v = w
    BY <1>3
  <2> QED
    BY <2>1, <2>2
<1>5. request' = request
  BY DEF Load, Post, Open, Write, Delete, Continue, Answer
<1>6. CASE Load(w)
  <2>1. /\ pc' = [pc EXCEPT ![w] = "dispatch"] /\ pc[w] = "load" /\ UNCHANGED <<files, mine>>
        /\ store' = [n \in DOMAIN store \union {LoadedName(p) : p \in NumericFiles} |->
                       Entry(n) \union {Name(p) : p \in {q \in NumericFiles : LoadedName(q) = n}}]
    BY <1>6 DEF Load, Continue, Goto
  <2>2. \A n : Entry(n) \subseteq Entry(n)'
    BY <2>1 DEF Entry
  <2>3. Mapped'
    BY <1>4, <2>1, <2>2 DEF Mapped
  <2>4. OpensNextId'
    BY <1>1, <1>3, <2>1 DEF OpensNextId
  <2> QED
    BY <2>1, <2>3, <2>4 DEF MapInv, FilesAreNumbered, MineNumbered
<1>7. CASE Post(w)
  <2> DEFINE next == NextId(Entry(path))
  <2>1. /\ pc' = [pc EXCEPT ![w] = "open"] /\ pc[w] = "post" /\ UNCHANGED <<files, mine>>
        /\ store' = WithEntry(path, Entry(path)) /\ item' = [item EXCEPT ![w] = Append(path, next)]
    BY <1>7 DEF Post, Continue, Goto
  <2>2. \A n : Entry(n)' = Entry(n)
    BY <2>1 DEF Entry, WithEntry
  <2>3. Mapped'
    BY <1>4, <2>1, <2>2 DEF Mapped
  <2>4. item'[w] = Append(path, next)
    BY <1>1, <2>1
  <2>5. OpensNextId'
    BY <1>1, <1>3, <1>5, <2>1, <2>2, <2>4 DEF OpensNextId
  <2> QED
    BY <2>1, <2>3, <2>5 DEF MapInv, FilesAreNumbered, MineNumbered
<1>8. CASE Open(w)
  <2>1. /\ pc' = [pc EXCEPT ![w] = "write"] /\ pc[w] = "open" /\ mine' = mine \union {item[w]}
        /\ UNCHANGED <<store, item>>
        /\ files' = [p \in DOMAIN files \union {item[w]} |-> IF p = item[w] THEN Torn ELSE files[p]]
    BY <1>8 DEF Open, Continue, Goto
  <2>2. item[w] # <<>> /\ Name(item[w]) \in Int32
    BY <2>1 DEF Placed
  <2>3. FilesAreNumbered' /\ MineNumbered'
    BY <2>1, <2>2 DEF MapInv, FilesAreNumbered, MineNumbered
  <2>4. \A n : Entry(n)' = Entry(n)
    BY <2>1 DEF Entry
  <2>5. Mapped'
    <3>1. pc'[w] = "write" /\ item'[w] = item[w]
      BY <1>1, <2>1
    <3>2. mine' \intersect DOMAIN files' \subseteq (mine \intersect DOMAIN files) \union {item[w]}
                                                   \union (mine \intersect {item[w]})
      BY <2>1
    <3> QED
      BY <1>4, <2>1, <2>4, <3>1, <3>2 DEF Mapped
  <2>6. OpensNextId'
    BY <1>1, <1>3, <2>1 DEF OpensNextId
  <2> QED
    BY <2>3, <2>5, <2>6 DEF MapInv
<1>9. CASE Write(w)
  <2> DEFINE name == Parent(item[w])
  <2>1. /\ pc' = [pc EXCEPT ![w] = "idle"] /\ pc[w] = "write" /\ UNCHANGED <<mine, item>>
        /\ DOMAIN files' = DOMAIN files
        /\ store' = WithEntry(name, Entry(name) \union {Name(item[w])})
    BY <1>9 DEF Write, Answer, Goto
  <2>2. \A n : Entry(n) \subseteq Entry(n)'
    BY <2>1 DEF Entry, WithEntry
  <2>3. Name(item[w]) \in Entry(name)'
    BY <2>1 DEF Entry, WithEntry
  <2>4. Mapped'
    BY <1>4, <2>1, <2>2, <2>3 DEF Mapped
  <2>5. OpensNextId'
    BY <1>1, <1>3, <2>1 DEF OpensNextId
  <2> QED
    BY <2>1, <2>4, <2>5 DEF MapInv, FilesAreNumbered, MineNumbered
<1>10. CASE Delete(w)
  <2> DEFINE name == Parent(path)
  <2>1. /\ pc' = [pc EXCEPT ![w] = "idle"] /\ pc[w] = "delete" /\ mine' = mine
        /\ path # <<>> /\ files' = [p \in DOMAIN files \ {path} |-> files[p]]
        /\ store' = WithEntry(name, Entry(name) \ {IdOf(path)})
    BY <1>10 DEF Delete, Answer, Goto
  <2>2. \A n, id : id \in Entry(n) /\ (n # name \/ id # IdOf(path)) => id \in Entry(n)'
    BY <2>1 DEF Entry, WithEntry
  <2>3. ASSUME NEW p \in mine \intersect DOMAIN files, p # path
        PROVE  Name(p) = -1 \/ Name(p) \in Entry(Parent(p))'
    <3>1. p \in Paths /\ p # <<>> /\ Name(p) \in Int32
      BY <1>1 DEF MapInv, MineNumbered, Data
    <3>2. Name(p) = -1 \/ Name(p) \in Entry(Parent(p))
      BY <1>4, <2>1
    <3>3. Parent(p) = name /\ Name(p) = IdOf(path) => Name(p) = -1
      BY <1>1, <2>1, <2>3, <3>1, SameNameSameFile DEF IdOf
    <3> QED
      BY <2>2, <3>2, <3>3
  <2>4. Mapped'
    BY <2>1, <2>3 DEF Mapped
  <2>5. OpensNextId'
    BY <1>1, <1>3, <2>1 DEF OpensNextId
  <2> QED
    BY <2>1, <2>4, <2>5 DEF MapInv, FilesAreNumbered, MineNumbered
<1> QED
  BY <1>6, <1>7, <1>8, <1>9, <1>10

LEMMA MapKept ==
  ASSUME TypeOK, Placed, LockHeld, MapInv, [Next]_vars
  PROVE  MapInv'
<1>0. pc \in [Workers -> Steps] /\ item \in [Workers -> Paths]
  BY TypeParts DEF Control, Data
<1>1. CASE UNCHANGED vars \/ Restart
  BY <1>1, QuietKeepsMap DEF vars, tree, Restart
<1>2. ASSUME Terminate PROVE MapInv'
  BY <1>2, TerminateKeepsMap
<1>3. ASSUME NEW w \in Workers, NEW from \in Steps \ {"write"}, NEW to \in Steps \ {"open", "write"},
             Goto(w, from, to), UNCHANGED <<files, store, mine, item>>,
             \A v \in Workers \ {w} : request'[v] = request[v]
      PROVE  MapInv'
  BY <1>0, <1>3, QuietKeepsMap DEF Goto
<1>4. ASSUME NEW w \in Workers, NEW r \in Requests, Receive(w, r) PROVE MapInv'
  <2>1. request' = [request EXCEPT ![w] = r] /\ Goto(w, "idle", "arrived") /\ UNCHANGED <<files, store, mine, item>>
    BY <1>4 DEF Receive, tree
  <2>2. \A v \in Workers \ {w} : request'[v] = request[v]
    BY <2>1 DEF TypeOK
  <2> QED
    BY <1>3, <2>1, <2>2 DEF Steps
<1>5. ASSUME NEW w \in Workers, NEW from \in Steps \ {"write"}, NEW to \in Steps \ {"open", "write"},
             Acquire(w, from, to)
      PROVE  MapInv'
  BY <1>3, <1>5 DEF Acquire, Continue, tree
<1>6. ASSUME NEW w \in Workers,
             LockLoad(w) \/ LockPost(w) \/ LockPut(w) \/ LockDelete(w) \/ LockList(w) \/ LockRead(w)
      PROVE  MapInv'
  BY <1>5, <1>6 DEF LockLoad, LockPost, LockPut, LockDelete, LockList, LockRead, Steps
<1>7. ASSUME NEW w \in Workers,
             Refuse(w) \/ Look(w) \/ Format(w) \/ List(w) \/ Read(w) \/ OpenFails(w) \/ DeleteFails(w)
      PROVE  MapInv'
  <2>1. UNCHANGED <<files, store, item>>
    BY <1>7 DEF Refuse, Look, Format, List, Read, OpenFails, DeleteFails, tree
  <2>2. /\ Refuse(w) => \E r : Answer(w, "dispatch", r)
        /\ Look(w) => \/ Continue(w, "dispatch", "toList") \/ Continue(w, "dispatch", "toRead")
                      \/ \E r : Answer(w, "dispatch", r)
        /\ Format(w) => \E r : Answer(w, "format", r)
    BY Zenon DEF Refuse, Look, Format, AnswerError
  <2>3. /\ List(w) => Continue(w, "list", "format") \/ \E r : Answer(w, "list", r)
        /\ Read(w) => \E r : Answer(w, "read", r)
        /\ OpenFails(w) => \E r : Answer(w, "open", r)
        /\ DeleteFails(w) => \E r : Answer(w, "delete", r)
    BY Zenon DEF List, Read, OpenFails, DeleteFails, AnswerError
  <2>4. /\ request' = request /\ mine' = mine
        /\ \E from \in Steps \ {"write"}, to \in Steps \ {"open", "write"} : Goto(w, from, to)
    BY <1>7, <2>2, <2>3 DEF Answer, Continue, Steps
  <2> QED
    BY <1>3, <2>1, <2>4
<1>8. ASSUME NEW w \in Workers, Put(w) PROVE MapInv'
  <2>1. /\ pc' = [pc EXCEPT ![w] = "open"] /\ pc[w] = "put" /\ request' = request
        /\ UNCHANGED <<files, store, mine>> /\ item' = [item EXCEPT ![w] = request[w].path]
    BY <1>8 DEF Put, Continue, Goto
  <2>2. request[w].method = "PUT"
    BY <2>1 DEF Placed
  <2>3. OpensNextId'
    BY <1>0, <2>1, <2>2 DEF MapInv, OpensNextId, Entry
  <2>4. Mapped'
    BY <1>0, <2>1 DEF MapInv, Mapped, Entry
  <2> QED
    BY <2>1, <2>3, <2>4 DEF MapInv, FilesAreNumbered, MineNumbered
<1>9. ASSUME NEW w \in Workers, WriteThrows(w) \/ DeleteThrows(w) \/ FormatThrows(w) PROVE MapInv'
  BY <1>2, <1>9 DEF WriteThrows, DeleteThrows, FormatThrows
<1>10. CASE Signal
  BY <1>2, <1>10 DEF Signal
<1>11. ASSUME NEW w \in Workers, Run(w) PROVE MapInv'
  BY <1>6, <1>7, <1>8, <1>9, <1>11, WritingKeepsMap DEF Run, Modify, Get
<1> QED
  BY <1>1, <1>4, <1>10, <1>11 DEF Next

LEMMA MapStays == Spec => [](TypeOK /\ Placed /\ LockHeld /\ MapInv)
<1>1. Init => MapInv
  BY DEF Init, MapInv, FilesAreNumbered, MineNumbered, Mapped, OpensNextId
<1> QED
  BY <1>1, TypesPlaced, LockIsHeld, MapKept, PTL DEF Spec

(* Every file the handlers make is named by a number, wherever the target  *)
(* of the request pointed.                                                 *)
THEOREM ApiFilesAreNumbered == Spec => []FilesAreNumbered
BY MapStays, PTL DEF MapInv

(* json_storage_ knows every file this process has written as soon as no   *)
(* writer holds api_lock: -1 is the one id it can lose.                    *)
THEOREM ApiMapKnowsOwnFiles == Spec => []MapKnowsOwnFiles
<1>1. LockHeld /\ MapInv => MapKnowsOwnFiles
  BY DEF LockHeld, MapInv, Mapped, MapKnowsOwnFiles, ExclusiveSteps
<1> QED
  BY <1>1, MapStays, PTL

(* A create overwrites no file of this process before the ids reach the    *)
(* end of int, but for the file -1.                                        *)
THEOREM ApiCreateTakesFreshId == Spec => CreateTakesFreshId
<1>1. TypeOK /\ Placed /\ LockHeld /\ MapInv /\ [Next]_vars =>
        [\A w \in Workers :
           pc[w] = "open" /\ pc'[w] = "write" /\ request[w].method = "POST" /\ item[w] \in mine \intersect DOMAIN files
             => MaxInt \in Entry(Parent(item[w])) \/ Name(item[w]) = -1]_vars
  <2> SUFFICES ASSUME TypeOK, LockHeld, MapInv, NEW w \in Workers, pc[w] = "open", request[w].method = "POST",
                      item[w] \in mine \intersect DOMAIN files,
                      MaxInt \notin Entry(Parent(item[w]))
               PROVE  Name(item[w]) = -1
    OBVIOUS
  <2> DEFINE name == request[w].path
             next == NextId(Entry(name))
  <2>1. name \in Paths /\ Entry(name) \in SUBSET Int32
    BY RequestType, EntryType DEF TypeOK
  <2>2. item[w] = Append(name, next)
    BY DEF MapInv, OpensNextId
  <2>3. next \in Int32 /\ (MaxInt \notin Entry(name) => next \notin Entry(name))
    BY <2>1, NextIdIsFresh
  <2>4. Parent(item[w]) = name /\ Name(item[w]) = next
    BY <2>1, <2>2, <2>3, AppendToPath DEF Components
  <2>5. next \notin Entry(name)
    BY <2>3, <2>4
  <2>6. ~ \E v \in Workers : pc[v] = "write" /\ item[v] = item[w]
    BY OneWriter DEF ExclusiveSteps
  <2>7. Name(item[w]) = -1 \/ Name(item[w]) \in Entry(Parent(item[w]))
    BY <2>6 DEF MapInv, Mapped
  <2> QED
    BY <2>4, <2>5, <2>7
<1> QED
  BY <1>1, MapStays, PTL DEF Spec, CreateTakesFreshId
=============================================================================
