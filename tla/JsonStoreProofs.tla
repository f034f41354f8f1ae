-------------------------- MODULE JsonStoreProofs ---------------------------
(***************************************************************************)
(* Proof that the handlers of the API, with their map, their tree and      *)
(* their lock, serve any collections to any number of clients as JsonStore *)
(* promises, under hypotheses that name what the promise depends on.       *)
(***************************************************************************)
EXTENDS ApiHandlerProofs

-----------------------------------------------------------------------------
(* The hypotheses.                                                         *)
Named(methods) == UNION {Targets[m] : m \in Methods \intersect methods}
Updated == {p \in Named({"PUT"}) : IdOf(p) # -1}
Collections == Named({"POST"}) \union {Parent(p) : p \in Updated}
Numbers == Int32 \intersect Nat

(* No collection is inside of an entity, and clients count from 0.         *)
NumbersAreEntities ==
  /\ \A c \in Collections : \A k \in DOMAIN c : c[k] \notin Int32
  /\ \A p \in Updated : Name(p) \in Nat

(* Nobody lists what the constructor mistakes for a collection's name.     *)
NamesAreApart == \A c \in Collections \ {<<>>} : Truncate(c) \notin Named({"GET"})

(* The disk works, and a process that has died is not started again.       *)
NothingBreaks == Faults \subseteq {"signal"}

(* No collection has come to the end of the range.                         *)
RoomLeft == \A n \in DOMAIN store : MaxInt \notin store[n]

-----------------------------------------------------------------------------
(* The invariant: what the tree, the map and the workers agree on.         *)
Word(p) == p = <<>> \/ Name(p) \notin Int32
Entity(p) == p # <<>> /\ Name(p) \in Numbers /\ Parent(p) \in Collections

TreeIsPlain ==
  /\ \A d \in dirs : Word(d)
  /\ \A p \in DOMAIN files : Entity(p) /\ Parent(p) \in dirs

BeingWritten(p) == \E w \in Workers : pc[w] = "write" /\ item[w] = p

(* The map has the id of every file, but for one that is being written,    *)
(* and for a collection that is listed no other.                           *)
MapHasFiles == up => \A p \in DOMAIN files : Name(p) \in Entry(Parent(p)) \/ BeingWritten(p)
MapHasNoOther == \A n \in Named({"GET"}) : \A i \in Entry(n) : Append(n, i) \in DOMAIN files
MapIsNatural == \A n \in DOMAIN store : store[n] \subseteq Numbers

TreeAndMap == TreeIsPlain /\ MapHasFiles /\ MapHasNoOther /\ MapIsNatural

(* A worker in a handler has what its step needs.                          *)
Writes(w) ==
  /\ Entity(item[w])
  /\ \/ request[w].method = "POST" /\ Parent(item[w]) = request[w].path
     \/ request[w].method = "PUT" /\ item[w] = request[w].path

Ready(w) ==
  /\ pc[w] # "idle" => up /\ request[w] \in Requests
  /\ pc[w] \in {"open", "write"} => Writes(w)
  /\ pc[w] = "open" /\ request[w].method = "POST" => item[w] \notin DOMAIN files
  /\ pc[w] = "write" => item[w] \in DOMAIN files /\ files[item[w]] = Torn
  /\ pc[w] = "delete" => request[w].method = "DELETE"
  /\ pc[w] \in {"toList", "list", "format", "toRead", "read"} => request[w].method = "GET"
  /\ pc[w] \in {"toList", "list"} => Word(request[w].path)
  /\ pc[w] \in {"toRead", "read"} => ~Word(request[w].path)

Equipped == \A w \in Workers : Ready(w)

StoreInv == TreeAndMap /\ Equipped

-----------------------------------------------------------------------------
(* Facts about paths, requests and entries.                                *)
LEMMA RequestNames ==
  ASSUME NEW r \in Requests
  PROVE  r.path \in Paths /\ \A s : r.method \in s => r.path \in Named(s)
<1>1. PICK m \in Methods : r \in [method : {m}, path : Targets[m],
                  body : IF m \in {"POST", "PUT"} THEN Bodies \union {""} ELSE {""}]
  BY DEF Requests
<1>2. r.method = m /\ r.path \in Targets[m]
  BY <1>1
<1> QED
  BY <1>2, RequestType DEF Named

LEMMA NamedArePaths ==
  /\ \A s : Named(s) \subseteq Paths
  /\ Collections \subseteq Paths
<1>1. \A s : Named(s) \subseteq Paths
  <2>1. \A m \in Methods : Targets[m] \subseteq Seq(Components)
    BY ConstantsAssumption
  <2> QED
    BY <2>1 DEF Named, Paths
<1>2. ASSUME NEW p \in Updated PROVE Parent(p) \in Paths
  <2>1. p \in Paths /\ p # <<>>
    BY <1>1, <1>2 DEF Updated, IdOf
  <2> QED
    BY <2>1, ParentAndName
<1> QED
  BY <1>1, <1>2 DEF Collections

(* No directory on the way to a collection is named by a number.           *)
LEMMA WayToCollection ==
  ASSUME NumbersAreEntities, NEW c \in Collections, NEW d \in Prefixes(c)
  PROVE  Word(d)
<1>1. c \in Seq(Components) /\ Len(c) \in Nat
  BY NamedArePaths, LenProperties DEF Paths
<1>2. PICK k \in 0 .. Len(c) : d = SubSeq(c, 1, k)
  BY DEF Prefixes
<1>3. CASE k = 0
  <2>1. Len(d) = 0 /\ d \in Seq(Components)
    BY <1>1, <1>2, <1>3, SubSeqProperties
  <2> QED
    BY <2>1, EmptySeq DEF Word
<1>4. CASE k # 0
  <2>1. k \in 1 .. Len(c) /\ k \in Nat
    BY <1>1, <1>4
  <2>2. \A i \in 1 .. k : c[i] \in Components
    BY <1>1, <2>1, LenProperties
  <2>3. /\ Len(SubSeq(c, 1, k)) = IF 1 <= k THEN k - 1 + 1 ELSE 0
        /\ \A i \in 1 .. k - 1 + 1 : SubSeq(c, 1, k)[i] = c[1 + i - 1]
    BY <2>1, <2>2, SubSeqProperties
  <2>4. Len(d) = k /\ d[k] = c[k]
    BY <1>2, <2>1, <2>3
  <2>5. k \in DOMAIN c
    BY <1>1, <2>1, LenProperties
  <2> QED
    BY <2>4, <2>5 DEF Word, Name, NumbersAreEntities
<1> QED
  BY <1>3, <1>4

LEMMA CollectionIsWord ==
  ASSUME NumbersAreEntities, NEW c \in Collections
  PROVE  Word(c)
<1>1. c \in Seq(Components) /\ Len(c) \in Nat /\ DOMAIN c = 1 .. Len(c)
  BY NamedArePaths, LenProperties DEF Paths
<1>2. c # <<>> => Len(c) \in 1 .. Len(c)
  BY <1>1, EmptySeq
<1> QED
  BY <1>1, <1>2 DEF Word, Name, NumbersAreEntities

LEMMA UpdatedIsEntity ==
  ASSUME NumbersAreEntities, NEW p \in Updated
  PROVE  Entity(p) /\ p \in Paths
BY NamedArePaths DEF Updated, NumbersAreEntities, IdOf, Entity, Numbers, Collections

LEMMA NextIdIsNatural ==
  ASSUME NEW ids \in SUBSET Numbers, MaxInt \notin ids
  PROVE  NextId(ids) \in Numbers /\ NextId(ids) \notin ids
<1> USE IntRange
<1>1. CASE ids = {}
  BY <1>1 DEF NextId, Numbers, Int32
<1>2. CASE ids # {}
  <2> DEFINE top == CHOOSE i \in ids : \A j \in ids : j <= i
  <2>1. top \in ids /\ \A j \in ids : j <= top
    <3>1. ids \in SUBSET Int /\ MaxInt \in Int /\ \A i \in ids : i <= MaxInt
      BY DEF Numbers, Int32
    <3>2. \E i \in ids : \A j \in ids : j <= i
      BY <1>2, <3>1, GreatestInteger
    <3> QED
      BY <3>2
  <2>2. NextId(ids) = Wrap(1 + top)
    BY <1>2 DEF NextId
  <2> HIDE DEF top
  <2> QED
    BY <2>1, <2>2 DEF Wrap, Numbers, Int32
<1> QED
  BY <1>1, <1>2

-----------------------------------------------------------------------------
(* The invariant is kept.                                                  *)

(* A worker that takes a step leaves the others ready for theirs: what it  *)
(* changes it changes inside the lock.                                     *)
LEMMA OthersStayReady ==
  ASSUME TypeOK, LockHeld, Equipped, NEW w \in Workers, NEW from \in Steps, NEW to \in Steps,
         Goto(w, from, to), up' = up,
         \A v \in Workers \ {w} : item'[v] = item[v] /\ request'[v] = request[v],
         files' = files \/ from \in ExclusiveSteps,
         Ready(w)'
  PROVE  Equipped'
<1> SUFFICES ASSUME NEW v \in Workers \ {w} PROVE Ready(v)'
  BY DEF Equipped
<1>1. pc'[v] = pc[v] /\ item'[v] = item[v] /\ request'[v] = request[v]
  BY DEF Goto, TypeOK
<1>2. Ready(v)
  BY DEF Equipped
<1>3. CASE files' = files
  BY <1>1, <1>2, <1>3 DEF Ready, Writes
<1>4. CASE from \in ExclusiveSteps
  <2>1. pc[v] \notin {"open", "write"}
    BY <1>4, OneWriter DEF Goto, ExclusiveSteps
  <2> QED
    BY <1>1, <1>2, <2>1 DEF Ready
<1> QED
  BY <1>3, <1>4

(* Steps that leave files, map and writers alone.                          *)
LEMMA QuietKeepsTree ==
  ASSUME TreeAndMap, UNCHANGED <<files, store, up>>, dirs \subseteq dirs', \A d \in dirs' \ dirs : Word(d),
         \A w \in Workers : pc[w] = "write" => pc'[w] = "write" /\ item'[w] = item[w]
  PROVE  TreeAndMap'
<1> USE DEF TreeAndMap
<1>1. \A n : Entry(n)' = Entry(n)
  BY DEF Entry
<1>2. TreeIsPlain'
  BY DEF TreeIsPlain
<1>3. MapHasFiles'
  BY <1>1 DEF MapHasFiles, BeingWritten
<1>4. MapHasNoOther' /\ MapIsNatural'
  BY <1>1 DEF MapHasNoOther, MapIsNatural
<1> QED
  BY <1>2, <1>3, <1>4

LEMMA TerminateKeepsStore ==
  ASSUME StoreInv, Terminate, dirs' = dirs \/ (dirs' = dirs \ {<<>>} /\ Children(<<>>) = {})
  PROVE  StoreInv'
<1> USE DEF StoreInv, TreeAndMap, Terminate
<1>1. TreeIsPlain'
  <2>1. Children(<<>>) = {} => \A p \in DOMAIN files : p # <<>> => Parent(p) # <<>>
    BY DEF Children
  <2> QED
    BY <2>1 DEF TreeIsPlain, Entity
<1>2. MapHasFiles' /\ MapHasNoOther' /\ MapIsNatural'
  BY DEF MapHasFiles, MapHasNoOther, MapIsNatural, Entry
<1>3. Equipped'
  BY DEF Equipped, Ready
<1> QED
  BY <1>1, <1>2, <1>3

(* Steps that hold nothing in hand and change no tree and no map.          *)
LEMMA PlainKeepsStore ==
  ASSUME TypeOK, LockHeld, StoreInv, NEW w \in Workers,
         NEW from \in Steps \ {"idle", "write"}, NEW to \in Steps \ {"open", "write"},
         Goto(w, from, to), UNCHANGED <<dirs, files, store, up, item, request>>,
         to = "delete" => request[w].method = "DELETE",
         to \in {"toList", "list", "format", "toRead", "read"} => request[w].method = "GET",
         to \in {"toList", "list"} => Word(request[w].path),
         to \in {"toRead", "read"} => ~Word(request[w].path)
  PROVE  StoreInv'
<1>1. pc'[w] = to /\ pc[w] = from /\ \A v \in Workers \ {w} : pc'[v] = pc[v]
  BY DEF Goto, TypeOK
<1>2. Ready(w)'
  BY <1>1 DEF StoreInv, Equipped, Ready
<1>3. Equipped'
  BY <1>2, OthersStayReady DEF StoreInv
<1>4. TreeAndMap'
  BY <1>1, QuietKeepsTree DEF StoreInv
<1> QED
  BY <1>3, <1>4 DEF StoreInv

LEMMA ReceiveKeepsStore ==
  ASSUME TypeOK, LockHeld, StoreInv, NEW w \in Workers, NEW r \in Requests, Receive(w, r)
  PROVE  StoreInv'
<1>1. /\ Goto(w, "idle", "arrived") /\ up /\ UNCHANGED <<dirs, files, store, item, up>>
      /\ request' = [request EXCEPT ![w] = r] /\ "idle" \in Steps /\ "arrived" \in Steps
  BY DEF Receive, tree, Steps
<1>2. /\ pc'[w] = "arrived" /\ pc[w] = "idle" /\ request'[w] = r
      /\ \A v \in Workers \ {w} : pc'[v] = pc[v] /\ request'[v] = request[v]
  BY <1>1 DEF Goto, TypeOK
<1>3. Ready(w)'
  BY <1>1, <1>2 DEF Ready
<1>4. Equipped'
  BY <1>1, <1>2, <1>3, OthersStayReady DEF StoreInv
<1>5. TreeAndMap'
  BY <1>1, <1>2, QuietKeepsTree DEF StoreInv
<1> QED
  BY <1>4, <1>5 DEF StoreInv

(* The constructor: every file's id was in the map before, and what it     *)
(* enters under a name it has cut short, nobody lists.                     *)
LEMMA LoadKeepsStore ==
  ASSUME NamesAreApart, TypeOK, LockHeld, StoreInv, NEW w \in Workers, Load(w)
  PROVE  StoreInv'
<1>1. /\ Goto(w, "load", "dispatch") /\ UNCHANGED <<files, item, request, up>> /\ dirs' = dirs \union {<<>>}
      /\ store' = [n \in DOMAIN store \union {LoadedName(p) : p \in NumericFiles} |->
                     Entry(n) \union {Name(p) : p \in {q \in NumericFiles : LoadedName(q) = n}}]
      /\ "load" \in Steps /\ "dispatch" \in Steps
  BY DEF Load, Continue, Steps
<1>2. pc'[w] = "dispatch" /\ pc[w] = "load" /\ \A v \in Workers \ {w} : pc'[v] = pc[v]
  BY <1>1 DEF Goto, TypeOK
<1>3. Equipped'
  <2>1. Ready(w)'
    BY <1>1, <1>2 DEF StoreInv, Equipped, Ready
  <2> QED
    BY <1>1, <2>1, OthersStayReady DEF StoreInv
<1>4. TreeIsPlain /\ MapHasFiles /\ MapHasNoOther /\ MapIsNatural
  BY DEF StoreInv, TreeAndMap
<1>5. TreeIsPlain'
  BY <1>1, <1>4 DEF TreeIsPlain, Word
<1>6. \A n : /\ Entry(n) \subseteq Entry(n)'
             /\ \A i \in Entry(n)' : i \in Entry(n) \/ \E p \in NumericFiles : LoadedName(p) = n /\ Name(p) = i
  BY <1>1 DEF Entry
<1>7. MapHasFiles'
  BY <1>1, <1>2, <1>4, <1>6 DEF MapHasFiles, BeingWritten
<1>8. ASSUME NEW n \in Named({"GET"}), NEW p \in NumericFiles, LoadedName(p) = n
      PROVE  Append(n, Name(p)) \in DOMAIN files
  <2>1. p \in DOMAIN files /\ p \in Paths /\ Entity(p)
    BY <1>4 DEF NumericFiles, TreeIsPlain, TypeOK, Paths
  <2>2. Parent(p) = <<>>
    BY <1>8, <2>1 DEF LoadedName, NamesAreApart, Entity
  <2>3. n = Parent(p)
    BY <1>8, <2>2 DEF LoadedName, Truncate
  <2> QED
    BY <2>1, <2>3, ParentAndName DEF Entity
<1>9. MapHasNoOther'
  BY <1>1, <1>4, <1>6, <1>8 DEF MapHasNoOther
<1>10. MapIsNatural'
  <2>1. \A p \in NumericFiles : Name(p) \in Numbers
    BY <1>4 DEF NumericFiles, TreeIsPlain, Entity
  <2> QED
    BY <1>1, <1>4, <2>1 DEF MapIsNatural, Entry
<1> QED
  BY <1>3, <1>5, <1>7, <1>9, <1>10 DEF StoreInv, TreeAndMap

(* Making the directories of a collection puts no entity in the way.       *)
LEMMA MakeDirsKeepsWords ==
  ASSUME NumbersAreEntities, NEW c \in Collections, MakeDirs(c)
  PROVE  dirs \subseteq dirs' /\ \A d \in dirs' \ dirs : Word(d)
BY WayToCollection DEF MakeDirs

(* The id that a create takes is the next one of its collection.           *)
LEMMA PostKeepsStore ==
  ASSUME NumbersAreEntities, TypeOK, Placed, LockHeld, StoreInv, RoomLeft, NEW w \in Workers, Post(w)
  PROVE  StoreInv'
<1> DEFINE name == request[w].path
           next == NextId(Entry(name))
<1>1. /\ Goto(w, "post", "open") /\ UNCHANGED <<files, request, up>> /\ MakeDirs(name)
      /\ store' = WithEntry(name, Entry(name)) /\ item' = [item EXCEPT ![w] = Append(name, next)]
      /\ "post" \in Steps /\ "open" \in Steps
  BY DEF Post, Continue, Steps
<1>2. pc'[w] = "open" /\ pc[w] = "post" /\ \A v \in Workers \ {w} : pc'[v] = pc[v]
  BY <1>1 DEF Goto, TypeOK
<1>3. item'[w] = Append(name, next) /\ \A v \in Workers \ {w} : item'[v] = item[v]
  BY <1>1 DEF TypeOK
<1>4. up /\ request[w] \in Requests /\ request[w].method = "POST"
  BY <1>2 DEF StoreInv, Equipped, Ready, Placed
<1>5. name \in Paths /\ name \in Collections
  BY <1>4, RequestNames DEF Collections
<1>6. TreeIsPlain /\ MapHasFiles /\ MapHasNoOther /\ MapIsNatural
  BY DEF StoreInv, TreeAndMap
<1>7. next \in Numbers /\ next \notin Entry(name)
  <2>1. Entry(name) \in SUBSET Numbers /\ MaxInt \notin Entry(name)
    BY <1>6 DEF MapIsNatural, Entry, RoomLeft
  <2> QED
    BY <2>1, NextIdIsNatural
<1> HIDE DEF name, next
<1>8. item'[w] # <<>> /\ Parent(item'[w]) = name /\ Name(item'[w]) = next
  BY <1>3, <1>5, <1>7, AppendToPath DEF Numbers, Components
<1>9. item'[w] \notin DOMAIN files
  <2>1. ~BeingWritten(item'[w])
    BY <1>2, OneWriter DEF BeingWritten, ExclusiveSteps
  <2> QED
    BY <1>4, <1>6, <1>7, <1>8, <2>1 DEF MapHasFiles
<1>10. Ready(w)'
  <2>1. Writes(w)'
    BY <1>1, <1>4, <1>5, <1>7, <1>8 DEF Writes, Entity, name
  <2> QED
    BY <1>1, <1>2, <1>4, <1>9, <2>1 DEF Ready
<1>11. Equipped'
  BY <1>1, <1>3, <1>10, OthersStayReady DEF StoreInv
<1>12. dirs \subseteq dirs' /\ \A d \in dirs' \ dirs : Word(d)
  BY <1>1, <1>5, MakeDirsKeepsWords
<1>13. \A n : Entry(n)' = Entry(n)
  BY <1>1 DEF Entry, WithEntry
<1>14. TreeIsPlain'
  BY <1>1, <1>6, <1>12 DEF TreeIsPlain
<1>15. MapHasFiles'
  BY <1>1, <1>2, <1>3, <1>6, <1>13 DEF MapHasFiles, BeingWritten
<1>16. MapHasNoOther'
  BY <1>1, <1>6, <1>13 DEF MapHasNoOther
<1>17. MapIsNatural'
  BY <1>1, <1>6 DEF MapIsNatural, WithEntry, Entry
<1> QED
  BY <1>11, <1>14, <1>15, <1>16, <1>17 DEF StoreInv, TreeAndMap

LEMMA PutKeepsStore ==
  ASSUME NumbersAreEntities, TypeOK, Placed, LockHeld, StoreInv, NEW w \in Workers, Put(w)
  PROVE  StoreInv'
<1> DEFINE path == request[w].path
<1>1. /\ Goto(w, "put", "open") /\ UNCHANGED <<files, store, request, up>> /\ MakeDirs(Parent(path))
      /\ item' = [item EXCEPT ![w] = path] /\ "put" \in Steps /\ "open" \in Steps
  BY DEF Put, Continue, Steps
<1>2. pc'[w] = "open" /\ pc[w] = "put" /\ \A v \in Workers \ {w} : pc'[v] = pc[v]
  BY <1>1 DEF Goto, TypeOK
<1>3. item'[w] = path /\ \A v \in Workers \ {w} : item'[v] = item[v]
  BY <1>1 DEF TypeOK
<1>4. up /\ request[w] \in Requests /\ request[w].method = "PUT" /\ IdOf(path) # -1
  BY <1>2 DEF StoreInv, Equipped, Ready, Placed
<1>5. path \in Updated
  BY <1>4, RequestNames DEF Updated
<1>6. Entity(path) /\ Parent(path) \in Collections
  BY <1>5, UpdatedIsEntity DEF Collections
<1>7. Ready(w)'
  BY <1>1, <1>2, <1>3, <1>4, <1>6 DEF Ready, Writes
<1>8. Equipped'
  BY <1>1, <1>3, <1>7, OthersStayReady DEF StoreInv
<1>9. dirs \subseteq dirs' /\ \A d \in dirs' \ dirs : Word(d)
  BY <1>1, <1>6, MakeDirsKeepsWords
<1>10. TreeAndMap'
  BY <1>1, <1>2, <1>3, <1>9, QuietKeepsTree DEF StoreInv
<1> QED
  BY <1>8, <1>10 DEF StoreInv

LEMMA OpenKeepsStore ==
  ASSUME TypeOK, Placed, LockHeld, StoreInv, NEW w \in Workers, Open(w)
  PROVE  StoreInv'
<1>1. /\ Goto(w, "open", "write") /\ UNCHANGED <<dirs, store, item, request, up>> /\ Parent(item[w]) \in dirs
      /\ files' = [p \in DOMAIN files \union {item[w]} |-> IF p = item[w] THEN Torn ELSE files[p]]
      /\ "open" \in Steps /\ "write" \in Steps
  BY DEF Open, Continue, Steps
<1>2. pc'[w] = "write" /\ pc[w] = "open" /\ \A v \in Workers \ {w} : pc'[v] = pc[v]
  BY <1>1 DEF Goto, TypeOK
<1>3. up /\ request[w] \in Requests /\ Writes(w)
  BY <1>2 DEF StoreInv, Equipped, Ready
<1>4. Ready(w)'
  BY <1>1, <1>2, <1>3 DEF Ready, Writes
<1>5. Equipped'
  BY <1>1, <1>4, OthersStayReady DEF StoreInv, ExclusiveSteps
<1>6. TreeIsPlain /\ MapHasFiles /\ MapHasNoOther /\ MapIsNatural
  BY DEF StoreInv, TreeAndMap
<1>7. \A n : Entry(n)' = Entry(n)
  BY <1>1 DEF Entry
<1>8. TreeIsPlain'
  BY <1>1, <1>3, <1>6 DEF TreeIsPlain, Writes
<1>9. MapHasFiles'
  <2>1. BeingWritten(item[w])'
    BY <1>1, <1>2 DEF BeingWritten
  <2>2. \A p : BeingWritten(p) => BeingWritten(p)'
    BY <1>1, <1>2 DEF BeingWritten
  <2> QED
    BY <1>1, <1>3, <1>6, <1>7, <2>1, <2>2 DEF MapHasFiles
<1>10. MapHasNoOther' /\ MapIsNatural'
  BY <1>1, <1>6, <1>7 DEF MapHasNoOther, MapIsNatural
<1> QED
  BY <1>5, <1>8, <1>9, <1>10 DEF StoreInv, TreeAndMap

LEMMA WriteKeepsStore ==
  ASSUME TypeOK, Placed, LockHeld, StoreInv, NEW w \in Workers, Write(w)
  PROVE  StoreInv'
<1> DEFINE path == item[w]
<1>1. /\ Goto(w, "write", "idle") /\ UNCHANGED <<dirs, item, request, up>> /\ DOMAIN files' = DOMAIN files
      /\ store' = WithEntry(Parent(path), Entry(Parent(path)) \union {Name(path)})
      /\ "write" \in Steps /\ "idle" \in Steps
  BY DEF Write, Answer, Steps
<1>2. pc'[w] = "idle" /\ pc[w] = "write" /\ \A v \in Workers \ {w} : pc'[v] = pc[v]
  BY <1>1 DEF Goto, TypeOK
<1>3. Entity(path) /\ path \in DOMAIN files /\ path \in Paths
  BY <1>2 DEF StoreInv, Equipped, Ready, Writes, TypeOK, Paths
<1>4. Ready(w)'
  BY <1>2 DEF Ready
<1>5. Equipped'
  BY <1>1, <1>4, OthersStayReady DEF StoreInv, ExclusiveSteps
<1>6. TreeIsPlain /\ MapHasFiles /\ MapHasNoOther /\ MapIsNatural
  BY DEF StoreInv, TreeAndMap
<1>7. \A n, i : i \in Entry(n)' <=> i \in Entry(n) \/ (n = Parent(path) /\ i = Name(path))
  BY <1>1 DEF Entry, WithEntry
<1> HIDE DEF path
<1>8. TreeIsPlain'
  BY <1>1, <1>6 DEF TreeIsPlain
<1>9. MapHasFiles'
  <2>1. ASSUME NEW p, BeingWritten(p) PROVE p = path
    BY <1>2, <2>1, OneWriter DEF BeingWritten, ExclusiveSteps, path
  <2> QED
    BY <1>1, <1>6, <1>7, <2>1 DEF MapHasFiles
<1>10. MapHasNoOther'
  <2>1. Append(Parent(path), Name(path)) = path
    BY <1>3, ParentAndName DEF Entity
  <2> QED
    BY <1>1, <1>3, <1>6, <1>7, <2>1 DEF MapHasNoOther
<1>11. MapIsNatural'
  BY <1>1, <1>3, <1>6 DEF MapIsNatural, WithEntry, Entry, Entity
<1> QED
  BY <1>5, <1>8, <1>9, <1>10, <1>11 DEF StoreInv, TreeAndMap

(* What std::remove takes away, the map loses, and nothing else.           *)
LEMMA DeleteKeepsStore ==
  ASSUME TypeOK, Placed, LockHeld, StoreInv, NEW w \in Workers, Delete(w)
  PROVE  StoreInv'
<1> DEFINE path == request[w].path
<1>1. /\ Goto(w, "delete", "idle") /\ UNCHANGED <<item, request, up>> /\ path # <<>> /\ Children(path) = {}
      /\ dirs' = dirs \ {path} /\ files' = [p \in DOMAIN files \ {path} |-> files[p]]
      /\ store' = WithEntry(Parent(path), Entry(Parent(path)) \ {IdOf(path)})
      /\ "delete" \in Steps /\ "idle" \in Steps
  BY DEF Delete, Answer, Steps
<1>2. pc'[w] = "idle" /\ pc[w] = "delete" /\ \A v \in Workers \ {w} : pc'[v] = pc[v]
  BY <1>1 DEF Goto, TypeOK
<1>3. path \in Paths /\ DOMAIN files \subseteq Paths
  BY RequestType DEF TypeOK, Paths
<1>4. Ready(w)'
  BY <1>2 DEF Ready
<1>5. Equipped'
  BY <1>1, <1>4, OthersStayReady DEF StoreInv, ExclusiveSteps
<1>6. TreeIsPlain /\ MapHasFiles /\ MapHasNoOther /\ MapIsNatural
  BY DEF StoreInv, TreeAndMap
<1>7. \A n, i : i \in Entry(n)' <=> i \in Entry(n) /\ ~(n = Parent(path) /\ i = IdOf(path))
  BY <1>1 DEF Entry, WithEntry
<1> HIDE DEF path
<1>8. \A v \in Workers : pc[v] # "write"
  BY <1>2, OneWriter DEF ExclusiveSteps
<1>9. TreeIsPlain'
  BY <1>1, <1>6 DEF TreeIsPlain, Children, Entity
<1>10. MapHasFiles'
  <2>1. ASSUME NEW p \in DOMAIN files, p # path, up PROVE Name(p) \in Entry(Parent(p))'
    <3>1. Name(p) \in Entry(Parent(p))
      BY <1>6, <1>8, <2>1 DEF MapHasFiles, BeingWritten
    <3>2. Entity(p) /\ p \in Paths
      BY <1>3, <1>6 DEF TreeIsPlain
    <3>3. IdOf(path) = -1 \/ IdOf(path) = Name(path)
      BY DEF IdOf
    <3>4. Name(p) # -1
      BY <3>2 DEF Entity, Numbers
    <3>5. ~(Parent(p) = Parent(path) /\ Name(p) = IdOf(path))
      BY <1>1, <1>3, <2>1, <3>2, <3>3, <3>4, SameNameSameFile DEF Entity, path
    <3> QED
      BY <1>7, <3>1, <3>5
  <2> QED
    BY <1>1, <2>1 DEF MapHasFiles
<1>11. MapHasNoOther'
  <2>1. ASSUME NEW n \in Named({"GET"}), NEW i \in Entry(n)' PROVE Append(n, i) \in DOMAIN files \ {path}
    <3>1. i \in Entry(n) /\ Append(n, i) \in DOMAIN files
      BY <1>6, <1>7 DEF MapHasNoOther
    <3>2. n \in Paths /\ i \in Int32
      BY <3>1, NamedArePaths, EntryType
    <3>3. Parent(Append(n, i)) = n /\ Name(Append(n, i)) = i /\ Append(n, i) # <<>>
      BY <3>2, AppendToPath DEF Components
    <3>4. Append(n, i) = path => n = Parent(path) /\ i = IdOf(path)
      BY <3>2, <3>3 DEF IdOf
    <3> QED
      BY <1>7, <3>1, <3>4
  <2> QED
    BY <1>1, <2>1 DEF MapHasNoOther
<1>12. MapIsNatural'
  BY <1>1, <1>6 DEF MapIsNatural, WithEntry, Entry
<1> QED
  BY <1>5, <1>9, <1>10, <1>11, <1>12 DEF StoreInv, TreeAndMap

LEMMA StoreKept ==
  ASSUME NumbersAreEntities, NamesAreApart, NothingBreaks,
         TypeOK, Placed, LockHeld, StoreInv, RoomLeft, [Next]_vars
  PROVE  StoreInv'
<1>1. CASE UNCHANGED vars
  <2>1. UNCHANGED <<dirs, files, store, up, pc, request, item>>
    BY <1>1 DEF vars, tree
  <2>2. TreeAndMap'
    BY <2>1, QuietKeepsTree DEF StoreInv
  <2>3. Equipped'
    BY <2>1 DEF StoreInv, Equipped, Ready, Writes
  <2> QED
    BY <2>2, <2>3 DEF StoreInv
<1>2. ASSUME NEW w \in Workers, NEW r \in Requests, Receive(w, r) PROVE StoreInv'
  BY <1>2, ReceiveKeepsStore
<1>3. \A w \in Workers : /\ pc[w] \in {"toList", "list", "format", "toRead", "read"} => request[w].method = "GET"
                         /\ pc[w] \in {"toList", "list"} => Word(request[w].path)
                         /\ pc[w] \in {"toRead", "read"} => ~Word(request[w].path)
  BY DEF StoreInv, Equipped, Ready
<1>4. ASSUME NEW w \in Workers, NEW from \in {"arrived", "dispatch", "toList", "toRead"},
             NEW to \in {"load", "post", "put", "delete", "list", "read"},
             Acquire(w, from, to),
             to = "delete" => request[w].method = "DELETE",
             <<from, to>> \in {<<"toList", "list">>, <<"toRead", "read">>} \/ to \notin {"list", "read"}
      PROVE  StoreInv'
  <2>1. Goto(w, from, to) /\ UNCHANGED <<dirs, files, store, up, item, request>>
    BY <1>4 DEF Acquire, Continue, tree
  <2>2. from \in Steps \ {"idle", "write"} /\ to \in Steps \ {"open", "write"}
    BY DEF Steps
  <2> QED
    BY <1>3, <1>4, <2>1, <2>2, PlainKeepsStore DEF Goto
<1>5. ASSUME NEW w \in Workers,
             LockLoad(w) \/ LockPost(w) \/ LockPut(w) \/ LockDelete(w) \/ LockList(w) \/ LockRead(w)
      PROVE  StoreInv'
  BY <1>4, <1>5 DEF LockLoad, LockPost, LockPut, LockDelete, LockList, LockRead
<1>6. ASSUME NEW w \in Workers, NEW from \in Steps \ {"idle", "write"}, NEW r, Answer(w, from, r),
             UNCHANGED <<dirs, files, store, item>>
      PROVE  StoreInv'
  BY <1>6, PlainKeepsStore DEF Answer, Steps
<1>7. ASSUME NEW w \in Workers, Refuse(w) \/ Format(w) \/ Read(w) \/ OpenFails(w) \/ DeleteFails(w)
      PROVE  StoreInv'
  <2>1. UNCHANGED <<dirs, files, store, item>>
    BY <1>7 DEF Refuse, Format, Read, OpenFails, DeleteFails, tree
  <2>2. /\ Refuse(w) => \E r : Answer(w, "dispatch", r)
        /\ Format(w) => \E r : Answer(w, "format", r)
        /\ Read(w) => \E r : Answer(w, "read", r)
        /\ OpenFails(w) => \E r : Answer(w, "open", r)
        /\ DeleteFails(w) => \E r : Answer(w, "delete", r)
    BY Zenon DEF Refuse, Format, Read, OpenFails, DeleteFails, AnswerError
  <2> QED
    BY <1>6, <1>7, <2>1, <2>2 DEF Steps
<1>8. ASSUME NEW w \in Workers, Look(w) PROVE StoreInv'
  <2>1. UNCHANGED <<dirs, files, store, item>> /\ request[w].method = "GET"
    BY <1>8 DEF Look, tree
  <2>2. CASE \E r : Answer(w, "dispatch", r)
    BY <1>6, <2>1, <2>2 DEF Steps
  <2>3. CASE request[w].path \in dirs /\ Continue(w, "dispatch", "toList")
    <3>1. Word(request[w].path)
      BY <2>3 DEF StoreInv, TreeAndMap, TreeIsPlain
    <3> QED
      BY <2>1, <2>3, <3>1, PlainKeepsStore DEF Continue, Steps
  <2>4. CASE request[w].path \in DOMAIN files /\ Continue(w, "dispatch", "toRead")
    <3>1. ~Word(request[w].path)
      BY <2>4 DEF StoreInv, TreeAndMap, TreeIsPlain, Entity, Numbers, Word
    <3> QED
      BY <2>1, <2>4, <3>1, PlainKeepsStore DEF Continue, Steps
  <2> QED
    BY <1>8, <2>2, <2>3, <2>4, Zenon DEF Look, AnswerError
<1>9. ASSUME NEW w \in Workers, List(w) PROVE StoreInv'
  <2>1. UNCHANGED <<dirs, files, store, item>>
    BY <1>9 DEF List, tree
  <2>2. CASE \E r : Answer(w, "list", r)
    BY <1>6, <2>1, <2>2 DEF Steps
  <2>3. CASE Continue(w, "list", "format")
    BY <1>3, <2>1, <2>3, PlainKeepsStore DEF Continue, Goto, Steps
  <2> QED
    BY <1>9, <2>2, <2>3, Zenon DEF List, AnswerError
<1>10. ASSUME NEW w \in Workers, Load(w) \/ Post(w) \/ Put(w) \/ Open(w) \/ Write(w) \/ Delete(w)
       PROVE  StoreInv'
  BY <1>10, LoadKeepsStore, PostKeepsStore, PutKeepsStore, OpenKeepsStore, WriteKeepsStore, DeleteKeepsStore
<1>11. ASSUME NEW w \in Workers, WriteThrows(w) \/ FormatThrows(w) \/ DeleteThrows(w) PROVE StoreInv'
  <2>1. Terminate /\ (dirs' = dirs \/ (dirs' = dirs \ {<<>>} /\ Children(<<>>) = {}))
    BY <1>11, Zenon DEF WriteThrows, FormatThrows, DeleteThrows
  <2> QED
    BY <2>1, TerminateKeepsStore
<1>12. CASE Signal
  BY <1>12, TerminateKeepsStore DEF Signal
<1>13. ~Restart
  BY DEF Restart, NothingBreaks
<1>14. ASSUME NEW w \in Workers, Run(w) PROVE StoreInv'
  BY <1>5, <1>7, <1>8, <1>9, <1>10, <1>11, <1>14 DEF Run, Modify, Get
<1> QED
  BY <1>1, <1>2, <1>12, <1>13, <1>14 DEF Next

LEMMA StoreAtStart == Init => StoreInv
BY DEF Init, StoreInv, TreeAndMap, TreeIsPlain, MapHasFiles, MapHasNoOther, MapIsNatural,
       Equipped, Ready, Word, Entry

-----------------------------------------------------------------------------
(* What the refinement mapping shows.                                      *)

(* A file shows what it holds, and one that is being written shows what    *)
(* its writer will have written.                                           *)
Shown ==
  /\ DOMAIN Items = DOMAIN files
  /\ \A p \in DOMAIN files : ~BeingWritten(p) => Items[p] = files[p]
  /\ \A w \in Workers : pc[w] = "write" /\ item[w] \in DOMAIN files => Items[item[w]] = request[w].body

LEMMA ItemsAreShown == (LockHeld => Shown) /\ (LockHeld' => Shown')
<1>1. ASSUME LockHeld PROVE Shown
  <2>1. ASSUME NEW w \in Workers, pc[w] = "write" PROVE \A u \in Workers : pc[u] = "write" => u = w
    BY <1>1, <2>1, OneWriter DEF ExclusiveSteps
  <2> QED
    BY <2>1 DEF Shown, Items, BeingWritten
<1>2. ASSUME LockHeld' PROVE Shown'
  <2>1. ASSUME NEW w \in Workers, pc'[w] = "write" PROVE \A u \in Workers : pc'[u] = "write" => u = w
    BY <1>2, <2>1 DEF LockHeld, ExclusiveSteps
  <2> QED
    BY <2>1 DEF Shown, Items, BeingWritten
<1> QED
  BY <1>1, <1>2

LEMMA ItemsAreFunctions ==
  /\ Items = [p \in DOMAIN Items |-> Items[p]]
  /\ Items' = [p \in DOMAIN Items' |-> Items'[p]]
BY DEF Items

(* What no step into or out of a write does is seen.                       *)
LEMMA ItemsStay ==
  ASSUME LockHeld, LockHeld', files' = files,
         \A w \in Workers : (pc'[w] = "write" <=> pc[w] = "write"),
         \A w \in Workers : pc[w] = "write" => /\ item'[w] = item[w] /\ request'[w] = request[w]
                                               /\ item[w] \in DOMAIN files
  PROVE  Items' = Items
<1>1. Shown /\ Shown'
  BY ItemsAreShown
<1>2. \A p : BeingWritten(p)' <=> BeingWritten(p)
  BY DEF BeingWritten
<1>3. ASSUME NEW p \in DOMAIN files PROVE Items'[p] = Items[p]
  <2>1. CASE BeingWritten(p)
    BY <1>1, <2>1 DEF BeingWritten, Shown
  <2>2. CASE ~BeingWritten(p)
    BY <1>1, <1>2, <2>2 DEF Shown
  <2> QED
    BY <2>1, <2>2
<1>4. DOMAIN Items' = DOMAIN files /\ DOMAIN Items = DOMAIN files
  BY <1>1 DEF Shown
<1> QED
  BY <1>3, <1>4, ItemsAreFunctions

-----------------------------------------------------------------------------
(* Refinement: each step of the handlers is a step of the store or none.   *)
PhaseAt(step) == IF step \in {"idle", "write", "format"} THEN step ELSE "pending"
Phases == [w \in Workers |-> Phase(w)]
Tickets == [w \in Workers |-> Ticket(w)]

LEMMA PhaseMoves ==
  ASSUME TypeOK, NEW w \in Workers, NEW from \in Steps, NEW to \in Steps, Goto(w, from, to),
         \A v \in Workers \ {w} : item'[v] = item[v] /\ listed'[v] = listed[v]
  PROVE  /\ Phases[w] = PhaseAt(from)
         /\ Phases' = [Phases EXCEPT ![w] = PhaseAt(to)]
         /\ Tickets' = [Tickets EXCEPT ![w] = IF to = "write" THEN item'[w]
                                              ELSE IF to = "format" THEN listed'[w] ELSE <<>>]
<1>1. /\ pc[w] = from /\ pc'[w] = to
      /\ \A v \in Workers \ {w} : pc'[v] = pc[v]
  BY DEF Goto, TypeOK
<1>2. \A v \in Workers \ {w} : Phase(v)' = Phase(v) /\ Ticket(v)' = Ticket(v)
  BY <1>1 DEF Phase, Ticket
<1>3. Phase(w) = PhaseAt(from) /\ Phase(w)' = PhaseAt(to)
  BY <1>1 DEF Phase, PhaseAt
<1>4. Ticket(w)' = IF to = "write" THEN item'[w] ELSE IF to = "format" THEN listed'[w] ELSE <<>>
  BY <1>1 DEF Ticket
<1> QED
  BY <1>2, <1>3, <1>4 DEF Phases, Tickets

(* A step that answers tells the client.                                   *)
LEMMA AnswerTells ==
  ASSUME TypeOK, NEW w \in Workers, NEW from \in Steps, NEW r, Answer(w, from, r),
         UNCHANGED <<item, listed>>
  PROVE  Api!Tell(w, r) /\ Phases[w] = PhaseAt(from)
<1>1. Goto(w, from, "idle") /\ "idle" \in Steps
  BY DEF Answer, Steps
<1>2. /\ Phases[w] = PhaseAt(from) /\ Phases' = [Phases EXCEPT ![w] = "idle"]
      /\ Tickets' = [Tickets EXCEPT ![w] = <<>>]
  BY <1>1, PhaseMoves DEF PhaseAt
<1> QED
  BY <1>2 DEF Answer, Phases, Tickets, Api!Tell

(* A step on the way to the one that takes effect is not seen.             *)
Hidden == Steps \ {"idle", "write", "format"}

LEMMA HiddenStep ==
  ASSUME TypeOK, LockHeld, LockHeld', StoreInv, NEW w \in Workers, NEW from \in Hidden, NEW to \in Hidden,
         Continue(w, from, to), UNCHANGED <<files, listed>>,
         \A v \in Workers \ {w} : item'[v] = item[v]
  PROVE  UNCHANGED Api!vars
<1>1. Goto(w, from, to) /\ from \in Steps /\ to \in Steps /\ UNCHANGED <<request, reply, up>>
  BY DEF Continue, Hidden
<1>2. pc[w] = from /\ pc'[w] = to /\ \A v \in Workers \ {w} : pc'[v] = pc[v]
  BY <1>1 DEF Goto, TypeOK
<1>3. \A v \in Workers : pc'[v] = "write" <=> pc[v] = "write"
  BY <1>2 DEF Hidden
<1>4. \A v \in Workers : pc[v] = "write" => item'[v] = item[v] /\ item[v] \in DOMAIN files
  BY <1>2 DEF Hidden, StoreInv, Equipped, Ready
<1>5. Items' = Items
  BY <1>1, <1>3, <1>4, ItemsStay
<1>6. \A v \in Workers : Phase(v)' = Phase(v) /\ Ticket(v)' = Ticket(v)
  BY <1>2 DEF Phase, Ticket, Hidden
<1> QED
  BY <1>1, <1>5, <1>6 DEF Api!vars

(* The ids of a collection are the names of the files in its directory.    *)
LEMMA IdsAreNames ==
  ASSUME NEW c
  PROVE  Api!IdsIn(c) = {Name(p) : p \in {q \in DOMAIN files : q # <<>> /\ Parent(q) = c}}
BY DEF Items, Api!IdsIn, Api!Owner, Api!Number, Parent, Name

(* What is in no directory is not there.                                   *)
LEMMA NothingBelow ==
  ASSUME TreeIsPlain, NEW c, c \notin dirs \/ Children(c) = {}
  PROVE  Api!IdsIn(c) = {}
BY IdsAreNames DEF TreeIsPlain, Children

(* The steps that refuse.                                                  *)
LEMMA RefusalStep ==
  ASSUME TypeOK, LockHeld, LockHeld', StoreInv, NEW w \in Workers, NEW from \in Hidden,
         NEW status \in {400, 404, 500}, AnswerError(w, from, status),
         UNCHANGED <<files, item, listed>>,
         status = 404 => request[w].path \notin DOMAIN files /\ Api!IdsIn(request[w].path) = {},
         status # 404 => request[w].method # "GET"
  PROVE  Api!Refuse(w)
<1> DEFINE r == Reply(status, {}, "")
<1>1. Answer(w, from, r) /\ from \in Steps
  BY DEF AnswerError, Hidden
<1> HIDE DEF r
<1>2. Api!Tell(w, r) /\ Phases[w] = "pending"
  BY <1>1, AnswerTells DEF PhaseAt, Hidden
<1>3. pc[w] = from /\ pc'[w] = "idle" /\ \A v \in Workers \ {w} : pc'[v] = pc[v]
  BY <1>1 DEF Answer, Goto, TypeOK
<1>4. /\ \A v \in Workers : pc'[v] = "write" <=> pc[v] = "write"
      /\ \A v \in Workers : pc[v] = "write" => item[v] \in DOMAIN files
  BY <1>3 DEF Hidden, StoreInv, Equipped, Ready
<1>5. Items' = Items
  BY <1>1, <1>4, ItemsStay DEF Answer
<1>6. DOMAIN Items = DOMAIN files
  BY ItemsAreShown DEF Shown
<1>7. status = 404 \/ status \in {400, 500}
  OBVIOUS
<1>8. Api!Tell(w, Api!Told(status, {}, ""))
  BY <1>2 DEF Api!Told, Reply, r
<1>9. CASE status = 404
  <2>1. request[w].path \notin DOMAIN Items /\ Api!IdsIn(request[w].path) = {}
    BY <1>6, <1>9
  <2>2. Api!Tell(w, Api!Told(404, {}, ""))
    BY <1>8, <1>9 DEF Api!Told
  <2> QED
    BY <1>2, <1>5, <2>1, <2>2 DEF Api!Refuse, Phases
<1>10. CASE status \in {400, 500}
  <2>1. request[w].method # "GET"
    BY <1>10
  <2>2. \E s \in {400, 500} : Api!Tell(w, Api!Told(s, {}, ""))
    BY <1>8, <1>10, ZenonT(40)
  <2> QED
    BY <1>2, <1>5, <2>1, <2>2, Zenon DEF Api!Refuse, Phases
<1> QED
  BY <1>7, <1>9, <1>10

LEMMA ReceiveAsks ==
  ASSUME TypeOK, LockHeld, LockHeld', StoreInv, NEW w \in Workers, NEW r \in Requests, Receive(w, r)
  PROVE  Api!Ask(w, r)
<1>1. /\ Goto(w, "idle", "arrived") /\ up /\ UNCHANGED <<files, item, listed, up>>
      /\ request' = [request EXCEPT ![w] = r] /\ reply' = [reply EXCEPT ![w] = Reply(0, {}, "")]
      /\ "idle" \in Steps /\ "arrived" \in Steps
  BY DEF Receive, NoReply, tree, Steps
<1>2. /\ pc[w] = "idle" /\ pc'[w] = "arrived"
      /\ \A v \in Workers \ {w} : pc'[v] = pc[v] /\ request'[v] = request[v]
  <2>1. pc \in [Workers -> Steps] /\ request \in [Workers -> Requests \union {NoRequest}]
    BY DEF TypeOK
  <2>2. /\ pc[w] = "idle" /\ pc'[w] = "arrived"
        /\ \A v \in Workers \ {w} : pc'[v] = pc[v]
    BY <1>1, <2>1 DEF Goto
  <2> QED
    BY <1>1, <2>1, <2>2
<1>3. Phases[w] = "idle" /\ Phases' = [Phases EXCEPT ![w] = "pending"]
  <2>1. \A v \in Workers \ {w} : item'[v] = item[v] /\ listed'[v] = listed[v]
    BY <1>1
  <2>2. Phases[w] = PhaseAt("idle") /\ Phases' = [Phases EXCEPT ![w] = PhaseAt("arrived")]
    BY <1>1, <2>1, PhaseMoves
  <2> QED
    BY <2>2 DEF PhaseAt
<1>4. Tickets' = Tickets
  BY <1>1, <1>2 DEF Tickets, Ticket
<1>5. Items' = Items
  <2>1. /\ \A v \in Workers : pc'[v] = "write" <=> pc[v] = "write"
        /\ \A v \in Workers : pc[v] = "write" => request'[v] = request[v] /\ item[v] \in DOMAIN files
    BY <1>2 DEF StoreInv, Equipped, Ready
  <2> QED
    BY <1>1, <2>1, ItemsStay
<1> QED
  BY <1>1, <1>3, <1>4, <1>5 DEF Api!Ask, Api!Told, Reply, Phases, Tickets

(* A write takes effect when its file is opened: with the lock held, no    *)
(* other is being written, and it shows at once what it will hold.         *)
LEMMA OpenPuts ==
  ASSUME TypeOK, LockHeld, LockHeld', StoreInv, NEW w \in Workers, Open(w)
  PROVE  Api!Create(w) \/ Api!Update(w)
<1> DEFINE path == item[w]
<1>1. /\ Goto(w, "open", "write") /\ UNCHANGED <<item, listed, request, reply, up>>
      /\ files' = [p \in DOMAIN files \union {path} |-> IF p = path THEN Torn ELSE files[p]]
      /\ "open" \in Steps /\ "write" \in Steps
  BY DEF Open, Continue, Steps
<1>2. pc[w] = "open" /\ pc'[w] = "write" /\ \A v \in Workers \ {w} : pc'[v] = pc[v]
  BY <1>1 DEF Goto, TypeOK
<1>3. \A v \in Workers : pc[v] # "write"
  BY <1>2, OneWriter DEF ExclusiveSteps
<1>4. /\ Phases[w] = "pending" /\ Phases' = [Phases EXCEPT ![w] = "write"]
      /\ Tickets' = [Tickets EXCEPT ![w] = path]
  BY <1>1, PhaseMoves DEF PhaseAt
<1>5. Items' = [p \in DOMAIN Items \union {path} |-> IF p = path THEN request[w].body ELSE Items[p]]
  <2>1. Shown /\ Shown'
    BY ItemsAreShown
  <2>2. DOMAIN Items' = DOMAIN Items \union {path} /\ DOMAIN Items = DOMAIN files
    BY <1>1, <2>1 DEF Shown
  <2>3. Items'[path] = request[w].body
    BY <1>1, <1>2, <2>1 DEF Shown
  <2>4. ASSUME NEW p \in DOMAIN files, p # path PROVE Items'[p] = Items[p]
    <3>1. ~BeingWritten(p) /\ ~BeingWritten(p)'
      BY <1>1, <1>2, <1>3, <2>4 DEF BeingWritten
    <3> QED
      BY <1>1, <2>1, <2>4, <3>1 DEF Shown
  <2> HIDE DEF path
  <2> QED
    BY <2>2, <2>3, <2>4, ItemsAreFunctions
<1>6. Api!PutItem(w, path)
  BY <1>1, <1>4, <1>5 DEF Api!PutItem, Phases, Tickets
<1>7. Writes(w) /\ request[w] \in Requests /\ (request[w].method = "POST" => path \notin DOMAIN files)
  BY <1>2 DEF StoreInv, Equipped, Ready
<1>8. CASE request[w].method = "POST" /\ Parent(path) = request[w].path
  <2>1. path \in Paths /\ path # <<>> /\ Name(path) \in Int32
    BY <1>7 DEF Writes, Entity, Numbers, TypeOK, Paths
  <2>2. path = Append(request[w].path, Name(path))
    BY <1>8, <2>1, ParentAndName
  <2>3. Name(path) \notin Api!IdsIn(request[w].path)
    <3>1. ASSUME NEW q \in DOMAIN files, q # <<>>, Parent(q) = request[w].path, Name(q) = Name(path) PROVE FALSE
      <4>1. q = path
        BY <1>8, <2>1, <3>1, SameNameSameFile DEF TypeOK, Paths
      <4> QED
        BY <1>7, <1>8, <3>1, <4>1
    <3> QED
      BY <3>1, IdsAreNames
  <2> DEFINE id == Name(path)
  <2>4. Api!PutItem(w, Append(request[w].path, id)) /\ id \in Int32 \ Api!IdsIn(request[w].path)
    BY <1>6, <2>1, <2>2, <2>3
  <2> HIDE DEF id
  <2> QED
    BY <1>4, <1>8, <2>4 DEF Api!Create, Api!Asks, Phases
<1>9. CASE request[w].method = "PUT" /\ path = request[w].path
  BY <1>4, <1>6, <1>9 DEF Api!Update, Api!Asks, Phases
<1> QED
  BY <1>7, <1>8, <1>9 DEF Writes

(* The end of a write changes nothing that shows: the file holds then what *)
(* was shown before.                                                       *)
LEMMA WriteTells ==
  ASSUME NothingBreaks, TypeOK, LockHeld, LockHeld', StoreInv, NEW w \in Workers, Write(w)
  PROVE  Api!TellWritten(w)
<1> DEFINE path == item[w]
           r == IF request[w].method = "POST" THEN Reply(201, {Name(path)}, "") ELSE Reply(200, {}, "")
<1>1. Answer(w, "write", r) /\ UNCHANGED <<item, listed>> /\ "write" \in Steps
  BY DEF Write, Steps
<1>2. files' = [files EXCEPT ![path] = request[w].body]
  BY DEF Write, NothingBreaks
<1> HIDE DEF r
<1>3. Api!Tell(w, r) /\ Phases[w] = "write"
  BY <1>1, AnswerTells DEF PhaseAt
<1>4. pc[w] = "write" /\ pc'[w] = "idle" /\ \A v \in Workers \ {w} : pc'[v] = pc[v]
  BY <1>1 DEF Answer, Goto, TypeOK
<1>5. \A v \in Workers \ {w} : pc[v] # "write"
  BY <1>4, OneWriter DEF ExclusiveSteps
<1>6. path \in DOMAIN files /\ Tickets[w] = path
  BY <1>4 DEF StoreInv, Equipped, Ready, Tickets, Ticket
<1>7. Items' = Items
  <2>1. Shown /\ Shown'
    BY ItemsAreShown
  <2>2. DOMAIN Items' = DOMAIN Items /\ DOMAIN Items = DOMAIN files
    BY <1>2, <2>1 DEF Shown
  <2>3. \A p : ~BeingWritten(p)'
    BY <1>4, <1>5 DEF BeingWritten
  <2>4. \A p : p # path => ~BeingWritten(p)
    BY <1>5 DEF BeingWritten
  <2>5. Items[path] = request[w].body
    BY <1>4, <1>6, <2>1 DEF Shown
  <2>6. \A p \in DOMAIN files : Items'[p] = files'[p]
    BY <2>1, <2>2, <2>3 DEF Shown
  <2>7. files'[path] = request[w].body
    BY <1>2, <1>6
  <2>8. \A p \in DOMAIN files \ {path} : files'[p] = files[p] /\ Items[p] = files[p]
    BY <1>2, <2>1, <2>4 DEF Shown
  <2> HIDE DEF path
  <2>9. \A p \in DOMAIN files : Items'[p] = Items[p]
    BY <2>5, <2>6, <2>7, <2>8
  <2> QED
    BY <2>2, <2>9, ItemsAreFunctions
<1>8. r = IF request[w].method = "POST" THEN Api!Told(201, {Api!Number(Tickets[w])}, "") ELSE Api!Told(200, {}, "")
  BY <1>6 DEF r, Api!Told, Api!Number, Reply, Name
<1> QED
  BY <1>3, <1>7, <1>8 DEF Api!TellWritten, Phases, Tickets

LEMMA DeleteRemoves ==
  ASSUME TypeOK, LockHeld, LockHeld', StoreInv, NEW w \in Workers, Delete(w)
  PROVE  Api!Remove(w)
<1> DEFINE path == request[w].path
           r == Reply(200, {}, "")
<1>1. /\ Answer(w, "delete", r) /\ UNCHANGED <<item, listed>> /\ Children(path) = {}
      /\ files' = [p \in DOMAIN files \ {path} |-> files[p]] /\ "delete" \in Steps
  BY DEF Delete, Steps
<1> HIDE DEF r
<1>2. Api!Tell(w, r) /\ Phases[w] = "pending"
  BY <1>1, AnswerTells DEF PhaseAt
<1>3. pc[w] = "delete" /\ pc'[w] = "idle" /\ \A v \in Workers \ {w} : pc'[v] = pc[v]
  BY <1>1 DEF Answer, Goto, TypeOK
<1>4. \A v \in Workers : pc[v] # "write" /\ pc'[v] # "write"
  BY <1>3, OneWriter DEF ExclusiveSteps
<1>5. request[w].method = "DELETE" /\ Api!IdsIn(path) = {}
  BY <1>1, <1>3, NothingBelow DEF StoreInv, TreeAndMap, Equipped, Ready
<1>6. Items' = [p \in DOMAIN Items \ {path} |-> Items[p]]
  <2>1. Shown /\ Shown' /\ \A p : ~BeingWritten(p) /\ ~BeingWritten(p)'
    BY <1>4, ItemsAreShown DEF BeingWritten
  <2> HIDE DEF path
  <2>2. /\ DOMAIN Items' = DOMAIN Items \ {path}
        /\ \A p \in DOMAIN Items \ {path} : Items'[p] = Items[p]
    BY <1>1, <2>1 DEF Shown
  <2> QED
    BY <2>2, ItemsAreFunctions
<1> QED
  BY <1>2, <1>5, <1>6 DEF Api!Remove, Api!Asks, Api!Told, Reply, Phases, r

(* A worker that reads holds the lock: nothing is being written.           *)
LEMMA ReadersSeeFiles ==
  ASSUME LockHeld, NEW w \in Workers, pc[w] \in SharedSteps
  PROVE  DOMAIN Items = DOMAIN files /\ \A p \in DOMAIN files : ~BeingWritten(p) /\ Items[p] = files[p]
<1>1. \A v \in Workers : pc[v] # "write"
  BY DEF LockHeld, ExclusiveSteps
<1> QED
  BY <1>1, ItemsAreShown DEF Shown, BeingWritten

(* Outside of a write, what a worker's step answers leaves the items.      *)
LEMMA LookingShowsTheSame ==
  ASSUME TypeOK, LockHeld, LockHeld', StoreInv, NEW w \in Workers,
         NEW from \in Steps \ {"write"}, NEW to \in Steps \ {"write"}, Goto(w, from, to),
         UNCHANGED <<files, item, request>>
  PROVE  Items' = Items
<1>1. pc[w] = from /\ pc'[w] = to /\ \A v \in Workers \ {w} : pc'[v] = pc[v]
  BY DEF Goto, TypeOK
<1>2. /\ \A v \in Workers : pc'[v] = "write" <=> pc[v] = "write"
      /\ \A v \in Workers : pc[v] = "write" => item[v] \in DOMAIN files
  BY <1>1 DEF StoreInv, Equipped, Ready
<1> QED
  BY <1>2, ItemsStay

LEMMA ReadFetches ==
  ASSUME NothingBreaks, TypeOK, LockHeld, LockHeld', StoreInv, NEW w \in Workers, Read(w)
  PROVE  Api!Fetch(w) \/ Api!Refuse(w)
<1> DEFINE path == request[w].path
<1>1. pc[w] = "read" /\ UNCHANGED <<files, item, listed>> /\ "read" \in Steps /\ "read" \in Hidden
  BY DEF Read, AnswerError, Answer, Goto, tree, Steps, Hidden
<1>2. request[w].method = "GET" /\ ~Word(path) /\ TreeIsPlain
  BY <1>1 DEF StoreInv, TreeAndMap, Equipped, Ready
<1>3. path \notin dirs
  BY <1>2 DEF TreeIsPlain
<1>4. CASE path \in DOMAIN files /\ Answer(w, "read", Reply(200, {}, files[path]))
  <2> DEFINE r == Reply(200, {}, files[path])
  <2>1. Answer(w, "read", r)
    BY <1>4
  <2> HIDE DEF r
  <2>2. Api!Tell(w, r) /\ Phases[w] = "pending"
    BY <1>1, <2>1, AnswerTells DEF PhaseAt
  <2>3. Items' = Items
    BY <1>1, <2>1, LookingShowsTheSame DEF Answer, Steps
  <2>4. path \in DOMAIN Items /\ Items[path] = files[path]
    BY <1>1, <1>4, ReadersSeeFiles DEF SharedSteps
  <2>5. r = Api!Told(200, {}, Items[path])
    BY <2>4 DEF r, Api!Told, Reply
  <2> QED
    BY <1>2, <2>2, <2>3, <2>4, <2>5 DEF Api!Fetch, Api!Asks, Phases
<1>5. CASE ~Exists(path) /\ AnswerError(w, "read", 404)
  <2>1. path \notin DOMAIN files /\ Api!IdsIn(path) = {}
    BY <1>2, <1>5, NothingBelow DEF Exists
  <2> QED
    BY <1>1, <1>5, <2>1, RefusalStep
<1> QED
  BY <1>3, <1>4, <1>5 DEF Read, NothingBreaks

(* The ids that handle_list copies are the entities there are.             *)
LEMMA ListLists ==
  ASSUME TypeOK, LockHeld, LockHeld', StoreInv, NEW w \in Workers, List(w)
  PROVE  Api!List(w) \/ Api!Refuse(w)
<1> DEFINE name == request[w].path
<1>1. /\ pc[w] = "list" /\ UNCHANGED <<files, item>> /\ "list" \in Steps /\ "list" \in Hidden /\ "format" \in Steps
  BY DEF List, Continue, AnswerError, Answer, Goto, tree, Steps, Hidden
<1>2. request[w] \in Requests /\ request[w].method = "GET" /\ Word(name) /\ up
  BY <1>1 DEF StoreInv, Equipped, Ready
<1>3. name \in Paths /\ name \in Named({"GET"})
  BY <1>2, RequestNames
<1>4. TreeIsPlain /\ MapHasFiles /\ MapHasNoOther
  BY DEF StoreInv, TreeAndMap
<1>5. Api!IdsIn(name) = Entry(name)
  <2>1. \A p \in DOMAIN files : ~BeingWritten(p)
    BY <1>1, ReadersSeeFiles DEF SharedSteps
  <2>2. \A p \in DOMAIN files : Parent(p) = name => Name(p) \in Entry(name)
    BY <1>2, <1>4, <2>1 DEF MapHasFiles
  <2>3. ASSUME NEW i \in Entry(name)
        PROVE  /\ Append(name, i) \in DOMAIN files /\ Append(name, i) # <<>>
               /\ Parent(Append(name, i)) = name /\ Name(Append(name, i)) = i
    <3>1. Append(name, i) \in DOMAIN files /\ i \in Int32
      BY <1>3, <1>4, EntryType DEF MapHasNoOther
    <3> QED
      BY <1>3, <3>1, AppendToPath DEF Components
  <2> QED
    BY <2>2, <2>3, IdsAreNames
<1>6. CASE name \in DOMAIN store /\ Continue(w, "list", "format") /\ listed' = [listed EXCEPT ![w] = store[name]]
  <2>1. listed'[w] = store[name] /\ \A v \in Workers \ {w} : listed'[v] = listed[v]
    BY <1>6 DEF TypeOK
  <2>2. Goto(w, "list", "format") /\ UNCHANGED <<request, reply, up>>
    BY <1>6 DEF Continue
  <2>3. /\ Phases[w] = "pending" /\ Phases' = [Phases EXCEPT ![w] = "format"]
        /\ Tickets' = [Tickets EXCEPT ![w] = store[name]]
    BY <1>1, <2>1, <2>2, PhaseMoves DEF PhaseAt
  <2>4. Items' = Items
    BY <1>1, <2>2, LookingShowsTheSame
  <2>5. Api!IdsIn(name) = store[name]
    BY <1>5, <1>6 DEF Entry
  <2> QED
    BY <1>2, <2>2, <2>3, <2>4, <2>5 DEF Api!List, Api!Asks, Phases, Tickets
<1>7. CASE name \notin DOMAIN store /\ AnswerError(w, "list", 404) /\ UNCHANGED listed
  <2>1. Api!IdsIn(name) = {} /\ name \notin DOMAIN files
    BY <1>2, <1>4, <1>5, <1>7 DEF Entry, TreeIsPlain, Entity, Numbers, Word
  <2> QED
    BY <1>1, <1>7, <2>1, RefusalStep
<1> QED
  BY <1>6, <1>7 DEF List

LEMMA FormatTells ==
  ASSUME TypeOK, LockHeld, LockHeld', StoreInv, NEW w \in Workers, Format(w)
  PROVE  Api!TellListed(w)
<1> DEFINE r == Reply(200, listed[w], "")
<1>1. Answer(w, "format", r) /\ UNCHANGED <<files, item, listed>> /\ "format" \in Steps
  BY DEF Format, tree, Steps
<1> HIDE DEF r
<1>2. Api!Tell(w, r) /\ Phases[w] = "format"
  BY <1>1, AnswerTells DEF PhaseAt
<1>3. Items' = Items
  BY <1>1, LookingShowsTheSame DEF Answer, Steps
<1>4. Tickets[w] = listed[w]
  BY <1>1 DEF Answer, Goto, Tickets, Ticket
<1>5. r = Api!Told(200, Tickets[w], "")
  BY <1>4 DEF r, Api!Told, Reply
<1> QED
  BY <1>2, <1>3, <1>5 DEF Api!TellListed, Phases, Tickets

(* A process that dies leaves the files it was writing empty, no other.    *)
LEMMA TerminateDies ==
  ASSUME TypeOK, LockHeld, LockHeld', StoreInv, Terminate
  PROVE  Api!Die
<1>1. /\ up /\ up' = FALSE /\ pc' = [w \in Workers |-> "idle"] /\ UNCHANGED <<files, reply>>
      /\ request' = [w \in Workers |-> IF pc[w] = "idle" THEN request[w] ELSE NoRequest]
  BY DEF Terminate
<1>2. Phases' = [w \in Workers |-> "idle"] /\ Tickets' = [w \in Workers |-> <<>>]
  BY <1>1 DEF Phases, Phase, Tickets, Ticket
<1>3. request' = [w \in Workers |-> IF Phases[w] = "idle" THEN request[w] ELSE Api!None]
  <2>1. \A w \in Workers : Phases[w] = "idle" <=> pc[w] = "idle"
    BY DEF Phases, Phase
  <2> QED
    BY <1>1, <2>1 DEF Api!None, NoRequest
<1>4. Items' = [p \in DOMAIN Items |-> IF \E w \in Workers : Phases[w] = "write" /\ Tickets[w] = p
                                         THEN Torn ELSE Items[p]]
  <2>1. \A p : BeingWritten(p) <=> \E w \in Workers : Phases[w] = "write" /\ Tickets[w] = p
    BY DEF BeingWritten, Phases, Phase, Tickets, Ticket
  <2>2. Shown /\ Shown' /\ \A p : ~BeingWritten(p)'
    BY <1>1, ItemsAreShown DEF BeingWritten
  <2>3. \A p \in DOMAIN files : BeingWritten(p) => files[p] = Torn
    BY DEF BeingWritten, StoreInv, Equipped, Ready
  <2>4. /\ DOMAIN Items' = DOMAIN Items
        /\ \A p \in DOMAIN Items : Items'[p] = IF BeingWritten(p) THEN Torn ELSE Items[p]
    BY <1>1, <2>2, <2>3 DEF Shown
  <2> QED
    BY <2>1, <2>4, ItemsAreFunctions
<1> QED
  BY <1>1, <1>2, <1>3, <1>4 DEF Api!Die, Phases, Tickets

(* Every step of the handlers is a step of the store or none.              *)
LEMMA StoreStep ==
  ASSUME NothingBreaks, TypeOK, LockHeld, LockHeld', StoreInv, [Next]_vars
  PROVE  [Api!Next]_Api!vars
<1>1. CASE UNCHANGED vars
  BY <1>1 DEF vars, tree, Items, Phase, Ticket, Api!vars
<1>2. ASSUME NEW w \in Workers, NEW r \in Requests, Receive(w, r) PROVE Api!Ask(w, r)
  BY <1>2, ReceiveAsks
<1>3. \A w, from, to : Acquire(w, from, to) => Continue(w, from, to) /\ UNCHANGED <<files, item, listed>>
  BY DEF Acquire, tree
<1>4. ASSUME NEW w \in Workers,
             LockLoad(w) \/ LockPost(w) \/ LockPut(w) \/ LockDelete(w) \/ LockList(w) \/ LockRead(w)
      PROVE  UNCHANGED Api!vars
  <2>1. \E from \in Hidden, to \in Hidden : Continue(w, from, to) /\ UNCHANGED <<files, item, listed>>
    BY <1>3, <1>4 DEF LockLoad, LockPost, LockPut, LockDelete, LockList, LockRead, Hidden, Steps
  <2> QED
    BY <2>1, HiddenStep
<1>5. ASSUME NEW w \in Workers, Load(w) \/ Post(w) \/ Put(w) PROVE UNCHANGED Api!vars
  <2>1. UNCHANGED <<files, listed>> /\ \A v \in Workers \ {w} : item'[v] = item[v]
    BY <1>5 DEF Load, Post, Put, TypeOK
  <2>2. \E from \in Hidden, to \in Hidden : Continue(w, from, to)
    BY <1>5 DEF Load, Post, Put, Hidden, Steps
  <2> QED
    BY <2>1, <2>2, HiddenStep
<1>6. \A w \in Workers : request[w].path \notin dirs => Api!IdsIn(request[w].path) = {}
  BY NothingBelow DEF StoreInv, TreeAndMap
<1>7. ASSUME NEW w \in Workers, Look(w) PROVE UNCHANGED Api!vars \/ Api!Refuse(w)
  <2>1. UNCHANGED <<files, item, listed>>
    BY <1>7 DEF Look, tree
  <2>2. CASE \E to \in {"toList", "toRead"} : Continue(w, "dispatch", to)
    BY <2>1, <2>2, HiddenStep DEF Hidden, Steps
  <2>3. CASE ~Exists(request[w].path) /\ AnswerError(w, "dispatch", 404)
    BY <1>6, <2>1, <2>3, RefusalStep DEF Exists, Hidden, Steps
  <2> QED
    BY <1>7, <2>2, <2>3 DEF Look
<1>8. ASSUME NEW w \in Workers, Refuse(w) PROVE Api!Refuse(w)
  <2>1. AnswerError(w, "dispatch", 400) /\ UNCHANGED <<files, item, listed>> /\ request[w].method # "GET"
    BY <1>8 DEF Refuse, tree
  <2> QED
    BY <2>1, RefusalStep DEF Hidden, Steps
<1>9. ASSUME NEW w \in Workers, OpenFails(w) PROVE Api!Refuse(w)
  <2>1. AnswerError(w, "open", 500) /\ UNCHANGED <<files, item, listed>>
    BY <1>9 DEF OpenFails, tree
  <2>2. request[w].method # "GET"
    BY <2>1 DEF AnswerError, Answer, Goto, StoreInv, Equipped, Ready, Writes
  <2> QED
    BY <2>1, <2>2, RefusalStep DEF Hidden, Steps
<1>10. ASSUME NEW w \in Workers, DeleteFails(w) PROVE Api!Refuse(w)
  <2>1. UNCHANGED <<files, item, listed>> /\ request[w].method = "DELETE"
    BY <1>10 DEF DeleteFails, AnswerError, Answer, Goto, tree, StoreInv, Equipped, Ready
  <2>2. CASE ~Exists(request[w].path) /\ AnswerError(w, "delete", 404)
    BY <1>6, <2>1, <2>2, RefusalStep DEF Exists, Hidden, Steps
  <2>3. CASE AnswerError(w, "delete", 500)
    BY <2>1, <2>3, RefusalStep DEF Hidden, Steps
  <2> QED
    BY <1>10, <2>2, <2>3 DEF DeleteFails
<1>11. ASSUME NEW w \in Workers, WriteThrows(w) \/ FormatThrows(w) \/ DeleteThrows(w) PROVE Api!Die
  BY <1>11, TerminateDies DEF WriteThrows, FormatThrows, DeleteThrows
<1>12. CASE Signal
  BY <1>12, TerminateDies DEF Signal, Api!Next
<1>13. ~Restart
  BY DEF Restart, NothingBreaks
<1>14. ASSUME NEW w \in Workers, Run(w) PROVE [Api!Next]_Api!vars
  <2>1. CASE Modify(w)
    BY <1>4, <1>5, <1>9, <1>10, <1>11, <2>1, OpenPuts, WriteTells, DeleteRemoves DEF Modify, Api!Next
  <2>2. CASE Get(w)
    BY <1>4, <1>7, <1>11, <2>2, ReadFetches, ListLists, FormatTells DEF Get, Api!Next
  <2> QED
    BY <1>4, <1>5, <1>8, <1>14, <2>1, <2>2 DEF Run, Api!Next
<1> QED
  BY <1>1, <1>2, <1>12, <1>13, <1>14 DEF Next, Api!Next

(* With a sound disk, numbers for entities only, no listing of a name cut  *)
(* short and ids below the end of int, whatever the workers interleave is  *)
(* what one atomic store of JSON entities does, down to the death of the   *)
(* process.                                                                *)
THEOREM ApiImplementsJsonStore ==
  ASSUME NumbersAreEntities, NamesAreApart, NothingBreaks
  PROVE  Spec /\ []RoomLeft => ImplementsJsonStore
<1>1. Init => Api!Init
  BY DEF Init, NoRequest, NoReply, Reply, Items, Phase, Ticket, Api!Init, Api!None, Api!Told
<1>2. TypeOK /\ Placed /\ LockHeld /\ StoreInv /\ RoomLeft /\ [Next]_vars => StoreInv'
  BY StoreKept
<1>3. TypeOK /\ LockHeld /\ LockHeld' /\ StoreInv /\ [Next]_vars => [Api!Next]_Api!vars
  BY StoreStep
<1> QED
  BY <1>1, <1>2, <1>3, StoreAtStart, MapStays, PTL DEF Spec, ImplementsJsonStore, Api!Spec
=============================================================================
