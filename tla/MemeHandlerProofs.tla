------------------------- MODULE MemeHandlerProofs --------------------------
(***************************************************************************)
(* Proofs about MemeHandler for any set of workers, any captions and any   *)
(* number of requests.  The invariants are proved in layers, each resting  *)
(* on the ones before it: types, the lock, the rows, the place each        *)
(* handler has reached, the answers.                                       *)
(***************************************************************************)
EXTENDS MemeHandler, FiniteSetTheorems, TLAPS

-----------------------------------------------------------------------------
(* Facts about the data.                                                   *)

(* A request is of the kind its op says.                                   *)
LEMMA RequestKinds ==
  ASSUME NEW r \in Requests
  PROVE  /\ r.op = "create" => r.meme \in Memes
         /\ r.op = "view" => r.id \in ViewIds
BY DEF Requests, CreateRequests, ViewRequests, PlainRequests

(* What INSERT writes has the type of a row.                               *)
LEMMA StoredFormType ==
  ASSUME NEW m \in Memes
  PROVE  StoredForm(m) \in StoredMemes
BY DEF StoredForm, Memes, StoredMemes

(* An answer to a request has the type of an answer.                       *)
LEMMA ReplyType ==
  ASSUME NEW s \in Statuses, NEW ids \in SUBSET Int, NEW ms \in SUBSET StoredMemes
  PROVE  Reply(s, ids, ms) \in [status : Statuses \union {0}, ids : SUBSET Int, memes : SUBSET StoredMemes]
BY DEF Reply

-----------------------------------------------------------------------------
(* Layer 1: types, and that a worker is in the handler its request names.  *)
LEMMA TypesPlaced == Spec => [](TypeOK /\ Placed)
<1>1. Init => TypeOK /\ Placed
  <2> SUFFICES ASSUME Init PROVE TypeOK /\ Placed
    OBVIOUS
  <2>1. NoRequest \in Requests
    BY DEF NoRequest, Requests, PlainRequests
  <2>2. NoReply \in [status : Statuses \union {0}, ids : SUBSET Int, memes : SUBSET StoredMemes]
    BY DEF NoReply, Reply
  <2> QED
    BY <2>1, <2>2, ConstantsAssumption DEF Init, TypeOK, Placed, Steps
<1>2. TypeOK /\ Placed /\ [Next]_vars => TypeOK' /\ Placed'
  <2> SUFFICES ASSUME TypeOK, Placed, [Next]_vars PROVE TypeOK' /\ Placed'
    OBVIOUS
  <2> USE DEF TypeOK, Placed, Steps, database, lock
  <2> DEFINE Good == TypeOK' /\ Placed'
  <2>1. CASE UNCHANGED vars
    BY <2>1 DEF vars
  <2>2. ASSUME NEW w \in Workers, NEW r \in Requests, Receive(w, r) PROVE Good
    BY <2>2 DEF Receive, Goto, NoReply, Reply
  <2>3. ASSUME Restart PROVE Good
    BY <2>3 DEF Restart, Mutex!ResetMutex, NoRequest, Requests, PlainRequests
  <2>4. ASSUME NEW w \in Workers, LockInit(w) \/ LockInsert(w) \/ LockSelect(w) \/ LockCount1(w)
                 \/ LockCount2(w) \/ LockFetch(w) \/ LockList(w)
        PROVE  Good
    BY <2>4 DEF LockInit, LockInsert, LockSelect, LockCount1, LockCount2, LockFetch, LockList,
                Acquire, Continue, Goto, Mutex!LockExclusive, Mutex!LockShared
  <2>5. ASSUME NEW w \in Workers, InitTable(w) PROVE Good
    BY <2>5 DEF InitTable, Continue, Goto, Mutex!UnlockExclusive
  <2>6. ASSUME NEW w \in Workers, AnswerPlain(w) PROVE Good
    <3>1. PICK r \in [status : Statuses \union {0}, ids : SUBSET Int, memes : SUBSET StoredMemes] :
            Answer(w, "dispatch", r)
      BY <2>6 DEF AnswerPlain, Page, Reply, Statuses
    <3> QED
      BY <2>6, <3>1 DEF AnswerPlain, Answer, Goto
  <2>7. ASSUME NEW w \in Workers, Insert(w) PROVE Good
    <3>1. StoredForm(request[w].meme) \in StoredMemes
      BY <2>7, RequestKinds, StoredFormType DEF Insert, Continue, Goto
    <3> QED
      BY <2>7, <3>1 DEF Insert, NewRow, Continue, Goto, Mutex!UnlockExclusive
  <2>8. ASSUME NEW w \in Workers, InsertFails(w) \/ SelectFails(w) \/ FetchFails(w) \/ FetchMisses(w) \/ ListFails(w)
        PROVE  Good
    <3>1. CASE InsertFails(w)
      BY <3>1 DEF InsertFails, Answer, Goto, Reply, Statuses, Mutex!UnlockExclusive
    <3>2. CASE SelectFails(w)
      BY <3>2 DEF SelectFails, Answer, Goto, Reply, Statuses, MayLeak, Mutex!UnlockExclusive
    <3>3. CASE FetchFails(w)
      BY <3>3 DEF FetchFails, Answer, Goto, Reply, Statuses, MayLeak, Mutex!UnlockShared
    <3>4. CASE FetchMisses(w)
      BY <3>4 DEF FetchMisses, Answer, Goto, Reply, Statuses, Mutex!UnlockShared
    <3>5. CASE ListFails(w)
      BY <3>5 DEF ListFails, Answer, Goto, Reply, Statuses, Mutex!UnlockShared
    <3> QED
      BY <2>8, <3>1, <3>2, <3>3, <3>4, <3>5
  <2>9. ASSUME NEW w \in Workers, SelectId(w) PROVE Good
    <3>1. SelectedIds(request[w].meme) \subseteq Int
      BY DEF SelectedIds
    <3> QED
      BY <2>9, <3>1 DEF SelectId, Answer, Goto, Page, Reply, Statuses, Mutex!UnlockExclusive
  <2>10. ASSUME NEW w \in Workers, Count(w) \/ CountFails(w) PROVE Good
    BY <2>10 DEF Count, CountFails, Guard, GuardEmpty, GuardAbove, Answer, Continue, Goto, Reply, Statuses,
                 MayLeak, Mutex!UnlockShared
  <2>11. ASSUME NEW w \in Workers, Fetch(w) PROVE Good
    BY <2>11 DEF Fetch, Answer, Goto, Page, Reply, Statuses, Mutex!UnlockShared
  <2>12. ASSUME NEW w \in Workers, List(w) PROVE Good
    BY <2>12 DEF List, Answer, Goto, Page, Reply, Statuses, Mutex!UnlockShared
  <2> QED
    BY <2>1, <2>2, <2>3, <2>4, <2>5, <2>6, <2>7, <2>8, <2>9, <2>10, <2>11, <2>12
       DEF Next, Run, Construct, HandleCreate, HandleRetrieve, HandleList, InitFails, Crash
<1> QED
  BY <1>1, <1>2, PTL DEF Spec

(* Types as an invariant of their own.                                     *)
THEOREM MemeTypeCorrect == Spec => []TypeOK
BY TypesPlaced, PTL

-----------------------------------------------------------------------------
(* Layer 2: the mutex is held by exactly the workers in critical sections. *)
LEMMA LockIsHeld == Spec => []LockHeld
<1>1. Init => LockHeld
  BY DEF Init, LockHeld, ExclusiveSteps, SharedSteps
<1>2. TypeOK /\ LockHeld /\ [Next]_vars => LockHeld'
  <2> SUFFICES ASSUME TypeOK, LockHeld, [Next]_vars PROVE LockHeld'
    OBVIOUS
  <2> USE DEF TypeOK, LockHeld, Steps, ExclusiveSteps, SharedSteps, database, lock
  <2>1. CASE UNCHANGED vars
    BY <2>1 DEF vars
  <2>2. ASSUME NEW w \in Workers, NEW r \in Requests, Receive(w, r) PROVE LockHeld'
    BY <2>2 DEF Receive, Goto
  <2>3. ASSUME Restart PROVE LockHeld'
    BY <2>3 DEF Restart, Mutex!ResetMutex
  <2>4. ASSUME NEW w \in Workers, LockInit(w) \/ LockInsert(w) \/ LockSelect(w) PROVE LockHeld'
    BY <2>4 DEF LockInit, LockInsert, LockSelect, Acquire, Continue, Goto, Mutex!LockExclusive
  <2>5. ASSUME NEW w \in Workers, LockCount1(w) \/ LockCount2(w) \/ LockFetch(w) \/ LockList(w) PROVE LockHeld'
    BY <2>5 DEF LockCount1, LockCount2, LockFetch, LockList, Acquire, Continue, Goto, Mutex!LockShared
  <2>6. ASSUME NEW w \in Workers, AnswerPlain(w) PROVE LockHeld'
    BY <2>6 DEF AnswerPlain, Answer, Goto
  <2>7. ASSUME NEW w \in Workers, InitTable(w) \/ Insert(w) \/ InsertFails(w) \/ SelectId(w) \/ SelectFails(w)
        PROVE  LockHeld'
    <3>1. /\ pc[w] \in ExclusiveSteps
          /\ \E to \in {"idle", "dispatch", "inserted"} : pc' = [pc EXCEPT ![w] = to]
          /\ writers' = writers \ {w} /\ readers' = readers
      BY <2>7 DEF InitTable, Insert, InsertFails, SelectId, SelectFails, Answer, Continue, Goto, Mutex!UnlockExclusive
    <3> QED
      BY <3>1
  <2>8. ASSUME NEW w \in Workers, Count(w) \/ CountFails(w) PROVE LockHeld'
    BY <2>8 DEF Count, CountFails, Guard, GuardEmpty, GuardAbove, Answer, Continue, Goto, Mutex!UnlockShared
  <2>9. ASSUME NEW w \in Workers, Fetch(w) \/ FetchMisses(w) \/ FetchFails(w) \/ List(w) \/ ListFails(w)
        PROVE  LockHeld'
    BY <2>9 DEF Fetch, FetchMisses, FetchFails, List, ListFails, Answer, Goto, Mutex!UnlockShared
  <2> QED
    BY <2>1, <2>2, <2>3, <2>4, <2>5, <2>6, <2>7, <2>8, <2>9
       DEF Next, Run, Construct, HandleCreate, HandleRetrieve, HandleList, InitFails, Crash
<1> QED
  BY <1>1, <1>2, TypesPlaced, PTL DEF Spec

(* So no two connections ever conflict: SQLITE_BUSY does not occur.        *)
LEMMA NeverBusy ==
  ASSUME LockHeld, NEW w \in Workers
  PROVE  ~Busy(w)
BY DEF LockHeld, Busy, Writing, Reading, ExclusiveSteps, SharedSteps

-----------------------------------------------------------------------------
(* Layer 3: past the constructor there is a table.                         *)
LEMMA TableIsReady == Spec => []TableReady
<1>1. Init => TableReady
  BY DEF Init, TableReady
<1>2. TypeOK /\ TableReady /\ [Next]_vars => TableReady'
  <2> SUFFICES ASSUME TypeOK, TableReady, [Next]_vars PROVE TableReady'
    OBVIOUS
  <2> USE DEF TypeOK, TableReady, Steps, database
  <2>1. CASE UNCHANGED vars
    BY <2>1 DEF vars
  <2>2. ASSUME NEW w \in Workers, NEW r \in Requests, Receive(w, r) PROVE TableReady'
    BY <2>2 DEF Receive, Goto
  <2>3. ASSUME Restart PROVE TableReady'
    BY <2>3 DEF Restart
  <2>4. ASSUME NEW w \in Workers, InitTable(w) PROVE TableReady'
    BY <2>4 DEF InitTable
  <2>5. ASSUME NEW w \in Workers, LockInit(w) \/ LockInsert(w) \/ LockSelect(w) \/ LockCount1(w)
                 \/ LockCount2(w) \/ LockFetch(w) \/ LockList(w)
        PROVE  TableReady'
    BY <2>5 DEF LockInit, LockInsert, LockSelect, LockCount1, LockCount2, LockFetch, LockList, Acquire, Continue, Goto
  <2>6. ASSUME NEW w \in Workers, AnswerPlain(w) \/ HandleList(w) \/ HandleCreate(w) PROVE TableReady'
    BY <2>5, <2>6 DEF AnswerPlain, HandleList, HandleCreate, Insert, InsertFails, SelectId, SelectFails,
                      List, ListFails, Answer, Continue, Goto
  <2>7. ASSUME NEW w \in Workers, HandleRetrieve(w) PROVE TableReady'
    BY <2>5, <2>7 DEF HandleRetrieve, Count, CountFails, Guard, GuardEmpty, GuardAbove,
                      Fetch, FetchMisses, FetchFails, Answer, Continue, Goto
  <2> QED
    BY <2>1, <2>2, <2>3, <2>4, <2>5, <2>6, <2>7 DEF Next, Run, Construct, InitFails, Crash
<1> QED
  BY <1>1, <1>2, TypesPlaced, PTL DEF Spec

-----------------------------------------------------------------------------
(* Layer 4: the rows.                                                      *)

(* Only the INSERT of handle_create writes to the table.                   *)
LEMMA OnlyInsertWrites ==
  ASSUME [Next]_vars
  PROVE  UNCHANGED <<table, rowSeq>> \/ \E w \in Workers : Insert(w)
<1> DEFINE Kept == UNCHANGED <<table, rowSeq>>
<1>1. CASE UNCHANGED vars
  BY <1>1 DEF vars, database
<1>2. ASSUME Restart PROVE Kept
  BY <1>2 DEF Restart, database
<1>3. ASSUME NEW w \in Workers, NEW r \in Requests, Receive(w, r) PROVE Kept
  BY <1>3 DEF Receive, database
<1>4. ASSUME NEW w \in Workers, LockInit(w) \/ LockInsert(w) \/ LockSelect(w) \/ LockCount1(w)
               \/ LockCount2(w) \/ LockFetch(w) \/ LockList(w)
      PROVE  Kept
  BY <1>4 DEF LockInit, LockInsert, LockSelect, LockCount1, LockCount2, LockFetch, LockList, Acquire, database
<1>5. ASSUME NEW w \in Workers, InitTable(w) \/ AnswerPlain(w) \/ InsertFails(w) \/ SelectId(w) \/ SelectFails(w)
      PROVE  Kept
  BY <1>5 DEF InitTable, AnswerPlain, InsertFails, SelectId, SelectFails, database
<1>6. ASSUME NEW w \in Workers, Count(w) \/ CountFails(w) \/ Fetch(w) \/ FetchMisses(w) \/ FetchFails(w)
               \/ List(w) \/ ListFails(w)
      PROVE  Kept
  BY <1>6 DEF Count, CountFails, Fetch, FetchMisses, FetchFails, List, ListFails, database
<1> HIDE DEF Kept
<1>7. ASSUME NEW w \in Workers, Run(w), ~InitFails(w) PROVE Kept \/ Insert(w)
  BY <1>4, <1>5, <1>6, <1>7 DEF Run, Construct, HandleCreate, HandleRetrieve, HandleList
<1>8. CASE Crash
  BY <1>2, <1>8 DEF Crash, InitFails, Kept
<1> QED
  BY <1>1, <1>2, <1>3, <1>7, <1>8 DEF Next, InitFails, Kept

(* No row is ever changed or removed, and the rows stay numbered 1 .. n,   *)
(* all different: handle_retrieve may take the number of rows for the      *)
(* greatest id.                                                            *)
LEMMA RowStep ==
  ASSUME TypeOK, Placed, RowsDenseAndDistinct, [Next]_vars
  PROVE  /\ RowsDenseAndDistinct'
         /\ \A i \in DOMAIN table : i \in DOMAIN table' /\ table'[i] = table[i]
<1>1. CASE UNCHANGED <<table, rowSeq>>
  BY <1>1 DEF RowsDenseAndDistinct
<1>2. ASSUME NEW w \in Workers, Insert(w), ~Duplicate(request[w].meme)
      PROVE  /\ RowsDenseAndDistinct'
             /\ \A i \in DOMAIN table : i \in DOMAIN table' /\ table'[i] = table[i]
  <2> DEFINE row == StoredForm(request[w].meme)
  <2>1. /\ rowSeq' = rowSeq + 1
        /\ table' = [i \in DOMAIN table \union {rowSeq + 1} |-> IF i = rowSeq + 1 THEN row ELSE table[i]]
    BY <1>2 DEF Insert, NewRow
  <2>2. DOMAIN table = 1 .. rowSeq /\ rowSeq \in Nat
    BY DEF RowsDenseAndDistinct, TypeOK
  <2>3. \A i \in DOMAIN table : table[i] # row
    BY <1>2 DEF Duplicate
  <2>4. DOMAIN table' = 1 .. rowSeq'
    BY <2>1, <2>2
  <2> HIDE DEF row
  <2>5. \A i \in DOMAIN table : i \in DOMAIN table' /\ table'[i] = table[i]
    BY <2>1, <2>2
  <2>6. \A i, j \in DOMAIN table' : table'[i] = table'[j] => i = j
    BY <2>1, <2>2, <2>3 DEF RowsDenseAndDistinct
  <2> QED
    BY <2>4, <2>5, <2>6 DEF RowsDenseAndDistinct
<1>3. ASSUME NEW w \in Workers, Insert(w), Duplicate(request[w].meme)
      PROVE  UNCHANGED <<table, rowSeq>>
  BY <1>3 DEF Insert
<1> QED
  BY <1>1, <1>2, <1>3, OnlyInsertWrites

THEOREM MemeRowsDenseAndDistinct == Spec => []RowsDenseAndDistinct
<1>1. Init => RowsDenseAndDistinct
  BY DEF Init, RowsDenseAndDistinct
<1>2. TypeOK /\ Placed /\ RowsDenseAndDistinct /\ [Next]_vars => RowsDenseAndDistinct'
  BY RowStep
<1> QED
  BY <1>1, <1>2, TypesPlaced, PTL DEF Spec

(* An id handed out once stands for the same meme ever after, restarts     *)
(* included.                                                               *)
THEOREM MemesStayForever == Spec => MemesArePermanent
<1>1. TypeOK /\ Placed /\ RowsDenseAndDistinct /\ [Next]_vars
        => [\A i \in DOMAIN table : i \in DOMAIN table' /\ table'[i] = table[i]]_vars
  BY RowStep
<1> QED
  BY <1>1, TypesPlaced, MemeRowsDenseAndDistinct, PTL DEF Spec, MemesArePermanent

-----------------------------------------------------------------------------
(* Layer 5: what a handler knows between two of its critical sections.     *)

(* The last id is the number of rows.                                      *)
LEMMA CountIsLastId ==
  ASSUME TypeOK, RowsDenseAndDistinct
  PROVE  Cardinality(DOMAIN table) = rowSeq
BY FS_Interval DEF TypeOK, RowsDenseAndDistinct

LEMMA KnowledgeStays == Spec => [](InsertedStays /\ SeenStays /\ GuardHolds)
<1> DEFINE Known == InsertedStays /\ SeenStays /\ GuardHolds
<1>1. Init => Known
  BY DEF Init, InsertedStays, SeenStays, GuardHolds
<1>2. TypeOK /\ Placed /\ LockHeld /\ TableReady /\ RowsDenseAndDistinct /\ Known /\ [Next]_vars => Known'
  <2> SUFFICES ASSUME TypeOK, Placed, LockHeld, TableReady, RowsDenseAndDistinct, Known, [Next]_vars
               PROVE  Known'
    OBVIOUS
  <2>1. /\ \A i \in DOMAIN table : i \in DOMAIN table' /\ table'[i] = table[i]
        /\ rowSeq' >= rowSeq /\ rowSeq' \in Nat
    <3>1. rowSeq' = rowSeq \/ rowSeq' = rowSeq + 1
      BY OnlyInsertWrites DEF Insert
    <3> QED
      BY <3>1, RowStep DEF TypeOK
  <2> USE DEF TypeOK, Steps, InsertedStays, SeenStays, GuardHolds, Duplicate
  <2>2. CASE UNCHANGED vars
    BY <2>2 DEF vars, database
  <2>3. ASSUME NEW w \in Workers, NEW r \in Requests, Receive(w, r) PROVE Known'
    BY <2>1, <2>3 DEF Receive, Goto, StoredForm, database
  <2>4. CASE Restart
    BY <2>1, <2>4 DEF Restart, StoredForm, database
  <2>5. ASSUME NEW w \in Workers, Insert(w) PROVE Known'
    <3>1. \E i \in DOMAIN table' : table'[i] = StoredForm(request[w].meme)
      BY <2>5 DEF Insert, NewRow
    <3>2. /\ pc' = [pc EXCEPT ![w] = "inserted"] /\ request' = request /\ seen' = seen
      BY <2>5 DEF Insert, Continue, Goto
    <3>3. InsertedStays'
      BY <2>1, <3>1, <3>2 DEF StoredForm
    <3>4. SeenStays'
      BY <2>1, <3>2
    <3>5. GuardHolds'
      BY <2>1, <2>5, <3>2, RequestKinds, ConstantsAssumption DEF Placed
    <3> QED
      BY <3>3, <3>4, <3>5
  <2>6. ASSUME NEW w \in Workers, GuardAbove(w, Cardinality(DOMAIN table)), UNCHANGED <<table, rowSeq>>
        PROVE  Known'
    <3>1. pc[w] = "count2" /\ request[w].id \in Int
      BY <2>6, RequestKinds, ConstantsAssumption DEF GuardAbove, Placed
    <3>2. request' = request /\ seen' = seen
      BY <2>6 DEF GuardAbove, Answer, Continue
    <3>3. pc' = [pc EXCEPT ![w] = "idle"] \/ (pc' = [pc EXCEPT ![w] = "guarded"] /\ request[w].id <= rowSeq)
      BY <2>6, <3>1, CountIsLastId DEF GuardAbove, Answer, Continue, Goto
    <3> QED
      BY <2>6, <3>1, <3>2, <3>3 DEF StoredForm
  <2>7. ASSUME NEW w \in Workers, GuardAbove(w, 500), "db" \in Faults, UNCHANGED <<table, rowSeq>>
        PROVE  Known'
    <3>1. /\ request' = request /\ seen' = seen
          /\ \A v \in Workers : pc'[v] = pc[v] \/ pc'[v] \in {"idle", "guarded"}
      BY <2>7 DEF GuardAbove, Answer, Continue, Goto
    <3>2. InsertedStays'
      BY <2>7, <3>1 DEF StoredForm
    <3>3. SeenStays'
      BY <2>7, <3>1
    <3>4. GuardHolds'
      BY <2>7
    <3> QED
      BY <3>2, <3>3, <3>4
  <2>8. ASSUME NEW w \in Workers, NEW from \in Steps,
               NEW to \in Steps \ {"inserted", "guarded", "select", "fetch"},
               Goto(w, from, to), UNCHANGED <<table, rowSeq, request, seen>>
        PROVE  Known'
    BY <2>8 DEF Goto, StoredForm
  <2>9. ASSUME NEW w \in Workers, LockSelect(w) \/ LockFetch(w) PROVE Known'
    BY <2>9 DEF LockSelect, LockFetch, Acquire, Continue, Goto, StoredForm, database
  <2>10. ASSUME NEW w \in Workers, Construct(w), ~InitFails(w) PROVE Known'
    BY <2>8, <2>10 DEF Construct, LockInit, InitTable, Acquire, Continue, database
  <2>11. ASSUME NEW w \in Workers, AnswerPlain(w) \/ HandleList(w) PROVE Known'
    BY <2>8, <2>11 DEF AnswerPlain, HandleList, LockList, List, ListFails, Acquire, Continue, Answer, database
  <2>12. ASSUME NEW w \in Workers, HandleCreate(w) PROVE Known'
    BY <2>5, <2>8, <2>9, <2>12 DEF HandleCreate, LockInsert, InsertFails, SelectId, SelectFails,
                                   Acquire, Continue, Answer, database
  <2>13. ASSUME NEW w \in Workers, Count(w) PROVE Known'
    BY <2>6, <2>8, <2>13 DEF Count, Guard, GuardEmpty, Continue, Answer, database
  <2>14. ASSUME NEW w \in Workers, CountFails(w) PROVE Known'
    <3>1. "db" \in Faults
      BY <2>14, NeverBusy DEF CountFails, MayFail, TableReady, Guard, GuardEmpty, GuardAbove
    <3> QED
      BY <2>7, <2>8, <2>14, <3>1 DEF CountFails, Guard, GuardEmpty, Continue, Answer, database
  <2>15. ASSUME NEW w \in Workers, HandleRetrieve(w) PROVE Known'
    BY <2>8, <2>9, <2>13, <2>14, <2>15
       DEF HandleRetrieve, LockCount1, LockCount2, Fetch, FetchMisses, FetchFails, Acquire, Continue, Answer, database
  <2> QED
    BY <2>2, <2>3, <2>4, <2>10, <2>11, <2>12, <2>15 DEF Next, Run, InitFails, Crash
<1> QED
  BY <1>1, <1>2, TypesPlaced, LockIsHeld, TableIsReady, MemeRowsDenseAndDistinct, PTL DEF Spec

(* The whole strengthening holds in every state.                           *)
THEOREM MemeInductiveInvariant == Spec => []InductiveInvariant
BY TypesPlaced, LockIsHeld, TableIsReady, MemeRowsDenseAndDistinct, KnowledgeStays, PTL DEF InductiveInvariant

-----------------------------------------------------------------------------
(* Layer 6: the answers.                                                   *)

(* What one worker's last answer must satisfy.                             *)
RightAnswer(v) ==
  /\ Answered(v, "view", 400) /\ request[v].id \in seen[v] => "db" \in Faults /\ request[v].id > 500
  /\ Answered(v, "view", 200) => request[v].id \in DOMAIN table /\ reply[v].memes = {table[request[v].id]}
  /\ Answered(v, "list", 200) => seen[v] \subseteq reply[v].ids /\ reply[v].ids \subseteq DOMAIN table
  /\ "db" \notin Faults /\ reply[v].status = 500 =>
       request[v].op = "create" /\ Malformed(request[v].meme)

(* An answer that was right stays right.                                   *)
LEMMA RightAnswerStays ==
  ASSUME InductiveInvariant, [Next]_vars, NEW v \in Workers, RightAnswer(v),
         reply'[v] = reply[v], request'[v] = request[v], seen'[v] = seen[v]
  PROVE  RightAnswer(v)'
<1>1. \A i \in DOMAIN table : i \in DOMAIN table' /\ table'[i] = table[i]
  BY RowStep DEF InductiveInvariant
<1>2. Malformed(request[v].meme)' <=> Malformed(request[v].meme)
  BY DEF Malformed
<1> QED
  BY <1>1, <1>2 DEF RightAnswer, Answered

(* A step gives right answers and spoils none.                             *)
LEMMA RightAnswerStep ==
  ASSUME InductiveInvariant, [Next]_vars, NEW v \in Workers, RightAnswer(v)
  PROVE  RightAnswer(v)'
<1> USE DEF InductiveInvariant
<1> DEFINE Kept(u) == reply'[u] = reply[u] /\ request'[u] = request[u] /\ seen'[u] = seen[u]
<1>1. CASE UNCHANGED vars
  BY <1>1, RightAnswerStays DEF vars
<1>2. ASSUME NEW w \in Workers, NEW r \in Requests, Receive(w, r) PROVE RightAnswer(v)'
  <2>1. CASE v = w
    <3>1. reply'[v].status = 0
      BY <1>2, <2>1 DEF Receive, NoReply, Reply, TypeOK
    <3> QED
      BY <3>1 DEF RightAnswer, Answered
  <2>2. CASE v # w
    BY <1>2, <2>2, RightAnswerStays DEF Receive, TypeOK
  <2> QED
    BY <2>1, <2>2
<1>3. ASSUME Restart PROVE RightAnswer(v)'
  <2>1. CASE pc[v] = "idle"
    BY <1>3, <2>1, RightAnswerStays DEF Restart
  <2>2. CASE pc[v] # "idle"
    <3>1. reply'[v].status = 0
      BY <1>3, <2>2 DEF Restart, Placed, NoReply, Reply
    <3> QED
      BY <3>1 DEF RightAnswer, Answered
  <2> QED
    BY <2>1, <2>2
<1>4. ASSUME NEW w \in Workers, NEW from \in Steps, NEW to \in Steps, Continue(w, from, to) PROVE RightAnswer(v)'
  BY <1>4, RightAnswerStays DEF Continue
<1>5. ASSUME NEW w \in Workers, NEW from \in Steps, NEW r, Answer(w, from, r),
             reply'[w] = r => RightAnswer(w)'
      PROVE  RightAnswer(v)'
  BY <1>5, RightAnswerStays DEF Answer, TypeOK
<1>6. ASSUME NEW w \in Workers, AnswerPlain(w) PROVE RightAnswer(v)'
  <2>1. PICK r : Answer(w, "dispatch", r) /\ r.status \in {200, 400, 404}
    BY <1>6 DEF AnswerPlain, Page, Reply
  <2>2. reply'[w] = r => RightAnswer(w)'
    BY <1>6, <2>1 DEF AnswerPlain, Answer, RightAnswer, Answered
  <2> QED
    BY <2>1, <2>2, <1>5 DEF Steps
<1>7. ASSUME NEW w \in Workers, NEW from \in Steps, NEW s, Answer(w, from, Reply(s, {}, {})),
             \/ s = 404
             \/ s = 500 /\ ("db" \in Faults \/ (from = "insert" /\ Malformed(request[w].meme)))
             \/ /\ s = 400 /\ request[w].op = "view"
                /\ request[w].id \in seen[w] => "db" \in Faults /\ request[w].id > 500
      PROVE  RightAnswer(v)'
  <2>1. from = "insert" => request[w].op = "create"
    BY <1>7 DEF Answer, Goto, Placed
  <2>2. request' = request /\ seen' = seen /\ (Malformed(request[w].meme)' <=> Malformed(request[w].meme))
    BY <1>7 DEF Answer, Malformed
  <2>3. reply'[w] = Reply(s, {}, {}) => RightAnswer(w)'
    BY <1>7, <2>1, <2>2 DEF RightAnswer, Answered, Reply
  <2> QED
    BY <1>5, <1>7, <2>3
<1>8. ASSUME NEW w \in Workers, pc[w] \notin {"idle", "arrived", "init"}, MayFail(w) PROVE "db" \in Faults
  BY <1>8, NeverBusy DEF MayFail, TableReady
<1>9. \A w \in Workers : seen[w] \subseteq 1 .. rowSeq /\ rowSeq \in Nat /\ DOMAIN table = 1 .. rowSeq
  BY DEF SeenStays, RowsDenseAndDistinct, TypeOK
<1>10. ASSUME NEW w \in Workers, HandleCreate(w) PROVE RightAnswer(v)'
  <2>1. CASE LockInsert(w) \/ LockSelect(w) \/ Insert(w)
    BY <1>4, <2>1 DEF LockInsert, LockSelect, Insert, Acquire, Steps
  <2>2. CASE InsertFails(w)
    <3>1. Answer(w, "insert", Reply(500, {}, {})) /\ pc[w] = "insert" /\ (MayFail(w) \/ Malformed(request[w].meme))
      BY <2>2 DEF InsertFails, Answer, Goto
    <3>2. "db" \in Faults \/ Malformed(request[w].meme)
      BY <1>8, <3>1
    <3> QED
      BY <1>7, <3>1, <3>2 DEF Steps
  <2>3. CASE SelectFails(w)
    <3>1. Answer(w, "select", Reply(500, {}, {})) /\ pc[w] = "select" /\ (MayFail(w))
      BY <2>3 DEF SelectFails, Answer, Goto
    <3>2. "db" \in Faults
      BY <1>8, <3>1
    <3> QED
      BY <1>7, <3>1, <3>2 DEF Steps
  <2>4. CASE SelectId(w)
    <3>1. PICK r : Answer(w, "select", r) /\ r.status \in {200, 404}
      BY <2>4 DEF SelectId, Page, Reply
    <3>2. request'[w].op = "create"
      BY <3>1 DEF Answer, Goto, Placed
    <3>3. reply'[w] = r => RightAnswer(w)'
      BY <3>1, <3>2 DEF RightAnswer, Answered
    <3> QED
      BY <1>5, <3>1, <3>3 DEF Steps
  <2> QED
    BY <1>10, <2>1, <2>2, <2>3, <2>4 DEF HandleCreate
<1>11. ASSUME NEW w \in Workers, HandleList(w) PROVE RightAnswer(v)'
  <2>1. CASE LockList(w)
    BY <1>4, <2>1 DEF LockList, Acquire, Steps
  <2>2. CASE ListFails(w)
    <3>1. Answer(w, "list", Reply(500, {}, {})) /\ pc[w] = "list" /\ (MayFail(w))
      BY <2>2 DEF ListFails, Answer, Goto
    <3>2. "db" \in Faults
      BY <1>8, <3>1
    <3> QED
      BY <1>7, <3>1, <3>2 DEF Steps
  <2>3. CASE List(w)
    <3>1. PICK r : /\ Answer(w, "list", r)
                   /\ r = Reply(404, {}, {}) \/ r = Reply(200, DOMAIN table, {})
      BY <2>3 DEF List, Page
    <3>2. request'[w].op = "list" /\ seen' = seen /\ table' = table
      BY <2>3, <3>1 DEF List, Answer, Goto, Placed, database
    <3>3. reply'[w] = r => RightAnswer(w)'
      BY <3>1, <3>2 DEF RightAnswer, Answered, Reply, SeenStays
    <3> QED
      BY <1>5, <3>1, <3>3 DEF Steps
  <2> QED
    BY <1>11, <2>1, <2>2, <2>3 DEF HandleList
<1>12. ASSUME NEW w \in Workers, HandleRetrieve(w) PROVE RightAnswer(v)'
  <2>1. CASE LockCount1(w) \/ LockCount2(w) \/ LockFetch(w)
    BY <1>4, <2>1 DEF LockCount1, LockCount2, LockFetch, Acquire, Steps
  <2>2. CASE Count(w)
    <3>1. Cardinality(DOMAIN table) = rowSeq
      BY CountIsLastId
    <3>2. CASE GuardEmpty(w, rowSeq)
      <4>1. request[w].op = "view" /\ (rowSeq = 0 => request[w].id \notin seen[w])
        BY <1>9, <3>2 DEF GuardEmpty, Placed
      <4> QED
        BY <1>4, <1>7, <3>2, <4>1 DEF GuardEmpty, Steps
    <3>3. CASE GuardAbove(w, rowSeq)
      <4>1. request[w].op = "view" /\ (request[w].id > rowSeq => request[w].id \notin seen[w])
        BY <1>9, <3>3 DEF GuardAbove, Placed
      <4> QED
        BY <1>4, <1>7, <3>3, <4>1 DEF GuardAbove, Steps
    <3> QED
      BY <2>2, <3>1, <3>2, <3>3 DEF Count, Guard
  <2>3. CASE CountFails(w)
    <3>1. "db" \in Faults /\ request[w].op = "view" /\ Guard(w, 500)
      BY <1>8, <2>3 DEF CountFails, Guard, GuardEmpty, GuardAbove, Placed
    <3>2. CASE GuardEmpty(w, 500)
      BY <1>4, <3>2 DEF GuardEmpty, Steps
    <3>3. CASE GuardAbove(w, 500)
      BY <1>4, <1>7, <3>1, <3>3 DEF GuardAbove, Steps
    <3> QED
      BY <3>1, <3>2, <3>3 DEF Guard
  <2>4. CASE Fetch(w)
    <3> DEFINE id == request[w].id
    <3>1. PICK r : /\ Answer(w, "fetch", r)
                   /\ r = Reply(404, {}, {}) \/ r = Reply(200, {id}, {table[id]})
      BY <2>4 DEF Fetch, Page
    <3>2. request' = request /\ request[w].op = "view" /\ table' = table /\ id \in DOMAIN table
      BY <2>4, <3>1 DEF Fetch, Answer, Goto, Placed, database
    <3>3. reply'[w] = r => RightAnswer(w)'
      BY <3>1, <3>2 DEF RightAnswer, Answered, Reply
    <3> QED
      BY <1>5, <3>1, <3>3 DEF Steps
  <2>5. CASE FetchMisses(w)
    <3>1. request[w].op = "view" /\ request[w].id \notin seen[w] /\ Answer(w, "fetch", Reply(400, {}, {}))
      BY <2>5 DEF FetchMisses, Answer, Goto, Placed, SeenStays
    <3> QED
      BY <1>7, <3>1 DEF Steps
  <2>6. CASE FetchFails(w)
    <3>1. Answer(w, "fetch", Reply(500, {}, {})) /\ pc[w] = "fetch" /\ (MayFail(w))
      BY <2>6 DEF FetchFails, Answer, Goto
    <3>2. "db" \in Faults
      BY <1>8, <3>1
    <3> QED
      BY <1>7, <3>1, <3>2 DEF Steps
  <2> QED
    BY <1>12, <2>1, <2>2, <2>3, <2>4, <2>5, <2>6 DEF HandleRetrieve
<1>13. ASSUME NEW w \in Workers, Construct(w) PROVE RightAnswer(v)'
  BY <1>3, <1>4, <1>13 DEF Construct, LockInit, InitTable, InitFails, Acquire, Steps
<1> QED
  BY <1>1, <1>2, <1>3, <1>6, <1>10, <1>11, <1>12, <1>13 DEF Next, Run, Crash

(* All four at once, for every worker.                                     *)
LEMMA AnswersAreRight == Spec => [](\A v \in Workers : RightAnswer(v))
<1> DEFINE AllRight == \A v \in Workers : RightAnswer(v)
<1>1. Init => AllRight
  BY DEF Init, RightAnswer, Answered, NoReply, Reply
<1>2. InductiveInvariant /\ AllRight /\ [Next]_vars => AllRight'
  BY RightAnswerStep
<1> QED
  BY <1>1, <1>2, MemeInductiveInvariant, PTL DEF Spec

(* handle_retrieve refuses no meme that was there when it was asked, but   *)
(* for one above 500 when a count fails.                                   *)
THEOREM MemeStoredIsViewable == Spec => []StoredMemeIsViewable
<1>1. (\A v \in Workers : RightAnswer(v)) => StoredMemeIsViewable
  BY DEF RightAnswer, StoredMemeIsViewable
<1> QED
  BY <1>1, AnswersAreRight, PTL

(* handle_retrieve shows the row of the id it was asked for.               *)
THEOREM MemeViewShowsItsRow == Spec => []ViewShowsItsRow
<1>1. (\A v \in Workers : RightAnswer(v)) => ViewShowsItsRow
  BY DEF RightAnswer, ViewShowsItsRow
<1> QED
  BY <1>1, AnswersAreRight, PTL

(* handle_list shows everything that was there when it was asked.          *)
THEOREM MemeListIsComplete == Spec => []ListIsComplete
<1>1. (\A v \in Workers : RightAnswer(v)) => ListIsComplete
  BY DEF RightAnswer, ListIsComplete
<1> QED
  BY <1>1, AnswersAreRight, PTL

(* With a sound disk only a statement SQLite cannot parse is answered 500. *)
THEOREM MemeNoSpuriousFailure == Spec => []NoSpuriousFailure
<1>1. (\A v \in Workers : RightAnswer(v)) => NoSpuriousFailure
  BY DEF RightAnswer, NoSpuriousFailure
<1> QED
  BY <1>1, AnswersAreRight, PTL

-----------------------------------------------------------------------------
(* The id on the create page.                                              *)

(* No caption names a column, and images are decimal numbers as printed.   *)
PlainRequestsOnly == DOMAIN ColumnOf = {} /\ \A i \in ImageTexts : Canonical[i] = i

(* Then the SELECT of handle_create finds exactly the row of the meme.     *)
LEMMA SelectsTheRow ==
  ASSUME PlainRequestsOnly, NEW m \in Memes, NEW row \in StoredMemes
  PROVE  Selects(row, m) <=> row = StoredForm(m)
<1>1. StoredForm(m) = m
  BY DEF PlainRequestsOnly, Memes, StoredForm
<1>2. Selects(row, m) <=> row.image = m.image /\ row.top = m.top /\ row.bottom = m.bottom
  BY DEF PlainRequestsOnly, Selects, Operand
<1> QED
  BY <1>1, <1>2 DEF Memes, StoredMemes

LEMMA SelectedIsTheRow ==
  ASSUME InductiveInvariant, PlainRequestsOnly, NEW w \in Workers, pc[w] = "select",
         NEW i \in SelectedIds(request[w].meme)
  PROVE  i \in DOMAIN table /\ table[i] = StoredForm(request[w].meme)
<1> DEFINE m == request[w].meme
<1>1. m \in Memes
  BY RequestKinds DEF InductiveInvariant, TypeOK, Placed
<1>2. \A j \in DOMAIN table : Selects(table[j], m) <=> table[j] = StoredForm(m)
  BY <1>1, SelectsTheRow DEF InductiveInvariant, TypeOK
<1>3. \E j \in DOMAIN table : table[j] = StoredForm(m)
  BY DEF InductiveInvariant, InsertedStays, Duplicate
<1> QED
  BY <1>2, <1>3 DEF SelectedIds

(* A worker's answer changes only with its own step, and a create is       *)
(* answered 200 only after its SELECT.                                     *)
LEMMA CreatedAnswers ==
  ASSUME InductiveInvariant, [Next]_vars, NEW v \in Workers
  PROVE  \/ reply'[v] = reply[v] /\ request'[v] = request[v]
         \/ ~Answered(v, "create", 200)'
         \/ SelectId(v)
<1> USE DEF InductiveInvariant, TypeOK
<1>1. CASE UNCHANGED vars
  BY <1>1 DEF vars
<1>2. ASSUME NEW w \in Workers, NEW r \in Requests, Receive(w, r)
      PROVE  (reply'[v] = reply[v] /\ request'[v] = request[v]) \/ reply'[v].status = 0
  BY <1>2 DEF Receive, NoReply, Reply
<1>3. ASSUME Restart
      PROVE  (reply'[v] = reply[v] /\ request'[v] = request[v]) \/ reply'[v].status = 0
  BY <1>3 DEF Restart, Placed, NoReply, Reply
<1>4. ASSUME NEW w \in Workers, v # w, Run(w), ~InitFails(w)
      PROVE  reply'[v] = reply[v] /\ request'[v] = request[v]
  <2>1. CASE Construct(w) \/ AnswerPlain(w) \/ HandleList(w)
    BY <1>4, <2>1 DEF Construct, LockInit, InitTable, AnswerPlain, HandleList, LockList, List, ListFails,
         Acquire, Continue, Answer
  <2>2. CASE HandleCreate(w)
    BY <1>4, <2>2 DEF HandleCreate, LockInsert, Insert, InsertFails, LockSelect, SelectId, SelectFails,
         Acquire, Continue, Answer
  <2>3. CASE HandleRetrieve(w)
    BY <1>4, <2>3 DEF HandleRetrieve, LockCount1, LockCount2, Count, CountFails, LockFetch, Fetch, FetchMisses,
         FetchFails, Guard, GuardEmpty, GuardAbove, Acquire, Continue, Answer
  <2> QED
    BY <1>4, <2>1, <2>2, <2>3 DEF Run
<1>5. ASSUME Construct(v) \/ AnswerPlain(v) \/ HandleRetrieve(v) \/ HandleList(v), ~InitFails(v)
      PROVE  \/ reply'[v] = reply[v] /\ request'[v] = request[v]
             \/ request'[v].op # "create"
  BY <1>5 DEF Construct, HandleRetrieve, HandleList, LockInit, InitTable, AnswerPlain,
       LockCount1, LockCount2, Count, CountFails, LockFetch, Fetch, FetchMisses, FetchFails,
       LockList, List, ListFails, Guard, GuardEmpty, GuardAbove, Acquire, Continue, Answer, Goto, Placed
<1>6. ASSUME HandleCreate(v), ~SelectId(v)
      PROVE  (reply'[v] = reply[v] /\ request'[v] = request[v]) \/ reply'[v].status = 500
  BY <1>6 DEF HandleCreate, LockInsert, Insert, InsertFails, LockSelect, SelectFails, Acquire, Continue, Answer, Reply
<1> QED
  BY <1>1, <1>2, <1>3, <1>4, <1>5, <1>6 DEF Next, Run, Construct, InitFails, Crash, Answered

(* handle_create links to the meme it was asked to create, although the    *)
(* lock is dropped between its INSERT and its SELECT.                      *)
THEOREM MemeCreatedRef ==
  ASSUME PlainRequestsOnly
  PROVE  Spec => []CreatedRefIsTheMeme
<1> DEFINE Linked(v) == \E id \in DOMAIN table : reply[v].ids = {id} /\ table[id] = StoredForm(request[v].meme)
<1>1. Init => CreatedRefIsTheMeme
  BY DEF Init, CreatedRefIsTheMeme, Answered, NoReply, Reply
<1>2. InductiveInvariant /\ CreatedRefIsTheMeme /\ [Next]_vars => CreatedRefIsTheMeme'
  <2> SUFFICES ASSUME InductiveInvariant, CreatedRefIsTheMeme, [Next]_vars,
                      NEW v \in Workers, Answered(v, "create", 200)'
               PROVE  Linked(v)'
    BY DEF CreatedRefIsTheMeme
  <2>1. \A i \in DOMAIN table : i \in DOMAIN table' /\ table'[i] = table[i]
    BY RowStep DEF InductiveInvariant
  <2>2. CASE reply'[v] = reply[v] /\ request'[v] = request[v]
    BY <2>1, <2>2 DEF CreatedRefIsTheMeme, Answered, StoredForm
  <2>3. CASE SelectId(v)
    <3>1. PICK i \in SelectedIds(request[v].meme) : \E r \in Page(Reply(200, {i}, {})) : Answer(v, "select", r)
      BY <2>3 DEF SelectId
    <3>2. reply'[v] = Reply(200, {i}, {}) /\ request'[v] = request[v]
      BY <3>1 DEF Page, Answer, Answered, Reply, InductiveInvariant, TypeOK
    <3>3. i \in DOMAIN table /\ table[i] = StoredForm(request[v].meme)
      BY <2>3, SelectedIsTheRow DEF SelectId
    <3> QED
      BY <2>1, <3>2, <3>3 DEF Reply, StoredForm
  <2> QED
    BY <2>2, <2>3, CreatedAnswers
<1> QED
  BY <1>1, <1>2, MemeInductiveInvariant, PTL DEF Spec

(* A statement is left unfinalized only by a view of an id below 1.        *)
THEOREM MemeLeaksOnlyBelowOne == Spec => LeaksOnlyBelowOne
<1>1. InductiveInvariant /\ [Next]_vars
        => [("db" \notin Faults /\ leaked' > leaked) =>
              \E w \in Workers : pc[w] = "fetch" /\ request[w].op = "view" /\ request[w].id < 1]_vars
  <2> SUFFICES ASSUME InductiveInvariant, [Next]_vars, "db" \notin Faults, leaked' > leaked
               PROVE  \E w \in Workers : pc[w] = "fetch" /\ request[w].op = "view" /\ request[w].id < 1
    OBVIOUS
  <2> USE DEF InductiveInvariant, TypeOK
  <2>1. ASSUME NEW w \in Workers, pc[w] \notin {"idle", "arrived", "init"}, MayFail(w) PROVE FALSE
    BY <2>1, NeverBusy DEF MayFail, TableReady
  <2>2. \E w \in Workers : FetchMisses(w)
    <3>1. leaked' # leaked /\ leaked' # 0
      OBVIOUS
    <3>2. \E w \in Workers : HandleCreate(w) \/ HandleRetrieve(w) \/ HandleList(w)
      BY <3>1 DEF Next, vars, Run, Construct, InitFails, Crash, Receive, Restart, LockInit, InitTable, AnswerPlain, Acquire
    <3>3. ASSUME NEW w \in Workers, HandleCreate(w) PROVE FALSE
      BY <2>1, <3>1, <3>3 DEF HandleCreate, LockInsert, Insert, InsertFails, LockSelect, SelectId, SelectFails,
                              Acquire, Answer, Goto
    <3>4. ASSUME NEW w \in Workers, HandleList(w) PROVE FALSE
      BY <3>1, <3>4 DEF HandleList, LockList, List, ListFails, Acquire
    <3>5. ASSUME NEW w \in Workers, HandleRetrieve(w), ~FetchMisses(w) PROVE FALSE
      BY <2>1, <3>1, <3>5 DEF HandleRetrieve, LockCount1, LockCount2, Count, CountFails, LockFetch, Fetch, FetchFails,
                              Acquire, Answer, Goto, Guard, GuardEmpty, GuardAbove
    <3> QED
      BY <3>2, <3>3, <3>4, <3>5
  <2>3. PICK w \in Workers : FetchMisses(w)
    BY <2>2
  <2>4. pc[w] = "fetch" /\ request[w].op = "view" /\ request[w].id \in Int
    BY <2>3, RequestKinds, ConstantsAssumption DEF FetchMisses, Answer, Goto, Placed
  <2>5. request[w].id <= rowSeq /\ request[w].id \notin 1 .. rowSeq
    BY <2>3, <2>4 DEF FetchMisses, GuardHolds, RowsDenseAndDistinct
  <2> QED
    BY <2>4, <2>5
<1> QED
  BY <1>1, MemeInductiveInvariant, PTL DEF Spec, LeaksOnlyBelowOne

-----------------------------------------------------------------------------
(* Refinement: the concurrent handlers are the sequential gallery.         *)

(* An answer given by a step that leaves the table alone is told.          *)
LEMMA AnswerTells ==
  ASSUME TypeOK, NEW w \in Workers, NEW from \in Steps, NEW r, Answer(w, from, r), UNCHANGED table
  PROVE  Registry!Tell(w, r)
BY DEF Answer, Goto, Phase, Steps, TypeOK, Registry!Tell

(* A refused page, or a failure, is a refusal of the gallery.              *)
LEMMA RefusalStep ==
  ASSUME TypeOK, NEW w \in Workers, NEW from \in Steps \ {"idle"}, NEW s \in {400, 404, 500},
         Answer(w, from, Reply(s, {}, {})), UNCHANGED table,
         s = 400 => request[w].op = "malformed"
  PROVE  Registry!Refuse(w)
<1>1. Registry!Tell(w, Reply(s, {}, {}))
  BY AnswerTells
<1>2. Phase(w) # "idle"
  BY DEF Phase, Answer, Goto
<1> QED
  BY <1>1, <1>2 DEF Registry!Refuse, Registry!Refusals, Registry!Told, Reply

(* A step inside a handler that keeps the phase is invisible.              *)
LEMMA HiddenStep ==
  ASSUME TypeOK, NEW w \in Workers, NEW from \in Steps \ {"idle"}, NEW to \in Steps \ {"idle"},
         Continue(w, from, to), UNCHANGED table,
         from \in {"inserted", "select"} <=> to \in {"inserted", "select"}
  PROVE  UNCHANGED Registry!vars
BY DEF Continue, Goto, Phase, Steps, TypeOK, Registry!vars

(* Every step of the handlers is a step of the gallery or none.            *)
LEMMA RegistryStep ==
  ASSUME PlainRequestsOnly, "db" \notin Faults, InductiveInvariant, [Next]_vars
  PROVE  [Registry!Next]_Registry!vars
<1> USE DEF InductiveInvariant
<1>1. CASE UNCHANGED vars
  BY <1>1 DEF vars, database, Phase, Registry!vars
<1>2. ASSUME NEW w \in Workers, NEW r \in Requests, Receive(w, r) PROVE Registry!Ask(w, r)
  BY <1>2 DEF Receive, Goto, Phase, Steps, TypeOK, NoReply, Reply, database,
              Registry!Ask, Registry!Nothing, Registry!Told
<1>3. ASSUME Restart PROVE Registry!Lose
  BY <1>3 DEF Restart, Phase, NoRequest, TypeOK, database, Registry!Lose
<1>4. ASSUME NEW w \in Workers, LockInit(w) \/ InitTable(w) \/ LockInsert(w) \/ LockSelect(w)
               \/ LockCount1(w) \/ LockCount2(w) \/ LockFetch(w) \/ LockList(w)
      PROVE  UNCHANGED Registry!vars
  BY <1>4, HiddenStep DEF LockInit, InitTable, LockInsert, LockSelect, LockCount1, LockCount2, LockFetch, LockList,
                          Acquire, Steps, database
<1>5. ASSUME NEW w \in Workers, AnswerPlain(w) PROVE Registry!Refuse(w) \/ Registry!TellForm(w)
  <2>1. CASE Answer(w, "dispatch", Reply(404, {}, {}))
    BY <1>5, <2>1, RefusalStep DEF AnswerPlain, Steps, database
  <2>2. CASE Answer(w, "dispatch", Reply(400, {}, {})) /\ request[w].op = "malformed"
    BY <1>5, <2>2, RefusalStep DEF AnswerPlain, Steps, database
  <2>3. CASE Answer(w, "dispatch", Reply(200, {}, {})) /\ request[w].op = "form"
    <3>1. Registry!Tell(w, Reply(200, {}, {}))
      BY <1>5, <2>3, AnswerTells DEF AnswerPlain, Steps, database
    <3>2. Phase(w) = "pending"
      BY <2>3 DEF Answer, Goto, Phase
    <3> QED
      BY <2>3, <3>1, <3>2 DEF Registry!TellForm, Registry!Told, Reply
  <2> QED
    BY <1>5, <2>1, <2>2, <2>3 DEF AnswerPlain, Page
<1>6. ASSUME NEW w \in Workers, Insert(w) PROVE Registry!Store(w)
  <2> DEFINE m == StoredForm(request[w].meme)
  <2>1. /\ Phase(w) = "pending" /\ request[w].op = "create" /\ UNCHANGED <<request, reply>>
        /\ [u \in Workers |-> Phase(u)]' = [[u \in Workers |-> Phase(u)] EXCEPT ![w] = "stored"]
    BY <1>6 DEF Insert, Continue, Goto, Placed, Phase, Steps, TypeOK
  <2>2. IF Registry!Numbered(m) # {}
          THEN UNCHANGED table
          ELSE table' = [i \in DOMAIN table \union {Registry!NextNumber} |->
                           IF i = Registry!NextNumber THEN m ELSE table[i]]
    <3>1. Duplicate(request[w].meme) <=> Registry!Numbered(m) # {}
      BY DEF Duplicate, Registry!Numbered
    <3>2. Registry!NextNumber = rowSeq + 1
      BY DEF RowsDenseAndDistinct, TypeOK, Registry!NextNumber
    <3> QED
      BY <1>6, <3>1, <3>2 DEF Insert, NewRow
  <2> HIDE DEF m
  <2>3. [u \in Workers |-> Phase(u)][w] = "pending"
    BY <2>1
  <2> QED
    BY <2>1, <2>2, <2>3 DEF Registry!Store, m
<1>7. ASSUME NEW w \in Workers, MayFail(w), pc[w] \notin {"idle", "arrived", "init"} PROVE FALSE
  BY <1>7, NeverBusy DEF MayFail, TableReady
<1>8. ASSUME NEW w \in Workers, InsertFails(w) \/ SelectFails(w) \/ FetchFails(w) \/ ListFails(w)
      PROVE  Registry!Refuse(w)
  <2>1. PICK from \in {"insert", "select", "fetch", "list"} : Answer(w, from, Reply(500, {}, {})) /\ UNCHANGED table
    BY <1>8 DEF InsertFails, SelectFails, FetchFails, ListFails, database
  <2> QED
    BY <2>1, RefusalStep DEF Steps
<1>9. ASSUME NEW w \in Workers, SelectId(w) PROVE Registry!Refuse(w) \/ Registry!TellCreated(w)
  <2>1. PICK i \in SelectedIds(request[w].meme) : \E r \in Page(Reply(200, {i}, {})) : Answer(w, "select", r)
    BY <1>9 DEF SelectId
  <2>2. CASE Answer(w, "select", Reply(404, {}, {}))
    BY <1>9, <2>2, RefusalStep DEF SelectId, Steps, database
  <2>3. CASE Answer(w, "select", Reply(200, {i}, {}))
    <3>1. Registry!Tell(w, Reply(200, {i}, {})) /\ Phase(w) = "stored"
      BY <1>9, <2>3, AnswerTells DEF SelectId, Steps, database, Phase
    <3>2. i \in Registry!Numbered(StoredForm(request[w].meme))
      BY <1>9, SelectedIsTheRow DEF SelectId, Registry!Numbered
    <3> QED
      BY <3>1, <3>2 DEF Registry!TellCreated, Registry!Told, Reply
  <2> QED
    BY <2>1, <2>2, <2>3 DEF Page
<1>10. ASSUME NEW w \in Workers, NEW from \in {"count1", "count2", "fetch"}, UNCHANGED table,
              Answer(w, from, Reply(400, {}, {})), request[w].id \notin DOMAIN table
       PROVE  Registry!TellViewed(w)
  <2>1. Registry!Tell(w, Reply(400, {}, {}))
    BY <1>10, AnswerTells DEF Steps
  <2>2. Phase(w) = "pending" /\ request[w].op = "view"
    BY <1>10 DEF Answer, Goto, Phase, Placed
  <2> QED
    BY <1>10, <2>1, <2>2 DEF Registry!TellViewed, Registry!Told, Reply
<1>11. ASSUME NEW w \in Workers, Count(w) PROVE UNCHANGED Registry!vars \/ Registry!TellViewed(w)
  <2>1. rowSeq \in Nat /\ DOMAIN table = 1 .. rowSeq /\ Cardinality(DOMAIN table) = rowSeq /\ UNCHANGED table
    BY <1>11, CountIsLastId DEF Count, RowsDenseAndDistinct, TypeOK, database
  <2>2. CASE GuardEmpty(w, rowSeq)
    BY <1>10, <2>1, <2>2, HiddenStep DEF GuardEmpty, Steps
  <2>3. CASE GuardAbove(w, rowSeq)
    BY <1>10, <2>1, <2>3, HiddenStep DEF GuardAbove, Steps
  <2> QED
    BY <1>11, <2>1, <2>2, <2>3 DEF Count, Guard
<1>12. ASSUME NEW w \in Workers, CountFails(w) PROVE FALSE
  BY <1>7, <1>12 DEF CountFails, Guard, GuardEmpty, GuardAbove
<1>13. ASSUME NEW w \in Workers, FetchMisses(w) PROVE Registry!TellViewed(w)
  BY <1>10, <1>13 DEF FetchMisses, database
<1>14. ASSUME NEW w \in Workers, Fetch(w) PROVE Registry!Refuse(w) \/ Registry!TellViewed(w)
  <2> DEFINE id == request[w].id
  <2>1. CASE Answer(w, "fetch", Reply(404, {}, {}))
    BY <1>14, <2>1, RefusalStep DEF Fetch, Steps, database
  <2>2. CASE Answer(w, "fetch", Reply(200, {id}, {table[id]}))
    <3>1. Registry!Tell(w, Reply(200, {id}, {table[id]}))
      BY <1>14, <2>2, AnswerTells DEF Fetch, Steps, database
    <3>2. Phase(w) = "pending" /\ request[w].op = "view"
      BY <1>14 DEF Fetch, Phase, Placed
    <3> QED
      BY <1>14, <3>1, <3>2 DEF Fetch, Registry!TellViewed, Registry!Told, Reply
  <2> QED
    BY <1>14, <2>1, <2>2 DEF Fetch, Page
<1>15. ASSUME NEW w \in Workers, List(w) PROVE Registry!Refuse(w) \/ Registry!TellListed(w)
  <2>1. CASE Answer(w, "list", Reply(404, {}, {}))
    BY <1>15, <2>1, RefusalStep DEF List, Steps, database
  <2>2. CASE Answer(w, "list", Reply(200, DOMAIN table, {}))
    <3>1. Registry!Tell(w, Reply(200, DOMAIN table, {}))
      BY <1>15, <2>2, AnswerTells DEF List, Steps, database
    <3>2. Phase(w) = "pending" /\ request[w].op = "list"
      BY <2>2 DEF Answer, Goto, Phase, Placed
    <3> QED
      BY <3>1, <3>2 DEF Registry!TellListed, Registry!Told, Reply
  <2> QED
    BY <1>15, <2>1, <2>2 DEF List, Page
<1>16. ASSUME NEW w \in Workers, Run(w), ~InitFails(w) PROVE [Registry!Next]_Registry!vars
  BY <1>4, <1>5, <1>6, <1>8, <1>9, <1>11, <1>12, <1>13, <1>14, <1>15, <1>16
     DEF Run, Construct, HandleCreate, HandleRetrieve, HandleList, Registry!Next
<1> QED
  BY <1>1, <1>2, <1>3, <1>16 DEF Next, Run, Construct, InitFails, Crash, Registry!Next

(* With a sound disk and plain requests, every behaviour of the handlers,  *)
(* interleaved and restarted as they may be, is one of the gallery.        *)
THEOREM MemeImplementsRegistry ==
  ASSUME PlainRequestsOnly, "db" \notin Faults
  PROVE  Spec => ImplementsRegistry
<1>1. Init => Registry!Init
  BY DEF Init, Phase, NoRequest, NoReply, Reply, Registry!Init, Registry!Nothing, Registry!Told
<1>2. InductiveInvariant /\ [Next]_vars => [Registry!Next]_Registry!vars
  BY RegistryStep
<1> QED
  BY <1>1, <1>2, MemeInductiveInvariant, PTL DEF Spec, ImplementsRegistry, Registry!Spec
=============================================================================
