---------------------------- MODULE MemeHandler ----------------------------
(***************************************************************************)
(* MemeRequestHandler: the meme gallery, an SQLite table shared by the     *)
(* worker threads of the pool.  Every request builds a handler of its own  *)
(* (whose constructor creates the table), and the handlers meet only in    *)
(* the database file and in the global meme_lock.  A request is cut where  *)
(* the code takes or releases meme_lock: between two such points another   *)
(* thread may run.  The HTML pages a reply is wrapped in are files nobody  *)
(* writes, so reading one belongs to the step that answers.                *)
(***************************************************************************)
EXTENDS Integers, FiniteSets

CONSTANTS
  Workers,        \* threads that run the io_service
  ImageTexts,     \* values of the field "image" of a create request
  Texts,          \* values of the fields "top_text" and "bottom_text"
  Canonical,      \* image text -> what the table stores ("007" -> "7")
  RejectedTexts,  \* image or caption texts that make the INSERT malformed
  ColumnOf,       \* caption texts that name a column -> that column
  ViewIds,        \* ids asked for by view requests
  MaxRequests,    \* bound: requests that arrive in a behaviour
  Faults          \* subset of {"db", "page", "crash"}: what may fail

Memes == [image : ImageTexts, top : Texts, bottom : Texts]
StoredMemes == [image : {Canonical[i] : i \in ImageTexts}, top : Texts, bottom : Texts]

CreateRequests == [op : {"create"}, meme : Memes]
ViewRequests   == [op : {"view"}, id : ViewIds]
PlainRequests  == [op : {"list", "form", "malformed", "unknown"}]
Requests == CreateRequests \union ViewRequests \union PlainRequests

(* An answer: its status, the ids it shows, the memes it shows.            *)
Statuses == {200, 400, 404, 500}
Reply(status, ids, memes) == [status |-> status, ids |-> ids, memes |-> memes]
NoReply == Reply(0, {}, {})

ASSUME ConstantsAssumption ==
  /\ Canonical \in [ImageTexts -> STRING]
  /\ DOMAIN ColumnOf \subseteq Texts
  /\ ColumnOf \in [DOMAIN ColumnOf -> {"image", "top", "bottom"}]
  /\ ViewIds \subseteq Int
  /\ MaxRequests \in Nat
  /\ Faults \subseteq {"db", "page", "crash"}

VARIABLES
  table,      \* meme_table: the function from row id to meme
  tableMade,  \* whether CREATE TABLE has run on the database file
  rowSeq,     \* AUTOINCREMENT's last id (sqlite_sequence)
  writers, readers, \* meme_lock
  pc,         \* where each worker is in its handler
  request,    \* what it is working on
  reply,      \* its last answer
  seen,       \* history: the ids in the table when its request arrived
  leaked,     \* connections closed with a statement still prepared
  arrivals    \* requests still to come

database == <<table, tableMade, rowSeq>>
lock     == <<writers, readers>>
vars     == <<database, lock, pc, request, reply, seen, leaked, arrivals>>

Mutex == INSTANCE SharedMutex

Steps == {"idle", "arrived", "init", "dispatch", "insert", "inserted", "select",
          "count1", "counted", "count2", "guarded", "fetch", "list"}
ExclusiveSteps == {"init", "insert", "select"}
SharedSteps    == {"count1", "count2", "fetch", "list"}

NoRequest == [op |-> "unknown"]

Init ==
  /\ table = [i \in {} |-> 0]
  /\ tableMade = FALSE
  /\ rowSeq = 0
  /\ writers = {} /\ readers = {}
  /\ pc = [w \in Workers |-> "idle"]
  /\ request = [w \in Workers |-> NoRequest]
  /\ reply = [w \in Workers |-> NoReply]
  /\ seen = [w \in Workers |-> {}]
  /\ leaked = 0
  /\ arrivals = MaxRequests

-----------------------------------------------------------------------------
(* SQLite's side.  A connection that runs a statement locks the file, and  *)
(* no busy timeout is set: a statement that meets a conflicting one fails  *)
(* at once with SQLITE_BUSY.                                               *)
Writing(w) == pc[w] = "insert" \/ (pc[w] = "init" /\ ~tableMade)
Reading(w) == pc[w] \in (ExclusiveSteps \union SharedSteps) \ {"insert"}
Busy(w) == \E v \in Workers \ {w} :
             \/ Writing(w) /\ (Writing(v) \/ Reading(v))
             \/ Writing(v) /\ (Writing(w) \/ Reading(w))
MayFail(w) == "db" \in Faults \/ Busy(w) \/ ~tableMade

(* Double quotes in the SELECT of handle_create mean an identifier first:  *)
(* a caption that names a column is compared as that column.               *)
Operand(row, text) == IF text \in DOMAIN ColumnOf THEN row[ColumnOf[text]] ELSE text
Selects(row, m) ==
  /\ row.image = m.image
  /\ row.top = Operand(row, m.top)
  /\ row.bottom = Operand(row, m.bottom)

(* The row INSERT writes: VALUES has no row, so captions are literals, and *)
(* the unquoted image is a number put into a TEXT column.                  *)
StoredForm(m) == [m EXCEPT !.image = Canonical[m.image]]
Malformed(m) == {m.image, m.top, m.bottom} \intersect RejectedTexts # {}
Duplicate(m) == \E i \in DOMAIN table : table[i] = StoredForm(m)
-----------------------------------------------------------------------------
Goto(w, from, to) == pc[w] = from /\ pc' = [pc EXCEPT ![w] = to]

Answer(w, from, r) ==
  /\ Goto(w, from, "idle")
  /\ reply' = [reply EXCEPT ![w] = r]
  /\ UNCHANGED <<request, seen, arrivals>>

Continue(w, from, to) ==
  /\ Goto(w, from, to)
  /\ UNCHANGED <<request, reply, seen, arrivals>>

(* Wrapping an answer in its page: 404 when the HTML file cannot be read.  *)
Page(r) == {r} \union (IF "page" \in Faults THEN {Reply(404, {}, {})} ELSE {})

(* mutant: every critical section takes the shared lock.                   *)
AcquireShared(w, from, to) ==
  /\ Mutex!LockShared(w)
  /\ Continue(w, from, to)
  /\ UNCHANGED <<database, leaked>>

Acquire(w, from, to) ==
  /\ IF to \in ExclusiveSteps THEN Mutex!LockExclusive(w) ELSE Mutex!LockShared(w)
  /\ Continue(w, from, to)
  /\ UNCHANGED <<database, leaked>>

(* A read that fails: a statement that failed to step is never finalized,  *)
(* one whose connection did not open left nothing behind.                  *)
MayLeak == leaked' \in {leaked, leaked + 1}
-----------------------------------------------------------------------------
(* Session's HandleRead gets a request for the meme location.              *)
Receive(w, r) ==
  /\ arrivals > 0 /\ arrivals' = arrivals - 1
  /\ Goto(w, "idle", "arrived")
  /\ request' = [request EXCEPT ![w] = r]
  /\ reply' = [reply EXCEPT ![w] = NoReply]
  /\ seen' = [seen EXCEPT ![w] = DOMAIN table]
  /\ UNCHANGED <<database, lock, leaked>>

(* The process dies, by exit(1) in init_meme_database, a signal, or an     *)
(* exception on another thread, and is started again.                      *)
Restart ==
  /\ pc' = [w \in Workers |-> "idle"]
  /\ request' = [w \in Workers |-> IF pc[w] = "idle" THEN request[w] ELSE NoRequest]
  /\ Mutex!ResetMutex
  /\ leaked' = 0
  /\ UNCHANGED <<database, reply, seen, arrivals>>

Crash == "crash" \in Faults /\ Restart

(* The constructor: init_meme_database under the exclusive lock.           *)
LockInit(w) == Acquire(w, "arrived", "init")

(* mutant: the table is dropped and made anew by every constructor.        *)
InitTableAnew(w) ==
  /\ Continue(w, "init", "dispatch")
  /\ tableMade' = TRUE /\ table' = [i \in {} |-> 0] /\ rowSeq' = 0
  /\ Mutex!UnlockExclusive(w)
  /\ UNCHANGED leaked

InitTable(w) ==
  /\ Continue(w, "init", "dispatch")
  /\ tableMade' = TRUE
  /\ Mutex!UnlockExclusive(w)
  /\ UNCHANGED <<table, rowSeq, leaked>>

InitFails(w) == pc[w] = "init" /\ ("db" \in Faults \/ Busy(w)) /\ Restart

(* handle_request: the requests answered without the database.             *)
AnswerPlain(w) ==
  /\ \/ request[w].op = "form" /\ \E r \in Page(Reply(200, {}, {})) : Answer(w, "dispatch", r)
     \/ request[w].op = "malformed" /\ Answer(w, "dispatch", Reply(400, {}, {}))
     \/ request[w].op = "unknown" /\ Answer(w, "dispatch", Reply(404, {}, {}))
  /\ UNCHANGED <<database, lock, leaked>>
-----------------------------------------------------------------------------
(* handle_create, first critical section: the INSERT.                      *)
LockInsert(w) == request[w].op = "create" /\ Acquire(w, "dispatch", "insert")

NewRow(m) == [i \in DOMAIN table \union {rowSeq + 1} |->
                IF i = rowSeq + 1 THEN StoredForm(m) ELSE table[i]]

(* mutant: a refused duplicate uses up an id.                              *)
InsertUsesId(w) ==
  LET m == request[w].meme IN
  /\ Continue(w, "insert", "inserted")
  /\ tableMade /\ ~Malformed(m)
  /\ rowSeq' = rowSeq + 1
  /\ table' = IF Duplicate(m) THEN table ELSE NewRow(m)
  /\ Mutex!UnlockExclusive(w)
  /\ UNCHANGED <<tableMade, leaked>>

(* mutant: INSERT OR REPLACE, which moves a duplicate to a new id.         *)
InsertOrReplace(w) ==
  LET m == request[w].meme
      kept == {i \in DOMAIN table : table[i] # StoredForm(m)} IN
  /\ Continue(w, "insert", "inserted")
  /\ tableMade /\ ~Malformed(m)
  /\ rowSeq' = rowSeq + 1
  /\ table' = [i \in kept \union {rowSeq + 1} |-> NewRow(m)[i]]
  /\ Mutex!UnlockExclusive(w)
  /\ UNCHANGED <<tableMade, leaked>>

Insert(w) ==
  LET m == request[w].meme IN
  /\ Continue(w, "insert", "inserted")
  /\ tableMade /\ ~Malformed(m)
  /\ IF Duplicate(m)     \* SQLITE_CONSTRAINT is taken for success
       THEN UNCHANGED <<table, rowSeq>>
       ELSE /\ rowSeq' = rowSeq + 1
            /\ table' = NewRow(m)
  /\ Mutex!UnlockExclusive(w)
  /\ UNCHANGED <<tableMade, leaked>>

(* mutant: the error path returns with the mutex held.                     *)
InsertFailsLocked(w) ==
  /\ Answer(w, "insert", Reply(500, {}, {}))
  /\ MayFail(w) \/ Malformed(request[w].meme)
  /\ UNCHANGED <<database, lock, leaked>>

InsertFails(w) ==
  /\ Answer(w, "insert", Reply(500, {}, {}))
  /\ MayFail(w) \/ Malformed(request[w].meme)
  /\ Mutex!UnlockExclusive(w)
  /\ UNCHANGED <<database, leaked>>

(* handle_create, second critical section: which id did the row get?  With *)
(* no row sqlite3_column_int returns 0.                                    *)
(* mutant: the second section is entered without waiting for the mutex.    *)
LockSelectNot(w) == Continue(w, "inserted", "select") /\ UNCHANGED <<database, lock, leaked>>

LockSelect(w) == Acquire(w, "inserted", "select")

(* mutant: the id of the last insertion instead of a SELECT.               *)
LastInsertedId(m) == {rowSeq}

SelectedIds(m) == LET found == {i \in DOMAIN table : Selects(table[i], m)}
                  IN IF found = {} THEN {0} ELSE found

SelectId(w) ==
  /\ pc[w] = "select" /\ tableMade
  /\ \E i \in SelectedIds(request[w].meme) :
       \E r \in Page(Reply(200, {i}, {})) : Answer(w, "select", r)
  /\ Mutex!UnlockExclusive(w)
  /\ UNCHANGED <<database, leaked>>

SelectFails(w) ==
  /\ Answer(w, "select", Reply(500, {}, {}))
  /\ MayFail(w) /\ MayLeak
  /\ Mutex!UnlockExclusive(w)
  /\ UNCHANGED database
-----------------------------------------------------------------------------
(* get_meme_count, called twice by handle_retrieve's guard: an id above    *)
(* the number of rows is refused.  A count that failed returns the status  *)
(* of the error page, 500, and is used as the number of rows.              *)
LockCount1(w) == request[w].op = "view" /\ Acquire(w, "dispatch", "count1")
LockCount2(w) == Acquire(w, "counted", "count2")

GuardEmpty(w, n) ==
  /\ pc[w] = "count1"
  /\ IF n = 0 THEN Answer(w, "count1", Reply(400, {}, {})) ELSE Continue(w, "count1", "counted")

(* mutant: an off-by-one in the guard.                                     *)
GuardFrom(w, n) ==
  /\ pc[w] = "count2"
  /\ IF request[w].id >= n THEN Answer(w, "count2", Reply(400, {}, {}))
                           ELSE Continue(w, "count2", "guarded")

(* mutant: no guard but the SELECT itself.                                 *)
GuardNothing(w, n) == pc[w] = "count2" /\ n \in Nat /\ Continue(w, "count2", "guarded")

GuardAbove(w, n) ==
  /\ pc[w] = "count2"
  /\ IF request[w].id > n THEN Answer(w, "count2", Reply(400, {}, {}))
                          ELSE Continue(w, "count2", "guarded")

Guard(w, n) == GuardEmpty(w, n) \/ GuardAbove(w, n)

Count(w) ==
  /\ tableMade
  /\ Guard(w, Cardinality(DOMAIN table))
  /\ Mutex!UnlockShared(w)
  /\ UNCHANGED <<database, leaked>>

(* mutant: a count that fails counts as none.                              *)
CountFailsEmpty(w) ==
  /\ MayFail(w) /\ MayLeak
  /\ Guard(w, 0)
  /\ Mutex!UnlockShared(w)
  /\ UNCHANGED database

CountFails(w) ==
  /\ MayFail(w) /\ MayLeak
  /\ Guard(w, 500)
  /\ Mutex!UnlockShared(w)
  /\ UNCHANGED database

(* handle_retrieve: the row itself.                                        *)
LockFetch(w) == Acquire(w, "guarded", "fetch")

(* mutant: the SELECT has lost its WHERE.                                  *)
FetchFirst(w) ==
  LET id == request[w].id IN
  /\ pc[w] = "fetch" /\ tableMade /\ id \in DOMAIN table
  /\ \E r \in Page(Reply(200, {id}, {table[1]})) : Answer(w, "fetch", r)
  /\ Mutex!UnlockShared(w)
  /\ UNCHANGED <<database, leaked>>

Fetch(w) ==
  LET id == request[w].id IN
  /\ pc[w] = "fetch" /\ tableMade /\ id \in DOMAIN table
  /\ \E r \in Page(Reply(200, {id}, {table[id]})) : Answer(w, "fetch", r)
  /\ Mutex!UnlockShared(w)
  /\ UNCHANGED <<database, leaked>>

(* SQLITE_DONE: 400, and the statement is left prepared.                   *)
FetchMisses(w) ==
  /\ Answer(w, "fetch", Reply(400, {}, {}))
  /\ tableMade /\ request[w].id \notin DOMAIN table
  /\ leaked' = leaked + 1
  /\ Mutex!UnlockShared(w)
  /\ UNCHANGED database

FetchFails(w) ==
  /\ Answer(w, "fetch", Reply(500, {}, {}))
  /\ MayFail(w) /\ MayLeak
  /\ Mutex!UnlockShared(w)
  /\ UNCHANGED database
-----------------------------------------------------------------------------
(* handle_list: every id, in one critical section.                         *)
LockList(w) == request[w].op = "list" /\ Acquire(w, "dispatch", "list")

(* mutant: a row is stepped over before the loop.                          *)
ListSkipsFirst(w) ==
  /\ tableMade
  /\ \E r \in Page(Reply(200, DOMAIN table \ {1}, {})) : Answer(w, "list", r)
  /\ Mutex!UnlockShared(w)
  /\ UNCHANGED <<database, leaked>>

(* mutant: an empty gallery is answered with a status of its own.          *)
ListNoContent(w) ==
  /\ tableMade
  /\ Answer(w, "list", Reply(IF DOMAIN table = {} THEN 204 ELSE 200, DOMAIN table, {}))
  /\ Mutex!UnlockShared(w)
  /\ UNCHANGED <<database, leaked>>

List(w) ==
  /\ tableMade
  /\ \E r \in Page(Reply(200, DOMAIN table, {})) : Answer(w, "list", r)
  /\ Mutex!UnlockShared(w)
  /\ UNCHANGED <<database, leaked>>

ListFails(w) ==
  /\ Answer(w, "list", Reply(500, {}, {}))
  /\ MayFail(w)
  /\ Mutex!UnlockShared(w)
  /\ UNCHANGED <<database, leaked>>
-----------------------------------------------------------------------------
Construct(w) == LockInit(w) \/ InitTable(w) \/ InitFails(w)
HandleCreate(w) == \/ LockInsert(w) \/ Insert(w) \/ InsertFails(w)
                   \/ LockSelect(w) \/ SelectId(w) \/ SelectFails(w)
HandleRetrieve(w) == \/ LockCount1(w) \/ LockCount2(w) \/ Count(w) \/ CountFails(w)
                     \/ LockFetch(w) \/ Fetch(w) \/ FetchMisses(w) \/ FetchFails(w)
HandleList(w) == LockList(w) \/ List(w) \/ ListFails(w)
Run(w) == Construct(w) \/ AnswerPlain(w) \/ HandleCreate(w) \/ HandleRetrieve(w) \/ HandleList(w)

Next == \/ \E w \in Workers : Run(w) \/ \E r \in Requests : Receive(w, r)
        \/ Crash

Spec == Init /\ [][Next]_vars

(* A thread that is not blocked runs on.                                   *)
FairSpec == Spec /\ \A w \in Workers : WF_vars(Run(w))

-----------------------------------------------------------------------------
(* The handler against what the gallery promises: a create takes effect at *)
(* its INSERT, a view at the count that refuses it or at its SELECT.       *)
Phase(w) == IF pc[w] = "idle" THEN "idle"
            ELSE IF pc[w] \in {"inserted", "select"} THEN "stored" ELSE "pending"

Registry == INSTANCE MemeRegistry WITH
  Clients <- Workers, Normal <- StoredForm, gallery <- table,
  phase <- [w \in Workers |-> Phase(w)], answer <- reply

(* With a sound disk the concurrent handlers behave as the sequential      *)
(* gallery does: every interleaving is one of atomic requests.             *)
ImplementsRegistry == Registry!Spec

(* No request is answered with a status no return statement names, and     *)
(* every variable has its type.                                            *)
TypeOK ==
  /\ rowSeq \in Nat
  /\ DOMAIN table \subseteq Nat /\ \A i \in DOMAIN table : table[i] \in StoredMemes
  /\ tableMade \in BOOLEAN
  /\ writers \subseteq Workers /\ readers \subseteq Workers
  /\ pc \in [Workers -> Steps]
  /\ request \in [Workers -> Requests]
  /\ reply \in [Workers -> [status : Statuses \union {0}, ids : SUBSET Int, memes : SUBSET StoredMemes]]
  /\ seen \in [Workers -> SUBSET Nat]
  /\ leaked \in Nat /\ arrivals \in Nat

Answered(w, op, status) == request[w].op = op /\ reply[w].status = status

(* The rows are numbered 1, 2, ... with no gap and no two are equal, over  *)
(* all interleavings of creates, failures and restarts.  handle_retrieve   *)
(* takes the number of rows for the greatest id, which is right only so.   *)
RowsDenseAndDistinct ==
  /\ DOMAIN table = 1 .. rowSeq
  /\ \A i, j \in DOMAIN table : table[i] = table[j] => i = j

(* A view never refuses (400) a meme that was in the gallery when the      *)
(* request arrived, whatever the other workers do between the two counts   *)
(* and the SELECT, each in a critical section of its own, and although a   *)
(* count that fails counts as 500 rows: only an id above 500 then suffers. *)
StoredMemeIsViewable ==
  \A w \in Workers : Answered(w, "view", 400) /\ request[w].id \in seen[w] =>
    "db" \in Faults /\ request[w].id > 500

(* A view that succeeds shows the row of the id it was asked for.          *)
ViewShowsItsRow ==
  \A w \in Workers : Answered(w, "view", 200) =>
    /\ request[w].id \in DOMAIN table
    /\ reply[w].memes = {table[request[w].id]}

(* A list shows every meme there was when it was asked for, and only ids   *)
(* that a view can then open.                                              *)
ListIsComplete ==
  \A w \in Workers : Answered(w, "list", 200) =>
    seen[w] \subseteq reply[w].ids /\ reply[w].ids \subseteq DOMAIN table

(* The create page links to the meme just created: although the lock is    *)
(* dropped between INSERT and SELECT, the id shown is that of the row with *)
(* this image and these captions.                                          *)
CreatedRefIsTheMeme ==
  \A w \in Workers : Answered(w, "create", 200) =>
    \E id \in DOMAIN table : reply[w].ids = {id} /\ table[id] = StoredForm(request[w].meme)

(* With a sound disk the only 500 is for a statement SQLite cannot parse:  *)
(* neither a missing table nor SQLITE_BUSY from another worker's           *)
(* connection is ever met.                                                 *)
NoSpuriousFailure ==
  "db" \notin Faults =>
    \A w \in Workers : reply[w].status = 500 =>
      request[w].op = "create" /\ Malformed(request[w].meme)

(* No step, a restart included, changes or drops a meme once stored: an id *)
(* handed out in a page is good for ever.                                  *)
MemesArePermanent ==
  [][\A i \in DOMAIN table : i \in DOMAIN table' /\ table'[i] = table[i]]_vars

(* A connection is leaked only by a view of an id below 1: the count guard *)
(* keeps every id above the last one from reaching the unfinalized SELECT. *)
LeaksOnlyBelowOne ==
  [][("db" \notin Faults /\ leaked' > leaked) =>
       \E w \in Workers : pc[w] = "fetch" /\ request[w].op = "view" /\ request[w].id < 1]_vars

(* Every request that arrives is answered or dies with its process: no     *)
(* path through the handlers keeps meme_lock or waits for itself.          *)
EveryRequestEnds == \A w \in Workers : pc[w] # "idle" ~> pc[w] = "idle"
-----------------------------------------------------------------------------
(* The strengthening of the invariants above that every step preserves.    *)

(* The mutex is held by exactly the workers inside a critical section.     *)
LockHeld ==
  /\ \A w \in Workers : /\ w \in writers <=> pc[w] \in ExclusiveSteps
                        /\ w \in readers <=> pc[w] \in SharedSteps
  /\ \A v, w \in writers : v = w
  /\ writers = {} \/ readers = {}

(* A worker is in the handler its request names, and has not answered yet. *)
Placed ==
  \A w \in Workers :
    /\ pc[w] # "idle" => reply[w] = NoReply
    /\ pc[w] \in {"insert", "inserted", "select"} => request[w].op = "create"
    /\ pc[w] \in {"count1", "counted", "count2", "guarded", "fetch"} => request[w].op = "view"
    /\ pc[w] = "list" => request[w].op = "list"

(* Past the constructor there is a table.                                  *)
TableReady == (\E w \in Workers : pc[w] \notin {"idle", "arrived", "init"}) => tableMade

(* Between INSERT and SELECT the meme is in the table.                     *)
InsertedStays ==
  \A w \in Workers : pc[w] \in {"inserted", "select"} => Duplicate(request[w].meme)

(* The ids a request has seen stay in the table.                           *)
SeenStays == \A w \in Workers : seen[w] \subseteq DOMAIN table

(* The count guard lets through only ids up to the last row.               *)
GuardHolds ==
  "db" \notin Faults =>
    \A w \in Workers : pc[w] \in {"guarded", "fetch"} => request[w].id <= rowSeq

InductiveInvariant ==
  /\ TypeOK /\ LockHeld /\ Placed /\ TableReady
  /\ RowsDenseAndDistinct /\ InsertedStays /\ SeenStays /\ GuardHolds
=============================================================================
