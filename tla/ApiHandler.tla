---------------------------- MODULE ApiHandler -----------------------------
(***************************************************************************)
(* ApiRequestHandler: JSON entities kept as files under a root directory.  *)
(* Workers meet in the file tree, in json_storage_ (a static map from the  *)
(* name of a collection to the ids in it) and in the global api_lock.      *)
(*                                                                         *)
(* A path is a sequence of components; a component is a number (an id) or  *)
(* a word.  The request target /api/create/1 is the path <<create, 1>>:    *)
(* location_ is cut off and root_ put in its place, so target, file and    *)
(* name of a collection are one path here.  A request is cut where         *)
(* api_lock is taken or released, where the tree is looked at without it,  *)
(* and inside a write, where the death of the process shows.               *)
(***************************************************************************)
EXTENDS Integers, Sequences

CONSTANTS
  Workers,           \* threads that run the io_service
  Words,             \* components that are no number
  MinInt, MaxInt,    \* the range of int
  Short,             \* component -> the same without its last character
  Methods,           \* methods that requests use
  Targets,           \* method -> the paths that requests name with it
  Bodies,            \* request bodies, none of them empty
  MaxRequests,       \* bound: requests that arrive in a behaviour
  Faults             \* subset of {"disk", "signal", "restart"}

Int32 == MinInt .. MaxInt
Components == Words \union Int32
Torn == "torn"       \* what a file holds between its opening and its writing
Contents == Bodies \union {"", Torn}

Requests == UNION {[method : {m}, path : Targets[m],
                    body : IF m \in {"POST", "PUT"} THEN Bodies \union {""} ELSE {""}] : m \in Methods}

Reply(status, ids, body) == [status |-> status, ids |-> ids, body |-> body]
NoReply == Reply(0, {}, "")
NoRequest == [method |-> "NONE", path |-> <<>>, body |-> ""]

ASSUME ConstantsAssumption ==
  /\ MinInt \in Int /\ MaxInt \in Nat \ {0} /\ MinInt < 0
  /\ Words \intersect Int = {}
  /\ Bodies \subseteq STRING \ {"", Torn}
  /\ Methods \subseteq {"GET", "POST", "PUT", "DELETE", "OTHER"}
  /\ Short \in [Components -> Components]
  /\ \A m \in Methods : Targets[m] \subseteq Seq(Components)
  /\ MaxRequests \in Nat
  /\ Faults \subseteq {"disk", "signal", "restart"}

VARIABLES
  dirs,             \* directories of the tree; the root is <<>>
  files,            \* regular files: the function from path to content
  store,            \* json_storage_: collection -> ids
  writers, readers, \* api_lock
  pc,               \* where each worker is in its handler
  request,          \* what it is working on
  item,             \* the file it writes
  listed,           \* the ids handle_list has copied
  reply,            \* its last answer
  up,               \* whether the process is alive
  mine,             \* history: the files this process has opened to write
  arrivals          \* requests still to come

tree == <<dirs, files>>
lock == <<writers, readers>>
vars == <<tree, store, lock, pc, request, item, listed, reply, up, mine, arrivals>>

Mutex == INSTANCE SharedMutex

Parent(p) == SubSeq(p, 1, Len(p) - 1)
Name(p)   == p[Len(p)]
Prefixes(p) == {SubSeq(p, 1, k) : k \in 0 .. Len(p)}
Exists(p) == p \in dirs \/ p \in DOMAIN files
Children(p) == {q \in dirs \union DOMAIN files : q # <<>> /\ Parent(q) = p}

(* get_json_id: the number at the end of the target, -1 when there is none *)
IdOf(p) == IF p # <<>> /\ Name(p) \in Int32 THEN Name(p) ELSE -1

(* operator[] of the map, which makes an empty entry for a new name.       *)
Entry(n) == IF n \in DOMAIN store THEN store[n] ELSE {}
WithEntry(n, ids) == [m \in DOMAIN store \union {n} |-> IF m = n THEN ids ELSE store[m]]

Init ==
  /\ dirs = {<<>>}
  /\ files = [p \in {} |-> Torn]
  /\ store = [n \in {} |-> {}]
  /\ writers = {} /\ readers = {}
  /\ pc = [w \in Workers |-> "idle"]
  /\ request = [w \in Workers |-> NoRequest]
  /\ item = [w \in Workers |-> <<>>]
  /\ listed = [w \in Workers |-> {}]
  /\ reply = [w \in Workers |-> NoReply]
  /\ up = TRUE
  /\ mine = {}
  /\ arrivals = MaxRequests
-----------------------------------------------------------------------------
Steps == {"idle", "arrived", "load", "dispatch", "post", "put", "open", "write",
          "delete", "toList", "list", "format", "toRead", "read"}
ExclusiveSteps == {"load", "post", "put", "open", "write", "delete"}
SharedSteps    == {"list", "read"}

Goto(w, from, to) == pc[w] = from /\ pc' = [pc EXCEPT ![w] = to]

Continue(w, from, to) ==
  /\ Goto(w, from, to)
  /\ mine' = IF to = "write" THEN mine \union {item[w]} ELSE mine
  /\ UNCHANGED <<request, reply, up, arrivals>>

Answer(w, from, r) ==
  /\ Goto(w, from, "idle")
  /\ reply' = [reply EXCEPT ![w] = r]
  /\ UNCHANGED <<request, up, mine, arrivals>>

AnswerError(w, from, status) == Answer(w, from, Reply(status, {}, ""))

Acquire(w, from, to) ==
  /\ IF to \in ExclusiveSteps THEN Mutex!LockExclusive(w) ELSE Mutex!LockShared(w)
  /\ Continue(w, from, to)
  /\ UNCHANGED <<tree, store, item, listed>>

(* An exception leaves a thread of the pool, or a signal arrives: the      *)
(* process is gone with its map, its mutex and every request in it.        *)
Terminate ==
  /\ up /\ up' = FALSE
  /\ pc' = [w \in Workers |-> "idle"]
  /\ request' = [w \in Workers |-> IF pc[w] = "idle" THEN request[w] ELSE NoRequest]
  /\ store' = [n \in {} |-> {}]
  /\ mine' = {}
  /\ Mutex!ResetMutex
  /\ UNCHANGED <<files, item, listed, reply, arrivals>>

Signal == "signal" \in Faults /\ Terminate /\ UNCHANGED dirs

Restart ==
  /\ "restart" \in Faults /\ ~up /\ up' = TRUE
  /\ UNCHANGED <<tree, store, lock, pc, request, item, listed, reply, mine, arrivals>>
-----------------------------------------------------------------------------
Receive(w, r) ==
  /\ up /\ arrivals > 0 /\ arrivals' = arrivals - 1
  /\ Goto(w, "idle", "arrived")
  /\ request' = [request EXCEPT ![w] = r]
  /\ reply' = [reply EXCEPT ![w] = NoReply]
  /\ UNCHANGED <<tree, store, lock, item, listed, up, mine>>

(* The constructor, run for every request: it makes the root and enters    *)
(* every numeric file of the tree into the map.  remove_filename leaves no *)
(* slash at the end, and the substr that is to cut one off cuts the last   *)
(* character of the name instead.                                          *)
LockLoad(w) == Acquire(w, "arrived", "load")

Truncate(n) == IF n = <<>> THEN n ELSE [n EXCEPT ![Len(n)] = Short[Name(n)]]
NumericFiles == {p \in DOMAIN files : p # <<>> /\ Name(p) \in Int32}
LoadedName(p) == Truncate(Parent(p))

(* mutant: the map is cleared first.                                        *)
LoadAnew(w) ==
  /\ Continue(w, "load", "dispatch")
  /\ dirs' = dirs \union {<<>>}
  /\ store' = [n \in {LoadedName(p) : p \in NumericFiles} |->
                 {Name(p) : p \in {q \in NumericFiles : LoadedName(q) = n}}]
  /\ Mutex!UnlockExclusive(w)
  /\ UNCHANGED <<files, item, listed>>

Load(w) ==
  /\ Continue(w, "load", "dispatch")
  /\ dirs' = dirs \union {<<>>}
  /\ store' = [n \in DOMAIN store \union {LoadedName(p) : p \in NumericFiles} |->
                 Entry(n) \union {Name(p) : p \in {q \in NumericFiles : LoadedName(q) = n}}]
  /\ Mutex!UnlockExclusive(w)
  /\ UNCHANGED <<files, item, listed>>

(* handle_request and the checks made before any lock is taken.            *)
Refuse(w) ==
  LET r == request[w] IN
  /\ \/ r.method = "OTHER"
     \/ r.method = "POST" /\ r.body = ""
     \/ r.method = "PUT" /\ IdOf(r.path) = -1
  /\ AnswerError(w, "dispatch", 400)
  /\ UNCHANGED <<tree, store, lock, item, listed>>
-----------------------------------------------------------------------------
(* create_directories fails on a file in the way, or on the disk.          *)
Blocked(p) == Prefixes(p) \intersect DOMAIN files # {}
MakeDirs(p) == IF Exists(p) THEN UNCHANGED dirs
               ELSE ~Blocked(p) /\ dirs' = dirs \union Prefixes(p)
MakeDirsThrows(p) == ~Exists(p) /\ (Blocked(p) \/ "disk" \in Faults)

(* handle_create: the next id is the greatest of the map plus one, which   *)
(* at the end of the range wraps around.                                   *)
LockPost(w) == request[w].method = "POST" /\ request[w].body # "" /\ Acquire(w, "dispatch", "post")

(* mutant: ids are as wide as they need to be.                             *)
WrapNot(n) == n

Wrap(n) == IF n > MaxInt THEN MinInt ELSE n
NextId(ids) == IF ids = {} THEN 1
               ELSE Wrap(1 + CHOOSE i \in ids : \A j \in ids : j <= i)

Post(w) ==
  LET name == request[w].path IN
  /\ Continue(w, "post", "open")
  /\ store' = WithEntry(name, Entry(name))
  /\ MakeDirs(name)
  /\ item' = [item EXCEPT ![w] = Append(name, NextId(Entry(name)))]
  /\ UNCHANGED <<files, lock, listed>>

(* handle_update: the file is the target itself.                           *)
(* mutant: no check that the id is numeric.                                  *)
LockPutUnchecked(w) == request[w].method = "PUT" /\ Acquire(w, "dispatch", "put")

LockPut(w) == request[w].method = "PUT" /\ IdOf(request[w].path) # -1 /\ Acquire(w, "dispatch", "put")

Put(w) ==
  LET path == request[w].path IN
  /\ Continue(w, "put", "open")
  /\ MakeDirs(Parent(path))
  /\ item' = [item EXCEPT ![w] = path]
  /\ UNCHANGED <<files, store, lock, listed>>

WriteThrows(w) ==
  /\ \/ pc[w] = "post" /\ MakeDirsThrows(request[w].path)
     \/ pc[w] = "put" /\ MakeDirsThrows(Parent(request[w].path))
  /\ Terminate /\ UNCHANGED dirs

(* Both: open the file, which empties it, then write it and the map; that  *)
(* the write failed is not noticed.                                        *)
Open(w) ==
  /\ Continue(w, "open", "write")
  /\ Parent(item[w]) \in dirs /\ item[w] \notin dirs
  /\ files' = [p \in DOMAIN files \union {item[w]} |-> IF p = item[w] THEN Torn ELSE files[p]]
  /\ UNCHANGED <<dirs, store, lock, item, listed>>

(* mutant: the error path returns with the mutex held.                       *)
OpenFailsLocked(w) ==
  /\ AnswerError(w, "open", 500)
  /\ Parent(item[w]) \notin dirs \/ item[w] \in dirs \/ "disk" \in Faults
  /\ UNCHANGED <<tree, store, lock, item, listed>>

OpenFails(w) ==
  /\ AnswerError(w, "open", 500)
  /\ Parent(item[w]) \notin dirs \/ item[w] \in dirs \/ "disk" \in Faults
  /\ Mutex!UnlockExclusive(w)
  /\ UNCHANGED <<tree, store, item, listed>>

Write(w) ==
  LET r == request[w] IN
  /\ Answer(w, "write", IF r.method = "POST" THEN Reply(201, {Name(item[w])}, "") ELSE Reply(200, {}, ""))
  /\ \E c \in {r.body} \union (IF "disk" \in Faults THEN {Torn} ELSE {}) :
       files' = [files EXCEPT ![item[w]] = c]
  /\ store' = WithEntry(Parent(item[w]), Entry(Parent(item[w])) \union {Name(item[w])})
  /\ Mutex!UnlockExclusive(w)
  /\ UNCHANGED <<dirs, item, listed>>
-----------------------------------------------------------------------------
(* handle_delete: std::remove takes a file or an empty directory.  The     *)
(* target of the root itself has no slash, and the helper that cuts the    *)
(* name out of it throws.                                                  *)
LockDelete(w) == request[w].method = "DELETE" /\ Acquire(w, "dispatch", "delete")

(* mutant: the entry of the map stays behind.                               *)
DeleteKeepsEntry(w) ==
  LET path == request[w].path IN
  /\ Answer(w, "delete", Reply(200, {}, ""))
  /\ path # <<>> /\ Exists(path) /\ Children(path) = {}
  /\ dirs' = dirs \ {path}
  /\ files' = [p \in DOMAIN files \ {path} |-> files[p]]
  /\ Mutex!UnlockExclusive(w)
  /\ UNCHANGED <<store, item, listed>>

Delete(w) ==
  LET path == request[w].path IN
  /\ Answer(w, "delete", Reply(200, {}, ""))
  /\ path # <<>> /\ Exists(path) /\ Children(path) = {}
  /\ dirs' = dirs \ {path}
  /\ files' = [p \in DOMAIN files \ {path} |-> files[p]]
  /\ store' = WithEntry(Parent(path), Entry(Parent(path)) \ {IdOf(path)})
  /\ Mutex!UnlockExclusive(w)
  /\ UNCHANGED <<item, listed>>

(* mutant: the entry leaves the map before the file goes.                   *)
DeleteFailsErased(w) ==
  LET path == request[w].path IN
  /\ \/ ~Exists(path) /\ AnswerError(w, "delete", 404)
     \/ Exists(path) /\ (Children(path) # {} \/ "disk" \in Faults) /\ AnswerError(w, "delete", 500)
  /\ store' = WithEntry(Parent(path), Entry(Parent(path)) \ {IdOf(path)})
  /\ Mutex!UnlockExclusive(w)
  /\ UNCHANGED <<tree, item, listed>>

DeleteFails(w) ==
  LET path == request[w].path IN
  /\ \/ ~Exists(path) /\ AnswerError(w, "delete", 404)
     \/ Exists(path) /\ (Children(path) # {} \/ "disk" \in Faults) /\ AnswerError(w, "delete", 500)
  /\ Mutex!UnlockExclusive(w)
  /\ UNCHANGED <<tree, store, item, listed>>

DeleteThrows(w) ==
  /\ pc[w] = "delete" /\ request[w].path = <<>> /\ <<>> \in dirs /\ Children(<<>>) = {}
  /\ Terminate /\ dirs' = dirs \ {<<>>}
-----------------------------------------------------------------------------
(* GET: the tree is looked at without the lock to tell a listing from a    *)
(* reading.                                                                *)
Look(w) ==
  LET path == request[w].path IN
  /\ request[w].method = "GET"
  /\ \/ path \in dirs /\ Continue(w, "dispatch", "toList")
     \/ path \in DOMAIN files /\ Continue(w, "dispatch", "toRead")
     \/ ~Exists(path) /\ AnswerError(w, "dispatch", 404)
  /\ UNCHANGED <<tree, store, lock, item, listed>>

LockList(w) == Acquire(w, "toList", "list")

(* handle_list: the ids are copied under the lock and formatted after it;  *)
(* the resize that is to drop the last separator throws when there is no   *)
(* id.                                                                     *)
List(w) ==
  LET name == request[w].path IN
  /\ IF name \in DOMAIN store
       THEN Continue(w, "list", "format") /\ listed' = [listed EXCEPT ![w] = store[name]]
       ELSE AnswerError(w, "list", 404) /\ UNCHANGED listed
  /\ Mutex!UnlockShared(w)
  /\ UNCHANGED <<tree, store, item>>

Format(w) ==
  /\ listed[w] # {} /\ Answer(w, "format", Reply(200, listed[w], ""))
  /\ UNCHANGED <<tree, store, lock, item, listed>>

FormatThrows(w) == pc[w] = "format" /\ listed[w] = {} /\ Terminate /\ UNCHANGED dirs

LockRead(w) == Acquire(w, "toRead", "read")

(* handle_retrieve: a directory opens like a file and reads as nothing.    *)
Read(w) ==
  LET path == request[w].path IN
  /\ \/ path \in DOMAIN files /\ Answer(w, "read", Reply(200, {}, files[path]))
     \/ path \in dirs /\ Answer(w, "read", Reply(200, {}, ""))
     \/ (~Exists(path) \/ "disk" \in Faults) /\ AnswerError(w, "read", 404)
  /\ Mutex!UnlockShared(w)
  /\ UNCHANGED <<tree, store, item, listed>>
-----------------------------------------------------------------------------
Modify(w) == \/ LockPost(w) \/ Post(w) \/ LockPut(w) \/ Put(w) \/ WriteThrows(w)
             \/ Open(w) \/ OpenFails(w) \/ Write(w)
             \/ LockDelete(w) \/ Delete(w) \/ DeleteFails(w) \/ DeleteThrows(w)
Get(w) == \/ Look(w) \/ LockList(w) \/ List(w) \/ Format(w) \/ FormatThrows(w)
          \/ LockRead(w) \/ Read(w)
Run(w) == LockLoad(w) \/ Load(w) \/ Refuse(w) \/ Modify(w) \/ Get(w)

Next == \/ \E w \in Workers : Run(w) \/ \E r \in Requests : Receive(w, r)
        \/ Signal \/ Restart

Spec == Init /\ [][Next]_vars

(* A thread that is not blocked runs on.                                   *)
FairSpec == Spec /\ \A w \in Workers : WF_vars(Run(w))
-----------------------------------------------------------------------------
(* Ids stay within int even where the code adds one to the greatest, and   *)
(* every variable has its type.                                            *)
TypeOK ==
  /\ dirs \subseteq Seq(Components)
  /\ DOMAIN files \subseteq Seq(Components) /\ \A p \in DOMAIN files : files[p] \in Contents
  /\ \A n \in DOMAIN store : n \in Seq(Components) /\ store[n] \subseteq Int32
  /\ writers \subseteq Workers /\ readers \subseteq Workers
  /\ pc \in [Workers -> Steps]
  /\ request \in [Workers -> Requests \union {NoRequest}]
  /\ item \in [Workers -> Seq(Components)]
  /\ listed \in [Workers -> SUBSET Int32]
  /\ reply \in [Workers -> [status : {0, 200, 201, 400, 404, 500}, ids : SUBSET Int32, body : Contents]]
  /\ up \in BOOLEAN /\ mine \subseteq Seq(Components) /\ arrivals \in Nat

(* Whatever the workers do, json_storage_ knows the id of every file that  *)
(* this process has written, as soon as no writer holds api_lock: the next *)
(* id is computed from the map and not from the disk.  Not so for -1: it   *)
(* is get_json_id's word for "no number", and a delete of a directory      *)
(* takes it out of the map.                                                *)
MapKnowsOwnFiles ==
  writers = {} => \A p \in mine \intersect DOMAIN files : Name(p) = -1 \/ Name(p) \in Entry(Parent(p))

(* A create never takes the id of a file this process has written, unless  *)
(* the ids of the collection have reached the end of the range, or it is   *)
(* -1, which the map may have lost.                                        *)
CreateTakesFreshId ==
  [][\A w \in Workers :
       pc[w] = "open" /\ pc'[w] = "write" /\ request[w].method = "POST" /\ item[w] \in mine \intersect DOMAIN files
         => MaxInt \in Entry(Parent(item[w])) \/ Name(item[w]) = -1]_vars

(* Every file the handlers make is named by a number, so that a later      *)
(* constructor finds it.                                                   *)
FilesAreNumbered == \A p \in DOMAIN files : p # <<>> /\ Name(p) \in Int32

(* "Read all currently existing data from `loc` into jsonStorage": behind  *)
(* the constructor the map holds every file of the tree.                   *)
ExistingDataIsRead ==
  \A w \in Workers : pc[w] = "dispatch" /\ writers = {} =>
    \A p \in NumericFiles : Name(p) \in Entry(Parent(p))

(* "remove trailing ', '": the text of a list ends with a separator, that  *)
(* is, there is an id in it.                                               *)
ListEndsWithSeparator == \A w \in Workers : pc[w] = "format" => listed[w] # {}

(* Every request is answered or dies with the process: no path through the *)
(* handlers keeps api_lock.                                                *)
EveryRequestEnds == \A w \in Workers : pc[w] # "idle" ~> pc[w] = "idle"

(* The handlers against what the API promises: a write takes effect when   *)
(* the file is opened, everything else when the tree or the map is read.   *)
Items == [p \in DOMAIN files |->
            IF \E w \in Workers : pc[w] = "write" /\ item[w] = p
              THEN request[CHOOSE w \in Workers : pc[w] = "write" /\ item[w] = p].body
              ELSE files[p]]
Phase(w) == IF pc[w] \in {"idle", "write", "format"} THEN pc[w] ELSE "pending"
Ticket(w) == IF pc[w] = "write" THEN item[w] ELSE IF pc[w] = "format" THEN listed[w] ELSE <<>>

Api == INSTANCE JsonStore WITH
  Clients <- Workers, items <- Items, phase <- [w \in Workers |-> Phase(w)],
  ticket <- [w \in Workers |-> Ticket(w)], answer <- reply

(* While the process lives, workers that share the map, the tree and the   *)
(* lock serve collections of JSON entities as one atomic store would, and  *)
(* when it dies only files being written are damaged.                      *)
ImplementsJsonStore == Api!Spec
=============================================================================
