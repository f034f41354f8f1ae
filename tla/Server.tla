------------------------------ MODULE Server -------------------------------
(***************************************************************************)
(* Server and RealSession: the accept loop, the sessions and the pool of   *)
(* threads that run the completion handlers of one io_service.             *)
(*                                                                         *)
(* A session is an object that is allocated, freed and allocated again; it *)
(* has at most one asynchronous operation pending.  An idle thread takes   *)
(* the completion of an operation and runs its handler, which is cut where *)
(* it starts the next operation: from there on another thread may run the  *)
(* next handler of the session before this one has returned.               *)
(*                                                                         *)
(* A request is the sequence of the segments it arrives in; the response   *)
(* to a message is named by the message.                                   *)
(***************************************************************************)
EXTENDS Integers, Sequences

CONSTANTS
  Threads,         \* threads that run the io_service
  Sessions,        \* places in memory for session objects
  Requests,        \* what clients ask
  Segments,        \* request -> number of segments it is sent in
  Chunks,          \* request -> number of sends its response takes
  Fatal,           \* requests whose handler throws or is missing
  MaxConnections,  \* bound: connections in a behaviour
  MaxSends,        \* bound: requests sent in a behaviour
  Faults           \* subset of {"accept", "reset", "dirty", "thread"}

None == "none"
Junk == <<None, 0>>  \* a segment's worth of memory that nobody has written

Whole(r) == [k \in 1 .. Segments[r] |-> <<r, k>>]
Asked == Requests \union {None}

ASSUME ConstantsAssumption ==
  /\ Threads # {} /\ Threads \intersect Sessions = {}
  /\ None \notin Threads \union Sessions \union Requests
  /\ Segments \in [Requests -> Nat \ {0}]
  /\ Chunks \in [Requests -> Nat \ {0}]
  /\ Fatal \subseteq Requests
  /\ MaxConnections \in Nat /\ MaxSends \in Nat
  /\ Faults \subseteq {"accept", "reset", "dirty", "thread"}

VARIABLES
  main,         \* what main is doing: "making" threads, "joining" them, or "ended"
  alloc,        \* sessions that are allocated
  pending,      \* the asynchronous operation of each session
  data,         \* data_: the segments in each session's buffer
  at, serving,  \* where each thread is, and the session it is at work for
  message,      \* the thread's copy of the request, then response_
  writer, left, \* the thread whose response_ a session writes; sends to come
  conn,         \* the connection: "none", "open" or "closed" by the client
  wire,         \* segments the client has sent and nobody has read
  asked, got,   \* what the client has asked, and what it has received
  connections, sends   \* still to come

session == <<alloc, pending, data, writer, left>>
thread == <<at, serving, message>>
client == <<conn, wire, asked, got>>
bounds == <<connections, sends>>
vars == <<main, session, thread, client, bounds>>

up == main # "ended"  \* the process is alive

Uninitialised == {<<>>} \union (IF "dirty" \in Faults THEN {<<Junk, Junk>>} ELSE {})

(* main starts the first accept before it makes the threads.               *)
Init ==
  /\ main = "making"
  /\ \E s \in Sessions, d \in Uninitialised :
       /\ alloc = {s}
       /\ pending = [x \in Sessions |-> IF x = s THEN "accept" ELSE None]
       /\ data = [x \in Sessions |-> IF x = s THEN d ELSE <<>>]
  /\ writer = [s \in Sessions |-> None]
  /\ serving = [t \in Threads |-> None]
  /\ left = [s \in Sessions |-> 0]
  /\ at = [t \in Threads |-> "new"]
  /\ message = [t \in Threads |-> <<>>]
  /\ conn = [s \in Sessions |-> "none"]
  /\ wire = [s \in Sessions |-> <<>>]
  /\ asked = [s \in Sessions |-> None]
  /\ got = [s \in Sessions |-> <<>>]
  /\ connections = MaxConnections /\ sends = MaxSends
-----------------------------------------------------------------------------
Goto(t, from, to) == at[t] = from /\ at' = [at EXCEPT ![t] = to]

(* A thread takes the completion of operation op and enters its handler.   *)
Take(t, s, op, to) ==
  /\ Goto(t, "idle", to)
  /\ pending[s] = op /\ pending' = [pending EXCEPT ![s] = None]
  /\ serving' = [serving EXCEPT ![t] = s]
  /\ UNCHANGED <<main, alloc, message, writer, left>>

Arm(s, op) == pending' = [pending EXCEPT ![s] = op]

Terminate == main' = "ended" /\ UNCHANGED <<session, thread, client, bounds>>
-----------------------------------------------------------------------------
(* main makes the threads one after the other, and they run from then on;  *)
(* when one cannot be made it goes on with those there are.                *)
MakeThread(t) ==
  /\ main = "making" /\ Goto(t, "new", "idle")
  /\ main' = IF \E u \in Threads \ {t} : at[u] = "new" THEN "making" ELSE "joining"
  /\ UNCHANGED <<session, serving, message, client, bounds>>

MakeThreadFails ==
  /\ "thread" \in Faults /\ main = "making" /\ main' = "joining"
  /\ UNCHANGED <<session, thread, client, bounds>>

(* The first thread never returns, so main never joins a second; without a *)
(* first one it indexes an empty vector: the process ends, or hangs.       *)
JoinNoThread ==
  /\ main = "joining" /\ \A t \in Threads : at[t] = "new"
  /\ Terminate
-----------------------------------------------------------------------------
(* HandleAccept: the session starts to read, or is deleted on an error;    *)
(* either way the next one is accepted.                                    *)
TakeAccept(t, s) ==
  /\ Take(t, s, "accept", "start")
  /\ connections > 0 /\ connections' = connections - 1
  /\ conn' = [conn EXCEPT ![s] = "open"]
  /\ wire' = [wire EXCEPT ![s] = <<>>]
  /\ asked' = [asked EXCEPT ![s] = None]
  /\ got' = [got EXCEPT ![s] = <<>>]
  /\ UNCHANGED <<data, sends>>

TakeAcceptError(t, s) ==
  /\ Take(t, s, "accept", "drop")
  /\ "accept" \in Faults /\ connections > 0 /\ connections' = connections - 1
  /\ UNCHANGED <<data, client, sends>>

Start(t) ==
  /\ Goto(t, "start", "accept")
  /\ Arm(serving[t], "read")
  /\ UNCHANGED <<main, alloc, data, writer, left, serving, message, client, bounds>>

(* remote_endpoint() of a socket that the client has reset throws.         *)
StartThrows(t) ==
  /\ at[t] = "start" /\ "reset" \in Faults /\ conn[serving[t]] = "closed"
  /\ Terminate

StartAccept(t) ==
  /\ Goto(t, "accept", "idle")
  /\ \E s \in Sessions \ alloc, d \in Uninitialised :
       /\ alloc' = alloc \union {s}
       /\ Arm(s, "accept")
       /\ data' = [data EXCEPT ![s] = d]
  /\ UNCHANGED <<main, writer, left, serving, message, client, bounds>>
-----------------------------------------------------------------------------
(* HandleRead: the segments that have arrived, or the first of them, are   *)
(* now at the front of data_, and what was behind them still is.           *)
TakeRead(t, s) ==
  /\ Take(t, s, "read", "parse")
  /\ \E n \in 1 .. Len(wire[s]) :
       /\ data' = [data EXCEPT ![s] = SubSeq(wire[s], 1, n) \o SubSeq(@, n + 1, Len(@))]
       /\ wire' = [wire EXCEPT ![s] = SubSeq(@, n + 1, Len(@))]
  /\ UNCHANGED <<conn, asked, got, bounds>>

TakeReadError(t, s) ==
  /\ Take(t, s, "read", "delete")
  /\ conn[s] = "closed"
  /\ UNCHANGED <<data, client, bounds>>

(* mutant: the next read begins before this request is answered.           *)
ParseReadsOn(t) ==
  /\ Goto(t, "parse", "handle")
  /\ message' = [message EXCEPT ![t] = data[serving[t]]]
  /\ Arm(serving[t], "read")
  /\ UNCHANGED <<main, alloc, data, writer, left, serving, client, bounds>>

Parse(t) ==
  /\ Goto(t, "parse", "handle")
  /\ message' = [message EXCEPT ![t] = data[serving[t]]]
  /\ UNCHANGED <<main, session, serving, client, bounds>>

(* The route is looked up and its handler made and run.                    *)
IsFatal(m) == m # <<>> /\ \E r \in Fatal : m[1] = <<r, 1>>
Handle(t) ==
  /\ Goto(t, "handle", "respond") /\ ~IsFatal(message[t])
  /\ UNCHANGED <<main, session, serving, message, client, bounds>>

HandleThrows(t) == at[t] = "handle" /\ IsFatal(message[t]) /\ Terminate

(* The rest of HandleRead: data_ is cleared and the write begins, whose    *)
(* first send is made before async_write returns; then the response_ that  *)
(* it writes goes out of scope.                                            *)
Sends(m) == LET whole == {r \in Requests : m = Whole(r)} IN
            IF whole = {} THEN 1 ELSE Chunks[CHOOSE r \in whole : TRUE]
Receives(s, chunk) ==
  got' = IF conn[s] = "open" THEN [got EXCEPT ![s] = Append(@, chunk)] ELSE got

(* mutant: every send is left to an idle thread.                           *)
RespondLater(t) ==
  LET s == serving[t] IN
  /\ Goto(t, "respond", "leave")
  /\ data' = [data EXCEPT ![s] = <<>>]
  /\ writer' = [writer EXCEPT ![s] = t]
  /\ left' = [left EXCEPT ![s] = Sends(message[t])]
  /\ Arm(s, "write")
  /\ UNCHANGED <<main, alloc, serving, message, client, bounds>>

Respond(t) ==
  LET s == serving[t] IN
  /\ Goto(t, "respond", "leave")
  /\ data' = [data EXCEPT ![s] = <<>>]
  /\ writer' = [writer EXCEPT ![s] = t]
  /\ left' = [left EXCEPT ![s] = Sends(message[t]) - 1]
  /\ Arm(s, "write")
  /\ Receives(s, message[t])
  /\ UNCHANGED <<main, alloc, serving, message, conn, wire, asked, bounds>>

(* mutant: data_ is cleared after async_write and not before.              *)
LeaveClears(t) ==
  /\ Goto(t, "leave", "idle")
  /\ data' = [data EXCEPT ![serving[t]] = <<>>]
  /\ UNCHANGED <<main, alloc, pending, writer, left, serving, message, client, bounds>>

Leave(t) ==
  /\ Goto(t, "leave", "idle")
  /\ UNCHANGED <<main, session, serving, message, client, bounds>>

(* An idle thread makes the other sends.  Out of its scope, the memory of  *)
(* response_ holds what it held, what the thread has put there since, or   *)
(* anything.                                                               *)
InScope(s) == at[writer[s]] = "leave" /\ serving[writer[s]] = s
(* mutant: one send too many.                                              *)
TransmitPastEnd(s) ==
  /\ pending[s] = "write" /\ left[s] >= 0 /\ \E t \in Threads : at[t] = "idle"
  /\ left' = [left EXCEPT ![s] = @ - 1]
  /\ Receives(s, <<Junk>>)
  /\ UNCHANGED <<main, alloc, pending, data, writer, thread, conn, wire, asked, bounds>>

Transmit(s) ==
  /\ pending[s] = "write" /\ left[s] > 0 /\ \E t \in Threads : at[t] = "idle"
  /\ left' = [left EXCEPT ![s] = @ - 1]
  /\ \E chunk \in {message[writer[s]]} \union (IF InScope(s) THEN {} ELSE {<<Junk>>}) : Receives(s, chunk)
  /\ UNCHANGED <<main, alloc, pending, data, writer, thread, conn, wire, asked, bounds>>
-----------------------------------------------------------------------------
(* HandleWrite: read on, or give up.                                       *)
TakeWrite(t, s) ==
  /\ Take(t, s, "write", "again")
  /\ left[s] = 0
  /\ UNCHANGED <<data, client, bounds>>

TakeWriteError(t, s) ==
  /\ Take(t, s, "write", "delete")
  /\ conn[s] = "closed"
  /\ UNCHANGED <<data, client, bounds>>

(* mutant: a session serves one request.                                   *)
ReadOnce(t) ==
  /\ Goto(t, "again", "idle")
  /\ UNCHANGED <<main, session, serving, message, client, bounds>>

ReadAgain(t) ==
  /\ Goto(t, "again", "idle")
  /\ Arm(serving[t], "read")
  /\ UNCHANGED <<main, alloc, data, writer, left, serving, message, client, bounds>>

(* mutant: no return behind delete this.                                   *)
DeleteReadsOn(t) ==
  /\ Goto(t, "delete", "idle") \/ Goto(t, "drop", "accept")
  /\ alloc' = alloc \ {serving[t]}
  /\ conn' = [conn EXCEPT ![serving[t]] = "none"]
  /\ Arm(serving[t], "read")
  /\ UNCHANGED <<main, data, writer, left, serving, message, wire, asked, got, bounds>>

(* mutant: an error in HandleAccept returns before the next StartAccept.   *)
DeleteStopsAccepting(t) ==
  /\ Goto(t, "delete", "idle") \/ Goto(t, "drop", "idle")
  /\ alloc' = alloc \ {serving[t]}
  /\ conn' = [conn EXCEPT ![serving[t]] = "none"]
  /\ UNCHANGED <<main, pending, data, writer, left, serving, message, wire, asked, got, bounds>>

(* mutant: return without delete this.                                     *)
DeleteForgotten(t) ==
  /\ Goto(t, "delete", "idle") \/ Goto(t, "drop", "accept")
  /\ UNCHANGED <<main, session, serving, message, client, bounds>>

(* delete this, and in HandleAccept delete new_session.                    *)
Delete(t) ==
  /\ Goto(t, "delete", "idle") \/ Goto(t, "drop", "accept")
  /\ alloc' = alloc \ {serving[t]}
  /\ conn' = [conn EXCEPT ![serving[t]] = "none"]
  /\ UNCHANGED <<main, pending, data, writer, left, serving, message, wire, asked, got, bounds>>
-----------------------------------------------------------------------------
(* Clients: a request follows the answer to the one before.                *)
Answered(s) == got[s] # <<>> /\ left[s] = 0

Send(s, r) ==
  /\ conn[s] = "open" /\ (asked[s] = None \/ Answered(s))
  /\ sends > 0 /\ sends' = sends - 1
  /\ asked' = [asked EXCEPT ![s] = r]
  /\ wire' = [wire EXCEPT ![s] = @ \o Whole(r)]
  /\ got' = [got EXCEPT ![s] = <<>>]
  /\ UNCHANGED <<main, session, thread, conn, connections>>

Close(s) ==
  /\ conn[s] = "open" /\ conn' = [conn EXCEPT ![s] = "closed"]
  /\ UNCHANGED <<main, session, thread, wire, asked, got, bounds>>
-----------------------------------------------------------------------------
TakeUp(t, s) == \/ TakeAccept(t, s) \/ TakeAcceptError(t, s)
                \/ TakeRead(t, s) \/ TakeReadError(t, s)
                \/ TakeWrite(t, s) \/ TakeWriteError(t, s)
Run(t) == \/ Start(t) \/ StartThrows(t) \/ StartAccept(t)
          \/ Parse(t) \/ Handle(t) \/ HandleThrows(t) \/ Respond(t) \/ Leave(t)
          \/ ReadAgain(t) \/ Delete(t)

Next ==
  /\ up
  /\ \/ MakeThreadFails \/ JoinNoThread
     \/ \E t \in Threads : MakeThread(t) \/ Run(t) \/ \E s \in Sessions : TakeUp(t, s)
     \/ \E s \in Sessions : Transmit(s) \/ Close(s) \/ \E r \in Requests : Send(s, r)

Spec == Init /\ [][Next]_vars

(* Threads run on, and the io_service hands every completion to one that   *)
(* is idle.  That a client connects is not promised.                       *)
Serve(s) == up /\ (Transmit(s) \/ \E t \in Threads : pending[s] # "accept" /\ TakeUp(t, s))
FairSpec ==
  /\ Spec
  /\ \A t \in Threads : WF_vars(up /\ Run(t))
  /\ \A s \in Sessions : WF_vars(Serve(s))
-----------------------------------------------------------------------------
InAccept == {"start", "drop", "accept"}
(* Steps in which a thread uses the session it is at work for.             *)
InSession == {"start", "drop", "parse", "handle", "respond", "again", "delete"}
Pieces == Asked \X Nat

(* A write never makes more sends than its response has, and every         *)
(* variable has its type.                                                  *)
TypeOK ==
  /\ main \in {"making", "joining", "ended"} /\ alloc \subseteq Sessions
  /\ pending \in [Sessions -> {None, "accept", "read", "write"}]
  /\ data \in [Sessions -> Seq(Pieces)]
  /\ at \in [Threads -> InAccept \union InSession \union {"new", "idle", "leave"}]
  /\ serving \in [Threads -> Sessions \union {None}] /\ message \in [Threads -> Seq(Pieces)]
  /\ writer \in [Sessions -> Threads \union {None}] /\ left \in [Sessions -> Nat]
  /\ conn \in [Sessions -> {"none", "open", "closed"}]
  /\ wire \in [Sessions -> Seq(Pieces)]
  /\ asked \in [Sessions -> Asked] /\ got \in [Sessions -> Seq(Seq(Pieces))]
  /\ connections \in Nat /\ sends \in Nat

(* Without a strand or a lock, a session is never in the hands of two: of  *)
(* two threads, or of a thread and an operation that another may complete. *)
Uses(t, s) == at[t] \in InSession /\ serving[t] = s
SessionIsExclusive ==
  \A s \in Sessions, t \in Threads : Uses(t, s) =>
    pending[s] = None /\ \A u \in Threads \ {t} : ~Uses(u, s)

(* delete this is safe: no operation and no thread is left that will use   *)
(* the session, and no allocated session is without one to carry it on.    *)
AllocatedIffInUse ==
  alloc = {s \in Sessions : pending[s] # None \/ \E t \in Threads : Uses(t, s)}

(* The server accepts for as long as it lives, one connection at a time.   *)
Listeners == {s \in Sessions : pending[s] = "accept"} \union {t \in Threads : at[t] \in InAccept}
AlwaysListening == up => \E x \in Sessions \union Threads : Listeners = {x}

(* "It reads data from the socket, parses the request string": what is     *)
(* handled is the request that the client has sent, and all of it.         *)
RequestIsWhole ==
  \A t \in Threads : at[t] = "handle" => message[t] = Whole(asked[serving[t]])

(* "It generates a response string and writes it back": every part of what *)
(* a client receives is of the answer to its own request.                  *)
ResponseIsIntact ==
  \A s \in Sessions : \A k \in DOMAIN got[s] : got[s][k] = Whole(asked[s])

(* A client that stays is answered, and one that leaves is forgotten,      *)
(* unless the process dies.                                                *)
EveryRequestIsAnswered ==
  \A s \in Sessions :
    (conn[s] = "open" /\ asked[s] # None /\ ~Answered(s)) ~> (Answered(s) \/ conn[s] # "open" \/ ~up)
ClosedSessionsAreFreed == \A s \in Sessions : conn[s] = "closed" ~> (conn[s] # "closed" \/ ~up)
=============================================================================
