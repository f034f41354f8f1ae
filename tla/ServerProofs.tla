---------------------------- MODULE ServerProofs ----------------------------
(***************************************************************************)
(* Proofs about the ownership of sessions: for any number of threads,      *)
(* sessions and clients, whatever fails, a session is in the hands of one  *)
(* thread or of one pending operation as long as it is allocated, and one  *)
(* of them all is the one that accepts.                                    *)
(***************************************************************************)
EXTENDS Server, TLAPS

(* What ownership depends on: where the threads are, what is pending.      *)
Placed ==
  /\ pending \in [Sessions -> {None, "accept", "read", "write"}]
  /\ at \in [Threads -> InAccept \union InSession \union {"new", "idle", "leave"}]
  /\ serving \in [Threads -> Sessions \union {None}]
  /\ alloc \subseteq Sessions

(* A thread at a step of a handler is at work for a session.               *)
Serving == \A t \in Threads : at[t] \in InAccept \union InSession => serving[t] \in Sessions

Listening == \E x \in Sessions \union Threads : Listeners = {x}

Ownership == Placed /\ Serving /\ SessionIsExclusive /\ AllocatedIffInUse /\ Listening

owners == <<alloc, pending, at, serving>>

(* None is no operation's name, and steps are apart from each other.       *)
LEMMA OwnershipOfTheStart == Init => Ownership
<1> SUFFICES ASSUME Init PROVE Ownership
  OBVIOUS
<1> USE ConstantsAssumption DEF None
<1>1. PICK s \in Sessions : /\ alloc = {s}
                            /\ pending = [x \in Sessions |-> IF x = s THEN "accept" ELSE None]
  BY DEF Init
<1>2. /\ at = [t \in Threads |-> "new"]
      /\ serving = [t \in Threads |-> None]
  BY DEF Init
<1>3. Placed /\ Serving
  BY <1>1, <1>2 DEF Placed, Serving, InAccept, InSession
<1>4. \A x \in Sessions, t \in Threads : ~Uses(t, x)
  BY <1>2 DEF Uses, InSession
<1>5. SessionIsExclusive /\ AllocatedIffInUse
  BY <1>1, <1>4 DEF SessionIsExclusive, AllocatedIffInUse
<1>6. Listeners = {s}
  BY <1>1, <1>2 DEF Listeners, InAccept
<1> QED
  BY <1>3, <1>5, <1>6 DEF Ownership, Listening

(* A completion hands the session to a thread, and with it, when it was    *)
(* that of the accept, the turn to start the next one.                     *)
LEMMA TakeKeepsOwnership ==
  ASSUME Ownership, NEW t \in Threads, NEW s \in Sessions, NEW op, NEW to \in InSession,
         op \in {"accept", "read", "write"}, to \in InAccept <=> op = "accept",
         Take(t, s, op, to)
  PROVE  Ownership'
<1> USE ConstantsAssumption DEF Ownership, None
<1>1. /\ pending[s] = op /\ pending' = [pending EXCEPT ![s] = None]
      /\ at[t] = "idle" /\ at' = [at EXCEPT ![t] = to]
      /\ serving' = [serving EXCEPT ![t] = s]
      /\ alloc' = alloc
  BY DEF Take, Goto
<1>2. Placed' /\ Serving'
  BY <1>1 DEF Placed, Serving, InAccept, InSession
<1>3. \A x \in Sessions, u \in Threads : Uses(u, x)' <=> Uses(u, x) \/ (u = t /\ x = s)
  BY <1>1 DEF Placed, Uses, InSession
<1>4. \A u \in Threads : ~Uses(u, s)
  BY <1>1 DEF SessionIsExclusive
<1>5. ~\E x \in Sessions : Uses(t, x)
  BY <1>1 DEF Uses, InSession
<1>6. SessionIsExclusive'
  BY <1>1, <1>3, <1>4, <1>5 DEF SessionIsExclusive, Placed
<1>7. AllocatedIffInUse'
  BY <1>1, <1>3, <1>4 DEF AllocatedIffInUse, Placed
<1>8. Listening'
  <2>1. PICK x \in Sessions \union Threads : Listeners = {x}
    BY DEF Listening
  <2>2. CASE op = "accept"
    <3>1. Listeners = {s}
      BY <1>1, <2>1, <2>2 DEF Listeners
    <3>2. Listeners' = {t}
      BY <1>1, <2>2, <3>1 DEF Listeners, Placed
    <3> QED
      BY <3>2 DEF Listening
  <2>3. CASE op # "accept"
    <3>1. Listeners' = Listeners
      BY <1>1, <2>3 DEF Listeners, Placed, InAccept
    <3> QED
      BY <3>1, <2>1 DEF Listening
  <2> QED
    BY <2>2, <2>3
<1> QED
  BY <1>2, <1>6, <1>7, <1>8

(* A step inside a handler, or outside of all, moves nobody's session.     *)
LEMMA MoveKeepsOwnership ==
  ASSUME Ownership, NEW t \in Threads, NEW to \in InSession \union {"idle", "leave"},
         at[t] \in InSession <=> to \in InSession, at[t] \notin InAccept, to \notin InAccept,
         at' = [at EXCEPT ![t] = to], UNCHANGED <<alloc, pending, serving>>
  PROVE  Ownership'
<1> USE DEF Ownership
<1>1. at[t] \in InSession => serving[t] \in Sessions
  BY DEF Serving
<1>2. Placed' /\ Serving'
  BY <1>1 DEF Placed, Serving
<1>3. \A x \in Sessions, u \in Threads : Uses(u, x)' <=> Uses(u, x)
  BY DEF Placed, Uses
<1>4. SessionIsExclusive' /\ AllocatedIffInUse'
  BY <1>3 DEF SessionIsExclusive, AllocatedIffInUse
<1>5. Listeners' = Listeners
  BY DEF Listeners, Placed, InAccept
<1> QED
  BY <1>2, <1>4, <1>5 DEF Listening

(* A handler that starts the next operation hands its session to it.       *)
LEMMA ArmKeepsOwnership ==
  ASSUME Ownership, NEW t \in Threads, NEW op \in {"read", "write"},
         NEW to \in {"accept", "idle", "leave"},
         at[t] \in InSession, at[t] \in InAccept <=> to \in InAccept,
         at' = [at EXCEPT ![t] = to], pending' = [pending EXCEPT ![serving[t]] = op],
         UNCHANGED <<alloc, serving>>
  PROVE  Ownership'
<1> USE ConstantsAssumption DEF Ownership, None
<1> DEFINE s == serving[t]
<1>1. s \in Sessions /\ Uses(t, s)
  BY DEF Serving, Uses
<1>2. pending[s] = None /\ \A u \in Threads \ {t} : ~Uses(u, s)
  BY <1>1 DEF SessionIsExclusive
<1>3. Placed' /\ Serving'
  BY <1>1 DEF Placed, Serving, InAccept, InSession
<1>4. \A x \in Sessions, u \in Threads : Uses(u, x)' <=> Uses(u, x) /\ u # t
  BY DEF Placed, Uses, InSession
<1>5. SessionIsExclusive'
  BY <1>1, <1>2, <1>4 DEF SessionIsExclusive, Placed
<1>6. \A x \in Sessions : Uses(t, x) => x = s
  BY DEF Uses
<1>7. AllocatedIffInUse'
  BY <1>1, <1>4, <1>6 DEF AllocatedIffInUse, Placed
<1>8. Listeners' = Listeners
  BY <1>1, <1>2 DEF Listeners, Placed, InAccept
<1> QED
  BY <1>3, <1>5, <1>7, <1>8 DEF Listening

(* The next accept gets a session that was not allocated, so nobody's.     *)
LEMMA StartAcceptKeepsOwnership ==
  ASSUME Ownership, NEW t \in Threads, StartAccept(t)
  PROVE  Ownership'
<1> USE ConstantsAssumption DEF Ownership, None
<1>1. PICK s \in Sessions \ alloc : /\ alloc' = alloc \union {s}
                                   /\ pending' = [pending EXCEPT ![s] = "accept"]
  BY DEF StartAccept, Arm
<1>2. /\ at[t] = "accept" /\ at' = [at EXCEPT ![t] = "idle"]
      /\ serving' = serving
  BY DEF StartAccept, Goto
<1>3. pending[s] = None /\ \A u \in Threads : ~Uses(u, s)
  BY <1>1 DEF AllocatedIffInUse
<1>4. Placed' /\ Serving'
  BY <1>1, <1>2 DEF Placed, Serving, InAccept, InSession
<1>5. \A x \in Sessions, u \in Threads : Uses(u, x)' <=> Uses(u, x)
  BY <1>2 DEF Placed, Uses, InSession
<1>6. SessionIsExclusive'
  BY <1>1, <1>3, <1>5 DEF SessionIsExclusive, Placed
<1>7. AllocatedIffInUse'
  BY <1>1, <1>5 DEF AllocatedIffInUse, Placed
<1>8. Listeners = {t}
  BY <1>2 DEF Listening, Listeners, InAccept
<1>9. Listeners' = {s}
  BY <1>1, <1>2, <1>8 DEF Listeners, Placed, InAccept
<1> QED
  BY <1>4, <1>6, <1>7, <1>9 DEF Listening

(* delete this: the thread that frees a session is the only one that has it.*)
LEMMA DeleteKeepsOwnership ==
  ASSUME Ownership, NEW t \in Threads, Delete(t)
  PROVE  Ownership'
<1> USE ConstantsAssumption DEF Ownership, None
<1> DEFINE s == serving[t]
<1>1. PICK to \in {"idle", "accept"} :
        /\ at[t] = (IF to = "idle" THEN "delete" ELSE "drop")
        /\ at' = [at EXCEPT ![t] = to]
  BY DEF Delete, Goto
<1>2. alloc' = alloc \ {s} /\ UNCHANGED <<pending, serving>>
  BY DEF Delete
<1>3. s \in Sessions /\ Uses(t, s)
  BY <1>1 DEF Serving, Uses, InSession
<1>4. pending[s] = None /\ \A u \in Threads \ {t} : ~Uses(u, s)
  BY <1>3 DEF SessionIsExclusive
<1>5. Placed' /\ Serving'
  BY <1>1, <1>2, <1>3 DEF Placed, Serving, InAccept, InSession
<1>6. \A x \in Sessions, u \in Threads : Uses(u, x)' <=> Uses(u, x) /\ u # t
  BY <1>1, <1>2 DEF Placed, Uses, InSession
<1>7. \A x \in Sessions : Uses(t, x) => x = s
  BY DEF Uses
<1>8. SessionIsExclusive' /\ AllocatedIffInUse'
  BY <1>2, <1>3, <1>4, <1>6, <1>7 DEF SessionIsExclusive, AllocatedIffInUse
<1>9. Listeners' = Listeners
  BY <1>1, <1>2 DEF Listeners, Placed, InAccept
<1> QED
  BY <1>5, <1>8, <1>9 DEF Listening
-----------------------------------------------------------------------------
LEMMA StepKeepsOwnership == Ownership /\ [Next]_vars => Ownership'
<1> SUFFICES ASSUME Ownership, [Next]_vars PROVE Ownership'
  OBVIOUS
<1>1. CASE UNCHANGED owners
  BY <1>1 DEF Ownership, Placed, Serving, SessionIsExclusive, AllocatedIffInUse, Uses,
              Listening, Listeners, owners
<1>2. ASSUME NEW t \in Threads, NEW s \in Sessions, TakeUp(t, s) PROVE Ownership'
  BY <1>2, TakeKeepsOwnership
     DEF TakeUp, TakeAccept, TakeAcceptError, TakeRead, TakeReadError, TakeWrite, TakeWriteError,
         InSession, InAccept
<1>3. ASSUME NEW t \in Threads, Run(t) PROVE Ownership'
  <2>1. CASE StartThrows(t) \/ HandleThrows(t)
    BY <1>1, <2>1 DEF StartThrows, HandleThrows, Terminate, session, thread, owners
  <2>2. CASE Parse(t) \/ Handle(t) \/ Leave(t)
    <3>1. /\ UNCHANGED <<alloc, pending, serving>>
          /\ \/ at[t] = "parse" /\ at' = [at EXCEPT ![t] = "handle"]
             \/ at[t] = "handle" /\ at' = [at EXCEPT ![t] = "respond"]
             \/ at[t] = "leave" /\ at' = [at EXCEPT ![t] = "idle"]
      BY <2>2 DEF Parse, Handle, Leave, Goto, session
    <3> QED
      BY <3>1, MoveKeepsOwnership DEF InSession, InAccept
  <2>3. CASE Start(t) \/ Respond(t) \/ ReadAgain(t)
    <3>1. /\ UNCHANGED <<alloc, serving>>
          /\ \/ /\ at[t] = "start" /\ at' = [at EXCEPT ![t] = "accept"]
                /\ pending' = [pending EXCEPT ![serving[t]] = "read"]
             \/ /\ at[t] = "respond" /\ at' = [at EXCEPT ![t] = "leave"]
                /\ pending' = [pending EXCEPT ![serving[t]] = "write"]
             \/ /\ at[t] = "again" /\ at' = [at EXCEPT ![t] = "idle"]
                /\ pending' = [pending EXCEPT ![serving[t]] = "read"]
      BY <2>3 DEF Start, Respond, ReadAgain, Goto, Arm
    <3> QED
      BY <3>1, ArmKeepsOwnership DEF InSession, InAccept
  <2> QED
    BY <1>3, <2>1, <2>2, <2>3, StartAcceptKeepsOwnership, DeleteKeepsOwnership DEF Run
<1>4. ASSUME NEW t \in Threads, MakeThread(t) PROVE Ownership'
  <2>1. /\ at[t] = "new" /\ at' = [at EXCEPT ![t] = "idle"]
        /\ UNCHANGED <<alloc, pending, serving>>
    BY <1>4 DEF MakeThread, Goto, session
  <2> QED
    BY <2>1, MoveKeepsOwnership DEF InSession, InAccept
<1>5. ASSUME NEW s \in Sessions, Transmit(s) \/ Close(s) \/ \E r \in Requests : Send(s, r)
      PROVE  UNCHANGED owners
  BY <1>5 DEF Transmit, Close, Send, session, thread, owners
<1>6. ASSUME MakeThreadFails \/ JoinNoThread \/ UNCHANGED vars PROVE UNCHANGED owners
  BY <1>6 DEF MakeThreadFails, JoinNoThread, Terminate, vars, session, thread, owners
<1> QED
  BY <1>1, <1>2, <1>3, <1>4, <1>5, <1>6 DEF Next

(* The ownership of sessions is an invariant of the server.                *)
THEOREM ServerOwnership == Spec => []Ownership
<1> QED
  BY OwnershipOfTheStart, StepKeepsOwnership, PTL DEF Spec

(* No session is used by two threads, nor by a thread while an operation   *)
(* of it is pending, for any pool and any clients, without a strand.       *)
THEOREM SessionsAreExclusive == Spec => []SessionIsExclusive
<1>1. Ownership => SessionIsExclusive
  BY DEF Ownership
<1> QED
  BY <1>1, ServerOwnership, PTL

(* delete this never frees what is in use, and no session is forgotten.    *)
THEOREM AllocatedSessionsAreInUse == Spec => []AllocatedIffInUse
<1>1. Ownership => AllocatedIffInUse
  BY DEF Ownership
<1> QED
  BY <1>1, ServerOwnership, PTL

(* The server never loses the accept, whatever fails, and never makes two. *)
THEOREM ServerKeepsListening == Spec => []AlwaysListening
<1>1. Ownership => AlwaysListening
  BY DEF Ownership, Listening, AlwaysListening
<1> QED
  BY <1>1, ServerOwnership, PTL
-----------------------------------------------------------------------------
(* What a write reads from is the vector of a thread.                      *)
Writing == \A s \in Sessions : pending[s] = "write" => writer[s] \in Threads

Typed == TypeOK /\ Serving /\ Writing

LEMMA RequestsAreTyped ==
  /\ \A r \in Requests : Whole(r) \in Seq(Pieces)
  /\ Uninitialised \subseteq Seq(Pieces)
  /\ <<Junk>> \in Seq(Pieces)
<1>1. ASSUME NEW r \in Requests PROVE Whole(r) \in Seq(Pieces)
  <2>1. Segments[r] \in Nat
    BY ConstantsAssumption
  <2>2. \A k \in 1 .. Segments[r] : <<r, k>> \in Pieces
    BY <2>1 DEF Pieces, Asked
  <2> QED
    BY <2>1, <2>2 DEF Whole
<1>2. Junk \in Pieces
  BY DEF Junk, Pieces, Asked
<1>3. << >> \in Seq(Pieces) /\ <<Junk>> \in Seq(Pieces) /\ <<Junk, Junk>> \in Seq(Pieces)
  BY <1>2
<1>4. Uninitialised \subseteq Seq(Pieces)
  BY <1>3 DEF Uninitialised
<1> QED
  BY <1>1, <1>3, <1>4

LEMMA PartsOfSequences ==
  ASSUME NEW S, NEW a \in Seq(S), NEW b \in Seq(S), NEW n \in 1 .. Len(a)
  PROVE  /\ SubSeq(a, 1, n) \o SubSeq(b, n + 1, Len(b)) \in Seq(S)
         /\ SubSeq(a, n + 1, Len(a)) \in Seq(S)
OBVIOUS

LEMMA SendsArePositive == \A m : Sends(m) - 1 \in Nat
<1> TAKE m
<1> DEFINE whole == {r \in Requests : m = Whole(r)}
<1>1. CASE whole = {}
  BY <1>1 DEF Sends
<1>2. CASE whole # {}
  <2>1. (CHOOSE r \in whole : TRUE) \in Requests
    BY <1>2
  <2>2. Chunks[CHOOSE r \in whole : TRUE] \in Nat \ {0}
    BY <2>1, ConstantsAssumption
  <2>3. Sends(m) = Chunks[CHOOSE r \in whole : TRUE]
    BY <1>2 DEF Sends
  <2> QED
    BY <2>2, <2>3
<1> QED
  BY <1>1, <1>2

(* What a completion does to the types, but for the buffers and clients.   *)
LEMMA TakeKeepsTypes ==
  ASSUME Typed, NEW t \in Threads, NEW s \in Sessions, NEW op, NEW to \in InSession,
         Take(t, s, op, to)
  PROVE  /\ pending' \in [Sessions -> {None, "accept", "read", "write"}]
         /\ at' \in [Threads -> InAccept \union InSession \union {"new", "idle", "leave"}]
         /\ serving' \in [Threads -> Sessions \union {None}]
         /\ UNCHANGED <<main, alloc, message, writer, left>>
         /\ Serving' /\ Writing'
<1>1. /\ pending' = [pending EXCEPT ![s] = None]
      /\ at' = [at EXCEPT ![t] = to] /\ serving' = [serving EXCEPT ![t] = s]
      /\ UNCHANGED <<main, alloc, message, writer, left>>
  BY DEF Take, Goto
<1>2. None # "write"
  BY DEF None
<1> QED
  BY <1>1, <1>2 DEF Typed, TypeOK, Serving, Writing
LEMMA TypesOfTheStart == Init => Typed
<1> SUFFICES ASSUME Init PROVE Typed
  OBVIOUS
<1>1. PICK s \in Sessions, d \in Uninitialised :
        /\ alloc = {s}
        /\ pending = [x \in Sessions |-> IF x = s THEN "accept" ELSE None]
        /\ data = [x \in Sessions |-> IF x = s THEN d ELSE << >>]
  BY DEF Init
<1>2. d \in Seq(Pieces)
  BY RequestsAreTyped
<1>3. Serving /\ Writing
  BY <1>1 DEF Init, Serving, Writing, InAccept, InSession, None
<1> QED
  BY <1>1, <1>2, <1>3, ConstantsAssumption DEF Init, Typed, TypeOK, Asked

LEMMA TakeUpKeepsTypes ==
  ASSUME Typed, NEW t \in Threads, NEW s \in Sessions, TakeUp(t, s)
  PROVE  Typed'
<1>1. CASE TakeAccept(t, s)
  <2>1. /\ conn' = [conn EXCEPT ![s] = "open"]
        /\ wire' = [wire EXCEPT ![s] = << >>]
        /\ asked' = [asked EXCEPT ![s] = None]
        /\ got' = [got EXCEPT ![s] = << >>]
        /\ connections > 0 /\ connections' = connections - 1
        /\ UNCHANGED <<data, sends>>
    BY <1>1 DEF TakeAccept
  <2>2. Take(t, s, "accept", "start")
    BY <1>1 DEF TakeAccept
  <2> QED
    BY <2>1, <2>2, TakeKeepsTypes DEF Typed, TypeOK, InSession, Asked
<1>2. CASE TakeAcceptError(t, s)
  BY <1>2, TakeKeepsTypes DEF TakeAcceptError, Typed, TypeOK, InSession, client
<1>3. CASE TakeRead(t, s)
  <2>1. PICK n \in 1 .. Len(wire[s]) :
          /\ data' = [data EXCEPT ![s] = SubSeq(wire[s], 1, n) \o SubSeq(data[s], n + 1, Len(data[s]))]
          /\ wire' = [wire EXCEPT ![s] = SubSeq(wire[s], n + 1, Len(wire[s]))]
    BY <1>3 DEF TakeRead
  <2>2. data' \in [Sessions -> Seq(Pieces)] /\ wire' \in [Sessions -> Seq(Pieces)]
    BY <2>1, PartsOfSequences DEF Typed, TypeOK
  <2>3. Take(t, s, "read", "parse") /\ UNCHANGED <<conn, asked, got, bounds>>
    BY <1>3 DEF TakeRead
  <2> QED
    BY <2>2, <2>3, TakeKeepsTypes DEF Typed, TypeOK, InSession, bounds
<1>4. CASE TakeReadError(t, s) \/ TakeWrite(t, s) \/ TakeWriteError(t, s)
  <2>1. /\ \E op, to : to \in InSession /\ Take(t, s, op, to)
        /\ UNCHANGED <<data, client, bounds>>
    BY <1>4 DEF TakeReadError, TakeWrite, TakeWriteError, InSession
  <2> QED
    BY <2>1, TakeKeepsTypes DEF Typed, TypeOK, client, bounds
<1> QED
  BY <1>1, <1>2, <1>3, <1>4 DEF TakeUp

LEMMA RunKeepsTypes ==
  ASSUME Typed, NEW t \in Threads, Run(t)
  PROVE  Typed'
<1> USE DEF Typed, TypeOK, Serving, InSession, InAccept
<1> DEFINE s == serving[t]
<1>1. CASE StartThrows(t) \/ HandleThrows(t)
  BY <1>1 DEF StartThrows, HandleThrows, Terminate, Writing, session, thread, client, bounds
<1>2. CASE Start(t) \/ ReadAgain(t)
  <2>1. s \in Sessions
    BY <1>2 DEF Start, ReadAgain, Goto
  <2> QED
    BY <1>2, <2>1 DEF Start, ReadAgain, Goto, Arm, Writing, client, bounds
<1>3. CASE StartAccept(t)
  <2>1. PICK x \in Sessions \ alloc, d \in Uninitialised :
          /\ alloc' = alloc \union {x}
          /\ pending' = [pending EXCEPT ![x] = "accept"]
          /\ data' = [data EXCEPT ![x] = d]
    BY <1>3 DEF StartAccept, Arm
  <2>2. d \in Seq(Pieces)
    BY RequestsAreTyped
  <2> QED
    BY <1>3, <2>1, <2>2 DEF StartAccept, Goto, Writing, client, bounds
<1>4. CASE Parse(t)
  <2>1. s \in Sessions
    BY <1>4 DEF Parse, Goto
  <2>2. data[s] \in Seq(Pieces)
    BY <2>1
  <2> QED
    BY <1>4, <2>2 DEF Parse, Goto, Writing, session, client, bounds
<1>5. CASE Handle(t) \/ Leave(t)
  BY <1>5 DEF Handle, Leave, Goto, Writing, session, client, bounds
<1>6. CASE Respond(t)
  <2>1. s \in Sessions /\ message[t] \in Seq(Pieces) /\ Sends(message[t]) - 1 \in Nat
    BY <1>6, SendsArePositive DEF Respond, Goto
  <2>2. /\ at' = [at EXCEPT ![t] = "leave"]
        /\ data' = [data EXCEPT ![s] = << >>]
        /\ writer' = [writer EXCEPT ![s] = t]
        /\ left' = [left EXCEPT ![s] = Sends(message[t]) - 1]
        /\ pending' = [pending EXCEPT ![s] = "write"]
        /\ got' = IF conn[s] = "open" THEN [got EXCEPT ![s] = Append(got[s], message[t])] ELSE got
        /\ UNCHANGED <<main, alloc, serving, message, conn, wire, asked, bounds>>
    BY <1>6 DEF Respond, Goto, Arm, Receives
  <2>3. got' \in [Sessions -> Seq(Seq(Pieces))]
    BY <2>1, <2>2
  <2>4. /\ data' \in [Sessions -> Seq(Pieces)] /\ left' \in [Sessions -> Nat]
        /\ writer' \in [Sessions -> Threads \union {None}]
        /\ pending' \in [Sessions -> {None, "accept", "read", "write"}]
    BY <2>1, <2>2
  <2>5. Serving' /\ Writing'
    BY <2>1, <2>2 DEF Writing
  <2>6. at' \in [Threads -> InAccept \union InSession \union {"new", "idle", "leave"}]
    BY <2>2
  <2>7. UNCHANGED <<connections, sends>>
    BY <2>2 DEF bounds
  <2> QED
    BY <2>2, <2>3, <2>4, <2>5, <2>6, <2>7
<1>7. CASE Delete(t)
  <2>1. PICK to \in {"idle", "accept"} :
          /\ at[t] = (IF to = "idle" THEN "delete" ELSE "drop")
          /\ at' = [at EXCEPT ![t] = to]
    BY <1>7 DEF Delete, Goto
  <2>2. /\ alloc' = alloc \ {s} /\ conn' = [conn EXCEPT ![s] = "none"]
        /\ UNCHANGED <<main, pending, data, writer, left, serving, message, wire, asked, got,
                       connections, sends>>
    BY <1>7 DEF Delete, bounds
  <2> QED
    BY <2>1, <2>2 DEF Writing
<1> QED
  BY <1>1, <1>2, <1>3, <1>4, <1>5, <1>6, <1>7 DEF Run

LEMMA OthersKeepTypes ==
  ASSUME Typed, NEW s \in Sessions
  PROVE  /\ Transmit(s) => Typed'
         /\ Close(s) => Typed'
         /\ \A r \in Requests : Send(s, r) => Typed'
<1> USE DEF Typed, TypeOK, Serving, Writing
<1>1. ASSUME Transmit(s) PROVE Typed'
  <2>1. writer[s] \in Threads
    BY <1>1 DEF Transmit
  <2>2. message[writer[s]] \in Seq(Pieces) /\ <<Junk>> \in Seq(Pieces)
    BY <2>1, RequestsAreTyped
  <2>3. PICK chunk \in Seq(Pieces) :
          got' = IF conn[s] = "open" THEN [got EXCEPT ![s] = Append(got[s], chunk)] ELSE got
    BY <1>1, <2>2 DEF Transmit, Receives
  <2>4. got' \in [Sessions -> Seq(Seq(Pieces))]
    BY <2>3
  <2>5. left' \in [Sessions -> Nat]
    BY <1>1 DEF Transmit
  <2> QED
    BY <1>1, <2>4, <2>5 DEF Transmit, thread, bounds
<1>2. ASSUME Close(s) PROVE Typed'
  BY <1>2 DEF Close, session, thread, bounds
<1>3. ASSUME NEW r \in Requests, Send(s, r) PROVE Typed'
  <2>1. wire[s] \o Whole(r) \in Seq(Pieces)
    BY RequestsAreTyped
  <2>2. /\ sends > 0 /\ sends' = sends - 1
        /\ asked' = [asked EXCEPT ![s] = r]
        /\ wire' = [wire EXCEPT ![s] = wire[s] \o Whole(r)]
        /\ got' = [got EXCEPT ![s] = << >>]
        /\ UNCHANGED <<main, session, thread, conn, connections>>
    BY <1>3 DEF Send
  <2>3. /\ wire' \in [Sessions -> Seq(Pieces)] /\ got' \in [Sessions -> Seq(Seq(Pieces))]
        /\ asked' \in [Sessions -> Asked] /\ sends' \in Nat
    BY <2>1, <2>2 DEF Asked
  <2> QED
    BY <2>2, <2>3 DEF session, thread
<1> QED
  BY <1>1, <1>2, <1>3

LEMMA TypesAreKept == Typed /\ [Next]_vars => Typed'
<1> SUFFICES ASSUME Typed, [Next]_vars PROVE Typed'
  OBVIOUS
<1>1. CASE UNCHANGED vars \/ MakeThreadFails \/ JoinNoThread
  BY <1>1 DEF MakeThreadFails, JoinNoThread, Terminate, Typed, TypeOK, Serving, Writing,
              vars, session, thread, client, bounds
<1>2. ASSUME NEW t \in Threads, MakeThread(t) PROVE Typed'
  BY <1>2 DEF MakeThread, Goto, Typed, TypeOK, Serving, Writing, InAccept, InSession,
              session, client, bounds
<1> QED
  BY <1>1, <1>2, TakeUpKeepsTypes, RunKeepsTypes, OthersKeepTypes DEF Next

(* Every variable keeps its type, and a write never runs past its end, for *)
(* any pool, clients and faults.                                           *)
THEOREM ServerTypeCorrect == Spec => []TypeOK
<1>1. Typed => TypeOK
  BY DEF Typed
<1> QED
  BY <1>1, TypesAreKept, TypesOfTheStart, PTL DEF Spec
-----------------------------------------------------------------------------
(* What is asked and what is handled.  Two hypotheses name what the code   *)
(* leaves to the network and to the memory: a request comes in one piece,  *)
(* and a new session's buffer holds nothing.                               *)
ComesInOnePiece == \A r \in Requests : Segments[r] = 1
MemoryIsClean == "dirty" \notin Faults

HandlerSteps == {"parse", "handle", "respond"}
InHand(s) == \E t \in Threads : at[t] \in HandlerSteps /\ serving[t] = s

(* Outside of a handler an allocated session's buffer is empty.            *)
Cleared(s) == s \in alloc /\ ~InHand(s) => data[s] = << >>

(* What is on its way is the one request of a client that has got no       *)
(* answer, and what is left of an older write has nothing more to send.    *)
OnItsWay(s) ==
  wire[s] # << >> =>
    /\ asked[s] \in Requests /\ wire[s] = Whole(asked[s]) /\ got[s] = << >>
    /\ ~InHand(s) /\ (pending[s] = "write" => left[s] = 0)

(* Nobody is answered who has not asked.                                   *)
Unasked(s) == asked[s] = None => pending[s] # "write"

(* A handler has the request, the client nothing more on its way, and no   *)
(* part of the answer.                                                     *)
Handled(t) ==
  at[t] \in HandlerSteps =>
    /\ asked[serving[t]] \in Requests /\ data[serving[t]] = Whole(asked[serving[t]])
    /\ wire[serving[t]] = << >> /\ got[serving[t]] = << >>
    /\ at[t] # "parse" => message[t] = Whole(asked[serving[t]])

Delivery ==
  /\ \A s \in Sessions : Cleared(s) /\ OnItsWay(s) /\ Unasked(s)
  /\ \A t \in Threads : Handled(t)

(* A thread in a handler has its session to itself.                        *)
LEMMA HandlerHasTheSession ==
  ASSUME Ownership, NEW t \in Threads, at[t] \in HandlerSteps
  PROVE  /\ serving[t] \in Sessions /\ serving[t] \in alloc /\ pending[serving[t]] = None
         /\ \A u \in Threads : u # t /\ at[u] \in HandlerSteps => serving[u] # serving[t]
<1>1. HandlerSteps \subseteq InSession
  BY DEF HandlerSteps, InSession
<1>2. serving[t] \in Sessions
  BY <1>1 DEF Ownership, Serving
<1>3. Uses(t, serving[t])
  BY <1>1 DEF Uses
<1>4. pending[serving[t]] = None /\ \A u \in Threads \ {t} : ~Uses(u, serving[t])
  BY <1>2, <1>3 DEF Ownership, SessionIsExclusive
<1>5. serving[t] \in alloc
  BY <1>2, <1>3 DEF Ownership, AllocatedIffInUse
<1> QED
  BY <1>1, <1>2, <1>4, <1>5 DEF Uses

(* A session with an operation pending is allocated and in nobody's hand.  *)
LEMMA PendingIsInNoHand ==
  ASSUME Ownership, NEW s \in Sessions, pending[s] # None
  PROVE  s \in alloc /\ ~InHand(s)
<1>1. s \in alloc
  BY DEF Ownership, AllocatedIffInUse
<1> QED
  BY <1>1, HandlerHasTheSession DEF InHand

LEMMA DeliveryAtTheStart == MemoryIsClean /\ Init => Delivery
<1> SUFFICES ASSUME MemoryIsClean, Init PROVE Delivery
  OBVIOUS
<1>1. Uninitialised = {<< >>}
  BY DEF MemoryIsClean, Uninitialised
<1>2. \A s \in Sessions : data[s] = << >> /\ wire[s] = << >> /\ pending[s] # "write"
  BY <1>1 DEF Init, None
<1>3. \A t \in Threads : at[t] \notin HandlerSteps
  BY DEF Init, HandlerSteps
<1> QED
  BY <1>2, <1>3 DEF Delivery, Cleared, OnItsWay, Unasked, Handled

(* Every step that stays away from the handlers, the buffers and what the  *)
(* clients have on their way.                                              *)
LEMMA ElsewhereKeepsDelivery ==
  ASSUME Delivery, alloc' \subseteq alloc, UNCHANGED <<data, left, wire, asked, got>>,
         \A s \in Sessions : pending'[s] = "write" => pending[s] = "write",
         \A t \in Threads : /\ at'[t] \in HandlerSteps <=> at[t] \in HandlerSteps
                            /\ at[t] \in HandlerSteps => /\ at'[t] = at[t] /\ serving'[t] = serving[t]
                                                         /\ message'[t] = message[t]
  PROVE  Delivery'
<1>1. \A s \in Sessions : InHand(s)' <=> InHand(s)
  BY DEF InHand
<1>2. ASSUME NEW s \in Sessions PROVE (Cleared(s) /\ OnItsWay(s) /\ Unasked(s))'
  <2>1. Cleared(s) /\ OnItsWay(s) /\ Unasked(s)
    BY DEF Delivery
  <2> QED
    BY <1>1, <2>1 DEF Cleared, OnItsWay, Unasked
<1>3. ASSUME NEW t \in Threads PROVE Handled(t)'
  <2>1. Handled(t)
    BY DEF Delivery
  <2> QED
    BY <2>1 DEF Handled
<1> QED
  BY <1>2, <1>3 DEF Delivery

(* The completions that bring no data.                                     *)
LEMMA OtherTakesKeepDelivery ==
  ASSUME Typed, Delivery, NEW t \in Threads, NEW s \in Sessions, NEW op, NEW to, to \notin HandlerSteps,
         Take(t, s, op, to), UNCHANGED <<data, wire, asked, got>>
  PROVE  Delivery'
<1>1. /\ at[t] = "idle" /\ at' = [at EXCEPT ![t] = to]
      /\ pending' = [pending EXCEPT ![s] = None] /\ serving' = [serving EXCEPT ![t] = s]
      /\ UNCHANGED <<alloc, message, left>>
  BY DEF Take, Goto
<1>2. \A u \in Threads : at'[u] \in HandlerSteps <=> at[u] \in HandlerSteps
  BY <1>1 DEF Typed, TypeOK, HandlerSteps
<1>3. \A u \in Threads : at[u] \in HandlerSteps => at'[u] = at[u] /\ serving'[u] = serving[u]
  BY <1>1 DEF Typed, TypeOK, HandlerSteps
<1>4. \A x \in Sessions : pending'[x] = "write" => pending[x] = "write"
  BY <1>1 DEF Typed, TypeOK, None
<1> QED
  BY <1>1, <1>2, <1>3, <1>4, ElsewhereKeepsDelivery

(* A new connection starts with nothing asked, sent or got.                *)
LEMMA TakeAcceptKeepsDelivery ==
  ASSUME Typed, Ownership, Delivery, NEW t \in Threads, NEW s \in Sessions, TakeAccept(t, s)
  PROVE  Delivery'
<1>1. /\ at[t] = "idle" /\ at' = [at EXCEPT ![t] = "start"]
      /\ pending[s] = "accept" /\ pending' = [pending EXCEPT ![s] = None]
      /\ serving' = [serving EXCEPT ![t] = s]
      /\ wire' = [wire EXCEPT ![s] = << >>]
      /\ asked' = [asked EXCEPT ![s] = None]
      /\ got' = [got EXCEPT ![s] = << >>]
      /\ UNCHANGED <<alloc, message, left, data>>
  BY DEF TakeAccept, Take, Goto
<1>2. ~InHand(s)
  BY <1>1, PendingIsInNoHand DEF None
<1>3. \A u \in Threads : /\ at'[u] \in HandlerSteps <=> at[u] \in HandlerSteps
                         /\ at[u] \in HandlerSteps => at'[u] = at[u] /\ serving'[u] = serving[u]
  BY <1>1 DEF Typed, TypeOK, HandlerSteps
<1>4. \A x \in Sessions : InHand(x)' <=> InHand(x)
  BY <1>3 DEF InHand
<1>5. ASSUME NEW x \in Sessions PROVE (Cleared(x) /\ OnItsWay(x) /\ Unasked(x))'
  <2>1. Cleared(x) /\ OnItsWay(x) /\ Unasked(x)
    BY DEF Delivery
  <2>2. CASE x = s
    <3>1. wire'[x] = << >> /\ pending'[x] # "write"
      BY <1>1, <2>2 DEF Typed, TypeOK, None
    <3> QED
      BY <1>1, <1>4, <2>1, <3>1 DEF Cleared, OnItsWay, Unasked
  <2>3. CASE x # s
    <3>1. /\ wire'[x] = wire[x] /\ asked'[x] = asked[x] /\ got'[x] = got[x]
          /\ pending'[x] = pending[x]
      BY <1>1, <2>3 DEF Typed, TypeOK
    <3> QED
      BY <1>1, <1>4, <2>1, <3>1 DEF Cleared, OnItsWay, Unasked
  <2> QED
    BY <2>2, <2>3
<1>6. ASSUME NEW u \in Threads, at'[u] \in HandlerSteps PROVE Handled(u)'
  <2>1. Handled(u) /\ at[u] \in HandlerSteps /\ at'[u] = at[u] /\ serving'[u] = serving[u]
    BY <1>3, <1>6 DEF Delivery
  <2>2. serving[u] \in Sessions /\ serving[u] # s
    BY <1>2, <2>1, HandlerHasTheSession DEF InHand
  <2>3. /\ wire'[serving[u]] = wire[serving[u]] /\ asked'[serving[u]] = asked[serving[u]]
        /\ got'[serving[u]] = got[serving[u]]
    BY <1>1, <2>2 DEF Typed, TypeOK
  <2> QED
    BY <1>1, <2>1, <2>3 DEF Handled
<1>7. \A u \in Threads : Handled(u)'
  BY <1>6 DEF Handled
<1> QED
  BY <1>5, <1>7 DEF Delivery

(* A request in one piece is read as a whole, over an empty buffer.        *)
LEMMA ReadTakesTheWhole ==
  ASSUME ComesInOnePiece, NEW r \in Requests, NEW n \in 1 .. Len(Whole(r))
  PROVE  /\ SubSeq(Whole(r), 1, n) \o SubSeq(<< >>, n + 1, Len(<< >>)) = Whole(r)
         /\ SubSeq(Whole(r), n + 1, Len(Whole(r))) = << >>
<1> DEFINE whole == Whole(r)
<1>1. whole \in Seq(Pieces)
  BY RequestsAreTyped
<1>2. whole = [k \in 1 .. 1 |-> <<r, k>>]
  BY DEF Whole, ComesInOnePiece
<1>3. DOMAIN whole = 1 .. Len(whole) /\ Len(whole) \in Nat
  BY <1>1
<1>4. Len(whole) = 1
  BY <1>2, <1>3
<1> HIDE DEF whole
<1>5. SubSeq(whole, 1, 1) = whole /\ SubSeq(whole, 2, 1) = << >>
  BY <1>1, <1>4
<1>6. SubSeq(<< >>, 2, 0) = << >> /\ whole \o << >> = whole /\ Len(<< >>) = 0
  BY <1>1
<1>7. n = 1
  BY <1>4 DEF whole
<1> QED
  BY <1>4, <1>5, <1>6, <1>7 DEF whole

LEMMA TakeReadKeepsDelivery ==
  ASSUME ComesInOnePiece, Typed, Ownership, Delivery,
         NEW t \in Threads, NEW s \in Sessions, TakeRead(t, s)
  PROVE  Delivery'
<1>1. /\ at[t] = "idle" /\ at' = [at EXCEPT ![t] = "parse"]
      /\ pending[s] = "read" /\ pending' = [pending EXCEPT ![s] = None]
      /\ serving' = [serving EXCEPT ![t] = s]
      /\ UNCHANGED <<alloc, message, left, asked, got>>
  BY DEF TakeRead, Take, Goto
<1>2. PICK n \in 1 .. Len(wire[s]) :
        /\ data' = [data EXCEPT ![s] = SubSeq(wire[s], 1, n) \o SubSeq(data[s], n + 1, Len(data[s]))]
        /\ wire' = [wire EXCEPT ![s] = SubSeq(wire[s], n + 1, Len(wire[s]))]
  BY DEF TakeRead
<1>3. s \in alloc /\ ~InHand(s)
  BY <1>1, PendingIsInNoHand DEF None
<1>4. Cleared(s) /\ OnItsWay(s)
  BY DEF Delivery
<1>5. data[s] = << >>
  BY <1>3, <1>4 DEF Cleared
<1>6. wire[s] # << >>
  BY <1>2
<1>7. asked[s] \in Requests /\ wire[s] = Whole(asked[s]) /\ got[s] = << >>
  BY <1>4, <1>6 DEF OnItsWay
<1>8. data'[s] = Whole(asked[s]) /\ wire'[s] = << >>
  BY <1>2, <1>5, <1>7, ReadTakesTheWhole DEF Typed, TypeOK
<1>9. \A x \in Sessions : x # s => /\ data'[x] = data[x] /\ wire'[x] = wire[x]
                                   /\ pending'[x] = pending[x]
  BY <1>1, <1>2 DEF Typed, TypeOK
<1>10. /\ at'[t] = "parse" /\ serving'[t] = s /\ at[t] \notin HandlerSteps
       /\ \A u \in Threads \ {t} : at'[u] = at[u] /\ serving'[u] = serving[u]
  BY <1>1 DEF Typed, TypeOK, HandlerSteps
<1>11. InHand(s)' /\ \A x \in Sessions : x # s => (InHand(x)' <=> InHand(x))
  BY <1>10 DEF InHand, HandlerSteps
<1>12. pending'[s] # "write"
  BY <1>1 DEF Typed, TypeOK, None
<1>13. ASSUME NEW x \in Sessions PROVE (Cleared(x) /\ OnItsWay(x) /\ Unasked(x))'
  <2>1. Cleared(x) /\ OnItsWay(x) /\ Unasked(x)
    BY DEF Delivery
  <2> QED
    BY <1>1, <1>8, <1>9, <1>11, <1>12, <2>1 DEF Cleared, OnItsWay, Unasked
<1>14. ASSUME NEW u \in Threads, at'[u] \in HandlerSteps PROVE Handled(u)'
  <2>1. CASE u = t
    BY <1>1, <1>7, <1>8, <1>10, <2>1 DEF Handled
  <2>2. CASE u # t
    <3>1. Handled(u) /\ at[u] \in HandlerSteps /\ at'[u] = at[u] /\ serving'[u] = serving[u]
      BY <1>10, <1>14, <2>2 DEF Delivery
    <3>2. serving[u] \in Sessions /\ serving[u] # s
      BY <1>3, <3>1, HandlerHasTheSession DEF InHand
    <3> QED
      BY <1>1, <1>9, <3>1, <3>2 DEF Handled
  <2> QED
    BY <2>1, <2>2
<1>15. \A u \in Threads : Handled(u)'
  BY <1>14 DEF Handled
<1> QED
  BY <1>13, <1>15 DEF Delivery
(* The session that accepts next was not allocated, and its buffer holds   *)
(* what new memory holds.                                                  *)
LEMMA StartAcceptKeepsDelivery ==
  ASSUME MemoryIsClean, Typed, Ownership, Delivery, NEW t \in Threads, StartAccept(t)
  PROVE  Delivery'
<1>1. PICK s \in Sessions \ alloc, d \in Uninitialised :
        /\ alloc' = alloc \union {s} /\ pending' = [pending EXCEPT ![s] = "accept"]
        /\ data' = [data EXCEPT ![s] = d]
  BY DEF StartAccept, Arm
<1>2. /\ at[t] = "accept" /\ at' = [at EXCEPT ![t] = "idle"]
      /\ UNCHANGED <<serving, message, left, wire, asked, got>>
  BY DEF StartAccept, Goto, client
<1>3. d = << >>
  BY DEF MemoryIsClean, Uninitialised
<1>4. \A u \in Threads : /\ at'[u] \in HandlerSteps <=> at[u] \in HandlerSteps
                         /\ at[u] \in HandlerSteps => at'[u] = at[u]
  BY <1>2 DEF Typed, TypeOK, HandlerSteps
<1>5. \A x \in Sessions : InHand(x)' <=> InHand(x)
  BY <1>2, <1>4 DEF InHand
<1>6. /\ data'[s] = << >> /\ pending'[s] = "accept"
      /\ \A x \in Sessions : x # s => data'[x] = data[x] /\ pending'[x] = pending[x]
  BY <1>1, <1>3 DEF Typed, TypeOK
<1>7. ASSUME NEW x \in Sessions PROVE (Cleared(x) /\ OnItsWay(x) /\ Unasked(x))'
  <2>1. Cleared(x) /\ OnItsWay(x) /\ Unasked(x)
    BY DEF Delivery
  <2> QED
    BY <1>1, <1>2, <1>5, <1>6, <2>1 DEF Cleared, OnItsWay, Unasked
<1>8. ASSUME NEW u \in Threads, at'[u] \in HandlerSteps PROVE Handled(u)'
  <2>1. Handled(u) /\ at[u] \in HandlerSteps /\ at'[u] = at[u]
    BY <1>4, <1>8 DEF Delivery
  <2>2. serving[u] \in Sessions /\ serving[u] # s
    BY <2>1, HandlerHasTheSession
  <2> QED
    BY <1>2, <1>6, <2>1, <2>2 DEF Handled
<1>9. \A u \in Threads : Handled(u)'
  BY <1>8 DEF Handled
<1> QED
  BY <1>7, <1>9 DEF Delivery

(* A step from parse to handle, where the request is copied, and on.       *)
LEMMA HandlerKeepsDelivery ==
  ASSUME Typed, Delivery, NEW t \in Threads, Parse(t) \/ Handle(t)
  PROVE  Delivery'
<1>1. /\ at[t] \in HandlerSteps
      /\ \/ /\ at[t] = "parse" /\ at' = [at EXCEPT ![t] = "handle"]
            /\ message' = [message EXCEPT ![t] = data[serving[t]]]
         \/ /\ at[t] = "handle" /\ at' = [at EXCEPT ![t] = "respond"]
            /\ message' = message
      /\ UNCHANGED <<alloc, pending, data, left, serving, wire, asked, got>>
  BY DEF Parse, Handle, Goto, HandlerSteps, session, client
<1>2. /\ at'[t] \in HandlerSteps
      /\ \A u \in Threads : u # t => at'[u] = at[u] /\ message'[u] = message[u]
  BY <1>1 DEF Typed, TypeOK, HandlerSteps
<1>3. \A x \in Sessions : InHand(x)' <=> InHand(x)
  BY <1>1, <1>2 DEF InHand
<1>4. ASSUME NEW x \in Sessions PROVE (Cleared(x) /\ OnItsWay(x) /\ Unasked(x))'
  <2>1. Cleared(x) /\ OnItsWay(x) /\ Unasked(x)
    BY DEF Delivery
  <2> QED
    BY <1>1, <1>3, <2>1 DEF Cleared, OnItsWay, Unasked
<1>5. ASSUME NEW u \in Threads PROVE Handled(u)'
  <2>1. Handled(u)
    BY DEF Delivery
  <2>2. CASE u # t
    BY <1>1, <1>2, <2>1, <2>2 DEF Handled
  <2>3. CASE u = t
    <3>1. /\ asked[serving[t]] \in Requests /\ data[serving[t]] = Whole(asked[serving[t]])
          /\ wire[serving[t]] = << >> /\ got[serving[t]] = << >>
          /\ at[t] # "parse" => message[t] = Whole(asked[serving[t]])
      BY <1>1, <2>1, <2>3 DEF Handled
    <3>2. message'[t] = Whole(asked[serving[t]])
      BY <1>1, <3>1 DEF Typed, TypeOK
    <3> QED
      BY <1>1, <2>3, <3>1, <3>2 DEF Handled
  <2> QED
    BY <2>2, <2>3
<1> QED
  BY <1>4, <1>5 DEF Delivery

(* The answer goes to a client that has asked, and the buffer is cleared.  *)
LEMMA RespondKeepsDelivery ==
  ASSUME Typed, Ownership, Delivery, NEW t \in Threads, Respond(t)
  PROVE  Delivery'
<1> DEFINE s == serving[t]
<1>1. /\ at[t] = "respond" /\ at' = [at EXCEPT ![t] = "leave"]
      /\ data' = [data EXCEPT ![s] = << >>]
      /\ left' = [left EXCEPT ![s] = Sends(message[t]) - 1]
      /\ pending' = [pending EXCEPT ![s] = "write"]
      /\ got' = IF conn[s] = "open" THEN [got EXCEPT ![s] = Append(got[s], message[t])] ELSE got
      /\ UNCHANGED <<alloc, serving, message, wire, asked>>
  BY DEF Respond, Goto, Arm, Receives
<1>2. /\ at[t] \in HandlerSteps /\ at'[t] \notin HandlerSteps
      /\ \A u \in Threads : u # t => at'[u] = at[u]
  BY <1>1 DEF Typed, TypeOK, HandlerSteps
<1>3. s \in Sessions /\ \A u \in Threads : u # t /\ at[u] \in HandlerSteps => serving[u] # s
  BY <1>2, HandlerHasTheSession
<1>4. asked[s] \in Requests /\ wire[s] = << >>
  BY <1>2 DEF Delivery, Handled
<1>5. asked[s] # None
  BY <1>4, ConstantsAssumption
<1> HIDE DEF s
<1>6. /\ data'[s] = << >>
      /\ \A x \in Sessions : x # s => /\ data'[x] = data[x] /\ left'[x] = left[x]
                                      /\ pending'[x] = pending[x] /\ got'[x] = got[x]
  BY <1>1, <1>3 DEF Typed, TypeOK
<1>7. \A x \in Sessions : x # s => (InHand(x)' <=> InHand(x))
  BY <1>1, <1>2 DEF InHand, s
<1>8. ASSUME NEW x \in Sessions PROVE (Cleared(x) /\ OnItsWay(x) /\ Unasked(x))'
  <2>1. Cleared(x) /\ OnItsWay(x) /\ Unasked(x)
    BY DEF Delivery
  <2> QED
    BY <1>1, <1>4, <1>5, <1>6, <1>7, <2>1 DEF Cleared, OnItsWay, Unasked
<1>9. ASSUME NEW u \in Threads, at'[u] \in HandlerSteps PROVE Handled(u)'
  <2>1. u # t /\ Handled(u) /\ at[u] \in HandlerSteps /\ at'[u] = at[u]
    BY <1>2, <1>9 DEF Delivery
  <2>2. serving[u] \in Sessions /\ serving[u] # s
    BY <1>3, <2>1, HandlerHasTheSession
  <2> QED
    BY <1>1, <1>6, <2>1, <2>2 DEF Handled
<1>10. \A u \in Threads : Handled(u)'
  BY <1>9 DEF Handled
<1> QED
  BY <1>8, <1>10 DEF Delivery

(* A send of a write finds nobody's request in between.                    *)
LEMMA TransmitKeepsDelivery ==
  ASSUME Typed, Ownership, Delivery, NEW s \in Sessions, Transmit(s)
  PROVE  Delivery'
<1>1. /\ pending[s] = "write" /\ left[s] > 0
      /\ left' = [left EXCEPT ![s] = left[s] - 1]
      /\ UNCHANGED <<alloc, pending, data, at, serving, message, wire, asked>>
  BY DEF Transmit, thread
<1>2. \A x \in Sessions : x # s => left'[x] = left[x] /\ got'[x] = got[x]
  BY <1>1 DEF Transmit, Receives, Typed, TypeOK
<1>3. wire[s] = << >>
  <2>1. left[s] # 0
    BY <1>1
  <2> QED
    BY <1>1, <2>1 DEF Delivery, OnItsWay
<1>4. ~InHand(s)
  BY <1>1, PendingIsInNoHand DEF None
<1>5. \A x \in Sessions : InHand(x)' <=> InHand(x)
  BY <1>1 DEF InHand
<1>6. ASSUME NEW x \in Sessions PROVE (Cleared(x) /\ OnItsWay(x) /\ Unasked(x))'
  <2>1. Cleared(x) /\ OnItsWay(x) /\ Unasked(x)
    BY DEF Delivery
  <2> QED
    BY <1>1, <1>2, <1>3, <1>5, <2>1 DEF Cleared, OnItsWay, Unasked
<1>7. ASSUME NEW u \in Threads, at'[u] \in HandlerSteps PROVE Handled(u)'
  <2>1. Handled(u) /\ at[u] \in HandlerSteps
    BY <1>1, <1>7 DEF Delivery
  <2>2. serving[u] \in Sessions /\ serving[u] # s
    BY <1>4, <2>1, HandlerHasTheSession DEF InHand
  <2> QED
    BY <1>1, <1>2, <2>1, <2>2 DEF Handled
<1>8. \A u \in Threads : Handled(u)'
  BY <1>7 DEF Handled
<1> QED
  BY <1>6, <1>8 DEF Delivery

(* A client asks when nothing of it is on its way or in a handler.         *)
LEMMA SendKeepsDelivery ==
  ASSUME Typed, Ownership, Delivery, NEW s \in Sessions, NEW r \in Requests, Send(s, r)
  PROVE  Delivery'
<1>1. /\ asked[s] = None \/ Answered(s)
      /\ asked' = [asked EXCEPT ![s] = r]
      /\ wire' = [wire EXCEPT ![s] = wire[s] \o Whole(r)]
      /\ got' = [got EXCEPT ![s] = << >>]
      /\ UNCHANGED <<alloc, pending, data, left, at, serving, message>>
  BY DEF Send, session, thread
<1>2. OnItsWay(s) /\ Unasked(s) /\ \A u \in Threads : Handled(u)
  BY DEF Delivery
<1>3. ~(asked[s] \in Requests /\ got[s] = << >>)
  BY <1>1, ConstantsAssumption DEF Answered
<1>4. wire[s] = << >> /\ ~InHand(s)
  BY <1>2, <1>3 DEF OnItsWay, Handled, InHand
<1>5. pending[s] = "write" => left[s] = 0
  BY <1>1, <1>2 DEF Unasked, Answered
<1>6. << >> \o Whole(r) = Whole(r)
  <2>1. Whole(r) \in Seq(Pieces)
    BY RequestsAreTyped
  <2> QED
    BY <2>1
<1>7. /\ asked'[s] = r /\ wire'[s] = Whole(r) /\ got'[s] = << >>
      /\ \A x \in Sessions : x # s => /\ asked'[x] = asked[x] /\ wire'[x] = wire[x]
                                      /\ got'[x] = got[x]
  BY <1>1, <1>4, <1>6 DEF Typed, TypeOK
<1>8. r # None
  BY ConstantsAssumption
<1>9. \A x \in Sessions : InHand(x)' <=> InHand(x)
  BY <1>1 DEF InHand
<1>10. ASSUME NEW x \in Sessions PROVE (Cleared(x) /\ OnItsWay(x) /\ Unasked(x))'
  <2>1. Cleared(x) /\ OnItsWay(x) /\ Unasked(x)
    BY DEF Delivery
  <2>2. CASE x = s
    BY <1>1, <1>4, <1>5, <1>7, <1>8, <1>9, <2>1, <2>2 DEF Cleared, OnItsWay, Unasked
  <2>3. CASE x # s
    BY <1>1, <1>7, <1>9, <2>1, <2>3 DEF Cleared, OnItsWay, Unasked
  <2> QED
    BY <2>2, <2>3
<1>11. ASSUME NEW u \in Threads, at'[u] \in HandlerSteps PROVE Handled(u)'
  <2>1. Handled(u) /\ at[u] \in HandlerSteps
    BY <1>1, <1>11 DEF Delivery
  <2>2. serving[u] \in Sessions /\ serving[u] # s
    BY <1>4, <2>1, HandlerHasTheSession DEF InHand
  <2> QED
    BY <1>1, <1>7, <2>1, <2>2 DEF Handled
<1>12. \A u \in Threads : Handled(u)'
  BY <1>11 DEF Handled
<1> QED
  BY <1>10, <1>12 DEF Delivery

LEMMA RunKeepsDelivery ==
  ASSUME MemoryIsClean, Typed, Ownership, Delivery, NEW t \in Threads, Run(t)
  PROVE  Delivery'
<1>1. CASE StartThrows(t) \/ HandleThrows(t)
  <2>1. UNCHANGED <<session, thread, client>>
    BY <1>1 DEF StartThrows, HandleThrows, Terminate
  <2> QED
    BY <2>1, ElsewhereKeepsDelivery DEF session, thread, client
<1>2. CASE Start(t) \/ ReadAgain(t) \/ Leave(t) \/ Delete(t)
  <2>1. /\ alloc' \subseteq alloc /\ UNCHANGED <<data, left, serving, message, wire, asked, got>>
        /\ pending' \in {pending, [pending EXCEPT ![serving[t]] = "read"]}
        /\ at[t] \notin HandlerSteps
        /\ \E to : to \notin HandlerSteps /\ at' = [at EXCEPT ![t] = to]
    BY <1>2 DEF Start, ReadAgain, Leave, Delete, Goto, Arm, HandlerSteps, session, client
  <2>2. \A x \in Sessions : pending'[x] = "write" => pending[x] = "write"
    BY <2>1 DEF Typed, TypeOK
  <2>3. \A u \in Threads : /\ at'[u] \in HandlerSteps <=> at[u] \in HandlerSteps
                           /\ at[u] \in HandlerSteps => at'[u] = at[u]
    BY <2>1 DEF Typed, TypeOK
  <2> QED
    BY <2>1, <2>2, <2>3, ElsewhereKeepsDelivery
<1> QED
  BY <1>1, <1>2, StartAcceptKeepsDelivery, HandlerKeepsDelivery, RespondKeepsDelivery DEF Run

LEMMA StepKeepsDelivery ==
  ASSUME ComesInOnePiece, MemoryIsClean, Typed, Ownership, Delivery, [Next]_vars
  PROVE  Delivery'
<1>1. CASE UNCHANGED <<session, thread, client>>
  BY <1>1, ElsewhereKeepsDelivery DEF session, thread, client
<1>2. ASSUME NEW t \in Threads, MakeThread(t) PROVE Delivery'
  <2>1. /\ at[t] = "new" /\ at' = [at EXCEPT ![t] = "idle"]
        /\ UNCHANGED <<session, serving, message, client>>
    BY <1>2 DEF MakeThread, Goto
  <2>2. \A u \in Threads : /\ at'[u] \in HandlerSteps <=> at[u] \in HandlerSteps
                           /\ at[u] \in HandlerSteps => at'[u] = at[u]
    BY <2>1 DEF Typed, TypeOK, HandlerSteps
  <2> QED
    BY <2>1, <2>2, ElsewhereKeepsDelivery DEF session, client
<1>3. ASSUME NEW t \in Threads, NEW s \in Sessions, TakeUp(t, s) PROVE Delivery'
  <2>1. CASE TakeAcceptError(t, s) \/ TakeReadError(t, s) \/ TakeWrite(t, s) \/ TakeWriteError(t, s)
    <3>1. /\ \E op, to : to \notin HandlerSteps /\ Take(t, s, op, to)
          /\ UNCHANGED <<data, client>>
      BY <2>1 DEF TakeAcceptError, TakeReadError, TakeWrite, TakeWriteError, HandlerSteps
    <3> QED
      BY <3>1, OtherTakesKeepDelivery DEF client
  <2> QED
    BY <1>3, <2>1, TakeAcceptKeepsDelivery, TakeReadKeepsDelivery DEF TakeUp
<1>4. ASSUME NEW s \in Sessions, Close(s) PROVE Delivery'
  <2>1. UNCHANGED <<session, thread, wire, asked, got>>
    BY <1>4 DEF Close
  <2> QED
    BY <2>1, ElsewhereKeepsDelivery DEF session, thread
<1>5. ASSUME MakeThreadFails \/ JoinNoThread \/ UNCHANGED vars
      PROVE  UNCHANGED <<session, thread, client>>
  BY <1>5 DEF MakeThreadFails, JoinNoThread, Terminate, vars
<1> QED
  BY <1>1, <1>2, <1>3, <1>4, <1>5, RunKeepsDelivery, TransmitKeepsDelivery, SendKeepsDelivery DEF Next

(* A session's client, its buffer and its handler agree on one request.    *)
THEOREM Delivered ==
  ASSUME ComesInOnePiece, MemoryIsClean
  PROVE  Spec => [](Typed /\ Ownership /\ Delivery)
<1>1. Init => Typed /\ Ownership /\ Delivery
  BY TypesOfTheStart, OwnershipOfTheStart, DeliveryAtTheStart
<1>2. Typed /\ Ownership /\ Delivery /\ [Next]_vars => (Typed /\ Ownership /\ Delivery)'
  BY TypesAreKept, StepKeepsOwnership, StepKeepsDelivery
<1> QED
  BY <1>1, <1>2, PTL DEF Spec

(* RequestIsWhole: a handler gets what the client of its session asked     *)
(* last, for any pool, any clients, resets and failed accepts, as long as  *)
(* a request comes in one piece and new memory is clean.                   *)
THEOREM ServerRequestIsWhole ==
  ASSUME ComesInOnePiece, MemoryIsClean
  PROVE  Spec => []RequestIsWhole
<1>1. Delivery => RequestIsWhole
  BY DEF Delivery, Handled, RequestIsWhole, HandlerSteps
<1> QED
  BY <1>1, Delivered, PTL
-----------------------------------------------------------------------------
(* What a client receives, when every answer goes out in a single send.    *)
LeavesInOnePiece == \A r \in Requests : Chunks[r] = 1

NothingLeft == \A s \in Sessions : left[s] = 0

LEMMA OneSend == LeavesInOnePiece => \A m : Sends(m) - 1 = 0
<1> SUFFICES ASSUME LeavesInOnePiece, NEW m PROVE Sends(m) - 1 = 0
  OBVIOUS
<1> DEFINE whole == {r \in Requests : m = Whole(r)}
<1>1. CASE whole = {}
  BY <1>1 DEF Sends
<1>2. CASE whole # {}
  <2>1. (CHOOSE r \in whole : TRUE) \in Requests
    BY <1>2
  <2>2. Sends(m) = 1
    BY <1>2, <2>1 DEF Sends, LeavesInOnePiece
  <2> QED
    BY <2>2
<1> QED
  BY <1>1, <1>2

(* Only a response, and the beginning of something new, changes what a     *)
(* client has got.                                                         *)
LEMMA StepKeepsAnswers ==
  ASSUME LeavesInOnePiece, Typed, Ownership, Delivery, NothingLeft, ResponseIsIntact, [Next]_vars
  PROVE  (NothingLeft /\ ResponseIsIntact)'
<1>1. CASE UNCHANGED <<left, asked, got>>
  BY <1>1 DEF NothingLeft, ResponseIsIntact
<1>2. ASSUME NEW s \in Sessions, UNCHANGED left, got' = [got EXCEPT ![s] = << >>],
             \E r : asked' = [asked EXCEPT ![s] = r]
      PROVE  (NothingLeft /\ ResponseIsIntact)'
  <2>1. /\ DOMAIN got'[s] = {}
        /\ \A x \in Sessions : x # s => got'[x] = got[x] /\ asked'[x] = asked[x]
    BY <1>2 DEF Typed, TypeOK
  <2> QED
    BY <1>2, <2>1 DEF NothingLeft, ResponseIsIntact
<1>3. ASSUME NEW t \in Threads, Respond(t) PROVE (NothingLeft /\ ResponseIsIntact)'
  <2> DEFINE s == serving[t]
  <2>1. /\ at[t] = "respond" /\ left' = [left EXCEPT ![s] = Sends(message[t]) - 1]
        /\ got' = IF conn[s] = "open" THEN [got EXCEPT ![s] = Append(got[s], message[t])] ELSE got
        /\ asked' = asked
    BY <1>3 DEF Respond, Goto, Receives
  <2>2. at[t] \in HandlerSteps /\ at[t] # "parse"
    BY <2>1 DEF HandlerSteps
  <2>3. s \in Sessions /\ got[s] = << >> /\ message[t] = Whole(asked[s])
    BY <2>2, HandlerHasTheSession DEF Delivery, Handled
  <2> HIDE DEF s
  <2>4. NothingLeft'
    BY <2>1, <2>3, OneSend DEF NothingLeft, Typed, TypeOK
  <2>5. \A k \in DOMAIN Append(<< >>, message[t]) : Append(<< >>, message[t])[k] = message[t]
    OBVIOUS
  <2>6. \A k \in DOMAIN got'[s] : got'[s][k] = Whole(asked[s])
    BY <2>1, <2>3, <2>5 DEF Typed, TypeOK
  <2>7. \A x \in Sessions : x # s => got'[x] = got[x]
    BY <2>1, <2>3 DEF Typed, TypeOK
  <2> QED
    BY <2>1, <2>4, <2>6, <2>7 DEF ResponseIsIntact
<1>4. ASSUME NEW s \in Sessions PROVE ~Transmit(s)
  BY DEF NothingLeft, Transmit
<1>5. ASSUME NEW t \in Threads, Run(t) PROVE Respond(t) \/ UNCHANGED <<left, asked, got>>
  BY <1>5 DEF Run, Start, StartThrows, StartAccept, Parse, Handle, HandleThrows, Leave, ReadAgain,
              Delete, Terminate, session, client
<1>6. ASSUME NEW t \in Threads, NEW s \in Sessions, TakeUp(t, s)
      PROVE  TakeAccept(t, s) \/ UNCHANGED <<left, asked, got>>
  BY <1>6 DEF TakeUp, Take, TakeAcceptError, TakeRead, TakeReadError, TakeWrite, TakeWriteError, client
<1>7. ASSUME NEW t \in Threads, NEW s \in Sessions, TakeAccept(t, s)
      PROVE  (NothingLeft /\ ResponseIsIntact)'
  BY <1>2, <1>7 DEF TakeAccept, Take
<1>8. ASSUME NEW s \in Sessions, NEW r \in Requests, Send(s, r)
      PROVE  (NothingLeft /\ ResponseIsIntact)'
  BY <1>2, <1>8 DEF Send, session
<1>9. ASSUME \/ MakeThreadFails \/ JoinNoThread \/ UNCHANGED vars
             \/ \E t \in Threads : MakeThread(t)
             \/ \E s \in Sessions : Close(s)
      PROVE  UNCHANGED <<left, asked, got>>
  BY <1>9 DEF MakeThreadFails, JoinNoThread, MakeThread, Close, Terminate, vars, session, client
<1> QED
  BY <1>1, <1>3, <1>4, <1>5, <1>6, <1>7, <1>8, <1>9 DEF Next

(* ResponseIsIntact: a client receives the answer to what it asked last    *)
(* and nothing else, when besides every answer goes out in a single send.  *)
THEOREM ServerResponseIsIntact ==
  ASSUME ComesInOnePiece, MemoryIsClean, LeavesInOnePiece
  PROVE  Spec => []ResponseIsIntact
<1>1. Init => NothingLeft /\ ResponseIsIntact
  BY DEF Init, NothingLeft, ResponseIsIntact
<1>2. Typed /\ Ownership /\ Delivery /\ (NothingLeft /\ ResponseIsIntact) /\ [Next]_vars
        => (NothingLeft /\ ResponseIsIntact)'
  BY StepKeepsAnswers
<1> QED
  BY <1>1, <1>2, Delivered, PTL DEF Spec
=============================================================================
