----------------------------- MODULE JsonStore -----------------------------
(***************************************************************************)
(* What the API promises its clients, with no lock, no map and no files:   *)
(* collections of JSON entities, each request taking effect at one instant *)
(* between its arrival and its answer.  A new entity gets an id its        *)
(* collection does not use; a list names exactly the entities there are;   *)
(* a process that dies may damage the entities being written, no other.    *)
(***************************************************************************)
EXTENDS Integers, Sequences

CONSTANTS Clients, Requests, Torn, Int32

VARIABLES
  items,    \* entities: the function from path to body
  phase,    \* "idle", "pending", then "write" or "format" when it took effect
  request, answer,
  ticket,   \* what it wrote (a path) or listed (the ids) when it took effect
  up        \* whether the service is running

vars == <<items, phase, request, answer, ticket, up>>

Told(status, ids, body) == [status |-> status, ids |-> ids, body |-> body]
None == [method |-> "NONE", path |-> <<>>, body |-> ""]
Owner(p) == SubSeq(p, 1, Len(p) - 1)
Number(p) == p[Len(p)]
IdsIn(collection) == {Number(p) : p \in {q \in DOMAIN items : q # <<>> /\ Owner(q) = collection}}

Init ==
  /\ items = [p \in {} |-> ""]
  /\ phase = [c \in Clients |-> "idle"]
  /\ request = [c \in Clients |-> None]
  /\ answer = [c \in Clients |-> Told(0, {}, "")]
  /\ ticket = [c \in Clients |-> <<>>]
  /\ up = TRUE

Ask(c, r) ==
  /\ up /\ phase[c] = "idle" /\ phase' = [phase EXCEPT ![c] = "pending"]
  /\ request' = [request EXCEPT ![c] = r]
  /\ answer' = [answer EXCEPT ![c] = Told(0, {}, "")]
  /\ UNCHANGED <<items, ticket, up>>

Tell(c, a) ==
  /\ phase' = [phase EXCEPT ![c] = "idle"]
  /\ answer' = [answer EXCEPT ![c] = a]
  /\ ticket' = [ticket EXCEPT ![c] = <<>>]
  /\ UNCHANGED <<request, up>>

Asks(c, method) == phase[c] = "pending" /\ request[c].method = method

(* A write takes effect.                                                   *)
PutItem(c, p) ==
  /\ phase' = [phase EXCEPT ![c] = "write"]
  /\ ticket' = [ticket EXCEPT ![c] = p]
  /\ items' = [q \in DOMAIN items \union {p} |-> IF q = p THEN request[c].body ELSE items[q]]
  /\ UNCHANGED <<request, answer, up>>

Create(c) ==
  /\ Asks(c, "POST")
  /\ \E id \in Int32 \ IdsIn(request[c].path) : PutItem(c, Append(request[c].path, id))

Update(c) == Asks(c, "PUT") /\ PutItem(c, request[c].path)

TellWritten(c) ==
  /\ phase[c] = "write"
  /\ Tell(c, IF request[c].method = "POST" THEN Told(201, {Number(ticket[c])}, "") ELSE Told(200, {}, ""))
  /\ UNCHANGED items

(* An entity is removed; removing an empty collection changes no entity.   *)
Remove(c) ==
  /\ Asks(c, "DELETE") /\ IdsIn(request[c].path) = {}
  /\ items' = [p \in DOMAIN items \ {request[c].path} |-> items[p]]
  /\ Tell(c, Told(200, {}, ""))

Fetch(c) ==
  /\ Asks(c, "GET") /\ request[c].path \in DOMAIN items
  /\ Tell(c, Told(200, {}, items[request[c].path]))
  /\ UNCHANGED items

List(c) ==
  /\ Asks(c, "GET") /\ phase' = [phase EXCEPT ![c] = "format"]
  /\ ticket' = [ticket EXCEPT ![c] = IdsIn(request[c].path)]
  /\ UNCHANGED <<items, request, answer, up>>

TellListed(c) == phase[c] = "format" /\ Tell(c, Told(200, ticket[c], "")) /\ UNCHANGED items

(* A request may be refused, and then it changes nothing; what there is    *)
(* cannot be said not to be found.                                         *)
Refuse(c) ==
  /\ phase[c] = "pending"
  /\ \/ request[c].path \notin DOMAIN items /\ IdsIn(request[c].path) = {} /\ Tell(c, Told(404, {}, ""))
     \/ request[c].method # "GET" /\ \E status \in {400, 500} : Tell(c, Told(status, {}, ""))
  /\ UNCHANGED items

Die ==
  /\ up /\ up' = FALSE
  /\ phase' = [c \in Clients |-> "idle"]
  /\ request' = [c \in Clients |-> IF phase[c] = "idle" THEN request[c] ELSE None]
  /\ ticket' = [c \in Clients |-> <<>>]
  /\ items' = [p \in DOMAIN items |-> IF \E c \in Clients : phase[c] = "write" /\ ticket[c] = p
                                        THEN Torn ELSE items[p]]
  /\ UNCHANGED answer

Next ==
  \/ \E c \in Clients :
       \/ \E r \in Requests : Ask(c, r)
       \/ Create(c) \/ Update(c) \/ TellWritten(c) \/ Remove(c) \/ Fetch(c)
       \/ List(c) \/ TellListed(c) \/ Refuse(c)
  \/ Die

Spec == Init /\ [][Next]_vars
=============================================================================
