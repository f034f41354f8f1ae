---------------------------- MODULE MemeRegistry ---------------------------
(***************************************************************************)
(* What the meme gallery promises its clients, with no lock, no SQL and no *)
(* critical sections: each request takes effect at one instant between its *)
(* arrival and its answer.  Creating a meme is idempotent and gives it the *)
(* next number; a view or a list answers from the gallery of that instant; *)
(* a request may be refused, or lost with the process, and a create that   *)
(* was lost or refused may have taken effect or not, but never half.       *)
(***************************************************************************)
EXTENDS Integers

CONSTANTS Clients, Requests,
          Normal(_)     \* the form in which the gallery keeps a meme

VARIABLES gallery,      \* the memes by number: a function on 1 .. n
          phase,        \* "idle", "pending" or, for a create, "stored"
          request,      \* what each client asked for
          answer        \* what it was told

vars == <<gallery, phase, request, answer>>

Told(status, ids, memes) == [status |-> status, ids |-> ids, memes |-> memes]
Nothing == Told(0, {}, {})
Refusals == {Told(s, {}, {}) : s \in {400, 404, 500}}

Init ==
  /\ gallery = [i \in {} |-> 0]
  /\ phase = [c \in Clients |-> "idle"]
  /\ request = [c \in Clients |-> [op |-> "unknown"]]
  /\ answer = [c \in Clients |-> Nothing]

Ask(c, r) ==
  /\ phase[c] = "idle" /\ phase' = [phase EXCEPT ![c] = "pending"]
  /\ request' = [request EXCEPT ![c] = r]
  /\ answer' = [answer EXCEPT ![c] = Nothing]
  /\ UNCHANGED gallery

Tell(c, a) ==
  /\ phase' = [phase EXCEPT ![c] = "idle"]
  /\ answer' = [answer EXCEPT ![c] = a]
  /\ UNCHANGED <<gallery, request>>

Numbered(m) == {i \in DOMAIN gallery : gallery[i] = m}

(* The number after the last.                                              *)
NextNumber == CHOOSE n \in {1} \union {i + 1 : i \in DOMAIN gallery} : n \notin DOMAIN gallery

(* A create takes effect: the meme is there already, or gets the next     *)
(* number.                                                                 *)
Store(c) ==
  /\ phase[c] = "pending" /\ request[c].op = "create"
  /\ phase' = [phase EXCEPT ![c] = "stored"]
  /\ LET m == Normal(request[c].meme) IN
       IF Numbered(m) # {}
         THEN UNCHANGED gallery
         ELSE gallery' = [i \in DOMAIN gallery \union {NextNumber} |->
                            IF i = NextNumber THEN m ELSE gallery[i]]
  /\ UNCHANGED <<request, answer>>

TellCreated(c) ==
  /\ phase[c] = "stored"
  /\ \E i \in Numbered(Normal(request[c].meme)) : Tell(c, Told(200, {i}, {}))

TellViewed(c) ==
  /\ phase[c] = "pending" /\ request[c].op = "view"
  /\ LET id == request[c].id IN
       IF id \in DOMAIN gallery THEN Tell(c, Told(200, {id}, {gallery[id]}))
                                ELSE Tell(c, Told(400, {}, {}))

TellListed(c) ==
  /\ phase[c] = "pending" /\ request[c].op = "list"
  /\ Tell(c, Told(200, DOMAIN gallery, {}))

TellForm(c) ==
  /\ phase[c] = "pending" /\ request[c].op = "form"
  /\ Tell(c, Told(200, {}, {}))

(* Only a view that finds no such meme and a malformed request are told    *)
(* 400; any request may be told that the server or a page failed.          *)
Refuse(c) ==
  /\ phase[c] # "idle"
  /\ \E a \in Refusals :
       /\ a.status = 400 => request[c].op = "malformed"
       /\ Tell(c, a)

(* The process goes down and comes back with the gallery it had.           *)
Lose ==
  /\ phase' = [c \in Clients |-> "idle"]
  /\ request' = [c \in Clients |-> IF phase[c] = "idle" THEN request[c] ELSE [op |-> "unknown"]]
  /\ UNCHANGED <<gallery, answer>>

Next ==
  \/ \E c \in Clients :
       \/ \E r \in Requests : Ask(c, r)
       \/ Store(c) \/ TellCreated(c) \/ TellViewed(c) \/ TellListed(c) \/ TellForm(c) \/ Refuse(c)
  \/ Lose

Spec == Init /\ [][Next]_vars
=============================================================================
