------------------------------ MODULE Dispatch ------------------------------
(***************************************************************************)
(* From a request's text to its answer: the routes the server makes of its *)
(* configuration, the session that parses a request, finds its location    *)
(* and has a handler made for it, and the handlers without state of their  *)
(* own (static, echo, error, health).  What the API and meme handlers do   *)
(* with a request is in ApiHandler and MemeHandler: here, whether their    *)
(* configuration lets them, and that they may end the process.             *)
(***************************************************************************)
EXTENDS HttpParser, NginxConfig, FilePaths
LOCAL SE == INSTANCE SequencesExt

CONSTANTS
  Configs,    \* configurations (trees of NginxConfig) the server starts with
  Arrivals,   \* texts one read can bring
  Capacity,   \* max_length: the pieces that fill data_
  Garbage     \* what may lie between a full data_ and the next NUL

ASSUME DispatchAssumption ==
  /\ Capacity \in Nat /\ \A data \in Arrivals : Len(data) <= Capacity
  /\ << >> \in Garbage
  /\ Arrivals \subseteq Seq(STRING) /\ Garbage \subseteq Seq(STRING)
  /\ \A tree \in Configs :
       /\ tree # << >>
       /\ tree \in Seq(Seq([tokens : Seq(Seq(STRING) \ {<< >>}), child : 0..Len(tree)]))

(* Every handler but echo and error gets the block of its location.        *)
HandlerNames == {"EchoHandler", "StaticHandler", "ErrorHandler",
                 "ApiHandler", "HealthHandler", "MemeHandler"}
NeedsBlock == {"StaticHandler", "ApiHandler", "MemeHandler"}
KeepsData == {"ApiHandler", "MemeHandler"}

VARIABLES
  server,   \* "starting", "serving", "down"
  config,   \* the configuration
  routes,   \* routes_: location -> the kind of its factory, or nullptr
  data,     \* data_: the text the last read brought
  location, \* the location it was matched with
  reply     \* the answer to it

vars == <<server, config, routes, data, location, reply>>

handler_map == populateHandlerMap(config)
nullptr == "nullptr"

(* status, body, type of the body, and where the file is it was read from. *)
Reply(status, body, type, file) ==
  [status |-> status, body |-> body, type |-> type, file |-> file]
NoReply == Reply(0, << >>, "", << >>)
BadRequest == Reply(400, << >>, "", << >>)
NotFound == Reply(404, <<"404 Not Found">>, "text/plain", << >>)
Ok(body, type, file) == Reply(200, body, type, file)

Init ==
  /\ server = "starting"
  /\ config \in Configs
  /\ routes = << >> /\ data = << >> /\ location = << >>
  /\ reply = NoReply

(* mutant: any name will do. *)
createAny(name) == name[1]

(* mutant: a name is forgotten. *)
createNoHealth(name) ==
  IF Len(name) = 1 /\ name[1] \in HandlerNames \ {"HealthHandler"} THEN name[1] ELSE nullptr

createHandlerFactory(name) ==
  IF Len(name) = 1 /\ name[1] \in HandlerNames THEN name[1] ELSE nullptr

(* The constructor of Server: a factory for each location, or nullptr.     *)
StartServer ==
  /\ server = "starting"
  /\ server' = "serving"
  /\ routes' = [path \in DOMAIN handler_map |-> createHandlerFactory(handler_map[path].handler)]
  /\ UNCHANGED <<config, data, location, reply>>

(* mutant: no slash need follow. *)
MatchesAnyPrefix(target, path) == SE!IsPrefix(path, target)

(***************************************************************************)
(* match: the longest location that is the target, or that a slash follows *)
(* in it; << >> when there is none.                                        *)
(***************************************************************************)
Matches(target, path) ==
  /\ SE!IsPrefix(path, target)
  /\ Len(target) = Len(path) \/ target[Len(path) + 1] = "/"

match(target) ==
  LET found == {path \in DOMAIN routes : Matches(target, path)}
  IN  IF found = {} THEN << >>
      ELSE CHOOSE path \in found : \A other \in found : Len(other) <= Len(path)

-----------------------------------------------------------------------------
(* The constructors' look at the block b: the static and API handlers want *)
(* "root <path>" first, the meme handler three such statements.            *)
Setting(b, i, name) ==
  /\ i <= Len(config[b])
  /\ config[b][i].tokens[1] = <<name>> /\ Len(config[b][i].tokens) = 2

BlockFits(kind, b) ==
  IF kind = "MemeHandler"
  THEN /\ Len(config[b]) >= 3
       /\ Setting(b, 1, "memes_created_root")
       /\ Setting(b, 2, "images_root") /\ Setting(b, 3, "html_root")
  ELSE Setting(b, 1, "root")

Root(b) == config[b][1].tokens[2]

ContentTypes == [ext \in {"txt", "html", "htm", "jpg", "jpeg", "png", "zip"} |->
                   CASE ext = "txt" -> "text/plain"
                     [] ext \in {"html", "htm"} -> "text/html"
                     [] ext \in {"jpg", "jpeg"} -> "image/jpeg"
                     [] ext = "png" -> "image/png"
                     [] ext = "zip" -> "application/zip"]

(* getContentType of what follows the last "." of the target, which is the *)
(* whole target when it has none.                                          *)
ContentType(target) ==
  LET dots == {i \in DOMAIN target : target[i] = "."}
      ext == SubSeq(target, IF dots = {} THEN 1
                            ELSE 1 + (CHOOSE i \in dots : \A j \in dots : j <= i), Len(target))
  IN  IF Len(ext) = 1 /\ ext[1] \in DOMAIN ContentTypes THEN ContentTypes[ext[1]]
      ELSE "application/octet-stream"

Echo(req) == Ok(Serialize(req), "text/plain", << >>)

(* mutant: the location stays in the path. *)
FileOfTarget(b, path, target) == Root(b) \o target

FilePath(b, path, target) == Root(b) \o SubSeq(target, Len(path) + 1, Len(target))

(* substr(location_.length()) of a target shorter than the location.       *)
OutOfRange(kind, req, path, b) ==
  /\ kind = "StaticHandler" /\ req.method = "GET" /\ BlockFits(kind, b)
  /\ Len(req.target) < Len(path)

(* is_regular_file throws when the status of the file cannot be had.       *)
StatusThrows(kind, req, path, b) ==
  /\ kind = "StaticHandler" /\ req.method = "GET" /\ BlockFits(kind, b)
  /\ FilePath(b, path, req.target) \in NoStatus

(* A handler that keeps data, unless its block turns it down: it may throw *)
(* or call exit(1), in its constructor or in an operation, for reasons     *)
(* that are in its own module.                                             *)
MayEndProcess(kind, b) == kind \in KeepsData /\ BlockFits(kind, b)

Static(req, path, b) ==
  LET file == FilePath(b, path, req.target)
      contents == Ok(<<"contents">>, ContentType(req.target), Resolve(file))
  IN  CASE req.method = NoMethod -> BadRequest
        [] req.method # NoMethod /\ ~BlockFits("StaticHandler", b) -> NotFound
        [] req.method \notin {NoMethod, "GET"} /\ BlockFits("StaticHandler", b) -> Echo(req)
        [] OTHER -> IF Opens(file) THEN contents ELSE NotFound

Health(req) == IF req.method = "GET" THEN Ok(<<"OK">>, "text/plain", << >>) ELSE BadRequest

(* Status 1 stands for the answer of the API or meme handler's operation.  *)
Answer(kind, req, path, b) ==
  CASE kind = "ErrorHandler" -> NotFound
    [] kind = "EchoHandler" -> IF req.method = NoMethod THEN BadRequest ELSE Echo(req)
    [] kind = "HealthHandler" -> Health(req)
    [] kind = "StaticHandler" -> Static(req, path, b)
    [] OTHER -> IF req.method = NoMethod \/ ~BlockFits(kind, b) THEN BadRequest
                ELSE Reply(1, << >>, "", << >>)

-----------------------------------------------------------------------------
(* The text of a read: what stands in front of the first NUL.  When the    *)
(* read has filled data_, it goes on in the members behind.                *)
Texts(arrived) ==
  LET nul == Find(arrived, "NUL", 1)
  IN  IF nul <= Len(arrived) THEN {SubSeq(arrived, 1, nul - 1)}
      ELSE IF Len(arrived) < Capacity THEN {arrived}
      ELSE {arrived \o g : g \in Garbage}

(* mutant: Beast's verdict is not heeded. *)
RefusesNothing(text) == FALSE

(* Beast's error, bad_version excepted. *)
Refuses(text) == BeastVerdict(text) \notin {"none", "bad_version"}

(* The location a request is handled at. *)
Location(target) == IF match(target) = << >> THEN <<"/">> ELSE match(target)

(* An exception leaves HandleRead, and with it its thread's function: the  *)
(* process ends.                                                           *)
Terminate == server' = "down" /\ UNCHANGED <<location, reply>>

(***************************************************************************)
(* HandleRead, up to the start of its write.  The fields are cut out       *)
(* before Beast's verdict is looked at; routes_[location] is a null        *)
(* pointer where the handler is unknown or "/" is not configured, and so   *)
(* is the block of a location without one.                                 *)
(***************************************************************************)
HandleRead(arrived) ==
  /\ server = "serving" /\ reply = NoReply
  /\ data' = arrived
  /\ \E text \in Texts(arrived) :
       LET req == getFields(text)
           path == Location(req.target)
           kind == IF path \in DOMAIN routes THEN routes[path] ELSE nullptr
           block == handler_map[path].block
       IN  \/ req.throws /\ Terminate
           \/ /\ ~req.throws /\ Refuses(text)
              /\ location' = << >> /\ reply' = BadRequest
              /\ UNCHANGED server
           \/ /\ ~req.throws /\ ~Refuses(text)
              /\ IF kind = nullptr \/ (kind \in NeedsBlock /\ block = NoBlock)
                      \/ OutOfRange(kind, req, path, block)
                      \/ StatusThrows(kind, req, path, block)
                 THEN Terminate
                 ELSE \/ MayEndProcess(kind, block) /\ Terminate
                      \/ /\ location' = path
                         /\ reply' = Answer(kind, req, path, block)
                         /\ UNCHANGED server
  /\ UNCHANGED <<config, routes>>

(* The answer is sent, data_ is empty and the next read starts.            *)
HandleWrite ==
  /\ server = "serving" /\ reply # NoReply
  /\ data' = << >> /\ location' = << >> /\ reply' = NoReply
  /\ UNCHANGED <<server, config, routes>>

Next == StartServer \/ HandleWrite \/ \E arrived \in Arrivals : HandleRead(arrived)

Spec == Init /\ [][Next]_vars

-----------------------------------------------------------------------------
(* A request is answered at a location that has a route, every route is a  *)
(* factory the server has or nullptr, and the other types.                 *)
TypeOK ==
  /\ server \in {"starting", "serving", "down"}
  /\ config \in Configs /\ data \in Arrivals \union {<< >>}
  /\ \A path \in DOMAIN routes : routes[path] \in HandlerNames \union {nullptr}
  /\ location \in DOMAIN routes \union {<< >>}
  /\ reply.status \in {0, 1, 200, 400, 404}

(* The request line of a text, when the read left room in data_: what a    *)
(* full data_ is taken for, the bytes behind it decide.                    *)
Target == SubSeq(data, 3, Find(data, " ", 3) - 1)
HasRoom == Len(data) < Capacity

(* An echo location answers a request of version 1.1 with the request      *)
(* itself, byte for byte: known method, one blank behind the colon of      *)
(* every field and none at the end of it, no name twice (capital letters   *)
(* or not), no NUL, and room left in data_.                                *)
OneBlank(line) ==
  LET value == Find(line, ":", 1) + 2
  IN  /\ value <= Len(line) + 1 /\ line[value - 1] = " "
      /\ value <= Len(line) => line[value] \notin Blanks /\ line[Len(line)] \notin Blanks

EchoReturnsRequest ==
  LET lines == HeaderSection(data, Find(data, "\r", 1) + 2).lines
      name(i) == SubSeq(lines[i], 1, Find(lines[i], ":", 1) - 1)
  IN  (/\ location # << >> /\ routes[location] = "EchoHandler"
       /\ BeastVerdict(data) = "none" /\ data[1] \in KnownMethods /\ data[2] = " "
       /\ data[Find(data, "\r", 1) - 1] = "HTTP/1.1"
       /\ \A i \in DOMAIN lines : OneBlank(lines[i])
       /\ \A i, j \in DOMAIN lines : SameName(name(i), name(j)) => i = j
       /\ "NUL" \notin {data[i] : i \in DOMAIN data} /\ HasRoom)
      => reply.status = 200 /\ reply.body = data

(* The location that handles a request is the longest one of the           *)
(* configuration whose path components are the target's first ones, or "/" *)
(* when there is none.                                                     *)
LongestLocationWins ==
  location # << >> /\ data[1] \in KnownMethods /\ data[2] = " " /\ HasRoom =>
    LET around == {path \in DOMAIN handler_map :
                     SE!IsPrefix(Components(path), Components(Target))}
    IN  IF around = {} THEN location = <<"/">>
        ELSE /\ location \in around
             /\ \A path \in around : Len(Components(path)) <= Len(Components(location))

(* With a complete configuration (a location "/", known handlers, and the  *)
(* blocks they need) a request takes the server down only by a field with  *)
(* nothing at all behind its colon, by a file whose status cannot be had,  *)
(* or at a location that keeps data.  Refused requests never do, but for   *)
(* such a field, nor do those for the echo, error and health handlers.     *)
Complete ==
  /\ <<"/">> \in DOMAIN handler_map
  /\ \A path \in DOMAIN handler_map :
       LET entry == handler_map[path]
       IN  /\ entry.handler \in {<<name>> : name \in HandlerNames}
           /\ entry.handler[1] \in NeedsBlock => entry.block # NoBlock

EndsWithColon(text) == \E i \in DOMAIN text : LineEnds(text, i + 1) /\ text[i] = ":"

AsksForTrouble(text) ==
  LET req == getFields(text)
      path == Location(req.target)
      block == handler_map[path].block
  IN  /\ ~Refuses(text) /\ path \in DOMAIN routes
      /\ MayEndProcess(routes[path], block) \/ StatusThrows(routes[path], req, path, block)

ServesWhenComplete ==
  server = "down" =>
    ~Complete \/ \E text \in Texts(data) : EndsWithColon(text) \/ AsksForTrouble(text)

(* What a handler answers without an error has a method the server knows   *)
(* and a target, and it is a whole header section: an empty line came with *)
(* it.  Beast's bad_version is let through, so that a request whose        *)
(* version is not one, or does not end its line, need not be whole; nor    *)
(* does a read that filled data_, which what lies behind may complete.     *)
OnlyWholeRequestsAreHandled ==
  reply.status \in {1, 200} /\ HasRoom =>
    \A text \in Texts(data) :
      LET sp2 == Find(text, " ", 3)
      IN  /\ text[1] \in KnownMethods /\ text[2] = " " /\ sp2 \in 4..Len(text)
          /\ LineEnds(text, sp2 + 2) /\ text[sp2 + 1] \in {"HTTP/1.0", "HTTP/1.1"} =>
               \E i \in DOMAIN text : EndsSection(text, i)

(* A static location serves each file under the target that names it from  *)
(* the location on, as its path does from the root on; and no file outside *)
(* its root unless the target has a name ".." behind the location, which   *)
(* nothing in the server looks for.  Not so for the location "/": its      *)
(* slash is cut off the target, and the root and the rest become one name. *)
StaticServesItsRoot ==
  reply.file # << >> /\ location # <<"/">> /\ HasRoom =>
    LET root == config[handler_map[location].block][1].tokens[2]
    IN  \E n \in 0..Len(Target) :
          LET rest == SubSeq(Target, n + 1, Len(Target))
              names == Components(rest)
          IN  /\ location \o rest = Target /\ Resolve(root \o rest) = reply.file
              /\ rest # << >> => rest[1] = "/"
              /\ (\A i \in DOMAIN names : names[i] # DotDot)
                   => SE!IsPrefix(Resolve(root), reply.file)
=============================================================================
