# A TLA+ model of the Goofy Googlers web server

The repository is a C++17 web server (Boost.Asio, Boost.Beast, SQLite): 128 threads run one
`io_service`, every connection is a session, every request gets a new handler object, and two
of the handlers keep data: the API handler JSON files under a directory, the meme handler a
gallery in an SQLite table. Paths below are relative to the repository's parent `src/`, so the
sources are in `src/src/` and the repository's own README is `src/README.md`.

## 1. Inventory

| Component | State | Operations | Interacts with |
|---|---|---|---|
| Server, `src/src/server.cc` | the acceptor, `routes_` (location -> handler factory) | constructor, `StartAccept`, `HandleAccept`, `createHandlerFactory` | makes sessions; one accept outstanding |
| Session, `src/src/session.cc` | socket, `data_`, copies of the routing maps | `Start`, `HandleRead`, `HandleWrite`, `match` | completions run on any thread of the pool; calls parser, factory, handler |
| main, `src/src/server_main.cc` | the pool | start, threads, join | a thread that throws ends the process |
| HTTP parser, `src/src/http_parser.cc` | none | `getFields`, `getResponse` | called by the session on the text of one read |
| Configuration, `src/src/config_parser.cc` | tree of statements, the parser's stack and last two tokens | `Parse`, `ParseToken`, `GetPort`, `ToString`, `populateHandlerMap` | read once by main; the handlers read their sub-block; `config_parser` prints it |
| API handler, `src/src/api_request_handler.cc` | file tree, static `json_storage_`, global `api_lock` | constructor, create, retrieve, update, delete, list | all workers share the three |
| Meme handler, `src/src/meme_request_handler.cc` | SQLite file, global `meme_lock`, image directory | constructor, form, create, view, list, count | all workers share the file and the lock |
| Static, echo, error, health | none | `handle_request` | read files that nobody writes |
| Logger, MIME, factories | the logger singleton | trivial | the signal handler exits |

What is hard here:

- **Interleaving.** Handlers of different sessions run at once. The meme handler drops its lock
  between INSERT and SELECT and between its three reads of a view; the API handler looks at the
  tree before it locks and computes new ids from a map that mirrors the files.
- **Overlap inside a session.** A handler goes on after it has started the next asynchronous
  operation, whose handler may then run on another thread. Sessions delete themselves.
- **Failure in the middle.** A row stored and a page missing; a directory made and a file not
  opened; a write that fails after the file was emptied; an exception that ends the process and
  with it every request in flight.
- **Restart.** The table survives; the map does not and is rebuilt from file names.
- **Boundaries.** The number of rows taken for the greatest id, the end of `int`, an empty list,
  a full read buffer, a header line with nothing behind its colon, a word that ends the file.
- **Two readers of one text.** A request is parsed by Beast, whose verdict counts, and by
  `getFields`, whose result is handled. A configuration is read by a lexer that decides on one
  character and a loop that decides on the last two tokens, and what `Parse` returns is ignored.
- **Null pointers by configuration.** An unknown handler name, a missing location `/`, a location
  without a block: nothing is checked before the first request.

What makes each component correct: the gallery and the API are atomic stores to their clients
(section 3, the abstract modules); ids are never used twice; a session belongs to one thread or
to one pending operation; the server accepts as long as it lives; every request ends; a request
is handled at the longest location around it; the tree of a configuration is what its text says.

`PROJECT.json` lists all components, including those that are not modelled, the hazards with
their lines, and the map from definitions to source lines.

## 2. Modules

| Module | Models |
|---|---|
| `SharedMutex` | `std::shared_mutex` under `unique_lock` and `shared_lock`; external |
| `MemeHandler` | `MemeRequestHandler`, its helpers and the part of SQLite it relies on |
| `MemeRegistry` | abstract: what the gallery promises |
| `MemeHandlerProofs` | the theorems about `MemeHandler` |
| `ApiHandler` | `ApiRequestHandler`, the file tree and the map |
| `ApiHandlerProofs` | the theorems about `ApiHandler`: types, the lock, the map and the files |
| `JsonStore` | abstract: what the API promises |
| `JsonStoreProofs` | the proof that `ApiHandler` implements `JsonStore` |
| `Server` | `main`, `Server`, `RealSession` and the pool |
| `NginxConfig` | the tree of a configuration and the functions on it: `GetPort`, `ToString`, `removeSlash`, `populateHandlerMap` |
| `ConfigTokens` | the lexer, `ParseToken`, and the token sequence of a text |
| `ConfigGrammar` | reference: what a sequence of tokens says, top down |
| `ConfigParser` | `NginxConfigParser`: the loop of `Parse`, and `config_parser_main` |
| `ConfigGrammarProofs` | lemmas about tokens, the tree of a token sequence, printed texts and stacks |
| `ConfigParserProofs` | the theorems about `ConfigParser` |
| `ServerProofs` | the theorems about `Server` |
| `HttpParser` | `httpParser::getFields`; Beast's verdict and printing, external |
| `FilePaths` | a path as the file system follows it, `.` and `..` included; external |
| `Dispatch` | the constructor of `Server`, routing, `HandleRead` from text to answer, and the static, echo, error and health handlers |
| `DispatchProofs` | the theorems about `Dispatch` and `HttpParser` |
| `Extrema` | lemmas: the least and the greatest of a set of numbers, induction over the naturals |
| `MCMemeHandler`, `MCApiHandler`, `MCServer`, `MCConfigParser`, `MCDispatch` | constants for TLC |

### MemeHandler

`table`, `tableMade` and `rowSeq` are the SQLite file (`rowSeq` is AUTOINCREMENT's counter),
`writers`/`readers` the `meme_lock`, `pc[w]` where worker `w` is. A request is cut where the
code takes or releases the lock; what runs inside a critical section is one step, and so is the
rest of a handler behind its last release, which touches nothing shared. `Receive` is the
session's call, `LockInit`/`InitTable`/`InitFails` the constructor, and so on, one action per
critical section and outcome. SQLite is modelled by what the code relies on: AUTOINCREMENT, the
UNIQUE constraint (a violation is taken for success), the missing busy timeout (`Busy`), a
literal's affinity (`Canonical`: the image `007` is stored as `7`) and its reading of
double-quoted words (`ColumnOf`). `seen` is a history variable.

Left out: the `400` of a handler whose configuration is bad; image texts that SQLite reads as
`NULL` or as an expression, and captions named `id` or `rowid`; the numbering of the image
directory, which only the operator changes; the text of the pages.

### ApiHandler

A path is a sequence of components, and the request target, the file and the collection's name
in the map are one path, because the code derives all three from the target by cutting off the
location. `dirs` and `files` are the tree, `store` is `json_storage_` (ids only; the copy of the
data in it is never read), `mine` is history: the files this process has opened to write. A
request is cut at the lock, at the unlocked look of a GET (`Look`), at the formatting of a list
behind the unlock (`Format`), and between opening and writing a file (`Open`, `Write`), where a
crash leaves the file empty. `Terminate` is an exception that leaves a thread of the pool or a
signal. `Truncate` is the lost last character of a collection's name in the constructor. The
overflow of `max_id + 1` is undefined in C++; the compiled addition wraps, and so does `Wrap`.

Left out: the `400` of a bad configuration, targets that end in a slash, names with a dot
(`stem()`), and files that somebody else puts into the tree.

### Server

Sessions are places in memory that are allocated, freed and used again. `pending[s]` is the one
asynchronous operation of a session, `at[t]` the step of a thread in a handler, `serving[t]` the
session it works for. A thread takes a completion (`Take...`), and the handlers are cut before
and behind the call that starts the next operation. `data` is `data_` in segments, `message[t]`
the text copied from it and then `response_`, `writer[s]` the thread whose vector a write reads
from. A response is named by the message it answers. The first send of `async_write` is made
before it returns; `Chunks` says how many sends a response takes. The other sends read the
vector, and when `HandleRead` has returned (`InScope` is false) they read whatever is there:
the old content, what that thread has put there since, or anything.

`main` is `"making"` while it creates the threads, which run from their creation on. When one
cannot be created (`MakeThreadFails`) main goes on to the join loop with those there are, and
with none at all it indexes an empty vector there (`JoinNoThread`).

Left out: what is done with the text of a request, which is `Dispatch` (here a request is
`Fatal` when its factory is null or its handler throws), and the size of the buffer.

### NginxConfig, ConfigTokens, ConfigGrammar, ConfigParser

A text is a sequence of `Pieces`. A piece is one of the characters the code compares with, or a
run of ordinary ones; all the proofs ask of `Pieces` is that the pieces `ToString` writes are
among them. The tree is a heap, a sequence of blocks, so that `config_stack` is a
sequence of indices into it: `child` of a statement is the block's index, as `child_block_` is
its address. One step is one turn of the loop in `Parse`; `ParseToken` is a function of the
place in the text, and each branch of the loop is an action (`Word`, `StartBlock`, `EndBlock`,
...). `Reject` is every branch that leaves the loop with `false`. `last` and `second` are the two
token types, with blanks counted once. `Reprint` is what the `config_parser` program is for: it
prints the tree, and the text goes into a parser again.

`ConfigGrammar` says what a sequence of tokens means without a stack and without a loop: a
brace's level is a count, a statement's block is the innermost open one, the port is the first
`port` statement. The properties compare the two.

Left out: `GetFilesystemPath`, which nothing but tests calls; a file that cannot be opened,
which is an empty tree.

### HttpParser, Dispatch

The two modules follow one request from the text of a read to its answer. `Texts` is what
`std::string(data_)` can be: it ends at the first NUL, and when the read filled `data_` it goes
on with what lies behind (`Garbage`). `getFields` is the loop over its cycles, written as what
each cycle collects. `BeastVerdict` is external: Beast parses the start line as far as the text
goes and finds fault with its method, target or version at once, while the rest of the header
section may still be missing; then it wants the whole section. It counts characters where the
version is not complete (`Characters`), and where the two parsers differ (a CR within a line ends
the reading of `getFields`) Beast refuses the request. The session lets `bad_version` through, so
`GET /a HTTP/2.0` and a CR LF are handled although nothing else has come. `Trim` and `SameName` are
external, too: Beast keeps a field's value without the blanks around it, and compares names
without regard to capital letters (`Small` gives the small form of a piece). What a field means
to Beast (`Content-Length`, chunks) is left out.

`routes` are the factories by location, `nullptr` included; `HandleRead` parses, matches, looks
the factory up, constructs the handler from the location's block and runs it; a null pointer,
`substr` out of range, the exception of a field and that of `is_regular_file` on a path without a
status (`StatusThrows`) end the process. What the API and meme handlers answer is in their own
modules; `Dispatch` says whether their configuration lets them (`BlockFits`), and that they may
then end the process themselves (`MayEndProcess`), by an exception (finding 3) or `exit(1)`.

A static handler opens the root followed by the rest of the target. `FilePaths` says where such a
path leads: `Resolve` walks over its names from `/` or from the working directory `Here`, `.`
stays, `..` goes up, and `Opens` asks that every name but the last is a directory and the last one
a file. `Files`, `Directories` and `NoStatus` are constants, since nobody writes there. Links are left
out.

One request at a time is enough here: sessions copy the routing maps, the handlers of this
module keep no state, and the overlap of sessions is `Server`'s subject.

## 3. Abstract specifications

`MemeRegistry` and `JsonStore` have no locks and no critical sections: a request takes effect at
one instant between arrival and answer. `ImplementsRegistry` and `ImplementsJsonStore` say that
every behaviour of the handlers is one of theirs. A create takes effect at its INSERT, a view
at the count that refuses it or at its SELECT, a write of the API when the file is opened, a
list when the map is copied. `JsonStore` lets any write be refused without effect and lets a
dying process damage the entities being written and no other.

`ImplementsJsonStore` holds only where the code can hold it: in a tree with no collection in an
entity's place and without a restart. Outside of that the findings below break it. The theorem
`ApiImplementsJsonStore` (section 5) names the conditions one by one.

## 4. Runs

| Run | Workload and bounds | Shows |
|---|---|---|
| `meme_safe` | 3 workers, 3 requests, one image, two captions, views of 0..2 | safety, the inductive invariant and the refinement, without faults |
| `meme_faults` | 2 workers, 3 requests, database, page and process may fail, a rejected caption | permanence, that a stored meme stays viewable although a failed count is used as a number of rows, and that every request ends (density under faults is proved) |
| `meme_columns` | 2 requests, a caption named like a column | finding: the page links to the wrong meme |
| `api_concurrent` | 3 workers, 4 requests on one collection | the refinement |
| `api_nested` | 2 workers, 3 requests, nested targets, int range -1..1, disk failures, signals, restarts | the map against the disk, and that every request ends |
| `api_restart` | signal and restart | finding: existing data is not read |
| `api_empty_list` | the last entity is deleted | finding: listing ends the process |
| `server_plain` | 2 threads or fewer, 3 places, 2 connections, 2 requests, one of a fatal kind | requests and responses stay whole; every client is answered, every session freed |
| `server_faults` | the same with every kind of request and failure | exclusive sessions, no use after free, no lost session, always listening |
| `server_response` | one response in two sends | finding: it is read after it was freed |
| `config_parser` | every text of at most 5 pieces over two alphabets of 7, every text of at most 4 phrases out of 7 | in every state, accepted or not, the tree is what was read; validity, port, printing, termination |
| `dispatch` | 4 configurations, requests put together from 3 methods, 51 plain targets, 2 versions, 8 header sections and 6 ends, 7 targets with `.`, `..` and empty names, 5 pairs of fields, every text of at most 4 pieces, and a target and a field that fill the buffer of 21 pieces | routing, echo, static files and where they lie, what is handled, what ends the process |

Why the bounds are enough: each shared resource is contended by at most a writer and two others
at a time, so three workers show every overlap of critical sections; three requests are a create
between the steps of another one with a view or a list around them; four API requests are
create, delete and create with a reader. The range -1..1 brings the end of `int` within two
creates. Two threads and two connections are what the overlap of a handler with its successor
and the reuse of a freed session need. `MaxRequests`, `MaxConnections` and `MaxSends` bound the
behaviours; since requests are finite a behaviour may stop, and deadlock is not checked.
Symmetry over workers, threads and sessions is used in safety runs only.

Five pieces hold a nested block with a statement in it, each branch of the loop in front of each
token, and a quoted string with an escape; the phrases add two levels of blocks with ports around
and in them. The configurations of `dispatch` have locations inside each other, with trailing
slashes, twice the same, without a block, with blocks that do not fit, and none at all; the
requests are right and wrong in every part, and cut off after the start line and within the
header section; the longest fill the buffer, and what lies behind it may complete them. The file
system has files below the root, one beside it whose name starts like the root's, and one that
only `..` reaches.

`server_plain` restricts its requests and responses to one segment and one send, and memory to
zeroes, since outside of that `RequestIsWhole` and `ResponseIsIntact` fail: `HandleRead` takes one
`read_some` for one request, so a request in two segments is handled after the first, and a
response in two sends is finding 4. `server_faults` has requests of both kinds.

### Fairness

`FairSpec` gives weak fairness to the steps of each worker: a thread of the pool is scheduled
by the operating system and nothing but the mutex stops it. For sessions it gives weak fairness
to the completions of each session other than an accept; the reactor's queue is first in, first
out. The configuration parser is one
thread and runs on (`WF_vars(Parse)`). Nothing is assumed of clients, of faults, of restarts, or
of `main` making threads: what is promised to clients holds for the threads that exist. Requests are finite in a behaviour,
so that a writer is not overtaken for ever by readers is not shown: `std::shared_mutex` does not
promise it.

## 5. Proofs

`MemeHandlerProofs` proves, for any number of workers, any texts and ids and any faults:

- `MemeTypeCorrect`, `MemeInductiveInvariant`: the invariant below;
- `MemeRowsDenseAndDistinct`, `MemesStayForever`: whatever fails;
- `MemeStoredIsViewable`, `MemeViewShowsItsRow`, `MemeListIsComplete`, `MemeNoSpuriousFailure`,
  `MemeLeaksOnlyBelowOne`: what a client sees (those that speak of it, with a sound disk);
- `MemeCreatedRef` and `MemeImplementsRegistry`, under the stated assumption that no caption
  names a column and that an image is stored as it was sent (`PlainRequestsOnly`), the latter
  also with a sound disk.

The argument: `InductiveInvariant` joins the types, `LockHeld` (the mutex is held by exactly the
workers inside critical sections), `Placed` (a worker is in the handler its request names),
`TableReady`, `RowsDenseAndDistinct`, `InsertedStays` (between INSERT and SELECT the meme is in
the table), `SeenStays` and `GuardHolds` (what passed the count guard is at most the last id).
`RowsDenseAndDistinct` alone is preserved, but the answers are not: that a view finds its row
needs the guard's result to stay true over two releases of the lock, which it does because rows
are never removed, and that no statement meets `SQLITE_BUSY` needs the lock.

`NoSpuriousFailure` and `LeaksOnlyBelowOne` need the hypothesis of a sound disk.
`StoredMemeIsViewable` does not: a count that fails yields 500 and is used as a number of rows, and
the property says what that costs, namely a stored meme above 500 that is refused, and nothing
else. `meme_faults` has no 500 memes, so that part is proved only.

`ConfigParserProofs` proves, for every text and any choice of pieces:

- `BlocksStayNested`: the stack, the depth and the tree of `Parse` agree at every token, so that
  `config_stack.top()` and `statements_.back()`, which the code uses unchecked, always have an
  element. Its invariant is `Shape` (what is a sequence of what), `StackGrows` (the indices on the
  stack increase, so an append to the innermost block touches no outer one, and the new block is on
  no stack yet) and `BlocksAreNested` itself;
- `TreeIsAsWritten`: after every token the tree is the one the grammar gives the tokens so far,
  also in a file that turns out to be wrong, so the server main starts has the statements in
  front of the first mistake and no others;
- `VerdictIsRight`: `Parse` returns true for the well formed token sequences in which no two words
  touch, and for no other;
- `FirstPortIsTaken`: `GetPort` answers the first port the tokens so far name, in whatever block,
  unless one of them is -1 (`PortIsFirst`);
- `TypesStayCorrect`: every variable keeps its type, the tree a program prints and reads again
  included;
- `EveryTurnMovesOn`: a turn of the loop returns or moves the stream on, never behind the end of
  the text, which is the safety part of `ParseReturns`.

The invariant of the last five is `RInv`, whose core is `AsRead`. With T the meaningful tokens in
front of `pos` (a prefix of the tokens of the text, `FirstTokens`), it says that `config` is
`Tree(T)`, that the stack is `StackOf(T)` and the depth the level behind T, and that `last` and
`second` are what is left of the last token of T and the blanks behind it (`Remembered`). The two
types are all that `Parse` knows of the past, and the code compares them in a window of two in
which blanks are counted once and comments not at all; that they always determine the last
meaningful token, and whether something separates it from the next, is what `After` and `WordFits`
rely on and what `VerdictIsRight` needs. T itself stays free of mistakes (`InPlace`, `Apart`) as long as the loop goes
on, and a mistake cannot be mended by what follows (`StaysBad`, `StaysTouching`), so a verdict of
false may be given at once; the end of the file decides the rest (`EndsWell`).

The tree lemmas of `ConfigGrammarProofs` say what one more token does to `Tree(T)`, one for each
branch of the loop: nothing (`TreeUnchanged`), a new last statement of the innermost block
(`TreeGetsStatement`), one more word to it (`TreeContinues`), a new empty block that becomes its
child (`TreeOpens`). `StackStays`, `StackOpens` and `StackCloses` say the same of the stack, and
`TopIsAround` that its top is the innermost open block, which the grammar finds by counting. That
`Reprint` keeps the types needs that `ToString` ends: the blocks in a tree of the grammar have
greater numbers than the one they are in (`TreeGrowsDown`), so the recursion over blocks is
well-founded (`PrintExists`) and prints a text (`PrintedTreeIsText`).

`GetPortHelper` searches the tree depth first, and the grammar the tokens from left to right. That
both meet the statements in one order is `NamesSplit`: with `Within`, the tokens between a brace
and the one that closes it, the statements from the i-th of a block on are that statement, those
`Within` its own block, and those from the next one on, each group in front of the next
(`InTurn`). It rests on `Ancestor` (every token within a block is below a statement of that block)
and `Descends` (all that is below a statement lies in front of its next sibling). `PortFromIs` is
then one turn of the search, and `PortSearchIs` says that its recursion has one solution.

`ServerProofs` proves, for any number of threads, sessions, clients and segments, and for any of
the faults:

- `ServerTypeCorrect`: the types, which need that a pending write reads from a thread's vector
  (`Writing`) and that a thread at a step of a handler is at work for a session (`Serving`);
- `SessionsAreExclusive`, `AllocatedSessionsAreInUse`, `ServerKeepsListening`: none of the three
  is inductive, their conjunction with `Serving` is (`Ownership`). That a freed session is in
  nobody's hands needs exclusivity; that a new session is nobody's needs that what is not
  allocated is not in use; that the accept passes from an operation to a thread and back needs
  both. The steps fall into four kinds, one lemma each: a completion hands a session to a thread,
  a started operation takes it back, a move inside a handler changes nobody's, and the two steps
  that allocate and free. They hold without a strand because a handler starts at most one
  operation, last.

The assumption that threads are not sessions is what `Listeners` needs to count them together.

- `ServerRequestIsWhole`, `ServerResponseIsIntact`: a handler gets what the client of its session
  asked last, and a client receives the answer to that and nothing else. Both are theorems under
  hypotheses, since neither is true of the code without them: `ComesInOnePiece` (`HandleRead`
  takes one `read_some` for one request), `MemoryIsClean` (`data_` of a new session holds
  nothing; the constructor does not clear it) and, for the second, `LeavesInOnePiece` (otherwise
  finding 4). `server_plain` meets all three. The invariant is `Delivery`: outside of a
  handler the buffer of an allocated session is empty (`Cleared`), what is on its way is the one
  request its client has no answer to (`OnItsWay`), nothing is on its way to a session that was
  not asked (`Unasked`), and a thread in a handler has in its session's buffer and in its
  message the whole of that request (`Handled`). Steps of the other threads disturb none of it
  because a session in a handler has no pending operation, which is `Ownership` again.

`ApiHandlerProofs` proves, for any workers, tree of targets, range of `int`, failures, signals and
restarts:

- `ApiTypeCorrect`: among the types, that every id stays an `int`, also behind `max_id + 1`;
- `ApiFilesAreNumbered`: no path through the handlers leaves a file that no constructor finds;
- `ApiMapKnowsOwnFiles`, `ApiCreateTakesFreshId`: the map has the id of every file this process
  has written as soon as no writer holds `api_lock`, so a create overwrites none of them before
  the end of the range.

The argument has three layers. `Placed`: a worker is in the handler its request names, and what
it opens is named by a number. `LockHeld`: `api_lock` is held by exactly the workers whose step
needs it, whatever path each has taken. `MapInv`: `FilesAreNumbered`; `MineNumbered`; `Mapped`, that
a file of this process is in the map or still in the hands of its writer; `OpensNextId`, that a
create which is about to open its file still has the next id, because nobody changed the map
since. `MapKnowsOwnFiles` alone is not inductive: between opening and writing it is false of the
file being written. Both properties except the id -1: `get_json_id` says -1 for "no number", so
a DELETE of an empty directory takes -1 out of the map of the directory above, and the file `-1`
a PUT may have made there is forgotten.

`JsonStoreProofs` proves `ApiImplementsJsonStore`: whatever any number of workers interleave,
clients see one atomic store, and a process that dies, of a signal or of an exception, damages
only what it was writing. Its hypotheses are what the promise depends on:

- `NumbersAreEntities`: clients POST to and PUT below names without a number in them, and name
  entities by natural numbers (else a file stands where a directory is needed, or -1 is lost);
- `NamesAreApart`: nobody lists a name that the constructor's lost character makes out of
  another collection's (finding 2 in a running process);
- `NothingBreaks`: the disk works and the process is not started again (else finding 2);
- `RoomLeft`: no collection has reached the end of `int` (else a create overwrites).

`api_concurrent` meets all four. The invariant is `StoreInv`: directories are words and files
numbers, each in a directory that exists (`TreeIsPlain`), so that a listing is never a reading;
the map has every file but those being written (`MapHasFiles`) and, for a collection that is
listed, nothing else (`MapHasNoOther`); and a worker is `Ready` for its step, above all that the
file of a create is not there when it is opened. `Shown` says what the refinement mapping makes
of the files: what is being written shows at once what it will hold. One lemma per action then
gives the step of `JsonStore` (`OpenPuts`, `WriteTells`, `DeleteRemoves`, `ReadFetches`, `ListLists`,
`TerminateDies`, ...); steps that take locks, load or make directories are hidden.

`DispatchProofs` proves, for any configurations, any text a read may leave and any buffer:

- `DispatchTypeCorrect`;
- `DispatchOnlyWholeRequests`: what a handler answers without an error has a known method and a
  target that a blank ends; and an empty line, if the version is one and ends its line. A text
  with another version need not be whole;
- `DispatchStaticServesItsRoot`: a static location other than `/` hands out the file its root and
  the rest of the target lead to, and it lies below the root unless a name `..` is in the rest;
- `DispatchServesWhenComplete`: with a complete configuration no null pointer is followed and no
  target is shorter than its location, so that the process ends only by a field that ends with its
  colon, a file without a status, or what the API and meme handlers do themselves;
- `DispatchLongestLocationWins`: the location that serves is a prefix of the target in whole
  components, and no longer one is;
- `DispatchEchoReturnsRequest`: an echo location answers with the text of the request, piece by
  piece, whatever its target, fields and body are.

The invariant `DispatchInv` ties the answer to the configuration: every route comes from a
statement of it (`RoutesOfConfig`), nothing is answered before a read (`SilentAtFirst`), and an
answer without a location is a refusal (`IdleWithoutLocation`). The properties are statements
about one read, so most of the work is in lemmas about texts: where `Find` stops, what `getFields`
and Beast agree on, and that a match of characters is a match of components. Those that need
induction over a text use `SetInduction` of `Extrema`, which takes a set in the place of the
operator parameter the prover cannot instantiate, and recursive functions whose equation is
proved once.

That a path without `..` in its rest stays below the root is `StaysInside`: the rest starts with
a slash, because the target goes on behind the location with one, so the names of the path are
those of the root and then those of the rest, none of them grown together (`PartsBehind`); and a
walk over names that are not `..` never leaves the place it has reached.

The echo takes a request apart and puts it together again, so its proof is that nothing is lost
on the way. `StartLineIs` finds the three parts of the first line where Beast has accepted them
(`FaultlessRequest`): no CR is in front of the one behind the version.
`SectionInPlace` goes from the end of the header section backwards: the lines of `HeaderSection`
and the body stand one behind the other in the text (`InPlace`), none of them dropped, because
every CR up to the empty line ends a line. `FieldsAreTheLines` says that each line becomes one
field, the last when it is set, which needs that no name comes twice, in capital letters or small ones; `FieldPrinted` that the
field is printed as its line, which needs one blank behind the colon and none at the end. The
conditions of `EchoReturnsRequest` are these, a method the server knows, version 1.1 and a text
that ends where the read does: without any one of them the code can answer with another text.

Only model-checked:

- liveness everywhere, since the prover does not do it under fairness;
- `ReprintParsesTheSame`, which runs the lexer over the text `ToString` makes;
- the properties outside of the hypotheses above.

## 6. Findings

1. A caption such as `top` is a column to the SELECT of `handle_create` (`meme_columns`).
2. The constructor of the API handler cuts the last character of a collection's name
   (`api_restart`): after a restart existing data is neither listed nor protected.
3. The list of an emptied collection ends the process (`api_empty_list`).
4. A response longer than one send is sent from freed memory (`server_response`).

### Documented restrictions

What the models keep and the properties state as a condition, because the code does so and
nothing in the repository says otherwise:

- The lexer drops a word, blanks or a comment that the file ends, so `a; b` is a valid file.
- The search for the port takes a port of -1 for "none here" and goes on behind that block.
- A printed quoted word has lost its escapes, and need not be read back (`PlainWord`).
- A header value without a blank behind its colon loses its first character, and a header line
  that ends with its colon throws, which ends the process.
- An echo shows a value without the blanks around it, one field of each name and version 1.1.
- A request that fills the buffer runs on into the memory behind it.
- A read with a version Beast does not know is handled although the rest of the request has not
  come: the session lets `bad_version` through, and Beast gives it as soon as it has the start
  line. The rest is then taken for the next request.
- The path of a static file is not normalised: a name `..` behind the location leads above the
  root, to any file the process can read. `StaticServesItsRoot` names it as its condition.
- With a complete configuration the API and meme handlers can still end the process
  (`ServesWhenComplete` exempts them; finding 3 is one way), and so can a static file whose status
  cannot be had.
- A static handler at `/` cuts the slash off the target: root `/r` and target `/a` give `/ra`.
- A GET of the API looks at the tree before it locks; between the two a directory can take the
  file's place, and the read is an empty body.

## 7. Not modelled

The logger (Boost.Log sinks; main makes the singleton before there are threads; the signal
handler's exit is `Crash` and `Signal`), the image directory and the text of the meme pages,
`GetFilesystemPath`, the memory of the handlers that are never deleted, the missing timeout of
silent sessions, the destructor of `Server`, which a running server never reaches, and the
opening of the listening socket.

## 8. Plan

1. Done: the meme handler, the API handler, main, the server, the sessions and the pool, the
   configuration parser, the HTTP parser, routing and the stateless handlers; proofs about all of
   them, and of both refinements.
2. Done: the proofs that what `Parse` builds and answers, and the port, is what the grammar says.
3. Done: the proof that an echo is the request.
4. Proofs: `ReprintParsesTheSame`, from the tokens of a printed tree.
