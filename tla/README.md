# Verification of cppws

TLA+ models of cppws, a C++20 web server library, with TLC configurations that
check them on small instances and TLAPS proofs that hold for every value of the
constants. Line numbers refer to the sources in `src/`.

## The system

| Part | State | Operations | Interacts with |
|---|---|---|---|
| `request_processor` | `running_`, `busy_`, `hasRequest_`, `stream_`, `processedRequest_`, a mutex, two conditions | `accept`, `wait_until_available`, `terminate`, `active`, `busy`, the worker's `run` | parses with `http_request::accept`; asks a `request_mapper` for a handler; owns a `socket_iostream` |
| `http_request` | method, version, URI, two header maps, the vector of custom names, body, an arena | `accept` (the parser), `http_header` | reads a `std::istream` |
| `socket`, `server_socket` | descriptor, host, port | construct, `listen`, `accept`, `connect`, `read`, `write`, `close`, move | the kernel |
| `basic_socket_streambuf` | get and put areas, a socket | `underflow`, `overflow`, `sync` | `socket::read`, `socket::write` |
| `socket_{i,o,io}stream` | a streambuf, the state and buffer of a standard stream | constructors, moves, destruction | the standard streams; `request_processor` keeps one |
| `url`, `url_decode_iterator` | views into one shared string; two pointers | construct, `parent`, `/`; `encode`, `decode`; `*`, `++` | none |
| `http_response` | none | formatting operators, a table of names | a `std::ostream`; `request_processor` replies with them |
| `http_def` | none | a table of content types | none |
| `cppws.cpp`, build, tests, `docs/arch.md` | none | | |

What is hard in it:

* **Threads.** A detached worker and any number of callers share one
  `request_processor`. Callers parse from the network while they hold the mutex;
  the worker uses and replaces `stream_` without it.
* **Reuse.** One `http_request` is filled again and again. Whatever `accept` does
  not clear belongs to an earlier client.
* **Broken connections.** A client may close at any byte, and `accept` tests the
  stream only inside its line reader.
* **Ownership.** Descriptors, and the buffers of streams, travel through moves and
  exceptions; defaulted moves decide member by member what goes along.
* **Unspecified order.** `listen()` joins three system calls with `|`.
* **Buffers.** One `read` or `write` transfers any part of a buffer; a failure or an
  unlucky byte ends a stream in the middle of a response.
* **Views.** A `url` keeps offsets into a string that `/` edits and parses again;
  its decoders move raw pointers by what they read.

`PROJECT.json` lists each hazard at its line with the properties that cover it.

## The modules

### RequestProcessor

One worker and a set of callers, each with a program counter. A step is what
happens between two points at which threads interleave:

| Action | Code (`request_processor.cpp`) |
|---|---|
| `Enter`, `AwaitAvailable` | 14-17 and 42-58: the test of `running_`, then the lock and the loop on `busy_` |
| `Store` | 21: the lock is taken |
| `TestFd`, `CloseFd`, `ClearFd`, `PutFd` (`Assign`) | 22, under the lock, and 100, without it: `stream_ = ...`, down to `close()` and `move()` of its socket (`socket.hpp:51-56`, `socket.cpp:121-138`) |
| `ParseRequestLine`, `ParseDone`, `ParseFails` | 24-34: the parse, which overwrites `processedRequest_` from its first line on, and its outcomes |
| `Terminate`, `Destroy` | 36; the implicit destructor, once `active()` is false and no call is in progress |
| `LoopTest`, `CheckRequest`, `Wake`, `SpuriousWake` | 61-71 |
| `Resolve`, `HandlerEnds`, `WriteReply`, `NotifyAvailable` | 83-99 and 75-79 |

`busy` is never assigned, in the model as in the code: `AwaitAvailable` times out
for ever or never, as the constructor has left it.

The two assignments to `stream_` are a data race, which is undefined behaviour. What
is followed of it is its last member to be assigned, the descriptor `fd_`: close()
tests it, closes it and sets it to -1, then move() sets it to the new one, and the
other thread may come between any two. The descriptor that is closed is the one
that was tested or, if the compiler reads `fd_` again, the one found there. `raced`
records that two assignments have overlapped; from then on a number may be closed
that was closed before and that the kernel may have given to another connection
since (`Hit`). Not followed are the fresh descriptor inside the `{}` that the worker
assigns, of which two threads may also lose one; the members assigned before it
(state of the stream, vectors, area pointers, `host_` and `port_`), whose torn values
may mix; and a `read()` through a number that names another connection by now.

`FlagInit` is the set of values that the constructor may leave in `running_` and
`busy_`. It names no value. Under C++20, which `utils/cmake-boot` selects,
`std::atomic_bool` then holds `false`; before C++20 it is indeterminate. Nothing
ever sets it to `true`, so with `FALSE` the worker exits at once.
The runs include `TRUE`, without which there would be no protocol to look at,
and all runs have both values for either; the theorems hold for any subset. No CMake
target compiles `request_processor.cpp`.

The parse is `http_request::accept` taken by its contract: it starts to overwrite
the request once it has a line, and returns true, or fails. That a stream which
was assigned to has no buffer (run `stream_buffer`) is abstracted from.

### RequestSlot

What the processor promises of connections, seen from outside: one slot, into
which a call puts its connection once the one that was there is closed, and which
the worker empties when it is done. The worker may be emptying it while a call
fills it (`Overlap`); a connection can be lost, or closed in the wrong hands, only
after that. `RequestProcessor` refines it (`Slot`): `Where`
tells for each connection whether its caller, a call or `stream_` has it, or it is
closed, or open and lost. The slot
says what the code does and no more: a connection may be put over another that was
never looked at, and nothing makes the worker forget a request.

### HttpRequest

One object and a sequence of messages, each on a new stream, as
`request_processor` uses it. A step reads one line or the body; the client chooses
the line. Header names are a standard one, `Content-Length`, short custom names
(fit in a `std::string` object, at most 15 characters) and long ones. The vector
`headerNames_` is its size and capacity: when it grows, short names move with
their string objects, and the entries of `headers_` that view them can no longer
be found (`AfterPush`). This is the behaviour of libstdc++, whose vector doubles
from 1, and whose arena keeps the old storage readable with the names emptied.
`eof` is the end of the connection, after which `get()` has put 0xFF on the line
(`torn`) and further lines read as empty.

### Socket

A table of objects and a table of descriptors. Every operation is one step, with
every refusal the kernel may give. `LeftToRight` is the set of orders in which a
compiler evaluates the operands of `|` in `listen()`: left to right is clang's,
and the other is what g++ does. `Adopt` is the public constructor from a descriptor,
which may be none, new or connected; one that its caller has made to listen is left
out, since the object cannot know its port. `Modulus` stands for the 65536 of
`htons()`.

`Free` is the lowest free descriptor, which is the one that POSIX makes the kernel
choose.

### SocketStream

The three stream classes have the same members, and one model. It EXTENDS
`Socket`: some of the objects are streams, whose socket is the one in their
buffer, and every step of a stream is a step of `Socket` joined with what becomes
of the rest (`strm`):

| Action | Code (`socket_stream.hpp`) |
|---|---|
| `Default`, `FromSocket`, `FromSocketFails` | 38-40, 100-118: without a socket (which still opens a descriptor) or with one, which is closed if `resize()` throws after it was moved in |
| `StreamDestroy` | 147: nothing is flushed |
| `StreamMoveConstruct` | 148: all but `rdbuf()` moves, so the new stream has no buffer |
| `StreamMoveAssign` | 151: the states are swapped, `rdbuf()` stays; the vectors change hands if their allocators are equal and are copied if not; the area pointers are copied |
| `Underflow`, `Sync` | 64-89: the areas are set into the vectors again, or the stream goes bad, or both |
| `SocketNext` | 56-61, 138-145: what `socket()` lets one do to the socket inside |

`store` is the memory of the vectors and `get`, `put` the memory that the area
pointers point into. `mixed`, a history, says that areas have come from a stream of
another memory resource. What the standard library does (libstdc++) is read off its
rules for defaulted members.

### ByteChannel, SocketInput, SocketOutput

`ByteChannel` is what a reader is promised: the bytes sent, in order, once, and
the end only after the last, unless the connection fails, after which nothing is
promised. `SocketInput` models the get area and `underflow()`, with a `::read()` that
returns bytes, the end, or -1, upon which `socket::read()` throws
(`socket.cpp:116-117`) and the istream sets `badbit`; it implements `ByteChannel`. `SocketOutput` models the put area, `overflow()` and
`sync()`; no such promise holds of it (run `output_prefix`). `Ones` is the byte
0xFF, which `overflow()` stores and returns as a `char`, where it equals `eof()`.

### HttpResponse, Reply

`HttpResponse` is what the operators `<<` write, a line or a character of content
per token, and a client that reads it: a line begins a message, a blank line ends
its headers, `Content-Length` measures its content. `Reply` is the program that
writes: it EXTENDS `SocketOutput`, puts the tokens of one response after the other
through the put area (`PutOne`), and meets failing writes and `Ones` (`PutFails`),
flushes, and the end of the stream (`Drop`), which `process_request()` brings about
with `stream_ = {}` (`request_processor.cpp:100`). The names of headers and types
stand for what `to_string()` gives; a response does not repeat `Content-Length`.

### UrlCodec

A string of byte codes, as it is or encoded, is walked by `url_decode_iterator`
(`Visit` is `*` and `++`, `Skip` is `++` alone) or given to `decode()`, one round
of its loop a step. An escape moves the pointer that `decode()` reads from
(`url.cpp:78`); `base` is how far, and what lies outside the string is any
character.

### Url

A string is a sequence of tokens: delimiters, letters, numbers that fit in a
`short` and numbers that do not. `Decomposed` is `decompose()` with its four parts
as offsets, `WellFormed` what it does not throw for; `Construct`, `Parent` and
`Slash` are the operations. `Garbage` is the view that `parent()` takes from an
empty vector, after which `operator/` inserts anywhere or throws. `null` tells the
default-constructed object, whose `/` works, from an empty string, whose `/`
throws.

## The runs

Runs that pass:

| Run | What it shows | Bounds |
|---|---|---|
| `rp_protocol` | no lost wake-up, one parser at a time; while the assignments to `stream_` do not overlap, every connection is open exactly while somebody owns it; a stored request is looked at, calls return, a worker with a request stops after `terminate()`; seen from outside, a `RequestSlot` | 3 callers, 2 connections: one parsing or assigning, one waiting for the lock with the other connection, one in `wait_until_available()`, while the worker uses or replaces the stream; both values of both flags; no symmetry, since there are liveness properties |
| `http_reuse` | custom headers, body and request line of an accepted request are its own; the standard headers and the body of a first message are parsed exactly, and it does not hang the parser | 2 messages of at most 3 headers and 1 body byte: the second follows an accepted, a rejected or a cut one, and 3 custom headers grow the vector three times; 2 header values |
| `streams` | descriptors have one owner each, in streams or out of them; ports and hosts are those of a live connection; what listens knows its port; no buffer has two owners, and a stream reads and writes in its own until one that it was assigned to from another memory resource | a socket and two streams (any of which may be the listener, the accepted socket or the target of a move) over 2 descriptors, so that construction also fails for want of one; two buffers and two allocators, so that a move takes or copies them; one host (a name only makes `connect()` take any address); port 0, which passes the test of `connect()` (`port_ > 0`), while that of any other only refuses more (no property compares port numbers); operands evaluated from the left; streams, buffers and allocators symmetric |
| `input_channel` | the reader gets `ByteChannel`, failing reads included | buffer of 2, 5 bytes: the buffer is refilled at least twice |
| `reply` | the put area holds the latest characters, and an uncut sync sends them; a stream that is good has put every response in full; what was put reads back as the responses | buffer of 3, 4 syncs, 2 responses of 1 to 6 tokens: areas full and part filled after full and partial writes; content that is empty, that looks like a message, or is 0xFF, which comes to stand at every place in the buffer; one response without a body |
| `url_codec` | no two strings have one encoding; the iterator stays in step with it; both decoders end | strings of at most 3 of `%`, two hexadecimal digits and a byte above ASCII: 9 bytes encoded, with an escape before, inside and after others |
| `url_path` | views are inside the string, in order and clean; nothing of a plain path is dropped; `/` adds a segment and `parent()` takes it off | all strings of 4 tokens, all of 4 after `a://`, all of 4 after `a://b/` and all of 5 after `a://b/b/?`; 2 operations, so that either follows the other |

Deadlock is not checked in any of them: a worker exits, an object is destroyed,
a decoder ends, and the bounds end the traffic.

Runs that find a disagreement between the code and its documentation:

| Run | The code | The documentation |
|---|---|---|
| `rp_badformat` | the worker takes up a request that `accept()` has refused, since `hasRequest_` is never reset and `processedRequest_` was overwritten | `request_processor.hpp:62` |
| `http_stale` | standard headers outlive their message | `http_request.hpp:361` |
| `stream_buffer` | a stream that was default-constructed and then assigned to is good and has no buffer | `socket_stream.hpp:93` |
| `stream_resources` | a stream assigned to from a used one of another memory resource has its areas in the buffer of that stream | `socket_stream.hpp:106` |
| `output_prefix` | a writer's peer gets buffers of zeros and stale characters | `socket_stream.hpp:93` |

The models show more, which no run asks about:

* Two assignments to `stream_` that overlap close a descriptor twice or leave one
  open that nobody owns (`socket_stream.hpp:31`, "Socket to assume ownership of"):
  `ConnectionOwnership` without `~raced` does not hold.
* `accept()` returns true for a connection that the worker has closed while it was
  parsed from (`CloseFd` by the worker between `ParseRequestLine` and `ParseDone`;
  `request_processor.cpp:29`).
* A short custom name is lost when `headerNames_` grows, since the keys of `headers_`
  view the strings that move (`AfterPush`; `http_request.hpp:403` promises the
  value). `LostNamesAreShort` says how far this goes.
* `decode()` adds the decoded character to its pointer, not to its result
  (`url.hpp:196`; `test/url_test.cpp` asserts otherwise of an encoded URL), which
  `base` of `UrlCodec` follows.
* The areas of a stream that was moved from point into the buffer of the other
  (`Left`); `StorageIsOwn` speaks of streams that have a buffer.
* `request_processor.cpp:22` assigns a stream over `&buffer_` to one of the default
  resource, as in `stream_resources`, but one that has not been used, whose areas
  are empty.
* A response shorter than the buffer is lost when its stream goes (`Drop`), and 0xFF
  where the buffer overflows, or at its start when it is flushed, ends a stream that
  works (`PutFails`, `FlushStream`).
* A response without a body does not end its headers: the client takes the next
  one for more of them, which is why `ClientReadsResponses` stops in front of it.
* A version loses its last digit (`VersionText`), and 100 is written `HTTP/1`, which
  `http_request::accept` reads as 100 again.
* `active()` is false from `terminate()` on, while the thread may still wait or
  process (`request_processor.hpp:72`).
* With the operands of `|` evaluated from the right, `listen()` listens on a port of
  the kernel's choice before `bind()` fails, and always throws;
  `ListeningHasPort` needs the order that clang has.
* The last segment of a path is dropped when a query or a fragment follows
  (`KeepsLast`), which is why `PathIsWhole` speaks of strings without them and
  `SlashAddsSegment` of urls that have all their segments (`DropsSegment`): `/`
  inserts in front of the dropped one, so that `a/b?k=v` and `c` give `a/c/b?k=v`,
  which is no appending to the path (`url.hpp:339`).
* `parent()` leaves `full_` alone (`url.hpp:332`): its result equals the url it came
  from, and `parent() / "x"` gives `a/x/b` where `a/b` was (`fresh` in
  `SlashAddsSegment`).
* Both decoders take the first hexadecimal digit for the low four bits
  (`Unescaped`), so the iterator yields 0xF2 for `%2F`.
* Ports from 32768 on are refused (`IsShort`).
* `busy()` is true for ever or never, as the constructor has left it: then
  `wait_until_available()` returns true while a request is being processed
  (`request_processor.hpp:86`), and an accepted request can be replaced before it is
  taken up.
* The timeout of `wait_until_available()` does not cover the lock, which
  `accept()` holds while it reads (`request_processor.hpp:85`): without
  `ClientFairness` a silent client blocks every caller and `CallsReturn` fails.
* A worker that has never had a request sleeps on after `terminate()`
  (`request_processor.hpp:67`), which is why `PendingWorkerExits` speaks of a worker
  with a request.
* An owner that waits for `active()` to be false before it destroys the object
  destroys it under its worker (`Destroy`).
* With `running_` false at the start the worker exits at once and every `accept()`
  is refused (`LoopTest`, `Enter`).
* A message cut in its headers or its body is accepted (`HeadersEnd`, `ReadBody`);
  a later message without a body can wait for the bytes of an earlier
  Content-Length, which is why `FirstMessageReturns` speaks of the first.
* `port()` is the argument of `listen()`, not the port in use, for 0 and for
  65536 and above (`PortOf`); a socket that `accept()` returned has no port and
  passes the test in `connect()`.

## Fairness

`RequestProcessor`: `ThreadFairness` says that the worker and the callers are
scheduled, a free mutex is eventually acquired, and handlers return; it is weak
fairness of the worker's steps together (`Run`) and of each caller's own (`Wait(t)`),
the assignments to `stream_` included in either. A spurious wake-up is never
required. `ClientFairness` says that clients send a whole request or something that
ends the parse.
Weak fairness of `Wait(t)` and `Run` suffices because finitely many connections
are on offer, so that the lock is left free at some time for good; with an
endless supply the liveness properties would need a mutex that starves nobody,
which `std::mutex` does not promise. A connection is offered once.

`HttpRequest`: weak fairness of `Accept` says that the client sends a line or
closes; nothing makes it send a body that is longer than it announced.

`UrlCodec`: weak fairness of `Next` says that the thread runs.

`SocketInput`: weak fairness of `Read` says that the reader keeps reading; nothing
makes a read fail (`UnderflowFails` is not fair).

## The proofs

`RequestProcessorProofs` proves `TypeOK`, `ProcessingHasRequest`, `NoLostWakeup`,
`ParseUnderLock` and `ConnectionOwnership` for any sets of callers and
connections, from `RequestProcessorAssumption` (the worker, the callers and the
empty values differ), and that the processor implements the safety part of
`RequestSlot`. `IInv` is their conjunction with `Arguments` and with "a
pending request is not empty": a caller past `AwaitAvailable` holds a real
connection, none that a caller holds is on offer, and a parser past the request
line has written `processedRequest_`. Without the first, `accepted` could leave
its type; without the second, two calls could be given one connection.
Of the assignments to `stream_` it says, for as long as none have overlapped
(`InTurn`), that at most one thread is inside one, what it has found there and that
nothing but the connection in `stream_` can be closed by it. `AssignInv` is the
part of the induction that deals with the four steps, for either thread.
For the refinement, `Placed` reads off the variables where each connection is, which
`OneHand` makes one place only. Each step then maps to one of the slot or leaves `Where` alone
(`SameWhere`, `AssignSlotStep`, `SlotStep`).

`SocketProofs` proves `TypeOK`, `FdOwnership`, `PortMeansUse` and `HostIsPeer`
for any objects, descriptors, hosts and ports and both orders of evaluation.
`IInv` adds that an object that does not live holds nothing. All actions but the
moves change one object and one descriptor: `LocalStep` proves these together,
from conditions that each action meets; `MoveStep` does the moves, and
`ListenResultProperties` says what `listen()` leaves behind when it fails.
`ListeningHasPort` is proved on top of it from `FromTheLeft`: the operands of `|` in
`listen()` are evaluated from the left, and callers pass no negative port.

The second half of `SocketProofs` proves that a system of streams is a system of sockets
(`StreamsUseSockets`: every step of `SocketStream` is one of `Socket` or changes no
socket), from which its descriptors have one owner each; `StreamTypeOK`; and `StorageIsOwn`,
for any set of allocators, of the streams that no areas have reached from another
resource.

`HttpRequestProofs` proves `RequestLineIsOwn`, `CustomHeadersAreOwn`,
`LostNamesAreShort`, `BodyIsOwn` and `FirstMessageExact` for any names, values, lines
and bodies and any number of messages. None is inductive: `Control` says which
members are fresh at which point of a call (no field at the request line, no body
before the headers end), `LiveAreFields` and `LongAreLive` what is in `headers_` while
lines are still being read, `StandardIsExact` the same of the first message. That a
name has a first field is part of the invariant (`AllHaveFirst`), since it would
take an induction to show it of any sequence; `OneMoreField` is how it grows.

`SocketInputProofs` proves `TypeOK`, `NothingLost` and the safety part of `ByteChannel`
(`ChannelImplemented`) for any characters, buffer and return values of `::read()`.
`InPlace` is `NothingLost` character by character: each position of what was sent
is a position of what was got, of the area or of the wire. From it, an empty area
and an empty wire mean that the reader has got everything, which is what the
refinement needs at the end of the connection.

`SocketOutputProofs` proves `AreaHoldsLatest` and `SyncSendsArea` of the put area, from
`AreaMatches`, the same character by character, and shows that a program that
writes responses only takes steps of the put area (`RepliesUsePutArea`), so that both
hold of `Reply` for any responses, failures and flushes.

`SequenceLemmas` is what the proofs about parsed and formatted text rest on. The
induction theorems of the library cannot be instantiated, but that every set of
natural numbers has a least element can be cited; `Induction` is the rule for a
set of numbers that follows from it, and a proof by induction puts the set of the
numbers of which the claim is true in its place. From it come the recursive
function inside `FlattenSeq` (`ConcatsExist`, `FlattenSeqDef`), what one more
sequence adds (`FlattenSeqAppend`, `FlattenFirstStep`), and where each one stands in the
result (`FlattenSeqPlace`). The models filter with `FlattenSeq` (`NonEmpty`, `Cuts`)
for this reason: the prover cannot expand `SelectSeq`.

`UrlCodecProofs` proves for strings of any length that `encode()` is injective
(`EncodeInjective`: a code is one character or three that begin with `%`, and
no code is the beginning of another), that `url_decode_iterator` stays in step with
it (the invariant says between which two codes the pointer is), and that `decode()`
copies up to the first escape and checks it.

`UrlProofs` proves `TypeOK`, `PartsInOrder`, `PartsAreClean` and `PathIsWhole` of urls of any
length, with any number of operations. `IsFound`, `IsCuts` and `IsPieces` say what
the searches of the parser return; `AuthorityProperties`, `PathIsOk` and `ParamsAreOk`
what the four parts of `decompose()` do. The inductive invariant is `Shape`: the string
decomposes, all views but those of the path are those of its decomposition, and
the path is what `parent()` left of one (`PathOk`, which `Front` keeps). `Layout` puts
the views between offsets that ascend, from which their order follows at once. The
condition `QueryOk` is needed for it: only a parameter with a key lies in the
query, since the key of one without is the null view.

The last part of `UrlProofs` proves `SlashAddsSegment` and `ParentUndoesSlash` for strings
and names of any length. They relate the decompositions of two strings, `s` and `s`
with a slash and a name inserted where its path ends (`With`), and `SegmentAdded` says how
they differ. A part of a string is cut into pieces in one way only (`PiecesUnique`), so it
is enough to exhibit the pieces of the longer string: in front of the insertion
nothing changes, the colons, slashes and at signs that the parser looks for included
(`FoundInFront`, `SchemeStays`, `AuthorityStays`); behind it everything stands further back
by the same number of characters (`FindShifted`, `PiecesShifted`, `ParamsMove`,
`FragmentMoves`); and the path has one piece more (`PathGrows`, `PiecesAppend`). The last
needs both ways in which a path can end, since its last piece is kept only at the end
of the string (`PathPlace`). The inductive invariant, `AInv`, adds to `IInv` that a url that does
not come from `parent()` is the decomposition of its string (`Built`; `Shape` allows
more), and that the last `/` with a name made `url` of `before` by such an insertion
(`Appended`), which includes that it did not throw.

`SocketOutputProofs` also proves `ReplyTypeOK` and `GoodMeansPut`: the invariant `Missing` says
that what was put, followed by some rest, is the text of the responses, and that
the rest is the queue while the stream is good (`MoveOne` is a step of it).
`ClientReads` then proves `ClientReadsResponses` for any number of responses, headers and
contents. `Client` is a fold, which the library defines by a recursive function on
sets of positions: `ClientStep` shows that one token more is one `Take` more. By
induction over headers (`ReadsHeaders`), a content (`ReadsContent`) and responses
(`ReadsFirst`), the client is in front of a message again after each response that
has a body, and has read it as `Message` says; `TextKeeps` is that no text that
follows, framed or not, changes a message that has been read. The assumption
`ResponseAssumption` says what a response is: a version that is no negative number, a
sequence of headers, and a body or none. Nothing is assumed of header names: the
body's own Content-Length comes last, and this client goes by the last one.
`HttpRequestProofs` has `TypeOK`, of which the path without its empty segments was the
hard part.

Only model-checked: liveness, which is out of the prover's reach, that is
`PendingIsProcessed`, `PendingWorkerExits`, `FirstMessageReturns`, `Terminates`, and what
fairness adds to the two refinements (`KeepsPromises`, with `CallsReturn` in it, and
`ImplementsChannel`). Every other property of a passing run
is proved.

## Not modelled

* Use of a good stream without a buffer, which dereferences a null pointer, and an
  exception out of the worker's `stream_ = {}`, which ends the program.
* Which connection the characters in a stream's areas belong to when `socket()` is
  used to replace the socket inside.
* `url::query()` and the comparisons, which change nothing. (`query()` decodes its key,
  by the `decode()` that `UrlCodec` models, and looks it up among keys as written; it
  is `noexcept`, and `decode()` throws.)
* The tables of header names and content types and their searches: constants.
* A server: nothing in `src/` composes `server_socket` with `request_processor`.
* Signals: SIGPIPE ends a process that writes to a closed connection.
* `cppws.cpp`, the build, the tests; the cell architecture of `docs/arch.md`, a
  design without code.
* What else races with the assignments to `stream_` (see `RequestProcessor`).
* Memory: the arena of `http_request` only grows.

## Plan

In order of weight; all are done.

1. `RequestProcessor` and `RequestProcessorProofs`.
2. `HttpRequest`, over a reused object.
3. `Socket` and `SocketProofs`.
4. `ByteChannel`, `SocketInput`, `SocketOutput`.
5. `UrlCodec`, `Url`.
6. `RequestSlot`, refined by `RequestProcessor`.
7. `SocketStream` and its half of `SocketProofs`, in place of runs of `Socket` alone.
8. `HttpResponse` and `Reply`, over `SocketOutput`.
9. `HttpRequestProofs`, `SocketInputProofs`, `SocketOutputProofs`.
10. `SequenceLemmas`, `UrlCodecProofs`, `UrlProofs`, and the types of `HttpRequest` and `Reply`.
11. `ClientReads`, by induction over what the client reads.
12. `SlashAddsSegment` and `ParentUndoesSlash` from the pieces of a string before and
    after the place of the insertion.
