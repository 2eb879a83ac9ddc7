# Elysian HTTP server: TLA+ specification

Elysian is an embedded HTTP/1.1 server in C: a single-threaded cooperative
scheduler, an HTTP state machine per connection, an MVC layer that calls the
application, four file systems, and websockets. It runs under a hard cap on
memory, so almost every step may fail with `ELYSIAN_ERR_POLL` and be tried
again later. That is where the difficulty of this code lies: each state can be
interrupted by a timer, an abort, an allocation that fails, input that ends in
the middle of a token, output that is reported late, and whatever was half done
must be finished or undone.

This directory models the server in six parts that meet at the interfaces the
code has: a connection, the scheduler and its clients, the RAM file system and
its users, the body of a request on its way into a file, a websocket, and a page
with attributes. TLC checks each of them on small instances; TLAPS proves every safety
property of all parts, and all four refinements, for every instance.

## 1. The system

| Part | Source | State | Operations | Made correct by |
|---|---|---|---|---|
| HTTP state machine | `elysian.c` | `elysian_client_t`: input, store list, request, files, status codes, attempts, resource, response buffer, counters | one function per state, one branch per event | each request is read whole, answered at most once, reported once; nothing of it survives into the next one; everything is released when the task quits |
| Scheduler | `scheduler.c` | list of tasks, each with state, new state, poll/timer/output clocks, priority, rx and tx cbufs | visit tasks, throw events, wait for sockets, advance clocks, accept, remove, abort when everybody starves, stop | every event is thrown at a state that handles it; output is written in order; no task starves or keeps a slot for ever |
| Input stream processors | `isp.c` | a scanner per request part | headers, raw body, chunked body, multipart, websocket frames | no processor takes more than its part |
| HTTP request / response | `http.c` | request line, ranges, credentials; response headers | parse, parameters, build | every outcome leaves the client in a state the next step expects |
| MVC layer | `mvc.c` | `elysian_mvc_t` | pre and post configuration, built-in controllers, attributes | a controller completes at most once |
| Resources | `resource.c` | open file, attributes, position | open, size, seek, read, close | open exactly in the states that use it |
| Websockets | `websockets.c` | flags, timers, lists of frames | entry, read, poll, timers, send, close | ends, and releases its frames |
| File systems | `fs.c`, `strings_file.c` | RAM files with handle counts; ROM, EXT, VRT | open, read, write, remove | a removed file is not reachable and not leaked |
| Chained buffers | `cbuf.c` | linked buffers, reference counts | alloc, split, list, copy, free | content is kept by splits and partial writes |
| Memory cap, sockets | `os.c` | bytes in use | malloc, free, read, write | use stays below the cap |
| Port, strings, digests, demo | `elysian_port.*`, `strings.c`, `sha1.c`, `examples/` | none of the server's | system calls, byte functions, application code | |

How they interact. The scheduler owns the thread. In a *pass* it visits every
task: POLL if its poll clock is zero, TIMER1 and TIMER2 if theirs are, then it
writes queued output and throws SENT when the last cbuf is taken by the socket.
After the visits it removes finished tasks and, if every polling task is backing
off, aborts one of the lowest priority. Then it waits for socket events
(accept, READ, ABORT for a closed peer) and advances the clocks. A state function
never blocks; it reacts to one event, and asks for another state by
assigning `new_state`, which `elysian_schdlr_throw_event` enters before it
returns: clocks off, ENTRY thrown. Application code is called back from
`mvc_pre_configuration`, the release of a request (onservice) and the
websocket states. The hard behaviours are therefore not threads but the order of
events: output of one state reported in another, timers that expire with
output queued, aborts in the middle of a retry, pipelined input that is already
there, and partial failures at the cap.

`PROJECT.json` lists the components with their status, and the hazards, each
with its line and the properties that watch it.

## 2. Modules

| Module | What it is |
|---|---|
| `RequestCycle` | abstract: what a connection promises its peer |
| `Connection` | one scheduler task with its HTTP and websocket states, and its environment |
| `ConnectionCycle` | refinement mapping `Connection` to `RequestCycle`, and the invariant that carries it |
| `Scheduler` | the task list of several clients, their memory, starvation, the sockets, the clock, stop |
| `FileStore` | abstract: what a file system promises: a directory, and views that do not change under a reader |
| `RamFs` | the RAM file system: definitions, handle counters, reading across cbufs; a `FileStore` |
| `RequestFiles` | the clients that use `RamFs` (by INSTANCE): header and body files, views, the files of a controller |
| `Slices`, `Cbufs` | a part of a sequence, an iteration; chained buffers: search, cutting, splitting |
| `BodyFormat` | reference: what a stream is as a body when it is read at once: its chunks, its parts |
| `BodyTransfer` | abstract: a body becomes the content of a file |
| `BodyStore` | the processors of raw, chunked and multipart bodies and the store loop; a `BodyTransfer` |
| `FrameFormat` | reference: what a stream is as websocket frames when it is read at once |
| `WebsocketFeed` | abstract: what an application hears of a websocket |
| `Websocket` | the frame processor, the handling of frames, pings, closing and the application's handlers; a `WebsocketFeed` |
| `DynamicPage` | the expansion of attributes in a page, its size, a part of it, its buffers |
| `MC...` | the module TLC is run on, with the values that are not plain numbers: requests, conversations, pages |
| `ConnectionProofs` | theorems on `Connection`: types, states, events and the refinement; what happens to one request |
| `SchedulerProofs` | theorems on `Scheduler`: list, starvation, memory |
| `RamFsProofs`, `FilesProofs` | theorems on `RamFs` and its refinement of `FileStore`, on `RequestFiles` |
| `BodyProofs` | theorems on `BodyStore` and its refinement of `BodyTransfer` |
| `PageProofs` | theorems on `DynamicPage` |
| `WebsocketProofs` | theorems on `Websocket` and its refinement of `WebsocketFeed` |
| `DataLemmas` | lemmas on sequences without repetition, on sums over a finite set, on slices and the contents of lists of buffers, on what a search and a cut of such a list return |

An operator whose comment begins with "Mutant:" stands next to the definition
it is a broken variant of. No specification uses it. `PROJECT.json` lists which
property notices when it takes that definition's place.

### 2.1 Connection (`elysian.c`, `http.c`, `mvc.c`, one task of `scheduler.c`)

* `task` is `elysian_schdlr_task_t`, `client` is `elysian_client_t`. Field names
  follow the code, shortened. `client.owned` is the set of pointers that are not
  NULL, for those whose release is a concern (`url`, `params`, `mvc`,
  `resource`, `cbuf`). `headers_file` and `body_file` are the two RAM files of
  a request, and `store` says whether the store list holds data.
* `pass` is the place of the scheduler loop with respect to this task: `poll`,
  `timer1`, `timer2`, `tx`, `finish`, `sockets`, `time`. `ev` is the event being
  handled; while it is not `none` the scheduler does not go on.
* One branch of a state function is one action, with every call it makes. The
  loop of `elysian_schdlr_throw_event` is `Settle`: it enters `new_state` and
  throws ENTRY, or frees the task's buffers for state NULL. `Return` is the
  return of a handler.
* ENTRY is the same in nine states (start the timer, ask for a POLL, check what
  must be empty): `EnterWorking`. READ is ignored in every state that does not
  want input (`IgnoreRead`), TIMER1 and ABORT drop the connection (`GiveUp`).
  Any other event reaches `ELYSIAN_ASSERT(0)`: `UnexpectedEvent`.
* `halted` is the assertion that stopped the server: `ELYSIAN_ASSERT` prints
  and spins for ever, so a failed one ends the behaviour.
* `seen` is history, used by properties only: answers to expectations, responses
  started, controllers completed, onservice handlers registered and called.
* Input is a sequence of *units*: a request head (by kind of request), a piece
  of body, junk. A header processor takes units to the end of a head, a body
  processor as many as the framing announces (one for a raw body, a chunk
  and the last-chunk line for a chunked one). A response is one unit of head
  and up to `MaxBody` units of body, moved through buffers of `BufUnits`.
* Any allocation may fail: each place where the code tests for
  `ELYSIAN_ERR_POLL` has that outcome (`TryLater`: back off for a tick). So the
  other connections, which use the same memory, are part of the environment; so
  is the choice of this task as the one to abort (`Starve`). `Scheduler` has both.
* `elysian_client_cleanup` succeeds (`Cleaned`) or is refused (`Refused`): while another
  client serves the headers file, `fs.c:279` does not remove it, but has taken it off
  its list (`headers_file` is `"unlinked"`). `keepalive` and `http_disconnect` then stay
  as they are and poll again (`CleanupRefused`), and the second try fails the assertion of
  `fs.c:275` (`CleanupRetried`); on the way into a websocket the refusal itself is an
  assertion (`WebsocketUncleaned`). Who serves the file is up to the environment here, and
  an action of `RequestFiles`.
* A store call to an external disk that may fail may also return what the state does not
  expect, an assertion (`StoreResultUnknown`). A websocket service without a connected
  handler is refused with its definition set (`WebsocketEntry`).
* A new client is uninitialised memory in the code. The fields the code assigns
  before use start with their first value, the two it may read before
  (`head`, `upgrade`) are chosen freely.

`RequestCycle` has a phase (`free`, `idle`, `receiving`, `serving`, `talking`,
`closing`) and a count of answers. A state of the code is mapped when it is
asked for (`new_state`), which is when the previous handler has done its work.

### 2.2 Scheduler (`scheduler.c`)

`tasks` is the list, `togo` what the loop in progress has still to visit: the code
saves the next task before it runs a handler, and visits a task that quit a second
time to remove it. `place` is where `elysian_schdlr_poll` is: the visits, the
sockets (accept first, then reading), the clock. A client is reduced to what the
scheduler sees of `Connection`: it waits for a request or polls to store it, polls
for memory and then for its controller, polls to release the memory, polls to quit, or has quit.
`Wait` is a handler that is told to wait and backs off: for want of memory, or because a
controller or an external file asks to be called again, which is a free choice in every poll
of the first two states. The scheduler sees no difference between the two. `refused` and `told`
are history, used by properties only: who was told to wait since the detection began, and whether
memory was free when somebody was. `used` is `elysian_mem_usage_bytes`; the
memory for the next client is set aside before the wait and given back after it
(`reserve`). `EndOfPass` is one action, as in the code: detection, abort of the lowest
priority, rotation. The state timers are left to `Connection`, so that what is
shown holds without their help.

### 2.3 Files (`fs.c`, `os.c`, the file handling of `elysian.c`, `mvc.c`, the demo)

In `RamFs`, `heap` maps addresses to definitions; an address that is freed
can be allocated again, under another name. `file_ram_def` is the list, searched by
walking it (`Find`), `file` the `elysian_file_t` of every user. Opening for writing
replaces an idle file of that name; removal takes the file out of the list before it
looks at the handles, as the code does, so that a refused removal leaves memory that
no name leads to. `Copied` is the loop of `fread` over the cbufs.

`RequestFiles` has the users: `Create`, `Store`, `CloseStored`, `Reopen` follow
`elysian_store_cbuf_to_file` and the states after it; `DefaultView` is
the file named by the URL (`mvc.c:153`); `App...` is `controller_ajax` with its
onservice handler (`examples/api_demo/main.c:581-628`); `CleanClose` and `CleanRemove`
are the clean up of a client. Every stage leads to the clean up, since a request
can be given up in all of them.

### 2.4 Bodies (`isp.c`, `cbuf.c`, `elysian.c:113-310`)

`Cbufs` has a list of buffers as a sequence of non-empty sequences of bytes; the
search keeps the code's way of stopping at the first index at which no byte
differs, even when the list ends there. `BodyStore` runs a poll in small steps
(`pc`): the processor of the framing, the multipart processor, the store loop.
Tokens are modelled as bytes, since the questions are about where pieces of input end: a
chunk size, a line end, a boundary may be cut anywhere. Cutting a cbuf, allocating a
parameter, a write or the file may lack memory; a file on the external disk may take
a part of a write, or fail. A body that is stored is followed by bytes
of the next request.

`BodyFormat` reads a stream as a whole: `Chunks` goes from chunk to chunk, `Parsed`
from boundary to header to boundary. What a request of `Requests` announces as its content,
its parts and its rest is what `BodyFormat` makes of its stream (`RequestsAssumption`,
which TLC evaluates for the instance), and the processors, which see the
stream in pieces, are compared with that.

### 2.5 Websocket (`websockets.c`, `isp.c:703-868`, `elysian.c:1122-1219`)

`Header`, the lengths, `Mask` and `Payload` are the states of the processor,
with the masking key and the exclusive or of the payload, which is defined by
the bits of a byte. `FrameFormat` reads a stream as a whole: `Starts` goes from frame to
frame, `FramesOf` is what they hold. The frames of a session are those of its stream
(`SessionsAssumption`, which TLC evaluates for the instance), and the processor, which sees
the stream in pieces, is compared with that. Then the queued frames
are handled (`flags` as in the code), then output is queued and the poll answered.
`poll_request` holds anything when the code has not assigned it. The application's
handlers may send a frame, ask for the end, arm the timer. Time is abstract: an
armed timer may expire whenever no handler runs. `Connection` has the same states
with frames reduced to units; `Websocket` has one connection from the handshake on.

### 2.6 Dynamic page (`resource.c:75-340`, `mvc.c:259-311`, `elysian.c:1020-1080`)

`ReadReplacement`, `ReadFill`, `ReadTag`, `ReadByte` are the branches of
`elysian_resource_read_dynamic` in the order of the code; the last two bytes of a full
search buffer are kept back (`shadow`), as they may begin a tag. The page is read
three times: to learn its size, up to the first byte asked for, and to send it. How many
bytes a read asks for is free in each step, as it depends on memory.

## 3. What the runs check

| Run | Question | Properties |
|---|---|---|
| `conn_pipelined` | requests without a body, the next already received: is the promise kept | `NothingLeftBehind`, `OneResponse`, `ControllerOnce`, `ResourceOwnership`, `ServedExactlyOnce`, `ImplementsCycle` |
| `conn_mixed` | requests with bodies and expectations: is the connection reused in the right place | `ExpectationAnswered`, `ReuseAfterWholeRequest`, `ReuseAfterWholeResponse`, `ControllerSeesWholeRequest` |
| `conn_live` | requests for a websocket, refused or not: does the work end, under fairness, and is everything released | `NothingLeaked`, `NeverUnattended`, `AnswerEnds`, `SlotReleased` |
| `scheduler` | three clients and memory for one of them: are list and counts sound, who is aborted and when, does starvation end, is every client served in turn | `TaskListSound`, `MemoryLedger`, `NoDeadTaskAtSockets`, `AbortOnlyStarved`, `StarvationEnds`, `EveryoneFirst` |
| `ramfs` | two users of two names in any order | `HandlesCounted`, `ListSound`, `ReadsMatch`, `ImplementsStore` |
| `files` | two clients with their files, serving each other's | `RequestIntact`, `EveryFileOwned`, `OnlySharingLoses` |
| `body` | bodies in every framing, cut into pieces, with failures | `TypeOK`, `BytesConserved`, `RestUntouched`, `PartsFound`, `ImplementsTransfer`, `BodyEnds` |
| `websocket` | conversations cut into pieces, with failures | `ImplementsFeed`, `NothingSentAfterClose`, `AllHeard`, `ClosingEnds` |
| `page` | pages of text, tags and parts of tags, whole, in part, chunked | `SizeExact`, `SentExact`, `ResponseEnds` |

These pass. Three runs state what a comment of the code says, and show a behaviour
that contradicts it:

| Run | What is said | What the code does |
|---|---|---|
| `doc_handshake` | the handshake is aborted if the service is not available (`websockets.c:36`) | the 404 is sent, then the websocket state is entered because an upgrade was asked for |
| `doc_trailer` | the last chunk is followed by an empty line or by headers and an empty line (`isp.c:165`) | the state that takes them is skipped; the line begins the next request |
| `doc_close` | a close frame is sent if the application or the peer asked for the end (`websockets.c:231`) | it depends on a flag that nothing sets |

The models contain the behaviour of the code in these cases too, so the passing
properties hold in spite of it. Where an assertion fails the server hangs
(`halted`, or the phase "hung" of a page), and properties that speak of what follows
are stated for a server that runs. The exceptions a property makes are in its
comment: `NothingLeftBehind` allows the assertion on an empty output queue (`scheduler.c:514`)
to a client that disconnects and whose clean-up was refused, `AbortOnlyStarved` an abort with memory free when a client was told to
wait for something else, `OnlySharingLoses` says when a file is lost, `BodyEnds` leaves out a
disk that interrupts a write inside a cbuf, `ResponseEnds` a chunked page that ends
with a full buffer.

### Bounds

* `conn_*`: `Timeout = 2` ticks of a poll backoff: a step can be retried before it is
  given up, and can run out at any point of a retry; time advances by 0 to
  `Timeout` in a pass, so clocks expire alone or together. `MaxTx` 2 lets an
  expectation be answered twice, and a frame wait behind another. `MaxIn` 2 is a
  request and the one behind it; `MaxHeader` is below it, so that a head can be too
  long. `BufUnits = 2`, `MaxBody = 1`: memory may leave room for the head
  only or for head and body, so there is a buffer of body only, one that is
  full, and a body that ends on the boundary. `Heads`: the kinds of request meet
  only through what the previous one left in the client, and that is free in a new
  client. A chunked body stands for bodies (a raw one is one piece instead of a chunk
  and a line, and in `body`); a response without a body, as to HEAD, occurs because the
  code may read the flag for it before it is set. A refused upgrade is answered with a
  page, so that `conn_live` has the whole of the response states. The number of
  requests, retries and successive connections is not bounded.
* `scheduler`: 3 clients of 2 units with requests of 3 more, in 8 units of memory:
  two clients fit with one of them served, so that two compete, both starve, and a
  third is accepted or rejected. `Interval = 2` makes a backoff that doubles once.
  `MaxArrivals = 4` bounds connections and requests together: the slots fill up and one more
  connection is rejected, a slot is used again after its peer closed, or two clients with
  requests starve each other. What is proved of this module (section 4) does not have
  this bound; the two liveness properties do.
* `ramfs`: two handles on two names, three definitions: one more than names,
  so that a removed file that is still open, its replacement and another
  file exist together. Pieces of one and two bytes and reads of up to three end
  inside a cbuf, at its end and beyond it.
* `files`: two clients, each may serve what the other one stores; three
  definitions for the five files that may be wanted: a client with both of its files, or
  with one and the file of a controller, beside another that serves one of them.
* `body`: bodies of up to four bytes, two parts, two chunks; pieces of 1, 2 and 5
  bytes cut every token at every place. Up to two pieces arrive between polls. One
  denial of memory: it may hit every allocation, and a retry that works follows;
  two in a row differ only in the number of polls.
* `websocket`: pieces of 4 and 9 bytes cut every frame in every field; seven
  conversations with the three forms of length, empty, control and reserved frames,
  and malformed ends, one of which announces more than the memory cap.
* `page`: three pieces out of eight (text, `<`, the prefix, the suffix, tags that
  are short, fit exactly into the window of 8 bytes, are one byte too long, or have no
  name); reads of 2 and 7 bytes, one below the window and one near it; a value that
  looks like the beginning of a tag.

Symmetry is used in the two runs without liveness whose sets are not
ordered (`ramfs`, `files`). Deadlock is checked except in `ramfs` and
`files`, where a failed assertion stops the server and the clients of `files` may have
written all they may, and in `page`, which ends when the page is sent.

### Fairness

* `Connection`: weak fairness of handlers and scheduler together: the server loop
  calls its visits in order and never stops. It is not assumed of a
  handler, of the socket or of an outcome: memory may be short for ever, a peer may
  never send or accept a byte. `SF_vars(ClockTicks)` says that time is not zero
  in every pass for ever. The timers of the states do the rest. `AnswerEnds` does
  not promise an answer.
* `Scheduler`: the same: `WF_vars(Next)`, and strong fairness of time passing. No
  fairness of arrivals, of outcomes, or of the memory: `StarvationEnds` rests on the
  detection and the rotation alone.
* `BodyStore`: a handler runs to its end, the scheduler polls whoever asked for it,
  and the peer sends what it announced. `BodyEnds` is about what the server does then.
* `Websocket`: the same, and strong fairness of reading and of the socket taking
  output, since each pass looks at the sockets although other things are enabled and
  disabled in between. The timers are not fair: an end that needs one would be found.
* `DynamicPage`: the response is polled until it is sent.

## 4. What is proved

For every value of the constants that satisfies the assumptions of the modules:
`Infinite` is not a number, bounds are naturals, `Timeout` is at least 2,
`BufUnits` at least 2 (the head and one unit of body fit), pieces are not empty, the
null pointer is no address, the set of users is finite, the sizes of the scheduler are
naturals (its slots, its interval, and what a client and a request take are not zero).
Addresses are numbers in `RequestFiles`, so that there is a first free one.
A request of `BodyStore` is any stream of bytes with what `BodyFormat` makes of it; only the
parts of a multipart body must all have an end, since a part without one has a size the
code computes wrong (`isp.c:316`). A page of `DynamicPage` is any sequence of strings, with
any values; a range does not end before it begins (`http.c:188` refuses such a head); the
window is larger than a tag's prefix with the two bytes kept back (it is 127 in the code),
and no read is of zero bytes. A session of `Websocket` is any stream of bytes with the frames
`FrameFormat` finds in it, malformed ends included.

| Theorem | Statement |
|---|---|
| `ConnectionProofs!TypeCorrect` | `Spec => [](TypeOK /\ BodyWithinLength)` |
| `ConnectionProofs!CycleInvCorrect` | `Spec => []CycleInv` |
| `ConnectionProofs!OwnershipCorrect` | `Spec => []ResourceOwnership` |
| `ConnectionProofs!OneResponseCorrect` | `Spec => []OneResponse` |
| `ConnectionProofs!CycleImplemented` | `Spec => ImplementsCycle` |
| `ConnectionProofs!NothingLeftBehindCorrect` | `Spec => []NothingLeftBehind` |
| `ConnectionProofs!WholeRequestCorrect` | `Spec => []ReuseAfterWholeRequest` |
| `ConnectionProofs!WholeResponseCorrect` | `Spec => []ReuseAfterWholeResponse` |
| `ConnectionProofs!ExpectationCorrect` | `Spec => []ExpectationAnswered` |
| `ConnectionProofs!ControllerOnceCorrect` | `Spec => []ControllerOnce` |
| `ConnectionProofs!WholeRequestControlled` | `Spec => ControllerSeesWholeRequest` |
| `ConnectionProofs!ServedOnceCorrect` | `Spec => ServedExactlyOnce` |
| `ConnectionProofs!NothingLeakedCorrect` | `Spec => []NothingLeaked` |
| `ConnectionProofs!NeverUnattendedCorrect` | `Spec => []NeverUnattended` |
| `SchedulerProofs!TaskListCorrect` | `Spec => []TaskListSound` |
| `SchedulerProofs!NoDeadTaskCorrect` | `Spec => []NoDeadTaskAtSockets` |
| `SchedulerProofs!AbortCorrect` | `Spec => AbortOnlyStarved` |
| `SchedulerProofs!LedgerCorrect` | `Spec => []MemoryLedger` |
| `RamFsProofs!HandlesCorrect` | `Spec => []HandlesCounted` |
| `RamFsProofs!ListCorrect` | `Spec => []ListSound` |
| `RamFsProofs!StoreImplemented` | `Spec => ImplementsStore` |
| `RamFsProofs!RamTypes` | `Spec => []TypeOK` |
| `RamFsProofs!ReadsCorrect` | `Spec => []ReadsMatch` |
| `FilesProofs!UsesFileSystem` | `Spec => Ram!Spec`, the specification of `RamFs` |
| `FilesProofs!RequestIntactCorrect` | `Spec => []RequestIntact` |
| `FilesProofs!OwnedCorrect` | `Spec => []EveryFileOwned` |
| `FilesProofs!LossesCorrect` | `Spec => []OnlySharingLoses` |
| `BodyProofs!BodyTypes` | `Spec => []TypeOK` |
| `BodyProofs!BodyBytesConserved` | `Spec => []BytesConserved` |
| `BodyProofs!BodyRestUntouched` | `Spec => []RestUntouched` |
| `BodyProofs!BodyPartsFound` | `Spec => []PartsFound` |
| `BodyProofs!BodyImplementsTransfer` | `Spec => ImplementsTransfer` |
| `PageProofs!PageTypes` | `Spec => []TypeOK` |
| `PageProofs!PageSizeExact` | `Spec => []SizeExact` |
| `PageProofs!PageSentExact` | `Spec => []SentExact` |
| `WebsocketProofs!WebsocketTypes` | `Spec => []TypeOK` |
| `WebsocketProofs!FeedImplemented` | `Spec => ImplementsFeed` |
| `WebsocketProofs!NothingSentAfterCloseCorrect` | `Spec => NothingSentAfterClose` |

**Connection.** `TypeOK` is not inductive alone: the body processors subtract what
was taken from what the request announces, so it needs `BodyWithinLength`; the two
are proved together, one lemma per handler. The lemmas at the head of
`ConnectionProofs` say which operators keep the type of the task and of the
client, so the proofs of the handlers do not open those records.
`OneResponse` is not inductive at all: nothing local prevents
`build_http_response` from running twice. It follows from `CycleInv`, which ties
three things: output is queued only in the states that queue it; an event
SENT finds the queue empty; and while a request is served, the buffer with the
head of its response is either still held or was queued exactly once. That the
last part is kept needs to know who holds the buffer in which state
(`ResourceOwnership`), which needs the agreement of state and event. The
refinement is one lemma per group of handlers.

**One request.** `RequestInv` is inductive given the two invariants above. Its parts need
each other, so there is one induction with a lemma per handler:
* `StoredInv`: how far the request is stored in each state. From the end of the
  reception on it is `Whole` (the processor of the body is done, it got what was
  announced, both files can be read, nothing waits to be stored), unless the request is to
  be answered with an error and the connection closed. `ReuseAfterWholeRequest` and
  `ControllerSeesWholeRequest` follow.
* `ControlledInv`: the page of the application is only prepared as long as no attempt was
  made, and an attempt that failed falls to another kind of page; hence `ControllerOnce`.
* `ServedInv`: what the client remembers as its onservice handler is what this request
  registered, until it is called and the count is one.
* `LengthInv`: what was sent, what is queued and what the resource still holds add up to
  what was announced. Bytes move from one to the other in different states, so every state
  of the response has its own equation; the last one is `ReuseAfterWholeResponse`.
* `ExpectInv`: with an expectation pending, output is queued only by an answer to it.
* `ReleasedInv` and `ClockInv`: what a client holds when it quits, and which clock wakes
  a connection up. Both need `TxInv`: a network clock that runs without output means that a
  write failed, and the connection is then gone (`Dying`) before its output is looked at, unless
  its clean-up was refused. That exception is what `NothingLeftBehind` says of the output queue;
  its other assertions follow from `StoredInv`, `ControlledInv` and `ResourceOwnership`.

**Scheduler.** The invariant is `TypeInv`, `Listed` (the list is without
repetition and holds exactly the clients that are there), `StillToVisit` (what a
loop has still to visit is in the list, without repetition) and `DeadVisited` (a
task that has quit is still to be visited while tasks are visited, and there is
none otherwise). The second and third are needed
for the fourth: a task can only be removed because the loop that killed it comes
back to it, and the list it comes back to is still the one it walks. That `Accept`
finds a slot is the pigeonhole on a list without repetition, that the task to abort
exists is well-foundedness of the positions.

`AbortOnlyStarved` adds `Numbers` (clocks and memory), and what is known once a
detection has begun. `RefusedInv`: a client that backs off in a working state was told to
wait since then, or its backoff is older than the detection and so over before the detection is
(`Aging`). As long as nobody was told to wait with memory free (`told`), `PassInv` says of a pass:
a task that was visited will be polled in the next one, which ends the detection; or there is
memory, and every backoff ends before the detection does or a task still to be visited is to be
polled; or there is none, and every client that is leaving comes before one that polls for memory
(`Followed`), so that the one has given its memory back when the other is visited. `SocketInv`
says the same of the wait, with the memory set aside for the next client. The delicate part is
`ReadInv`, about the peers that close while others send: noticing one needs memory, so
there was some when it was noticed, and a read that takes the last of it comes later in
the list. This holds because sockets are read in the order in which tasks are visited.

`MemoryLedger` is `Ledger`: `used` is `reserve` plus the sum over the clients. That a sum
changes with one of its terms is shown by a smallest counterexample among the finite sets
(`DataLemmas`), since the induction theorems of the library cannot be instantiated.

**RAM files.** The counters decide when memory is freed, so `HandlesCounted` must say
they are cardinalities of sets of users. It is inductive with `NamesUnique` (no two
definitions of the list share a name), `OpenFiles` (an open file points to an allocated
definition, in the mode its counters allow) and `Named`.
`StoreImplemented` restates the mapping, which the code computes by walking the list,
in terms of the set of listed definitions; then there is one lemma per operation,
each in two halves: what it does to the directory, and that no view but its own
changes. The last section of `RamFsProofs` states what an operation does in the terms
of a user: what is listed afterwards, which names and which contents are what they were.

`ReadsMatch` is about `fread`, two loops over the cbufs of a file: one skips those before
the position, the other copies, and starts every cbuf but the first at its beginning.
`SkipsAll` and `CopiesRight` give their results: the first ends at the cbuf that holds the
position, the second has after each cbuf the bytes of the file from the position on.
Beside it `Positions` is inductive: a file open for reading stands inside its content,
and nothing else has a position.

**Bodies.** The question is where a processor stands, so the invariant says so in terms
of `BodyFormat`. `Received`: the bytes in `rcv` are those of the stream that
arrived and were not taken. `FirstPlace`: there is a number of chunks such that what was
taken ends at a definite place of the next one (before its line, in its data, before its line
end), and everything that was handed on, which is what was written, what waits in the
store list and what the multipart processor holds, is the data up to that place. `SecondPlace`
says the same of the parts, over that content: the bytes the multipart processor holds
begin where the reference reading stands, and it has noted the same parts. `Scalars`, `Lists3`
and `Sizes` hold the types, the offset into the first cbuf and the size still to be stored.

A processor that waits keeps its input, which is longer on the next try; so each step
needs that a search in what has arrived finds what a search in the whole stream
finds, or nothing yet. For the boundary this is delicate: the code gives up bytes as data
as soon as they cannot be the beginning of one, and keeps the rest. At the end of the
body the reference reading is at its end as well (`RestUntouched`, `PartsFound`), and the
steps of the file are those of `BodyTransfer`.

**Page.** `Expansion` is computed byte by byte over the page; the code sees a window that
moves. `Buffered` says the search buffer is the window of the file it claims to be, with
the shadow of the previous one; `Handed` that the bytes handed out, followed by what
is left of the value being copied and the expansion of the rest of the file, are the expansion
from where the phase began (`SpecPage`). Each branch of the read keeps this: the search
finds a tag exactly where the expansion does, or the bytes it gives up cannot begin
one. `PhaseInv` adds what the three readings of the page have found: the size, then
the first byte of the range, then what was sent.

**Websocket.** As with bodies, the invariant says where the processor stands. `InputInv`: the
bytes in `rcv` are those of the stream that arrived and were not taken. `FeedInv`: there is a
number k of frames received and a number n of frames handled; the processor stands at a
definite place of the frame that begins at `Starts[k]` (its head, its length, its key or its
payload, with what was noted of it so far), the queue is frames n + 1 to k, and there is
one call for the beginning and one for each frame among the first n that the application hears
of. `Handled` adds that as long as the end was not asked for there is no close frame among
them: since a poll that finds the end asked for handles no frame, nothing behind one
is ever reported. `CallInv` has the pairs of beginning and end. `FramesAre` shows that
a payload taken by the processor is the next frame of the reference, `HeardNext` that the call
a handled frame leads to is the one the feed promises next. `ControlInv` says in which part of
a poll a closing websocket can be, from which `NothingSentAfterClose` follows; `LinkInv` that a
ping is only due when there is room for it, for the types.

**Users of the files.** A step of `RequestFiles` is one operation of the file system or
none (`UsesStep`), so the invariant of `RamFs` holds under it, which is
`UsesFileSystem`. Beside it `FilesInv` is inductive. `RequestIntact` alone is not: to
keep the file of a request under a removal by somebody else one must know that no one else
has its name (`Types`: names of requests belong to their clients; `AppInv`: names
of the application are new, and claimed once), that an open file is the one of its name
(`HandleInv`), and in which stage which file may be open (`RunInv`, `StageInv`).
`OwnedInv` follows the owners: it is kept by a removal because the name goes with
the file, and by a creation that fails because nothing of that name was there
(`FreshNames`). `LossInv` and `ShareInv` rest on `OpenedBy`: who removes a file has
closed it, so whoever still has it open serves it from somebody else. For
the body of a request, whose removal is not tried again, the file may then be lost; for the
headers the second removal finds nothing and asserts; `KeptInv` keeps both apart.

**Data of any length.** The theorems of the library that give induction take an operator,
which the prover cannot instantiate. What is needed of sequences and numbers is shown by a
smallest counterexample in a set (`IntervalInduction`), and that a recursive function
satisfies its equation by giving a function that does (`RecursionDefined`); sums, skips,
copies, chunks, parts and expansions all rest on these two.

Only model-checked: liveness (`AnswerEnds`, `SlotReleased`, `StarvationEnds`,
`EveryoneFirst`, `BodyEnds`, `ClosingEnds`, `AllHeard`, `ResponseEnds`), since fairness is
beyond the prover. `TypeOK` of `Scheduler` and `RequestFiles` documents the domains; that of
the others is proved.

To check: `tlc -config body.cfg MCBodyStore`, `tlapm FilesProofs.tla`.

## 5. Not modelled, and why

* The grammar of a request head, URI, base64 and UTF-8 decoding, header search,
  digests, MIME types: functions of bytes without state, which no property here
  tells apart. A head is a unit by kind of request.
* Searching a file for a string (`strings_file.c`) is abstracted to where a boundary
  is, in `BodyStore`.
* The allocator and the comparison helpers of `cbuf.c`.
* ROM data is constant. EXT and VRT files, controllers and websocket callbacks are
  application code: outcomes the interface allows. Of the demo only the controller
  that creates RAM files is modelled.
* The port layer: system calls, without state of the server or a decision of it.

### Seen while modelling

Behaviours of the code that are in the models, or left out of them for the reason
given, and that a maintainer may want to look at:

* SENT reaches an assertion of `http_disconnect` (`elysian.c:1341`) when a timer or
  abort drops a connection with output queued (`Connection`).
* A file that opens with an error other than not found or no memory stops the server
  in `resource.c:396`; a zero-length write stops it at `os.c:188`, which a chunked page that ends
  on a buffer boundary provokes (`elysian.c:1082`).
* The generic status of a response overwrites the one the header processor set
  (`elysian.c:653`, `isp.c:32`); a controller that times out is dropped without the
  response `elysian_internal.h:546-550` announces (`elysian.c:777`).
* A write to the external disk that is interrupted inside a cbuf makes the size to be
  stored too large (`elysian.c:241-243`); the request then waits for its timer (`BodyStore`).
* The file of a controller that another client is serving is not removed, and lost
  (`elysian.c:1251-1255`, `1409-1421`; `RequestFiles`).
* A disconnecting websocket does not arm the ping timer again
  (`websockets.c:510-517`); `poll_request` may be read before it is assigned
  (`websockets.c:418`).
* A websocket service without a connected handler can never be used: the entry of the
  websocket state fails (`websockets.c:553-555`), after the handshake was answered with 101.
  The definition stays set, other than after a connected handler that blocks
  (`websockets.c:547-549`), so that the clean up of `http_disconnect` calls a disconnected
  handler for a websocket that was never connected (`Connection`).
* A clean-up that is refused because another client serves the headers file is tried
  again at once, and then fails the assertion of `fs.c:275` (`Connection`, `RequestFiles`).
  If it was a failed write that ended the connection, the assertion on the output queue
  fails first (`scheduler.c:514`): the write error has emptied the queue and left its clock at
  zero (`scheduler.c:537-542`), counting on the next poll to end the task.
* Clients that wait for a controller or an external file count as starving
  (`scheduler.c:561-568`). When two controllers ask to be called again for longer than the
  detection takes, one client is aborted with memory free, although
  `elysian_internal.h:542` says that the request is not dropped (`Scheduler`).
* An external disk that answers a store call with anything but success, a retry or a
  failure stops the server (`elysian.c:283-285`; `Connection`).
* A single starving task beside idle clients is not detected as starvation
  (`scheduler.c:582`); its own timer ends it. The backoff of output never grows
  (`scheduler.c:535`), and a write error leaves its clock at zero (`scheduler.c:537`).
* Left out, as the value read is not defined: a multipart body that ends right after a
  part's header (`isp.c:277`), and what follows at `isp.c:316`; a size
  line without a digit counts as the last chunk (`isp.c:99`). A failed seek in
  `open_dynamic` keeps its buffer (`resource.c:114-117`). Seeking to the end of a
  RAM file, or in an empty one, fails an assertion (`fs.c:146`; `RamFs`).

## 6. Plan

Done: the six parts above, four abstract specifications with their refinements, and 38
theorems: all safety properties of the six parts, and all four refinements. What is left:

1. Composition: that `Connection`'s environment (`Starve`, `Accept`, `Finish`) is what
   `Scheduler` does to one task, as a refinement of `Scheduler` to a specification of a
   single client; and `Websocket` as a refinement of the websocket states of `Connection`.
2. The files in `Connection` are the ones of one client in `RequestFiles`; a mapping
   between the two would carry `RequestIntact` to the states that read them.
