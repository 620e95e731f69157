# libamanita in TLA+

libamanita is a C/C++ library of containers, text and number helpers, a small
network layer, a game helper library and bindings to several toolkits. This
directory models the parts of it that have a protocol or an algorithm of their
own, checks them with TLC and proves the main results with TLAPS. Paths below
are relative to the repository, `Server.cpp` and the like to
`src/amanita/net/` or `src/amanita/`, headers to `include/amanita/`.

It covers the network layer, which is where threads, sockets, timeouts and
hand-maintained tables meet (the server's tables, the server's two threads, a
client in its sessions, the frames on a stream), and the hashtable that all of
it stands on. What comes next is in "Plan".

## Inventory

### Server: connection registry (`net/Server.cpp`, `net/Server.h`) -- modelled in part

*State.* The listening socket `sock`; the array `sockets` with `sockets_n` and
`sockets_cap` and the `fd_set` it mirrors; `_sockets` (socket to connection),
`_clients` (ID to connection and, in the same table, nick to connection),
`_main` and `_channels` (vectors of connections), and the `ServerConnection`
objects, each with a socket, an ID, a nick, an active flag and its own list of
channels.

*Operations.* The worker's loop (`run`): `accept`, first frame of a socket
(`addClient`), later frames (`SM_GET_MESSAGE`), hang-up (`killClient`,
`removeSocket`). The application's calls, made from the event listener that the
worker runs or while no worker runs: `changeNick`, `createChannel`,
`deleteChannel`, `joinChannel`, `leaveChannel`, `send` to a channel,
`setActive`, `setNick`. `start` and `stop` (`killAllClients`).

*Hard.* Five structures are edited by hand for one connection. The loop goes by
index over an array that its own handlers shorten. `receive` blocks. Descriptor
numbers are reused. The server is stopped and started again with what is left
over from the last run. `send(Channel)` kills members of the vector it walks.

*Correct when* the tables agree with each other; an ID belongs to one live
connection for as long as that lives; a lookup never returns a freed
connection; a connection is listed once in each of its channels; the loop waits
on every client's socket and on no closed one, never blocks on a socket without
input, and reads every client that has sent; the array's memory holds the array.

### Server: lifecycle (`net/Server.cpp`, `net/Socket.h`, `Thread.cpp`) -- modelled in part

*State.* The word `Socket::status` (STARTING, RUNNING, STOPPING and the options
of `setStatus`, in one plain `int`), `Thread::thread`, `sock`.

*Operations.* `start`, `stop(kill)`, `setStatus`; `Thread::start`, `stop`
(join) and `kill` (cancel); the worker's `setRunning(true)`, its loop test, an
error of `select`, a blocking `receive`.

*Hard.* Two threads update one word without a lock. `stop` must end the worker
before it frees what the worker uses, and one that was cancelled is not waited
for. `start` can overlap a worker.

*Correct when* no live worker is forgotten, connections are freed alone, the
loop has its socket, a `stop` that began returns and leaves nothing behind.

### Client (`net/Client.cpp`) -- modelled in part

*State.* The status word and `thread` as in the server, `sock`, the ID and nick
of the client, and on the server's side of the connection whether it is
registered, under which ID, and whether it is active.

*Operations.* `start` connects, sends the hello with ID and nick and creates the
worker; the worker takes the first frame for the server's answer, the ID and
nick agreed upon, and every later one for a message; `send`; `stop` joins or
kills and closes. On the server's side: `addClient` refuses, or registers and
answers; `setActive`; `send` to a channel; `killClient`.

*Hard.* The answer is told from a message by a flag that another thread updates
the neighbours of. Either side may end at any moment. The server does not look at
whether its answer was sent. `start` has no check whether a worker runs. A worker
that ends by itself leaves its socket.

*Correct when* both sides have the same identity; messages arrive from the first
on, in order; a lost answer costs no more than the first message; `stop` returns
and leaves nothing; a registered client learns its identity.

### Socket: framing and cipher (`net/Socket.cpp`) -- modelled in part

*State.* The stream, the sender's place in a frame, the receiver's place (`i`,
`l` in `receive`), the mutex of `Thread`, made on first use.

*Operations.* `send` writes the length into the frame's header (five bytes as
built, the last four of them the length) and the frame to the stream; `receive`
collects a header and then the rest; `send` to a channel does the same under
`lock` and `unlock` and kills the connection that takes less. `XORcipher`, which
is its own inverse while both sides have the same key, is left out.

*Hard.* The stream cuts anywhere; a write may end short; two threads send to one
socket, one with the mutex and one without; the mutex itself is created by
whoever comes first, and can be locked before it is initialised; a listener sends
while the mutex is locked.

*Correct when* frames arrive whole, once and in order as long as the stream holds
frames, only a send without the mutex can mix them, and every call returns.

### Http (`net/Http.cpp`) -- not modelled

A request and a loop over the response's lines and body, chunked or by length.

### Hashtable (`Hashtable.cpp`) -- modelled in part

*State.* The chains and their heads, `cap`, `sz`, `full`, the style (ignoring
case, several entries for a key), and an iterator's node and index.

*Operations.* `put`, `get`, `remove` of a key with or without a value type,
`removeAll`, `merge`, `rehash` (growth and the two style calls), and the
iterator: `first`, `last`, `next`, `previous`, `remove`.

*Hard.* A node hangs in a chain by what it remembers of its key, a lookup goes by
the key itself; growth turns the chains round and recomputes codes; the iterator
removes under itself, and the table changes under the iterator.

*Correct when* it is a map, with multiples where they are allowed; every key in it
is found; it grows before its chains do; a walk comes by every entry once.

### Other collections (`Vector`, `List`, `Collection`, `Dictionary`) -- not modelled

A growing array, a linked list and what is built of them, with removal of values
and of lists of values in place. The server uses `Vector` for its channels and
the connections' lists of channels, of which the registry's model has the push
and the removal of one value.

### ipomoea (`src/ipomoea`) -- not modelled

The C library under the C++ one: another hashtable, vector, string, a big
integer, codecs (base58, base64, rle) and a small interpreter. All
of it is sequential.

### game: `Path`, `Flood` -- planned

`Path` is a stepped search over a grid with an open list in an array and marks
in the caller's map; `Flood` fills a region with a bounded stack. Correct when
a path found is a shortest one and the fill reaches exactly the region.

### Left out

`Map`, `Planet`, `Word`, `Math`, `Random`, `Colorcycle`, fractals and the
astronomy of mandragora are arithmetic on floating point and random numbers.
`String`, `Regex`, `Properties`, `File`, `Wiki`, `Integer` are large data and
little control. `tk`, `gui`, `media`, `db` and `Main` pass calls on to GTK, SDL,
Win32, sqlite and others, whose state they do not keep. `djynn` is driven by an
editor's signals; the scintilla lexers are an editor's. `PROJECT.json` lists
each of them.

### How the parts interact

The application calls `Server::start`; `Thread` runs `Server::run`; that calls
`Socket::receive`, edits the `Hashtable`s and `Vector`s and calls the
application's listener, from which the application calls the server again. The
`Client` is the same on the other end of the stream. The application's thread
and the worker share the status word, `sock` and, after a `stop`, the tables.

## Modules

| module | models | used by |
| --- | --- | --- |
| `ServerRegistry` | tables, channels, sockets, the loop of `run`, peers, application | `MCServerRegistry`, `ServerRegistry_proofs`, `ServerRegistry_refines`, `ServerRegistry_polling` |
| `Registry` | what the server promises of its clients, abstractly | `ServerRegistry` (`Promise`) |
| `ServerLifecycle` | the server's `start`, `stop`, `Thread`, the status word | `MCServerLifecycle`, `ServerLifecycle_proofs` |
| `Service` | what `start` and `stop` promise of a server, abstractly | `ServerLifecycle` (`Promise`) |
| `ClientSession` | the client's `start`, `stop`, worker, `send`, and the server's side of its connection | `MCClientSession`, `ClientSession_proofs` |
| `Dialogue` | what a session promises to the client's application, abstractly | `ClientSession` (`Promise`) |
| `Framing` | `Socket::send` and `receive`, `send` to a channel, the mutex, a stream | `MCFraming`, `Framing_proofs` |
| `FrameQueue` | what a stream of frames promises, abstractly | `Framing` (`Queue`) |
| `Hashtable` | the table, its growth, its styles and one iterator | `MCHashtable`, `Hashtable_proofs`, `Hashtable_walks` |
| `KeyMap` | what a table of keys promises, abstractly | `Hashtable` (`Map`), `Hashtable_proofs` (`Fits`) |
| `MC...` | instances for TLC: symmetry and functions, values in the `.cfg` files | runs |
| `..._proofs`, `..._refines`, `..._polling`, `..._walks` | the theorems and their lemmas | |

How they compose: `ServerRegistry` takes frames as whole, `ClientSession` takes
streams of frames as queues, and `Framing` shows that they may, as long as no
stream is torn (`ImplementsQueue`). What `Framing` says of errors is in both: a
`receive` may return nothing and a `send` be short on a connection whose peer goes
on. The registry's maps from sockets, IDs and
nicks to connections are functions, and `Hashtable` shows that a table of keys is
one (`ImplementsMap`); `int` keys and texts without multiples are what the server
uses.

Each component has an abstract module that knows none of its mechanism: `Registry`
no tables, `Service` no status word, `Dialogue` no status word and no stream,
`FrameQueue` no bytes, `KeyMap` no chains. Each is shown to be implemented, by TLC
on an instance and by a proof for all. They are also what one module takes for
granted of another: `ServerRegistry` has one worker at a time and frees its clients
while there is none (`Service`), and its frames are whole (`FrameQueue`).

The two models of the server cut it along one line. Inside a run of the server,
handlers execute one at a time, in the worker, and the application's calls come
from the listener that the worker runs: `ServerRegistry` has one action per
handler. Starting and stopping is where two threads are at work at once:
`ServerLifecycle` has one action per access to the shared word, and its property
`ClientsFreedAlone` is what makes the first half's `stop` a single action (the
freeing in `killAllClients` runs beside no worker, unless that was cancelled,
which the registry's `stop(TRUE)` between any two handlers stands for).

### ServerRegistry

`bySock`, `byId`, `byNick` are `_sockets` and the two key kinds of `_clients`;
`channels` maps each name to the bag of addresses its vector lists (a vector may
list an address twice; the order is seen by no operation modelled). `conn` is
the heap: an address holds a connection or is free, and a freed address can be
allocated again. `sockets`, `cap`, `room`, `set` are the array, `sockets_cap`,
the sockets that the allocated memory holds, and the `fd_set`. `idx` and `ready`
are the loop's `i` and `test`; `idx = 0` is the wait in `select`. `open`,
`pending`, `hungUp`, `backlog` are the operating system's side.

One handler is one action and includes all its calls: `Hello` is the `receive`,
the lookup, `uniqueID` and `addClient` with its five insertions; `HangUp` is
`killClient` with the removal from the array, the descriptor's `close` and the
walk through the connection's channels. It follows a `receive` that returns no
frame (`ReceivesNothing`), be it that the peer has closed, that a header is none
or that the call failed, and so it may come at any time, to a connection whose peer
is well. The same is so of a short write in `send` to a channel (`sendFails`).
A pass is `Select`, then one action per
index (`Skip`, `Hello`, `HelloDuplicate`, `Message`, `DropUnregistered`,
`HangUp`), then `EndPass`, so that the application's calls and the peers fall
anywhere between.

`fault` stands for undefined behaviour: from there the code promises nothing, so
the model stops and every property says nothing. It is set by `AcceptFails` (-1
goes into the array and the `fd_set`), by `Accept` when the array outgrows its
memory, by `deleteChannel` (a count is followed as a pointer), by
`leaveChannel` should the channel be empty afterwards (never, since it pushes),
by `send` to a channel that lists a freed connection, and by a double free in
`killAllClients`. `renamed` is a history variable: `setNick` was called on a
connection, behind the server's back.

### ServerLifecycle

The application's thread `App` and a finite supply of workers each have a
program counter. The updates of the status word are data: `Update` gives, for
each place, the operation, the flag and where it leads, and `Load` and `Store`
are the two halves, as the compiler emits them without optimisation for
`status |= f`, `status ^= f` and `status &= ~f` on a plain `int`. Clearing a
flag in `setStarting`, `setRunning`, `setStopping` is an or and then an xor, so
it is four accesses. Everything between two accesses is one action, as is each
call of the system. `overlap` is a history variable: a `start` passed its check
while a worker was alive. `Orderly` says that this never happened and that no
worker was cancelled. Seen as a `Service`, the server serves with the workers that
live, listens while `sock` is an open socket, is emptied between `killAllClients`
and `close`, and is spoilt once it is not `Orderly`.

### ClientSession

A session is a connection with its descriptor and its worker; an identity stands
for an ID and a nick. The streams carry whole frames: `toClient` those on their
way to the session whose socket the client has, `unread` the sessions with a frame
on its way to the server. The client's worker is `LoopTest`, then one of `Timeout`,
`SelectFails`, `TakesAnswer` (the first frame, whatever it is, while STARTING is
set), `TakesMessage` and `ReceivesNothing`. The status word is loaded and stored
in two steps, here as the release build emits them (one load, one store). The
server answers in two steps, `Register` and `Answer`, so that what the
application does in its listener can fall between them. `addClient` ignores what
`Socket::send` returns, so `Answer` may write nothing (`ReplyFails`): the connection
stays registered, nobody is told, and `lost` remembers it. An answer written in
part tears the stream, which is `Framing`'s. `ReceivesNothing` may happen whenever
there is something to read, for a header that is none or an error, and not only
when the server has closed. `start` fails with no descriptor (`OpenFails`), or with
a new one that stays in `sock` without a worker (`ConnectFails`). `agreed` and
`inbox` are what the listener sees of the socket the client has; they are cleared
with it.

A session is `InSession` from the end of `start`'s connecting to the next call of
`start` or `stop`; then the client and the server go through a `Dialogue`, whose
`named` and `said` are the server's side (`given`, `sent`) and whose `known` and
`heard` the client's (`agreed`, `inbox`). A `Dialogue` may lose the name (`Lose`);
then the client makes an identity of the first message (`Mistake`) and hears the
rest, which is all that `Dialogue` allows it to get wrong.

`Overlaps` says whether `start` may be called over a live worker. `Client::start`
does not check for one. With `Overlaps = TRUE` `AgreedIdentity` fails: the new
`start` sets STARTING for the old worker, which takes a message for an answer. An
application that asks `isRunning` and `isStarting` first is no better off: a worker
whose server has closed clears RUNNING and is still alive until its next loop test,
so that a `start` in between puts it back to work beside the new one. The run has
`Overlaps` `FALSE`, so what it shows is for an application that knows by some means
of its own that the worker has ended: a `stop` at that moment does nothing, either.

### Framing

A byte is `<<f, k>>`, the k-th byte of the f-th frame that was begun; `wire` is
every byte written so far, `taken` how many of them `receive` has read, `start`
where the frame begins that it is reading, `want` the length it read from the
header. `Write` puts any number of bytes that the window of the stream admits;
`SendShort` and `ChannelShort` are the two callers of a write that ends short,
`ReceiveHeaderPart`, `ReceiveHeader` and `ReceiveBody` the loops of `receive`, where
a header that is not one may hold any length (`LengthRead`). `ReceiveFails` is an
error of the call at any time; its caller closes the connection. The mutex is
`LockTest`, `Create`, `InitMutex`, `Acquire`, `Unlock`: the pointer is stored before
the mutex is initialised, so `clash` is set by a second creation and by a lock that
comes before the initialisation. `Torn` says that somewhere a byte stands
where it does not belong: behind a byte of another frame that is not that
frame's last.

### Hashtable

The state of the table is one record, `ht`. A node is named by its key and a
number among those with that key, and has its chain (`bucket`) and its place in
the chain (`depth`, 0 at the head) instead of a pointer. `Code` is what a lookup
goes by (an integer at its full width), `Hash` what the node remembers of its key
(a `hash_t`). `Rehash` recomputes both, turns the chains round and, like the
code, takes the codes of texts in the style that the table had. `merge` is
modelled entry by entry: each entry of another table is one `mergeTable`.

`KeyMap` tells the two insertions apart. Its `Put` overwrites what a lookup of the
key finds, in either case of a text where the table folds case; its `Merge`, like
`strcmp` in `mergeTable`, overwrites only an entry of the very same key, and can
leave one beside another that differs in its case. `ImplementsMap` asks of each
`put` that it be a `Put` and of each `mergeTable` that it be a `Merge` (`MapStep`),
of every other step that it be one of the map's or none.

The iterator's history (`due`, `seen`, `again`) is kept for a walk: what was there
at its start, and what it returned. It is given up (no statement is made of it)
when the table grows under the walk, and, in a walk backward, when a node with
another before it in its chain is removed by the iterator; a removal of a node that
is no longer in the chain of the iterator's index is undefined and is not modelled.
During a walk the model changes the table by `put` and `remove` alone, and the
walk keeps the kind of key that it began with.

## Runs

| run | question | distinct states |
| --- | --- | --- |
| `registry_channels` | tables, membership, no blocking read | 350 000 |
| `registry_nicks` | nicks and IDs that are shared, taken and changed | 154 000 |
| `registry_served` | two runs of the server, service of the clients | 107 000 |
| `lifecycle` | `start`, `stop`, `setStatus` against two workers | 180 000 |
| `session` | one client, two sessions, both ends and their interleavings | 518 000 |
| `framing` | two senders, one receiver, a stream cut anywhere | 406 000 |
| `hashtable` | the table as a map, and one iterator | 112 000 |
| `hashtable_wide`, `registry_every_run`, `registry_leave`, `registry_grow`, `lifecycle_lost_running` | a statement of a header that the code does not keep | |

*What they show.* The passing runs visit every interleaving within the bounds:

- `TablesAgree`, `JoinedIsListedOnce`: the tables, the heap and the channels
  agree in every state, with a `send` that kills its receiver in between.
- `NickLookupLive`: nicks are not unique and the table is edited by whatever is
  stored under a nick; a lookup can miss a client, but never finds a freed one
  or one of another nick.
- `IdNotStolen`: an ID changes hands only through the death of its connection.
  `EndsByItsOwnSocket`: a connection dies only by a `receive` or a `send` on its own
  socket, or with the server; the worker goes from the socket to a connection, to
  its ID, and from the ID to the connection that it kills, also when nicks were
  changed behind the tables. It does not say that the peer was at fault: the code
  gives up a live one for a malformed header, an error or a short write.
- `ReceiveNeverBlocks`: in a first run no `receive` blocks, although removals
  shift the array in mid-pass. `ClientsArePolled`: in every run the loop waits on
  each client's socket and on no closed one, although closed descriptors stay in
  the array after a `stop`.
- `ServedInFirstRun`: a removal makes the pass skip a socket, which is then
  served in the next pass; connections that keep arriving can starve everybody,
  hence the hypothesis that the backlog is empty from some moment on.
- `NoForgottenWorker`, `ClientsFreedAlone`, `LoopHasListener`,
  `StopLeavesNothing`, `StopReturns`: for `start`, `stop` and their workers.
- `ImplementsService`: seen from outside, these are one worker at a time with a
  socket that listens, and clients that are freed while there is none.
- `ImplementsRegistry`: every step of the server is one step of `Registry`, or
  none: a client appears and disappears at once, everywhere, under an ID that
  nobody has. Each handler is one action here, so this is about which of the five
  structures it edits, and not about a look at them in between.
- `AgreedIdentity`, `MessagesFromTheFirst`: a client that is not being stopped has
  the identity that the server registered it under or none yet, and gets every
  message from the first on: no message overtakes the answer, and the race on the
  status word does not turn a message into an answer or the other way round,
  while `RUNNING` is set. What `Client.cpp:163` takes for guaranteed, that the first
  frame is the answer, fails in one case: the answer was sent in vain. Then the
  first message is taken for it, and the inbox goes on, in order, from the second.
- `Answered`: a registered client learns an identity, unless its answer was sent in
  vain or one side ends.
- `ImplementsDialogue`: the whole of a session in one order: named, learnt once,
  then heard from the first message on, and nothing left of the session before; a
  lost name costs one message and no more.
- `ImplementsQueue`, `FramesArrive`: frames come out of the stream whole, once, in
  order, and in the end, unless the stream is torn or breaks.
- `LockedNeverTear`: only a send without the mutex, or two threads that clash in
  creating it, tear it. `SendReturns`: every call returns, unless a listener sends
  with the mutex locked, which stops everybody (`SelfLocked`). `HeldInside`: whoever
  is between `lock` and `unlock` of `send(Channel)` holds the mutex, and nobody else
  does.
- `Found`, `GrowsInTime`, `ForwardOnce`, `BackwardOnce`: every key is found and the
  walks are complete. `ImplementsMap`: the table is a map, in which `put` never adds
  a second entry of one key, also where two cases of a text count as one; only a
  merge does, of a text in another case.

*Bounds and why they are enough.* Two descriptors and two addresses: every table
conflict is between two connections (or between a connection and a freed one at
the same address), and a pass that skips a socket needs a removed one and the
one behind it. `Id` has two elements where clients compete for IDs and one where
only sockets matter; `Nick` has two where nicks change and one, which is shared,
elsewhere. One channel beside the main one: the code treats all others alike.
`MaxCopies = 2`: a listed connection pushed once more is the whole of the
`leaveChannel` behaviour. `MaxPending` and `MaxBacklog` of one: a handler takes
one frame or one connection, a second one is another pass. `MaxStarts` is one
where a run is asked about and two where leftovers are. `registry_grow` scales
the first capacity from eight to four, with four descriptors; the doubling and
the byte count are as in the code. Two workers: one to be cancelled or
forgotten, one to take over.

`session`: two sessions, so that what the first leaves behind meets the second;
two identities, so that a wrong one can be told; two messages, so that one can be
taken for the answer and another follow it. `framing`: two senders, because the
mutex is about two; two frames, since a frame is torn by one other; a header of
two bytes, so that it can be cut, and bodies of none and of two; a window of three
bytes, smaller than a frame, so that a write blocks in the middle. `hashtable`:
three keys that collide (the text in upper and lower case is one key or two), up
to three entries and two for a key, capacities 2, 5 and 11: the first growth comes
with the second entry, the second with the third. `HashSize` is 16, and the table
of codes is chosen so that chains of one capacity split in the next.
`hashtable_wide` has two keys that agree in four bits.

`GrowsInTime` wants a capacity of two or more: with one, the limit is 0 and the
table never grows. `Restyle = FALSE`: `setCaseInsensitiveKeys` is called on tables
without texts. With `TRUE`, `Found` fails at once (`Hashtable.cpp:543`: the new
codes are those of the old style); the header promises nothing about it, so it is
a hazard in `PROJECT.json` and not a run.

*Symmetry* of addresses, descriptors, IDs and nicks is used where only
invariants and an action property that names none of them are checked, never
with liveness.

*Deadlock* is not checked: the peers and the application may stop at any time,
and a `fault` ends the model.

*Fairness.* `ServerRegistry`: weak fairness of the worker alone, while it does not
wait in a `receive` on an open socket without input (`Waiting`), which may fail and
need not. It is a thread that the scheduler runs, its `select` has a timeout, and each
of its handlers ends; peers and the application need do nothing. `ServerLifecycle`:
weak fairness of the steps inside `start` and `stop` and of each worker; nobody needs
to call anything, and `PeerGoesOn`, on which a blocked `receive` waits, has no
fairness: `StopReturns` has it as its hypothesis. `ClientSession`: weak fairness of
the steps inside the client's `start` and `stop`, of each of its workers and of the
server's worker; calls and hang-ups have none. `Framing`: weak fairness of the
receiver, which is called again after each frame, and of each sender inside its call;
a write that ends short and a `receive` that fails are fair only when the connection
is gone. `Hashtable` has no liveness property.

*Mutants.* Each module holds, beside the operation it is a slip of, a form of it
with a plausible bug (a key not removed, a check not made, the join after the
close). For each property of a passing run one of them breaks it.

## What the code does not keep

- **A second run** (`registry_every_run`). `killAllClients` (`Server.cpp:363`)
  leaves the array `sockets` as it is. A descriptor number that is used again in
  the next run is then listed twice, the pass receives from it twice, and the
  second `receive` blocks the worker.
- **Leaving a channel** (`registry_leave`). `leaveChannel` (`Server.cpp:301`)
  pushes the connection where it should remove it. The connection stays listed,
  also after it has been freed. Nothing else does this (`ListedUntilSomebodyLeaves`).
- **Many clients** (`registry_grow`). `addSocket` (`Server.cpp:141`) gives
  `realloc` a number of sockets where it wants bytes. A first run with fewer than
  eight sockets is safe (`FewSocketsFit`).
- **Wide keys** (`hashtable_wide`). `rehash` (`Hashtable.cpp:552`) moves an integer
  key by the 32 bits that its node keeps, lookups go by all 64. A key of 2^32 or
  more is lost when the table grows; pointers are such keys. The other keys of the
  table stay a map (`FittingKeysAreFound`, `FittingKeysAreAMap`).
- **Lost RUNNING** (`lifecycle_lost_running`). `start` clearing STARTING and the
  worker setting RUNNING race on one word; if RUNNING is lost, the worker ends
  at once although `start` returned true.

Close to the last one, and part of the comment of `StopLeavesNothing`: the
worker's stale store can bring STARTING back for good, after which `start` never
passes its check and `stop` waits for ever. `StopReturns` is therefore about a
`stop` that has passed that wait.

## Proofs

All theorems hold for every value of the constants that satisfies the named
assumptions: `RegistryAssumption` (the bounds are positive, the main channel is
a channel, null is no descriptor, connection or vector),
`LifecycleAssumption` (the application is no worker, null is no worker and no
socket),
`SessionAssumption` (the same of the client, and null is no identity),
`FramingAssumption` (finitely many threads, a header of at least one byte, frames
as long as a header or longer) and `HashtableAssumption` (what lower case and
`crc32` are functions of, a positive capacity).

**`ServerRegistry_proofs`**

- `Safety`: `Spec => [](TypeOK /\ TablesAgree /\ JoinedIsListedOnce)`.
- `NicksLive`: `Spec => []NickLookupLive`.
- `IdsStay`: `Spec => IdNotStolen`.
- `ListedUntilSomebodyLeaves`: `Spec /\ [][Staying]_vars => []ListedIsJoined`.

The inductive invariant is `IInv`: types, that the main channel exists, and the
two properties. None of them is inductive alone. `killClient` removes a
connection by its own keys; that empties the right entries only if each key
leads to it, which is `TablesAgree`. It walks the connection's channels, which
must exist, which is `JoinedIsListedOnce`. `addClient` reuses a freed address;
that the newcomer is listed once needs that the main channel lists nobody who is
dead. `killAllClients` frees the main channel's members; that no connection is
left needs that every live one is a member. `joinChannel` cannot put a
connection into the main channel a second time because it is in it already.

The proof has one lemma for each compound operation (`KillPreserves`,
`AddPreserves`, `KillAllPreserves`, `RelabelPreserves` for a nick or the active
flag, `MembershipPreserves` for joining and leaving), then one for each process.
`RemoveFirstTyped`, on the array, rests on the fact that a nonempty set of
naturals has a least element. `StepsOnClients` says what any step can do to
`_clients`; the two results about nicks and IDs follow from it by cases.

`ListedUntilSomebodyLeaves` delimits what the run `registry_leave` finds. `Staying`
says of a step that it is no `leaveChannel` and ends no connection that is in a
channel, except by a stop. Then a channel lists nobody who is not in it
(`ListedAreIn`, which also says that it lists nobody who is freed, and without which
a new connection at a freed address would be found listed).

**`ServerLifecycle_proofs`**

- `Typing`: `Spec => []TypeOK`.
- `Safety`: `Spec => [](NoForgottenWorker /\ ClientsFreedAlone /\ LoopHasListener)`.
- `StopIsClean`: `Spec => StopLeavesNothing`.
- `Implements`: `Spec => ImplementsService`, the refinement of `Service`.

`IInv` adds to the three that the server knows of no thread while `stop` waits
or cleans up, and that a worker nobody disturbed has its listener wherever it
is. `ClientsFreedAlone` then follows: when the clean-up starts, the thread that
`stop` waited for has ended, nobody else is known, so whoever lives was
cancelled.

`StopIsClean` is about the flags, and a flag is cleared by an or and an xor of
two accesses each: the xor clears it only if it finds it set. `Clean` follows
`RUNNING` and `STOPPING` in the word and in what the application has loaded of it
(`Has`, `Lacks`). It rests on an order between the threads: a worker that has not
yet set `RUNNING` finds it clear, and no `stop` begins before it has. A stale store
of the worker therefore falls before `stop` announces itself or not at all.

`Implements` is about any number of starts, one after the other. While all is
orderly the invariant gives that no worker lives when one is created, when the
clients are freed and when the socket is replaced or closed (`Serving`); what is
disorderly stays so (`Monotone`), and from the step that makes it so `Service`
allows anything. Most places of the status word's updates are stutters.

**`ServerRegistry_refines`**

- `Implements`: `Spec => ImplementsRegistry`, the refinement of `Registry`.
- `ExactlyOneId`: `Spec => []Promise!OneIdEach`, the invariant of `Registry`.

The refinement stands on `IInv`: that `Registry`'s members are the live connections is
`TablesAgree` for the main channel, and that `killClient` frees exactly one ID is
that each ID leads to a connection that has it. One lemma for each kind of step
says which of `Registry`'s it is; most steps touch nothing of it (`Invisible`).

**`ServerRegistry_polling`**

- `Polled`: `Spec => []ClientsArePolled`, over any number of runs of the server.
- `NeverBlocks`: `Spec => []ReceiveNeverBlocks`.
- `EndAlone`: `Spec => EndsByItsOwnSocket`, over any number of runs.
- `FewSocketsFit`: with fewer descriptors than `SocketsCap`,
  `Spec => [](starts <= 1 => SocketsFit)`.

`PollInv` says that what the loop waits on is open and listed, that what a pass has
still to look at is waited on or closed by now, that each client is waited on, and,
in a first run, that the array lists each open descriptor once and that what was
found readable and not come to yet still is. The array's shift is the hard step: an
entry behind a removal comes from one place further on (`RemoveFirstShifts` and the
lemmas around it), so what the pass comes to it had still to come to before.

`EndAlone` rests on the tables: they lead from the socket that was read back to its
own connection, and from that one's ID to itself (`HangUpKillsItsOwn`), whatever
has become of the nicks; nothing is assumed of the peer.
`FewSocketsFit` delimits what the run `registry_grow` finds: in a first run each
entry of the array has a descriptor of its own, so the array stays one short of its
capacity and `realloc` is never called. In a later run old entries are left over,
and nothing of the kind holds.

**`ClientSession_proofs`**

- `Typing`: `Spec => []TypeOK`.
- `SameIdentity`: `Spec /\ [][Careful]_vars => []AgreedIdentity`.
- `MessagesInOrder`: `Spec /\ [][Careful]_vars => []MessagesFromTheFirst`.
- `StopIsClean`: `Spec => StopLeavesNothing`.
- `Implements`: `Spec /\ [][Careful]_vars => ImplementsDialogue`, the refinement of
  `Dialogue`.

`Careful` is a condition on the application's calls: it calls `start` when no worker
is alive. With `Overlaps = FALSE` every call is careful (`NoOverlaps`); without the
condition the three that have it are false, as said above. `IInv` says of a session that its
worker is the only one that lives and that STARTING is set, in the word and in what
the worker has loaded of it, until it has taken an answer, and in neither from then
on (`OneWorker`); and that the stream holds the answer, while it has not been taken,
and then the messages that are not in the inbox, in their order, unless it was cut
off and holds nothing (`Stream`). Where the answer was sent in vain, the first
message stands in its place. The first part is why the second is kept: the
worker tells the answer from a message by that flag. `Fresh` and `StartsAlone` carry
this over a `stop` and the next `start`.

For `Implements` the invariant is read from the front of the stream: the first frame
that the worker of the session takes is the answer, or the first message if that was
lost (`FirstIsIdentity`), each later one the next message (`FirstIsMessage`), and in a
session the dialogue is what the two sides know (`Under`), so that a worker of an
earlier session that is still at work, or a server that still registers one, is
invisible (`Nothing`).

**`Framing_proofs`**

- `Implements`: `Spec => ImplementsQueue`, the refinement of `FrameQueue`.
- `MutexApart`: `Spec => []LockedNeverTear`.
- `MutexHeldInside`: `Spec => []HeldInside`.
- `Typing`: `Spec => []TypeOK`.

The invariant of the first says of a stream that is not torn (`Ordered`) that a
first byte is that of the frame after the one before, that the last byte is of the
last frame begun, and, looking forward from any byte, that the rest of its frame
follows as far as anything follows. This last part makes an induction over the
stream unnecessary: a write extends it by one piece, whose first byte follows the
last (`FirstByte`). `Reading` says where the receiver is: `start` is the end of the
last frame delivered, `want` the length of the next. Then the header read at
`start` is a header (`HeaderRead`), and what is delivered is the next frame
(`Delivers`). A tear stays a tear (`TornStays`), and from there `FrameQueue` allows
anything.

For `MutexApart` the invariant (`LInv`, as long as the mutex was made once and was
locked only when initialised) is that whoever is between `lock` and `unlock` owns the
mutex, and that a frame of `send(Channel)` whose end is not written is that of the
owner, unless the connection is closed. `MutexHeldInside` adds the converse (`HInv`):
the owner is inside, or its listener is at `lock`, and a thread is at one of these
places only by `send(Channel)`, so that it comes to `unlock`. `Typing` needs one more:
the frames begun and the senders that may yet begin one are together no more than
`MaxFrames`.

**`Hashtable_proofs`**

- `FittingKeysAreFound`: in every reachable table each node whose key is in `Fit` is
  found under its key.
- `EveryKeyIsFound`: if `Narrow`, then `Spec => []Found`.
- `TheTableGrowsInTime`: if `Cap >= 2`, then `Spec => []GrowsInTime`.

`Fit` is the keys that the code handles: integers below `HashSize`, and texts unless
the style changes under them (`Restyle`). `Narrow` says that all keys are such ones.
So the first theorem has no condition at all and delimits what the run
`hashtable_wide` finds: a wide key is lost, and never the others with it. The
invariant `Good` says that the record is typed, that each node whose key fits has
the code and the chain of its key (`Placed`), that `sz` counts the nodes
(`Counted`), and that every node hangs in some chain below the capacity (`Held`).
`Found` alone is not inductive, because growth must know the code of a node.
`GrowsInTime` rests on `Roomy`, a table that is allocated holds no more than its
limit, because the test `sz == full` before an insertion is right only if `sz` never
passes `full`; that needs two chains, since half of one is none.

- `FittingKeysAreAMap`: the table as seen by lookups of keys that fit (`Fits`)
  refines `KeyMap`, each `put` as its `Put` and each entry of a merge as its `Merge`.
- `Implements`: if `Narrow`, then `Spec => ImplementsMap`, the refinement of `KeyMap`.
- `OneNodeForAKey`: as long as multiples were never asked for, a key that fits has
  one node.

In a `Good` table `Get` is the set of nodes whose key counts as the one looked for
(`GetIs`): capacity and chains drop out of what is found, so growth is a stutter.
`Ordered` adds that no two nodes of a chain have one depth and that none is left
out; then an overwritten node is one of those found (`FirstIsThere`). What `put`
searches is what a lookup finds, and what a merge searches are those of the very
same key (`EntriesThere`, `CallsMap`), so that the second entry of a folded text has
no other source. A call of the
style that changes what no key counts as is a stutter, too, hence the form of
`ImplementsMap`.

**`Hashtable_walks`**

- `EveryNodeOnce`: `Spec => [](ForwardOnce /\ BackwardOnce)`.
- `Typing`: `Spec => []TypeOK`.

Neither has a condition: a walk goes by chains and not by keys, so it comes by the
nodes, too, that lookups do not find any more.

`Ahead` and `Behind` are what `next` and `previous` can still return. The invariant
`Walking` says that what is due was returned or is still to come, and that nothing
is both. A step to the first node ahead leaves the others ahead (`StepsForward`); a
call on the table keeps the order of the nodes that stay (`Kept`), and with it both
sets; the iterator's `remove` goes back to the node before, which has the same nodes
ahead of it because no depth is left out (`RemovalWalks`).

**Checked by TLC only.** `ServedInFirstRun`, both `StopReturns`, `SendReturns`,
`FramesArrive` and `Answered`, as liveness, which is out of the prover's reach. Every
safety property that a passing run checks is proved. Of `Hashtable`, `EveryKeyIsFound`
and `Implements` hold under `Narrow` and `TheTableGrowsInTime` from a capacity of two
on; of `ClientSession` three hold for `Careful` calls; the runs are under the same
conditions.

## Not modelled, and why

In the registry: what messages contain and the cipher (no operation of the server
looks at them after the first frame); the listener's own code beyond the calls it
makes; a caller's pointer to a channel that is deleted, or its use of a connection's
own `joinChannel` and `leaveChannel` behind the server; calls from other threads while
the worker runs (the server guards its tables against none); the mutex of `lock` and
`unlock`, which only `send` takes and which is in `Framing`. Frames are whole, as
`Framing` justifies; that `receive` may block inside one is in `ServerLifecycle`
(`Receive`, `PeerGoesOn`). Order in a channel is left out; the loop in `send` goes by
index, and what that can miss or repeat is said at `sendFails`. `stop(TRUE)` cancels
the worker between two handlers; `Thread` cancels asynchronously and does not wait, so
the worker can be cut off inside one, with a connection in some of the tables and not
in others, and no property speaks of what `killAllClients` then meets. In the
lifecycle: the destructors, a `stop` called by the worker itself, thread priorities
and the Win32 half of `Thread.cpp`.

In the client: the constructors and the destructor, `setNick` and `setID` by the
application, the parsing of `host:port`, the Win32 half. In the framing: the cipher
and the buffer for long messages, which change no length. In the table: double
keys (stored as integers on a 64-bit build), load factors other than the default,
`getByIndex`, `contains`, the iterator's `setValue`, printing, loading and parsing,
and who owns a string or an object in the table.

The rest of the library is larger by far and is not modelled: "Left out" above
says why for arithmetic, text, wrappers and plugins. `Vector`, `List`, ipomoea,
`Http`, `Path` and `Flood` could be: they are sequential, and what is hard in them
is data rather than order, so they come after the parts where order is hard.

## Plan

1. Proofs that delimit what the runs find, as `ListedUntilSomebodyLeaves` does: that a
   server whose `sockets` is empty when it starts is as good as in its first run, and
   that RUNNING is lost only to a worker that loads before `start` has cleared STARTING.
2. Larger instances where the proofs stop: liveness with three connections, and the
   sessions of an application that calls `start` over a live worker.
3. `Vector`'s removals in place against their definition, as functions on
   sequences (`Vector.cpp:191` takes what it removed from `sz` twice).
4. `PathSearch` and `Flood` on small grids: a found path is shortest, a fill is
   the region.
5. `Http` as a second reader of a stream, over `Framing`'s bytes.

Each new component gets one passing run, and one of expected violation only
where a statement in the repository calls for it.
