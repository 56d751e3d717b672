# A verification of the AREX historian (BDH)

TLA+ models, model-checking runs and machine-checked proofs for the BDH
historian: a Qt/C++ server that takes samples from a collector, keeps them in a
ring of SQLite files under a disk budget, pushes them to real-time clients, and
answers queries about the past over its own protocol (AHP) - and the desktop
client that asks them.

All paths are relative to `src/`.  `tla/PROJECT.json` lists, for every
definition that models code, the lines it stands for.

## 1. Inventory

| Component | Source | State | Operations |
|---|---|---|---|
| Block ring | `Infrastructure/sqlitedatabase.cpp`, `Domain/configuration.cpp` | files `data/bN.db`; `main.db` with `DB_Config` and `Catalog`; `m_currentBlockNumber`, `m_oldestBlockNumber`, connection `m_currentBlockDB` | `storeVariablePoint`, `updateCatalog`, `createNewBlock`, `deleteOldestBlock`, `connect`, `isConfigured`, `configure` |
| Historian query | `sqlitedatabase.cpp` 275-300, 649-671, 765-816 | the shared connection `m_consultBlockDB` | `getVariableInRange`, `BlocksInTimeRange`, `mountConsultBlock`, `getDataFromConsultBlock` |
| Alarm and variable tables | `sqlitedatabase.cpp` 200-217, 304-488 | rows of `main.db` | one SQL statement each |
| RealtimeCache | `Infrastructure/realtimecache.cpp` | two buffers, which one is active, `m_intTemp`, `m_doubleTemp` | `storeVariablePoint`, `swapCache`, `persist` (thread pool) |
| AHP server | `Infrastructure/AHP/ahpserver.cpp`, `connection.cpp`, `ahpchannel.cpp` | `m_connectionCout`; per connection: thread, `m_state`, `m_realtimeSendingVariables`, the signal connection, the socket | `incomingConnection`, `run` with five state functions, `sendRealtimeVariable`, `readFrame`, `writeFrame` |
| AHP frames | `AHP/ahpchannel.cpp`, `AHP/ahpframe*.cpp` | bytes of a socket, the field `readFrame` waits for | `createFrame`, `writeFrame`, `readFrame` |
| AHP payloads, Serializer | `AHP/*request*`, `AHP/*response*`, `serializer.cpp` | values only | `serialize`, `deserialize` |
| AHP client | `AHP/ahpclient.cpp`, `AHP/mt.cc`, `clientworker.cpp` | the socket, `m_varsConfigured`; the one-place slot `m_command`, `m_quit`, the mutex and the condition; the receiving thread `Mt` | one function per command, each taking the next frame for its answer; `run`; a method per command that leaves it in the slot |
| Client window | `Presentation/clientview.cpp` | the tabs' states, which buttons are enabled, the request being put together | a slot per button, menu entry and signal of the thread |
| Collector connection | `tcpproxy.cpp` | a socket, single-shot timers | `onReadyRead`, `onDisconnected`, `manageError`, `connectToServer` |
| Server start-up | `bdhservercontroller.cpp`, `xmlloader.cpp`, `sqlitedatabase.cpp` 68-110, 304-343, 490-520 | the configuration, the wiring, the tables of `main.db` | the parser and its slots, `run`, `isConfigured`, `configure`, `connect` |
| DataAcquisition | `dataacquisition.cpp` | a timer | a simulator that is switched off |
| Domain, helpers, plotters, applications | `Domain/`, `globalfunctions.cpp`, `Presentation/`, `Application/` | values, widgets | getters, drawing |

How they interact.  `TcpProxy` raises `variableChanged`; the controller passes
it to `RealtimeCache::storeVariablePoint`.  The cache keeps the sample if its
value is new, emits `storedVariablePoint` - a direct call of
`Connection::sendRealtimeVariable` of every subscribed connection, since all
these objects live in the main thread - and, when a buffer is full, starts a
pool task whose `persistData` signals are queued to the main thread, where
`SQLiteDatabase::storeVariablePoint` runs.  Each client has a `Connection`
thread that reads frames, answers them, and runs history queries itself, on
the database object the main thread is writing with.

So the server has three kinds of threads: the main thread (acquisition,
real-time sending *and* storage), the pool threads (`persist`), and one thread
per client.  Nearly nothing is locked: `m_mutex` belongs to one `Connection`
and is only taken by its own thread.

The client has the main thread with the window, one `ClientWorker` thread per
tab, and one `Mt` thread while real-time values are sent.  The window gives a
command by writing `m_command` under `m_mutex` and waking the worker; the
worker holds that mutex while it waits for the server, so that the next click
stops the window until the answer is there.  The worker's signals are queued
back to the main thread.  `Mt` and the worker read the same socket.

What is hard, and what makes each component correct:

* **Block ring** - a crash between two of the file operations and SQL
  statements of a rotation; a ring that grows and wraps; an unsigned budget.
  It must recycle the oldest block only, stay within the disk, keep the newest
  samples with no gap, and be found in order by a restart.
* **Query** - runs while blocks are removed, copied and refilled.  It must find
  everything its blocks hold, once, and must not harm the writer.
* **Cache** - two buffers swapped while tasks run.  No sample may be lost or
  doubled, and a batch must keep its order.
* **Acquisition** - a stream TCP cuts anywhere, without marks; timers armed by
  two signals of one failure.  There must always be exactly one way back to a
  connection, and whole samples must get through in order.
* **Start-up** - every INSERT commits by itself, and a configuration is judged
  by its first table.  A server that runs must write the block, with the size,
  that its database names.
* **Frames** - five waits, one of which looks at the state of the socket.
  Writer and reader must agree on the length of every field.
* **Client** - a command slot of one place, a condition that may be signalled
  with nobody waiting, a thread that may be killed inside a frame.  A result
  must belong to the query it is shown for, the window must come back, and the
  window must not follow a pointer into the stack of a function that has ended.
* **AHP server** - clients that come, send ahead, stop in the middle of a frame
  and go; subscriptions that end while the main thread is writing.  The limit
  must hold, answers must come in order, threads must end, no sample may be
  sent twice and no deleted object be called.

The full list, each at its line, is under `hazards` in `PROJECT.json`.

## 2. Plan

| Stage | Module | Composes | State |
|---|---|---|---|
| 1 | `BlockStore`, abstract `BlockLog`, mapping `BlockStoreLog` | - | done; safety, with crashes and without, and the refinement proved |
| 1 | `HistorianQuery` | `BlockStore` | done, safety proved |
| 1 | `RealtimeCache` | - | done, safety proved |
| 1 | `AHPServer`; `AHPSession` against the table `AHPProtocol` | `AHPServer` | done, safety of both proved |
| 2 | `TcpProxy` | `RealtimeCache` | done, safety proved |
| 2 | `Startup` | - | done, safety proved |
| 2 | `Serializer`, `AHPChannel`, abstract `FrameQueue` | - | done, the refinement proved |
| 2 | `AHPClient`, `ClientWorker`, `ClientView` | `AHPProtocol` | done, safety proved |
| 3 | how far a crash may overshoot the disk budget (that it may: part 3 in section 5); theorem: `AHPClient`'s server is what `AHPSession` lets a client see | | open |

The abstract specifications are the bounded log (`BlockLog`), the queue of
objects (`FrameQueue`) and the protocol of a session (`AHPProtocol`, a table
that `AHPSession` uses as a monitor of the server and `AHPClient` as its
server).

## 3. The modules

### BlockStore - `storeVariablePoint` and the start of the server

The call runs in the main thread, as the last stop of a queued signal.  Each
file operation and SQL statement that survives a crash is an action, ordered
by `pc`:

| `pc` | Action | Code |
|---|---|---|
| `idle` | `Store` | entry and `currentBlockUsedSize() >= blockSize`, 224 |
| `catalog` | `UpdateCatalog` | `updateCatalog`, `remainingSize`, 229-232 |
| `create` | `CreateNewBlock` | copy and `++m_currentBlockNumber`, 711-713 |
| `remove` | `RemoveOldest`, `RemoveFails` | 732-735 |
| `refill` | `RefillOldest` | copy, block numbers, 739-749 |
| `saveCurrent`, `recycleSaveCurrent` | `UpdateCurrentBlock` | 715, 751 |
| `saveOldest` | `UpdateOldestBlock` | 752 |
| `open` | `OpenCurrent` | 716-723, 754-761 |
| `insert` | `InsertPoint`, `InsertFails` | 243-256 |
| `down` | `Connect`, `RefuseToConnect` | `BDHServerController::run`, `connect`, `isConfigured` |

A file is its size in pages, whether it has the table, and its rows; a row is
the number of the sample in order of arrival and its time stamp.  The two ways
a file comes to be are kept apart: `CopyBtemp` (QFile::copy, which does nothing
if the target exists, and whose result the code ignores) and `OpenFile`
(SQLite creates a missing file, without the table).  `used` is the sum
`blocksUsedSize` makes over all names starting with `b`, `btemp.db` included.
`RemainingSize` is taken modulo `Word`, `Period.end` modulo `UIntRange`
(`toUInt` at 644): the stamps are milliseconds, so the end of a period in the
Catalog is what 32 bits keep of it.  How many pages an INSERT adds is a choice
from 0 to `MaxGrowth`; `RemoveMayFail` says whether the file system may refuse
to remove a file, in which case the sample goes into the full block (732-735).
`torn` is a history variable: a crash has fallen inside the recycling of a
block.

`RunSpec` is the system without crashes, `Spec` adds `Crash` and the restart.
`BlockLog` is what `RunSpec` promises: a sequence of segments, samples added to
the newest, the oldest dropped whole, only when the log is full.  The mapping
(`BlockStoreLog!Segments`) reads the files around the ring from `oldest`;
while the oldest block is removed and not yet copied anew it is not a segment.

### HistorianQuery - `getVariableInRange` beside the writer

`Begin` (which blocks), `Mount`, `Fetch`, `Answer` are steps of a connection
thread, and `MountFails` the `continue` over a block that cannot be opened
(292-295), whose rows are then not due any more; `Storage` is a step of `BlockStore`'s `Run`.  `consult` is the one
shared connection: the block it is open on and, once that file has been
unlinked, the contents it still reads.  `InOrderOfBegin` is the `ORDER BY` of
`BlocksInTimeRange`: the selected blocks as the one sequence ordered by
`beginTimeStamp`, ties by number.  `due` is a history variable: the rows in the
selected blocks and the range at the moment of `Begin`.

### RealtimeCache and TcpProxy - the acquisition

`StoreVariablePoint` is the whole slot of the cache: filter, push, `cacheFull`,
swap, hand over, clear.  `Emit` is one signal of a pool task, `Deliver` one
turn of the event loop.  Samples are their numbers in order of acceptance.  The
constant `MaxCache` stands for `MAX_CACHE_VALUES` (100), `MaxTasks` for the
threads of the global pool.

`TcpProxy` puts the collector's socket in front of it.  A sample of the stream
is two halves, numbered through, so that a piece may begin or end inside a
sample; what `onReadyRead` makes of a piece that begins with a second half is
any number of samples made of the wrong bytes (`Reads`, the number 0).
`OnReadyRead` is `readAll`, `VariableChanged` one turn of its loop down to the
cache.  `Outage` is a connection that breaks with the two signals
`QAbstractSocket` emits, `error` while still connected and `disconnected` when
it is not any more; `ConnectFails` the single `error` of an attempt; `timers`
counts the single-shot timers that will call `connectToServer`.

### Startup - from `main` to a server that runs

| `pc` | Action | Code |
|---|---|---|
| `off`, `exited`, `segfault`, `killed` | `Start` | `BDHServerController`, `start`, `loadConfiguration` |
| `parse` | `StartElement`, `ParseFails` | `XmlLoader::startElement`, the controller's slots |
| `parse`, at the end | `EndDocument` | `endDocument`, `loadFinished`, `run`, `isConfigured` |
| `variables`, `alarms` | `StoreVariable`, `StoreAlarm` | the loops of `configure` |
| `config`, `catalog` | `SaveConfig`, `SaveCatalog` | `saveConfiguration` |
| `connect` | `Connect` | `connect`, `loadConfiguration` |
| `listen` | `ListenAndCollect` | `listen`, `connectToServer` |
| `running` | `UpdateCatalog` | a full block found, 229-232 |
| `create` | `CreateNewBlock` | 711-713 |
| `remove` | `RemoveOldest`, `RemoveFails` | 732-735 |
| `refill` | `RefillOldest` | 739-749 |
| `saveCurrent`, `recycleSaveCurrent` | `UpdateCurrentBlock` | 715, 751 |
| `saveOldest` | `UpdateOldestBlock` | 752 |
| `open` | `OpenCurrent` | 716-723, 754-761 |

`Start` ends in `exited` at once where `hmi.xml` cannot be opened (`exit(-1)`,
`bdhservercontroller.cpp` 140-153).  `Dies` may happen at any `pc`, inside a
rotation too, and `hmi.xml` may be another file at the next start.  Of a block
only its file is kept (`files`, and `bare` for those SQLite made without a
table), and whether there is room for another is a free choice; samples and
sizes are `BlockStore`'s.

`trouble` is a history variable: the events after which the database is not
whole.  `no_variables` is a start that meets no variables; `half_configured` a
death between the first variable and the row of `DB_Config`; `no_first_block` a
death between the removal and the copying of block 1, by whose file
`isConfigured` judges, so that the next start configures again;
`no_current_block` a death between the removal and the copying of the block
`DB_Config` calls current.  The properties say that no other death or start
does harm.  They are stated about a server that *runs*, since the code looks at
nothing before.  No client queries the server here: the file without a table
that a query may create (run `wedge`) is a matter of `HistorianQuery`.

### AHPChannel, Serializer, FrameQueue

One direction of a connection, byte by byte: `WriteFrame` gives the socket all
bytes of a frame, `Arrive` hands over any number of them, `ReadField` is one
wait of `readFrame` that ends, `ReadEnds` the one that finds the socket
unconnected.  `Digits` and `Number` are what `QDataStream` does to a number,
to any base: the remainders of its repeated division (`Shifted`), and what they
add up to again (`Values`); what a field has no room for (`HasRoom`) is lost.
`SizeAssumption` says that the size field has room for the length of every
payload: 32 bits, and a QByteArray's length is an int.  `Serializer` keeps of msgpack what a reader can tell: the number
of fields and whether the bytes are an object at all.

### AHPServer, AHPProtocol, AHPSession

A connection's thread goes `none`, `reading`, `handling`, `answering` (and
round again), `finished`, `deleted`; `state` is `m_state`.  A frame is its
command, the variables it asks for, and whether it is `bad`: a payload on which
msgpack's `unpack` throws (`serializer.cpp` 179, outside the `try`), or a query
with fewer time ranges than variables (`bdhservercontroller.cpp` 177).  Nobody
catches either, so handling such a frame in a state that has a case for it ends
the process (`Throws`); `Crash` closes every connection.  `Frames` says which frames each client may send.  `readFrame` is abstracted to: a whole
frame is there (`ReadFrame`), the socket is found unconnected before the first
byte (`LeaveLoop`), or neither - and the thread stays where it is.  `part` says
that a client has sent some bytes of a frame; that is all the loops of
`ahpchannel.cpp` 38-67 depend on.

The main thread delivers a sample in three steps, because a connection thread
may act between them: `EmitSample` (the receivers at that moment), `Enter` (the
test of `m_realtimeSendingVariables`) and `Write`.  The connection thread may
assign or clear that list (204, 242) during the test: `Enter` comes before or
after it, or the process dies of it (`Collide`).  Since the socket is shared
between two threads with the mutex commented out (354, 359), `Write` may
succeed, be lost, or end the process (`up` becomes FALSE).  The three outcomes
are the modelled result of that undefined behaviour; a frame torn by two
concurrent writes, which the client would see as garbage, is not represented.

`AHPProtocol` is the table of modes, commands and answers as `connection.cpp`
has them.  The document (`Protocol description/protocol`) differs in two
places: it answers SET_*_MODE with ACCEPT or REJECT (84, 108) where the code
writes MODE_SUCCESSFULL, and it has STOP reset the mode (120, 132), after which
a SET_*_MODE may follow (71, 95), where the code goes back to the real-time
mode.  `AnswersInOrder` and `InStep` are about the code's table; the document's
statement is `StopResetsMode`, which run `stop` refutes.  `AHPSession` adds,
for each client, the mode and the answers that follow from the commands it has
*sent*, which may be several frames ahead of what the server has *read*; the
properties compare the two.

### AHPClient, ClientWorker, ClientView

Three layers with one `Next`.  `AHPClient` has the socket, the server as
`AHPSession` shows it to be (`Serve` takes a command by the table, `Push` sends
an unasked frame), and the functions of `AHPClient`, each split into the
request (`Ask`, `AskHello`, `AskStop`, `GetRealtimeVariables`) and what is made
of the next frame (`EndAnswered`, `QueryAnswered`, `ModeAnswered`,
`ResetAnswered`); `MtReads` is the second reader.  `ClientWorker` is the loop
of the thread:

| `pc` | Meaning | Leaves it by |
|---|---|---|
| `idle` | not running | `ConnectToServer` (start) |
| `starting` | before `connectToServer` | `RunStarts` |
| `calling` | waits for a frame | `Returns` |
| `top` | `while (!m_quit)` | `Wait`, `RunEnds` |
| `waiting` | in `m_cond.wait` | `Give` (wakeOne) |
| `awoken`, `serving` | has the mutex again; in the switch | `TakeCommand`, `BeginCommand` |

`Give` sets `m_command` whether or not the thread waits: a command given when
it does not is lost, one given before the last was picked up replaces it.
`MutexFree` is the mutex: free except while a command (not HELLO) runs.
`ClientView` has a slot in two steps where it calls the worker: the click, and
the call (`gui` says which), because a call may have to wait for the mutex -
and because it may follow `m_client` into the stack of the thread's function:
asking for the variables, describing a result, and looking up the description
of the chosen variable (`ClickChoose` and `CallLook`, the slots
`updateHistorianDescription` and `updateRealtimeDescription`);
while `gui` is not `idle` no other slot runs, nor is a signal delivered.

`trouble` is a history variable for what this client does not survive: a
connection that breaks (`lost`), a command given while the thread is not
waiting (`missed`), a thread that takes more than a second to set the mode
(`slow`), a real-time frame taken for the answer to STOP (`stray`), `Mt` killed
inside a frame (`cut`).  Properties that hold whatever happens (`Lockstep`,
`ShownAsAsked`, `NoDangling`) do not mention it; the others say that outside
these five the client is sound.

## 4. The runs

| Run | Question | Result |
|---|---|---|
| `store` | Without crashes, is the ring a bounded log within its budget, with INSERTs that add up to two pages? | holds, 481 137 states |
| `store_crash` | After crashes anywhere, has every filled block its row in the Catalog, does `DB_Config` agree with memory, and which crashes make the ring recycle the wrong block? | holds, 3 132 671 |
| `query` | Does a query get each sample of its blocks once? | holds, 743 764 |
| `inner_range` | Does a query read every filled block with samples in its range? | **no** (finding) |
| `wedge` | Can samples always be inserted while queries run? | **no** (finding) |
| `acquisition` | From the socket to the database: one timer, order, every sample once, bounded buffers, everything persisted, connected again | holds, 76 531 |
| `server` | Two clients and samples: the limit, subscriptions, stray frames, deletion, order, agreement and arrival of answers, end of threads | holds, 183 319 |
| `limit` | Is a client only rejected while the server is full? | **no** (finding) |
| `stop` | Does STOP reset the mode, as the protocol document says? | **no** (finding) |
| `channel` | Is a connection a queue of objects, however TCP cuts it? | holds, 62 120 |
| `client` | Does a tab of the client show what was asked for, agree with the server, and come back? | holds, 199 422 |
| `startup` | Does a server that runs write what its database names, whatever start or death came before? | holds, 231 571 |

The findings, each with the line of the repository it contradicts, are in
`PROJECT.json`.  In short:

* *inner_range* - the WHERE clause at 655 asks that a block begin or end inside
  the range; a query narrower than a block finds nothing.
* *wedge* - a query that mounts the block between 732 and 740 makes SQLite
  create an empty file; the copy of the template then does nothing, no INSERT
  succeeds, and as the file never grows the block is never left again.
* *limit* - the count of connections never goes down.
* *stop* - STOP_REALTIME_SENDING leaves the session in the real-time mode, where
  a SET_*_MODE that follows is ignored; the document has it reset the mode.  The
  finding also names the other difference, the answer to SET_*_MODE.

What the code does worse than one would wish, but contradicts no line of the
repository, is stated as the exact condition under which a property holds:

* `SealedCatalogued` - the Catalog's end of a block is what 32 bits keep of its
  last time stamp (644), so for milliseconds it is not that time stamp.  The
  property says this and no more.  Queries meet those ends in `Selected`; runs
  `query` and `wedge` have stamps beyond the range as well.
* `EvictsOldestUnlessTorn` - recycling changes the files first and saves
  `currentBlock` and `oldestBlock` afterwards, by two statements (732-752).  A
  crash anywhere in between can make the restarted server recycle the newest
  block instead of the oldest, at once (between 751 and 752) or some rotations
  later, when a block has been created in a place that the crash left empty.
  The property says that without such a crash it does not happen, whatever
  other crashes there are.
* `LeavesAfterClose` and `Told` - a thread ends if its client goes away between
  two frames.  Inside a frame it does not: four of the five waiting loops never
  look at the socket.
* `WritesWhatItSaved`, `CataloguedBlocksThere`, `KeepsConfiguration` - hold but
  for the deaths inside `configure` and between the removal and the copying of a
  block that `trouble` names.
* `SoundWithoutTrouble`, `InAgreement`, `WindowReturns`, `QueriesShown` - hold
  but for the five troubles of the client.
* The cache keeps one "last value" per data type for all variables, so that a
  change of one variable may be taken for a repetition of another.  The comment
  at `realtimecache.cpp` 29 can be read either way; `Conserved` is about the
  samples the cache accepts.

**Bounds, and why they are enough.**  `store`: 2-byte pages, INSERTs of up to
two pages, so that a full block has four or five, and three of them fit; eight
samples, so that the ring grows to its full length and goes round twice; `Word`
is small enough that the unsigned difference wraps if the budget is overshot.
`store_crash`: blocks of two pages, three of which fit, removals that may fail,
a crash at every value of `pc` and a second one after or during the recovery;
eight samples is what it takes to fill the ring, lose a block to one crash and
the current block to the next, so that the restart opens a file with no table.
Its time stamps, 17 and 19, are above `UIntRange`, 16, as milliseconds are
above 2^32.
`query`: two blocks that fit, so that blocks the query has selected are
recycled while it reads; two queries, so that the second starts with the
connection the first left, on an unlinked file perhaps; ranges that cover all,
cut the end or the beginning.  It has one reader: with two, the shared
connection makes a query read the block the other one has mounted, and
`ServesSelected` fails; this is in the list of hazards.

`acquisition`: batches of two, the smallest that have an order, two tasks that
may overtake each other, five halves of samples - two whole samples and a cut
one, or fewer with pieces lost to an outage - two variables of two types, two
outages, the second of which may meet a timer, an attempt or a connection.
`server`: two clients, room for one session, four frames and two samples; one
client may send every command, a frame ahead and with payloads that throw, the
other comes, says HELLO or nothing, and goes, so that there is a busy server
and a full one.  Four frames let a client greet, set a mode, subscribe and stop;
the second sample may find the subscription gone.  `stop` is one client with
four frames, `limit` both clients.  `channel`: bytes of three values and sizes of two bytes, so that a
size has a carry; frames with an object, with an empty one and without; three
frames, so that one can be under way on either side of the one being read.
`client`: a historian or a real-time tab (the alarm tab is the historian tab
without the description of the chosen variable), two connections - the second on a thread that has ended or has
not - two queries or subscriptions, one pushed frame, one broken connection.
`startup`: seven documents (whole; a key twice; a disk the template does not
fit on; no variables; no collector; not well-formed; no project first), three
starts, three blocks, so that a ring is created, recycled and interrupted at
any point of both; sizes of 8 bits so that the unsigned difference wraps.

No run uses symmetry: most check liveness as well.
Deadlock is not checked: every model stops when its bounds on samples, frames,
queries and starts are used up, and the system may rest.

**Fairness.**  Only what the operating system, Qt's event loop and the thread
pool do by themselves; never the user, a client, the collector or the network.
`AHPSession`: weak fairness of each connection thread, in run `server` beside
another client and a main thread that writes samples; `AnswersCome` is
excused only by the end of the connection or of the process, `LeavesAfterClose`
by that of the process and by a client that left inside a frame.
`TcpProxy`: weak fairness of the slots of the main thread, of attempts to
connect (which succeed or fail) and of the pool; strong fairness of the queued
signals, because a slot that is running disables them again and again, and the
event loop takes its queue in turn.  `AHPChannel`: weak fairness of the reader
and of the arrival of bytes (TCP), none of the writer.  `ClientView`: weak
fairness of the worker, of a method call that has begun and of the server -
which `AnswersCome` justifies - and strong fairness of delivering a signal,
since clicks may come in between for ever.  `Startup`: weak fairness of the
main thread.  `BlockStore` states weak fairness of its steps; no property of
its runs needs it.

Type correctness is not among the runs' properties: it is proved, as `TypeOK`
of `BlockStore`, `RealtimeCache` and `AHPServer` and as the first part of the
inductive invariants of `TcpProxy`, `Startup` and `ClientView`.

## 5. The proofs

TLAPS checks the following for every value of the constants that satisfies the
named assumptions of the modules.

**BlockStoreProofs, part 1, with crashes** (`Spec`).  `TypeOK` is not inductive:
that a time stamp interval consists of numbers rests on a full block having
rows, which rests on `btemp.db` being smaller than a block; and that the open
connection is on an existing file rests on `pc`.  `CInv` adds that every file is
either good or empty (`BlocksInv`), what `DB_Config` says relative to memory at
each `pc` (`ConfigInv`), and that a sample is at hand while one is stored
(`PendingInv`).  From it: `TypeCorrect`, `ConfigurationIsSaved`, and, with
`CatalogInv`, `SealedBlocksCatalogued`.  The last holds for all time stamps and
any `UIntRange`, since it says of the end of a period what `toUInt` leaves of it
(`PeriodDescribes`).

**Part 2, without crashes** (`RunSpec`), under `Sized` and `~RemoveMayFail`, for
any `MaxGrowth`.  `RingInv` says there is an n such that the blocks are 1..n, the
current one sits just before the oldest, sealed blocks have from `SealedPages`
to `LargestPages` pages, the current one fewer than `SealedPages`, and, once n
no longer grows, there is no room for more; and that blocks around the ring are
in order of arrival.  Since full blocks differ in size, what they take together
is a sum: n times `SealedPages`, plus what each has beyond that, less what the
current one lacks (`RingRoom`).  The sum is witnessed by its partial sums `e`,
of which `AtMost` says that each summand is at most `MaxGrowth` - 1, so that
changing one summand needs no induction (`RoomOfRing`, `RoomOfEnd`).  The hard
step is `UpdateCatalog`: where n of the smallest blocks leave no room for
`blockSize` bytes none is created, and where they do, n + 1 of the largest fit,
so that the unsigned subtraction never wraps (`FullPages`, `RoomLeft`,
`RoomBounds`).  From it: `OldestIsEvicted`, `RingKeepsOrder`, `BudgetKept`,
`SpaceBeforeCreate`.

`Sized` is a real condition on the disk: one largest block fits, and wherever k
smallest blocks leave `blockSize` bytes, k + 1 largest fit.  For the default
configuration (1 GB, 50 MB for `main.db`, template and pages as in
`Build/Server/BIN/data`: 4 pages of 1024 bytes) a block is 10 213 089 bytes or
9974 pages; 99 of them leave 10 184 704 bytes, less than a block, and
the condition holds for INSERTs that add up to 101 pages, far more than a split
of the B-tree all the way to a new root.  Another `diskSize` may break it.
`BudgetKept` and `SpaceBeforeCreate` are not claimed otherwise, nor where a
removal fails, which lets the full block grow.  Then the disk may be exceeded
and the difference at 706 may wrap; this is in the list of hazards.

**Part 3, with crashes and removals that fail** (`Spec`), for every disk larger
than `main.db` and `btemp.db` together and INSERTs of at most a page (`Roomy`:
the disk may hold no whole block, and room for `blockSize`
bytes need not be room for a block), as long as the files take at most 2^64
bytes (`NoWrap`).  `OldestIsEvictedUnlessTorn` says of such
behaviours what part 2 says of undisturbed ones, as long as no crash has fallen
inside the recycling of a block (`torn`).  It rests on two invariants.  The
first, `TornInv`, holds whatever the crashes: the block that `DB_Config` calls
oldest is the oldest, or the one being written.  The second, `IntactInv`, says
that without a crash in 732-752 it is not the one being written, unless no other
block has samples.  For the first, `DiskInv` describes a disk that crashes may leave, in terms of the c
and o of `DB_Config`: blocks 1..n in ring order up to c; o is c or the block
after it, and may be missing or unused (a crash between removal, copy and
saving); there may be an unused file n + 1 (a crash inside `createNewBlock`).
What is hard is that a block is then never created in the middle of the ring,
over old samples: `createNewBlock` opens whatever c + 1 is.  For that the pages
are counted.  `RoomInv` says that `used` is what a ring of n full blocks has,
plus what blocks have grown beyond that after a failed removal (a sum, witnessed
by its partial sums `e`, so that no induction is needed to change one summand),
less what c and o lack.  A ring that is `Saturated` leaves no room while they
lack nothing, so there is room only if o is a hole - and o is then c + 1, or
c is the last block (`CreatesInHole`).  Before it is saturated it is in its
`FirstRound`, in which c is last anyway.  `StageInv` says what holds at each
`pc`, `ArrivalInv` that what is stored is older than what comes.  The files may
outgrow the disk (`Overrun`), because of failed removals or of a crash alone:
one after block 1 has been copied anew and before line 751 has saved its number
leaves c = n next to an almost empty block 1, the restart finds room and creates
block n + 1, and when block 1 has been filled there is a block too many.  So
`BudgetKept` has no counterpart under `Spec`.  From then on the difference at
706 has wrapped and nothing is removed any more; that is why `TornInv`, which is
inductive, needs `DiskInv` only up to there.

**BlockStoreLogProofs.**  `BlockFilesImplementLog`: `RunSpec` implements
`BlockLog` under the same conditions.  On `RingInv`, which says where the
segments are, rests `GapInv`, which says that the last sample handed over is
the last one stored.  A new block adds an empty segment, a removal drops the
first one, copying anew adds one at the other end, an INSERT appends to the
last; every other step is invisible.

**HistorianQueryProofs**, for any number of readers and any ranges, while the
storage thread recycles.  Both theorems, `SamplesFoundOnce` and
`AnswersComplete`, are about behaviours in which no query begins before the one
before it is answered (`OneAtATime`).  That is not given by the code: with two
queries at work on the one connection `m_consultBlockDB` both statements are
false, which is one of the hazards (292).  `OneReaderServed` needs no such
hypothesis where there is one reader, as in the run.  Nothing is assumed about
sizes or removals.  `QueryInv` has, beside types, that no number above the last
one stored is in a file or found (`NumberInv`), and that a sample has its place
in one file only, the unlinked one the connection still reads included
(`ApartInv`).  Of the query it says: the list of blocks still to be read has
each block once (`TodoInv`); no sample was found twice, or is in a block of
that list, the unlinked file included (`FoundInv`); and what is due and still
stored was found or is still to be read (`DueInv`).  The last fails if block 1
can be recycled into itself while it is being read, which `CatalogShape` rules
out where there are other blocks.  That the list exists - that a finite
set can be put in the order of a strict total order - is `OrderExists`, by
counting the predecessors.

**AHPChannelProofs**, for any commands, objects, base and widths of fields.
`ChannelInv` says where in the stream the reader stands: there are cuts, the sums of
the lengths of the frames written, such that what is on its way - a prefix of
it, if the writer is gone - is the bytes from the reader's place on
(`InOrder`), and that place is the cut after the objects received plus the
offset of the field it waits for, with the fields before it as they were
written (`ReaderAt`).  It rests on `ReadsWhatIsWritten`, that `Number` undoes
`Digits` in a field with room, and that on `Induction`, which is stated for a
set of numbers instead of a predicate (and follows from the least element of
its complement).  From it: `ChannelImplementsQueue` - only the last field of a
frame changes what the queue sees, and then by exactly one object.

**AcquisitionProofs, the cache**, for any `MaxCache` and `MaxTasks`.
`BuffersStayBounded`: the inactive buffer is empty between two samples and the
active one has room.  `SamplesConserved` and `OrderKeptWithinBatch` rest on the
invariant `Flow`: tasks hold consecutive slices of whole batches, the active
buffer the last, incomplete one, and what was emitted of a task is a prefix of
its batch - so that places are disjoint and each batch is emitted in order
whichever task runs.

**The collector's socket in front of it.**  `ProxyDrivesCache`: hiding the socket, every behaviour of
`TcpProxy` is one of `RealtimeCache`, so that the cache's theorems hold behind
any collector (`ProxyKeepsCachePromises`).  `OneTimerAlways`, `HandedOnInOrder`
(with the invariant that what is being handed on lies between what was and what
has been taken from the socket) and `WholeSamplesHandedOn`.

**StartupProofs**, for any documents, rotations and deaths inside them.  The
inductive invariant has four parts: types; that sizes follow from disks by the
unsigned formula; that in a database which met no trouble but a lost current
block there are variables exactly if there is one row of `DB_Config`, and block
1 is there unless it is just being recycled (`Kept`), so that `isConfigured`
judges rightly; and, with no trouble at all, that memory, `DB_Config` and the
files agree but for the step of the rotation that is being taken (`Connected`),
and of the blocks in the Catalog at most the oldest has no file (`BlocksThere`).
From it: `ConfigurationKept` (from `Kept` alone), `WritesWhatItSavedAlways`,
`CataloguedBlocksStay`, `BlocksAlwaysFit`.

**AHPServerProofs**, for any set of clients.  The inductive invariant adds to
`TypeOK`: `Numbered` (a started connection has a number below the count, or the
limit itself; below the limit numbers are unique; accepted sessions have
numbers below the limit) - without it `SessionsBounded` is not inductive, since
the check compares a number given long before; `Unlinked` (a deleted object has
no signal connection); `FirstStray` (a frame on its way that is no longer
wanted is the first since STOP).  From it: `LimitKept` (by an injection of the
accepted sessions into the numbers below the limit), `SubscriptionFollowsState`,
`AtMostOneStray`, `ReceiversAlive`, `TypeCorrect`.

**Its second part, the sessions**, for any number of clients and of frames sent ahead.  The
client's view is worked out from all it has sent, the server has handled less;
the inductive invariant `Sync` closes the gap: the commands still in the inbox
lead (`Leads`, by the table) from the mode the server will have after the
command in hand to the mode the client expects, and what the client is owed is
the answer in hand followed by what those commands will owe.  A command sent
extends the way at its end (`LeadsOn`), a command read takes its first stretch
off (`LeadsFrom`), handling one is a row of the table (`CaseSync`).  From it:
`AnswersAlwaysInOrder`, `AlwaysInStep`.

**ClientViewProofs**, for any number of connections, commands and broken
connections, and without any assumption that no command is lost.
`NeverDangles`: while the signal "connected" is queued, a slot deals with it, or
the tab is enabled (`Live`), nothing that would make `run` end has been
commanded (`EndsOnlyIfTold`); and that there is only one of these three at a
time (`OneSource`) is what makes it inductive.  `AlwaysLockstep`: a tab that is not the
real-time one has no second reader, is sent nothing unasked, and writes only
when nothing is under way (`Lone`).  `AlwaysShownAsAsked`: every query under
way is one the user made, with its entries (`Genuine`); and one still to be
answered is younger than all whose result is queued or shown (`Ordered`), since
by `Lone` nothing of an earlier one is left when it is answered.

Its second part is about the client without trouble (`trouble = {}`).
`Calm` says that the session of a tab is then in one of seven phases - away,
greeting, greeted, setting the mode, querying or receiving, leaving - and, for
each, where the one command under way can be: given by the slot, in
`m_command`, copied, requested, or answered; that fixes the mode of the
server, and that besides the answer only real-time frames are in the channel
(`With`, `OnlyPushed`).  `Window` adds what the slots show meanwhile.  Trouble
only grows, so a step that ends without it began without it, and each action
leads from a phase to the same or the next one (`StepCalm`).  From it:
`SoundWithoutTroubleAlways` and `InAgreementAlways`.

**Only model-checked**: all liveness (`Persisted`, `Reconnects`, `AnswersCome`,
`LeavesAfterClose`, `WindowReturns`, `QueriesShown`, `ComesUp`, `Received`,
`Told`), which is out of the prover's reach.  Every safety property that a
passing run checks is also a theorem, under the hypotheses named here.  The
four statements the code does not keep (the runs that expect a violation) are
refuted by TLC and have no theorem.

## 6. What is not modelled

* Queries about alarms and the table of variables: single SELECTs with no state
  between calls.  Alarms of the collector reach no slot at all.
* The bytes of a field inside a payload (msgpack, vendored).
* Failure of an SQL statement other than for want of the table (a full or
  failing disk); a copy that fails although its target is not there.
* The plotters: they receive no values, because the connection of the signal
  that would bring them is refused at run time.  (`drawGrid` divides by the
  number of ticks, which zooming and then shrinking the window can make 0; the
  sliding window drops one value per value pushed.)
* The fields of the connect dialog, slots of the window that nothing is
  connected to, `TcpProxy::addWriteTask` and `appBegin`, the simulator
  `DataAcquisition`, getters and setters of `Domain/`, the conversion functions
  of `globalfunctions.cpp`, of which only `GetValue` is called.
* The pointer `setRawData` leaves in the payload (`serializer.cpp` 10 and
  following): a `QByteArray` that still points into the Serializer's buffer.
  `Serializer` has the payload as a value.
* The byte layout of a frame as the protocol document draws it: its diagrams
  give frames without payload a CRC, which the code does not write.  The
  properties of `AHPChannel` are about writer and reader of the code, and assert
  no layout.
* A client that follows the protocol document where it differs from
  `connection.cpp`: `AHPClient` is the repository's own client, which expects
  what the code answers.
* Queries while the server starts or a death interrupts a rotation: in `Startup`
  there is no client.
* Two connection threads in `HistorianQuery` at once, and the cache's contents
  after the death of the process: nothing is promised there (see the hazards).

Nearly half of the implementation lines, 6179 of 13 278, are one generated file
(`Build/Client/qrc_resources.cpp`, pictures as byte arrays); it holds no
behaviour.

## 7. Running it

In `tla/`: `tlc -config MCBlockStore.cfg MCBlockStore` and likewise for the
other rows of `runs` in `PROJECT.json`; `tlapm BlockStoreProofs.tla` and
likewise for the other modules named `...Proofs`.
Definitions marked `\* mutant` are not part of the model: each is the form a
plausible bug would give to the definition that follows it, and `PROJECT.json`
says which property notices.
