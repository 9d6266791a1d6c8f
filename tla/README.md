# Keron in TLA+

Keron is a multiplayer mod for Kerbal Space Program: a C++ server that relays
what its clients send, and a C# plugin in the game. These modules model the
server and the lock-free queue it is built on; TLC checks them on small
instances, and TLAPS proves the theorems for instances of every size.

## 1. The system

    clients --ENet--> main thread --incomings--> workers --outgoings--> main thread --ENet--> clients
                          |
                          +-- LMDB datastore

| part | code | state | operations | hard about it |
|---|---|---|---|---|
| main loop | `server/src/server.cpp:229-311` | the event, ENet's peers with the generation in `peer->data` | one `service` call and its event; send every outgoing message | workers read `peer->data` while it writes it; slots are reused; a service error throws past joinable threads |
| workers | `server.cpp:187-225` | the message being handled | dequeue, verify, dispatch, sleep 25 ms | several consumers of one queue; a refused message leaves the inner loop |
| handlers | `server.cpp:34-126` | none of their own | log, broadcast a chat, reply to a clock request | read the peer when they run, not when the message came |
| datastore | `server.cpp:247-278`, `include/store.h` | one LMDB database, a one-byte counter per record | one transaction per connection | crashes between read and commit; wrap-around; `MDB_FIRST` |
| signals, lifecycle | `src/os/*.cpp`, `include/signal_handlers.h`, `server.cpp:144-190`, 313-322 | `stop`, the logger's registry | start, register, spawn, set `stop`, join, drop the loggers | a signal at any moment, a handler that logs, restarts |
| queue: counters | `include/concurrentqueue.h:1586-1590`, 2382-2394 | tail, head, optimistic and overcommit counts of a producer | `enqueue`, `dequeue` | stale loads, failures that make others fail, wrap-around |
| queue: blocks | `concurrentqueue.h:2252-2849`, 1407-1530 | blocks, block index headers and entries | start and release blocks, grow the index, rewind it | consumers use the index while the producer grows or rewinds it; allocations fail |
| queue: free list | `concurrentqueue.h:1287-1391` | a stack of blocks with reference counts | `add`, `try_get` | ABA, a node that readers still reference |
| queue: producers | `concurrentqueue.h:2937-3349`, 969-1000 | list of producers, hash from thread to producer | find or add a producer, resize, choose one to dequeue from | concurrent growth of the hash |
| client mod | `client/` | `connected`, host, peer, windows | connect, disconnect, poll, send | flags that outlive what they describe |
| configuration | `server.cpp:82-113` | `server.json` | read at start, written when missing | a start after a crash inside the writing |
| schemas, build | `schemas/`, CMake | – | – | generated code, no run-time behaviour |

What makes each of them correct:

* **server**: a received packet is handled by exactly one worker; a chat is
  broadcast once; a reply goes to the client that asked, never to one that got
  its slot; a signal ends all threads; the host goes on being serviced.
* **datastore**: a committed connection is counted once, whatever crashes, and in
  its client's record.
* **queue**: an element is given to one consumer, in the producer's order, and
  only once it is there; a block is in one place and goes back empty; progress.
* **lifecycle**: a signal always ends the server; nobody uses a logger that is gone.
* **client mod**: what it takes for a connection is one.

## 2. The modules

| module | models | correspondence |
|---|---|---|
| `KeronServer` | main thread, workers, handlers, signals, ENet's slots | a branch of the event loop or a handler is an action; `data[s]` is `peer->data`; queues are sequences, the outgoing queue one per worker that fills it; `unseen` is how far a `try_dequeue` has come in its walk over them |
| `ChatRelay` | what the server promises of chat | abstract specification; `Relay` in KeronServer is the mapping |
| `ConnectionCount` | the CONNECT transaction as an operator | the datastore is a function; `FirstKey` is `MDB_FIRST`; KeronServer uses `RecordConnection` |
| `ClientStore` | the datastore over crashes and restarts | read and commit are two steps, a crash falls between |
| `Lifecycle` | the process from start to restart: configuration, logger, handlers, workers, shutdown, on POSIX and Windows | extends ClientStore with `mpc`, `wpc`, the registry of spdlog and its mutex, and the signal handlers (`frames`) that run on top of each thread |
| `KeronClient` | the connection state of the mod | one action per function of ConnexionUtils, called as the windows call it |
| `IndexDispenser` | what the counters of a producer promise | abstract specification, and the base of ImplicitProducer |
| `SubQueue` | `dequeue()` on the four counters | one action per atomic access; history variables record the fate of each ticket |
| `PolledSubQueue` | SubQueue under `try_dequeue`'s size check and workers that sleep after a failure | who sleeps, and the size each consumer sampled |
| `CircularIndex` | `circular_less_than` and the block offset | `Half` is 2^(w-1) |
| `WrappedCounters` | SubQueue's steps on counters that wrap | finite without a bound on elements or tickets |
| `ImplicitProducer` | the constructor, blocks, the block index and its growth, of one producer, and the destructors | extends IndexDispenser: `PublishElement` and `ClaimIndex` are steps of it; `indices` is the chain of `prev`, empty when the constructor got no memory; `freed` counts how often the destructors give a block back; that they free the chain of indexes (2302-2314) empties `entries` and `indices`, and no property is about it |
| `FreeList` | `add`, `try_get`, `add_knowing_refcount_is_zero` | one action per access to shared memory |
| `ProducerHash` | `get_or_add_implicit_producer`, its tables, the list of producers | one action per access to shared memory; `mainHash`, `hash`, `index`, `newCount` are the locals of that name, `mine` is `value` or `producer`; `tables` is the chain of `prev` |
| `MC*` | symmetry and views for TLC | – |
| `*Proofs` | theorems | – |

The layers use each other by promise: KeronServer's queues are what
ImplicitProducer keeps (elements come out in their order, each once),
ImplicitProducer's counters are IndexDispenser (`UsesDispenser`), which SubQueue
implements (`DispenserRefinement`), and
its free list is a set, which FreeList keeps. The outgoing queue is one
FIFO per worker because ProducerHash gives every thread one producer. Composing the layers in one
instance would only multiply their states. A worker's `try_dequeue` may fail in
KeronServer while another is inside one, as it may in SubQueue; the main thread's
looks at the FIFO of each worker at another moment (`SeeEmpty`), so it may find
nothing though there was never a moment without an answer. What a process does
to the datastore in Lifecycle are steps of ClientStore (`LifeImplementsStore`),
and KeronServer runs the same transaction as one step.

ENet, LMDB, spdlog and the delivery of signals are external. ENet: a peer structure is `free`, `connected`, or
`gone` from the moment the client leaves until the main thread serves the
event; `data` outlives the peer, and enet_peer_send refuses a peer that is not
connected. LMDB: a transaction takes effect when it commits. spdlog: `get` and
`drop_all` hold the mutex of the registry, and a logger one has got lives on.
Signals: on POSIX a handler runs on top of any thread, also of another handler,
but not of one of the same signal; on Windows in a thread of its own.

Atomic accesses take effect in program order (sequential consistency). What the
weaker orders of `std::memory_order` allow beyond that is not explored; the
comments at the fences of the source argue about it.

**Definitions named "Mutant"** above a definition are the same one with
a plausible slip. No specification uses them; each shows that one property
notices the slip.

## 3. The runs

| run | instance | what it shows |
|---|---|---|
| `relay` | 1 slot, 2 sessions, 2 workers, 3 packets, three kinds | `OneOwner`: every packet is in one place. `ReplyStaysInGeneration`, `StayingAskerIsAnswered`: what the generations do ensure. `ChatsInOrder`: the chats one worker handles leave in the order they came, even if a refused message ends its loop between them. `RelaysChats`: the server implements ChatRelay |
| `live` | 2 workers, 2 packets | under fairness a signal ends everything, the host is serviced, messages finish |
| `asker` | 1 worker, 1 packet, 2 sessions | **violation**: see section 5 |
| `store_perclient` | 3 clients, counters 0..3, 6 connections | **violation**: see section 5 |
| `lifecycle` | 2 workers, 2 signals in a life, 2 clients, counters 0..1, 3 connections, any number of lives, POSIX or Windows | `OneRecordCountsAll` over crashes, signals and restarts; `WorkersFindLogger`: a late worker's logger is there; `SignalEndsServer`: a signal ends the process unless its handler waits for the thread below it |
| `signal` | same, 1 signal | **violation**: see section 5 |
| `subqueue` | 3 consumers, 2 elements, no effective bound on tickets | the counters give out an element once and only if it is there; they implement IndexDispenser; every element is claimed; failures are bounded |
| `implicit_producer` | 2 consumers, blocks of 2, 10 elements, 4 blocks, an index of 2 that grows once | consumers find and read their own element while the index grows, rewinds and reuses entries; until the destructors run no block is lost or in two places, and none is released with elements in it; the destructors free every block once and destroy every element; `GrowsWhenFull`: the index grows only when it is full, which a failed allocation must leave so |
| `freelist` | 3 threads, 2 blocks | no ABA, no lost block, one adder, and lock-freedom without any fairness |
| `producer_hash` | 3 threads that collide in every table, tables of 2, 4 and 8, 3 calls | a thread has one producer whatever table it is in; tables never fill up; failed allocations give back what they reserved; every call returns |
| `wrapped_counters` | 3 consumers, index_t of 8 values, blocks of 2 | the guarantees survive wrap-around |
| `client` | – | **violation**: see section 5 |

Bounds, and why they are enough:

* Two workers are the least that race for a message or overtake each other.
  Two sessions of one slot are the least for its reuse. Three packets
  let one wait, one be handled and one be answered.
  `relay` gives the stored counter one value (`CountMod = 1`): but for its type none of the
  properties reads it, and the runs that do let it wrap at two or four.
* Three consumers and two elements let a consumer fail because two others took
  the elements, and then a third be misled by that failure. The assertion
  and the counters are proved for every number of them.
* Ten elements in blocks of two make five blocks: the index of two entries
  grows, the new one of four wraps around, and a block that was given back is
  used again while consumers of older blocks are still inside. The first index may
  fail to be allocated, and so may every later one and, when pool and heap are empty,
  every block.
* A `BlockIndexEntry` is created by `new (entries + i) BlockIndexEntry`, and only its key
  is stored (`concurrentqueue.h:2810-2811`). Before C++20 the default constructor of
  `std::atomic` leaves the value uninitialised, and Keron is built as C++11
  (`server/CMakeLists.txt:19`). Such a value is `Uninit`, and the producer's
  test for null (2732) may go either way on it. That it is never read at all as long as
  the key is invalid, and cleared before it could be (2342), is what `GrowsWhenFull` rests on.
* `lifecycle`: two signals let one handler run on top of another, or follow it;
  with two workers one can be late while the other has ended. A wrapped counter
  is seen with two values and three connections. Lives are not bounded.
* ABA on the free list needs the head, its successor and the head put back
  while a reader sleeps: two blocks. The third thread interferes with both.
* In `producer_hash` the first table of two entries is too small for any thread, so
  each behaviour sees a table grow, threads wait for one, and a thread found in
  an old table move to the newest. The hash value 7 is the last entry of every
  table: the search wraps around. Three calls are a lookup after two insertions, or
  three insertions.
* `Half = 4`: the bound of `Patience` is sharp. With 3 = Half - 1 the
  guarantees hold, and with 4 a consumer that slept between its load of
  `dequeueOvercommit` and its ticket takes an element that is not there. That
  is the race of which the comment at `concurrentqueue.h:206-215` warns.
  In `wrapped_counters` states that differ by a shift of the counters are one
  (a VIEW); `MCWrappedCounters` says why that is sound.
* `CHECK_DEADLOCK FALSE` is given where the server really ends or where the
  bounds on elements, tickets or connections stop the model.

## 4. Fairness

* `WF(MainStep)` and `WF(WorkerStep(w))`: the operating system runs every thread
  that can run. `sleep_for` and `service` return after 25 ms.
* `SF(\E w : WorkerDequeue(w))`: a `try_dequeue` fails on a non-empty queue only
  because others interfere: another consumer fails between its load of
  `dequeueOvercommit` and its ticket. Consumers that retry at once can make
  each other fail like that without bound (without the sleep, which is the mutant
  `NeverFails` of PolledSubQueue, TLC finds it). Keron's workers sleep 25 ms after a
  failure (`server.cpp:221`), much longer than a `dequeue()` takes. With
  that, `subqueue` shows that each element is claimed, from weak fairness of
  the consumers. So the sleep, which the comment calls a way to "avoid
  spinning wildly", is also what progress rests on.
* Nothing is assumed of clients, signals or service errors.
* `LifeSpec`: the system runs main, every worker and every handler that can go on.
  A thread waits for the mutex of the registry only while its holder takes one step.
  Starts, signals and kills need not happen.
* `CallsReturn` assumes that the system runs a thread that is inside the queue; the
  wait for another thread's table is a loop of the waiting thread.
* `LockFree` assumes only that threads take steps: it is the free list's own
  guarantee.

## 5. Where the code and its comments disagree

* **A reply can reach a client that did not ask** (`asker`). `msg_clocksync` takes
  the generation from `event.peer->data` when it runs (`server.cpp:78`), not the
  one saved with the event (`server.cpp:243`, `incoming_t::generation`, which
  nobody reads). If the slot changes hands before the handler runs, the
  check at `server.cpp:304` compares the new generation with itself.
* **The connection count is not the client's** (`store_perclient`). The cursor is
  read with `MDB_FIRST` (`server.cpp:261`), which also replaces the key: all
  connections are counted in the record of the first client that ever came. What
  the code does instead is `OneRecordCountsAll`, checked and proved.
* **A signal can hang the server** (`signal`). The handler calls `spdlog::get` and
  logs (`posix.cpp:20`). If it interrupts a thread inside `spdlog::get`
  (`server.cpp:189`) or `drop_all` (`server.cpp:320`), it waits for the mutex
  that this thread holds; main then waits for that worker. A signal after
  `drop_all` gets a null logger. `signal_handlers.h:12` promises "proper shutdown".
  On Windows the handler has its own thread and only the null logger remains.
* **The client never finds out that it is disconnected** (`client`). `isConnected` is
  documented as "true, if connected, false otherwise" (`ConnexionUtils.cs:82-85`); nothing
  sets `connected` back: not the Disconnect event, which `receiveChatMessage`
  drops, not `disconnect()`, not a failed `connectTo` after a good one.
* **A producer may have no block index** (`StartWithoutIndex`, in `implicit_producer`). The constructor
  ignores the result of `new_block_index()` (`concurrentqueue.h:2259`). When its `malloc`
  fails `blockIndex` stays null, and the first `enqueue()` dereferences it (2728-2729);
  `new_block_index` (2786) and the destructor (2304) do test for null. The comment at 835
  promises that enqueue "Only fails if memory allocation fails", and it reports that by
  returning false (2334, 2343). Nothing else breaks: such a producer has no element, so no
  consumer looks for an index, and its destructor frees nothing twice (`Fresh`).
* `assert(overcommit <= myDequeueCount)` (`concurrentqueue.h:1824`, 2391) compares
  wrapping counters as numbers. Without wrap it is checked and proved
  (`OvercommitAssertion`); when `dequeueOptimisticCount` has wrapped and a loaded
  `dequeueOvercommit` has not, it is false although the dequeue is right. On
  a 64-bit build the wrap is out of reach.
* The comment at `concurrentqueue.h:2775` wants the sign of the block offset
  preserved; the division by the unsigned `BLOCK_SIZE` does not preserve it. The
  entry found is right all the same (`OffsetSurvivesWrap`).

## 6. The proofs

All are checked by TLAPS, from the assumptions named in the modules (bounds are
naturals, `nullptr` is no object, the range of a counter is positive).

* **Server** (`KeronServerProofs`): `ServerTypeOK`, `ServerGenerations`,
  `ServerRepliesStayInGeneration`, `ServerAnswersStayingAsker`. That a
  client which stays is answered is not inductive: whether a reply matches
  depends on when its message came. The invariant adds that the asker of
  a message is a session the slot already had (`AskersConnected`), and that a
  reply under way belongs to a session that is over or carries the
  generation the slot has now (`RepliesMatch`). A disconnection then spoils
  only the replies of the session that it ends.
  `ServerOwnsPacketsOnce` and `ServerKeepsChatOrder` need where a packet can be: in the
  queue, in a worker's hands, among its answers or finished. The places
  are disjoint (`Apart`), each queue is in the order of receipt (`Numbered`, `Ordered`), and what a
  worker has broadcast came before what it still has (`ChatsOrdered`);
  `PlacesInv` holds them together, and each action moves one packet from one place to the
  next. `ServerRelaysChats` is the refinement of ChatRelay: every action of the server
  maps to a step of it or a stutter.
* **Datastore** (`ConnectionCountProofs`, `LifecycleProofs`): `ClientStoreTypeOK`,
  `OneRecordCountsAllClients`. The invariant adds that an open transaction still
  reads what is committed, as there is one writer (`TxnIsCurrent`).
* **Lifecycle** (`LifecycleProofs`): `LifeHasTypes`, which also says that a process
  which is off has no thread, handler, stop code, logger or open transaction left. `LifeImplementsStore` maps every step of
  a process to a step or a stutter of ClientStore, so `LifeCountsAllClients` follows.
  `WorkersAlwaysFindLogger` needs that the registry is filled before the first worker
  starts and that after the joins there is none (`RegistryInv`).
* **Counters** (`SubQueueProofs`): `HeadWithinTail`, `EveryPassHasElement`,
  `ElementsTakenOnce`, `OvercommitAssertion`, `SubQueueTypeOK` and
  `DispenserRefinement`. `head <= tail` says nothing of why a consumer
  may advance head. The argument counts tickets: a consumer with ticket m that
  saw o failures passes when m - o < tail; those failures had tickets below m, and
  a ticket passes or fails once; so at most `tail` tickets ever pass.
  `SeenFailed` and `TopWithinTail` are the two halves of that, `Tickets` and
  `Fates` the bookkeeping. The refinement follows from the same invariant.
  `PollingImplementsSubQueue` takes all of it to the workers of PolledSubQueue
  (`PolledGuarantees`, `PolledQueueTypeOK`). `HeadNeverExceedsTail` and `IndicesDiffer` are
  proved only: the run checks what follows from them.
  `FailuresStayBounded`: n consumers take at most (2 * tail - 1) * (n - 1) tickets in
  vain. The invariant tells three situations apart: nobody's next ticket fails (`Calm`); some
  ticket passes, everybody else may fail once, and then sleeps (`Led`); an
  element was just claimed and consumers are inside whose loads are older, which may make
  everybody fail once more (`Late`). So an element costs each other consumer two failures at
  most, and the last one only one. An earlier bound of tail * n held for the three
  consumers of the run and is false for four, which the attempt to prove it showed.
* **Blocks and block index** (`ImplicitProducerProofs`): `SpecTypeOK`, `SpecEntryIsFound`,
  `SpecReadsOwnElement`, `SpecBlocksAreOwnedOnce`, `SpecGivenBackEmpty`,
  `SpecTeardownIsComplete` and `SpecGrowsWhenFull`, all from `IInv`, for every number of consumers and blocks,
  block size, initial capacity and number of growths. None of the seven is inductive:
  a consumer may sleep between any two of its loads while the producer reuses,
  grows and rewinds the index. Block number K holds the elements from `BlockSize * K` on;
  the current index, read backwards from its tail, is a window of block numbers
  (`Window`, `Slot`). The entries that hold a block have its key, and from the oldest
  such key to the newest none is missing (`Keyed`). A block with an element that is not
  out is in the window (`Counted`), and so is the block of a consumer on its way; what
  it read from an older index or an older tail leads it to the same entry (`Leads`,
  `Searching`). The counter of a block is the number of its elements that are out, so one
  consumer finds it full, at a time when nobody else is in it. `Contents` says what each
  place of a block holds, `Owned` where each block is, `Torn` what the destructors left. A value that was never
  stored is behind an invalid key, or in the entry that `enqueue()` is about to fill or to
  clear (`Unwritten`); a producer without an index has done nothing (`Fresh`). The
  ownership of blocks ends with the destructors; from then on `TeardownIsComplete` counts
  how often each was freed. By `UsesDispenser` every step is
  one of IndexDispenser or a stutter.
* **Free list** (`FreeListProofs`): `FreeListTypeOK`, `FreeListOneUser`,
  `FreeListLosesNone`, `FreeListOneAdder`. That a count never reaches the flag above it is
  part of the type invariant: it is at most the number of threads and one. The invariant balances the reference
  count of each block against the numbers of threads that read, take, mark, add or own it
  and the list's own reference (`Balanced`), and says that the list has no fork and no
  cycle (`Linear`). By the balance nobody can put a block back while a reader
  holds it, so the link that the reader exchanges is still the block's (`Knows`): no ABA.
* **Producers** (`ProducerHashProofs`), from `HashInv`: `HashTypeOK`, `HashOneProducer`,
  `HashListsProducers`, `HashTablesHaveRoom`, `HashCountIsExact`.
  *One producer*: a search for t meets no empty entry before t's in any table (`Entry`);
  so a thread that comes to the end of all tables has no producer (`Searching`,
  `Newcomers`). *Room*: give each thread as its rank the count it saw
  when it reserved; of those that hold a reservation no more than k have a rank of
  k or less (`Sparse`), though failures take the count down again. Who has or needs an
  entry of a table has a rank below three quarters of the table, a thread
  that moves to a newer table too, since tables only grow. *List*: a producer
  whose link is not final is not on the list (`Linked`), so no link on the list
  changes.
* **Index arithmetic** (`WrappedCountersProofs`): `CircularOrder` says that wrapped
  counters compare as unwrapped ones up to half the range apart, for every
  width. `OffsetSurvivesWrap` says that a block is found in the index whatever the
  sign of its distance and whether or not an index wrapped between.
* **Counters that wrap** (`WrappedCountersProofs`): `WrappedTailStaysAhead`,
  `WrappedEveryPassHasElement` and `WrappedProbeIsExact` are the three properties of
  `wrapped_counters` for a range and blocks of any size. The variables have forgotten
  the integers they stand for, so the invariant says that such integers exist (`Held`:
  four counters, what each consumer saw and holds, the tickets that failed and passed),
  and each action has a lemma that names the next ones. The proof is then that of
  SubQueue, but for what a comparison says of wrapped numbers. One that finds a count
  *not* behind the tail may be wrong, when its consumer slept while the tail went half
  around: it gives up without need, and nothing breaks. One that finds it behind is
  right if the count is at most `Half` ahead (`NotBehind`), and it is ahead by the
  failures its consumer did not see, fewer than the tickets others took meanwhile and
  the tickets they held before (`Lag`). Hence the hypothesis `NobodyOversleeps`,
  `Patience + 2 * consumers <= Half + 2`. It is enough for every instance, not the best
  bound: the run has three consumers and `Half = 4`, where TLC finds that `Patience` may be 3.
  `Room` is how the check for the block that is started (2326) holds until it is full;
  it needs no more than `BlockSize <= Half`, two powers of 2 of one type (636-639).

Every safety property of a passing run, and every refinement, is stated by a theorem;
`ServerGenerations` is proved only.
Only model-checked: liveness, as TLAPS has no ENABLED here (`CallsReturn`, `LockFree`,
`ElementsAreClaimed` and those of the server and the process).

## 7. Not modelled

* The hand-over of the producer of a thread that ended, which is not compiled
  (`concurrentqueue.h:146-156`); bulk operations; tokens and explicit producers
  beyond their counters: Keron uses none of them. `try_dequeue`'s preference for the
  longest of three queues: the main thread's walk may take any non-empty one.
* The branches of `dequeue` for element types whose move throws: Keron's do not.
* What Keron does after its `enqueue` calls failed, whose results it ignores,
  and packets that leak (`server.cpp:305`, events left in `incomings` at the end).
* Weak memory orders (section 2).
* The two locks of spdlog's asynchronous logger, which a handler takes after the one of
  the registry: the hazard is the same one.
* The windows of the client and the loading of the game; the encoding of messages,
  which is generated code; build files.

## 8. Plan

1. Done: all parts of the server and of the queue that Keron runs, the process
   around it, the connection of the client; the first theorems.
2. Done: theorems about the safety of the server, the process, the counters, wrapped or
   not, the free list and the hash of producers.
3. Done: theorems about the safety of ImplicitProducer, and that its counters are those
   of IndexDispenser.
4. Left: liveness stays with TLC; the hazards without a property are in
   `PROJECT.json`, each with the reason.
