# gocore in TLA+

gocore is a collection of Go packages, most of them written from scratch after well-known
designs: synchronisation primitives, a rate limiter, a retry queue, a Redis lock, caches and
trees, a network poller, a web framework and fragments of a memory allocator. This directory
holds TLA+ modules of them, TLC configurations that check the modules on small instances, and
proofs checked by TLAPS for every value of the constants. Line numbers refer to the files of
`src/`.

Notation: *run* is an entry of `PROJECT.json`, with its module and configuration; *step* is an
action of a specification.

## 1. Inventory

| Component | Source | State | Operations | Hard behaviour |
|---|---|---|---|---|
| Mutex | `sync/mutex.go` | one 32-bit word (locked, woken, starving, number of waiters), a semaphore | Lock, TryLock, Unlock | interleaved CAS loops, lost and double wake-ups, change of mode |
| RWMutex | `sync/rwmutex.go` | `readerCount`, `readerWait`, two semaphores, the Mutex `w` | RLock, TryRLock, RUnlock, Lock, TryLock | readers that leave while a writer announces itself |
| Rate limiter | `rateLimiter.go` | sub-window counts, their total, a timestamp, `clearFlag`, a condition variable | TryAcquire, the clean-up goroutine, HTTP handler | clean-up with values computed earlier, time passing between any two steps |
| Retry queue | `retryQueue.go` | heap of tasks, channels `signal` and `remained`, flag `loaf` | AddTask, Run, the workers' goroutines | tokens passed round, retries, back-off |
| Distributed lock | `go-lock.go` | a Redis key with an expiry, a watchdog per lock | Lock, TryLock, UnLock, delay, release | expiry, late renewals, shared identity, unbuffered channel |
| Bounded heap | `container.go` | two arrays and a length | insert, delete, peekMax, peekMin | index arithmetic, swap by exclusive or |
| Encoder cache | `jsonUtil.go` | map, heap, counters | load, store, Marshal | eviction, counters that must agree |
| FIFO buffer | `FIFO.go` | slice, head, tail | Enqueue, Dequeue, expansionCap | wrapping around, growing |
| B-tree | `B-Tree/btree.go` | nodes shared between clones, free list | ReplaceOrInsert, Delete*, iterate, Clone, Clear | rebalancing, copy on write |
| netpoll connection | `netpoll/connection_*.go`, `fd_operator.go` | buffers, triggers, timers, key locks, the operator's state | read and write paths, inputs/outputs, Close, onHup | user goroutine against poller, timeouts against late input |
| netpoll server and pollers | `netpoll/netpoll*.go`, `poll_manager.go` | map of connections, list of pollers | Server, Shutdown, OnRead, Close, SetNumLoops | accept against hang-up and shutdown |
| netpoll dialing | `netpoll/net_polldesc.go`, `net_netfd*.go` | triggers of a descriptor | WaitWrite, onwrite, onhup | writable against hang-up against time-out |
| gin engine and chain | `gin/gin.go`, `gin/context.go`, `gin/routergroup.go` | groups with their middleware, pooled contexts, a handler chain and an index | Use, Group, NoRoute, handle, ServeHTTP, HandleContext, Next, Abort, Render, Bind | re-entrant chains, reuse of contexts, middleware added late |
| gin routing | `gin/tree.go` | a radix tree per method | addRoute, incrementChildPrio, iterate | order of children against their index string |
| gin binding | `gin/binding/*`, `fs.go`, `utils.go` | none | conversions | none that is stateful |
| Memory allocator | `memoryAlloc/*` | spans, sweep generations | cacheSpan, grow | sweeping against allocation (fragments only) |
| DHT, systemCall | `DHT/dht.go`, `systemCall/systemCall.go` | none | defaults, one call | none |

How they interact: RWMutex contains a Mutex; the encoder cache contains the bounded heap; a gin
engine hands pooled contexts to handler chains found through the route tree; a netpoll server
creates connections, which share an operator with a poller and tell the server by close
callbacks when they end. The retry queue uses Go's own `container/heap`, the rate limiter and
the retry queue Go's own `sync`, and the distributed lock a Redis server. The other packages
stand alone.

What makes each of them correct:

* **Mutex** - one holder; no wake-up is lost and there are never two; the counted waiters are
  the sleeping ones; starving mode does not let newcomers overtake, and ends.
* **RWMutex** - a writer is alone; readers are counted rightly through the announcement; the
  last reader wakes the writer, once.
* **Rate limiter** - total and sub-windows agree at every moment; the promised rate; nobody
  waits for a clean-up that will not come.
* **Retry queue** - a worker runs one task at a time; a task is never lost nor run twice at once;
  nobody blocks on the queue's own channel; every task that can succeed does.
* **Distributed lock** - one client at a time as long as renewals arrive; a client never deletes
  another's key; UnLock returns.
* **B-tree** - a tree is the ordered set it stands for, stays balanced, and clones do not see each
  other's writes although they share nodes and a free list.
* **Heap, cache, FIFO** - the multiset, the bounded map and the sequence they stand for.
* **netpoll** - no input is acknowledged without waking the reader that waits for it; an answer
  of one flush is not taken for another's; buffers are not used by two at a time nor after they
  were closed; Close returns; shutdown ends.
* **gin** - handlers run once and in order; after Abort none; a context serves one request at a
  time and carries nothing over; every route keeps the chain it was added with, and the index
  string of a node matches its children.

`PROJECT.json` lists every hazard found, at its line, with the properties that cover it. A note says
where none does, and what a property excepts because the code is known to fail there (section 4).

## 2. Modules

| Module | What it is |
|---|---|
| `AbstractLock` | what any lock promises: goroutines are idle, waiting or holding, at most one holds, and a free lock that is waited for is taken |
| `SyncMutex` | `sync/mutex.go`, one atomic access or semaphore operation per step |
| `Counting` | lemmas about the number of goroutines at a label, and how it changes when one moves |
| `SyncMutexProofs` | every safety property of the mutex, and that it implements `AbstractLock` but for the fairness |
| `SyncRWMutex` | `sync/rwmutex.go` over an `AbstractLock` in the place of `w` |
| `SyncRWMutexProofs` | every safety property of the RWMutex |
| `RateLimiter` | `rateLimiter.go`: callers, the clean-up goroutine, the clock |
| `RateLimiterProofs` | the limit, the sums, the rate, and that whoever waits has a cleaner |
| `RetryQueue` | `retryQueue.go`: clients, the dispatcher, the workers, the heap |
| `RetryQueueProofs` | the workers' tokens, the tasks, the order of the heap, and that no send blocks |
| `DistLock` | `go-lock.go`: clients, watchdogs, the Redis key with its expiry, lost commands, processes that end |
| `DistLockProofs` | type correctness, and exclusion for clients with nodeIDs of their own |
| `OrderedSet` | what a family of B-trees promises: sets of items, with the answers of each call |
| `BTree` | `B-Tree/btree.go`: nodes in a heap with copy-on-write contexts and a free list |
| `RouteTree` | `gin/tree.go` as operators on nested records |
| `GinEngine` | `gin/gin.go`, `context.go`, `routergroup.go`: set-up, then requests on pooled contexts, over any route trees |
| `GinRoutes` | the engine with the trees of `RouteTree` |
| `GinEngineProofs` | the isolation of requests, the order of a chain, and the room for its index |
| `NetConn` | `netpoll/connection_*.go`, `fd_operator.go`, `net_polldesc.go`, `net_netfd*.go`: one connection between its reader, its flusher, who closes it, and the poller |
| `NetConnProofs` | no count of bytes of a connection exceeds what there is; its locks and the stages of Close; what is sent is what was flushed |
| `MC*` | the instances that TLC checks |

`SyncRWMutex` is composed with `AbstractLock`, `GinEngine` with `RouteTree` in `GinRoutes`; `SyncMutex` implements
`AbstractLock`, and `BTree` implements `OrderedSet`.

### SyncMutex

The word is a record of the three flags and the waiter count, which no instance can bring near
2^29. The semaphore of the runtime (external) is a number of permits and a queue; `lifo` puts a
goroutine at the head, a release either leaves a permit or wakes the head. A step is one atomic
operation: `LockFast` the CAS of line 38, `ReadState` the load at the head of lockSlow, `Spin`
one round of spinning, `LockCAS` the CAS at the end of the loop with the word computed by
`NewState`, `Park` the semaphore, `Wake` and `Handoff` the return from it; for Unlock, `Unlock`
the atomic add, then the CAS loop of unlockSlow and the release. Since everything between two
atomic operations is local, this is the finest interleaving the code has. Whether a waiter waited
longer than `starvationThresholdNs` is a nondeterministic choice (`late`). A local variable that
the code overwrites before it reads it again is reset, which keeps states apart only where the
code can tell them apart. The three `throw`s are not steps: the steps that would reach them are
disabled, and `NoThrow`, a part of `WordConsistent`, says that they are out of reach.

Clients unlock only what they hold, as the type requires. TryLock reads the word without an
atomic operation (line 48); an int32 read yields some value that was stored, which the model's
read is.

### SyncRWMutex

Reader and writer steps are again the atomic operations. The mutex `w` is an `AbstractLock`,
which `SyncMutex` implements, so that the composition costs no states. Two facts of the source
shape this module. There is no Unlock, so that a writer stays and the system may stop with
everybody waiting: `CHECK_DEADLOCK FALSE`, and nothing is claimed about a second writer. And the
CAS of TryLock is inverted: it answers false where it has succeeded and goes on where it has
failed. The properties about counting are therefore stated modulo the announcements that such a
TryLock leaves behind, and `TryLockExcludes` is the finding below.

### RateLimiter

Time is `elapsed`, the ticks since the limiter's timestamp. A caller's critical section is one
step because it holds the mutex throughout; the clean-up goroutine holds it over a loop, and
callers and clock may run between the steps before it locks. `granted` is a history variable:
the permits granted 0, 1, 2... ticks ago, which is what a rate is about. Slots and offsets are
integers cut by the same divisions as in the code, including the slot that exists only when the
window length is not a multiple. Assumption `RateAssumption` excludes a sub-window of length zero
(the code would panic with a division by zero) and a clock that goes backwards is not modelled.

### RetryQueue

The dispatcher's locals are `cur` and `index`, and `pc` says where it is; each worker carries
its task and the failures of the round. The heap is the array that `container/heap` keeps, with
`Less` as the code defines it (`>=`: equal elements change places) and `Push` as the library
does it (external). Critical sections of `rw` are single steps; `loaf` is written outside the
lock by the dispatcher, so that an AddTask may come between finding the heap empty and `Loaf`.
The sleep of the dispatcher and the delay of a worker are the time until their next step. The
back-off is computed in `Width` bits, `baseWaitTime` times a power of two, as in line 196.

### DistLock

The server is the key (`owner`, whose nodeID is its value), its time to live and the scripts it
has; a tick of its clock is `Tick`, an expired key is gone. A client is a `Mutex` object with its
user: `acquire`, `granted` (the key is created, the answer still on its way), `held`, `unlock`
(waiting at `delayDone`), `eval` and `evalsha` (the two commands of release). The watchdog is
`off`, at its `select`, or has a renewal under way; it receives from `delayDone` only at its
`select`, and starts another renewal only while nobody sends. `cacheHash` belongs to the process,
which is the machine here. Every command takes effect at once or is lost, and the answers that
the code looks at may be lost separately; this is what `cancelTime` and network failures amount
to. A command that reaches the server only after its client has given it up is not modelled.
`Crash` ends a process with all its clients and starts it again, with an empty `cacheHash`.
`expired` is a history variable: the clients whose key ran out since they created it.

A lock by TryLock has no watchdog, so that its UnLock blocks for ever. The system may
therefore stop (`CHECK_DEADLOCK FALSE`), and `UnLockReturns` speaks of clients with a watchdog.

### BTree and OrderedSet

A heap gives every address its node and keeps the stack of the free list; an operation of the code
that changes nodes is an operator from a heap to a heap and an answer, with the name it has in the
code (`Find`, `MaybeSplitChild`, `InsertIn`, `RemoveFrom`, `MutableFor`, `FreeNode`, `Reset`,
`AscendFrom`); an exported call is a step. The
context of a node is the name of the tree that may write it: `Clone` gives both trees new
contexts, so that what they share is nobody's. Live nodes are numbered afresh after every step, in
the order in which they are reached, which identifies heaps that differ in addresses only. Items
are a key with a tag, as `Less` compares a part of an item. `dict` is what the heap holds at each
step, and the refinement maps it to `OrderedSet`. The calls that only read are operators,
compared with the items in `Reads`. Left out: print, the capacity of slices, the mutex of the free
list (trees are used by one goroutine), and callbacks that stop a walk early.

`OrderedSet` is as weak as the code is in three places. A replacement in a tree that has
shared inner nodes may lose items (`Tear`), because `mutableFor` copies a node without its children;
a write to such a tree may end the program; and so does deleting the last item (`Crash`).

### GinEngine and RouteTree

The engine has one group, the engine's own, and one made from it. A set-up call takes effect, or
fails as the code does, by a panic (a route twice, conflicting wildcards, a chain too long). `Run` starts serving. A request is a stack
of frames, one for each function that is active in its goroutine and has something left to do:
`Next` (its loop), `handler`, `serve` and `serveError` (what follows Next), and `HandleContext` with
the index it saved. What a handler does is its user's choice, so that any handler may make any call
at any time, but it calls Next once. Setting a field of a context adds the request's name to
the field (`Set`), so that what is left over shows. `ctx` and `req` are functions on the contexts that
are allocated and on the requests that are served.

To the engine a method's tree is a value: `AddRoute` makes another one or refuses, and `Routes` lists what it
has. They are constants of `GinEngine`, which `GinRoutes` defines by `RouteTree` (`TreeAddRoute`,
`TreeRoutes`), so that what is proved of the engine does not look into the trees.

A path is a sequence of tokens, a character or a whole wildcard. `RouteTree` builds a new tree on the
way back instead of changing nodes. `insertChild` and `getValue` are not in the repository: the first
is modelled from what `addRoute` relies on, the second as a look-up among the routes that
`iterate` lists, and the invariant `SetUpKept` also says what a walk by the index strings needs.
The loop of `incrementChildPrio` (line 108) is read as written: it leaves `newPos` alone, and therefore ends
after one exchange. `moved` is a history field of a node: two of its children have changed places
and its index string has not followed. Catch-all wildcards, trusted proxies, templates, the copy of a
context, status codes, headers and bodies are left out. Misspelt names in the source are taken for the
names they stand for (`combieHandlers`, `mehotd`, `serverError`).

### NetConn

A byte is counted and not looked at; bytes to send carry their position, which tells whether
they went out once and in order. Every step is one access to what two goroutines share: the length of
a buffer, a trigger, `waitReadSize`, a key, the operator's state, the poller's interest. The steps of
`reader` are waitRead and waitReadWithTimeout with the read calls around them (`Take`, and `Until`,
which waits for one more byte at a time), fill, and Release; those of `writer` are flush and
waitFlush; those of `poller` are the operator's callbacks in the order in which the poller's loop calls
them (`inputs`, `inputAck`, `outputs`, `outputAck`, `rw2r`, `onHup`); those of `closer` are onClose,
the callback with its finalizer, and `unused`. What a goroutine has in its locals is gone when its
call returns (`Idle`). Dialing (`dial`) comes first: connect, WaitWrite
and the events that the poller reports on the descriptor.

External, and modelled from their use: the link buffers (lengths; Skip fails when there is less), the
key locks (`lock`, `unlock`, `stop`, which spins until the key is free), closeCallback (once, by the key `processing`,
after detaching when the user closed), the loop of the poller (it does the operator, calls
back, and calls `done`; a hang-up detaches first), timers (Reset does not empty the
channel) and the kernel (a send buffer of `Capacity`). There is no OnRequest handler, as onEvent is not
in the repository. Line 410 sets a timer from `waitTimeout`, a field that does not exist; it is read
as `writeTimeout`.

## 3. Runs

| Run | Instance | Shows |
|---|---|---|
| `mutex` | 3 goroutines that lock, try and unlock for ever; one spin | mutual exclusion, one wake-up, counted waiters, no throw (`WordConsistent`), no lost wake-up, no barging, starving mode ends or serves every sleeper, and the refinement of `AbstractLock` |
| `rwmutex` | 4 goroutines | a writer is alone; readers counted; the writer is owed exactly the readers inside; a writer that has announced itself gets in |
| `rwmutex_trylock` | 2 goroutines | *violation*: TryLock answers true to two goroutines |
| `rate_limiter` | 2 callers, 2 permits, window of 7 ticks in 3 sub-windows | counts agree, the limit, the rate over a period one sub-window shorter than the window, nobody is stranded |
| `rate_promise` | the same | *violation*: the rate promised for a whole window |
| `retry_queue` | 3 tasks of 2 priorities, 2 workers, 2 retries | tokens and tasks are neither lost nor doubled, no send blocks, the array stays a heap, every task succeeds |
| `retry_sleep` | the same | *violation*: an idle dispatcher ends up not sleeping |
| `dist_lock` | 2 clients on machines of their own, expiry of 2 ticks | they only meet when a key has expired, no key stays behind its owner, UnLock returns |
| `dist_shared` | 2 clients on one machine | *violation*: the same exclusion |
| `btree` | 2 trees of degree 2, 8 items and one that replaces another; a free list of 2 | every tree is a B-tree, nodes are shared only when nobody may write them, calls answer as an ordered set would, and `OrderedSet` is implemented |
| `gin` | 7 paths, 2 methods, up to 4 set-up calls; then 2 requests on 2 contexts | set-up keeps every route; requests are isolated; chains run in order; the index does not wrap |
| `netconn` | one connection, read or written, with and without timeouts | flushes are honest until one times out, buffers and descriptor have one user at a time, and every call returns |

**Bounds.** Two goroutines are enough for every race on the mutex's word, the third gives the
queue an order, so that FIFO, LIFO and handing over differ. `MaxSpin = 1` lets a goroutine set
`mutexWoken` while spinning and go on; more rounds repeat the step. Four goroutines in the
RWMutex are a writer, two readers that it waits for and one that comes late; `MaxReaders = 5` is
the smallest value above the number of goroutines, as 2^30 is in the code. In the rate limiter the window is
not a multiple of its sub-window, so that the slot behind the last sub-window occurs; `MaxElapsed`
bounds the age of a window at two windows, so that clean-ups at every offset modulo the window
occur. In the retry queue three tasks give the heap a parent with two children; a duration has
six bits and a base of three units, so that the wrap-around comes after four idle rounds instead
of forty-four. Each task is added once, which bounds the heap. In the
distributed lock an expiry of two ticks is the shortest with a moment at which renewing makes a
difference; one client loses its key and comes back to renew or release while the other has it,
and with the proof of exclusion for any number of clients a third adds no case.

A B-tree of degree 2 has at most three items in a node: seven or eight (`MaxAlone`) make three levels,
so that splits, steals from both sides and merges occur below an inner node, and a merge passes up to the root.
After a Clone both trees together hold at most `MaxShared` items, with keys from `Common`: enough for
a tree with an inner root to be cloned and written on both sides. `FreeSize = 2` lets the list fill up in
the middle of a reset. `Pivots` are the bounds of the walks. No step reads the last answer, so that states that
differ in nothing else are taken for one (`VIEW`); every step is compared with `OrderedSet` all the same.

In `gin`, `MaxSetUp` set-up calls are enough for a third child of one node, a split of a node with
children, two wildcards at one place, middleware before and after NoRoute, and a chain at its limit:
`MaxInt8 = 7` in the place of 127 makes `abortIndex` 3, so that a chain has at most two handlers.
`Deployed` picks the set-up that is served, one with middleware, a route and a handler for requests
without one; serving changes nothing of the set-up, and the set-ups themselves are checked before. `asked`
and `method` give the first request a path with a route and one without, and the second only the
latter kind, and `MaxCalls` lets the first of them serve its context again once. One field of a context stands for all of them, which are set and reset alike.
Contexts are interchangeable (symmetry; the properties there are no liveness).

In `netconn`, a call asks for one byte or for two (`Needs`) of the two that the peer sends (`MaxIn`),
so that input comes in parts. Three bytes may be flushed (`MaxOut`), one or
two by a call (`Writes`): two do not fit into the kernel's buffer (`Capacity = 1`), and the third belongs to
a second flush, which finds the kernel's buffer full, waits while the poller is still ending the first, or comes
after one that timed out. Were the poller to disarm only after it has answered the first, the second would wait for
ever; with two bytes that does not show. A flush of none sends what is left. `Uses` separates the connection that
is read from the one that is written: the two sides share the operator's state, the hang-up and Close,
which are in both. A side of a connection may be given a timeout at any time between its calls.

**Fairness.** The mutex assumes that a goroutine inside Lock or Unlock goes on running (weak
fairness of `Step`); clients may stop calling, but whoever holds the lock releases it, as
otherwise no lock serves anybody. Starvation freedom of the mutex as a whole is not claimed: the
loop over a CAS is lock-free and not wait-free, and a goroutine may lose for ever in normal mode.
What is claimed is what the code adds: once starving mode is on, every sleeper gets its turn or
the mode ends (`StarvingServed`), and a free lock that is waited for is taken (`AbstractLock`'s
`Progress`). The RWMutex assumes the same of its goroutines. The rate limiter assumes only that
the clean-up goroutine is scheduled. The retry queue assumes that goroutines are scheduled, that
`select` does not neglect a ready channel for ever (Go chooses at random among the ready ones,
hence strong fairness of `TakeToken`), and that a task that is tried again and again succeeds at
last; the last one is an assumption about clients, without which there is nothing to promise.
The distributed lock assumes that the server's clock runs and that goroutines inside a renewal or
an UnLock go on, each command ending with its answer or with `cancelTime`; nothing is assumed
about commands arriving, nor that a client ever gives the lock back.
`netconn` assumes that goroutines go on within a call (weak fairness of their steps, none of a new call),
that timers fire, and that the poller deals with an event that comes back again and again (strong
fairness: its poll is level-triggered, and the operator's state may be taken by Release in between).
`unused` and `stop` spin on a state that others release, and meet it free in the end (strong
fairness). The peer is assumed to read what it is sent, as a flush without timeout has nothing else to wait for; it is not assumed to send or to close. `btree` and `gin` state safety only.

## 4. What the runs found

* `sync/rwmutex.go`, TryLock: the CAS is inverted (`rwmutex_trylock`). A TryLock on a free lock
  leaves an announcement behind and answers false; where the CAS fails it answers true although
  readers are inside.
* `rateLimiter.go:47` promises that the number of requests in a window never exceeds the limit.
  The clean-up forgets whole sub-windows that are partly inside the window (`rate_promise`). The
  bound that does hold, for a period one sub-window shorter, is `BoundedRate`.
* `retryQueue.go:196` caps the back-off after it has wrapped around (`retry_sleep`): after 44 idle
  rounds the product is negative, after 58 zero, and the dispatcher spins.
* `go-lock.go:248`: the first release of a process sends the script and then its hash too, and so
  deletes the key twice. What keeps a client from deleting another's key is nodeID, called unique
  in line 24 but shared by all clients of a machine (`dist_shared`).

Observed while reading, without a run of their own:

* `sync/mutex.go:23-25` says that `mutexWoken` is set by the goroutine that obtains the lock while
  others wait. In the code it says that a waiter is awake already and need not be woken, which is
  `OneWakeup`.
* `rateLimiter.go`: sub-windows above the offset of the call that ends a window are kept, and the
  slot behind the last sub-window is never cleared, so that the limiter may refuse although few
  permits were granted.
* `retryQueue.go:212` calls the `Pop` of the array and not that of the heap: the element taken is
  the last of the array, whatever its priority.
* `go-lock.go:222`: after a successful TryLock, UnLock blocks for ever, since only Lock starts the
  goroutine that receives from `delayDone`; line 218 tests the length of a channel without buffer.
* `go-lock.go:246`: the hash is cached even when the script did not reach the server; until another
  process sends it, releases do nothing and keys go by their expiry, which is
  why `KeyFreed` needs the clock.
* `go-lock.go:233`: `cacheHash` is a map without a lock, written by several goroutines.
* `B-Tree/btree.go:160`: `mutableFor` copies a node without its children, so that the first write to
  a clone through a shared inner node loses what is below it or ends the program. Line 407: a node
  walked to its end answers false, which its parent takes for a stop, so that a walk shows no more than
  the first leaf it comes to. Line 514: deleting the last item reads the first child of a leaf.
  `OrderedSet` and `Walks` say what is left of the promises.
* `gin/tree.go:108`: see RouteTree above; after an exchange a look-up by the index string goes
  to the wrong child, while `Routes` still lists every route.
* `gin/gin.go:418`: HandleContext restores the index and not the chain. The loops of the
  first chain go on in the handlers of the second; `ChainOrder` excepts them.
* `gin/routergroup.go:149`: a static folder that does not find a file continues with `noRoute` from its start: an
  Abort that came before is undone, and the engine's own middleware is not in that chain.
* `gin/routergroup.go:152`: those handlers start at index 0 on top of the loops and handlers of the folder's own
  chain, all of which raise the index when they return. With two chains near the limit of line 164, whose handlers
  call Next, an Abort in the last of them leaves no room for that many: the int8 wraps, and a loop of Next
  that is still active reads a negative position and panics. The proof of `TypeCorrect` met this case. For TLC it takes
  `MaxInt8 = 9` and chains of three: group handlers and a folder, two handlers calling Next before the folder fails
  and two of `noRoute`, then Abort, Next and five returns; in the code, chains of about 62. The instance `gin` is smaller. `IndexFits`
  excepts requests that went through such a folder (`missed`).
* `netpoll/net_polldesc.go:15`: nothing ever closes `writeTrigger`. A connect that does not succeed at
  once is answered as closed by the peer, and two writable events close a closed channel.
* `netpoll/connection_impl.go:319`: a reader that waits when the user closes reads the descriptor by itself, at
  the same buffer as the poller that may still be reading; while the peer sends nothing and stays, it spins, and Close
  spins with it. `Kept` and `NobodyStranded` except this case (a close by the user while a reader waits; `Spins`).
* `netpoll/connection_impl.go:427`: a flush that timed out leaves the poller in the middle of the
  buffer. Later flushes send bytes twice or take its answer for theirs, and `Honest` says nothing of them.
* `netpoll/connection_impl.go:187` says that Read returns `io.EOF` if the buffer is empty; Read waits for the bytes.
* `netpoll/connection_reactor.go:6`: a hang-up does not run the close callbacks; they wait for the user's Close.

## 5. What is proved

Assumptions are those of the modules (`MutexAssumption`, `FiniteAssumption`, `RWAssumption`,
`RateAssumption`, `RetryAssumption`, `PowerAssumption`, `LockAssumption`, `NetAssumption`,
`GinAssumption`) and nothing else, but for the nodeIDs and the route trees below: any set of goroutines,
callers, workers, tasks, clients and requests, any priorities, and any sizes of reads, writes, buffers and chains. Goroutines and workers are
finitely many, in the RWMutex fewer than `rwmutexMaxReader`, without which its counter overlaps
the announcement; `PowerAssumption` is arithmetic (a power of two is not zero) that the provers
have no theory of. Every safety property that a run checks is proved, except those of the trees: all
of `BTree`, and in gin the part of `SetUpKept` about routes and indices.

**Counting.** A counter of goroutines is the cardinality of the set of those at some labels
(`Count`). When one moves, the number changes by what it leaves and what it enters (`CountMoves`).
The proofs of the mutex and the RWMutex compute with these numbers and never look into the sets.

**SyncMutexProofs.** `TypeCorrect` is inductive by itself. `MutualExclusionHolds`,
`OneWakeupHolds` and `NoBargingHolds` rest on one invariant, `IInv`, because none of them is
inductive: that the lock is free says nothing unless the flag `mutexLocked` agrees with the
holders (`HolderOK`); that an unlocker may set `mutexWoken` rests on there being no wake-up under
way (`OneWakeup`), which in starving mode is carried by the lock itself (`ModeOK`); a goroutine
that comes back from the semaphore trusts its locals (`LocalsOK`); and the head of the queue is a
goroutine that sleeps, once (`QueueOK`). There is one lemma per action, with one step per conjunct
the action can disturb; frame lemmas settle the others. `NoBargingHolds` is an action property and
follows from `IInv` and the step. On top of it, `WordConsistentHolds` counts: the waiters of the
word are the goroutines that sleep, less the wake-ups that have taken one off already or, in
starving mode, together with those that were handed the lock (`CountOK`); so that no `throw` is
reached. `NoLostWakeupHolds` is inductive over these: a free word with waiters has a wake-up under
way, or an unlocker that is about to issue one, because it has read the word as it is.
`ImplementsLockSafely` maps every step to a step of `AbstractLock` or to none: a goroutine is
waiting while it is in Lock after the fast path, or in TryLock, holding until the atomic add of
Unlock, and idle while it wakes another.

**SyncRWMutexProofs.** `readerCount` means different things at different times, so that the
invariant `RWInv` is a disjunction (`Mode`). The lock is `Open`, when it counts the readers; or
`Closing`, when a Lock has announced itself and `readerWait` counts the readers it waits for; or
`Shut`, when a TryLock has taken `rwmutexMaxReader` off and answered false, after which nobody
enters. `HolderOK` says who has `w`, and `SavedOK` that a local lives from its load to its CAS.
Each step stays in its mode or goes to another: `WriterExcludesHolds`, `ReadersCountedHolds` and
`WriterOwedHolds` (one permit for the writer, from the last reader) are read off the three modes.

**RateLimiterProofs.** A sum over sub-windows is the number of permits, each a pair of a
sub-window and a number (`PermitsOf`), so that facts about finite sets apply to sums. The
invariant is that the total is the sum (`CountsAgree`), at every step of a clean-up, and that a
clean-up only visits slots that exist: `SubWindowsHaveSlots` is a fact about the two integer
divisions, proved from the brackets of a quotient. No count is therefore ever negative
(`TypeCorrect`), nor is the limit passed (`WithinPermitsHolds`). `BoundedRateHolds` has the
strengthening `Backed`: there is an injection from the permits granted in the last period into the
permits that are still counted, one and the same sub-window for permits of one moment, and above
what a clean-up under way has still to forget. Time, a grant and a clean-up each move the
injection; its existence bounds the rate by the total. `WaitersHaveCleaner` is the safety half of
`NobodyStranded`: a waiter has a cleaner that has yet to broadcast.

**RetryQueueProofs.** `OneTokenHolds` is inductive together with the dispatcher's position
(`IndexOK`). `NoSendBlocksHolds` follows by counting: the channel is an injection into the
workers, and one that misses a worker has fewer elements than there are workers. `TasksKeptHolds`
rests on what up does to an array of any length (`UpSifts`): the same elements, and a heap if the
array was one but for the element that is moved up, whose children do not exceed its parent
(`OrderedBut`). `Up` is a recursive function. Its equation is proved (`UpDef`) by building, for
every bound, the function up to that bound; induction is the choice of a least counterexample
(`Least`), as no rule with an operator parameter can be used. With it, `TInv` follows every copy
of a task from the heap to the dispatcher, to a worker, and back; the worker that gets the task is
idle because of `OneToken`. `TypeCorrect` bounds the heap, as no task is in it twice.

**DistLockProofs.** `TypeCorrect` holds for any machines. `ExclusionHolds` assumes
`UniqueNodeIDs`, which is what line 24 says and what `dist_shared` shows to be needed. It is not
inductive: two clients are in the lock one step after each of them was granted it. What is
inductive is `KeyIsOwn`, that a client past SETNX owns the key unless its key has expired
(`HolderOwnsKey`); the key is created only where there is none, and a script of another client
does not match it.

**NetConnProofs.** The types are not inductive without `Sizes`: the bytes of the peer are to come,
in the kernel, with the poller or in the buffer, and never more than it sends (`Arrived`); what is
flushed is never more than was asked for (`Flushed`); and a reader waits for what it was asked
for, or for one byte more than it has (`Asked`). `Waited` says that timers and the size waited for
are those of a call that waits.

`KeptHolds` rests on `Locks`: the operator's state is 2 while one handles
it, and a key is locked exactly in the section it is for (`Locked`); a hang-up closes only after
it has detached (`Closing`); and Close waits for the operator, then for the key of flushing, then
for that of filling, before it gives the buffers and the descriptor up (`Stages`). Whoever uses
them is in a section whose lock Close must have. `HonestHolds` rests on `Truth`: writer and poller
send in turns (`Turns`), nil is the answer to a buffer that is empty (`Answers`), and what was
sent is what was skipped, but for the bytes one of the two has sent and not skipped yet (`Order`).
It speaks of the time before a flush times out, as `Honest` does.

**GinEngineProofs.** The invariant is in two parts, because requests meet only in the pool: `Shared` says that a
context serves one request or waits in the pool, and everything else is said of one request, its stack
and its context, so that a step of one request has to be looked at for that request alone (`StepKeeps`, `SteadyStep`). `Inv` knows nothing
of chains: a context in use holds what is its request's (`Own`), a stack is one that the functions can
have (`Stacked`), and the header is written before the last of them returns. `IsolatedHolds` follows for any trees.
`ErrorChainsKeptHolds` and the lengths of all chains are the invariant of the set-up (`SetUpT`).

`TypeCorrect` and `ChainOrderHolds` have one hypothesis, `[]RoutesKept`: the trees list the chains that were
registered. It is what connects a look-up with `combineHandlers`, which lets no chain through that
has `abortIndex` handlers, and the run `gin` checks it of the trees of `RouteTree` as a part of `SetUpKept`; a tree that
returned a longer chain would break both theorems. That the index does not wrap needs a potential (`Room`): a frame that is d
above the base of its chain has d/2 handlers below it, each of which started at an index of its own (so d is at most twice the index)
and will raise the index once more when it returns (so index and d/2 together stay within `2 * abortIndex`). HandleContext leaves
such a bound behind with the index it saves, as many times as it is nested. `ChainOrder` is not inductive
because Next is: a loop can only go on where the handler under it stopped if inner loops leave the index at the end of the chain
or at an abort, which `InOrder` says of the frame that runs.

**Only model-checked.** Liveness, and so the other half of the refinement of `AbstractLock`, its
`Progress`. The B-tree and the route tree are walked by recursive operators, of which the provers
know nothing, so that everything about `BTree`, `RouteTree` and `GinRoutes` is model-checked: in the
first the refinement of `OrderedSet`, in the last `RoutesKept` and `IndicesKept`.

## 6. Plan

What is left, in the order in which it is worth doing:

1. `RoutesKept` itself, with the walks of `RouteTree` as recursive functions on the height of a tree, as `Up` is in the
   retry queue; and the B-tree's `Find` and copy-on-write steps, which are not recursive.
2. `NetServer`: accept, the map of connections and Shutdown, over the steps of `NetConn` that
   end a connection.
3. `BoundedHeap` and `EncoderCache`, against a bag and a bounded map, once it is settled what swap by
   exclusive or still promises.

Abstract specifications: `AbstractLock` and `OrderedSet` exist; a byte stream for a connection would state
`Honest` as a refinement.

## 7. Not modelled, and why

gin's binding, its file system and string helpers, the encoding of JSON values, the DHT's
configuration and the system-call demonstration convert or configure; they keep no state over
which anything could go wrong in an order of steps. The netpoll server and the pool of pollers are
not modelled yet. The bounded heap and the encoder cache are sequential, and their faults (section 1,
`container.go:59`, `jsonUtil.go:114`) show in single calls. The FIFO is called by nobody and starts with an empty slice, so that
its first Enqueue fails. The allocator's files are annotated fragments of Go's runtime whose sweeping is not in
the repository. The link buffer of netpoll, its barriers and
key locks, and gin's route lookup are used by the code but are not in the repository. Race
detector hooks and logging are left out everywhere.
