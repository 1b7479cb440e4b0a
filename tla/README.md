# Verification of the osi2 programs

The repository holds the programs of an operating-systems course: a caching HTTP
proxy (`task3`), queues and lists shared by threads under different locks
(`task2/2.2`, `task2/2.3`), and two home-made thread libraries (`task1/task1-6`,
`task1/task1-7`). This directory models them in TLA+, checks the models with TLC
and proves theorems about them with TLAPS. Every definition is translated from the
C source; `PROJECT.json` names the lines.

## The system

### The proxy (`task3/src`)

| Part | State | Operations |
| --- | --- | --- |
| cache (`cache.c`, `cache.h`) | hash map URL -> `Pair_t` -> `Entry`, `cache->lock` | create and destroy entries and pairs |
| `Entry` | `content`, `is_full_content`, `is_realeased_by_gb`, `is_corresponds_to_cache_size`, `ref_counter`, a rwlock, a mutex, a condition variable | |
| `client_handler` (`main.c`) | one thread per connection: `pair`, `written_counter`, `to_write` | receive the request, look the URL up or insert it, connect and start a fetch, send the content |
| `server_handler` (`main.c`) | one thread per fetch: `rec_size`, parser state | read, append, parse, broadcast, complete |
| `garbage_collector` (`garbage_collector.c`) | position of the iteration | every 30 s drop the map's reference to each element |
| parser wrapper (`http_parser.c`) | callbacks' results, static settings | receive and parse a request, parse a response |
| sockets (`custom_socket.c`) | descriptors | listen, connect to a host |
| accept loop (`main`) | | starts the collector and a thread per connection |

The threads share the cache and its entries and nothing else, except that a
`server_handler` reads its arguments from the stack of the `client_handler` that
started it. They interact through `cache->lock`, the entry's mutex, condition
variable and rwlock, and the reference counter, which is 1 for the map, plus 1 for
every client and server thread that has announced itself. What is hard: a lookup
hands out a pair without counting it; the collector and the last release both
delete and free; deletion by clients is not under `cache->lock`; the map stores its
elements inline and moves them, but a `Pair_t *` is used after the lock; the condition
variable is signalled without its mutex; several error paths leave entries behind.

What makes it right: counters equal the references held; the map only holds live
entries of the right URL; an entry is freed once, when nobody counts it; no thread
touches freed memory before a pass has released an entry; a URL is fetched once until
then; waiting clients are woken; nobody is
stuck at a lock.

Beside the cache the threads share two things, which have a module of their own: the
table of descriptors, in which a closed number is given out again, and the `static`
settings of `init_parser`, which every thread clears and fills again while others
parse. What makes this right: a request is answered only after its end was reported and
never if it was reported unacceptable; a descriptor in use is one's own, a finished client leaves nothing open.

### The queues (`task2/2.2`)

A bounded singly linked list (`first`, `last`, `count`, `max_count`) with
`queue_add` and `queue_get`, a writer that adds 0, 1, 2, ... and a reader that
prints `ERROR` if a value is not the one it expects. Variants: `cond` (mutex and
two condition variables, blocking), `mutex`, `semaphore`, `spinlock` (return 0 when
full or empty), `sync` (no lock at all). What is hard: reuse of freed addresses
with a dangling `last`, signals that reach the wrong thread, an assertion that
reads `count` outside the lock, and in `sync` every interleaving of loads and
stores. What makes them right: a well-formed list, bounds, assertions, no lost
wakeup, values once and in order.

### The lists (`task2/2.3`)

100000 nodes, each with its lock (mutex, rwlock or spinlock); three threads walk
the list hand over hand and compare neighbours, three swap neighbours at random.
What is hard: guards evaluated before the locks are taken, lock cycles through
`list->first` at the end of a walk, unlocking in another order than locking. What
makes them right: the list stays one chain of all nodes, locks are released by
their owner, somebody can always move.

### The thread libraries (`task1`)

`uthread.c`: user-level threads with `ucontext`, a SIGALRM handler that jumps into
the scheduler, sleeping threads, stacks freed in batches of time. Hard: the signal
in the middle of anything, a stack unmapped while it is in use, contexts saved
over one another. `mythread_create.c`: threads over `clone`, join by polling,
detach, cancel. Hard: join, detach and the end of the thread compete for the
stack. The other exercises of `task1` are straight-line programs.

## Modules

| Module | Models |
| --- | --- |
| `ProxyCache` | client, server and collector threads of the proxy and the entries they share |
| `SharedFetch` | what the proxy promises its clients while no entry is collected |
| `ProxyDelivery` | `ProxyCache` with a history variable, and how it implements `SharedFetch` |
| `ProxyCacheProofs` | theorems about both |
| `Connections` | accept loop, parser settings and receive loops, connecting, descriptors of the proxy |
| `ConnectionsProofs` | theorems about it |
| `BoundedFIFO` | what a queue promises: a bounded buffer, each value once and in order |
| `LinkedQueue` | the list inside `queue_t`, insertion and removal |
| `CondQueue` | `task2/2.2/cond` with its readers and writers, over `LinkedQueue` |
| `CondQueueProofs` | lemmas about the list and theorems about the program, refinement of `BoundedFIFO` included |
| `LockedQueue` | `task2/2.2/mutex`, `semaphore` and `spinlock` beside `cond`, over `CondQueue` |
| `LockedQueueProofs` | theorems about all four, refinement of `BoundedFIFO` included |
| `RacyQueue` | `task2/2.2/sync`, one load or store per step |
| `RacyQueueProofs` | theorems about it |
| `HandOverHandList` | `task2/2.3`, walking and swapping threads of the three programs |
| `HandOverHandListProofs` | theorems about the mutex and the rwlock program, and about all three with one swapping thread |
| `Uthread` | `task1/task1-7`: the scheduler, sleeping and ending threads, the signal |
| `UthreadProofs` | theorems about it |
| `MyThread` | `task1/task1-6`: create, cancel, detach, join, and the end of a thread |
| `MyThreadProofs` | theorems about it |
| `MCProxyCache`, `MCRacyQueue`, `MCHandOverHandList` | symmetries of the instances TLC checks |

### `ProxyCache`

A region under a lock in which the code does not block is one step. Locks that are
held across steps are visible: `cache->lock` during a collector pass (`gpc`),
the entry's rwlock during `write()` to a client (`pc = "send"`), and the entry's
mutex on the one return path that keeps it (`emutex`). An unlocked read is a step
of its own, so stale values are possible where they are in the code (`towrite`
against `full`, the broadcast without the mutex, the second lookup).

An entry, and the server thread that fills it, carry the name of the client that
created them. `life` follows the memory of an entry: `unborn`, `live`, `doomed`
(the count has reached 0 and the element is deleted), `freed`. The first access to
freed memory, through a NULL pair, to a dead stack frame, or through a pair that has
moved sets `fault` and the model stops: the code does reach such states, and the
properties say when it cannot, and what holds until then.

The map is created with `sizeof(Pair_t)` (`cache.c:87`), so a `Pair_t *` is an address
inside it, and an insertion or a deletion of another element may move what lies there.
A `pair` is named by its entry all the same, and `stale` has the clients since whose
lookup something may have moved; `gstale` is the same for the collector's element. What
a client in `stale` finds may be his element still, and then he goes on, or not, which
is the fault `"moved"`. With one URL there is nothing to move (`SeveralUrls`).

| Variable | Code |
| --- | --- |
| `cache`, `stale`, `gstale` | `cache->cache`: which entry is under a URL, and whose `Pair_t *` may not point to its element any more |
| `ref`, `released`, `full`, `fits`, `size` | `ref_counter`, `is_realeased_by_gb`, `is_full_content`, `is_corresponds_to_cache_size`, length of `*content` |
| `pc`, `url`, `pair`, `towrite`, `written` | place and locals of `client_handler` and `send_cached_content` |
| `spc`, `rec`, `parsed` | place, `rec_size` and `parseStateMsg` of `server_handler` |
| `gpc`, `todo`, `gpair` | place of the collector, elements still to visit, `pair` |

A deletion while a pass iterates may hide further elements from the pass, or bring
some back (`HashmapDelete`). `Client*` actions follow `main.c:76-237`, `Server*` actions
`main.c:11-68`, `Gc*` actions `garbage_collector.c`.

`SharedFetch` knows neither entries nor counters: a URL has a fetch and a content, a
client the amount delivered to him. `ProxyDelivery` maps an element of the map to the
fetch of its URL (`Fate`), `size` to the content, `written` to what is delivered and the
places of `client_handler` to four phases. A client is promised that he is not let go
before the content is complete unless his own connection fails, and all of it if it was
complete when he was accepted, which the history variable `late` remembers. He is not
promised more, for the code gives no more: a failed fetch leaves him waiting, and if the
content becomes complete while he is served, the second reading of `is_full_content`
against the older `to_write` (`main.c:108`) may cut the end off.

Assumed: `malloc`, `pthread_create` and lock operations succeed; the parser answers
complete, incomplete or error. The hash map's code is not in the repository: it may
move any element at any change, but a single call of it is taken to be atomic, even
`hashmap_delete` where the code calls it without `cache->lock`. What a thread does with
the wrong element after `"moved"` is not followed.

### `Connections`

The same threads as in `ProxyCache`, seen from their connections; the cache is one
choice (`Lookup`: the URL is there or not) and what a client sends is no step. The
two modules are not composed: they share the control flow of `client_handler` and
`server_handler`, but no state.

`settings` is the set of callbacks stored at the moment. `Clear` is
`llhttp_settings_init`, each `Store` one assignment after it, and `Parse` is llhttp
coming to one callback of the message, which it calls only if it is stored then; so
a thread that starts clears the callbacks of all that parse, and lets each go on
with what it has. A message is the list of its callbacks (`Events`), cut into reads at
any place; `disturbed` remembers that somebody else cleared the settings since this
thread did. `read()` returning 0 to a client is no step, for the loop tries again;
-1 reaches llhttp as a length and may give an error, some or all of the callbacks the
message still lacks, or a crash. `fd` and `user` are the descriptors of a thread
and whose connection a number is; numbers are given out lowest first, as POSIX
says. `dead` marks the case in which `connect_via_host_name` returns the number of a
socket it has closed; the first use of a number that is somebody else's by then
(`WriteForeign`) ends the model, as does the crash of `freeaddrinfo` on a pointer
never set.

Left out: `on_url_complete`, whose result nobody reads; a second request on one
connection, which would come behind the first in one buffer; `http_parse_host_name`;
`create_server_fd`, which runs before there are threads.

### `CondQueue` and `LinkedQueue`

Nodes are addresses that `malloc` may return again after `free`, so `last` may
dangle and come back. `chain` is an auxiliary variable, the nodes in order of
insertion, which no action reads. One step is a region under the mutex up to a
wait; `queue_add`'s assertion, which reads `count` without the mutex, is a step of
its own. A signal wakes one waiting thread, chosen freely; a woken thread competes
for the mutex with all others, and a wait may also end spuriously. The mutex and
the condition variables are never initialised by the code; zeroed memory, which
fresh memory from the system is, is their initial state on Linux, and the model
takes them to work. `add_attempts`, `get_attempts` and the other statistics are
left out.

### `LockedQueue`

The variable `program` is chosen in the initial state and never changes, so one
instance checks four programs. `cond` takes the steps of `CondQueue`. In the other
three a full or empty queue returns 0 (`AddRefused`, `GetRefused`) and the loop
calls again; a semaphore, a mutex or a spin lock around the critical section makes
no difference to what can happen, and one step stands for it. The assertion of
`queue_add` reads `count` before the lock in all of them, that of `queue_get` only
in `semaphore` and `spinlock`.

### `RacyQueue`

Both threads of `sync` are bound to one CPU, so their loads and stores interleave;
the build does not optimise, so each access to a shared location is one step, and
`count++` is two. `free` leaves the node's `next` as it is or fills it with
garbage; a store to a freed node goes through. Dereferencing NULL or garbage ends
the program (`segv`).

### `HandOverHandList`

One module for three programs, which `Program` names. In `rwlock` a walk takes read
locks; in the others every lock excludes every other. `spinlock` walks before it
draws, and releases `iter` before it follows `iter->next` again (`NearestFirst`),
where the others release the farthest node first. Nodes are numbered in the order in
which `fill_list` adds them. `writer` and `readers` say who holds a node's lock;
`Unlock` frees a mutex whoever holds it, as `pthread_mutex_unlock` does. `iter`,
`fst` and `snd` are `iter` and the arguments of `swap_nodes`.

Acquiring a lock is a step of its own wherever the thread may then wait for another
lock; the three assignments of `swap_nodes` are three steps, and so are the three
unlocks, which find their nodes through the changed links. The guard
`iter->next && iter->next->next && ...` is evaluated without a lock: the builds do
not optimise, so `Load` makes each of its six loads a step (`guard` holds the test,
the loads left and the pointer reached). The two unlocks of a walk are joined with
the lock before them, for in between the thread only reads. Following NULL ends the
process (`crashed`). `chain` is auxiliary, the order of the nodes, exchanged at the
last store of a swap; `Link` undoes the stores of a swap that has not come that far.

The comparisons and the counters they raise decide nothing and are left out, as is
the monitor that prints them.

### `Uthread`

Every statement between two of which the signal can change something is a step;
`pc` is the place in the code and `on` the stack the processor runs on, a thread's or
the signal's (`Sched`). `next`, `isSleep` and `ctx` are fields of `uthread_t`, `first`,
`last` and `curr` those of `ulist`, `currNum`, `currTime` and `stacksArr` those of
`stack_list`; `isSchduler_active` is 1 exactly where `pc = "select"`. `Alarm` may come
anywhere else: it jumps to the top of `uthread_sched_yield` on its own stack and
forgets where it came from, so that the next `swapcontext` stores a position on the
signal's stack into the context of `ulist.curr`. The code is built without
optimisation, so `utid_curr` lies on the stack of the call; all calls on the signal's
stack have the same frame, which is why `utid_curr` is indexed by stack. A context
into a call that has returned is `"stale"`: whoever resumes it finds a frame that was
written over, which is a fault, or, as every call from the routine has the same frame,
what the last one left there, and goes on with it (`Resume`). Once the routine has
returned, only the fault is modelled. `mapped` says whose stack (and struct,
which lies on it) is there; touching another sets `fault`.

Signals inside library calls, and `main` creating more threads after its own context
is resumed than the bound `Creates`, are not modelled.

### `MyThread`

`main` is generalised to a thread that calls create, cancel, detach and join in any
order, as the commented calls in the program suggest. A handle is the address of the
mapping that holds stack and struct; `owner` says whose it is, and `mmap` may return
it again. `page` and `local` are `new_context` and `local_thread`: without
`CLONE_SETTLS` the threads share the thread-local storage of their creator, so both
are one variable. A detached thread frees its stack from that context and, as
`uc_link` is NULL, then ends the process (`ContextReturn`). The kernel clears
`notFinished` when a thread no longer uses its stack (`CLONE_CHILD_CLEARTID`), which
is what makes join right. `careless` and `crowded` remember that main used a handle
again after letting it go, or that two detached threads ended together: in such runs
the model does fault, and `Calm` excludes them from `NoFault` and `JoinGetsResult`.

## Runs

| Run | Instance | Shows |
| --- | --- | --- |
| `proxy_collector` | 2 clients, 2 URLs, responses of at most 1 unit, collector at any time | `TypeOK`, `RefCountExact`, `MappedEntryLive`, `NoFault`, `OneFetchPerUrl`, `EntryLifecycle`; no deadlock |
| `proxy_quiet` | 2 clients, 1 URL, 2 units, no collector | `AppendWakesWaiters`, `ImplementsSharedFetch` |
| `proxy_live` | 1 client, 3 units, reads of 1 or 2, collector | `ClientNeverWedged`, `PassEnds` |
| `proxy_capacity` | 2 clients, 5 units, capacity 4 | violated: `EntryWithinCapacity` |
| `connections` | 2 connections, 3 descriptors, 2 addresses per host | `AcceptedRequest`, `OwnDescriptors`, `ClientClosed`, `MessageEnds` |
| `queues` | all four locked programs, 2 writers, 1 reader, 2 places, 3 addresses, values modulo 3 | `ListShape`, `TypeOK`, `AssertionsHold`, `NoLostWakeup`, `ValuesArrive`, `ImplementsFIFO`; no deadlock |
| `racy_queue` | 2 places, 5 addresses, 5 values | `AssertionsHold`, `ReaderNodeLive`, `ValuesIncrease` |
| `list_swaps` | rwlock program, 2 swapping threads, 5 nodes | `TypeOK`, `OneChain`, `OwnUnlocks`, `NeverAllBlocked`, `StableStep`; no deadlock |
| `list_spin` | spinlock program, 2 comparing threads, 1 swapping, 6 nodes | `SecondExists`, `OwnUnlocks`; no deadlock |
| `list_stale` | mutex program, 1 comparing, 2 swapping threads, 6 nodes | violated: `SecondExists` |
| `uthread` | 2 threads beside main, 2 rounds, stacks cleared at every 4th call, array of 4 | `StacksFit`, `ListedMapped`, `CurrIsRunning`, `RingExact`, `OnlyOwnStackCleared`, `Woken` |
| `mythread` | 3 threads, 2 addresses | `NoFault`, `JoinGetsResult`, `RunsOnce`, `JoinReturns` |

The type invariants of `RacyQueue`, `Uthread`, `MyThread` and `Connections` are proved for
every value of the constants (`TypeCorrect`), and no run repeats them.

`proxy_quiet` does not check deadlock because the proxy really
stops there: when all clients have ended, or wait for ever for a fetch that failed
or for the wakeup that is missing after `is_full_content = 1`. `connections` stops when
the connections are closed or their peers keep silent, `racy_queue` when the program
crashes. In the thread libraries a process that has ended or faulted stays as it is
(`Halted`), so a deadlock of the rest would be found.

Bounds. `MaxResponse` caps the units of content an entry receives; a unit is what
one `read` returns at least, so 1 unit already lets a client wait, be woken, send,
see the flag and finish, and 2 units give a stale `to_write`. Two clients are
enough for a lookup to race with the last release and the collector on one URL, and
for one to follow the other's fetch, and two URLs for a pass with more than one
element and for a pair that moves. `NoFault` and `OneFetchPerUrl` are checked with passes
at any time: the first says that until one has released an entry the only fault is
`"moved"`, and that only with a second URL; the second that a URL is fetched twice only
after an entry of this URL was released. They hold for any number of clients and URLs,
which is proved. `proxy_quiet` has one URL, so that its fetch is followed to the end. Lengths up to the capacity matter only for `EntryWithinCapacity`.

In `connections` two connections are the fewest that disturb each other's settings or
take each other's number; with their servers they want four descriptors, so three
make `accept` and `socket` fail, and two addresses let a connect fail and the next
one succeed, or all of them fail. A request has five callbacks, its URL in two
parts; a response has the one the server waits for.

`Wrap` makes the values of the queue finite: 3 exceeds the 2 places, so a lost or
reordered value is seen; 3 addresses for 2 places leave one to choose. Two
writers compete for one reader's signals, and the proofs cover any number of both. In
`RacyQueue` lost updates let the list outgrow `count`; with as many addresses as
values (`MaxValue`) `malloc` never runs out. In the lists, four nodes, the least the
comment at `list.c:99` allows, already make the guard stale; `ListSwaps` takes five,
one more than its two swapping threads can hold, and the other two runs six. A
walking thread waits with one node in hand and a swapping thread with two, so
deadlock needs a list of at most *comparers + 2 x swappers* nodes, which
`NeverAllBlockedCorrect` proves for the mutex and the rwlock program; the runs that check
it have more, and so does the program with three of each and 100000 nodes.
`ListSwaps` has no comparing thread: swapping threads walk the same way. One
comparing and two swapping threads on five nodes, which is as many as they can hold,
do stop.

In `uthread` the numbers are scaled down: 4 calls for `timeToClear` = 30 and 4 places
for 100 in the array, so that stacks are cleared while threads still run, which in the
program as it stands never happens without a signal (13 calls). In `mythread` two
addresses for three threads make the third one live where another did.

Fairness. Threads are scheduled (weak fairness on steps inside the process).
Lookups get strong fairness: the collector takes `cache->lock` every 30 seconds for
an instant, and a thread blocked on the lock gets it in between. In the proxy nothing
is assumed of peers: a receive, a connect, a read or a write may block for ever, for
no timeout is set; in `connections` the bytes a peer has sent arrive, and `MessageEnds` is
about peers that send a whole message. In the queues a thread that can continue
does in the end. In `uthread` the program runs and sleeping times pass; nothing is
assumed of the signal. In `mythread` routines return, the program's own being a loop
of five seconds.

## Findings

* `EntryWithinCapacity`: `cache.h:9` declares the capacity of an entry and
  `main.c:41` means to enforce it, but `rec_counter` is never increased, so an
  entry grows without limit. It follows that `is_corresponds_to_cache_size` is never
  cleared and that the return at `main.c:99-101`, which keeps the mutex locked, is
  dead code; correcting the counter alone would bring that deadlock to life.
* `SecondExists` of `HandOverHandList`: `list.c:100` warns against a NULL in the
  second node, and `swap_threads` tests for it, but before it has a lock. Another
  swapping thread that follows close behind can move `iter` two places towards the
  end in between, and the third lock is taken on NULL. With one swapping thread
  (`ListSpin`) the test is enough. The model also crashes in the guard itself,
  which reads `iter->next` again for every test.

Behaviours the model has because the code has them, and which no document speaks
against: clients wait for ever after a failed fetch, a failed connect or a missed
last wakeup; after a collector pass a client may use a freed entry, a NULL pair,
or fill another client's entry; as soon as two URLs are asked for, pass or no pass, a
thread may use a `Pair_t *` whose element has moved. Without a lock the reader of `sync` prints its `ERROR`:
the writer links a node behind one that has just been unlinked and freed, and the
value is lost. Two swapping threads of the spinlock list can make each other unlock
a node they do not hold: the first releases `iter`, the second takes it and moves what
comes after it, and the first follows the new link. A thread that starts clears the
parser settings under those that parse, which lose parts of the URL, the check of the
method or the end of the message. If every address of a host fails, `client_handler`
writes the request to whatever connection has the number by then. A `server_handler`
that ends well never closes its descriptor. The timer signal loses what it
interrupts: a thread half out of the ring stays so, a context may lead into a frame
used again. A detached thread ends the whole process.

## Proofs

All theorems hold for every value of the constants: any number of clients, URLs,
threads, addresses and places.

* `ProxyCacheProofs`. `Base` (types, who holds what where, and that the size flag
  is never cleared) is inductive by itself; it gives `MutexCorrect`: no thread
  returns with an entry's mutex. `RefCountExact` is inductive relative to `Base`:
  each action moves at most one thread into or out of one of the two counted sets,
  whose cardinalities change by one (`CountMoved` and the lemmas before it). Types
  of the counter (`TypeCorrect`) follow, since a sum of cardinalities is not
  negative. `EntryLifecycle` is an action property: an entry becomes `doomed` in a
  step after which its counter is 0, and by `RefCountExact` no thread counts it
  then. `Quiet` is inductive on top of these until a pass releases an entry
  (`QuietCorrect`): the map keeps its reference, so no entry is ever doomed, a found
  entry stays, and the client that started a fetch waits until its server has read
  `args`; what is left is `"moved"`, which needs a second URL (`MovedOnly`), hence
  `NoFaultCorrect`. `MappedUnlessReleased` is inductive whatever passes do: an entry
  somebody has inserted is in the map under its URL, or an entry of this URL was
  released, for by `RefCountExact` the count that reaches 0 does not include the map's
  reference (`LastIsReleased`); hence `OneFetchCorrect`. Without the collector nothing is
  released (`NoPass`), so `Quiet` holds, and `Delivering` adds how far each client has got: what is
  written never exceeds `to_write`, nor `to_write` the content; who goes on to `write()`
  has something to write, because `is_full_content` stays set; and who found it set
  knows the final size. `SharedStep` maps every step to one of `SharedFetch` or to none,
  hence `DeliveryCorrect`.
* `ConnectionsProofs`. Four invariants, each inductive with the types. `Remembered`: a
  descriptor in use is the one its user remembers, so two users never share one; it
  rests on `NewFd`, the lowest free number, which exists because a set of numbers has a
  least element (`LeastElement`). `Descriptors`: what client and
  server of a connection have open, by the places both are at, hence
  `OwnDescriptorsAlways` and `ClientClosedAlways`. `Parsing`: what a thread stored is
  still in `settings`, and what it parsed was told to it, as long as nobody else clears
  them, and who reaches the lookup, disturbed or not, was told of the end and of nothing
  to refuse, hence `AcceptedRequestAlways`.
* `CondQueueProofs`. It begins with what insertion and removal do: they keep
  `ListShape`, the list seen through `chain`, and act on the content as `Append` and
  `Tail`. `Inv` joins types, shape, assertions and `NoLostWakeup`, which
  counts woken threads: if a reader waits, there are at least as many woken readers
  as values. Each signal raises one side by at least what the operation adds to the
  other. `NeverAllWait` is the consequence that matters: not all threads wait.
  `FIFOCorrect` shows every step to be a step of `BoundedFIFO` or a stutter.
* `RacyQueueProofs`. `CountInv` records what each thread knows between its test of
  `count` and its store; the other thread, however old the value it stores is, can
  only move `count` the harmless way. For `ReaderNodeCorrect` and `ValuesCorrect` the
  list may be in pieces, so `ListInv` speaks of allocated nodes only: no two of them link
  to the same one (`ChainInv`), the writer's new node is nobody's until it is linked
  (`WriterInv`), the node the reader works on is the first and stays allocated
  (`ReaderInv`), and values grow along every link and past what was read (`ValueInv`).
* `HandOverHandListProofs`. Mostly about programs in which nobody changes a link that a
  swap still needs to find its locks (`SafeReleases`): mutex and rwlock, which release
  the farthest lock first, with any number of swapping threads, and spinlock with one.
  `LockInv` says what each thread holds at each place, and
  what the links between the three nodes of a swap are after each of its stores.
  `Frame` is what a step leaves to the other threads: their places, their locks and
  the links of nodes they have locked for writing. So a step is checked twice, for
  the thread that makes it (`ActorKeeps`) and, once for all actions, for the others
  (`FrameStep`, `OthersKeep`). The exception is a spinlock
  swap that unlocks: it follows links whose locks it has given back (`SpinHolds`), which
  `OthersKeep` keeps because no other thread swaps. `OwnUnlocksCorrect` and
  `StableStepCorrect` follow. For `OneChainCorrect`, `LinkKept` shows that no step but the last store of a
  swap changes `Link`, and `ChainExchange` that exchanging two neighbours of a chain
  gives a chain.
  `NeverAllBlockedCorrect` needs the converse of `LockInv` too: nobody holds more than
  his place says (`OnlyHeld`). If all threads waited, every node they hold would be
  followed, around the circle, by another that is held; then all nodes are held
  (`CircleWhole`, by a least element that is not), but the threads hold at most one or
  two each (`HeldBound`). `SecondExistsCorrect` is about one swapping thread in any of the
  three programs and needs no lock: only this thread stores links, so what its guard
  has found stays true (`GuardFound`).
* `LockedQueueProofs`. `LockedInv` is the invariant of `CondQueue` with the program's
  own case for waiting: only `cond` waits. Steps of `cond` are discharged by the
  lemmas of `CondQueueProofs`, those of the other programs by the same two lemmas
  about `Insert` and `Remove`.
* `MyThreadProofs`. In a calm run a handle main still holds is mapped to its thread, a
  thread that has not ended owns its stack, only one thread is on its way to free
  its own, and what it reads in `local` and `page` is its own; so whoever unmaps an
  address is alone with it. `JoinIsRight` adds what `retval` and `isCancelled` of a
  mapped struct can be.
* `UthreadProofs`. `ArrayFits` needs no more than where a push and a count stand
  between two calls of the scheduler; `RunsItself` that a context leads to the stack of
  its own thread or to the signal's, a stale one included. The ring is the least set that has `first` and follows
  the links (`Reached`), so what is true of `first` and kept by links is true of the ring
  (`ReachedLeast`); this is the only induction the proofs need. With the signal at any
  time, `KnownInv` and `RingInv` hold: only mapped threads are linked, at most one link
  leads to a thread, and a thread whose stack is listed is out of the ring; hence
  `ListedHasStack`. Without the signal, `TurnInv` and `WholeInv` say where a thread may
  be out of the ring and that the ring has all others, hence `RingIsExact`; and
  `FaultInv` that the only stack a thread loses under its feet is its own, hence
  `OneFault`.

Every invariant and every step property of the runs is thus stated by a theorem. Only
model-checked is liveness (`ClientNeverWedged`, `PassEnds`,
`AppendWakesWaiters`, `ValuesArrive`, `Woken`, `JoinReturns`, `MessageEnds`), which is
beyond TLAPS. Nothing is proved of the spinlock list with several swapping threads: there
`OwnUnlocks` is false.

## Not modelled

Statistics counters and the threads that print them; formatting and logging;
hashing; `queue_destroy` and `list_destroy`, which nothing calls;
`http_parse_host_name` and the growth of vectors; a pipelined second request;
signals inside library calls; failures of `malloc`, `mmap`, `clone` and
`pthread_create`; the simple exercises of `task1`, which keep no shared state. The hash
map, the vector and llhttp are git submodules whose code is not here.

## Plan

What would come next: pipelined requests.
