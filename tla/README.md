# A verification project for CL-kmeans

CL-kmeans runs Lloyd's k-means on OpenCL devices. Data that do not fit on the
device are streamed through it: a client cuts its arrays into blocks, a
*scheduler* applies kernels to all blocks, and a *buffer cache* moves blocks
between host and device, asynchronously, with help of one I/O thread per
command queue. This directory holds TLA+ models of that machinery, TLC
configurations that check them on small instances, and TLAPS proofs.

All paths below are relative to the repository, `src/`.

## 1. Inventory

### 1.1 SimpleBufferCache (`simple_buffer_cache.*`, `buffer_cache.hpp`)

*State.* `object_info_i` (registered arrays with size and mode: ReadWrite,
ReadOnly, Transient); per device a pool of slots, each with a device buffer, a
pinned host buffer, the block it caches (`cached_object_id`,
`cached_buffer_id`, `cached_ptr`, `cached_content_length`) and a `SlotLock`
(Free, ReadLock with a count, WriteLock); one I/O thread per queue.

*Operations.* `add_device`, `add_object`, `object`, `get`, `write_and_get`,
`read`, `unlock`. A hit in `get` takes a read lock; a miss goes to
`write_and_get`, which picks one of the object's two slots, write-locks it,
evicts the block in it (a mutable block is read back first) and starts the
transfer of the new one. Transfers go through the pinned buffer: a task of the
I/O thread copies between the client's memory and the pinned buffer, a command
of the queue between the pinned buffer and the device; events chain the two.

*Correct if* locks account for the descriptors handed out, a block is never in
two slots, a locked slot keeps its block, a descriptor shows current data, no
update is lost on eviction, and a failing call leaves no trace.

*Hard.* Lookups by block rather than by descriptor, two slots per object,
eviction in the middle of a call, short last blocks, failures half way.

### 1.2 IOThread (`simple_buffer_cache.cpp`, 634-704)

*State.* A list of tasks, a mutex, a flag, a condition variable; the task in
hand. *Operations.* `launch`, `push_back`, `pop_front`, `work`, `join`; the
destructor of the cache pushes a null task and joins. *Correct if* tasks run
once, in order, each after its events, and join returns after the last.
*Hard.* Lost wake-ups, the redundant flag, spurious wake-ups, waiting for
device events that wait for this thread.

### 1.3 SingleDeviceScheduler (`single_device_scheduler.*`, `device_scheduler.hpp`)

*State.* `run_queue_i`, the functions enqueued (unary or binary, each with its
objects and block sizes); two command queues; during `run` the buffers of up to
two indices in flight, and the events that chain activation and kernels.

*Operations.* `add_device`, `enqueue` (unary, binary), `enqueue_barrier` (a
stub), `run`. For every block index: unlock the buffers of the index before the
last, get the buffers of all functions, enqueue the kernels; then unlock the
rest, finish the queues, forget the functions.

*Correct if* every function sees every block exactly once and in order, and
nothing in flight races with anything else. *Hard.* The host runs ahead of the
device by two indices; unlocking does not wait; the only things that keep a
fill away from the buffer a kernel uses are the order of a queue and the parity
of slots and queues; results shared by all blocks are chained by an event;
failures in the middle.

### 1.4 k-means clients

`kmeans_three_stage_buffered.hpp`, `kmeans_single_stage_buffered.hpp`: loop of
fill (own queue), `enqueue` of one or three functions, `run`, division (own
queue), swap of the centroids. *Correct if* every iteration starts from the
finished centroids of the one before. *Hard.* The own queue and the queues of
the scheduler are ordered by nothing but `run`'s final wait.

`kmeans_three_stage.hpp`, `kmeans_single_stage.hpp`, `kmeans_gpu_assisted.cpp`:
no cache; `BufferMap` copies labels, masses and centroids between up to three
queues, with blocking calls in some paths and with commented-out wait lists in
others. *Correct if* each phase reads what the phase before it wrote.

### 1.5 Kernels and their host wrappers (`cl_kernels/`, `*_factory.hpp`)

*State.* Global buffers: points, labels, masses, centroids, and temporary
buffers that a wrapper keeps from call to call and enlarges; local buffers of a
work group. *Operations.* Labelling; mass update (histograms: global atomic,
per item, local, private); centroid update (cluster merge, feature sum, feature
sum over two dimensions); the two fused kernels; `reduce_vector_parcol`, which
adds up partial results in rounds; the division by the masses. A wrapper builds
several programs in `prepare` and chooses one per call by device, local memory
and number of features. *Correct if* every point counts once, work items do not
race, no item leaves a buffer, the program chosen exists, and an iteration is
one of `kmeans_naive.cpp`. *Hard.* Barriers, in-place reductions, sizes that
are no multiple of a vector or a work group, temporary buffers with old
contents.

### 1.6 The rest

`buffer_helper.cpp` (re-partitions a column-major matrix into blocks),
`kmeans_naive.cpp` (the reference on the host), `kmeans_armadillo.cpp`,
initialisation, `matrix.hpp`, `csv.hpp`, `binary_format.cpp`, generators,
`measurement/`, `configuration_parser.cpp`, benchmarks, baselines, tests,
vendored `libs/`.

### 1.7 How the parts interact

    k-means client --enqueue, run--> SingleDeviceScheduler
          |                               | get, unlock      | kernels
          | add_object, read              v                  v
          +----------------------> SimpleBufferCache --> two command queues
                                          | tasks            ^ events
                                          v                  |
                                     IOThread (one per queue)+

Calls are synchronous and return early; the work they leave behind is ordered
by queues (first in, first out) and by events. `PROJECT.json` lists every
component, modelled or not, and the hazards of the code at their lines.

## 2. Modules

| module | models | extends |
|---|---|---|
| `BufferCache` | calls, slots and locks of the cache | |
| `CoherentCache` | the data the cache moves, for a client that waits | `BufferCache` |
| `IOThread` | mutex, flag, condition variable, list, join | |
| `TaskFifo` | abstract: what the cache needs of an I/O thread | |
| `DeviceScheduler` | `run` over the cache, the queues, the I/O threads | `BufferCache` |
| `SchedulerClients` | what its clients ask of `run`: the buffered k-means, `transfer_bench.cpp`, a test | `DeviceScheduler` |
| `ZipMap` | abstract: what `device_scheduler.hpp` promises of `run` | |
| `KMeansClients` | the loops of the k-means clients, their queues and buffers, and the benchmark that runs and verifies them | |
| `NDRange` | work items, strides and blocks of points of a kernel launch | |
| `Kernels` | the kernels, interval by interval between barriers | `NDRange` |
| `Phases` | the host wrappers: programs, buffers, launches | `Kernels` |
| `DeviceQueue` | an in-order queue, its work items, memory and barriers | `Phases` |
| `DeviceKMeans` | an iteration of a client on a queue, `kmeans_naive.cpp` | `DeviceQueue` |
| `BufferCacheProofs` | theorems about `BufferCache` | `BufferCache`, `TLAPS` |
| `CoherentCacheProofs` | theorems about `CoherentCache` | `CoherentCache`, `BufferCacheProofs` |
| `IOThreadProofs` | theorems about `IOThread` | `IOThread`, `TLAPS` |
| `DeviceSchedulerProofs` | theorems about `DeviceScheduler`: locks and slots, what `run` leaves in the queues, clients that fit into the pool, and the buffered k-means | `DeviceScheduler`, `BufferCacheProofs` |
| `DeviceMemoryProofs` | theorems about what the kernels compute and the client reads back | `DeviceSchedulerProofs`, `SchedulerClients` |
| `KMeansClientsProofs` | theorems about the clients' loops | `KMeansClients`, `TLAPS` |
| `KernelProofs` | theorems about the shares of work items, and lemmas about what every kernel uses | `DeviceQueue`, `TLAPS` |
| `DeviceQueueProofs` | theorems about the wrappers, the queue and an iteration on it | `DeviceKMeans`, `KernelProofs` |
| `MC...` | instances for TLC | the module they are named after |

A definition whose comment begins with "Fault variant" is not part of the
model: it is a plausible mistake in the code, and a property is only kept if
replacing the definition that follows by the variant breaks it.

### BufferCache

One step is one call on the client's thread. `cached` and `slot_lock` are the
members of `DeviceInfo`, `objects` is `object_info_i`, `ret` the value returned.
A block is named by object and `buffer_id` (its offset), and a pointer by the
offset it has. `users` and `granted` are ghosts: the descriptors clients hold.
`Get` is `get`: refused, hit, hit on a write-locked slot, or `WriteAndGet`.
`Fill` is a `write_and_get` that succeeds, with the eviction in it; `FillFails`
is the path of line 225 that keeps the lock. `Unlock` finds the slot again by
block, as the code does, whatever slot the descriptor came from; a client may
try to unlock what it does not hold if no slot has it locked (`UnlockRefused`).

The client of `Next` calls anything in any order, with ranges that lie in an
object or start behind it, but calls `write_and_get` directly only for blocks
that are not cached (the tests do the same, and `get` does): otherwise two
slots could hold one block.

### CoherentCache

Adds `host`, `dev` (the device buffers) and `cur` (what a program without a
cache would see), all as version numbers per unit. On a CPU the device buffer
is the host memory (`CPU_ZERO_COPY`). The client waits for each call's event,
so a transfer is atomic with its call. Kernels write the range of the
descriptor they are given.

### IOThread

One step per mutex operation, test, list operation and notification of
`push_back` and `pop_front`. The host pushes `Script` and then the null task of
`join`. `TaskWaits` says which device events a task waits for, `EventNeeds`
which tasks the command of an event waits for; `TasksInOrder` is what `read`
and `write_and_get` guarantee of the two: a task waits for commands enqueued
before it, and those for tasks created before.

### DeviceScheduler

`pc` and `run` are the program counter and the locals of `run`; one step is one
`get` of `activate_buffers`, one kernel, or one `unlock`. What a `get` leaves
behind are commands in the queue of the index and tasks of that queue's I/O
thread: read, back and barrier to evict, load and write to fill. An operation
starts when it is at the head of its queue and none of the events in its wait
list is outstanding. `memory`, `stage` and `dev` hold versions of whole blocks.
Kernels of all indices write one shared result (`<<"result">>`), as masses and
centroids are. `io` is the list of an I/O thread as `TaskFifo` allows it;
`IOThread` implements `TaskFifo` (`RunsInOrder`), which is what makes it sound
to use a plain sequence here.

A client (`Programs`) registers objects, runs batches, and reads back. It gives
up after a `run` that failed, or tries its next batch. `Runnable` and `Batch`
say what it may enqueue: functions over one or two objects, with a positive
block size for each. `SchedulerClients` has those of the repository, the other
ones of the instance are in `MCDeviceScheduler`.

### KMeansClients

An iteration of a client is the sequence of commands its code issues
(`ThreeStageIteration`, `SwappingIteration`), each for an in-order queue, some
with a wait of the client's thread. There is one queue per device, as `bench.cpp`
(243-302) makes them, and the two of the scheduler, whose `run` is reduced to
its kernels, the event that chains them and the final wait (`Run`). The map of
a CPU buffer is a wait for the queue that maps it. Data are what Lloyd's
algorithm makes of them: `[what |-> "centroids", n |-> 2, ...]` are the
centroids after two iterations, and a sum over half of the blocks, over two
different labellings or over something that was not zeroed is neither `"sums"`
of its iteration nor anything the division turns into centroids.

The benchmark around a client (`clustering_benchmark.cpp`, `run` and `verify`)
calls it `NumRuns` times. Each call gets centroids of its own, so a value has
the number of its call (`run`), what the buffers contain when a call begins is
what the call before left or nothing, and `verify` compares the labels of the
last call with those of the reference.

A CPU and a GPU exchange buffers through mapped memory. `bench.cpp` makes a
context per device, in which OpenCL refuses a copy from one GPU's buffer to
another's; two GPUs are therefore not an instance.

### NDRange, Kernels

A launch is a record: groups, items per group, vector length, number of points,
and what the kernel takes as arguments and defines. `GlobalStride` and
`LocalStride` are the loop heads the kernels share; `Starts` are the first
points of the vectors an item visits, `Lanes` their points. The barriers of a
kernel cut the run of an item into intervals: `Interval(L, w, j, m)` is what
interval `j` of item `w` does when it finds memory `m` - the addresses it
reads, the values it writes, what it adds atomically. A loop without a barrier
is summed up; a loop with barriers has an interval per round. Memory maps
addresses `<<buffer, part, index>>` to whole numbers; `part` is the work group
of a local buffer and the block of points and labels. `GlobalFence` says which
barriers order global memory.

### Phases

One operator per wrapper, named after its class. A phase is what the wrapper
asserts, which programs its `prepare` has built, which global buffers it
(re)allocates with which sizes, and the launches it enqueues with the sizes of
their local buffers. `Reduce` is the sequence of launches of
`reduce_vector_parcol.hpp`.

### DeviceQueue, DeviceKMeans

`Call` is a call of a wrapper, `StartKernel` takes the next launch, `Execute(w)`
runs one interval of an item, after its group has reached the barrier before
it. Items interleave freely, within and across groups. `touched` remembers what
each item used in each interval, from which `NoDataRace` tells conflicts that
no barrier orders. Cells nobody has written are absent; reading one gives
`Junk`, and a buffer that grows loses its contents.

Each wrapper has a predicate (`LabelingOK`, `ItemsOK`, `PardimOK`, `FusedSumOK`
and others, at the end of `Phases`) with what it needs of its configuration and
its arguments and does not assert. `JobOK` puts them together for every block of
a job; section 4 says why the code justifies them.

`DeviceKMeans` adds the client: the upload (with `PartitionMatrix` for the
buffered ones), the sequence of calls of an iteration for each client of
`bench.cpp`, the factories, and the reduction test. All phases are on one
queue; the order of several queues is the subject of `KMeansClients`.

## 3. Runs

| run | shows |
|---|---|
| `cache_calls` | `LockAccounting`, `OneHome`, `DescriptorGood`, `LockedStays`, `FailureChangesNothing` for every order of calls |
| `cache_data` | holders of descriptors see current data, no update is lost, `read` delivers |
| `short_content` | **violated**: a get of a longer range of a cached block serves garbage |
| `io_thread` | FIFO order (refinement of `TaskFifo`), the flag never blocks, join returns |
| `scheduler` | no race, slot/queue parity, no lock left, no empty wait, host current at the end, refinement of `ZipMap`, termination |
| `staging` | **violated**: in the transfer benchmark, a kernel runs on the wrong block of a read-only object |
| `kernel_lock` | **violated**: a slot is unlocked while its kernel runs |
| `half_cached` | **violated**: an empty event in a wait list |
| `kmeans_loops` | one device, or a GPU labelling for a CPU: commands that run together do not conflict, the last queue is the last, the host has Lloyd's result after every call of the benchmark, and its verification accepts |
| `buffered_loop` | **violated**: kernels of `run` overtake the fills or the division |
| `device_iteration` | for every client and strategy, device and order of work items: no race, no access outside of a buffer or to an undefined cell, the same barriers for all, every call possible, and an iteration of `kmeans_naive.cpp` |
| `reduce_columns` | **violated**: rows are not summed when the columns are no power of two |

*Bounds.* `cache_calls`: three slots, so that the second object owns one slot
and its other one is past the pool; sizes 0 and 3 with buffers of 2 give an
empty object, a full and a short block; two descriptors per slot tell counting
from setting. `cache_data`: five units, two slots, three blocks, so that every
block is evicted, the last is short; three kernel writes tell stale from
current. `io_thread`: the tasks of a fill, an eviction and a fill; there are
only two threads in the code. `scheduler`: six clients, up to three blocks over
two slots per object, so that every slot is reused while its kernel may be
pending; the iteration of the buffered k-means twice, two functions on one
mutable object, a cached object, a transient object in between, blocks that do
not match, an object larger than a buffer. More blocks repeat the same
alternation of two slots and queues. `kmeans_loops`, `buffered_loop`: three iterations (`MaxIterations`), so that both centroid
buffers are reused and an iteration has one before and one after it; two calls
(`NumRuns`), so that one begins with what another left behind; two blocks
occupy both queues of the scheduler.

`device_iteration`: two groups of two items, so that races within and across
groups both exist; a reduction size (`WorkgroupSize`) of 4 for 256 and at most
4 features (`MaxFeatures`) for 1024, so that reductions take several rounds and
features fall between two powers of two. Seven points in blocks of four and
three give a short last block whose labels and temporary buffers are reused;
eight and four points are whole rounds for vectors of two. The points are
powers of two, so that no two sets of points have the same sum: a point missed
or counted twice shows. `Unit` (840) is a multiple of all masses, so that
quotients are exact. A cluster may be empty. The CPU instance uses
`LOCAL_STRIDE`, the GPU local memory, the small GPU global memory.

Left out, because the code does not support it and nothing checks it: a number
of points that is no multiple of the vector length (the rest is dropped); blocks
of `LOCAL_STRIDE` that lose a tail (`LocalStrideTail`); vectors in the global
memory version of the fused feature sum (`lloyd_fused_feature_sum.cl:305` loads
the wrong points); `feature_sum_pardim` when items have different numbers of
points (they meet different barriers); and reductions over columns that are no
power of two (`reduce_columns`).

*Fairness.* `IOThread`: both threads are scheduled (weak fairness), a thread
that asks for a mutex again and again gets it (strong fairness of `Acquire`),
the device completes what it can; spurious wake-ups are possible and never
required. `DeviceScheduler`: the client's thread, every I/O thread and every
queue make progress when they can. The code never calls `clFlush` on the second
queue before it waits for the first; that a runtime starts commands without a
flush is assumed, not guaranteed by OpenCL.

*Deadlock* is checked everywhere; a program that has ended stutters (`Done`).

*The six violations* are disagreements of the code with its documentation.
`short_content`: line 173 of `simple_buffer_cache.cpp` against
`buffer_cache.hpp:112`; the clients of the repository always use one block
size per object, which is why `cache_data` passes. `staging`: the load into a
pinned buffer (line 268) waits for the eviction's events only, and a read-only
block has none; if nothing else in the batch makes it wait, it overwrites what
an earlier write still has to read. `transfer_bench.cpp` is such a client, and
measures these very transfers. In the batches of the buffered k-means the
second object of the labelling function waits for the first, and the next index
waits for both, which is why `scheduler` passes with them. `kernel_lock`:
`unlock` ignores the wait list it is given. Nothing goes wrong in the batches
checked, because slots and queues have the same parity (`QueueOwnsSlots`).
`half_cached`: line 469 of `single_device_scheduler.cpp` does not test for an
empty event as lines 185-190 do. `buffered_loop`: the fills and the division of
the buffered clients are in a queue of their own
(`kmeans_three_stage_buffered.hpp:137`, 342); the result can differ from the
reference that `clustering_benchmark.cpp:311` compares with.
When the client waits for its queue after the fills and after the division, the
same instance satisfies `HostHasResult`. `reduce_columns`: the inner kernel
halves the number of sums (`reduce_vector_parcol.cl:42`), which meets the
number of rows only for a power of two; the test `FurySize`
(`test/reduce_vector.cpp:202`) has 7 * 2^13 columns.

## 4. Proofs

`BufferCacheProofs` proves, for every pool, buffer size, object table and
sequence of calls, every property of the run `cache_calls`. The invariant is

    IInv == TypeOK /\ LockAccounting /\ OneHome /\ DescriptorGood /\ SlotsFilled

`OneHome` alone is not inductive: a fill could duplicate a block unless it is
known that the block is not cached. `DescriptorGood` needs `LockAccounting`
(a fill takes only a free slot, hence one without users) and `OneHome` (the
slot `unlock` finds is the one the descriptor came from, `UnlockFindsGranted`),
and `LockAccounting` needs `DescriptorGood` for the same reason. `SlotsFilled`
(an empty slot is never locked, its block number is -1) is what makes the
eviction's lookup find the slot that is evicted (`FoundWhereHeld`), so that it
never fails (`EvictSucceeds`) and the lock of line 225 never leaks.
`NextCases` reduces every call to four cases: nothing changes, a hit, a fill,
a release; each has a lemma that it keeps the invariant.

The only assumption on the constants is `CacheAssumption`: a positive buffer
size, at least two slots (`add_device` refuses less) and natural numbers.

`IOThreadProofs` proves `IOTypeOK` and `FlagNeverBlocks` for every script of
tasks and every dependency of tasks and events (`IOThreadAssumption`). Its
invariant says which labels have the mutex (`MutexInv`), that a set flag has a
thread inside its critical section (`FlagInv`), and how many tasks have been
appended (`CountInv`): a thread that tests the flag has the mutex, so nobody
else is where the flag is set. Spurious wake-ups are included; the proof needs
neither fairness nor `TasksInOrder`.

`ImplementsTaskFifo` proves that `IOThread` implements `TaskFifo`
(`RunsInOrder`) for every script. The mapping takes the task in hand and the
list without its null task (`InHand \o Queued`) for the pending tasks. It needs
one more invariant, `NullInv`: the null task is the last of the list while it
is in it, and the worker has taken it, with an empty list, when it ends. Each
of the two threads' steps is then an abstract push, run or return, or leaves
the mapped state as it is.

`CoherentCacheProofs` proves the three properties of the run `cache_data` for
every pool, object table and sequence of calls, on a CPU and a GPU, under one
hypothesis about the client, `OneBlockSize`: two ranges it asks of an object
are the same or apart. All clients of the repository satisfy it (and so does
`MCAligned`); the run `short_content` shows that the properties fail without
it. The invariant `DInv` extends `IInv`:

* `Placed`: a slot holds a whole range of the client, so that a new range hits
  a cached one exactly or misses it (`BlockOrApart`);
* `WholeBlocks`: a descriptor names the block of its slot, hence a kernel
  writes what an eviction writes back; this is where `OneBlockSize` is needed;
* `HostCurrent`, `DeviceCurrent`: what nobody writes on the device is current
  on the host, and a slot's buffer has the current version of its block;
* `UncachedIsCurrent`: it survives an eviction because `read` finds the very
  slot that is evicted (`FoundWhereHeld`, from `OneHome`).

`DataAssumption` only says that objects are no larger than the version tables.

`DeviceSchedulerProofs` is about `run`, for every client, pool, number of
objects, blocks and functions, and every interleaving of the client's thread
with the queues and I/O threads. `SchedulerLocks` holds in all behaviours,
failures included: the steps of `run` on the cache are those of `BufferCache`
(`SchedulerCacheCases`), so its lemmas apply to them; `HInv` adds the types of
the locals of `run` and where its counters point (`Position`).

The other theorems are about behaviours in which no `run` has failed
(`[](run_ret = 1)`): a failed one leaves locks and functions behind, and what
follows is only model-checked (`TooLarge`, `Mismatch`). Their invariant `RInv`
is the argument for double buffering that the code never states:

* `Window`: one index is in flight while `run` activates the next, two when it
  deactivates, so of every object at most two buffers are locked;
* `InFlightInPlace`: a buffer of index `i` is in slot `i % 2` of its object and
  still holds the block it was activated for. A new block goes there because
  the other slot of the object is locked by the index before (`OtherSlotHeld`),
  which `Completed` provides: that index activated every object;
* `Homes`: what is cached is in a slot of its object, and the first block in
  the first slot, so that index 0 of a later batch begins with slot 0, hit or
  miss (`FirstUse`, `Landing`);
* `OnlyInFlight`: nothing else is locked, and each slot once; `unlock` finds
  every buffer (`UnlockSucceeds`);
* `QueueTypes`: the work of a queue is on slots of its parity;
  `TasksAwaited`: every task of an I/O thread is waited for by a command, so
  that `finish` on the queues is enough to know that the threads are done.

`QueuesOwnSlots` and `SuccessUnlocks` follow from it. `ProgramsAssumption`
(positive sizes and block sizes, one or two objects in a function) is the
assumption about the clients.

The second part is about what is in the queues. Its invariant (`GInv`, `RaceInv`)
describes each outstanding command and task by the call of `run` it comes from:

* a fill of a slot comes in the queue of its parity after the kernels of the
  index before the last, so nobody loads a buffer a kernel still has to use;
* within a fill, the tasks that read and write a pinned buffer are ordered by
  the events `write_and_get` makes, with one gap: a load waits for the events
  of the eviction, and the eviction of a ReadOnly block has none;
* the kernels that share a result are chained by an event across the queues.

`RacesAreReloads` says that this gap is the only one: if two operations
race, one is the load of a ReadOnly block into a pinned buffer that an earlier
write still has to read. That is the finding of the run `staging`. `NoRace`
itself follows for clients all of whose objects are ReadWrite or Transient
(`MutableObjectsNeverRace`). Both are about behaviours without a failed `run`, and both
need the hypothesis `SameSteps`: a client uses an object with one block size.
All clients of the repository do. Without it the blocks of two batches overlap
without being equal, and a block written back by one I/O thread may be loaded
by the other while the write is on its way. `EmptyWaitsAreHalfCached` says what it
takes to get an empty event into a wait list: a function of two objects whose
first block is cached and whose second is not (`HalfCached`), the finding
`half_cached`. Every other behaviour satisfies `NoEmptyWait`, failed `run`s
included. `SchedulerTypeCorrect` proves `SchedulerTypeOK`.

The third part does without the hypothesis that no `run` fails. It says of
the client instead that its objects fit (`FitsPool`): each has its two slots in
the pool, blocks no larger than a buffer and, within a batch, as many blocks as
the others. All clients of the tests and the buffered k-means do, for a pool
that is large enough; `TooLarge` and `Mismatch` do not, and their runs fail.
`RunsSucceed` proves that such a client's runs return 1. The invariant `FitInv`
adds to `RInv` that the functions come from the client and that the index is
that of a block (`IndexInRange`). From it, every block `run` asks for begins in
its object and is accepted (`BlockAccepted`); its slot is free, because what is
in flight is in the slot of the other parity (`SlotAssigned`), and so is the slot
where it is cached (`FoundIsFree`). The theorems above then hold of such clients
in all their behaviours (`FittingQueuesOwnSlots`, `FittingRunsUnlock`,
`FittingMutableNeverRace`).

The fourth part is about the buffered k-means (`KMeansClient`): ReadOnly points
and ReadWrite labels, and iterations whose first function uses both, in this
order. The gap of `RacesAreReloads` is open to it, since its points are
reloaded in every iteration, but it is never met (`KMeansNeverRaces`), for a
reason the code does not state:

* `InTurn`, `CachedInPairs`: an iteration activates points `i`, then labels `i`,
  and their slots have the same parity, so block `i` of the points is cached if
  and only if block `i` of the labels is;
* hence a miss of the points is followed by a miss of the labels, whose load
  waits for the event `get` returned for the points (`fst_event`);
* `PointsAwaited`: every write of points the device still has to do is thus
  awaited by a task of the I/O thread before the next load of points, or is
  about to be (`Halfway`). This is the order `RaceStep` asks for
  (`ReloadsAwaited`).

The same pairing keeps a half-cached function from happening
(`KMeansNeverWaitsEmpty`). A client that uses the points alone in a function of
its own has neither property, as the runs `staging` and `half_cached` show.

`DeviceMemoryProofs` is about data: what the kernels find, and what the client
gets back. The device and the I/O threads are behind the client's thread and
take their steps in any order their events allow, so neither is visible in
`memory`, `stage` and `dev` as they are. The argument has four steps:

1. *What memory will be.* `Effect` is a command or task as a function on all
   memory (`Data`: device and pinned buffers, host, what the kernels received).
   `Runs` applies the outstanding ones in the order of their events, which is
   the order in which `run` made them. Two that are in conflict are ordered by
   `RaceInv`, and two that are not commute, so an operation that may run now can
   as well be the first: the device and the I/O threads never change the result
   `S` (`DataIs`, `WorkerData`). Only the client's thread does, and it appends.
2. *Where the latest versions will be.* In `S`, the device buffer of a cached
   block has the latest version (`CacheHolds`), and the host has that of a
   mutable block that is not cached (`HostHolds`). A miss keeps this because its
   eviction is before its load, a kernel because the slots it uses are those of
   the blocks it was enqueued for (`InFlightInPlace`). So every kernel finds the
   latest version of its blocks (`ok` in `S`), although the one before may not
   have been started when it is enqueued.
3. *What was applied to what.* In `S` the kernels of the run have received the
   blocks of one index after the other, function by function (`LogHolds`), and
   the version of a block is how often a kernel was given it. What has happened
   is a prefix of that. A step of the device that ends a kernel is therefore the
   next one of `ZipMap`, and every other step is none (`AppliedOnce`).
4. *Reading back.* While there is something to run, all that is cached and
   mutable is something the client will read (`CoverInv`, from `ReadsBack`);
   after the last `run` a mutable block the host does not have in `S` is cached
   and still to be read (`HostLate`). When the client ends, nothing is
   outstanding and nothing to be read, so memory is `S` and the host has it all
   (`ReadBackCurrent`).

Both theorems are about clients `run` can serve (`Served`): `FitsPool`,
`SameSteps`, and no ReadOnly object or the k-means. The last is what `NoRace`
needs, and the commuting of step 1 needs `NoRace`. `KMeansDelivers` and
`UnaryDelivers` show that these are not hypotheses about a program nobody
wrote: the k-means with `n` points of `f` features satisfies them if `f` divides
the buffer size (`KMeansIsServed`), the test for every size. Of the other
programs of `MCDeviceScheduler`, `Intermediate` and `Cached` satisfy them, and
`Mismatch` and `TooLarge` do not: their runs fail.

`KMeansClientsProofs` proves the four properties of the run `kmeans_loops`, for
any number of iterations (at least one) and of calls. `Ordered` says which
placements of the phases it is about: one block, the masses and the centroids
computed on one device, and the labels there too or by another device for a
CPU. These are the placements of the run. The buffered clients and two blocks
are left out because `buffered_loop` shows them wrong, and two GPUs because
they cannot exchange buffers. The argument has three steps:

1. *Waits.* Between two commands of different queues that touch the same
   buffer, the client's list has a wait for the first (`Spaced`). `WaitInv` adds
   the same for what is in the queues and what comes (`Guarded`), so that what
   is in different queues never conflicts (`Apart`), and that the list ends
   with waits for all (`Finished`). Hence `PhasesWait` and `LastQueueSuffices`.
2. *Order.* So the queues may be run one after the other: an operation at the
   head of a queue commutes with the outstanding ones of the other queues, and
   the memory that results when all are done (`Yields`, `Executes`) is what the
   list computes in the order of the client's code, however they interleave.
3. *Lloyd.* What the list computes from the centroids of iteration `n` are the
   labels and sums of `n` and the centroids of `n + 1`, in the other of the two
   buffers (`Results`, `HostResults`), whatever was in memory before. This gives
   `ClientsCompute`, and `ClientsVerify` for every call of the benchmark.

`KernelProofs` begins with who visits which point, for launches in one dimension
of every size: exactly one work item without `LOCAL_STRIDE` (`GlobalStrideOnce`)
and, for the points before the end of the last block, with it
(`LocalStrideOnce`); nobody visits those behind it (`LocalStrideTail`), of
which vectors of one point leave none (`ScalarBlocksCover`). `FeatureSumOnce`
says the same of pairs of point and feature in `lloyd_feature_sum_sequential`.
The points must fill whole vectors. The arguments rest on one lemma, `Turns`:
vectors dealt out in turn go to the visitor whose turn their number is.

`DeviceQueueProofs` proves, for every set of jobs, every number of points,
features, clusters, groups, items and blocks, and every order in which items
run, the five safety properties of the run `device_iteration` that do not
depend on the sums: `DeviceTypeOK` (types, and labels that are numbers of
clusters), `CallsSucceed`, `InBounds`, `NoDataRace`,
`UniformBarriers`. The argument has four layers, the first three of which are
about one launch and are in `KernelProofs`:

1. *Footprints.* `Foot(L, w, j)` is a set of cells that depends on the launch
   only: those that interval `j` of item `w` may read, write and add to. For each
   of the sixteen kernels and commands, what `Interval` does on any memory is part of it
   (`FootHolds`). Values matter in one place: a label is an index into the bins
   and sums, so an item stays within its part of them only if labels are
   numbers of clusters (`MemFor`), and a label comes out of `Closest` as one.
2. *Bounds.* A launch `Fits` if the buffers are as large as its kernel
   asks for; then all footprints are inside (`FootWithin`). Strides end at the last
   point (`Lanes`), tiles and columns are products whose factors are bounded.
3. *Races and barriers.* Footprints of two items meet in a cell that one of them
   writes only if they are of one group and a barrier is between their intervals
   (`FootGuarded`): an item has columns, chunks or strided cells of its own, or
   what it writes in one interval is read in another. Items of a group have as
   many intervals (`BarriersUniform`), because loops with barriers run over
   group offsets or even shares.
4. *The queue.* The invariant `QInv` says that every buffer has the room the
   client (`SizesInv`) and the waiting launches (`TodoInv`) need, that labels in
   memory are numbers of clusters (`MemInv`), that what an item has left in
   `touched` is part of its footprints (`RunInv`), and that labels of a block are
   written before they are counted (`LabelsInv`). The last is the part that relates
   several calls: a label nobody has written is `Junk`, an index outside of all
   bins, and what prevents it is that the clients call the labelling of a block
   first, in the same queue, and that no later call replaces the labels.
   `JobsFit` closes the circle: for each wrapper, what it allocates is what its launches
   need. For the reductions this is an induction over rounds
   (`reduce_vector_parcol.hpp` halves twice a power of two, and stays at least at
   the number of rows).

The assumptions are `SizesAssumption` (`WORKGROUP_SIZE`, 256 in the code, is a
power of two) and `JobsAssumption`, which TLC evaluates for the jobs of both runs:

* data are whole numbers; features, clusters, work items and the size of a group are
  powers of two. So are clusters and work items in all files of `configurations/`;
  `reduce` asserts that the rows it ends with, clusters times features, divide
  256 (line 138), and halves the columns (run `reduce_columns`). The reduction
  test has rows of any number that its assertions admit;
* the features are from 2 to `MAX_FEATURES`, for the kernels of which `prepare`
  builds one for each number: for others there is no such program;
* more than one partial result to reduce: with one, `reduce` returns an empty
  event (`reduce_vector_parcol.hpp:154`) and `CallsSucceed` is false;
* the points of a block fill whole vectors, and whole rounds of items where
  items share barriers (`PardimOK`, `lloyd_feature_sum_pardim.cl:156`), where
  `LOCAL_STRIDE` deals out vectors of labels (`LabelingOK`) and where it caches points
  of a group (`FusedSumOK`). Without the last, a group of `lloyd_fused_feature_sum`
  goes on into the block of the next one, both label those points, and count them
  twice. No client checks the number of points; these are the shapes "Left out"
  in section 3, and for vectors of one point and kernels without shared barriers
  nothing is asked of the number of points.

None of this is about floating point, and none of it needs `LloydStep`.

The library's induction theorems take an operator as a parameter and cannot be used.
Where a recursive function had to be reasoned about (`Power`, `SumFunction`,
`Reduce`), the proof takes a least counterexample instead: a nonempty set of
numbers has a least one (`LeastNat`), and the function is the one its recursive
equation chooses (`PowerEq`, `SumEq`, `ReduceEq`).

Model-checked only:

* `LloydStep` and `ReducedIsSum`, that the sums an iteration computes are those of
  `kmeans_naive.cpp`: they are equations between folds over data, in different
  orders; and `ReadsAreDefined`, that each cell is written before it is read, of
  which `LabelsInv` has the case of the labels;
* the scheduler after a `run` has failed, but for `SchedulerLocks`,
  `SchedulerTypeCorrect` and `EmptyWaitsAreHalfCached`;
* liveness (`EverythingJoined`, `ClientFinishes`), which is out of the prover's
  reach.

## 5. Not modelled

* Several devices in the scheduler: `SingleDeviceScheduler` and the buffered
  clients add one.
* The CPU path of the cache under the scheduler (`CoherentCache` has it).
* Failures of OpenCL calls, which throw and end the program.
* Futures and `enqueue_barrier` (returns -1).
* An object with no elements in a batch: `run` takes 0 blocks for a barrier.
* The refused `unlock` of the drain loop: unreachable, by `DescriptorGood`.
* Floating point: points are whole numbers and quotients exact, so the order of
  additions has no effect in the model, and every distance is below
  `CL_POINT_MAX`. With infinite or undefined coordinates the kernels leave
  `min_c`, and so a label, without a value (`lloyd_labeling_vp_clcp.cl:123`).
* The bytes that `use_local_memory` compares are counted in elements, and the
  unused buffer that `mass_update_part_private.hpp:160` allocates is left out.
* Calls of `write_and_get` for a block that is in a slot, and what a later `run`
  does with the functions a failed one leaves enqueued: no caller in the
  repository does the one, and no document says anything of the other. Blocks
  of points and labels that are equal in number but hold different points are
  not told apart.
* `lloyd_feature_sum_sequential_v`, `matrix_scalar`, `matrix_col_vector`: no
  wrapper enqueues them.
* Files of an earlier interface that `CMakeLists.txt` does not build:
  `lloyd_gpu_feature_sum.cpp`, `kmeans_gpu_assisted.cpp`, `*_api.hpp`,
  `lloyd_labeling.cl`, `lloyd_labeling_vp_clc.cl`, `lloyd_merge_sum.cl`,
  `aggregate_sum_mass.cl`.
* `Measurement`, `csv.hpp`, `matrix.hpp`, `binary_format.cpp`,
  `configuration_parser.cpp`, the generators and initialisers,
  `kmeans_armadillo.cpp`: sequential data structures, input and output, library
  calls. `picluster`, baselines and the statistics of the
  benchmarks: measurements of the same components.

## 6. Plan

1. done: the cache, its data, the I/O thread, the scheduler, the abstract
   `TaskFifo` and `ZipMap`, the loops of the clients.
2. done: kernels and wrappers down to work items, the reduction,
   `partition_matrix`, `kmeans_naive.cpp` as the reference.
3. done: theorems about the cache, its data, the I/O thread and its refinement,
   the locks, double buffering and races of the scheduler, its refinement of
   `ZipMap` and what its clients read back, the loops of the clients and their
   verification, the shares of work items, and the calls, bounds, races and
   barriers of an iteration on a device.
4. left: that every cell is written before it is read (`ReadsAreDefined`), by an
   invariant that follows what each interval has written; that a
   reduction adds up what it is given; the clients of `kmeans_three_stage.hpp` on
   three devices.
