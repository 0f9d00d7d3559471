-------------------------- MODULE DeviceScheduler --------------------------
(***************************************************************************)
(* SingleDeviceScheduler::run (src/single_device_scheduler.cpp) over a     *)
(* SimpleBufferCache on a GPU: the client's thread, which runs ahead, the  *)
(* in-order command queues of the device and the I/O thread of each queue. *)
(*                                                                         *)
(* The host never waits inside the loop of run.  Every get of an uncached  *)
(* block leaves a chain of work behind,                                    *)
(*                                                                         *)
(*   read (device to staging), back (staging to host), barrier,            *)
(*   load (host to staging), write (staging to device),                    *)
(*                                                                         *)
(* the first three only to evict a mutable block; load and back are tasks  *)
(* of the I/O thread, the others commands of the queue.  Kernels follow.   *)
(* A command or task starts when those before it in its queue have ended   *)
(* and the events it waits for are complete.                               *)
(*                                                                         *)
(* Events are numbered in the order of their creation; an event is         *)
(* complete when no queue holds it any more.  0 is the empty event.        *)
(***************************************************************************)
EXTENDS BufferCache, Functions, FiniteSetsExt

\* What clients do: [objects, batches, reads], the objects they register, the
\* batches of functions they enqueue and run, and the blocks they read back
\* at the end.  A function is [objs, steps]: one or two object ids and the
\* block sizes.
CONSTANT Programs

\* UnaryRunnable and BinaryRunnable: a function over blocks of one object, or
\* over blocks of two.
Runnable ==
  {f \in [objs : Seq(Nat \ {0}), steps : Seq(Nat \ {0})] :
     Len(f.objs) \in 1 .. 2 /\ Len(f.steps) = Len(f.objs)}

Batch == Seq(Runnable) \ {<<>>}

ASSUME ProgramsAssumption ==
  Programs \subseteq [objects : Seq([size : Nat \ {0}, mode : ObjectMode]),
                     batches : Seq(Batch), reads : Seq(Block)]

VARIABLES
  program,     \* what the client has still to do
  run_queue,   \* run_queue_i: the functions enqueued
  pc,          \* where the client's thread is
  run_ret,     \* what run returned last
  run          \* the variables of run, see NotRunning

hostVars == <<program, run_queue, pc, run_ret, run>>

VARIABLES
  commands,    \* the command queues: two of the scheduler, one of the client
  io,          \* the tasks of the I/O thread of each queue
  next_event,  \* the number of the next event
  memory,      \* host memory: the version of every block of every object
  stage,       \* contents of the pinned host buffer of every slot
  dev,         \* contents of the device buffer of every slot
  log          \* ghost: what the kernels of this run have received, in order

queueVars == <<commands, io, next_event>>
dataVars == <<memory, stage, dev, log>>
vars == <<cacheVars, hostVars, queueVars, dataVars>>

NumQueues == 2
ClientQueue == NumQueues
Queues == 0 .. ClientQueue
NoEvent == 0

\* Contents of a buffer nothing has been copied to.
Garbage == [oid |-> 0, bid |-> 0, ver |-> 0]

\* index        current_index
\* fun, arg     the function, and its object, being activated or run
\* fst_event    BinaryRunnable::activate_buffers: event of the first object
\* activate_event, trans_event (trans_loop_run_event)
\* wait_list    activate_wait_list, then run_wait_list
\* activating   active_rstate: the buffers of this index, as activated
\* active       active_rstates: the buffers of the indices in flight
NotRunning ==
  [index |-> 0, fun |-> 1, arg |-> 1, fst_event |-> NoEvent,
   activate_event |-> NoEvent, trans_event |-> NoEvent, wait_list |-> {},
   activating |-> <<>>, active |-> <<>>]

-----------------------------------------------------------------------------
(***************************************************************************)
(* Events, commands and tasks                                              *)
(***************************************************************************)
InQueues(q) == Range(commands[q]) \cup Range(io[q])
Outstanding == {op.ev : op \in UNION {InQueues(q) : q \in Queues}}

\* The wait for an empty event is NoEmptyWait's subject.
Ready(op) == op.waits \cap Outstanding = {}

Op(kind, s, block, waits, ev) ==
  [kind |-> kind, slot |-> s, block |-> block, waits |-> waits, ev |-> ev]

\* read: the two commands and the task that return the block in slot s.
ReadCommands(s, block, waits, n) ==
  <<Op("read", s, block, waits, n), Op("barrier", s, block, {n + 1}, n + 2)>>

\* Fault variant: the task does not wait for the transfer from the device.
ReadTasksEarly(s, block, n) == <<Op("back", s, block, {}, n + 1)>>

ReadTasks(s, block, n) == <<Op("back", s, block, {n}, n + 1)>>

\* Does write_and_get write the block of slot s back before it fills s?
WritesBack(s) == cached[s] # NoBlock /\ ~Immutable(cached[s].oid)

FillCommands(s, block, waits, n) ==
  (IF WritesBack(s) THEN ReadCommands(s, cached[s], waits, n) ELSE <<>>)
    \o <<Op("write", s, block, {n + 3}, n + 4)>>

\* Fault variant: the load is pushed before the write-back it waits for.
FillTasksSwapped(s, block, waits, n) ==
  IF WritesBack(s)
  THEN <<Op("load", s, block, waits \cup {n + 2}, n + 3)>> \o ReadTasks(s, cached[s], n)
  ELSE <<Op("load", s, block, waits, n + 3)>>

\* Fault variant: the load is pushed first, and waits for the caller's events
\* only.
FillTasksEarly(s, block, waits, n) ==
  <<Op("load", s, block, waits, n + 3)>>
    \o (IF WritesBack(s) THEN ReadTasks(s, cached[s], n) ELSE <<>>)

\* The new contents are loaded after the barrier of the eviction, event n + 2.
FillTasks(s, block, waits, n) ==
  IF WritesBack(s)
  THEN Append(ReadTasks(s, cached[s], n),
              Op("load", s, block, waits \cup {n + 2}, n + 3))
  ELSE <<Op("load", s, block, waits, n + 3)>>

\* Fault variant: the last event is used again by the next call.
EnqueueEventTwice(q, cmds, tasks) ==
  /\ commands' = [commands EXCEPT ![q] = @ \o cmds]
  /\ io' = [io EXCEPT ![q] = @ \o tasks]
  /\ next_event' = next_event + 4

Enqueue(q, cmds, tasks) ==
  /\ commands' = [commands EXCEPT ![q] = @ \o cmds]
  /\ io' = [io EXCEPT ![q] = @ \o tasks]
  /\ next_event' = next_event + 5

-----------------------------------------------------------------------------
(***************************************************************************)
(* run: enqueue and register_buffers                                       *)
(***************************************************************************)
CeilDiv(a, b) == (a + b - 1) \div b

NumBlocks(f, j) == CeilDiv(objects[f.objs[j]].size, f.steps[j])

\* Block i of the j-th object of f.
BlockAt(f, j, i) ==
  LET size == objects[f.objs[j]].size
      off == i * f.steps[j]
  IN  [oid |-> f.objs[j], bid |-> off,
       len |-> IF off + f.steps[j] < size THEN f.steps[j] ELSE size - off]

\* num_buffers is n: all objects of all functions have n blocks.
NumBuffersIs(n) ==
  \A k \in DOMAIN run_queue :
     \A j \in DOMAIN run_queue[k].objs : NumBlocks(run_queue[k], j) = n

StartBatch ==
  /\ pc = "idle" /\ program.batches # <<>>
  /\ run_queue' = run_queue \o Head(program.batches)
  /\ program' = [program EXCEPT !.batches = Tail(@)]
  /\ pc' = "register"
  /\ log' = <<>>
  /\ UNCHANGED <<cacheVars, run_ret, run, queueVars, memory, stage, dev>>

RegisterOk ==
  /\ pc = "register"
  /\ NumBuffersIs(NumBlocks(Head(run_queue), 1))
  /\ pc' = "activate"
  /\ UNCHANGED <<cacheVars, program, run_queue, run_ret, run, queueVars, dataVars>>

\* run returns -1: its variables are gone, the functions stay enqueued.
Fail ==
  /\ pc' = "idle"
  /\ run_ret' = -1
  /\ run' = NotRunning
  /\ UNCHANGED <<program, run_queue>>

RegisterFails ==
  /\ pc = "register"
  /\ ~NumBuffersIs(NumBlocks(Head(run_queue), 1))
  /\ Fail
  /\ UNCHANGED <<cacheVars, queueVars, dataVars>>

-----------------------------------------------------------------------------
(***************************************************************************)
(* run: activate_buffers, one object of one function per step              *)
(***************************************************************************)
ThisFun == run_queue[run.fun]
ThisBlock == BlockAt(ThisFun, run.arg, run.index)

\* Fault variant: current_queue does not advance.
FirstQueue == 0

ThisQueue == run.index % NumQueues
Activated(oid) == \E b \in Range(run.activating) : b.block.oid = oid

\* The second object of a function waits for the event of the first.
ActivateWaits == IF run.arg = 1 THEN run.wait_list ELSE {run.fst_event}

\* Fault variant: the kernels of an index do not wait for those before it.
KernelWaitsAlone(wait_list) == wait_list

\* Fault variant: the empty event of the first index is inserted too.
KernelWaitsUnchecked(wait_list) == wait_list \cup {run.trans_event}

\* run_wait_list of the first function of an index.
KernelWaits(wait_list) ==
  wait_list \cup (IF run.trans_event = NoEvent THEN {} ELSE {run.trans_event})

\* Go on to the next object, function or phase.  fst and act are the values
\* of fst_event and activate_event after this object.
ObjectDone(fst, act, bufs) ==
  LET lastArg == run.arg = Len(ThisFun.objs)
      lastFun == run.fun = Len(run_queue)
      waits == IF act = NoEvent THEN run.wait_list ELSE {act}
  IN  /\ IF ~lastArg
         THEN /\ run' = [run EXCEPT !.arg = 2, !.fst_event = fst, !.activating = bufs]
              /\ pc' = "activate"
         ELSE /\ run' = [run EXCEPT !.arg = 1, !.fst_event = NoEvent,
                           !.activate_event = act, !.activating = bufs,
                           !.fun = IF lastFun THEN 1 ELSE @ + 1,
                           !.wait_list = IF lastFun THEN KernelWaits(waits) ELSE waits]
              /\ pc' = IF lastFun THEN "run" ELSE "activate"
      /\ UNCHANGED <<program, run_queue, run_ret, dataVars>>

\* get has stored event ev, into fst_event or into activate_event.
GotBuffer(s, ev) ==
  LET bufs == Append(run.activating, [slot |-> s, block |-> ThisBlock])
  IN  IF run.arg < Len(ThisFun.objs)
      THEN ObjectDone(ev, run.activate_event, bufs)
      ELSE ObjectDone(NoEvent, ev, bufs)

\* An earlier function of this index has activated the object.
ActivateAgain ==
  /\ pc = "activate" /\ Activated(ThisBlock.oid)
  /\ ObjectDone(run.fst_event, run.activate_event, run.activating)
  /\ UNCHANGED <<cacheVars, queueVars>>

\* The block is cached: no transfer, and an empty event.
ActivateHit ==
  /\ pc = "activate" /\ ~Activated(ThisBlock.oid)
  /\ \E s \in Slots :
        /\ GetHit(s, ThisBlock.oid, ThisBlock.bid, ThisBlock.len)
        /\ GotBuffer(s, NoEvent)
  /\ UNCHANGED queueVars

\* The transfers of write_and_get.  A transient object is not written.
Transfer(s, n) ==
  IF objects[ThisBlock.oid].mode = "Transient"
  THEN IF WritesBack(s)
       THEN /\ Enqueue(ThisQueue, ReadCommands(s, cached[s], ActivateWaits, n),
                       ReadTasks(s, cached[s], n))
            /\ GotBuffer(s, n + 2)
       ELSE UNCHANGED queueVars /\ GotBuffer(s, NoEvent)
  ELSE /\ Enqueue(ThisQueue, FillCommands(s, ThisBlock, ActivateWaits, n),
                  FillTasks(s, ThisBlock, ActivateWaits, n))
       /\ GotBuffer(s, n + 4)

ActivateMiss ==
  /\ pc = "activate" /\ ~Activated(ThisBlock.oid)
  /\ ~InCache(ThisBlock.oid, ThisBlock.bid)
  /\ \E s \in Slots :
        /\ Fill(s, ThisBlock.oid, ThisBlock.bid, ThisBlock.len)
        /\ Transfer(s, next_event)

\* get fails: the locks taken so far stay, and so do the transfers.
ActivateFails ==
  /\ pc = "activate" /\ ~Activated(ThisBlock.oid)
  /\ Get(ThisBlock.oid, ThisBlock.bid, ThisBlock.len) /\ ret' = -1
  /\ Fail
  /\ UNCHANGED <<queueVars, dataVars>>

-----------------------------------------------------------------------------
(***************************************************************************)
(* run: the kernels of an index, deactivate_buffers and the end            *)
(***************************************************************************)
\* The buffer of the j-th object of the function.
BufferOf(j) ==
  CHOOSE b \in Range(run.activating) : b.block.oid = ThisFun.objs[j]

Kernel(waits, ev) ==
  [kind |-> "kernel", args |-> [j \in DOMAIN ThisFun.objs |-> BufferOf(j)],
   waits |-> waits, ev |-> ev]

RunFunction ==
  LET lastFun == run.fun = Len(run_queue)
      lastIndex == run.index + 1 = NumBlocks(run_queue[1], 1)
      ev == next_event
      inFlight == Append(run.active, run.activating)
  IN  /\ pc = "run"
      /\ Enqueue(ThisQueue, <<Kernel(run.wait_list, ev)>>, <<>>)
      /\ IF ~lastFun
         THEN /\ run' = [run EXCEPT !.fun = @ + 1, !.wait_list = {ev}]
              /\ UNCHANGED pc
         ELSE /\ run' = [NotRunning EXCEPT !.index = run.index + 1,
                            !.trans_event = ev, !.active = inFlight]
              /\ pc' = CASE lastIndex -> "drain"
                         [] ~lastIndex /\ Len(inFlight) >= NumQueues -> "deactivate"
                         [] ~lastIndex /\ Len(inFlight) < NumQueues -> "activate"
      /\ UNCHANGED <<cacheVars, program, run_queue, run_ret, dataVars>>

\* The buffers of the oldest index are unlocked in the order of the functions
\* and of their objects, that is, as they were activated.
NextBuffer == Head(Head(run.active))

\* unlock uses neither its wait list nor its event: it happens at once, before
\* the kernel has run.
DeactivateBuffer(b) == Unlock(b.slot)

\* Both loops that deactivate.  Only the second looks at what it returned.
Deactivate ==
  LET rest == Tail(Head(run.active))
      others == Tail(run.active)
      unlocked ==
        /\ run' = [run EXCEPT !.active = IF rest = <<>> THEN others ELSE <<rest>> \o others]
        /\ pc' = CASE rest # <<>> -> pc
                   [] rest = <<>> /\ pc = "deactivate" -> "activate"
                   [] rest = <<>> /\ pc = "drain" ->
                        IF others = <<>> THEN "finish" ELSE "drain"
        /\ UNCHANGED <<program, run_queue, run_ret>>
  IN  /\ pc \in {"deactivate", "drain"}
      /\ DeactivateBuffer(NextBuffer)
      /\ IF ret' = 1 \/ pc = "deactivate" THEN unlocked ELSE Fail
      /\ UNCHANGED <<queueVars, dataVars>>

\* run waits for its queues, forgets the functions and returns 1.
Finish ==
  /\ pc = "finish"
  /\ \A q \in 0 .. NumQueues - 1 : commands[q] = <<>>
  /\ run_queue' = <<>>
  /\ run_ret' = 1
  /\ run' = NotRunning
  /\ pc' = "idle"
  /\ UNCHANGED <<cacheVars, program, queueVars, dataVars>>

\* The client reads a block back through a queue of its own.
ClientRead ==
  LET b == Head(program.reads)
  IN  /\ pc = "idle" /\ program.batches = <<>> /\ run_ret = 1
      /\ program.reads # <<>>
      /\ \/ \E s \in Slots :
              /\ ReadBack(s, b.oid, b.bid, b.len)
              /\ Enqueue(ClientQueue, ReadCommands(s, b, {}, next_event),
                         ReadTasks(s, b, next_event))
         \/ ReadNothing(b.oid, b.bid, b.len) /\ UNCHANGED queueVars
      /\ program' = [program EXCEPT !.reads = Tail(@)]
      /\ UNCHANGED <<run_queue, pc, run_ret, run, dataVars>>

\* The client has waited for what it has read; after a failure it gives up.
ClientEnds ==
  /\ pc = "idle" /\ program.batches = <<>>
  /\ run_ret = 1 => program.reads = <<>> /\ commands[ClientQueue] = <<>>
  /\ pc' = "end"
  /\ UNCHANGED <<cacheVars, program, run_queue, run_ret, run, queueVars, dataVars>>

-----------------------------------------------------------------------------
(***************************************************************************)
(* The device and the I/O threads                                          *)
(***************************************************************************)
Copy(block, ver) == [oid |-> block.oid, bid |-> block.bid, ver |-> ver]

\* The version of the block that contents c hold, -1 if it is another block.
VersionIn(c, block) ==
  IF c.oid = block.oid /\ c.bid = block.bid THEN c.ver ELSE -1

\* What a kernel receives in a buffer: transient contents do not count.
Received(b) ==
  [block |-> b.block,
   ver |-> IF objects[b.block.oid].mode = "Transient" THEN 0
           ELSE VersionIn(dev[b.slot], b.block)]

\* The buffers of mutable objects that a kernel is given in slot s.
WrittenBuffers(s, args) ==
  {b \in Range(args) : b.slot = s /\ objects[b.block.oid].mode # "ReadOnly"}

\* A kernel gives the blocks of mutable objects new versions.
ContentsAfter(s, args) ==
  IF WrittenBuffers(s, args) = {} THEN dev[s]
  ELSE LET b == CHOOSE b \in WrittenBuffers(s, args) : TRUE
       IN  Copy(b.block, IF objects[b.block.oid].mode = "Transient" THEN 0
                         ELSE Received(b).ver + 1)

AfterKernel(args) == [s \in Slots |-> ContentsAfter(s, args)]

Execute(op) ==
  CASE op.kind = "read" ->
         /\ stage' = [stage EXCEPT ![op.slot] = dev[op.slot]]
         /\ UNCHANGED <<memory, dev, log>>
    [] op.kind = "write" ->
         /\ dev' = [dev EXCEPT ![op.slot] = stage[op.slot]]
         /\ UNCHANGED <<memory, stage, log>>
    [] op.kind = "load" ->
         /\ stage' = [stage EXCEPT ![op.slot] =
                        Copy(op.block, memory[op.block.oid][op.block.bid])]
         /\ UNCHANGED <<memory, dev, log>>
    [] op.kind = "back" ->
         /\ memory' = [memory EXCEPT ![op.block.oid][op.block.bid] =
                         VersionIn(stage[op.slot], op.block)]
         /\ UNCHANGED <<stage, dev, log>>
    [] op.kind = "kernel" ->
         /\ dev' = AfterKernel(op.args)
         /\ log' = Append(log, [j \in DOMAIN op.args |-> Received(op.args[j])])
         /\ UNCHANGED <<memory, stage>>
    [] op.kind = "barrier" -> UNCHANGED dataVars

DeviceStep(q) ==
  /\ commands[q] # <<>> /\ Ready(Head(commands[q]))
  /\ Execute(Head(commands[q]))
  /\ commands' = [commands EXCEPT ![q] = Tail(@)]
  /\ UNCHANGED <<cacheVars, hostVars, io, next_event>>

IOThreadStep(q) ==
  /\ io[q] # <<>> /\ Ready(Head(io[q]))
  /\ Execute(Head(io[q]))
  /\ io' = [io EXCEPT ![q] = Tail(@)]
  /\ UNCHANGED <<cacheVars, hostVars, commands, next_event>>

-----------------------------------------------------------------------------
SchedulerInit ==
  /\ program \in Programs
  /\ device = "gpu" /\ objects = program.objects /\ CacheEmpty
  /\ run_queue = <<>> /\ pc = "idle" /\ run_ret = 1 /\ run = NotRunning
  /\ commands = [q \in Queues |-> <<>>] /\ io = [q \in Queues |-> <<>>]
  /\ next_event = 1
  /\ memory = [o \in DOMAIN objects |-> [off \in 0 .. objects[o].size - 1 |-> 0]]
  /\ stage = [s \in Slots |-> Garbage] /\ dev = [s \in Slots |-> Garbage]
  /\ log = <<>>

HostStep ==
  \/ StartBatch \/ RegisterOk \/ RegisterFails
  \/ ActivateAgain \/ ActivateHit \/ ActivateMiss \/ ActivateFails
  \/ RunFunction \/ Deactivate \/ Finish
  \/ ClientRead \/ ClientEnds

Done == pc = "end" /\ UNCHANGED vars

SchedulerNext ==
  \/ HostStep
  \/ \E q \in Queues : DeviceStep(q) \/ IOThreadStep(q)
  \/ Done

\* The client's thread and the I/O threads are scheduled; the device executes
\* what is enqueued.
Fairness ==
  /\ WF_vars(HostStep)
  /\ \A q \in Queues : WF_vars(DeviceStep(q)) /\ WF_vars(IOThreadStep(q))

SchedulerSpec == SchedulerInit /\ [][SchedulerNext]_vars /\ Fairness

-----------------------------------------------------------------------------
(***************************************************************************)
(* Properties                                                              *)
(***************************************************************************)
Events == 1 .. next_event + 4
Contents == [oid : Nat, bid : Nat, ver : Int]
Phases == {"idle", "register", "activate", "run", "deactivate", "drain",
           "finish", "end"}

\* Who works on what is left behind: the device on the commands of a queue, the
\* I/O thread of a queue on its tasks.
Workers == Queues \X {"device", "io"}
Backlog(w) == IF w[2] = "device" THEN commands[w[1]] ELSE io[w[1]]

EventsDistinct ==
  \A v, w \in Workers : \A i \in DOMAIN Backlog(v) : \A j \in DOMAIN Backlog(w) :
     Backlog(v)[i].ev = Backlog(w)[j].ev => v = w /\ i = j

\* The variables of run and of the queues have the shapes of their
\* declarations, and everything in a queue has an event of its own.
SchedulerTypeOK ==
  /\ TypeOK
  /\ pc \in Phases /\ run_ret \in {-1, 1}
  /\ run.trans_event \in Events \cup {NoEvent}
  /\ run.wait_list \subseteq Events \cup {NoEvent}
  /\ Len(run.active) <= NumQueues
  /\ EventsDistinct
  /\ stage \in [Slots -> Contents] /\ dev \in [Slots -> Contents]

\* The memory an operation reads, and the memory it writes.  All kernels
\* write the buffers of results they share.
Buffers(op, modes) ==
  {<<"dev", b.slot>> : b \in {a \in Range(op.args) :
                                objects[a.block.oid].mode \in modes}}

Reads(op) ==
  CASE op.kind \in {"read"} -> {<<"dev", op.slot>>}
    [] op.kind \in {"write", "back"} -> {<<"stage", op.slot>>}
    [] op.kind = "load" -> {<<"host", op.block.oid, op.block.bid>>}
    [] op.kind = "kernel" -> Buffers(op, ObjectMode)
    [] op.kind = "barrier" -> {}

Writes(op) ==
  CASE op.kind \in {"read", "load"} -> {<<"stage", op.slot>>}
    [] op.kind = "write" -> {<<"dev", op.slot>>}
    [] op.kind = "back" -> {<<"host", op.block.oid, op.block.bid>>}
    [] op.kind = "kernel" ->
         Buffers(op, ObjectMode \ {"ReadOnly"}) \cup {<<"result">>}
    [] op.kind = "barrier" -> {}

Conflict(a, b) ==
  \/ Writes(a) \cap (Reads(b) \cup Writes(b)) # {}
  \/ Writes(b) \cap Reads(a) # {}

Running ==
  {op \in {Head(Backlog(w)) : w \in {v \in Workers : Backlog(v) # <<>>}} : Ready(op)}

\* No two operations that may run at the same time, commands of two queues,
\* tasks of two I/O threads or kernels, touch the same memory: the events that
\* run and the cache chain them by leave no race.
NoRace == \A a, b \in Running : a.ev # b.ev => ~Conflict(a, b)

SlotsOf(op) ==
  IF op.kind = "kernel" THEN {b.slot : b \in Range(op.args)} ELSE {op.slot}

\* Everything run leaves in queue q, and in the I/O thread of q, works on
\* slots of parity q.  Nothing in run says so, yet it is what orders a kernel
\* before the transfer that replaces its buffer, which waits for no kernel.
QueueOwnsSlots ==
  \A q \in 0 .. NumQueues - 1 :
     \A op \in InQueues(q) : \A s \in SlotsOf(op) : s % DoubleBuffering = q

\* After run returns 1 nothing is locked or outstanding in its queues: what
\* it got it gave back.
SuccessLeavesNoLock ==
  pc = "idle" /\ run_ret = 1 =>
     /\ run_queue = <<>>
     /\ \A s \in Slots : Free(s)
     /\ \A q \in 0 .. NumQueues - 1 : InQueues(q) = {}

\* No operation is given an empty event to wait for: "activate_event is empty
\* when buffer is in cache; in that case, don't modify the wait list".
NoEmptyWait ==
  \A q \in Queues : \A op \in InQueues(q) : NoEvent \notin op.waits

\* The latest version of a block, wherever it is.
Latest(oid, off) ==
  LET here(c) == VersionIn(c, [oid |-> oid, bid |-> off])
  IN  Max({memory[oid][off]} \cup {here(stage[s]) : s \in Slots}
                            \cup {here(dev[s]) : s \in Slots})

\* When the client has read its blocks back after the last run, its memory
\* holds what the kernels computed, for all mutable objects.
HostCurrentAtEnd ==
  pc = "end" /\ run_ret = 1 =>
    \A o \in DOMAIN objects :
       objects[o].mode = "ReadWrite" =>
         \A off \in DOMAIN memory[o] : memory[o][off] = Latest(o, off)

\* What the documentation of the scheduler promises of run.
Map == INSTANCE ZipMap WITH
  objs <- objects,
  version <- [o \in DOMAIN objects |-> [off \in DOMAIN memory[o] |-> Latest(o, off)]],
  batch <- IF pc \in {"idle", "end"} THEN <<>> ELSE run_queue,
  log <- log

\* run applies every function to every block once, in order, each to the
\* result of the one before.
AppliesEachOnce == Map!ZipSpec

\* The client, run and both sides of every event come to an end: nothing
\* waits for an event that cannot complete.
ClientFinishes == <>(pc = "end")

\* "Locking prevents eviction of buffer at location of pointer on device.
\* Necessary during kernel execution."
KernelSlotsLocked ==
  \A op \in Running : op.kind = "kernel" => \A s \in SlotsOf(op) : ~Free(s)

\* A function is passed the buffers of its object: every kernel that runs
\* finds the block it was enqueued for.
KernelSeesItsBlock ==
  \A k \in DOMAIN log : \A j \in DOMAIN log[k] : log[k][j].ver >= 0
=============================================================================
