----------------------- MODULE DeviceSchedulerProofs -----------------------
(***************************************************************************)
(* SingleDeviceScheduler::run over the cache, for every pool, every number *)
(* of objects, blocks and functions, and every interleaving of the client, *)
(* the queues and the I/O threads.                                         *)
(***************************************************************************)
EXTENDS DeviceScheduler, BufferCacheProofs, SequenceTheorems

\* A buffer that run has activated: active_rstate keeps one of every object.
Buffer == [slot : Slots, block : [oid : Nat \ {0}, bid : Nat, len : Nat]]

BufferList == Seq(Buffer)
BufferLists == Seq(BufferList \ {<<>>})

\* The fields of run.  The sets have names for the provers, which do not look
\* into them when a field of run changes.
Count == Nat
FunIndex == Nat \ {0}
ArgIndex == 1 .. 2
WaitList == SUBSET Nat
RunState ==
  [index : Count, fun : FunIndex, arg : ArgIndex, fst_event : Count,
   activate_event : Count, trans_event : Count, wait_list : WaitList,
   activating : BufferList, active : BufferLists]

HostTypes ==
  /\ program \in [objects : Seq([size : Nat \ {0}, mode : ObjectMode]),
                  batches : Seq(Batch), reads : Seq(Block)]
  /\ run_queue \in Seq(Runnable)
  /\ pc \in Phases
  /\ run \in RunState
  /\ next_event \in Nat

\* Where run is, it has a function and an object to go on with, or a buffer
\* to give back.
Position ==
  /\ pc \in {"idle", "register", "end"} => run = NotRunning
  /\ pc = "register" => run_queue # <<>>
  /\ pc \in {"activate", "run", "deactivate"} => run.fun \in 1 .. Len(run_queue)
  /\ pc = "activate" => run.arg \in 1 .. Len(ThisFun.objs)
  /\ pc = "activate" /\ (run.fun # 1 \/ run.arg # 1) => run.activating # <<>>
  /\ pc = "run" => run.activating # <<>>
  /\ pc = "deactivate" => run.fun = 1 /\ run.arg = 1
  /\ pc \in {"deactivate", "drain"} => run.active # <<>>

HInv == IInv /\ HostTypes /\ Position

-----------------------------------------------------------------------------
\* What is in a sequence is of its type.
LEMMA ElementOf ==
  ASSUME NEW S, NEW s \in Seq(S), NEW i \in 1 .. Len(s)
  PROVE  s[i] \in S
OBVIOUS

\* Every function has a first object.
LEMMA RunnableHasObject ==
  ASSUME NEW f \in Runnable
  PROVE  1 \in 1 .. Len(f.objs)
BY DEF Runnable

\* The types of the locals of run, field by field.
LEMMA RunFields ==
  ASSUME HInv
  PROVE  /\ run.index \in Nat /\ run.fun \in Nat \ {0} /\ run.arg \in 1 .. 2
         /\ run.fst_event \in Nat /\ run.activate_event \in Nat
         /\ run.trans_event \in Nat /\ run.wait_list \in SUBSET Nat
         /\ run.activating \in BufferList /\ run.active \in BufferLists
BY DEF HInv, HostTypes, RunState, Count, FunIndex, ArgIndex, WaitList

\* The block get is asked for.
LEMMA ThisBlockType ==
  ASSUME HInv, pc = "activate"
  PROVE  /\ ThisFun \in Runnable
         /\ ThisBlock.oid \in Nat \ {0}
         /\ ThisBlock.bid \in Nat
         /\ ThisBlock.bid = run.index * ThisFun.steps[run.arg]
         /\ ThisBlock.oid = ThisFun.objs[run.arg]
         /\ ThisBlock = [oid |-> ThisBlock.oid, bid |-> ThisBlock.bid, len |-> ThisBlock.len]
<1>1. ThisFun \in Runnable /\ run.arg \in 1 .. Len(ThisFun.objs)
  BY DEF HInv, HostTypes, Position, ThisFun
<1>2. ThisFun.objs[run.arg] \in Nat \ {0} /\ ThisFun.steps[run.arg] \in Nat \ {0}
  BY <1>1 DEF Runnable
<1>3. run.index \in Nat
  BY RunFields
<1>4. run.index * ThisFun.steps[run.arg] \in Nat
  BY <1>2, <1>3
<1>5. QED
  BY <1>1, <1>2, <1>4 DEF ThisBlock, BlockAt

\* A block that the cache accepts has a length.
LEMMA ThisBlockLength ==
  ASSUME HInv, pc = "activate",
         Accepted(ThisBlock.oid, ThisBlock.bid, ThisBlock.len)
  PROVE  ThisBlock.len \in Nat
<1> DEFINE o == ThisBlock.oid
           off == run.index * ThisFun.steps[run.arg]
           step == ThisFun.steps[run.arg]
<1>1. o \in Oids /\ ThisBlock.bid < objects[o].size
  BY DEF Accepted, ValidPtr
<1>2. objects[o].size \in Nat
  <2>1. objects \in Seq([size : Nat, mode : ObjectMode])
    BY DEF HInv, IInv, TypeOK
  <2>2. ASSUME NEW p \in 1 .. Len(objects)
        PROVE  objects[p] \in [size : Nat, mode : ObjectMode]
    BY <2>1, ElementOf
  <2>3. QED
    BY <1>1, <2>2 DEF Oids
<1>3. step \in Nat /\ off \in Nat
  <2>1. ThisFun \in Runnable /\ run.arg \in 1 .. Len(ThisFun.objs)
    BY ThisBlockType DEF HInv, Position
  <2>2. step \in Nat
    BY <2>1 DEF Runnable
  <2>3. off \in Nat
    BY ThisBlockType
  <2>4. QED
    BY <2>2, <2>3
<1>4. ThisBlock.len = IF off + step < objects[o].size THEN step ELSE objects[o].size - off
  BY ThisBlockType DEF ThisBlock, BlockAt
<1>5. off < objects[o].size
  BY <1>1, ThisBlockType
<1>6. QED
  BY <1>2, <1>3, <1>4, <1>5

\* A get of run is a get of the cache.
LEMMA ActivateCases ==
  ASSUME HInv, ActivateHit \/ ActivateMiss \/ ActivateFails
  PROVE  StepCase /\ OtherTypes
<1> DEFINE oid == ThisBlock.oid
           bid == ThisBlock.bid
           len == ThisBlock.len
<1>0. /\ pc = "activate" /\ oid \in Nat /\ bid \in Nat
      /\ device \in {"none", "cpu", "gpu"}
      /\ objects \in Seq([size : Nat, mode : ObjectMode])
  BY ThisBlockType DEF HInv, IInv, TypeOK, ActivateHit, ActivateMiss, ActivateFails
<1>1. CASE ActivateHit
  <2>1. PICK s \in Slots : GetHit(s, oid, bid, len)
    BY <1>1 DEF ActivateHit
  <2>2. len \in Nat
    BY <1>0, <2>1, ThisBlockLength DEF GetHit
  <2>3. ret' = 1 /\ UNCHANGED <<device, objects>>
    BY <2>1 DEF GetHit, HandOut
  <2>4. QED
    BY <1>0, <2>1, <2>2, <2>3 DEF StepCase, OtherTypes
<1>2. CASE ActivateMiss
  <2>1. PICK s \in Slots : NewFill(s, oid, bid, len)
    BY <1>2 DEF ActivateMiss, NewFill
  <2>2. len \in Nat
    BY <1>0, <2>1, ThisBlockLength DEF NewFill, Fill
  <2>3. ret' = 1 /\ UNCHANGED <<device, objects>>
    BY <2>1 DEF NewFill, Fill, HandOut
  <2>4. QED
    BY <1>0, <2>1, <2>2, <2>3 DEF StepCase, OtherTypes
<1>3. CASE ActivateFails
  <2>1. Get(oid, bid, len)
    BY <1>3 DEF ActivateFails
  <2>2. CASE Accepted(oid, bid, len)
    <3>1. len \in Nat
      BY <1>0, <2>2, ThisBlockLength
    <3>2. QED
      BY <1>0, <2>1, <3>1, GetCases DEF HInv, StepCase
  <2>3. CASE ~Accepted(oid, bid, len)
    <3>1. Return(-1) \/ Return(0)
      BY <2>1, <2>3 DEF Get, GetHit, GetLocked, Refused
    <3>2. QED
      BY <1>0, <3>1 DEF Return, StepCase, SlotsUnchanged, OtherTypes
  <2>4. QED
    BY <2>2, <2>3
<1>4. QED
  BY <1>1, <1>2, <1>3

\* While run deactivates it has a buffer to give back.
LEMMA NextBufferType ==
  ASSUME HInv, pc \in {"deactivate", "drain"}
  PROVE  NextBuffer \in Buffer
<1>1. run.active \in BufferLists /\ run.active # <<>>
  BY RunFields DEF Position, HInv
<1>2. Head(run.active) \in BufferList \ {<<>>}
  BY <1>1 DEF BufferLists
<1>3. QED
  BY <1>2 DEF NextBuffer, BufferList

\* What the scheduler does to the cache is what some client does.
LEMMA SchedulerCacheCases ==
  ASSUME HInv, [SchedulerNext]_vars
  PROVE  StepCase /\ OtherTypes
<1>0. /\ device \in {"none", "cpu", "gpu"} /\ ret \in {-1, 0, 1}
      /\ objects \in Seq([size : Nat, mode : ObjectMode])
  BY DEF HInv, IInv, TypeOK
<1>1. CASE UNCHANGED cacheVars
  BY <1>0, <1>1 DEF cacheVars, StepCase, SlotsUnchanged, OtherTypes
<1>2. CASE ActivateHit \/ ActivateMiss \/ ActivateFails
  BY <1>2, ActivateCases
<1>3. CASE Deactivate
  <2>1. NextBuffer.slot \in Slots /\ Unlock(NextBuffer.slot)
    BY <1>3, NextBufferType DEF Deactivate, DeactivateBuffer, Buffer
  <2>2. QED
    BY <2>1, UnlockCases DEF HInv, StepCase
<1>4. CASE ClientRead
  <2>1. \E r \in {-1, 1} : Return(r)
    BY <1>4 DEF ClientRead, ReadBack, ReadNothing
  <2>2. QED
    BY <1>0, <2>1 DEF Return, StepCase, SlotsUnchanged, OtherTypes
<1>5. QED
  <2>1. ASSUME SchedulerNext
        PROVE  \/ UNCHANGED cacheVars
               \/ ActivateHit \/ ActivateMiss \/ ActivateFails \/ Deactivate \/ ClientRead
    BY <2>1 DEF SchedulerNext, HostStep, StartBatch, RegisterOk, RegisterFails,
         ActivateAgain, RunFunction, Finish, ClientEnds, DeviceStep, IOThreadStep,
         Done, vars
  <2>2. ASSUME UNCHANGED vars PROVE UNCHANGED cacheVars
    BY <2>2 DEF vars
  <2>3. QED
    BY <1>1, <1>2, <1>3, <1>4, <2>1, <2>2

\* Such a step keeps the invariant of the cache.
LEMMA StepCaseKeepsInv ==
  ASSUME IInv, StepCase, OtherTypes
  PROVE  IInv'
<1>1. CASE SlotsUnchanged
  BY <1>1, UnchangedKeepsInv
<1>2. CASE \E s \in Slots, oid \in Nat, off \in Nat, len \in Nat :
             GetHit(s, oid, off, len)
  BY <1>2, HitKeepsInv
<1>3. CASE \E s \in Slots, oid \in Nat, off \in Nat, len \in Nat :
             NewFill(s, oid, off, len)
  BY <1>3, FillKeepsInv
<1>4. CASE \E h, s \in Slots : UnlockFound(h, s)
  <2>1. PICK h \in Slots, s \in Slots : UnlockFound(h, s)
    BY <1>4
  <2>2. s = h
    BY <2>1, UnlockFindsGranted
  <2>3. QED
    BY <2>1, <2>2, ReleaseKeepsInv
<1>5. QED
  BY <1>1, <1>2, <1>3, <1>4 DEF StepCase

-----------------------------------------------------------------------------
\* Going on to the next object, function or phase keeps counters in range.
LEMMA ObjectDoneTypes ==
  ASSUME HInv, pc = "activate", NEW fst \in Nat, NEW act \in Nat,
         NEW bufs \in BufferList, bufs # <<>>,
         ObjectDone(fst, act, bufs), next_event' \in Nat
  PROVE  HostTypes' /\ Position'
<1> DEFINE lastArg == run.arg = Len(ThisFun.objs)
           lastFun == run.fun = Len(run_queue)
           waits == IF act = NoEvent THEN run.wait_list ELSE {act}
<1>1. /\ run \in RunState /\ run_queue \in Seq(Runnable)
      /\ run.fun \in 1 .. Len(run_queue) /\ run.arg \in 1 .. Len(ThisFun.objs)
      /\ ThisFun \in Runnable
  BY ThisBlockType DEF HInv, HostTypes, Position
<1>2. /\ program' = program /\ run_queue' = run_queue
      /\ Len(ThisFun.objs) \in 1 .. 2
  BY <1>1 DEF ObjectDone, Runnable
<1>3. CASE ~lastArg
  <2>1. /\ run' = [run EXCEPT !.arg = 2, !.fst_event = fst, !.activating = bufs]
        /\ pc' = "activate"
    BY <1>3 DEF ObjectDone
  <2>2. run' \in RunState
    <3>1. 2 \in ArgIndex /\ fst \in Count
      BY DEF ArgIndex, Count
    <3>2. QED
      BY <1>1, <2>1, <3>1 DEF RunState
  <2>3. run'.arg = 2 /\ run'.fun = run.fun /\ run'.activating = bufs
    BY <1>1, <2>1 DEF RunState
  <2>4. ThisFun' = ThisFun /\ 2 \in 1 .. Len(ThisFun.objs)
    BY <1>1, <1>2, <1>3, <2>3 DEF ThisFun
  <2>5. HostTypes'
    BY <1>2, <2>1, <2>2 DEF HInv, HostTypes, Phases
  <2>6. Position'
    BY <1>1, <1>2, <2>1, <2>3, <2>4 DEF Position
  <2>7. QED
    BY <2>5, <2>6
<1>4. CASE lastArg
  <2>0. waits \in WaitList /\ KernelWaits(waits) \in WaitList
    BY RunFields DEF KernelWaits, WaitList
  <2>1. /\ run' = [run EXCEPT !.arg = 1, !.fst_event = NoEvent,
                      !.activate_event = act, !.activating = bufs,
                      !.fun = IF lastFun THEN 1 ELSE run.fun + 1,
                      !.wait_list = IF lastFun THEN KernelWaits(waits) ELSE waits]
        /\ pc' = IF lastFun THEN "run" ELSE "activate"
    BY <1>4 DEF ObjectDone
  <2>2. run' \in RunState
    <3>1. /\ 1 \in ArgIndex /\ NoEvent \in Count /\ act \in Count
          /\ (IF lastFun THEN 1 ELSE run.fun + 1) \in FunIndex
          /\ (IF lastFun THEN KernelWaits(waits) ELSE waits) \in WaitList
      BY <1>1, <2>0 DEF ArgIndex, Count, FunIndex, NoEvent
    <3>2. QED
      BY <1>1, <2>1, <3>1 DEF RunState
  <2>3. /\ run'.arg = 1 /\ run'.activating = bufs
        /\ run'.fun = IF lastFun THEN 1 ELSE run.fun + 1
    BY <1>1, <2>1 DEF RunState
  <2>4. run'.fun \in 1 .. Len(run_queue)
    BY <1>1, <2>3
  <2>5. ThisFun' \in Runnable
    BY <1>1, <1>2, <2>4 DEF ThisFun
  <2>6. 1 \in 1 .. Len(ThisFun'.objs)
    BY <2>5, RunnableHasObject
  <2>7. HostTypes'
    BY <1>2, <2>1, <2>2 DEF HInv, HostTypes, Phases
  <2>8. Position'
    BY <1>2, <2>1, <2>3, <2>4, <2>6 DEF Position
  <2>9. QED
    BY <2>7, <2>8
<1>5. QED
  BY <1>3, <1>4

\* The buffer that get returned is one that run may keep.
LEMMA GotBufferTypes ==
  ASSUME HInv, pc = "activate", NEW s \in Slots, NEW ev \in Nat,
         Accepted(ThisBlock.oid, ThisBlock.bid, ThisBlock.len),
         GotBuffer(s, ev), next_event' \in Nat
  PROVE  HostTypes' /\ Position'
<1> DEFINE bufs == Append(run.activating, [slot |-> s, block |-> ThisBlock])
<1>1. [slot |-> s, block |-> ThisBlock] \in Buffer
  BY ThisBlockType, ThisBlockLength DEF Buffer
<1>2. run.activating \in BufferList /\ run.activate_event \in Nat
  BY RunFields
<1>3. bufs \in BufferList /\ bufs # <<>>
  BY <1>1, <1>2 DEF BufferList
<1>4. CASE run.arg < Len(ThisFun.objs)
  BY <1>2, <1>3, <1>4, ObjectDoneTypes DEF GotBuffer
<1>5. CASE ~(run.arg < Len(ThisFun.objs))
  BY <1>2, <1>3, <1>5, ObjectDoneTypes DEF GotBuffer, NoEvent
<1>6. QED
  BY <1>4, <1>5

\* Activation, hit or miss, keeps the types and the position of run.
LEMMA ActivateTypes ==
  ASSUME HInv, ActivateAgain \/ ActivateHit \/ ActivateMiss
  PROVE  HostTypes' /\ Position'
<1>0. /\ pc = "activate" /\ next_event \in Nat
      /\ run.activating \in BufferList /\ run.activate_event \in Nat
      /\ run.fst_event \in Nat
  BY RunFields DEF HInv, HostTypes, ActivateAgain, ActivateHit, ActivateMiss
<1>1. CASE ActivateAgain
  <2>1. run.activating # <<>>
    BY <1>1 DEF ActivateAgain, Activated, Range
  <2>2. next_event' = next_event
    BY <1>1 DEF ActivateAgain, queueVars
  <2>3. ObjectDone(run.fst_event, run.activate_event, run.activating)
    BY <1>1 DEF ActivateAgain
  <2>4. QED
    BY <1>0, <2>1, <2>2, <2>3, ObjectDoneTypes
<1>2. CASE ActivateHit
  <2>1. PICK s \in Slots : /\ GetHit(s, ThisBlock.oid, ThisBlock.bid, ThisBlock.len)
                           /\ GotBuffer(s, NoEvent)
    BY <1>2 DEF ActivateHit
  <2>2. next_event' = next_event
    BY <1>2 DEF ActivateHit, queueVars
  <2>3. Accepted(ThisBlock.oid, ThisBlock.bid, ThisBlock.len)
    BY <2>1 DEF GetHit
  <2>4. QED
    BY <1>0, <2>1, <2>2, <2>3, GotBufferTypes DEF NoEvent
<1>3. CASE ActivateMiss
  <2>1. PICK s \in Slots : /\ Fill(s, ThisBlock.oid, ThisBlock.bid, ThisBlock.len)
                           /\ Transfer(s, next_event)
    BY <1>3 DEF ActivateMiss
  <2>2. Accepted(ThisBlock.oid, ThisBlock.bid, ThisBlock.len)
    BY <2>1 DEF Fill
  <2>3. next_event' \in Nat
    <3>1. next_event' = next_event \/ next_event' = next_event + 5
      BY <2>1 DEF Transfer, Enqueue, queueVars
    <3>2. QED
      BY <1>0, <3>1
  <2>4. PICK ev \in Nat : GotBuffer(s, ev)
    BY <1>0, <2>1 DEF Transfer, NoEvent
  <2>5. QED
    BY <1>0, <2>2, <2>3, <2>4, GotBufferTypes
<1>4. QED
  BY <1>1, <1>2, <1>3

\* The variables of run at its start and after its end.
LEMMA NotRunningType == NotRunning \in RunState
BY DEF NotRunning, RunState, NoEvent, Count, FunIndex, ArgIndex, WaitList,
       BufferList, BufferLists

\* So does enqueueing a kernel, the last of an index or not.
LEMMA RunFunctionTypes ==
  ASSUME HInv, RunFunction
  PROVE  HostTypes' /\ Position'
<1> DEFINE lastFun == run.fun = Len(run_queue)
           inFlight == Append(run.active, run.activating)
<1>1. /\ run \in RunState /\ run_queue \in Seq(Runnable) /\ next_event \in Nat
      /\ run.fun \in 1 .. Len(run_queue) /\ run.activating # <<>> /\ pc = "run"
  BY DEF HInv, HostTypes, Position, RunFunction
<1>2. /\ program' = program /\ run_queue' = run_queue /\ next_event' \in Nat
  BY <1>1 DEF RunFunction, Enqueue
<1>3. inFlight \in BufferLists /\ inFlight # <<>>
  <2>1. run.active \in BufferLists /\ run.activating \in BufferList \ {<<>>}
    BY <1>1, RunFields
  <2>2. QED
    BY <2>1 DEF BufferLists
<1>4. CASE ~lastFun
  <2>1. run' = [run EXCEPT !.fun = run.fun + 1, !.wait_list = {next_event}] /\ pc' = pc
    BY <1>4 DEF RunFunction
  <2>2. run' \in RunState /\ run'.fun = run.fun + 1 /\ run'.activating = run.activating
    <3>1. run.fun + 1 \in FunIndex /\ {next_event} \in WaitList
      BY <1>1 DEF FunIndex, WaitList
    <3>2. QED
      BY <1>1, <2>1, <3>1 DEF RunState
  <2>3. HostTypes'
    BY <1>2, <2>1, <2>2 DEF HInv, HostTypes
  <2>4. Position'
    BY <1>1, <1>2, <1>4, <2>1, <2>2 DEF Position
  <2>5. QED
    BY <2>3, <2>4
<1>5. CASE lastFun
  <2>1. /\ run' = [NotRunning EXCEPT !.index = run.index + 1,
                      !.trans_event = next_event, !.active = inFlight]
        /\ pc' \in {"drain", "deactivate", "activate"}
    <3>1. /\ run' = [NotRunning EXCEPT !.index = run.index + 1,
                       !.trans_event = next_event, !.active = inFlight]
          /\ LET lastIndex == run.index + 1 = NumBlocks(run_queue[1], 1)
             IN  pc' = CASE lastIndex -> "drain"
                         [] ~lastIndex /\ Len(inFlight) >= NumQueues -> "deactivate"
                         [] ~lastIndex /\ Len(inFlight) < NumQueues -> "activate"
      BY <1>5 DEF RunFunction
    <3>2. Len(inFlight) \in Nat
      BY <1>3 DEF BufferLists
    <3>3. QED
      BY <3>1, <3>2 DEF NumQueues
  <2>2. run' \in RunState
    <3>1. run.index + 1 \in Count /\ next_event \in Count
      BY <1>1, RunFields DEF Count
    <3>2. QED
      BY <1>3, <2>1, <3>1, NotRunningType DEF RunState
  <2>3. /\ run'.active = inFlight /\ run'.fun = 1 /\ run'.arg = 1
    BY <2>1 DEF NotRunning
  <2>4. HostTypes'
    BY <1>2, <2>1, <2>2 DEF HInv, HostTypes, Phases
  <2>5. ThisFun' \in Runnable /\ 1 \in 1 .. Len(ThisFun'.objs)
    <3>1. run_queue[1] \in Runnable
      BY <1>1, ElementOf
    <3>2. QED
      BY <1>2, <2>3, <3>1, RunnableHasObject DEF ThisFun
  <2>6. Position'
    BY <1>1, <1>2, <1>3, <2>1, <2>3, <2>5 DEF Position
  <2>7. QED
    BY <2>4, <2>6
<1>6. QED
  BY <1>4, <1>5

\* So does unlocking a buffer, whether unlock succeeds or fails.
LEMMA DeactivateTypes ==
  ASSUME HInv, Deactivate
  PROVE  HostTypes' /\ Position'
<1> DEFINE rest == Tail(Head(run.active))
           others == Tail(run.active)
           left == IF rest = <<>> THEN others ELSE <<rest>> \o others
<1>1. /\ run \in RunState /\ pc \in {"deactivate", "drain"}
      /\ run.active \in BufferLists /\ run.active # <<>>
      /\ next_event' = next_event /\ program' = program /\ run_queue' = run_queue
  BY RunFields DEF HInv, HostTypes, Position, Deactivate, queueVars, Fail
<1>2. others \in BufferLists /\ rest \in BufferList
  BY <1>1 DEF BufferLists, BufferList
<1>3. ASSUME rest # <<>>
      PROVE  <<rest>> \o others \in BufferLists /\ <<rest>> \o others # <<>>
  <2>1. <<rest>> \in BufferLists /\ <<rest>> # <<>>
    BY <1>2, <1>3 DEF BufferLists
  <2>2. QED
    BY <1>2, <2>1 DEF BufferLists
<1>4. CASE /\ run' = [run EXCEPT !.active = left]
           /\ pc' = CASE rest # <<>> -> pc
                      [] rest = <<>> /\ pc = "deactivate" -> "activate"
                      [] rest = <<>> /\ pc = "drain" ->
                           IF others = <<>> THEN "finish" ELSE "drain"
  <2>1. left \in BufferLists /\ (rest # <<>> => left # <<>>)
    BY <1>2, <1>3
  <2>2. /\ run' \in RunState /\ run'.active = left
        /\ run'.fun = run.fun /\ run'.arg = run.arg
    BY <1>1, <1>4, <2>1 DEF RunState
  <2>3. pc' \in {"deactivate", "drain", "activate", "finish"}
    BY <1>1, <1>4
  <2>4. HostTypes'
    BY <1>1, <2>2, <2>3 DEF HInv, HostTypes, Phases
  <2>5. pc' \in {"deactivate", "drain"} => run'.active # <<>>
    BY <1>1, <1>4, <2>1, <2>2
  <2>6. pc' \in {"deactivate", "activate"} =>
          run'.fun = 1 /\ run'.arg = 1 /\ run'.fun \in 1 .. Len(run_queue)
    BY <1>1, <1>4, <2>2 DEF HInv, Position
  <2>7. pc' = "activate" => run'.arg \in 1 .. Len(ThisFun'.objs)
    <3> SUFFICES ASSUME pc' = "activate" PROVE run'.arg \in 1 .. Len(ThisFun'.objs)
      OBVIOUS
    <3>1. run_queue[run'.fun] \in Runnable /\ run'.arg = 1
      BY <2>6, ElementOf DEF HInv, HostTypes
    <3>2. QED
      BY <1>1, <3>1, RunnableHasObject DEF ThisFun
  <2>8. Position'
    BY <1>1, <2>3, <2>5, <2>6, <2>7 DEF Position
  <2>9. QED
    BY <2>4, <2>8
<1>5. CASE Fail
  BY <1>1, <1>5, NotRunningType DEF HInv, HostTypes, Position, Fail, Phases
<1>6. QED
  BY <1>4, <1>5 DEF Deactivate

\* enqueue adds functions behind those that are there.
LEMMA StartBatchTypes ==
  ASSUME HInv, StartBatch
  PROVE  HostTypes' /\ Position'
<1> DEFINE Programme == [objects : Seq([size : Nat \ {0}, mode : ObjectMode]),
                         batches : Seq(Batch), reads : Seq(Block)]
<1>1. /\ program.batches \in Seq(Batch) /\ program.batches # <<>>
      /\ run_queue \in Seq(Runnable)
  BY DEF HInv, HostTypes, StartBatch
<1>2. Head(program.batches) \in Batch /\ Tail(program.batches) \in Seq(Batch)
  BY <1>1
<1>3. Head(program.batches) \in Seq(Runnable) /\ Head(program.batches) # <<>>
  BY <1>2 DEF Batch
<1>4. run_queue' \in Seq(Runnable) /\ run_queue' # <<>>
  BY <1>1, <1>3 DEF StartBatch
<1>5. program' = [program EXCEPT !.batches = Tail(program.batches)]
  BY DEF StartBatch
<1>6. program' \in Programme
  <2>1. ASSUME NEW O, NEW B, NEW R, NEW p \in [objects : O, batches : B, reads : R],
               NEW b \in B
        PROVE  [p EXCEPT !.batches = b] \in [objects : O, batches : B, reads : R]
    OBVIOUS
  <2>2. program \in Programme
    BY DEF HInv, HostTypes
  <2>3. QED
    BY <1>2, <1>5, <2>1, <2>2
<1>7. pc' = "register" /\ run' = run /\ next_event' = next_event
  BY DEF StartBatch, queueVars
<1>8. HostTypes'
  BY <1>4, <1>6, <1>7 DEF HInv, HostTypes, Phases
<1>9. run = NotRunning
  BY DEF HInv, Position, StartBatch
<1>10. Position'
  BY <1>4, <1>7, <1>9 DEF Position
<1>11. QED
  BY <1>8, <1>10

\* Reading back takes one block from the client's list.
LEMMA ClientReadTypes ==
  ASSUME HInv, ClientRead
  PROVE  HostTypes' /\ Position'
<1> DEFINE Programme == [objects : Seq([size : Nat \ {0}, mode : ObjectMode]),
                         batches : Seq(Batch), reads : Seq(Block)]
<1>1. program.reads \in Seq(Block) /\ program.reads # <<>>
  BY DEF HInv, HostTypes, ClientRead
<1>2. Tail(program.reads) \in Seq(Block)
  BY <1>1
<1>3. program' = [program EXCEPT !.reads = Tail(program.reads)]
  BY DEF ClientRead
<1>4. program' \in Programme
  <2>1. ASSUME NEW O, NEW B, NEW R, NEW p \in [objects : O, batches : B, reads : R],
               NEW r \in R
        PROVE  [p EXCEPT !.reads = r] \in [objects : O, batches : B, reads : R]
    OBVIOUS
  <2>2. program \in Programme
    BY DEF HInv, HostTypes
  <2>3. QED
    BY <1>2, <1>3, <2>1, <2>2
<1>5. /\ pc = "idle" /\ UNCHANGED <<run_queue, pc, run>>
      /\ next_event' = next_event \/ next_event' = next_event + 5
  BY DEF ClientRead, Enqueue, queueVars
<1>6. QED
  BY <1>4, <1>5 DEF HInv, HostTypes, Position

\* run finds that the blocks match, and begins with the first object of the
\* first function.
LEMMA RegisterTypes ==
  ASSUME HInv, RegisterOk
  PROVE  HostTypes' /\ Position'
<1>1. /\ UNCHANGED <<program, run_queue, run, next_event>>
      /\ pc' = "activate" /\ run = NotRunning /\ run_queue # <<>>
  BY DEF HInv, Position, RegisterOk, queueVars
<1>2. run'.fun = 1 /\ run'.arg = 1
  BY <1>1 DEF NotRunning
<1>3. 1 \in 1 .. Len(run_queue)
  BY <1>1 DEF HInv, HostTypes
<1>4. run_queue[1] \in Runnable
  BY <1>3, ElementOf DEF HInv, HostTypes
<1>5. 1 \in 1 .. Len(ThisFun'.objs)
  BY <1>1, <1>2, <1>4, RunnableHasObject DEF ThisFun
<1>6. HostTypes'
  BY <1>1 DEF HInv, HostTypes, Phases
<1>7. Position'
  BY <1>1, <1>2, <1>3, <1>5 DEF Position
<1>8. QED
  BY <1>6, <1>7

\* run returns, and the client stops, with the variables of run gone.
LEMMA ReturnTypes ==
  ASSUME HInv, RegisterFails \/ ActivateFails \/ Finish \/ ClientEnds
  PROVE  HostTypes' /\ Position'
<1>1. program' = program /\ next_event' = next_event
  BY DEF RegisterFails, ActivateFails, Finish, ClientEnds, Fail, queueVars
<1>2. run_queue' \in Seq(Runnable)
  <2>1. run_queue' = run_queue \/ run_queue' = <<>>
    BY DEF RegisterFails, ActivateFails, Finish, ClientEnds, Fail
  <2>2. run_queue \in Seq(Runnable) /\ <<>> \in Seq(Runnable)
    BY DEF HInv, HostTypes
  <2>3. QED
    BY <2>1, <2>2
<1>3. pc' \in {"idle", "end"} /\ run' = NotRunning
  BY DEF RegisterFails, ActivateFails, Finish, ClientEnds, Fail, HInv, Position
<1>4. QED
  BY <1>1, <1>2, <1>3, NotRunningType DEF HInv, HostTypes, Position, Phases

\* The queues and the I/O threads leave the client's thread alone.
LEMMA SchedulerTypes ==
  ASSUME HInv, [SchedulerNext]_vars
  PROVE  HostTypes' /\ Position'
<1>1. CASE UNCHANGED <<hostVars, next_event>>
  BY <1>1 DEF hostVars, HInv, HostTypes, Position, ThisFun
<1>2. CASE SchedulerNext
  <2>1. ASSUME NEW q \in Queues, DeviceStep(q) \/ IOThreadStep(q)
        PROVE  UNCHANGED <<hostVars, next_event>>
    BY <2>1 DEF DeviceStep, IOThreadStep
  <2>2. ASSUME Done
        PROVE  UNCHANGED <<hostVars, next_event>>
    BY <2>2 DEF Done, vars, queueVars
  <2>3. ASSUME HostStep
        PROVE  HostTypes' /\ Position'
    BY <2>3, StartBatchTypes, RegisterTypes, ReturnTypes, ActivateTypes,
       RunFunctionTypes, DeactivateTypes, ClientReadTypes DEF HostStep
  <2>4. QED
    BY <1>1, <1>2, <2>1, <2>2, <2>3 DEF SchedulerNext
<1>3. CASE UNCHANGED vars
  BY <1>1, <1>3 DEF vars, queueVars
<1>4. QED
  BY <1>2, <1>3

\* A scheduler that was just made satisfies the invariant.
LEMMA SchedulerInitInv == SchedulerInit => HInv
<1> SUFFICES ASSUME SchedulerInit PROVE HInv
  OBVIOUS
<1>1. /\ program \in [objects : Seq([size : Nat \ {0}, mode : ObjectMode]),
                      batches : Seq(Batch), reads : Seq(Block)]
      /\ objects = program.objects /\ device = "gpu" /\ CacheEmpty
  BY ProgramsAssumption DEF SchedulerInit
<1>2. objects \in Seq([size : Nat, mode : ObjectMode])
  <2> DEFINE A == [size : Nat \ {0}, mode : ObjectMode]
             B == [size : Nat, mode : ObjectMode]
  <2>1. objects \in Seq(A) /\ A \subseteq B
    BY <1>1
  <2> HIDE DEF A, B
  <2>2. objects \in Seq(B)
    BY <2>1, SeqMonotonic
  <2>3. QED
    BY <2>2 DEF B
<1>3. TypeOK
  BY <1>1, <1>2 DEF CacheEmpty, TypeOK, NoBlock, Unlocked, Block, SlotLock
<1>4. LockAccounting /\ OneHome /\ DescriptorGood /\ SlotsFilled
  BY <1>1 DEF CacheEmpty, LockAccounting, OneHome, DescriptorGood, SlotsFilled,
              Free, Held, NoBlock, Unlocked
<1>5. HostTypes /\ Position
  BY <1>1, NotRunningType DEF SchedulerInit, HostTypes, Position, Phases
<1>6. QED
  BY <1>3, <1>4, <1>5 DEF HInv, IInv

\* Every step keeps it: the cache part by the lemmas about calls, the rest by
\* those above.
LEMMA SchedulerNextInv == HInv /\ [SchedulerNext]_vars => HInv'
<1> SUFFICES ASSUME HInv, [SchedulerNext]_vars PROVE HInv'
  OBVIOUS
<1>1. IInv'
  BY SchedulerCacheCases, StepCaseKeepsInv DEF HInv
<1>2. QED
  BY <1>1, SchedulerTypes DEF HInv

\* In all behaviours, failures included, the cache below run is in order, the
\* locals of run have their types, and its counters point at a function, an
\* object or a buffer that is there.
THEOREM SchedulerInvariant == SchedulerSpec => []HInv
BY SchedulerInitInv, SchedulerNextInv, PTL DEF SchedulerSpec

\* However far run is ahead of the device, whatever fails: a slot is locked
\* exactly as often as run holds buffers in it, no block has two slots, and
\* unlock finds the slot each buffer was activated in.
THEOREM SchedulerLocks ==
  SchedulerSpec => [](LockAccounting /\ OneHome /\ DescriptorGood)
<1>1. HInv => LockAccounting /\ OneHome /\ DescriptorGood
  BY DEF HInv, IInv
<1>2. QED
  BY <1>1, SchedulerInvariant, PTL

-----------------------------------------------------------------------------
(***************************************************************************)
(* Double buffering, as long as no run fails                               *)
(***************************************************************************)
\* The slot of an object for index i, if nothing is left locked.
SlotAt(oid, i) == (oid - 1) * DoubleBuffering + (i % NumQueues)

\* The first use of an object: its step cuts the object into blocks.
IsFirst(k, j, oid) ==
  /\ k \in 1 .. Len(run_queue) /\ j \in 1 .. Len(run_queue[k].objs)
  /\ run_queue[k].objs[j] = oid
  /\ \A k2 \in 1 .. Len(run_queue) : \A j2 \in 1 .. Len(run_queue[k2].objs) :
       run_queue[k2].objs[j2] = oid => k < k2 \/ (k = k2 /\ j <= j2)

\* Block i of an object begins at bid.
BeginsAt(oid, i, bid) ==
  \E k \in 1 .. Len(run_queue) : \E j \in 1 .. 2 :
     IsFirst(k, j, oid) /\ bid = i * run_queue[k].steps[j]

\* Buffer b of index i is where it belongs, and locked.
InPlace(b, i) ==
  /\ b.slot = SlotAt(b.block.oid, i)
  /\ BeginsAt(b.block.oid, i, b.block.bid)
  /\ Holds(b.slot, b.block.oid, b.block.bid)
  /\ Held(b.slot)

AllInPlace(bufs, i) ==
  /\ \A m \in 1 .. Len(bufs) : InPlace(bufs[m], i)
  /\ \A m, n \in 1 .. Len(bufs) : bufs[m].block.oid = bufs[n].block.oid => m = n

Has(bufs, oid) == \E m \in 1 .. Len(bufs) : bufs[m].block.oid = oid

Complete(bufs) ==
  \A k \in 1 .. Len(run_queue) : \A j \in 1 .. Len(run_queue[k].objs) :
     Has(bufs, run_queue[k].objs[j])

\* A block is in one of the two slots of its object, the first block in the
\* first.
Homes ==
  \A s \in Slots : cached[s] # NoBlock =>
     /\ s \in {(cached[s].oid - 1) * DoubleBuffering,
               (cached[s].oid - 1) * DoubleBuffering + 1}
     /\ cached[s].bid = 0 => s = (cached[s].oid - 1) * DoubleBuffering

\* The indices in flight: one while run activates and runs the next.
Window ==
  /\ Len(run.active) <= run.index
  /\ pc \in {"activate", "run"} => Len(run.active) = IF run.index = 0 THEN 0 ELSE 1
  /\ pc = "deactivate" => Len(run.active) = 2
  /\ pc = "drain" => Len(run.active) \in 1 .. 2
  /\ pc = "finish" => Len(run.active) = 0
  /\ pc \notin {"activate", "run"} => run.activating = <<>>

\* The index the buffers of run.active[k] were activated for.
IndexOf(k) == run.index - Len(run.active) + k - 1

InFlightInPlace ==
  /\ AllInPlace(run.activating, run.index)
  /\ \A k \in 1 .. Len(run.active) : AllInPlace(run.active[k], IndexOf(k))

Before(k, j) == k < run.fun \/ (k = run.fun /\ j < run.arg)

Completed ==
  /\ pc = "activate" =>
       \A k \in 1 .. Len(run_queue) : \A j \in 1 .. Len(run_queue[k].objs) :
          Before(k, j) => Has(run.activating, run_queue[k].objs[j])
  /\ pc = "run" => Complete(run.activating)
  /\ pc \in {"activate", "run", "deactivate"} /\ run.active # <<>> =>
       Complete(run.active[Len(run.active)])

InFlight(s) ==
  \/ \E m \in 1 .. Len(run.activating) : run.activating[m].slot = s
  \/ \E k \in 1 .. Len(run.active) : \E m \in 1 .. Len(run.active[k]) :
        run.active[k][m].slot = s

OnlyInFlight == \A s \in Slots : users[s] <= 1 /\ (Held(s) => InFlight(s))

\* What the queues hold.
Transfers ==
  [kind : {"read", "write", "load", "back", "barrier"}, slot : Slots,
   block : Block, waits : SUBSET Nat, ev : Nat]
Kernels ==
  [kind : {"kernel"}, args : Seq(Buffer), waits : SUBSET Nat, ev : Nat]
Work == Transfers \cup Kernels
WorkOf(q) ==
  {op \in Work : q = ClientQueue \/ \A s \in SlotsOf(op) : s % DoubleBuffering = q}

\* Every task is awaited by a command.
Await(cmds, tasks) ==
  \A m \in 1 .. Len(tasks) : \E n \in 1 .. Len(cmds) : tasks[m].ev \in cmds[n].waits

TasksAwaited == \A q \in Queues : Await(commands[q], io[q])

QueueTypes ==
  /\ commands \in [Queues -> Seq(Work)] /\ io \in [Queues -> Seq(Work)]
  /\ \A q \in Queues : commands[q] \in Seq(WorkOf(q)) /\ io[q] \in Seq(WorkOf(q))

Quiet ==
  pc \in {"idle", "register", "end"} =>
     \A q \in 0 .. NumQueues - 1 : commands[q] = <<>>

NothingLeft == pc \in {"idle", "end"} => run_queue = <<>>

RInv ==
  /\ HInv /\ Homes /\ Window /\ InFlightInPlace /\ Completed /\ OnlyInFlight
  /\ QueueTypes /\ TasksAwaited /\ Quiet /\ NothingLeft

-----------------------------------------------------------------------------
\* Where the slots of two buffers in flight are.
LEMMA SlotFacts ==
  ASSUME NEW o \in Nat \ {0}, NEW p \in Nat \ {0}, NEW i \in Nat
  PROVE  /\ SlotAt(o, i) \in {(o - 1) * DoubleBuffering, (o - 1) * DoubleBuffering + 1}
         /\ SlotAt(o, i) = SlotAt(p, i) => o = p
         /\ SlotAt(o, i) # SlotAt(p, i + 1)
         /\ SlotAt(o, i) % DoubleBuffering = i % NumQueues
         /\ SlotAt(o, 0) = (o - 1) * DoubleBuffering
<1>1. i % 2 \in 0 .. 1 /\ (i + 1) % 2 = 1 - (i % 2)
  OBVIOUS
<1>2. (o - 1) * 2 + (i % 2) = (p - 1) * 2 + (i % 2) => o = p
  OBVIOUS
<1>3. (o - 1) * 2 + (i % 2) # (p - 1) * 2 + ((i + 1) % 2)
  BY <1>1
<1>4. ((o - 1) * 2 + (i % 2)) % 2 = i % 2
  BY <1>1
<1>5. 0 % 2 = 0
  OBVIOUS
<1>6. QED
  BY <1>1, <1>2, <1>3, <1>4, <1>5 DEF SlotAt, DoubleBuffering, NumQueues

\* Blocks of consecutive indices begin at different offsets.
LEMMA NextBlockElsewhere ==
  ASSUME HInv, NEW oid, NEW i \in Nat, NEW bid,
         BeginsAt(oid, i, bid), BeginsAt(oid, i + 1, bid)
  PROVE  FALSE
<1>1. PICK k \in 1 .. Len(run_queue), j \in 1 .. 2 :
           IsFirst(k, j, oid) /\ bid = i * run_queue[k].steps[j]
  BY DEF BeginsAt
<1>2. PICK l \in 1 .. Len(run_queue), n \in 1 .. 2 :
           IsFirst(l, n, oid) /\ bid = (i + 1) * run_queue[l].steps[n]
  BY DEF BeginsAt
<1>3. k = l /\ j = n
  BY <1>1, <1>2 DEF IsFirst, HInv, HostTypes
<1>4. run_queue[k] \in Runnable /\ j \in 1 .. Len(run_queue[k].objs)
  BY <1>1, ElementOf DEF HInv, HostTypes, IsFirst
<1>5. run_queue[k].steps[j] \in Nat \ {0}
  BY <1>4 DEF Runnable
<1>6. \A d \in Nat \ {0} : i * d # (i + 1) * d
  OBVIOUS
<1>7. QED
  BY <1>1, <1>2, <1>3, <1>5, <1>6

\* Only block 0 begins at 0.
LEMMA FirstBlockAtZero ==
  ASSUME HInv, NEW oid, NEW i \in Nat, BeginsAt(oid, i, 0)
  PROVE  i = 0
<1>1. PICK k \in 1 .. Len(run_queue), j \in 1 .. 2 :
           IsFirst(k, j, oid) /\ 0 = i * run_queue[k].steps[j]
  BY DEF BeginsAt
<1>2. run_queue[k] \in Runnable /\ j \in 1 .. Len(run_queue[k].objs)
  BY <1>1, ElementOf DEF HInv, HostTypes, IsFirst
<1>3. run_queue[k].steps[j] \in Nat \ {0}
  BY <1>2 DEF Runnable
<1>4. \A d \in Nat \ {0} : i * d = 0 => i = 0
  OBVIOUS
<1>5. QED
  BY <1>1, <1>3, <1>4

\* A buffer that is not activated yet is the first use of its object.
LEMMA FirstUse ==
  ASSUME RInv, pc = "activate", ~Activated(ThisBlock.oid)
  PROVE  BeginsAt(ThisBlock.oid, run.index, ThisBlock.bid)
<1> DEFINE k == run.fun
           j == run.arg
           oid == ThisBlock.oid
<1>1. /\ k \in 1 .. Len(run_queue) /\ j \in 1 .. Len(run_queue[k].objs)
      /\ run_queue[k] \in Runnable /\ oid = run_queue[k].objs[j]
      /\ ThisBlock.bid = run.index * run_queue[k].steps[j]
  BY ThisBlockType DEF RInv, HInv, Position, ThisFun
<1>2. ASSUME NEW k2 \in 1 .. Len(run_queue), NEW j2 \in 1 .. Len(run_queue[k2].objs),
             run_queue[k2].objs[j2] = oid, Before(k2, j2)
      PROVE  FALSE
  <2>1. Has(run.activating, oid)
    BY <1>2 DEF RInv, Completed
  <2>2. Activated(oid)
    BY <2>1, RunFields DEF RInv, Has, Activated, Range, BufferList
  <2>3. QED
    BY <2>2
<1>3. ASSUME NEW k2 \in 1 .. Len(run_queue), NEW j2 \in 1 .. Len(run_queue[k2].objs),
             run_queue[k2].objs[j2] = oid
      PROVE  k < k2 \/ (k = k2 /\ j <= j2)
  <2>1. run_queue[k2] \in Runnable
    BY ElementOf DEF RInv, HInv, HostTypes
  <2>2. Len(run_queue[k2].objs) \in 1 .. 2
    BY <2>1 DEF Runnable
  <2>3. QED
    BY <1>1, <1>2, <1>3, <2>2, RunFields DEF Before, RInv
<1>4. j \in 1 .. 2
  BY RunFields DEF RInv
<1>5. IsFirst(k, j, oid)
  BY <1>1, <1>3 DEF IsFirst
<1>6. QED
  BY <1>1, <1>4, <1>5 DEF BeginsAt

\* While run activates, what is in flight beside this index is the index
\* before it.
LEMMA InFlightWhileActivating ==
  ASSUME RInv, pc \in {"activate", "run"}, NEW s \in Slots, InFlight(s)
  PROVE  \/ \E m \in 1 .. Len(run.activating) : run.activating[m].slot = s
         \/ /\ run.index # 0 /\ 1 \in 1 .. Len(run.active)
            /\ AllInPlace(run.active[1], run.index - 1)
            /\ \E m \in 1 .. Len(run.active[1]) : run.active[1][m].slot = s
<1> SUFFICES ASSUME ~\E m \in 1 .. Len(run.activating) : run.activating[m].slot = s
             PROVE  /\ run.index # 0 /\ 1 \in 1 .. Len(run.active)
                    /\ AllInPlace(run.active[1], run.index - 1)
                    /\ \E m \in 1 .. Len(run.active[1]) : run.active[1][m].slot = s
  OBVIOUS
<1>1. PICK k \in 1 .. Len(run.active) :
             \E m \in 1 .. Len(run.active[k]) : run.active[k][m].slot = s
  BY DEF InFlight
<1>2. Len(run.active) = IF run.index = 0 THEN 0 ELSE 1
  BY DEF RInv, Window
<1>3. run.index # 0 /\ k = 1 /\ Len(run.active) = 1
  BY <1>1, <1>2
<1>4. IndexOf(1) = run.index - 1
  BY <1>3, RunFields DEF IndexOf, RInv
<1>5. AllInPlace(run.active[1], run.index - 1)
  BY <1>1, <1>3, <1>4 DEF RInv, InFlightInPlace
<1>6. QED
  BY <1>1, <1>3, <1>5

\* The slot of this index is not in use: the buffers of this index have other
\* objects, those of the index before it the other slots.
LEMMA SlotIsUnused ==
  ASSUME RInv, pc = "activate", ~Activated(ThisBlock.oid),
         SlotAt(ThisBlock.oid, run.index) \in Slots
  PROVE  /\ ~InFlight(SlotAt(ThisBlock.oid, run.index))
         /\ users[SlotAt(ThisBlock.oid, run.index)] = 0
<1> DEFINE oid == ThisBlock.oid
           s == SlotAt(oid, run.index)
<1>1. /\ oid \in Nat \ {0} /\ run.index \in Nat
      /\ run.activating \in Seq(Buffer) /\ run.active \in Seq(BufferList \ {<<>>})
  BY ThisBlockType, RunFields DEF RInv, BufferList, BufferLists
<1>2. ASSUME NEW m \in 1 .. Len(run.activating), run.activating[m].slot = s
      PROVE  FALSE
  <2>1. run.activating[m] \in Buffer /\ InPlace(run.activating[m], run.index)
    BY <1>1, ElementOf DEF RInv, InFlightInPlace, AllInPlace
  <2>2. run.activating[m].block.oid \in Nat \ {0}
    BY <2>1 DEF Buffer
  <2>3. run.activating[m].block.oid = oid
    <3>1. SlotAt(run.activating[m].block.oid, run.index) = SlotAt(oid, run.index)
      BY <1>2, <2>1 DEF InPlace
    <3>2. QED
      BY <1>1, <2>2, <3>1, SlotFacts
  <2>4. run.activating[m] \in Range(run.activating)
    BY <1>1 DEF Range
  <2>5. QED
    BY <2>3, <2>4 DEF Activated
<1>3. ASSUME run.index # 0, 1 \in 1 .. Len(run.active),
             AllInPlace(run.active[1], run.index - 1),
             NEW m \in 1 .. Len(run.active[1]), run.active[1][m].slot = s
      PROVE  FALSE
  <2>1. run.active[1] \in BufferList
    BY <1>1, <1>3, ElementOf
  <2>2. run.active[1][m] \in Buffer /\ InPlace(run.active[1][m], run.index - 1)
    BY <1>3, <2>1, ElementOf DEF AllInPlace, BufferList
  <2>3. run.active[1][m].block.oid \in Nat \ {0}
    BY <2>2 DEF Buffer
  <2>4. run.index - 1 \in Nat /\ run.index = (run.index - 1) + 1
    BY <1>1, <1>3
  <2>5. s # SlotAt(run.active[1][m].block.oid, run.index - 1)
    <3>1. SlotAt(run.active[1][m].block.oid, run.index - 1) # SlotAt(oid, (run.index - 1) + 1)
      BY <1>1, <2>3, <2>4, SlotFacts
    <3>2. QED
      BY <2>4, <3>1
  <2>6. QED
    BY <1>3, <2>2, <2>5 DEF InPlace
<1>4. ~InFlight(s)
  BY <1>2, <1>3, InFlightWhileActivating
<1>5. users[s] \in Nat
  BY DEF RInv, HInv, IInv, TypeOK
<1>6. QED
  BY <1>4, <1>5 DEF RInv, OnlyInFlight, Held

\* In the index before this one run activated the object too, in its other
\* slot.
LEMMA OtherSlotHeld ==
  ASSUME RInv, pc = "activate", ~Activated(ThisBlock.oid), run.index # 0
  PROVE  LET oid == ThisBlock.oid
             t == SlotAt(oid, run.index - 1)
         IN  /\ t \in Slots /\ Held(t) /\ ~Free(t)
             /\ cached[t].oid = oid
             /\ cached[t].bid # ThisBlock.bid
<1> DEFINE oid == ThisBlock.oid
           t == SlotAt(oid, run.index - 1)
           a == run.active[1]
<1>1. /\ run.index \in Nat /\ run.index - 1 \in Nat /\ run.index = (run.index - 1) + 1
      /\ run.active \in Seq(BufferList \ {<<>>}) /\ Len(run.active) = 1
  BY RunFields DEF RInv, Window, BufferLists
<1>2. a \in BufferList
  BY <1>1, ElementOf
<1>3. AllInPlace(a, run.index - 1)
  <2>1. IndexOf(1) = run.index - 1
    BY <1>1 DEF IndexOf
  <2>2. QED
    BY <1>1, <2>1 DEF RInv, InFlightInPlace
<1>4. Complete(a)
  BY <1>1 DEF RInv, Completed
<1>5. /\ run.fun \in 1 .. Len(run_queue)
      /\ run.arg \in 1 .. Len(run_queue[run.fun].objs)
      /\ run_queue[run.fun].objs[run.arg] = oid
  BY ThisBlockType DEF RInv, HInv, Position, ThisFun
<1>6. PICK m \in 1 .. Len(a) : a[m].block.oid = oid
  BY <1>4, <1>5 DEF Complete, Has
<1>7. a[m] \in Buffer /\ InPlace(a[m], run.index - 1)
  BY <1>2, <1>3, ElementOf DEF AllInPlace, BufferList
<1>8. t \in Slots /\ a[m].slot = t
  BY <1>6, <1>7 DEF InPlace, Buffer
<1>9. cached[t].oid = oid /\ cached[t].bid = a[m].block.bid /\ Held(t)
  BY <1>6, <1>7, <1>8 DEF InPlace, Holds
<1>10. ~Free(t)
  BY <1>8, <1>9 DEF RInv, HInv, IInv, LockAccounting, Held
<1>11. a[m].block.bid # ThisBlock.bid
  <2>1. BeginsAt(oid, run.index - 1, a[m].block.bid)
    BY <1>6, <1>7 DEF InPlace
  <2>2. BeginsAt(oid, (run.index - 1) + 1, ThisBlock.bid)
    BY <1>1, FirstUse
  <2>3. QED
    BY <1>1, <2>1, <2>2, NextBlockElsewhere DEF RInv
<1>12. QED
  BY <1>8, <1>9, <1>10, <1>11

\* get serves run from the slot of the index, whether it finds the block or
\* fills a slot.
LEMMA Landing ==
  ASSUME RInv, pc = "activate", ~Activated(ThisBlock.oid), NEW s \in Slots,
         \/ GetHit(s, ThisBlock.oid, ThisBlock.bid, ThisBlock.len)
         \/ NewFill(s, ThisBlock.oid, ThisBlock.bid, ThisBlock.len)
  PROVE  s = SlotAt(ThisBlock.oid, run.index)
<1> DEFINE oid == ThisBlock.oid
           base == (oid - 1) * DoubleBuffering
           here == SlotAt(oid, run.index)
           other == SlotAt(oid, run.index - 1)
<1>1. oid \in Nat \ {0} /\ run.index \in Nat /\ s \in Nat
  BY ThisBlockType, RunFields, CacheAssumption DEF RInv, Slots
<1>2. s \in {base, base + 1}
  <2>1. CASE GetHit(s, oid, ThisBlock.bid, ThisBlock.len)
    <3>1. cached[s].oid = oid /\ cached[s] # NoBlock
      BY <1>1, <2>1 DEF GetHit, FoundAt, Holds, NoBlock
    <3>2. QED
      BY <3>1 DEF RInv, Homes
  <2>2. CASE NewFill(s, oid, ThisBlock.bid, ThisBlock.len)
    BY <2>2 DEF NewFill, Fill, Assigned
  <2>3. QED
    BY <2>1, <2>2
<1>3. here \in {base, base + 1}
  BY <1>1, SlotFacts
<1>4. CASE run.index = 0
  <2>1. here = base
    BY <1>1, <1>4, SlotFacts
  <2>2. CASE GetHit(s, oid, ThisBlock.bid, ThisBlock.len)
    <3>1. cached[s].oid = oid /\ cached[s].bid = ThisBlock.bid /\ cached[s] # NoBlock
      BY <1>1, <2>2 DEF GetHit, FoundAt, Holds, NoBlock
    <3>2. ThisBlock.bid = 0
      <4>1. PICK d \in Nat : ThisBlock.bid = run.index * d
        <5>1. ThisFun \in Runnable /\ run.arg \in 1 .. Len(ThisFun.objs)
          BY ThisBlockType DEF RInv, HInv, Position
        <5>2. ThisFun.steps[run.arg] \in Nat
          BY <5>1 DEF Runnable
        <5>3. QED
          BY <5>2, ThisBlockType DEF RInv
      <4>2. QED
        BY <1>4, <4>1
    <3>3. QED
      BY <2>1, <3>1, <3>2 DEF RInv, Homes
  <2>3. CASE NewFill(s, oid, ThisBlock.bid, ThisBlock.len)
    <3>1. s = base \/ (s = base + 1 /\ ~Free(base))
      BY <2>3 DEF NewFill, Fill, Assigned
    <3>2. SUFFICES ASSUME s = base + 1, ~Free(base) PROVE FALSE
      BY <2>1, <3>1
    <3>3. base \in Slots
      BY <1>1, <3>2, CacheAssumption DEF Slots, DoubleBuffering
    <3>4. users[base] = 0
      BY <2>1, <3>3, SlotIsUnused
    <3>5. QED
      BY <3>2, <3>3, <3>4 DEF RInv, HInv, IInv, LockAccounting
  <2>4. QED
    BY <2>2, <2>3
<1>5. CASE run.index # 0
  <2>1. /\ other \in Slots /\ ~Free(other)
        /\ cached[other].oid = oid /\ cached[other].bid # ThisBlock.bid
    BY <1>5, OtherSlotHeld
  <2>2. s # other
    BY <2>1 DEF GetHit, FoundAt, Holds, NewFill, Fill, Assigned
  <2>3. run.index - 1 \in Nat /\ run.index = (run.index - 1) + 1
    BY <1>1, <1>5
  <2>4. other \in {base, base + 1} /\ other # here
    BY <1>1, <2>3, SlotFacts
  <2>5. QED
    BY <1>1, <1>2, <1>3, <2>2, <2>4 DEF DoubleBuffering
<1>6. QED
  BY <1>4, <1>5

-----------------------------------------------------------------------------
\* A buffer stays in place if its slot stays as it is.
LEMMA InPlaceStays ==
  ASSUME NEW b, NEW i, InPlace(b, i), run_queue' = run_queue,
         cached'[b.slot] = cached[b.slot], users'[b.slot] = users[b.slot]
  PROVE  InPlace(b, i)'
BY DEF InPlace, BeginsAt, IsFirst, Holds, Held

\* The buffers of an index stay in place while their slots are left alone.
LEMMA AllInPlaceStays ==
  ASSUME NEW bufs, NEW i, AllInPlace(bufs, i), run_queue' = run_queue,
         \A m \in 1 .. Len(bufs) : /\ cached'[bufs[m].slot] = cached[bufs[m].slot]
                                  /\ users'[bufs[m].slot] = users[bufs[m].slot]
  PROVE  AllInPlace(bufs, i)'
<1>1. ASSUME NEW m \in 1 .. Len(bufs)
      PROVE  InPlace(bufs[m], i)'
  BY InPlaceStays DEF AllInPlace
<1>2. QED
  BY <1>1 DEF AllInPlace

\* Which objects an index has depends on its buffers and functions only.
LEMMA CompleteStays ==
  ASSUME NEW bufs, Complete(bufs), run_queue' = run_queue
  PROVE  Complete(bufs)'
BY DEF Complete, Has

\* The function and object after this one.
LEMMA ObjectDoneMoves ==
  ASSUME HInv, pc = "activate", NEW fst, NEW act, NEW bufs, ObjectDone(fst, act, bufs)
  PROVE  /\ run'.index = run.index /\ run'.active = run.active
         /\ run'.activating = bufs /\ run_queue' = run_queue
         /\ pc' \in {"activate", "run"}
         /\ \A k \in 1 .. Len(run_queue) : \A j \in 1 .. Len(run_queue[k].objs) :
              pc' = "run" \/ Before(k, j)' =>
                Before(k, j) \/ (k = run.fun /\ j = run.arg)
<1>1. /\ run \in RunState /\ run_queue \in Seq(Runnable)
      /\ run.fun \in 1 .. Len(run_queue) /\ run.arg \in 1 .. Len(ThisFun.objs)
      /\ Len(ThisFun.objs) \in 1 .. 2
  BY ThisBlockType DEF HInv, HostTypes, Position, Runnable
<1>2. ASSUME NEW k \in 1 .. Len(run_queue), NEW j \in 1 .. Len(run_queue[k].objs)
      PROVE  j \in Nat /\ j > 0 /\ k \in Nat /\ (k = run.fun => j <= Len(ThisFun.objs))
  <2>1. run_queue[k] \in Runnable
    BY <1>1, ElementOf
  <2>2. Len(run_queue[k].objs) \in 1 .. 2
    BY <2>1 DEF Runnable
  <2>3. QED
    BY <1>1, <1>2, <2>2 DEF ThisFun
<1>3. CASE run.arg # Len(ThisFun.objs)
  <2>1. /\ run' = [run EXCEPT !.arg = 2, !.fst_event = fst, !.activating = bufs]
        /\ pc' = "activate" /\ run_queue' = run_queue
    BY <1>3 DEF ObjectDone
  <2>2. /\ run'.arg = 2 /\ run'.fun = run.fun /\ run'.index = run.index
        /\ run'.active = run.active /\ run'.activating = bufs
    BY <1>1, <2>1 DEF RunState
  <2>3. run.arg = 1
    <3>1. \A n \in 1 .. 2 : \A a \in 1 .. n : a # n => a = 1
      OBVIOUS
    <3>2. QED
      BY <1>1, <1>3, <3>1
  <2>4. QED
    BY <1>2, <2>1, <2>2, <2>3 DEF Before
<1>4. CASE run.arg = Len(ThisFun.objs)
  <2> DEFINE lastFun == run.fun = Len(run_queue)
             waits == IF act = NoEvent THEN run.wait_list ELSE {act}
  <2>1. /\ run' = [run EXCEPT !.arg = 1, !.fst_event = NoEvent,
                      !.activate_event = act, !.activating = bufs,
                      !.fun = IF lastFun THEN 1 ELSE run.fun + 1,
                      !.wait_list = IF lastFun THEN KernelWaits(waits) ELSE waits]
        /\ pc' = IF lastFun THEN "run" ELSE "activate"
        /\ run_queue' = run_queue
    BY <1>4 DEF ObjectDone
  <2>2. /\ run'.arg = 1 /\ run'.fun = IF lastFun THEN 1 ELSE run.fun + 1
        /\ run'.index = run.index
        /\ run'.active = run.active /\ run'.activating = bufs
    BY <1>1, <2>1 DEF RunState
  <2>3. ASSUME NEW k \in 1 .. Len(run_queue), NEW j \in 1 .. Len(run_queue[k].objs),
               pc' = "run" \/ Before(k, j)'
        PROVE  Before(k, j) \/ (k = run.fun /\ j = run.arg)
    <3>1. /\ j \in Nat /\ j > 0 /\ k \in Nat
          /\ k = run.fun => j <= run.arg
      BY <1>2, <1>4
    <3>2. CASE lastFun
      BY <1>1, <3>1, <3>2 DEF Before
    <3>3. CASE ~lastFun
      BY <1>1, <2>1, <2>2, <2>3, <3>1, <3>3 DEF Before
    <3>4. QED
      BY <3>2, <3>3
  <2>4. QED
    BY <2>1, <2>2, <2>3
<1>5. QED
  BY <1>3, <1>4

\* The buffers of the index are complete up to here.
LEMMA ObjectDoneCompletes ==
  ASSUME HInv, Window, Completed, pc = "activate",
         NEW fst, NEW act, NEW bufs, ObjectDone(fst, act, bufs),
         \A oid : Has(run.activating, oid) => Has(bufs, oid),
         Has(bufs, ThisBlock.oid)
  PROVE  Window' /\ Completed'
<1>1. /\ run'.index = run.index /\ run'.active = run.active
      /\ run'.activating = bufs /\ run_queue' = run_queue
      /\ pc' \in {"activate", "run"}
      /\ \A k \in 1 .. Len(run_queue) : \A j \in 1 .. Len(run_queue[k].objs) :
           pc' = "run" \/ Before(k, j)' =>
             Before(k, j) \/ (k = run.fun /\ j = run.arg)
  BY ObjectDoneMoves
<1>2. Window'
  BY <1>1 DEF Window
<1>3. ASSUME NEW k \in 1 .. Len(run_queue), NEW j \in 1 .. Len(run_queue[k].objs),
             pc' = "run" \/ Before(k, j)'
      PROVE  Has(bufs, run_queue[k].objs[j])
  <2>1. CASE Before(k, j)
    BY <2>1 DEF Completed
  <2>2. CASE k = run.fun /\ j = run.arg
    BY <2>2, ThisBlockType DEF ThisFun
  <2>3. QED
    BY <1>1, <1>3, <2>1, <2>2
<1>4. run.active # <<>> => Complete(run.active[Len(run.active)])
  BY DEF Completed
<1>5. ASSUME pc' = "activate",
             NEW k \in 1 .. Len(run_queue'), NEW j \in 1 .. Len(run_queue'[k].objs),
             Before(k, j)'
      PROVE  Has(run'.activating, run_queue'[k].objs[j])
  BY <1>1, <1>3, <1>5
<1>6. ASSUME pc' = "run"
      PROVE  Complete(run.activating)'
  BY <1>1, <1>3, <1>6 DEF Complete, Has
<1>7. ASSUME run'.active # <<>>, pc' \in {"activate", "run"}
      PROVE  Complete(run.active[Len(run.active)])'
  <2>1. PICK a : a = run.active[Len(run.active)]
    OBVIOUS
  <2>2. Complete(a)'
    BY <1>1, <1>4, <1>7, <2>1, CompleteStays
  <2>3. a = run'.active[Len(run'.active)]
    BY <1>1, <2>1
  <2>4. QED
    BY <2>2, <2>3
<1>8. Completed'
  BY <1>1, <1>5, <1>6, <1>7 DEF Completed, Has
<1>9. QED
  BY <1>2, <1>8

\* So they are when get has returned one more.
LEMMA GotBufferCompletes ==
  ASSUME HInv, Window, Completed, pc = "activate", NEW s \in Slots, NEW ev,
         Accepted(ThisBlock.oid, ThisBlock.bid, ThisBlock.len), GotBuffer(s, ev)
  PROVE  Window' /\ Completed'
<1>0. PICK b, old, bufs : /\ b = [slot |-> s, block |-> ThisBlock]
                          /\ old = run.activating /\ bufs = Append(old, b)
  OBVIOUS
<1>1. PICK fst, act : ObjectDone(fst, act, bufs)
  BY <1>0 DEF GotBuffer
<1>2. b \in Buffer /\ b.block = ThisBlock /\ old \in Seq(Buffer)
  BY <1>0, ThisBlockType, ThisBlockLength, RunFields DEF Buffer, BufferList
<1>3. /\ Len(bufs) = Len(old) + 1 /\ Len(old) \in Nat /\ bufs[Len(old) + 1] = b
      /\ \A m \in 1 .. Len(old) : bufs[m] = old[m]
  BY <1>0, <1>2
<1>4. /\ \A o : Has(old, o) => Has(bufs, o)
      /\ Has(bufs, ThisBlock.oid)
  BY <1>2, <1>3 DEF Has
<1>5. QED
  BY <1>0, <1>1, <1>4, ObjectDoneCompletes

\* Those of an index that has enqueued its last kernel are complete.
LEMMA RunFunctionCompletes ==
  ASSUME HInv, Window, Completed, RunFunction
  PROVE  Window' /\ Completed'
<1>0. PICK i, bufs, active :
          i = run.index /\ bufs = run.activating /\ active = run.active
  OBVIOUS
<1>1. /\ pc = "run" /\ run_queue' = run_queue /\ run \in RunState
      /\ bufs \in BufferList \ {<<>>} /\ active \in Seq(BufferList \ {<<>>}) /\ i \in Nat
  BY <1>0, RunFields DEF RunFunction, HInv, HostTypes, Position, BufferLists
<1>2. Complete(bufs)' /\ (active # <<>> => Complete(active[Len(active)])')
  BY <1>0, <1>1, CompleteStays DEF Completed
<1>3. CASE run.fun # Len(run_queue)
  <2>1. run' = [run EXCEPT !.fun = run.fun + 1, !.wait_list = {next_event}] /\ pc' = pc
    BY <1>3 DEF RunFunction
  <2>2. /\ run'.index = run.index /\ run'.activating = run.activating
        /\ run'.active = run.active
    BY <1>1, <2>1 DEF RunState
  <2>3. Window'
    BY <1>1, <2>1, <2>2 DEF Window
  <2>4. Completed'
    BY <1>0, <1>1, <1>2, <2>1, <2>2 DEF Completed
  <2>5. QED
    BY <2>3, <2>4
<1>4. CASE run.fun = Len(run_queue)
  <2> DEFINE n == Len(active)
             inFlight == Append(active, bufs)
             lastIndex == run.index + 1 = NumBlocks(run_queue[1], 1)
  <2>1. /\ run' = [NotRunning EXCEPT !.index = i + 1,
                      !.trans_event = next_event, !.active = inFlight]
        /\ pc' = CASE lastIndex -> "drain"
                   [] ~lastIndex /\ Len(inFlight) >= NumQueues -> "deactivate"
                   [] ~lastIndex /\ Len(inFlight) < NumQueues -> "activate"
    BY <1>0, <1>4 DEF RunFunction
  <2>2. /\ run'.index = i + 1 /\ run'.active = inFlight /\ run'.activating = <<>>
        /\ run'.fun = 1 /\ run'.arg = 1
    BY <2>1 DEF NotRunning
  <2>3. /\ n = IF i = 0 THEN 0 ELSE 1
        /\ Len(inFlight) = n + 1 /\ inFlight[n + 1] = bufs
    BY <1>0, <1>1 DEF Window
  <2>4. \/ pc' = "drain"
        \/ pc' = "deactivate" /\ Len(inFlight) = 2
        \/ pc' = "activate" /\ Len(inFlight) = 1
    BY <2>1, <2>3 DEF NumQueues
  <2>5. Window'
    BY <1>1, <2>2, <2>3, <2>4 DEF Window
  <2>6. ASSUME NEW k \in 1 .. Len(run_queue), NEW j \in 1 .. Len(run_queue[k].objs)
        PROVE  ~Before(k, j)'
    <3>1. Len(run_queue[k].objs) \in Nat
      BY ElementOf DEF HInv, HostTypes, Runnable
    <3>2. QED
      BY <2>2, <3>1 DEF Before
  <2>7. Completed'
    BY <1>1, <1>2, <2>2, <2>3, <2>4, <2>6 DEF Completed
  <2>8. QED
    BY <2>5, <2>7
<1>5. QED
  BY <1>3, <1>4

\* Unlocking the buffers of the oldest index leaves those of the newest.
LEMMA DeactivateCompletes ==
  ASSUME HInv, Window, Completed, Deactivate
  PROVE  Window' /\ Completed'
<1>0. PICK i, active, rest, others :
          /\ i = run.index /\ active = run.active
          /\ rest = Tail(Head(active)) /\ others = Tail(active)
  OBVIOUS
<1> DEFINE n == Len(active)
           left == IF rest = <<>> THEN others ELSE <<rest>> \o others
<1>1. /\ pc \in {"deactivate", "drain"} /\ run \in RunState /\ i \in Nat
      /\ active \in Seq(BufferList \ {<<>>}) /\ n \in 1 .. 2 /\ n <= i
      /\ run.activating = <<>> /\ (pc = "deactivate" => n = 2)
  <2>1. pc \in {"deactivate", "drain"}
    BY DEF Deactivate
  <2>2. run \in RunState /\ i \in Nat /\ active \in Seq(BufferList \ {<<>>})
    BY <1>0, RunFields DEF HInv, HostTypes, BufferLists
  <2>3. /\ n <= i /\ run.activating = <<>>
        /\ pc = "deactivate" => n = 2
        /\ pc = "drain" => n \in 1 .. 2
    BY <1>0, <2>1 DEF Window
  <2>4. QED
    BY <2>1, <2>2, <2>3
<1>2. CASE Fail
  <2>1. pc' = "idle" /\ run'.index = 0 /\ run'.active = <<>> /\ run'.activating = <<>>
    BY <1>2 DEF Fail, NotRunning
  <2>2. QED
    BY <2>1 DEF Window, Completed
<1>3. CASE ~Fail
  <2>1. /\ run' = [run EXCEPT !.active = left]
        /\ pc' = CASE rest # <<>> -> pc
                   [] rest = <<>> /\ pc = "deactivate" -> "activate"
                   [] rest = <<>> /\ pc = "drain" ->
                        IF others = <<>> THEN "finish" ELSE "drain"
        /\ run_queue' = run_queue
    BY <1>0, <1>3 DEF Deactivate
  <2>2. /\ run'.index = i /\ run'.active = left /\ run'.activating = <<>>
        /\ run'.fun = run.fun /\ run'.arg = run.arg
    BY <1>0, <1>1, <2>1 DEF RunState
  <2>3. /\ others \in Seq(BufferList \ {<<>>}) /\ Len(others) = n - 1
        /\ \A k \in 1 .. n - 1 : others[k] = active[k + 1]
    BY <1>0, <1>1
  <2>4. rest \in BufferList
    <3>1. Head(active) \in BufferList \ {<<>>}
      BY <1>1
    <3>2. QED
      BY <1>0, <3>1 DEF BufferList
  <2>5. /\ rest # <<>> => Len(left) = n /\ (n = 2 => left[2] = active[2])
        /\ rest = <<>> => Len(left) = n - 1 /\ (n = 2 => left[1] = active[2])
    BY <1>1, <2>3, <2>4
  <2>6. /\ rest # <<>> => pc' = pc
        /\ rest = <<>> => \/ pc = "deactivate" /\ pc' = "activate" /\ n = 2
                          \/ pc = "drain" /\ pc' = "finish" /\ n = 1
                          \/ pc = "drain" /\ pc' = "drain" /\ n = 2
    BY <1>1, <2>1, <2>3
  <2>7. Window'
    <3>1. /\ Len(run'.active) = IF rest = <<>> THEN n - 1 ELSE n
          /\ run'.index = i /\ run'.activating = <<>>
      BY <2>2, <2>5
    <3> HIDE DEF n, left
    <3>2. CASE rest = <<>>
      BY <1>1, <2>6, <3>1, <3>2 DEF Window
    <3>3. CASE rest # <<>>
      BY <1>1, <2>6, <3>1, <3>3 DEF Window
    <3>4. QED
      BY <3>2, <3>3
  <2>8. ASSUME pc' \in {"activate", "deactivate"}
        PROVE  /\ run'.active[Len(run'.active)] = active[n] /\ Complete(active[n])'
               /\ run'.fun = 1 /\ run'.arg = 1
    <3>1. pc = "deactivate" /\ n = 2
      BY <1>1, <2>6, <2>8
    <3>2. run'.active[Len(run'.active)] = active[n]
      BY <2>2, <2>5, <3>1
    <3>3. Complete(active[n])'
      BY <1>0, <1>1, <2>1, <3>1, CompleteStays DEF Completed
    <3>4. QED
      BY <2>2, <3>1, <3>2, <3>3 DEF HInv, Position
  <2>9. ASSUME NEW k \in 1 .. Len(run_queue), NEW j \in 1 .. Len(run_queue[k].objs),
               pc' = "activate"
        PROVE  ~Before(k, j)'
    <3>1. Len(run_queue[k].objs) \in Nat
      BY ElementOf DEF HInv, HostTypes, Runnable
    <3>2. QED
      BY <2>8, <2>9, <3>1 DEF Before
  <2>10. PICK c : c = active[n]
    OBVIOUS
  <2>11. pc' \in {"activate", "deactivate"} =>
           Complete(c)' /\ run'.active[Len(run'.active)] = c
    BY <2>8, <2>10
  <2>12. pc' # "run"
    BY <1>1, <2>6
  <2>13. Completed'
    BY <2>1, <2>9, <2>11, <2>12 DEF Completed
  <2>14. QED
    BY <2>7, <2>13
<1>4. QED
  BY <1>2, <1>3

\* Nothing moves when neither the slots nor the buffers in flight change.
LEMMA FlightsStay ==
  ASSUME RInv, UNCHANGED <<cached, users, run_queue>>,
         run'.index = run.index, run'.activating = run.activating,
         run'.active = run.active
  PROVE  Homes' /\ InFlightInPlace' /\ OnlyInFlight'
<1>1. Homes'
  BY DEF RInv, Homes
<1>2. OnlyInFlight'
  BY DEF RInv, OnlyInFlight, InFlight, Held
<1>3. AllInPlace(run.activating, run.index)'
  <2>1. PICK bufs, i : bufs = run.activating /\ i = run.index
    OBVIOUS
  <2>2. AllInPlace(bufs, i)'
    BY <2>1, AllInPlaceStays DEF RInv, InFlightInPlace
  <2>3. QED
    BY <2>1, <2>2
<1>4. ASSUME NEW k \in 1 .. Len(run'.active)
      PROVE  AllInPlace(run.active[k], IndexOf(k))'
  <2>1. PICK bufs, i : bufs = run.active[k] /\ i = IndexOf(k)
    OBVIOUS
  <2>2. AllInPlace(bufs, i)'
    BY <1>4, <2>1, AllInPlaceStays DEF RInv, InFlightInPlace
  <2>3. bufs = run'.active[k] /\ i = IndexOf(k)'
    BY <2>1 DEF IndexOf
  <2>4. QED
    BY <2>2, <2>3
<1>5. QED
  BY <1>1, <1>2, <1>3, <1>4 DEF InFlightInPlace

\* An object that this index has activated already moves no slot.
LEMMA ActivateAgainInv ==
  ASSUME RInv, ActivateAgain
  PROVE  /\ Homes' /\ InFlightInPlace' /\ OnlyInFlight'
         /\ Quiet' /\ NothingLeft'
<1>1. /\ pc = "activate" /\ Activated(ThisBlock.oid)
      /\ ObjectDone(run.fst_event, run.activate_event, run.activating)
      /\ UNCHANGED <<cached, users>>
  BY DEF ActivateAgain, cacheVars
<1>2. /\ run'.index = run.index /\ run'.active = run.active
      /\ run'.activating = run.activating /\ run_queue' = run_queue
      /\ pc' \in {"activate", "run"}
  BY <1>1, ObjectDoneMoves DEF RInv
<1>3. Quiet' /\ NothingLeft'
  BY <1>2 DEF Quiet, NothingLeft
<1>4. QED
  BY <1>1, <1>2, <1>3, FlightsStay

\* A buffer more is in flight, in a slot that no other buffer is in.
LEMMA GotBufferInv ==
  ASSUME RInv, pc = "activate", ~Activated(ThisBlock.oid),
         NEW s \in Slots, s = SlotAt(ThisBlock.oid, run.index),
         NEW ev, GotBuffer(s, ev),
         Accepted(ThisBlock.oid, ThisBlock.bid, ThisBlock.len),
         \A t \in Slots : t # s => cached'[t] = cached[t] /\ users'[t] = users[t],
         cached'[s].oid = ThisBlock.oid, cached'[s].bid = ThisBlock.bid,
         users'[s] = users[s] + 1
  PROVE  /\ Homes' /\ InFlightInPlace' /\ OnlyInFlight'
         /\ Quiet' /\ NothingLeft'
\* Rigid names of what the step uses of the state before it.
<1>0. PICK b, bufs, old, oid, bid, i, active :
          /\ b = [slot |-> s, block |-> ThisBlock] /\ old = run.activating
          /\ bufs = Append(old, b) /\ active = run.active
          /\ oid = ThisBlock.oid /\ bid = ThisBlock.bid /\ i = run.index
  OBVIOUS
<1> DEFINE last == Len(old) + 1
<1>1. PICK fst, act : ObjectDone(fst, act, bufs)
  BY <1>0 DEF GotBuffer
<1>2. /\ b \in Buffer /\ b.slot = s /\ b.block.oid = oid /\ b.block.bid = bid
      /\ old \in Seq(Buffer) /\ active \in Seq(BufferList \ {<<>>})
      /\ i \in Nat /\ oid \in Nat \ {0} /\ s = SlotAt(oid, i)
  BY <1>0, ThisBlockType, ThisBlockLength, RunFields
     DEF RInv, Buffer, BufferList, BufferLists
<1>3. /\ Len(bufs) = last /\ Len(old) \in Nat /\ bufs[last] = b
      /\ \A m \in 1 .. Len(old) : bufs[m] = old[m]
  BY <1>0, <1>2
<1>4. /\ run'.index = i /\ run'.active = active
      /\ run'.activating = bufs /\ run_queue' = run_queue
      /\ pc' \in {"activate", "run"}
  BY <1>0, <1>1, ObjectDoneMoves DEF RInv
<1>5. ~InFlight(s) /\ users[s] = 0
  BY SlotIsUnused
<1>6. Quiet' /\ NothingLeft'
  BY <1>4 DEF Quiet, NothingLeft
<1>7. \A m \in 1 .. Len(old) : old[m] \in Buffer /\ old[m].slot # s
  BY <1>0, <1>2, <1>5, ElementOf DEF InFlight
<1>8. \A k \in 1 .. Len(active) : \A m \in 1 .. Len(active[k]) :
        active[k][m] \in Buffer /\ active[k][m].slot # s
  <2>1. \A k \in 1 .. Len(active) : active[k] \in BufferList
    BY <1>2, ElementOf
  <2>2. QED
    BY <1>0, <1>5, <2>1, ElementOf, ZenonT(30) DEF InFlight, BufferList
<1>9. BeginsAt(oid, i, bid)
  BY <1>0, FirstUse
<1>10. InPlace(b, i)'
  <2>1. BeginsAt(oid, i, bid)'
    BY <1>4, <1>9 DEF BeginsAt, IsFirst
  <2>2. Holds(s, oid, bid)'
    BY <1>0 DEF Holds
  <2>3. Held(s)'
    BY <1>5 DEF Held
  <2>4. QED
    BY <1>2, <2>1, <2>2, <2>3 DEF InPlace
<1>11. AllInPlace(bufs, i)'
  <2>1. AllInPlace(old, i)
    BY <1>0 DEF RInv, InFlightInPlace
  <2>2. ASSUME NEW m \in 1 .. Len(old)
        PROVE  InPlace(old[m], i)' /\ old[m].block.oid # oid
    <3>1. InPlace(old[m], i) /\ old[m].slot \in Slots /\ old[m].slot # s
      BY <1>7, <2>1 DEF AllInPlace, Buffer
    <3>2. InPlace(old[m], i)'
      BY <1>4, <3>1, InPlaceStays
    <3>3. old[m].block.oid # oid
      BY <1>2, <3>1 DEF InPlace
    <3>4. QED
      BY <3>2, <3>3
  <2>3. \A m \in 1 .. Len(bufs) : InPlace(bufs[m], i)'
    BY <1>3, <1>10, <2>2
  <2>4. \A m, n \in 1 .. Len(bufs) : bufs[m].block.oid = bufs[n].block.oid => m = n
    BY <1>2, <1>3, <2>1, <2>2 DEF AllInPlace
  <2>5. QED
    BY <2>3, <2>4 DEF AllInPlace
<1>12. ASSUME NEW k \in 1 .. Len(active)
       PROVE  AllInPlace(active[k], i - Len(active) + k - 1)'
  <2>1. AllInPlace(active[k], i - Len(active) + k - 1)
    BY <1>0 DEF RInv, InFlightInPlace, IndexOf
  <2>2. \A m \in 1 .. Len(active[k]) : /\ active[k][m].slot \in Slots
                                       /\ active[k][m].slot # s
    BY <1>8 DEF Buffer
  <2>3. QED
    BY <1>4, <2>1, <2>2, AllInPlaceStays
<1>13. InFlightInPlace'
  BY <1>4, <1>11, <1>12 DEF InFlightInPlace, IndexOf
<1>14. OnlyInFlight'
  <2>1. ASSUME NEW t \in Slots, t # s
        PROVE  users'[t] <= 1 /\ (Held(t)' => InFlight(t)')
    <3>1. users[t] <= 1 /\ (Held(t) => InFlight(t)) /\ users'[t] = users[t]
      BY <2>1 DEF RInv, OnlyInFlight
    <3>2. InFlight(t) => InFlight(t)'
      BY <1>0, <1>3, <1>4 DEF InFlight
    <3>3. QED
      BY <3>1, <3>2 DEF Held
  <2>2. users'[s] = 1 /\ InFlight(s)'
    BY <1>2, <1>3, <1>4, <1>5 DEF InFlight
  <2>3. QED
    BY <2>1, <2>2 DEF OnlyInFlight
<1>15. Homes'
  <2>1. ASSUME NEW t \in Slots, t # s, cached'[t] # NoBlock
        PROVE  /\ t \in {(cached'[t].oid - 1) * DoubleBuffering,
                         (cached'[t].oid - 1) * DoubleBuffering + 1}
               /\ cached'[t].bid = 0 => t = (cached'[t].oid - 1) * DoubleBuffering
    BY <2>1 DEF RInv, Homes
  <2>2. s \in {(oid - 1) * DoubleBuffering, (oid - 1) * DoubleBuffering + 1}
    BY <1>2, SlotFacts
  <2>3. ASSUME bid = 0
        PROVE  s = (oid - 1) * DoubleBuffering
    <3>1. i = 0
      BY <1>2, <1>9, <2>3, FirstBlockAtZero DEF RInv
    <3>2. QED
      BY <1>2, <3>1, SlotFacts
  <2>4. cached'[s].oid = oid /\ cached'[s].bid = bid
    BY <1>0
  <2>5. QED
    BY <2>1, <2>2, <2>3, <2>4 DEF Homes
<1>16. QED
  BY <1>6, <1>13, <1>14, <1>15

\* get has served the buffer from its slot.
LEMMA ActivateInv ==
  ASSUME RInv, ActivateHit \/ ActivateMiss
  PROVE  /\ Homes' /\ InFlightInPlace' /\ OnlyInFlight'
         /\ Quiet' /\ NothingLeft'
<1>0. /\ cached \in [Slots -> Block] /\ users \in [Slots -> Nat]
      /\ pc = "activate" /\ ~Activated(ThisBlock.oid)
  BY DEF RInv, HInv, IInv, TypeOK, ActivateHit, ActivateMiss
<1>1. CASE ActivateHit
  <2>1. PICK s \in Slots : /\ GetHit(s, ThisBlock.oid, ThisBlock.bid, ThisBlock.len)
                           /\ GotBuffer(s, NoEvent)
    BY <1>1 DEF ActivateHit
  <2>2. /\ cached' = cached /\ users' = [users EXCEPT ![s] = users[s] + 1]
        /\ cached[s].oid = ThisBlock.oid /\ cached[s].bid = ThisBlock.bid
        /\ Accepted(ThisBlock.oid, ThisBlock.bid, ThisBlock.len)
    BY <2>1 DEF GetHit, FoundAt, Holds, HandOut
  <2>3. s = SlotAt(ThisBlock.oid, run.index)
    BY <1>0, <2>1, Landing
  <2>4. QED
    BY <1>0, <2>1, <2>2, <2>3, GotBufferInv
<1>2. CASE ActivateMiss
  <2>1. PICK s \in Slots : /\ NewFill(s, ThisBlock.oid, ThisBlock.bid, ThisBlock.len)
                           /\ Transfer(s, next_event)
    BY <1>2 DEF ActivateMiss, NewFill
  <2>2. /\ users' = [users EXCEPT ![s] = users[s] + 1]
        /\ cached' = [cached EXCEPT ![s] = [oid |-> ThisBlock.oid, bid |-> ThisBlock.bid,
                                            len |-> ThisBlock.len]]
        /\ Accepted(ThisBlock.oid, ThisBlock.bid, ThisBlock.len)
    BY <2>1 DEF NewFill, Fill, HandOut
  <2>3. s = SlotAt(ThisBlock.oid, run.index)
    BY <1>0, <2>1, Landing
  <2>4. \E ev : GotBuffer(s, ev)
    BY <2>1 DEF Transfer
  <2>5. QED
    BY <1>0, <2>2, <2>3, <2>4, GotBufferInv
<1>3. QED
  BY <1>1, <1>2

-----------------------------------------------------------------------------
\* The last function of an index sends its buffers to those in flight.
LEMMA RunFunctionInv ==
  ASSUME RInv, RunFunction
  PROVE  /\ Homes' /\ InFlightInPlace' /\ OnlyInFlight'
         /\ Quiet' /\ NothingLeft'
<1>0. PICK i, bufs, active :
          i = run.index /\ bufs = run.activating /\ active = run.active
  OBVIOUS
<1>1. /\ pc = "run" /\ UNCHANGED <<cached, users, run_queue>> /\ run \in RunState
      /\ bufs \in BufferList \ {<<>>} /\ active \in Seq(BufferList \ {<<>>}) /\ i \in Nat
  BY <1>0, RunFields
     DEF RunFunction, RInv, HInv, HostTypes, Position, cacheVars, BufferLists
<1>2. CASE run.fun # Len(run_queue)
  <2>1. run' = [run EXCEPT !.fun = run.fun + 1, !.wait_list = {next_event}] /\ pc' = pc
    BY <1>2 DEF RunFunction
  <2>2. /\ run'.index = run.index /\ run'.activating = run.activating
        /\ run'.active = run.active
    BY <1>1, <2>1 DEF RunState
  <2>3. Homes' /\ InFlightInPlace' /\ OnlyInFlight'
    BY <1>1, <2>2, FlightsStay
  <2>4. Quiet' /\ NothingLeft'
    BY <1>1, <2>1 DEF Quiet, NothingLeft
  <2>5. QED
    BY <2>3, <2>4
<1>3. CASE run.fun = Len(run_queue)
  <2> DEFINE n == Len(active)
             inFlight == Append(active, bufs)
             lastIndex == run.index + 1 = NumBlocks(run_queue[1], 1)
  <2>1. /\ run' = [NotRunning EXCEPT !.index = i + 1,
                      !.trans_event = next_event, !.active = inFlight]
        /\ pc' = CASE lastIndex -> "drain"
                   [] ~lastIndex /\ Len(inFlight) >= NumQueues -> "deactivate"
                   [] ~lastIndex /\ Len(inFlight) < NumQueues -> "activate"
    BY <1>0, <1>3 DEF RunFunction
  <2>2. /\ run'.index = i + 1 /\ run'.active = inFlight /\ run'.activating = <<>>
        /\ run'.fun = 1 /\ run'.arg = 1
    BY <2>1 DEF NotRunning
  <2>3. /\ n = IF i = 0 THEN 0 ELSE 1
        /\ Len(inFlight) = n + 1 /\ inFlight[n + 1] = bufs
        /\ \A k \in 1 .. n : inFlight[k] = active[k]
    BY <1>0, <1>1 DEF RInv, Window
  <2>4. \/ pc' = "drain"
        \/ pc' = "deactivate" /\ Len(inFlight) = 2
        \/ pc' = "activate" /\ Len(inFlight) = 1
    BY <2>1, <2>3 DEF NumQueues
  <2>5. Homes'
    BY <1>1 DEF RInv, Homes
  <2>6. OnlyInFlight'
    <3>1. ASSUME NEW s \in Slots, InFlight(s)
          PROVE  InFlight(s)'
      <4>1. CASE \E m \in 1 .. Len(bufs) : bufs[m].slot = s
        BY <2>2, <2>3, <4>1 DEF InFlight
      <4>2. CASE \E k \in 1 .. n : \E m \in 1 .. Len(active[k]) : active[k][m].slot = s
        BY <2>2, <2>3, <4>2 DEF InFlight
      <4>3. QED
        BY <1>0, <3>1, <4>1, <4>2 DEF InFlight
    <3>2. QED
      BY <1>1, <3>1 DEF RInv, OnlyInFlight, Held
  <2>7. InFlightInPlace'
    <3>1. AllInPlace(bufs, i)'
      BY <1>0, <1>1, AllInPlaceStays DEF RInv, InFlightInPlace
    <3>2. \A k \in 1 .. n : AllInPlace(active[k], i - n + k - 1)'
      BY <1>0, <1>1, AllInPlaceStays DEF RInv, InFlightInPlace, IndexOf
    <3>3. \A k \in 1 .. n + 1 : AllInPlace(inFlight[k], (i + 1) - (n + 1) + k - 1)'
      <4>1. (i + 1) - (n + 1) + (n + 1) - 1 = i
        BY <1>1, <2>3
      <4>2. \A k \in 1 .. n : (i + 1) - (n + 1) + k - 1 = i - n + k - 1
        BY <1>1, <2>3
      <4>3. \A k \in 1 .. n + 1 : k = n + 1 \/ k \in 1 .. n
        BY <2>3
      <4>4. QED
        BY <2>3, <3>1, <3>2, <4>1, <4>2, <4>3
    <3>4. AllInPlace(<<>>, i + 1)'
      BY DEF AllInPlace
    <3>5. QED
      BY <2>2, <2>3, <3>3, <3>4 DEF InFlightInPlace, IndexOf
  <2>8. Quiet' /\ NothingLeft'
    BY <2>4 DEF Quiet, NothingLeft
  <2>9. QED
    BY <2>5, <2>6, <2>7, <2>8
<1>4. QED
  BY <1>2, <1>3

\* The buffer to give back is held, and is the only one in its slot.
LEMMA NextBufferHeld ==
  ASSUME RInv, pc \in {"deactivate", "drain"}
  PROVE  /\ NextBuffer = run.active[1][1] /\ NextBuffer.slot \in Slots
         /\ Held(NextBuffer.slot)
         /\ 1 \in 1 .. Len(run.active) /\ 1 \in 1 .. Len(run.active[1])
<1>1. /\ run.active \in Seq(BufferList \ {<<>>}) /\ run.active # <<>>
  BY RunFields DEF RInv, HInv, Position, BufferLists
<1>2. 1 \in 1 .. Len(run.active) /\ Head(run.active) = run.active[1]
  BY <1>1
<1>3. run.active[1] \in BufferList \ {<<>>}
  BY <1>1, <1>2, ElementOf
<1>4. /\ 1 \in 1 .. Len(run.active[1]) /\ Head(run.active[1]) = run.active[1][1]
      /\ run.active[1][1] \in Buffer
  BY <1>3 DEF BufferList
<1>5. InPlace(run.active[1][1], IndexOf(1))
  BY <1>2, <1>4 DEF RInv, InFlightInPlace, AllInPlace
<1>6. QED
  BY <1>2, <1>4, <1>5 DEF NextBuffer, InPlace, Buffer

\* unlock finds the buffer in its slot, and releases it.
LEMMA UnlockSucceeds ==
  ASSUME RInv, Deactivate
  PROVE  UnlockFound(NextBuffer.slot, NextBuffer.slot) /\ ret' = 1
<1> DEFINE h == NextBuffer.slot
<1>1. h \in Slots /\ Held(h) /\ Unlock(h)
  BY NextBufferHeld DEF Deactivate, DeactivateBuffer
<1>2. FoundAt(h, granted[h].oid, granted[h].bid) /\ ~Free(h)
  BY <1>1 DEF RInv, HInv, IInv, DescriptorGood
<1>3. ~UnlockRefused(granted[h].oid, granted[h].bid)
  BY <1>1, <1>2 DEF UnlockRefused
<1>4. PICK s \in Slots : UnlockFound(h, s)
  BY <1>1, <1>3 DEF Unlock
<1>5. s = h
  BY <1>1, <1>4, UnlockFindsGranted DEF RInv, HInv
<1>6. QED
  BY <1>4, <1>5 DEF UnlockFound

\* Two buffers in flight are in two slots.
LEMMA SlotsDiffer ==
  ASSUME RInv, pc \in {"deactivate", "drain"},
         NEW k \in 1 .. Len(run.active), NEW m \in 1 .. Len(run.active[k]),
         k # 1 \/ m # 1
  PROVE  /\ run.active[k][m].slot \in Slots
         /\ run.active[k][m].slot # NextBuffer.slot
<1> DEFINE b == run.active[1][1]
           c == run.active[k][m]
           i == IndexOf(1)
<1>1. /\ b = NextBuffer /\ 1 \in 1 .. Len(run.active) /\ 1 \in 1 .. Len(run.active[1])
  BY NextBufferHeld
<1>2. /\ Len(run.active) \in 1 .. 2 /\ Len(run.active) <= run.index /\ run.index \in Nat
      /\ run.active \in Seq(BufferList \ {<<>>})
  BY RunFields DEF RInv, Window, BufferLists
<1>3. run.active[1] \in BufferList /\ run.active[k] \in BufferList
  BY <1>1, <1>2, ElementOf
<1>4. b \in Buffer /\ c \in Buffer
  BY <1>1, <1>3, ElementOf DEF BufferList
<1>5. InPlace(b, i) /\ InPlace(c, IndexOf(k))
  BY <1>1 DEF RInv, InFlightInPlace, AllInPlace
<1>6. b.block.oid \in Nat \ {0} /\ c.block.oid \in Nat \ {0} /\ c.slot \in Slots
  BY <1>4 DEF Buffer
<1>7. i \in Nat
  BY <1>2 DEF IndexOf
<1>8. CASE k = 1
  <2>1. AllInPlace(run.active[1], i)
    BY <1>1 DEF RInv, InFlightInPlace
  <2>2. b.block.oid # c.block.oid
    BY <1>1, <1>8, <2>1 DEF AllInPlace
  <2>3. SlotAt(b.block.oid, i) # SlotAt(c.block.oid, i)
    BY <1>6, <1>7, <2>2, SlotFacts
  <2>4. QED
    BY <1>1, <1>5, <1>6, <1>8, <2>3 DEF InPlace
<1>9. CASE k # 1
  <2>1. IndexOf(k) = i + 1
    BY <1>2, <1>9 DEF IndexOf
  <2>2. SlotAt(b.block.oid, i) # SlotAt(c.block.oid, i + 1)
    BY <1>6, <1>7, SlotFacts
  <2>3. QED
    BY <1>1, <1>5, <1>6, <2>1, <2>2 DEF InPlace
<1>10. QED
  BY <1>8, <1>9

\* The oldest buffer in flight is unlocked, and no other.
LEMMA DeactivateInv ==
  ASSUME RInv, Deactivate
  PROVE  /\ Homes' /\ InFlightInPlace' /\ OnlyInFlight'
         /\ Quiet' /\ NothingLeft'
<1>0. PICK i, active, head, rest, others, h :
          /\ i = run.index /\ active = run.active /\ head = active[1]
          /\ rest = Tail(head) /\ others = Tail(active) /\ h = NextBuffer.slot
  OBVIOUS
<1> DEFINE n == Len(active)
           left == IF rest = <<>> THEN others ELSE <<rest>> \o others
<1>1. /\ pc \in {"deactivate", "drain"} /\ run \in RunState /\ i \in Nat
      /\ active \in Seq(BufferList \ {<<>>}) /\ n \in 1 .. 2 /\ n <= i
      /\ run.activating = <<>> /\ (pc = "deactivate" => n = 2)
  <2>1. pc \in {"deactivate", "drain"}
    BY DEF Deactivate
  <2>2. /\ run \in RunState /\ i \in Nat /\ active \in Seq(BufferList \ {<<>>})
    BY <1>0, RunFields DEF RInv, HInv, HostTypes, BufferLists
  <2>3. /\ n <= i /\ run.activating = <<>>
        /\ pc = "deactivate" => n = 2
        /\ pc = "drain" => n \in 1 .. 2
    BY <1>0, <2>1 DEF RInv, Window
  <2>4. QED
    BY <2>1, <2>2, <2>3
<1>2. /\ h \in Slots /\ Held(h)
      /\ cached' = cached /\ users' = [users EXCEPT ![h] = users[h] - 1]
      /\ ret' = 1
  BY <1>0, <1>1, NextBufferHeld, UnlockSucceeds DEF UnlockFound, GiveBack
<1>3. /\ users[h] = 1 /\ users'[h] = 0
      /\ \A t \in Slots : t # h => users'[t] = users[t]
  BY <1>2 DEF RInv, HInv, IInv, TypeOK, OnlyInFlight, Held
<1>4. /\ head \in BufferList /\ Len(head) \in Nat \ {0} /\ Head(active) = head
      /\ rest \in BufferList /\ Len(rest) = Len(head) - 1
      /\ \A m \in 1 .. Len(rest) : rest[m] = head[m + 1]
  <2>1. head \in BufferList \ {<<>>} /\ Head(active) = head
    BY <1>0, <1>1, ElementOf
  <2>2. QED
    BY <1>0, <2>1 DEF BufferList
<1>5. /\ others \in Seq(BufferList \ {<<>>}) /\ Len(others) = n - 1
      /\ \A k \in 1 .. n - 1 : others[k] = active[k + 1]
  BY <1>0, <1>1
<1>6. /\ run' = [run EXCEPT !.active = left]
      /\ pc' = CASE rest # <<>> -> pc
                 [] rest = <<>> /\ pc = "deactivate" -> "activate"
                 [] rest = <<>> /\ pc = "drain" ->
                      IF others = <<>> THEN "finish" ELSE "drain"
      /\ run_queue' = run_queue
  BY <1>0, <1>2, <1>4 DEF Deactivate
<1>7. run'.index = i /\ run'.active = left /\ run'.activating = <<>>
  BY <1>0, <1>1, <1>6 DEF RunState
<1>8. \A k \in 1 .. n : \A m \in 1 .. Len(active[k]) :
        k # 1 \/ m # 1 => active[k][m].slot \in Slots /\ active[k][m].slot # h
  BY <1>0, <1>1, SlotsDiffer
<1>9. \A k \in 1 .. n : AllInPlace(active[k], i - n + k - 1)
  BY <1>0 DEF RInv, InFlightInPlace, IndexOf
<1>10. \A k \in 2 .. n : AllInPlace(active[k], i - n + k - 1)'
  <2>1. ASSUME NEW k \in 2 .. n
        PROVE  AllInPlace(active[k], i - n + k - 1)'
    <3>1. k \in 1 .. n /\ k # 1
      BY <1>1
    <3>2. \A m \in 1 .. Len(active[k]) :
            active[k][m].slot \in Slots /\ active[k][m].slot # h
      BY <1>8, <3>1
    <3>3. QED
      BY <1>2, <1>3, <1>6, <1>9, <3>1, <3>2, AllInPlaceStays
  <2>2. QED
    BY <2>1
<1>12. Homes'
  BY <1>2 DEF RInv, Homes
<1>13. ASSUME NEW t \in Slots, t # h, Held(t)'
       PROVE  \E k \in 1 .. n : \E m \in 1 .. Len(active[k]) :
                active[k][m].slot = t /\ (k # 1 \/ m # 1)
  <2>1. InFlight(t)
    BY <1>3, <1>13 DEF RInv, OnlyInFlight, Held
  <2>2. \E k \in 1 .. n : \E m \in 1 .. Len(active[k]) : active[k][m].slot = t
    BY <1>0, <1>1, <2>1 DEF InFlight
  <2>3. active[1][1].slot = h
    BY <1>0, NextBufferHeld, <1>1
  <2>4. QED
    BY <1>13, <2>2, <2>3
<1>14. \A t \in Slots : users'[t] <= 1
  BY <1>3 DEF RInv, OnlyInFlight
<1>15. CASE rest # <<>>
  <2>1. /\ Len(left) = n /\ left[1] = rest
        /\ \A k \in 2 .. n : left[k] = active[k]
    BY <1>1, <1>4, <1>5, <1>15
  <2>2. AllInPlace(rest, i - n + 1 - 1)'
    <3>1. AllInPlace(head, i - n + 1 - 1)
      BY <1>0, <1>1, <1>9
    <3>2. ASSUME NEW m \in 1 .. Len(rest)
          PROVE  InPlace(rest[m], i - n + 1 - 1)'
      <4>1. m + 1 \in 1 .. Len(head) /\ rest[m] = head[m + 1] /\ m + 1 # 1
        BY <1>4
      <4>2. InPlace(rest[m], i - n + 1 - 1)
        BY <3>1, <4>1 DEF AllInPlace
      <4>3. rest[m].slot \in Slots /\ rest[m].slot # h
        BY <1>0, <1>1, <1>8, <4>1
      <4>4. QED
        BY <1>2, <1>3, <1>6, <4>2, <4>3, InPlaceStays
    <3>3. ASSUME NEW m \in 1 .. Len(rest), NEW l \in 1 .. Len(rest),
                 rest[m].block.oid = rest[l].block.oid
          PROVE  m = l
      <4>1. /\ m + 1 \in 1 .. Len(head) /\ rest[m] = head[m + 1]
            /\ l + 1 \in 1 .. Len(head) /\ rest[l] = head[l + 1]
        BY <1>4
      <4>2. m + 1 = l + 1
        BY <3>1, <3>3, <4>1 DEF AllInPlace
      <4>3. QED
        BY <4>2
    <3>4. QED
      BY <3>2, <3>3 DEF AllInPlace
  <2>3. InFlightInPlace'
    <3>1. \A k \in 1 .. n : AllInPlace(left[k], i - n + k - 1)'
      BY <1>1, <1>10, <2>1, <2>2
    <3>2. AllInPlace(<<>>, i)'
      BY DEF AllInPlace
    <3>3. QED
      BY <1>7, <2>1, <3>1, <3>2 DEF InFlightInPlace, IndexOf
  <2>4. OnlyInFlight'
    <3>1. ASSUME NEW t \in Slots, Held(t)'
          PROVE  InFlight(t)'
      <4>1. t # h
        BY <1>3, <3>1 DEF Held
      <4>2. PICK k \in 1 .. n : \E m \in 1 .. Len(active[k]) :
                   active[k][m].slot = t /\ (k # 1 \/ m # 1)
        BY <1>13, <3>1, <4>1
      <4> PICK m \in 1 .. Len(active[k]) : active[k][m].slot = t /\ (k # 1 \/ m # 1)
        BY <4>2
      <4>3. CASE k = 1
        <5>1. m - 1 \in 1 .. Len(rest) /\ rest[m - 1] = head[m]
          BY <1>0, <1>4, <4>2, <4>3
        <5>2. left[1][m - 1].slot = t
          BY <1>0, <2>1, <4>2, <4>3, <5>1
        <5>3. QED
          BY <1>1, <1>7, <2>1, <5>1, <5>2 DEF InFlight
      <4>4. CASE k # 1
        BY <1>7, <2>1, <4>2, <4>4 DEF InFlight
      <4>5. QED
        BY <4>3, <4>4
    <3>2. QED
      BY <1>14, <3>1 DEF OnlyInFlight
  <2>5. pc' = pc
    BY <1>6, <1>15
  <2>6. Quiet' /\ NothingLeft'
    BY <1>1, <2>5 DEF Quiet, NothingLeft
  <2>7. QED
    BY <1>12, <2>3, <2>4, <2>6
<1>16. CASE rest = <<>>
  <2>1. Len(left) = n - 1 /\ \A k \in 1 .. n - 1 : left[k] = active[k + 1]
    BY <1>5, <1>16
  <2>2. Len(head) = 1
    BY <1>4, <1>16
  <2>3. InFlightInPlace'
    <3>1. ASSUME NEW k \in 1 .. n - 1
          PROVE  AllInPlace(left[k], i - (n - 1) + k - 1)'
      <4>1. k + 1 \in 2 .. n /\ i - n + (k + 1) - 1 = i - (n - 1) + k - 1
        BY <1>1
      <4>2. AllInPlace(active[k + 1], i - n + (k + 1) - 1)'
        BY <1>10, <4>1
      <4>3. QED
        BY <2>1, <4>1, <4>2
    <3>2. AllInPlace(<<>>, i)'
      BY DEF AllInPlace
    <3>3. QED
      BY <1>7, <2>1, <3>1, <3>2 DEF InFlightInPlace, IndexOf
  <2>4. OnlyInFlight'
    <3>1. ASSUME NEW t \in Slots, Held(t)'
          PROVE  InFlight(t)'
      <4>1. t # h
        BY <1>3, <3>1 DEF Held
      <4>2. PICK k \in 1 .. n : \E m \in 1 .. Len(active[k]) :
                   active[k][m].slot = t /\ (k # 1 \/ m # 1)
        BY <1>13, <3>1, <4>1
      <4> PICK m \in 1 .. Len(active[k]) : active[k][m].slot = t /\ (k # 1 \/ m # 1)
        BY <4>2
      <4>3. k # 1
        BY <1>0, <2>2, <4>2
      <4>4. k - 1 \in 1 .. n - 1 /\ left[k - 1] = active[k]
        BY <1>1, <2>1, <4>3
      <4>5. QED
        BY <1>7, <2>1, <4>2, <4>4 DEF InFlight
    <3>2. QED
      BY <1>14, <3>1 DEF OnlyInFlight
  <2>5. \/ pc = "deactivate" /\ pc' = "activate" /\ n = 2
        \/ pc = "drain" /\ pc' = "finish" /\ n = 1
        \/ pc = "drain" /\ pc' = "drain" /\ n = 2
    BY <1>1, <1>5, <1>6, <1>16
  <2>6. Quiet' /\ NothingLeft'
    BY <2>5 DEF Quiet, NothingLeft
  <2>7. QED
    BY <1>12, <2>3, <2>4, <2>6
<1>17. QED
  BY <1>15, <1>16

-----------------------------------------------------------------------------
\* run begins, returns, or is not there: nothing is in flight.
LEMMA NothingInFlight ==
  ASSUME Position, pc \in {"idle", "register", "end"}
  PROVE  /\ run = NotRunning /\ run.index = 0 /\ run.active = <<>>
         /\ run.activating = <<>> /\ run.fun = 1 /\ run.arg = 1
BY DEF Position, NotRunning

\* Without buffers in flight there is nothing to be in place.
LEMMA EmptyFlightsInPlace ==
  ASSUME run'.active = <<>>, run'.activating = <<>>
  PROVE  InFlightInPlace'
BY DEF InFlightInPlace, AllInPlace

\* Between runs, and when run begins or returns, it has no buffers.
LEMMA OutsideRun ==
  ASSUME HInv,
         \/ StartBatch \/ RegisterOk \/ RegisterFails \/ ActivateFails \/ Finish
         \/ ClientRead \/ ClientEnds
  PROVE  /\ run' = NotRunning
         /\ run'.index = 0 /\ run'.active = <<>> /\ run'.activating = <<>>
         /\ run'.fun = 1 /\ run'.arg = 1
         /\ pc' \in {"idle", "register", "activate", "end"}
         /\ pc' = "activate" => run_queue' = run_queue
<1>1. /\ pc' \in {"idle", "register", "activate", "end"}
      /\ pc' = "activate" => run_queue' = run_queue
  BY DEF StartBatch, RegisterOk, RegisterFails, ActivateFails, Finish, ClientRead,
         ClientEnds, Fail, HInv, Position
<1>2. run' = NotRunning
  <2>1. CASE ActivateFails \/ RegisterFails \/ Finish
    BY <2>1 DEF ActivateFails, RegisterFails, Finish, Fail
  <2>2. CASE StartBatch \/ RegisterOk \/ ClientRead \/ ClientEnds
    BY <2>2, NothingInFlight DEF StartBatch, RegisterOk, ClientRead, ClientEnds, HInv
  <2>3. QED
    BY <2>1, <2>2
<1>3. QED
  BY <1>1, <1>2 DEF NotRunning

\* Between runs, and when run begins or returns 1, no slot changes.
LEMMA OutsideInv ==
  ASSUME RInv, run_ret' = 1,
         StartBatch \/ RegisterOk \/ RegisterFails \/ Finish \/ ClientRead \/ ClientEnds
  PROVE  Homes' /\ InFlightInPlace' /\ OnlyInFlight' /\ NothingLeft'
<1>1. UNCHANGED <<cached, users>>
  BY DEF StartBatch, RegisterOk, RegisterFails, Finish, ClientRead, ClientEnds,
         cacheVars, ReadBack, ReadNothing, Return
<1>2. Homes'
  BY <1>1 DEF RInv, Homes
<1>3. run.active = <<>> /\ run.activating = <<>>
  <2>1. CASE Finish
    <3>1. Len(run.active) = 0 /\ run.activating = <<>> /\ run.active \in BufferLists
      BY <2>1, RunFields DEF Finish, RInv, Window
    <3>2. QED
      BY <3>1 DEF BufferLists
  <2>2. CASE StartBatch \/ RegisterOk \/ RegisterFails \/ ClientRead \/ ClientEnds
    BY <2>2, NothingInFlight
       DEF StartBatch, RegisterOk, RegisterFails, ClientRead, ClientEnds, RInv, HInv
  <2>3. QED
    BY <2>1, <2>2
<1>4. InFlightInPlace'
  BY OutsideRun, EmptyFlightsInPlace DEF RInv
<1>5. OnlyInFlight'
  <2>1. ASSUME NEW s \in Slots
        PROVE  ~InFlight(s)
    BY <1>3 DEF InFlight
  <2>2. QED
    BY <1>1, <2>1 DEF RInv, OnlyInFlight, Held
<1>6. NothingLeft'
  BY DEF RInv, NothingLeft, StartBatch, RegisterOk, RegisterFails, Finish,
         ClientRead, ClientEnds, Fail
<1>7. QED
  BY <1>2, <1>4, <1>5, <1>6

-----------------------------------------------------------------------------
\* Whatever fails: run has the buffers of at most two indices, and those that
\* it needs next.
LEMMA ProgressInv ==
  ASSUME HInv, Window, Completed, [SchedulerNext]_vars
  PROVE  Window' /\ Completed'
<1>1. CASE \/ StartBatch \/ RegisterOk \/ RegisterFails \/ ActivateFails \/ Finish
           \/ ClientRead \/ ClientEnds
  <2>1. /\ run'.index = 0 /\ run'.active = <<>> /\ run'.activating = <<>>
        /\ run'.fun = 1 /\ run'.arg = 1
        /\ pc' \in {"idle", "register", "activate", "end"}
        /\ pc' = "activate" => run_queue' = run_queue
    BY <1>1, OutsideRun
  <2>2. Window'
    BY <2>1 DEF Window
  <2>3. ASSUME pc' = "activate",
               NEW k \in 1 .. Len(run_queue'), NEW j \in 1 .. Len(run_queue'[k].objs)
        PROVE  ~Before(k, j)'
    <3>1. Len(run_queue[k].objs) \in Nat
      BY <2>1, <2>3, ElementOf DEF HInv, HostTypes, Runnable
    <3>2. QED
      BY <2>1, <2>3, <3>1 DEF Before
  <2>4. Completed'
    BY <2>1, <2>3 DEF Completed
  <2>5. QED
    BY <2>2, <2>4
<1>2. CASE ActivateAgain
  <2>1. /\ pc = "activate" /\ Activated(ThisBlock.oid)
        /\ ObjectDone(run.fst_event, run.activate_event, run.activating)
    BY <1>2 DEF ActivateAgain
  <2>2. Has(run.activating, ThisBlock.oid)
    BY <2>1, RunFields DEF Activated, Range, Has, BufferList
  <2>3. QED
    BY <2>1, <2>2, ObjectDoneCompletes
<1>3. CASE ActivateHit
  <2>1. PICK s \in Slots : /\ GetHit(s, ThisBlock.oid, ThisBlock.bid, ThisBlock.len)
                           /\ GotBuffer(s, NoEvent)
    BY <1>3 DEF ActivateHit
  <2>2. Accepted(ThisBlock.oid, ThisBlock.bid, ThisBlock.len) /\ pc = "activate"
    BY <1>3, <2>1 DEF ActivateHit, GetHit
  <2>3. QED
    BY <2>1, <2>2, GotBufferCompletes
<1>4. CASE ActivateMiss
  <2>1. PICK s \in Slots : /\ Fill(s, ThisBlock.oid, ThisBlock.bid, ThisBlock.len)
                           /\ Transfer(s, next_event)
    BY <1>4 DEF ActivateMiss
  <2>2. Accepted(ThisBlock.oid, ThisBlock.bid, ThisBlock.len) /\ pc = "activate"
    BY <1>4, <2>1 DEF ActivateMiss, Fill
  <2>3. PICK ev : GotBuffer(s, ev)
    BY <2>1 DEF Transfer
  <2>4. QED
    BY <2>2, <2>3, GotBufferCompletes
<1>5. CASE UNCHANGED hostVars
  BY <1>5 DEF hostVars, Window, Completed, Complete, Has, Before
<1>6. CASE Done \/ UNCHANGED vars \/ \E q \in Queues : DeviceStep(q) \/ IOThreadStep(q)
  BY <1>5, <1>6 DEF Done, vars, DeviceStep, IOThreadStep
<1>7. QED
  BY <1>1, <1>2, <1>3, <1>4, <1>6, RunFunctionCompletes, DeactivateCompletes
     DEF SchedulerNext, HostStep

-----------------------------------------------------------------------------
(***************************************************************************)
(* The queues                                                              *)
(***************************************************************************)
Belongs(s, q) == s \in Slots /\ (q = ClientQueue \/ s % DoubleBuffering = q)

\* A transfer on a slot of queue q is work of queue q.
LEMMA OpWork ==
  ASSUME NEW q \in Queues, NEW kind \in {"read", "write", "load", "back", "barrier"},
         NEW s, Belongs(s, q), NEW block \in Block, NEW waits \in SUBSET Nat,
         NEW ev \in Nat
  PROVE  /\ Op(kind, s, block, waits, ev) \in WorkOf(q)
         /\ Op(kind, s, block, waits, ev).waits = waits
         /\ Op(kind, s, block, waits, ev).ev = ev
<1> DEFINE op == Op(kind, s, block, waits, ev)
<1>1. op \in Transfers /\ op.kind # "kernel" /\ op.slot = s
  BY DEF Op, Transfers, Belongs
<1>2. SlotsOf(op) = {s}
  BY <1>1 DEF SlotsOf
<1>3. QED
  BY <1>1, <1>2 DEF Op, WorkOf, Work, Belongs

\* Where the elements of two sequences are in their concatenation.
LEMMA ConcatElements ==
  ASSUME NEW S, NEW s \in Seq(S), NEW t \in Seq(S)
  PROVE  /\ s \o t \in Seq(S) /\ Len(s \o t) = Len(s) + Len(t)
         /\ \A m \in 1 .. Len(s) : m \in 1 .. Len(s \o t) /\ (s \o t)[m] = s[m]
         /\ \A m \in 1 .. Len(t) :
              Len(s) + m \in 1 .. Len(s \o t) /\ (s \o t)[Len(s) + m] = t[m]
         /\ \A k \in 1 .. Len(s \o t) :
              k \in 1 .. Len(s) \/ \E m \in 1 .. Len(t) : k = Len(s) + m
<1>1. Len(s) \in Nat /\ Len(t) \in Nat /\ s \o t \in Seq(S) /\ Len(s \o t) = Len(s) + Len(t)
  OBVIOUS
<1>2. ASSUME NEW k \in 1 .. Len(s \o t), k \notin 1 .. Len(s)
      PROVE  \E m \in 1 .. Len(t) : k = Len(s) + m
  <2>1. k - Len(s) \in 1 .. Len(t) /\ k = Len(s) + (k - Len(s))
    BY <1>1, <1>2
  <2>2. QED
    BY <2>1
<1>3. QED
  BY <1>1, <1>2

\* Tasks that are awaited stay awaited when more work is enqueued.
LEMMA AwaitConcat ==
  ASSUME NEW S, NEW c \in Seq(S), NEW d \in Seq(S), NEW t \in Seq(S), NEW u \in Seq(S),
         Await(c, t), Await(d, u)
  PROVE  Await(c \o d, t \o u)
<1> SUFFICES ASSUME NEW k \in 1 .. Len(t \o u)
             PROVE  \E n \in 1 .. Len(c \o d) : (t \o u)[k].ev \in (c \o d)[n].waits
  BY DEF Await
<1>1. CASE k \in 1 .. Len(t)
  <2>1. PICK n \in 1 .. Len(c) : t[k].ev \in c[n].waits
    BY <1>1 DEF Await
  <2>2. n \in 1 .. Len(c \o d) /\ (c \o d)[n] = c[n] /\ (t \o u)[k] = t[k]
    BY <1>1, ConcatElements
  <2>3. (t \o u)[k].ev \in (c \o d)[n].waits
    BY <2>1, <2>2
  <2>4. QED
    BY <2>2, <2>3
<1>2. CASE k \notin 1 .. Len(t)
  <2>1. PICK m \in 1 .. Len(u) : k = Len(t) + m
    BY <1>2, ConcatElements
  <2>2. PICK n \in 1 .. Len(d) : u[m].ev \in d[n].waits
    BY DEF Await
  <2>3. /\ Len(c) + n \in 1 .. Len(c \o d) /\ (c \o d)[Len(c) + n] = d[n]
        /\ (t \o u)[k] = u[m]
    <3>1. Len(c) + n \in 1 .. Len(c \o d) /\ (c \o d)[Len(c) + n] = d[n]
      BY <2>2, ConcatElements
    <3>2. (t \o u)[Len(t) + m] = u[m]
      BY <2>1, ConcatElements
    <3>3. QED
      BY <2>1, <3>1, <3>2
  <2>4. (t \o u)[k].ev \in (c \o d)[Len(c) + n].waits
    BY <2>2, <2>3
  <2>5. QED
    BY <2>3, <2>4
<1>3. QED
  BY <1>1, <1>2

\* The barrier of read awaits its task.
LEMMA ReadWork ==
  ASSUME NEW q \in Queues, NEW s, Belongs(s, q), NEW block \in Block,
         NEW waits \in SUBSET Nat, NEW n \in Nat
  PROVE  /\ ReadCommands(s, block, waits, n) \in Seq(WorkOf(q))
         /\ ReadTasks(s, block, n) \in Seq(WorkOf(q))
         /\ Await(ReadCommands(s, block, waits, n), ReadTasks(s, block, n))
<1> DEFINE a == Op("read", s, block, waits, n)
           b == Op("barrier", s, block, {n + 1}, n + 2)
           c == Op("back", s, block, {n}, n + 1)
<1>1. a \in WorkOf(q) /\ b \in WorkOf(q) /\ c \in WorkOf(q)
  BY OpWork
<1>2. b.waits = {n + 1} /\ c.ev = n + 1
  BY OpWork
<1> HIDE DEF a, b, c
<1>3. <<a, b>> \in Seq(WorkOf(q)) /\ <<c>> \in Seq(WorkOf(q))
  BY <1>1
<1>4. Await(<<a, b>>, <<c>>)
  BY <1>2 DEF Await
<1>5. QED
  BY <1>3, <1>4 DEF ReadCommands, ReadTasks, a, b, c

\* The barrier of an eviction and the write await the tasks of write_and_get.
LEMMA FillWork ==
  ASSUME NEW q \in Queues, NEW s, Belongs(s, q), cached[s] \in Block,
         NEW block \in Block, NEW waits \in SUBSET Nat, NEW n \in Nat
  PROVE  /\ FillCommands(s, block, waits, n) \in Seq(WorkOf(q))
         /\ FillTasks(s, block, waits, n) \in Seq(WorkOf(q))
         /\ Await(FillCommands(s, block, waits, n), FillTasks(s, block, waits, n))
<1> DEFINE old == cached[s]
           w == Op("write", s, block, {n + 3}, n + 4)
           l == Op("load", s, block, waits \cup {n + 2}, n + 3)
           l0 == Op("load", s, block, waits, n + 3)
           cmds == ReadCommands(s, old, waits, n)
           tasks == ReadTasks(s, old, n)
<1>1. w \in WorkOf(q) /\ l \in WorkOf(q) /\ l0 \in WorkOf(q)
  BY OpWork
<1>2. w.waits = {n + 3} /\ l.ev = n + 3 /\ l0.ev = n + 3
  BY OpWork
<1>3. /\ cmds \in Seq(WorkOf(q)) /\ tasks \in Seq(WorkOf(q))
      /\ Await(cmds, tasks)
  BY ReadWork
<1> HIDE DEF w, l, l0, cmds, tasks
<1>4. CASE WritesBack(s)
  <2>1. <<w>> \in Seq(WorkOf(q)) /\ <<l>> \in Seq(WorkOf(q))
    BY <1>1
  <2>2. cmds \o <<w>> \in Seq(WorkOf(q)) /\ Append(tasks, l) \in Seq(WorkOf(q))
    BY <1>1, <1>3, <2>1
  <2>3. Await(cmds \o <<w>>, Append(tasks, l))
    <3>1. Await(<<w>>, <<l>>)
      BY <1>2 DEF Await
    <3>2. Await(cmds \o <<w>>, tasks \o <<l>>)
      BY <1>3, <2>1, <3>1, AwaitConcat
    <3>3. tasks \o <<l>> = Append(tasks, l)
      BY <1>1, <1>3
    <3>4. QED
      BY <3>2, <3>3
  <2>4. /\ FillCommands(s, block, waits, n) = cmds \o <<w>>
        /\ FillTasks(s, block, waits, n) = Append(tasks, l)
    BY <1>4 DEF FillCommands, FillTasks, cmds, tasks, w, l
  <2>5. QED
    BY <2>2, <2>3, <2>4
<1>5. CASE ~WritesBack(s)
  <2>1. <<w>> \in Seq(WorkOf(q)) /\ <<l0>> \in Seq(WorkOf(q))
    BY <1>1
  <2>2. Await(<<w>>, <<l0>>)
    BY <1>2 DEF Await
  <2>3. /\ FillCommands(s, block, waits, n) = <<w>>
        /\ FillTasks(s, block, waits, n) = <<l0>>
    BY <1>5, <2>1 DEF FillCommands, FillTasks, w, l0
  <2>4. QED
    BY <2>1, <2>2, <2>3
<1>6. QED
  BY <1>4, <1>5

\* Enqueueing such work keeps what is known of the queues.
LEMMA EnqueueInv ==
  ASSUME QueueTypes, TasksAwaited, NEW q \in Queues,
         NEW cmds \in Seq(WorkOf(q)), NEW tasks \in Seq(WorkOf(q)),
         Await(cmds, tasks), Enqueue(q, cmds, tasks)
  PROVE  QueueTypes' /\ TasksAwaited'
<1>1. /\ commands' = [commands EXCEPT ![q] = commands[q] \o cmds]
      /\ io' = [io EXCEPT ![q] = io[q] \o tasks]
      /\ commands \in [Queues -> Seq(Work)] /\ io \in [Queues -> Seq(Work)]
      /\ commands[q] \in Seq(WorkOf(q)) /\ io[q] \in Seq(WorkOf(q))
  BY DEF Enqueue, QueueTypes
<1>2. commands[q] \o cmds \in Seq(WorkOf(q)) /\ io[q] \o tasks \in Seq(WorkOf(q))
  BY <1>1
<1>3. \A p : WorkOf(p) \subseteq Work
  BY DEF WorkOf
<1>4. commands[q] \o cmds \in Seq(Work) /\ io[q] \o tasks \in Seq(Work)
  BY <1>2, <1>3, SeqMonotonic
<1>5. QueueTypes'
  BY <1>1, <1>2, <1>4 DEF QueueTypes
<1>6. Await(commands[q] \o cmds, io[q] \o tasks)
  BY <1>1, AwaitConcat DEF TasksAwaited
<1>7. ASSUME NEW p \in Queues
      PROVE  Await(commands'[p], io'[p])
  BY <1>1, <1>6 DEF TasksAwaited
<1>8. QED
  BY <1>5, <1>7 DEF TasksAwaited, Await

\* A command that is executed does not wait for a task that is still there.
LEMMA DequeueInv ==
  ASSUME QueueTypes, TasksAwaited, NEW q \in Queues, DeviceStep(q) \/ IOThreadStep(q)
  PROVE  QueueTypes' /\ TasksAwaited'
<1>0. /\ commands \in [Queues -> Seq(Work)] /\ io \in [Queues -> Seq(Work)]
      /\ commands[q] \in Seq(WorkOf(q)) /\ io[q] \in Seq(WorkOf(q))
      /\ commands[q] \in Seq(Work) /\ io[q] \in Seq(Work)
  BY DEF QueueTypes
<1>1. CASE DeviceStep(q)
  <2>1. /\ commands[q] # <<>> /\ Ready(Head(commands[q])) /\ io' = io
        /\ commands' = [commands EXCEPT ![q] = Tail(commands[q])]
    BY <1>1 DEF DeviceStep
  <2>2. Tail(commands[q]) \in Seq(WorkOf(q)) /\ Tail(commands[q]) \in Seq(Work)
    BY <1>0, <2>1
  <2>3. QueueTypes'
    BY <1>0, <2>1, <2>2 DEF QueueTypes
  <2>4. ASSUME NEW m \in 1 .. Len(io[q])
        PROVE  \E n \in 1 .. Len(Tail(commands[q])) :
                 io[q][m].ev \in Tail(commands[q])[n].waits
    <3>1. PICK n \in 1 .. Len(commands[q]) : io[q][m].ev \in commands[q][n].waits
      BY DEF TasksAwaited, Await
    <3>2. io[q][m].ev \in Outstanding
      <4>1. io[q][m] \in InQueues(q)
        BY <1>0 DEF InQueues, Range
      <4>2. QED
        BY <4>1 DEF Outstanding
    <3>3. n # 1
      <4>1. Head(commands[q]) = commands[q][1]
        BY <1>0, <2>1
      <4>2. QED
        BY <2>1, <3>1, <3>2, <4>1 DEF Ready
    <3>4. n - 1 \in 1 .. Len(Tail(commands[q])) /\ Tail(commands[q])[n - 1] = commands[q][n]
      BY <1>0, <2>1, <3>3
    <3>5. QED
      BY <3>1, <3>4
  <2>5. \A p \in Queues : Await(commands'[p], io'[p])
    BY <1>0, <2>1, <2>4 DEF TasksAwaited, Await
  <2>6. QED
    BY <2>3, <2>5 DEF TasksAwaited, Await
<1>2. CASE IOThreadStep(q)
  <2>1. /\ io[q] # <<>> /\ commands' = commands
        /\ io' = [io EXCEPT ![q] = Tail(io[q])]
    BY <1>2 DEF IOThreadStep
  <2>2. Tail(io[q]) \in Seq(WorkOf(q)) /\ Tail(io[q]) \in Seq(Work)
    BY <1>0, <2>1
  <2>3. QueueTypes'
    BY <1>0, <2>1, <2>2 DEF QueueTypes
  <2>4. ASSUME NEW m \in 1 .. Len(Tail(io[q]))
        PROVE  \E n \in 1 .. Len(commands[q]) :
                 Tail(io[q])[m].ev \in commands[q][n].waits
    <3>1. m + 1 \in 1 .. Len(io[q]) /\ Tail(io[q])[m] = io[q][m + 1]
      BY <1>0, <2>1
    <3>2. QED
      BY <3>1 DEF TasksAwaited, Await
  <2>5. \A p \in Queues : Await(commands'[p], io'[p])
    BY <1>0, <2>1, <2>4 DEF TasksAwaited, Await
  <2>6. QED
    BY <2>3, <2>5 DEF TasksAwaited, Await
<1>3. QED
  BY <1>1, <1>2

\* current_queue is one of the scheduler's own queues.
LEMMA ThisQueueType ==
  ASSUME HInv
  PROVE  ThisQueue \in Queues /\ ThisQueue # ClientQueue
         /\ ThisQueue = run.index % NumQueues
<1>1. run.index \in Nat
  BY RunFields
<1>2. run.index % 2 \in 0 .. 1
  BY <1>1
<1>3. QED
  BY <1>2 DEF ThisQueue, Queues, ClientQueue, NumQueues

\* The transfers of an activation.
LEMMA MissQueues ==
  ASSUME RInv, ActivateMiss
  PROVE  QueueTypes' /\ TasksAwaited'
<1>0. PICK s \in Slots : /\ NewFill(s, ThisBlock.oid, ThisBlock.bid, ThisBlock.len)
                         /\ Transfer(s, next_event)
  BY DEF ActivateMiss, NewFill
<1>1. pc = "activate" /\ ~Activated(ThisBlock.oid)
  BY DEF ActivateMiss
<1>2. s = SlotAt(ThisBlock.oid, run.index)
  BY <1>0, <1>1, Landing
<1>3. Belongs(s, ThisQueue)
  <2>1. ThisBlock.oid \in Nat \ {0} /\ run.index \in Nat
    BY <1>1, ThisBlockType, RunFields DEF RInv
  <2>2. QED
    BY <1>2, <2>1, SlotFacts, ThisQueueType DEF Belongs, RInv
<1>4. /\ cached[s] \in Block /\ next_event \in Nat
      /\ ActivateWaits \in SUBSET Nat
  <2>1. cached[s] \in Block /\ next_event \in Nat
    BY DEF RInv, HInv, IInv, TypeOK, HostTypes
  <2>2. ActivateWaits \in SUBSET Nat
    BY RunFields DEF ActivateWaits, RInv
  <2>3. QED
    BY <2>1, <2>2
<1>5. ThisBlock \in Block
  <2>1. Accepted(ThisBlock.oid, ThisBlock.bid, ThisBlock.len)
    BY <1>0 DEF NewFill, Fill
  <2>2. QED
    BY <1>1, <2>1, ThisBlockType, ThisBlockLength DEF RInv, Block
<1>6. CASE UNCHANGED queueVars
  BY <1>6 DEF RInv, queueVars, QueueTypes, TasksAwaited
<1>7. CASE Enqueue(ThisQueue, ReadCommands(s, cached[s], ActivateWaits, next_event),
                   ReadTasks(s, cached[s], next_event))
  BY <1>3, <1>4, <1>7, ThisQueueType, ReadWork, EnqueueInv DEF RInv
<1>8. CASE Enqueue(ThisQueue, FillCommands(s, ThisBlock, ActivateWaits, next_event),
                   FillTasks(s, ThisBlock, ActivateWaits, next_event))
  BY <1>3, <1>4, <1>5, <1>8, ThisQueueType, FillWork, EnqueueInv DEF RInv
<1>9. QED
  BY <1>0, <1>6, <1>7, <1>8 DEF Transfer

\* A kernel works in buffers of its index.
LEMMA BufferOfType ==
  ASSUME HInv, Completed, pc = "run", NEW j \in 1 .. Len(ThisFun.objs)
  PROVE  /\ BufferOf(j) \in Buffer
         /\ BufferOf(j).block.oid = ThisFun.objs[j]
         /\ \E n \in 1 .. Len(run.activating) : BufferOf(j) = run.activating[n]
<1>1. run.fun \in 1 .. Len(run_queue) /\ run.activating \in Seq(Buffer)
  BY RunFields DEF HInv, Position, BufferList
<1>2. Has(run.activating, ThisFun.objs[j])
  BY <1>1 DEF Completed, Complete, ThisFun
<1>3. PICK m \in 1 .. Len(run.activating) :
           run.activating[m].block.oid = ThisFun.objs[j]
  BY <1>2 DEF Has
<1>4. run.activating[m] \in Range(run.activating)
  BY <1>1, <1>3 DEF Range
<1>5. /\ BufferOf(j) \in Range(run.activating)
      /\ BufferOf(j).block.oid = ThisFun.objs[j]
  BY <1>3, <1>4 DEF BufferOf
<1>6. PICK b \in Range(run.activating) : b = BufferOf(j)
  BY <1>5
<1>7. PICK n \in 1 .. Len(run.activating) : b = run.activating[n]
  BY <1>1, <1>6 DEF Range
<1>8. b \in Buffer
  BY <1>1, <1>7, ElementOf
<1>9. QED
  BY <1>5, <1>6, <1>7, <1>8

\* The command that RunFunction enqueues.
LEMMA KernelType ==
  ASSUME HInv, Completed, RunFunction
  PROVE  LET op == Kernel(run.wait_list, next_event)
         IN  /\ op \in Kernels
             /\ op.waits = run.wait_list /\ op.ev = next_event
             /\ op.args = [j \in 1 .. Len(ThisFun.objs) |-> BufferOf(j)]
<1> DEFINE op == Kernel(run.wait_list, next_event)
<1>1. /\ pc = "run" /\ run.fun \in 1 .. Len(run_queue) /\ run.wait_list \in SUBSET Nat
      /\ next_event \in Nat
  BY RunFields DEF RunFunction, HInv, HostTypes, Position
<1>2. ThisFun \in Runnable
  BY <1>1, ElementOf DEF HInv, HostTypes, ThisFun
<1>3. /\ op.kind = "kernel" /\ op.waits = run.wait_list /\ op.ev = next_event
      /\ op.args = [j \in 1 .. Len(ThisFun.objs) |-> BufferOf(j)]
      /\ op = [kind |-> "kernel", args |-> op.args, waits |-> op.waits, ev |-> op.ev]
  BY <1>2 DEF Kernel, Runnable
<1>4. op.args \in Seq(Buffer)
  <2>1. Len(ThisFun.objs) \in Nat
    BY <1>2 DEF Runnable
  <2>2. \A j \in 1 .. Len(ThisFun.objs) : BufferOf(j) \in Buffer
    BY <1>1, BufferOfType
  <2>3. [j \in 1 .. Len(ThisFun.objs) |-> BufferOf(j)] \in [1 .. Len(ThisFun.objs) -> Buffer]
    BY <2>2
  <2>4. QED
    BY <1>3, <2>1, <2>3, SeqDef
<1>5. QED
  BY <1>1, <1>3, <1>4 DEF Kernels

\* It belongs to the queue of its index.
LEMMA KernelQueues ==
  ASSUME RInv, RunFunction
  PROVE  QueueTypes' /\ TasksAwaited'
<1> DEFINE op == Kernel(run.wait_list, next_event)
<1>1. /\ pc = "run" /\ Enqueue(ThisQueue, <<op>>, <<>>)
      /\ run.index \in Nat
  BY RunFields DEF RunFunction, RInv
<1>2. /\ op \in Kernels
      /\ op.args = [j \in 1 .. Len(ThisFun.objs) |-> BufferOf(j)]
  BY KernelType DEF RInv
<1>3. ASSUME NEW j \in 1 .. Len(ThisFun.objs)
      PROVE  BufferOf(j).slot % DoubleBuffering = ThisQueue
  <2>0. PICK b : b = BufferOf(j)
    OBVIOUS
  <2>1. /\ b = BufferOf(j) /\ b \in Buffer
        /\ \E n \in 1 .. Len(run.activating) : b = run.activating[n]
    BY <1>1, <2>0, BufferOfType DEF RInv
  <2>2. b.slot = SlotAt(b.block.oid, run.index)
    BY <2>1 DEF RInv, InFlightInPlace, AllInPlace, InPlace
  <2>3. b.block.oid \in Nat \ {0}
    BY <2>1 DEF Buffer
  <2>4. SlotAt(b.block.oid, run.index) % DoubleBuffering = run.index % NumQueues
    BY <1>1, <2>3, SlotFacts
  <2>5. QED
    BY <2>1, <2>2, <2>4, ThisQueueType DEF RInv
<1>4. ASSUME NEW s \in SlotsOf(op)
      PROVE  s % DoubleBuffering = ThisQueue
  <2>1. SlotsOf(op) = {b.slot : b \in Range(op.args)}
    BY <1>2 DEF SlotsOf, Kernels
  <2>2. PICK j \in 1 .. Len(ThisFun.objs) : s = BufferOf(j).slot
    BY <1>2, <2>1 DEF Range
  <2>3. QED
    BY <1>3, <2>2
<1>5. op \in WorkOf(ThisQueue)
  BY <1>2, <1>4 DEF WorkOf, Work
<1> HIDE DEF op
<1>6. /\ <<op>> \in Seq(WorkOf(ThisQueue)) /\ <<>> \in Seq(WorkOf(ThisQueue))
      /\ Await(<<op>>, <<>>)
  BY <1>5 DEF Await
<1>7. QED
  BY <1>1, <1>6, ThisQueueType, EnqueueInv DEF RInv

\* What the client reads back goes through its own queue.
LEMMA ClientReadQueues ==
  ASSUME RInv, ClientRead
  PROVE  /\ QueueTypes' /\ TasksAwaited'
         /\ \A q \in 0 .. NumQueues - 1 : commands'[q] = commands[q]
<1> DEFINE b == Head(program.reads)
<1>1. b \in Block
  <2>1. program.reads \in Seq(Block) /\ program.reads # <<>>
    BY DEF ClientRead, RInv, HInv, HostTypes
  <2>2. QED
    BY <2>1
<1>2. ClientQueue \in Queues /\ next_event \in Nat
      /\ \A q \in 0 .. NumQueues - 1 : q # ClientQueue
  BY DEF ClientQueue, Queues, NumQueues, RInv, HInv, HostTypes
<1>3. ASSUME NEW s \in Slots,
             Enqueue(ClientQueue, ReadCommands(s, b, {}, next_event),
                     ReadTasks(s, b, next_event))
      PROVE  QueueTypes' /\ TasksAwaited'
             /\ \A q \in 0 .. NumQueues - 1 : commands'[q] = commands[q]
  <2>1. Belongs(s, ClientQueue) /\ {} \in SUBSET Nat
    BY DEF Belongs
  <2> HIDE DEF b
  <2>2. QueueTypes' /\ TasksAwaited'
    BY <1>1, <1>2, <1>3, <2>1, ReadWork, EnqueueInv DEF RInv
  <2>3. \A q \in 0 .. NumQueues - 1 : commands'[q] = commands[q]
    BY <1>2, <1>3 DEF Enqueue, RInv, QueueTypes, Queues, ClientQueue, NumQueues
  <2>4. QED
    BY <2>2, <2>3
<1>4. CASE UNCHANGED queueVars
  BY <1>4 DEF RInv, queueVars, QueueTypes, TasksAwaited
<1>5. QED
  BY <1>3, <1>4 DEF ClientRead

\* No step puts work into a queue its slot does not belong to, or a task
\* nobody awaits.
LEMMA QueueSteps ==
  ASSUME RInv, [SchedulerNext]_vars
  PROVE  QueueTypes' /\ TasksAwaited'
<1>1. CASE UNCHANGED queueVars
  BY <1>1 DEF RInv, queueVars, QueueTypes, TasksAwaited
<1>2. CASE \/ StartBatch \/ RegisterOk \/ RegisterFails \/ ActivateAgain \/ ActivateHit
           \/ ActivateFails \/ Deactivate \/ Finish \/ ClientEnds \/ Done
           \/ UNCHANGED vars
  BY <1>1, <1>2 DEF StartBatch, RegisterOk, RegisterFails, ActivateAgain, ActivateHit,
     ActivateFails, Deactivate, Finish, ClientEnds, Done, vars
<1>3. CASE \E q \in Queues : DeviceStep(q) \/ IOThreadStep(q)
  BY <1>3, DequeueInv DEF RInv
<1>4. QED
  BY <1>2, <1>3, MissQueues, KernelQueues, ClientReadQueues DEF SchedulerNext, HostStep

\* Nothing is in the queues of the scheduler while run is not there.
LEMMA QuietSteps ==
  ASSUME RInv, run_ret' = 1,
         \/ StartBatch \/ RegisterOk \/ RegisterFails \/ Finish \/ ClientRead \/ ClientEnds
         \/ \E q \in Queues : DeviceStep(q) \/ IOThreadStep(q)
  PROVE  Quiet'
<1>1. CASE StartBatch \/ RegisterOk \/ RegisterFails \/ ClientEnds
  <2>1. commands' = commands /\ pc \in {"idle", "register"}
    BY <1>1 DEF StartBatch, RegisterOk, RegisterFails, ClientEnds, queueVars
  <2>2. QED
    BY <2>1 DEF RInv, Quiet
<1>2. CASE Finish
  BY <1>2 DEF Finish, queueVars, Quiet
<1>3. CASE ClientRead
  <2>1. pc = "idle" /\ \A q \in 0 .. NumQueues - 1 : commands'[q] = commands[q]
    BY <1>3, ClientReadQueues DEF ClientRead
  <2>2. QED
    BY <2>1 DEF RInv, Quiet
<1>4. ASSUME NEW q \in Queues, DeviceStep(q) \/ IOThreadStep(q)
      PROVE  Quiet'
  <2>1. pc' = pc
    BY <1>4 DEF DeviceStep, IOThreadStep, hostVars
  <2>2. ASSUME NEW p \in 0 .. NumQueues - 1, commands[p] = <<>>
        PROVE  commands'[p] = <<>>
    <3>1. CASE DeviceStep(q)
      <4>1. p # q /\ p \in Queues /\ commands' = [commands EXCEPT ![q] = Tail(commands[q])]
        BY <2>2, <3>1 DEF DeviceStep, Queues, ClientQueue, NumQueues
      <4>2. QED
        BY <2>2, <4>1 DEF RInv, QueueTypes
    <3>2. CASE IOThreadStep(q)
      BY <2>2, <3>2 DEF IOThreadStep
    <3>3. QED
      BY <1>4, <3>1, <3>2
  <2>3. QED
    BY <2>1, <2>2 DEF RInv, Quiet
<1>5. QED
  BY <1>1, <1>2, <1>3, <1>4

-----------------------------------------------------------------------------
\* Before the first run nothing is cached, in flight or enqueued.
LEMMA RInit == SchedulerInit => RInv
<1> SUFFICES ASSUME SchedulerInit PROVE RInv
  OBVIOUS
<1>1. HInv
  BY SchedulerInitInv
<1>2. /\ pc = "idle" /\ run = NotRunning /\ run_queue = <<>> /\ CacheEmpty
      /\ commands = [q \in Queues |-> <<>>] /\ io = [q \in Queues |-> <<>>]
  BY DEF SchedulerInit
<1>3. /\ run.index = 0 /\ run.active = <<>> /\ run.activating = <<>>
  BY <1>2 DEF NotRunning
<1>4. Homes /\ OnlyInFlight
  BY <1>2 DEF CacheEmpty, Homes, OnlyInFlight, Unlocked, Held
<1>5. Window /\ Completed /\ Quiet /\ NothingLeft
  BY <1>2, <1>3 DEF Window, Completed, Quiet, NothingLeft, Queues, ClientQueue, NumQueues
<1>6. InFlightInPlace
  BY <1>3 DEF InFlightInPlace, AllInPlace
<1>7. QueueTypes
  <2>1. \A S : <<>> \in Seq(S)
    OBVIOUS
  <2>2. QED
    BY <1>2, <2>1 DEF QueueTypes
<1>8. TasksAwaited
  BY <1>2 DEF TasksAwaited, Await
<1>9. QED
  BY <1>1, <1>4, <1>5, <1>6, <1>7, <1>8 DEF RInv

\* The queues and the I/O threads move no slot and no buffer of run.
LEMMA QueuesMoveNothing ==
  ASSUME RInv, UNCHANGED <<cacheVars, hostVars>>
  PROVE  /\ Homes' /\ InFlightInPlace' /\ OnlyInFlight'
         /\ NothingLeft'
<1>1. UNCHANGED <<cached, users, run, run_queue, pc>>
  BY DEF cacheVars, hostVars
<1>2. Homes' /\ InFlightInPlace' /\ OnlyInFlight'
  BY <1>1, FlightsStay
<1>3. NothingLeft'
  BY <1>1 DEF RInv, NothingLeft
<1>4. QED
  BY <1>2, <1>3

\* No step that leaves run_ret at 1 is one of those of a failure.
LEMMA RNext ==
  ASSUME RInv, [SchedulerNext]_vars, run_ret' = 1
  PROVE  RInv'
<1>1. HInv' /\ Window' /\ Completed' /\ QueueTypes' /\ TasksAwaited'
  BY SchedulerNextInv, ProgressInv, QueueSteps DEF RInv
<1> SUFFICES /\ Homes' /\ InFlightInPlace' /\ OnlyInFlight'
             /\ Quiet' /\ NothingLeft'
  BY <1>1 DEF RInv
<1>2. CASE StartBatch \/ RegisterOk \/ RegisterFails \/ Finish \/ ClientRead \/ ClientEnds
  BY <1>2, OutsideInv, QuietSteps
<1>3. CASE ActivateAgain
  BY <1>3, ActivateAgainInv
<1>4. CASE ActivateHit \/ ActivateMiss
  BY <1>4, ActivateInv
<1>5. CASE ActivateFails
  BY <1>5 DEF ActivateFails, Fail
<1>6. CASE RunFunction
  BY <1>6, RunFunctionInv
<1>7. CASE Deactivate
  BY <1>7, DeactivateInv
<1>8. CASE \E q \in Queues : DeviceStep(q) \/ IOThreadStep(q)
  <2>1. UNCHANGED <<cacheVars, hostVars>>
    BY <1>8 DEF DeviceStep, IOThreadStep
  <2>2. QED
    BY <1>8, <2>1, QueuesMoveNothing, QuietSteps
<1>9. CASE Done \/ UNCHANGED vars
  <2>1. UNCHANGED vars
    BY <1>9 DEF Done
  <2>2. UNCHANGED <<cacheVars, hostVars, commands>>
    BY <2>1 DEF vars, queueVars
  <2>3. Quiet'
    BY <2>2 DEF RInv, Quiet, hostVars
  <2>4. QED
    BY <2>2, <2>3, QueuesMoveNothing
<1>10. QED
  BY <1>2, <1>3, <1>4, <1>5, <1>6, <1>7, <1>8, <1>9 DEF SchedulerNext, HostStep

\* As long as no run has failed, double buffering works as it was meant.
THEOREM DoubleBufferingInvariant == SchedulerSpec /\ [](run_ret = 1) => []RInv
<1>1. RInv /\ [SchedulerNext]_vars /\ (run_ret = 1)' => RInv'
  BY RNext
<1>2. QED
  BY <1>1, RInit, PTL DEF SchedulerSpec

\* Everything run leaves in queue q, and in the I/O thread of q, works on slots
\* of parity q, as long as no run has failed: current_queue and the slots of
\* an object advance together, whatever is cached already.
THEOREM QueuesOwnSlots == SchedulerSpec /\ [](run_ret = 1) => []QueueOwnsSlots
<1>1. RInv => QueueOwnsSlots
  <2> SUFFICES ASSUME RInv, NEW q \in 0 .. NumQueues - 1,
                      NEW op \in InQueues(q), NEW s \in SlotsOf(op)
               PROVE  s % DoubleBuffering = q
    BY DEF QueueOwnsSlots
  <2>1. q \in Queues /\ q # ClientQueue
    BY DEF Queues, ClientQueue, NumQueues
  <2>2. commands[q] \in Seq(WorkOf(q)) /\ io[q] \in Seq(WorkOf(q))
    BY <2>1 DEF RInv, QueueTypes
  <2>3. op \in WorkOf(q)
    BY <2>2 DEF InQueues, Range
  <2>4. QED
    BY <2>1, <2>3 DEF WorkOf
<1>2. QED
  BY <1>1, DoubleBufferingInvariant, PTL

\* After run has returned 1, and none before it failed, nothing is locked, no
\* function is enqueued and nothing is left in the queues: what run got it has
\* given back.
THEOREM SuccessUnlocks == SchedulerSpec /\ [](run_ret = 1) => []SuccessLeavesNoLock
<1>1. RInv => SuccessLeavesNoLock
  <2> SUFFICES ASSUME RInv, pc = "idle"
               PROVE  /\ run_queue = <<>>
                      /\ \A s \in Slots : Free(s)
                      /\ \A q \in 0 .. NumQueues - 1 : InQueues(q) = {}
    BY DEF SuccessLeavesNoLock
  <2>1. run_queue = <<>>
    BY DEF RInv, NothingLeft
  <2>2. run.active = <<>> /\ run.activating = <<>>
    BY NothingInFlight DEF RInv, HInv
  <2>3. ASSUME NEW s \in Slots
        PROVE  Free(s)
    <3>1. ~Held(s)
      BY <2>2 DEF RInv, OnlyInFlight, InFlight
    <3>2. users[s] \in Nat /\ (Free(s) <=> users[s] = 0)
      BY DEF RInv, HInv, IInv, TypeOK, LockAccounting
    <3>3. QED
      BY <3>1, <3>2 DEF Held
  <2>4. ASSUME NEW q \in 0 .. NumQueues - 1
        PROVE  InQueues(q) = {}
    <3>1. q \in Queues /\ commands[q] = <<>>
      BY DEF Queues, ClientQueue, NumQueues, RInv, Quiet
    <3>2. io[q] \in Seq(Work) /\ Await(commands[q], io[q])
      BY <3>1 DEF RInv, QueueTypes, TasksAwaited
    <3>3. ASSUME NEW m \in 1 .. Len(io[q])
          PROVE  FALSE
      <4>1. PICK n \in 1 .. Len(commands[q]) : io[q][m].ev \in commands[q][n].waits
        BY <3>2 DEF Await
      <4>2. Len(commands[q]) = 0
        BY <3>1
      <4>3. QED
        BY <4>1, <4>2
    <3>4. io[q] = <<>>
      <4>1. io[q] # <<>> => 1 \in 1 .. Len(io[q])
        BY <3>2
      <4>2. QED
        BY <3>3, <4>1
    <3>5. QED
      BY <3>1, <3>4 DEF InQueues, Range
  <2>5. QED
    BY <2>1, <2>3, <2>4
<1>2. QED
  BY <1>1, DoubleBufferingInvariant, PTL

-----------------------------------------------------------------------------
(***************************************************************************)
(* What run leaves behind: commands of the device and tasks of the I/O     *)
(* threads, every one with an event of its own, and which of them may run  *)
(* at the same time.  Clients that the pool is large enough for, and that  *)
(* cut all objects of a batch into the same number of blocks: no run of    *)
(* theirs fails, so that what holds as long as no run has failed always    *)
(* does.  And among them the k-means clients, whose iterations leave no    *)
(* two operations in conflict.                                             *)
(***************************************************************************)
\* Blocks that commands and tasks move are blocks of objects.
InObject(block) ==
  block.oid \in 1 .. Len(objects) /\ block.bid \in 0 .. objects[block.oid].size - 1

MovedWork == {op \in Work : op.kind # "kernel" => InObject(op.block)}

WorkTypes ==
  commands \in [Queues -> Seq(MovedWork)] /\ io \in [Queues -> Seq(MovedWork)]

BlocksExist == \A s \in Slots : cached[s] # NoBlock => InObject(cached[s])

EventsBelow ==
  /\ next_event > 0
  /\ \A w \in Workers : \A n \in 1 .. Len(Backlog(w)) :
       Backlog(w)[n].ev \in 1 .. next_event - 1

\* The events run keeps are events that were created.
KeptEvents ==
  /\ {run.fst_event, run.activate_event, run.trans_event} \subseteq 0 .. next_event - 1
  /\ run.wait_list \subseteq 0 .. next_event - 1

DataTypes ==
  /\ DOMAIN memory = Oids
  /\ \A o \in Oids : memory[o] \in [0 .. objects[o].size - 1 -> Int]
  /\ stage \in [Slots -> Contents] /\ dev \in [Slots -> Contents]

\* The first value run_ret has is 1, and run returns 1 or -1.
ReturnType == run_ret \in {-1, 1}

GInv ==
  /\ HInv /\ Window /\ Completed
  /\ WorkTypes /\ BlocksExist /\ EventsDistinct /\ EventsBelow /\ KeptEvents
  /\ DataTypes /\ ReturnType

-----------------------------------------------------------------------------
\* Who works on what.
LEMMA BacklogTypes ==
  ASSUME WorkTypes, NEW w \in Workers
  PROVE  /\ Backlog(w) \in Seq(MovedWork)
         /\ \A n \in 1 .. Len(Backlog(w)) : Backlog(w)[n] \in Work
<1>1. w[1] \in Queues
  BY DEF Workers
<1>2. Backlog(w) \in Seq(MovedWork)
  BY <1>1 DEF WorkTypes, Backlog
<1>3. QED
  BY <1>2, ElementOf DEF MovedWork

\* The events that one call creates.
FreshEvents(cmds, tasks, n) ==
  /\ \A i \in 1 .. Len(cmds) : cmds[i].ev \in n .. n + 4
  /\ \A i \in 1 .. Len(tasks) : tasks[i].ev \in n .. n + 4
  /\ \A i, j \in 1 .. Len(cmds) : cmds[i].ev = cmds[j].ev => i = j
  /\ \A i, j \in 1 .. Len(tasks) : tasks[i].ev = tasks[j].ev => i = j
  /\ \A i \in 1 .. Len(cmds) : \A j \in 1 .. Len(tasks) : cmds[i].ev # tasks[j].ev

\* What worker w gets of it.
Added(w, q, cmds, tasks) ==
  IF w = <<q, "device">> THEN cmds ELSE IF w = <<q, "io">> THEN tasks ELSE <<>>

\* A transfer of a block is work.
LEMMA OpMoved ==
  ASSUME NEW kind \in {"read", "write", "load", "back", "barrier"}, NEW s \in Slots,
         NEW block \in Block, InObject(block), NEW waits \in SUBSET Nat, NEW ev \in Nat
  PROVE  /\ Op(kind, s, block, waits, ev) \in MovedWork
         /\ Op(kind, s, block, waits, ev).ev = ev
BY DEF Op, MovedWork, Work, Transfers

\* Three commands after one another.
LEMMA ThreeInOrder ==
  ASSUME NEW a, NEW b, NEW c
  PROVE  /\ <<a, b>> \o <<c>> = <<a, b, c>>
         /\ <<>> \o <<c>> = <<c>>
         /\ Append(<<a>>, b) = <<a, b>>
<1> DEFINE S == {a, b, c}
<1>1. /\ <<a, b>> \in Seq(S) /\ <<c>> \in Seq(S) /\ <<a, b, c>> \in Seq(S)
      /\ <<>> \in Seq(S) /\ <<a>> \in Seq(S)
  OBVIOUS
<1>2. <<a, b>> \o <<c>> = <<a, b, c>>
  <2>1. /\ <<a, b>> \o <<c>> \in Seq(S) /\ Len(<<a, b>> \o <<c>>) = 3
        /\ \A i \in 1 .. 3 : (<<a, b>> \o <<c>>)[i] = <<a, b, c>>[i]
    BY <1>1
  <2> HIDE DEF S
  <2>2. QED
    BY <1>1, <2>1, SeqEqual
<1>3. <<>> \o <<c>> = <<c>>
  BY <1>1, ConcatEmptySeq
<1>4. Append(<<a>>, b) = <<a, b>>
  <2>1. Append(<<a>>, b) \in Seq(S) /\ Len(Append(<<a>>, b)) = 2
        /\ \A i \in 1 .. 2 : Append(<<a>>, b)[i] = <<a, b>>[i]
    BY <1>1
  <2>2. <<a, b>> \in Seq(S) /\ Len(<<a, b>>) = 2
    BY <1>1
  <2> HIDE DEF S
  <2>3. QED
    BY <2>1, <2>2, SeqEqual
<1>5. QED
  BY <1>2, <1>3, <1>4

\* What write_and_get leaves behind when it evicts a mutable block, and when
\* there is nothing to return.
EvictCommands(s, block, waits, n) ==
  <<Op("read", s, cached[s], waits, n), Op("barrier", s, cached[s], {n + 1}, n + 2),
    Op("write", s, block, {n + 3}, n + 4)>>

EvictTasks(s, block, waits, n) ==
  <<Op("back", s, cached[s], {n}, n + 1),
    Op("load", s, block, waits \cup {n + 2}, n + 3)>>

LoadCommands(s, block, n) == <<Op("write", s, block, {n + 3}, n + 4)>>
LoadTasks(s, block, waits, n) == <<Op("load", s, block, waits, n + 3)>>

\* Command by command.
LEMMA FillShape ==
  ASSUME NEW s, NEW block, NEW waits, NEW n
  PROVE  /\ WritesBack(s) =>
              /\ FillCommands(s, block, waits, n) = EvictCommands(s, block, waits, n)
              /\ FillTasks(s, block, waits, n) = EvictTasks(s, block, waits, n)
         /\ ~WritesBack(s) =>
              /\ FillCommands(s, block, waits, n) = LoadCommands(s, block, n)
              /\ FillTasks(s, block, waits, n) = LoadTasks(s, block, waits, n)
<1> DEFINE a == Op("read", s, cached[s], waits, n)
           b == Op("barrier", s, cached[s], {n + 1}, n + 2)
           c == Op("write", s, block, {n + 3}, n + 4)
           t == Op("back", s, cached[s], {n}, n + 1)
           u == Op("load", s, block, waits \cup {n + 2}, n + 3)
<1>1. /\ <<a, b>> \o <<c>> = <<a, b, c>> /\ <<>> \o <<c>> = <<c>>
      /\ Append(<<t>>, u) = <<t, u>>
  <2> HIDE DEF a, b, c, t, u
  <2>1. QED
    BY ThreeInOrder
<1>2. /\ ReadCommands(s, cached[s], waits, n) = <<a, b>>
      /\ ReadTasks(s, cached[s], n) = <<t>>
  BY DEF ReadCommands, ReadTasks
<1>3. /\ FillCommands(s, block, waits, n) =
           (IF WritesBack(s) THEN ReadCommands(s, cached[s], waits, n) ELSE <<>>) \o <<c>>
      /\ FillTasks(s, block, waits, n) =
           IF WritesBack(s) THEN Append(ReadTasks(s, cached[s], n), u)
           ELSE LoadTasks(s, block, waits, n)
  BY DEF FillCommands, FillTasks, LoadTasks
<1>4. /\ EvictCommands(s, block, waits, n) = <<a, b, c>>
      /\ EvictTasks(s, block, waits, n) = <<t, u>>
      /\ LoadCommands(s, block, n) = <<c>>
  BY DEF EvictCommands, EvictTasks, LoadCommands
<1> HIDE DEF a, b, c, t, u
<1>5. QED
  BY <1>1, <1>2, <1>3, <1>4

\* What read leaves behind is work, with events of its own.
LEMMA ReadMoved ==
  ASSUME NEW s \in Slots, NEW block \in Block, InObject(block),
         NEW waits \in SUBSET Nat, NEW n \in Nat
  PROVE  /\ ReadCommands(s, block, waits, n) \in Seq(MovedWork)
         /\ ReadTasks(s, block, n) \in Seq(MovedWork)
         /\ FreshEvents(ReadCommands(s, block, waits, n), ReadTasks(s, block, n), n)
<1> DEFINE a == Op("read", s, block, waits, n)
           b == Op("barrier", s, block, {n + 1}, n + 2)
           c == Op("back", s, block, {n}, n + 1)
<1>1. /\ a \in MovedWork /\ b \in MovedWork /\ c \in MovedWork
      /\ a.ev = n /\ b.ev = n + 2 /\ c.ev = n + 1
  BY OpMoved
<1> HIDE DEF a, b, c
<1>2. <<a, b>> \in Seq(MovedWork) /\ <<c>> \in Seq(MovedWork)
  BY <1>1
<1>3. FreshEvents(<<a, b>>, <<c>>, n)
  BY <1>1 DEF FreshEvents
<1>4. QED
  BY <1>2, <1>3 DEF ReadCommands, ReadTasks, a, b, c

\* So is what write_and_get leaves behind.
LEMMA FillMoved ==
  ASSUME NEW s \in Slots, cached[s] \in Block, WritesBack(s) => InObject(cached[s]),
         NEW block \in Block, InObject(block), NEW waits \in SUBSET Nat, NEW n \in Nat
  PROVE  /\ FillCommands(s, block, waits, n) \in Seq(MovedWork)
         /\ FillTasks(s, block, waits, n) \in Seq(MovedWork)
         /\ FreshEvents(FillCommands(s, block, waits, n), FillTasks(s, block, waits, n), n)
<1> DEFINE a == Op("read", s, cached[s], waits, n)
           b == Op("barrier", s, cached[s], {n + 1}, n + 2)
           c == Op("write", s, block, {n + 3}, n + 4)
           t == Op("back", s, cached[s], {n}, n + 1)
           u == Op("load", s, block, waits \cup {n + 2}, n + 3)
           u0 == Op("load", s, block, waits, n + 3)
<1>1. /\ c \in MovedWork /\ u \in MovedWork /\ u0 \in MovedWork
      /\ c.ev = n + 4 /\ u.ev = n + 3 /\ u0.ev = n + 3
  BY OpMoved
<1>2. CASE WritesBack(s)
  <2>1. /\ a \in MovedWork /\ b \in MovedWork /\ t \in MovedWork
        /\ a.ev = n /\ b.ev = n + 2 /\ t.ev = n + 1
    BY <1>2, OpMoved
  <2>2. /\ EvictCommands(s, block, waits, n) = <<a, b, c>>
        /\ EvictTasks(s, block, waits, n) = <<t, u>>
    BY DEF EvictCommands, EvictTasks
  <2> HIDE DEF a, b, c, t, u
  <2>3. <<a, b, c>> \in Seq(MovedWork) /\ <<t, u>> \in Seq(MovedWork)
    BY <1>1, <2>1
  <2>4. FreshEvents(<<a, b, c>>, <<t, u>>, n)
    BY <1>1, <2>1 DEF FreshEvents
  <2>5. QED
    BY <1>2, <2>2, <2>3, <2>4, FillShape
<1>3. CASE ~WritesBack(s)
  <2>1. /\ LoadCommands(s, block, n) = <<c>>
        /\ LoadTasks(s, block, waits, n) = <<u0>>
    BY DEF LoadCommands, LoadTasks
  <2> HIDE DEF c, u0
  <2>2. <<c>> \in Seq(MovedWork) /\ <<u0>> \in Seq(MovedWork)
    BY <1>1
  <2>3. FreshEvents(<<c>>, <<u0>>, n)
    BY <1>1 DEF FreshEvents
  <2>4. QED
    BY <1>3, <2>1, <2>2, <2>3, FillShape
<1>4. QED
  BY <1>2, <1>3

-----------------------------------------------------------------------------
\* What is enqueued comes after what is there.
LEMMA EnqueueBacklog ==
  ASSUME WorkTypes, NEW q \in Queues, NEW cmds \in Seq(MovedWork),
         NEW tasks \in Seq(MovedWork), Enqueue(q, cmds, tasks), NEW w \in Workers
  PROVE  /\ Added(w, q, cmds, tasks) \in Seq(MovedWork)
         /\ Backlog(w)' = Backlog(w) \o Added(w, q, cmds, tasks)
<1>1. PICK p \in Queues, side \in {"device", "io"} : w = <<p, side>>
  BY DEF Workers
<1>2. /\ commands' = [commands EXCEPT ![q] = commands[q] \o cmds]
      /\ io' = [io EXCEPT ![q] = io[q] \o tasks]
      /\ commands[p] \in Seq(MovedWork) /\ io[p] \in Seq(MovedWork)
  BY DEF Enqueue, WorkTypes
<1>3. commands[p] \o <<>> = commands[p] /\ io[p] \o <<>> = io[p]
  BY <1>2, ConcatEmptySeq
<1>4. CASE side = "device"
  <2>1. /\ w # <<q, "io">> /\ (w = <<q, "device">> <=> p = q)
        /\ Backlog(w) = commands[p] /\ Backlog(w)' = commands'[p]
    BY <1>1, <1>4 DEF Backlog
  <2>2. commands'[p] = IF p = q THEN commands[p] \o cmds ELSE commands[p]
    BY <1>2 DEF WorkTypes
  <2>3. CASE p = q
    <3>1. Added(w, q, cmds, tasks) = cmds
      BY <2>1, <2>3 DEF Added
    <3>2. QED
      BY <2>1, <2>2, <2>3, <3>1
  <2>4. CASE p # q
    <3>1. Added(w, q, cmds, tasks) = <<>>
      BY <2>1, <2>4 DEF Added
    <3>2. QED
      BY <1>3, <2>1, <2>2, <2>4, <3>1
  <2>5. QED
    BY <2>3, <2>4
<1>5. CASE side = "io"
  <2>1. /\ w # <<q, "device">> /\ (w = <<q, "io">> <=> p = q)
        /\ Backlog(w) = io[p] /\ Backlog(w)' = io'[p]
    BY <1>1, <1>5 DEF Backlog
  <2>2. io'[p] = IF p = q THEN io[p] \o tasks ELSE io[p]
    BY <1>2 DEF WorkTypes
  <2>3. CASE p = q
    <3>1. Added(w, q, cmds, tasks) = tasks
      BY <2>1, <2>3 DEF Added
    <3>2. QED
      BY <2>1, <2>2, <2>3, <3>1
  <2>4. CASE p # q
    <3>1. Added(w, q, cmds, tasks) = <<>>
      BY <2>1, <2>4 DEF Added
    <3>2. QED
      BY <1>3, <2>1, <2>2, <2>4, <3>1
  <2>5. QED
    BY <2>3, <2>4
<1>6. QED
  BY <1>4, <1>5

\* No two operations that one call adds have the same event.
LEMMA AddedFresh ==
  ASSUME NEW q \in Queues, NEW cmds \in Seq(MovedWork), NEW tasks \in Seq(MovedWork),
         NEW n \in Nat, FreshEvents(cmds, tasks, n),
         NEW v \in Workers, NEW w \in Workers,
         NEW i \in 1 .. Len(Added(v, q, cmds, tasks)),
         NEW j \in 1 .. Len(Added(w, q, cmds, tasks))
  PROVE  /\ Added(v, q, cmds, tasks)[i].ev \in n .. n + 4
         /\ Added(v, q, cmds, tasks)[i].ev = Added(w, q, cmds, tasks)[j].ev =>
              v = w /\ i = j
<1>1. Added(v, q, cmds, tasks) # <<>> /\ Added(w, q, cmds, tasks) # <<>>
  OBVIOUS
<1>2. CASE v = <<q, "device">> /\ w = <<q, "device">>
  BY <1>2 DEF Added, FreshEvents
<1>3. CASE v = <<q, "device">> /\ w = <<q, "io">>
  <2>1. v # w /\ <<q, "io">> # <<q, "device">>
    BY <1>3
  <2>2. QED
    BY <1>3, <2>1 DEF Added, FreshEvents
<1>4. CASE v = <<q, "io">> /\ w = <<q, "device">>
  <2>1. v # w /\ <<q, "io">> # <<q, "device">>
    BY <1>4
  <2>2. QED
    BY <1>4, <2>1 DEF Added, FreshEvents
<1>5. CASE v = <<q, "io">> /\ w = <<q, "io">>
  <2>1. <<q, "io">> # <<q, "device">>
    OBVIOUS
  <2>2. QED
    BY <1>5, <2>1 DEF Added, FreshEvents
<1>6. QED
  BY <1>1, <1>2, <1>3, <1>4, <1>5 DEF Added

\* New events are new.
LEMMA EnqueueEvents ==
  ASSUME WorkTypes, EventsDistinct, EventsBelow, next_event \in Nat, objects' = objects,
         NEW q \in Queues, NEW cmds \in Seq(MovedWork), NEW tasks \in Seq(MovedWork),
         FreshEvents(cmds, tasks, next_event), Enqueue(q, cmds, tasks)
  PROVE  WorkTypes' /\ EventsDistinct' /\ EventsBelow'
<1> DEFINE New(w) == Added(w, q, cmds, tasks)
<1>1. MovedWork' = MovedWork
  BY DEF MovedWork, InObject
<1>2. WorkTypes'
  <2>1. /\ commands' = [commands EXCEPT ![q] = commands[q] \o cmds]
        /\ io' = [io EXCEPT ![q] = io[q] \o tasks]
        /\ commands[q] \in Seq(MovedWork) /\ io[q] \in Seq(MovedWork)
    BY DEF Enqueue, WorkTypes
  <2>2. commands[q] \o cmds \in Seq(MovedWork) /\ io[q] \o tasks \in Seq(MovedWork)
    BY <2>1
  <2>3. QED
    BY <1>1, <2>1, <2>2 DEF WorkTypes
<1>3. ASSUME NEW w \in Workers
      PROVE  /\ Backlog(w) \in Seq(MovedWork) /\ New(w) \in Seq(MovedWork)
             /\ Backlog(w)' = Backlog(w) \o New(w)
             /\ Backlog(w)' \in Seq(MovedWork)
  <2>1. /\ Backlog(w) \in Seq(MovedWork) /\ New(w) \in Seq(MovedWork)
        /\ Backlog(w)' = Backlog(w) \o New(w)
    BY <1>3, BacklogTypes, EnqueueBacklog
  <2>2. Backlog(w) \o New(w) \in Seq(MovedWork)
    BY <2>1, ConcatElements
  <2>3. QED
    BY <2>1, <2>2
<1>4. ASSUME NEW w \in Workers, NEW k \in 1 .. Len(Backlog(w)')
      PROVE  \/ k \in 1 .. Len(Backlog(w)) /\ Backlog(w)'[k] = Backlog(w)[k]
             \/ \E m \in 1 .. Len(New(w)) :
                  k = Len(Backlog(w)) + m /\ Backlog(w)'[k] = New(w)[m]
  <2>1. PICK s, t : s = Backlog(w) /\ t = New(w)
    OBVIOUS
  <2>2. s \in Seq(MovedWork) /\ t \in Seq(MovedWork) /\ Backlog(w)' = s \o t
    BY <1>3, <2>1
  <2>3. k \in 1 .. Len(s \o t)
    BY <2>2
  <2>4. \/ k \in 1 .. Len(s) /\ (s \o t)[k] = s[k]
        \/ \E m \in 1 .. Len(t) : k = Len(s) + m /\ (s \o t)[k] = t[m]
    BY <2>2, <2>3, ConcatElements
  <2>5. QED
    BY <2>1, <2>2, <2>4
<1>5. next_event' = next_event + 5
  BY DEF Enqueue
<1>6. ASSUME NEW v \in Workers, NEW w \in Workers, NEW i \in 1 .. Len(New(v)),
             NEW j \in 1 .. Len(New(w))
      PROVE  /\ New(v)[i].ev \in next_event .. next_event + 4
             /\ New(v)[i].ev = New(w)[j].ev => v = w /\ i = j
  <2>1. PICK n \in Nat : n = next_event
    OBVIOUS
  <2>2. FreshEvents(cmds, tasks, n)
    BY <2>1
  <2>3. /\ Added(v, q, cmds, tasks)[i].ev \in n .. n + 4
        /\ Added(v, q, cmds, tasks)[i].ev = Added(w, q, cmds, tasks)[j].ev =>
              v = w /\ i = j
    BY <1>6, <2>2, AddedFresh
  <2>4. QED
    BY <2>1, <2>3
<1>7. ASSUME NEW w \in Workers, NEW k \in 1 .. Len(Backlog(w))
      PROVE  Backlog(w)[k].ev \in 1 .. next_event - 1
  BY DEF EventsBelow
<1> HIDE DEF New
<1>8. EventsBelow'
  <2>1. ASSUME NEW w \in Workers, NEW k \in 1 .. Len(Backlog(w)')
        PROVE  Backlog(w)'[k].ev \in 1 .. next_event' - 1
    <3>1. CASE k \in 1 .. Len(Backlog(w)) /\ Backlog(w)'[k] = Backlog(w)[k]
      BY <1>5, <1>7, <3>1
    <3>2. ASSUME NEW m \in 1 .. Len(New(w)), Backlog(w)'[k] = New(w)[m]
          PROVE  Backlog(w)'[k].ev \in 1 .. next_event' - 1
      <4>1. New(w)[m].ev \in next_event .. next_event + 4
        BY <1>6
      <4>2. QED
        BY <1>5, <3>2, <4>1 DEF EventsBelow
    <3>3. QED
      BY <1>4, <3>1, <3>2
  <2>2. next_event' > 0
    BY <1>5 DEF EventsBelow
  <2>3. QED
    BY <2>1, <2>2 DEF EventsBelow
<1>9. EventsDistinct'
  <2> SUFFICES ASSUME NEW v \in Workers, NEW w \in Workers,
                      NEW i \in 1 .. Len(Backlog(v)'), NEW j \in 1 .. Len(Backlog(w)'),
                      Backlog(v)'[i].ev = Backlog(w)'[j].ev
               PROVE  v = w /\ i = j
    <3>1. \A w \in Workers : Backlog(w)' \in Seq(MovedWork)
      BY <1>3
    <3>2. \A w \in Workers : DOMAIN (Backlog(w)') = 1 .. Len(Backlog(w)')
      BY <3>1
    <3>3. QED
      BY <3>2 DEF EventsDistinct
  <2>1. CASE /\ i \in 1 .. Len(Backlog(v)) /\ Backlog(v)'[i] = Backlog(v)[i]
             /\ j \in 1 .. Len(Backlog(w)) /\ Backlog(w)'[j] = Backlog(w)[j]
    <3>1. i \in DOMAIN Backlog(v) /\ j \in DOMAIN Backlog(w)
      BY <1>3, <2>1
    <3>2. QED
      BY <2>1, <3>1 DEF EventsDistinct
  <2>2. ASSUME i \in 1 .. Len(Backlog(v)), Backlog(v)'[i] = Backlog(v)[i],
               NEW m \in 1 .. Len(New(w)), Backlog(w)'[j] = New(w)[m]
        PROVE  FALSE
    <3>1. Backlog(v)[i].ev \in 1 .. next_event - 1
      BY <1>7, <2>2
    <3>2. New(w)[m].ev \in next_event .. next_event + 4
      BY <1>6, <2>2
    <3>3. QED
      BY <2>2, <3>1, <3>2
  <2>3. ASSUME j \in 1 .. Len(Backlog(w)), Backlog(w)'[j] = Backlog(w)[j],
               NEW m \in 1 .. Len(New(v)), Backlog(v)'[i] = New(v)[m]
        PROVE  FALSE
    <3>1. Backlog(w)[j].ev \in 1 .. next_event - 1
      BY <1>7, <2>3
    <3>2. New(v)[m].ev \in next_event .. next_event + 4
      BY <1>6, <2>3
    <3>3. QED
      BY <2>3, <3>1, <3>2
  <2>4. ASSUME NEW m \in 1 .. Len(New(v)), i = Len(Backlog(v)) + m, Backlog(v)'[i] = New(v)[m],
               NEW n \in 1 .. Len(New(w)), j = Len(Backlog(w)) + n, Backlog(w)'[j] = New(w)[n]
        PROVE  v = w /\ i = j
    <3>1. v = w /\ m = n
      BY <1>6, <2>4
    <3>2. QED
      BY <2>4, <3>1
  <2>5. QED
    BY <1>4, <2>1, <2>2, <2>3, <2>4
<1>10. QED
  BY <1>2, <1>8, <1>9

\* A worker does the first piece of its work; what it leaves is as it was.
WorkerStep(w) ==
  /\ Backlog(w) # <<>> /\ Ready(Head(Backlog(w))) /\ Execute(Head(Backlog(w)))
  /\ Backlog(w)' = Tail(Backlog(w))
  /\ \A v \in Workers : v # w => Backlog(v)' = Backlog(v)
  /\ next_event' = next_event
  /\ UNCHANGED <<cacheVars, hostVars>>

\* Steps of the device and of the I/O threads are such steps.
LEMMA WorkerSteps ==
  ASSUME WorkTypes, NEW q \in Queues, DeviceStep(q) \/ IOThreadStep(q)
  PROVE  /\ \E w \in Workers : WorkerStep(w)
         /\ commands' \in [Queues -> Seq(MovedWork)]
         /\ io' \in [Queues -> Seq(MovedWork)]
<1>0. /\ commands \in [Queues -> Seq(MovedWork)] /\ io \in [Queues -> Seq(MovedWork)]
      /\ commands[q] \in Seq(MovedWork) /\ io[q] \in Seq(MovedWork)
  BY DEF WorkTypes
<1>1. CASE DeviceStep(q)
  <2>1. /\ commands[q] # <<>> /\ Ready(Head(commands[q])) /\ Execute(Head(commands[q]))
        /\ commands' = [commands EXCEPT ![q] = Tail(commands[q])]
        /\ UNCHANGED <<cacheVars, hostVars, io, next_event>>
    BY <1>1 DEF DeviceStep
  <2>2. PICK w \in Workers : w = <<q, "device">>
    BY DEF Workers
  <2>3. Backlog(w) = commands[q] /\ Backlog(w)' = commands'[q]
    BY <2>2 DEF Backlog
  <2>4. ASSUME NEW v \in Workers, v # w
        PROVE  Backlog(v)' = Backlog(v)
    <3>1. PICK p \in Queues, side \in {"device", "io"} : v = <<p, side>>
      BY DEF Workers
    <3>2. side = "device" => p # q
      BY <2>2, <2>4, <3>1
    <3>3. p # q => commands'[p] = commands[p]
      BY <1>0, <2>1
    <3>4. QED
      BY <2>1, <3>1, <3>2, <3>3 DEF Backlog
  <2>5. commands'[q] = Tail(commands[q]) /\ Tail(commands[q]) \in Seq(MovedWork)
    BY <1>0, <2>1
  <2>6. WorkerStep(w)
    BY <2>1, <2>3, <2>4, <2>5 DEF WorkerStep
  <2>7. QED
    BY <1>0, <2>1, <2>5, <2>6
<1>2. CASE IOThreadStep(q)
  <2>1. /\ io[q] # <<>> /\ Ready(Head(io[q])) /\ Execute(Head(io[q]))
        /\ io' = [io EXCEPT ![q] = Tail(io[q])]
        /\ UNCHANGED <<cacheVars, hostVars, commands, next_event>>
    BY <1>2 DEF IOThreadStep
  <2>2. PICK w \in Workers : w = <<q, "io">>
    BY DEF Workers
  <2>3. Backlog(w) = io[q] /\ Backlog(w)' = io'[q]
    BY <2>2 DEF Backlog
  <2>4. ASSUME NEW v \in Workers, v # w
        PROVE  Backlog(v)' = Backlog(v)
    <3>1. PICK p \in Queues, side \in {"device", "io"} : v = <<p, side>>
      BY DEF Workers
    <3>2. side = "io" => p # q
      BY <2>2, <2>4, <3>1
    <3>3. p # q => io'[p] = io[p]
      BY <1>0, <2>1
    <3>4. QED
      BY <2>1, <3>1, <3>2, <3>3 DEF Backlog
  <2>5. io'[q] = Tail(io[q]) /\ Tail(io[q]) \in Seq(MovedWork)
    BY <1>0, <2>1
  <2>6. WorkerStep(w)
    BY <2>1, <2>3, <2>4, <2>5 DEF WorkerStep
  <2>7. QED
    BY <1>0, <2>1, <2>5, <2>6
<1>3. QED
  BY <1>1, <1>2

\* What a worker leaves was there, one place further down if it is its own.
LEMMA BacklogShrinks ==
  ASSUME WorkTypes, NEW w \in Workers, WorkerStep(w), NEW v \in Workers
  PROVE  /\ Backlog(v)' \in Seq(MovedWork)
         /\ \A k \in 1 .. Len(Backlog(v)') :
              LET d == IF v = w THEN 1 ELSE 0
              IN  k + d \in 1 .. Len(Backlog(v)) /\ Backlog(v)'[k] = Backlog(v)[k + d]
<1>1. Backlog(v) \in Seq(MovedWork) /\ Backlog(w) \in Seq(MovedWork)
  BY BacklogTypes
<1>2. CASE v = w
  <2>1. PICK s : s = Backlog(w)
    OBVIOUS
  <2>2. s \in Seq(MovedWork) /\ s # <<>> /\ Backlog(v)' = Tail(s)
    BY <1>1, <1>2, <2>1 DEF WorkerStep
  <2>3. Tail(s) \in Seq(MovedWork) /\ Len(Tail(s)) = Len(s) - 1
        /\ \A k \in 1 .. Len(Tail(s)) : k + 1 \in 1 .. Len(s) /\ Tail(s)[k] = s[k + 1]
    BY <2>2
  <2>4. QED
    BY <1>2, <2>1, <2>2, <2>3
<1>3. CASE v # w
  <2>1. Backlog(v)' = Backlog(v)
    BY <1>3 DEF WorkerStep
  <2>2. \A k \in 1 .. Len(Backlog(v)) : k + 0 = k
    OBVIOUS
  <2>3. QED
    BY <1>1, <1>3, <2>1, <2>2
<1>4. QED
  BY <1>2, <1>3

\* Its events are still distinct.
LEMMA DequeueEvents ==
  ASSUME WorkTypes, EventsDistinct, EventsBelow, NEW w \in Workers, WorkerStep(w)
  PROVE  EventsDistinct' /\ EventsBelow'
<1>1. next_event' = next_event
  BY DEF WorkerStep
<1>2. ASSUME NEW v \in Workers, NEW k \in 1 .. Len(Backlog(v)')
      PROVE  Backlog(v)'[k].ev \in 1 .. next_event - 1
  <2>1. \E n \in 1 .. Len(Backlog(v)) : Backlog(v)'[k] = Backlog(v)[n]
    BY <1>2, BacklogShrinks
  <2>2. QED
    BY <2>1 DEF EventsBelow
<1>3. ASSUME NEW u \in Workers, NEW v \in Workers,
             NEW i \in 1 .. Len(Backlog(u)'), NEW j \in 1 .. Len(Backlog(v)'),
             Backlog(u)'[i].ev = Backlog(v)'[j].ev
      PROVE  u = v /\ i = j
  <2>1. PICK d, e :
          /\ d = IF u = w THEN 1 ELSE 0
          /\ e = IF v = w THEN 1 ELSE 0
    OBVIOUS
  <2>2. /\ i + d \in 1 .. Len(Backlog(u)) /\ Backlog(u)'[i] = Backlog(u)[i + d]
        /\ j + e \in 1 .. Len(Backlog(v)) /\ Backlog(v)'[j] = Backlog(v)[j + e]
    BY <1>3, <2>1, BacklogShrinks
  <2>3. i + d \in DOMAIN Backlog(u) /\ j + e \in DOMAIN Backlog(v)
    <3>1. Backlog(u) \in Seq(MovedWork) /\ Backlog(v) \in Seq(MovedWork)
      BY BacklogTypes
    <3>2. QED
      BY <2>2, <3>1
  <2>4. u = v /\ i + d = j + e
    BY <1>3, <2>2, <2>3 DEF EventsDistinct
  <2>5. QED
    BY <1>3, <2>1, <2>4
<1>4. EventsBelow'
  BY <1>1, <1>2 DEF EventsBelow
<1>5. EventsDistinct'
  <2>1. \A v \in Workers : DOMAIN (Backlog(v)') = 1 .. Len(Backlog(v)')
    BY BacklogShrinks
  <2>2. QED
    BY <1>3, <2>1 DEF EventsDistinct
<1>6. QED
  BY <1>4, <1>5

-----------------------------------------------------------------------------
(***************************************************************************)
(* The queues hold work, and every piece of it has an event of its own     *)
(***************************************************************************)
\* Only an activation that misses changes what a slot holds.
LEMMA CacheSteps ==
  ASSUME [SchedulerNext]_vars
  PROVE  objects' = objects /\ (cached' = cached \/ ActivateMiss)
<1>1. CASE UNCHANGED cacheVars
  BY <1>1 DEF cacheVars
<1>2. CASE ActivateHit
  BY <1>2 DEF ActivateHit, GetHit
<1>3. CASE ActivateMiss
  BY <1>3 DEF ActivateMiss, Fill
<1>4. CASE ActivateFails
  <2>1. ret' = -1 /\ Get(ThisBlock.oid, ThisBlock.bid, ThisBlock.len)
    BY <1>4 DEF ActivateFails
  <2>2. ret' # 1
    BY <2>1
  <2>3. QED
    BY <2>1, <2>2 DEF Get, WriteAndGet, Refused, Return, GetHit, GetLocked, Fill,
       FillFails, NoSlot, HandOut
<1>5. CASE Deactivate
  BY <1>5 DEF Deactivate, DeactivateBuffer, Unlock, UnlockFound, UnlockRefused, Return
<1>6. CASE ClientRead
  BY <1>6 DEF ClientRead, ReadBack, ReadNothing, Return
<1>7. QED
  <2>1. ASSUME SchedulerNext
        PROVE  \/ UNCHANGED cacheVars
               \/ ActivateHit \/ ActivateMiss \/ ActivateFails \/ Deactivate \/ ClientRead
    BY <2>1 DEF SchedulerNext, HostStep, StartBatch, RegisterOk, RegisterFails,
         ActivateAgain, RunFunction, Finish, ClientEnds, DeviceStep, IOThreadStep,
         Done, vars
  <2>2. ASSUME UNCHANGED vars PROVE UNCHANGED cacheVars
    BY <2>2 DEF vars
  <2>3. QED
    BY <1>1, <1>2, <1>3, <1>4, <1>5, <1>6, <2>1, <2>2

\* The block that is filled in is a block of an object.
LEMMA ThisBlockInObject ==
  ASSUME HInv, pc = "activate", Accepted(ThisBlock.oid, ThisBlock.bid, ThisBlock.len)
  PROVE  ThisBlock \in Block /\ InObject(ThisBlock)
<1>1. ThisBlock.oid \in Nat \ {0} /\ ThisBlock.bid \in Nat /\ ThisBlock.len \in Nat
  BY ThisBlockType, ThisBlockLength
<1>2. /\ ThisBlock.oid \in 1 .. Len(objects)
      /\ ThisBlock.bid < objects[ThisBlock.oid].size
  BY DEF Accepted, ValidPtr, Oids
<1>3. objects[ThisBlock.oid].size \in Nat
  <2>1. PICK o \in 1 .. Len(objects) : o = ThisBlock.oid
    BY <1>2
  <2>2. objects \in Seq([size : Nat, mode : ObjectMode])
    BY DEF HInv, IInv, TypeOK
  <2>3. objects[o] \in [size : Nat, mode : ObjectMode]
    BY <2>2, ElementOf
  <2>4. QED
    BY <2>1, <2>3
<1>4. ThisBlock = [oid |-> ThisBlock.oid, bid |-> ThisBlock.bid, len |-> ThisBlock.len]
  BY DEF ThisBlock, BlockAt
<1>5. ThisBlock \in Block
  BY <1>1, <1>4 DEF Block
<1>6. QED
  BY <1>1, <1>2, <1>3, <1>5 DEF InObject

\* What an activation that misses fills in.
LEMMA MissFills ==
  ASSUME HInv, ActivateMiss
  PROVE  \E s \in Slots :
           /\ NewFill(s, ThisBlock.oid, ThisBlock.bid, ThisBlock.len)
           /\ Transfer(s, next_event)
           /\ cached[s] \in Block /\ cached' = [cached EXCEPT ![s] = ThisBlock]
           /\ ThisBlock \in Block /\ InObject(ThisBlock)
<1>1. PICK s \in Slots : /\ NewFill(s, ThisBlock.oid, ThisBlock.bid, ThisBlock.len)
                         /\ Transfer(s, next_event)
  BY DEF ActivateMiss, NewFill
<1>2. /\ pc = "activate" /\ Accepted(ThisBlock.oid, ThisBlock.bid, ThisBlock.len)
      /\ cached' = [cached EXCEPT ![s] = [oid |-> ThisBlock.oid, bid |-> ThisBlock.bid,
                                          len |-> ThisBlock.len]]
  BY <1>1 DEF NewFill, Fill, ActivateMiss
<1>3. ThisBlock = [oid |-> ThisBlock.oid, bid |-> ThisBlock.bid, len |-> ThisBlock.len]
  BY DEF ThisBlock, BlockAt
<1>4. cached[s] \in Block
  BY DEF HInv, IInv, TypeOK
<1>5. QED
  BY <1>1, <1>2, <1>3, <1>4, ThisBlockInObject

\* The slots hold blocks of objects.
LEMMA BlocksExistStep ==
  ASSUME HInv, BlocksExist, [SchedulerNext]_vars
  PROVE  BlocksExist'
<1>1. objects' = objects
  BY CacheSteps
<1>2. CASE cached' = cached
  BY <1>1, <1>2 DEF BlocksExist, InObject
<1>3. CASE ActivateMiss
  <2>1. PICK s \in Slots : /\ cached' = [cached EXCEPT ![s] = ThisBlock]
                           /\ InObject(ThisBlock)
    BY <1>3, MissFills
  <2>2. ASSUME NEW t \in Slots, NEW b, b = cached'[t], b # NoBlock
        PROVE  InObject(b)'
    <3>1. cached'[t] = IF t = s THEN ThisBlock ELSE cached[t]
      BY <2>1 DEF HInv, IInv, TypeOK
    <3>2. InObject(b)
      BY <2>1, <2>2, <3>1 DEF BlocksExist
    <3>3. QED
      BY <1>1, <3>2 DEF InObject
  <2>3. QED
    BY <2>2 DEF BlocksExist, NoBlock, InObject
<1>4. QED
  BY <1>2, <1>3, CacheSteps

\* The block in an assigned slot, if it is written back, exists.
LEMMA EvictedInObject ==
  ASSUME BlocksExist, NEW s \in Slots, WritesBack(s)
  PROVE  InObject(cached[s])
BY DEF BlocksExist, WritesBack

QueueInv == WorkTypes /\ EventsDistinct /\ EventsBelow

\* The transfers of an activation.
LEMMA MissEvents ==
  ASSUME HInv, BlocksExist, QueueInv, ActivateMiss
  PROVE  QueueInv'
<1>1. PICK s \in Slots :
           /\ Transfer(s, next_event) /\ cached[s] \in Block
           /\ ThisBlock \in Block /\ InObject(ThisBlock)
  BY MissFills
<1>2. objects' = objects /\ next_event \in Nat /\ run.index \in Nat
  BY RunFields DEF ActivateMiss, Fill, HInv, HostTypes
<1>3. ActivateWaits \in SUBSET Nat
  BY RunFields DEF ActivateWaits
<1>4. ThisQueue \in Queues
  BY <1>2, ThisQueueType
<1>5. CASE UNCHANGED queueVars
  BY <1>2, <1>5 DEF QueueInv, queueVars, WorkTypes, MovedWork, InObject, EventsDistinct,
     EventsBelow, Backlog
<1>6. CASE WritesBack(s) /\ Enqueue(ThisQueue, ReadCommands(s, cached[s], ActivateWaits, next_event),
                   ReadTasks(s, cached[s], next_event))
  <2>1. InObject(cached[s])
    BY <1>6, EvictedInObject
  <2>2. /\ ReadCommands(s, cached[s], ActivateWaits, next_event) \in Seq(MovedWork)
        /\ ReadTasks(s, cached[s], next_event) \in Seq(MovedWork)
        /\ FreshEvents(ReadCommands(s, cached[s], ActivateWaits, next_event),
                       ReadTasks(s, cached[s], next_event), next_event)
    BY <1>1, <1>2, <1>3, <2>1, ReadMoved
  <2>3. QED
    BY <1>2, <1>4, <1>6, <2>2, EnqueueEvents DEF QueueInv
<1>7. CASE Enqueue(ThisQueue, FillCommands(s, ThisBlock, ActivateWaits, next_event),
                   FillTasks(s, ThisBlock, ActivateWaits, next_event))
  <2>1. /\ FillCommands(s, ThisBlock, ActivateWaits, next_event) \in Seq(MovedWork)
        /\ FillTasks(s, ThisBlock, ActivateWaits, next_event) \in Seq(MovedWork)
        /\ FreshEvents(FillCommands(s, ThisBlock, ActivateWaits, next_event),
                       FillTasks(s, ThisBlock, ActivateWaits, next_event), next_event)
    BY <1>1, <1>2, <1>3, EvictedInObject, FillMoved
  <2>2. QED
    BY <1>2, <1>4, <1>7, <2>1, EnqueueEvents DEF QueueInv
<1>8. QED
  BY <1>1, <1>5, <1>6, <1>7 DEF Transfer

\* A kernel.
LEMMA KernelEvents ==
  ASSUME HInv, Completed, QueueInv, RunFunction
  PROVE  QueueInv'
<1> DEFINE op == Kernel(run.wait_list, next_event)
<1>1. /\ Enqueue(ThisQueue, <<op>>, <<>>) /\ objects' = objects
      /\ run.index \in Nat /\ next_event \in Nat
  BY RunFields DEF RunFunction, cacheVars, HInv, HostTypes
<1>2. op \in MovedWork /\ op.ev = next_event
  BY KernelType DEF MovedWork, Work, Kernels
<1>3. ThisQueue \in Queues
  BY <1>1, ThisQueueType
<1> HIDE DEF op
<1>4. /\ <<op>> \in Seq(MovedWork) /\ <<>> \in Seq(MovedWork)
      /\ FreshEvents(<<op>>, <<>>, next_event)
  BY <1>1, <1>2 DEF FreshEvents
<1>5. QED
  BY <1>1, <1>3, <1>4, EnqueueEvents DEF QueueInv

\* What the client reads.
LEMMA ReadEvents ==
  ASSUME HInv, BlocksExist, QueueInv, ClientRead
  PROVE  QueueInv'
<1>1. PICK b : b = Head(program.reads)
  OBVIOUS
<1>2. b \in Block
  <2>1. program.reads \in Seq(Block) /\ program.reads # <<>>
    BY DEF ClientRead, HInv, HostTypes
  <2>2. QED
    BY <1>1, <2>1
<1>3. ClientQueue \in Queues /\ next_event \in Nat /\ objects' = objects
  BY DEF ClientQueue, Queues, NumQueues, HInv, HostTypes, ClientRead, ReadBack,
     ReadNothing, Return
<1>4. ASSUME NEW s \in Slots, ReadBack(s, b.oid, b.bid, b.len),
             Enqueue(ClientQueue, ReadCommands(s, b, {}, next_event),
                     ReadTasks(s, b, next_event))
      PROVE  QueueInv'
  <2>1. cached[s].oid = b.oid /\ cached[s].bid = b.bid /\ b.oid \in Oids
    BY <1>4 DEF ReadBack, FoundAt, Holds, Accepted, ValidPtr
  <2>2. cached[s] # NoBlock
    BY <2>1 DEF NoBlock, Oids
  <2>3. InObject(b)
    BY <2>1, <2>2 DEF BlocksExist, InObject
  <2>4. /\ ReadCommands(s, b, {}, next_event) \in Seq(MovedWork)
        /\ ReadTasks(s, b, next_event) \in Seq(MovedWork)
        /\ FreshEvents(ReadCommands(s, b, {}, next_event), ReadTasks(s, b, next_event),
                       next_event)
    BY <1>2, <1>3, <2>3, ReadMoved
  <2>5. QED
    BY <1>3, <1>4, <2>4, EnqueueEvents DEF QueueInv
<1>5. CASE UNCHANGED queueVars
  BY <1>3, <1>5 DEF QueueInv, queueVars, WorkTypes, MovedWork, InObject, EventsDistinct,
     EventsBelow, Backlog
<1>6. QED
  BY <1>1, <1>4, <1>5 DEF ClientRead

\* Whatever happens, no two pieces of work have the same event.
LEMMA QueueInvStep ==
  ASSUME HInv, Completed, BlocksExist, QueueInv, [SchedulerNext]_vars
  PROVE  QueueInv'
<1>0. objects' = objects /\ MovedWork' = MovedWork
  BY CacheSteps DEF MovedWork, InObject
<1>1. CASE UNCHANGED queueVars
  BY <1>0, <1>1 DEF QueueInv, queueVars, WorkTypes, EventsDistinct, EventsBelow, Backlog
<1>2. CASE \/ StartBatch \/ RegisterOk \/ RegisterFails \/ ActivateAgain \/ ActivateHit
           \/ ActivateFails \/ Deactivate \/ Finish \/ ClientEnds \/ Done
           \/ UNCHANGED vars
  BY <1>1, <1>2 DEF StartBatch, RegisterOk, RegisterFails, ActivateAgain, ActivateHit,
     ActivateFails, Deactivate, Finish, ClientEnds, Done, vars
<1>3. ASSUME NEW q \in Queues, DeviceStep(q) \/ IOThreadStep(q)
      PROVE  QueueInv'
  <2>1. /\ \E w \in Workers : WorkerStep(w)
        /\ commands' \in [Queues -> Seq(MovedWork)] /\ io' \in [Queues -> Seq(MovedWork)]
    BY <1>3, WorkerSteps DEF QueueInv
  <2>2. WorkTypes'
    BY <1>0, <2>1 DEF WorkTypes
  <2>3. QED
    BY <2>1, <2>2, DequeueEvents DEF QueueInv
<1>4. QED
  BY <1>2, <1>3, MissEvents, KernelEvents, ReadEvents DEF SchedulerNext, HostStep

\* Events that exist exist after the next ones.
LEMMA EventsGrow ==
  ASSUME NEW m \in Nat, NEW n \in Nat, m > 0, m <= n
  PROVE  0 \in 0 .. n - 1 /\ 0 .. m - 1 \subseteq 0 .. n - 1
OBVIOUS

\* What a get that is done leaves as it was.
LEMMA ObjectDoneLeaves ==
  /\ \A fst, act, bufs : ObjectDone(fst, act, bufs) =>
       UNCHANGED <<program, run_queue, run_ret, memory, stage, dev, log>>
  /\ \A s, ev : GotBuffer(s, ev) =>
       UNCHANGED <<program, run_queue, run_ret, memory, stage, dev, log>>
  /\ \A s, n : Transfer(s, n) =>
       UNCHANGED <<program, run_queue, run_ret, memory, stage, dev, log>>
<1>1. ASSUME NEW fst, NEW act, NEW bufs, ObjectDone(fst, act, bufs)
      PROVE  UNCHANGED <<program, run_queue, run_ret, memory, stage, dev, log>>
  BY <1>1 DEF ObjectDone, dataVars
<1>2. ASSUME NEW s, NEW ev, GotBuffer(s, ev)
      PROVE  UNCHANGED <<program, run_queue, run_ret, memory, stage, dev, log>>
  BY <1>1, <1>2 DEF GotBuffer
<1>3. ASSUME NEW s, NEW n, Transfer(s, n)
      PROVE  UNCHANGED <<program, run_queue, run_ret, memory, stage, dev, log>>
  <2>1. \E ev : GotBuffer(s, ev)
    BY <1>3 DEF Transfer
  <2>2. QED
    BY <1>2, <2>1
<1>4. QED
  BY <1>1, <1>2, <1>3

\* get_buffer and deactivation leave run with events that were created.
LEMMA ObjectDoneKeeps ==
  ASSUME HInv, KeptEvents, next_event' \in Nat, next_event <= next_event', next_event > 0,
         NEW fst \in 0 .. next_event' - 1, NEW act \in 0 .. next_event' - 1, NEW bufs,
         ObjectDone(fst, act, bufs)
  PROVE  KeptEvents'
<1>1. /\ run \in RunState /\ next_event \in Nat
  BY DEF HInv, HostTypes
<1>2. /\ run.trans_event \in 0 .. next_event' - 1 /\ run.activate_event \in 0 .. next_event' - 1
      /\ run.wait_list \subseteq 0 .. next_event' - 1
  BY <1>1, EventsGrow DEF KeptEvents
<1>3. PICK waits : waits = IF act = NoEvent THEN run.wait_list ELSE {act}
  OBVIOUS
<1>4. waits \subseteq 0 .. next_event' - 1
  BY <1>2, <1>3
<1>5. KernelWaits(waits) \subseteq 0 .. next_event' - 1
  BY <1>2, <1>4 DEF KernelWaits
<1>6. /\ run'.trans_event = run.trans_event
      /\ run'.activate_event \in {run.activate_event, act}
      /\ run'.fst_event \in {fst, NoEvent}
      /\ run'.wait_list \in {run.wait_list, waits, KernelWaits(waits)}
  <2>1. CASE run.arg = Len(ThisFun.objs)
    <3>1. run' = [run EXCEPT !.arg = 1, !.fst_event = NoEvent, !.activate_event = act,
                    !.activating = bufs,
                    !.fun = IF run.fun = Len(run_queue) THEN 1 ELSE run.fun + 1,
                    !.wait_list = IF run.fun = Len(run_queue) THEN KernelWaits(waits)
                                  ELSE waits]
      BY <1>3, <2>1 DEF ObjectDone
    <3>2. QED
      BY <1>1, <3>1 DEF RunState
  <2>2. CASE run.arg # Len(ThisFun.objs)
    <3>1. run' = [run EXCEPT !.arg = 2, !.fst_event = fst, !.activating = bufs]
      BY <2>2 DEF ObjectDone
    <3>2. QED
      BY <1>1, <3>1 DEF RunState
  <2>3. QED
    BY <2>1, <2>2
<1>7. 0 \in 0 .. next_event' - 1
  BY <1>1, EventsGrow
<1>8. QED
  BY <1>2, <1>4, <1>5, <1>6, <1>7 DEF KeptEvents, NoEvent

\* get stores an event of its own transfers, or none.
LEMMA GotBufferKeeps ==
  ASSUME HInv, KeptEvents, next_event' \in Nat, next_event <= next_event', next_event > 0,
         NEW s, NEW ev \in 0 .. next_event' - 1, GotBuffer(s, ev)
  PROVE  KeptEvents'
<1>0. next_event \in Nat
  BY DEF HInv, HostTypes
<1>1. /\ NoEvent \in 0 .. next_event' - 1
      /\ run.activate_event \in 0 .. next_event' - 1
  BY <1>0, EventsGrow DEF KeptEvents, NoEvent
<1>2. PICK bufs : /\ bufs = Append(run.activating, [slot |-> s, block |-> ThisBlock])
                  /\ \/ ObjectDone(ev, run.activate_event, bufs)
                     \/ ObjectDone(NoEvent, ev, bufs)
  BY DEF GotBuffer
<1>3. CASE ObjectDone(ev, run.activate_event, bufs)
  BY <1>1, <1>3, ObjectDoneKeeps
<1>4. CASE ObjectDone(NoEvent, ev, bufs)
  BY <1>1, <1>4, ObjectDoneKeeps
<1>5. QED
  BY <1>2, <1>3, <1>4

\* Every event run waits for, or passes on, was created before.
LEMMA KeptEventsStep ==
  ASSUME HInv, EventsBelow, KeptEvents, [SchedulerNext]_vars
  PROVE  KeptEvents'
<1>0. run \in RunState /\ next_event \in Nat /\ next_event > 0
  BY DEF HInv, HostTypes, EventsBelow
<1>1. CASE \/ StartBatch \/ RegisterOk \/ RegisterFails \/ ActivateFails \/ Finish
           \/ ClientRead \/ ClientEnds
  <2>1. run' = NotRunning
    BY <1>1, OutsideRun
  <2>2. next_event' = next_event \/ next_event' = next_event + 5
    BY <1>1 DEF StartBatch, RegisterOk, RegisterFails, ActivateFails, Finish, ClientEnds,
       ClientRead, Enqueue, queueVars
  <2>3. 0 \in 0 .. next_event' - 1
    BY <1>0, <2>2
  <2>4. /\ run'.fst_event = 0 /\ run'.activate_event = 0 /\ run'.trans_event = 0
        /\ run'.wait_list = {}
    BY <2>1 DEF NotRunning, NoEvent
  <2>5. QED
    BY <2>3, <2>4 DEF KeptEvents
<1>2. CASE ActivateAgain
  <2>1. /\ ObjectDone(run.fst_event, run.activate_event, run.activating)
        /\ next_event' = next_event
    BY <1>2 DEF ActivateAgain, queueVars
  <2>2. /\ run.fst_event \in 0 .. next_event - 1
        /\ run.activate_event \in 0 .. next_event - 1
    BY DEF KeptEvents
  <2>3. QED
    BY <1>0, <2>1, <2>2, ObjectDoneKeeps
<1>3. CASE ActivateHit
  <2>1. PICK s \in Slots : GotBuffer(s, NoEvent)
    BY <1>3 DEF ActivateHit
  <2>2. next_event' = next_event /\ NoEvent \in 0 .. next_event - 1
    BY <1>0, <1>3 DEF ActivateHit, queueVars, NoEvent
  <2>3. QED
    BY <1>0, <2>1, <2>2, GotBufferKeeps
<1>4. CASE ActivateMiss
  <2>1. PICK s \in Slots : Transfer(s, next_event)
    BY <1>4 DEF ActivateMiss
  <2>2. \E ev \in {NoEvent, next_event + 2, next_event + 4} :
           /\ GotBuffer(s, ev)
           /\ \/ next_event' = next_event /\ ev = NoEvent
              \/ next_event' = next_event + 5
    BY <2>1 DEF Transfer, Enqueue, queueVars
  <2>3. PICK ev \in {NoEvent, next_event + 2, next_event + 4} :
           /\ GotBuffer(s, ev)
           /\ next_event' \in {next_event, next_event + 5}
           /\ ev \in 0 .. next_event' - 1
    BY <1>0, <2>2 DEF NoEvent
  <2>4. next_event' \in Nat /\ next_event <= next_event'
    BY <1>0, <2>3
  <2>5. QED
    BY <1>0, <2>3, <2>4, GotBufferKeeps
<1>5. CASE RunFunction
  <2>1. next_event' = next_event + 5
    BY <1>5 DEF RunFunction, Enqueue
  <2>2. \/ run' = [run EXCEPT !.fun = run.fun + 1, !.wait_list = {next_event}]
        \/ run' = [NotRunning EXCEPT !.index = run.index + 1, !.trans_event = next_event,
                     !.active = Append(run.active, run.activating)]
    BY <1>5 DEF RunFunction
  <2>3. CASE run' = [run EXCEPT !.fun = run.fun + 1, !.wait_list = {next_event}]
    <3>1. /\ run'.fst_event = run.fst_event /\ run'.activate_event = run.activate_event
          /\ run'.trans_event = run.trans_event /\ run'.wait_list = {next_event}
      BY <1>0, <2>3 DEF RunState
    <3>2. QED
      BY <1>0, <2>1, <3>1 DEF KeptEvents
  <2>4. CASE run' = [NotRunning EXCEPT !.index = run.index + 1, !.trans_event = next_event,
                       !.active = Append(run.active, run.activating)]
    <3>1. /\ run'.fst_event = 0 /\ run'.activate_event = 0
          /\ run'.trans_event = next_event /\ run'.wait_list = {}
      BY <2>4 DEF NotRunning, NoEvent
    <3>2. QED
      BY <1>0, <2>1, <3>1 DEF KeptEvents
  <2>5. QED
    BY <2>2, <2>3, <2>4
<1>6. CASE Deactivate
  <2>1. next_event' = next_event /\ \/ run' = NotRunning
                                    \/ \E active : run' = [run EXCEPT !.active = active]
    BY <1>6 DEF Deactivate, Fail, queueVars
  <2>2. CASE run' = NotRunning
    BY <1>0, <2>1, <2>2 DEF KeptEvents, NotRunning, NoEvent
  <2>3. CASE \E active : run' = [run EXCEPT !.active = active]
    <3>1. /\ run'.fst_event = run.fst_event /\ run'.activate_event = run.activate_event
          /\ run'.trans_event = run.trans_event /\ run'.wait_list = run.wait_list
      BY <1>0, <2>3 DEF RunState
    <3>2. QED
      BY <2>1, <3>1 DEF KeptEvents
  <2>4. QED
    BY <2>1, <2>2, <2>3
<1>7. CASE UNCHANGED <<run, next_event>>
  BY <1>7 DEF KeptEvents
<1>8. CASE Done \/ UNCHANGED vars \/ \E q \in Queues : DeviceStep(q) \/ IOThreadStep(q)
  BY <1>7, <1>8 DEF Done, vars, hostVars, queueVars, DeviceStep, IOThreadStep
<1>9. QED
  BY <1>1, <1>2, <1>3, <1>4, <1>5, <1>6, <1>8 DEF SchedulerNext, HostStep

-----------------------------------------------------------------------------
\* What a kernel leaves in the buffers of the device.
LEMMA AfterKernelType ==
  ASSUME DataTypes, NEW args \in Seq(Buffer)
  PROVE  AfterKernel(args) \in [Slots -> Contents]
<1> SUFFICES ASSUME NEW s \in Slots
             PROVE  ContentsAfter(s, args) \in Contents
  BY DEF AfterKernel
<1>1. CASE WrittenBuffers(s, args) = {}
  BY <1>1 DEF ContentsAfter, DataTypes
<1>2. CASE WrittenBuffers(s, args) # {}
  <2>1. PICK b : b = CHOOSE c \in WrittenBuffers(s, args) : TRUE
    OBVIOUS
  <2>2. b \in Range(args)
    BY <1>2, <2>1 DEF WrittenBuffers
  <2>3. b \in Buffer
    BY <2>2 DEF Range
  <2>4. ContentsAfter(s, args) =
          Copy(b.block, IF objects[b.block.oid].mode = "Transient" THEN 0
                        ELSE Received(b).ver + 1)
    BY <1>2, <2>1 DEF ContentsAfter
  <2>5. b.block.oid \in Nat /\ b.block.bid \in Nat /\ b.slot \in Slots
    BY <2>3 DEF Buffer
  <2>6. Received(b).ver \in Int
    BY <2>5 DEF Received, VersionIn, DataTypes, Contents
  <2>7. QED
    BY <2>4, <2>5, <2>6 DEF Copy, Contents
<1>3. QED
  BY <1>1, <1>2

\* Commands, tasks and kernels move versions of blocks.
LEMMA ExecuteTypes ==
  ASSUME DataTypes, objects' = objects, NEW op \in MovedWork, Execute(op)
  PROVE  DataTypes'
<1>0. Oids' = Oids
  BY DEF Oids
<1>1. CASE op.kind = "kernel"
  <2>1. op \in Kernels
    BY <1>1 DEF MovedWork, Work, Transfers
  <2>2. /\ dev' = AfterKernel(op.args) /\ stage' = stage /\ memory' = memory
        /\ op.args \in Seq(Buffer)
    BY <1>1, <2>1 DEF Execute, Kernels
  <2>3. dev' \in [Slots -> Contents]
    BY <2>2, AfterKernelType
  <2>4. QED
    BY <1>0, <2>2, <2>3 DEF DataTypes
<1>2. CASE op.kind # "kernel"
  <2>1. /\ op \in Transfers /\ op.slot \in Slots /\ op.block \in Block
        /\ op.block.oid \in Oids /\ op.block.bid \in 0 .. objects[op.block.oid].size - 1
    BY <1>2 DEF MovedWork, Work, Transfers, Kernels, InObject, Oids
  <2>2. /\ op.block.oid \in Nat /\ op.block.bid \in Nat
    BY <2>1 DEF Block, Oids
  <2>3. CASE op.kind = "read"
    <3>1. stage' = [stage EXCEPT ![op.slot] = dev[op.slot]] /\ UNCHANGED <<memory, dev>>
      BY <2>3 DEF Execute
    <3>2. QED
      BY <1>0, <2>1, <3>1 DEF DataTypes
  <2>4. CASE op.kind = "write"
    <3>1. dev' = [dev EXCEPT ![op.slot] = stage[op.slot]] /\ UNCHANGED <<memory, stage>>
      BY <2>4 DEF Execute
    <3>2. QED
      BY <1>0, <2>1, <3>1 DEF DataTypes
  <2>5. CASE op.kind = "load"
    <3>1. /\ stage' = [stage EXCEPT ![op.slot] =
                         Copy(op.block, memory[op.block.oid][op.block.bid])]
          /\ UNCHANGED <<memory, dev>>
      BY <2>5 DEF Execute
    <3>2. memory[op.block.oid][op.block.bid] \in Int
      BY <2>1 DEF DataTypes
    <3>3. Copy(op.block, memory[op.block.oid][op.block.bid]) \in Contents
      BY <2>2, <3>2 DEF Copy, Contents
    <3>4. QED
      BY <1>0, <3>1, <3>3 DEF DataTypes
  <2>6. CASE op.kind = "back"
    <3>1. PICK o, b, v : /\ o = op.block.oid /\ b = op.block.bid
                         /\ v = VersionIn(stage[op.slot], op.block)
      OBVIOUS
    <3>2. memory' = [memory EXCEPT ![o][b] = v] /\ UNCHANGED <<stage, dev>>
      BY <2>6, <3>1 DEF Execute
    <3>3. v \in Int
      BY <2>1, <3>1 DEF VersionIn, DataTypes, Contents
    <3>4. ASSUME NEW p \in Oids
          PROVE  memory'[p] \in [0 .. objects[p].size - 1 -> Int]
      <4>1. memory'[p] = IF p = o THEN [memory[o] EXCEPT ![b] = v] ELSE memory[p]
        BY <3>2 DEF DataTypes
      <4>2. QED
        BY <3>3, <4>1 DEF DataTypes
    <3>5. DOMAIN memory' = Oids
      BY <3>2 DEF DataTypes
    <3>6. QED
      BY <1>0, <3>2, <3>4, <3>5 DEF DataTypes
  <2>7. CASE op.kind = "barrier"
    BY <1>0, <2>7 DEF Execute, dataVars, DataTypes
  <2>8. QED
    BY <1>2, <2>1, <2>3, <2>4, <2>5, <2>6, <2>7 DEF Transfers
<1>3. QED
  BY <1>1, <1>2

\* Nothing else touches the data.
LEMMA DataStep ==
  ASSUME WorkTypes, DataTypes, [SchedulerNext]_vars
  PROVE  DataTypes'
<1>1. objects' = objects
  BY CacheSteps
<1>2. ASSUME NEW q \in Queues, DeviceStep(q) \/ IOThreadStep(q)
      PROVE  DataTypes'
  <2>1. PICK w \in Workers : WorkerStep(w)
    BY <1>2, WorkerSteps
  <2>2. PICK s : s = Backlog(w)
    OBVIOUS
  <2>3. s \in Seq(MovedWork) /\ s # <<>> /\ Execute(Head(s))
    BY <2>1, <2>2, BacklogTypes DEF WorkerStep
  <2>4. Head(s) \in MovedWork
    BY <2>3
  <2>5. QED
    BY <1>1, <2>3, <2>4, ExecuteTypes
<1>3. CASE UNCHANGED <<memory, stage, dev>>
  BY <1>1, <1>3 DEF DataTypes, Oids, Contents
<1>4. QED
  <2>1. ASSUME HostStep
        PROVE  UNCHANGED <<memory, stage, dev>>
    <3>1. ASSUME ActivateAgain \/ ActivateHit \/ ActivateMiss
          PROVE  UNCHANGED <<memory, stage, dev>>
      <4>1. \/ \E fst, act, bufs : ObjectDone(fst, act, bufs)
            \/ \E s, ev : GotBuffer(s, ev)
            \/ \E s, n : Transfer(s, n)
        BY <3>1 DEF ActivateAgain, ActivateHit, ActivateMiss
      <4>2. QED
        BY <4>1, ObjectDoneLeaves
    <3>2. ASSUME StartBatch \/ RegisterOk \/ RegisterFails \/ ActivateFails \/ RunFunction
          PROVE  UNCHANGED <<memory, stage, dev>>
      BY <3>2 DEF StartBatch, RegisterOk, RegisterFails, ActivateFails, RunFunction, dataVars
    <3>3. ASSUME Deactivate \/ Finish \/ ClientRead \/ ClientEnds
          PROVE  UNCHANGED <<memory, stage, dev>>
      BY <3>3 DEF Deactivate, Finish, ClientRead, ClientEnds, dataVars
    <3>4. QED
      BY <2>1, <3>1, <3>2, <3>3 DEF HostStep
  <2>2. Done \/ UNCHANGED vars => UNCHANGED <<memory, stage, dev>>
    BY DEF Done, vars, dataVars
  <2>3. QED
    BY <1>2, <1>3, <2>1, <2>2 DEF SchedulerNext

\* Before the first run nothing is cached, enqueued or moved.
LEMMA GInit == SchedulerInit => GInv
<1> SUFFICES ASSUME SchedulerInit PROVE GInv
  OBVIOUS
<1>1. HInv
  BY SchedulerInitInv
<1>2. Window /\ Completed
  BY RInit DEF RInv
<1>3. /\ commands = [q \in Queues |-> <<>>] /\ io = [q \in Queues |-> <<>>]
      /\ next_event = 1 /\ run = NotRunning /\ run_ret = 1
      /\ stage = [s \in Slots |-> Garbage] /\ dev = [s \in Slots |-> Garbage]
      /\ memory = [o \in DOMAIN objects |-> [off \in 0 .. objects[o].size - 1 |-> 0]]
      /\ cached = [s \in Slots |-> NoBlock]
  BY DEF SchedulerInit, CacheEmpty
<1>4. \A w \in Workers : Backlog(w) = <<>>
  BY <1>3 DEF Workers, Backlog
<1>5. WorkTypes
  <2>1. <<>> \in Seq(MovedWork)
    OBVIOUS
  <2>2. QED
    BY <1>3, <2>1 DEF WorkTypes
<1>6. EventsDistinct /\ EventsBelow
  BY <1>3, <1>4 DEF EventsDistinct, EventsBelow
<1>7. BlocksExist /\ ReturnType
  BY <1>3 DEF BlocksExist, ReturnType
<1>8. KeptEvents
  BY <1>3 DEF KeptEvents, NotRunning, NoEvent
<1>9. DataTypes
  <2>1. objects \in Seq([size : Nat, mode : ObjectMode])
    BY <1>1 DEF HInv, IInv, TypeOK
  <2>2. DOMAIN objects = 1 .. Len(objects)
    BY <2>1
  <2>3. Garbage \in Contents
    BY DEF Garbage, Contents
  <2>4. stage \in [Slots -> Contents] /\ dev \in [Slots -> Contents]
    BY <1>3, <2>3
  <2>5. QED
    BY <1>3, <2>2, <2>4 DEF DataTypes, Oids
<1>10. QED
  BY <1>1, <1>2, <1>5, <1>6, <1>7, <1>8, <1>9 DEF GInv

LEMMA GNext == GInv /\ [SchedulerNext]_vars => GInv'
<1> SUFFICES ASSUME GInv, [SchedulerNext]_vars PROVE GInv'
  OBVIOUS
<1>1. /\ HInv /\ Window /\ Completed /\ BlocksExist /\ QueueInv /\ EventsBelow
      /\ KeptEvents /\ DataTypes /\ WorkTypes
  BY DEF GInv, QueueInv
<1>2. HInv' /\ Window' /\ Completed'
  BY <1>1, SchedulerNextInv, ProgressInv
<1>3. QueueInv' /\ BlocksExist'
  BY <1>1, QueueInvStep, BlocksExistStep
<1>4. KeptEvents' /\ DataTypes'
  BY <1>1, KeptEventsStep, DataStep
<1>5. ReturnType'
  <2>1. run_ret' \in {run_ret, -1, 1}
    BY ObjectDoneLeaves DEF SchedulerNext, HostStep, StartBatch, RegisterOk,
       RegisterFails, ActivateAgain, ActivateHit, ActivateMiss, ActivateFails,
       RunFunction, Deactivate, Finish, ClientRead, ClientEnds, Done, vars, hostVars,
       Fail, DeviceStep, IOThreadStep
  <2>2. QED
    BY <2>1 DEF GInv, ReturnType
<1>6. QED
  BY <1>2, <1>3, <1>4, <1>5 DEF GInv, QueueInv

\* Whatever fails: the slots, the variables of run and the queues keep the
\* shapes of their declarations, run keeps at most two indices in flight, and
\* no two pieces of work that are left behind have the same event.
THEOREM SchedulerTypeCorrect == SchedulerSpec => []SchedulerTypeOK
<1>1. GInv => SchedulerTypeOK
  <2> SUFFICES ASSUME GInv PROVE SchedulerTypeOK
    OBVIOUS
  <2>1. /\ HInv /\ Window /\ KeptEvents /\ EventsDistinct /\ DataTypes /\ ReturnType
    BY DEF GInv
  <2>2. TypeOK /\ pc \in Phases /\ next_event \in Nat
    BY <2>1 DEF HInv, IInv, HostTypes
  <2>3. /\ run.trans_event \in 0 .. next_event - 1
        /\ run.wait_list \subseteq 0 .. next_event - 1
    BY <2>1 DEF KeptEvents
  <2>4. 0 .. next_event - 1 \subseteq Events \cup {NoEvent}
    BY <2>2 DEF Events, NoEvent
  <2>5. Len(run.active) <= NumQueues
    <3>1. CASE pc \in {"idle", "register", "end"}
      BY <2>1, <3>1, NothingInFlight DEF HInv, NumQueues
    <3>2. CASE pc \in {"activate", "run"}
      BY <2>1, <3>2 DEF Window, NumQueues
    <3>3. PICK n : n = Len(run.active)
      OBVIOUS
    <3>4. CASE pc \in {"deactivate", "drain", "finish"}
      <4>1. /\ pc = "deactivate" => n = 2
            /\ pc = "drain" => n \in 1 .. 2
            /\ pc = "finish" => n = 0
        BY <2>1, <3>3 DEF Window
      <4>2. n \in 0 .. 2
        BY <3>4, <4>1
      <4>3. QED
        BY <3>3, <4>2 DEF NumQueues
    <3>5. QED
      BY <2>2, <3>1, <3>2, <3>4 DEF Phases
  <2>6. QED
    BY <2>1, <2>2, <2>3, <2>4, <2>5 DEF SchedulerTypeOK, DataTypes, ReturnType
<1>2. QED
  BY <1>1, GInit, GNext, PTL DEF SchedulerSpec

-----------------------------------------------------------------------------
(***************************************************************************)
(* What changes in the backlog of a worker                                 *)
(***************************************************************************)
\* The work that is left behind.
AllWork == UNION {{Backlog(w)[k] : k \in 1 .. Len(Backlog(w))} : w \in Workers}

LEMMA WorkOutstanding ==
  ASSUME WorkTypes, NEW w \in Workers, NEW k \in 1 .. Len(Backlog(w))
  PROVE  Backlog(w)[k].ev \in Outstanding
<1>1. PICK q \in Queues, side \in {"device", "io"} : w = <<q, side>>
  BY DEF Workers
<1>2. PICK op : op = Backlog(w)[k]
  OBVIOUS
<1>3. commands[q] \in Seq(MovedWork) /\ io[q] \in Seq(MovedWork)
  BY DEF WorkTypes
<1>4. op \in InQueues(q)
  BY <1>1, <1>2, <1>3 DEF Backlog, InQueues, Range
<1>5. QED
  BY <1>2, <1>4 DEF Outstanding

\* What a call adds for one worker.
LEMMA AddedWhere ==
  ASSUME NEW q \in Queues, NEW cmds, NEW tasks, NEW w \in Workers,
         Added(w, q, cmds, tasks) # <<>>
  PROVE  \/ w = <<q, "device">> /\ Added(w, q, cmds, tasks) = cmds
         \/ w = <<q, "io">> /\ Added(w, q, cmds, tasks) = tasks
BY DEF Added

\* Where the work is after something has been enqueued.
LEMMA EnqueuedWhere ==
  ASSUME WorkTypes, NEW q \in Queues, NEW cmds \in Seq(MovedWork),
         NEW tasks \in Seq(MovedWork), Enqueue(q, cmds, tasks),
         NEW w \in Workers
  PROVE  /\ \A k \in 1 .. Len(Backlog(w)') :
              \/ k \in 1 .. Len(Backlog(w)) /\ Backlog(w)'[k] = Backlog(w)[k]
              \/ \E m \in 1 .. Len(Added(w, q, cmds, tasks)) :
                   Backlog(w)'[k] = Added(w, q, cmds, tasks)[m]
         /\ \A k \in 1 .. Len(Backlog(w)) :
              k \in 1 .. Len(Backlog(w)') /\ Backlog(w)'[k] = Backlog(w)[k]
         /\ \A m \in 1 .. Len(Added(w, q, cmds, tasks)) :
              /\ Len(Backlog(w)) + m \in 1 .. Len(Backlog(w)')
              /\ Backlog(w)'[Len(Backlog(w)) + m] = Added(w, q, cmds, tasks)[m]
<1>1. PICK s, t : s = Backlog(w) /\ t = Added(w, q, cmds, tasks)
  OBVIOUS
<1>2. s \in Seq(MovedWork) /\ t \in Seq(MovedWork) /\ Backlog(w)' = s \o t
  BY <1>1, BacklogTypes, EnqueueBacklog
<1>3. PICK r : r = s \o t
  OBVIOUS
<1>4. /\ \A k \in 1 .. Len(s) : k \in 1 .. Len(r) /\ r[k] = s[k]
      /\ \A m \in 1 .. Len(t) : Len(s) + m \in 1 .. Len(r) /\ r[Len(s) + m] = t[m]
      /\ \A k \in 1 .. Len(r) :
           k \in 1 .. Len(s) \/ \E m \in 1 .. Len(t) : k = Len(s) + m
  BY <1>2, <1>3, ConcatElements
<1>5. \A k \in 1 .. Len(r) :
        \/ k \in 1 .. Len(s) /\ r[k] = s[k]
        \/ \E m \in 1 .. Len(t) : r[k] = t[m]
  BY <1>4
<1>6. QED
  BY <1>1, <1>2, <1>3, <1>4, <1>5

\* What a worker does not do remains.
LEMMA BacklogRemains ==
  ASSUME WorkTypes, NEW w \in Workers, WorkerStep(w), NEW v \in Workers,
         NEW k \in 1 .. Len(Backlog(v)), v # w \/ k # 1
  PROVE  \E j \in 1 .. Len(Backlog(v)') : Backlog(v)'[j] = Backlog(v)[k]
<1>1. PICK s : s = Backlog(v) /\ s \in Seq(MovedWork)
  BY BacklogTypes
<1>2. CASE v = w
  <2>1. s # <<>> /\ Backlog(v)' = Tail(s) /\ k # 1 /\ k \in 1 .. Len(s)
    BY <1>1, <1>2 DEF WorkerStep
  <2>2. k - 1 \in 1 .. Len(Tail(s)) /\ Tail(s)[k - 1] = s[k]
    BY <1>1, <2>1
  <2>3. QED
    BY <1>1, <2>1, <2>2
<1>3. CASE v # w
  BY <1>3 DEF WorkerStep
<1>4. QED
  BY <1>2, <1>3

\* What a worker does is not left: no event is used twice.
LEMMA DoneIsGone ==
  ASSUME WorkTypes, EventsDistinct, NEW w \in Workers, WorkerStep(w),
         NEW v \in Workers, NEW k \in 1 .. Len(Backlog(v)')
  PROVE  /\ \E j \in 1 .. Len(Backlog(v)) : Backlog(v)'[k] = Backlog(v)[j]
         /\ 1 \in 1 .. Len(Backlog(w))
         /\ Backlog(v)'[k].ev # Backlog(w)[1].ev
<1>1. PICK s, t : /\ s = Backlog(v) /\ s \in Seq(MovedWork)
                  /\ t = Backlog(w) /\ t \in Seq(MovedWork)
  BY BacklogTypes
<1>2. 1 \in 1 .. Len(t)
  BY <1>1 DEF WorkerStep
<1>3. PICK d : d = IF v = w THEN 1 ELSE 0
  OBVIOUS
<1>4. k + d \in 1 .. Len(s) /\ Backlog(v)'[k] = s[k + d]
  BY <1>1, <1>3, BacklogShrinks
<1>5. v = w => k + d # 1
  BY <1>3
<1>6. k + d \in DOMAIN s /\ 1 \in DOMAIN t
  BY <1>1, <1>2, <1>4
<1>7. s[k + d].ev # t[1].ev
  BY <1>1, <1>5, <1>6 DEF EventsDistinct
<1>8. QED
  BY <1>1, <1>2, <1>4, <1>7

\* The first piece of work of a worker that takes a step waits for nothing
\* that is left.
LEMMA FirstIsReady ==
  ASSUME WorkTypes, NEW w \in Workers, WorkerStep(w)
  PROVE  /\ 1 \in 1 .. Len(Backlog(w)) /\ Ready(Backlog(w)[1])
         /\ \A v \in Workers : \A k \in 1 .. Len(Backlog(v)) :
              Backlog(v)[k].ev \notin Backlog(w)[1].waits
<1>1. PICK t : t = Backlog(w) /\ t \in Seq(MovedWork)
  BY BacklogTypes
<1>2. t # <<>> /\ Ready(Head(t))
  BY <1>1 DEF WorkerStep
<1>3. 1 \in 1 .. Len(t) /\ Head(t) = t[1]
  BY <1>1, <1>2
<1>4. QED
  BY <1>1, <1>2, <1>3, WorkOutstanding DEF Ready

-----------------------------------------------------------------------------
(***************************************************************************)
(* The staging buffers: a task of the I/O thread and a transfer of the     *)
(* device on the same slot                                                 *)
(***************************************************************************)
\* One of the two waits for the other, or for something on the way to it.
Orders(cmds, i, tasks, m) ==
  \/ \E n \in i .. Len(cmds) : \E l \in 1 .. m : cmds[n].ev \in tasks[l].waits
  \/ \E n \in 1 .. i : tasks[m].ev \in cmds[n].waits

\* A transfer and a task on the same slot.
Meet(cmds, i, tasks, m) ==
  cmds[i].kind \in {"read", "write"} /\ cmds[i].slot = tasks[m].slot

\* A load of a block of one of the objects left out.
LoadOf(op, oids) == op.kind = "load" /\ op.block.oid \in oids

InOrder(cmds, tasks, oids) ==
  \A i \in 1 .. Len(cmds) : \A m \in 1 .. Len(tasks) :
     Meet(cmds, i, tasks, m) /\ ~LoadOf(tasks[m], oids) => Orders(cmds, i, tasks, m)

\* What is enqueued at once, after what is there: the commands await the
\* tasks before them; the tasks have to wait for the commands before them.
LEMMA InOrderConcat ==
  ASSUME NEW S, NEW c \in Seq(S), NEW d \in Seq(S), NEW t \in Seq(S), NEW u \in Seq(S),
         NEW oids, InOrder(c, t, oids), InOrder(d, u, oids), Await(c, t),
         \A i \in 1 .. Len(c) : \A m \in 1 .. Len(u) :
            Meet(c, i, u, m) /\ ~LoadOf(u[m], oids) =>
              \/ \E n \in 1 .. Len(d) : \E l \in 1 .. m : d[n].ev \in u[l].waits
              \/ \E n \in i .. Len(c) : \E l \in 1 .. Len(t) : c[n].ev \in t[l].waits
  PROVE  InOrder(c \o d, t \o u, oids)
<1>1. PICK e, v : e = c \o d /\ v = t \o u
  OBVIOUS
<1>2. /\ Len(c) \in Nat /\ Len(d) \in Nat /\ Len(t) \in Nat /\ Len(u) \in Nat
      /\ Len(e) = Len(c) + Len(d) /\ Len(v) = Len(t) + Len(u)
  BY <1>1, ConcatElements
<1>3. /\ \A k \in 1 .. Len(c) : e[k] = c[k]
      /\ \A k \in 1 .. Len(d) : e[Len(c) + k] = d[k]
      /\ \A k \in 1 .. Len(t) : v[k] = t[k]
      /\ \A k \in 1 .. Len(u) : v[Len(t) + k] = u[k]
  BY <1>1, ConcatElements
<1> SUFFICES ASSUME NEW i \in 1 .. Len(e), NEW m \in 1 .. Len(v),
                    Meet(e, i, v, m), ~LoadOf(v[m], oids)
             PROVE  Orders(e, i, v, m)
  BY <1>1 DEF InOrder
<1>4. CASE i \in 1 .. Len(c) /\ m \in 1 .. Len(t)
  <2>1. Meet(c, i, t, m) /\ ~LoadOf(t[m], oids)
    BY <1>3, <1>4 DEF Meet
  <2>2. Orders(c, i, t, m)
    BY <1>4, <2>1 DEF InOrder
  <2>3. CASE \E n \in i .. Len(c) : \E l \in 1 .. m : c[n].ev \in t[l].waits
    <3>1. PICK n \in i .. Len(c), l \in 1 .. m : c[n].ev \in t[l].waits
      BY <2>3
    <3>2. n \in i .. Len(e) /\ n \in 1 .. Len(c) /\ l \in 1 .. Len(t)
      BY <1>2, <1>4
    <3>3. e[n].ev \in v[l].waits
      BY <1>3, <3>1, <3>2
    <3>4. QED
      BY <3>2, <3>3 DEF Orders
  <2>4. CASE \E n \in 1 .. i : t[m].ev \in c[n].waits
    <3>1. PICK n \in 1 .. i : t[m].ev \in c[n].waits
      BY <2>4
    <3>2. n \in 1 .. Len(c)
      BY <1>2, <1>4
    <3>3. v[m].ev \in e[n].waits
      BY <1>3, <1>4, <3>1, <3>2
    <3>4. QED
      BY <3>3 DEF Orders
  <2>5. QED
    BY <2>2, <2>3, <2>4 DEF Orders
<1>5. CASE i \notin 1 .. Len(c) /\ m \in 1 .. Len(t)
  <2>1. PICK n \in 1 .. Len(c) : t[m].ev \in c[n].waits
    BY <1>5 DEF Await
  <2>2. n \in 1 .. i
    BY <1>2, <1>5
  <2>3. v[m].ev \in e[n].waits
    BY <1>3, <1>5, <2>1
  <2>4. QED
    BY <2>2, <2>3 DEF Orders
<1>6. CASE i \in 1 .. Len(c) /\ m \notin 1 .. Len(t)
  <2>1. PICK k \in 1 .. Len(u) : m = Len(t) + k
    <3>1. m - Len(t) \in 1 .. Len(u) /\ m = Len(t) + (m - Len(t))
      BY <1>2, <1>6
    <3>2. QED
      BY <3>1
  <2>2. Meet(c, i, u, k) /\ ~LoadOf(u[k], oids)
    BY <1>3, <1>6, <2>1 DEF Meet
  <2>3. CASE \E n \in 1 .. Len(d) : \E l \in 1 .. k : d[n].ev \in u[l].waits
    <3>1. PICK n \in 1 .. Len(d), l \in 1 .. k : d[n].ev \in u[l].waits
      BY <2>3
    <3>2. /\ Len(c) + n \in i .. Len(e) /\ Len(t) + l \in 1 .. m /\ l \in 1 .. Len(u)
      BY <1>2, <1>6, <2>1
    <3>3. e[Len(c) + n].ev \in v[Len(t) + l].waits
      BY <1>3, <3>1, <3>2
    <3>4. QED
      BY <3>2, <3>3 DEF Orders
  <2>4. CASE \E n \in i .. Len(c) : \E l \in 1 .. Len(t) : c[n].ev \in t[l].waits
    <3>1. PICK n \in i .. Len(c), l \in 1 .. Len(t) : c[n].ev \in t[l].waits
      BY <2>4
    <3>2. n \in i .. Len(e) /\ l \in 1 .. m /\ n \in 1 .. Len(c)
      BY <1>2, <1>6, <2>1
    <3>3. e[n].ev \in v[l].waits
      BY <1>3, <3>1, <3>2
    <3>4. QED
      BY <3>2, <3>3 DEF Orders
  <2>5. QED
    BY <1>6, <2>2, <2>3, <2>4
<1>7. CASE i \notin 1 .. Len(c) /\ m \notin 1 .. Len(t)
  <2>1. PICK j \in 1 .. Len(d) : i = Len(c) + j
    <3>1. i - Len(c) \in 1 .. Len(d) /\ i = Len(c) + (i - Len(c))
      BY <1>2, <1>7
    <3>2. QED
      BY <3>1
  <2>2. PICK k \in 1 .. Len(u) : m = Len(t) + k
    <3>1. m - Len(t) \in 1 .. Len(u) /\ m = Len(t) + (m - Len(t))
      BY <1>2, <1>7
    <3>2. QED
      BY <3>1
  <2>3. Meet(d, j, u, k) /\ ~LoadOf(u[k], oids)
    BY <1>3, <2>1, <2>2 DEF Meet
  <2>4. Orders(d, j, u, k)
    BY <2>3 DEF InOrder
  <2>5. CASE \E n \in j .. Len(d) : \E l \in 1 .. k : d[n].ev \in u[l].waits
    <3>1. PICK n \in j .. Len(d), l \in 1 .. k : d[n].ev \in u[l].waits
      BY <2>5
    <3>0. n \in 1 .. Len(d) /\ l \in 1 .. Len(u)
      BY <1>2
    <3>2. /\ Len(c) + n \in i .. Len(e) /\ Len(t) + l \in 1 .. m /\ l \in 1 .. Len(u)
          /\ n \in 1 .. Len(d)
      BY <1>2, <2>1, <2>2, <3>0
    <3>3. e[Len(c) + n].ev \in v[Len(t) + l].waits
      BY <1>3, <3>1, <3>2
    <3>4. QED
      BY <3>2, <3>3 DEF Orders
  <2>6. CASE \E n \in 1 .. j : u[k].ev \in d[n].waits
    <3>1. PICK n \in 1 .. j : u[k].ev \in d[n].waits
      BY <2>6
    <3>0. n \in 1 .. Len(d)
      BY <1>2
    <3>2. Len(c) + n \in 1 .. i /\ n \in 1 .. Len(d)
      BY <1>2, <2>1, <3>0
    <3>3. v[m].ev \in e[Len(c) + n].waits
      BY <1>3, <2>2, <3>1, <3>2
    <3>4. QED
      BY <3>2, <3>3 DEF Orders
  <2>7. QED
    BY <2>4, <2>5, <2>6 DEF Orders
<1>8. QED
  BY <1>4, <1>5, <1>6, <1>7

\* A command that is ready waits for no task that is left.
LEMMA InOrderDevice ==
  ASSUME NEW S, NEW c \in Seq(S), NEW t \in Seq(S), NEW oids, InOrder(c, t, oids), c # <<>>,
         \A m \in 1 .. Len(t) : t[m].ev \notin c[1].waits
  PROVE  InOrder(Tail(c), t, oids)
<1>1. PICK d : d = Tail(c)
  OBVIOUS
<1>2. /\ Len(c) \in Nat /\ Len(d) \in Nat /\ Len(c) = Len(d) + 1 /\ Len(t) \in Nat
      /\ \A k \in 1 .. Len(d) : k + 1 \in 1 .. Len(c) /\ d[k] = c[k + 1]
  BY <1>1
<1> SUFFICES ASSUME NEW i \in 1 .. Len(d), NEW m \in 1 .. Len(t),
                    Meet(d, i, t, m), ~LoadOf(t[m], oids)
             PROVE  Orders(d, i, t, m)
  BY <1>1 DEF InOrder
<1>3. i + 1 \in 1 .. Len(c) /\ Meet(c, i + 1, t, m)
  BY <1>2 DEF Meet
<1>4. Orders(c, i + 1, t, m)
  BY <1>3 DEF InOrder
<1>5. CASE \E n \in i + 1 .. Len(c) : \E l \in 1 .. m : c[n].ev \in t[l].waits
  <2>1. PICK n \in i + 1 .. Len(c), l \in 1 .. m : c[n].ev \in t[l].waits
    BY <1>5
  <2>2. n - 1 \in i .. Len(d) /\ n - 1 \in 1 .. Len(d) /\ d[n - 1] = c[n]
    BY <1>2
  <2>3. QED
    BY <2>1, <2>2 DEF Orders
<1>6. CASE \E n \in 1 .. i + 1 : t[m].ev \in c[n].waits
  <2>1. PICK n \in 1 .. i + 1 : t[m].ev \in c[n].waits
    BY <1>6
  <2>2. n # 1
    BY <2>1
  <2>3. n - 1 \in 1 .. i /\ n - 1 \in 1 .. Len(d) /\ (n - 1) + 1 = n
    BY <1>2, <2>2
  <2>4. d[n - 1] = c[n]
    BY <1>2, <2>3
  <2>5. QED
    BY <2>1, <2>3, <2>4 DEF Orders
<1>7. QED
  BY <1>4, <1>5, <1>6 DEF Orders

\* Nor does a task wait for a command that is left.
LEMMA InOrderIO ==
  ASSUME NEW S, NEW c \in Seq(S), NEW t \in Seq(S), NEW oids, InOrder(c, t, oids), t # <<>>,
         \A n \in 1 .. Len(c) : c[n].ev \notin t[1].waits
  PROVE  InOrder(c, Tail(t), oids)
<1>1. PICK u : u = Tail(t)
  OBVIOUS
<1>2. /\ Len(c) \in Nat /\ Len(u) \in Nat /\ Len(t) = Len(u) + 1
      /\ \A k \in 1 .. Len(u) : k + 1 \in 1 .. Len(t) /\ u[k] = t[k + 1]
  BY <1>1
<1> SUFFICES ASSUME NEW i \in 1 .. Len(c), NEW m \in 1 .. Len(u),
                    Meet(c, i, u, m), ~LoadOf(u[m], oids)
             PROVE  Orders(c, i, u, m)
  BY <1>1 DEF InOrder
<1>3. m + 1 \in 1 .. Len(t) /\ Meet(c, i, t, m + 1) /\ ~LoadOf(t[m + 1], oids)
  BY <1>2 DEF Meet
<1>4. Orders(c, i, t, m + 1)
  BY <1>3 DEF InOrder
<1>5. CASE \E n \in i .. Len(c) : \E l \in 1 .. m + 1 : c[n].ev \in t[l].waits
  <2>1. PICK n \in i .. Len(c), l \in 1 .. m + 1 : c[n].ev \in t[l].waits
    BY <1>5
  <2>2. l # 1
    BY <1>2, <2>1
  <2>3. l - 1 \in 1 .. m /\ l - 1 \in 1 .. Len(u) /\ u[l - 1] = t[l]
    BY <1>2, <2>2
  <2>4. QED
    BY <2>1, <2>3 DEF Orders
<1>6. CASE \E n \in 1 .. i : t[m + 1].ev \in c[n].waits
  BY <1>2, <1>6 DEF Orders
<1>7. QED
  BY <1>4, <1>5, <1>6 DEF Orders

-----------------------------------------------------------------------------
(***************************************************************************)
(* What orders the commands and tasks of run                               *)
(***************************************************************************)
\* The block size of every object.
Sizes == [Nat \ {0} -> Nat \ {0}]
Cuts(f, size) == \A j \in 1 .. Len(f.objs) : f.steps[j] = size[f.objs[j]]

\* A client that cuts an object into blocks of one size only.
SameSteps(p) ==
  \E size \in Sizes : \A n \in 1 .. Len(p.batches) : \A k \in 1 .. Len(p.batches[n]) :
     Cuts(p.batches[n][k], size)

CutAlike(size) ==
  /\ \A k \in 1 .. Len(run_queue) : Cuts(run_queue[k], size)
  /\ \A n \in 1 .. Len(program.batches) : \A k \in 1 .. Len(program.batches[n]) :
       Cuts(program.batches[n][k], size)

\* Blocks of even number are in even slots.
Alternates(block, s, size) ==
  \E i \in Nat : block.bid = i * size[block.oid] /\ s % DoubleBuffering = i % NumQueues

SlotsAlternate(size) ==
  \A s \in Slots : cached[s] # NoBlock => Alternates(cached[s], s, size)

InHome(block, s) ==
  s \in {(block.oid - 1) * DoubleBuffering, (block.oid - 1) * DoubleBuffering + 1}

\* A command or task of run works on a block in a slot where the block may be.
TransferInPlace(op, size) ==
  /\ op.slot \in Slots
  /\ InHome(op.block, op.slot)
  /\ Alternates(op.block, op.slot, size)
  /\ op.kind \in {"read", "back"} => ~Immutable(op.block.oid)

TransfersInPlace(size) ==
  \A w \in Workers : \A k \in 1 .. Len(Backlog(w)) :
     w[1] # ClientQueue /\ Backlog(w)[k].kind # "kernel" =>
       /\ TransferInPlace(Backlog(w)[k], size)
       /\ cached[Backlog(w)[k].slot] # NoBlock

\* What the device and the I/O threads do for run, and for the client.
KindsOf(w) ==
  IF w[1] = ClientQueue THEN IF w[2] = "device" THEN {"read", "barrier"} ELSE {"back"}
  ELSE IF w[2] = "device" THEN {"read", "write", "barrier", "kernel"} ELSE {"back", "load"}

KindsFit ==
  \A w \in Workers : \A k \in 1 .. Len(Backlog(w)) : Backlog(w)[k].kind \in KindsOf(w)

\* The client reads when run has nothing left to do.
ReadsAlone ==
  \A w \in Workers : w[1] = ClientQueue /\ Backlog(w) # <<>> =>
     pc \in {"idle", "end"} /\ program.batches = <<>>

StagingInOrder(oids) == \A q \in Queues : InOrder(commands[q], io[q], oids)

\* The kernels that have not ended.
KernelOps == {op \in AllWork : op.kind = "kernel"}

\* Every kernel waits for the last one before it.
KernelsChained ==
  \A a, b \in KernelOps :
     a.ev < b.ev => \E c \in KernelOps : a.ev <= c.ev /\ c.ev < b.ev /\ c.ev \in b.waits

\* The next kernel will wait for the last one.
LastKernelKept ==
  /\ pc \in {"idle", "register", "end"} => KernelOps = {}
  /\ pc \in {"activate", "deactivate"} =>
       \A a \in KernelOps : \E c \in KernelOps : a.ev <= c.ev /\ c.ev = run.trans_event
  /\ pc = "run" =>
       \A a \in KernelOps : \E c \in KernelOps : a.ev <= c.ev /\ c.ev \in run.wait_list

RaceInv(size, oids) ==
  /\ CutAlike(size) /\ SlotsAlternate(size) /\ TransfersInPlace(size)
  /\ KindsFit /\ ReadsAlone /\ StagingInOrder(oids) /\ KernelsChained /\ LastKernelKept

-----------------------------------------------------------------------------
\* The fields of a command.
LEMMA OpFields ==
  ASSUME NEW kind, NEW s, NEW block, NEW waits, NEW ev, NEW op,
         op = Op(kind, s, block, waits, ev)
  PROVE  /\ op.kind = kind /\ op.slot = s /\ op.block = block /\ op.waits = waits
         /\ op.ev = ev
BY DEF Op

\* Commands and tasks for one slot that can be enqueued after what is there:
\* tasks wait for a command that comes with them, but for the load of a block
\* of oid into a slot that has nothing to return.
Fits(q, s, size, oids, oid, cmds, tasks) ==
  /\ \A m \in 1 .. Len(cmds) : /\ cmds[m].kind \in KindsOf(<<q, "device">>) \ {"kernel"}
                               /\ cmds[m].slot = s
                               /\ q # ClientQueue => TransferInPlace(cmds[m], size)
  /\ \A m \in 1 .. Len(tasks) : /\ tasks[m].kind \in KindsOf(<<q, "io">>)
                                /\ tasks[m].slot = s
                                /\ q # ClientQueue => TransferInPlace(tasks[m], size)
  /\ InOrder(cmds, tasks, oids)
  /\ \A m \in 1 .. Len(tasks) :
       \/ \E n \in 1 .. Len(cmds) : \E l \in 1 .. m : cmds[n].ev \in tasks[l].waits
       \/ ~WritesBack(s) /\ LoadOf(tasks[m], {oid})

\* read fits into a queue of run, and into the queue of the client.
LEMMA ReadFits ==
  ASSUME NEW q \in Queues, NEW s \in Slots, NEW block, NEW waits, NEW n \in Nat,
         NEW size, NEW oids, NEW oid,
         q # ClientQueue => /\ InHome(block, s) /\ Alternates(block, s, size)
                            /\ ~Immutable(block.oid)
  PROVE  Fits(q, s, size, oids, oid, ReadCommands(s, block, waits, n), ReadTasks(s, block, n))
<1>1. PICK c, t : c = ReadCommands(s, block, waits, n) /\ t = ReadTasks(s, block, n)
  OBVIOUS
<1>2. /\ Len(c) = 2 /\ c[1] = Op("read", s, block, waits, n)
      /\ c[2] = Op("barrier", s, block, {n + 1}, n + 2)
      /\ Len(t) = 1 /\ t[1] = Op("back", s, block, {n}, n + 1)
  BY <1>1 DEF ReadCommands, ReadTasks
<1>3. /\ c[1].kind = "read" /\ c[1].slot = s /\ c[1].block = block /\ c[1].ev = n
      /\ c[2].kind = "barrier" /\ c[2].slot = s /\ c[2].block = block
      /\ c[2].waits = {n + 1}
      /\ t[1].kind = "back" /\ t[1].slot = s /\ t[1].block = block
      /\ t[1].waits = {n} /\ t[1].ev = n + 1
  BY <1>2, OpFields
<1> HIDE <1>2
<1>4. ASSUME NEW m \in 1 .. Len(c)
      PROVE  /\ c[m].kind \in KindsOf(<<q, "device">>) \ {"kernel"}
             /\ c[m].slot = s
             /\ q # ClientQueue => TransferInPlace(c[m], size)
  <2>1. m = 1 \/ m = 2
    BY <1>2
  <2>2. CASE m = 1
    BY <1>3, <2>2 DEF KindsOf, TransferInPlace
  <2>3. CASE m = 2
    BY <1>3, <2>3 DEF KindsOf, TransferInPlace
  <2>4. QED
    BY <2>1, <2>2, <2>3
<1>5. ASSUME NEW m \in 1 .. Len(t)
      PROVE  /\ t[m].kind \in KindsOf(<<q, "io">>)
             /\ t[m].slot = s
             /\ q # ClientQueue => TransferInPlace(t[m], size)
             /\ \E i \in 1 .. Len(c) : \E l \in 1 .. m : c[i].ev \in t[l].waits
  <2>1. m = 1
    BY <1>2
  <2>2. c[1].ev \in t[1].waits /\ 1 \in 1 .. Len(c)
    BY <1>2, <1>3
  <2>3. QED
    BY <1>3, <2>1, <2>2 DEF KindsOf, TransferInPlace
<1>6. InOrder(c, t, oids)
  <2> SUFFICES ASSUME NEW i \in 1 .. Len(c), NEW m \in 1 .. Len(t), Meet(c, i, t, m)
               PROVE  Orders(c, i, t, m)
    BY DEF InOrder
  <2>1. m = 1 /\ (i = 1 \/ i = 2)
    BY <1>2
  <2>2. i = 1
    BY <1>3, <2>1 DEF Meet
  <2>3. c[1].ev \in t[1].waits /\ 1 \in i .. Len(c) /\ 1 \in 1 .. m
    BY <1>2, <1>3, <2>1, <2>2
  <2>4. QED
    BY <2>3 DEF Orders
<1>7. QED
  BY <1>1, <1>4, <1>5, <1>6 DEF Fits

\* So does write_and_get.
LEMMA FillFits ==
  ASSUME NEW q \in Queues, q # ClientQueue, NEW s \in Slots, NEW block, NEW waits,
         NEW n \in Nat, NEW size, NEW oids,
         InHome(block, s), Alternates(block, s, size),
         WritesBack(s) => InHome(cached[s], s) /\ Alternates(cached[s], s, size)
  PROVE  Fits(q, s, size, oids, block.oid, FillCommands(s, block, waits, n),
              FillTasks(s, block, waits, n))
<1>1. PICK c, t : /\ c = FillCommands(s, block, waits, n)
                  /\ t = FillTasks(s, block, waits, n)
  OBVIOUS
<1>2. CASE WritesBack(s)
  <2>1. PICK old : old = cached[s] /\ ~Immutable(old.oid)
    BY <1>2 DEF WritesBack
  <2>2. /\ Len(c) = 3 /\ c[1] = Op("read", s, old, waits, n)
        /\ c[2] = Op("barrier", s, old, {n + 1}, n + 2)
        /\ c[3] = Op("write", s, block, {n + 3}, n + 4)
        /\ Len(t) = 2 /\ t[1] = Op("back", s, old, {n}, n + 1)
        /\ t[2] = Op("load", s, block, waits \cup {n + 2}, n + 3)
    <3>1. c = EvictCommands(s, block, waits, n) /\ t = EvictTasks(s, block, waits, n)
      BY <1>1, <1>2, FillShape
    <3>2. QED
      BY <2>1, <3>1 DEF EvictCommands, EvictTasks
  <2>3. /\ c[1].kind = "read" /\ c[1].slot = s /\ c[1].block = old /\ c[1].ev = n
        /\ c[2].kind = "barrier" /\ c[2].slot = s /\ c[2].block = old
        /\ c[2].waits = {n + 1} /\ c[2].ev = n + 2
        /\ c[3].kind = "write" /\ c[3].slot = s /\ c[3].block = block
        /\ c[3].waits = {n + 3}
    BY <2>2, OpFields
  <2>4. /\ t[1].kind = "back" /\ t[1].slot = s /\ t[1].block = old
        /\ t[1].waits = {n} /\ t[1].ev = n + 1
        /\ t[2].kind = "load" /\ t[2].slot = s /\ t[2].block = block
        /\ n + 2 \in t[2].waits /\ t[2].ev = n + 3
    BY <2>2, OpFields
  <2>5. Len(c) = 3 /\ Len(t) = 2
    BY <2>2
  <2> HIDE <2>2
  <2>6. ASSUME NEW m \in 1 .. Len(c)
        PROVE  /\ c[m].kind \in KindsOf(<<q, "device">>) \ {"kernel"}
               /\ c[m].slot = s
               /\ q # ClientQueue => TransferInPlace(c[m], size)
    <3>1. m = 1 \/ m = 2 \/ m = 3
      BY <2>5
    <3>2. CASE m = 1
      BY <1>2, <2>1, <2>3, <3>2 DEF KindsOf, TransferInPlace
    <3>3. CASE m = 2
      BY <1>2, <2>1, <2>3, <3>3 DEF KindsOf, TransferInPlace
    <3>4. CASE m = 3
      BY <2>3, <3>4 DEF KindsOf, TransferInPlace
    <3>5. QED
      BY <3>1, <3>2, <3>3, <3>4
  <2>7. ASSUME NEW m \in 1 .. Len(t)
        PROVE  /\ t[m].kind \in KindsOf(<<q, "io">>)
               /\ t[m].slot = s
               /\ q # ClientQueue => TransferInPlace(t[m], size)
               /\ \E i \in 1 .. Len(c) : \E l \in 1 .. m : c[i].ev \in t[l].waits
    <3>1. m = 1 \/ m = 2
      BY <2>5
    <3>2. c[1].ev \in t[1].waits /\ 1 \in 1 .. Len(c) /\ 1 \in 1 .. m
      BY <2>3, <2>4, <2>5
    <3>3. CASE m = 1
      BY <1>2, <2>1, <2>4, <3>2, <3>3 DEF KindsOf, TransferInPlace
    <3>4. CASE m = 2
      BY <2>4, <3>2, <3>4 DEF KindsOf, TransferInPlace
    <3>5. QED
      BY <3>1, <3>3, <3>4
  <2>8. InOrder(c, t, oids)
    <3> SUFFICES ASSUME NEW i \in 1 .. Len(c), NEW m \in 1 .. Len(t), Meet(c, i, t, m)
                 PROVE  Orders(c, i, t, m)
      BY DEF InOrder
    <3>1. (m = 1 \/ m = 2) /\ (i = 1 \/ i = 3)
      BY <2>3, <2>5 DEF Meet
    <3>2. CASE i = 1
      <4>1. c[1].ev \in t[1].waits /\ 1 \in i .. Len(c) /\ 1 \in 1 .. m
        BY <2>3, <2>4, <2>5, <3>2
      <4>2. QED
        BY <4>1 DEF Orders
    <3>3. CASE i = 3 /\ m = 1
      <4>1. t[1].ev \in c[2].waits /\ 2 \in 1 .. i
        BY <2>3, <2>4, <3>3
      <4>2. QED
        BY <3>3, <4>1 DEF Orders
    <3>4. CASE i = 3 /\ m = 2
      <4>1. t[2].ev \in c[3].waits /\ 3 \in 1 .. i
        BY <2>3, <2>4, <3>4
      <4>2. QED
        BY <3>4, <4>1 DEF Orders
    <3>5. QED
      BY <3>1, <3>2, <3>3, <3>4
  <2>9. QED
    BY <1>1, <2>6, <2>7, <2>8 DEF Fits
<1>3. CASE ~WritesBack(s)
  <2>1. /\ Len(c) = 1 /\ c[1] = Op("write", s, block, {n + 3}, n + 4)
        /\ Len(t) = 1 /\ t[1] = Op("load", s, block, waits, n + 3)
    <3>1. c = LoadCommands(s, block, n) /\ t = LoadTasks(s, block, waits, n)
      BY <1>1, <1>3, FillShape
    <3>2. QED
      BY <3>1 DEF LoadCommands, LoadTasks
  <2>2. /\ c[1].kind = "write" /\ c[1].slot = s /\ c[1].block = block
        /\ c[1].waits = {n + 3}
        /\ t[1].kind = "load" /\ t[1].slot = s /\ t[1].block = block /\ t[1].ev = n + 3
    BY <2>1, OpFields
  <2>3. Len(c) = 1 /\ Len(t) = 1
    BY <2>1
  <2> HIDE <2>1
  <2>4. ASSUME NEW m \in 1 .. Len(c)
        PROVE  /\ c[m].kind \in KindsOf(<<q, "device">>) \ {"kernel"}
               /\ c[m].slot = s
               /\ q # ClientQueue => TransferInPlace(c[m], size)
    <3>1. m = 1
      BY <2>3
    <3>2. QED
      BY <2>2, <3>1 DEF KindsOf, TransferInPlace
  <2>5. ASSUME NEW m \in 1 .. Len(t)
        PROVE  /\ t[m].kind \in KindsOf(<<q, "io">>)
               /\ t[m].slot = s
               /\ q # ClientQueue => TransferInPlace(t[m], size)
               /\ ~WritesBack(s) /\ LoadOf(t[m], {block.oid})
    <3>1. m = 1
      BY <2>3
    <3>2. QED
      BY <1>3, <2>2, <3>1 DEF KindsOf, TransferInPlace, LoadOf
  <2>6. InOrder(c, t, oids)
    <3> SUFFICES ASSUME NEW i \in 1 .. Len(c), NEW m \in 1 .. Len(t)
                 PROVE  Orders(c, i, t, m)
      BY DEF InOrder
    <3>1. m = 1 /\ i = 1
      BY <2>3
    <3>2. t[1].ev \in c[1].waits /\ 1 \in 1 .. i
      BY <2>2, <3>1
    <3>3. QED
      BY <3>1, <3>2 DEF Orders
  <2>7. QED
    BY <1>1, <2>4, <2>5, <2>6 DEF Fits
<1>4. QED
  BY <1>2, <1>3

\* A task of t waits for command i, or for one after it.
Awaited(c, i, t) == \E n \in i .. Len(c) : \E l \in 1 .. Len(t) : c[n].ev \in t[l].waits

\* What fits keeps the transfers in place and in order, and is no kernel.
LEMMA TransfersEnqueued ==
  ASSUME WorkTypes, TasksAwaited, NEW size, NEW oids, NEW oid,
         TransfersInPlace(size), KindsFit, StagingInOrder(oids),
         NEW q \in Queues, NEW s \in Slots, NEW cmds \in Seq(MovedWork),
         NEW tasks \in Seq(MovedWork), Enqueue(q, cmds, tasks),
         Fits(q, s, size, oids, oid, cmds, tasks), objects' = objects,
         q # ClientQueue => cached'[s] # NoBlock,
         \A t \in Slots : cached[t] # NoBlock => cached'[t] # NoBlock,
         q # ClientQueue /\ ~WritesBack(s) /\ oid \notin oids =>
           \A i \in 1 .. Len(commands[q]) :
              commands[q][i].kind \in {"read", "write"} /\ commands[q][i].slot = s =>
                Awaited(commands[q], i, io[q])
  PROVE  /\ TransfersInPlace(size)' /\ KindsFit' /\ StagingInOrder(oids)'
         /\ KernelOps' = KernelOps
<1>1. \A op : TransferInPlace(op, size)' <=> TransferInPlace(op, size)
  BY DEF TransferInPlace, Immutable
<1>2. ASSUME NEW w \in Workers, NEW m \in 1 .. Len(Added(w, q, cmds, tasks)),
             NEW op, op = Added(w, q, cmds, tasks)[m]
      PROVE  /\ op.kind \in KindsOf(w) \ {"kernel"} /\ w[1] = q /\ op.slot = s
             /\ q # ClientQueue => TransferInPlace(op, size)
  <2>1. Added(w, q, cmds, tasks) # <<>>
    BY <1>2
  <2>2. CASE w = <<q, "device">> /\ Added(w, q, cmds, tasks) = cmds
    BY <1>2, <2>2 DEF Fits
  <2>3. CASE w = <<q, "io">> /\ Added(w, q, cmds, tasks) = tasks
    <3>1. op.kind # "kernel"
      BY <1>2, <2>3 DEF Fits, KindsOf
    <3>2. QED
      BY <1>2, <2>3, <3>1 DEF Fits
  <2>4. QED
    BY <2>1, <2>2, <2>3, AddedWhere
<1>3. ASSUME NEW w \in Workers, NEW k \in 1 .. Len(Backlog(w)'), NEW op, op = Backlog(w)'[k]
      PROVE  /\ op.kind \in KindsOf(w)
             /\ w[1] # ClientQueue /\ op.kind # "kernel" =>
                  TransferInPlace(op, size) /\ cached'[op.slot] # NoBlock
             /\ op.kind = "kernel" => \E j \in 1 .. Len(Backlog(w)) : op = Backlog(w)[j]
  <2>1. CASE k \in 1 .. Len(Backlog(w)) /\ op = Backlog(w)[k]
    <3>1. op.kind \in KindsOf(w)
      BY <2>1 DEF KindsFit
    <3>2. w[1] # ClientQueue /\ op.kind # "kernel" =>
            TransferInPlace(op, size) /\ cached[op.slot] # NoBlock
      BY <2>1 DEF TransfersInPlace
    <3>3. w[1] # ClientQueue /\ op.kind # "kernel" => op.slot \in Slots
      BY <3>2 DEF TransferInPlace
    <3>4. QED
      BY <2>1, <3>1, <3>2, <3>3
  <2>2. CASE \E m \in 1 .. Len(Added(w, q, cmds, tasks)) :
               op = Added(w, q, cmds, tasks)[m]
    BY <1>2, <2>2
  <2>3. QED
    BY <1>3, <2>1, <2>2, EnqueuedWhere
<1>4. TransfersInPlace(size)'
  <2>1. ASSUME NEW w \in Workers, NEW k \in 1 .. Len(Backlog(w)'), NEW op,
               op = Backlog(w)'[k], w[1] # ClientQueue, op.kind # "kernel"
        PROVE  TransferInPlace(op, size)' /\ cached'[op.slot] # NoBlock
    BY <1>1, <1>3, <2>1
  <2>2. QED
    BY <2>1 DEF TransfersInPlace, NoBlock
<1>5. KindsFit'
  BY <1>3 DEF KindsFit
<1>6. KernelOps' = KernelOps
  <2>1. ASSUME NEW op \in KernelOps
        PROVE  op \in KernelOps'
    <3>0. PICK w \in Workers : \E k \in 1 .. Len(Backlog(w)) : op = Backlog(w)[k]
      BY DEF KernelOps, AllWork
    <3>1. PICK k \in 1 .. Len(Backlog(w)) : op = Backlog(w)[k]
      BY <3>0
    <3>2. k \in 1 .. Len(Backlog(w)') /\ Backlog(w)'[k] = op
      BY <3>1, EnqueuedWhere
    <3>3. QED
      BY <3>2 DEF KernelOps, AllWork
  <2>2. ASSUME NEW op \in KernelOps'
        PROVE  op \in KernelOps
    <3>0. PICK w \in Workers : \E k \in 1 .. Len(Backlog(w)') : op = Backlog(w)'[k]
      BY DEF KernelOps, AllWork, Workers
    <3>1. PICK k \in 1 .. Len(Backlog(w)') : op = Backlog(w)'[k]
      BY <3>0
    <3>2. op.kind = "kernel"
      BY DEF KernelOps
    <3>3. QED
      BY <1>3, <3>1, <3>2 DEF KernelOps, AllWork
  <2>3. QED
    BY <2>1, <2>2
<1>7. StagingInOrder(oids)'
  <2>1. /\ commands' = [commands EXCEPT ![q] = commands[q] \o cmds]
        /\ io' = [io EXCEPT ![q] = io[q] \o tasks]
        /\ commands \in [Queues -> Seq(MovedWork)] /\ io \in [Queues -> Seq(MovedWork)]
    BY DEF Enqueue, WorkTypes
  <2>2. PICK c, t : c = commands[q] /\ t = io[q]
    OBVIOUS
  <2>3. c \in Seq(MovedWork) /\ t \in Seq(MovedWork) /\ InOrder(c, t, oids) /\ Await(c, t)
    BY <2>1, <2>2 DEF StagingInOrder, TasksAwaited
  <2>4. InOrder(cmds, tasks, oids)
    BY DEF Fits
  <2>5. ASSUME NEW i \in 1 .. Len(c), NEW m \in 1 .. Len(tasks),
               Meet(c, i, tasks, m), ~LoadOf(tasks[m], oids)
        PROVE  \/ \E n \in 1 .. Len(cmds) : \E l \in 1 .. m : cmds[n].ev \in tasks[l].waits
               \/ Awaited(c, i, t)
    <3>1. CASE ~WritesBack(s) /\ LoadOf(tasks[m], {oid})
      <4>1. oid \notin oids
        BY <2>5, <3>1 DEF LoadOf
      <4>2. c[i].kind \in {"read", "write"} /\ c[i].slot = s
        BY <2>5 DEF Meet, Fits
      <4>3. q # ClientQueue
        BY <3>1 DEF LoadOf, Fits, KindsOf
      <4>4. QED
        BY <2>2, <3>1, <4>1, <4>2, <4>3
    <3>2. QED
      BY <3>1 DEF Fits
  <2>6. InOrder(c \o cmds, t \o tasks, oids)
    BY <2>3, <2>4, <2>5, InOrderConcat DEF Awaited
  <2>7. ASSUME NEW p \in Queues
        PROVE  InOrder(commands'[p], io'[p], oids)
    <3>1. CASE p = q
      BY <2>1, <2>2, <2>6, <3>1
    <3>2. CASE p # q
      BY <2>1, <3>2 DEF StagingInOrder
    <3>3. QED
      BY <3>1, <3>2
  <2>8. QED
    BY <2>7 DEF StagingInOrder, InOrder, Meet, Orders, LoadOf
<1>8. QED
  BY <1>4, <1>5, <1>6, <1>7

\* Where a kernel is.
LEMMA KernelPlace ==
  ASSUME NEW op \in KernelOps
  PROVE  /\ op.kind = "kernel"
         /\ \E w \in Workers : \E k \in 1 .. Len(Backlog(w)) : op = Backlog(w)[k]
BY DEF KernelOps, AllWork

\* A kernel that comes after one that is left has not run: kernels run in
\* order.
LEMMA LaterRemains ==
  ASSUME WorkTypes, EventsDistinct, KernelsChained, NEW w \in Workers, WorkerStep(w),
         NEW a \in KernelOps', NEW c \in KernelOps, a.ev <= c.ev
  PROVE  a \in KernelOps /\ c \in KernelOps'
<1>0. PICK v \in Workers : \E k \in 1 .. Len(Backlog(v)') : a = Backlog(v)'[k]
  BY DEF KernelOps, AllWork, Workers
<1>1. PICK k \in 1 .. Len(Backlog(v)') : a = Backlog(v)'[k]
  BY <1>0
<1>2. /\ \E j \in 1 .. Len(Backlog(v)) : a = Backlog(v)[j]
      /\ a.ev # Backlog(w)[1].ev /\ a.kind = "kernel"
  BY <1>1, DoneIsGone DEF KernelOps
<1>3. a \in KernelOps
  BY <1>2 DEF KernelOps, AllWork
<1>4. PICK u \in Workers : \E j \in 1 .. Len(Backlog(u)) : c = Backlog(u)[j]
  BY KernelPlace
<1>5. PICK j \in 1 .. Len(Backlog(u)) : c = Backlog(u)[j]
  BY <1>4
<1>6. CASE u = w /\ j = 1
  <2>1. c = Backlog(w)[1] /\ a.ev # c.ev
    BY <1>2, <1>5, <1>6
  <2>2. \A op \in KernelOps : op.ev \notin c.waits
    <3>1. ASSUME NEW op \in KernelOps
          PROVE  op.ev \notin c.waits
      <4>1. PICK x \in Workers : \E i \in 1 .. Len(Backlog(x)) : op = Backlog(x)[i]
        BY KernelPlace
      <4>2. QED
        BY <2>1, <4>1, FirstIsReady
    <3>2. QED
      BY <3>1
  <2>3. a.ev < c.ev
    <3>1. a.ev \in Nat /\ c.ev \in Nat
      <4>1. \A op \in Work : op.ev \in Nat
        BY DEF Work, Transfers, Kernels
      <4>2. QED
        BY <1>2, <1>5, <4>1, BacklogTypes
    <3>2. QED
      BY <2>1, <3>1
  <2>4. QED
    BY <1>3, <2>2, <2>3 DEF KernelsChained
<1>7. CASE u # w \/ j # 1
  <2>1. PICK i \in 1 .. Len(Backlog(u)') : Backlog(u)'[i] = c
    BY <1>5, <1>7, BacklogRemains
  <2>2. c.kind = "kernel"
    BY KernelPlace
  <2>3. QED
    BY <1>3, <2>1, <2>2 DEF KernelOps, AllWork
<1>8. QED
  BY <1>6, <1>7

\* The device and the I/O threads keep all of it.
LEMMA WorkDone ==
  ASSUME WorkTypes, EventsDistinct, NEW size, NEW oids, RaceInv(size, oids),
         NEW w \in Workers, WorkerStep(w)
  PROVE  RaceInv(size, oids)'
<1>1. /\ CutAlike(size) /\ SlotsAlternate(size) /\ TransfersInPlace(size)
      /\ KindsFit /\ ReadsAlone /\ StagingInOrder(oids) /\ KernelsChained /\ LastKernelKept
  BY DEF RaceInv
<1>2. /\ run_queue' = run_queue /\ program' = program /\ cached' = cached /\ pc' = pc
      /\ run' = run /\ objects' = objects
  BY DEF WorkerStep, cacheVars, hostVars
<1>3. CutAlike(size)' /\ SlotsAlternate(size)'
  BY <1>1, <1>2 DEF CutAlike, SlotsAlternate
<1>4. ASSUME NEW v \in Workers, NEW k \in 1 .. Len(Backlog(v)')
      PROVE  \E j \in 1 .. Len(Backlog(v)) : Backlog(v)'[k] = Backlog(v)[j]
  BY DoneIsGone
<1>5. KindsFit'
  BY <1>1, <1>4 DEF KindsFit
<1>6. ReadsAlone'
  <2>1. ASSUME NEW v \in Workers, Backlog(v)' # <<>>
        PROVE  Backlog(v) # <<>>
    <3>1. Backlog(v)' \in Seq(MovedWork)
      BY BacklogShrinks
    <3>2. 1 \in 1 .. Len(Backlog(v)')
      BY <2>1, <3>1
    <3>3. QED
      BY <1>4, <3>2
  <2>2. QED
    BY <1>1, <1>2, <2>1 DEF ReadsAlone
<1>7. TransfersInPlace(size)'
  <2>1. \A op : TransferInPlace(op, size)' <=> TransferInPlace(op, size)
    BY <1>2 DEF TransferInPlace, Immutable
  <2>2. ASSUME NEW v \in Workers, NEW k \in 1 .. Len(Backlog(v)'), NEW op,
               op = Backlog(v)'[k], v[1] # ClientQueue, op.kind # "kernel"
        PROVE  TransferInPlace(op, size) /\ cached'[op.slot] # NoBlock
    BY <1>1, <1>2, <1>4, <2>2 DEF TransfersInPlace
  <2>3. QED
    BY <2>1, <2>2 DEF TransfersInPlace, NoBlock
<1>8. ASSUME NEW a \in KernelOps'
      PROVE  a \in KernelOps
  <2>0. PICK v \in Workers : \E k \in 1 .. Len(Backlog(v)') : a = Backlog(v)'[k]
    BY DEF KernelOps, AllWork, Workers
  <2>1. \E j \in 1 .. Len(Backlog(v)) : a = Backlog(v)[j]
    BY <1>4, <2>0
  <2>2. QED
    BY <2>1 DEF KernelOps, AllWork
<1>9. KernelsChained'
  <2>1. ASSUME NEW a \in KernelOps', NEW b \in KernelOps', a.ev < b.ev
        PROVE  \E c \in KernelOps' : a.ev <= c.ev /\ c.ev < b.ev /\ c.ev \in b.waits
    <3>1. PICK c \in KernelOps : a.ev <= c.ev /\ c.ev < b.ev /\ c.ev \in b.waits
      BY <1>1, <1>8, <2>1 DEF KernelsChained
    <3>2. QED
      BY <1>1, <3>1, LaterRemains
  <2>2. QED
    BY <2>1 DEF KernelsChained
<1>10. LastKernelKept'
  <2>1. pc \in {"idle", "register", "end"} => KernelOps' = {}
    BY <1>1, <1>8 DEF LastKernelKept
  <2>2. ASSUME pc \in {"activate", "deactivate"}, NEW a \in KernelOps'
        PROVE  \E c \in KernelOps' : a.ev <= c.ev /\ c.ev = run.trans_event
    <3>1. PICK c \in KernelOps : a.ev <= c.ev /\ c.ev = run.trans_event
      BY <1>1, <1>8, <2>2 DEF LastKernelKept
    <3>2. QED
      BY <1>1, <3>1, LaterRemains
  <2>3. ASSUME pc = "run", NEW a \in KernelOps'
        PROVE  \E c \in KernelOps' : a.ev <= c.ev /\ c.ev \in run.wait_list
    <3>1. PICK c \in KernelOps : a.ev <= c.ev /\ c.ev \in run.wait_list
      BY <1>1, <1>8, <2>3 DEF LastKernelKept
    <3>2. QED
      BY <1>1, <3>1, LaterRemains
  <2>4. QED
    BY <1>2, <2>1, <2>2, <2>3 DEF LastKernelKept
<1>11. StagingInOrder(oids)'
  <2>1. PICK q \in Queues, side \in {"device", "io"} : w = <<q, side>>
    BY DEF Workers
  <2>2. PICK c, t : c = commands[q] /\ t = io[q]
    OBVIOUS
  <2>3. c \in Seq(MovedWork) /\ t \in Seq(MovedWork) /\ InOrder(c, t, oids)
    BY <1>1, <2>2 DEF StagingInOrder, WorkTypes
  <2>4. ASSUME NEW p \in Queues, NEW v \in {<<p, "device">>, <<p, "io">>}, v # w
        PROVE  v \in Workers /\ Backlog(v)' = Backlog(v)
    BY <2>4 DEF WorkerStep, Workers
  <2>5. ASSUME NEW p \in Queues, p # q
        PROVE  commands'[p] = commands[p] /\ io'[p] = io[p]
    <3>1. <<p, "device">> # w /\ <<p, "io">> # w
      BY <2>1, <2>5
    <3>2. QED
      BY <2>4, <3>1 DEF Backlog
  <2>6. InOrder(commands'[q], io'[q], oids)
    <3>1. CASE side = "device"
      <4>1. commands'[q] = Tail(c) /\ c # <<>>
        BY <2>1, <2>2, <3>1 DEF WorkerStep, Backlog
      <4>2. io'[q] = t
        <5>1. <<q, "io">> # w
          BY <2>1, <3>1
        <5>2. QED
          BY <2>2, <2>4, <5>1 DEF Backlog
      <4>3. \A m \in 1 .. Len(t) : t[m].ev \notin c[1].waits
        <5>1. <<q, "io">> \in Workers /\ Backlog(<<q, "io">>) = t /\ Backlog(w) = c
          BY <2>1, <2>2, <3>1 DEF Workers, Backlog
        <5>2. QED
          BY <5>1, FirstIsReady
      <4>4. QED
        BY <2>3, <4>1, <4>2, <4>3, InOrderDevice
    <3>2. CASE side = "io"
      <4>1. io'[q] = Tail(t) /\ t # <<>>
        BY <2>1, <2>2, <3>2 DEF WorkerStep, Backlog
      <4>2. commands'[q] = c
        <5>1. <<q, "device">> # w
          BY <2>1, <3>2
        <5>2. QED
          BY <2>2, <2>4, <5>1 DEF Backlog
      <4>3. \A n \in 1 .. Len(c) : c[n].ev \notin t[1].waits
        <5>1. <<q, "device">> \in Workers /\ Backlog(<<q, "device">>) = c /\ Backlog(w) = t
          BY <2>1, <2>2, <3>2 DEF Workers, Backlog
        <5>2. QED
          BY <5>1, FirstIsReady
      <4>4. QED
        BY <2>3, <4>1, <4>2, <4>3, InOrderIO
    <3>3. QED
      BY <2>1, <3>1, <3>2
  <2>7. \A p \in Queues : InOrder(commands'[p], io'[p], oids)
    BY <1>1, <2>5, <2>6 DEF StagingInOrder
  <2>8. QED
    BY <2>7 DEF StagingInOrder, InOrder, Meet, Orders, LoadOf
<1>12. QED
  BY <1>3, <1>5, <1>6, <1>7, <1>9, <1>10, <1>11 DEF RaceInv

-----------------------------------------------------------------------------
(***************************************************************************)
(* What the client's thread does                                           *)
(***************************************************************************)
\* The block that get takes a slot for is in one of the object's own slots,
\* and blocks of even number are in the first.
LEMMA ThisBlockPlace ==
  ASSUME RInv, NEW size \in Sizes, CutAlike(size), pc = "activate",
         ~Activated(ThisBlock.oid), NEW s \in Slots,
         NewFill(s, ThisBlock.oid, ThisBlock.bid, ThisBlock.len)
  PROVE  /\ InHome(ThisBlock, s) /\ Alternates(ThisBlock, s, size)
         /\ ThisBlock.oid \in Nat \ {0}
         /\ \A o \in Int : s \in {(o - 1) * DoubleBuffering, (o - 1) * DoubleBuffering + 1} =>
              o = ThisBlock.oid
<1>1. PICK b : b = ThisBlock
  OBVIOUS
<1>2. /\ b.oid \in Nat \ {0} /\ b.bid = run.index * ThisFun.steps[run.arg]
      /\ b.oid = ThisFun.objs[run.arg] /\ run.index \in Nat
      /\ run.fun \in 1 .. Len(run_queue) /\ run.arg \in 1 .. Len(ThisFun.objs)
  BY <1>1, ThisBlockType, RunFields DEF RInv, HInv, Position
<1>3. ThisFun.steps[run.arg] = size[b.oid]
  BY <1>2 DEF CutAlike, Cuts, ThisFun
<1>4. s = SlotAt(b.oid, run.index)
  BY <1>1, Landing
<1>5. /\ InHome(b, s) /\ s % DoubleBuffering = run.index % NumQueues
  BY <1>2, <1>4, SlotFacts DEF InHome
<1>6. Alternates(b, s, size)
  BY <1>2, <1>3, <1>5 DEF Alternates
<1>7. ASSUME NEW o \in Int, s \in {(o - 1) * 2, (o - 1) * 2 + 1}
      PROVE  o = b.oid
  <2>1. s \in {(b.oid - 1) * 2, (b.oid - 1) * 2 + 1}
    BY <1>5 DEF InHome, DoubleBuffering
  <2>2. PICK p \in Nat : p = b.oid
    BY <1>2
  <2>3. (s = (p - 1) * 2 \/ s = (p - 1) * 2 + 1) /\ (s = (o - 1) * 2 \/ s = (o - 1) * 2 + 1)
    BY <1>7, <2>1, <2>2
  <2>4. s \in Int
    BY DEF Slots
  <2>5. QED
    BY <2>2, <2>3, <2>4
<1>8. QED
  BY <1>1, <1>2, <1>5, <1>6, <1>7 DEF DoubleBuffering

\* When get loads a block of a read-only object, and the object is not one of
\* oids, something waits for every earlier transfer of the object.
ReloadsAwaited(oids) ==
  /\ pc = "activate" /\ ~Activated(ThisBlock.oid)
  /\ ThisBlock.oid \in Oids \ oids /\ objects[ThisBlock.oid].mode = "ReadOnly"
  => LET c == commands[ThisQueue]
     IN  \A i \in 1 .. Len(c) :
           c[i].kind = "write" /\ c[i].block.oid = ThisBlock.oid =>
             Awaited(c, i, io[ThisQueue])

\* The transfers of an activation fit into its queue.
LEMMA MissWork ==
  ASSUME GInv, RInv, NEW size \in Sizes, NEW oids, RaceInv(size, oids),
         ReloadsAwaited(oids), ActivateMiss
  PROVE  /\ TransfersInPlace(size)' /\ KindsFit' /\ StagingInOrder(oids)'
         /\ KernelOps' = KernelOps /\ SlotsAlternate(size)'
<1>0. PICK s \in Slots : /\ NewFill(s, ThisBlock.oid, ThisBlock.bid, ThisBlock.len)
                         /\ Transfer(s, next_event) /\ cached[s] \in Block
                         /\ cached' = [cached EXCEPT ![s] = ThisBlock]
                         /\ ThisBlock \in Block /\ InObject(ThisBlock)
  BY MissFills DEF RInv
<1>1. /\ pc = "activate" /\ ~Activated(ThisBlock.oid) /\ objects' = objects
  BY CacheSteps DEF ActivateMiss, SchedulerNext, HostStep
<1>2. /\ WorkTypes /\ BlocksExist /\ TasksAwaited /\ Homes /\ HInv
      /\ CutAlike(size) /\ SlotsAlternate(size) /\ TransfersInPlace(size)
      /\ KindsFit /\ StagingInOrder(oids)
      /\ cached \in [Slots -> Block] /\ next_event \in Nat
  BY DEF GInv, RInv, RaceInv, HInv, HostTypes, IInv, TypeOK
<1>3. PICK b : b = ThisBlock
  OBVIOUS
<1>4. /\ InHome(b, s) /\ Alternates(b, s, size) /\ b \in Block /\ InObject(b)
      /\ b.oid \in Nat \ {0}
      /\ \A o \in Int : s \in {(o - 1) * DoubleBuffering, (o - 1) * DoubleBuffering + 1} =>
              o = b.oid
  BY <1>0, <1>1, <1>2, <1>3, ThisBlockPlace
<1>5. b # NoBlock /\ ActivateWaits \in SUBSET Nat /\ ThisQueue \in Queues
      /\ ThisQueue # ClientQueue
  <2>1. b # NoBlock
    BY <1>4 DEF NoBlock
  <2>2. ActivateWaits \in SUBSET Nat
    BY <1>2, RunFields DEF ActivateWaits
  <2>3. QED
    BY <1>2, <2>1, <2>2, ThisQueueType
<1>6. /\ cached'[s] # NoBlock
      /\ \A t \in Slots : cached'[t] = IF t = s THEN b ELSE cached[t]
      /\ \A t \in Slots : cached[t] # NoBlock => cached'[t] # NoBlock
  BY <1>0, <1>2, <1>3, <1>5
<1>7. SlotsAlternate(size)'
  <2>1. ASSUME NEW t \in Slots, NEW c, c = cached'[t], c # NoBlock
        PROVE  Alternates(c, t, size)
    BY <1>2, <1>4, <1>6, <2>1 DEF SlotsAlternate
  <2>2. QED
    BY <2>1 DEF SlotsAlternate, NoBlock, Alternates
<1>8. WritesBack(s) => InHome(cached[s], s) /\ Alternates(cached[s], s, size)
                       /\ ~Immutable(cached[s].oid)
  BY <1>2 DEF WritesBack, Homes, InHome, SlotsAlternate
<1>9. ASSUME ~WritesBack(s), objects[b.oid].mode # "Transient", b.oid \notin oids,
             NEW i \in 1 .. Len(commands[ThisQueue]),
             commands[ThisQueue][i].kind \in {"read", "write"}, commands[ThisQueue][i].slot = s
      PROVE  Awaited(commands[ThisQueue], i, io[ThisQueue])
  <2>1. PICK w : w = <<ThisQueue, "device">>
    OBVIOUS
  <2>2. /\ w \in Workers /\ w[1] # ClientQueue /\ i \in 1 .. Len(Backlog(w))
        /\ Backlog(w)[i].kind # "kernel" /\ Backlog(w)[i].slot = s
    BY <1>5, <1>9, <2>1 DEF Workers, Backlog
  <2>3. cached[s] # NoBlock
    BY <1>2, <2>2 DEF TransfersInPlace
  <2>4. PICK o : o = cached[s].oid
    OBVIOUS
  <2>5. Immutable(o)
    BY <1>9, <2>3, <2>4 DEF WritesBack
  <2>6. s \in {(o - 1) * DoubleBuffering, (o - 1) * DoubleBuffering + 1}
    BY <1>2, <2>3, <2>4 DEF Homes
  <2>7. o = b.oid
    <3>1. o \in Int
      BY <1>2, <2>4 DEF Block, NoBlock
    <3>2. QED
      BY <1>4, <2>6, <3>1
  <2>8. b.oid \in Oids /\ objects[b.oid].mode = "ReadOnly"
    BY <1>4, <1>9, <2>5, <2>7 DEF Immutable, InObject, Oids
  <2>9. PICK op : op = Backlog(w)[i]
    OBVIOUS
  <2>10. op = commands[ThisQueue][i] /\ op.kind # "kernel" /\ op \in Work
    BY <1>2, <2>1, <2>2, <2>9, BacklogTypes DEF Backlog
  <2>11. TransferInPlace(op, size)
    BY <1>2, <2>2, <2>9 DEF TransfersInPlace
  <2>12. op.block.oid = b.oid
    <3>1. op.block.oid \in Int
      BY <2>10 DEF Work, Transfers, Kernels, Block
    <3>2. QED
      BY <1>4, <1>9, <2>10, <2>11, <3>1 DEF TransferInPlace, InHome
  <2>13. op.kind = "write"
    BY <1>9, <2>5, <2>7, <2>10, <2>11, <2>12 DEF TransferInPlace
  <2>14. \A k \in 1 .. Len(commands[ThisQueue]) :
           commands[ThisQueue][k].kind = "write" /\ commands[ThisQueue][k].block.oid = b.oid =>
             Awaited(commands[ThisQueue], k, io[ThisQueue])
    BY <1>1, <1>3, <1>9, <2>8 DEF ReloadsAwaited
  <2>15. QED
    BY <2>10, <2>12, <2>13, <2>14
<1>10. CASE UNCHANGED queueVars
  <2>1. commands' = commands /\ io' = io
    BY <1>10 DEF queueVars
  <2>2. \A w : Backlog(w)' = Backlog(w)
    BY <2>1 DEF Backlog
  <2>3. \A op : TransferInPlace(op, size)' <=> TransferInPlace(op, size)
    BY <1>1 DEF TransferInPlace, Immutable
  <2>4. ASSUME NEW w \in Workers, NEW k \in 1 .. Len(Backlog(w)), NEW op,
               op = Backlog(w)[k], w[1] # ClientQueue, op.kind # "kernel"
        PROVE  TransferInPlace(op, size) /\ cached'[op.slot] # NoBlock
    <3>1. TransferInPlace(op, size) /\ cached[op.slot] # NoBlock
      BY <1>2, <2>4 DEF TransfersInPlace
    <3>2. QED
      BY <1>6, <3>1 DEF TransferInPlace
  <2>5. TransfersInPlace(size)'
    BY <2>2, <2>3, <2>4 DEF TransfersInPlace, NoBlock
  <2>6. KindsFit' /\ KernelOps' = KernelOps
    BY <1>2, <2>2 DEF KindsFit, KernelOps, AllWork
  <2>7. StagingInOrder(oids)'
    BY <1>2, <2>1 DEF StagingInOrder
  <2>8. QED
    BY <1>7, <2>5, <2>6, <2>7
<1>11. CASE /\ WritesBack(s)
            /\ Enqueue(ThisQueue, ReadCommands(s, cached[s], ActivateWaits, next_event),
                       ReadTasks(s, cached[s], next_event))
  <2>1. PICK cmds, tasks : /\ cmds = ReadCommands(s, cached[s], ActivateWaits, next_event)
                           /\ tasks = ReadTasks(s, cached[s], next_event)
    OBVIOUS
  <2>2. cmds \in Seq(MovedWork) /\ tasks \in Seq(MovedWork)
    BY <1>0, <1>2, <1>5, <1>11, <2>1, EvictedInObject, ReadMoved
  <2>3. Fits(ThisQueue, s, size, oids, b.oid, cmds, tasks)
    BY <1>2, <1>5, <1>8, <1>11, <2>1, ReadFits
  <2>4. Enqueue(ThisQueue, cmds, tasks)
    BY <1>11, <2>1
  <2>5. QED
    BY <1>1, <1>2, <1>5, <1>6, <1>7, <1>11, <2>2, <2>3, <2>4, TransfersEnqueued
<1>12. CASE /\ objects[b.oid].mode # "Transient"
            /\ Enqueue(ThisQueue, FillCommands(s, b, ActivateWaits, next_event),
                       FillTasks(s, b, ActivateWaits, next_event))
  <2>1. PICK cmds, tasks : /\ cmds = FillCommands(s, b, ActivateWaits, next_event)
                           /\ tasks = FillTasks(s, b, ActivateWaits, next_event)
    OBVIOUS
  <2>2. cmds \in Seq(MovedWork) /\ tasks \in Seq(MovedWork)
    BY <1>0, <1>2, <1>4, <1>5, <2>1, EvictedInObject, FillMoved
  <2>3. Fits(ThisQueue, s, size, oids, b.oid, cmds, tasks)
    BY <1>2, <1>4, <1>5, <1>8, <2>1, FillFits
  <2>4. Enqueue(ThisQueue, cmds, tasks)
    BY <1>12, <2>1
  <2>5. ~WritesBack(s) /\ b.oid \notin oids =>
           \A i \in 1 .. Len(commands[ThisQueue]) :
              commands[ThisQueue][i].kind \in {"read", "write"}
              /\ commands[ThisQueue][i].slot = s =>
                Awaited(commands[ThisQueue], i, io[ThisQueue])
    BY <1>9, <1>12
  <2>6. QED
    BY <1>1, <1>2, <1>5, <1>6, <1>7, <2>2, <2>3, <2>4, <2>5, TransfersEnqueued
<1>13. QED
  BY <1>0, <1>3, <1>10, <1>11, <1>12 DEF Transfer

\* What a step does not touch stays.
LEMMA WorkStays ==
  ASSUME NEW size, NEW oids, RaceInv(size, oids), UNCHANGED queueVars,
         cached' = cached, objects' = objects
  PROVE  /\ TransfersInPlace(size)' /\ KindsFit' /\ StagingInOrder(oids)'
         /\ KernelOps' = KernelOps /\ KernelsChained' /\ SlotsAlternate(size)'
<1>1. commands' = commands /\ io' = io
  BY DEF queueVars
<1>2. /\ SlotsAlternate(size) /\ TransfersInPlace(size) /\ KindsFit
      /\ StagingInOrder(oids) /\ KernelsChained
  BY DEF RaceInv
<1>3. \A w : Backlog(w)' = Backlog(w)
  BY <1>1 DEF Backlog
<1>4. \A op : TransferInPlace(op, size)' <=> TransferInPlace(op, size)
  BY DEF TransferInPlace, Immutable
<1>5. TransfersInPlace(size)'
  BY <1>2, <1>3, <1>4 DEF TransfersInPlace, NoBlock
<1>6. KindsFit' /\ KernelOps' = KernelOps
  BY <1>2, <1>3 DEF KindsFit, KernelOps, AllWork
<1>7. StagingInOrder(oids)' /\ SlotsAlternate(size)'
  BY <1>1, <1>2 DEF StagingInOrder, SlotsAlternate
<1>8. QED
  BY <1>2, <1>5, <1>6, <1>7 DEF KernelsChained

\* Kernels are below the next event, which is none of theirs.
LEMMA KernelBelow ==
  ASSUME GInv, NEW a \in KernelOps
  PROVE  a.ev \in 1 .. next_event - 1
<1>1. PICK w \in Workers : \E k \in 1 .. Len(Backlog(w)) : a = Backlog(w)[k]
  BY KernelPlace
<1>2. QED
  BY <1>1 DEF GInv, EventsBelow

\* The client's thread enqueues a kernel.
LEMMA KernelWork ==
  ASSUME GInv, RInv, NEW size, NEW oids, RaceInv(size, oids), RunFunction
  PROVE  /\ TransfersInPlace(size)' /\ KindsFit' /\ StagingInOrder(oids)'
         /\ KernelsChained' /\ LastKernelKept' /\ SlotsAlternate(size)'
<1>1. PICK op : op = Kernel(run.wait_list, next_event)
  OBVIOUS
<1>2. /\ pc = "run" /\ Enqueue(ThisQueue, <<op>>, <<>>) /\ cached' = cached
      /\ objects' = objects /\ next_event \in Nat /\ HInv /\ Completed
  BY <1>1 DEF RunFunction, cacheVars, RInv, HInv, HostTypes
<1>3. /\ op \in MovedWork /\ op.kind = "kernel" /\ op.waits = run.wait_list
      /\ op.ev = next_event
  BY <1>1, <1>2, KernelType DEF MovedWork, Work, Kernels
<1>4. ThisQueue \in Queues /\ ThisQueue # ClientQueue
  BY <1>2, ThisQueueType
<1>5. <<op>> \in Seq(MovedWork) /\ <<>> \in Seq(MovedWork) /\ WorkTypes
  BY <1>3 DEF GInv
<1>6. /\ SlotsAlternate(size) /\ TransfersInPlace(size) /\ KindsFit
      /\ StagingInOrder(oids) /\ KernelsChained /\ LastKernelKept
  BY DEF RaceInv
<1>7. SlotsAlternate(size)'
  BY <1>2, <1>6 DEF SlotsAlternate
<1>8. ASSUME NEW w \in Workers, NEW k \in 1 .. Len(Backlog(w)')
      PROVE  \/ \E j \in 1 .. Len(Backlog(w)) : Backlog(w)'[k] = Backlog(w)[j]
             \/ w = <<ThisQueue, "device">> /\ Backlog(w)'[k] = op
  <2>1. CASE \E m \in 1 .. Len(Added(w, ThisQueue, <<op>>, <<>>)) :
               Backlog(w)'[k] = Added(w, ThisQueue, <<op>>, <<>>)[m]
    <3>1. Added(w, ThisQueue, <<op>>, <<>>) # <<>>
      BY <2>1
    <3>2. w = <<ThisQueue, "device">> /\ Added(w, ThisQueue, <<op>>, <<>>) = <<op>>
      BY <1>4, <3>1, AddedWhere
    <3>3. QED
      BY <2>1, <3>2
  <2>2. QED
    BY <1>2, <1>4, <1>5, <2>1, EnqueuedWhere
<1>9. ASSUME NEW w \in Workers, NEW k \in 1 .. Len(Backlog(w))
      PROVE  \E j \in 1 .. Len(Backlog(w)') : Backlog(w)'[j] = Backlog(w)[k]
  BY <1>2, <1>4, <1>5, EnqueuedWhere
<1>10. \E w \in Workers : \E j \in 1 .. Len(Backlog(w)') : Backlog(w)'[j] = op
  <2>1. PICK w \in Workers : w = <<ThisQueue, "device">>
    BY <1>4 DEF Workers
  <2>2. Added(w, ThisQueue, <<op>>, <<>>) = <<op>>
    BY <2>1 DEF Added
  <2>3. Len(Backlog(w)) + 1 \in 1 .. Len(Backlog(w)')
        /\ Backlog(w)'[Len(Backlog(w)) + 1] = op
    <3>1. \A m \in 1 .. Len(Added(w, ThisQueue, <<op>>, <<>>)) :
            /\ Len(Backlog(w)) + m \in 1 .. Len(Backlog(w)')
            /\ Backlog(w)'[Len(Backlog(w)) + m] = Added(w, ThisQueue, <<op>>, <<>>)[m]
      BY <1>2, <1>4, <1>5, EnqueuedWhere
    <3>2. /\ 1 \in 1 .. Len(Added(w, ThisQueue, <<op>>, <<>>))
          /\ Added(w, ThisQueue, <<op>>, <<>>)[1] = op
      BY <2>2
    <3>3. QED
      BY <3>1, <3>2
  <2>4. QED
    BY <2>3
<1>11. KindsFit'
  <2>1. ASSUME NEW w \in Workers, NEW k \in 1 .. Len(Backlog(w)')
        PROVE  Backlog(w)'[k].kind \in KindsOf(w)
    <3>1. CASE w = <<ThisQueue, "device">> /\ Backlog(w)'[k] = op
      BY <1>3, <1>4, <3>1 DEF KindsOf
    <3>2. QED
      BY <1>6, <1>8, <3>1 DEF KindsFit
  <2>2. QED
    BY <2>1 DEF KindsFit
<1>12. TransfersInPlace(size)'
  <2>1. \A x : TransferInPlace(x, size)' <=> TransferInPlace(x, size)
    BY <1>2 DEF TransferInPlace, Immutable
  <2>2. ASSUME NEW w \in Workers, NEW k \in 1 .. Len(Backlog(w)'), NEW x,
               x = Backlog(w)'[k], w[1] # ClientQueue, x.kind # "kernel"
        PROVE  TransferInPlace(x, size) /\ cached'[x.slot] # NoBlock
    BY <1>2, <1>3, <1>6, <1>8, <2>2 DEF TransfersInPlace
  <2>3. QED
    BY <2>1, <2>2 DEF TransfersInPlace, NoBlock
<1>13. KernelOps' = KernelOps \cup {op}
  <2>1. ASSUME NEW x \in KernelOps'
        PROVE  x \in KernelOps \cup {op}
    <3>1. PICK w \in Workers : \E k \in 1 .. Len(Backlog(w)') : x = Backlog(w)'[k]
      BY DEF KernelOps, AllWork, Workers
    <3>2. x = op \/ \E j \in 1 .. Len(Backlog(w)) : x = Backlog(w)[j]
      BY <1>8, <3>1
    <3>3. x.kind = "kernel"
      BY DEF KernelOps
    <3>4. QED
      BY <3>2, <3>3 DEF KernelOps, AllWork
  <2>2. ASSUME NEW x \in KernelOps
        PROVE  x \in KernelOps'
    <3>1. PICK w \in Workers : \E k \in 1 .. Len(Backlog(w)) : x = Backlog(w)[k]
      BY KernelPlace
    <3>2. \E j \in 1 .. Len(Backlog(w)') : Backlog(w)'[j] = x
      BY <1>9, <3>1
    <3>3. x.kind = "kernel"
      BY KernelPlace
    <3>4. QED
      BY <3>2, <3>3 DEF KernelOps, AllWork
  <2>3. op \in KernelOps'
    BY <1>3, <1>10 DEF KernelOps, AllWork
  <2>4. QED
    BY <2>1, <2>2, <2>3
<1>14. KernelsChained'
  <2>1. ASSUME NEW a \in KernelOps', NEW b \in KernelOps', a.ev < b.ev
        PROVE  \E c \in KernelOps' : a.ev <= c.ev /\ c.ev < b.ev /\ c.ev \in b.waits
    <3>1. CASE a \in KernelOps /\ b \in KernelOps
      BY <1>6, <1>13, <2>1, <3>1 DEF KernelsChained
    <3>2. CASE a \in KernelOps /\ b = op
      <4>1. PICK c \in KernelOps : a.ev <= c.ev /\ c.ev \in run.wait_list
        BY <1>2, <1>6, <3>2 DEF LastKernelKept
      <4>2. c.ev < next_event
        BY <1>2, KernelBelow
      <4>3. QED
        BY <1>3, <1>13, <3>2, <4>1, <4>2
    <3>3. CASE a = op
      <4>0. b # op
        BY <1>2, <1>3, <2>1, <3>3
      <4>1. b \in KernelOps
        BY <1>13, <4>0
      <4>2. b.ev < next_event
        BY <1>2, <4>1, KernelBelow
      <4>3. b.ev \in Nat
        BY <4>1, <1>2, KernelBelow
      <4>4. QED
        BY <1>2, <1>3, <2>1, <3>3, <4>2, <4>3
    <3>4. QED
      BY <1>13, <3>1, <3>2, <3>3
  <2>2. QED
    BY <2>1 DEF KernelsChained
<1>15. LastKernelKept'
  <2>1. /\ pc' = "run" => run'.wait_list = {next_event}
        /\ pc' \in {"activate", "deactivate"} => run'.trans_event = next_event
        /\ pc' \in {"run", "activate", "deactivate", "drain"}
    <3>1. run \in RunState /\ run = [run EXCEPT !.fun = run.fun]
      BY <1>2 DEF HInv, HostTypes, RunState
    <3>0. Len(Append(run.active, run.activating)) \in Nat
      <4>1. run.active \in Seq(BufferList) /\ run.activating \in BufferList
        <5>1. BufferList \ {<<>>} \subseteq BufferList
          OBVIOUS
        <5>2. QED
          BY <1>2, <5>1, RunFields, SeqMonotonic DEF BufferLists
      <4>2. QED
        BY <4>1
    <3>2. CASE run.fun = Len(run_queue)
      <4>1. PICK inFlight : inFlight = Append(run.active, run.activating)
        OBVIOUS
      <4>2. /\ run' = [NotRunning EXCEPT !.index = run.index + 1,
                         !.trans_event = next_event, !.active = inFlight]
            /\ LET lastIndex == run.index + 1 = NumBlocks(run_queue[1], 1)
               IN  pc' = CASE lastIndex -> "drain"
                           [] ~lastIndex /\ Len(inFlight) >= NumQueues -> "deactivate"
                           [] ~lastIndex /\ Len(inFlight) < NumQueues -> "activate"
        BY <3>2, <4>1 DEF RunFunction
      <4>3. pc' \in {"drain", "deactivate", "activate"}
        BY <3>0, <4>1, <4>2 DEF NumQueues
      <4>4. QED
        BY <4>2, <4>3 DEF NotRunning
    <3>3. CASE run.fun # Len(run_queue)
      BY <1>2, <3>1, <3>3 DEF RunFunction, RunState
    <3>4. QED
      BY <3>2, <3>3
  <2>2. \A a \in KernelOps' : a.ev <= next_event
    <3>1. \A a \in KernelOps : a.ev <= next_event
      BY <1>2, KernelBelow
    <3>2. QED
      BY <1>2, <1>3, <1>13, <3>1
  <2>3. op \in KernelOps'
    BY <1>13
  <2>4. QED
    BY <1>3, <2>1, <2>2, <2>3 DEF LastKernelKept
<1>16. StagingInOrder(oids)'
  <2>1. PICK q : q = ThisQueue
    OBVIOUS
  <2>2. /\ commands' = [commands EXCEPT ![q] = commands[q] \o <<op>>]
        /\ io' = [io EXCEPT ![q] = io[q] \o <<>>]
        /\ commands \in [Queues -> Seq(MovedWork)] /\ io \in [Queues -> Seq(MovedWork)]
        /\ q \in Queues
    BY <1>2, <1>4, <1>5, <2>1 DEF Enqueue, WorkTypes
  <2>3. PICK c, t : c = commands[q] /\ t = io[q]
    OBVIOUS
  <2>4. c \in Seq(MovedWork) /\ t \in Seq(MovedWork) /\ InOrder(c, t, oids) /\ Await(c, t)
    BY <1>6, <2>2, <2>3 DEF StagingInOrder, RInv, TasksAwaited
  <2>5. PICK d, u : d = <<op>> /\ u = <<>>
    OBVIOUS
  <2>6. d \in Seq(MovedWork) /\ u \in Seq(MovedWork) /\ Len(u) = 0
    BY <1>5, <2>5
  <2>7. InOrder(d, u, oids)
    BY <2>6 DEF InOrder
  <2>8. InOrder(c \o d, t \o u, oids)
    <3>1. \A i \in 1 .. Len(c) : \A m \in 1 .. Len(u) :
            Meet(c, i, u, m) /\ ~LoadOf(u[m], oids) =>
              \/ \E n \in 1 .. Len(d) : \E l \in 1 .. m : d[n].ev \in u[l].waits
              \/ \E n \in i .. Len(c) : \E l \in 1 .. Len(t) : c[n].ev \in t[l].waits
      BY <2>6
    <3>2. QED
      BY <2>4, <2>6, <2>7, <3>1, InOrderConcat
  <2>9. ASSUME NEW p \in Queues
        PROVE  InOrder(commands'[p], io'[p], oids)
    <3>1. CASE p = q
      <4>1. commands'[p] = c \o d /\ io'[p] = t \o u
        BY <2>2, <2>3, <2>5, <3>1
      <4>2. QED
        BY <2>8, <4>1
    <3>2. CASE p # q
      BY <1>6, <2>2, <3>2 DEF StagingInOrder
    <3>3. QED
      BY <3>1, <3>2
  <2>10. QED
    BY <2>9 DEF StagingInOrder, InOrder, Meet, Orders, LoadOf
<1>17. QED
  BY <1>7, <1>11, <1>12, <1>14, <1>15, <1>16

\* ObjectDone hands the event of the last kernel on.
LEMMA ObjectDoneChains ==
  ASSUME HInv, pc = "activate", NEW fst, NEW act, NEW bufs, ObjectDone(fst, act, bufs)
  PROVE  /\ run'.trans_event = run.trans_event /\ pc' \in {"activate", "run"}
         /\ pc' = "run" /\ run.trans_event # NoEvent => run.trans_event \in run'.wait_list
<1>1. run \in RunState
  BY DEF HInv, HostTypes
<1>2. CASE run.arg = Len(ThisFun.objs) /\ run.fun = Len(run_queue)
  <2>0. PICK waits : waits = IF act = NoEvent THEN run.wait_list ELSE {act}
    OBVIOUS
  <2>1. run' = [run EXCEPT !.arg = 1, !.fst_event = NoEvent, !.activate_event = act,
                  !.activating = bufs,
                  !.fun = IF run.fun = Len(run_queue) THEN 1 ELSE run.fun + 1,
                  !.wait_list = IF run.fun = Len(run_queue) THEN KernelWaits(waits)
                                ELSE waits]
    BY <1>2, <2>0 DEF ObjectDone
  <2>2. run'.trans_event = run.trans_event /\ run'.wait_list = KernelWaits(waits)
    BY <1>1, <1>2, <2>1 DEF RunState
  <2>3. pc' = "run"
    BY <1>2 DEF ObjectDone
  <2>4. QED
    BY <2>2, <2>3 DEF KernelWaits
<1>3. CASE run.arg # Len(ThisFun.objs) \/ run.fun # Len(run_queue)
  <2>1. pc' = "activate"
    BY <1>3 DEF ObjectDone
  <2>2. run'.trans_event = run.trans_event
    BY <1>1 DEF ObjectDone, RunState
  <2>3. QED
    BY <2>1, <2>2
<1>4. QED
  BY <1>2, <1>3

\* When an object has been activated, the next kernel still waits for the last.
LEMMA ActivateKeepsLast ==
  ASSUME GInv, NEW size, NEW oids, RaceInv(size, oids), KernelOps' = KernelOps,
         ActivateAgain \/ ActivateHit \/ ActivateMiss
  PROVE  LastKernelKept'
<1>1. pc = "activate" /\ HInv /\ LastKernelKept
  BY DEF ActivateAgain, ActivateHit, ActivateMiss, GInv, RaceInv
<1>2. \E fst, act, bufs : ObjectDone(fst, act, bufs)
  <2>1. \A s, ev : GotBuffer(s, ev) => \E fst, act, bufs : ObjectDone(fst, act, bufs)
    BY DEF GotBuffer
  <2>2. \A s, n : Transfer(s, n) => \E ev : GotBuffer(s, ev)
    BY DEF Transfer
  <2>3. QED
    BY <2>1, <2>2 DEF ActivateAgain, ActivateHit, ActivateMiss
<1>3. /\ run'.trans_event = run.trans_event /\ pc' \in {"activate", "run"}
      /\ pc' = "run" /\ run.trans_event # NoEvent => run.trans_event \in run'.wait_list
  BY <1>1, <1>2, ObjectDoneChains
<1>4. ASSUME NEW a \in KernelOps
      PROVE  \E c \in KernelOps :
               /\ a.ev <= c.ev /\ c.ev = run.trans_event
               /\ pc' = "run" => c.ev \in run'.wait_list
  <2>1. PICK c \in KernelOps : a.ev <= c.ev /\ c.ev = run.trans_event
    BY <1>1 DEF LastKernelKept
  <2>2. next_event \in Nat
    BY <1>1 DEF HInv, HostTypes
  <2>3. c.ev # NoEvent
    BY <2>2, KernelBelow DEF NoEvent
  <2>4. QED
    BY <1>3, <2>1, <2>3
<1>5. QED
  BY <1>3, <1>4 DEF LastKernelKept

\* The functions come from the batches of the client.
LEMMA CutsStay ==
  ASSUME HInv, NEW size, CutAlike(size), [SchedulerNext]_vars
  PROVE  CutAlike(size)'
<1>1. CASE StartBatch
  <2>1. PICK d, e : d = program.batches /\ e = Head(program.batches)
    OBVIOUS
  <2>2. /\ d \in Seq(Batch) /\ d # <<>> /\ run_queue \in Seq(Runnable)
        /\ e = d[1] /\ e \in Seq(Runnable)
    <3>1. d \in Seq(Batch) /\ d # <<>> /\ run_queue \in Seq(Runnable)
      BY <1>1, <2>1 DEF StartBatch, HInv, HostTypes
    <3>2. e = d[1] /\ 1 \in 1 .. Len(d)
      BY <2>1, <3>1
    <3>3. QED
      BY <3>1, <3>2, ElementOf DEF Batch
  <2>3. run_queue' = run_queue \o e /\ program'.batches = Tail(d)
    BY <1>1, <2>1 DEF StartBatch, HInv, HostTypes
  <2>4. ASSUME NEW k \in 1 .. Len(run_queue \o e)
        PROVE  Cuts((run_queue \o e)[k], size)
    <3>1. CASE k \in 1 .. Len(run_queue)
      <4>1. (run_queue \o e)[k] = run_queue[k]
        BY <2>2, <3>1, ConcatElements
      <4>2. QED
        BY <3>1, <4>1 DEF CutAlike
    <3>2. CASE \E m \in 1 .. Len(e) : k = Len(run_queue) + m
      <4>1. PICK m \in 1 .. Len(e) : k = Len(run_queue) + m
        BY <3>2
      <4>2. (run_queue \o e)[k] = e[m]
        BY <2>2, <4>1, ConcatElements
      <4>3. 1 \in 1 .. Len(d)
        BY <2>2
      <4>4. QED
        BY <2>1, <2>2, <4>1, <4>2, <4>3 DEF CutAlike
    <3>3. QED
      BY <2>2, <3>1, <3>2, ConcatElements
  <2>5. ASSUME NEW n \in 1 .. Len(Tail(d)), NEW k \in 1 .. Len(Tail(d)[n])
        PROVE  Cuts(Tail(d)[n][k], size)
    <3>1. n + 1 \in 1 .. Len(d) /\ Tail(d)[n] = d[n + 1]
      BY <2>2
    <3>2. QED
      BY <2>1, <3>1 DEF CutAlike
  <2>6. QED
    BY <2>3, <2>4, <2>5 DEF CutAlike, Cuts
<1>2. CASE Finish
  <2>1. run_queue' = <<>> /\ program' = program
    BY <1>2 DEF Finish
  <2>2. QED
    BY <2>1 DEF CutAlike
<1>3. CASE ClientRead
  <2>1. run_queue' = run_queue /\ program'.batches = program.batches
    BY <1>3 DEF ClientRead, HInv, HostTypes
  <2>2. QED
    BY <2>1 DEF CutAlike
<1>4. CASE UNCHANGED <<run_queue, program>>
  BY <1>4 DEF CutAlike
<1>5. CASE ActivateAgain \/ ActivateHit \/ ActivateMiss
  BY <1>4, <1>5, ObjectDoneLeaves DEF ActivateAgain, ActivateHit, ActivateMiss
<1>6. CASE RegisterOk \/ RegisterFails \/ ActivateFails \/ RunFunction
  BY <1>4, <1>6 DEF RegisterOk, RegisterFails, ActivateFails, RunFunction, Fail
<1>7. CASE Deactivate \/ ClientEnds \/ Done \/ UNCHANGED vars
  BY <1>4, <1>7 DEF Deactivate, Fail, ClientEnds, Done, vars, hostVars
<1>8. CASE \E q \in Queues : DeviceStep(q) \/ IOThreadStep(q)
  BY <1>4, <1>8 DEF DeviceStep, IOThreadStep, hostVars
<1>9. QED
  BY <1>1, <1>2, <1>3, <1>5, <1>6, <1>7, <1>8 DEF SchedulerNext, HostStep

\* While run is there, the client's queue is empty and stays so.
LEMMA AloneStays ==
  ASSUME ReadsAlone, pc \notin {"idle", "end"} \/ program.batches # <<>>,
         \A w \in Workers : w[1] = ClientQueue => Backlog(w)' = Backlog(w)
  PROVE  ReadsAlone'
BY DEF ReadsAlone

\* What the client reads goes through a queue of its own.
LEMMA ReadLeftBehind ==
  ASSUME GInv, RInv, NEW size, NEW oids, RaceInv(size, oids), ClientRead
  PROVE  /\ TransfersInPlace(size)' /\ KindsFit' /\ StagingInOrder(oids)'
         /\ KernelOps' = KernelOps /\ SlotsAlternate(size)'
<1>1. PICK b : b = Head(program.reads)
  OBVIOUS
<1>2. b \in Block
  <2>1. program.reads \in Seq(Block) /\ program.reads # <<>>
    BY DEF ClientRead, RInv, HInv, HostTypes
  <2>2. QED
    BY <1>1, <2>1
<1>3. /\ ClientQueue \in Queues /\ next_event \in Nat /\ cached' = cached
      /\ objects' = objects
  BY DEF ClientQueue, Queues, NumQueues, RInv, HInv, HostTypes, ClientRead, ReadBack,
     ReadNothing, Return
<1>4. /\ WorkTypes /\ BlocksExist /\ TasksAwaited /\ SlotsAlternate(size)
      /\ TransfersInPlace(size) /\ KindsFit /\ StagingInOrder(oids)
  BY DEF GInv, RInv, RaceInv
<1>5. ASSUME NEW s \in Slots, ReadBack(s, b.oid, b.bid, b.len),
             Enqueue(ClientQueue, ReadCommands(s, b, {}, next_event),
                     ReadTasks(s, b, next_event))
      PROVE  /\ TransfersInPlace(size)' /\ KindsFit' /\ StagingInOrder(oids)'
             /\ KernelOps' = KernelOps
  <2>1. cached[s].oid = b.oid /\ cached[s].bid = b.bid /\ b.oid \in Oids
    BY <1>5 DEF ReadBack, FoundAt, Holds, Accepted, ValidPtr
  <2>2. cached[s] # NoBlock
    BY <2>1 DEF NoBlock, Oids
  <2>3. InObject(b)
    BY <1>4, <2>1, <2>2 DEF BlocksExist, InObject
  <2>4. PICK cmds, tasks : /\ cmds = ReadCommands(s, b, {}, next_event)
                           /\ tasks = ReadTasks(s, b, next_event)
    OBVIOUS
  <2>5. cmds \in Seq(MovedWork) /\ tasks \in Seq(MovedWork)
    BY <1>2, <1>3, <2>3, <2>4, ReadMoved
  <2>6. Fits(ClientQueue, s, size, oids, b.oid, cmds, tasks)
    BY <1>3, <2>4, ReadFits
  <2>7. Enqueue(ClientQueue, cmds, tasks)
    BY <1>5, <2>4
  <2>8. QED
    BY <1>3, <1>4, <2>5, <2>6, <2>7, TransfersEnqueued
<1>6. CASE UNCHANGED queueVars
  BY <1>3, <1>6, WorkStays
<1>7. SlotsAlternate(size)'
  BY <1>3, <1>4 DEF SlotsAlternate
<1>8. QED
  BY <1>1, <1>5, <1>6, <1>7 DEF ClientRead

\* The steps that enqueue nothing.
LEMMA MoveOn ==
  ASSUME GInv, RInv, NEW size, NEW oids, RaceInv(size, oids), run_ret' = 1,
         \/ StartBatch \/ RegisterOk \/ ActivateAgain \/ ActivateHit
         \/ Deactivate \/ Finish \/ ClientEnds
  PROVE  /\ TransfersInPlace(size)' /\ KindsFit' /\ StagingInOrder(oids)'
         /\ KernelsChained' /\ SlotsAlternate(size)' /\ ReadsAlone' /\ LastKernelKept'
<1>1. UNCHANGED queueVars /\ cached' = cached /\ objects' = objects
  <2>1. UNCHANGED queueVars
    BY DEF StartBatch, RegisterOk, ActivateAgain, ActivateHit, Deactivate, Finish, ClientEnds
  <2>2. objects' = objects /\ (cached' = cached \/ ActivateMiss)
    BY CacheSteps DEF SchedulerNext, HostStep
  <2>3. cached' = cached
    <3>1. CASE ActivateHit
      BY <3>1 DEF ActivateHit, GetHit
    <3>2. CASE Deactivate
      BY <3>2, UnlockSucceeds DEF UnlockFound, GiveBack
    <3>3. CASE StartBatch \/ RegisterOk \/ ActivateAgain \/ Finish \/ ClientEnds
      BY <3>3 DEF StartBatch, RegisterOk, ActivateAgain, Finish, ClientEnds, cacheVars
    <3>4. QED
      BY <3>1, <3>2, <3>3
  <2>4. QED
    BY <2>1, <2>2, <2>3
<1>2. /\ TransfersInPlace(size)' /\ KindsFit' /\ StagingInOrder(oids)'
      /\ KernelOps' = KernelOps /\ KernelsChained' /\ SlotsAlternate(size)'
  BY <1>1, WorkStays
<1>3. \A w \in Workers : Backlog(w)' = Backlog(w)
  BY <1>1 DEF queueVars, Backlog
<1>4. LastKernelKept /\ ReadsAlone /\ KindsFit
  BY DEF RaceInv
<1> SUFFICES ReadsAlone' /\ LastKernelKept'
  BY <1>2
<1>5. CASE StartBatch
  <2>1. pc = "idle" /\ program.batches # <<>> /\ pc' = "register"
    BY <1>5 DEF StartBatch
  <2>2. ReadsAlone'
    BY <1>3, <1>4, <2>1, AloneStays
  <2>3. QED
    BY <1>2, <1>4, <2>1, <2>2 DEF LastKernelKept
<1>6. CASE RegisterOk
  <2>1. pc = "register" /\ pc' = "activate"
    BY <1>6 DEF RegisterOk
  <2>2. ReadsAlone'
    BY <1>3, <1>4, <2>1, AloneStays
  <2>3. QED
    BY <1>2, <1>4, <2>1, <2>2 DEF LastKernelKept
<1>7. CASE ActivateAgain \/ ActivateHit
  <2>1. pc = "activate"
    BY <1>7 DEF ActivateAgain, ActivateHit
  <2>2. ReadsAlone'
    BY <1>3, <1>4, <2>1, AloneStays
  <2>3. QED
    BY <1>2, <1>7, <2>2, ActivateKeepsLast
<1>8. CASE Deactivate
  <2>1. /\ pc \in {"deactivate", "drain"}
        /\ run' = [run EXCEPT !.active = IF Tail(Head(run.active)) = <<>> THEN Tail(run.active)
                                         ELSE <<Tail(Head(run.active))>> \o Tail(run.active)]
        /\ pc' \in {"deactivate", "drain", "activate", "finish"}
        /\ pc' \in {"activate", "deactivate"} => pc = "deactivate"
    <3>1. ret' = 1
      BY <1>8, UnlockSucceeds
    <3>2. QED
      BY <1>8, <3>1 DEF Deactivate
  <2>2. run'.trans_event = run.trans_event
    BY <2>1 DEF RInv, HInv, HostTypes, RunState
  <2>3. ReadsAlone'
    BY <1>3, <1>4, <2>1, AloneStays
  <2>4. QED
    BY <1>2, <1>4, <2>1, <2>2, <2>3 DEF LastKernelKept
<1>9. CASE Finish
  <2>1. /\ pc = "finish" /\ pc' = "idle"
        /\ \A q \in 0 .. NumQueues - 1 : commands[q] = <<>>
    BY <1>9 DEF Finish
  <2>2. ReadsAlone'
    BY <1>3, <1>4, <2>1, AloneStays
  <2>3. ASSUME NEW a \in KernelOps
        PROVE  FALSE
    <3>1. PICK w \in Workers : \E k \in 1 .. Len(Backlog(w)) : a = Backlog(w)[k]
      BY KernelPlace
    <3>2. PICK k \in 1 .. Len(Backlog(w)) : a = Backlog(w)[k]
      BY <3>1
    <3>3. w[1] # ClientQueue /\ w[2] = "device"
      BY <1>4, <3>2, KernelPlace DEF KindsFit, KindsOf
    <3>4. w[1] \in 0 .. NumQueues - 1
      BY <3>3 DEF Workers, Queues, ClientQueue, NumQueues
    <3>5. Backlog(w) = <<>>
      BY <2>1, <3>3, <3>4 DEF Backlog
    <3>6. QED
      BY <3>2, <3>5
  <2>4. KernelOps' = {}
    BY <1>2, <2>3
  <2>5. QED
    BY <2>1, <2>2, <2>4 DEF LastKernelKept
<1>10. CASE ClientEnds
  <2>1. pc = "idle" /\ pc' = "end" /\ program' = program /\ program.batches = <<>>
    BY <1>10 DEF ClientEnds
  <2>2. ReadsAlone'
    BY <2>1 DEF ReadsAlone
  <2>3. QED
    BY <1>2, <1>4, <2>1, <2>2 DEF LastKernelKept
<1>11. QED
  BY <1>5, <1>6, <1>7, <1>8, <1>9, <1>10

\* Nothing disturbs the order, as long as no run fails.
LEMMA RaceStep ==
  ASSUME GInv, RInv, NEW size \in Sizes, NEW oids, RaceInv(size, oids),
         ReloadsAwaited(oids), [SchedulerNext]_vars, run_ret' = 1
  PROVE  RaceInv(size, oids)'
<1>1. /\ CutAlike(size)' /\ HInv /\ WorkTypes /\ EventsDistinct
      /\ ReadsAlone /\ LastKernelKept /\ KernelsChained
  BY CutsStay DEF RaceInv, GInv
<1>2. CASE \/ StartBatch \/ RegisterOk \/ ActivateAgain \/ ActivateHit
           \/ Deactivate \/ Finish \/ ClientEnds
  BY <1>1, <1>2, MoveOn DEF RaceInv
<1>3. ASSUME NEW q \in Queues, q # ClientQueue,
             NEW w \in Workers, w[1] = ClientQueue
      PROVE  \A c, t : Enqueue(q, c, t) => Backlog(w)' = Backlog(w)
  BY <1>1, <1>3 DEF Enqueue, Backlog, WorkTypes, Queues, ClientQueue, NumQueues
<1>4. ThisQueue \in Queues /\ ThisQueue # ClientQueue
  BY <1>1, ThisQueueType
<1>5. CASE ActivateMiss
  <2>1. /\ TransfersInPlace(size)' /\ KindsFit' /\ StagingInOrder(oids)'
        /\ KernelOps' = KernelOps /\ SlotsAlternate(size)'
    BY <1>5, MissWork
  <2>2. pc = "activate"
    BY <1>5 DEF ActivateMiss
  <2>3. UNCHANGED queueVars \/ \E c, t : Enqueue(ThisQueue, c, t)
    BY <1>5 DEF ActivateMiss, Transfer
  <2>4. \A w \in Workers : w[1] = ClientQueue => Backlog(w)' = Backlog(w)
    BY <1>3, <1>4, <2>3 DEF queueVars, Backlog
  <2>5. ReadsAlone'
    BY <1>1, <2>2, <2>4, AloneStays
  <2>6. LastKernelKept'
    BY <1>5, <2>1, ActivateKeepsLast
  <2>7. KernelsChained'
    BY <1>1, <2>1 DEF KernelsChained
  <2>8. QED
    BY <1>1, <2>1, <2>5, <2>6, <2>7 DEF RaceInv
<1>6. CASE RunFunction
  <2>1. /\ TransfersInPlace(size)' /\ KindsFit' /\ StagingInOrder(oids)'
        /\ KernelsChained' /\ LastKernelKept' /\ SlotsAlternate(size)'
    BY <1>6, KernelWork
  <2>2. pc = "run" /\ \E c, t : Enqueue(ThisQueue, c, t)
    BY <1>6 DEF RunFunction
  <2>3. \A w \in Workers : w[1] = ClientQueue => Backlog(w)' = Backlog(w)
    BY <1>3, <1>4, <2>2
  <2>4. ReadsAlone'
    BY <1>1, <2>2, <2>3, AloneStays
  <2>5. QED
    BY <1>1, <2>1, <2>4 DEF RaceInv
<1>7. CASE ClientRead
  <2>1. /\ TransfersInPlace(size)' /\ KindsFit' /\ StagingInOrder(oids)'
        /\ KernelOps' = KernelOps /\ SlotsAlternate(size)'
    BY <1>7, ReadLeftBehind
  <2>2. /\ pc = "idle" /\ pc' = pc /\ program.batches = <<>>
        /\ program'.batches = program.batches
    BY <1>1, <1>7 DEF ClientRead, HInv, HostTypes
  <2>3. ReadsAlone' /\ LastKernelKept'
    BY <1>1, <2>1, <2>2 DEF ReadsAlone, LastKernelKept
  <2>4. KernelsChained'
    BY <1>1, <2>1 DEF KernelsChained
  <2>5. QED
    BY <1>1, <2>1, <2>3, <2>4 DEF RaceInv
<1>8. CASE RegisterFails \/ ActivateFails
  BY <1>8 DEF RegisterFails, ActivateFails, Fail
<1>9. CASE \E q \in Queues : DeviceStep(q) \/ IOThreadStep(q)
  BY <1>1, <1>9, WorkerSteps, WorkDone
<1>10. CASE Done \/ UNCHANGED vars
  <2>1. UNCHANGED <<cached, objects, pc, run, program, run_queue, commands, io, next_event>>
    BY <1>10 DEF Done, vars, cacheVars, hostVars, queueVars
  <2>2. /\ TransfersInPlace(size)' /\ KindsFit' /\ StagingInOrder(oids)'
        /\ KernelOps' = KernelOps /\ KernelsChained' /\ SlotsAlternate(size)'
    BY <2>1, WorkStays DEF queueVars
  <2>3. ReadsAlone' /\ LastKernelKept'
    BY <1>1, <2>1, <2>2 DEF ReadsAlone, Backlog, LastKernelKept
  <2>4. QED
    BY <1>1, <2>2, <2>3 DEF RaceInv
<1>11. QED
  BY <1>2, <1>5, <1>6, <1>7, <1>8, <1>9, <1>10 DEF SchedulerNext, HostStep

-----------------------------------------------------------------------------
(***************************************************************************)
(* Which of them may race                                                  *)
(***************************************************************************)
\* The memory a command or task touches.
LEMMA Touches ==
  ASSUME NEW op \in Work, NEW x \in Reads(op) \cup Writes(op)
  PROVE  /\ x[1] \in {"dev", "stage", "host", "result"}
         /\ x[1] = "dev" => x[2] \in SlotsOf(op) /\ op.kind \in {"read", "write", "kernel"}
         /\ x[1] = "stage" => x[2] = op.slot /\ op.kind \in {"read", "write", "load", "back"}
         /\ x[1] = "host" => /\ x[2] = op.block.oid /\ x[3] = op.block.bid
                             /\ op.kind \in {"load", "back"}
                             /\ x \in Writes(op) => op.kind = "back"
         /\ x[1] = "result" => op.kind = "kernel"
<1>1. CASE op.kind = "read"
  <2>1. Reads(op) = {<<"dev", op.slot>>} /\ Writes(op) = {<<"stage", op.slot>>}
    BY <1>1 DEF Reads, Writes
  <2>2. QED
    BY <1>1, <2>1 DEF SlotsOf
<1>2. CASE op.kind = "write"
  <2>1. Reads(op) = {<<"stage", op.slot>>} /\ Writes(op) = {<<"dev", op.slot>>}
    BY <1>2 DEF Reads, Writes
  <2>2. QED
    BY <1>2, <2>1 DEF SlotsOf
<1>3. CASE op.kind = "back"
  <2>1. /\ Reads(op) = {<<"stage", op.slot>>}
        /\ Writes(op) = {<<"host", op.block.oid, op.block.bid>>}
    BY <1>3 DEF Reads, Writes
  <2>2. QED
    BY <1>3, <2>1
<1>4. CASE op.kind = "load"
  <2>1. /\ Writes(op) = {<<"stage", op.slot>>}
        /\ Reads(op) = {<<"host", op.block.oid, op.block.bid>>}
    BY <1>4 DEF Reads, Writes
  <2>2. x = <<"stage", op.slot>> \/ x = <<"host", op.block.oid, op.block.bid>>
    BY <2>1
  <2>3. x = <<"host", op.block.oid, op.block.bid>> => x \notin Writes(op)
    BY <2>1
  <2>4. QED
    BY <1>4, <2>2, <2>3
<1>5. CASE op.kind = "kernel"
  <2>1. ASSUME NEW modes, x \in Buffers(op, modes)
        PROVE  x[1] = "dev" /\ x[2] \in SlotsOf(op)
    <3>1. PICK b \in Range(op.args) : x = <<"dev", b.slot>>
      BY <2>1 DEF Buffers
    <3>2. b.slot \in SlotsOf(op)
      BY <1>5 DEF SlotsOf
    <3>3. QED
      BY <3>1, <3>2
  <2>2. x \in Buffers(op, ObjectMode) \/ x \in Buffers(op, ObjectMode \ {"ReadOnly"})
        \/ x = <<"result">>
    BY <1>5 DEF Reads, Writes
  <2>3. QED
    BY <1>5, <2>1, <2>2
<1>6. CASE op.kind = "barrier"
  BY <1>6 DEF Reads, Writes
<1>7. QED
  BY <1>1, <1>2, <1>3, <1>4, <1>5, <1>6 DEF Work, Transfers, Kernels

\* What two operations in conflict have in common.
LEMMA ConflictCases ==
  ASSUME NEW a \in Work, NEW b \in Work, Conflict(a, b)
  PROVE  \/ /\ a.kind \in {"read", "write", "kernel"} /\ b.kind \in {"read", "write", "kernel"}
            /\ \E s \in SlotsOf(a) : s \in SlotsOf(b)
         \/ /\ a.kind \in {"read", "write", "load", "back"}
            /\ b.kind \in {"read", "write", "load", "back"}
            /\ a.slot = b.slot
         \/ /\ a.kind \in {"load", "back"} /\ b.kind \in {"load", "back"}
            /\ a.block.oid = b.block.oid /\ a.block.bid = b.block.bid
         \/ a.kind = "kernel" /\ b.kind = "kernel"
<1>1. PICK x : x \in Reads(a) \cup Writes(a) /\ x \in Reads(b) \cup Writes(b)
  BY DEF Conflict
<1>2. x[1] \in {"dev", "stage", "host", "result"}
  BY <1>1, Touches
<1>3. CASE x[1] = "dev"
  <2>1. x[2] \in SlotsOf(a) /\ a.kind \in {"read", "write", "kernel"}
    BY <1>1, <1>3, Touches
  <2>2. x[2] \in SlotsOf(b) /\ b.kind \in {"read", "write", "kernel"}
    BY <1>1, <1>3, Touches
  <2>3. QED
    BY <2>1, <2>2
<1>4. CASE x[1] = "stage"
  <2>1. x[2] = a.slot /\ a.kind \in {"read", "write", "load", "back"}
    BY <1>1, <1>4, Touches
  <2>2. x[2] = b.slot /\ b.kind \in {"read", "write", "load", "back"}
    BY <1>1, <1>4, Touches
  <2>3. QED
    BY <2>1, <2>2
<1>5. CASE x[1] = "host"
  <2>1. x[2] = a.block.oid /\ x[3] = a.block.bid /\ a.kind \in {"load", "back"}
    BY <1>1, <1>5, Touches
  <2>2. x[2] = b.block.oid /\ x[3] = b.block.bid /\ b.kind \in {"load", "back"}
    BY <1>1, <1>5, Touches
  <2>3. QED
    BY <2>1, <2>2
<1>6. CASE x[1] = "result"
  <2>1. a.kind = "kernel"
    BY <1>1, <1>6, Touches
  <2>2. b.kind = "kernel"
    BY <1>1, <1>6, Touches
  <2>3. QED
    BY <2>1, <2>2
<1>7. QED
  BY <1>2, <1>3, <1>4, <1>5, <1>6

\* What is ready is the first work of a worker.
LEMMA RunningFirst ==
  ASSUME GInv, NEW a \in Running
  PROVE  \E w \in Workers :
           /\ Len(Backlog(w)) \in Nat /\ 1 \in 1 .. Len(Backlog(w)) /\ a = Backlog(w)[1]
           /\ a \in Work /\ Ready(a)
           /\ \A v \in Workers : \A k \in 1 .. Len(Backlog(v)) : Backlog(v)[k].ev \notin a.waits
<1>1. PICK w \in Workers : Backlog(w) # <<>> /\ a = Head(Backlog(w)) /\ Ready(a)
  BY DEF Running
<1>2. PICK s : s = Backlog(w) /\ s \in Seq(MovedWork) /\ \A n \in 1 .. Len(s) : s[n] \in Work
  BY BacklogTypes DEF GInv
<1>3. Len(s) \in Nat /\ 1 \in 1 .. Len(s) /\ a = s[1]
  BY <1>1, <1>2
<1>4. a \in Work
  BY <1>2, <1>3
<1>5. ASSUME NEW v \in Workers, NEW k \in 1 .. Len(Backlog(v))
      PROVE  Backlog(v)[k].ev \notin a.waits
  <2>1. Backlog(v)[k].ev \in Outstanding
    BY WorkOutstanding DEF GInv
  <2>2. QED
    BY <1>1, <2>1 DEF Ready
<1>6. QED
  BY <1>1, <1>2, <1>3, <1>4, <1>5

\* Kernels run one after another.
LEMMA KernelsAlone ==
  ASSUME GInv, KernelsChained, NEW a \in Running, NEW b \in Running,
         a.kind = "kernel", b.kind = "kernel", a.ev < b.ev
  PROVE  FALSE
<1>1. PICK v \in Workers : 1 \in 1 .. Len(Backlog(v)) /\ a = Backlog(v)[1]
  BY RunningFirst
<1>2. PICK w \in Workers :
        /\ 1 \in 1 .. Len(Backlog(w)) /\ b = Backlog(w)[1]
        /\ \A u \in Workers : \A k \in 1 .. Len(Backlog(u)) : Backlog(u)[k].ev \notin b.waits
  BY RunningFirst
<1>3. a \in KernelOps /\ b \in KernelOps
  BY <1>1, <1>2 DEF KernelOps, AllWork
<1>4. PICK c \in KernelOps : c.ev \in b.waits
  BY <1>3 DEF KernelsChained
<1>5. PICK u \in Workers : \E k \in 1 .. Len(Backlog(u)) : c = Backlog(u)[k]
  BY KernelPlace
<1>6. QED
  BY <1>2, <1>4, <1>5

\* The slots of the work of a queue of run have its parity.
LEMMA ParityOfWork ==
  ASSUME QueueTypes, NEW w \in Workers, w[1] # ClientQueue, NEW k \in 1 .. Len(Backlog(w)),
         NEW s \in SlotsOf(Backlog(w)[k])
  PROVE  s % DoubleBuffering = w[1]
<1>1. PICK q \in Queues, side \in {"device", "io"} : w = <<q, side>>
  BY DEF Workers
<1>2. Backlog(w) \in Seq(WorkOf(q))
  BY <1>1 DEF Backlog, QueueTypes
<1>3. Backlog(w)[k] \in WorkOf(q)
  BY <1>2, ElementOf
<1>4. QED
  BY <1>1, <1>3 DEF WorkOf

\* A block has one place in all the queues of run.
LEMMA SameParity ==
  ASSUME NEW size \in Sizes, NEW a, NEW b, a.block.oid \in Nat \ {0},
         TransferInPlace(a, size), TransferInPlace(b, size),
         a.block.oid = b.block.oid, a.block.bid = b.block.bid
  PROVE  a.slot % DoubleBuffering = b.slot % DoubleBuffering
<1>1. PICK n \in Nat \ {0} : n = size[a.block.oid]
  BY DEF Sizes
<1>2. PICK i \in Nat : a.block.bid = i * n /\ a.slot % DoubleBuffering = i % NumQueues
  BY <1>1 DEF TransferInPlace, Alternates
<1>3. PICK j \in Nat : b.block.bid = j * n /\ b.slot % DoubleBuffering = j % NumQueues
  BY <1>1 DEF TransferInPlace, Alternates
<1>4. i * n = j * n
  BY <1>2, <1>3
<1>5. i = j
  <2>1. CASE i < j
    <3>1. PICK d \in Nat \ {0} : j = i + d
      <4>1. j - i \in Nat \ {0} /\ j = i + (j - i)
        BY <2>1
      <4>2. QED
        BY <4>1
    <3>2. j * n = i * n + d * n
      BY <3>1
    <3>3. d * n > 0
      BY <3>1
    <3>4. QED
      BY <1>4, <3>2, <3>3
  <2>2. CASE j < i
    <3>1. PICK d \in Nat \ {0} : i = j + d
      <4>1. i - j \in Nat \ {0} /\ i = j + (i - j)
        BY <2>2
      <4>2. QED
        BY <4>1
    <3>2. i * n = j * n + d * n
      BY <3>1
    <3>3. d * n > 0
      BY <3>1
    <3>4. QED
      BY <1>4, <3>2, <3>3
  <2>3. QED
    BY <2>1, <2>2
<1>6. QED
  BY <1>2, <1>3, <1>5

\* The first command of a queue and the first task of its I/O thread are on one
\* slot only if the task loads a block of an object in oids, and the command is
\* a write.
LEMMA FirstOfQueue ==
  ASSUME GInv, RInv, NEW size, NEW oids, RaceInv(size, oids),
         \A o \in oids : o \in Oids /\ objects[o].mode = "ReadOnly",
         NEW q \in Queues, NEW v \in Workers, NEW w \in Workers,
         v = <<q, "device">>, w = <<q, "io">>,
         NEW a, NEW b, 1 \in 1 .. Len(Backlog(v)), 1 \in 1 .. Len(Backlog(w)),
         a = Backlog(v)[1], b = Backlog(w)[1],
         \A u \in Workers : \A k \in 1 .. Len(Backlog(u)) : Backlog(u)[k].ev \notin a.waits,
         \A u \in Workers : \A k \in 1 .. Len(Backlog(u)) : Backlog(u)[k].ev \notin b.waits,
         a.kind \in {"read", "write"}, a.slot = b.slot
  PROVE  a.kind = "write" /\ b.kind = "load" /\ b.block.oid \in oids
<1>1. PICK c, t : c = Backlog(v) /\ t = Backlog(w)
  OBVIOUS
<1>2. c = commands[q] /\ t = io[q]
  BY <1>1 DEF Backlog
<1>3. InOrder(c, t, oids) /\ KindsFit /\ TransfersInPlace(size)
  BY <1>2 DEF RaceInv, StagingInOrder
<1>4. Meet(c, 1, t, 1) /\ 1 \in 1 .. Len(c) /\ 1 \in 1 .. Len(t)
  BY <1>1 DEF Meet
<1>5. Len(c) \in Nat
  BY <1>1, BacklogTypes DEF GInv
<1>6. ~Orders(c, 1, t, 1)
  <2>1. SUFFICES ASSUME Orders(c, 1, t, 1) PROVE FALSE
    OBVIOUS
  <2>2. CASE \E n \in 1 .. Len(c) : \E l \in 1 .. 1 : c[n].ev \in t[l].waits
    BY <1>1, <2>2
  <2>3. CASE \E n \in 1 .. 1 : t[1].ev \in c[n].waits
    BY <1>1, <1>4, <2>3
  <2>4. QED
    BY <2>1, <2>2, <2>3 DEF Orders
<1>7. LoadOf(b, oids)
  BY <1>1, <1>3, <1>4, <1>6 DEF InOrder
<1>8. b.kind = "load" /\ b.block.oid \in oids
  BY <1>7 DEF LoadOf
<1>9. q # ClientQueue
  BY <1>1, <1>3, <1>4, <1>8 DEF KindsFit, KindsOf
<1>10. a.kind # "read"
  <2>1. SUFFICES ASSUME a.kind = "read" PROVE FALSE
    OBVIOUS
  <2>2. TransferInPlace(a, size)
    <3>1. a.kind # "kernel" /\ v[1] # ClientQueue
      BY <1>9, <2>1
    <3>2. QED
      BY <1>1, <1>3, <1>4, <3>1 DEF TransfersInPlace
  <2>3. TransferInPlace(b, size)
    <3>1. b.kind # "kernel" /\ w[1] # ClientQueue
      BY <1>8, <1>9
    <3>2. QED
      BY <1>1, <1>3, <1>4, <3>1 DEF TransfersInPlace
  <2>4. a.block.oid \in Int /\ b.block.oid \in Int /\ a.slot \in Int
    <3>1. a \in Work /\ b \in Work
      BY <1>1, <1>4, BacklogTypes DEF GInv
    <3>2. a \in Transfers /\ b \in Transfers
      BY <1>8, <2>1, <3>1 DEF Work, Kernels
    <3>3. a.block \in Block /\ b.block \in Block /\ a.slot \in Slots
      BY <3>2 DEF Transfers
    <3>4. QED
      BY <3>3 DEF Block, Slots
  <2>5. a.block.oid = b.block.oid
    <3>1. PICK x, y, s : x = a.block.oid /\ y = b.block.oid /\ s = a.slot
      OBVIOUS
    <3>2. /\ s = (x - 1) * 2 \/ s = (x - 1) * 2 + 1
          /\ s = (y - 1) * 2 \/ s = (y - 1) * 2 + 1
      BY <2>2, <2>3, <3>1 DEF TransferInPlace, InHome, DoubleBuffering
    <3>3. x \in Int /\ y \in Int /\ s \in Int
      BY <2>4, <3>1
    <3>4. x = y
      BY <3>2, <3>3
    <3>5. QED
      BY <3>1, <3>4
  <2>6. ~Immutable(a.block.oid)
    BY <2>1, <2>2 DEF TransferInPlace
  <2>7. QED
    BY <1>8, <2>5, <2>6 DEF Immutable
<1>11. QED
  BY <1>8, <1>10

\* A load of a block of a read-only object.
Reloads(op) == op.kind = "load" /\ objects[op.block.oid].mode = "ReadOnly"

\* The only race there can be: the I/O thread loads a block of a read-only
\* object into the pinned buffer that the device still writes an earlier one
\* from.
OnlyReloadsRace ==
  \A a, b \in Running : a.ev # b.ev /\ Conflict(a, b) =>
     \/ Reloads(a) /\ b.kind = "write" /\ b.slot = a.slot
     \/ Reloads(b) /\ a.kind = "write" /\ a.slot = b.slot

\* The client's queue has work only when those of run have none.
LEMMA ClientAlone ==
  ASSUME RInv, ReadsAlone, NEW v \in Workers, NEW w \in Workers,
         v[1] = ClientQueue, w[1] # ClientQueue, Backlog(v) # <<>>, Backlog(w) # <<>>
  PROVE  FALSE
<1>1. pc \in {"idle", "end"}
  BY DEF ReadsAlone
<1>2. PICK q \in Queues, side \in {"device", "io"} : w = <<q, side>>
  BY DEF Workers
<1>3. q \in 0 .. NumQueues - 1
  BY <1>2 DEF Queues, ClientQueue, NumQueues
<1>4. commands[q] = <<>>
  BY <1>1, <1>3 DEF RInv, Quiet
<1>5. io[q] \in Seq(Work) /\ Await(commands[q], io[q])
  BY <1>2 DEF RInv, QueueTypes, TasksAwaited
<1>6. PICK t : t = io[q]
  OBVIOUS
<1>7. t = <<>>
  <2>1. \A m \in 1 .. Len(t) : \E n \in 1 .. Len(commands[q]) : t[m].ev \in commands[q][n].waits
    BY <1>5, <1>6 DEF Await
  <2>2. Len(commands[q]) = 0
    BY <1>4
  <2>3. \A m \in 1 .. Len(t) : FALSE
    BY <2>1, <2>2
  <2>4. t \in Seq(Work)
    BY <1>5, <1>6
  <2>5. QED
    BY <2>3, <2>4
<1>8. QED
  BY <1>2, <1>4, <1>6, <1>7 DEF Backlog

\* Everything else in conflict has an order.
LEMMA RaceCases ==
  ASSUME GInv, RInv, NEW size \in Sizes, NEW oids, RaceInv(size, oids),
         \A o \in oids : o \in Oids /\ objects[o].mode = "ReadOnly",
         NEW a \in Running, NEW b \in Running, a.ev # b.ev, Conflict(a, b)
  PROVE  \/ Reloads(a) /\ b.kind = "write" /\ b.slot = a.slot /\ a.block.oid \in oids
         \/ Reloads(b) /\ a.kind = "write" /\ a.slot = b.slot /\ b.block.oid \in oids
<1>1. PICK v \in Workers :
        /\ Len(Backlog(v)) \in Nat /\ 1 \in 1 .. Len(Backlog(v)) /\ a = Backlog(v)[1]
        /\ a \in Work
        /\ \A u \in Workers : \A k \in 1 .. Len(Backlog(u)) : Backlog(u)[k].ev \notin a.waits
  BY RunningFirst
<1>2. PICK w \in Workers :
        /\ Len(Backlog(w)) \in Nat /\ 1 \in 1 .. Len(Backlog(w)) /\ b = Backlog(w)[1]
        /\ b \in Work
        /\ \A u \in Workers : \A k \in 1 .. Len(Backlog(u)) : Backlog(u)[k].ev \notin b.waits
  BY RunningFirst
<1>3. v # w
  BY <1>1, <1>2
<1>4. /\ KindsFit /\ TransfersInPlace(size) /\ KernelsChained /\ ReadsAlone /\ QueueTypes
      /\ a.kind \in KindsOf(v) /\ b.kind \in KindsOf(w)
  BY <1>1, <1>2 DEF RaceInv, RInv, KindsFit
<1>5. Backlog(v) # <<>> /\ Backlog(w) # <<>>
  BY <1>1, <1>2
<1>6. (v[1] = ClientQueue) <=> (w[1] = ClientQueue)
  BY <1>5, ClientAlone, <1>4
<1>7. \/ /\ a.kind \in {"read", "write", "kernel"} /\ b.kind \in {"read", "write", "kernel"}
         /\ \E s \in SlotsOf(a) : s \in SlotsOf(b)
      \/ /\ a.kind \in {"read", "write", "load", "back"}
         /\ b.kind \in {"read", "write", "load", "back"}
         /\ a.slot = b.slot
      \/ /\ a.kind \in {"load", "back"} /\ b.kind \in {"load", "back"}
         /\ a.block.oid = b.block.oid /\ a.block.bid = b.block.bid
      \/ a.kind = "kernel" /\ b.kind = "kernel"
  BY <1>1, <1>2, ConflictCases
<1>8. PICK p \in Queues, q \in Queues, side \in {"device", "io"}, other \in {"device", "io"} :
        v = <<p, side>> /\ w = <<q, other>>
  BY DEF Workers
<1>9. CASE p = q
  <2>1. \/ side = "device" /\ other = "io"
        \/ side = "io" /\ other = "device"
    BY <1>3, <1>8, <1>9
  <2>2. CASE side = "device" /\ other = "io"
    <3>1. /\ a.kind \in {"read", "write", "barrier", "kernel"}
          /\ b.kind \in {"back", "load"}
      BY <1>4, <1>8, <2>2 DEF KindsOf
    <3>2. a.kind \in {"read", "write"} /\ a.slot = b.slot
      BY <1>7, <3>1
    <3>3. a.kind = "write" /\ b.kind = "load" /\ b.block.oid \in oids
      BY <1>1, <1>2, <1>8, <1>9, <2>2, <3>2, FirstOfQueue
    <3>4. QED
      BY <3>2, <3>3 DEF Reloads
  <2>3. CASE side = "io" /\ other = "device"
    <3>1. /\ b.kind \in {"read", "write", "barrier", "kernel"}
          /\ a.kind \in {"back", "load"}
      BY <1>4, <1>8, <2>3 DEF KindsOf
    <3>2. b.kind \in {"read", "write"} /\ b.slot = a.slot
      BY <1>7, <3>1
    <3>3. b.kind = "write" /\ a.kind = "load" /\ a.block.oid \in oids
      BY <1>1, <1>2, <1>8, <1>9, <2>3, <3>2, FirstOfQueue
    <3>4. QED
      BY <3>2, <3>3 DEF Reloads
  <2>4. QED
    BY <2>1, <2>2, <2>3
<1>10. CASE p # q
  <2>1. v[1] # ClientQueue /\ w[1] # ClientQueue
    BY <1>6, <1>8, <1>10
  <2>2. /\ \A s \in SlotsOf(a) : s % DoubleBuffering = p
        /\ \A s \in SlotsOf(b) : s % DoubleBuffering = q
    BY <1>1, <1>2, <1>4, <1>8, <2>1, ParityOfWork
  <2>3. a.kind # "kernel" => a.slot \in SlotsOf(a) /\ TransferInPlace(a, size)
    BY <1>1, <1>4, <2>1 DEF TransfersInPlace, SlotsOf
  <2>4. b.kind # "kernel" => b.slot \in SlotsOf(b) /\ TransferInPlace(b, size)
    BY <1>2, <1>4, <2>1 DEF TransfersInPlace, SlotsOf
  <2>5. CASE \E s \in SlotsOf(a) : s \in SlotsOf(b)
    BY <1>10, <2>2, <2>5
  <2>6. CASE a.kind # "kernel" /\ b.kind # "kernel" /\ a.slot = b.slot
    BY <1>10, <2>2, <2>3, <2>4, <2>6
  <2>7. CASE /\ a.kind \in {"load", "back"} /\ b.kind \in {"load", "back"}
             /\ a.block.oid = b.block.oid /\ a.block.bid = b.block.bid
    <3>1. a.block.oid \in Nat \ {0}
      <4>1. Backlog(v) \in Seq(MovedWork)
        BY BacklogTypes DEF GInv
      <4>2. a \in MovedWork
        BY <1>1, <4>1, ElementOf
      <4>3. InObject(a.block)
        BY <2>7, <4>2 DEF MovedWork
      <4>4. Len(objects) \in Nat
        BY DEF GInv, HInv, IInv, TypeOK
      <4>5. QED
        BY <4>3, <4>4 DEF InObject
    <3>2. a.slot % DoubleBuffering = b.slot % DoubleBuffering
      BY <2>3, <2>4, <2>7, <3>1, SameParity
    <3>3. QED
      BY <1>10, <2>2, <2>3, <2>4, <2>7, <3>2
  <2>8. CASE a.kind = "kernel" /\ b.kind = "kernel"
    <3>1. a.ev \in Nat /\ b.ev \in Nat
      BY <1>1, <1>2, <2>8 DEF Work, Transfers, Kernels
    <3>2. a.ev < b.ev \/ b.ev < a.ev
      BY <3>1
    <3>3. QED
      BY <1>4, <2>8, <3>2, KernelsAlone
  <2>9. QED
    BY <1>7, <2>5, <2>6, <2>7, <2>8
<1>11. QED
  BY <1>9, <1>10

ReadOnlyObjects == {o \in Oids : objects[o].mode = "ReadOnly"}

\* Everything is ordered but the loads of blocks of read-only objects.
RaceOK ==
  \E size \in Sizes : \E oids \in SUBSET Nat :
     oids = ReadOnlyObjects /\ RaceInv(size, oids)

\* Before the first run.
LEMMA RaceInit ==
  ASSUME SchedulerInit, \A p \in Programs : SameSteps(p)
  PROVE  RaceOK
<1>1. /\ program \in Programs /\ run_queue = <<>> /\ pc = "idle"
      /\ commands = [q \in Queues |-> <<>>] /\ io = [q \in Queues |-> <<>>]
      /\ cached = [s \in Slots |-> NoBlock]
  BY DEF SchedulerInit, CacheEmpty
<1>2. SameSteps(program)
  BY <1>1
<1>3. PICK size \in Sizes :
        \A n \in 1 .. Len(program.batches) : \A k \in 1 .. Len(program.batches[n]) :
           Cuts(program.batches[n][k], size)
  BY <1>2 DEF SameSteps
<1>4. ReadOnlyObjects \in SUBSET Nat
  BY DEF ReadOnlyObjects, Oids
<1>5. PICK oids \in SUBSET Nat : oids = ReadOnlyObjects
  BY <1>4
<1>6. \A w \in Workers : Backlog(w) = <<>>
  BY <1>1 DEF Workers, Backlog
<1>7. CutAlike(size)
  BY <1>1, <1>3 DEF CutAlike
<1>8. SlotsAlternate(size) /\ TransfersInPlace(size) /\ KindsFit /\ ReadsAlone
  BY <1>1, <1>6 DEF SlotsAlternate, TransfersInPlace, KindsFit, ReadsAlone
<1>9. StagingInOrder(oids)
  <2> SUFFICES ASSUME NEW q \in Queues PROVE InOrder(commands[q], io[q], oids)
    BY DEF StagingInOrder
  <2>1. commands[q] = <<>>
    BY <1>1
  <2>2. QED
    BY <2>1 DEF InOrder
<1>10. KernelOps = {}
  BY <1>6 DEF KernelOps, AllWork
<1>11. KernelsChained /\ LastKernelKept
  BY <1>1, <1>10 DEF KernelsChained, LastKernelKept
<1>12. RaceInv(size, oids)
  BY <1>7, <1>8, <1>9, <1>11 DEF RaceInv
<1>13. QED
  BY <1>5, <1>12 DEF RaceOK

\* After every step.
LEMMA RaceNext ==
  ASSUME GInv, RInv, RaceOK, [SchedulerNext]_vars, run_ret' = 1
  PROVE  RaceOK'
<1>1. PICK size \in Sizes, oids \in SUBSET Nat :
        oids = ReadOnlyObjects /\ RaceInv(size, oids)
  BY DEF RaceOK
<1>2. objects' = objects
  BY CacheSteps
<1>3. Oids' = Oids
  BY <1>2 DEF Oids
<1>4. oids = ReadOnlyObjects'
  BY <1>1, <1>2, <1>3 DEF ReadOnlyObjects
<1>5. ReloadsAwaited(oids)
  BY <1>1 DEF ReadOnlyObjects, ReloadsAwaited
<1>6. RaceInv(size, oids)'
  BY <1>1, <1>5, RaceStep
<1>7. QED
  BY <1>4, <1>6 DEF RaceOK

\* As long as no run has failed, a client that cuts every object into blocks of
\* one size leaves one race to the device and the I/O threads: a block of a
\* read-only object is loaded into the pinned buffer of a slot while the device
\* still writes the block before it from there.  Transfers, write-backs,
\* kernels and the client's own reads are ordered by the events they wait for
\* or by the queue they share.
THEOREM RacesAreReloads ==
  ASSUME \A p \in Programs : SameSteps(p)
  PROVE  SchedulerSpec /\ [](run_ret = 1) => []OnlyReloadsRace
<1>1. SchedulerInit => GInv /\ RInv /\ RaceOK
  BY GInit, RInit, RaceInit
<1>2. /\ GInv /\ RInv /\ RaceOK
      /\ [SchedulerNext]_vars /\ (run_ret = 1)'
      => (GInv /\ RInv /\ RaceOK)'
  BY GNext, RNext, RaceNext
<1>3. GInv /\ RInv /\ RaceOK => OnlyReloadsRace
  <2> SUFFICES ASSUME GInv, RInv, RaceOK, NEW a \in Running, NEW b \in Running,
                      a.ev # b.ev, Conflict(a, b)
               PROVE  \/ Reloads(a) /\ b.kind = "write" /\ b.slot = a.slot
                      \/ Reloads(b) /\ a.kind = "write" /\ a.slot = b.slot
    BY DEF OnlyReloadsRace
  <2>1. PICK size \in Sizes, oids \in SUBSET Nat :
          oids = ReadOnlyObjects /\ RaceInv(size, oids)
    BY DEF RaceOK
  <2>2. \A o \in oids : o \in Oids /\ objects[o].mode = "ReadOnly"
    BY <2>1 DEF ReadOnlyObjects
  <2>3. QED
    BY <2>1, <2>2, RaceCases
<1>4. QED
  BY <1>1, <1>2, <1>3, PTL DEF SchedulerSpec

\* No object of the client is read-only.
AllMutable(p) == \A i \in 1 .. Len(p.objects) : p.objects[i].mode # "ReadOnly"

NothingReadOnly == \A o \in Oids : objects[o].mode # "ReadOnly"

LEMMA NothingReadOnlyInv ==
  ASSUME \A p \in Programs : AllMutable(p)
  PROVE  /\ SchedulerInit => NothingReadOnly
         /\ NothingReadOnly /\ [SchedulerNext]_vars => NothingReadOnly'
<1>1. ASSUME SchedulerInit PROVE NothingReadOnly
  BY <1>1 DEF SchedulerInit, AllMutable, NothingReadOnly, Oids
<1>2. ASSUME NothingReadOnly, [SchedulerNext]_vars PROVE NothingReadOnly'
  <2>1. objects' = objects
    BY <1>2, CacheSteps
  <2>2. Oids' = Oids
    BY <2>1 DEF Oids
  <2>3. QED
    BY <1>2, <2>1, <2>2 DEF NothingReadOnly
<1>3. QED
  BY <1>1, <1>2

\* A client of mutable and transient objects only, each cut into blocks of one
\* size, meets no race: no two operations that may run at the same time touch
\* the same memory.
THEOREM MutableObjectsNeverRace ==
  ASSUME \A p \in Programs : SameSteps(p) /\ AllMutable(p)
  PROVE  SchedulerSpec /\ [](run_ret = 1) => []NoRace
<1>1. SchedulerInit => GInv /\ RInv /\ RaceOK /\ NothingReadOnly
  BY GInit, RInit, RaceInit, NothingReadOnlyInv
<1>2. /\ GInv /\ RInv /\ RaceOK /\ NothingReadOnly
      /\ [SchedulerNext]_vars /\ (run_ret = 1)'
      => (GInv /\ RInv /\ RaceOK /\ NothingReadOnly)'
  BY GNext, RNext, RaceNext, NothingReadOnlyInv
<1>3. GInv /\ RInv /\ RaceOK /\ NothingReadOnly => NoRace
  <2> SUFFICES ASSUME GInv, RInv, RaceOK, NothingReadOnly,
                      NEW a \in Running, NEW b \in Running, a.ev # b.ev, Conflict(a, b)
               PROVE  FALSE
    BY DEF NoRace
  <2>1. PICK size \in Sizes, oids \in SUBSET Nat :
          oids = ReadOnlyObjects /\ RaceInv(size, oids)
    BY DEF RaceOK
  <2>2. oids = {}
    BY <2>1 DEF ReadOnlyObjects, NothingReadOnly
  <2>3. a.block.oid \in oids \/ b.block.oid \in oids
    BY <2>1, <2>2, RaceCases
  <2>4. QED
    BY <2>2, <2>3
<1>4. QED
  BY <1>1, <1>2, <1>3, PTL DEF SchedulerSpec

-----------------------------------------------------------------------------
(***************************************************************************)
(* The events that are waited for                                          *)
(***************************************************************************)
\* get has no event for the first object of a function, and transfers the
\* second.
HalfCached ==
  /\ pc = "activate" /\ run.arg # 1 /\ run.fst_event = NoEvent
  /\ ~Activated(ThisBlock.oid) /\ ~InCache(ThisBlock.oid, ThisBlock.bid)

Real(ops) == \A k \in 1 .. Len(ops) : NoEvent \notin ops[k].waits

BacklogReal == \A w \in Workers : Real(Backlog(w))

\* run's lists of events, and the events in the queues.
WaitsReal == NoEvent \notin run.wait_list /\ BacklogReal

\* The transfers of get wait for what get is given and for events of their own.
LEMMA TransfersReal ==
  ASSUME NEW s \in Slots, NEW block, NEW waits \in SUBSET Nat, NoEvent \notin waits,
         NEW n \in Nat, n > 0
  PROVE  /\ Real(ReadCommands(s, block, waits, n)) /\ Real(ReadTasks(s, block, n))
         /\ Real(FillCommands(s, block, waits, n)) /\ Real(FillTasks(s, block, waits, n))
<1> DEFINE a(x) == Op("read", s, x, waits, n)
           b(x) == Op("barrier", s, x, {n + 1}, n + 2)
           c(x) == Op("back", s, x, {n}, n + 1)
           d == Op("write", s, block, {n + 3}, n + 4)
           t == Op("load", s, block, waits \cup {n + 2}, n + 3)
           u == Op("load", s, block, waits, n + 3)
<1>1. NoEvent \notin {n} /\ NoEvent \notin {n + 1} /\ NoEvent \notin waits \cup {n + 2}
      /\ NoEvent \notin {n + 3}
  BY DEF NoEvent
<1>2. /\ \A x : /\ NoEvent \notin a(x).waits /\ NoEvent \notin b(x).waits
                /\ NoEvent \notin c(x).waits
      /\ NoEvent \notin d.waits /\ NoEvent \notin t.waits /\ NoEvent \notin u.waits
  BY <1>1, OpFields
<1> HIDE DEF a, b, c, d, t, u
<1>3. /\ \A x : Real(<<a(x), b(x)>>) /\ Real(<<c(x)>>) /\ Real(<<a(x), b(x), d>>)
      /\ \A x : Real(<<c(x), t>>)
      /\ Real(<<d>>) /\ Real(<<u>>)
  BY <1>2 DEF Real
<1>4. Real(ReadCommands(s, block, waits, n)) /\ Real(ReadTasks(s, block, n))
  BY <1>3 DEF ReadCommands, ReadTasks, a, b, c
<1>5. CASE WritesBack(s)
  <2>1. /\ EvictCommands(s, block, waits, n) = <<a(cached[s]), b(cached[s]), d>>
        /\ EvictTasks(s, block, waits, n) = <<c(cached[s]), t>>
    BY DEF EvictCommands, EvictTasks, a, b, c, d, t
  <2>2. QED
    BY <1>3, <1>4, <1>5, <2>1, FillShape
<1>6. CASE ~WritesBack(s)
  <2>1. /\ LoadCommands(s, block, n) = <<d>> /\ LoadTasks(s, block, waits, n) = <<u>>
    BY DEF LoadCommands, LoadTasks, d, u
  <2>2. QED
    BY <1>3, <1>4, <1>6, <2>1, FillShape
<1>7. QED
  BY <1>5, <1>6

LEMMA EnqueueReal ==
  ASSUME WorkTypes, BacklogReal, NEW q \in Queues, NEW cmds \in Seq(MovedWork),
         NEW tasks \in Seq(MovedWork), Enqueue(q, cmds, tasks), Real(cmds), Real(tasks)
  PROVE  BacklogReal'
<1> SUFFICES ASSUME NEW w \in Workers, NEW k \in 1 .. Len(Backlog(w)')
             PROVE  NoEvent \notin Backlog(w)'[k].waits
  BY DEF BacklogReal, Real
<1>1. PICK t : t = Added(w, q, cmds, tasks)
  OBVIOUS
<1>2. Real(t)
  BY <1>1 DEF Added, Real
<1>3. \/ k \in 1 .. Len(Backlog(w)) /\ Backlog(w)'[k] = Backlog(w)[k]
      \/ \E m \in 1 .. Len(t) : Backlog(w)'[k] = t[m]
  BY <1>1, EnqueuedWhere
<1>4. QED
  BY <1>2, <1>3 DEF BacklogReal, Real

\* The next wait list of run is the last one, or one event, and the last one of
\* the kernels.
LEMMA ObjectDoneReal ==
  ASSUME run \in RunState, NoEvent \notin run.wait_list,
         NEW fst, NEW act, NEW bufs, ObjectDone(fst, act, bufs)
  PROVE  NoEvent \notin run'.wait_list
<1> DEFINE waits == IF act = NoEvent THEN run.wait_list ELSE {act}
<1>1. \/ run' = [run EXCEPT !.arg = 2, !.fst_event = fst, !.activating = bufs]
      \/ run' = [run EXCEPT !.arg = 1, !.fst_event = NoEvent,
                   !.activate_event = act, !.activating = bufs,
                   !.fun = IF run.fun = Len(run_queue) THEN 1 ELSE run.fun + 1,
                   !.wait_list = IF run.fun = Len(run_queue) THEN KernelWaits(waits)
                                 ELSE waits]
  BY DEF ObjectDone
<1>2. NoEvent \notin waits /\ NoEvent \notin KernelWaits(waits)
  BY DEF KernelWaits
<1> HIDE DEF waits
<1>3. run'.wait_list \in {run.wait_list, waits, KernelWaits(waits)}
  BY <1>1 DEF RunState
<1>4. QED
  BY <1>2, <1>3

LEMMA MissReal ==
  ASSUME GInv, WaitsReal, ~HalfCached, ActivateMiss
  PROVE  WaitsReal'
<1>1. PICK s \in Slots :
           /\ Transfer(s, next_event) /\ cached[s] \in Block
           /\ ThisBlock \in Block /\ InObject(ThisBlock)
  BY MissFills DEF GInv
<1>2. /\ objects' = objects /\ next_event \in Nat /\ next_event > 0
      /\ run.index \in Nat /\ run \in RunState
  BY RunFields DEF ActivateMiss, Fill, GInv, HInv, HostTypes, EventsBelow
<1>3. ActivateWaits \in SUBSET Nat /\ ThisQueue \in Queues /\ WorkTypes /\ BacklogReal
  BY <1>2, RunFields, ThisQueueType DEF ActivateWaits, GInv, WaitsReal
<1>4. NoEvent \notin ActivateWaits
  BY DEF ActivateWaits, WaitsReal, HalfCached, ActivateMiss
<1>5. PICK waits \in SUBSET Nat, n \in Nat :
           waits = ActivateWaits /\ n = next_event /\ NoEvent \notin waits /\ n > 0
  BY <1>2, <1>3, <1>4
<1>6. /\ Real(ReadCommands(s, cached[s], waits, n)) /\ Real(ReadTasks(s, cached[s], n))
      /\ Real(FillCommands(s, ThisBlock, waits, n))
      /\ Real(FillTasks(s, ThisBlock, waits, n))
  BY <1>5, TransfersReal
<1>7. BacklogReal'
  <2>1. CASE UNCHANGED queueVars
    BY <1>3, <2>1 DEF queueVars, BacklogReal, Real, Backlog
  <2>2. CASE WritesBack(s) /\ Enqueue(ThisQueue, ReadCommands(s, cached[s], waits, n),
                                      ReadTasks(s, cached[s], n))
    <3>1. InObject(cached[s])
      BY <1>1, <2>2, EvictedInObject DEF GInv
    <3>2. /\ ReadCommands(s, cached[s], waits, n) \in Seq(MovedWork)
          /\ ReadTasks(s, cached[s], n) \in Seq(MovedWork)
      BY <1>1, <3>1, ReadMoved
    <3>3. QED
      BY <1>3, <1>6, <2>2, <3>2, EnqueueReal
  <2>3. CASE Enqueue(ThisQueue, FillCommands(s, ThisBlock, waits, n),
                     FillTasks(s, ThisBlock, waits, n))
    <3>1. WritesBack(s) => InObject(cached[s])
      BY <1>1, EvictedInObject DEF GInv
    <3>2. /\ FillCommands(s, ThisBlock, waits, n) \in Seq(MovedWork)
          /\ FillTasks(s, ThisBlock, waits, n) \in Seq(MovedWork)
      BY <1>1, <3>1, FillMoved
    <3>3. QED
      BY <1>3, <1>6, <2>3, <3>2, EnqueueReal
  <2>4. QED
    BY <1>1, <1>5, <2>1, <2>2, <2>3 DEF Transfer
<1>8. \E fst, act, bufs : ObjectDone(fst, act, bufs)
  BY <1>1 DEF Transfer, GotBuffer
<1>9. QED
  BY <1>2, <1>7, <1>8, ObjectDoneReal DEF WaitsReal

LEMMA KernelReal ==
  ASSUME GInv, WaitsReal, RunFunction
  PROVE  WaitsReal'
<1> DEFINE op == Kernel(run.wait_list, next_event)
<1>1. /\ Enqueue(ThisQueue, <<op>>, <<>>) /\ objects' = objects
      /\ run.index \in Nat /\ next_event \in Nat /\ next_event > 0 /\ run \in RunState
  BY RunFields DEF RunFunction, cacheVars, GInv, HInv, HostTypes, EventsBelow
<1>2. op \in MovedWork /\ NoEvent \notin op.waits
  BY KernelType DEF MovedWork, Work, Kernels, GInv, WaitsReal, Kernel
<1>3. ThisQueue \in Queues /\ WorkTypes /\ BacklogReal
  BY <1>1, ThisQueueType DEF GInv, WaitsReal
<1> HIDE DEF op
<1>4. /\ <<op>> \in Seq(MovedWork) /\ <<>> \in Seq(MovedWork)
      /\ Real(<<op>>) /\ Real(<<>>)
  BY <1>2 DEF Real
<1>5. BacklogReal'
  BY <1>1, <1>3, <1>4, EnqueueReal
<1>6. \/ run' = [run EXCEPT !.fun = run.fun + 1, !.wait_list = {next_event}]
      \/ run' = [NotRunning EXCEPT !.index = run.index + 1, !.trans_event = next_event,
                   !.active = Append(run.active, run.activating)]
  BY DEF RunFunction
<1>7. run'.wait_list \in {{next_event}, {}}
  BY <1>1, <1>6 DEF RunState, NotRunning
<1>8. QED
  BY <1>1, <1>5, <1>7 DEF WaitsReal, NoEvent

LEMMA ReadReal ==
  ASSUME GInv, WaitsReal, ClientRead
  PROVE  WaitsReal'
<1>1. PICK b : b = Head(program.reads)
  OBVIOUS
<1>2. b \in Block
  <2>1. program.reads \in Seq(Block) /\ program.reads # <<>>
    BY DEF ClientRead, GInv, HInv, HostTypes
  <2>2. QED
    BY <1>1, <2>1
<1>3. /\ ClientQueue \in Queues /\ WorkTypes /\ BacklogReal /\ run' = run
      /\ next_event \in Nat /\ next_event > 0
  BY DEF ClientQueue, Queues, NumQueues, GInv, HInv, HostTypes, EventsBelow, ClientRead,
     WaitsReal
<1>4. ASSUME NEW s \in Slots, ReadBack(s, b.oid, b.bid, b.len),
             Enqueue(ClientQueue, ReadCommands(s, b, {}, next_event),
                     ReadTasks(s, b, next_event))
      PROVE  BacklogReal'
  <2>1. cached[s].oid = b.oid /\ cached[s].bid = b.bid /\ b.oid \in Oids
    BY <1>4 DEF ReadBack, FoundAt, Holds, Accepted, ValidPtr
  <2>2. cached[s] # NoBlock
    BY <2>1 DEF NoBlock, Oids
  <2>3. InObject(b)
    BY <2>1, <2>2 DEF GInv, BlocksExist, InObject
  <2>4. PICK n \in Nat : n = next_event /\ n > 0
    BY <1>3
  <2>5. /\ ReadCommands(s, b, {}, n) \in Seq(MovedWork)
        /\ ReadTasks(s, b, n) \in Seq(MovedWork)
    <3>1. {} \in SUBSET Nat
      OBVIOUS
    <3>2. QED
      BY <1>2, <2>3, <3>1, ReadMoved
  <2>6. Real(ReadCommands(s, b, {}, n)) /\ Real(ReadTasks(s, b, n))
    <3>1. {} \in SUBSET Nat /\ NoEvent \notin {}
      OBVIOUS
    <3>2. QED
      BY <2>4, <3>1, TransfersReal
  <2>7. QED
    BY <1>3, <1>4, <2>4, <2>5, <2>6, EnqueueReal
<1>5. BacklogReal'
  <2>1. CASE UNCHANGED queueVars
    BY <1>3, <2>1 DEF queueVars, BacklogReal, Real, Backlog
  <2>2. QED
    BY <1>1, <1>4, <2>1 DEF ClientRead
<1>6. QED
  BY <1>3, <1>5 DEF WaitsReal

LEMMA WaitsRealStep ==
  ASSUME GInv, WaitsReal, ~HalfCached, [SchedulerNext]_vars
  PROVE  WaitsReal'
<1>0. run \in RunState /\ WorkTypes /\ BacklogReal /\ NoEvent \notin run.wait_list
  BY DEF GInv, HInv, HostTypes, WaitsReal
<1>1. ASSUME UNCHANGED queueVars, NoEvent \notin run'.wait_list
      PROVE  WaitsReal'
  BY <1>0, <1>1 DEF queueVars, WaitsReal, BacklogReal, Real, Backlog
<1>2. CASE \/ StartBatch \/ RegisterOk \/ RegisterFails \/ ActivateFails \/ Finish
           \/ ClientEnds
  <2>1. run' = NotRunning /\ UNCHANGED queueVars
    BY <1>2, OutsideRun DEF StartBatch, RegisterOk, RegisterFails, ActivateFails, Finish,
       ClientEnds, GInv
  <2>2. NoEvent \notin run'.wait_list
    BY <2>1 DEF NotRunning
  <2>3. QED
    BY <1>1, <2>1, <2>2
<1>3. CASE ActivateAgain \/ ActivateHit
  <2>1. UNCHANGED queueVars /\ \E fst, act, bufs : ObjectDone(fst, act, bufs)
    BY <1>3 DEF ActivateAgain, ActivateHit, GotBuffer
  <2>2. QED
    BY <1>0, <1>1, <2>1, ObjectDoneReal
<1>4. CASE Deactivate
  <2>1. UNCHANGED queueVars /\ \/ run' = NotRunning
                               \/ \E active : run' = [run EXCEPT !.active = active]
    BY <1>4 DEF Deactivate, Fail
  <2>2. NoEvent \notin run'.wait_list
    BY <1>0, <2>1 DEF NotRunning, RunState
  <2>3. QED
    BY <1>1, <2>1, <2>2
<1>5. CASE Done \/ UNCHANGED vars
  BY <1>0, <1>1, <1>5 DEF Done, vars, hostVars
<1>6. ASSUME NEW q \in Queues, DeviceStep(q) \/ IOThreadStep(q)
      PROVE  WaitsReal'
  <2>1. PICK w \in Workers : WorkerStep(w)
    BY <1>0, <1>6, WorkerSteps
  <2>2. run' = run
    BY <1>6 DEF DeviceStep, IOThreadStep, hostVars
  <2>3. ASSUME NEW v \in Workers, NEW k \in 1 .. Len(Backlog(v)')
        PROVE  NoEvent \notin Backlog(v)'[k].waits
    <3>1. \E j \in 1 .. Len(Backlog(v)) : Backlog(v)'[k] = Backlog(v)[j]
      BY <1>0, <2>1, <2>3, BacklogShrinks
    <3>2. QED
      BY <1>0, <3>1 DEF BacklogReal, Real
  <2>4. QED
    BY <1>0, <2>2, <2>3 DEF WaitsReal, BacklogReal, Real
<1>7. QED
  BY <1>2, <1>3, <1>4, <1>5, <1>6, MissReal, KernelReal, ReadReal
     DEF SchedulerNext, HostStep

LEMMA WaitsRealInit == SchedulerInit => WaitsReal
<1> SUFFICES ASSUME SchedulerInit PROVE WaitsReal
  OBVIOUS
<1>1. /\ run = NotRunning /\ commands = [q \in Queues |-> <<>>]
      /\ io = [q \in Queues |-> <<>>]
  BY DEF SchedulerInit
<1>2. \A w \in Workers : Backlog(w) = <<>>
  BY <1>1 DEF Workers, Backlog
<1>3. QED
  BY <1>1, <1>2 DEF WaitsReal, BacklogReal, Real, NotRunning

\* What is in a queue waits for real events.
LEMMA RealIsNoEmptyWait ==
  ASSUME GInv, WaitsReal
  PROVE  NoEmptyWait
<1> SUFFICES ASSUME NEW q \in Queues, NEW op \in InQueues(q)
             PROVE  NoEvent \notin op.waits
  BY DEF NoEmptyWait
<1>1. commands[q] \in Seq(MovedWork) /\ io[q] \in Seq(MovedWork)
  BY DEF GInv, WorkTypes
<1>2. PICK v \in Workers, w \in Workers : v = <<q, "device">> /\ w = <<q, "io">>
  BY DEF Workers
<1>3. Real(commands[q]) /\ Real(io[q])
  BY <1>2 DEF WaitsReal, BacklogReal, Backlog
<1>4. \/ \E k \in 1 .. Len(commands[q]) : op = commands[q][k]
      \/ \E k \in 1 .. Len(io[q]) : op = io[q][k]
  BY <1>1 DEF InQueues, Range
<1>5. QED
  BY <1>3, <1>4 DEF Real

\* Whatever fails, nothing is ever given the empty event to wait for, but for
\* the second object of a function, when get transfers it and had no event for
\* the first, which was cached, or activated already, or transient.
THEOREM EmptyWaitsAreHalfCached == SchedulerSpec /\ []~HalfCached => []NoEmptyWait
<1>1. SchedulerInit => GInv /\ WaitsReal
  BY GInit, WaitsRealInit
<1>2. GInv /\ WaitsReal /\ ~HalfCached /\ [SchedulerNext]_vars => (GInv /\ WaitsReal)'
  BY GNext, WaitsRealStep
<1>3. GInv /\ WaitsReal => NoEmptyWait
  BY RealIsNoEmptyWait
<1>4. QED
  BY <1>1, <1>2, <1>3, PTL DEF SchedulerSpec

-----------------------------------------------------------------------------
(***************************************************************************)
(* Clients that fit into the pool                                          *)
(***************************************************************************)
\* A batch that run can serve: every object has its two slots in the pool and
\* blocks that fit into them, n of them.
BatchFits(functions, objs, n) ==
  \A k \in 1 .. Len(functions) : \A j \in 1 .. Len(functions[k].objs) :
     LET o == functions[k].objs[j]
     IN  /\ o \in 1 .. Len(objs)
         /\ o * DoubleBuffering <= NumSlots
         /\ functions[k].steps[j] <= BufferSize
         /\ CeilDiv(objs[o].size, functions[k].steps[j]) = n

\* Such are all batches of the client.
FitsPool(p) ==
  \A b \in 1 .. Len(p.batches) : \E n \in Nat : BatchFits(p.batches[b], p.objects, n)

\* The functions of this run, and of those to come.
AllFit ==
  /\ device = "gpu" /\ objects = program.objects
  /\ \E n \in Nat : BatchFits(run_queue, objects, n)
  /\ \A b \in 1 .. Len(program.batches) :
       \E n \in Nat : BatchFits(program.batches[b], objects, n)

\* current_index is the number of a block.
IndexInRange ==
  pc \in {"activate", "run", "deactivate"} => run.index < NumBlocks(run_queue[1], 1)

FitInv == AllFit /\ IndexInRange

-----------------------------------------------------------------------------
\* Quotients and rests.
LEMMA Quotient ==
  ASSUME NEW a \in Int, NEW b \in Nat \ {0}
  PROVE  a \div b \in Int /\ a % b \in 0 .. b - 1 /\ a = b * (a \div b) + (a % b)
OBVIOUS

LEMMA ProductsInOrder ==
  ASSUME NEW x \in Int, NEW y \in Int, NEW b \in Nat \ {0}, x < y
  PROVE  b * x + b <= b * y
OBVIOUS

\* As many blocks as get_num_buffers counts begin in the object, and there is
\* one if the object is not empty.
LEMMA BlocksBegin ==
  ASSUME NEW a \in Nat \ {0}, NEW b \in Nat \ {0}, NEW i \in Nat
  PROVE  /\ CeilDiv(a, b) \in Int /\ 0 < CeilDiv(a, b)
         /\ i < CeilDiv(a, b) <=> i * b < a
<1> DEFINE q == (a + b - 1) \div b
           r == (a + b - 1) % b
<1>1. q \in Int /\ r \in 0 .. b - 1 /\ a + b - 1 = b * q + r
  BY Quotient, a + b - 1 \in Int
<1> HIDE DEF q, r
<1>2. b * q \in Int /\ b * i \in Int /\ b * i = i * b
  BY <1>1
<1>3. ASSUME i < q PROVE i * b < a
  <2>1. b * i + b <= b * q
    BY <1>1, <1>3, ProductsInOrder
  <2>2. QED
    BY <1>1, <1>2, <2>1
<1>4. ASSUME q <= i PROVE ~(i * b < a)
  <2>1. b * q <= b * i
    BY <1>1, <1>4, ProductsInOrder, <1>2
  <2>2. QED
    BY <1>1, <1>2, <2>1
<1>5. 0 < q
  <2>1. SUFFICES ASSUME q <= 0 PROVE FALSE
    BY <1>1
  <2>2. b * q <= b * 0
    BY <1>1, <2>1, ProductsInOrder, <1>2
  <2>3. QED
    BY <1>1, <1>2, <2>2
<1>6. QED
  BY <1>1, <1>3, <1>4, <1>5 DEF CeilDiv, q

\* What a client asks of the cache is what get accepts.
LEMMA BlockAccepted ==
  ASSUME HInv, FitInv, pc = "activate"
  PROVE  /\ Accepted(ThisBlock.oid, ThisBlock.bid, ThisBlock.len)
         /\ ThisBlock.oid * DoubleBuffering <= NumSlots
<1> DEFINE f == ThisFun
           o == f.objs[run.arg]
           d == f.steps[run.arg]
<1>1. /\ f \in Runnable /\ run.arg \in 1 .. Len(f.objs) /\ run.index \in Nat
      /\ run.fun \in 1 .. Len(run_queue) /\ run_queue \in Seq(Runnable)
  BY ThisBlockType, RunFields DEF HInv, Position, HostTypes
<1>2. d \in Nat \ {0} /\ o \in Nat \ {0}
  BY <1>1 DEF Runnable
<1>3. PICK n \in Nat : BatchFits(run_queue, objects, n)
  BY DEF FitInv, AllFit
<1>4. /\ o \in 1 .. Len(objects) /\ o * DoubleBuffering <= NumSlots /\ d <= BufferSize
      /\ CeilDiv(objects[o].size, d) = n
  BY <1>1, <1>3 DEF BatchFits, ThisFun
<1>5. objects[o].size \in Nat \ {0}
  <2>1. objects \in Seq([size : Nat \ {0}, mode : ObjectMode])
    BY DEF FitInv, AllFit, HInv, HostTypes
  <2>2. objects[o] \in [size : Nat \ {0}, mode : ObjectMode]
    BY <1>4, <2>1, ElementOf
  <2>3. QED
    BY <2>2
<1>6. run.index < n
  <2>1. 1 \in 1 .. Len(run_queue) /\ run_queue[1] \in Runnable
    BY <1>1, ElementOf
  <2>2. 1 \in 1 .. Len(run_queue[1].objs)
    BY <2>1, RunnableHasObject
  <2>3. NumBlocks(run_queue[1], 1) = n
    BY <1>3, <2>1, <2>2 DEF BatchFits, NumBlocks
  <2>4. QED
    BY <2>3 DEF FitInv, IndexInRange
<1> DEFINE off == run.index * d
<1>7. off \in Nat /\ off < objects[o].size
  <2>1. run.index < CeilDiv(objects[o].size, d)
    BY <1>4, <1>6
  <2> HIDE DEF o, d
  <2>2. run.index * d < objects[o].size
    BY <1>1, <1>2, <1>5, <2>1, BlocksBegin
  <2>3. QED
    BY <1>1, <1>2, <2>2
<1>8. ThisBlock = [oid |-> o, bid |-> off,
                   len |-> IF off + d < objects[o].size THEN d ELSE objects[o].size - off]
  BY DEF ThisBlock, BlockAt
<1> HIDE DEF f, o, d, off
<1>9. ThisBlock.oid = o /\ ThisBlock.bid = off /\ ThisBlock.len <= d
  BY <1>2, <1>5, <1>7, <1>8
<1>10. ThisBlock.len <= BufferSize
  <2>1. ThisBlock.len \in Int
    BY <1>2, <1>5, <1>7, <1>8
  <2>2. QED
    BY <1>2, <1>4, <1>9, <2>1, CacheAssumption
<1>11. device = "gpu"
  BY DEF FitInv, AllFit
<1>12. QED
  BY <1>4, <1>7, <1>9, <1>10, <1>11 DEF Accepted, ValidPtr, Oids

\* The slot of the object for this index is in the pool, and can be assigned.
LEMMA SlotAssigned ==
  ASSUME RInv, FitInv, pc = "activate", ~Activated(ThisBlock.oid)
  PROVE  /\ SlotAt(ThisBlock.oid, run.index) \in Slots
         /\ Free(SlotAt(ThisBlock.oid, run.index))
         /\ Assigned(SlotAt(ThisBlock.oid, run.index), ThisBlock.oid)
<1> DEFINE oid == ThisBlock.oid
           base == (oid - 1) * DoubleBuffering
           here == SlotAt(oid, run.index)
           other == SlotAt(oid, run.index - 1)
<1>1. oid \in Nat \ {0} /\ run.index \in Nat /\ oid * DoubleBuffering <= NumSlots
  BY BlockAccepted, ThisBlockType, RunFields DEF RInv
<1>2. here \in {base, base + 1} /\ base \in Nat /\ base + 2 <= NumSlots
  <2>1. here \in {base, base + 1}
    BY <1>1, SlotFacts
  <2>2. base \in Nat /\ base + 2 <= NumSlots
    BY <1>1, CacheAssumption DEF DoubleBuffering
  <2>3. QED
    BY <2>1, <2>2
<1>3. here \in Slots
  BY <1>2, CacheAssumption DEF Slots
<1>4. Free(here)
  <2>1. users[here] = 0
    BY <1>3, SlotIsUnused
  <2>2. QED
    BY <1>3, <2>1 DEF RInv, HInv, IInv, LockAccounting
<1>5. ASSUME here = base + 1 PROVE ~Free(base)
  <2>1. run.index # 0
    BY <1>1, <1>2, <1>5, SlotFacts
  <2>2. other \in Slots /\ ~Free(other)
    BY <2>1, OtherSlotHeld
  <2>3. run.index - 1 \in Nat /\ run.index = (run.index - 1) + 1
    BY <1>1, <2>1
  <2>4. other \in {base, base + 1} /\ other # SlotAt(oid, (run.index - 1) + 1)
    BY <1>1, <2>3, SlotFacts
  <2>5. QED
    BY <1>5, <2>2, <2>3, <2>4
<1>6. QED
  BY <1>2, <1>3, <1>4, <1>5 DEF Assigned

\* A block that is cached is in the slot of its index, which is not locked.
LEMMA FoundIsFree ==
  ASSUME RInv, FitInv, pc = "activate", ~Activated(ThisBlock.oid), NEW s \in Slots,
         Holds(s, ThisBlock.oid, ThisBlock.bid)
  PROVE  Free(s)
<1> DEFINE oid == ThisBlock.oid
           base == (oid - 1) * DoubleBuffering
           here == SlotAt(oid, run.index)
           other == SlotAt(oid, run.index - 1)
<1>1. /\ oid \in Nat \ {0} /\ run.index \in Nat
      /\ ThisBlock.bid = run.index * ThisFun.steps[run.arg]
  BY ThisBlockType, RunFields DEF RInv
<1>2. cached[s] # NoBlock /\ cached[s].oid = oid /\ cached[s].bid = ThisBlock.bid
  BY <1>1 DEF Holds, NoBlock
<1>3. s \in {base, base + 1} /\ (ThisBlock.bid = 0 => s = base)
  BY <1>2 DEF RInv, Homes
<1>4. here \in {base, base + 1} /\ base \in Int
  BY <1>1, SlotFacts DEF DoubleBuffering
<1>5. here \in Slots /\ Free(here)
  BY SlotAssigned
<1>6. CASE run.index = 0
  <2>1. here = base
    BY <1>1, <1>6, SlotFacts
  <2>2. ThisFun.steps[run.arg] \in Nat
    BY ThisBlockType DEF RInv, HInv, Position, Runnable
  <2>3. ThisBlock.bid = 0
    BY <1>1, <1>6, <2>2
  <2>4. QED
    BY <1>3, <1>5, <2>1, <2>3
<1>7. CASE run.index # 0
  <2>1. other \in Slots /\ cached[other].bid # ThisBlock.bid
    BY <1>7, OtherSlotHeld
  <2>2. run.index - 1 \in Nat /\ run.index = (run.index - 1) + 1
    BY <1>1, <1>7
  <2>3. other \in {base, base + 1} /\ other # SlotAt(oid, (run.index - 1) + 1)
    BY <1>1, <2>2, SlotFacts
  <2>4. s = here
    BY <1>2, <1>3, <1>4, <2>1, <2>2, <2>3
  <2>5. QED
    BY <1>5, <2>4
<1>8. QED
  BY <1>6, <1>7

\* get does not fail.
LEMMA GetSucceeds ==
  ASSUME RInv, FitInv, ActivateFails
  PROVE  FALSE
<1> DEFINE oid == ThisBlock.oid
           bid == ThisBlock.bid
           len == ThisBlock.len
<1>1. /\ pc = "activate" /\ ~Activated(oid) /\ Get(oid, bid, len) /\ ret' = -1
  BY DEF ActivateFails
<1>2. Accepted(oid, bid, len)
  BY <1>1, BlockAccepted DEF RInv
<1>3. ~Refused(oid, bid, len, 0) /\ ~Refused(oid, bid, len, -1)
  <2>1. len <= BufferSize /\ device # "none" /\ ValidPtr(oid, bid)
    BY <1>2 DEF Accepted
  <2>2. len \in Nat /\ BufferSize \in Nat
    BY <1>1, <1>2, ThisBlockLength, CacheAssumption DEF RInv
  <2>3. QED
    BY <2>1, <2>2 DEF Refused
<1>4. ASSUME NEW s \in Slots
      PROVE  ~GetLocked(s, oid, bid, len) /\ ~FillFails(s, oid, bid, len)
  <2>1. ASSUME GetLocked(s, oid, bid, len) PROVE FALSE
    <3>1. Holds(s, oid, bid) /\ slot_lock[s].status = "WriteLock"
      BY <2>1 DEF GetLocked, FoundAt
    <3>2. QED
      BY <1>1, <3>1, FoundIsFree DEF Free
  <2>2. ~EvictFails(s)
    BY EvictSucceeds DEF RInv, HInv
  <2>3. QED
    BY <2>1, <2>2 DEF FillFails
<1>5. ASSUME NEW s \in Slots
      PROVE  ~GetHit(s, oid, bid, len) /\ ~Fill(s, oid, bid, len)
  BY <1>1 DEF GetHit, Fill, HandOut
<1>6. ~NoSlot(oid, bid, len)
  BY <1>1, SlotAssigned DEF NoSlot
<1>7. ~WriteAndGet(oid, bid, len)
  BY <1>3, <1>4, <1>5, <1>6 DEF WriteAndGet
<1>8. QED
  BY <1>1, <1>3, <1>4, <1>5, <1>7 DEF Get

\* The blocks of all objects match.
LEMMA RegisterSucceeds ==
  ASSUME HInv, FitInv, pc = "register"
  PROVE  NumBuffersIs(NumBlocks(Head(run_queue), 1)) /\ 0 < NumBlocks(Head(run_queue), 1)
<1>1. run_queue \in Seq(Runnable) /\ run_queue # <<>>
  BY DEF HInv, HostTypes, Position
<1>2. Head(run_queue) = run_queue[1] /\ 1 \in 1 .. Len(run_queue) /\ run_queue[1] \in Runnable
  BY <1>1, ElementOf
<1>3. 1 \in 1 .. Len(run_queue[1].objs)
  BY <1>2, RunnableHasObject
<1>4. PICK n \in Nat : BatchFits(run_queue, objects, n)
  BY DEF FitInv, AllFit
<1>5. ASSUME NEW k \in 1 .. Len(run_queue), NEW j \in 1 .. Len(run_queue[k].objs)
      PROVE  NumBlocks(run_queue[k], j) = n
  BY <1>4, <1>5 DEF BatchFits, NumBlocks
<1>6. NumBlocks(Head(run_queue), 1) = n
  BY <1>2, <1>3, <1>5
<1>7. \A k \in 1 .. Len(run_queue) : DOMAIN run_queue[k].objs = 1 .. Len(run_queue[k].objs)
  BY <1>1, ElementOf DEF Runnable
<1>8. NumBuffersIs(n)
  BY <1>1, <1>5, <1>7 DEF NumBuffersIs
<1>9. 0 < n
  <2>1. objects \in Seq([size : Nat \ {0}, mode : ObjectMode])
    BY DEF FitInv, AllFit, HInv, HostTypes
  <2>2. run_queue[1].objs[1] \in 1 .. Len(objects)
    BY <1>2, <1>3, <1>4 DEF BatchFits
  <2>3. objects[run_queue[1].objs[1]].size \in Nat \ {0}
    <3>1. objects[run_queue[1].objs[1]] \in [size : Nat \ {0}, mode : ObjectMode]
      BY <2>1, <2>2, ElementOf
    <3>2. QED
      BY <3>1
  <2>4. run_queue[1].steps[1] \in Nat \ {0}
    BY <1>2, <1>3 DEF Runnable
  <2>5. 0 < CeilDiv(objects[run_queue[1].objs[1]].size, run_queue[1].steps[1])
    BY <2>3, <2>4, BlocksBegin, 0 \in Nat
  <2>6. QED
    BY <1>2, <1>6, <2>5 DEF NumBlocks
<1>10. QED
  BY <1>6, <1>8, <1>9

\* No step of run is one of those of a failure.
LEMMA RetStays ==
  ASSUME RInv, FitInv, run_ret = 1, [SchedulerNext]_vars
  PROVE  run_ret' = 1
<1>1. CASE StartBatch \/ RegisterOk \/ RunFunction \/ ClientRead \/ ClientEnds
  BY <1>1 DEF StartBatch, RegisterOk, RunFunction, ClientRead, ClientEnds
<1>2. CASE ActivateAgain \/ ActivateHit \/ ActivateMiss
  BY <1>2, ObjectDoneLeaves DEF ActivateAgain, ActivateHit, ActivateMiss
<1>3. ~RegisterFails
  BY RegisterSucceeds DEF RegisterFails, RInv
<1>4. ~ActivateFails
  BY GetSucceeds
<1>5. CASE Deactivate
  <2>1. ret' = 1
    BY <1>5, UnlockSucceeds
  <2>2. QED
    BY <1>5, <2>1 DEF Deactivate
<1>6. CASE Finish
  BY <1>6 DEF Finish
<1>7. CASE \E q \in Queues : DeviceStep(q) \/ IOThreadStep(q)
  BY <1>7 DEF DeviceStep, IOThreadStep, hostVars
<1>8. CASE Done \/ UNCHANGED vars
  BY <1>8 DEF Done, vars, hostVars
<1>9. QED
  BY <1>1, <1>2, <1>3, <1>4, <1>5, <1>6, <1>7, <1>8 DEF SchedulerNext, HostStep

-----------------------------------------------------------------------------
\* Nothing changes the type of the device.
LEMMA DeviceStays ==
  ASSUME [SchedulerNext]_vars
  PROVE  device' = device
<1>1. CASE StartBatch \/ RegisterOk \/ RegisterFails \/ ActivateAgain \/ RunFunction
            \/ Finish \/ ClientEnds
  BY <1>1 DEF StartBatch, RegisterOk, RegisterFails, ActivateAgain, RunFunction, Finish,
              ClientEnds, cacheVars
<1>2. CASE ActivateHit \/ ActivateMiss
  BY <1>2 DEF ActivateHit, ActivateMiss, GetHit, Fill
<1>3. CASE ActivateFails
  BY <1>3 DEF ActivateFails, Get, WriteAndGet, Refused, GetHit, GetLocked, Fill, FillFails,
              NoSlot, Return
<1>4. CASE Deactivate
  BY <1>4 DEF Deactivate, DeactivateBuffer, Unlock, UnlockRefused, UnlockFound, Return
<1>5. CASE ClientRead
  BY <1>5 DEF ClientRead, ReadBack, ReadNothing, Return
<1>6. CASE (\E q \in Queues : DeviceStep(q) \/ IOThreadStep(q)) \/ Done \/ UNCHANGED vars
  BY <1>6 DEF DeviceStep, IOThreadStep, Done, vars, cacheVars
<1>7. QED
  BY <1>1, <1>2, <1>3, <1>4, <1>5, <1>6 DEF SchedulerNext, HostStep

\* What becomes of the client's program.
LEMMA ProgramSteps ==
  ASSUME HInv, [SchedulerNext]_vars
  PROVE  /\ program'.objects = program.objects
         /\ ~StartBatch => program'.batches = program.batches
<1>1. program \in [objects : Seq([size : Nat \ {0}, mode : ObjectMode]),
                   batches : Seq(Batch), reads : Seq(Block)]
  BY DEF HInv, HostTypes
<1>2. CASE StartBatch
  BY <1>1, <1>2 DEF StartBatch
<1>3. CASE ClientRead
  BY <1>1, <1>3 DEF ClientRead
<1>4. CASE RegisterOk \/ RegisterFails \/ ActivateFails \/ RunFunction \/ Finish \/ ClientEnds
  BY <1>4 DEF RegisterOk, RegisterFails, ActivateFails, RunFunction, Finish, ClientEnds, Fail
<1>5. CASE ActivateAgain \/ ActivateHit \/ ActivateMiss
  BY <1>5, ObjectDoneLeaves DEF ActivateAgain, ActivateHit, ActivateMiss
<1>6. CASE Deactivate
  BY <1>6 DEF Deactivate, Fail
<1>7. CASE (\E q \in Queues : DeviceStep(q) \/ IOThreadStep(q)) \/ Done \/ UNCHANGED vars
  BY <1>7 DEF DeviceStep, IOThreadStep, Done, vars, hostVars
<1>8. QED
  BY <1>2, <1>3, <1>4, <1>5, <1>6, <1>7 DEF SchedulerNext, HostStep

\* And of the functions that are enqueued.
LEMMA QueueOfFunctions ==
  ASSUME [SchedulerNext]_vars, ~StartBatch
  PROVE  run_queue' = run_queue \/ run_queue' = <<>>
<1>1. CASE RegisterOk \/ RegisterFails \/ ActivateFails \/ RunFunction \/ Finish \/ ClientRead
            \/ ClientEnds
  BY <1>1 DEF RegisterOk, RegisterFails, ActivateFails, RunFunction, Finish, ClientRead,
              ClientEnds, Fail
<1>2. CASE ActivateAgain \/ ActivateHit \/ ActivateMiss
  BY <1>2, ObjectDoneLeaves DEF ActivateAgain, ActivateHit, ActivateMiss
<1>3. CASE Deactivate
  BY <1>3 DEF Deactivate, Fail
<1>4. CASE (\E q \in Queues : DeviceStep(q) \/ IOThreadStep(q)) \/ Done \/ UNCHANGED vars
  BY <1>4 DEF DeviceStep, IOThreadStep, Done, vars, hostVars
<1>5. QED
  BY <1>1, <1>2, <1>3, <1>4 DEF SchedulerNext, HostStep

\* The number of blocks is a number.
LEMMA BlockNumber ==
  ASSUME HInv, FitInv, pc \in {"activate", "run", "deactivate"}
  PROVE  NumBlocks(run_queue[1], 1) \in Nat
<1>1. run_queue \in Seq(Runnable) /\ run.fun \in 1 .. Len(run_queue)
  BY DEF HInv, HostTypes, Position
<1>2. 1 \in 1 .. Len(run_queue) /\ run_queue[1] \in Runnable
  BY <1>1, ElementOf
<1>3. 1 \in 1 .. Len(run_queue[1].objs)
  BY <1>2, RunnableHasObject
<1>4. PICK n \in Nat : BatchFits(run_queue, objects, n)
  BY DEF FitInv, AllFit
<1>5. NumBlocks(run_queue[1], 1) = n
  BY <1>2, <1>3, <1>4 DEF BatchFits, NumBlocks
<1>6. QED
  BY <1>5

\* The batches that are left are those the client came with.
LEMMA AllFitStep ==
  ASSUME RInv, FitInv, [SchedulerNext]_vars
  PROVE  AllFit'
<1>1. device' = device /\ objects' = objects
  <2>1. objects' = objects
    BY CacheSteps
  <2>2. device' = device
    BY DeviceStays
  <2>3. QED
    BY <2>1, <2>2
<1>2. program'.objects = program.objects
  BY ProgramSteps DEF RInv
<1>3. CASE StartBatch
  <2>1. PICK d, e : d = program.batches /\ e = Head(program.batches)
    OBVIOUS
  <2>2. d \in Seq(Batch) /\ d # <<>> /\ e = d[1] /\ 1 \in 1 .. Len(d)
    <3>1. d \in Seq(Batch) /\ d # <<>>
      BY <1>3, <2>1 DEF StartBatch, RInv, HInv, HostTypes
    <3>2. QED
      BY <2>1, <3>1
  <2>3. e \in Seq(Runnable)
    BY <2>2, ElementOf DEF Batch
  <2>4. run_queue' = e
    <3>1. run_queue = <<>> /\ run_queue' = run_queue \o e
      BY <1>3, <2>1 DEF StartBatch, RInv, NothingLeft
    <3>2. QED
      BY <2>3, <3>1
  <2>5. program'.batches = Tail(d)
    BY <1>3, <2>1 DEF StartBatch, RInv, HInv, HostTypes
  <2>6. \E n \in Nat : BatchFits(e, objects, n)
    BY <2>1, <2>2 DEF FitInv, AllFit
  <2>7. ASSUME NEW b \in 1 .. Len(Tail(d))
        PROVE  \E n \in Nat : BatchFits(Tail(d)[b], objects, n)
    <3>1. b + 1 \in 1 .. Len(d) /\ Tail(d)[b] = d[b + 1]
      BY <2>2
    <3>2. QED
      BY <2>1, <3>1 DEF FitInv, AllFit
  <2>8. QED
    BY <1>1, <1>2, <2>4, <2>5, <2>6, <2>7 DEF FitInv, AllFit
<1>4. CASE ~StartBatch
  <2>1. program'.batches = program.batches
    BY <1>4, ProgramSteps DEF RInv
  <2>2. \E n \in Nat : BatchFits(run_queue', objects, n)
    <3>1. CASE run_queue' = run_queue
      BY <3>1 DEF FitInv, AllFit
    <3>2. CASE run_queue' = <<>>
      <4>1. BatchFits(run_queue', objects, 0)
        BY <3>2 DEF BatchFits
      <4>2. QED
        BY <4>1
    <3>3. QED
      BY <1>4, <3>1, <3>2, QueueOfFunctions
  <2>3. QED
    BY <1>1, <1>2, <2>1, <2>2 DEF FitInv, AllFit
<1>5. QED
  BY <1>3, <1>4

\* current_index stays below the number of blocks.
LEMMA IndexStep ==
  ASSUME RInv, FitInv, run_ret' = 1, [SchedulerNext]_vars
  PROVE  IndexInRange'
<1>1. objects' = objects
  BY CacheSteps
<1>2. /\ run \in RunState /\ run.index \in Nat
  BY RunFields DEF RInv, HInv, HostTypes
<1>3. ASSUME run_queue' = run_queue
      PROVE  NumBlocks(run_queue[1], 1)' = NumBlocks(run_queue[1], 1)
  BY <1>1, <1>3 DEF NumBlocks
<1>4. CASE StartBatch \/ Finish \/ ClientRead \/ ClientEnds
  <2>1. pc' \notin {"activate", "run", "deactivate"}
    BY <1>4 DEF StartBatch, Finish, ClientRead, ClientEnds
  <2>2. QED
    BY <2>1 DEF IndexInRange
<1>5. CASE RegisterFails \/ ActivateFails
  BY <1>5 DEF RegisterFails, ActivateFails, Fail
<1>6. CASE RegisterOk
  <2>1. run.index = 0 /\ run' = run /\ run_queue' = run_queue /\ pc = "register"
    BY <1>6 DEF RegisterOk, RInv, HInv, Position, NotRunning
  <2>2. 0 < NumBlocks(Head(run_queue), 1)
    BY <2>1, RegisterSucceeds DEF RInv
  <2>3. Head(run_queue) = run_queue[1]
    BY <2>1 DEF RInv, HInv, HostTypes, Position
  <2>4. QED
    BY <1>3, <2>1, <2>2, <2>3 DEF IndexInRange
<1>7. CASE ActivateAgain \/ ActivateHit \/ ActivateMiss
  <2>1. PICK fst, act, bufs : ObjectDone(fst, act, bufs)
    BY <1>7 DEF ActivateAgain, ActivateHit, ActivateMiss, Transfer, GotBuffer
  <2>2. pc = "activate" /\ run'.index = run.index /\ run_queue' = run_queue
    BY <1>7, <2>1, ObjectDoneMoves DEF RInv, ActivateAgain, ActivateHit, ActivateMiss
  <2>3. QED
    BY <1>3, <2>2 DEF FitInv, IndexInRange
<1>8. CASE RunFunction
  <2>1. pc = "run" /\ run.index < NumBlocks(run_queue[1], 1) /\ run_queue' = run_queue
    BY <1>8 DEF RunFunction, FitInv, IndexInRange
  <2>2. CASE pc' = pc /\ run'.index = run.index
    BY <1>3, <2>1, <2>2 DEF IndexInRange
  <2>3. CASE /\ run'.index = run.index + 1
             /\ run.index + 1 = NumBlocks(run_queue[1], 1) => pc' = "drain"
    <3>1. NumBlocks(run_queue[1], 1) \in Int
      BY <2>1, BlockNumber DEF RInv
    <3>2. NumBlocks(run_queue[1], 1)' = NumBlocks(run_queue[1], 1)
      BY <1>3, <2>1
    <3>3. SUFFICES ASSUME pc' \in {"activate", "run", "deactivate"}
                   PROVE  run'.index < NumBlocks(run_queue[1], 1)'
      BY DEF IndexInRange
    <3>4. run.index + 1 # NumBlocks(run_queue[1], 1)
      BY <2>3, <3>3
    <3>5. QED
      BY <1>2, <2>1, <2>3, <3>1, <3>2, <3>4
  <2>4. QED
    BY <1>2, <1>8, <2>2, <2>3 DEF RunFunction, NotRunning, RunState
<1>9. CASE Deactivate
  <2>1. run'.index = run.index /\ run_queue' = run_queue
    BY <1>2, <1>9, UnlockSucceeds DEF Deactivate, RunState
  <2>2. pc' \in {"activate", "deactivate"} => pc = "deactivate"
    BY <1>9, UnlockSucceeds DEF Deactivate
  <2>3. pc' # "run"
    BY <1>9, UnlockSucceeds DEF Deactivate
  <2>4. QED
    BY <1>3, <2>1, <2>2, <2>3 DEF FitInv, IndexInRange
<1>10. CASE (\E q \in Queues : DeviceStep(q) \/ IOThreadStep(q)) \/ Done \/ UNCHANGED vars
  <2>1. UNCHANGED <<pc, run, run_queue>>
    BY <1>10 DEF DeviceStep, IOThreadStep, Done, vars, hostVars
  <2>2. QED
    BY <1>3, <2>1 DEF FitInv, IndexInRange
<1>11. QED
  BY <1>4, <1>5, <1>6, <1>7, <1>8, <1>9, <1>10 DEF SchedulerNext, HostStep

\* Before the first run every batch of the client is still to come.
LEMMA FitInit ==
  ASSUME SchedulerInit, \A p \in Programs : FitsPool(p)
  PROVE  FitInv
<1>1. program \in Programs /\ FitsPool(program)
  BY DEF SchedulerInit
<1>2. BatchFits(<<>>, objects, 0)
  BY DEF BatchFits
<1>3. AllFit
  BY <1>1, <1>2 DEF AllFit, FitsPool, SchedulerInit
<1>4. IndexInRange
  BY DEF IndexInRange, SchedulerInit
<1>5. QED
  BY <1>3, <1>4 DEF FitInv

RunsInv == RInv /\ FitInv /\ run_ret = 1

\* As long as no run has failed the next does not fail.
LEMMA RunsNext == RunsInv /\ [SchedulerNext]_vars => RunsInv'
<1> SUFFICES ASSUME RunsInv, [SchedulerNext]_vars PROVE RunsInv'
  OBVIOUS
<1>1. run_ret' = 1
  BY RetStays DEF RunsInv
<1>2. RInv'
  BY <1>1, RNext DEF RunsInv
<1>3. FitInv'
  BY <1>1, AllFitStep, IndexStep DEF RunsInv, FitInv
<1>4. QED
  BY <1>1, <1>2, <1>3 DEF RunsInv

\* No run of such a client ever fails: the blocks match, get finds a free slot
\* for every block, whatever is cached and however far the device is behind,
\* and unlock finds what get has locked.
THEOREM RunsSucceed ==
  ASSUME \A p \in Programs : FitsPool(p)
  PROVE  SchedulerSpec => [](run_ret = 1)
<1>1. SchedulerInit => RunsInv
  BY RInit, FitInit DEF RunsInv, SchedulerInit
<1>2. RunsInv => run_ret = 1
  BY DEF RunsInv
<1>3. QED
  BY <1>1, <1>2, RunsNext, PTL DEF SchedulerSpec

-----------------------------------------------------------------------------
(***************************************************************************)
(* What the other theorems say of clients that fit                         *)
(***************************************************************************)
\* current_queue and the slots of an object always advance together, for a
\* client that fits into the pool.
THEOREM FittingQueuesOwnSlots ==
  ASSUME \A p \in Programs : FitsPool(p)
  PROVE  SchedulerSpec => []QueueOwnsSlots
BY RunsSucceed, QueuesOwnSlots, PTL

\* Every run of such a client gives back what it got.
THEOREM FittingRunsUnlock ==
  ASSUME \A p \in Programs : FitsPool(p)
  PROVE  SchedulerSpec => []SuccessLeavesNoLock
BY RunsSucceed, SuccessUnlocks, PTL
-----------------------------------------------------------------------------
(***************************************************************************)
(* The k-means clients: the points, which are only read, and the labels,   *)
(* which are read and written                                              *)
(***************************************************************************)
PointsId == 1
LabelsId == 2

\* The functions of an iteration use the points and the labels, the first of
\* them both.
IterationOf(functions) ==
  /\ \A k \in 1 .. Len(functions) : \A j \in 1 .. Len(functions[k].objs) :
       functions[k].objs[j] \in {PointsId, LabelsId}
  /\ functions # <<>> => functions[1].objs = <<PointsId, LabelsId>>

\* A client with these two objects, whose batches are iterations.
KMeansClient(p) ==
  /\ Len(p.objects) = 2
  /\ p.objects[PointsId].mode = "ReadOnly" /\ p.objects[LabelsId].mode = "ReadWrite"
  /\ \A b \in 1 .. Len(p.batches) : IterationOf(p.batches[b])

\* So are the batches it has still to run.
ClientIsKMeans ==
  /\ Len(objects) = 2
  /\ objects[PointsId].mode = "ReadOnly" /\ objects[LabelsId].mode = "ReadWrite"
  /\ IterationOf(run_queue)
  /\ \A b \in 1 .. Len(program.batches) : IterationOf(program.batches[b])

\* The first function activates the points, then the labels.
InTurn ==
  pc = "activate" /\ run.fun = 1 =>
    \A m \in 1 .. Len(run.activating) :
       run.arg = 2 /\ run.activating[m].block.oid = PointsId

\* The points of this index are activated and the labels are not.
Halfway == pc = "activate" /\ run.fun = 1 /\ run.arg = 2

PairCached(size, k) ==
  InCache(PointsId, k * size[PointsId]) <=> InCache(LabelsId, k * size[LabelsId])

\* The cache holds block k of the points if and only if it holds block k of
\* the labels, but for those of the slots that are being replaced; and get has
\* returned an event for the points if and only if it will for the labels.
CachedInPairs(size) ==
  /\ \A k \in Nat :
       ~(Halfway /\ k % NumQueues = run.index % NumQueues) => PairCached(size, k)
  /\ Halfway => /\ InCache(PointsId, run.index * size[PointsId])
                /\ run.fst_event = NoEvent
                     <=> InCache(LabelsId, run.index * size[LabelsId])

PointsWrite(op) == op.kind = "write" /\ op.block.oid = PointsId

\* Command i, or one after it, has event e.
Reaches(c, i, e) == \E k \in i .. Len(c) : c[k].ev = e

\* A transfer of points to the device is awaited by the load of the labels
\* after it, or will be.
PointsAwaited ==
  \A q \in Queues : \A i \in 1 .. Len(commands[q]) :
     PointsWrite(commands[q][i]) =>
       \/ Awaited(commands[q], i, io[q])
       \/ Halfway /\ q = ThisQueue /\ Reaches(commands[q], i, run.fst_event)

KMInv(size) == ClientIsKMeans /\ InTurn /\ CachedInPairs(size) /\ PointsAwaited

-----------------------------------------------------------------------------
\* The batches that are left are iterations.
LEMMA KMeansStays ==
  ASSUME RInv, ClientIsKMeans, [SchedulerNext]_vars
  PROVE  ClientIsKMeans'
<1>1. objects' = objects
  BY CacheSteps
<1>2. CASE StartBatch
  <2>1. PICK d, e : d = program.batches /\ e = Head(program.batches)
    OBVIOUS
  <2>2. d \in Seq(Batch) /\ d # <<>> /\ e = d[1] /\ 1 \in 1 .. Len(d)
    <3>1. d \in Seq(Batch) /\ d # <<>>
      BY <1>2, <2>1 DEF StartBatch, RInv, HInv, HostTypes
    <3>2. QED
      BY <2>1, <3>1
  <2>3. e \in Seq(Runnable)
    BY <2>2, ElementOf DEF Batch
  <2>4. run_queue' = e
    <3>1. run_queue = <<>> /\ run_queue' = run_queue \o e
      BY <1>2, <2>1 DEF StartBatch, RInv, NothingLeft
    <3>2. QED
      BY <2>3, <3>1
  <2>5. program'.batches = Tail(d)
    BY <1>2, <2>1 DEF StartBatch, RInv, HInv, HostTypes
  <2>6. IterationOf(e)
    BY <2>1, <2>2 DEF ClientIsKMeans
  <2>7. ASSUME NEW b \in 1 .. Len(Tail(d))
        PROVE  IterationOf(Tail(d)[b])
    <3>1. b + 1 \in 1 .. Len(d) /\ Tail(d)[b] = d[b + 1]
      BY <2>2
    <3>2. QED
      BY <2>1, <3>1 DEF ClientIsKMeans
  <2>8. QED
    BY <1>1, <2>4, <2>5, <2>6, <2>7 DEF ClientIsKMeans
<1>3. CASE ~StartBatch
  <2>1. program'.batches = program.batches
    BY <1>3, ProgramSteps DEF RInv
  <2>2. IterationOf(run_queue')
    <3>1. IterationOf(<<>>)
      BY DEF IterationOf
    <3>2. QED
      BY <1>3, <3>1, QueueOfFunctions DEF ClientIsKMeans
  <2>3. QED
    BY <1>1, <2>1, <2>2 DEF ClientIsKMeans
<1>4. QED
  BY <1>2, <1>3

\* The first function, and what it is given.
LEMMA FirstFunction ==
  ASSUME HInv, ClientIsKMeans, NEW size, CutAlike(size), pc = "activate", run.fun = 1
  PROVE  /\ Len(ThisFun.objs) = 2 /\ run.arg \in {1, 2}
         /\ ThisBlock.oid = run.arg /\ ThisBlock.bid = run.index * size[run.arg]
<1>1. run.fun \in 1 .. Len(run_queue) /\ run.arg \in 1 .. Len(ThisFun.objs)
  BY DEF HInv, Position
<1>2. run_queue # <<>>
  BY <1>1 DEF HInv, HostTypes
<1>3. ThisFun.objs = <<1, 2>>
  BY <1>2 DEF ClientIsKMeans, IterationOf, PointsId, LabelsId, ThisFun
<1>4. Len(ThisFun.objs) = 2 /\ run.arg \in {1, 2} /\ ThisFun.objs[run.arg] = run.arg
  BY <1>1, <1>3
<1>5. ThisFun.steps[run.arg] = size[run.arg]
  BY <1>1, <1>4 DEF CutAlike, Cuts, ThisFun
<1>6. QED
  BY <1>4, <1>5, ThisBlockType

\* What is among the buffers of this index is activated.
LEMMA HasIsActivated ==
  ASSUME HInv, NEW oid, Has(run.activating, oid)
  PROVE  Activated(oid)
<1>1. run.activating \in Seq(Buffer)
  BY RunFields DEF BufferList
<1>2. PICK m \in 1 .. Len(run.activating) : run.activating[m].block.oid = oid
  BY DEF Has
<1>3. run.activating[m] \in Range(run.activating)
  BY <1>1 DEF Range
<1>4. QED
  BY <1>2, <1>3 DEF Activated

\* Only the first function has anything to activate.
LEMMA OnlyFirstActivates ==
  ASSUME HInv, Completed, ClientIsKMeans, pc = "activate", ~Activated(ThisBlock.oid)
  PROVE  run.fun = 1
<1>1. SUFFICES ASSUME run.fun # 1 PROVE FALSE
  OBVIOUS
<1>2. /\ run.fun \in 1 .. Len(run_queue) /\ run.arg \in 1 .. Len(ThisFun.objs)
      /\ ThisBlock.oid = ThisFun.objs[run.arg]
  BY ThisBlockType DEF HInv, Position
<1>3. ThisBlock.oid \in {1, 2}
  BY <1>2 DEF ClientIsKMeans, IterationOf, PointsId, LabelsId, ThisFun
<1>4. run_queue # <<>> /\ 1 \in 1 .. Len(run_queue) /\ 1 < run.fun
  BY <1>1, <1>2 DEF HInv, HostTypes
<1>5. run_queue[1].objs = <<1, 2>>
  BY <1>4 DEF ClientIsKMeans, IterationOf, PointsId, LabelsId
<1>6. \A j \in 1 .. Len(run_queue[1].objs) : Has(run.activating, run_queue[1].objs[j])
  BY <1>4 DEF Completed, Before
<1>7. Has(run.activating, 1) /\ Has(run.activating, 2)
  <2>1. /\ 1 \in 1 .. Len(<<1, 2>>) /\ 2 \in 1 .. Len(<<1, 2>>)
        /\ <<1, 2>>[1] = 1 /\ <<1, 2>>[2] = 2
    OBVIOUS
  <2>2. QED
    BY <1>5, <1>6, <2>1
<1>8. QED
  BY <1>3, <1>7, HasIsActivated

\* In the first function get is asked for both objects.
LEMMA FirstIsNew ==
  ASSUME HInv, ClientIsKMeans, InTurn, NEW size, CutAlike(size), pc = "activate",
         run.fun = 1
  PROVE  ~Activated(ThisBlock.oid)
<1>1. run.activating \in Seq(Buffer)
  BY RunFields DEF BufferList
<1>2. SUFFICES ASSUME NEW b \in Range(run.activating), b.block.oid = ThisBlock.oid
               PROVE  FALSE
  BY DEF Activated
<1>3. PICK m \in 1 .. Len(run.activating) : b = run.activating[m]
  BY <1>1, <1>2 DEF Range
<1>4. run.arg = 2 /\ b.block.oid = 1
  BY <1>3 DEF InTurn, PointsId
<1>5. QED
  BY <1>2, <1>4, FirstFunction

\* Where run goes on: to the second object, to the next function, or to the
\* kernels.
LEMMA ObjectDoneGoes ==
  ASSUME HInv, NEW fst, NEW act, NEW bufs, ObjectDone(fst, act, bufs)
  PROVE  /\ run'.index = run.index
         /\ run.arg # Len(ThisFun.objs) =>
              /\ pc' = "activate" /\ run'.arg = 2 /\ run'.fun = run.fun
              /\ run'.fst_event = fst /\ run'.activating = bufs
         /\ run.arg = Len(ThisFun.objs) => pc' = "run" \/ run'.fun = run.fun + 1
<1>1. run \in RunState
  BY DEF HInv, HostTypes
<1>2. CASE run.arg # Len(ThisFun.objs)
  <2>1. /\ run' = [run EXCEPT !.arg = 2, !.fst_event = fst, !.activating = bufs]
        /\ pc' = "activate"
    BY <1>2 DEF ObjectDone
  <2>2. QED
    BY <1>1, <1>2, <2>1 DEF RunState
<1>3. CASE run.arg = Len(ThisFun.objs)
  <2> DEFINE lastFun == run.fun = Len(run_queue)
             waits == IF act = NoEvent THEN run.wait_list ELSE {act}
  <2>1. /\ run' = [run EXCEPT !.arg = 1, !.fst_event = NoEvent,
                      !.activate_event = act, !.activating = bufs,
                      !.fun = IF lastFun THEN 1 ELSE run.fun + 1,
                      !.wait_list = IF lastFun THEN KernelWaits(waits) ELSE waits]
        /\ pc' = IF lastFun THEN "run" ELSE "activate"
    BY <1>3 DEF ObjectDone
  <2>2. run'.index = run.index /\ run'.fun = IF lastFun THEN 1 ELSE run.fun + 1
    BY <1>1, <2>1 DEF RunState
  <2>3. QED
    BY <1>3, <2>1, <2>2
<1>4. QED
  BY <1>2, <1>3

\* get has returned the points.
LEMMA PointsGot ==
  ASSUME HInv, ClientIsKMeans, InTurn, NEW size, CutAlike(size), pc = "activate",
         run.fun = 1, run.arg = 1, NEW s, NEW ev, GotBuffer(s, ev)
  PROVE  /\ Halfway' /\ InTurn' /\ ~Halfway
         /\ run'.index = run.index /\ run'.fst_event = ev
<1>1. Len(ThisFun.objs) = 2 /\ ThisBlock.oid = 1
  BY FirstFunction
<1>2. run.activating = <<>>
  <2>1. run.activating \in Seq(Buffer)
    BY RunFields DEF BufferList
  <2>2. \A m \in 1 .. Len(run.activating) : FALSE
    BY DEF InTurn
  <2>3. QED
    BY <2>1, <2>2
<1>3. PICK b : b = [slot |-> s, block |-> ThisBlock]
  OBVIOUS
<1>4. b.block.oid = 1 /\ Append(run.activating, b) = <<b>>
  BY <1>1, <1>2, <1>3
<1>5. ObjectDone(ev, run.activate_event, <<b>>)
  <2>1. run.arg < Len(ThisFun.objs)
    BY <1>1
  <2>2. ObjectDone(ev, run.activate_event, Append(run.activating, b))
    BY <1>3, <2>1 DEF GotBuffer
  <2>3. QED
    BY <1>4, <2>2
<1>6. /\ pc' = "activate" /\ run'.arg = 2 /\ run'.fst_event = ev
      /\ run'.activating = <<b>> /\ run'.fun = 1 /\ run'.index = run.index
  BY <1>1, <1>5, ObjectDoneGoes
<1>7. InTurn'
  BY <1>4, <1>6 DEF InTurn, PointsId
<1>9. QED
  BY <1>6, <1>7 DEF Halfway

\* get has returned the labels.
LEMMA LabelsGot ==
  ASSUME HInv, ClientIsKMeans, NEW size, CutAlike(size), pc = "activate",
         run.fun = 1, run.arg = 2, NEW s, NEW ev, GotBuffer(s, ev)
  PROVE  Halfway /\ ~Halfway' /\ InTurn'
<1>1. Len(ThisFun.objs) = 2
  BY FirstFunction
<1>2. PICK bufs : ObjectDone(NoEvent, ev, bufs)
  BY <1>1 DEF GotBuffer
<1>3. pc' = "run" \/ run'.fun = 2
  BY <1>1, <1>2, ObjectDoneGoes
<1>4. QED
  BY <1>3 DEF Halfway, InTurn

\* The buffers of a later function were activated by the first.
LEMMA LaterFunctions ==
  ASSUME HInv, pc = "activate", run.fun # 1, NEW fst, NEW act, NEW bufs,
         ObjectDone(fst, act, bufs)
  PROVE  ~Halfway /\ ~Halfway' /\ InTurn'
<1>1. run.fun \in Nat \ {0}
  BY RunFields
<1>2. pc' = "run" \/ run'.fun # 1
  BY <1>1, ObjectDoneGoes
<1>3. QED
  BY <1>2 DEF Halfway, InTurn

\* Nothing else begins or ends the activation of the first function.
LEMMA HalfwayStays ==
  ASSUME RInv, ClientIsKMeans, InTurn, NEW size, CutAlike(size),
         [SchedulerNext]_vars, run_ret' = 1, ~ActivateHit, ~ActivateMiss
  PROVE  /\ InTurn' /\ (Halfway' <=> Halfway)
         /\ Halfway => run'.index = run.index /\ run'.fst_event = run.fst_event
<1>1. CASE StartBatch \/ RegisterOk \/ RegisterFails \/ ActivateFails \/ Finish
            \/ ClientRead \/ ClientEnds
  <2>1. run'.activating = <<>> /\ run'.arg = 1
    BY <1>1, OutsideRun DEF RInv
  <2>2. ~Halfway
    <3>1. ~ActivateFails
      BY <1>1 DEF ActivateFails, Fail
    <3>2. QED
      BY <1>1, <3>1 DEF Halfway, StartBatch, RegisterOk, RegisterFails, Finish, ClientRead,
                        ClientEnds
  <2>3. QED
    BY <2>1, <2>2 DEF Halfway, InTurn
<1>2. CASE ActivateAgain
  <2>1. run.fun # 1
    BY <1>2, FirstIsNew DEF ActivateAgain, RInv
  <2>2. QED
    BY <1>2, <2>1, LaterFunctions DEF ActivateAgain, RInv
<1>3. CASE RunFunction
  <2>1. pc = "run"
    BY <1>3 DEF RunFunction
  <2>2. pc' = "run" \/ (run'.activating = <<>> /\ run'.arg = 1)
    BY <1>3 DEF RunFunction, NotRunning
  <2>3. QED
    BY <2>1, <2>2 DEF Halfway, InTurn
<1>4. CASE Deactivate
  <2>1. pc \in {"deactivate", "drain"} /\ run.activating = <<>>
    BY <1>4 DEF Deactivate, RInv, Window
  <2>2. /\ run'.activating = run.activating /\ run'.arg = run.arg
        /\ pc' = "activate" => pc = "deactivate"
    BY <1>4, UnlockSucceeds DEF Deactivate, RInv, HInv, HostTypes, RunState
  <2>3. pc = "deactivate" => run.arg = 1
    BY DEF RInv, HInv, Position
  <2>4. QED
    BY <2>1, <2>2, <2>3 DEF Halfway, InTurn
<1>5. CASE (\E q \in Queues : DeviceStep(q) \/ IOThreadStep(q)) \/ Done \/ UNCHANGED vars
  <2>1. UNCHANGED <<pc, run>>
    BY <1>5 DEF DeviceStep, IOThreadStep, Done, vars, hostVars
  <2>2. QED
    BY <2>1 DEF Halfway, InTurn
<1>6. QED
  BY <1>1, <1>2, <1>3, <1>4, <1>5 DEF SchedulerNext, HostStep

\* Blocks of one size that begin at the same place are the same.
LEMMA SameNumber ==
  ASSUME NEW i \in Nat, NEW j \in Nat, NEW d \in Nat \ {0}, i * d = j * d
  PROVE  i = j
<1>1. ASSUME NEW x \in Nat, NEW y \in Nat, x < y
      PROVE  x * d < y * d
  <2>1. d * x + d <= d * y
    BY <1>1, ProductsInOrder
  <2>2. d * x = x * d /\ d * y = y * d /\ x * d \in Nat /\ y * d \in Nat
    OBVIOUS
  <2>3. QED
    BY <2>1, <2>2
<1>2. i * d \in Nat /\ j * d \in Nat
  OBVIOUS
<1>3. ~(i < j) /\ ~(j < i)
  BY <1>1, <1>2
<1>4. QED
  BY <1>3

\* A block is in the slot of its parity.
LEMMA SlotOfBlock ==
  ASSUME NEW size \in Sizes, NEW b, NEW s, NEW k \in Nat, b.oid \in Nat \ {0},
         b.bid = k * size[b.oid], InHome(b, s), Alternates(b, s, size)
  PROVE  s = SlotAt(b.oid, k)
<1>1. PICK i \in Nat : b.bid = i * size[b.oid] /\ s % DoubleBuffering = i % NumQueues
  BY DEF Alternates
<1>2. size[b.oid] \in Nat \ {0}
  BY DEF Sizes
<1>3. i = k
  BY <1>1, <1>2, SameNumber
<1>4. PICK o \in Nat \ {0} : o = b.oid
  OBVIOUS
<1>5. s % 2 = k % 2 /\ s \in {(o - 1) * 2, (o - 1) * 2 + 1}
  BY <1>1, <1>3, <1>4 DEF InHome, DoubleBuffering, NumQueues
<1>6. k % 2 \in {0, 1}
  OBVIOUS
<1>7. s = (o - 1) * 2 + (k % 2)
  BY <1>4, <1>5, <1>6
<1>8. QED
  BY <1>4, <1>7 DEF SlotAt, DoubleBuffering, NumQueues

\* Where a block is cached.
CachedAt(c, o, k, size) ==
  \E s \in Slots : s = SlotAt(o, k) /\ c[s].oid = o /\ c[s].bid = k * size[o]

LEMMA WhereCached ==
  ASSUME Homes, NEW size \in Sizes, SlotsAlternate(size),
         NEW o \in {PointsId, LabelsId}, NEW k \in Nat
  PROVE  InCache(o, k * size[o]) <=> CachedAt(cached, o, k, size)
<1>0. o \in Nat \ {0}
  BY DEF PointsId, LabelsId
<1>1. ASSUME NEW s \in Slots, Holds(s, o, k * size[o])
      PROVE  s = SlotAt(o, k)
  <2>1. PICK b : b = cached[s]
    OBVIOUS
  <2>2. b.oid = o /\ b.bid = k * size[o] /\ b # NoBlock
    BY <1>0, <1>1, <2>1 DEF Holds, NoBlock
  <2>3. InHome(b, s) /\ Alternates(b, s, size)
    BY <2>1, <2>2 DEF Homes, SlotsAlternate, InHome
  <2>4. QED
    BY <1>0, <2>2, <2>3, SlotOfBlock
<1>2. QED
  BY <1>1 DEF InCache, Holds, CachedAt

\* So it is after a step.
LEMMA WhereCachedNext ==
  ASSUME Homes', NEW size \in Sizes, SlotsAlternate(size)',
         NEW o \in {PointsId, LabelsId}, NEW k \in Nat
  PROVE  InCache(o, k * size[o])' <=> CachedAt(cached', o, k, size)
<1>0. o \in Nat \ {0}
  BY DEF PointsId, LabelsId
<1>1. ASSUME NEW s \in Slots, cached'[s].oid = o, cached'[s].bid = k * size[o]
      PROVE  s = SlotAt(o, k)
  <2>1. PICK b : b = cached'[s]
    OBVIOUS
  <2>2. b.oid = o /\ b.bid = k * size[o] /\ b # NoBlock
    BY <1>0, <1>1, <2>1 DEF NoBlock
  <2>3. InHome(b, s) /\ Alternates(b, s, size)
    BY <2>1, <2>2 DEF Homes, SlotsAlternate, InHome, NoBlock, Alternates
  <2>4. QED
    BY <1>0, <2>2, <2>3, SlotOfBlock
<1>2. QED
  BY <1>1 DEF InCache, Holds, CachedAt

\* Of the blocks of one parity one is cached.
LEMMA OneOfParity ==
  ASSUME NEW c, NEW o, NEW size \in Sizes, o \in {PointsId, LabelsId},
         NEW i \in Nat, NEW k \in Nat, i % NumQueues = k % NumQueues,
         CachedAt(c, o, i, size)
  PROVE  CachedAt(c, o, k, size) <=> k = i
<1>1. SlotAt(o, k) = SlotAt(o, i)
  BY DEF SlotAt
<1>2. size[o] \in Nat \ {0}
  BY DEF Sizes, PointsId, LabelsId
<1>3. ASSUME CachedAt(c, o, k, size) PROVE k = i
  <2>1. k * size[o] = i * size[o]
    BY <1>1, <1>3 DEF CachedAt
  <2>2. QED
    BY <1>2, <2>1, SameNumber
<1>4. QED
  BY <1>3

\* What a new block in the slot of its index changes.
LEMMA FilledAt ==
  ASSUME NEW c, NEW d, NEW size, NEW s \in Slots, NEW b,
         b.oid \in {PointsId, LabelsId}, NEW i \in Nat, b.bid = i * size[b.oid],
         s = SlotAt(b.oid, i), d[s] = b, \A t \in Slots : t # s => d[t] = c[t]
  PROVE  /\ CachedAt(d, b.oid, i, size)
         /\ \A o \in {PointsId, LabelsId} : \A k \in Nat :
              o # b.oid \/ k % NumQueues # i % NumQueues =>
                (CachedAt(d, o, k, size) <=> CachedAt(c, o, k, size))
<1>1. ASSUME NEW o \in {PointsId, LabelsId}, NEW k \in Nat,
             o # b.oid \/ k % NumQueues # i % NumQueues
      PROVE  SlotAt(o, k) # s
  <2>1. k % 2 \in {0, 1} /\ i % 2 \in {0, 1}
    OBVIOUS
  <2>2. QED
    BY <1>1, <2>1 DEF SlotAt, DoubleBuffering, NumQueues, PointsId, LabelsId
<1>2. QED
  BY <1>1 DEF CachedAt

\* Steps that activate nothing leave what is cached, and run where it was.
LEMMA PairsStay ==
  ASSUME RInv, ClientIsKMeans, InTurn, NEW size, CutAlike(size), CachedInPairs(size),
         [SchedulerNext]_vars, run_ret' = 1, ~ActivateHit, ~ActivateMiss
  PROVE  CachedInPairs(size)'
<1>1. cached' = cached
  BY CacheSteps
<1>2. /\ Halfway' <=> Halfway
      /\ Halfway => run'.index = run.index /\ run'.fst_event = run.fst_event
  BY HalfwayStays
<1>3. \A o, bid : InCache(o, bid)' <=> InCache(o, bid)
  BY <1>1 DEF InCache, Holds
<1>4. \A k \in Nat : PairCached(size, k)' <=> PairCached(size, k)
  BY <1>3 DEF PairCached
<1>5. QED
  BY <1>2, <1>3, <1>4 DEF CachedInPairs

\* Between the points and the labels of an index.
LEMMA PairsHalfway ==
  ASSUME NEW size, \A k \in Nat : k % NumQueues # run.index % NumQueues => PairCached(size, k)',
         Halfway', run'.index = run.index,
         InCache(PointsId, run.index * size[PointsId])',
         run'.fst_event = NoEvent <=> InCache(LabelsId, run.index * size[LabelsId])'
  PROVE  CachedInPairs(size)'
BY DEF CachedInPairs

\* With both of them.
LEMMA PairsComplete ==
  ASSUME Homes', NEW size \in Sizes, SlotsAlternate(size)', ~Halfway', NEW i \in Nat,
         \A k \in Nat : k % NumQueues # i % NumQueues => PairCached(size, k)',
         InCache(PointsId, i * size[PointsId])', InCache(LabelsId, i * size[LabelsId])'
  PROVE  CachedInPairs(size)'
<1>1. CachedAt(cached', PointsId, i, size) /\ CachedAt(cached', LabelsId, i, size)
  BY WhereCachedNext
<1>2. ASSUME NEW k \in Nat, k % NumQueues = i % NumQueues
      PROVE  PairCached(size, k)'
  <2>1. CachedAt(cached', PointsId, k, size) <=> k = i
    BY <1>1, <1>2, OneOfParity
  <2>2. CachedAt(cached', LabelsId, k, size) <=> k = i
    BY <1>1, <1>2, OneOfParity
  <2>3. QED
    BY <2>1, <2>2, WhereCachedNext DEF PairCached
<1>3. QED
  BY <1>2 DEF CachedInPairs

\* A block of the points is found only with its labels.
LEMMA PairsHit ==
  ASSUME RInv, ClientIsKMeans, InTurn, NEW size \in Sizes, CutAlike(size),
         SlotsAlternate(size), SlotsAlternate(size)', Homes', CachedInPairs(size), ActivateHit
  PROVE  /\ InTurn' /\ CachedInPairs(size)'
         /\ Halfway => run.fst_event = NoEvent
<1>1. PICK s \in Slots : /\ GetHit(s, ThisBlock.oid, ThisBlock.bid, ThisBlock.len)
                         /\ GotBuffer(s, NoEvent)
  BY DEF ActivateHit
<1>2. /\ pc = "activate" /\ run.fun = 1 /\ HInv /\ run.index \in Nat
      /\ run.arg \in {1, 2} /\ ThisBlock.oid = run.arg
      /\ ThisBlock.bid = run.index * size[run.arg]
  BY FirstFunction, OnlyFirstActivates, RunFields DEF ActivateHit, RInv
<1>3. cached' = cached /\ Holds(s, run.arg, run.index * size[run.arg])
  BY <1>1, <1>2 DEF GetHit, FoundAt
<1>4. \A o, bid : InCache(o, bid)' <=> InCache(o, bid)
  BY <1>3 DEF InCache, Holds
<1>5. \A k \in Nat : PairCached(size, k)' <=> PairCached(size, k)
  BY <1>4 DEF PairCached
<1>6. InCache(run.arg, run.index * size[run.arg])
  BY <1>3 DEF InCache
<1>7. CASE run.arg = 1
  <2>1. /\ Halfway' /\ InTurn' /\ ~Halfway /\ run'.index = run.index
        /\ run'.fst_event = NoEvent
    BY <1>1, <1>2, <1>7, PointsGot
  <2>2. \A k \in Nat : PairCached(size, k)
    BY <2>1 DEF CachedInPairs
  <2>3. /\ InCache(PointsId, run.index * size[PointsId])
        /\ InCache(LabelsId, run.index * size[LabelsId])
    BY <1>2, <1>6, <1>7, <2>2 DEF PairCached, PointsId
  <2>4. CachedInPairs(size)'
    BY <1>4, <1>5, <2>1, <2>2, <2>3, PairsHalfway
  <2>5. QED
    BY <2>1, <2>4
<1>8. CASE run.arg = 2
  <2>1. Halfway /\ ~Halfway' /\ InTurn'
    BY <1>1, <1>2, <1>8, LabelsGot
  <2>2. /\ InCache(PointsId, run.index * size[PointsId])
        /\ InCache(LabelsId, run.index * size[LabelsId])
        /\ run.fst_event = NoEvent
    BY <1>6, <1>8, <2>1 DEF CachedInPairs, LabelsId
  <2>3. \A k \in Nat : k % NumQueues # run.index % NumQueues => PairCached(size, k)
    BY DEF CachedInPairs
  <2>4. PICK i \in Nat : i = run.index
    BY <1>2
  <2>5. InCache(PointsId, i * size[PointsId])' /\ InCache(LabelsId, i * size[LabelsId])'
    BY <1>4, <2>2, <2>4
  <2>6. CachedInPairs(size)'
    BY <1>5, <2>1, <2>3, <2>4, <2>5, PairsComplete
  <2>7. QED
    BY <2>1, <2>2, <2>6
<1>9. QED
  BY <1>2, <1>7, <1>8

\* A block of the points is loaded only with its labels.
LEMMA PairsMiss ==
  ASSUME RInv, EventsBelow, ClientIsKMeans, InTurn, NEW size \in Sizes, CutAlike(size),
         SlotsAlternate(size), SlotsAlternate(size)', Homes', CachedInPairs(size), ActivateMiss
  PROVE  InTurn' /\ CachedInPairs(size)'
<1>1. PICK s \in Slots : /\ NewFill(s, ThisBlock.oid, ThisBlock.bid, ThisBlock.len)
                         /\ Transfer(s, next_event)
                         /\ cached' = [cached EXCEPT ![s] = ThisBlock]
  BY MissFills DEF RInv
<1>2. /\ pc = "activate" /\ run.fun = 1 /\ HInv /\ run.index \in Nat
      /\ run.arg \in {1, 2} /\ ThisBlock.oid = run.arg
      /\ ThisBlock.bid = run.index * size[run.arg]
      /\ ~Activated(ThisBlock.oid)
  BY FirstFunction, OnlyFirstActivates, RunFields DEF ActivateMiss, RInv
<1>3. PICK b : b = ThisBlock
  OBVIOUS
<1>4. PICK i \in Nat : i = run.index
  BY <1>2
<1>5. s = SlotAt(b.oid, i)
  BY <1>1, <1>2, <1>3, <1>4, Landing
<1>6. /\ b.oid \in {PointsId, LabelsId} /\ b.oid = run.arg /\ b.bid = i * size[b.oid]
      /\ cached \in [Slots -> Block] /\ cached' = [cached EXCEPT ![s] = b]
  BY <1>1, <1>2, <1>3, <1>4 DEF PointsId, LabelsId, HInv, IInv, TypeOK
<1>7. /\ CachedAt(cached', b.oid, i, size)
      /\ \A o \in {PointsId, LabelsId} : \A k \in Nat :
           o # b.oid \/ k % NumQueues # i % NumQueues =>
             (CachedAt(cached', o, k, size) <=> CachedAt(cached, o, k, size))
  <2>1. PICK c, d : c = cached /\ d = cached'
    OBVIOUS
  <2>2. /\ CachedAt(d, b.oid, i, size)
        /\ \A o \in {PointsId, LabelsId} : \A k \in Nat :
             o # b.oid \/ k % NumQueues # i % NumQueues =>
               (CachedAt(d, o, k, size) <=> CachedAt(c, o, k, size))
    <3>1. d[s] = b /\ \A t \in Slots : t # s => d[t] = c[t]
      BY <1>6, <2>1
    <3>2. b.oid \in {PointsId, LabelsId} /\ b.bid = i * size[b.oid] /\ s = SlotAt(b.oid, i)
      BY <1>5, <1>6
    <3>3. QED
      BY <3>1, <3>2, FilledAt
  <2>3. QED
    BY <2>1, <2>2
<1>8. /\ InCache(b.oid, i * size[b.oid])'
      /\ \A o \in {PointsId, LabelsId} : \A k \in Nat :
           o # b.oid \/ k % NumQueues # i % NumQueues =>
             (InCache(o, k * size[o])' <=> InCache(o, k * size[o]))
  <2>1. \A o \in {PointsId, LabelsId} : \A k \in Nat :
          InCache(o, k * size[o])' <=> CachedAt(cached', o, k, size)
    BY WhereCachedNext
  <2>2. \A o \in {PointsId, LabelsId} : \A k \in Nat :
          InCache(o, k * size[o]) <=> CachedAt(cached, o, k, size)
    BY WhereCached DEF RInv
  <2>3. QED
    BY <1>6, <1>7, <2>1, <2>2
<1>9. \A k \in Nat : k % NumQueues # i % NumQueues =>
        (PairCached(size, k)' <=> PairCached(size, k))
  BY <1>8 DEF PairCached
<1>10. \A k \in Nat : k % NumQueues # i % NumQueues => PairCached(size, k)
  BY <1>4 DEF CachedInPairs
<1>11. objects[b.oid].mode # "Transient" /\ GotBuffer(s, next_event + 4)
  <2>1. objects[b.oid].mode # "Transient"
    BY <1>6 DEF ClientIsKMeans, PointsId, LabelsId
  <2>2. QED
    BY <1>1, <1>3, <2>1 DEF Transfer
<1>12. next_event + 4 # NoEvent
  BY DEF EventsBelow, NoEvent, RInv, HInv, HostTypes
<1>13. CASE run.arg = 1
  <2>1. /\ Halfway' /\ InTurn' /\ ~Halfway /\ run'.index = run.index
        /\ run'.fst_event = next_event + 4
    BY <1>2, <1>11, <1>13, PointsGot
  <2>2. PairCached(size, i)
    BY <2>1 DEF CachedInPairs
  <2>3. ~InCache(PointsId, i * size[PointsId])
    BY <1>1, <1>3, <1>6, <1>13 DEF NewFill, PointsId
  <2>4. ~InCache(LabelsId, i * size[LabelsId])'
    BY <1>6, <1>8, <1>13, <2>2, <2>3 DEF PairCached, PointsId, LabelsId
  <2>5. InCache(PointsId, i * size[PointsId])'
    BY <1>6, <1>8, <1>13 DEF PointsId
  <2>6. CachedInPairs(size)'
    BY <1>4, <1>9, <1>10, <1>12, <2>1, <2>4, <2>5, PairsHalfway
  <2>7. QED
    BY <2>1, <2>6
<1>14. CASE run.arg = 2
  <2>1. Halfway /\ ~Halfway' /\ InTurn'
    BY <1>2, <1>11, <1>14, LabelsGot
  <2>2. InCache(PointsId, i * size[PointsId])
    BY <1>4, <2>1 DEF CachedInPairs
  <2>3. InCache(PointsId, i * size[PointsId])'
    BY <1>6, <1>8, <1>14, <2>2 DEF PointsId
  <2>4. InCache(LabelsId, i * size[LabelsId])'
    BY <1>6, <1>8, <1>14 DEF LabelsId
  <2>5. CachedInPairs(size)'
    BY <1>9, <1>10, <2>1, <2>3, <2>4, PairsComplete
  <2>6. QED
    BY <2>1, <2>5
<1>15. QED
  BY <1>2, <1>13, <1>14

\* What has been waited for is waited for when more is enqueued.
LEMMA AwaitedConcat ==
  ASSUME NEW S, NEW c \in Seq(S), NEW d \in Seq(S), NEW t \in Seq(S), NEW u \in Seq(S),
         NEW i \in 1 .. Len(c), Awaited(c, i, t)
  PROVE  Awaited(c \o d, i, t \o u)
<1>1. PICK n \in i .. Len(c), l \in 1 .. Len(t) : c[n].ev \in t[l].waits
  BY DEF Awaited
<1>2. n \in 1 .. Len(c)
  OBVIOUS
<1>3. (c \o d)[n] = c[n] /\ n \in i .. Len(c \o d)
  <2>1. n \in 1 .. Len(c \o d) /\ (c \o d)[n] = c[n] /\ Len(c \o d) \in Nat
    BY <1>2, ConcatElements
  <2>2. QED
    BY <2>1
<1>4. (t \o u)[l] = t[l] /\ l \in 1 .. Len(t \o u)
  BY ConcatElements
<1>5. QED
  BY <1>1, <1>3, <1>4 DEF Awaited

\* What is reached by an event that one of the new tasks waits for is awaited.
LEMMA ReachedConcat ==
  ASSUME NEW S, NEW c \in Seq(S), NEW d \in Seq(S), NEW t \in Seq(S), NEW u \in Seq(S),
         NEW i \in 1 .. Len(c), NEW e, Reaches(c, i, e),
         \E l \in 1 .. Len(u) : e \in u[l].waits
  PROVE  Awaited(c \o d, i, t \o u)
<1>1. PICK n \in i .. Len(c) : c[n].ev = e
  BY DEF Reaches
<1>2. n \in 1 .. Len(c)
  OBVIOUS
<1>3. (c \o d)[n] = c[n] /\ n \in i .. Len(c \o d)
  <2>1. n \in 1 .. Len(c \o d) /\ (c \o d)[n] = c[n] /\ Len(c \o d) \in Nat
    BY <1>2, ConcatElements
  <2>2. QED
    BY <2>1
<1>4. PICK l \in 1 .. Len(u) : e \in u[l].waits
  OBVIOUS
<1>5. (t \o u)[Len(t) + l] = u[l] /\ Len(t) + l \in 1 .. Len(t \o u)
  BY ConcatElements
<1>6. QED
  BY <1>1, <1>3, <1>4, <1>5 DEF Awaited

\* One that is among the new commands is reached as well.
LEMMA NewReached ==
  ASSUME NEW S, NEW c \in Seq(S), NEW d \in Seq(S), NEW m \in 1 .. Len(d)
  PROVE  Reaches(c \o d, Len(c) + m, d[m].ev)
<1>1. /\ Len(c) + m \in 1 .. Len(c \o d) /\ (c \o d)[Len(c) + m] = d[m]
      /\ Len(c \o d) \in Nat
  BY ConcatElements
<1>2. Len(c) + m \in Len(c) + m .. Len(c \o d)
  BY <1>1
<1>3. QED
  BY <1>1, <1>2 DEF Reaches

\* The device has executed the first command.
LEMMA AwaitedTail ==
  ASSUME NEW S, NEW c \in Seq(S), c # <<>>, NEW t, NEW e, NEW i \in 1 .. Len(Tail(c))
  PROVE  /\ i + 1 \in 1 .. Len(c) /\ Tail(c)[i] = c[i + 1]
         /\ Awaited(c, i + 1, t) => Awaited(Tail(c), i, t)
         /\ Reaches(c, i + 1, e) => Reaches(Tail(c), i, e)
<1>1. PICK d : d = Tail(c)
  OBVIOUS
<1>2. /\ Len(c) \in Nat /\ Len(d) \in Nat /\ Len(c) = Len(d) + 1
      /\ \A k \in 1 .. Len(d) : k + 1 \in 1 .. Len(c) /\ d[k] = c[k + 1]
  BY <1>1
<1>3. i \in 1 .. Len(d)
  BY <1>1
<1>4. ASSUME NEW n \in i + 1 .. Len(c)
      PROVE  n - 1 \in i .. Len(d) /\ d[n - 1] = c[n]
  BY <1>2, <1>3
<1>5. Awaited(c, i + 1, t) => Awaited(d, i, t)
  BY <1>4 DEF Awaited
<1>6. Reaches(c, i + 1, e) => Reaches(d, i, e)
  BY <1>4 DEF Reaches
<1>7. QED
  BY <1>1, <1>2, <1>3, <1>5, <1>6

\* The I/O thread has executed its first task, which waits for no command
\* that is left.
LEMMA AwaitedTailIO ==
  ASSUME NEW S, NEW c \in Seq(S), NEW t \in Seq(S), t # <<>>, NEW i \in 1 .. Len(c),
         Awaited(c, i, t), \A n \in 1 .. Len(c) : c[n].ev \notin t[1].waits
  PROVE  Awaited(c, i, Tail(t))
<1>1. PICK u : u = Tail(t)
  OBVIOUS
<1>2. /\ Len(c) \in Nat /\ Len(u) \in Nat /\ Len(t) = Len(u) + 1
      /\ \A k \in 1 .. Len(u) : k + 1 \in 1 .. Len(t) /\ u[k] = t[k + 1]
  BY <1>1
<1>3. PICK n \in i .. Len(c), l \in 1 .. Len(t) : c[n].ev \in t[l].waits
  BY DEF Awaited
<1>4. l # 1
  BY <1>2, <1>3
<1>5. l - 1 \in 1 .. Len(u) /\ u[l - 1] = t[l]
  BY <1>2, <1>4
<1>6. QED
  BY <1>1, <1>3, <1>5 DEF Awaited

\* What is enqueued for an activation, a kernel or the client.
LEMMA PointsEnqueued ==
  ASSUME WorkTypes, PointsAwaited, NEW q \in Queues, NEW cmds \in Seq(MovedWork),
         NEW tasks \in Seq(MovedWork), Enqueue(q, cmds, tasks),
         Halfway => /\ q = ThisQueue
                    /\ \E l \in 1 .. Len(tasks) : run.fst_event \in tasks[l].waits,
         \A m \in 1 .. Len(cmds) : PointsWrite(cmds[m]) =>
            Halfway' /\ q = ThisQueue' /\ cmds[m].ev = run'.fst_event
  PROVE  PointsAwaited'
<1>1. /\ commands' = [commands EXCEPT ![q] = commands[q] \o cmds]
      /\ io' = [io EXCEPT ![q] = io[q] \o tasks]
  BY DEF Enqueue
<1>2. \A p \in Queues : commands[p] \in Seq(MovedWork) /\ io[p] \in Seq(MovedWork)
  BY DEF WorkTypes
<1>3. /\ commands'[q] = commands[q] \o cmds /\ io'[q] = io[q] \o tasks
      /\ \A p \in Queues : p # q => commands'[p] = commands[p] /\ io'[p] = io[p]
  BY <1>1 DEF WorkTypes
<1>4. ASSUME NEW p \in Queues, NEW i \in 1 .. Len(commands'[p]), PointsWrite(commands'[p][i])
      PROVE  \/ Awaited(commands'[p], i, io'[p])
             \/ Halfway' /\ p = ThisQueue' /\ Reaches(commands'[p], i, run'.fst_event)
  <2>1. CASE p # q
    <3>1. /\ commands'[p] = commands[p] /\ io'[p] = io[p]
          /\ ~(Halfway /\ p = ThisQueue)
      BY <1>3, <2>1
    <3>2. Awaited(commands[p], i, io[p])
      BY <1>4, <3>1 DEF PointsAwaited
    <3>3. QED
      BY <3>1, <3>2
  <2>2. CASE p = q /\ i \in 1 .. Len(commands[q])
    <3>1. (commands[q] \o cmds)[i] = commands[q][i]
      BY <1>2, <2>2, ConcatElements
    <3>2. \/ Awaited(commands[q], i, io[q])
          \/ Halfway /\ Reaches(commands[q], i, run.fst_event)
      BY <1>3, <1>4, <2>2, <3>1 DEF PointsAwaited
    <3>3. Awaited(commands[q] \o cmds, i, io[q] \o tasks)
      BY <1>2, <2>2, <3>2, AwaitedConcat, ReachedConcat
    <3>4. QED
      BY <1>3, <2>2, <3>3
  <2>3. CASE p = q /\ \E m \in 1 .. Len(cmds) : i = Len(commands[q]) + m
    <3>1. PICK m \in 1 .. Len(cmds) : i = Len(commands[q]) + m
      BY <2>3
    <3>2. (commands[q] \o cmds)[i] = cmds[m]
      BY <1>2, <3>1, ConcatElements
    <3>3. Halfway' /\ q = ThisQueue' /\ cmds[m].ev = run'.fst_event
      BY <1>3, <1>4, <2>3, <3>2
    <3>4. Reaches(commands[q] \o cmds, i, cmds[m].ev)
      BY <1>2, <3>1, NewReached
    <3>5. QED
      BY <1>3, <2>3, <3>3, <3>4
  <2>4. p = q => \/ i \in 1 .. Len(commands[q])
                \/ \E m \in 1 .. Len(cmds) : i = Len(commands[q]) + m
    <3>1. p = q => i \in 1 .. Len(commands[q] \o cmds)
      BY <1>3
    <3>2. QED
      BY <1>2, <3>1, ConcatElements
  <2>5. QED
    BY <2>1, <2>2, <2>3, <2>4
<1>5. QED
  BY <1>4 DEF PointsAwaited, PointsWrite, Awaited, Reaches

\* The device and the I/O threads.
LEMMA PointsDone ==
  ASSUME WorkTypes, PointsAwaited, NEW q \in Queues, DeviceStep(q) \/ IOThreadStep(q)
  PROVE  PointsAwaited'
<1>1. /\ \A p \in Queues : commands[p] \in Seq(MovedWork) /\ io[p] \in Seq(MovedWork)
      /\ commands \in [Queues -> Seq(MovedWork)] /\ io \in [Queues -> Seq(MovedWork)]
  BY DEF WorkTypes
<1>2. (Halfway' <=> Halfway) /\ ThisQueue' = ThisQueue /\ run' = run
  <2>1. pc' = pc /\ run' = run
    BY DEF DeviceStep, IOThreadStep, hostVars
  <2>2. QED
    BY <2>1 DEF Halfway, ThisQueue
<1>3. ASSUME NEW p \in Queues, NEW i \in 1 .. Len(commands'[p]), PointsWrite(commands'[p][i])
      PROVE  \/ Awaited(commands'[p], i, io'[p])
             \/ Halfway /\ p = ThisQueue /\ Reaches(commands'[p], i, run.fst_event)
  <2>1. CASE UNCHANGED <<commands[p], io[p]>>
    BY <1>3, <2>1 DEF PointsAwaited
  <2>2. CASE p = q /\ DeviceStep(q)
    <3>1. /\ commands[q] # <<>> /\ commands'[q] = Tail(commands[q]) /\ io' = io
      BY <1>1, <2>2 DEF DeviceStep
    <3>2. /\ i + 1 \in 1 .. Len(commands[q]) /\ commands'[q][i] = commands[q][i + 1]
          /\ Awaited(commands[q], i + 1, io[q]) => Awaited(commands'[q], i, io[q])
          /\ Reaches(commands[q], i + 1, run.fst_event) =>
               Reaches(commands'[q], i, run.fst_event)
      BY <1>1, <1>3, <2>2, <3>1, AwaitedTail
    <3>3. \/ Awaited(commands[q], i + 1, io[q])
          \/ Halfway /\ q = ThisQueue /\ Reaches(commands[q], i + 1, run.fst_event)
      BY <1>3, <2>2, <3>2 DEF PointsAwaited
    <3>4. QED
      BY <2>2, <3>1, <3>2, <3>3
  <2>3. CASE p = q /\ IOThreadStep(q)
    <3>1. /\ io[q] # <<>> /\ Ready(Head(io[q])) /\ io'[q] = Tail(io[q])
          /\ commands' = commands
      BY <1>1, <2>3 DEF IOThreadStep
    <3>2. PICK w \in Workers : w = <<q, "device">>
      BY DEF Workers
    <3>3. \A n \in 1 .. Len(commands[q]) : commands[q][n].ev \in Outstanding
      BY <3>2, WorkOutstanding DEF Backlog
    <3>4. \A n \in 1 .. Len(commands[q]) : commands[q][n].ev \notin io[q][1].waits
      BY <1>1, <3>1, <3>3 DEF Ready
    <3>5. Awaited(commands[q], i, io[q]) => Awaited(commands[q], i, Tail(io[q]))
      BY <1>1, <1>3, <2>3, <3>1, <3>4, AwaitedTailIO
    <3>6. QED
      BY <1>3, <2>3, <3>1, <3>5 DEF PointsAwaited
  <2>4. QED
    <3>1. DeviceStep(q) => io' = io /\ (p # q => commands'[p] = commands[p])
      BY <1>1 DEF DeviceStep
    <3>2. IOThreadStep(q) => commands' = commands /\ (p # q => io'[p] = io[p])
      BY <1>1 DEF IOThreadStep
    <3>3. QED
      BY <2>1, <2>2, <2>3, <3>1, <3>2
<1>4. QED
  BY <1>2, <1>3 DEF PointsAwaited, PointsWrite, Awaited, Reaches

\* write_and_get writes one block to the device; its load waits for what get is
\* given to wait for.
LEMMA FillWrites ==
  ASSUME NEW s, NEW block, NEW waits, NEW n
  PROVE  /\ LET c == FillCommands(s, block, waits, n)
            IN  \A m \in 1 .. Len(c) : c[m].kind = "write" =>
                  c[m].block = block /\ c[m].ev = n + 4
         /\ LET t == FillTasks(s, block, waits, n)
            IN  \E l \in 1 .. Len(t) : waits \subseteq t[l].waits
<1>1. PICK c, t : /\ c = FillCommands(s, block, waits, n)
                  /\ t = FillTasks(s, block, waits, n)
  OBVIOUS
<1>2. CASE WritesBack(s)
  <2>1. /\ Len(c) = 3 /\ c[1] = Op("read", s, cached[s], waits, n)
        /\ c[2] = Op("barrier", s, cached[s], {n + 1}, n + 2)
        /\ c[3] = Op("write", s, block, {n + 3}, n + 4)
        /\ Len(t) = 2 /\ t[2] = Op("load", s, block, waits \cup {n + 2}, n + 3)
    <3>1. c = EvictCommands(s, block, waits, n) /\ t = EvictTasks(s, block, waits, n)
      BY <1>1, <1>2, FillShape
    <3>2. QED
      BY <3>1 DEF EvictCommands, EvictTasks
  <2>2. /\ c[1].kind = "read" /\ c[2].kind = "barrier" /\ c[3].block = block
        /\ c[3].ev = n + 4 /\ t[2].waits = waits \cup {n + 2}
    BY <2>1, OpFields
  <2>3. Len(c) = 3 /\ Len(t) = 2
    BY <2>1
  <2> HIDE <2>1
  <2>4. ASSUME NEW m \in 1 .. Len(c), c[m].kind = "write"
        PROVE  c[m].block = block /\ c[m].ev = n + 4
    <3>1. m = 1 \/ m = 2 \/ m = 3
      BY <2>3
    <3>2. QED
      BY <2>2, <2>4, <3>1
  <2>5. 2 \in 1 .. Len(t) /\ waits \subseteq t[2].waits
    BY <2>2, <2>3
  <2>6. QED
    BY <1>1, <2>4, <2>5
<1>3. CASE ~WritesBack(s)
  <2>1. /\ Len(c) = 1 /\ c[1] = Op("write", s, block, {n + 3}, n + 4)
        /\ Len(t) = 1 /\ t[1] = Op("load", s, block, waits, n + 3)
    <3>1. c = LoadCommands(s, block, n) /\ t = LoadTasks(s, block, waits, n)
      BY <1>1, <1>3, FillShape
    <3>2. QED
      BY <3>1 DEF LoadCommands, LoadTasks
  <2>2. c[1].block = block /\ c[1].ev = n + 4 /\ t[1].waits = waits
    BY <2>1, OpFields
  <2>3. Len(c) = 1 /\ Len(t) = 1
    BY <2>1
  <2> HIDE <2>1
  <2>4. \A m \in 1 .. Len(c) : c[m].block = block /\ c[m].ev = n + 4
    BY <2>2, <2>3
  <2>5. 1 \in 1 .. Len(t) /\ waits \subseteq t[1].waits
    BY <2>2, <2>3
  <2>6. QED
    BY <1>1, <2>4, <2>5
<1>4. QED
  BY <1>2, <1>3

\* The transfer of the points is not awaited yet, but its event is fst_event;
\* the load of the labels waits for it.
LEMMA PointsMiss ==
  ASSUME GInv, RInv, ClientIsKMeans, InTurn, NEW size, CutAlike(size), PointsAwaited,
         ActivateMiss
  PROVE  PointsAwaited'
<1>1. PICK s \in Slots : /\ Transfer(s, next_event) /\ cached[s] \in Block
                         /\ ThisBlock \in Block /\ InObject(ThisBlock)
  BY MissFills DEF RInv
<1>2. /\ pc = "activate" /\ run.fun = 1 /\ HInv /\ WorkTypes /\ BlocksExist
      /\ run.arg \in {1, 2} /\ ThisBlock.oid = run.arg /\ next_event \in Nat
  BY FirstFunction, OnlyFirstActivates DEF ActivateMiss, RInv, GInv, HInv, HostTypes
<1>3. PICK b, n, waits : b = ThisBlock /\ n = next_event /\ waits = ActivateWaits
  OBVIOUS
<1>4. objects[b.oid].mode # "Transient"
  BY <1>2, <1>3 DEF ClientIsKMeans, PointsId, LabelsId
<1>5. PICK cmds, tasks : /\ cmds = FillCommands(s, b, waits, n)
                         /\ tasks = FillTasks(s, b, waits, n)
  OBVIOUS
<1>6. Enqueue(ThisQueue, cmds, tasks) /\ GotBuffer(s, n + 4)
  BY <1>1, <1>3, <1>4, <1>5 DEF Transfer
<1>7. cmds \in Seq(MovedWork) /\ tasks \in Seq(MovedWork)
  <2>1. waits \in SUBSET Nat
    BY <1>2, <1>3, RunFields DEF ActivateWaits
  <2>2. QED
    BY <1>1, <1>2, <1>3, <1>5, <2>1, EvictedInObject, FillMoved
<1>8. /\ \A m \in 1 .. Len(cmds) : cmds[m].kind = "write" =>
           cmds[m].block = b /\ cmds[m].ev = n + 4
      /\ \E l \in 1 .. Len(tasks) : waits \subseteq tasks[l].waits
  BY <1>5, FillWrites
<1>9. ThisQueue \in Queues
  BY <1>2, ThisQueueType
<1>10. CASE run.arg = 1
  <2>1. /\ Halfway' /\ ~Halfway /\ run'.index = run.index /\ run'.fst_event = n + 4
    BY <1>2, <1>6, <1>10, PointsGot
  <2>2. ThisQueue' = ThisQueue
    BY <2>1 DEF ThisQueue
  <2>3. \A m \in 1 .. Len(cmds) : PointsWrite(cmds[m]) =>
          Halfway' /\ ThisQueue = ThisQueue' /\ cmds[m].ev = run'.fst_event
    BY <1>8, <2>1, <2>2 DEF PointsWrite
  <2>4. QED
    BY <1>2, <1>6, <1>7, <1>9, <2>1, <2>3, PointsEnqueued
<1>11. CASE run.arg = 2
  <2>1. waits = {run.fst_event}
    BY <1>3, <1>11 DEF ActivateWaits
  <2>2. \E l \in 1 .. Len(tasks) : run.fst_event \in tasks[l].waits
    BY <1>8, <2>1
  <2>3. \A m \in 1 .. Len(cmds) : ~PointsWrite(cmds[m])
    BY <1>2, <1>3, <1>8, <1>11 DEF PointsWrite, PointsId
  <2>4. QED
    BY <1>2, <1>6, <1>7, <1>9, <2>2, <2>3, PointsEnqueued
<1>12. QED
  BY <1>2, <1>10, <1>11

\* A kernel writes no block to the device.
LEMMA PointsKernel ==
  ASSUME GInv, RInv, PointsAwaited, RunFunction
  PROVE  PointsAwaited'
<1>1. PICK op : op = Kernel(run.wait_list, next_event)
  OBVIOUS
<1>2. pc = "run" /\ Enqueue(ThisQueue, <<op>>, <<>>) /\ HInv /\ Completed /\ WorkTypes
  BY <1>1 DEF RunFunction, RInv, GInv
<1>3. op \in MovedWork /\ op.kind = "kernel"
  BY <1>1, <1>2, KernelType DEF MovedWork, Work, Kernels
<1>4. ThisQueue \in Queues
  BY <1>2, ThisQueueType
<1>5. <<op>> \in Seq(MovedWork) /\ <<>> \in Seq(MovedWork)
  BY <1>3
<1>6. \A m \in 1 .. Len(<<op>>) : ~PointsWrite(<<op>>[m])
  BY <1>3 DEF PointsWrite
<1>7. ~Halfway
  BY <1>2 DEF Halfway
<1>8. QED
  BY <1>2, <1>4, <1>5, <1>6, <1>7, PointsEnqueued

\* Nor does the client when it reads.
LEMMA PointsRead ==
  ASSUME GInv, RInv, PointsAwaited, ClientRead
  PROVE  PointsAwaited'
<1>1. PICK b : b = Head(program.reads)
  OBVIOUS
<1>2. b \in Block /\ WorkTypes /\ BlocksExist /\ next_event \in Nat
  <2>1. program.reads \in Seq(Block) /\ program.reads # <<>>
    BY DEF ClientRead, RInv, HInv, HostTypes
  <2>2. b \in Block
    BY <1>1, <2>1
  <2>3. QED
    BY <2>2 DEF GInv, RInv, HInv, HostTypes
<1>3. ClientQueue \in Queues /\ ~Halfway
  BY DEF ClientQueue, Queues, NumQueues, ClientRead, Halfway
<1>4. ASSUME NEW s \in Slots, ReadBack(s, b.oid, b.bid, b.len),
             Enqueue(ClientQueue, ReadCommands(s, b, {}, next_event),
                     ReadTasks(s, b, next_event))
      PROVE  PointsAwaited'
  <2>1. cached[s].oid = b.oid /\ cached[s].bid = b.bid /\ b.oid \in Oids
    BY <1>4 DEF ReadBack, FoundAt, Holds, Accepted, ValidPtr
  <2>2. cached[s] # NoBlock
    BY <2>1 DEF NoBlock, Oids
  <2>3. InObject(b)
    BY <1>2, <2>1, <2>2 DEF BlocksExist, InObject
  <2>4. PICK cmds, tasks : /\ cmds = ReadCommands(s, b, {}, next_event)
                           /\ tasks = ReadTasks(s, b, next_event)
    OBVIOUS
  <2>5. cmds \in Seq(MovedWork) /\ tasks \in Seq(MovedWork)
    BY <1>2, <2>3, <2>4, ReadMoved
  <2>6. \A m \in 1 .. Len(cmds) : cmds[m].kind \in {"read", "barrier"}
    BY <2>4 DEF ReadCommands, Op
  <2>7. \A m \in 1 .. Len(cmds) : ~PointsWrite(cmds[m])
    BY <2>6 DEF PointsWrite
  <2>8. Enqueue(ClientQueue, cmds, tasks)
    BY <1>4, <2>4
  <2>9. QED
    BY <1>2, <1>3, <2>5, <2>7, <2>8, PointsEnqueued
<1>5. CASE UNCHANGED queueVars
  <2>1. commands' = commands /\ io' = io
    BY <1>5 DEF queueVars
  <2>2. \A q \in Queues : \A i \in 1 .. Len(commands[q]) :
          PointsWrite(commands[q][i]) => Awaited(commands[q], i, io[q])
    BY <1>3 DEF PointsAwaited
  <2>3. QED
    BY <2>1, <2>2 DEF PointsAwaited, PointsWrite, Awaited
<1>6. QED
  BY <1>1, <1>4, <1>5 DEF ClientRead

\* Steps that enqueue nothing.
LEMMA PointsStay ==
  ASSUME GInv, PointsAwaited, UNCHANGED queueVars,
         \/ /\ Halfway' <=> Halfway
            /\ Halfway => run'.index = run.index /\ run'.fst_event = run.fst_event
         \/ Halfway => run.fst_event = NoEvent
  PROVE  PointsAwaited'
<1>1. commands' = commands /\ io' = io
  BY DEF queueVars
<1>2. CASE /\ Halfway' <=> Halfway
           /\ Halfway => run'.index = run.index /\ run'.fst_event = run.fst_event
  BY <1>1, <1>2 DEF PointsAwaited, PointsWrite, Awaited, Reaches, ThisQueue
<1>3. CASE Halfway => run.fst_event = NoEvent
  <2>1. ASSUME NEW q \in Queues, NEW i \in 1 .. Len(commands[q])
        PROVE  ~Reaches(commands[q], i, NoEvent)
    <3>1. PICK w \in Workers : w = <<q, "device">>
      BY DEF Workers
    <3>2. \A k \in 1 .. Len(commands[q]) : commands[q][k].ev \in 1 .. next_event - 1
      BY <3>1 DEF GInv, EventsBelow, Backlog
    <3>3. \A k \in 1 .. Len(commands[q]) : commands[q][k].ev # 0
      BY <3>2
    <3>4. QED
      BY <3>3 DEF Reaches, NoEvent
  <2>2. \A q \in Queues : \A i \in 1 .. Len(commands[q]) :
          PointsWrite(commands[q][i]) => Awaited(commands[q], i, io[q])
    BY <1>3, <2>1 DEF PointsAwaited
  <2>3. QED
    BY <1>1, <2>2 DEF PointsAwaited, PointsWrite, Awaited
<1>4. QED
  BY <1>2, <1>3

-----------------------------------------------------------------------------
\* When get loads a block of the points, every earlier transfer of points is
\* awaited by the load of its labels.
LEMMA ReloadsAreAwaited ==
  ASSUME HInv, Completed, NEW size, CutAlike(size), KMInv(size)
  PROVE  ReloadsAwaited({})
<1> SUFFICES ASSUME pc = "activate", ~Activated(ThisBlock.oid),
                    ThisBlock.oid \in Oids \ {}, objects[ThisBlock.oid].mode = "ReadOnly",
                    NEW i \in 1 .. Len(commands[ThisQueue]),
                    commands[ThisQueue][i].kind = "write",
                    commands[ThisQueue][i].block.oid = ThisBlock.oid
             PROVE  Awaited(commands[ThisQueue], i, io[ThisQueue])
  BY DEF ReloadsAwaited
<1>1. ClientIsKMeans /\ PointsAwaited
  BY DEF KMInv
<1>2. run.fun = 1
  BY <1>1, OnlyFirstActivates
<1>3. ThisBlock.oid = run.arg /\ run.arg \in {1, 2}
  BY <1>1, <1>2, FirstFunction
<1>4. run.arg = 1 /\ ThisBlock.oid = PointsId
  BY <1>1, <1>3 DEF ClientIsKMeans, PointsId, LabelsId
<1>5. ~Halfway
  BY <1>4 DEF Halfway
<1>6. PointsWrite(commands[ThisQueue][i])
  BY <1>4 DEF PointsWrite
<1>7. ThisQueue \in Queues
  BY ThisQueueType
<1>8. QED
  BY <1>1, <1>5, <1>6, <1>7 DEF PointsAwaited

\* get transfers the labels only after it has transferred the points.
LEMMA NeverHalfCached ==
  ASSUME HInv, Completed, NEW size, CutAlike(size), KMInv(size)
  PROVE  ~HalfCached
<1> SUFFICES ASSUME HalfCached PROVE FALSE
  OBVIOUS
<1>1. ClientIsKMeans /\ CachedInPairs(size)
  BY DEF KMInv
<1>2. pc = "activate" /\ run.arg # 1 /\ run.fst_event = NoEvent /\ ~Activated(ThisBlock.oid)
  BY DEF HalfCached
<1>3. run.fun = 1
  BY <1>1, <1>2, OnlyFirstActivates
<1>4. /\ run.arg \in {1, 2} /\ ThisBlock.oid = run.arg
      /\ ThisBlock.bid = run.index * size[run.arg]
  BY <1>1, <1>2, <1>3, FirstFunction
<1>5. Halfway
  BY <1>2, <1>3, <1>4 DEF Halfway
<1>6. InCache(ThisBlock.oid, ThisBlock.bid)
  BY <1>1, <1>2, <1>4, <1>5 DEF CachedInPairs, LabelsId
<1>7. QED
  BY <1>6 DEF HalfCached

\* An iteration keeps the transfers of the points in order with the loads that
\* come after them.
LEMMA KMNext ==
  ASSUME GInv, RInv, NEW size \in Sizes, RaceInv(size, {}), KMInv(size),
         [SchedulerNext]_vars, run_ret' = 1
  PROVE  RaceInv(size, {})' /\ KMInv(size)'
<1>1. /\ HInv /\ Completed /\ EventsBelow /\ WorkTypes
      /\ CutAlike(size) /\ SlotsAlternate(size)
  BY DEF GInv, RaceInv
<1>2. ClientIsKMeans /\ InTurn /\ CachedInPairs(size) /\ PointsAwaited
  BY DEF KMInv
<1>3. RaceInv(size, {})'
  <2>1. ReloadsAwaited({})
    BY <1>1, ReloadsAreAwaited
  <2>2. QED
    BY <2>1, RaceStep
<1>4. Homes' /\ SlotsAlternate(size)'
  <2>1. RInv'
    BY RNext
  <2>2. QED
    BY <1>3, <2>1 DEF RInv, RaceInv
<1>5. ClientIsKMeans'
  BY <1>2, KMeansStays
<1>6. CASE ActivateHit
  <2>1. /\ InTurn' /\ CachedInPairs(size)'
        /\ Halfway => run.fst_event = NoEvent
    BY <1>1, <1>2, <1>4, <1>6, PairsHit
  <2>2. UNCHANGED queueVars
    BY <1>6 DEF ActivateHit
  <2>3. PointsAwaited'
    BY <1>2, <2>1, <2>2, PointsStay
  <2>4. QED
    BY <1>3, <1>5, <2>1, <2>3 DEF KMInv
<1>7. CASE ActivateMiss
  <2>1. InTurn' /\ CachedInPairs(size)'
    BY <1>1, <1>2, <1>4, <1>7, PairsMiss
  <2>2. PointsAwaited'
    BY <1>1, <1>2, <1>7, PointsMiss
  <2>3. QED
    BY <1>3, <1>5, <2>1, <2>2 DEF KMInv
<1>8. CASE ~ActivateHit /\ ~ActivateMiss
  <2>1. CachedInPairs(size)'
    BY <1>1, <1>2, <1>8, PairsStay
  <2>2. /\ InTurn' /\ (Halfway' <=> Halfway)
        /\ Halfway => run'.index = run.index /\ run'.fst_event = run.fst_event
    BY <1>1, <1>2, <1>8, HalfwayStays
  <2>3. PointsAwaited'
    <3>1. CASE RunFunction
      BY <1>2, <3>1, PointsKernel
    <3>2. CASE ClientRead
      BY <1>2, <3>2, PointsRead
    <3>3. CASE \E q \in Queues : DeviceStep(q) \/ IOThreadStep(q)
      BY <1>1, <1>2, <3>3, PointsDone
    <3>4. CASE \/ StartBatch \/ RegisterOk \/ ActivateAgain \/ Deactivate \/ Finish
               \/ ClientEnds \/ Done \/ UNCHANGED vars
      <4>1. UNCHANGED queueVars
        BY <3>4 DEF StartBatch, RegisterOk, ActivateAgain, Deactivate, Finish, ClientEnds,
                    Done, vars
      <4>2. QED
        BY <1>2, <2>2, <4>1, PointsStay
    <3>5. ~(RegisterFails \/ ActivateFails)
      BY DEF RegisterFails, ActivateFails, Fail
    <3>6. QED
      BY <1>8, <3>1, <3>2, <3>3, <3>4, <3>5 DEF SchedulerNext, HostStep
  <2>4. QED
    BY <1>3, <1>5, <2>1, <2>2, <2>3 DEF KMInv
<1>9. QED
  BY <1>6, <1>7, <1>8

KMOK == \E size \in Sizes : RaceInv(size, {}) /\ KMInv(size)

\* Before the first iteration neither points nor labels are cached.
LEMMA KMInit ==
  ASSUME SchedulerInit, \A p \in Programs : SameSteps(p), KMeansClient(program)
  PROVE  KMOK
<1>1. /\ program \in Programs /\ run_queue = <<>> /\ pc = "idle"
      /\ objects = program.objects
      /\ commands = [q \in Queues |-> <<>>] /\ io = [q \in Queues |-> <<>>]
      /\ cached = [s \in Slots |-> NoBlock]
  BY DEF SchedulerInit, CacheEmpty
<1>2. PICK size \in Sizes, oids \in SUBSET Nat : RaceInv(size, oids)
  BY RaceInit DEF RaceOK
<1>3. StagingInOrder({})
  <2> SUFFICES ASSUME NEW q \in Queues PROVE InOrder(commands[q], io[q], {})
    BY DEF StagingInOrder
  <2>1. commands[q] = <<>>
    BY <1>1
  <2>2. QED
    BY <2>1 DEF InOrder
<1>4. RaceInv(size, {})
  BY <1>2, <1>3 DEF RaceInv
<1>5. ClientIsKMeans
  <2>1. IterationOf(run_queue)
    BY <1>1 DEF IterationOf
  <2>2. QED
    BY <1>1, <2>1 DEF KMeansClient, ClientIsKMeans
<1>6. InTurn /\ ~Halfway
  BY <1>1 DEF InTurn, Halfway
<1>7. \A o \in {PointsId, LabelsId} : \A bid : ~InCache(o, bid)
  BY <1>1 DEF InCache, Holds, NoBlock, PointsId, LabelsId
<1>8. CachedInPairs(size)
  BY <1>6, <1>7 DEF CachedInPairs, PairCached
<1>9. PointsAwaited
  BY <1>1 DEF PointsAwaited
<1>10. QED
  BY <1>4, <1>5, <1>6, <1>8, <1>9 DEF KMOK, KMInv

KMeansRuns == GInv /\ RunsInv /\ KMOK

\* So it is after any number of iterations.
LEMMA KMeansRunsInv ==
  ASSUME \A p \in Programs : FitsPool(p) /\ SameSteps(p) /\ KMeansClient(p)
  PROVE  SchedulerSpec => []KMeansRuns
<1>1. SchedulerInit => KMeansRuns
  BY GInit, RInit, FitInit, KMInit DEF KMeansRuns, RunsInv, SchedulerInit
<1>2. KMeansRuns /\ [SchedulerNext]_vars => KMeansRuns'
  <2> SUFFICES ASSUME KMeansRuns, [SchedulerNext]_vars PROVE KMeansRuns'
    OBVIOUS
  <2>1. GInv /\ RInv /\ RunsInv
    BY DEF KMeansRuns, RunsInv
  <2>2. RunsInv' /\ run_ret' = 1
    BY <2>1, RunsNext DEF RunsInv
  <2>3. PICK size \in Sizes : RaceInv(size, {}) /\ KMInv(size)
    BY DEF KMeansRuns, KMOK
  <2>4. RaceInv(size, {})' /\ KMInv(size)'
    BY <2>1, <2>2, <2>3, KMNext
  <2>5. GInv'
    BY <2>1, GNext
  <2>6. QED
    BY <2>2, <2>4, <2>5 DEF KMeansRuns, KMOK
<1>3. QED
  BY <1>1, <1>2, PTL DEF SchedulerSpec

\* The iterations of the k-means clients meet no race, whatever the cache
\* holds: the device never writes the points of a block from the pinned buffer
\* that the I/O thread already loads the next one into, because the load of the
\* labels between them waits for that transfer.
THEOREM KMeansNeverRaces ==
  ASSUME \A p \in Programs : FitsPool(p) /\ SameSteps(p) /\ KMeansClient(p)
  PROVE  SchedulerSpec => []NoRace
<1>1. KMeansRuns => NoRace
  <2> SUFFICES ASSUME KMeansRuns, NEW a \in Running, NEW b \in Running, a.ev # b.ev,
                      Conflict(a, b)
               PROVE  FALSE
    BY DEF NoRace
  <2>1. GInv /\ RInv
    BY DEF KMeansRuns, RunsInv
  <2>2. PICK size \in Sizes : RaceInv(size, {})
    BY DEF KMeansRuns, KMOK
  <2>3. a.block.oid \in {} \/ b.block.oid \in {}
    BY <2>1, <2>2, RaceCases
  <2>4. QED
    BY <2>3
<1>2. QED
  BY <1>1, KMeansRunsInv, PTL

\* Nor does the k-means client's get ever pass on the empty event of a hit to a
\* transfer: when the points are cached the labels are, too.
THEOREM KMeansNeverWaitsEmpty ==
  ASSUME \A p \in Programs : FitsPool(p) /\ SameSteps(p) /\ KMeansClient(p)
  PROVE  SchedulerSpec => []NoEmptyWait
<1>1. KMeansRuns => ~HalfCached
  <2> SUFFICES ASSUME KMeansRuns PROVE ~HalfCached
    OBVIOUS
  <2>1. HInv /\ Completed
    BY DEF KMeansRuns, GInv
  <2>2. PICK size \in Sizes : RaceInv(size, {}) /\ KMInv(size)
    BY DEF KMeansRuns, KMOK
  <2>3. CutAlike(size)
    BY <2>2 DEF RaceInv
  <2>4. QED
    BY <2>1, <2>2, <2>3, NeverHalfCached
<1>2. QED
  BY <1>1, KMeansRunsInv, EmptyWaitsAreHalfCached, PTL

\* A client of mutable and transient objects meets no race either, when its
\* objects fit into the pool.
THEOREM FittingMutableNeverRace ==
  ASSUME \A p \in Programs : FitsPool(p) /\ SameSteps(p) /\ AllMutable(p)
  PROVE  SchedulerSpec => []NoRace
<1>1. SchedulerSpec => [](run_ret = 1)
  BY RunsSucceed
<1>2. SchedulerSpec /\ [](run_ret = 1) => []NoRace
  BY MutableObjectsNeverRace
<1>3. QED
  BY <1>1, <1>2, PTL

=============================================================================
