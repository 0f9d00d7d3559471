--------------------------- MODULE IOThreadProofs ---------------------------
(***************************************************************************)
(* Safety of IOThread for every script of tasks and every set of events:   *)
(* the fields keep their types, and the flag never makes a thread wait.    *)
(* Both follow from who has the mutex where: a thread between the return   *)
(* of its lock or wait and its next unlock or wait has it, and the flag is *)
(* set only in between.                                                    *)
(***************************************************************************)
EXTENDS IOThread, SequenceTheorems, TLAPS

HostLabels ==
  {"idle", "enter", "check", "wait", "woken", "claimed", "notify", "leave",
   "joining", "joined"}
WorkerLabels ==
  {"enter", "check", "wait", "woken", "claimed", "notify", "leave", "waiting",
   "ended"}
Labels == HostLabels \cup WorkerLabels

Inside == {"check", "claimed", "notify", "leave"}

\* A thread is inside its critical section iff it has the mutex.
MutexInv == \A t \in Threads : pc[t] \in Inside <=> mutex = t

\* The flag is set by the thread that has claimed the list.
FlagInv == queue_locked => \E t \in Threads : pc[t] \in {"claimed", "notify"}

\* What the host has appended: PushReturns counts it late.
Appended == pushed + (IF pc["host"] \in {"notify", "leave"} THEN 1 ELSE 0)

Types ==
  /\ pc \in [Threads -> Labels]
  /\ pc["host"] \in HostLabels
  /\ pc["worker"] \in WorkerLabels
  /\ mutex \in Threads \cup {"none"}
  /\ queue_locked \in BOOLEAN
  /\ tasks \in Seq(Tasks \cup {Null})
  /\ task \in Tasks \cup {Null}
  /\ pushed \in Nat

\* The host pushes the script and one null task, and the worker pops no more
\* than it finds.
CountInv ==
  /\ Len(tasks) <= Appended
  /\ pc["host"] \in HostLabels \ {"joining", "joined"} => pushed <= Len(Script)
  /\ pc["host"] \in {"joining", "joined"} => pushed = Len(Script) + 1
  /\ pc["worker"] = "claimed" => tasks # <<>>

IOInv == Types /\ MutexInv /\ FlagInv /\ CountInv

-----------------------------------------------------------------------------
\* The length of the script is a number, whatever the script.
LEMMA ScriptLen == Len(Script) \in Nat
BY IOThreadAssumption

\* What push_back appends is a task or the null pointer.
LEMMA PushingType ==
  ASSUME pushed \in Nat
  PROVE  Pushing \in Tasks \cup {Null}
<1>1. CASE pushed < Len(Script)
  <2>1. pushed + 1 \in DOMAIN Script
    BY <1>1, IOThreadAssumption
  <2>2. QED
    BY <1>1, <2>1 DEF Pushing, Tasks
<1>2. CASE ~(pushed < Len(Script))
  BY <1>2 DEF Pushing
<1>3. QED
  BY <1>1, <1>2

\* The initial state satisfies the invariant.
LEMMA InitIOInv == IOInit => IOInv
<1> SUFFICES ASSUME IOInit PROVE IOInv
  OBVIOUS
<1> USE DEF IOInit, Threads
<1>1. Types
  <2>1. pc \in [Threads -> Labels] /\ pc["host"] = "idle" /\ pc["worker"] = "enter"
    BY DEF Labels, HostLabels, WorkerLabels
  <2>2. tasks \in Seq(Tasks \cup {Null})
    OBVIOUS
  <2>3. QED
    BY <2>1, <2>2 DEF Types, HostLabels, WorkerLabels
<1>2. MutexInv /\ FlagInv
  BY DEF MutexInv, FlagInv, Inside
<1>3. Len(tasks) = 0
  OBVIOUS
<1>4. CountInv
  BY <1>3, ScriptLen DEF CountInv, Appended, HostLabels
<1>5. QED
  BY <1>1, <1>2, <1>4 DEF IOInv

\* The steps that the two threads share keep the invariant.
LEMMA StepKeepsInv ==
  ASSUME IOInv, NEW t \in Threads, Step(t) \/ SpuriousWake(t)
  PROVE  IOInv'
<1> USE ScriptLen DEF IOInv, Types, Goto, Threads, Labels, HostLabels, WorkerLabels
<1>1. CASE Acquire(t)
  BY <1>1 DEF Acquire, MutexInv, FlagInv, CountInv, Appended, Inside
<1>2. CASE Wait(t)
  BY <1>2 DEF Wait, MutexInv, FlagInv, CountInv, Appended, Inside
<1>3. CASE Claim(t)
  BY <1>3 DEF Claim, Blocked, MutexInv, FlagInv, CountInv, Appended, Inside
<1>4. CASE Notify(t)
  BY <1>4 DEF Notify, MutexInv, FlagInv, CountInv, Appended, Inside
<1>5. CASE SpuriousWake(t)
  BY <1>5 DEF SpuriousWake, MutexInv, FlagInv, CountInv, Appended, Inside
<1>6. QED
  BY <1>1, <1>2, <1>3, <1>4, <1>5 DEF Step

\* The steps of the host keep the invariant.
LEMMA HostKeepsInv ==
  ASSUME IOInv, HostStep
  PROVE  IOInv'
<1> USE ScriptLen DEF IOInv, Types, Goto, Threads, Labels, HostLabels, WorkerLabels
<1>1. CASE CallPush
  BY <1>1 DEF CallPush, MutexInv, FlagInv, CountInv, Appended, Inside
<1>2. CASE Step("host")
  BY <1>2, StepKeepsInv
<1>3. CASE PushBack
  BY <1>3, PushingType DEF PushBack, MutexInv, FlagInv, CountInv, Appended, Inside
<1>4. CASE PushReturns
  BY <1>4 DEF PushReturns, MutexInv, FlagInv, CountInv, Appended, Inside
<1>5. CASE JoinReturns
  BY <1>5 DEF JoinReturns, MutexInv, FlagInv, CountInv, Appended, Inside
<1>6. QED
  BY <1>1, <1>2, <1>3, <1>4, <1>5 DEF HostStep

\* The steps of the worker keep the invariant.
LEMMA WorkerKeepsInv ==
  ASSUME IOInv, WorkerStep
  PROVE  IOInv'
<1> USE ScriptLen DEF IOInv, Types, Goto, Threads, Labels, HostLabels, WorkerLabels
<1>1. CASE Step("worker")
  BY <1>1, StepKeepsInv
<1>2. CASE PopFront
  BY <1>2 DEF PopFront, MutexInv, FlagInv, CountInv, Appended, Inside
<1>3. CASE PopReturns
  BY <1>3 DEF PopReturns, MutexInv, FlagInv, CountInv, Appended, Inside
<1>4. CASE Copy
  BY <1>4 DEF Copy, MutexInv, FlagInv, CountInv, Appended, Inside
<1>5. QED
  BY <1>1, <1>2, <1>3, <1>4 DEF WorkerStep

\* Every step keeps the invariant.
LEMMA NextIOInv == IOInv /\ [IONext]_ioVars => IOInv'
<1> SUFFICES ASSUME IOInv, [IONext]_ioVars PROVE IOInv'
  OBVIOUS
<1>1. CASE HostStep
  BY <1>1, HostKeepsInv
<1>2. CASE WorkerStep
  BY <1>2, WorkerKeepsInv
<1>3. CASE \E t \in Threads : SpuriousWake(t)
  BY <1>3, StepKeepsInv
<1>4. CASE \E e \in Events : DeviceCompletes(e)
  BY <1>4 DEF DeviceCompletes, IOInv, Types, MutexInv, FlagInv, CountInv, Appended
<1>5. CASE UNCHANGED ioVars
  BY <1>5 DEF ioVars, IOInv, Types, MutexInv, FlagInv, CountInv, Appended
<1>6. QED
  BY <1>1, <1>2, <1>3, <1>4, <1>5 DEF IONext, Done

\* The mutex, the flag and the list fit the labels of the threads in every
\* reachable state.
THEOREM IOInvariant == IOSpec => []IOInv
BY InitIOInv, NextIOInv, PTL DEF IOSpec

\* The fields of the I/O thread keep their types, and one null task is pushed.
THEOREM IOTypes == IOSpec => []IOTypeOK
<1>1. IOInv => IOTypeOK
  BY ScriptLen DEF IOInv, Types, CountInv, Appended, IOTypeOK, HostLabels, WorkerLabels
<1>2. QED
  BY <1>1, IOInvariant, PTL

\* queue_locked never makes push_back or pop_front wait: the flag is clear
\* whenever a thread that has the mutex tests it.
THEOREM FlagIsHarmless == IOSpec => []FlagNeverBlocks
<1>1. IOInv => FlagNeverBlocks
  BY DEF IOInv, MutexInv, FlagInv, FlagNeverBlocks, Inside
<1>2. QED
  BY <1>1, IOInvariant, PTL

-----------------------------------------------------------------------------
(***************************************************************************)
(* IOThread implements TaskFifo.  The null task is the last one in the     *)
(* list, and once the worker has it nothing is left to run.                *)
(***************************************************************************)
AllPushed == Appended = Len(Script) + 1

NullInv ==
  /\ \A i \in 1 .. Len(tasks) : tasks[i] = Null => i = Len(tasks) /\ AllPushed
  /\ pc["worker"] \in {"notify", "leave"} /\ task = Null => tasks = <<>> /\ AllPushed
  /\ pc["worker"] = "ended" => tasks = <<>> /\ AllPushed
  /\ pc["worker"] = "waiting" => task # Null
  /\ pc["host"] = "joined" => pc["worker"] = "ended"

\* The null task is not in the list initially.
LEMMA InitNullInv == IOInit => NullInv
BY DEF IOInit, NullInv, Threads

\* Every step keeps the null task last.
LEMMA NextNullInv == IOInv /\ NullInv /\ [IONext]_ioVars => NullInv'
<1> SUFFICES ASSUME IOInv, NullInv, [IONext]_ioVars PROVE NullInv'
  OBVIOUS
<1> USE ScriptLen DEF IOInv, Types, Goto, Threads, Labels, HostLabels, WorkerLabels
<1>1. ASSUME NEW t \in Threads, Step(t) \/ SpuriousWake(t) PROVE NullInv'
  BY <1>1 DEF Step, SpuriousWake, Acquire, Wait, Claim, Notify, NullInv, AllPushed, Appended
<1>2. CASE CallPush
  BY <1>2 DEF CallPush, NullInv, AllPushed, Appended
<1>3. CASE PushBack
  <2>1. ~AllPushed /\ \A i \in 1 .. Len(tasks) : tasks[i] # Null
    BY <1>3 DEF PushBack, NullInv, AllPushed, Appended, CountInv
  <2>2. Len(tasks') = Len(tasks) + 1 /\ tasks'[Len(tasks')] = Pushing
    BY <1>3, PushingType DEF PushBack
  <2>3. \A i \in 1 .. Len(tasks) : tasks'[i] = tasks[i]
    BY <1>3, PushingType DEF PushBack
  <2>4. Pushing = Null => AllPushed'
    <3>1. pushed <= Len(Script)
      BY <1>3 DEF PushBack, CountInv
    <3>2. pushed < Len(Script) => Pushing \in Tasks
      BY PushingType, IOThreadAssumption DEF Pushing, Tasks
    <3>3. pushed < Len(Script) => Pushing # Null
      BY <3>2, IOThreadAssumption
    <3>4. QED
      BY <1>3, <3>1, <3>3 DEF PushBack, AllPushed, Appended
  <2>5. QED
    BY <1>3, <2>1, <2>2, <2>3, <2>4 DEF PushBack, NullInv
<1>4. CASE PushReturns
  BY <1>4 DEF PushReturns, NullInv, AllPushed, Appended
<1>5. CASE JoinReturns
  BY <1>5 DEF JoinReturns, NullInv, AllPushed, Appended
<1>6. CASE PopFront
  <2>1. tasks # <<>>
    BY <1>6 DEF PopFront, CountInv
  <2>2. task' = tasks[1] /\ tasks' = Tail(tasks) /\ Len(tasks') = Len(tasks) - 1
    BY <1>6, <2>1 DEF PopFront
  <2>3. \A i \in 1 .. Len(tasks') : tasks'[i] = tasks[i + 1]
    BY <2>1, <2>2
  <2>4. /\ pc'["worker"] = "notify" /\ pc'["host"] = pc["host"]
        /\ AllPushed' <=> AllPushed
    BY <1>6 DEF PopFront, AllPushed, Appended
  <2>5. \A i \in 1 .. Len(tasks') : tasks'[i] = Null => i = Len(tasks') /\ AllPushed'
    <3>1. SUFFICES ASSUME NEW i \in 1 .. Len(tasks'), tasks'[i] = Null
                   PROVE  i = Len(tasks') /\ AllPushed'
      OBVIOUS
    <3>2. i + 1 \in 1 .. Len(tasks) /\ tasks[i + 1] = Null
      BY <2>2, <2>3, <3>1
    <3>3. i + 1 = Len(tasks) /\ AllPushed
      BY <3>2 DEF NullInv
    <3>4. QED
      BY <2>2, <2>4, <3>3
  <2>6. task' = Null => tasks' = <<>> /\ AllPushed'
    <3>1. tasks[1] = Null => 1 = Len(tasks) /\ AllPushed
      <4>1. 1 \in 1 .. Len(tasks)
        BY <2>1
      <4>2. QED
        BY <4>1 DEF NullInv
    <3>2. Len(tasks') = 0 => tasks' = <<>>
      BY <2>1, <2>2
    <3>3. QED
      BY <2>2, <2>4, <3>1, <3>2
  <2>7. pc["host"] # "joined"
    BY <1>6 DEF PopFront, NullInv
  <2>8. QED
    BY <2>4, <2>5, <2>6, <2>7 DEF NullInv
<1>7. CASE PopReturns
  BY <1>7 DEF PopReturns, NullInv, AllPushed, Appended
<1>8. CASE Copy
  BY <1>8 DEF Copy, NullInv, AllPushed, Appended
<1>9. CASE \E e \in Events : DeviceCompletes(e)
  BY <1>9 DEF DeviceCompletes, NullInv, AllPushed, Appended
<1>10. CASE UNCHANGED ioVars
  BY <1>10 DEF ioVars, NullInv, AllPushed, Appended
<1>11. QED
  BY <1>1, <1>2, <1>3, <1>4, <1>5, <1>6, <1>7, <1>8, <1>9, <1>10
  DEF IONext, HostStep, WorkerStep, Done

\* The worker's and the host's steps that touch neither the list nor what is
\* done keep the abstract state.
LEMMA Stutters ==
  ASSUME IOInv, UNCHANGED <<tasks, finished, complete>>, InHand' = InHand,
         (pc["host"] = "joined") <=> (pc'["host"] = "joined")
  PROVE  UNCHANGED Fifo!fifoVars
<1>1. Queued' = Queued
  BY DEF Queued, Stripped
<1>2. QED
  BY <1>1 DEF Fifo!fifoVars

\* One element is a sequence.
LEMMA SingletonSeq == ASSUME NEW S, NEW x \in S PROVE <<x>> \in Seq(S)
OBVIOUS

\* A first task that is not null leads the stripped list.
LEMMA QueuedOfTail ==
  ASSUME NEW s \in Seq(Tasks \cup {Null}), s # <<>>, s[1] # Null
  PROVE  Stripped(s) = <<s[1]>> \o Stripped(Tail(s))
<1> DEFINE n == Len(s)
<1>1. n \in Nat \ {0} /\ Tail(s) = SubSeq(s, 2, n) /\ Len(Tail(s)) = n - 1
  BY TailIsSubSeq, HeadTailProperties
<1>2. s = <<s[1]>> \o Tail(s)
  BY <1>1, SubSeqFull, SubSeqRecursiveFirst
<1>3. CASE s[n] # Null
  <2>1. Tail(s) # <<>> => Tail(s)[n - 1] = s[n]
    BY <1>1, HeadTailProperties
  <2>2. Stripped(Tail(s)) = Tail(s) /\ Stripped(s) = s
    BY <1>1, <1>3, <2>1 DEF Stripped
  <2>3. QED
    BY <1>2, <2>2
<1>4. CASE s[n] = Null
  <2>1. n > 1
    BY <1>1, <1>4
  <2>2. Tail(s) # <<>> /\ Tail(s)[n - 1] = Null
    <3>1. n - 1 \in 1 .. Len(Tail(s)) /\ (n - 1) + 1 = n
      BY <1>1, <2>1
    <3>2. \A i \in 1 .. Len(Tail(s)) : Tail(s)[i] = s[i + 1]
      BY HeadTailProperties
    <3>3. Tail(s)[n - 1] = s[n]
      BY <3>1, <3>2
    <3>4. Len(Tail(s)) # Len(<<>>)
      BY <1>1, <2>1
    <3>5. QED
      BY <1>4, <3>3, <3>4
  <2>3. Stripped(Tail(s)) = SubSeq(Tail(s), 1, n - 2)
    BY <1>1, <2>1, <2>2 DEF Stripped
  <2>4. SubSeq(Tail(s), 1, n - 2) = SubSeq(s, 2, n - 1)
    <3>1. CASE n = 2
      BY <3>1, SubSeqEmpty
    <3>2. CASE n > 2
      BY <1>1, <3>2, SubSeqOfSubSeq
    <3>3. QED
      BY <1>1, <2>1, <3>1, <3>2
  <2>5. SubSeq(s, 1, n - 1) = <<s[1]>> \o SubSeq(s, 2, n - 1)
    BY <1>1, <2>1, SubSeqRecursiveFirst
  <2>6. QED
    BY <1>4, <2>1, <2>3, <2>4, <2>5 DEF Stripped
<1>5. QED
  BY <1>3, <1>4

\* The initial state is one of TaskFifo.
LEMMA InitFifo == IOInit => Fifo!FifoInit
BY DEF IOInit, Fifo!FifoInit, InHand, Queued, Stripped, Threads

\* Every step is one of TaskFifo, or changes nothing there.
LEMMA NextFifo ==
  ASSUME IOInv, NullInv, [IONext]_ioVars
  PROVE  [Fifo!FifoNext]_Fifo!fifoVars
<1> USE ScriptLen DEF IOInv, Types, Goto, Threads, Labels, HostLabels, WorkerLabels
<1>1. ASSUME NEW t \in Threads, Step(t) \/ SpuriousWake(t) PROVE UNCHANGED Fifo!fifoVars
  BY <1>1, Stutters DEF Step, SpuriousWake, Acquire, Wait, Claim, Notify, InHand
<1>2. CASE CallPush
  BY <1>2, Stutters DEF CallPush, InHand
<1>3. CASE PushBack
  <2>1. UNCHANGED <<InHand, finished, complete>>
    BY <1>3 DEF PushBack, InHand
  <2>2. Queued = tasks
    BY <1>3 DEF PushBack, NullInv, AllPushed, Appended, CountInv, Queued, Stripped
  <2>3. tasks' = Append(tasks, Pushing) /\ tasks' # <<>> /\ tasks'[Len(tasks')] = Pushing
    BY <1>3, PushingType DEF PushBack
  <2>4. pc["host"] = "claimed" /\ pc'["host"] = "notify"
    BY <1>3 DEF PushBack
  <2>5. CASE Pushing = Null
    <3>1. Queued' = tasks
      BY <2>3, <2>5 DEF Queued, Stripped
    <3>2. QED
      BY <2>1, <2>2, <2>4, <3>1 DEF Fifo!fifoVars
  <2>6. CASE Pushing # Null
    <3>1. Pushing \in Tasks
      BY <2>6, PushingType
    <3>2. Queued' = Append(tasks, Pushing)
      BY <2>3, <2>6 DEF Queued, Stripped
    <3>3. InHand \in Seq(Tasks \cup {Null})
      <4>1. <<task>> \in Seq(Tasks \cup {Null})
        BY SingletonSeq
      <4>2. <<>> \in Seq(Tasks \cup {Null})
        OBVIOUS
      <4>3. InHand = <<>> \/ InHand = <<task>>
        BY DEF InHand
      <4>4. QED
        BY <4>1, <4>2, <4>3, Zenon
    <3>4. InHand' \o Queued' = Append(InHand \o Queued, Pushing)
      <4>1. InHand \o (tasks \o <<Pushing>>) = (InHand \o tasks) \o <<Pushing>>
        BY <3>1, <3>3, ConcatAssociative
      <4>2. Append(tasks, Pushing) = tasks \o <<Pushing>>
        BY <3>1, AppendIsConcat
      <4>3. InHand \o tasks \in Seq(Tasks \cup {Null})
        BY <3>3, ConcatProperties
      <4>4. Append(InHand \o tasks, Pushing) = (InHand \o tasks) \o <<Pushing>>
        BY <3>1, <4>3, AppendIsConcat
      <4>5. QED
        BY <2>1, <2>2, <3>2, <4>1, <4>2, <4>4
    <3>5. Fifo!Push(Pushing)
      BY <2>1, <2>4, <3>4 DEF Fifo!Push
    <3>6. QED
      BY <3>1, <3>5 DEF Fifo!FifoNext
  <2>7. QED
    BY <2>5, <2>6
<1>4. CASE PushReturns
  BY <1>4, Stutters DEF PushReturns, InHand
<1>5. CASE JoinReturns
  <2>1. Fifo!Join
    BY <1>5 DEF JoinReturns, NullInv, InHand, Queued, Stripped, Fifo!Join
  <2>2. QED
    BY <2>1 DEF Fifo!FifoNext
<1>6. CASE PopFront
  <2>1. tasks # <<>>
    BY <1>6 DEF PopFront, CountInv
  <2>2. /\ task' = tasks[1] /\ tasks' = Tail(tasks)
        /\ UNCHANGED <<finished, complete>> /\ pc'["host"] = pc["host"]
        /\ pc["worker"] = "claimed" /\ pc'["worker"] = "notify"
    BY <1>6, <2>1 DEF PopFront
  <2>3. InHand = <<>> /\ InHand' = IF tasks[1] # Null THEN <<tasks[1]>> ELSE <<>>
    BY <2>2 DEF InHand
  <2>4. InHand' \o Queued' = InHand \o Queued
    <3>1. CASE tasks[1] = Null
      <4>1. 1 \in 1 .. Len(tasks)
        BY <2>1
      <4>2. Len(tasks) = 1
        BY <3>1, <4>1 DEF NullInv
      <4>3. tasks' = <<>>
        BY <2>1, <2>2, <4>2, HeadTailProperties
      <4>4. Queued = <<>> /\ Queued' = <<>>
        BY <2>1, <3>1, <4>2, <4>3, SubSeqEmpty DEF Queued, Stripped
      <4>5. QED
        BY <2>3, <3>1, <4>4
    <3>2. CASE tasks[1] # Null
      BY <2>1, <2>2, <2>3, <3>2, QueuedOfTail DEF Queued
    <3>3. QED
      BY <3>1, <3>2
  <2>5. QED
    BY <2>2, <2>4 DEF Fifo!fifoVars
<1>7. CASE PopReturns
  BY <1>7, Stutters DEF PopReturns, InHand
<1>8. CASE Copy
  <2>1. task # Null /\ InHand = <<task>> /\ InHand' = <<>>
    BY <1>8 DEF Copy, NullInv, InHand
  <2>2. Queued' = Queued /\ Queued \in Seq(Tasks \cup {Null})
    BY <1>8 DEF Copy, Queued, Stripped
  <2>3. /\ InHand \o Queued # <<>>
        /\ Head(InHand \o Queued) = task
        /\ Tail(InHand \o Queued) = InHand' \o Queued'
    BY <2>1, <2>2
  <2>4. pc'["host"] = pc["host"]
    BY <1>8 DEF Copy
  <2>5. Fifo!Run
    BY <1>8, <2>3, <2>4 DEF Copy, Fifo!Run
  <2>6. QED
    BY <2>5 DEF Fifo!FifoNext
<1>9. CASE \E e \in Events : DeviceCompletes(e)
  <2>1. PICK e \in Events : DeviceCompletes(e)
    BY <1>9
  <2>2. Fifo!Complete(e)
    BY <2>1 DEF DeviceCompletes, Fifo!Complete, InHand, Queued
  <2>3. QED
    BY <2>2 DEF Fifo!FifoNext
<1>10. CASE UNCHANGED ioVars
  BY <1>10, Stutters DEF ioVars, InHand
<1>11. QED
  BY <1>1, <1>2, <1>3, <1>4, <1>5, <1>6, <1>7, <1>8, <1>9, <1>10
  DEF IONext, HostStep, WorkerStep, Done

\* The null task stays the last one of the list, and none is left behind when
\* the worker ends.
THEOREM NullIsLast == IOSpec => []NullInv
BY IOInvariant, InitNullInv, NextNullInv, PTL DEF IOSpec

\* IOThread implements TaskFifo: tasks run one at a time, in the order they
\* were pushed, each after its events, and join returns after the last.
THEOREM ImplementsTaskFifo == IOSpec => RunsInOrder
<1>1. IOInv /\ NullInv /\ [IONext]_ioVars => [Fifo!FifoNext]_Fifo!fifoVars
  BY NextFifo
<1>2. QED
  BY <1>1, InitFifo, IOInvariant, NullIsLast, PTL DEF IOSpec, RunsInOrder, Fifo!FifoSpec
=============================================================================
