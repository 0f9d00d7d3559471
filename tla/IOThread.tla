------------------------------ MODULE IOThread ------------------------------
(***************************************************************************)
(* SimpleBufferCache::IOThread (src/simple_buffer_cache.cpp, 634-704): the *)
(* client's thread ("host") pushes tasks into a list guarded by a mutex, a *)
(* flag and a condition variable; the I/O thread ("worker") pops a task,   *)
(* waits for its events, copies, and completes the task's user event.  The *)
(* destructor of the cache pushes a null task and joins.                   *)
(*                                                                         *)
(* A thread moves from label to label.  "wait" is a thread inside          *)
(* condition_variable::wait, which gives up the mutex; "woken" is one that *)
(* was notified, or woke spuriously, and must take the mutex again.        *)
(***************************************************************************)
EXTENDS Naturals, Sequences, FiniteSets

CONSTANTS
  Script,     \* the sequence of tasks the host pushes before it joins
  Events,     \* device events
  TaskWaits,  \* the events every task waits for
  EventNeeds, \* the tasks the command of every event waits for
  Null        \* the null pointer that ends the worker

Tasks == {Script[i] : i \in DOMAIN Script}

ASSUME IOThreadAssumption ==
  /\ Script \in Seq(Tasks)
  /\ Null \notin Tasks
  /\ TaskWaits \in [Tasks -> SUBSET Events]
  /\ EventNeeds \in [Events -> SUBSET Tasks]

\* The cache creates a task after the commands it waits for, and a command
\* that waits for a task (the write of write_and_get, the barrier of read)
\* belongs to a task it has made before.
ASSUME TasksInOrder ==
  \A i \in DOMAIN Script : \A e \in TaskWaits[Script[i]] :
     EventNeeds[e] \subseteq {Script[j] : j \in 1 .. i - 1}

VARIABLES
  pc,            \* label of each thread
  mutex,         \* owner of queue_mutex, or "none"
  queue_locked,  \* the flag
  tasks,         \* the list
  pushed,        \* host: how much of Script it has pushed
  task,          \* worker: the task popped
  complete,      \* events that are complete
  finished       \* tasks whose user event is complete

ioVars == <<pc, mutex, queue_locked, tasks, pushed, task, complete, finished>>

Threads == {"host", "worker"}

\* What the host is pushing: the next task, or after the last one the null
\* task of join.
Pushing == IF pushed < Len(Script) THEN Script[pushed + 1] ELSE Null

Goto(t, label) == pc' = [pc EXCEPT ![t] = label]

-----------------------------------------------------------------------------
IOInit ==
  /\ pc = [t \in Threads |-> IF t = "host" THEN "idle" ELSE "enter"]
  /\ mutex = "none"
  /\ queue_locked = FALSE
  /\ tasks = <<>>
  /\ pushed = 0
  /\ task = Null
  /\ complete = {}
  /\ finished = {}

\* The host calls push_back, for a task or from join.
CallPush ==
  /\ pc["host"] = "idle"
  /\ Goto("host", "enter")
  /\ UNCHANGED <<mutex, queue_locked, tasks, pushed, task, complete, finished>>

\* unique_lock, or the return from condition_variable::wait.
Acquire(t) ==
  /\ pc[t] \in {"enter", "woken"}
  /\ mutex = "none"
  /\ mutex' = t
  /\ Goto(t, "check")
  /\ UNCHANGED <<queue_locked, tasks, pushed, task, complete, finished>>

\* The condition of the two while loops (lines 677 and 692).
Blocked(t) == queue_locked \/ (t = "worker" /\ tasks = <<>>)

Wait(t) ==
  /\ pc[t] = "check"
  /\ Blocked(t)
  /\ mutex' = "none"
  /\ Goto(t, "wait")
  /\ UNCHANGED <<queue_locked, tasks, pushed, task, complete, finished>>

Claim(t) ==
  /\ pc[t] = "check"
  /\ ~Blocked(t)
  /\ queue_locked' = TRUE
  /\ Goto(t, "claimed")
  /\ UNCHANGED <<mutex, tasks, pushed, task, complete, finished>>

\* Fault variant: a new task goes to the front of the list.
PushFront ==
  /\ pc["host"] = "claimed"
  /\ tasks' = <<Pushing>> \o tasks
  /\ Goto("host", "notify")
  /\ UNCHANGED <<mutex, queue_locked, pushed, task, complete, finished>>

PushBack ==
  /\ pc["host"] = "claimed"
  /\ tasks' = Append(tasks, Pushing)
  /\ Goto("host", "notify")
  /\ UNCHANGED <<mutex, queue_locked, pushed, task, complete, finished>>

PopFront ==
  /\ pc["worker"] = "claimed"
  /\ task' = Head(tasks)
  /\ tasks' = Tail(tasks)
  /\ Goto("worker", "notify")
  /\ UNCHANGED <<mutex, queue_locked, pushed, complete, finished>>

\* Fault variant: the flag is cleared and nobody is notified.
NotifyNobody(t) ==
  /\ pc[t] = "notify"
  /\ queue_locked' = FALSE
  /\ Goto(t, "leave")
  /\ UNCHANGED <<mutex, tasks, pushed, task, complete, finished>>

\* Fault variant: the flag is still set when the waiters are notified.
NotifyFlagSet(t) ==
  /\ pc[t] = "notify"
  /\ pc' = [u \in Threads |-> IF u = t THEN "leave"
                              ELSE IF pc[u] = "wait" THEN "woken" ELSE pc[u]]
  /\ UNCHANGED <<mutex, queue_locked, tasks, pushed, task, complete, finished>>

\* queue_locked = false; notify_all().
Notify(t) ==
  /\ pc[t] = "notify"
  /\ queue_locked' = FALSE
  /\ pc' = [u \in Threads |-> IF u = t THEN "leave"
                              ELSE IF pc[u] = "wait" THEN "woken" ELSE pc[u]]
  /\ UNCHANGED <<mutex, tasks, pushed, task, complete, finished>>

\* A condition variable may wake a thread that nobody notified.
SpuriousWake(t) ==
  /\ pc[t] = "wait"
  /\ Goto(t, "woken")
  /\ UNCHANGED <<mutex, queue_locked, tasks, pushed, task, complete, finished>>

\* Fault variant: join may be called again.
PushReturnsToCaller ==
  /\ pc["host"] = "leave"
  /\ mutex' = "none"
  /\ pushed' = pushed + 1
  /\ Goto("host", "idle")
  /\ UNCHANGED <<queue_locked, tasks, task, complete, finished>>

\* push_back returns; after the null task, join waits for the thread.
PushReturns ==
  /\ pc["host"] = "leave"
  /\ mutex' = "none"
  /\ pushed' = pushed + 1
  /\ Goto("host", IF pushed < Len(Script) THEN "idle" ELSE "joining")
  /\ UNCHANGED <<queue_locked, tasks, task, complete, finished>>

\* pop_front returns; a null task ends work().
PopReturns ==
  /\ pc["worker"] = "leave"
  /\ mutex' = "none"
  /\ Goto("worker", IF task = Null THEN "ended" ELSE "waiting")
  /\ UNCHANGED <<queue_locked, tasks, pushed, task, complete, finished>>

\* wait_list.wait(), async_memcpy, set_status(complete), delete.
Copy ==
  /\ pc["worker"] = "waiting"
  /\ TaskWaits[task] \subseteq complete
  /\ finished' = finished \cup {task}
  /\ Goto("worker", "enter")
  /\ UNCHANGED <<mutex, queue_locked, tasks, pushed, task, complete>>

JoinReturns ==
  /\ pc["host"] = "joining"
  /\ pc["worker"] = "ended"
  /\ Goto("host", "joined")
  /\ UNCHANGED <<mutex, queue_locked, tasks, pushed, task, complete, finished>>

\* The device runs the command of an event, once the user events of the
\* tasks it waits for are complete.
DeviceCompletes(e) ==
  /\ e \notin complete
  /\ EventNeeds[e] \subseteq finished
  /\ complete' = complete \cup {e}
  /\ UNCHANGED <<pc, mutex, queue_locked, tasks, pushed, task, finished>>

Step(t) == Acquire(t) \/ Wait(t) \/ Claim(t) \/ Notify(t)
HostStep == CallPush \/ Step("host") \/ PushBack \/ PushReturns \/ JoinReturns
WorkerStep == Step("worker") \/ PopFront \/ PopReturns \/ Copy

\* Everything is joined and the device is idle.
Done == pc["host"] = "joined" /\ complete = Events /\ UNCHANGED ioVars

IONext ==
  \/ HostStep
  \/ WorkerStep
  \/ \E t \in Threads : SpuriousWake(t)
  \/ \E e \in Events : DeviceCompletes(e)
  \/ Done

\* The system schedules both threads, the device completes what was
\* enqueued, and a thread that asks for a mutex which is released again and
\* again gets it.  Nothing promises a spurious wake-up.
IOFairness ==
  /\ WF_ioVars(HostStep)
  /\ WF_ioVars(WorkerStep)
  /\ \A t \in Threads : SF_ioVars(Acquire(t))
  /\ \A e \in Events : WF_ioVars(DeviceCompletes(e))

IOSpec == IOInit /\ [][IONext]_ioVars /\ IOFairness

-----------------------------------------------------------------------------
(***************************************************************************)
(* Properties                                                              *)
(***************************************************************************)

\* The fields keep their types, and join pushes one null task and no more.
IOTypeOK ==
  /\ pc["host"] \in {"idle", "enter", "check", "wait", "woken", "claimed",
                     "notify", "leave", "joining", "joined"}
  /\ pc["worker"] \in {"enter", "check", "wait", "woken", "claimed", "notify",
                       "leave", "waiting", "ended"}
  /\ mutex \in Threads \cup {"none"}
  /\ queue_locked \in BOOLEAN
  /\ pushed \in 0 .. Len(Script) + 1
  /\ task \in Tasks \cup {Null}
  /\ Len(tasks) <= Len(Script) + 1

\* queue_locked never makes a thread wait: it is clear whenever a thread that
\* has the mutex looks at it, so the worker waits for tasks and for nothing
\* else, and push_back never waits.
FlagNeverBlocks == \A t \in Threads : pc[t] = "check" => ~queue_locked

InHand ==
  IF pc["worker"] \in {"notify", "leave", "waiting"} /\ task # Null
  THEN <<task>> ELSE <<>>

\* The list without the null task, which is pushed last.
Stripped(s) ==
  IF s # <<>> /\ s[Len(s)] = Null THEN SubSeq(s, 1, Len(s) - 1) ELSE s
Queued == Stripped(tasks)

Fifo == INSTANCE TaskFifo WITH
          pending <- InHand \o Queued,
          joined <- pc["host"] = "joined",
          Waits <- TaskWaits

\* The thread runs the tasks in the order the cache pushed them, none before
\* its events, and the destructor does not return before all have run.
RunsInOrder == Fifo!FifoSpec

\* No wake-up is lost: every task is run, and join returns.
EverythingJoined == <>(pc["host"] = "joined" /\ finished = Tasks)
=============================================================================
