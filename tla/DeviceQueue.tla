---------------------------- MODULE DeviceQueue -----------------------------
(***************************************************************************)
(* One in-order command queue of a device, down to the reads and writes of *)
(* work items: the host calls the wrappers of Phases.tla, whose launches   *)
(* run one after the other; in a launch, the work items of a group meet at *)
(* barriers, and are interleaved freely between them.                      *)
(***************************************************************************)
EXTENDS Phases

VARIABLES
  bad,      \* a call failed: an assertion, or a launch that is not possible
  size,     \* sizes of the global buffers
  todo,     \* commands in the queue
  run,      \* the command that runs
  at,       \* how many intervals each of its work items has executed
  touched,  \* what they have read, written and added to, interval by interval
  mem       \* global memory, and the local memory of the command that runs

queueVars == <<bad, size, todo, run, at, touched, mem>>

Idle == Command("finish", 0, "none", "none")

QueueInit(sizes, contents) ==
  /\ bad = FALSE /\ size = sizes /\ mem = contents
  /\ todo = <<>> /\ run = Idle
  /\ at = [w \in Items(Idle) |-> 1] /\ touched = [w \in Items(Idle) |-> <<>>]

Finished == \A w \in DOMAIN at : at[w] = Intervals(run, w)
QueueEmpty == todo = <<>> /\ Finished

\* A program that prepare has not built cannot be enqueued, nor a range that
\* the local size does not divide.
Launchable(phase) ==
  \A i \in DOMAIN phase.launches :
    LET L == phase.launches[i]
    IN  L.divides /\ ("program" \in DOMAIN L => L.program \in phase.programs)

\* A buffer that grows is replaced by a new one.
Grown(needs) == {b \in DOMAIN needs : b \notin DOMAIN size \/ size[b] < needs[b]}

\* The host calls a wrapper.  It could do so while the queue still works; the
\* queue is in order, and nothing the host does touches what it uses.
Call(phase) ==
  /\ QueueEmpty
  /\ bad' = (bad \/ ~phase.ok \/ ~Launchable(phase))
  /\ size' = Over([b \in Grown(phase.needs) |-> phase.needs[b]], size)
  /\ mem' = [a \in {x \in DOMAIN mem : x[1] \notin Grown(phase.needs)} |-> mem[a]]
  /\ todo' = phase.launches
  /\ UNCHANGED <<run, at, touched>>

LocalBuffers(L) == DOMAIN L.locals

\* The next command starts; local memory does not outlive a kernel.
StartKernel ==
  /\ todo # <<>> /\ Finished
  /\ run' = Head(todo) /\ todo' = Tail(todo)
  /\ at' = [w \in Items(Head(todo)) |-> 0]
  /\ touched' = [w \in Items(Head(todo)) |-> <<>>]
  /\ mem' = [a \in {x \in DOMAIN mem : x[1] \notin LocalBuffers(run)} |-> mem[a]]
  /\ UNCHANGED <<bad, size>>

\* The address space after the writes and atomic additions of e.
Apply(m, e) ==
  Over(e.writes, Over([a \in DOMAIN e.adds |-> Val(m, a) + e.adds[a]], m))

\* A work item runs up to its next barrier, once its whole group has reached
\* the last one.
Execute(w) ==
  /\ at[w] < Intervals(run, w)
  /\ \A u \in DOMAIN at : u[1] = w[1] => at[u] >= at[w]
  /\ LET e == Interval(run, w, at[w], mem)
     IN  /\ mem' = Apply(mem, e)
         /\ touched' = [touched EXCEPT ![w] =
              Append(@, [reads |-> e.reads, writes |-> DOMAIN e.writes, adds |-> DOMAIN e.adds])]
  /\ at' = [at EXCEPT ![w] = @ + 1]
  /\ UNCHANGED <<bad, size, todo, run>>

-----------------------------------------------------------------------------
(***************************************************************************)
(* Properties                                                              *)
(***************************************************************************)
Addresses(e) == e.reads \cup e.writes \cup e.adds

SizeOf(a) ==
  CASE a[1] \in LocalBuffers(run) -> run.locals[a[1]]
    [] a[1] = "points" -> run.N * run.dims
    [] a[1] = "labels" -> run.N
    [] OTHER -> size[a[1]]

\* The types of the queue's variables: every launch has its work items, none is
\* past its end, and every cell of memory is a whole number.
QueueTypeOK ==
  /\ bad \in BOOLEAN
  /\ DOMAIN at = Items(run) /\ DOMAIN touched = Items(run)
  /\ \A w \in DOMAIN at : at[w] \in 0 .. Intervals(run, w)
  /\ \A b \in DOMAIN size : size[b] \in Nat
  /\ \A a \in DOMAIN mem : mem[a] \in Int

\* Every phase can be called: the assertions of the wrappers hold for the
\* shapes of the configuration, prepare has built the program that is chosen,
\* and no wait list gets the empty event of a reduction without rounds.
CallsSucceed == ~bad

\* No work item leaves a buffer: the host's sizes of temporary and local
\* buffers agree with the kernels' indices, and no vector or block reaches past
\* the last point.
InBounds ==
  \A w \in DOMAIN touched : \A k \in DOMAIN touched[w] :
    \A a \in Addresses(touched[w][k]) : a[3] \in 0 .. SizeOf(a) - 1

\* Interval i of u comes before interval k > i of w, both in one group: a
\* barrier between them orders local memory; global memory only if it says so.
Ordered(a, i, k) ==
  /\ i # k
  /\ \/ a[1] \in LocalBuffers(run)
     \/ \E x \in Min2(i, k) .. i + k - Min2(i, k) - 1 : GlobalFence(run, x)

Conflict(a, e, f) ==
  \/ a \in e.writes \/ a \in f.writes
  \/ a \in e.adds /\ a \notin f.adds
  \/ a \in f.adds /\ a \notin e.adds

\* The kernels have no data race: two work items use the same address, and not
\* both to read or to add atomically, only if a barrier is between them.
NoDataRace ==
  Finished =>
    \A u, w \in DOMAIN touched : u # w =>
      \A i \in DOMAIN touched[u], k \in DOMAIN touched[w] :
        \A a \in Addresses(touched[u][i]) \cap Addresses(touched[w][k]) :
          Conflict(a, touched[u][i], touched[w][k]) =>
            u[1] = w[1] /\ Ordered(a, i - 1, k - 1)

\* All work items of a group reach the same barriers.
UniformBarriers ==
  \A u, w \in DOMAIN at : u[1] = w[1] => Intervals(run, u) = Intervals(run, w)

\* No work item reads a cell that nothing has written: temporary buffers and
\* local memory start undefined, and the kernels must clear or fill what they
\* accumulate into and reduce.
ReadsAreDefined ==
  [][\A w \in DOMAIN at :
       run' = run /\ at'[w] = at[w] + 1 =>
         touched'[w][at[w] + 1].reads \subseteq DOMAIN mem]_queueVars

=============================================================================
