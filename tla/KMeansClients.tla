--------------------------- MODULE KMeansClients ---------------------------
(***************************************************************************)
(* The loops of the k-means clients: kmeans_three_stage.hpp, which spreads *)
(* three phases over up to three devices and copies labels, masses and     *)
(* centroids between them, kmeans_single_stage.hpp, and the two buffered   *)
(* clients, which run their kernels through the scheduler, block by block; *)
(* and the benchmark (clustering_benchmark.cpp), which calls a client over *)
(* and over on the same arrays, or once, to compare it with kmeans_naive.  *)
(*                                                                         *)
(* The client's thread issues commands to in-order queues, one for every   *)
(* device, and for some of them it waits.  An iteration is the sequence of *)
(* commands the code issues in it.  Data are what Lloyd's algorithm makes  *)
(* of them: the centroids after n iterations of a call, the labels, sums   *)
(* and masses that follow from them, anything else is Wrong.               *)
(***************************************************************************)
EXTENDS Integers, Sequences, FiniteSets, SequencesExt

CONSTANTS
  Pipelines,      \* the clients checked, see PipelineType
  Type,           \* "cpu" or "gpu" for every device
  MaxIterations,  \* max_iterations
  NumRuns         \* num_runs_

Phases == {"ll", "mu", "cu"}
Devices == DOMAIN Type

\* The queues of SingleDeviceScheduler.
SchedulerQueues == {"even", "odd"}
Queues == Devices \cup SchedulerQueues

\* name    the client
\* place   the device of each phase; one device for all but three_stage
\* blocks  the number of blocks the points are cut into
PipelineType ==
  [name : {"three_stage", "single_stage", "three_stage_buffered",
           "single_stage_buffered"},
   place : [Phases -> Devices],
   blocks : Nat \ {0}]

ASSUME ClientsAssumption ==
  /\ Pipelines \subseteq PipelineType
  /\ Type \in [Devices -> {"cpu", "gpu"}]
  /\ MaxIterations \in Nat /\ NumRuns \in Nat
  /\ Devices \cap (SchedulerQueues \cup {"host"}) = {}

VARIABLES
  purpose,    \* what the benchmark is to do: "run" or "verify"
  runs,       \* calls of the client
  reference,  \* reference_labels_
  incorrect   \* the count verify returns

benchmarkVars == <<purpose, runs, reference, incorrect>>

VARIABLES
  pipeline,   \* the client
  iteration,  \* iterations begun
  stage,      \* where the client is: "idle", "upload", "loop", "last" queue,
              \* "download", "returned"; "end" of the benchmark
  todo,       \* the commands still to issue in this iteration or stage
  awaits,     \* the queues the client waits for
  queued,     \* the commands in every queue
  issued,     \* the number of the latest command
  mem         \* the contents of every buffer

clientVars == <<pipeline, iteration, stage, todo, awaits, queued, issued, mem>>
vars == <<benchmarkVars, clientVars>>

-----------------------------------------------------------------------------
(***************************************************************************)
(* Data                                                                    *)
(***************************************************************************)
\* run counts calls, n iterations, blocks the blocks that have been added up.
Value(what, run, n, blocks) == [what |-> what, run |-> run, n |-> n, blocks |-> blocks]
Zero == Value("zero", 0, 0, 0)
Wrong == Value("wrong", 0, 0, 0)

\* first_x: the same points, in every call.
InitialCentroids(run) == Value("centroids", run, 0, 0)

-----------------------------------------------------------------------------
(***************************************************************************)
(* Commands                                                                *)
(***************************************************************************)
\* bufs are the buffers of the command, in the order of its arguments.  The
\* client waits until the queues in awaits are empty; a chained command waits
\* for the event of the one issued before it.
Cmd(q, kind, bufs) ==
  [q |-> q, kind |-> kind, bufs |-> bufs, awaits |-> {}, chained |-> FALSE]

\* A call that returns when its command has ended.
Blocking(c) == [c EXCEPT !.awaits = {c.q}]

\* finish of a set of queues, and the mapping of a CPU buffer by a queue.
Finish(qs) ==
  [q |-> "none", kind |-> "finish", bufs |-> <<>>, awaits |-> qs, chained |-> FALSE]

\* A buffer is named by what it holds, whose it is, and a number.
Host(what) == <<what, "host", 0>>

Copy(q, from, to) == Cmd(q, "copy", <<from, to>>)
Fill(q, to) == Cmd(q, "fill", <<to>>)

-----------------------------------------------------------------------------
(***************************************************************************)
(* KmeansThreeStage.  The buffers of two phases on one device are shared.  *)
(***************************************************************************)
Place(p) == pipeline.place[p]

\* device_map
Shared(p, r) == Place(p) = Place(r)

\* labels[cu] falls back to labels[mu], the same device again.
CentroidsOf(p) == <<"centroids", Place(p), 0>>
LabelsOf(p) == <<"labels", Place(p), 0>>
MassesOf(p) == <<"masses", Place(p), 0>>

\* Fault variant: the map of a CPU's centroids does not block.
SyncCentroidsAsync ==
  IF Shared("cu", "ll") THEN <<>>
  ELSE <<Blocking(Copy(Place("ll"), CentroidsOf("cu"), CentroidsOf("ll")))>>

SyncCentroids ==
  LET copy == Blocking(Copy(Place("ll"), CentroidsOf("cu"), CentroidsOf("ll")))
  IN  CASE Shared("cu", "ll") -> <<>>
        [] ~Shared("cu", "ll") /\ Type[Place("cu")] = "cpu" ->
             <<Finish({Place("cu")}), copy>>
        [] ~Shared("cu", "ll") /\ Type[Place("cu")] = "gpu" -> <<copy>>

\* Labels for the mass update.  For a CPU they are mapped by the queue that
\* computes them, and labels[mu] becomes that memory; for a GPU they are
\* copied by the queue that uses them.
SyncLabelsMu ==
  LET copy(q) == Blocking(Copy(q, LabelsOf("ll"), LabelsOf("mu")))
  IN  CASE Shared("ll", "mu") -> <<>>
        [] ~Shared("ll", "mu") /\ Type[Place("mu")] = "cpu" -> <<copy(Place("ll"))>>
        [] ~Shared("ll", "mu") /\ Type[Place("mu")] = "gpu" -> <<copy(Place("mu"))>>

\* Labels for a centroid update on a third device.
SyncLabelsCu ==
  LET copy(q) == Blocking(Copy(q, LabelsOf("ll"), LabelsOf("cu")))
  IN  CASE Shared("ll", "cu") \/ Shared("mu", "cu") -> <<>>
        [] ~Shared("ll", "cu") /\ ~Shared("mu", "cu") /\ Type[Place("cu")] = "cpu" ->
             <<Finish({Place("cu")}), copy(Place("ll"))>>
        [] ~Shared("ll", "cu") /\ ~Shared("mu", "cu") /\ Type[Place("cu")] = "gpu" ->
             <<copy(Place("cu"))>>

\* Fault variant: the map of the labels does not block.
SyncLabelsAsync ==
  [i \in DOMAIN SyncLabelsMu |-> [SyncLabelsMu[i] EXCEPT !.awaits = {}]] \o SyncLabelsCu

SyncLabels == SyncLabelsMu \o SyncLabelsCu

\* set_centroids_buffer, then finish of all queues.
ThreeStageUpload ==
  <<Copy(Place("ll"), Host("centroids"), CentroidsOf("ll"))>>
    \o (IF Shared("cu", "ll") THEN <<>>
        ELSE <<Blocking(Copy(Place("cu"), Host("centroids"), CentroidsOf("cu")))>>)
    \o <<Finish({Place("ll")}), Finish({Place(p) : p \in Phases})>>

SyncMasses ==
  IF Shared("mu", "cu") THEN <<>>
  ELSE <<Blocking(Copy(Place("cu"), MassesOf("mu"), MassesOf("cu")))>>

ThreeStageIteration ==
  SyncCentroids
    \o <<Cmd(Place("ll"), "label", <<CentroidsOf("ll"), LabelsOf("ll")>>),
         Fill(Place("mu"), MassesOf("mu")),
         Fill(Place("cu"), CentroidsOf("cu"))>>
    \o SyncLabels
    \o <<Cmd(Place("mu"), "mass", <<LabelsOf("mu"), MassesOf("mu")>>)>>
    \o SyncMasses
    \o <<Cmd(Place("cu"), "sum", <<LabelsOf("cu"), CentroidsOf("cu")>>),
         Cmd(Place("cu"), "divide", <<CentroidsOf("cu"), MassesOf("cu")>>)>>

ThreeStageDownload ==
  <<Blocking(Copy(Place("cu"), CentroidsOf("cu"), Host("centroids"))),
    Blocking(Copy(Place("ll"), LabelsOf("ll"), Host("labels"))),
    Blocking(Copy(Place("mu"), MassesOf("mu"), Host("masses")))>>

-----------------------------------------------------------------------------
(***************************************************************************)
(* The clients with two centroid buffers, which swap after an iteration.   *)
(***************************************************************************)
Client == Place("cu")

OldCentroids(i) == <<"centroids", Client, i % 2>>

\* Fault variant: the centroids do not swap.
NewCentroidsUnswapped(i) == <<"centroids", Client, 1>>

NewCentroids(i) == <<"centroids", Client, (i + 1) % 2>>
Masses == <<"masses", Client, 0>>
BlockLabels(b) == <<"labels", Client, b>>

Fused(q, i, b) ==
  Cmd(q, "fused", <<OldCentroids(i), BlockLabels(b), NewCentroids(i), Masses>>)

\* The kernels of block b, one function of the batch after the other.
BlockKernels(q, i, b) ==
  IF pipeline.name = "three_stage_buffered"
  THEN <<Cmd(q, "label", <<OldCentroids(i), BlockLabels(b)>>),
         Cmd(q, "mass", <<BlockLabels(b), Masses>>),
         Cmd(q, "sum", <<BlockLabels(b), NewCentroids(i)>>)>>
  ELSE <<Fused(q, i, b)>>

\* What the batch of an iteration becomes in run: the blocks alternate between
\* the two queues of the scheduler, and every kernel but the first waits for
\* the one before it.  run ends when both queues are empty.
Run(i) ==
  LET kernels ==
        FlattenSeq([b \in 1 .. pipeline.blocks |->
                      BlockKernels(IF b % 2 = 1 THEN "even" ELSE "odd", i, b)])
  IN  Append([k \in DOMAIN kernels |-> [kernels[k] EXCEPT !.chained = k > 1]],
             Finish(SchedulerQueues))

SwappingIteration(i) ==
  <<Fill(Client, Masses), Fill(Client, NewCentroids(i))>>
    \o (IF pipeline.name = "single_stage" THEN <<Fused(Client, i, 1)>> ELSE Run(i))
    \o <<Cmd(Client, "divide", <<NewCentroids(i), Masses>>)>>

SwappingUpload ==
  <<Copy(Client, Host("centroids"), OldCentroids(0)), Finish({Client})>>

\* Both end with the centroids last swapped in.
SingleStageDownload ==
  <<Blocking(Copy(Client, OldCentroids(MaxIterations), Host("centroids"))),
    Blocking(Copy(Client, BlockLabels(1), Host("labels"))),
    Blocking(Copy(Client, Masses, Host("masses")))>>

BufferedDownload ==
  <<Blocking(Copy(Client, OldCentroids(MaxIterations), Host("centroids"))),
    Blocking(Copy(Client, Masses, Host("masses")))>>
    \o [b \in 1 .. pipeline.blocks |->
          Copy(Client, BlockLabels(b), Host("labels"))]
    \o <<Finish({Client})>>

-----------------------------------------------------------------------------
(***************************************************************************)
(* The client's thread                                                     *)
(***************************************************************************)
\* The buffers of a call, before centroids are uploaded: the vectors allocated
\* with a value hold 0, the others anything.  single_stage keeps the labels of
\* the call before, and buffered labels are a view of the host's.
AtCall(b) ==
  LET single == pipeline.name = "single_stage"
      buffered == pipeline.name \notin {"single_stage", "three_stage"}
  IN  CASE b[1] = "labels" -> IF single THEN mem[b]
                              ELSE IF buffered THEN mem[Host("labels")] ELSE Zero
        [] b[1] = "masses" -> IF buffered THEN Wrong ELSE Zero
        [] b[1] = "centroids" -> IF single /\ b[3] = 1 THEN Zero ELSE Wrong

\* Memory after init_centroids_ and the allocations of the call.
CallMemory(initial) ==
  [b \in DOMAIN mem |->
     IF b = Host("centroids") THEN initial
     ELSE IF b[2] = "host" THEN mem[b] ELSE AtCall(b)]

\* operator(): the benchmark calls the client.
Call(initial) ==
  /\ stage' = "upload"
  /\ iteration' = 0
  /\ todo' = IF pipeline.name = "three_stage" THEN ThreeStageUpload ELSE SwappingUpload
  /\ mem' = CallMemory(initial)
  /\ UNCHANGED <<pipeline, awaits, queued, issued>>

Returned == \A q \in awaits : queued[q] = <<>>

\* Issue the next command.
Issue ==
  LET c == Head(todo)
      op == [kind |-> c.kind, bufs |-> c.bufs, id |-> issued + 1,
             after |-> IF c.chained THEN issued ELSE 0]
  IN  /\ Returned /\ todo # <<>>
      /\ todo' = Tail(todo)
      /\ awaits' = c.awaits
      /\ IF c.kind = "finish"
         THEN UNCHANGED <<queued, issued>>
         ELSE /\ queued' = [queued EXCEPT ![c.q] = Append(@, op)]
              /\ issued' = issued + 1
      /\ UNCHANGED <<benchmarkVars, pipeline, iteration, stage, mem>>

\* "Wait for all preprocessing steps to finish before starting timer".
StartTimer ==
  /\ stage = "upload" /\ todo = <<>> /\ Returned
  /\ stage' = "loop"
  /\ UNCHANGED <<benchmarkVars, pipeline, iteration, todo, awaits, queued, issued, mem>>

Iterate ==
  /\ stage = "loop" /\ todo = <<>> /\ iteration < MaxIterations
  /\ todo' = IF pipeline.name = "three_stage" THEN ThreeStageIteration
             ELSE SwappingIteration(iteration)
  /\ iteration' = iteration + 1
  /\ UNCHANGED <<benchmarkVars, pipeline, stage, awaits, queued, issued, mem>>

\* "Wait for last queue to finish processing".
WaitForLastQueue ==
  /\ stage = "loop" /\ todo = <<>> /\ iteration = MaxIterations
  /\ stage' = "last"
  /\ todo' = <<Finish({Place("cu")})>>
  /\ UNCHANGED <<benchmarkVars, pipeline, iteration, awaits, queued, issued, mem>>

Download ==
  /\ stage = "last" /\ todo = <<>> /\ Returned
  /\ stage' = "download"
  /\ todo' = CASE pipeline.name = "three_stage" -> ThreeStageDownload
               [] pipeline.name = "single_stage" -> SingleStageDownload
               [] pipeline.name \notin {"three_stage", "single_stage"} -> BufferedDownload
  /\ UNCHANGED <<benchmarkVars, pipeline, iteration, awaits, queued, issued, mem>>

Return ==
  /\ stage = "download" /\ todo = <<>> /\ Returned
  /\ stage' = "returned"
  /\ UNCHANGED <<benchmarkVars, pipeline, iteration, todo, awaits, queued, issued, mem>>

-----------------------------------------------------------------------------
(***************************************************************************)
(* The benchmark                                                           *)
(***************************************************************************)
\* Fault variant: init_centroids_ is called before the first call only.
CentroidsKept(run) ==
  IF run = 1 THEN InitialCentroids(run) ELSE mem[Host("centroids")]

\* init_centroids_ is called before every call.
CentroidsAtCall(run) == InitialCentroids(run)

\* run: one call after the other, on the same host arrays.
StartRun ==
  /\ purpose = "run" /\ stage \in {"idle", "returned"} /\ runs < NumRuns
  /\ runs' = runs + 1
  /\ Call(CentroidsAtCall(runs + 1))
  /\ UNCHANGED <<purpose, reference, incorrect>>

\* The labels of kmeans_naive, from centroids c.
NaiveLabels(c) ==
  IF MaxIterations = 0 THEN Zero
  ELSE Value("labels", c.run, c.n + MaxIterations - 1, 1)

\* setVerificationReference: arrays of its own, and no device.
SetReference ==
  /\ purpose = "verify" /\ stage = "idle" /\ reference = Wrong
  /\ reference' = NaiveLabels(InitialCentroids(0))
  /\ UNCHANGED <<purpose, runs, incorrect, clientVars>>

\* verify: one call,
StartVerify ==
  /\ purpose = "verify" /\ stage = "idle" /\ reference # Wrong
  /\ runs' = runs + 1
  /\ Call(CentroidsAtCall(runs + 1))
  /\ UNCHANGED <<purpose, reference, incorrect>>

\* Labels are the same when they follow from equal centroids.
Differ(a, b) == a.what # b.what \/ a.n # b.n

\* and the labels that differ from the reference are counted: none, or some.
EndVerify ==
  /\ purpose = "verify" /\ stage = "returned"
  /\ incorrect' = IF Differ(reference, mem[Host("labels")]) THEN 1 ELSE 0
  /\ stage' = "end"
  /\ UNCHANGED <<purpose, runs, reference, pipeline, iteration, todo, awaits,
                 queued, issued, mem>>

EndRuns ==
  /\ purpose = "run" /\ stage \in {"idle", "returned"} /\ runs = NumRuns
  /\ stage' = "end"
  /\ UNCHANGED <<benchmarkVars, pipeline, iteration, todo, awaits, queued, issued, mem>>

-----------------------------------------------------------------------------
(***************************************************************************)
(* The devices                                                             *)
(***************************************************************************)
\* The labels that follow from centroids c.
Labelled(c) ==
  IF c.what = "centroids" THEN Value("labels", c.run, c.n, 1) ELSE Wrong

\* Labels l added to the sums or masses in acc.
Added(what, l, acc) ==
  IF /\ l.what = "labels"
     /\ acc = Zero \/ acc = Value(what, l.run, l.n, acc.blocks)
  THEN Value(what, l.run, l.n, acc.blocks + 1)
  ELSE Wrong

\* Sums and masses of all blocks.
Divided(s, m, blocks) ==
  IF /\ s = Value("sums", m.run, m.n, blocks)
     /\ m = Value("masses", m.run, m.n, blocks)
  THEN Value("centroids", m.run, m.n + 1, 0)
  ELSE Wrong

\* What op makes of the contents m of memory, with points in so many blocks.
After(op, m, blocks) ==
  LET b == op.bufs
      in(k) == m[b[k]]
  IN  CASE op.kind = "copy" -> [m EXCEPT ![b[2]] = in(1)]
        [] op.kind = "fill" -> [m EXCEPT ![b[1]] = Zero]
        [] op.kind = "label" -> [m EXCEPT ![b[2]] = Labelled(in(1))]
        [] op.kind = "mass" -> [m EXCEPT ![b[2]] = Added("masses", in(1), in(2))]
        [] op.kind = "sum" -> [m EXCEPT ![b[2]] = Added("sums", in(1), in(2))]
        [] op.kind = "divide" -> [m EXCEPT ![b[1]] = Divided(in(1), in(2), blocks)]
        [] op.kind = "fused" ->
             LET l == Labelled(in(1))
             IN  [m EXCEPT ![b[2]] = l, ![b[3]] = Added("sums", l, in(3)),
                           ![b[4]] = Added("masses", l, in(4))]

Outstanding == UNION {ToSet(queued[q]) : q \in Queues}
Ready(op) == \A o \in Outstanding : o.id # op.after

DeviceStep(q) ==
  /\ queued[q] # <<>> /\ Ready(Head(queued[q]))
  /\ mem' = After(Head(queued[q]), mem, pipeline.blocks)
  /\ queued' = [queued EXCEPT ![q] = Tail(@)]
  /\ UNCHANGED <<benchmarkVars, pipeline, iteration, stage, todo, awaits, issued>>

-----------------------------------------------------------------------------
Buffers ==
  {"centroids", "labels", "masses"} \X (Devices \cup {"host"}) \X
     UNION {0 .. p.blocks : p \in Pipelines}

\* bench.cpp verifies or runs; the host's vectors hold 0.
ClientsInit ==
  /\ pipeline \in Pipelines /\ purpose \in {"run", "verify"}
  /\ runs = 0 /\ reference = Wrong /\ incorrect = 0
  /\ iteration = 0 /\ stage = "idle" /\ todo = <<>> /\ awaits = {}
  /\ queued = [q \in Queues |-> <<>>] /\ issued = 0
  /\ mem = [b \in Buffers |-> Zero]

Done == stage = "end" /\ UNCHANGED vars

ClientsNext ==
  \/ StartRun \/ EndRuns \/ SetReference \/ StartVerify \/ EndVerify
  \/ Issue \/ StartTimer \/ Iterate \/ WaitForLastQueue \/ Download \/ Return
  \/ \E q \in Queues : DeviceStep(q)
  \/ Done

ClientsSpec == ClientsInit /\ [][ClientsNext]_vars

-----------------------------------------------------------------------------
(***************************************************************************)
(* Properties                                                              *)
(***************************************************************************)
Written(op) ==
  CASE op.kind = "fill" -> {op.bufs[1]}
    [] op.kind = "divide" -> {op.bufs[1]}
    [] op.kind = "fused" -> {op.bufs[2], op.bufs[3], op.bufs[4]}
    [] op.kind \in {"copy", "label", "mass", "sum"} -> {op.bufs[2]}

Running == {op \in {Head(w) : w \in {queued[q] : q \in Queues} \ {<<>>}} : Ready(op)}

\* Commands that may run at the same time, on two devices or on two queues of
\* one, never write what the other uses: each phase waits for the phases whose
\* results it takes.
PhasesOrdered ==
  \A a, b \in Running : a.id # b.id => Written(a) \cap ToSet(b.bufs) = {}

\* Every call leaves the results of Lloyd's algorithm after MaxIterations
\* iterations from its initial centroids on the host, whatever the calls before
\* it have left there: the centroids, and the labels and masses they follow
\* from.
HostHasResult ==
  stage = "returned" =>
    /\ mem[Host("centroids")] = Value("centroids", runs, MaxIterations, 0)
    /\ mem[Host("labels")] = Value("labels", runs, MaxIterations - 1, 1)
    /\ mem[Host("masses")] =
         Value("masses", runs, MaxIterations - 1, pipeline.blocks)

\* "Correct labels": verify finds no label that differs from those of
\* kmeans_naive.
VerifyAccepts == incorrect = 0

\* "Wait for last queue to finish processing": when the client has waited for
\* the queue of the centroid update, no other queue has work left.
LastQueueIsLast ==
  stage = "last" /\ todo = <<>> /\ Returned => Outstanding = {}
=============================================================================
