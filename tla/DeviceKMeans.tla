---------------------------- MODULE DeviceKMeans ----------------------------
(***************************************************************************)
(* An iteration of k-means on a device: the calls of the four clients on   *)
(* one queue, from the partition of the points to the division by the      *)
(* masses, compared with kmeans_naive.cpp; and test/reduce_vector.cpp.     *)
(*                                                                         *)
(* The queues of the clients are the subject of KMeansClients.tla; here    *)
(* all phases share a queue, as they do when a client has one device.      *)
(***************************************************************************)
EXTENDS DeviceQueue

\* The jobs checked.  A job has a client, one of the four or the test, and
\*   labeling, mass, centroid    configurations of the phases, with a field
\*                     strategy; fused for the single stage clients
\*   device            type and local_memory
\*   points            points[p][f], centroids[c][f]: whole numbers
\*   blockRows         the points in a block of the buffered clients
\* or, for the test,
\*   data              data[col][row]: whole numbers
CONSTANT Jobs

VARIABLES
  job,      \* the job, one of Jobs
  calls     \* the calls made

vars == <<job, calls, queueVars>>

-----------------------------------------------------------------------------
(***************************************************************************)
(* The host                                                                *)
(***************************************************************************)
NumPoints(j) == Cardinality(DOMAIN j.points)
NumFeatures(j) == Cardinality(DOMAIN j.points[0])
NumClusters(j) == Cardinality(DOMAIN j.centroids)

\* The points, features first, and the centroids, clusters first.
HostPoints(j) ==
  [i \in 0 .. NumPoints(j) * NumFeatures(j) - 1 |->
     j.points[i % NumPoints(j)][i \div NumPoints(j)]]
HostCentroids(j) ==
  [i \in 0 .. NumClusters(j) * NumFeatures(j) - 1 |->
     j.centroids[i % NumClusters(j)][i \div NumClusters(j)]]

\* partition_matrix: the rows of a matrix of dims columns in buffers of bufDim
\* rows, each a matrix of its own.  Maps a buffer and an index in it to src.
PartitionMatrix(src, dims, bufDim) ==
  LET dimSize == Cardinality(DOMAIN src) \div dims
      real(b) == Min2(bufDim, dimSize - b * bufDim)
      cells == {a \in (0 .. CeilDiv(dimSize, bufDim) - 1) \X (0 .. bufDim * dims - 1) :
                  a[2] < dims * real(a[1])}
  IN  [a \in cells |->
         src[(a[2] \div real(a[1])) * dimSize + a[1] * bufDim + (a[2] % real(a[1]))]]

\* Blocks of the buffered clients; the others have one.
Buffered(j) == j.client \in {"single_stage_buffered", "three_stage_buffered"}
BlockRows(j) == IF Buffered(j) THEN j.blockRows ELSE NumPoints(j)
NumBlocks(j) == CeilDiv(NumPoints(j), BlockRows(j))

\* All but three_stage keep the new centroids apart from the old ones.
Old(j) == IF j.client = "three_stage" THEN "centroids" ELSE "old_centroids"
New(j) == IF j.client = "three_stage" THEN "centroids" ELSE "new_centroids"

Arguments(j, b) ==
  [N |-> Min2(BlockRows(j), NumPoints(j) - b * BlockRows(j)), b |-> b,
   F |-> NumFeatures(j), C |-> NumClusters(j), old |-> Old(j), new |-> New(j)]

\* The factories.
Labeling(j, b) == LabelingUnrollVector(j.labeling, j.device, Arguments(j, b))

MassUpdate(j, b) ==
  CASE j.mass.strategy = "global_atomic" -> MassUpdateGlobalAtomic(j.mass, j.device, Arguments(j, b))
    [] j.mass.strategy = "part_global" -> MassUpdatePartGlobal(j.mass, j.device, Arguments(j, b))
    [] j.mass.strategy = "part_local" -> MassUpdatePartLocal(j.mass, j.device, Arguments(j, b))
    [] j.mass.strategy = "part_private" -> MassUpdatePartPrivate(j.mass, j.device, Arguments(j, b))

CentroidUpdate(j, b) ==
  CASE j.centroid.strategy = "cluster_merge" ->
         CentroidUpdateClusterMerge(j.centroid, j.device, Arguments(j, b))
    [] j.centroid.strategy = "feature_sum" ->
         CentroidUpdateFeatureSum(j.centroid, j.device, Arguments(j, b))
    [] j.centroid.strategy = "feature_sum_pardim" ->
         CentroidUpdateFeatureSumPardim(j.centroid, j.device, Arguments(j, b))

Fused(j, b) ==
  CASE j.fused.strategy = "cluster_merge" -> FusedClusterMerge(j.fused, j.device, Arguments(j, b))
    [] j.fused.strategy = "feature_sum" -> FusedFeatureSum(j.fused, j.device, Arguments(j, b))

HostCall(launches) == Phase(TRUE, {}, <<>>, launches)

Fill(j) ==
  HostCall(<<Command("fill", NumClusters(j), "masses", "none"),
             Command("fill", NumClusters(j) * NumFeatures(j), New(j), "none")>>)
Divide(j) == HostCall(MatrixRow(New(j), "masses", NumFeatures(j), NumClusters(j)))

\* One iteration.  three_stage labels before it clears the centroids.
KmeansThreeStage(j) ==
  <<Labeling(j, 0), Fill(j), MassUpdate(j, 0), CentroidUpdate(j, 0), Divide(j)>>

KmeansThreeStageBuffered(j) ==
  LET phase(i) == CASE i % 3 = 0 -> Labeling(j, i \div 3)
                    [] i % 3 = 1 -> MassUpdate(j, i \div 3)
                    [] i % 3 = 2 -> CentroidUpdate(j, i \div 3)
  IN  <<Fill(j)>> \o [i \in 1 .. 3 * NumBlocks(j) |-> phase(i - 1)] \o <<Divide(j)>>

KmeansSingleStage(j) == <<Fill(j), Fused(j, 0), Divide(j)>>

KmeansSingleStageBuffered(j) ==
  <<Fill(j)>> \o [i \in 1 .. NumBlocks(j) |-> Fused(j, i - 1)] \o <<Divide(j)>>

\* reduce_vector_run of the test: one call, on a buffer without a tail.
Rows(j) == Cardinality(DOMAIN j.data[0])
Cols(j) == Cardinality(DOMAIN j.data)
ReduceVectorRun(j) ==
  <<Phase(ReduceOk(Rows(j) * Cols(j), Cols(j), Rows(j), "data"), {}, <<>>,
          Reduce(Rows(j) * Cols(j), Rows(j), "data"))>>

Iteration(j) ==
  CASE j.client = "three_stage" -> KmeansThreeStage(j)
    [] j.client = "three_stage_buffered" -> KmeansThreeStageBuffered(j)
    [] j.client = "single_stage" -> KmeansSingleStage(j)
    [] j.client = "single_stage_buffered" -> KmeansSingleStageBuffered(j)
    [] j.client = "reduce_vector_test" -> ReduceVectorRun(j)

UploadPoints(j) ==
  LET points == PartitionMatrix(HostPoints(j), NumFeatures(j), BlockRows(j))
      centroids == HostCentroids(j)
  IN  Over([a \in {<<"points", x[1], x[2]>> : x \in DOMAIN points} |-> points[<<a[2], a[3]>>]],
           [a \in {Glob(Old(j), i) : i \in DOMAIN centroids} |-> centroids[a[3]]])

Upload(j) ==
  IF j.client = "reduce_vector_test"
  THEN [a \in {Glob("data", i) : i \in 0 .. Rows(j) * Cols(j) - 1} |->
          j.data[a[3] \div Rows(j)][a[3] % Rows(j)]]
  ELSE UploadPoints(j)

ClientSizes(j) ==
  IF j.client = "reduce_vector_test" THEN [data |-> Rows(j) * Cols(j)]
  ELSE [b \in {Old(j), New(j), "masses"} |->
          IF b = "masses" THEN NumClusters(j) ELSE NumClusters(j) * NumFeatures(j)]

(***************************************************************************)
(* The jobs: whole numbers as data, and configurations with what their     *)
(* phases need for every block.                                            *)
(***************************************************************************)
DataOK(j) ==
  /\ NumPoints(j) \in Nat \ {0} /\ IsPowerOfTwo(NumFeatures(j)) /\ IsPowerOfTwo(NumClusters(j))
  /\ j.points \in [0 .. NumPoints(j) - 1 -> [0 .. NumFeatures(j) - 1 -> Int]]
  /\ j.centroids \in [0 .. NumClusters(j) - 1 -> [0 .. NumFeatures(j) - 1 -> Int]]
  /\ BlockRows(j) \in Nat \ {0}

MassOK(cfg, call) ==
  /\ ConfigOK(cfg)
  /\ \/ cfg.strategy = "global_atomic"
     \/ cfg.strategy \in {"part_global", "part_local"} /\ NumWorkGroups(cfg) > 1
     \/ cfg.strategy = "part_private" /\ ItemsOK(cfg, call)

CentroidOK(cfg, call) ==
  /\ ConfigOK(cfg)
  /\ \/ cfg.strategy = "cluster_merge" /\ ItemsOK(cfg, call)
     \/ cfg.strategy = "feature_sum" /\ FeatureSumOK(cfg, call)
     \/ cfg.strategy = "feature_sum_pardim" /\ PardimOK(cfg, call)

SingleStageOK(cfg, dev, call) ==
  /\ ConfigOK(cfg)
  /\ \/ cfg.strategy = "cluster_merge" /\ FusedConfigOK(cfg, call)
     \/ cfg.strategy = "feature_sum" /\ FusedSumOK(cfg, dev, call)

\* The phases of block b.
BlockOK(j, b) ==
  LET call == Arguments(j, b)
  IN  \/ /\ j.client \in {"three_stage", "three_stage_buffered"}
         /\ ConfigOK(j.labeling) /\ LabelingOK(j.labeling, j.device, call)
         /\ MassOK(j.mass, call) /\ CentroidOK(j.centroid, call)
      \/ /\ j.client \in {"single_stage", "single_stage_buffered"}
         /\ SingleStageOK(j.fused, j.device, call)

TestOK(j) ==
  /\ Rows(j) \in Nat \ {0} /\ Cols(j) \in Nat \ {0}
  /\ j.data \in [0 .. Cols(j) - 1 -> [0 .. Rows(j) - 1 -> Int]]
  /\ ReduceOk(Rows(j) * Cols(j), Cols(j), Rows(j), "data")

JobOK(j) ==
  \/ j.client = "reduce_vector_test" /\ TestOK(j)
  \/ DataOK(j) /\ \A b \in 0 .. NumBlocks(j) - 1 : BlockOK(j, b)

ASSUME JobsAssumption == \A j \in Jobs : JobOK(j)

-----------------------------------------------------------------------------
Init == job \in Jobs /\ calls = 0 /\ QueueInit(ClientSizes(job), Upload(job))

\* The client makes its next call.
CallPhase ==
  /\ calls < Len(Iteration(job))
  /\ Call(Iteration(job)[calls + 1])
  /\ calls' = calls + 1 /\ job' = job

Start == StartKernel /\ UNCHANGED <<job, calls>>
Step == (\E w \in DOMAIN at : Execute(w)) /\ UNCHANGED <<job, calls>>

Done == calls = Len(Iteration(job)) /\ QueueEmpty
End == Done /\ UNCHANGED vars

Next == CallPhase \/ Start \/ Step \/ End

Spec == Init /\ [][Next]_vars

-----------------------------------------------------------------------------
(***************************************************************************)
(* The reference: kmeans_naive.cpp                                         *)
(***************************************************************************)
Ps(j) == 0 .. NumPoints(j) - 1
Cs(j) == 0 .. NumClusters(j) - 1
Fs(j) == 0 .. NumFeatures(j) - 1

\* Phase 1: the centroid that no later one is closer than.
NaiveLabels(j) ==
  [p \in Ps(j) |->
     LET distance(c) == MapThenSumSet(
           LAMBDA d : (j.points[p][d] - j.centroids[c][d]) * (j.points[p][d] - j.centroids[c][d]),
           Fs(j))
     IN  FoldLeft(LAMBDA best, c : IF distance(c) < distance(best) THEN c ELSE best,
                  0, [c \in 1 .. NumClusters(j) - 1 |-> c])]

\* Phase 2: masses, and the means of the points of a cluster.
NaiveMass(j, c) == Cardinality({p \in Ps(j) : NaiveLabels(j)[p] = c})
NaiveCentroid(j, c, f) ==
  Quotient(MapThenSumSet(LAMBDA p : j.points[p][f], {p \in Ps(j) : NaiveLabels(j)[p] = c}),
           NaiveMass(j, c))

-----------------------------------------------------------------------------
(***************************************************************************)
(* Properties                                                              *)
(***************************************************************************)
\* The types of the variables that change, and that every label is the number of a
\* cluster of the job.  The later kernels use labels as they find them as indices
\* of bins and sums, and no kernel or client tests them.
DeviceTypeOK ==
  /\ calls \in 0 .. Len(Iteration(job))
  /\ QueueTypeOK
  /\ job.client # "reduce_vector_test" =>
       \A a \in DOMAIN mem : a[1] = "labels" => mem[a] \in Cs(job)

\* The iteration is one of kmeans_naive.cpp: the same labels, masses and
\* centroids, whatever the strategies, the device, the blocks and the order in
\* which work items run.
LloydStep ==
  Done /\ job.client # "reduce_vector_test" =>
    /\ \A p \in Ps(job) :
         mem[<<"labels", p \div BlockRows(job), p % BlockRows(job)>>] = NaiveLabels(job)[p]
    /\ \A c \in Cs(job) :
         /\ mem[Glob("masses", c)] = NaiveMass(job, c)
         /\ \A f \in Fs(job) :
              mem[Glob(New(job), NumClusters(job) * f + c)] = NaiveCentroid(job, c, f)

\* test/reduce_vector.cpp compares the reduced buffer with the sums of the rows.
ReducedIsSum ==
  Done /\ job.client = "reduce_vector_test" =>
    \A row \in 0 .. Rows(job) - 1 :
      mem[Glob("data", row)] = MapThenSumSet(LAMBDA c : job.data[c][row], 0 .. Cols(job) - 1)
=============================================================================
