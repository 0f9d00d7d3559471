--------------------------- MODULE MCDeviceKMeans ---------------------------
(***************************************************************************)
(* Jobs for TLC: every strategy, on every kind of device, over inputs in   *)
(* which no two sets of points have the same sum.                          *)
(***************************************************************************)
EXTENDS DeviceKMeans

\* n points of d features; the numbers alternate between small and large.
Rank(p, n) == (p \div 2) + ((n + 1) \div 2) * (p % 2)
Points(n, d) == [p \in 0 .. n - 1 |-> [f \in 0 .. d - 1 |-> 2 ^ (d * Rank(p, n) + f)]]

\* Points as centroids; twice the same one leaves a cluster empty.
Input(n, d, chosen) ==
  [points |-> Points(n, d),
   centroids |-> [c \in 0 .. Len(chosen) - 1 |-> Points(n, d)[chosen[c + 1]]]]
Inputs(n) == {Input(n, 2, <<0, 5>>), Input(n, 2, <<3, 2>>), Input(n, 2, <<3, 3>>)}

\* Two groups of two work items.
Config(strategy, vec) ==
  [strategy |-> strategy, global |-> 4, local |-> 2, local1 |-> 1, vec |-> vec,
   thread_features |-> 1, local_features |-> 2]
CentroidConfig(strategy, features, vec) ==
  [Config(strategy, vec) EXCEPT !.thread_features = features, !.local_features = 2 \div features]

CPU == [type |-> "cpu", local_memory |-> 1000]
GPU == [type |-> "gpu", local_memory |-> 1000]
SmallGPU == [type |-> "gpu", local_memory |-> 0]

ThreeStage(client, device, n, rows, vec, mass, centroid, features) ==
  {[client |-> client, device |-> device, points |-> x.points, centroids |-> x.centroids,
    blockRows |-> rows, labeling |-> Config("unroll_vector", vec),
    mass |-> Config(mass, vec), centroid |-> CentroidConfig(centroid, features, vec)] : x \in Inputs(n)}

SingleStage(client, device, inputs, rows, vec, fused) ==
  {[client |-> client, device |-> device, points |-> x.points, centroids |-> x.centroids,
    blockRows |-> rows, fused |-> Config(fused, vec)] : x \in inputs}

\* reduce_vector.cpp for a matrix of the given size.
ReduceTest(rows, cols) ==
  [client |-> "reduce_vector_test",
   data |-> [c \in 0 .. cols - 1 |-> [r \in 0 .. rows - 1 |-> 2 ^ (rows * c + r)]]]

\* Vectors of one point fit any number of points, except for the barriers of
\* pardim; vectors of two need whole vectors in every share.
MCJobs ==
  UNION {ThreeStage("three_stage_buffered", d, 7, 4, 1, s[1], s[2], 1) :
           d \in {CPU, GPU, SmallGPU},
           s \in {<<"global_atomic", "cluster_merge">>, <<"part_global", "feature_sum">>,
                  <<"part_local", "cluster_merge">>, <<"part_private", "feature_sum">>}}
  \cup UNION {ThreeStage("three_stage", d, 8, 8, v, "part_private", c[1], c[2]) :
           d \in {CPU, GPU, SmallGPU}, v \in {1, 2},
           c \in {<<"feature_sum_pardim", 1>>, <<"feature_sum_pardim", 2>>, <<"cluster_merge", 1>>}}
  \cup UNION {SingleStage("single_stage_buffered", d, Inputs(7), 4, 1, s) :
                d \in {CPU, GPU, SmallGPU}, s \in {"cluster_merge", "feature_sum"}}
  \cup UNION {SingleStage("single_stage", d, Inputs(8), 8, 2, "cluster_merge") :
                d \in {CPU, GPU, SmallGPU}}
  \cup SingleStage("single_stage", GPU, Inputs(8), 8, 2, "feature_sum")
  \* two features for every work item
  \cup UNION {SingleStage("single_stage", d, {Input(4, 4, <<1>>)}, 4, 1, "feature_sum") :
                d \in {CPU, GPU, SmallGPU}}
  \* like Random, and ManyRows with more rows than WORKGROUP_SIZE
  \cup {ReduceTest(2, 8), ReduceTest(8, 2), ReduceTest(1, 8)}

\* Like FurySize: 4 rows and 7 * 2^13 columns there, 2 rows and 3 * 2 here.
FurySize == {ReduceTest(2, 6)}
=============================================================================
