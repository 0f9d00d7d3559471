------------------------------- MODULE Phases -------------------------------
(***************************************************************************)
(* The host wrappers of the kernels in cl_kernels/*.hpp: the labelling,    *)
(* mass update, centroid update and fused strategies, the reduction and    *)
(* the matrix operations.                                                  *)
(*                                                                         *)
(* A call of a wrapper is a phase: what it asserts, which programs prepare *)
(* has built for it, the global buffers it allocates, and the kernels it   *)
(* enqueues, with the shape of their launches and the sizes of their local *)
(* buffers.                                                                *)
(*                                                                         *)
(* cfg   a configuration: global, local, local1 (second dimension), vec,   *)
(*       thread_features, local_features                                   *)
(* dev   a device: type, local_memory                                      *)
(* call  the arguments: points N of block b, features F, clusters C, and   *)
(*       the buffers old and new of the centroids                          *)
(***************************************************************************)
EXTENDS Kernels, SequencesExt

\* WORKGROUP_SIZE of reduce_vector_parcol.hpp, and MAX_FEATURES
CONSTANTS WorkgroupSize, MaxFeatures
IsPowerOfTwo(n) == n \in {Power(2, k) : k \in 0 .. n}
ASSUME SizesAssumption ==
  IsPowerOfTwo(WorkgroupSize) /\ WorkgroupSize > 1 /\ MaxFeatures \in Nat \ {0}

Min2(a, b) == IF a < b THEN a ELSE b

-----------------------------------------------------------------------------
(***************************************************************************)
(* Programs                                                                *)
(***************************************************************************)
\* A program is the kernel with or without LOCAL_STRIDE, in local memory or
\* not (GLOBAL_MEM), for a number of features where it is a define.
Program(lstride, lmem, features) ==
  [lstride |-> lstride, lmem |-> lmem, features |-> features]

AnyFeatures == 0
\* Fault variant: the loop ends before MAX_FEATURES.
UnrolledFeaturesBelow == {d \in 2 .. MaxFeatures - 1 : IsPowerOfTwo(d)}

UnrolledFeatures == {d \in 2 .. MaxFeatures : IsPowerOfTwo(d)}

ByStride == {Program(s, FALSE, AnyFeatures) : s \in BOOLEAN}
ByStrideAndMemory ==
  {Program(FALSE, FALSE, AnyFeatures), Program(FALSE, TRUE, AnyFeatures),
   Program(TRUE, FALSE, AnyFeatures)}
Unrolled(programs) ==
  {[p EXCEPT !.features = d] : p \in programs, d \in UnrolledFeatures}

\* use_local_stride and use_local_memory.  The code compares the bytes of the
\* local buffers; here both the device and the buffers are measured in numbers,
\* which are all of one size.
UseLocalStride(dev) == dev.type \in {"cpu", "accelerator"}
UseLocalMemory(dev, needed) == dev.type = "gpu" /\ dev.local_memory > needed

\* The kernel at index log2(F) - 1 is for the last power of two up to F.
KernelFeatures(F) == CHOOSE d \in 1 .. F : IsPowerOfTwo(d) /\ F < 2 * d

\* What prepare builds.
MassUpdateGlobalAtomicPrograms == ByStride
MassUpdatePartGlobalPrograms == ByStride
MassUpdatePartLocalPrograms == ByStride
MassUpdatePartPrivatePrograms == ByStrideAndMemory
CentroidUpdateClusterMergePrograms == ByStrideAndMemory
CentroidUpdateFeatureSumPrograms == {Program(FALSE, FALSE, AnyFeatures)}
CentroidUpdateFeatureSumPardimPrograms == ByStrideAndMemory
LabelingUnrollVectorPrograms == Unrolled(ByStrideAndMemory)
FusedClusterMergePrograms == Unrolled(ByStrideAndMemory)
FusedFeatureSumPrograms == Unrolled(ByStrideAndMemory)

-----------------------------------------------------------------------------
(***************************************************************************)
(* Launches                                                                *)
(***************************************************************************)
\* A kernel over points: a range of one dimension of the configured size.
OverPoints(kernel, cfg, call, program, vec, out, locals) ==
  [kernel |-> kernel, groups |-> cfg.global \div cfg.local, local |-> cfg.local,
   cols |-> 1, lcols |-> 1, divides |-> cfg.global % cfg.local = 0,
   N |-> call.N, b |-> call.b, C |-> call.C, dims |-> call.F, vec |-> vec,
   F |-> IF program.features = AnyFeatures THEN call.F ELSE program.features,
   lstride |-> program.lstride, lmem |-> program.lmem, program |-> program,
   tf |-> 1, out |-> out, locals |-> locals]

\* A kernel over the cells of matrices.  The runtime chooses the local size;
\* work items of groups of their own are ordered the least.
OverCells(kernel, rows, cols, fst, snd) ==
  [kernel |-> kernel, groups |-> rows * cols, local |-> 1, cols |-> cols, lcols |-> 1,
   divides |-> TRUE, rows |-> rows, fst |-> fst, snd |-> snd, locals |-> <<>>]

\* Commands of the queue.
Command(kind, size, fst, snd) ==
  [kernel |-> kind, groups |-> 1, local |-> 1, cols |-> 1, lcols |-> 1,
   divides |-> TRUE, size |-> size, fst |-> fst, snd |-> snd, locals |-> <<>>]

\* needs: the sizes that global buffers are made to have, if they are smaller.
Phase(ok, programs, needs, launches) ==
  [ok |-> ok, programs |-> programs, needs |-> needs, launches |-> launches]

MatrixAdd(fst, snd, cols, rows) == <<OverCells("matrix_matrix", rows, cols, fst, snd)>>
MatrixRow(matrix, vector, cols, rows) ==
  <<OverCells("matrix_row_vector", rows, cols, matrix, vector)>>

\* Compact rounds halve the data in place, until one work group can do the
\* rest with the inner kernel; n is data_size.
ReduceLaunch(kernel, groups, local, n, rows, buf) ==
  [kernel |-> kernel, groups |-> groups, local |-> local, cols |-> 1, lcols |-> 1,
   divides |-> TRUE, size |-> n, rows |-> rows, buf |-> buf,
   locals |-> [l_data |-> 2 * WorkgroupSize]]

Compacts(n, rows) == n > rows /\ n > 2 * WorkgroupSize

Reduce(n, rows, buf) ==
  LET from[k \in 0 .. n] ==
        CASE Compacts(k, rows) ->
               <<ReduceLaunch("reduce_vector_parcol_compact", k \div 2, 1, k, rows, buf)>>
                 \o from[2 * (k \div 4)]
          [] ~Compacts(k, rows) /\ k # rows ->
               <<ReduceLaunch("reduce_vector_parcol_inner", 1, k \div 2, k, rows, buf)>>
          [] ~Compacts(k, rows) /\ k = rows -> <<>>
  IN  from[n]

\* The assertions of reduce.
ReduceOk(n, cols, rows, buf) ==
  /\ n >= cols * rows
  /\ \A i \in DOMAIN Reduce(n, rows, buf) :
       LET L == Reduce(n, rows, buf)[i]
       IN  IF L.kernel = "reduce_vector_parcol_compact"
           THEN L.size % 2 = 0 /\ L.groups % rows = 0
           ELSE WorkgroupSize % rows = 0

\* Reduce n numbers to a column and add it to the result.  The event of the
\* reduction goes into the wait list of the addition; it is empty when the
\* reduction had nothing to enqueue.
SumUp(result, tmp, n, rows, cols) ==
  Reduce(n, rows * cols, tmp) \o MatrixAdd(result, tmp, cols, rows)
SumUpOk(n, cols, rows, tmp) == ReduceOk(n, cols, rows, tmp) /\ Reduce(n, rows, tmp) # <<>>

-----------------------------------------------------------------------------
(***************************************************************************)
(* Mass updates                                                            *)
(***************************************************************************)
MassUpdateGlobalAtomic(cfg, dev, call) ==
  Phase(TRUE, MassUpdateGlobalAtomicPrograms, <<>>,
        <<OverPoints("histogram_global", cfg, call,
                     Program(UseLocalStride(dev), FALSE, AnyFeatures), 1, "masses", <<>>)>>)

NumWorkGroups(cfg) == cfg.global \div cfg.local

MassUpdatePartGlobal(cfg, dev, call) ==
  LET size == call.C * NumWorkGroups(cfg)
  IN  Phase(SumUpOk(size, NumWorkGroups(cfg), call.C, "tmp_masses"),
            MassUpdatePartGlobalPrograms, [tmp_masses |-> size],
            <<OverPoints("histogram_part_global", cfg, call,
                         Program(UseLocalStride(dev), FALSE, AnyFeatures), 1, "tmp_masses", <<>>)>>
              \o SumUp("masses", "tmp_masses", size, call.C, 1))

MassUpdatePartLocal(cfg, dev, call) ==
  LET size == call.C * NumWorkGroups(cfg)
  IN  Phase(SumUpOk(size, NumWorkGroups(cfg), call.C, "tmp_masses"),
            MassUpdatePartLocalPrograms, [tmp_masses |-> size],
            <<OverPoints("histogram_part_local", cfg, call,
                         Program(UseLocalStride(dev), FALSE, AnyFeatures), 1, "tmp_masses",
                         [l_bins |-> call.C])>>
              \o SumUp("masses", "tmp_masses", size, call.C, 1))

\* The local variable tmp_masses of the wrapper hides the member and is not used.
MassUpdatePartPrivate(cfg, dev, call) ==
  LET size == call.C * cfg.global
      local == call.C * cfg.local
  IN  Phase(SumUpOk(size, cfg.global, call.C, "tmp_masses"),
            MassUpdatePartPrivatePrograms, [tmp_masses |-> size],
            <<OverPoints("histogram_part_private", cfg, call,
                         Program(UseLocalStride(dev), UseLocalMemory(dev, local), AnyFeatures),
                         cfg.vec, "tmp_masses", [local_buf |-> local])>>
              \o SumUp("masses", "tmp_masses", size, call.C, 1))

-----------------------------------------------------------------------------
(***************************************************************************)
(* Centroid updates                                                        *)
(***************************************************************************)
CentroidUpdateClusterMerge(cfg, dev, call) ==
  LET size == cfg.global * call.C * call.F
      local == cfg.local * call.F * call.C
  IN  Phase(SumUpOk(size, cfg.global, call.C * call.F, "tmp_centroids"),
            CentroidUpdateClusterMergePrograms, [tmp_centroids |-> size],
            <<OverPoints("lloyd_cluster_merge", cfg, call,
                         Program(UseLocalStride(dev), UseLocalMemory(dev, local), AnyFeatures),
                         cfg.vec, "tmp_centroids", [l_centroids |-> local])>>
              \o SumUp(call.new, "tmp_centroids", size, call.C, call.F))

CentroidUpdateFeatureSum(cfg, dev, call) ==
  LET size == call.C * cfg.global
  IN  Phase(/\ call.F <= cfg.global
            /\ SumUpOk(size, cfg.global \div call.F, call.C * call.F, "tmp_centroids"),
            CentroidUpdateFeatureSumPrograms, [tmp_centroids |-> size],
            <<OverPoints("lloyd_feature_sum", cfg, call, Program(FALSE, FALSE, AnyFeatures), 1,
                         "tmp_centroids", <<>>)>>
              \o SumUp(call.new, "tmp_centroids", size, call.C, call.F))

\* The launch of pardim: tiles of features in the second dimension.
FeatureTiles(cfg, call) == call.F \div cfg.thread_features
LocalFeatures(cfg, call) == Min2(cfg.local_features, call.F)
PardimLocal(cfg, call) ==
  IF FeatureTiles(cfg, call) = 1 THEN <<cfg.local, cfg.local1>>
  ELSE <<cfg.local \div LocalFeatures(cfg, call), LocalFeatures(cfg, call)>>

CentroidUpdateFeatureSumPardim(cfg, dev, call) ==
  LET tiles == FeatureTiles(cfg, call)
      global0 == cfg.global \div tiles
      l == PardimLocal(cfg, call)
      size == global0 * call.C * call.F
      local == l[1] * l[2] * cfg.thread_features * call.C
      launch ==
        [OverPoints("lloyd_feature_sum_pardim", cfg, call,
                    Program(UseLocalStride(dev), UseLocalMemory(dev, local), AnyFeatures),
                    cfg.vec, "tmp_centroids", [l_centroids |-> local])
           EXCEPT !.groups = (global0 \div l[1]) * (tiles \div l[2]), !.local = l[1] * l[2],
                  !.cols = tiles, !.lcols = l[2], !.tf = cfg.thread_features,
                  !.divides = global0 % l[1] = 0 /\ tiles % l[2] = 0]
  IN  Phase(/\ IsPowerOfTwo(cfg.thread_features) /\ IsPowerOfTwo(cfg.local_features)
            /\ tiles > 0
            /\ call.F % (cfg.thread_features * LocalFeatures(cfg, call)) = 0
            /\ SumUpOk(size, global0, call.C * call.F, "tmp_centroids"),
            CentroidUpdateFeatureSumPardimPrograms, [tmp_centroids |-> size],
            <<launch>> \o SumUp(call.new, "tmp_centroids", size, call.C, call.F))

-----------------------------------------------------------------------------
(***************************************************************************)
(* Labelling and the fused strategies.  They read a copy of the centroids, *)
(* made by the same queue.                                                 *)
(***************************************************************************)
CopyCentroids(call) == <<Command("copy", call.C * call.F, call.old, "ro_centroids")>>

\* Numbers in the vectors that the items of a group cache, and the cells that
\* stand for them.
LocalPoints(cfg, call) == cfg.local * cfg.vec * call.F
LocalPointCells(cfg, call) == cfg.local * call.F

LabelingUnrollVector(cfg, dev, call) ==
  Phase(call.F <= MaxFeatures, LabelingUnrollVectorPrograms,
        [ro_centroids |-> call.C * call.F],
        CopyCentroids(call)
          \o <<OverPoints("lloyd_labeling_vp_clcp", cfg, call,
                          Program(UseLocalStride(dev), UseLocalMemory(dev, LocalPoints(cfg, call)),
                                  KernelFeatures(call.F)),
                          cfg.vec, "labels", [l_points |-> LocalPointCells(cfg, call)])>>)

\* The sums and masses of a fused kernel become the results of the call.
FusedResults(cfg, call, size) ==
  SumUp(call.new, "tmp_new_centroids", size, call.C, call.F)
    \o SumUp("masses", "new_masses", cfg.global * call.C, call.C, 1)

FusedOk(cfg, call, size, cols) ==
  /\ call.F <= MaxFeatures
  /\ SumUpOk(size, cols, call.C * call.F, "tmp_new_centroids")
  /\ SumUpOk(cfg.global * call.C, cfg.global, call.C, "new_masses")

FusedClusterMerge(cfg, dev, call) ==
  LET size == cfg.global * call.C * call.F
      centroids == cfg.local * call.C * call.F
      masses == cfg.local * call.C
      lmem == UseLocalMemory(dev, LocalPoints(cfg, call) + centroids + masses)
  IN  Phase(FusedOk(cfg, call, size, cfg.global), FusedClusterMergePrograms,
            [tmp_new_centroids |-> size, new_masses |-> cfg.global * call.C,
             ro_centroids |-> call.C * call.F],
            CopyCentroids(call)
              \o <<OverPoints("lloyd_fused_cluster_merge", cfg, call,
                              Program(UseLocalStride(dev), lmem, KernelFeatures(call.F)),
                              cfg.vec, "tmp_new_centroids",
                              [l_points |-> LocalPointCells(cfg, call),
                               l_centroids |-> centroids, l_masses |-> masses])>>
              \o FusedResults(cfg, call, size))

ThreadFeatures(cfg, call) ==
  IF cfg.local >= call.F THEN 1 ELSE call.F \div cfg.local

\* The local buffers; the labels are not counted when the memory is compared.
FusedFeatureSumLocals(cfg, call) ==
  [l_points |-> LocalPointCells(cfg, call),
   l_centroids |-> cfg.local * ThreadFeatures(cfg, call) * call.C,
   l_masses |-> cfg.local * call.C, l_labels |-> cfg.local]

FusedFeatureSum(cfg, dev, call) ==
  LET tf == ThreadFeatures(cfg, call)
      size == cfg.global * call.C * tf
      tiles == (cfg.global * tf) \div call.F
      locals == FusedFeatureSumLocals(cfg, call)
      lmem == UseLocalMemory(dev, LocalPoints(cfg, call) + locals.l_centroids + locals.l_masses)
  IN  Phase(FusedOk(cfg, call, size, tiles), FusedFeatureSumPrograms,
            [tmp_new_centroids |-> size, new_masses |-> cfg.global * call.C,
             ro_centroids |-> call.C * call.F],
            CopyCentroids(call)
              \o <<[OverPoints("lloyd_fused_feature_sum", cfg, call,
                               Program(UseLocalStride(dev), lmem, KernelFeatures(call.F)),
                               cfg.vec, "tmp_new_centroids", locals) EXCEPT !.tf = tf]>>
              \o FusedResults(cfg, call, size))

-----------------------------------------------------------------------------
(***************************************************************************)
(* What the kernels need and the wrappers do not assert: the sizes are     *)
(* powers of two, as in all configurations of the repository, there is     *)
(* more than one number to reduce, and where items meet at barriers, or    *)
(* cache points together, all of them have the same number of vectors.     *)
(***************************************************************************)
ConfigOK(cfg) == IsPowerOfTwo(cfg.global) /\ IsPowerOfTwo(cfg.local) /\ cfg.local <= cfg.global
ArgsOK(call) == IsPowerOfTwo(call.C) /\ IsPowerOfTwo(call.F) /\ call.N \in Nat

\* The points are whole vectors.
VectorsOK(cfg, call) == cfg.vec \in Nat \ {0} /\ call.N % cfg.vec = 0

\* A kernel is built for the features: numbers of them from 2.
UnrolledOK(call) == call.F > 1 /\ call.F <= MaxFeatures

\* The labelling strides over vectors: the blocks of the groups are whole ones.
LabelingOK(cfg, dev, call) ==
  /\ UnrolledOK(call) /\ VectorsOK(cfg, call)
  /\ UseLocalStride(dev) /\ cfg.vec # 1 => call.N % (cfg.vec * NumWorkGroups(cfg)) = 0

\* An item keeps all clusters: there is a column for every item.
ItemsOK(cfg, call) == cfg.global > 1 /\ VectorsOK(cfg, call)

FeatureSumOK(cfg, call) == call.F < cfg.global

\* Items of a row of tiles share barriers.
PardimOK(cfg, call) ==
  LET tiles == FeatureTiles(cfg, call)
      rows == cfg.global \div tiles
      features == LocalFeatures(cfg, call)
  IN  /\ IsPowerOfTwo(cfg.thread_features) /\ IsPowerOfTwo(cfg.local_features)
      /\ cfg.thread_features * features <= call.F /\ tiles < cfg.global
      /\ tiles = 1 => cfg.local1 = 1
      /\ tiles # 1 => features <= cfg.local /\ cfg.local \div features <= rows
      /\ cfg.vec \in Nat \ {0} /\ call.N % (cfg.vec * rows) = 0

FusedConfigOK(cfg, call) == UnrolledOK(call) /\ ItemsOK(cfg, call)

\* With LOCAL_STRIDE an item caches its points for the others of its tile.
FusedSumOK(cfg, dev, call) ==
  /\ FusedConfigOK(cfg, call)
  /\ (cfg.global * ThreadFeatures(cfg, call)) \div call.F > 1
  /\ UseLocalStride(dev) =>
       CeilDiv(call.N, NumWorkGroups(cfg)) % (cfg.vec * cfg.local) = 0
=============================================================================
