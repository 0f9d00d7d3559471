------------------------------ MODULE Kernels ------------------------------
(***************************************************************************)
(* The kernels of cl_kernels/ that the k-means clients use.                *)
(*                                                                         *)
(* The barriers of a kernel cut the run of a work item into intervals, and *)
(* Interval(L, w, j, m) is what interval j of item w does in launch L when *)
(* it finds memory m: the addresses it reads, the values it writes and the *)
(* numbers it adds atomically.  A loop without a barrier is summed up: an  *)
(* item that adds points to a cell one by one adds their sum.              *)
(*                                                                         *)
(* Memory is a function of addresses <<buffer, part, index>>: part is the  *)
(* work group for local buffers, the block for points and labels (they are *)
(* arguments of a call), 0 for other global buffers.  All matrices are     *)
(* column-major: ccoord2ind(dim, row, col) = dim * col + row.              *)
(***************************************************************************)
EXTENDS NDRange, Sequences, FiniteSets, FiniteSetsExt, TLC

\* What a cell holds that nobody has written, or that does not exist.
Junk == 30011

\* The quotients of a division are kept as multiples of 1/Unit; Unit is a
\* multiple of all masses.
CONSTANT Unit
ASSUME UnitAssumption == Unit \in Nat \ {0}
NaN == -1

Glob(buf, i) == <<buf, 0, i>>
InBlock(L, buf, i) == <<buf, L.b, i>>
Loc(w, buf, i) == <<buf, w[1], i>>

Val(m, a) == IF a \in DOMAIN m THEN m[a] ELSE Junk

\* f, and g where f is not defined.
Over(f, g) == [a \in DOMAIN f \cup DOMAIN g |-> IF a \in DOMAIN f THEN f[a] ELSE g[a]]

\* b to the power of k.
Power(b, k) ==
  LET p[i \in 0 .. k] == IF i = 0 THEN 1 ELSE b * p[i - 1]
  IN  p[k]

Clusters(L) == 0 .. L.C - 1
Features(L) == 0 .. L.F - 1

-----------------------------------------------------------------------------
(***************************************************************************)
(* Effects                                                                 *)
(***************************************************************************)
\* v(d) at address A(d), for every d in D
Place(D, A(_), v(_)) ==
  [a \in {A(d) : d \in D} |-> v(CHOOSE d \in D : A(d) = a)]

Effect(reads, writes) == [reads |-> reads, writes |-> writes, adds |-> <<>>]
Atomic(reads, adds) == [reads |-> reads, writes |-> <<>>, adds |-> adds]

Zero(D, A(_)) == Effect({}, Place(D, A, LAMBDA d : 0))

Accumulate(m, reads, D, A(_), v(_)) ==
  Effect(reads \cup {A(d) : d \in D}, Place(D, A, LAMBDA d : Val(m, A(d)) + v(d)))

CopyCells(m, D, from(_), to(_)) ==
  Effect({from(d) : d \in D}, Place(D, to, LAMBDA d : Val(m, from(d))))

Both(e, f) == Effect(e.reads \cup f.reads, Over(e.writes, f.writes))

-----------------------------------------------------------------------------
(***************************************************************************)
(* Points and labels                                                       *)
(***************************************************************************)
Label(L, m, q) == Val(m, InBlock(L, "labels", q))
Point(L, m, q, f) == Val(m, InBlock(L, "points", L.N * f + q))

LabelReads(L, S) == {InBlock(L, "labels", q) : q \in S}
PointReads(L, S, Fs) == {InBlock(L, "points", L.N * f + q) : q \in S, f \in Fs}
CentroidReads(L) == {Glob("ro_centroids", i) : i \in 0 .. L.C * L.F - 1}

\* A labelling is a function from points to clusters.
Labels(L, m, S) == [q \in S |-> Label(L, m, q)]

\* The first cluster at the smallest distance.  Squared distances are summed
\* over the features the kernel was built for; the centroids are those of the
\* read-only copy.  min_dist starts at CL_POINT_MAX, which stands for more than
\* any distance of whole numbers: the first cluster always replaces min_c, which
\* has no value before.
Closest(L, m, q) ==
  LET dist == [c \in Clusters(L) |->
        SumFunction([f \in Features(L) |->
          (Point(L, m, q, f) - Val(m, Glob("ro_centroids", L.C * f + c)))
            * (Point(L, m, q, f) - Val(m, Glob("ro_centroids", L.C * f + c)))])]
  IN  CHOOSE c \in Clusters(L) : \A d \in Clusters(L) :
        dist[c] < dist[d] \/ (dist[c] = dist[d] /\ c <= d)

\* Fault variant: a later cluster at the same distance wins.
ClosestLast(L, m, S) ==
  [q \in S |->
     LET c == Closest(L, m, q)
         same == {d \in Clusters(L) : \A f \in Features(L) :
                    Val(m, Glob("ro_centroids", L.C * f + d))
                      = Val(m, Glob("ro_centroids", L.C * f + c))}
     IN  CHOOSE d \in same : \A e \in same : e <= d]

\* Fault variant: min_dist starts at 0, as dist does.  No distance is smaller,
\* and min_c is stored as it was.
LabelledFromZero(L, m, S) == [q \in S |-> Junk]

Relabelled(L, m, S) == [q \in S |-> Closest(L, m, q)]

MassOf(lab, c) == Cardinality({q \in DOMAIN lab : lab[q] = c})

SumOf(L, m, lab, f, c) ==
  SumFunction([q \in {p \in DOMAIN lab : lab[p] = c} |-> Point(L, m, q, f)])

-----------------------------------------------------------------------------
(***************************************************************************)
(* Histograms: the mass update                                             *)
(***************************************************************************)
\* atomic_inc of the bin of every label
Increments(L, m, S, Bin(_)) ==
  LET lab == Labels(L, m, S)
  IN  Atomic(LabelReads(L, S),
             Place({lab[q] : q \in S}, Bin, LAMBDA c : MassOf(lab, c)))

\* Fault variant: the bins are not incremented atomically.
HistogramGlobalPlain(L, w, m) ==
  LET lab == Labels(L, m, Lanes(L, w))
  IN  Accumulate(m, LabelReads(L, DOMAIN lab), {lab[q] : q \in DOMAIN lab},
                 LAMBDA c : Glob(L.out, c), LAMBDA c : MassOf(lab, c))

HistogramGlobal(L, w, m) ==
  Increments(L, m, Lanes(L, w), LAMBDA c : Glob(L.out, c))

\* Bins that an item zeroes, or copies, for its group.
ShareOfBins(L, w) == {c \in Clusters(L) : c % L.local = w[2]}

HistogramPartGlobal(L, w, j, m) ==
  LET bin(c) == Glob(L.out, w[1] * L.C + c)
  IN  IF j = 0 THEN Zero(ShareOfBins(L, w), bin)
      ELSE Increments(L, m, Lanes(L, w), bin)

HistogramPartLocal(L, w, j, m) ==
  LET bin(c) == Loc(w, "l_bins", c)
  IN  CASE j = 0 -> Zero(ShareOfBins(L, w), bin)
        [] j = 1 -> Increments(L, m, Lanes(L, w), bin)
        [] j = 2 -> CopyCells(m, ShareOfBins(L, w), bin,
                              LAMBDA c : Glob(L.out, w[1] * L.C + c))

\* Bins of the item itself, without barriers.
HistogramPartPrivate(L, w, m) ==
  LET lab == Labels(L, m, Lanes(L, w))
      offset == w[1] * L.local * L.C
      result == Place(Clusters(L), LAMBDA c : Glob(L.out, offset + L.C * w[2] + c),
                      LAMBDA c : MassOf(lab, c))
      cached == Place(Clusters(L), LAMBDA c : Loc(w, "local_buf", L.local * c + w[2]),
                      LAMBDA c : MassOf(lab, c))
  IN  Effect(LabelReads(L, DOMAIN lab),
             IF L.lmem THEN Over(cached, result) ELSE result)

-----------------------------------------------------------------------------
(***************************************************************************)
(* Labelling                                                               *)
(***************************************************************************)
\* A cell of l_points caches a vector of one feature.  It is represented by
\* the index in g_points of the first number in it; an item that visits several
\* vectors overwrites its cells.
Cached(L, w, S) ==
  Place({f \in Features(L) : S # {}}, LAMBDA f : Loc(w, "l_points", L.local * f + w[2]),
        LAMBDA f : L.N * f + Max(S))

LloydLabelingVpClcp(L, w, m) ==
  LET new == Relabelled(L, m, Lanes(L, w))
      labels == Place(DOMAIN new, LAMBDA q : InBlock(L, "labels", q), LAMBDA q : new[q])
  IN  Effect(PointReads(L, DOMAIN new, Features(L)) \cup CentroidReads(L),
             IF L.lmem THEN Over(Cached(L, w, Starts(L, w)), labels) ELSE labels)

-----------------------------------------------------------------------------
(***************************************************************************)
(* The centroid update                                                     *)
(***************************************************************************)
\* A cell of a matrix of centroids is a pair of a cluster and a feature.
CentroidCells(L) == Clusters(L) \X Features(L)
Cell(L, d) == L.C * d[2] + d[1]

\* Sums of the item itself.
OwnCentroid(L, w, d) == Glob(L.out, Gid(L, w) * L.F * L.C + Cell(L, d))
OwnLocal(L, w, d) == Loc(w, "l_centroids", L.local * Cell(L, d) + w[2])

LloydClusterMerge(L, w, j, m) ==
  LET lab == Labels(L, m, Lanes(L, w))
      reads == LabelReads(L, DOMAIN lab) \cup PointReads(L, DOMAIN lab, Features(L))
      sum(d) == SumOf(L, m, lab, d[2], d[1])
      g(d) == OwnCentroid(L, w, d)
      l(d) == OwnLocal(L, w, d)
  IN  CASE ~L.lmem -> Effect(reads, Place(CentroidCells(L), g, sum))
        [] L.lmem /\ j = 0 -> Zero(CentroidCells(L), l)
        [] L.lmem /\ j = 1 -> Accumulate(m, reads, CentroidCells(L), l, sum)
        [] L.lmem /\ j = 2 -> CopyCells(m, CentroidCells(L), l, g)

LloydFeatureSum(L, w, m) ==
  LET lab == Labels(L, m, BlockPoints(L, w))
      f == FeatureOf(L, w)
      offset == L.C * L.F * PointBlockOf(L, w)
  IN  Effect(LabelReads(L, DOMAIN lab) \cup PointReads(L, DOMAIN lab, {f}),
             Place(Clusters(L), LAMBDA c : Glob(L.out, offset + L.C * f + c),
                   LAMBDA c : SumOf(L, m, lab, f, c)))

\* The k-th element of a set of numbers.
Nth(S, k) == CHOOSE x \in S : Cardinality({y \in S : y < x}) = k - 1

\* An item has L.tf features.  The barrier is in the loop over its vectors:
\* interval j adds the j-th vector and loads the labels of the next one.
LloydFeatureSumPardim(L, w, j, m) ==
  LET starts == Starts(L, w)
      last == Cardinality(starts)
      vector(k) == Nth(starts, k) .. Nth(starts, k) + L.vec - 1
      base == L.tf * Gid1(L, w)
      tile == Clusters(L) \X (0 .. L.tf - 1)
      g(d) == Glob(L.out, L.cols * Gid0(L, w) * L.tf * L.C + Cell(L, <<d[1], base + d[2]>>))
      l(d) == OwnLocal(L, w, d)
      sums(A(_)) ==
        IF j = 0 THEN Zero(tile, A)
        ELSE Accumulate(m, PointReads(L, vector(j), base .. base + L.tf - 1), tile, A,
                        LAMBDA d : SumOf(L, m, Labels(L, m, vector(j)), base + d[2], d[1]))
      step == IF L.lmem THEN sums(l) ELSE sums(g)
      loads == IF j < last THEN LabelReads(L, vector(j + 1)) ELSE {}
      back == IF L.lmem /\ j = last THEN Place(tile, g, LAMBDA d : step.writes[l(d)]) ELSE <<>>
  IN  Effect(step.reads \cup loads, Over(back, step.writes))

-----------------------------------------------------------------------------
(***************************************************************************)
(* Fused kernels: labels, masses and sums in one pass                      *)
(***************************************************************************)
OwnMass(L, w, c) == Glob("new_masses", Gid(L, w) * L.C + c)
OwnLocalMass(L, w, c) == Loc(w, "l_masses", L.local * c + w[2])

\* An item labels its points, counts and adds them, and writes back what it has
\* counted and added.
LloydFusedClusterMerge(L, w, j, m) ==
  LET new == Relabelled(L, m, Lanes(L, w))
      reads == PointReads(L, DOMAIN new, Features(L)) \cup CentroidReads(L)
      labels == Place(DOMAIN new, LAMBDA q : InBlock(L, "labels", q), LAMBDA q : new[q])
      sum(d) == SumOf(L, m, new, d[2], d[1])
      mass(c) == MassOf(new, c)
      g(d) == OwnCentroid(L, w, d)
      l(d) == OwnLocal(L, w, d)
      gm(c) == OwnMass(L, w, c)
      lm(c) == OwnLocalMass(L, w, c)
      local == Both(Accumulate(m, {}, CentroidCells(L), l, sum),
                    Accumulate(m, {}, Clusters(L), lm, mass))
      back == Over(Place(CentroidCells(L), g, LAMBDA d : local.writes[l(d)]),
                   Place(Clusters(L), gm, LAMBDA c : local.writes[lm(c)]))
  IN  CASE ~L.lmem ->
             Effect(reads, Over(labels, Over(Place(CentroidCells(L), g, sum),
                                             Place(Clusters(L), gm, mass))))
        [] L.lmem /\ j = 0 -> Both(Zero(CentroidCells(L), l), Zero(Clusters(L), lm))
        [] L.lmem /\ j = 1 ->
             Effect(reads \cup local.reads,
                    Over(Cached(L, w, Starts(L, w)), Over(labels, Over(local.writes, back))))

\* Fault variant: an item iterates over its own vectors.
ItemOffsets(L, w) == Starts(L, w)

\* Where a group of the fused feature sum is in its points: all items of a
\* group iterate together.
GroupOffsets(L, w) == Starts(L, <<w[1], 0>>)

\* A vector of labels in one cell of l_labels.
Pack(L, lab, p) == SumFunction([k \in 0 .. L.vec - 1 |-> lab[p + k] * Power(L.C, k)])
Unpack(L, v, k) == (v \div Power(L.C, k)) % L.C

\* Items form blocks of F/tf; a block adds the features of its share of the
\* points that the group has labelled.
TileBlock(L) == L.F \div L.tf
TileBlocks(L) == L.local \div TileBlock(L)
TileOf(L, w) == w[2] \div TileBlock(L)
TileFeatures(L, w) == {f \in Features(L) : f % TileBlock(L) = w[2] % TileBlock(L)}
TileOffset(L, w) == L.C * L.F * (w[1] * TileBlocks(L) + TileOf(L, w))

FusedZero(L, w) ==
  LET cells == 0 .. L.F * L.C - 1
      mine == {i \in cells : i % TileBlock(L) = w[2] % TileBlock(L)}
      share == {i \in 0 .. TileBlocks(L) * L.F * L.C - 1 : i % L.local = w[2]}
  IN  IF L.lmem
      THEN Both(Zero(share, LAMBDA i : Loc(w, "l_centroids", i)),
                Zero(Clusters(L), LAMBDA c : OwnLocalMass(L, w, c)))
      ELSE Both(Zero(mine, LAMBDA i : Glob(L.out, TileOffset(L, w) + i)),
                Zero(Clusters(L), LAMBDA c : OwnMass(L, w, c)))

\* The labelling phase of an iteration at offset o of the group.
FusedLabel(L, w, o, m) ==
  LET p == o + w[2] * L.vec
      new == Relabelled(L, m, p .. p + L.vec - 1)
      mass(c) == MassOf(new, c)
      labels == Place(DOMAIN new, LAMBDA q : InBlock(L, "labels", q), LAMBDA q : new[q])
      packed == Place({w[2]}, LAMBDA i : Loc(w, "l_labels", i), LAMBDA i : Pack(L, new, p))
      cached == IF L.lmem THEN Cached(L, w, {p}) ELSE <<>>
      counts == IF L.lmem
                THEN Accumulate(m, {}, Clusters(L), LAMBDA c : OwnLocalMass(L, w, c), mass)
                ELSE Accumulate(m, {}, Clusters(L), LAMBDA c : OwnMass(L, w, c), mass)
  IN  IF p < L.N - L.vec + 1
      THEN Effect(PointReads(L, DOMAIN new, Features(L)) \cup CentroidReads(L) \cup counts.reads,
                  Over(counts.writes, Over(labels, Over(packed, cached))))
      ELSE Effect({}, <<>>)

\* Fault variant: the share is not cut at the last point.
RealBlockPointsAll(L, w, o) ==
  LET n == L.local \div TileBlocks(L)
  IN  TileOf(L, w) * n .. TileOf(L, w) * n + n - 1

\* The vectors of the group that the block of an item adds up.
RealBlockPoints(L, w, o) ==
  LET n == L.local \div TileBlocks(L)
      first == o + TileOf(L, w) * n * L.vec
      real == IF first + n * L.vec >= L.N THEN SubSat(L.N, first) \div L.vec ELSE n
  IN  TileOf(L, w) * n .. TileOf(L, w) * n + real - 1

\* The centroid phase.  With GLOBAL_MEM the kernel takes the points of vector
\* bp at index o + bp.
FusedSum(L, w, o, m) ==
  LET lanes == RealBlockPoints(L, w, o) \X (0 .. L.vec - 1)
      labelOf(d) == Unpack(L, Val(m, Loc(w, "l_labels", d[1])), d[2])
      source(d, f) == IF L.lmem
                      THEN Val(m, Loc(w, "l_points", L.local * f + d[1])) + d[2]
                      ELSE L.N * f + o + d[1] + d[2]
      cells == {labelOf(d) : d \in lanes} \X TileFeatures(L, w)
      address(x) == IF L.lmem
                    THEN Loc(w, "l_centroids",
                             L.F * TileBlocks(L) * x[1] + L.F * TileOf(L, w) + x[2])
                    ELSE Glob(L.out, TileOffset(L, w) + Cell(L, x))
      added(x) == SumFunction([d \in {y \in lanes : labelOf(y) = x[1]} |->
                                 Val(m, InBlock(L, "points", source(d, x[2])))])
      pointReads == IF L.lmem
                    THEN UNION {{Loc(w, "l_points", L.local * f + d[1]) : d \in lanes} :
                                  f \in TileFeatures(L, w)}
                    ELSE UNION {{InBlock(L, "points", source(d, f)) : d \in lanes} :
                                  f \in TileFeatures(L, w)}
  IN  Accumulate(m, {Loc(w, "l_labels", d[1]) : d \in lanes} \cup pointReads,
                 cells, address, added)

FusedWriteBack(L, w, m) ==
  Both(CopyCells(m, Clusters(L), LAMBDA c : OwnLocalMass(L, w, c), LAMBDA c : OwnMass(L, w, c)),
       CopyCells(m, Clusters(L) \X TileFeatures(L, w),
                 LAMBDA x : Loc(w, "l_centroids",
                                L.F * TileBlocks(L) * x[1] + L.F * TileOf(L, w) + x[2]),
                 LAMBDA x : Glob(L.out, TileOffset(L, w) + Cell(L, x))))

\* Zero; then two intervals for each iteration of the group; then write back.
LloydFusedFeatureSum(L, w, j, m) ==
  LET offset == Nth(GroupOffsets(L, w), (j + 1) \div 2)
  IN  CASE j = 0 -> FusedZero(L, w)
        [] j > 2 * Cardinality(GroupOffsets(L, w)) -> FusedWriteBack(L, w, m)
        [] j \in 1 .. 2 * Cardinality(GroupOffsets(L, w)) /\ j % 2 = 1 ->
             FusedLabel(L, w, offset, m)
        [] j \in 1 .. 2 * Cardinality(GroupOffsets(L, w)) /\ j % 2 = 0 ->
             FusedSum(L, w, offset, m)

-----------------------------------------------------------------------------
(***************************************************************************)
(* Reduction and matrix operations                                         *)
(***************************************************************************)
\* Every item adds the elements that are a global size apart, in place.
ReduceCompact(L, w, m) ==
  LET gid == Gid(L, w)
      mine == {i \in gid .. L.size - 1 : (i - gid) % (L.groups * L.local) = 0}
  IN  Effect({Glob(L.buf, i) : i \in mine},
             Place({gid}, LAMBDA i : Glob(L.buf, i),
                   LAMBDA i : SumFunction([k \in mine |-> Val(m, Glob(L.buf, k))])))

\* The loop "remaining /= 2" of the inner kernel, from the local size on.
Remaining(L, j) == L.local \div Power(2, j - 1)

\* Fault variant: the last round is left out.
ReduceRoundsShort(L) == Cardinality({j \in 1 .. L.local : Remaining(L, j) > L.rows})

ReduceRounds(L) == Cardinality({j \in 1 .. L.local : Remaining(L, j) >= L.rows})

\* Elements of an asynchronous copy that this item transfers.
CopyShare(L, w, n) == {i \in 0 .. n - 1 : i % L.local = w[2]}

ReduceInner(L, w, j, m) ==
  LET l(i) == Loc(w, "l_data", i)
      g(i) == Glob(L.buf, i)
      half == IF j = 0 THEN 0 ELSE Remaining(L, j)
  IN  CASE j = 0 -> CopyCells(m, CopyShare(L, w, 2 * L.local), g, l)
        [] j > ReduceRounds(L) -> CopyCells(m, CopyShare(L, w, L.rows), l, g)
        [] j \in 1 .. ReduceRounds(L) ->
             Accumulate(m, {l(half + i) : i \in {w[2]} \cap (0 .. half - 1)},
                        {w[2]} \cap (0 .. half - 1), l, LAMBDA i : Val(m, l(half + i)))

MatrixMatrix(L, w, m) ==
  Accumulate(m, {Glob(L.snd, Gid(L, w))}, {Gid(L, w)},
             LAMBDA i : Glob(L.fst, i), LAMBDA i : Val(m, Glob(L.snd, i)))

\* The division of sums by masses.
Quotient(s, mass) ==
  CASE mass = 0 -> NaN
    [] mass > 0 /\ Unit % mass = 0 -> s * (Unit \div mass)
    [] OTHER -> Junk

MatrixRowVector(L, w, m) ==
  LET cell == Glob(L.fst, L.rows * Gid1(L, w) + Gid0(L, w))
      v == Glob(L.snd, Gid0(L, w))
  IN  Effect({cell, v}, [a \in {cell} |-> Quotient(Val(m, cell), Val(m, v))])

\* Copies and fills are commands of the queue; they act as one work item.
CopyBuffer(L, m) ==
  CopyCells(m, 0 .. L.size - 1, LAMBDA i : Glob(L.fst, i), LAMBDA i : Glob(L.snd, i))

FillBuffer(L) == Zero(0 .. L.size - 1, LAMBDA i : Glob(L.fst, i))

-----------------------------------------------------------------------------
\* The number of intervals of an item: one more than the barriers it reaches.
Intervals(L, w) ==
  CASE L.kernel = "histogram_part_global" -> 2
    [] L.kernel = "histogram_part_local" -> 3
    [] L.kernel = "lloyd_cluster_merge" -> IF L.lmem THEN 3 ELSE 1
    [] L.kernel = "lloyd_fused_cluster_merge" -> IF L.lmem THEN 2 ELSE 1
    [] L.kernel = "lloyd_feature_sum_pardim" -> Cardinality(Starts(L, w)) + 1
    [] L.kernel = "lloyd_fused_feature_sum" ->
         2 * Cardinality(GroupOffsets(L, w)) + (IF L.lmem THEN 2 ELSE 1)
    [] L.kernel = "reduce_vector_parcol_inner" -> ReduceRounds(L) + 2
    [] OTHER -> 1

\* Does the barrier after interval i order accesses to global memory?
GlobalFence(L, i) ==
  \/ L.kernel = "histogram_part_global"
  \/ L.kernel = "lloyd_fused_feature_sum" /\ ~L.lmem /\ i % 2 = 0

Interval(L, w, j, m) ==
  CASE L.kernel = "histogram_global" -> HistogramGlobal(L, w, m)
    [] L.kernel = "histogram_part_global" -> HistogramPartGlobal(L, w, j, m)
    [] L.kernel = "histogram_part_local" -> HistogramPartLocal(L, w, j, m)
    [] L.kernel = "histogram_part_private" -> HistogramPartPrivate(L, w, m)
    [] L.kernel = "lloyd_labeling_vp_clcp" -> LloydLabelingVpClcp(L, w, m)
    [] L.kernel = "lloyd_cluster_merge" -> LloydClusterMerge(L, w, j, m)
    [] L.kernel = "lloyd_feature_sum" -> LloydFeatureSum(L, w, m)
    [] L.kernel = "lloyd_feature_sum_pardim" -> LloydFeatureSumPardim(L, w, j, m)
    [] L.kernel = "lloyd_fused_cluster_merge" -> LloydFusedClusterMerge(L, w, j, m)
    [] L.kernel = "lloyd_fused_feature_sum" -> LloydFusedFeatureSum(L, w, j, m)
    [] L.kernel = "reduce_vector_parcol_compact" -> ReduceCompact(L, w, m)
    [] L.kernel = "reduce_vector_parcol_inner" -> ReduceInner(L, w, j, m)
    [] L.kernel = "matrix_matrix" -> MatrixMatrix(L, w, m)
    [] L.kernel = "matrix_row_vector" -> MatrixRowVector(L, w, m)
    [] L.kernel = "copy" -> CopyBuffer(L, m)
    [] L.kernel = "fill" -> FillBuffer(L)
=============================================================================
