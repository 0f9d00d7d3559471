------------------------------ MODULE NDRange ------------------------------
(***************************************************************************)
(* The geometry of a kernel launch, and how the work items of a launch     *)
(* share out the points: the loop heads that the kernels in cl_kernels/    *)
(* have in common.                                                         *)
(*                                                                         *)
(* A launch L has L.groups work groups of L.local items, L.N points and    *)
(* vectors of L.vec points.  In two dimensions L.cols is the global, and   *)
(* L.lcols the local size of the second one; both are 1 otherwise.  A work *)
(* item is a pair of its group and its index in the group.                 *)
(***************************************************************************)
EXTENDS Integers

CeilDiv(a, b) == (a + b - 1) \div b

\* sub_sat on unsigned numbers
SubSat(a, b) == IF a > b THEN a - b ELSE 0

Items(L) == (0 .. L.groups - 1) \X (0 .. L.local - 1)

\* get_global_id(0) of a launch in one dimension
Gid(L, w) == w[1] * L.local + w[2]

\* get_num_groups, get_group_id, get_local_size and get_local_id of the first
\* dimension; items and groups are numbered along the second one first.
GroupCols(L) == L.cols \div L.lcols
NumGroups0(L) == L.groups \div GroupCols(L)
Group0(L, w) == w[1] \div GroupCols(L)
LocalSize0(L) == L.local \div L.lcols
Lid0(L, w) == w[2] \div L.lcols
Gid0(L, w) == Group0(L, w) * LocalSize0(L) + Lid0(L, w)
GlobalSize0(L) == NumGroups0(L) * LocalSize0(L)

\* get_global_id(1)
Gid1(L, w) == (w[1] % GroupCols(L)) * L.lcols + (w[2] % L.lcols)

-----------------------------------------------------------------------------
\* The first points of the vectors an item visits when all items stride over
\* all points.  (NUM_POINTS - VEC_LEN + 1 is unsigned; there are at least
\* VEC_LEN - 1 points here, so it does not wrap around.)
GlobalStride(L, w) ==
  LET start == L.vec * Gid0(L, w)
  IN  {p \in start .. L.N - L.vec : (p - start) % (L.vec * GlobalSize0(L)) = 0}

\* LOCAL_STRIDE: every group has a block of its own, and its items stride over
\* the block.
BlockSize(L) ==
  LET b == CeilDiv(L.N, NumGroups0(L)) IN b - (b % L.vec)

RealBlockSize(L, g) ==
  IF g * BlockSize(L) + BlockSize(L) > L.N
  THEN SubSat(L.N, g * BlockSize(L))
  ELSE BlockSize(L)

\* Fault variant: the last block is as long as the others.
LocalStrideFull(L, w) ==
  LET first == Group0(L, w) * BlockSize(L)
      start == first + L.vec * Lid0(L, w)
  IN  {p \in start .. first + BlockSize(L) - 1 : (p - start) % (L.vec * LocalSize0(L)) = 0}

LocalStride(L, w) ==
  LET first == Group0(L, w) * BlockSize(L)
      start == first + L.vec * Lid0(L, w)
  IN  {p \in start .. first + RealBlockSize(L, Group0(L, w)) - 1 :
         (p - start) % (L.vec * LocalSize0(L)) = 0}

Starts(L, w) == IF L.lstride THEN LocalStride(L, w) ELSE GlobalStride(L, w)

\* All points of the vectors an item visits.
Lanes(L, w) == UNION {p .. p + L.vec - 1 : p \in Starts(L, w)}

\* lloyd_feature_sum_sequential: the points of a block of items with one item
\* for each feature.
PointBlocks(L) == (L.groups * L.local) \div L.F
FeatureOf(L, w) == Gid(L, w) % L.F
PointBlockOf(L, w) == Gid(L, w) \div L.F
BlockPoints(L, w) ==
  LET n == CeilDiv(L.N, PointBlocks(L))
      b == PointBlockOf(L, w)
      real == IF n * (b + 1) > L.N THEN SubSat(L.N, n * b) ELSE n
  IN  n * b .. n * b + real - 1
=============================================================================
