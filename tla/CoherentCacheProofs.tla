------------------------ MODULE CoherentCacheProofs ------------------------
(***************************************************************************)
(* The data of SimpleBufferCache, for every pool, object table and         *)
(* sequence of calls of a client that cuts each of its objects into blocks *)
(* of one size, as all clients of the repository do.                       *)
(***************************************************************************)
EXTENDS CoherentCache, BufferCacheProofs

\* A request that get can serve from an object of the given size.
Fits(size, r) == r[2] <= BufferSize /\ r[1] + r[2] <= size

Apart(r, q) == r[1] + r[2] <= q[1] \/ q[1] + q[2] <= r[1]

\* The client's ranges of an object are its blocks: two of them are the same
\* or do not overlap.
OneBlockSize ==
  \A choice \in ObjectChoices : \A oid \in DOMAIN choice : \A r, q \in Requests :
     Fits(choice[oid].size, r) /\ Fits(choice[oid].size, q) => r = q \/ Apart(r, q)

Filled(s) == cached[s] # NoBlock
BlockOf(s) == <<cached[s].bid, cached[s].len>>
Covers(s, oid, u) ==
  cached[s].oid = oid /\ u \in cached[s].bid .. cached[s].bid + cached[s].len - 1

-----------------------------------------------------------------------------
(***************************************************************************)
(* The inductive invariant                                                 *)
(***************************************************************************)
Data == [1 .. MaxObjects -> [Units -> Int]]

DataTypes ==
  /\ device \in {"cpu", "gpu"} /\ objects \in ObjectChoices
  /\ host \in Data /\ cur \in Data
  /\ dev \in [Slots -> [0 .. BufferSize - 1 -> Int]]

\* A slot holds one of the client's blocks, whole, of a registered object.
Placed ==
  \A s \in Slots : Filled(s) =>
     /\ cached[s].oid \in Oids
     /\ BlockOf(s) \in Requests
     /\ Fits(objects[cached[s].oid].size, BlockOf(s))

\* A descriptor names the whole block of its slot.
WholeBlocks == \A s \in Slots : Held(s) => Filled(s) /\ granted[s] = cached[s]

\* What nobody writes through a device buffer is current in host memory.
HostCurrent ==
  \A oid \in Oids : device = "cpu" \/ Immutable(oid) => host[oid] = cur[oid]

\* A device buffer holds the current version of its block.
DeviceCurrent ==
  device = "gpu" =>
    \A s \in Slots : Filled(s) /\ objects[cached[s].oid].mode # "Transient" =>
       \A u \in 0 .. cached[s].len - 1 :
          dev[s][u] = cur[cached[s].oid][cached[s].bid + u]

DInv ==
  IInv /\ DataTypes /\ Placed /\ WholeBlocks /\ HostCurrent /\ DeviceCurrent
    /\ UncachedIsCurrent

-----------------------------------------------------------------------------
(***************************************************************************)
(* Blocks                                                                  *)
(***************************************************************************)
\* The elements of a sequence.
LEMMA ElementOf == ASSUME NEW S, NEW s \in Seq(S), NEW i \in 1 .. Len(s) PROVE s[i] \in S
OBVIOUS

\* A sequence over a set is one over a larger set.
LEMMA SeqOver == ASSUME NEW S, NEW T, S \subseteq T, NEW s \in Seq(S) PROVE s \in Seq(T)
OBVIOUS

\* Objects that are registered are in the tables of versions, and no longer.
LEMMA ObjectTypes ==
  ASSUME DataTypes, NEW oid \in Oids
  PROVE  /\ oid \in 1 .. MaxObjects /\ oid \in DOMAIN objects
         /\ objects[oid].size \in 0 .. MaxUnits
         /\ objects[oid].mode \in ObjectMode
<1>1. /\ objects \in Seq([size : 0 .. MaxUnits, mode : ObjectMode])
      /\ Len(objects) <= MaxObjects
  BY DataAssumption DEF DataTypes
<1>2. oid \in 1 .. Len(objects) /\ oid \in DOMAIN objects
  BY <1>1 DEF Oids
<1>3. objects[oid] \in [size : 0 .. MaxUnits, mode : ObjectMode]
  BY <1>1, <1>2, ElementOf
<1>4. QED
  BY <1>1, <1>2, <1>3, CacheAssumption

\* The block in a slot is a piece of its object and fits into the slot.
LEMMA BlockTypes ==
  ASSUME DInv, NEW s \in Slots, Filled(s)
  PROVE  /\ cached[s].oid \in Oids
         /\ cached[s].bid \in Nat /\ cached[s].len \in Nat \ {0}
         /\ cached[s].len <= BufferSize
         /\ cached[s].bid + cached[s].len <= MaxUnits
<1>1. /\ cached[s].oid \in Oids
      /\ BlockOf(s) \in Requests
      /\ Fits(objects[cached[s].oid].size, BlockOf(s))
  BY DEF DInv, Placed
<1>2. cached[s].bid \in Nat /\ cached[s].len \in Nat \ {0}
  BY <1>1, CacheAssumption DEF BlockOf
<1>3. objects[cached[s].oid].size \in 0 .. MaxUnits
  BY <1>1, ObjectTypes DEF DInv
<1>4. QED
  BY <1>1, <1>2, <1>3, CacheAssumption, DataAssumption DEF Fits, BlockOf

\* A range that a client asks for is the block in a slot, or apart from it.
LEMMA BlockOrApart ==
  ASSUME DInv, OneBlockSize, NEW s \in Slots, Filled(s),
         NEW r \in Requests, Fits(objects[cached[s].oid].size, r)
  PROVE  /\ cached[s].bid = r[1] => cached[s].len = r[2]
         /\ cached[s].bid # r[1] => Apart(BlockOf(s), r)
<1>1. /\ cached[s].oid \in Oids
      /\ BlockOf(s) \in Requests
      /\ Fits(objects[cached[s].oid].size, BlockOf(s))
  BY DEF DInv, Placed
<1>2. cached[s].oid \in DOMAIN objects /\ objects \in ObjectChoices
  BY <1>1, ObjectTypes DEF DInv, DataTypes
<1>3. BlockOf(s) = r \/ Apart(BlockOf(s), r)
  BY <1>1, <1>2 DEF OneBlockSize
<1>4. /\ cached[s].bid \in Nat /\ cached[s].len \in Nat \ {0}
      /\ r[1] \in Nat /\ r[2] \in Nat \ {0}
  BY BlockTypes, CacheAssumption
<1>5. BlockOf(s)[1] = cached[s].bid /\ BlockOf(s)[2] = cached[s].len
  BY DEF BlockOf
<1>6. QED
  BY <1>3, <1>4, <1>5 DEF Apart

\* Two slots with blocks of one object cover different units.
LEMMA SlotsApart ==
  ASSUME DInv, OneBlockSize, NEW s \in Slots, NEW t \in Slots, s # t,
         Filled(s), Filled(t), cached[s].oid = cached[t].oid
  PROVE  Apart(BlockOf(s), BlockOf(t))
<1>1. cached[s].oid # -1
  BY BlockTypes DEF Oids
<1>2. cached[s].bid # cached[t].bid
  BY <1>1 DEF DInv, IInv, OneHome
<1>3. BlockOf(t) \in Requests /\ Fits(objects[cached[s].oid].size, BlockOf(t))
  BY DEF DInv, Placed
<1>4. BlockOf(t)[1] = cached[t].bid
  BY DEF BlockOf
<1>5. QED
  BY <1>2, <1>3, <1>4, BlockOrApart

\* A range that is served lies in its object.
LEMMA ServedFits ==
  ASSUME DInv, NEW oid \in Oids, NEW r \in Requests, ClientRange(oid, r),
         Accepted(oid, r[1], r[2])
  PROVE  Fits(objects[oid].size, r)
<1>1. objects[oid].size \in Nat /\ r[1] \in Nat /\ r[2] \in Nat
  BY ObjectTypes, CacheAssumption, DataAssumption DEF DInv
<1>2. QED
  BY <1>1 DEF ClientRange, Accepted, ValidPtr, Fits

-----------------------------------------------------------------------------
(***************************************************************************)
(* Steps                                                                   *)
(***************************************************************************)
\* A call that moves no data and changes no block keeps the invariant.
LEMMA QuietKeepsData ==
  ASSUME DInv, IInv', UNCHANGED <<device, objects, cached, dataVars>>,
         \A s \in Slots : Held(s)' => Filled(s) /\ granted'[s] = cached[s]
  PROVE  DInv'
BY DEF DInv, DataTypes, Placed, WholeBlocks, HostCurrent, DeviceCurrent, UncachedIsCurrent,
       dataVars, Filled, BlockOf, Oids, Immutable

\* What host memory is after a copy from a slot.
LEMMA CopiedBackUnits ==
  ASSUME DataTypes, NEW s \in Slots, NEW oid \in 1 .. MaxObjects,
         NEW off \in Nat, NEW len \in Nat, len <= BufferSize, off + len <= MaxUnits
  PROVE  LET h == CopiedBack(host, s, oid, off, len)
         IN  /\ h \in Data
             /\ \A o \in 1 .. MaxObjects : o # oid => h[o] = host[o]
             /\ \A u \in Units :
                  h[oid][u] = IF u \in off .. off + len - 1 THEN dev[s][u - off]
                              ELSE host[oid][u]
<1> DEFINE row == [u \in Units |-> IF u \in off .. off + len - 1 THEN dev[s][u - off]
                                   ELSE host[oid][u]]
<1>1. CopiedBack(host, s, oid, off, len) = [host EXCEPT ![oid] = row]
  BY DEF CopiedBack
<1>2. ASSUME NEW u \in Units PROVE row[u] \in Int
  <2>1. u \in off .. off + len - 1 => u - off \in 0 .. BufferSize - 1
    BY <1>2, CacheAssumption, DataAssumption DEF Units
  <2>2. QED
    BY <1>2, <2>1 DEF DataTypes, Data
<1>3. row \in [Units -> Int]
  BY <1>2
<1>4. QED
  BY <1>1, <1>3 DEF DataTypes, Data

\* Evicting slot s brings its block up to date in host memory: what is not
\* current there afterwards is in another slot.
LEMMA EvictedIsCurrent ==
  ASSUME DInv, NEW s \in Slots, device = "gpu"
  PROVE  LET h == HostAfterEvict(s)
         IN  /\ h \in Data
             /\ \A oid \in Oids : Immutable(oid) => h[oid] = host[oid]
             /\ \A oid \in Oids, u \in Units :
                  h[oid][u] = cur[oid][u] \/ \E t \in Slots : t # s /\ Covers(t, oid, u)
<1>1. CASE ~Filled(s)
  <2>1. HostAfterEvict(s) = host
    BY <1>1 DEF HostAfterEvict, Filled
  <2>2. \A oid \in Oids, u \in Units : ~Covers(s, oid, u)
    BY <1>1 DEF Filled, NoBlock, Covers, Oids
  <2>3. QED
    BY <2>1, <2>2 DEF DInv, DataTypes, UncachedIsCurrent, Covers
<1>2. CASE Filled(s) /\ Immutable(cached[s].oid)
  <2>1. HostAfterEvict(s) = host
    BY <1>2 DEF HostAfterEvict
  <2>2. \A oid \in Oids, u \in Units : Covers(s, oid, u) => host[oid][u] = cur[oid][u]
    BY <1>2 DEF DInv, HostCurrent, Covers
  <2>3. QED
    BY <2>1, <2>2 DEF DInv, DataTypes, UncachedIsCurrent, Covers
<1>3. CASE Filled(s) /\ ~Immutable(cached[s].oid)
  <2> DEFINE o == cached[s].oid
             b == cached[s].bid
             n == cached[s].len
             h == HostAfterEvict(s)
  <2>1. /\ o \in Oids /\ o \in 1 .. MaxObjects
        /\ b \in Nat /\ n \in Nat /\ n <= BufferSize /\ b + n <= MaxUnits
        /\ objects[o].mode \in ObjectMode
    BY <1>3, BlockTypes, ObjectTypes DEF DInv
  <2>2. (CHOOSE f \in Slots : FoundAt(f, o, b)) = s
    <3>1. FoundAt(s, o, b)
      BY <2>1, FoundWhereHeld DEF DInv, IInv, Oids
    <3>2. QED
      BY <3>1, FoundOnce
  <2>3. h = CopiedBack(host, s, o, b, n)
    BY <1>3, <2>2 DEF HostAfterEvict, Filled
  <2>4. /\ h \in Data
        /\ \A x \in 1 .. MaxObjects : x # o => h[x] = host[x]
        /\ \A u \in Units : h[o][u] = IF u \in b .. b + n - 1 THEN dev[s][u - b]
                                      ELSE host[o][u]
    BY <2>1, <2>3, CopiedBackUnits DEF DInv
  <2>5. objects[o].mode # "Transient"
    BY <1>3 DEF Immutable
  <2>6. ASSUME NEW u \in b .. b + n - 1 PROVE dev[s][u - b] = cur[o][u]
    <3>1. u - b \in 0 .. n - 1 /\ b + (u - b) = u
      BY <2>1, <2>6
    <3>2. dev[s][u - b] = cur[o][b + (u - b)]
      BY <1>3, <2>5, <3>1 DEF DInv, DeviceCurrent
    <3>3. QED
      BY <3>1, <3>2
  <2> HIDE DEF h, o, b, n
  <2>7. ASSUME NEW oid \in Oids, NEW u \in Units
        PROVE  h[oid][u] = cur[oid][u] \/ \E t \in Slots : t # s /\ Covers(t, oid, u)
    <3>1. oid \in 1 .. MaxObjects
      BY ObjectTypes DEF DInv
    <3>2. CASE oid = o /\ u \in b .. b + n - 1
      BY <2>4, <2>6, <3>2
    <3>3. CASE ~(oid = o /\ u \in b .. b + n - 1)
      <4>1. h[oid][u] = host[oid][u]
        BY <2>4, <3>1, <3>3
      <4>2. ~Covers(s, oid, u)
        BY <3>3 DEF Covers, o, b, n
      <4>3. QED
        BY <4>1, <4>2 DEF DInv, UncachedIsCurrent, Covers
    <3>4. QED
      BY <3>2, <3>3
  <2>8. \A oid \in Oids : Immutable(oid) => h[oid] = host[oid]
    BY <1>3, <2>4, ObjectTypes DEF DInv, o
  <2>9. QED
    BY <2>4, <2>7, <2>8 DEF h
<1>4. QED
  BY <1>1, <1>2, <1>3

\* A fill keeps the invariant: the block evicted is in host memory before the
\* new one is loaded from there, and no other slot covers the new one.
LEMMA FillKeepsData ==
  ASSUME DInv, IInv', OneBlockSize, NEW s \in Slots, NEW oid \in Oids, NEW r \in Requests,
         ClientRange(oid, r), NewFill(s, oid, r[1], r[2]), Load(s, oid, r[1], r[2]),
         UNCHANGED cur
  PROVE  DInv'
<1> DEFINE off == r[1]
           len == r[2]
<1>1. /\ UNCHANGED <<device, objects>> /\ ~InCache(oid, off)
      /\ cached' = [cached EXCEPT ![s] = [oid |-> oid, bid |-> off, len |-> len]]
      /\ granted' = [granted EXCEPT ![s] = [oid |-> oid, bid |-> off, len |-> len]]
      /\ users' = [users EXCEPT ![s] = users[s] + 1]
      /\ Accepted(oid, off, len)
  BY DEF NewFill, Fill, HandOut
<1>2. /\ Fits(objects[oid].size, r) /\ objects[oid].size \in 0 .. MaxUnits
      /\ oid \in 1 .. MaxObjects /\ off \in Nat /\ len \in Nat \ {0}
      /\ len <= BufferSize /\ off + len <= MaxUnits
      /\ objects[oid].mode \in ObjectMode
  BY <1>1, ServedFits, ObjectTypes, CacheAssumption, DataAssumption DEF DInv, Fits
<1>3. /\ cached \in [Slots -> Block] /\ granted \in [Slots -> Block] /\ users \in [Slots -> Nat]
  BY DEF DInv, IInv, TypeOK
<1>4. /\ cached'[s] = [oid |-> oid, bid |-> off, len |-> len]
      /\ granted'[s] = cached'[s]
  BY <1>1, <1>3
<1>5. ASSUME NEW t \in Slots, t # s
      PROVE  cached'[t] = cached[t] /\ granted'[t] = granted[t] /\ users'[t] = users[t]
  BY <1>1, <1>3, <1>5
<1>6. Oids' = Oids /\ \A x : Immutable(x)' <=> Immutable(x)
  BY <1>1 DEF Oids, Immutable
<1>7. Placed'
  <2>1. ASSUME NEW t \in Slots, Filled(t)'
        PROVE  (/\ cached[t].oid \in Oids
                /\ BlockOf(t) \in Requests
                /\ Fits(objects[cached[t].oid].size, BlockOf(t)))'
    <3>1. CASE t = s
      <4>1. r = <<r[1], r[2]>>
        BY CacheAssumption
      <4>2. QED
        BY <1>1, <1>2, <1>4, <1>6, <3>1, <4>1 DEF BlockOf, Fits
    <3>2. CASE t # s
      BY <1>1, <1>5, <1>6, <2>1, <3>2 DEF DInv, Placed, BlockOf, Filled, Fits
    <3>3. QED
      BY <3>1, <3>2
  <2>2. QED
    BY <2>1 DEF Placed
<1>8. WholeBlocks'
  BY <1>2, <1>4, <1>5 DEF DInv, WholeBlocks, Held, Filled, NoBlock
\* No other slot has a unit of the new block.
<1>9. ASSUME NEW t \in Slots, t # s, NEW u \in off .. off + len - 1
      PROVE  ~Covers(t, oid, u)
  <2>1. SUFFICES ASSUME Covers(t, oid, u) PROVE FALSE
    OBVIOUS
  <2>2. cached[t].oid = oid /\ Filled(t)
    BY <2>1 DEF Covers, Filled, NoBlock, Oids
  <2>3. cached[t].bid # off
    BY <1>1, <2>2 DEF InCache, Holds
  <2>4. Apart(BlockOf(t), r)
    BY <1>2, <2>2, <2>3, BlockOrApart
  <2>5. cached[t].bid \in Nat /\ cached[t].len \in Nat
    BY <2>2, BlockTypes
  <2>6. QED
    BY <1>2, <1>9, <2>1, <2>4, <2>5 DEF Apart, Covers, BlockOf
<1>10. CASE device = "cpu"
  <2>1. UNCHANGED <<host, dev, cur>>
    BY <1>10 DEF Load, HostAfterEvict
  <2>2. DataTypes' /\ HostCurrent' /\ DeviceCurrent'
    BY <1>1, <1>6, <1>10, <2>1 DEF DInv, DataTypes, HostCurrent, DeviceCurrent
  <2>3. UncachedIsCurrent'
    BY <1>6, <1>10, <2>1 DEF DInv, HostCurrent, UncachedIsCurrent
  <2>4. QED
    BY <1>7, <1>8, <2>2, <2>3 DEF DInv
<1>11. CASE device = "gpu"
  <2>1. host' = HostAfterEvict(s)
    BY DEF Load
  <2>2. /\ host' \in Data
        /\ \A x \in Oids : Immutable(x) => host'[x] = host[x]
        /\ \A x \in Oids, u \in Units :
             host'[x][u] = cur[x][u] \/ \E t \in Slots : t # s /\ Covers(t, x, u)
    BY <1>11, <2>1, EvictedIsCurrent
  <2>3. ASSUME NEW u \in 0 .. len - 1
        PROVE  host'[oid][off + u] = cur[oid][off + u] /\ host'[oid][off + u] \in Int
    <3>1. off + u \in off .. off + len - 1 /\ off + u \in Units
      BY <1>2, <2>3, DataAssumption DEF Units
    <3>2. host'[oid][off + u] = cur[oid][off + u]
      BY <1>9, <2>2, <3>1
    <3>3. QED
      BY <1>2, <2>2, <3>1, <3>2 DEF Data
  <2>4. HostCurrent' /\ UncachedIsCurrent'
    <3>1. HostCurrent'
      BY <1>1, <1>6, <1>11, <2>2 DEF DInv, HostCurrent
    <3>2. UncachedIsCurrent'
      BY <1>5, <1>6, <2>2 DEF UncachedIsCurrent, Covers
    <3>3. QED
      BY <3>1, <3>2
  <2>5. CASE objects[oid].mode = "Transient"
    <3>1. dev' = dev
      BY <2>5 DEF Load
    <3>2. DataTypes'
      BY <1>1, <2>2, <3>1 DEF DInv, DataTypes
    <3>3. DeviceCurrent'
      BY <1>1, <1>4, <1>5, <2>5, <3>1 DEF DInv, DeviceCurrent, Filled
    <3>4. QED
      BY <1>7, <1>8, <2>4, <3>2, <3>3 DEF DInv
  <2>6. CASE objects[oid].mode # "Transient"
    <3> DEFINE row == [u \in DOMAIN dev[s] |-> IF u < len THEN host'[oid][off + u] ELSE dev[s][u]]
    <3>1. dev' = [dev EXCEPT ![s] = row]
      BY <1>11, <2>6 DEF Load
    <3>2. dev \in [Slots -> [0 .. BufferSize - 1 -> Int]] /\ DOMAIN dev[s] = 0 .. BufferSize - 1
      BY DEF DInv, DataTypes
    <3>3. ASSUME NEW u \in 0 .. BufferSize - 1
          PROVE  row[u] \in Int /\ (u < len => row[u] = cur[oid][off + u])
      <4>1. u < len => u \in 0 .. len - 1
        BY <1>2, <3>3
      <4>2. dev[s][u] \in Int
        BY <3>2, <3>3
      <4>3. QED
        BY <2>3, <3>2, <3>3, <4>1, <4>2
    <3>4. row \in [0 .. BufferSize - 1 -> Int]
      BY <3>2, <3>3
    <3> HIDE DEF row
    <3>5. dev'[s] = row /\ \A t \in Slots : t # s => dev'[t] = dev[t]
      BY <3>1, <3>2
    <3>6. DataTypes'
      BY <1>1, <2>2, <3>1, <3>2, <3>4 DEF DInv, DataTypes
    <3>7. DeviceCurrent'
      <4>1. ASSUME NEW t \in Slots, Filled(t)', (objects[cached[t].oid].mode # "Transient")',
                   NEW u \in 0 .. cached'[t].len - 1
            PROVE  dev'[t][u] = cur'[cached'[t].oid][cached'[t].bid + u]
        <5>1. CASE t = s
          <6>1. u \in 0 .. BufferSize - 1 /\ u < len
            BY <1>2, <1>4, <4>1, <5>1, CacheAssumption
          <6>2. QED
            BY <1>4, <3>3, <3>5, <5>1, <6>1
        <5>2. CASE t # s
          BY <1>1, <1>5, <1>11, <3>5, <4>1, <5>2 DEF DInv, DeviceCurrent, Filled
        <5>3. QED
          BY <5>1, <5>2
      <4>2. QED
        BY <4>1 DEF DeviceCurrent
    <3>8. QED
      BY <1>7, <1>8, <2>4, <3>6, <3>7 DEF DInv
  <2>7. QED
    BY <2>5, <2>6
<1>12. QED
  BY <1>10, <1>11 DEF DInv, DataTypes

\* The range that read copies back is the block of the slot, and afterwards it
\* is current in host memory.
LEMMA CopiedIsCurrent ==
  ASSUME DInv, OneBlockSize, device = "gpu", NEW s \in Slots, NEW oid \in Oids,
         NEW r \in Requests, ClientRange(oid, r), ReadBack(s, oid, r[1], r[2])
  PROVE  LET h == CopiedBack(host, s, oid, r[1], r[2])
         IN  /\ h \in Data
             /\ \A x \in Oids : Immutable(x) => h[x] = host[x]
             /\ \A x \in Oids, u \in Units : h[x][u] = host[x][u] \/ h[x][u] = cur[x][u]
             /\ \A u \in r[1] .. r[1] + r[2] - 1 : h[oid][u] = cur[oid][u]
<1> DEFINE off == r[1]
           len == r[2]
           h == CopiedBack(host, s, oid, off, len)
<1>1. /\ Fits(objects[oid].size, r) /\ objects[oid].size \in 0 .. MaxUnits
      /\ oid \in 1 .. MaxObjects /\ off \in Nat /\ len \in Nat \ {0}
      /\ len <= BufferSize /\ off + len <= MaxUnits
      /\ objects[oid].mode \in ObjectMode
  BY ServedFits, ObjectTypes, CacheAssumption, DataAssumption DEF DInv, Fits, ReadBack
<1>2. /\ cached[s].oid = oid /\ cached[s].bid = off /\ Filled(s)
      /\ ~Immutable(oid)
  BY DEF ReadBack, FoundAt, Holds, Filled, NoBlock, Oids
<1>3. cached[s].len = len
  BY <1>1, <1>2, BlockOrApart
<1>4. /\ h \in Data
      /\ \A x \in 1 .. MaxObjects : x # oid => h[x] = host[x]
      /\ \A u \in Units : h[oid][u] = IF u \in off .. off + len - 1 THEN dev[s][u - off]
                                      ELSE host[oid][u]
  BY <1>1, CopiedBackUnits DEF DInv
<1>5. ASSUME NEW u \in off .. off + len - 1 PROVE u \in Units /\ h[oid][u] = cur[oid][u]
  <2>1. u - off \in 0 .. len - 1 /\ off + (u - off) = u /\ u \in Units
    BY <1>1, <1>5, DataAssumption DEF Units
  <2>2. dev[s][u - off] = cur[oid][off + (u - off)]
    BY <1>2, <1>3, <2>1 DEF DInv, DeviceCurrent, Immutable
  <2>3. QED
    BY <1>4, <1>5, <2>1, <2>2
<1> HIDE DEF h
<1>6. ASSUME NEW x \in Oids, NEW u \in Units
      PROVE  h[x][u] = host[x][u] \/ h[x][u] = cur[x][u]
  <2>1. CASE x = oid
    BY <1>4, <1>5, <2>1
  <2>2. CASE x # oid
    BY <1>4, <2>2, ObjectTypes DEF DInv
  <2>3. QED
    BY <2>1, <2>2
<1>7. \A x \in Oids : Immutable(x) => h[x] = host[x]
  BY <1>2, <1>4, ObjectTypes DEF DInv
<1>8. QED
  BY <1>4, <1>5, <1>6, <1>7 DEF h

\* A read keeps the invariant.
LEMMA ReadKeepsData ==
  ASSUME DInv, IInv', OneBlockSize, NEW s \in Slots, NEW oid \in Oids, NEW r \in Requests,
         ClientRange(oid, r), ReadBack(s, oid, r[1], r[2]), CopyBack(s, oid, r[1], r[2]),
         UNCHANGED cur
  PROVE  DInv'
<1>1. UNCHANGED <<device, objects, cached, granted, users, dev, cur>>
  BY DEF ReadBack, Return, CopyBack
<1>2. WholeBlocks
  BY DEF DInv
<1>3. CASE device = "cpu"
  <2>1. host' = host
    BY <1>3 DEF CopyBack
  <2>2. QED
    BY <1>1, <1>2, <2>1, QuietKeepsData DEF dataVars, WholeBlocks, Held
<1>4. CASE device = "gpu"
  <2>1. host' = CopiedBack(host, s, oid, r[1], r[2])
    BY <1>4 DEF CopyBack
  <2>2. /\ host' \in Data
        /\ \A x \in Oids : Immutable(x) => host'[x] = host[x]
        /\ \A x \in Oids, u \in Units : host'[x][u] = host[x][u] \/ host'[x][u] = cur[x][u]
    BY <1>4, <2>1, CopiedIsCurrent
  <2>3. DataTypes' /\ Placed' /\ WholeBlocks' /\ DeviceCurrent'
    BY <1>1, <2>2 DEF DInv, DataTypes, Placed, WholeBlocks, DeviceCurrent, Filled, BlockOf,
                      Oids, Held
  <2>4. HostCurrent'
    BY <1>1, <1>4, <2>2 DEF DInv, HostCurrent, Oids, Immutable
  <2>5. UncachedIsCurrent'
    BY <1>1, <2>2 DEF DInv, UncachedIsCurrent, Oids
  <2>6. QED
    BY <2>3, <2>4, <2>5 DEF DInv
<1>5. QED
  BY <1>3, <1>4 DEF DInv, DataTypes

\* A kernel keeps the invariant: its descriptor names a whole block, which no
\* other slot holds a unit of.
LEMMA WriteKeepsData ==
  ASSUME DInv, IInv', OneBlockSize, NEW s \in Slots, NEW v \in 1 .. MaxVersion,
         KernelWrite(s, v)
  PROVE  DInv'
<1> DEFINE o == cached[s].oid
           b == cached[s].bid
           n == cached[s].len
           Written(x) == [u \in Units |-> IF u \in b .. b + n - 1 THEN v ELSE x[u]]
<1>1. UNCHANGED <<device, objects, cached, granted, users>>
  BY DEF KernelWrite, cacheVars
<1>2. granted[s] = cached[s]
  BY DEF KernelWrite, DInv, WholeBlocks
<1>3. objects[o].mode = "ReadWrite"
  BY <1>2 DEF KernelWrite
<1>4. Filled(s)
  BY DEF KernelWrite, DInv, WholeBlocks
<1>5. /\ o \in Oids /\ o \in 1 .. MaxObjects /\ b \in Nat /\ n \in Nat \ {0}
      /\ n <= BufferSize /\ b + n <= MaxUnits
  BY <1>4, BlockTypes, ObjectTypes DEF DInv
<1>6. cur' = [cur EXCEPT ![o] = Written(cur[o])]
  BY <1>2 DEF KernelWrite
<1>7. v \in Int
  BY DataAssumption
<1>8. Written(cur[o]) \in [Units -> Int] /\ Written(host[o]) \in [Units -> Int]
  BY <1>5, <1>7 DEF DInv, DataTypes, Data
<1>9. /\ cur' \in Data /\ cur'[o] = Written(cur[o])
      /\ \A x \in 1 .. MaxObjects : x # o => cur'[x] = cur[x]
  BY <1>5, <1>6, <1>8 DEF DInv, DataTypes, Data
<1>10. Placed' /\ WholeBlocks'
  BY <1>1 DEF DInv, Placed, WholeBlocks, Filled, BlockOf, Oids, Held
<1>11. CASE device = "cpu"
  <2>1. host' = [host EXCEPT ![o] = Written(host[o])] /\ dev' = dev
    BY <1>2, <1>11 DEF KernelWrite
  <2>2. /\ host' \in Data /\ host'[o] = Written(host[o])
        /\ \A x \in 1 .. MaxObjects : x # o => host'[x] = host[x]
    BY <1>5, <1>8, <2>1 DEF DInv, DataTypes, Data
  <2>3. \A x \in Oids : host[x] = cur[x]
    BY <1>11 DEF DInv, HostCurrent
  <2>4. \A x \in Oids : host'[x] = cur'[x]
    BY <1>5, <1>9, <2>2, <2>3, ObjectTypes DEF DInv
  <2>5. DataTypes'
    BY <1>1, <1>9, <2>1, <2>2 DEF DInv, DataTypes
  <2>6. HostCurrent' /\ UncachedIsCurrent' /\ DeviceCurrent'
    BY <1>1, <1>11, <2>4 DEF HostCurrent, UncachedIsCurrent, DeviceCurrent, Oids
  <2>7. QED
    BY <1>10, <2>5, <2>6 DEF DInv
<1>12. CASE device = "gpu"
  <2> DEFINE row == [u \in DOMAIN dev[s] |-> IF u < n THEN v ELSE dev[s][u]]
  <2>1. dev' = [dev EXCEPT ![s] = row] /\ host' = host
    BY <1>2, <1>12 DEF KernelWrite
  <2>2. dev \in [Slots -> [0 .. BufferSize - 1 -> Int]] /\ DOMAIN dev[s] = 0 .. BufferSize - 1
    BY DEF DInv, DataTypes
  <2>3. ASSUME NEW u \in 0 .. BufferSize - 1
        PROVE  row[u] \in Int /\ (u < n => row[u] = v)
    <3>1. dev[s][u] \in Int
      BY <2>2, <2>3
    <3>2. QED
      BY <1>7, <2>2, <2>3, <3>1
  <2>4. row \in [0 .. BufferSize - 1 -> Int]
    BY <2>2, <2>3
  <2> HIDE DEF row
  <2>5. dev'[s] = row /\ \A t \in Slots : t # s => dev'[t] = dev[t]
    BY <2>1, <2>2
  <2>6. DataTypes'
    BY <1>1, <1>9, <2>1, <2>2, <2>4 DEF DInv, DataTypes
  <2>7. HostCurrent'
    BY <1>1, <1>3, <1>9, <1>12, <2>1, ObjectTypes DEF DInv, HostCurrent, Oids, Immutable
  <2>8. UncachedIsCurrent'
    <3>1. ASSUME NEW x \in Oids, NEW u \in Units
          PROVE  cur'[x][u] = cur[x][u] \/ Covers(s, x, u)
      <4>1. x \in 1 .. MaxObjects
        BY ObjectTypes DEF DInv
      <4>2. QED
        BY <1>9, <4>1 DEF Covers
    <3>2. QED
      BY <1>1, <2>1, <3>1 DEF DInv, UncachedIsCurrent, Covers, Oids
  <2>9. DeviceCurrent'
    <3>1. ASSUME NEW t \in Slots, Filled(t), objects[cached[t].oid].mode # "Transient",
                 NEW u \in 0 .. cached[t].len - 1
          PROVE  dev'[t][u] = cur'[cached[t].oid][cached[t].bid + u]
      <4>1. /\ cached[t].oid \in Oids /\ cached[t].oid \in 1 .. MaxObjects
            /\ cached[t].bid \in Nat /\ cached[t].len \in Nat
            /\ cached[t].len <= BufferSize
            /\ cached[t].bid + cached[t].len <= MaxUnits
        BY <3>1, BlockTypes, ObjectTypes DEF DInv
      <4>2. cached[t].bid + u \in Units /\ u \in 0 .. BufferSize - 1
        <5>1. u \in Int /\ 0 <= u /\ u < cached[t].len
          BY <3>1, <4>1
        <5>2. QED
          BY <4>1, <5>1, CacheAssumption, DataAssumption DEF Units
      <4>3. CASE t = s
        <5>1. b + u \in b .. b + n - 1 /\ u < n
          BY <1>5, <3>1, <4>3
        <5>2. dev'[s][u] = v
          BY <2>3, <2>5, <4>2, <5>1
        <5>3. cur'[o][b + u] = v
          BY <1>9, <4>2, <4>3, <5>1
        <5>4. QED
          BY <4>3, <5>2, <5>3
      <4>4. CASE t # s
        <5>1. dev'[t][u] = cur[cached[t].oid][cached[t].bid + u]
          BY <1>12, <2>5, <3>1, <4>4 DEF DInv, DeviceCurrent
        <5>2. CASE cached[t].oid # o
          BY <1>9, <4>1, <5>1, <5>2
        <5>3. CASE cached[t].oid = o
          <6>1. Apart(BlockOf(s), BlockOf(t))
            BY <1>4, <3>1, <4>4, <5>3, SlotsApart
          <6>2. cached[t].bid + u \notin b .. b + n - 1
            BY <1>5, <3>1, <4>1, <6>1 DEF Apart, BlockOf
          <6>3. cur'[o][cached[t].bid + u] = cur[o][cached[t].bid + u]
            BY <1>9, <4>2, <6>2
          <6>4. QED
            BY <5>1, <5>3, <6>3
        <5>4. QED
          BY <5>2, <5>3
      <4>5. QED
        BY <4>3, <4>4
    <3>2. QED
      BY <1>1, <3>1 DEF DeviceCurrent, Filled
  <2>10. QED
    BY <1>10, <2>6, <2>7, <2>8, <2>9 DEF DInv
<1>13. QED
  BY <1>11, <1>12 DEF DInv, DataTypes

-----------------------------------------------------------------------------
(***************************************************************************)
(* The specification                                                       *)
(***************************************************************************)
\* The calls of this client are calls of BufferCache.
LEMMA CallsAreCacheCalls ==
  ASSUME DInv, DataNext
  PROVE  IInv'
<1>1. IInv /\ ret \in {-1, 0, 1} /\ device \in {"none", "cpu", "gpu"}
      /\ objects \in Seq([size : Nat, mode : ObjectMode])
  BY DEF DInv, IInv, TypeOK
<1>2. ASSUME NEW oid \in Oids, NEW r \in Requests, DataGet(oid, r[1], r[2])
      PROVE  IInv'
  <2>1. oid \in Nat /\ r[1] \in Nat /\ r[2] \in Nat
    BY CacheAssumption DEF Oids
  <2>2. Get(oid, r[1], r[2])
    BY <1>2 DEF DataGet, Get, WriteAndGet, NoSlot, Fill
  <2>3. /\ \/ SlotsUnchanged
           \/ \E s \in Slots : GetHit(s, oid, r[1], r[2]) \/ NewFill(s, oid, r[1], r[2])
        /\ OtherTypes
    BY <1>1, <2>1, <2>2, GetCases
  <2>4. QED
    BY <1>1, <2>1, <2>3, UnchangedKeepsInv, HitKeepsInv, FillKeepsInv
<1>3. ASSUME NEW oid \in Oids, NEW r \in Requests, DataRead(oid, r[1], r[2])
      PROVE  IInv'
  <2>1. oid \in Nat /\ r[1] \in Nat /\ r[2] \in Nat
    BY CacheAssumption DEF Oids
  <2>2. Read(oid, r[1], r[2])
    BY <1>3 DEF DataRead, Read
  <2>3. QED
    BY <1>1, <2>1, <2>2, ReadCases, UnchangedKeepsInv
<1>4. ASSUME NEW h \in Slots, DataUnlock(h)
      PROVE  IInv'
  BY <1>1, <1>4, UnlockCases, UnlockFindsGranted, ReleaseKeepsInv, UnchangedKeepsInv
  DEF DataUnlock
<1>5. ASSUME NEW s \in Slots, NEW v \in 1 .. MaxVersion, KernelWrite(s, v)
      PROVE  IInv'
  BY <1>1, <1>5, UnchangedKeepsInv DEF KernelWrite, cacheVars, SlotsUnchanged, OtherTypes
<1>6. QED
  BY <1>2, <1>3, <1>4, <1>5 DEF DataNext, Calls

\* The invariant holds when the client starts.
LEMMA InitData == DataInit => DInv
<1> SUFFICES ASSUME DataInit PROVE DInv
  OBVIOUS
<1>1. objects \in ObjectChoices /\ device \in {"cpu", "gpu"}
  BY DEF DataInit
<1>2. IInv
  <2> DEFINE Small == [size : 0 .. MaxUnits, mode : ObjectMode]
             Large == [size : Nat, mode : ObjectMode]
  <2>0. objects \in Seq(Small)
    BY <1>1, DataAssumption
  <2>1. Small \subseteq Large
    BY DataAssumption
  <2> HIDE DEF Small, Large
  <2>2. objects \in Seq(Large)
    BY <2>0, <2>1, SeqOver
  <2> USE DEF Large
  <2>3. TypeOK
    BY <1>1, <2>2 DEF DataInit, CacheEmpty, TypeOK, NoBlock, Unlocked, Block, SlotLock
  <2>4. LockAccounting /\ OneHome /\ DescriptorGood /\ SlotsFilled
    BY DEF DataInit, CacheEmpty, LockAccounting, OneHome, DescriptorGood, SlotsFilled,
           Free, Held, NoBlock, Unlocked
  <2>5. QED
    BY <2>3, <2>4 DEF IInv
<1>3. \A s \in Slots : ~Filled(s) /\ ~Held(s)
  BY DEF DataInit, CacheEmpty, Filled, Held
<1>4. DataTypes
  BY <1>1 DEF DataInit, DataTypes, Data, Garbage
<1>5. host = cur
  BY DEF DataInit
<1>6. QED
  BY <1>2, <1>3, <1>4, <1>5 DEF DInv, Placed, WholeBlocks, HostCurrent, DeviceCurrent,
                                UncachedIsCurrent

\* Every step of the client keeps it.
LEMMA NextData == ASSUME OneBlockSize, DInv, [DataNext]_vars PROVE DInv'
<1>1. CASE DataNext
  <2> USE DEF dataVars
  <2>1. IInv'
    BY <1>1, CallsAreCacheCalls
  <2>2. WholeBlocks /\ users \in [Slots -> Nat] /\ granted \in [Slots -> Block]
        /\ IInv /\ Placed
    BY DEF DInv, IInv, TypeOK
  <2>3. ASSUME NEW oid \in Oids, NEW r \in Requests, ClientRange(oid, r),
               DataGet(oid, r[1], r[2])
        PROVE  DInv'
    <3>1. CASE \/ Refused(oid, r[1], r[2], 0) \/ NoSlot(oid, r[1], r[2])
               \/ \E s \in Slots : GetLocked(s, oid, r[1], r[2])
      <4>1. CASE UNCHANGED dataVars
        <5>1. UNCHANGED <<device, objects, cached, users, granted>>
          BY <3>1 DEF Refused, NoSlot, GetLocked, Return
        <5>2. QED
          BY <2>1, <2>2, <4>1, <5>1, QuietKeepsData DEF WholeBlocks, Held
      <4>2. CASE ~UNCHANGED dataVars
        <5>1. PICK s \in Slots : /\ ~InCache(oid, r[1]) /\ Fill(s, oid, r[1], r[2])
                                 /\ Load(s, oid, r[1], r[2]) /\ UNCHANGED cur
          BY <2>3, <4>2 DEF DataGet
        <5>2. QED
          BY <2>1, <2>3, <5>1, FillKeepsData DEF NewFill
      <4>3. QED
        BY <4>1, <4>2
    <3>2. CASE \E s \in Slots : GetHit(s, oid, r[1], r[2]) /\ UNCHANGED dataVars
      <4>1. PICK s \in Slots : GetHit(s, oid, r[1], r[2])
        BY <3>2
      <4>2. /\ UNCHANGED <<device, objects, cached>>
            /\ granted' = [granted EXCEPT ![s] = [oid |-> oid, bid |-> r[1], len |-> r[2]]]
            /\ users' = [users EXCEPT ![s] = users[s] + 1]
            /\ cached[s].oid = oid /\ cached[s].bid = r[1]
            /\ Accepted(oid, r[1], r[2])
        BY <4>1 DEF GetHit, HandOut, FoundAt, Holds
      <4>3. Filled(s)
        BY <4>2 DEF Filled, NoBlock, Oids
      <4>4. Fits(objects[oid].size, r)
        BY <2>3, <4>2, ServedFits
      <4>5. cached[s].len = r[2]
        BY <4>2, <4>3, <4>4, BlockOrApart
      <4>6. cached[s] \in Block
        BY DEF DInv, IInv, TypeOK
      <4>7. cached[s] = [oid |-> oid, bid |-> r[1], len |-> r[2]]
        BY <4>2, <4>5, <4>6 DEF Block
      <4>8. ASSUME NEW t \in Slots, Held(t)' PROVE Filled(t) /\ granted'[t] = cached[t]
        <5>1. CASE t = s
          BY <2>2, <4>2, <4>3, <4>7, <5>1
        <5>2. CASE t # s
          BY <2>2, <4>2, <4>8, <5>2 DEF WholeBlocks, Held
        <5>3. QED
          BY <5>1, <5>2
      <4>9. QED
        BY <2>1, <3>2, <4>2, <4>8, QuietKeepsData
    <3>3. CASE \E s \in Slots : /\ ~InCache(oid, r[1]) /\ Fill(s, oid, r[1], r[2])
                                /\ Load(s, oid, r[1], r[2]) /\ UNCHANGED cur
      BY <2>1, <2>3, <3>3, FillKeepsData DEF NewFill
    <3>4. QED
      BY <2>3, <3>1, <3>2, <3>3 DEF DataGet
  <2>4. ASSUME NEW oid \in Oids, NEW r \in Requests, ClientRange(oid, r),
               DataRead(oid, r[1], r[2])
        PROVE  DInv'
    <3>1. CASE /\ Refused(oid, r[1], r[2], 0) \/ ReadNothing(oid, r[1], r[2])
               /\ UNCHANGED dataVars
      <4>1. UNCHANGED <<device, objects, cached, users, granted>>
        BY <3>1 DEF Refused, ReadNothing, Return
      <4>2. QED
        BY <2>1, <2>2, <3>1, <4>1, QuietKeepsData DEF WholeBlocks, Held
    <3>2. CASE \E s \in Slots : /\ ReadBack(s, oid, r[1], r[2])
                                /\ CopyBack(s, oid, r[1], r[2]) /\ UNCHANGED cur
      BY <2>1, <2>4, <3>2, ReadKeepsData
    <3>3. QED
      BY <2>4, <3>1, <3>2 DEF DataRead
  <2>5. ASSUME NEW h \in Slots, DataUnlock(h) PROVE DInv'
    <3>1. CASE UnlockRefused(granted[h].oid, granted[h].bid)
      <4>1. UNCHANGED <<device, objects, cached, users, granted>>
        BY <3>1 DEF UnlockRefused, Return
      <4>2. QED
        BY <2>1, <2>2, <2>5, <4>1, QuietKeepsData DEF WholeBlocks, Held, DataUnlock
    <3>2. CASE \E s \in Slots : UnlockFound(h, s)
      <4>1. /\ UNCHANGED <<device, objects, cached>>
            /\ users' = [users EXCEPT ![h] = users[h] - 1]
            /\ granted' = [granted EXCEPT ![h] = IF users[h] = 1 THEN NoBlock ELSE granted[h]]
            /\ Held(h)
        BY <3>2 DEF UnlockFound, GiveBack
      <4>2. ASSUME NEW t \in Slots, Held(t)' PROVE Filled(t) /\ granted'[t] = cached[t]
        <5>1. CASE t = h
          BY <2>2, <4>1, <4>2, <5>1 DEF WholeBlocks, Held
        <5>2. CASE t # h
          BY <2>2, <4>1, <4>2, <5>2 DEF WholeBlocks, Held
        <5>3. QED
          BY <5>1, <5>2
      <4>3. QED
        BY <2>1, <2>5, <4>1, <4>2, QuietKeepsData DEF DataUnlock
    <3>3. QED
      BY <2>5, <3>1, <3>2 DEF DataUnlock, Unlock
  <2>6. ASSUME NEW s \in Slots, NEW v \in 1 .. MaxVersion, KernelWrite(s, v) PROVE DInv'
    BY <2>1, <2>6, WriteKeepsData
  <2>7. QED
    BY <1>1, <2>3, <2>4, <2>5, <2>6 DEF DataNext, Calls
<1>2. CASE UNCHANGED vars
  <2>1. UNCHANGED <<device, objects, cached, slot_lock, ret, users, granted>>
        /\ UNCHANGED dataVars
    BY <1>2 DEF vars, cacheVars
  <2>2. SlotsUnchanged /\ OtherTypes
    BY <2>1 DEF SlotsUnchanged, OtherTypes, DInv, IInv, TypeOK
  <2>3. IInv'
    BY <2>2, UnchangedKeepsInv DEF DInv
  <2>4. QED
    BY <2>1, <2>3, QuietKeepsData DEF DInv, WholeBlocks, Held
<1>3. QED
  BY <1>1, <1>2

\* Where every device buffer and every unit of host memory stand, in every
\* reachable state of a client with one block size for each object.
THEOREM DataInvariant == ASSUME OneBlockSize PROVE DataSpec => []DInv
<1>1. DInv /\ [DataNext]_vars => DInv'
  BY NextData
<1>2. QED
  BY <1>1, InitData, PTL DEF DataSpec

\* Whoever holds a descriptor finds the current version of every unit of its
\* range in the device buffer.
THEOREM HoldersSeeCurrent == ASSUME OneBlockSize PROVE DataSpec => []ServedCurrent
<1>1. DInv => ServedCurrent
  <2> SUFFICES ASSUME DInv, NEW s \in Slots, Held(s),
                      objects[granted[s].oid].mode # "Transient",
                      NEW u \in 0 .. granted[s].len - 1
               PROVE  DeviceUnit(s, u) = cur[granted[s].oid][granted[s].bid + u]
    BY DEF ServedCurrent
  <2>1. Filled(s) /\ granted[s] = cached[s]
    BY DEF DInv, WholeBlocks
  <2>2. CASE device = "cpu"
    BY <2>1, <2>2, BlockTypes DEF DeviceUnit, DInv, HostCurrent
  <2>3. CASE device = "gpu"
    BY <2>1, <2>3 DEF DeviceUnit, DInv, DeviceCurrent
  <2>4. QED
    BY <2>2, <2>3 DEF DInv, DataTypes
<1>2. QED
  BY <1>1, DataInvariant, PTL

\* No update is lost on eviction: what no slot holds is current on the host.
THEOREM NoUpdateLost == ASSUME OneBlockSize PROVE DataSpec => []UncachedIsCurrent
<1>1. DInv => UncachedIsCurrent
  BY DEF DInv
<1>2. QED
  BY <1>1, DataInvariant, PTL

\* A read that reports success has brought its range up to date on the host.
THEOREM ReadsDeliver == ASSUME OneBlockSize PROVE DataSpec => ReadDelivers
<1>1. DInv /\ [DataNext]_vars =>
        [\A oid \in Oids, r \in Requests :
           ClientRange(oid, r) /\ DataRead(oid, r[1], r[2]) /\ ret' = 1 =>
             \A u \in r[1] .. r[1] + r[2] - 1 : host'[oid][u] = cur[oid][u]]_vars
  <2> SUFFICES ASSUME DInv, NEW oid \in Oids, NEW r \in Requests, ClientRange(oid, r),
                      DataRead(oid, r[1], r[2]), ret' = 1,
                      NEW u \in r[1] .. r[1] + r[2] - 1
               PROVE  host'[oid][u] = cur[oid][u]
    OBVIOUS
  <2>1. CASE \E s \in Slots : /\ ReadBack(s, oid, r[1], r[2])
                              /\ CopyBack(s, oid, r[1], r[2])
    <3>1. PICK s \in Slots : ReadBack(s, oid, r[1], r[2]) /\ CopyBack(s, oid, r[1], r[2])
      BY <2>1
    <3>2. CASE device = "cpu"
      BY <3>1, <3>2 DEF CopyBack, DInv, HostCurrent
    <3>3. CASE device = "gpu"
      BY <3>1, <3>3, CopiedIsCurrent DEF CopyBack
    <3>4. QED
      BY <3>2, <3>3 DEF DInv, DataTypes
  <2>2. CASE ReadNothing(oid, r[1], r[2]) /\ UNCHANGED dataVars
    <3>1. host' = host /\ Accepted(oid, r[1], r[2])
          /\ (Immutable(oid) \/ ~InCache(oid, r[1]))
      BY <2>2 DEF ReadNothing, Return, dataVars
    <3>2. CASE Immutable(oid)
      BY <3>1, <3>2 DEF DInv, HostCurrent
    <3>3. CASE ~InCache(oid, r[1])
      <4>1. /\ Fits(objects[oid].size, r) /\ objects[oid].size \in 0 .. MaxUnits
            /\ r[1] \in Nat /\ r[2] \in Nat \ {0} /\ u \in Units
        <5>1. Fits(objects[oid].size, r)
          BY <3>1, ServedFits
        <5>2. objects[oid].size \in 0 .. MaxUnits /\ r[1] \in Nat /\ r[2] \in Nat \ {0}
          BY ObjectTypes, CacheAssumption DEF DInv
        <5>3. QED
          BY <5>1, <5>2, DataAssumption DEF Fits, Units
      <4>2. ASSUME NEW t \in Slots PROVE ~Covers(t, oid, u)
        <5>1. SUFFICES ASSUME Covers(t, oid, u) PROVE FALSE
          OBVIOUS
        <5>2. cached[t].oid = oid /\ Filled(t) /\ cached[t].bid # r[1]
          BY <3>3, <5>1 DEF Covers, Filled, NoBlock, Oids, InCache, Holds
        <5>3. Apart(BlockOf(t), r)
          BY <4>1, <5>2, BlockOrApart
        <5>4. cached[t].bid \in Nat /\ cached[t].len \in Nat
          BY <5>2, BlockTypes
        <5>5. QED
          BY <4>1, <5>1, <5>3, <5>4 DEF Apart, Covers, BlockOf
      <4>3. QED
        BY <3>1, <4>1, <4>2 DEF DInv, UncachedIsCurrent, Covers
    <3>4. QED
      BY <3>1, <3>2, <3>3
  <2>3. ~Refused(oid, r[1], r[2], 0)
    BY DEF Refused, Return
  <2>4. QED
    BY <2>1, <2>2, <2>3 DEF DataRead
<1>2. QED
  BY <1>1, DataInvariant, PTL DEF DataSpec, ReadDelivers
=============================================================================
