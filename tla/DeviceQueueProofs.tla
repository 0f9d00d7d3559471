------------------------- MODULE DeviceQueueProofs -------------------------
(***************************************************************************)
(* The in-order queue under the k-means clients, for every set of jobs     *)
(* whose configurations keep what the wrappers and kernels ask for.  The   *)
(* invariant says that buffers have the sizes the client and the phases    *)
(* allocate, that the launches which wait find room in them, that the      *)
(* labels of a block are labels of clusters and are made before they are   *)
(* counted, and that what every work item has done is part of its          *)
(* footprint.  From it follow, with what KernelProofs says of footprints,  *)
(* that every phase can be called, that no item leaves a buffer, that      *)
(* there is no data race, and that barriers are uniform.                   *)
(***************************************************************************)
EXTENDS DeviceKMeans, KernelProofs, SequenceTheorems

\* Clusters of a job; the test of the reduction has none, and no labels.
ClustersOf(j) == IF j.client = "reduce_vector_test" THEN 1 ELSE NumClusters(j)

\* Buffers of sizes sz have the sizes needs; buffers of sizes s can be replaced
\* by those of sizes sz.
Has(sz, needs) == \A b \in DOMAIN needs : Room(sz, b, needs[b])
\* Every buffer has kept its room.
Below(s, sz) == \A b \in DOMAIN s : Room(sz, b, s[b])

\* A launch for c clusters that finds room in the buffers of sizes sz.
FitsIn(L, sz, c) ==
  /\ \E s : Sized(s) /\ Below(s, sz) /\ Fits(L, s, c)
  /\ "labels" \notin DOMAIN L.locals /\ "points" \notin DOMAIN L.locals

\* Launches that the queue can execute one after the other.
LaunchesFit(ls, sz, c) == \E S : ls \in Seq(S) /\ \A L \in S : FitsIn(L, sz, c)

\* A phase that can be called, in a state where the buffers have what the client
\* and the phase allocate.
PhaseFits(j, ph) ==
  /\ ph.ok /\ Launchable(ph)
  /\ \A b \in DOMAIN ph.needs : b # "labels" /\ ph.needs[b] \in Nat
  /\ \A sz : Sized(sz) /\ Has(sz, ClientSizes(j)) /\ Has(sz, ph.needs) =>
       LaunchesFit(ph.launches, sz, ClustersOf(j))

\* The kernel that labels points, and all launches of a phase.
MakesLabels(L) == L.kernel = "lloyd_labeling_vp_clcp"
Calls(j, n) == {Iteration(j)[n].launches[i] : i \in DOMAIN Iteration(j)[n].launches}

\* A job whose phases fit, in which the labels of a block are made before they
\* are counted.
JobFits(j) ==
  /\ Len(Iteration(j)) \in Nat
  /\ \A n \in 1 .. Len(Iteration(j)) :
       /\ PhaseFits(j, Iteration(j)[n])
       /\ \A L \in Calls(j, n) : Counts(L) =>
            \E k \in 1 .. n - 1 : \E K \in Calls(j, k) :
              MakesLabels(K) /\ LabelCells(K) = LabelCells(L)
  /\ Sized(ClientSizes(j))
  /\ MemOK(Upload(j)) /\ \A a \in DOMAIN Upload(j) : a[1] # "labels"

-----------------------------------------------------------------------------
(***************************************************************************)
(* The inductive invariant                                                 *)
(***************************************************************************)
\* The buffers have what the client allocates.
SizesInv == Sized(ClientSizes(job)) /\ Sized(size) /\ Has(size, ClientSizes(job))
\* Memory holds whole numbers, and where there are labels, labels of clusters.
MemInv ==
  /\ MemOK(mem)
  /\ \A a \in DOMAIN mem : a[1] = "labels" => mem[a] \in 0 .. ClustersOf(job) - 1
\* The launches that wait fit into the buffers.
TodoInv == LaunchesFit(todo, size, ClustersOf(job))

\* What an item did is part of a footprint.
Part(t, f) == t.reads \subseteq f.reads /\ t.writes \subseteq f.writes /\ t.adds \subseteq f.adds

\* The trace s of an item that has executed n intervals.
Traced(w, s, n) ==
  /\ \E S : s \in Seq(S)
  /\ Len(s) = n /\ \A k \in 1 .. n : Part(s[k], Foot(run, w, k - 1))

\* Nothing runs, or a kernel of which every item has left the trace of what it executed.
NoneRuns ==
  run = Idle /\ at = [w \in Items(Idle) |-> 1] /\ touched = [w \in Items(Idle) |-> <<>>]
OneRuns ==
  /\ FitsIn(run, size, ClustersOf(job))
  /\ DOMAIN at = Items(run) /\ DOMAIN touched = Items(run)
  /\ \A w \in Items(run) : at[w] \in 0 .. Intervals(run, w) /\ Traced(w, touched[w], at[w])
RunInv == NoneRuns \/ OneRuns

\* The labels that have been written when they are counted.
Filled(L, m) == LabelCells(L) \subseteq DOMAIN m
\* L waits for the queue to execute it.
InTodo(L) == \E i \in DOMAIN todo : todo[i] = L
\* Labels are there once the kernel that makes them has ended, and before one runs that counts them.
LabelsInv ==
  /\ MakesLabels(run) => \A w \in Items(run) : at[w] # 0 =>
       LabelReads(run, Lanes(run, w)) \subseteq DOMAIN mem
  /\ \A n \in 1 .. calls : \A L \in Calls(job, n) :
       MakesLabels(L) => InTodo(L) \/ run = L \/ Filled(L, mem)
  /\ \A L : Counts(L) /\ (InTodo(L) \/ run = L) => Filled(L, mem)

\* No phase has failed.
CallsInv == job \in Jobs /\ calls \in 0 .. Len(Iteration(job)) /\ bad = FALSE

\* The inductive invariant.
QInv == CallsInv /\ SizesInv /\ MemInv /\ TodoInv /\ RunInv /\ LabelsInv

-----------------------------------------------------------------------------
(***************************************************************************)
(* The initial states                                                      *)
(***************************************************************************)
\* The launch that stands for none has one item, with nothing to do.
LEMMA IdleFacts ==
  /\ Items(Idle) = (0 .. 0) \X (0 .. 0) /\ \A w : Intervals(Idle, w) = 1
  /\ ~MakesLabels(Idle) /\ ~Counts(Idle) /\ DOMAIN Idle.locals = {}
<1>1. Idle = [kernel |-> "finish", groups |-> 1, local |-> 1, cols |-> 1, lcols |-> 1,
              divides |-> TRUE, size |-> 0, fst |-> "none", snd |-> "none", locals |-> <<>>]
  BY Zenon DEF Idle, Command
<1>2. Idle.kernel = "finish" /\ Idle.groups = 1 /\ Idle.local = 1 /\ Idle.locals = <<>>
  BY <1>1
<1> HIDE DEF Idle
<1>3. \A w : Intervals(Idle, w) = 1
  <2>1. TAKE w
  <2>2. Idle.kernel \notin {"histogram_part_global", "histogram_part_local", "lloyd_cluster_merge",
          "lloyd_fused_cluster_merge", "lloyd_feature_sum_pardim", "lloyd_fused_feature_sum",
          "reduce_vector_parcol_inner"}
    BY <1>2
  <2>3. QED
    BY <2>2 DEF Intervals
<1>4. 1 - 1 = 0
  OBVIOUS
<1>5. QED
  BY <1>2, <1>3, <1>4 DEF Items, MakesLabels, Counts

\* It holds before the first phase is called.
LEMMA QInit ==
  ASSUME \A j \in Jobs : JobFits(j), Init
  PROVE  QInv
<1>1. job \in Jobs /\ calls = 0 /\ bad = FALSE /\ size = ClientSizes(job) /\ mem = Upload(job)
      /\ todo = <<>> /\ NoneRuns
  BY DEF Init, QueueInit, NoneRuns
<1>2. JobFits(job)
  BY <1>1
<1>3. CallsInv
  BY <1>1, <1>2 DEF CallsInv, JobFits
<1>4. SizesInv
  <2>1. Sized(size)
    BY <1>1, <1>2 DEF JobFits
  <2>2. \A b \in DOMAIN size : Room(size, b, size[b])
    BY <2>1 DEF Sized, Room
  <2>3. QED
    BY <2>1, <2>2, <1>1 DEF SizesInv, Has
<1>5. MemInv
  BY <1>1, <1>2 DEF MemInv, JobFits
<1>6. TodoInv
  <2>1. todo \in Seq({})
    BY <1>1
  <2>2. QED
    BY <2>1 DEF TodoInv, LaunchesFit
<1>7. LabelsInv
  <2>1. DOMAIN todo = {} /\ 1 .. calls = {}
    BY <1>1
  <2>2. run = Idle
    BY <1>1 DEF NoneRuns
  <2>3. \A L : ~InTodo(L)
    BY <2>1 DEF InTodo
  <2>4. QED
    BY <2>1, <2>2, <2>3, IdleFacts DEF LabelsInv
<1>8. QED
  BY <1>1, <1>3, <1>4, <1>5, <1>6, <1>7 DEF QInv, RunInv

\* Buffers that grow stay large enough for what fits.
LEMMA BelowTransitive ==
  ASSUME NEW s, NEW t, NEW sz, Sized(s), Sized(t), Sized(sz), Below(s, t), Below(t, sz)
  PROVE  Below(s, sz)
BY DEF Below, Room, Sized

\* Larger buffers do as well.
LEMMA FitsGrown ==
  ASSUME NEW L, NEW s, NEW sz, Sized(s), Sized(sz), Below(s, sz), NEW c, FitsIn(L, s, c)
  PROVE  FitsIn(L, sz, c)
<1>1. PICK t : Sized(t) /\ Below(t, s) /\ Fits(L, t, c)
  BY DEF FitsIn
<1>2. Below(t, sz)
  BY <1>1, BelowTransitive
<1>3. QED
  BY <1>1, <1>2 DEF FitsIn

\* The kernel of a launch says in which way it fits.
LEMMA FitsPoints ==
  ASSUME NEW L, NEW s, NEW c, Fits(L, s, c), MakesLabels(L) \/ Counts(L)
  PROVE  PointsLaunch(L) /\ L.C = c /\ Linear(L) /\ (MakesLabels(L) => EvenGroups(L))
<1>1. L.kernel \in {"lloyd_labeling_vp_clcp", "histogram_global", "histogram_part_global",
                    "histogram_part_local"}
  BY DEF MakesLabels, Counts
<1>2. ~FitsPardim(L, s) /\ ~FitsReduce(L, s) /\ ~FitsCells(L, s) /\ ~FitsCommand(L, s)
  BY <1>1 DEF FitsPardim, FitsReduce, FitsCells, FitsCommand
<1>3. PointsLaunch(L) /\ L.C = c /\ Linear(L) /\ FitsOnce(L, s)
  BY <1>2 DEF Fits
<1>4. MakesLabels(L) => EvenGroups(L)
  BY <1>3 DEF MakesLabels, FitsOnce
<1>5. QED
  BY <1>3, <1>4

\* A labelling that has finished has labelled every point.
LEMMA AllLabelled ==
  ASSUME QInv, Finished, MakesLabels(run)
  PROVE  Filled(run, mem)
<1>1. OneRuns
  BY IdleFacts DEF QInv, RunInv, NoneRuns
<1>2. PICK s : Sized(s) /\ Fits(run, s, ClustersOf(job))
  BY <1>1 DEF OneRuns, FitsIn
<1>3. PointsLaunch(run) /\ Linear(run) /\ EvenGroups(run)
  BY <1>2, FitsPoints
<1>4. ASSUME NEW q \in 0 .. run.N - 1
      PROVE  InBlock(run, "labels", q) \in DOMAIN mem
  <2>1. PICK w \in Items(run) : q \in Lanes(run, w)
    BY <1>3, LanesCover DEF PointsLaunch
  <2>2. at[w] = Intervals(run, w)
    BY <1>1 DEF Finished, OneRuns
  <2>3. at[w] # 0
    BY <2>2, <1>2, IntervalsTyped
  <2>4. LabelReads(run, Lanes(run, w)) \subseteq DOMAIN mem
    BY <2>3 DEF QInv, LabelsInv
  <2>5. InBlock(run, "labels", q) \in LabelReads(run, Lanes(run, w))
    BY <2>1 DEF LabelReads
  <2>6. QED
    BY <2>4, <2>5
<1>5. QED
  BY <1>4 DEF Filled, LabelCells

\* When the queue is empty, all labels of the calls so far are in memory.
LEMMA AllFilled ==
  ASSUME QInv, Finished, NEW n \in 1 .. calls, NEW L \in Calls(job, n), MakesLabels(L)
  PROVE  InTodo(L) \/ Filled(L, mem)
BY AllLabelled DEF QInv, LabelsInv

-----------------------------------------------------------------------------
(***************************************************************************)
(* Steps of the queue                                                      *)
(***************************************************************************)
\* Memory without some buffers, but with all labels.
LEMMA MemRestricted ==
  ASSUME MemInv, NEW B, "labels" \notin B,
         NEW m, m = [a \in {x \in DOMAIN mem : x[1] \notin B} |-> mem[a]]
  PROVE  /\ MemOK(m)
         /\ \A a \in DOMAIN m : a[1] = "labels" => m[a] \in 0 .. ClustersOf(job) - 1
         /\ \A L : Filled(L, mem) => Filled(L, m)
         /\ \A S, L : LabelReads(L, S) \subseteq DOMAIN mem => LabelReads(L, S) \subseteq DOMAIN m
<1>1. DOMAIN m = {x \in DOMAIN mem : x[1] \notin B} /\ \A a \in DOMAIN m : m[a] = mem[a]
  OBVIOUS
<1>2. \A L : LabelCells(L) \subseteq DOMAIN mem => LabelCells(L) \subseteq DOMAIN m
  BY <1>1, Zenon DEF LabelCells, InBlock
<1>3. \A S, L : LabelReads(L, S) \subseteq DOMAIN mem => LabelReads(L, S) \subseteq DOMAIN m
  BY <1>1, Zenon DEF LabelReads, InBlock
<1>4. QED
  BY <1>1, <1>2, <1>3 DEF MemInv, MemOK, Filled

\* A call makes room for what the phase needs.
LEMMA GrownSizes ==
  ASSUME SizesInv, NEW needs, \A b \in DOMAIN needs : needs[b] \in Nat,
         NEW sz, sz = Over([b \in Grown(needs) |-> needs[b]], size)
  PROVE  Sized(sz) /\ Below(size, sz) /\ Has(sz, needs) /\ Has(sz, ClientSizes(job))
<1> DEFINE g == [b \in Grown(needs) |-> needs[b]]
<1>1. DOMAIN g = Grown(needs) /\ Grown(needs) \subseteq DOMAIN needs
  BY DEF Grown
<1>2. DOMAIN sz = Grown(needs) \cup DOMAIN size
  BY <1>1, OverDomain
<1>3. \A b \in DOMAIN sz : sz[b] = IF b \in Grown(needs) THEN needs[b] ELSE size[b]
  BY <1>1, <1>2 DEF Over
<1>4. Sized(size) /\ \A b \in DOMAIN size : size[b] \in Nat
  BY DEF SizesInv, Sized
<1>5. Sized(sz)
  BY <1>1, <1>2, <1>3, <1>4 DEF Sized
<1>6. Below(size, sz)
  <2>1. SUFFICES ASSUME NEW b \in DOMAIN size PROVE Room(sz, b, size[b])
    BY DEF Below
  <2>2. b \in DOMAIN sz /\ size[b] \in Nat
    BY <1>2, <1>4
  <2>3. b \in Grown(needs) => size[b] < needs[b] /\ needs[b] \in Nat
    BY <1>1 DEF Grown
  <2>4. size[b] <= sz[b]
    BY <2>2, <2>3, <1>3
  <2>5. QED
    BY <2>2, <2>4 DEF Room
<1>7. Has(sz, needs)
  <2>1. SUFFICES ASSUME NEW b \in DOMAIN needs PROVE Room(sz, b, needs[b])
    BY DEF Has
  <2>2. needs[b] \in Nat
    OBVIOUS
  <2>3. b \notin Grown(needs) => b \in DOMAIN size /\ ~(size[b] < needs[b])
    BY DEF Grown
  <2>4. b \in DOMAIN sz /\ needs[b] <= sz[b]
    BY <2>2, <2>3, <1>2, <1>3, <1>4
  <2>5. QED
    BY <2>4 DEF Room
<1>8. Has(sz, ClientSizes(job))
  BY <1>4, <1>5, <1>6, BelowTransitive DEF SizesInv, Has, Below
<1>9. QED
  BY <1>5, <1>6, <1>7, <1>8

\* A sequence and its head, its tail and its extension.
LEMMA SeqTail ==
  ASSUME NEW S, NEW s \in Seq(S), s # <<>>
  PROVE  /\ Head(s) \in S /\ Tail(s) \in Seq(S) /\ 1 \in DOMAIN s /\ s[1] = Head(s)
         /\ \A x : (\E i \in DOMAIN s : s[i] = x) <=> x = Head(s) \/ \E i \in DOMAIN Tail(s) :
              Tail(s)[i] = x
<1>1. Len(s) \in Nat /\ DOMAIN s = 1 .. Len(s) /\ Len(s) # 0
  OBVIOUS
<1>2. Head(s) = s[1] /\ 1 \in DOMAIN s /\ s[1] \in S
  BY <1>1
<1>3. Tail(s) \in Seq(S) /\ Len(Tail(s)) = Len(s) - 1 /\ DOMAIN Tail(s) = 1 .. Len(s) - 1
  BY <1>1
<1>4. \A i \in DOMAIN Tail(s) : Tail(s)[i] = s[i + 1] /\ i + 1 \in DOMAIN s
  BY <1>1, <1>3
<1>5. ASSUME NEW i \in DOMAIN s, i # 1
      PROVE  i - 1 \in DOMAIN Tail(s) /\ Tail(s)[i - 1] = s[i]
  <2>1. i \in Nat /\ i - 1 \in 1 .. Len(s) - 1
    BY <1>1, <1>5
  <2>2. i - 1 \in DOMAIN Tail(s) /\ (i - 1) + 1 = i
    BY <2>1, <1>3
  <2>3. QED
    BY <2>2, <1>4
<1>6. ASSUME NEW x
      PROVE  (\E i \in DOMAIN s : s[i] = x) <=>
               x = Head(s) \/ \E i \in DOMAIN Tail(s) : Tail(s)[i] = x
  <2>1. ASSUME NEW i \in DOMAIN s, s[i] = x, i # 1
        PROVE  \E k \in DOMAIN Tail(s) : Tail(s)[k] = x
    BY <1>5, <2>1
  <2>2. ASSUME NEW i \in DOMAIN Tail(s), Tail(s)[i] = x
        PROVE  \E k \in DOMAIN s : s[k] = x
    BY <1>4, <2>2
  <2>3. QED
    BY <1>2, <2>1, <2>2
<1>7. QED
  BY <1>2, <1>3, <1>6

\* The trace of an item grows at its end.
LEMMA SeqAppend ==
  ASSUME NEW S, NEW s \in Seq(S), NEW x
  PROVE  /\ Append(s, x) \in Seq(S \cup {x}) /\ Len(Append(s, x)) = Len(s) + 1
         /\ \A i \in 1 .. Len(s) : Append(s, x)[i] = s[i]
         /\ Append(s, x)[Len(s) + 1] = x /\ Len(s) \in Nat
<1>1. s \in Seq(S \cup {x}) /\ x \in S \cup {x}
  OBVIOUS
<1>2. QED
  BY <1>1

-----------------------------------------------------------------------------
\* Calling a phase keeps the invariant: buffers grow, and the launches of the phase fit,
LEMMA CallStep ==
  ASSUME \A j \in Jobs : JobFits(j), QInv, CallPhase
  PROVE  QInv'
<1> DEFINE ph == Iteration(job)[calls + 1]
<1> DEFINE n == calls + 1
<1>1. job \in Jobs /\ JobFits(job) /\ calls \in Nat /\ Len(Iteration(job)) \in Nat
      /\ calls < Len(Iteration(job))
  BY DEF QInv, CallsInv, JobFits, CallPhase
<1>2. /\ calls' = calls + 1 /\ job' = job /\ todo = <<>> /\ Finished
      /\ bad' = (bad \/ ~ph.ok \/ ~Launchable(ph))
      /\ size' = Over([b \in Grown(ph.needs) |-> ph.needs[b]], size)
      /\ mem' = [a \in {x \in DOMAIN mem : x[1] \notin Grown(ph.needs)} |-> mem[a]]
      /\ todo' = ph.launches /\ run' = run /\ at' = at /\ touched' = touched
  BY DEF CallPhase, Call, QueueEmpty
<1>3. n \in 1 .. Len(Iteration(job)) /\ 1 .. n = (1 .. calls) \cup {n} /\ 1 .. n - 1 = 1 .. calls
  BY <1>1
<1>4. PhaseFits(job, ph)
  BY <1>1, <1>3 DEF JobFits
<1>5. /\ ph.ok /\ Launchable(ph)
      /\ \A b \in DOMAIN ph.needs : b # "labels" /\ ph.needs[b] \in Nat
      /\ \A sz : Sized(sz) /\ Has(sz, ClientSizes(job)) /\ Has(sz, ph.needs) =>
           LaunchesFit(ph.launches, sz, ClustersOf(job))
  BY <1>4, Zenon DEF PhaseFits
<1>6. bad' = FALSE
  BY <1>2, <1>5 DEF QInv, CallsInv
<1>7. CallsInv'
  BY <1>1, <1>2, <1>3, <1>6 DEF CallsInv
<1>8. SizesInv /\ MemInv /\ "labels" \notin Grown(ph.needs)
  BY <1>5 DEF QInv, Grown
<1>9. Sized(size') /\ Below(size, size') /\ Has(size', ph.needs) /\ Has(size', ClientSizes(job))
  BY <1>2, <1>5, <1>8, GrownSizes
<1>10. SizesInv'
  BY <1>2, <1>8, <1>9 DEF SizesInv
<1>11. /\ MemOK(mem')
       /\ \A a \in DOMAIN mem' : a[1] = "labels" => mem'[a] \in 0 .. ClustersOf(job) - 1
       /\ \A L : Filled(L, mem) => Filled(L, mem')
       /\ \A S, L : LabelReads(L, S) \subseteq DOMAIN mem => LabelReads(L, S) \subseteq DOMAIN mem'
  BY <1>2, <1>8, MemRestricted
<1>12. MemInv'
  BY <1>2, <1>11 DEF MemInv
<1>13. TodoInv'
  BY <1>2, <1>5, <1>9 DEF TodoInv
<1>14. RunInv'
  <2>1. CASE NoneRuns
    BY <2>1, <1>2 DEF NoneRuns, RunInv
  <2>2. CASE OneRuns
    <3>1. FitsIn(run, size, ClustersOf(job)) /\ Sized(size)
      BY <2>2, <1>8 DEF OneRuns, SizesInv
    <3>2. FitsIn(run, size', ClustersOf(job))
      BY <3>1, <1>9, FitsGrown
    <3>3. OneRuns'
      BY <3>2, <2>2, <1>2 DEF OneRuns, Traced
    <3>4. QED
      BY <3>3 DEF RunInv
  <2>3. QED
    BY <2>1, <2>2 DEF QInv, RunInv
<1> HIDE DEF ph, n
<1>15. \A L : InTodo(L)' <=> L \in Calls(job, n)
  BY <1>2 DEF InTodo, Calls, ph, n
<1>16. \A L : ~InTodo(L)
  BY <1>2 DEF InTodo
<1>17. \A k \in 1 .. calls : \A L \in Calls(job, k) : MakesLabels(L) => Filled(L, mem')
  BY <1>2, <1>16, <1>11, AllFilled
<1>18. LabelsInv'
  <2>1. MakesLabels(run) => \A w \in Items(run) : at[w] # 0 =>
          LabelReads(run, Lanes(run, w)) \subseteq DOMAIN mem'
    BY <1>11 DEF QInv, LabelsInv
  <2>2. \A k \in 1 .. n : \A L \in Calls(job, k) : MakesLabels(L) =>
          InTodo(L)' \/ run = L \/ Filled(L, mem')
    BY <1>3, <1>15, <1>17
  <2>3. ASSUME NEW L, Counts(L), InTodo(L)' \/ run = L
        PROVE  Filled(L, mem')
    <3>1. CASE run = L
      BY <3>1, <2>3, <1>11 DEF QInv, LabelsInv
    <3>2. CASE InTodo(L)'
      <4>1. L \in Calls(job, n)
        BY <3>2, <1>15
      <4>2. PICK k \in 1 .. n - 1 : \E K \in Calls(job, k) :
              MakesLabels(K) /\ LabelCells(K) = LabelCells(L)
        BY <4>1, <2>3, <1>1, <1>3 DEF JobFits
      <4>3. PICK K \in Calls(job, k) : MakesLabels(K) /\ LabelCells(K) = LabelCells(L)
        BY <4>2
      <4>4. Filled(K, mem')
        BY <4>3, <1>3, <1>17
      <4>5. QED
        BY <4>3, <4>4 DEF Filled
    <3>3. QED
      BY <2>3, <3>1, <3>2
  <2>4. calls' = n
    BY <1>2 DEF n
  <2>5. QED
    BY <2>1, <2>2, <2>3, <2>4, <1>2 DEF LabelsInv, Calls, Filled
<1>19. QED
  BY <1>7, <1>10, <1>12, <1>13, <1>14, <1>18 DEF QInv

\* so does starting the next command, which drops what was in local memory,
LEMMA StartStep ==
  ASSUME QInv, Start
  PROVE  QInv'
<1>1. /\ todo # <<>> /\ Finished /\ run' = Head(todo) /\ todo' = Tail(todo)
      /\ at' = [w \in Items(Head(todo)) |-> 0]
      /\ touched' = [w \in Items(Head(todo)) |-> <<>>]
      /\ mem' = [a \in {x \in DOMAIN mem : x[1] \notin LocalBuffers(run)} |-> mem[a]]
      /\ bad' = bad /\ size' = size /\ job' = job /\ calls' = calls
  BY DEF Start, StartKernel
<1>2. PICK S : todo \in Seq(S) /\ \A L \in S : FitsIn(L, size, ClustersOf(job))
  BY DEF QInv, TodoInv, LaunchesFit
<1>3. /\ Head(todo) \in S /\ Tail(todo) \in Seq(S)
      /\ \A L : InTodo(L) <=> L = Head(todo) \/ \E i \in DOMAIN Tail(todo) : Tail(todo)[i] = L
  BY <1>1, <1>2, SeqTail DEF InTodo
<1>4. \A L : InTodo(L) <=> L = run' \/ InTodo(L)'
  BY <1>1, <1>3 DEF InTodo
<1>5. FitsIn(run', size, ClustersOf(job))
  BY <1>1, <1>2, <1>3
<1>6. TodoInv'
  BY <1>1, <1>2, <1>3 DEF TodoInv, LaunchesFit
<1>7. CallsInv' /\ SizesInv'
  BY <1>1 DEF QInv, CallsInv, SizesInv
<1>8. "labels" \notin LocalBuffers(run)
  BY IdleFacts DEF QInv, RunInv, NoneRuns, OneRuns, FitsIn, LocalBuffers
<1>9. /\ MemOK(mem')
      /\ \A a \in DOMAIN mem' : a[1] = "labels" => mem'[a] \in 0 .. ClustersOf(job) - 1
      /\ \A L : Filled(L, mem) => Filled(L, mem')
  BY <1>1, <1>8, MemRestricted DEF QInv
<1>10. MemInv'
  BY <1>1, <1>9 DEF MemInv
<1>11. \A w \in Items(run') : at'[w] = 0 /\ touched'[w] = <<>>
  BY <1>1
<1>12. RunInv'
  <2>1. DOMAIN at' = Items(run') /\ DOMAIN touched' = Items(run')
    BY <1>1
  <2>2. PICK s : Fits(run', s, ClustersOf(job))
    BY <1>5 DEF FitsIn
  <2>3. ASSUME NEW w \in Items(run')
        PROVE  at'[w] \in 0 .. Intervals(run', w) /\ Traced(w, touched[w], at[w])'
    <3>1. Intervals(run', w) \in Nat \ {0}
      BY <2>2, IntervalsTyped
    <3>a. <<>> \in Seq({}) /\ Len(<<>>) = 0 /\ 1 .. 0 = {}
      OBVIOUS
    <3>b. at'[w] = 0 /\ touched'[w] = <<>>
      BY <1>11
    <3>2. touched'[w] \in Seq({}) /\ Len(touched'[w]) = 0 /\ 1 .. 0 = {}
      BY <3>a, <3>b, Zenon
    <3>3. QED
      BY <3>1, <3>2, <1>11 DEF Traced
  <2>4. OneRuns'
    BY <2>1, <2>3, <1>1, <1>5 DEF OneRuns
  <2>5. QED
    BY <2>4 DEF RunInv
<1>13. LabelsInv'
  <2>1. MakesLabels(run') => \A w \in Items(run') : at'[w] # 0 =>
          LabelReads(run', Lanes(run', w)) \subseteq DOMAIN mem'
    BY <1>11
  <2>2. \A n \in 1 .. calls : \A L \in Calls(job, n) : MakesLabels(L) =>
          InTodo(L)' \/ run' = L \/ Filled(L, mem')
    BY <1>1, <1>4, <1>9, AllFilled
  <2>3. \A L : Counts(L) /\ (InTodo(L)' \/ run' = L) => Filled(L, mem')
    BY <1>4, <1>9 DEF QInv, LabelsInv
  <2>4. QED
    BY <2>1, <2>2, <2>3, <1>1 DEF LabelsInv, Calls, Filled
<1>14. QED
  BY <1>6, <1>7, <1>10, <1>12, <1>13 DEF QInv

\* Memory when an item executes: the labels that are counted are clusters.
LEMMA MemForRun ==
  ASSUME QInv, OneRuns
  PROVE  MemFor(run, mem)
<1>1. PICK s : Sized(s) /\ Fits(run, s, ClustersOf(job))
  BY DEF OneRuns, FitsIn
<1>2. ASSUME Counts(run), NEW q \in 0 .. run.N - 1
      PROVE  Label(run, mem, q) \in Clusters(run)
  <2>1. run.C = ClustersOf(job)
    BY <1>1, <1>2, FitsPoints
  <2>2. Filled(run, mem)
    BY <1>2 DEF QInv, LabelsInv
  <2>3. InBlock(run, "labels", q) \in DOMAIN mem /\ InBlock(run, "labels", q)[1] = "labels"
    BY <2>2 DEF Filled, LabelCells, InBlock
  <2>4. mem[InBlock(run, "labels", q)] \in 0 .. ClustersOf(job) - 1
    BY <2>3 DEF QInv, MemInv
  <2>5. QED
    BY <2>1, <2>3, <2>4 DEF Label, Val, Clusters
<1>3. QED
  BY <1>2 DEF MemFor, QInv, MemInv

\* Memory after an interval that keeps to whole numbers and to clusters.
LEMMA Applied ==
  ASSUME NEW m, MemOK(m), NEW c, \A a \in DOMAIN m : a[1] = "labels" => m[a] \in 0 .. c - 1,
         NEW e, Keeps(e, c)
  PROVE  LET n == Apply(m, e)
         IN  /\ MemOK(n) /\ \A a \in DOMAIN n : a[1] = "labels" => n[a] \in 0 .. c - 1
             /\ DOMAIN m \subseteq DOMAIN n /\ DOMAIN e.writes \subseteq DOMAIN n
<1> DEFINE g == [a \in DOMAIN e.adds |-> Val(m, a) + e.adds[a]]
<1> DEFINE h == Over(g, m)
<1> DEFINE n == Over(e.writes, h)
<1>1. \A a \in DOMAIN g : g[a] \in Int /\ a[1] # "labels"
  <2>1. TAKE a \in DOMAIN g
  <2>2. e.adds[a] \in Int /\ a[1] # "labels"
    BY DEF Keeps
  <2>3. Val(m, a) \in Int
    BY ValTyped
  <2>4. QED
    BY <2>2, <2>3
<1> HIDE DEF g
<1>2. DOMAIN h = DOMAIN g \cup DOMAIN m
  BY OverDomain
<1>3. \A a \in DOMAIN h : h[a] = IF a \in DOMAIN g THEN g[a] ELSE m[a]
  BY <1>2 DEF Over
<1>4. \A a \in DOMAIN h : h[a] \in Int /\ (a[1] = "labels" => h[a] \in 0 .. c - 1)
  BY <1>1, <1>2, <1>3 DEF MemOK
<1> HIDE DEF h
<1>5. DOMAIN n = DOMAIN e.writes \cup DOMAIN h
  BY OverDomain
<1>6. \A a \in DOMAIN n : n[a] = IF a \in DOMAIN e.writes THEN e.writes[a] ELSE h[a]
  BY <1>5 DEF Over
<1>7. \A a \in DOMAIN n : n[a] \in Int /\ (a[1] = "labels" => n[a] \in 0 .. c - 1)
  BY <1>4, <1>5, <1>6 DEF Keeps
<1>8. Apply(m, e) = n
  BY Zenon DEF Apply, g, h
<1> HIDE DEF n
<1>9. QED
  BY <1>2, <1>5, <1>7, <1>8 DEF MemOK

\* and an item executing an interval.
LEMMA ExecuteStep ==
  ASSUME QInv, NEW w \in DOMAIN at, Execute(w), job' = job, calls' = calls
  PROVE  QInv'
<1> DEFINE e == Interval(run, w, at[w], mem)
<1> DEFINE t == [reads |-> e.reads, writes |-> DOMAIN e.writes, adds |-> DOMAIN e.adds]
<1> DEFINE c == ClustersOf(job)
<1>1. /\ at[w] < Intervals(run, w) /\ mem' = Apply(mem, e)
      /\ touched' = [touched EXCEPT ![w] = Append(@, t)] /\ at' = [at EXCEPT ![w] = @ + 1]
      /\ bad' = bad /\ size' = size /\ todo' = todo /\ run' = run
  BY DEF Execute
<1>2. OneRuns
  <2>1. ~NoneRuns
    <3>1. SUFFICES ASSUME NoneRuns PROVE FALSE
      OBVIOUS
    <3>2. w \in Items(Idle) /\ at[w] = 1 /\ Intervals(run, w) = 1
      BY <3>1, IdleFacts DEF NoneRuns
    <3>3. QED
      BY <3>2, <1>1
  <2>2. QED
    BY <2>1 DEF QInv, RunInv
<1>3. PICK s : Sized(s) /\ Fits(run, s, c)
  BY <1>2 DEF OneRuns, FitsIn
<1>4. w \in Items(run) /\ Intervals(run, w) \in Nat \ {0} /\ at[w] \in 0 .. Intervals(run, w)
      /\ Traced(w, touched[w], at[w])
  BY <1>2, <1>3, IntervalsTyped DEF OneRuns
<1>5. at[w] \in Nat /\ at[w] < Intervals(run, w) /\ at[w] + 1 \in 0 .. Intervals(run, w)
  BY <1>1, <1>4
<1>6. MemFor(run, mem)
  BY <1>2, MemForRun
<1>7. Keeps(e, c) /\ Uses3(e, Foot(run, w, at[w]))
  BY <1>3, <1>4, <1>5, <1>6, FootHolds
<1> HIDE DEF e
<1>8. Part(t, Foot(run, w, at[w]))
  BY <1>7, Zenon DEF Uses3, Touches, Part
<1> HIDE DEF t, c
<1>9. MemInv
  BY DEF QInv
<1>10. /\ MemOK(mem') /\ \A a \in DOMAIN mem' : a[1] = "labels" => mem'[a] \in 0 .. c - 1
       /\ DOMAIN mem \subseteq DOMAIN mem' /\ DOMAIN e.writes \subseteq DOMAIN mem'
  BY <1>1, <1>7, <1>9, Applied DEF MemInv, c
<1>11. MemInv'
  BY <1>10 DEF MemInv, c, ClustersOf
<1>12. CallsInv' /\ SizesInv' /\ TodoInv'
  BY <1>1 DEF QInv, CallsInv, SizesInv, TodoInv
<1>13. RunInv'
  <2>1. DOMAIN at' = Items(run') /\ DOMAIN touched' = Items(run')
    BY <1>1, <1>2 DEF OneRuns
  <2>2. ASSUME NEW u \in Items(run')
        PROVE  at'[u] \in 0 .. Intervals(run', u) /\ Traced(u, touched[u], at[u])'
    <3>1. CASE u # w
      <4>1. at'[u] = at[u] /\ touched'[u] = touched[u] /\ u \in Items(run)
        BY <3>1, <1>1, <1>2, <2>2 DEF OneRuns
      <4>2. QED
        BY <4>1, <1>1, <1>2 DEF OneRuns, Traced
    <3>2. CASE u = w
      <4>1. at'[w] = at[w] + 1 /\ touched'[w] = Append(touched[w], t)
        BY <1>1, <1>2, <1>4 DEF OneRuns
      <4>2. PICK S : touched[w] \in Seq(S)
        BY <1>4 DEF Traced
      <4>3. Len(touched[w]) = at[w]
              /\ \A k \in 1 .. at[w] : Part(touched[w][k], Foot(run, w, k - 1))
        BY <1>4 DEF Traced
      <4>4. /\ touched'[w] \in Seq(S \cup {t}) /\ Len(touched'[w]) = at[w] + 1
            /\ \A i \in 1 .. at[w] : touched'[w][i] = touched[w][i]
            /\ touched'[w][at[w] + 1] = t
        BY <4>1, <4>2, <4>3, SeqAppend
      <4>5. ASSUME NEW k \in 1 .. at[w] + 1
            PROVE  Part(touched'[w][k], Foot(run, w, k - 1))
        <5>1. CASE k = at[w] + 1
          <6>1. k - 1 = at[w]
            BY <5>1, <1>5
          <6>2. QED
            BY <6>1, <5>1, <4>4, <1>8
        <5>2. CASE k # at[w] + 1
          <6>1. k \in 1 .. at[w]
            BY <5>2, <1>5
          <6>2. QED
            BY <6>1, <4>3, <4>4
        <5>3. QED
          BY <5>1, <5>2
      <4>6. Traced(w, touched[w], at[w])'
        BY <4>1, <4>4, <4>5, <1>1 DEF Traced
      <4>7. QED
        BY <4>1, <4>6, <1>1, <1>5, <3>2
    <3>3. QED
      BY <3>1, <3>2
  <2>3. OneRuns'
    BY <2>1, <2>2, <1>1, <1>2 DEF OneRuns
  <2>4. QED
    BY <2>3 DEF RunInv
<1>14. LabelsInv'
  <2>1. ASSUME MakesLabels(run), NEW u \in Items(run), at'[u] # 0
        PROVE  LabelReads(run, Lanes(run, u)) \subseteq DOMAIN mem'
    <3>1. CASE u # w
      <4>1. at'[u] = at[u]
        BY <3>1, <1>1, <1>2 DEF OneRuns
      <4>2. QED
        BY <4>1, <2>1, <1>10 DEF QInv, LabelsInv
    <3>2. CASE u = w
      <4>1. PointsLaunch(run)
        BY <2>1, <1>3, FitsPoints
      <4>2. LabelReads(run, Lanes(run, w)) \subseteq DOMAIN e.writes
        BY <4>1, <2>1, <1>4, <1>6, FootLabeling DEF MakesLabels, e
      <4>3. QED
        BY <4>2, <3>2, <1>10
    <3>3. QED
      BY <3>1, <3>2
  <2>2. \A L : Filled(L, mem) => Filled(L, mem')
    BY <1>10 DEF Filled
  <2>3. \A L : InTodo(L)' <=> InTodo(L)
    BY <1>1 DEF InTodo
  <2>4. QED
    BY <2>1, <2>2, <2>3, <1>1 DEF QInv, LabelsInv, Calls, Filled
<1>15. QED
  BY <1>11, <1>12, <1>13, <1>14 DEF QInv

\* Every step keeps the invariant.
LEMMA QNext ==
  ASSUME \A j \in Jobs : JobFits(j), QInv, [Next]_vars
  PROVE  QInv'
<1>1. CASE CallPhase
  BY <1>1, CallStep
<1>2. CASE Start
  BY <1>2, StartStep
<1>3. CASE Step
  BY <1>3, ExecuteStep DEF Step
<1>4. CASE UNCHANGED vars
  <2>1. /\ job' = job /\ calls' = calls /\ bad' = bad /\ size' = size /\ todo' = todo
        /\ run' = run /\ at' = at /\ touched' = touched /\ mem' = mem
    BY <1>4 DEF vars, queueVars
  <2>2. CallsInv' /\ SizesInv' /\ MemInv'
    BY <2>1 DEF QInv, CallsInv, SizesInv, MemInv
  <2>3. TodoInv' /\ (NoneRuns' <=> NoneRuns) /\ (OneRuns' <=> OneRuns)
    BY <2>1 DEF QInv, TodoInv, NoneRuns, OneRuns, Traced
  <2>4. \A L : InTodo(L)' <=> InTodo(L)
    BY <2>1 DEF InTodo
  <2>5. LabelsInv'
    BY <2>1, <2>4 DEF QInv, LabelsInv, Calls
  <2>6. QED
    BY <2>2, <2>3, <2>5 DEF QInv, RunInv
<1>5. QED
  BY <1>1, <1>2, <1>3, <1>4 DEF Next, End

-----------------------------------------------------------------------------
(***************************************************************************)
(* What follows from the invariant                                         *)
(***************************************************************************)
\* The invariant has the types of the variables,
LEMMA InvTyped ==
  ASSUME QInv
  PROVE  QueueTypeOK
<1>1. bad \in BOOLEAN
        /\ (\A b \in DOMAIN size : size[b] \in Nat) /\ \A a \in DOMAIN mem : mem[a] \in Int
  BY DEF QInv, CallsInv, SizesInv, Sized, MemInv, MemOK
<1>2. CASE NoneRuns
  <2>1. DOMAIN at = Items(run) /\ DOMAIN touched = Items(run)
    BY <1>2 DEF NoneRuns
  <2>2. \A w \in DOMAIN at : at[w] = 1 /\ Intervals(run, w) = 1
    BY <1>2, IdleFacts DEF NoneRuns
  <2>3. \A w \in DOMAIN at : at[w] \in 0 .. Intervals(run, w)
    BY <2>2
  <2>4. QED
    BY <1>1, <2>1, <2>3 DEF QueueTypeOK
<1>3. CASE OneRuns
  BY <1>1, <1>3 DEF OneRuns, QueueTypeOK
<1>4. QED
  BY <1>2, <1>3 DEF QInv, RunInv

\* and of the job, with the labels among the numbers of its clusters,
LEMMA InvJobTyped ==
  ASSUME QInv
  PROVE  DeviceTypeOK
<1>1. calls \in 0 .. Len(Iteration(job))
  BY DEF QInv, CallsInv
<1>2. ASSUME job.client # "reduce_vector_test", NEW a \in DOMAIN mem, a[1] = "labels"
      PROVE  mem[a] \in Cs(job)
  <2>1. mem[a] \in 0 .. ClustersOf(job) - 1
    BY <1>2 DEF QInv, MemInv
  <2>2. ClustersOf(job) = NumClusters(job)
    BY <1>2 DEF ClustersOf
  <2>3. QED
    BY <2>1, <2>2 DEF Cs
<1>3. QED
  BY <1>1, <1>2, InvTyped DEF DeviceTypeOK

\* says that a group that waits at a barrier waits there with all its items,
LEMMA InvUniform ==
  ASSUME QInv
  PROVE  UniformBarriers
<1>1. CASE NoneRuns
  BY <1>1, IdleFacts DEF NoneRuns, UniformBarriers
<1>2. CASE OneRuns
  BY <1>2, BarriersUniform DEF OneRuns, FitsIn, UniformBarriers
<1>3. QED
  BY <1>1, <1>2 DEF QInv, RunInv

\* What an item has touched is within what its intervals may use.
LEMMA TracedFoot ==
  ASSUME QInv, NEW w \in DOMAIN touched, NEW k \in DOMAIN touched[w]
  PROVE  /\ OneRuns /\ w \in Items(run) /\ k - 1 \in Nat /\ k - 1 < Intervals(run, w)
         /\ Part(touched[w][k], Foot(run, w, k - 1))
<1>1. OneRuns
  <2>1. ~NoneRuns
    BY DEF NoneRuns
  <2>2. QED
    BY <2>1 DEF QInv, RunInv
<1>2. PICK s : Fits(run, s, ClustersOf(job))
  BY <1>1 DEF OneRuns, FitsIn
<1>3. w \in Items(run) /\ at[w] \in 0 .. Intervals(run, w) /\ Traced(w, touched[w], at[w])
  BY <1>1 DEF OneRuns
<1>4. Intervals(run, w) \in Nat
  BY <1>2, <1>3, IntervalsTyped
<1>5. PICK S : touched[w] \in Seq(S)
  BY <1>3 DEF Traced
<1>6. DOMAIN touched[w] = 1 .. at[w]
  BY <1>3, <1>5 DEF Traced
<1>7. k \in 1 .. at[w] /\ at[w] \in Nat /\ at[w] <= Intervals(run, w)
  BY <1>3, <1>4, <1>6
<1>8. k - 1 \in Nat /\ k - 1 < Intervals(run, w)
  BY <1>4, <1>7
<1>9. QED
  BY <1>1, <1>3, <1>7, <1>8 DEF Traced

\* that every access is inside of its buffer,
LEMMA InvInBounds ==
  ASSUME QInv
  PROVE  InBounds
<1>1. SUFFICES ASSUME NEW w \in DOMAIN touched, NEW k \in DOMAIN touched[w],
                      NEW a \in Addresses(touched[w][k])
               PROVE  a[3] \in 0 .. SizeOf(a) - 1
  BY DEF InBounds
<1> DEFINE f == Foot(run, w, k - 1)
<1>2. /\ OneRuns /\ w \in Items(run) /\ k - 1 \in Nat /\ k - 1 < Intervals(run, w)
      /\ Part(touched[w][k], f)
  BY TracedFoot
<1>3. PICK s : Sized(s) /\ Below(s, size) /\ Fits(run, s, ClustersOf(job))
  BY <1>2 DEF OneRuns, FitsIn
<1>4. Bounded(run, s, f)
  BY <1>2, <1>3, FootWithin
<1> HIDE DEF f
<1>5. a \in f.reads \cup f.writes \cup f.adds
  BY <1>2 DEF Part, Addresses
<1>6. Within(run, s, a)
  BY <1>4, <1>5 DEF Bounded, AllWithin
<1>7. a[3] \in Nat
  BY <1>6 DEF Within
<1>a. "labels" \notin DOMAIN run.locals /\ "points" \notin DOMAIN run.locals
  BY <1>2 DEF OneRuns, FitsIn
<1>8. CASE a[1] \in DOMAIN run.locals
  <2>1. SizeOf(a) = run.locals[a[1]]
    BY <1>8, <1>a DEF SizeOf, LocalBuffers
  <2>2. run.locals[a[1]] \in Nat /\ a[3] < run.locals[a[1]]
    BY <1>6, <1>8 DEF Within
  <2>3. QED
    BY <2>1, <2>2, <1>7
<1>9. CASE a[1] \notin DOMAIN run.locals /\ a[1] = "points"
  <2>1. SizeOf(a) = run.N * run.dims
    BY <1>9 DEF SizeOf, LocalBuffers
  <2>2. run.N * run.dims \in Nat /\ a[3] < run.N * run.dims
    BY <1>6, <1>9 DEF Within
  <2> DEFINE p == run.N * run.dims
  <2> HIDE DEF p
  <2>3. SizeOf(a) = p /\ p \in Nat /\ a[3] < p
    BY <2>1, <2>2 DEF p
  <2>4. QED
    BY <2>3, <1>7
<1>10. CASE a[1] \notin DOMAIN run.locals /\ a[1] = "labels"
  <2>1. SizeOf(a) = run.N
    BY <1>10 DEF SizeOf, LocalBuffers
  <2>2. run.N \in Nat /\ a[3] < run.N
    BY <1>6, <1>10 DEF Within
  <2>3. QED
    BY <2>1, <2>2, <1>7
<1>11. CASE GlobalName(run, a[1])
  <2>1. SizeOf(a) = size[a[1]]
    BY <1>11 DEF SizeOf, LocalBuffers, GlobalName
  <2>2. a[1] \in DOMAIN s /\ a[3] < s[a[1]]
    BY <1>6, <1>11 DEF Within
  <2>3. s[a[1]] <= size[a[1]] /\ s[a[1]] \in Nat /\ size[a[1]] \in Nat
    BY <2>2, <1>3 DEF Below, Room, Sized, QInv, SizesInv
  <2>4. QED
    BY <2>1, <2>2, <2>3, <1>7
<1>12. QED
  BY <1>8, <1>9, <1>10, <1>11 DEF GlobalName

\* and that conflicting accesses have a barrier between them.
LEMMA InvNoRace ==
  ASSUME QInv
  PROVE  NoDataRace
<1>1. SUFFICES ASSUME NEW u \in DOMAIN touched, NEW w \in DOMAIN touched, u # w,
                      NEW i \in DOMAIN touched[u], NEW k \in DOMAIN touched[w],
                      NEW a \in Addresses(touched[u][i]) \cap Addresses(touched[w][k]),
                      Conflict(a, touched[u][i], touched[w][k])
               PROVE  u[1] = w[1] /\ Ordered(a, i - 1, k - 1)
  BY DEF NoDataRace
<1> DEFINE f == Foot(run, u, i - 1)
<1> DEFINE g == Foot(run, w, k - 1)
<1>2. /\ OneRuns /\ u \in Items(run) /\ i - 1 \in Nat /\ i - 1 < Intervals(run, u)
      /\ Part(touched[u][i], f)
  BY TracedFoot
<1>3. /\ w \in Items(run) /\ k - 1 \in Nat /\ k - 1 < Intervals(run, w)
      /\ Part(touched[w][k], g)
  BY TracedFoot
<1>4. PICK s : Fits(run, s, ClustersOf(job))
  BY <1>2 DEF OneRuns, FitsIn
<1>5. Guarded(run, u, i - 1, w, k - 1) /\ Guarded(run, w, k - 1, u, i - 1)
  BY <1>1, <1>2, <1>3, <1>4, FootGuarded
<1>6. \/ a \in Alters(f) \cap Relies(g)
      \/ a \in Alters(g) \cap Relies(f)
  <2> HIDE DEF f, g
  <2>1. \A x :
          (x \in touched[u][i].reads => x \in f.reads)
            /\ (x \in touched[u][i].writes => x \in f.writes)
               /\ (x \in touched[u][i].adds => x \in f.adds)
    BY <1>2 DEF Part
  <2>2. \A x :
          (x \in touched[w][k].reads => x \in g.reads)
            /\ (x \in touched[w][k].writes => x \in g.writes)
               /\ (x \in touched[w][k].adds => x \in g.adds)
    BY <1>3 DEF Part
  <2>3. /\ a \in touched[u][i].reads \/ a \in touched[u][i].writes \/ a \in touched[u][i].adds
        /\ a \in touched[w][k].reads \/ a \in touched[w][k].writes \/ a \in touched[w][k].adds
    BY <1>1 DEF Addresses
  <2>4. \/ a \in touched[u][i].writes \/ a \in touched[w][k].writes
        \/ a \in touched[u][i].adds /\ a \notin touched[w][k].adds
        \/ a \in touched[w][k].adds /\ a \notin touched[u][i].adds
    BY <1>1 DEF Conflict
  <2>5. QED
    BY <2>1, <2>2, <2>3, <2>4, Zenon DEF Alters, Relies
<1>7. \/ u[1] = w[1] /\ OrderedIn(run, a, i - 1, k - 1)
      \/ u[1] = w[1] /\ OrderedIn(run, a, k - 1, i - 1)
  BY <1>5, <1>6 DEF Guarded
<1>8. OrderedIn(run, a, k - 1, i - 1) => OrderedIn(run, a, i - 1, k - 1)
  <2> DEFINE x == i - 1
  <2> DEFINE y == k - 1
  <2>1. x \in Nat /\ y \in Nat
    BY <1>2, <1>3
  <2> HIDE DEF x, y
  <2>2. PICK m \in Nat : m = Min2(x, y) /\ m = Min2(y, x)
    BY <2>1 DEF Min2
  <2>a. x + y - m - 1 = y + x - m - 1
    BY <2>1, <2>2
  <2> DEFINE R(n) == \E z \in m .. n : GlobalFence(run, z)
  <2>b. /\ OrderedIn(run, a, x, y) <=> x # y /\ (a[1] \in LocalBuffers(run) \/ R(x + y - m - 1))
        /\ OrderedIn(run, a, y, x) <=> y # x /\ (a[1] \in LocalBuffers(run) \/ R(y + x - m - 1))
    BY <2>2, Zenon DEF OrderedIn
  <2> HIDE DEF R
  <2>3. OrderedIn(run, a, y, x) => OrderedIn(run, a, x, y)
    BY <2>a, <2>b
  <2>4. QED
    BY <2>3 DEF x, y
<1>9. QED
  BY <1>7, <1>8 DEF OrderedIn, Ordered

\* A set that with the numbers below a number contains it, contains them all.
LEMMA AllBelow ==
  ASSUME NEW T, \A k \in Nat : (\A i \in 0 .. k - 1 : i \in T) => k \in T
  PROVE  Nat \subseteq T
<1>1. SUFFICES ASSUME Nat \ T # {} PROVE FALSE
  OBVIOUS
<1>2. PICK x \in Nat \ T : \A y \in Nat \ T : x <= y
  BY <1>1, LeastNat
<1>3. \A i \in 0 .. x - 1 : i \in Nat /\ ~(x <= i)
  BY <1>2
<1>4. QED
  BY <1>2, <1>3

\* The number of items of a group in the reductions.
LEMMA WorkgroupTyped ==
  WorkgroupSize \in Nat \ {0} /\ WorkgroupSize > 1 /\ IsPowerOfTwo(WorkgroupSize)
BY SizesAssumption, PowerOfTwoTyped

\* A power of two above another is twice a multiple of it.
LEMMA PowerHalf ==
  ASSUME NEW r, IsPowerOfTwo(r), r # 1
  PROVE  \E q : IsPowerOfTwo(q) /\ r = 2 * q
<1>1. PICK k \in Nat : r = Power(2, k)
  BY PowersOfTwo
<1>2. k # 0
  BY <1>1, PowerStep
<1>3. k - 1 \in Nat /\ (k - 1) + 1 = k
  BY <1>2
<1>4. r = 2 * Power(2, k - 1)
  BY <1>1, <1>3, PowerStep
<1>5. IsPowerOfTwo(Power(2, k - 1))
  BY <1>3, PowersOfTwo
<1>6. QED
  BY <1>4, <1>5

\* A power of two above another, halved, is a multiple of it.
LEMMA PowerAbove ==
  ASSUME NEW m, NEW n, IsPowerOfTwo(m), IsPowerOfTwo(n), m < n
  PROVE  \E q : IsPowerOfTwo(q) /\ n = 2 * (m * q) /\ n % 2 = 0 /\ n \div 2 = m * q
                /\ (n \div 2) % m = 0 /\ m <= n \div 2
<1>1. m \in Nat \ {0} /\ n \in Nat \ {0}
  BY PowerOfTwoTyped
<1>c. m <= n
  BY <1>1
<1>2. PICK r : IsPowerOfTwo(r) /\ n = m * r
  BY <1>c, PowerDivides, Zenon
<1>3. r # 1 /\ r \in Nat \ {0}
  BY <1>1, <1>2, PowerOfTwoTyped
<1>4. PICK q : IsPowerOfTwo(q) /\ r = 2 * q
  BY <1>2, <1>3, PowerHalf
<1>5. q \in Nat \ {0}
  BY <1>4, PowerOfTwoTyped
<1> DEFINE p == m * q
<1>6. p \in Nat /\ n = 2 * p /\ m <= p
  BY <1>1, <1>2, <1>4, <1>5
<1>a. IsPowerOfTwo(p)
  BY <1>4, PowerProduct
<1> HIDE DEF p
<1>7. p % m = 0
  BY <1>6, <1>a, PowerDivides
<1>8. n % 2 = 0 /\ n \div 2 = p
  BY <1>6
<1>b. n = 2 * (m * q) /\ n \div 2 = m * q
  BY <1>6, <1>8, Zenon DEF p
<1>9. QED
  BY <1>4, <1>6, <1>7, <1>8, <1>b

-----------------------------------------------------------------------------
(***************************************************************************)
(* The launches of a reduction                                             *)
(***************************************************************************)
\* The launches of the reduction of m numbers.
CompactLaunch(m, rows, buf) ==
  ReduceLaunch("reduce_vector_parcol_compact", m \div 2, 1, m, rows, buf)
\* The launch that ends a reduction.
InnerLaunch(m, rows, buf) == ReduceLaunch("reduce_vector_parcol_inner", 1, m \div 2, m, rows, buf)

\* The recursive function of Reduce.
ReduceFrom(f, k, rows, buf) ==
  CASE Compacts(k, rows) -> <<CompactLaunch(k, rows, buf)>> \o f[2 * (k \div 4)]
    [] ~Compacts(k, rows) /\ k # rows -> <<InnerLaunch(k, rows, buf)>>
    [] ~Compacts(k, rows) /\ k = rows -> <<>>
\* The recursive function of the reduction: a buffer of n cells is reduced after smaller ones.
ReduceEq(n, rows, buf, f) == f = [k \in 0 .. n |-> ReduceFrom(f, k, rows, buf)]

\* Reduce is a value of it.
LEMMA ReduceIs ==
  ASSUME NEW n, NEW rows, NEW buf
  PROVE  Reduce(n, rows, buf) = (CHOOSE f : ReduceEq(n, rows, buf, f))[n]
BY Zenon DEF Reduce, ReduceEq, ReduceFrom, CompactLaunch, InnerLaunch

\* The reduction of a quarter of the cells, twice, is one of fewer cells.
LEMMA NextSize ==
  ASSUME NEW k \in Nat
  PROVE  2 * (k \div 4) \in 0 .. k /\ (k # 0 => 2 * (k \div 4) \in 0 .. k - 1)
         /\ 4 * (k \div 4) + 3 >= k
OBVIOUS

\* So the recursive function exists.
LEMMA ReduceDefined ==
  ASSUME NEW n \in Nat, NEW rows \in Nat, NEW buf
  PROVE  \E f : ReduceEq(n, rows, buf, f)
<1> DEFINE T == {k \in Nat : \E f : ReduceEq(k, rows, buf, f)}
<1>1. 0 \in T
  <2> DEFINE v == IF 0 = rows THEN <<>> ELSE <<InnerLaunch(0, rows, buf)>>
  <2> DEFINE f == [k \in 0 .. 0 |-> v]
  <2>1. ~Compacts(0, rows)
    BY WorkgroupTyped DEF Compacts
  <2>2. \A g : ReduceFrom(g, 0, rows, buf) = v
    BY <2>1, Zenon DEF ReduceFrom
  <2>3. \A k \in 0 .. 0 : k = 0
    OBVIOUS
  <2> HIDE DEF v
  <2>4. f = [k \in 0 .. 0 |-> ReduceFrom(f, k, rows, buf)]
    BY <2>2, <2>3
  <2>5. QED
    BY <2>4 DEF ReduceEq
<1>2. ASSUME NEW k \in Nat, k \in T PROVE k + 1 \in T
  <2>1. PICK f : ReduceEq(k, rows, buf, f)
    BY <1>2
  <2> DEFINE q == [i \in 0 .. k + 1 |-> IF i = k + 1 THEN ReduceFrom(f, k + 1, rows, buf) ELSE f[i]]
  <2>2. \A i \in 0 .. k : f[i] = ReduceFrom(f, i, rows, buf)
    BY <2>1, Zenon DEF ReduceEq
  <2>3. \A i \in 0 .. k + 1 : 2 * (i \div 4) \in 0 .. k
    BY NextSize
  <2>4. \A i \in 0 .. k : i \in 0 .. k + 1 /\ i # k + 1
    OBVIOUS
  <2>5. \A i \in 0 .. k : q[i] = f[i]
    BY <2>4, Zenon
  <2>6. \A i \in 0 .. k + 1 : q[2 * (i \div 4)] = f[2 * (i \div 4)]
    BY <2>3, <2>5, Zenon
  <2>7. k + 1 \in 0 .. k + 1 /\ \A i \in 0 .. k + 1 : i = k + 1 \/ i \in 0 .. k
    OBVIOUS
  <2>8. \A i \in 0 .. k + 1 : q[i] = ReduceFrom(f, i, rows, buf)
    BY <2>2, <2>5, <2>7, Zenon
  <2>9. DOMAIN q = 0 .. k + 1 /\ q = [i \in 0 .. k + 1 |-> q[i]]
    BY Zenon
  <2> HIDE DEF q
  <2>10. \A i \in 0 .. k + 1 : ReduceFrom(f, i, rows, buf) = ReduceFrom(q, i, rows, buf)
    BY <2>6, Zenon DEF ReduceFrom
  <2>11. q = [i \in 0 .. k + 1 |-> ReduceFrom(q, i, rows, buf)]
    BY <2>8, <2>9, <2>10
  <2>12. QED
    BY <2>11 DEF ReduceEq
<1> HIDE DEF T
<1>3. Nat \subseteq T
  BY <1>1, <1>2, AllNumbers
<1>4. QED
  BY <1>3 DEF T

\* The launches of a reduction of k numbers: halvings of more numbers than a
\* group takes, and one launch of a group for what is left.
Halving(L, k, rows, buf) ==
  \E m \in 0 .. k : Compacts(m, rows) /\ L = CompactLaunch(m, rows, buf)
\* The launch ends a reduction that has come down to m cells.
Ending(L, k, rows, buf) ==
  \E m \in 0 .. k : /\ ~Compacts(m, rows) /\ m # rows /\ L = InnerLaunch(m, rows, buf)
                    /\ m = k \/ m >= WorkgroupSize

\* After a halving, at least as many numbers are left as a group has items.
LEMMA NextLarge ==
  ASSUME NEW k \in Nat, NEW rows, Compacts(k, rows)
  PROVE  2 * (k \div 4) >= WorkgroupSize /\ 2 * (k \div 4) \in 0 .. k - 1 /\ k # 0
<1>1. PICK q : IsPowerOfTwo(q) /\ WorkgroupSize = 2 * q
  BY WorkgroupTyped, PowerHalf
<1>2. q \in Nat \ {0}
  BY <1>1, PowerOfTwoTyped
<1>3. k > 4 * q
  BY <1>1, <1>2 DEF Compacts
<1>4. k \div 4 >= q
  BY <1>2, <1>3
<1>5. QED
  BY <1>1, <1>2, <1>3, <1>4, NextSize

\* The launches of a reduction: some that halve the buffer, and one that ends it.
LEMMA ReduceElements ==
  ASSUME NEW n \in Nat, NEW rows \in Nat, NEW buf
  PROVE  /\ \E S : Reduce(n, rows, buf) \in Seq(S)
         /\ \A i \in DOMAIN Reduce(n, rows, buf) :
              LET L == Reduce(n, rows, buf)[i]
              IN  Halving(L, n, rows, buf) \/ Ending(L, n, rows, buf)
<1> DEFINE f == CHOOSE f : ReduceEq(n, rows, buf, f)
<1> DEFINE Good(L, k) == Halving(L, k, rows, buf) \/ Ending(L, k, rows, buf)
<1> DEFINE T == {k \in Nat : k <= n => \E S : f[k] \in Seq(S) /\ \A L \in S : Good(L, k)}
<1>1. ReduceEq(n, rows, buf, f) /\ Reduce(n, rows, buf) = f[n]
  BY ReduceDefined, ReduceIs
<1> HIDE DEF f
<1>2. \A k \in 0 .. n : f[k] = ReduceFrom(f, k, rows, buf)
  BY <1>1, Zenon DEF ReduceEq
<1>3. ASSUME NEW k \in Nat, \A i \in 0 .. k - 1 : i \in T PROVE k \in T
  <2>1. SUFFICES ASSUME k <= n PROVE \E S : f[k] \in Seq(S) /\ \A L \in S : Good(L, k)
    OBVIOUS
  <2>2. k \in 0 .. n /\ k \in 0 .. k
    BY <2>1
  <2>3. CASE Compacts(k, rows)
    <3> DEFINE p == 2 * (k \div 4)
    <3>1. p >= WorkgroupSize /\ p \in 0 .. k - 1
      BY <2>3, NextLarge
    <3>2. f[k] = <<CompactLaunch(k, rows, buf)>> \o f[p]
      BY <1>2, <2>2, <2>3, Zenon DEF ReduceFrom
    <3> HIDE DEF p
    <3>3. p <= n /\ p \in Nat
      BY <3>1, <2>1
    <3>4. PICK S : f[p] \in Seq(S) /\ \A L \in S : Good(L, p)
      BY <1>3, <3>1, <3>3
    <3> DEFINE R == S \cup {CompactLaunch(k, rows, buf)}
    <3>5. f[k] \in Seq(R)
      <4>1. f[p] \in Seq(R) /\ <<CompactLaunch(k, rows, buf)>> \in Seq(R)
        BY <3>4
      <4>2. QED
        BY <4>1, <3>2
    <3>6. Good(CompactLaunch(k, rows, buf), k)
      BY <2>2, <2>3 DEF Halving
    <3>7. ASSUME NEW L \in S PROVE Good(L, k)
      <4>1. 0 .. p \subseteq 0 .. k
        BY <3>1
      <4>2. Good(L, p)
        BY <3>4
      <4>3. CASE Halving(L, p, rows, buf)
        BY <4>1, <4>3 DEF Halving
      <4>4. CASE Ending(L, p, rows, buf)
        <5>1. PICK m \in 0 .. p : /\ ~Compacts(m, rows) /\ m # rows /\ L = InnerLaunch(m, rows, buf)
                                  /\ m = p \/ m >= WorkgroupSize
          BY <4>4 DEF Ending
        <5>2. m >= WorkgroupSize /\ m \in 0 .. k
          BY <5>1, <3>1, <4>1
        <5>3. QED
          BY <5>1, <5>2 DEF Ending
      <4>5. QED
        BY <4>2, <4>3, <4>4
    <3>8. \A L \in R : Good(L, k)
      BY <3>6, <3>7
    <3>9. QED
      BY <3>5, <3>8
  <2>4. CASE ~Compacts(k, rows) /\ k # rows
    <3>1. f[k] = <<InnerLaunch(k, rows, buf)>>
      BY <1>2, <2>2, <2>4, Zenon DEF ReduceFrom
    <3>2. Good(InnerLaunch(k, rows, buf), k)
      BY <2>2, <2>4 DEF Ending
    <3>3. f[k] \in Seq({InnerLaunch(k, rows, buf)})
      BY <3>1
    <3>4. QED
      BY <3>2, <3>3
  <2>5. CASE ~Compacts(k, rows) /\ k = rows
    <3>1. f[k] = <<>>
      BY <1>2, <2>2, <2>5, Zenon DEF ReduceFrom
    <3>2. f[k] \in Seq({})
      BY <3>1
    <3>3. QED
      BY <3>2
  <2>6. QED
    BY <2>3, <2>4, <2>5
<1> HIDE DEF T
<1>4. Nat \subseteq T
  BY <1>3, AllBelow
<1>5. PICK S : f[n] \in Seq(S) /\ \A L \in S : Good(L, n)
  BY <1>4 DEF T
<1> HIDE DEF Good
<1>6. \A i \in DOMAIN f[n] : f[n][i] \in S
  BY <1>5
<1>7. \A i \in DOMAIN f[n] : Good(f[n][i], n)
  BY <1>5, <1>6
<1>8. QED
  BY <1>1, <1>5, <1>7 DEF Good

\* The fields of the launches.
LEMMA CompactFields ==
  ASSUME NEW m, NEW rows, NEW buf, NEW L, L = CompactLaunch(m, rows, buf)
  PROVE  /\ L.kernel = "reduce_vector_parcol_compact" /\ L.groups = m \div 2 /\ L.local = 1
         /\ L.size = m /\ L.rows = rows /\ L.buf = buf
         /\ L.locals = [l_data |-> 2 * WorkgroupSize] /\ DOMAIN L.locals = {"l_data"}
         /\ "program" \notin DOMAIN L
<1>1. L = [kernel |-> "reduce_vector_parcol_compact", groups |-> m \div 2, local |-> 1, cols |-> 1,
           lcols |-> 1, divides |-> TRUE, size |-> m, rows |-> rows, buf |-> buf,
           locals |-> [l_data |-> 2 * WorkgroupSize]]
  BY Zenon DEF CompactLaunch, ReduceLaunch
<1>2. QED
  BY <1>1

\* The fields of the last launch.
LEMMA InnerFields ==
  ASSUME NEW m, NEW rows, NEW buf, NEW L, L = InnerLaunch(m, rows, buf)
  PROVE  /\ L.kernel = "reduce_vector_parcol_inner" /\ L.groups = 1 /\ L.local = m \div 2
         /\ L.size = m /\ L.rows = rows /\ L.buf = buf
         /\ L.locals = [l_data |-> 2 * WorkgroupSize] /\ DOMAIN L.locals = {"l_data"}
         /\ "program" \notin DOMAIN L
<1>1. L = [kernel |-> "reduce_vector_parcol_inner", groups |-> 1, local |-> m \div 2, cols |-> 1,
           lcols |-> 1, divides |-> TRUE, size |-> m, rows |-> rows, buf |-> buf,
           locals |-> [l_data |-> 2 * WorkgroupSize]]
  BY Zenon DEF InnerLaunch, ReduceLaunch
<1>2. QED
  BY <1>1

\* The local size divides the range.
LEMMA ReduceDivides ==
  ASSUME NEW m, NEW rows, NEW buf, NEW L,
         L = CompactLaunch(m, rows, buf) \/ L = InnerLaunch(m, rows, buf)
  PROVE  L.divides
BY DEF CompactLaunch, InnerLaunch, ReduceLaunch

\* A number of rows that divides the size of a group.
LEMMA RowsDivide ==
  ASSUME NEW rows \in Nat \ {0}, WorkgroupSize % rows = 0
  PROVE  rows <= WorkgroupSize
<1>1. SUFFICES ASSUME WorkgroupSize < rows PROVE FALSE
  BY WorkgroupTyped
<1>2. WorkgroupSize = rows * 0 + WorkgroupSize /\ WorkgroupSize \in 0 .. rows - 1
        /\ WorkgroupSize \in Int
  BY <1>1, WorkgroupTyped
<1>3. WorkgroupSize % rows = WorkgroupSize
  <2>1. 0 \in Int
    OBVIOUS
  <2>2. QED
    BY <1>2, <2>1, DivModUnique
<1>4. QED
  BY <1>3, WorkgroupTyped

\* What the assertions of reduce say is what its launches need.
LEMMA ReduceFits ==
  ASSUME NEW n \in Nat, NEW cols \in Nat \ {0}, NEW rows \in Nat \ {0}, NEW buf,
         ReduceOk(n, cols, rows, buf), buf \notin {"labels", "points", "l_data"},
         NEW sz, Room(sz, buf, n), Sized(sz), NEW i \in DOMAIN Reduce(n, rows, buf)
  PROVE  LET L == Reduce(n, rows, buf)[i]
         IN  /\ FitsReduce(L, sz) /\ DOMAIN L.locals = {"l_data"}
             /\ L.divides /\ "program" \notin DOMAIN L /\ ~Counts(L) /\ ~MakesLabels(L)
<1> DEFINE L == Reduce(n, rows, buf)[i]
<1>1. Halving(L, n, rows, buf) \/ Ending(L, n, rows, buf)
  BY ReduceElements
<1>2. n >= rows
  <2> DEFINE p == cols * rows
  <2>1. p \in Int /\ p >= rows /\ n >= p
    BY DEF ReduceOk
  <2> HIDE DEF p
  <2>2. QED
    BY <2>1
<1>3. /\ L.kernel = "reduce_vector_parcol_compact" => L.size % 2 = 0 /\ L.groups % rows = 0
      /\ L.kernel # "reduce_vector_parcol_compact" => WorkgroupSize % rows = 0
  BY Zenon DEF ReduceOk
<1>4. buf \in DOMAIN sz /\ n <= sz[buf] /\ sz[buf] \in Nat
  BY DEF Room, Sized
<1> HIDE DEF L
<1>5. CASE Halving(L, n, rows, buf)
  <2>1. PICK m \in 0 .. n : Compacts(m, rows) /\ L = CompactLaunch(m, rows, buf)
    BY <1>5 DEF Halving
  <2>2. /\ L.kernel = "reduce_vector_parcol_compact" /\ L.groups = m \div 2 /\ L.local = 1
        /\ L.size = m /\ L.rows = rows /\ L.buf = buf
        /\ DOMAIN L.locals = {"l_data"} /\ "program" \notin DOMAIN L
    BY <2>1, CompactFields
  <2>3. m \in Nat /\ m > 2 /\ m <= n
    BY <2>1, WorkgroupTyped DEF Compacts
  <2>4. m \div 2 \in Nat \ {0} /\ (m \div 2) * 1 <= m
    BY <2>3
  <2>5. ReduceLike(L)
    BY <2>2, <2>3, <2>4 DEF ReduceLike
  <2>6. Room(sz, L.buf, L.size)
    BY <2>2, <2>3, <1>4 DEF Room
  <2>7. GlobalName(L, L.buf)
    BY <2>2 DEF GlobalName
  <2>8. L.groups * L.local <= L.size
    BY <2>2, <2>4
  <2>9. FitsReduce(L, sz)
    BY <2>2, <2>5, <2>6, <2>7, <2>8 DEF FitsReduce
  <2>10. ~Counts(L) /\ ~MakesLabels(L)
    BY <2>2 DEF Counts, MakesLabels
  <2>11. L.divides
    BY <2>1, ReduceDivides
  <2>12. QED
    BY <2>2, <2>9, <2>10, <2>11 DEF L
<1>6. CASE Ending(L, n, rows, buf)
  <2>1. PICK m \in 0 .. n : /\ ~Compacts(m, rows) /\ m # rows /\ L = InnerLaunch(m, rows, buf)
                            /\ m = n \/ m >= WorkgroupSize
    BY <1>6 DEF Ending
  <2>2. /\ L.kernel = "reduce_vector_parcol_inner" /\ L.groups = 1 /\ L.local = m \div 2
        /\ L.size = m /\ L.rows = rows /\ L.buf = buf
        /\ L.locals = [l_data |-> 2 * WorkgroupSize] /\ DOMAIN L.locals = {"l_data"}
        /\ "program" \notin DOMAIN L
    BY <2>1, InnerFields
  <2>3. rows <= WorkgroupSize
    BY <2>2, <1>3, RowsDivide
  <2>4. m > rows /\ m <= 2 * WorkgroupSize /\ m \in Nat /\ m <= n
    BY <2>1, <2>3, <1>2, WorkgroupTyped DEF Compacts
  <2>5. m \div 2 \in Nat \ {0} /\ 2 * (m \div 2) <= m
    BY <2>4
  <2>6. ReduceLike(L)
    BY <2>2, <2>4, <2>5 DEF ReduceLike
  <2>7. Room(sz, L.buf, 2 * L.local) /\ Room(sz, L.buf, L.rows)
    BY <2>2, <2>4, <2>5, <1>2, <1>4 DEF Room
  <2>8. GlobalName(L, L.buf)
    BY <2>2 DEF GlobalName
  <2>9. L.locals["l_data"] = 2 * WorkgroupSize
    BY <2>2
  <2>10. HasLocal(L, "l_data", 2 * L.local) /\ HasLocal(L, "l_data", L.rows)
    BY <2>2, <2>3, <2>4, <2>5, <2>9, WorkgroupTyped DEF HasLocal
  <2>11. FitsReduce(L, sz)
    BY <2>2, <2>6, <2>7, <2>8, <2>10 DEF FitsReduce
  <2>12. ~Counts(L) /\ ~MakesLabels(L)
    BY <2>2 DEF Counts, MakesLabels
  <2>13. L.divides
    BY <2>1, ReduceDivides
  <2>14. QED
    BY <2>2, <2>11, <2>12, <2>13 DEF L
<1>7. QED
  BY <1>1, <1>5, <1>6

-----------------------------------------------------------------------------
(***************************************************************************)
(* Reductions of powers of two                                             *)
(***************************************************************************)
\* Reduction of powers of two: all sizes are powers of two, and at least rows.
PowerLaunch(L, rows, buf) ==
  \E m : /\ IsPowerOfTwo(m) /\ m > rows
         /\ \/ Compacts(m, rows) /\ L = CompactLaunch(m, rows, buf)
            \/ ~Compacts(m, rows) /\ L = InnerLaunch(m, rows, buf)

\* Halving twice leads from powers of two to powers of two.
LEMMA NextPower ==
  ASSUME NEW k, IsPowerOfTwo(k), NEW rows, IsPowerOfTwo(rows), Compacts(k, rows)
  PROVE  IsPowerOfTwo(2 * (k \div 4)) /\ 2 * (k \div 4) >= rows
<1>1. k \in Nat \ {0} /\ rows \in Nat \ {0} /\ k > rows /\ k > 4
  BY PowerOfTwoTyped, WorkgroupTyped DEF Compacts
<1>2. k # 1
  BY <1>1
<1>3. PICK h : IsPowerOfTwo(h) /\ k = 2 * h
  BY <1>2, PowerHalf
<1>4. h \in Nat \ {0} /\ h # 1
  BY <1>1, <1>3, PowerOfTwoTyped
<1>5. PICK q : IsPowerOfTwo(q) /\ h = 2 * q
  BY <1>3, <1>4, PowerHalf
<1>6. q \in Nat \ {0}
  BY <1>5, PowerOfTwoTyped
<1>7. 2 * (k \div 4) = h
  BY <1>3, <1>5, <1>6
<1>8. PICK p : IsPowerOfTwo(p) /\ k \div 2 = rows * p /\ rows <= k \div 2
  BY <1>1, PowerAbove
<1>9. k \div 2 = h
  BY <1>3, <1>4
<1>10. QED
  BY <1>1, <1>3, <1>4, <1>7, <1>8, <1>9

\* The launches of a reduction between powers of two.
LEMMA PowerElements ==
  ASSUME NEW n, IsPowerOfTwo(n), NEW rows, IsPowerOfTwo(rows), rows <= n, NEW buf
  PROVE  /\ \A i \in DOMAIN Reduce(n, rows, buf) : PowerLaunch(Reduce(n, rows, buf)[i], rows, buf)
         /\ n # rows => Reduce(n, rows, buf) # <<>>
<1> DEFINE f == CHOOSE f : ReduceEq(n, rows, buf, f)
<1> DEFINE T == {k \in Nat : k <= n /\ IsPowerOfTwo(k) /\ rows <= k =>
                   \E S : /\ f[k] \in Seq(S) /\ \A L \in S : PowerLaunch(L, rows, buf)
                          /\ k # rows => f[k] # <<>>}
<1>0. n \in Nat \ {0} /\ rows \in Nat \ {0}
  BY PowerOfTwoTyped
<1>1. ReduceEq(n, rows, buf, f) /\ Reduce(n, rows, buf) = f[n]
  BY <1>0, ReduceDefined, ReduceIs
<1> HIDE DEF f
<1>2. \A k \in 0 .. n : f[k] = ReduceFrom(f, k, rows, buf)
  BY <1>1, Zenon DEF ReduceEq
<1>3. ASSUME NEW k \in Nat, \A i \in 0 .. k - 1 : i \in T PROVE k \in T
  <2>1. SUFFICES ASSUME k <= n, IsPowerOfTwo(k), rows <= k
                 PROVE  \E S : /\ f[k] \in Seq(S) /\ \A L \in S : PowerLaunch(L, rows, buf)
                               /\ k # rows => f[k] # <<>>
    OBVIOUS
  <2>2. k \in 0 .. n /\ (k # rows => k > rows)
    BY <2>1, <1>0
  <2>3. CASE Compacts(k, rows)
    <3> DEFINE p == 2 * (k \div 4)
    <3>1. p \in 0 .. k - 1 /\ IsPowerOfTwo(p) /\ p >= rows
      BY <2>1, <2>3, NextLarge, NextPower
    <3>2. f[k] = <<CompactLaunch(k, rows, buf)>> \o f[p]
      BY <1>2, <2>2, <2>3, Zenon DEF ReduceFrom
    <3> HIDE DEF p
    <3>3. p <= n /\ p \in Nat /\ rows <= p
      BY <3>1, <2>1, <1>0
    <3>4. PICK S : f[p] \in Seq(S) /\ \A L \in S : PowerLaunch(L, rows, buf)
      BY <1>3, <3>1, <3>3
    <3> DEFINE R == S \cup {CompactLaunch(k, rows, buf)}
    <3>5. f[k] \in Seq(R) /\ f[k] # <<>>
      <4>1. f[p] \in Seq(R) /\ <<CompactLaunch(k, rows, buf)>> \in Seq(R)
        BY <3>4
      <4>2. QED
        BY <4>1, <3>2
    <3>6. k > rows
      BY <2>3 DEF Compacts
    <3>7. PowerLaunch(CompactLaunch(k, rows, buf), rows, buf)
      BY <2>1, <2>3, <3>6 DEF PowerLaunch
    <3>8. QED
      BY <3>4, <3>5, <3>7
  <2>4. CASE ~Compacts(k, rows) /\ k # rows
    <3>1. f[k] = <<InnerLaunch(k, rows, buf)>>
      BY <1>2, <2>2, <2>4, Zenon DEF ReduceFrom
    <3>2. PowerLaunch(InnerLaunch(k, rows, buf), rows, buf)
      BY <2>1, <2>2, <2>4 DEF PowerLaunch
    <3>3. f[k] \in Seq({InnerLaunch(k, rows, buf)}) /\ f[k] # <<>>
      BY <3>1
    <3>4. QED
      BY <3>2, <3>3
  <2>5. CASE ~Compacts(k, rows) /\ k = rows
    <3>1. f[k] = <<>>
      BY <1>2, <2>2, <2>5, Zenon DEF ReduceFrom
    <3>2. f[k] \in Seq({})
      BY <3>1
    <3>3. QED
      BY <3>2, <2>5
  <2>6. QED
    BY <2>3, <2>4, <2>5
<1> HIDE DEF T
<1>4. Nat \subseteq T
  BY <1>3, AllBelow
<1>5. PICK S :
        f[n] \in Seq(S) /\ (\A L \in S : PowerLaunch(L, rows, buf)) /\ (n # rows => f[n] # <<>>)
  BY <1>0, <1>4 DEF T
<1>6. \A i \in DOMAIN f[n] : f[n][i] \in S
  BY <1>5
<1>7. QED
  BY <1>1, <1>5, <1>6

\* The assertions of reduce hold for powers of two.
LEMMA ReduceOkPowers ==
  ASSUME NEW n, IsPowerOfTwo(n), NEW rows, IsPowerOfTwo(rows), NEW cols \in Nat, n = cols * rows,
         cols > 1, NEW buf
  PROVE  ReduceOk(n, cols, rows, buf) /\ Reduce(n, rows, buf) # <<>>
<1>1. n \in Nat \ {0} /\ rows \in Nat \ {0}
  BY PowerOfTwoTyped
<1>2. rows < n
  BY <1>1
<1>3. rows <= n /\ n # rows
  BY <1>1, <1>2
<1>4. ASSUME NEW i \in DOMAIN Reduce(n, rows, buf)
      PROVE  LET L == Reduce(n, rows, buf)[i]
             IN  IF L.kernel = "reduce_vector_parcol_compact"
                 THEN L.size % 2 = 0 /\ L.groups % rows = 0
                 ELSE WorkgroupSize % rows = 0
  <2> DEFINE L == Reduce(n, rows, buf)[i]
  <2>1. PowerLaunch(L, rows, buf)
    BY <1>3, PowerElements
  <2> HIDE DEF L
  <2>2. PICK m : /\ IsPowerOfTwo(m) /\ m > rows
                 /\ \/ Compacts(m, rows) /\ L = CompactLaunch(m, rows, buf)
                    \/ ~Compacts(m, rows) /\ L = InnerLaunch(m, rows, buf)
    BY <2>1 DEF PowerLaunch
  <2>3. m \in Nat \ {0} /\ rows < m
    BY <1>1, <2>2, PowerOfTwoTyped
  <2>4. m % 2 = 0 /\ (m \div 2) % rows = 0 /\ rows <= m \div 2
    BY <2>2, <2>3, PowerAbove
  <2>5. CASE Compacts(m, rows) /\ L = CompactLaunch(m, rows, buf)
    <3>1. L.kernel = "reduce_vector_parcol_compact" /\ L.size = m /\ L.groups = m \div 2
      BY <2>5, CompactFields
    <3>2. QED
      BY <3>1, <2>4 DEF L
  <2>6. CASE ~Compacts(m, rows) /\ L = InnerLaunch(m, rows, buf)
    <3>1. L.kernel = "reduce_vector_parcol_inner"
      BY <2>6, InnerFields
    <3>2. m <= 2 * WorkgroupSize
      BY <2>3, <2>6, WorkgroupTyped DEF Compacts
    <3>3. rows <= WorkgroupSize
      BY <3>2, <2>3, <2>4, <1>1, WorkgroupTyped
    <3>4. WorkgroupSize % rows = 0
      BY <3>3, WorkgroupTyped, PowerDivides
    <3>5. QED
      BY <3>1, <3>4 DEF L
  <2>7. QED
    BY <2>2, <2>5, <2>6
<1>5. n >= cols * rows
  BY <1>1
<1>6. QED
  BY <1>3, <1>4, <1>5, PowerElements DEF ReduceOk

\* A launch that fits and can be enqueued; what it counts are the labels of the
\* block of the call.
Admits(L, sz, programs, call) ==
  /\ FitsIn(L, sz, call.C) /\ L.divides
  /\ "program" \in DOMAIN L => L.program \in programs
  /\ Counts(L) => LabelCells(L) = LabelCells(call)

\* Launches that a phase may enqueue.
Queued(ls, sz, programs, call) ==
  \E S : ls \in Seq(S) /\ \A L \in S : Admits(L, sz, programs, call)

\* A phase of a client whose buffers have the sizes host.
PhaseOk(ph, host, call) ==
  /\ ph.ok /\ \A b \in DOMAIN ph.needs : b # "labels" /\ ph.needs[b] \in Nat
  /\ \A sz : Sized(sz) /\ Has(sz, host) /\ Has(sz, ph.needs) =>
       Queued(ph.launches, sz, ph.programs, call)

\* Some of them after others.
LEMMA QueuedBoth ==
  ASSUME NEW s, NEW t, NEW sz, NEW programs, NEW call,
         Queued(s, sz, programs, call), Queued(t, sz, programs, call)
  PROVE  Queued(s \o t, sz, programs, call)
<1>1. PICK S : s \in Seq(S) /\ \A L \in S : Admits(L, sz, programs, call)
  BY DEF Queued
<1>2. PICK T : t \in Seq(T) /\ \A L \in T : Admits(L, sz, programs, call)
  BY DEF Queued
<1>3. s \in Seq(S \cup T) /\ t \in Seq(S \cup T)
  BY <1>1, <1>2
<1>4. s \o t \in Seq(S \cup T)
  BY <1>3
<1>5. QED
  BY <1>1, <1>2, <1>4 DEF Queued

\* One launch.
LEMMA QueuedOne ==
  ASSUME NEW L, NEW sz, NEW programs, NEW call, Admits(L, sz, programs, call)
  PROVE  Queued(<<L>>, sz, programs, call)
<1> DEFINE S == {L}
           ls == <<L>>
<1>1. ls \in Seq(S)
  OBVIOUS
<1>2. \A K \in S : Admits(K, sz, programs, call)
  OBVIOUS
<1> HIDE DEF S, ls
<1>3. Queued(ls, sz, programs, call)
  BY <1>1, <1>2, Zenon DEF Queued
<1>4. QED
  BY <1>3 DEF ls

\* Sizes that are large enough for two needs.
LEMMA RoomForBoth ==
  ASSUME NEW f, Sized(f), NEW g, Sized(g)
  PROVE  \E sz : Sized(sz) /\ Has(sz, f) /\ Has(sz, g)
<1> DEFINE sz == [b \in DOMAIN f \cup DOMAIN g |-> (IF b \in DOMAIN f THEN f[b] ELSE 0)
                                                     + (IF b \in DOMAIN g THEN g[b] ELSE 0)]
<1>1. \A b \in DOMAIN f : f[b] \in Nat /\ sz[b] \in Nat /\ f[b] <= sz[b]
  BY DEF Sized
<1>2. \A b \in DOMAIN g : g[b] \in Nat /\ sz[b] \in Nat /\ g[b] <= sz[b]
  BY DEF Sized
<1>3. DOMAIN sz = DOMAIN f \cup DOMAIN g
  OBVIOUS
<1> HIDE DEF sz
<1>4. QED
  BY <1>1, <1>2, <1>3 DEF Sized, Has, Room

\* A phase that is right for its call fits the job.
LEMMA PhaseOkFits ==
  ASSUME NEW j, NEW ph, NEW call, PhaseOk(ph, ClientSizes(j), call), Sized(ClientSizes(j)),
         call.C = ClustersOf(j)
  PROVE  /\ PhaseFits(j, ph)
         /\ \A i \in DOMAIN ph.launches :
              Counts(ph.launches[i]) => LabelCells(ph.launches[i]) = LabelCells(call)
<1>1. ph.ok /\ (\A b \in DOMAIN ph.needs : b # "labels" /\ ph.needs[b] \in Nat)
  BY Zenon DEF PhaseOk
<1>2. \A sz : Sized(sz) /\ Has(sz, ClientSizes(j)) /\ Has(sz, ph.needs) =>
        Queued(ph.launches, sz, ph.programs, call)
  BY Zenon DEF PhaseOk
<1>3. Sized(ph.needs)
  BY <1>1 DEF Sized
<1>4. PICK sz : Sized(sz) /\ Has(sz, ClientSizes(j)) /\ Has(sz, ph.needs)
  BY <1>3, RoomForBoth
<1>5. PICK S : ph.launches \in Seq(S) /\ \A L \in S : Admits(L, sz, ph.programs, call)
  BY <1>2, <1>4 DEF Queued
<1>6. \A i \in DOMAIN ph.launches : ph.launches[i] \in S
  BY <1>5
<1>7. \A i \in DOMAIN ph.launches : Admits(ph.launches[i], sz, ph.programs, call)
  BY <1>5, <1>6
<1>8. Launchable(ph)
  BY <1>7, Zenon DEF Launchable, Admits
<1>9. ASSUME NEW z, Sized(z), Has(z, ClientSizes(j)), Has(z, ph.needs)
      PROVE  LaunchesFit(ph.launches, z, ClustersOf(j))
  BY <1>2, <1>9 DEF Queued, Admits, LaunchesFit
<1>10. QED
  BY <1>1, <1>7, <1>8, <1>9, Zenon DEF PhaseFits, Admits

\* Launches that fit into the buffers as they are.
LEMMA FitsNow ==
  ASSUME NEW L, NEW sz, NEW c, Sized(sz), Fits(L, sz, c),
         DOMAIN L.locals \cap {"labels", "points"} = {}
  PROVE  FitsIn(L, sz, c)
<1>1. Below(sz, sz)
  BY DEF Below, Room, Sized
<1>2. QED
  BY <1>1 DEF FitsIn

-----------------------------------------------------------------------------
(***************************************************************************)
(* Commands and matrix operations                                          *)
(***************************************************************************)
\* The fields of a command.
LEMMA CommandFields ==
  ASSUME NEW kind, NEW n, NEW fst, NEW snd, NEW L, L = Command(kind, n, fst, snd)
  PROVE  /\ L.kernel = kind /\ L.groups = 1 /\ L.local = 1 /\ L.size = n /\ L.fst = fst
         /\ L.snd = snd
         /\ DOMAIN L.locals = {} /\ "program" \notin DOMAIN L
<1>1. L = [kernel |-> kind, groups |-> 1, local |-> 1, cols |-> 1, lcols |-> 1,
           divides |-> TRUE, size |-> n, fst |-> fst, snd |-> snd, locals |-> <<>>]
  BY Zenon DEF Command
<1>2. QED
  BY <1>1

\* The fields of a launch over a matrix.
LEMMA CellsFields ==
  ASSUME NEW kernel, NEW rows, NEW cols, NEW fst, NEW snd,
         NEW L, L = OverCells(kernel, rows, cols, fst, snd)
  PROVE  /\ L.kernel = kernel /\ L.groups = rows * cols /\ L.local = 1 /\ L.cols = cols
         /\ L.lcols = 1
         /\ L.rows = rows /\ L.fst = fst /\ L.snd = snd
         /\ DOMAIN L.locals = {} /\ "program" \notin DOMAIN L
<1>1. L = [kernel |-> kernel, groups |-> rows * cols, local |-> 1, cols |-> cols, lcols |-> 1,
           divides |-> TRUE, rows |-> rows, fst |-> fst, snd |-> snd, locals |-> <<>>]
  BY Zenon DEF OverCells
<1>2. QED
  BY <1>1

\* Fills, copies and matrix kernels have items for every cell.
LEMMA PlainDivides ==
  ASSUME NEW L, NEW kind, NEW m, NEW n, NEW fst, NEW snd,
         L = Command(kind, n, fst, snd) \/ L = OverCells(kind, m, n, fst, snd)
  PROVE  L.divides
BY DEF Command, OverCells

\* A fill or a copy needs room in its buffers,
LEMMA CommandAdmitted ==
  ASSUME NEW n \in Nat, NEW fst, NEW snd, fst \notin {"labels", "points"},
         snd \notin {"labels", "points"},
         NEW sz, Sized(sz), NEW programs, NEW call,
         NEW kind \in {"fill", "copy"}, Room(sz, fst, n), kind = "copy" => Room(sz, snd, n)
  PROVE  Admits(Command(kind, n, fst, snd), sz, programs, call)
<1> DEFINE L == Command(kind, n, fst, snd)
<1>1. /\ L.kernel = kind /\ L.groups = 1 /\ L.local = 1 /\ L.size = n /\ L.fst = fst /\ L.snd = snd
      /\ DOMAIN L.locals = {} /\ "program" \notin DOMAIN L
  BY CommandFields
<1>2. L.divides
  BY PlainDivides
<1> HIDE DEF L
<1>3. FitsCommand(L, sz)
  BY <1>1 DEF FitsCommand, CommandLike, GlobalName
<1>4. FitsIn(L, sz, call.C)
  BY <1>1, <1>3, FitsNow DEF Fits
<1>5. ~Counts(L)
  BY <1>1 DEF Counts
<1>6. Admits(L, sz, programs, call)
  BY <1>1, <1>2, <1>4, <1>5 DEF Admits
<1>7. QED
  BY <1>6 DEF L

\* and so does a kernel over a matrix.
LEMMA CellsAdmitted ==
  ASSUME NEW rows \in Nat \ {0}, NEW cols \in Nat \ {0}, NEW fst, NEW snd, fst # snd,
         fst \notin {"labels", "points"}, snd \notin {"labels", "points"},
         NEW sz, Sized(sz), Room(sz, fst, rows * cols), NEW programs, NEW call,
         NEW kernel, \/ kernel = "matrix_matrix" /\ Room(sz, snd, rows * cols)
                     \/ kernel = "matrix_row_vector" /\ Room(sz, snd, rows)
  PROVE  Admits(OverCells(kernel, rows, cols, fst, snd), sz, programs, call)
<1> DEFINE L == OverCells(kernel, rows, cols, fst, snd)
<1>1. /\ L.kernel = kernel /\ L.groups = rows * cols /\ L.local = 1 /\ L.cols = cols /\ L.lcols = 1
      /\ L.rows = rows /\ L.fst = fst /\ L.snd = snd
      /\ DOMAIN L.locals = {} /\ "program" \notin DOMAIN L
  BY CellsFields
<1>2. L.divides
  BY PlainDivides
<1> HIDE DEF L
<1>3. FitsCells(L, sz)
  BY <1>1 DEF FitsCells, CellsLike, GlobalName
<1>4. FitsIn(L, sz, call.C)
  BY <1>1, <1>3, FitsNow DEF Fits
<1>5. ~Counts(L)
  BY <1>1 DEF Counts
<1>6. Admits(L, sz, programs, call)
  BY <1>1, <1>2, <1>4, <1>5 DEF Admits
<1>7. QED
  BY <1>6 DEF L

\* A reduction whose assertions hold needs room for what it reduces.
LEMMA ReduceAdmitted ==
  ASSUME NEW n \in Nat, NEW cols \in Nat \ {0}, NEW rows \in Nat \ {0}, NEW buf,
         ReduceOk(n, cols, rows, buf), buf \notin {"labels", "points", "l_data"},
         NEW sz, Room(sz, buf, n), Sized(sz), NEW programs, NEW call
  PROVE  Queued(Reduce(n, rows, buf), sz, programs, call)
<1> DEFINE s == Reduce(n, rows, buf)
<1>1. PICK S : s \in Seq(S)
  BY ReduceElements
<1>2. ASSUME NEW i \in DOMAIN s PROVE Admits(s[i], sz, programs, call)
  <2>1. /\ FitsReduce(s[i], sz) /\ DOMAIN s[i].locals = {"l_data"}
        /\ s[i].divides /\ "program" \notin DOMAIN s[i] /\ ~Counts(s[i])
    BY ReduceFits
  <2> HIDE DEF s
  <2>2. DOMAIN s[i].locals \cap {"labels", "points"} = {}
    BY <2>1
  <2>3. FitsIn(s[i], sz, call.C)
    BY <2>1, <2>2, FitsNow DEF Fits
  <2>4. QED
    BY <2>1, <2>3, Zenon DEF Admits
<1> HIDE DEF s
<1>3. s \in Seq({s[i] : i \in DOMAIN s})
  BY <1>1
<1>4. Queued(s, sz, programs, call)
  BY <1>2, <1>3 DEF Queued
<1>5. QED
  BY <1>4 DEF s

\* The sums of a temporary buffer go to the result.
LEMMA SumUpAdmitted ==
  ASSUME NEW n \in Nat, NEW k \in Nat \ {0}, NEW rows \in Nat \ {0}, NEW cols \in Nat \ {0},
         NEW result, NEW tmp, result # tmp, NEW sz, Sized(sz), NEW programs, NEW call,
         ReduceOk(n, k, rows * cols, tmp), Room(sz, tmp, n), Room(sz, result, rows * cols),
         {result, tmp} \cap {"labels", "points", "l_data"} = {}
  PROVE  Queued(SumUp(result, tmp, n, rows, cols), sz, programs, call)
<1> DEFINE p == rows * cols
<1>1. p \in Nat \ {0}
  OBVIOUS
<1>2. ReduceOk(n, k, p, tmp) /\ Room(sz, result, p)
  OBVIOUS
<1>3. p <= n
  <2> HIDE DEF p
  <2> DEFINE q == k * p
  <2>1. q \in Nat /\ p <= q
    BY <1>1
  <2>2. n >= q
    BY <1>2 DEF ReduceOk
  <2> HIDE DEF q
  <2>3. QED
    BY <1>1, <2>1, <2>2
<1>4. Queued(Reduce(n, p, tmp), sz, programs, call)
  <2> HIDE DEF p
  <2>1. QED
    BY <1>1, <1>2, ReduceAdmitted
<1>5. Room(sz, tmp, p)
  <2> HIDE DEF p
  <2>1. QED
    BY <1>1, <1>3 DEF Room, Sized
<1>6. Admits(OverCells("matrix_matrix", rows, cols, result, tmp), sz, programs, call)
  BY <1>5, CellsAdmitted
<1>7. QED
  BY <1>4, <1>6, QueuedOne, QueuedBoth DEF SumUp, MatrixAdd

\* A configuration has groups of the same size, and a power of two of them.
LEMMA ConfigFacts ==
  ASSUME NEW cfg, ConfigOK(cfg)
  PROVE  LET g == cfg.global \div cfg.local
         IN  /\ cfg.global \in Nat \ {0} /\ cfg.local \in Nat \ {0} /\ g \in Nat \ {0}
             /\ IsPowerOfTwo(g)
             /\ g * cfg.local = cfg.global /\ cfg.global % cfg.local = 0
<1>1. cfg.global \in Nat \ {0} /\ cfg.local \in Nat \ {0}
  BY PowerOfTwoTyped DEF ConfigOK
<1>2. PICK r : IsPowerOfTwo(r) /\ cfg.global = cfg.local * r /\ cfg.global \div cfg.local = r
               /\ cfg.global % cfg.local = 0
  BY PowerDivides DEF ConfigOK
<1>3. r \in Nat \ {0}
  BY <1>2, PowerOfTwoTyped
<1>4. r * cfg.local = cfg.global
  BY <1>1, <1>2, <1>3
<1>5. QED
  BY <1>1, <1>2, <1>3, <1>4, Zenon

\* The arguments of a phase are numbers.
LEMMA ArgsFacts ==
  ASSUME NEW call, ArgsOK(call)
  PROVE  call.C \in Nat \ {0} /\ call.F \in Nat \ {0} /\ call.N \in Nat
BY PowerOfTwoTyped DEF ArgsOK

\* The kernel for a power of two is built for it.
LEMMA KernelFeaturesOf ==
  ASSUME NEW F, IsPowerOfTwo(F)
  PROVE  KernelFeatures(F) = F
<1>1. F \in Nat \ {0}
  BY PowerOfTwoTyped
<1>2. F \in 1 .. F /\ IsPowerOfTwo(F) /\ F < 2 * F
  BY <1>1
<1>3. ASSUME NEW d \in 1 .. F, IsPowerOfTwo(d), F < 2 * d, d # F PROVE FALSE
  <2>1. d < F /\ d \in Nat \ {0}
    BY <1>1, <1>3
  <2>2. PICK q : IsPowerOfTwo(q) /\ F = 2 * (d * q)
    BY <2>1, <1>3, PowerAbove
  <2>3. q \in Nat \ {0}
    BY <2>2, PowerOfTwoTyped
  <2> DEFINE p == d * q
  <2>4. p >= d /\ p \in Nat
    BY <2>1, <2>3
  <2>5. F = 2 * p
    BY <2>2
  <2> HIDE DEF p
  <2>6. QED
    BY <2>1, <2>4, <2>5, <1>3
<1>4. QED
  BY <1>2, <1>3 DEF KernelFeatures

-----------------------------------------------------------------------------
(***************************************************************************)
(* Programs that prepare builds                                            *)
(***************************************************************************)
\* The fields of a program.
LEMMA ProgramFields ==
  ASSUME NEW s \in BOOLEAN, NEW m \in BOOLEAN, NEW d
  PROVE  /\ Program(s, m, d).features = d
         /\ Program(s, m, d).lstride \in BOOLEAN /\ Program(s, m, d).lmem \in BOOLEAN
         /\ Program(s, m, d).lstride <=> s
BY DEF Program

\* Stride and memory of a device are chosen by its kind.
LEMMA StrideTyped ==
  ASSUME NEW dev, NEW bytes
  PROVE  /\ UseLocalStride(dev) \in BOOLEAN /\ UseLocalMemory(dev, bytes) \in BOOLEAN
         /\ ~(UseLocalStride(dev) /\ UseLocalMemory(dev, bytes))
BY DEF UseLocalStride, UseLocalMemory

\* The wrapper has built the program for either choice,
LEMMA ProgramsBuilt ==
  ASSUME NEW dev, NEW bytes
  PROVE  /\ Program(UseLocalStride(dev), FALSE, AnyFeatures) \in ByStride
         /\ Program(UseLocalStride(dev), UseLocalMemory(dev, bytes), AnyFeatures)
              \in ByStrideAndMemory
<1>1. Program(UseLocalStride(dev), FALSE, AnyFeatures) \in ByStride
  BY StrideTyped DEF ByStride
<1>2. CASE UseLocalStride(dev) = TRUE
  <2>1. UseLocalMemory(dev, bytes) = FALSE
    BY <1>2, StrideTyped
  <2>2. QED
    BY <1>1, <1>2, <2>1 DEF ByStrideAndMemory
<1>3. CASE UseLocalStride(dev) = FALSE
  <2>1. UseLocalMemory(dev, bytes) \in BOOLEAN
    BY StrideTyped
  <2>2. QED
    BY <1>1, <1>3, <2>1 DEF ByStrideAndMemory
<1>4. QED
  BY <1>1, <1>2, <1>3, StrideTyped

\* and for any number of features that it unrolls.
LEMMA UnrolledBuilt ==
  ASSUME NEW dev, NEW bytes, NEW F, IsPowerOfTwo(F), F > 1, F <= MaxFeatures
  PROVE  Program(UseLocalStride(dev), UseLocalMemory(dev, bytes), KernelFeatures(F))
           \in Unrolled(ByStrideAndMemory)
<1> DEFINE p == Program(UseLocalStride(dev), UseLocalMemory(dev, bytes), AnyFeatures)
<1>1. p \in ByStrideAndMemory
  BY ProgramsBuilt
<1>2. F \in Nat \ {0} /\ MaxFeatures \in Nat
  BY PowerOfTwoTyped, SizesAssumption
<1>3. F \in UnrolledFeatures
  BY <1>2 DEF UnrolledFeatures
<1>4. [p EXCEPT !.features = F] = Program(UseLocalStride(dev), UseLocalMemory(dev, bytes), F)
  BY DEF Program
<1> HIDE DEF p
<1>5. [p EXCEPT !.features = F] \in Unrolled(ByStrideAndMemory)
  BY <1>1, <1>3 DEF Unrolled
<1>6. QED
  BY <1>4, <1>5, KernelFeaturesOf

-----------------------------------------------------------------------------
(***************************************************************************)
(* Launches over points                                                    *)
(***************************************************************************)
\* The fields of a launch over points.
LEMMA OverPointsFields ==
  ASSUME NEW kernel, NEW cfg, NEW call, NEW program, NEW vec, NEW out, NEW locals,
         NEW L, L = OverPoints(kernel, cfg, call, program, vec, out, locals)
  PROVE  /\ L.kernel = kernel /\ L.groups = cfg.global \div cfg.local /\ L.local = cfg.local
         /\ L.cols = 1 /\ L.lcols = 1 /\ L.N = call.N /\ L.b = call.b /\ L.C = call.C
         /\ L.dims = call.F
         /\ L.vec = vec /\ L.program = program /\ L.tf = 1 /\ L.out = out /\ L.locals = locals
         /\ program.features \in {AnyFeatures, call.F} => L.F = call.F
<1>1. L = [kernel |-> kernel, groups |-> cfg.global \div cfg.local, local |-> cfg.local,
           cols |-> 1, lcols |-> 1, divides |-> cfg.global % cfg.local = 0,
           N |-> call.N, b |-> call.b, C |-> call.C, dims |-> call.F, vec |-> vec,
           F |-> IF program.features = AnyFeatures THEN call.F ELSE program.features,
           lstride |-> program.lstride, lmem |-> program.lmem, program |-> program,
           tf |-> 1, out |-> out, locals |-> locals]
  BY Zenon DEF OverPoints
<1>2. QED
  BY <1>1

\* What the program decides about a launch.
LEMMA OverPointsFlags ==
  ASSUME NEW kernel, NEW cfg, NEW call, NEW program, NEW vec, NEW out, NEW locals,
         NEW L, L = OverPoints(kernel, cfg, call, program, vec, out, locals),
         program.lstride \in BOOLEAN, program.lmem \in BOOLEAN, cfg.global % cfg.local = 0
  PROVE  L.lstride \in BOOLEAN /\ L.lmem \in BOOLEAN /\ L.divides /\ (L.lstride <=> program.lstride)
<1>1. L.lstride = program.lstride
  BY DEF OverPoints
<1>2. L.lmem = program.lmem
  BY DEF OverPoints
<1>3. L.divides
  BY DEF OverPoints
<1>4. QED
  BY <1>1, <1>2, <1>3, Zenon

\* The flags of a program.
Flags(program, F) ==
  /\ program.features \in {AnyFeatures, F}
  /\ program.lstride \in BOOLEAN /\ program.lmem \in BOOLEAN

\* The arguments in local memory.
LocalNames == {"l_bins", "local_buf", "l_points", "l_centroids", "l_masses", "l_labels"}

\* A launch over points, with whole vectors and a program for its features.
LEMMA OverPointsLaunch ==
  ASSUME NEW kernel, NEW cfg, ConfigOK(cfg), NEW call, ArgsOK(call),
         NEW program, Flags(program, call.F), NEW vec \in Nat \ {0}, call.N % vec = 0,
         NEW out, NEW locals, DOMAIN locals \subseteq LocalNames,
         NEW L, L = OverPoints(kernel, cfg, call, program, vec, out, locals)
  PROVE  /\ PointsLaunch(L) /\ Linear(L) /\ L.divides /\ (L.lstride <=> program.lstride)
         /\ L.kernel = kernel /\ L.C = call.C /\ L.F = call.F /\ L.N = call.N /\ L.b = call.b
         /\ L.out = out /\ L.locals = locals /\ L.local = cfg.local /\ L.vec = vec /\ L.tf = 1
         /\ L.program = program /\ L.groups = cfg.global \div cfg.local
         /\ L.groups * L.local = cfg.global
<1>1. /\ L.kernel = kernel /\ L.groups = cfg.global \div cfg.local /\ L.local = cfg.local
      /\ L.cols = 1 /\ L.lcols = 1 /\ L.N = call.N /\ L.b = call.b /\ L.C = call.C
      /\ L.dims = call.F
      /\ L.vec = vec /\ L.program = program /\ L.tf = 1 /\ L.out = out /\ L.locals = locals
      /\ L.F = call.F
  BY OverPointsFields DEF Flags
<1>2. /\ cfg.global \in Nat \ {0} /\ cfg.local \in Nat \ {0}
      /\ L.groups \in Nat \ {0} /\ L.groups * L.local = cfg.global /\ cfg.global % cfg.local = 0
  BY <1>1, ConfigFacts
<1>3. L.lstride \in BOOLEAN /\ L.lmem \in BOOLEAN /\ L.divides /\ (L.lstride <=> program.lstride)
  BY <1>2, OverPointsFlags DEF Flags
<1>4. call.C \in Nat \ {0} /\ call.F \in Nat \ {0} /\ call.N \in Nat
  BY ArgsFacts
<1>5. Linear(L)
  BY <1>1, <1>2, <1>4 DEF Linear
<1>6. WholeVectors(L)
  <2> DEFINE k == call.N
  <2>0. k \in Nat
    BY <1>4
  <2>1. k \div vec \in Nat /\ k = vec * (k \div vec) + (k % vec)
    <3> HIDE DEF k
    <3>1. k \div vec \in Nat
      BY <2>0, DivNat
    <3>2. k = vec * (k \div vec) + (k % vec)
      BY <2>0, DivMod
    <3>3. QED
      BY <3>1, <3>2
  <2>2. L.N = L.vec * (call.N \div vec)
    <3> DEFINE n == call.N \div vec
    <3> HIDE DEF n
    <3>1. n \in Nat /\ call.N = vec * n + 0
      BY <2>1 DEF n
    <3>2. vec * n \in Nat
      BY <3>1
    <3>3. call.N = vec * n
      BY <3>1, <3>2
    <3>4. QED
      BY <3>3, <1>1 DEF n
  <2>3. QED
    BY <2>1, <2>2 DEF WholeVectors
<1>7. DOMAIN L.locals \cap {"labels", "points", "masses", "ro_centroids", "tmp_masses",
                            "tmp_centroids", "tmp_new_centroids", "new_masses"} = {}
  BY <1>1 DEF LocalNames
<1>8. PointsLaunch(L)
  BY <1>1, <1>2, <1>3, <1>4, <1>5, <1>6, <1>7, LinearStriped DEF PointsLaunch
<1>9. QED
  BY <1>1, <1>2, <1>3, <1>5, <1>8

\* Buffers of the client: masses, and old and new centroids.
BuffersOK(host, call) ==
  /\ Sized(host) /\ Room(host, "masses", call.C)
  /\ Room(host, call.old, call.C * call.F) /\ Room(host, call.new, call.C * call.F)
  /\ {call.old, call.new} \subseteq {"centroids", "old_centroids", "new_centroids"}

\* Room for the results in the client's buffers.
LEMMA HostRoom ==
  ASSUME NEW host, NEW call, ArgsOK(call), BuffersOK(host, call), NEW sz, Sized(sz), Has(sz, host)
  PROVE  /\ Room(sz, "masses", call.C)
         /\ Room(sz, call.old, call.C * call.F) /\ Room(sz, call.new, call.C * call.F)
<1> DEFINE n == call.C * call.F
<1>1. call.C \in Nat /\ n \in Nat
  BY ArgsFacts
<1>2. Room(host, "masses", call.C) /\ Room(host, call.old, n) /\ Room(host, call.new, n)
  BY DEF BuffersOK
<1> HIDE DEF n
<1>3. ASSUME NEW b, NEW k \in Nat, Room(host, b, k) PROVE Room(sz, b, k)
  BY <1>3 DEF Has, Room, Sized, BuffersOK
<1>4. Room(sz, "masses", call.C) /\ Room(sz, call.old, n) /\ Room(sz, call.new, n)
  BY <1>1, <1>2, <1>3
<1>5. QED
  BY <1>4 DEF n

\* The parts of a phase.
LEMMA PhaseIs ==
  ASSUME NEW ok, ok, NEW programs, NEW needs, NEW launches, NEW host, NEW call,
         \A b \in DOMAIN needs : b # "labels" /\ needs[b] \in Nat,
         \A sz : Sized(sz) /\ Has(sz, host) /\ Has(sz, needs) =>
           Queued(launches, sz, programs, call)
  PROVE  PhaseOk(Phase(ok, programs, needs, launches), host, call)
<1> DEFINE ph == Phase(ok, programs, needs, launches)
<1>1. ph.programs = programs /\ ph.needs = needs /\ ph.launches = launches
  BY DEF Phase
<1>2. ph.ok
  BY DEF Phase
<1> HIDE DEF ph
<1>3. PhaseOk(ph, host, call)
  BY <1>1, <1>2, Zenon DEF PhaseOk
<1>4. QED
  BY <1>3 DEF ph

\* Sums of powers of two: k columns of rows * cols numbers.
LEMMA SumUpPowers ==
  ASSUME NEW k, IsPowerOfTwo(k), k > 1, NEW rows, IsPowerOfTwo(rows), NEW cols, IsPowerOfTwo(cols),
         NEW n, n = k * (rows * cols), NEW result, NEW tmp, result # tmp,
         {result, tmp} \cap {"labels", "points", "l_data"} = {}
  PROVE  /\ n \in Nat /\ SumUpOk(n, k, rows * cols, tmp)
         /\ \A sz, programs, call :
              Sized(sz) /\ Room(sz, tmp, n) /\ Room(sz, result, rows * cols)
                => Queued(SumUp(result, tmp, n, rows, cols), sz, programs, call)
<1> DEFINE p == rows * cols
<1>1. IsPowerOfTwo(p)
  BY PowerProduct
<1>2. rows \in Nat \ {0} /\ cols \in Nat \ {0} /\ k \in Nat \ {0}
  BY PowerOfTwoTyped
<1>3. n = k * p
  OBVIOUS
<1>4. p \in Nat \ {0}
  BY <1>1, PowerOfTwoTyped
<1>5. IsPowerOfTwo(n) /\ n \in Nat
  <2> HIDE DEF p
  <2>1. QED
    BY <1>1, <1>3, PowerProduct, PowerOfTwoTyped
<1>6. ReduceOk(n, k, p, tmp) /\ Reduce(n, p, tmp) # <<>>
  <2> HIDE DEF p
  <2>1. QED
    BY <1>1, <1>2, <1>3, <1>5, ReduceOkPowers
<1>7. ASSUME NEW sz, NEW programs, NEW call, Sized(sz), Room(sz, tmp, n), Room(sz, result, p)
      PROVE  Queued(SumUp(result, tmp, n, rows, cols), sz, programs, call)
  BY <1>2, <1>5, <1>6, <1>7, SumUpAdmitted
<1>8. QED
  BY <1>5, <1>6, <1>7, Zenon DEF SumUpOk

-----------------------------------------------------------------------------
(***************************************************************************)
(* Launches over points that find room                                     *)
(***************************************************************************)
\* A launch over points that finds room.
LEMMA PointsAdmitted ==
  ASSUME NEW kernel, NEW cfg, ConfigOK(cfg), NEW call, ArgsOK(call),
         NEW program, Flags(program, call.F), NEW vec \in Nat \ {0}, call.N % vec = 0,
         NEW out, NEW locals, DOMAIN locals \subseteq LocalNames,
         NEW L, L = OverPoints(kernel, cfg, call, program, vec, out, locals),
         NEW sz, Sized(sz), FitsOnce(L, sz), NEW programs, program \in programs
  PROVE  Queued(<<L>>, sz, programs, call)
<1>1. /\ PointsLaunch(L) /\ Linear(L) /\ L.divides
      /\ L.C = call.C /\ L.N = call.N /\ L.b = call.b /\ L.locals = locals /\ L.program = program
  BY OverPointsLaunch
<1>2. DOMAIN L.locals \cap {"labels", "points"} = {}
  BY <1>1 DEF LocalNames
<1>3. Fits(L, sz, call.C)
  BY <1>1 DEF Fits
<1>4. FitsIn(L, sz, call.C)
  BY <1>2, <1>3, FitsNow
<1>5. LabelCells(L) = LabelCells(call)
  BY <1>1 DEF LabelCells, InBlock
<1>6. Admits(L, sz, programs, call)
  BY <1>1, <1>4, <1>5 DEF Admits
<1>7. QED
  BY <1>6, QueuedOne

\* Every number of points makes whole vectors of one.
LEMMA WholeByOne ==
  ASSUME NEW n \in Nat
  PROVE  n % 1 = 0
OBVIOUS

\* The programs of the mass updates.
LEMMA FlagsOf ==
  ASSUME NEW s \in BOOLEAN, NEW m \in BOOLEAN, NEW F, NEW d \in {AnyFeatures, F}
  PROVE  Flags(Program(s, m, d), F) /\ (Program(s, m, d).lstride <=> s)
<1>1. Program(s, m, d).features = d
  BY ProgramFields
<1>2. Program(s, m, d).lstride \in BOOLEAN /\ Program(s, m, d).lmem \in BOOLEAN
      /\ (Program(s, m, d).lstride <=> s)
  BY ProgramFields, Zenon
<1>3. QED
  BY <1>1, <1>2, Zenon DEF Flags

\* The program of a wrapper that leaves local memory aside,
LEMMA PlainProgram ==
  ASSUME NEW dev, NEW F
  PROVE  LET p == Program(UseLocalStride(dev), FALSE, AnyFeatures)
         IN  Flags(p, F) /\ p \in ByStride
<1>1. UseLocalStride(dev) \in BOOLEAN /\ FALSE \in BOOLEAN /\ AnyFeatures \in {AnyFeatures, F}
  BY StrideTyped
<1>2. Flags(Program(UseLocalStride(dev), FALSE, AnyFeatures), F)
  BY <1>1, FlagsOf, Zenon
<1>3. QED
  BY <1>2, ProgramsBuilt, Zenon

\* and of one that may use it.
LEMMA MemoryProgram ==
  ASSUME NEW dev, NEW bytes, NEW F
  PROVE  LET p == Program(UseLocalStride(dev), UseLocalMemory(dev, bytes), AnyFeatures)
         IN  Flags(p, F) /\ p \in ByStrideAndMemory /\ (p.lstride <=> UseLocalStride(dev))
<1>1. UseLocalStride(dev) \in BOOLEAN /\ UseLocalMemory(dev, bytes) \in BOOLEAN
      /\ AnyFeatures \in {AnyFeatures, F}
  BY StrideTyped
<1>2. QED
  BY <1>1, FlagsOf, ProgramsBuilt, Zenon

-----------------------------------------------------------------------------
(***************************************************************************)
(* Mass update with one histogram                                          *)
(***************************************************************************)
\* The phase with one histogram in global memory can be called.
LEMMA GlobalAtomicOk ==
  ASSUME NEW cfg, ConfigOK(cfg), NEW dev, NEW call, ArgsOK(call), NEW host, BuffersOK(host, call)
  PROVE  PhaseOk(MassUpdateGlobalAtomic(cfg, dev, call), host, call)
<1> DEFINE P == Program(UseLocalStride(dev), FALSE, AnyFeatures)
           L == OverPoints("histogram_global", cfg, call, P, 1, "masses", <<>>)
<1>1. Flags(P, call.F) /\ P \in ByStride
  BY PlainProgram
<1>2. call.N % 1 = 0 /\ DOMAIN <<>> \subseteq LocalNames
  BY ArgsFacts, WholeByOne
<1> HIDE DEF P
<1>3. L.kernel = "histogram_global" /\ L.out = "masses" /\ L.C = call.C
  BY <1>1, <1>2, OverPointsLaunch
<1>4. ASSUME NEW sz, Sized(sz), Has(sz, host), Has(sz, <<>>)
      PROVE  Queued(<<L>>, sz, ByStride, call)
  <2>1. Room(sz, "masses", call.C)
    BY <1>4, HostRoom
  <2> HIDE DEF L
  <2>2. FitsOnce(L, sz)
    BY <1>3, <2>1 DEF FitsOnce
  <2>3. QED
    BY <1>1, <1>2, <1>4, <2>2, PointsAdmitted DEF L
<1> HIDE DEF L
<1>5. \A b \in DOMAIN <<>> : b # "labels" /\ <<>>[b] \in Nat
  OBVIOUS
<1>5a. PhaseOk(Phase(TRUE, ByStride, <<>>, <<L>>), host, call)
  BY <1>4, <1>5, PhaseIs, Zenon
<1>6. QED
  BY <1>5a DEF MassUpdateGlobalAtomic, MassUpdateGlobalAtomicPrograms, L, P

\* A phase that fills a temporary buffer and sums it up.
LEMMA TempPhaseOk ==
  ASSUME NEW call, ArgsOK(call), NEW host, BuffersOK(host, call),
         NEW k, IsPowerOfTwo(k), k > 1, NEW rows, IsPowerOfTwo(rows), NEW cols, IsPowerOfTwo(cols),
         NEW p, p = rows * cols, NEW n, n = k * p,
         NEW result, \/ result = "masses" /\ p = call.C
                     \/ result = call.new /\ p = call.C * call.F,
         NEW tmp, tmp \in {"tmp_masses", "tmp_centroids"}, NEW programs, NEW L,
         \A sz : Sized(sz) /\ Room(sz, tmp, n) => Queued(<<L>>, sz, programs, call),
         NEW needs, DOMAIN needs = {tmp}, needs[tmp] = n
  PROVE  PhaseOk(Phase(SumUpOk(n, k, p, tmp), programs, needs,
                       <<L>> \o SumUp(result, tmp, n, rows, cols)), host, call)
<1>1. result # tmp /\ {result, tmp} \cap {"labels", "points", "l_data"} = {}
  BY DEF BuffersOK
<1>2. n = k * (rows * cols)
  OBVIOUS
<1>3. /\ n \in Nat /\ SumUpOk(n, k, rows * cols, tmp)
      /\ \A sz, ps, c : Sized(sz) /\ Room(sz, tmp, n) /\ Room(sz, result, rows * cols)
           => Queued(SumUp(result, tmp, n, rows, cols), sz, ps, c)
  BY <1>1, <1>2, SumUpPowers
<1>4. n \in Nat /\ SumUpOk(n, k, p, tmp)
  BY <1>3, Zenon
<1>5. ASSUME NEW sz, Sized(sz), Has(sz, host), Has(sz, needs)
      PROVE  Queued(<<L>> \o SumUp(result, tmp, n, rows, cols), sz, programs, call)
  <2>1. Room(sz, tmp, n)
    BY <1>5 DEF Has
  <2>2. Room(sz, result, p)
    BY <1>5, HostRoom
  <2>3. Queued(SumUp(result, tmp, n, rows, cols), sz, programs, call)
    BY <1>3, <1>5, <2>1, <2>2, Zenon
  <2>4. Queued(<<L>>, sz, programs, call)
    BY <1>5, <2>1, Zenon
  <2>5. QED
    BY <2>3, <2>4, QueuedBoth
<1>6. \A b \in DOMAIN needs : b # "labels" /\ needs[b] \in Nat
  BY <1>4
<1>7. QED
  BY <1>4, <1>5, <1>6, PhaseIs, Zenon

\* The masses are a matrix of one column.
LEMMA OneColumn ==
  ASSUME NEW call, ArgsOK(call)
  PROVE  call.C = call.C * 1
BY ArgsFacts

-----------------------------------------------------------------------------
(***************************************************************************)
(* Mass updates with a histogram for every group or item; feature sums     *)
(***************************************************************************)
\* The phase with a histogram for every group can be called,
LEMMA PartGlobalOk ==
  ASSUME NEW cfg, ConfigOK(cfg), NEW dev, NEW call, ArgsOK(call), NEW host, BuffersOK(host, call),
         NumWorkGroups(cfg) > 1
  PROVE  PhaseOk(MassUpdatePartGlobal(cfg, dev, call), host, call)
<1> DEFINE P == Program(UseLocalStride(dev), FALSE, AnyFeatures)
           L == OverPoints("histogram_part_global", cfg, call, P, 1, "tmp_masses", <<>>)
           g == NumWorkGroups(cfg)
           n == call.C * g
           needs == [tmp_masses |-> n]
<1>1. Flags(P, call.F) /\ P \in ByStride
  BY PlainProgram
<1>2. call.N % 1 = 0 /\ DOMAIN <<>> \subseteq LocalNames
  BY ArgsFacts, WholeByOne
<1> HIDE DEF P
<1>3. L.kernel = "histogram_part_global" /\ L.out = "tmp_masses" /\ L.C = call.C /\ L.groups = g
  BY <1>1, <1>2, OverPointsLaunch DEF NumWorkGroups
<1>4. IsPowerOfTwo(g) /\ g \in Nat \ {0} /\ call.C \in Nat \ {0} /\ IsPowerOfTwo(call.C) /\ g > 1
  BY ConfigFacts, ArgsFacts DEF NumWorkGroups, ArgsOK
<1> HIDE DEF g
<1>5. n = g * call.C
  BY <1>4
<1>6. ASSUME NEW sz, Sized(sz), Room(sz, "tmp_masses", n)
      PROVE  Queued(<<L>>, sz, ByStride, call)
  <2> HIDE DEF L
  <2>1. FitsOnce(L, sz)
    BY <1>3, <1>6 DEF FitsOnce
  <2>2. QED
    BY <1>1, <1>2, <1>6, <2>1, PointsAdmitted DEF L
<1>7. DOMAIN needs = {"tmp_masses"} /\ needs["tmp_masses"] = n
  OBVIOUS
<1> HIDE DEF L, n, needs
<1>8. PhaseOk(Phase(SumUpOk(n, g, call.C, "tmp_masses"), ByStride, needs,
                    <<L>> \o SumUp("masses", "tmp_masses", n, call.C, 1)), host, call)
  BY <1>4, <1>5, <1>6, <1>7, OneColumn, OneIsPower, TempPhaseOk
<1>9. QED
  BY <1>8 DEF MassUpdatePartGlobal, MassUpdatePartGlobalPrograms, L, P, n, needs, g

\* the phase with histograms in local memory,
LEMMA PartLocalOk ==
  ASSUME NEW cfg, ConfigOK(cfg), NEW dev, NEW call, ArgsOK(call), NEW host, BuffersOK(host, call),
         NumWorkGroups(cfg) > 1
  PROVE  PhaseOk(MassUpdatePartLocal(cfg, dev, call), host, call)
<1> DEFINE P == Program(UseLocalStride(dev), FALSE, AnyFeatures)
           locals == [l_bins |-> call.C]
           L == OverPoints("histogram_part_local", cfg, call, P, 1, "tmp_masses", locals)
           g == NumWorkGroups(cfg)
           n == call.C * g
           needs == [tmp_masses |-> n]
<1>1. Flags(P, call.F) /\ P \in ByStride
  BY PlainProgram
<1>2. call.N % 1 = 0 /\ DOMAIN locals = {"l_bins"} /\ locals["l_bins"] = call.C
  BY ArgsFacts, WholeByOne
<1>2a. DOMAIN locals \subseteq LocalNames
  BY <1>2 DEF LocalNames
<1> HIDE DEF P, locals
<1>3. /\ L.kernel = "histogram_part_local" /\ L.out = "tmp_masses" /\ L.C = call.C /\ L.groups = g
      /\ L.locals = locals
  BY <1>1, <1>2, <1>2a, OverPointsLaunch DEF NumWorkGroups
<1>4. IsPowerOfTwo(g) /\ g \in Nat \ {0} /\ call.C \in Nat \ {0} /\ IsPowerOfTwo(call.C) /\ g > 1
  BY ConfigFacts, ArgsFacts DEF NumWorkGroups, ArgsOK
<1> HIDE DEF g
<1>5. n = g * call.C
  BY <1>4
<1>6. ASSUME NEW sz, Sized(sz), Room(sz, "tmp_masses", n)
      PROVE  Queued(<<L>>, sz, ByStride, call)
  <2> HIDE DEF L
  <2>1. HasLocal(L, "l_bins", L.C)
    BY <1>2, <1>3, <1>4 DEF HasLocal
  <2>2. FitsOnce(L, sz)
    BY <1>3, <1>6, <2>1 DEF FitsOnce
  <2>3. QED
    BY <1>1, <1>2, <1>2a, <1>6, <2>2, PointsAdmitted DEF L
<1>7. DOMAIN needs = {"tmp_masses"} /\ needs["tmp_masses"] = n
  OBVIOUS
<1> HIDE DEF L, n, needs
<1>8. PhaseOk(Phase(SumUpOk(n, g, call.C, "tmp_masses"), ByStride, needs,
                    <<L>> \o SumUp("masses", "tmp_masses", n, call.C, 1)), host, call)
  BY <1>4, <1>5, <1>6, <1>7, OneColumn, OneIsPower, TempPhaseOk
<1>9. QED
  BY <1>8 DEF MassUpdatePartLocal, MassUpdatePartLocalPrograms, L, P, locals, n, needs, g

\* and the one with a histogram for every item.
LEMMA PartPrivateOk ==
  ASSUME NEW cfg, ConfigOK(cfg), NEW dev, NEW call, ArgsOK(call), NEW host, BuffersOK(host, call),
         cfg.global > 1, cfg.vec \in Nat \ {0}, call.N % cfg.vec = 0
  PROVE  PhaseOk(MassUpdatePartPrivate(cfg, dev, call), host, call)
<1> DEFINE cells == call.C * cfg.local
           P == Program(UseLocalStride(dev), UseLocalMemory(dev, cells), AnyFeatures)
           locals == [local_buf |-> cells]
           L == OverPoints("histogram_part_private", cfg, call, P, cfg.vec, "tmp_masses", locals)
           g == cfg.global
           n == call.C * g
           needs == [tmp_masses |-> n]
<1>1. Flags(P, call.F) /\ P \in ByStrideAndMemory
  BY MemoryProgram
<1>2. DOMAIN locals = {"local_buf"} /\ locals["local_buf"] = cells
  OBVIOUS
<1>2a. DOMAIN locals \subseteq LocalNames
  BY <1>2 DEF LocalNames
<1>4. /\ IsPowerOfTwo(g) /\ g \in Nat \ {0} /\ call.C \in Nat \ {0} /\ IsPowerOfTwo(call.C) /\ g > 1
      /\ cfg.local \in Nat \ {0}
  BY ConfigFacts, ArgsFacts DEF ConfigOK, ArgsOK
<1>4a. cells \in Nat /\ cfg.local * call.C = cells
  BY <1>4
<1> HIDE DEF P, locals
<1>3. /\ L.kernel = "histogram_part_private" /\ L.out = "tmp_masses" /\ L.C = call.C
      /\ L.groups * L.local = g /\ L.local = cfg.local /\ L.locals = locals
  BY <1>1, <1>2a, OverPointsLaunch
<1> HIDE DEF g, cells
<1>5. n = g * call.C
  BY <1>4
<1>6. ASSUME NEW sz, Sized(sz), Room(sz, "tmp_masses", n)
      PROVE  Queued(<<L>>, sz, ByStrideAndMemory, call)
  <2> HIDE DEF L
  <2>1. HasLocal(L, "local_buf", L.local * L.C)
    BY <1>2, <1>3, <1>4a DEF HasLocal
  <2>2. FitsOnce(L, sz)
    BY <1>3, <1>6, <2>1 DEF FitsOnce
  <2>3. QED
    BY <1>1, <1>2a, <1>6, <2>2, PointsAdmitted DEF L
<1>7. DOMAIN needs = {"tmp_masses"} /\ needs["tmp_masses"] = n
  OBVIOUS
<1> HIDE DEF L, n, needs
<1>8. PhaseOk(Phase(SumUpOk(n, g, call.C, "tmp_masses"), ByStrideAndMemory, needs,
                    <<L>> \o SumUp("masses", "tmp_masses", n, call.C, 1)), host, call)
  BY <1>4, <1>5, <1>6, <1>7, OneColumn, OneIsPower, TempPhaseOk
<1>9. QED
  BY <1>8 DEF MassUpdatePartPrivate, MassUpdatePartPrivatePrograms, L, P, locals, n, needs, g, cells

\* Products of three numbers.
LEMMA TimesAssoc ==
  ASSUME NEW a \in Nat, NEW b \in Nat, NEW c \in Nat
  PROVE  (a * b) * c = a * (b * c) /\ a * b = b * a
OBVIOUS

\* A phase with more to assert.
LEMMA PhaseAsserts ==
  ASSUME NEW a, a, NEW ok, NEW programs, NEW needs, NEW launches, NEW host, NEW call,
         PhaseOk(Phase(ok, programs, needs, launches), host, call)
  PROVE  PhaseOk(Phase(a /\ ok, programs, needs, launches), host, call)
<1> DEFINE ph == Phase(ok, programs, needs, launches)
<1>1. ph.programs = programs /\ ph.needs = needs /\ ph.launches = launches
  BY DEF Phase
<1>2. ph.ok => ok
  BY DEF Phase
<1> HIDE DEF ph
<1>3. PhaseOk(ph, host, call)
  BY DEF ph
<1>4. /\ a /\ ok
      /\ \A b \in DOMAIN needs : b # "labels" /\ needs[b] \in Nat
      /\ \A sz : Sized(sz) /\ Has(sz, host) /\ Has(sz, needs) =>
           Queued(launches, sz, programs, call)
  BY <1>1, <1>2, <1>3, Zenon DEF PhaseOk
<1>5. QED
  BY <1>4, PhaseIs, Zenon

\* The phase with sums for every item can be called.
LEMMA ClusterMergeOk ==
  ASSUME NEW cfg, ConfigOK(cfg), NEW dev, NEW call, ArgsOK(call), NEW host, BuffersOK(host, call),
         cfg.global > 1, cfg.vec \in Nat \ {0}, call.N % cfg.vec = 0
  PROVE  PhaseOk(CentroidUpdateClusterMerge(cfg, dev, call), host, call)
<1> DEFINE cells == cfg.local * call.F * call.C
           P == Program(UseLocalStride(dev), UseLocalMemory(dev, cells), AnyFeatures)
           locals == [l_centroids |-> cells]
           L == OverPoints("lloyd_cluster_merge", cfg, call, P, cfg.vec, "tmp_centroids", locals)
           g == cfg.global
           p == call.C * call.F
           n == g * call.C * call.F
           needs == [tmp_centroids |-> n]
<1>1. Flags(P, call.F) /\ P \in ByStrideAndMemory
  BY MemoryProgram
<1>2. DOMAIN locals = {"l_centroids"} /\ locals["l_centroids"] = cells
  OBVIOUS
<1>2a. DOMAIN locals \subseteq LocalNames
  BY <1>2 DEF LocalNames
<1>4. /\ IsPowerOfTwo(g) /\ g \in Nat \ {0} /\ call.C \in Nat \ {0} /\ IsPowerOfTwo(call.C) /\ g > 1
      /\ cfg.local \in Nat \ {0} /\ call.F \in Nat \ {0} /\ IsPowerOfTwo(call.F)
  BY ConfigFacts, ArgsFacts DEF ConfigOK, ArgsOK
<1>4a. cells \in Nat /\ cfg.local * p = cells
  BY <1>4, TimesAssoc
<1>4b. p \in Nat
  BY <1>4
<1> HIDE DEF P, locals
<1>3. /\ L.kernel = "lloyd_cluster_merge" /\ L.out = "tmp_centroids" /\ L.C = call.C /\ L.F = call.F
      /\ L.groups * L.local = g /\ L.local = cfg.local /\ L.locals = locals
  BY <1>1, <1>2a, OverPointsLaunch
<1> HIDE DEF g, cells
<1>5. n = g * p
  BY <1>4, TimesAssoc
<1>5a. g * p = p * g
  BY <1>4, <1>4b
<1>6. ASSUME NEW sz, Sized(sz), Room(sz, "tmp_centroids", n)
      PROVE  Queued(<<L>>, sz, ByStrideAndMemory, call)
  <2>0. L.C * L.F = p
    BY <1>3
  <2> HIDE DEF L, p
  <2>1. HasLocal(L, "l_centroids", L.local * (L.C * L.F))
    BY <1>2, <1>3, <1>4a, <2>0 DEF HasLocal
  <2>1a. Room(sz, "tmp_centroids", (L.C * L.F) * (L.groups * L.local))
    BY <1>3, <1>5, <1>5a, <1>6, <2>0
  <2>2. FitsOnce(L, sz)
    BY <1>3, <2>1, <2>1a DEF FitsOnce
  <2>3. QED
    BY <1>1, <1>2a, <1>6, <2>2, PointsAdmitted DEF L
<1>7. DOMAIN needs = {"tmp_centroids"} /\ needs["tmp_centroids"] = n
  OBVIOUS
<1> HIDE DEF L, n, needs
<1>8. PhaseOk(Phase(SumUpOk(n, g, p, "tmp_centroids"), ByStrideAndMemory, needs,
                    <<L>> \o SumUp(call.new, "tmp_centroids", n, call.C, call.F)), host, call)
  BY <1>4, <1>5, <1>6, <1>7, TempPhaseOk
<1>9. QED
  BY <1>8 DEF CentroidUpdateClusterMerge, CentroidUpdateClusterMergePrograms, L, P, locals, n, p,
              needs, g, cells

\* The number of blocks of items with one item for each feature.
LEMMA FeatureSumOk ==
  ASSUME NEW cfg, ConfigOK(cfg), NEW dev, NEW call, ArgsOK(call), NEW host, BuffersOK(host, call),
         call.F < cfg.global
  PROVE  PhaseOk(CentroidUpdateFeatureSum(cfg, dev, call), host, call)
<1> DEFINE P == Program(FALSE, FALSE, AnyFeatures)
           L == OverPoints("lloyd_feature_sum", cfg, call, P, 1, "tmp_centroids", <<>>)
           g == cfg.global
           k == g \div call.F
           p == call.C * call.F
           n == call.C * g
           needs == [tmp_centroids |-> n]
<1>1. Flags(P, call.F) /\ P \in {P}
  BY FlagsOf
<1>2. call.N % 1 = 0 /\ DOMAIN <<>> \subseteq LocalNames
  BY ArgsFacts, WholeByOne
<1> HIDE DEF P
<1>4. /\ IsPowerOfTwo(g) /\ g \in Nat \ {0} /\ call.C \in Nat \ {0} /\ IsPowerOfTwo(call.C)
      /\ cfg.local \in Nat \ {0} /\ call.F \in Nat \ {0} /\ IsPowerOfTwo(call.F) /\ call.F < g
  BY ConfigFacts, ArgsFacts DEF ConfigOK, ArgsOK
<1>3. /\ L.kernel = "lloyd_feature_sum" /\ L.out = "tmp_centroids" /\ L.C = call.C /\ L.F = call.F
      /\ L.groups * L.local = g
  BY <1>1, <1>2, OverPointsLaunch
<1>5. IsPowerOfTwo(k) /\ g = call.F * k /\ k \in Nat \ {0}
  <2> HIDE DEF g
  <2>0. call.F <= g
    BY <1>4
  <2>1. PICK r : IsPowerOfTwo(r) /\ g = call.F * r /\ g \div call.F = r /\ g % call.F = 0
    BY <1>4, <2>0, PowerDivides, Zenon
  <2>2. QED
    BY <2>1, PowerOfTwoTyped
<1> HIDE DEF k
<1>5a. k > 1
  <2>1. k # 1
    BY <1>4, <1>5
  <2>2. QED
    BY <1>5, <2>1
<1>5b. n = k * p
  <2>1. call.C * (call.F * k) = (call.C * call.F) * k
    BY <1>4, <1>5, TimesAssoc
  <2>2. p \in Nat
    BY <1>4
  <2>3. p * k = k * p
    <3> HIDE DEF p
    <3>1. QED
      BY <1>5, <2>2
  <2>4. n = p * k
    BY <1>5, <2>1, Zenon
  <2>5. QED
    BY <2>3, <2>4, Zenon
<1>6. ASSUME NEW sz, Sized(sz), Room(sz, "tmp_centroids", n)
      PROVE  Queued(<<L>>, sz, {P}, call)
  <2> HIDE DEF L, g
  <2>1. SumShape(L)
    BY <1>3, <1>4 DEF SumShape
  <2>1a. Room(sz, "tmp_centroids", L.C * (L.groups * L.local))
    BY <1>3, <1>6
  <2>2. FitsOnce(L, sz)
    BY <1>3, <2>1, <2>1a DEF FitsOnce
  <2>3. QED
    BY <1>1, <1>2, <1>6, <2>2, PointsAdmitted DEF L
<1>7. DOMAIN needs = {"tmp_centroids"} /\ needs["tmp_centroids"] = n
  OBVIOUS
<1> HIDE DEF L, n, needs
<1>8. PhaseOk(Phase(SumUpOk(n, k, p, "tmp_centroids"), {P}, needs,
                    <<L>> \o SumUp(call.new, "tmp_centroids", n, call.C, call.F)), host, call)
  BY <1>4, <1>5, <1>5a, <1>5b, <1>6, <1>7, TempPhaseOk
<1>8a. call.F <= g
  BY <1>4
<1> DEFINE below == call.F <= g
           ls == <<L>> \o SumUp(call.new, "tmp_centroids", n, call.C, call.F)
<1>8b. below
  BY <1>8a
<1>8c. PhaseOk(Phase(SumUpOk(n, k, p, "tmp_centroids"), {P}, needs, ls), host, call)
  BY <1>8
<1> HIDE DEF g, p, below, ls
<1>9. PhaseOk(Phase(below /\ SumUpOk(n, k, p, "tmp_centroids"), {P}, needs, ls), host, call)
  BY <1>8b, <1>8c, PhaseAsserts
<1>10. QED
  BY <1>9 DEF CentroidUpdateFeatureSum, CentroidUpdateFeatureSumPrograms, L, P, n, p, needs, g, k,
              below, ls

\* A quotient of a product.
LEMMA ProductDiv ==
  ASSUME NEW x \in Nat, NEW y \in Nat \ {0}, NEW z, z = x * y \/ z = y * x
  PROVE  z \div y = x /\ z % y = 0
<1>1. z \in Int /\ z = y * x + 0 /\ 0 \in 0 .. y - 1
  BY TimesAssoc
<1>2. QED
  BY <1>1, DivModUnique

\* Two parts of a number below n * k.
LEMMA Parts ==
  ASSUME NEW n \in Nat \ {0}, NEW k \in Nat \ {0}, NEW z \in 0 .. k * n - 1
  PROVE  z \div n \in 0 .. k - 1 /\ z % n \in 0 .. n - 1 /\ z = n * (z \div n) + (z % n)
<1>1. k * n = n * k
  OBVIOUS
<1>2. z \in Nat /\ z < n * k
  <2> DEFINE p == k * n
  <2>1. p \in Nat /\ z \in 0 .. p - 1 /\ p = n * k
    BY <1>1
  <2> HIDE DEF p
  <2>2. QED
    BY <2>1
<1>3. z \div n \in 0 .. k - 1
  BY <1>2, DivBelow
<1>4. z % n \in 0 .. n - 1 /\ z = n * (z \div n) + (z % n)
  BY <1>2, DivMod
<1>5. QED
  BY <1>3, <1>4

\* A launch in two dimensions: a * b groups of l * r items, of b groups and r
\* items in the second dimension.
TwoDim(L, a, b, l, r) ==
  /\ a \in Nat \ {0} /\ b \in Nat \ {0} /\ l \in Nat \ {0} /\ r \in Nat \ {0}
  /\ L.groups = a * b /\ L.local = l * r /\ L.cols = b * r /\ L.lcols = r

\* The sizes of a launch in two dimensions,
LEMMA TwoDimSizes ==
  ASSUME NEW L, NEW a, NEW b, NEW l, NEW r, TwoDim(L, a, b, l, r)
  PROVE  GroupCols(L) = b /\ NumGroups0(L) = a /\ LocalSize0(L) = l /\ GlobalSize0(L) = a * l
<1>1. GroupCols(L) = b
  BY ProductDiv DEF GroupCols, TwoDim
<1>2. NumGroups0(L) = a
  BY <1>1, ProductDiv DEF NumGroups0, TwoDim
<1>3. LocalSize0(L) = l
  BY ProductDiv DEF LocalSize0, TwoDim
<1>4. QED
  BY <1>1, <1>2, <1>3 DEF GlobalSize0

\* its groups and the items in them,
LEMMA TwoDimIds ==
  ASSUME NEW L, NEW a, NEW b, NEW l, NEW r, TwoDim(L, a, b, l, r), NEW w \in Items(L)
  PROVE  /\ w = <<w[1], w[2]>>
         /\ Group0(L, w) \in 0 .. a - 1 /\ w[1] % b \in 0 .. b - 1
         /\ w[1] = b * Group0(L, w) + (w[1] % b)
         /\ Lid0(L, w) \in 0 .. l - 1 /\ w[2] % r \in 0 .. r - 1
         /\ w[2] = r * Lid0(L, w) + (w[2] % r)
<1>1. w[1] \in 0 .. L.groups - 1 /\ w[2] \in 0 .. L.local - 1 /\ w = <<w[1], w[2]>>
  BY DEF Items
<1>2. w[1] \in 0 .. a * b - 1 /\ w[2] \in 0 .. l * r - 1
  BY <1>1 DEF TwoDim
<1>3. a \in Nat \ {0} /\ b \in Nat \ {0} /\ l \in Nat \ {0} /\ r \in Nat \ {0}
  BY DEF TwoDim
<1>4a. GroupCols(L) = b /\ L.lcols = r
  <2>1. GroupCols(L) = b
    BY TwoDimSizes
  <2>2. L.lcols = r
    BY DEF TwoDim
  <2>3. QED
    BY <2>1, <2>2
<1>4. Group0(L, w) = w[1] \div b /\ Lid0(L, w) = w[2] \div r
  BY <1>4a DEF Group0, Lid0
<1>5. w[1] \div b \in 0 .. a - 1 /\ w[1] % b \in 0 .. b - 1 /\ w[1] = b * (w[1] \div b) + (w[1] % b)
  BY <1>2, <1>3, Parts
<1>6. w[2] \div r \in 0 .. l - 1 /\ w[2] % r \in 0 .. r - 1 /\ w[2] = r * (w[2] \div r) + (w[2] % r)
  BY <1>2, <1>3, Parts
<1>7. QED
  BY <1>1, <1>4, <1>5, <1>6, Zenon

\* x * n + c is below k * n, and determines x and c.
LEMMA Joined ==
  ASSUME NEW n \in Nat \ {0}, NEW k \in Nat \ {0}, NEW x \in 0 .. k - 1, NEW c \in 0 .. n - 1
  PROVE  /\ x * n + c \in 0 .. k * n - 1
         /\ (x * n + c) \div n = x /\ (x * n + c) % n = c
<1>1. x \in Nat /\ c \in Nat /\ x * n = n * x /\ k * n = n * k /\ n * x \in Nat /\ n * k \in Nat
  OBVIOUS
<1>2. n * x + c \in Nat /\ n * x + c < n * k
  BY ChunkIndex
<1>3. x * n + c \in Int /\ x * n + c = n * x + c
  BY <1>1
<1>4. (x * n + c) \div n = x /\ (x * n + c) % n = c
  <2> DEFINE z == x * n + c
  <2>1. z \in Int /\ z = n * x + c /\ x \in Int
    BY <1>3
  <2> HIDE DEF z
  <2>2. z \div n = x /\ z % n = c
    BY <2>1, DivModUnique
  <2>3. QED
    BY <2>2 DEF z
<1>5. x * n + c \in 0 .. k * n - 1
  <2> DEFINE z == x * n + c
             q == n * k
  <2>1. z \in Nat /\ z < q /\ q \in Nat /\ k * n = q
    BY <1>1, <1>2, <1>3
  <2> HIDE DEF z, q
  <2>2. z \in 0 .. q - 1
    BY <2>1
  <2>3. QED
    BY <2>1, <2>2 DEF z
<1>6. QED
  BY <1>4, <1>5

\* and their global ids.
LEMMA TwoDimGids ==
  ASSUME NEW L, NEW a, NEW b, NEW l, NEW r, TwoDim(L, a, b, l, r), NEW w \in Items(L)
  PROVE  /\ Gid0(L, w) \in 0 .. a * l - 1 /\ Gid1(L, w) \in 0 .. b * r - 1
         /\ Gid0(L, w) \div l = Group0(L, w) /\ Gid0(L, w) % l = Lid0(L, w)
         /\ Gid1(L, w) \div r = w[1] % b /\ Gid1(L, w) % r = w[2] % r
<1>1. a \in Nat \ {0} /\ b \in Nat \ {0} /\ l \in Nat \ {0} /\ r \in Nat \ {0} /\ L.lcols = r
  BY DEF TwoDim
<1>2. /\ Group0(L, w) \in 0 .. a - 1 /\ w[1] % b \in 0 .. b - 1
      /\ Lid0(L, w) \in 0 .. l - 1 /\ w[2] % r \in 0 .. r - 1
  BY TwoDimIds
<1>3. GroupCols(L) = b /\ LocalSize0(L) = l
  BY TwoDimSizes
<1>4. Gid0(L, w) = Group0(L, w) * l + Lid0(L, w)
  BY <1>3 DEF Gid0
<1>5. Gid1(L, w) = (w[1] % b) * r + (w[2] % r)
  BY <1>1, <1>3 DEF Gid1
<1>6. /\ Gid0(L, w) \in 0 .. a * l - 1
      /\ Gid0(L, w) \div l = Group0(L, w) /\ Gid0(L, w) % l = Lid0(L, w)
  <2> DEFINE x == Group0(L, w)
             c == Lid0(L, w)
  <2>1. x \in 0 .. a - 1 /\ c \in 0 .. l - 1 /\ Gid0(L, w) = x * l + c
    BY <1>2, <1>4
  <2> HIDE DEF x, c
  <2>2. x * l + c \in 0 .. a * l - 1 /\ (x * l + c) \div l = x /\ (x * l + c) % l = c
    BY <1>1, <2>1, Joined
  <2>3. QED
    BY <2>1, <2>2, Zenon DEF x, c
<1>7. /\ Gid1(L, w) \in 0 .. b * r - 1
      /\ Gid1(L, w) \div r = w[1] % b /\ Gid1(L, w) % r = w[2] % r
  <2> DEFINE x == w[1] % b
             c == w[2] % r
  <2>1. x \in 0 .. b - 1 /\ c \in 0 .. r - 1 /\ Gid1(L, w) = x * r + c
    BY <1>2, <1>5
  <2> HIDE DEF x, c
  <2>2. x * r + c \in 0 .. b * r - 1 /\ (x * r + c) \div r = x /\ (x * r + c) % r = c
    BY <1>1, <2>1, Joined
  <2>3. QED
    BY <2>1, <2>2, Zenon DEF x, c
<1>8. QED
  BY <1>6, <1>7

\* Ids in both dimensions determine the item.
Located(L, w, b, l, r) ==
  w = <<b * (Gid0(L, w) \div l) + (Gid1(L, w) \div r), r * (Gid0(L, w) % l) + (Gid1(L, w) % r)>>

\* An item is the one at its place in its group.
LEMMA TwoDimLocated ==
  ASSUME NEW L, NEW a, NEW b, NEW l, NEW r, TwoDim(L, a, b, l, r), NEW w \in Items(L)
  PROVE  Located(L, w, b, l, r)
<1>1. /\ Gid0(L, w) \div l = Group0(L, w) /\ Gid0(L, w) % l = Lid0(L, w)
      /\ Gid1(L, w) \div r = w[1] % b /\ Gid1(L, w) % r = w[2] % r
  BY TwoDimGids
<1>2. /\ w = <<w[1], w[2]>>
      /\ w[1] = b * Group0(L, w) + (w[1] % b) /\ w[2] = r * Lid0(L, w) + (w[2] % r)
  BY TwoDimIds
<1>3. w = <<b * Group0(L, w) + (w[1] % b), r * Lid0(L, w) + (w[2] % r)>>
  BY <1>2, Zenon
<1>4. QED
  BY <1>1, <1>3, Zenon DEF Located

\* Items have different global ids.
LEMMA TwoDimApart ==
  ASSUME NEW L, NEW a, NEW b, NEW l, NEW r, TwoDim(L, a, b, l, r), NEW u \in Items(L),
         NEW w \in Items(L),
         Gid0(L, u) = Gid0(L, w), Gid1(L, u) = Gid1(L, w)
  PROVE  u = w
<1>1. Located(L, u, b, l, r)
  BY TwoDimLocated
<1>2. Located(L, w, b, l, r)
  BY TwoDimLocated
<1>3. QED
  BY <1>1, <1>2, Zenon DEF Located

\* Tiles of a launch in two dimensions.
LEMMA TwoDimShape ==
  ASSUME NEW L, NEW a, NEW b, NEW l, NEW r, TwoDim(L, a, b, l, r),
         L.vec \in Nat \ {0}, L.N \in Nat, L.tf \in Nat \ {0}, L.F = L.tf * L.cols
  PROVE  Striped(L) /\ TileShape(L) /\ L.groups \in Nat \ {0} /\ L.local \in Nat \ {0}
<1>1. a \in Nat \ {0} /\ b \in Nat \ {0} /\ l \in Nat \ {0} /\ r \in Nat \ {0} /\ L.cols = b * r
      /\ L.groups = a * b /\ L.local = l * r
  BY DEF TwoDim
<1>2. NumGroups0(L) = a /\ LocalSize0(L) = l /\ GlobalSize0(L) = a * l
  BY TwoDimSizes
<1>3. Striped(L)
  BY <1>1, <1>2, TwoDimIds DEF Striped
<1>4. a * l \in Nat /\ b * r \in Nat \ {0} /\ a * b \in Nat \ {0} /\ l * r \in Nat \ {0}
  BY <1>1
<1>5. TileShape(L)
  <2>1. \A w \in Items(L) : Gid0(L, w) \in 0 .. GlobalSize0(L) - 1 /\ Gid1(L, w) \in 0 .. L.cols - 1
    BY <1>1, <1>2, TwoDimGids
  <2>2. \A u, w \in Items(L) : Gid0(L, u) = Gid0(L, w) /\ Gid1(L, u) = Gid1(L, w) => u = w
    BY TwoDimApart, Zenon
  <2>3. QED
    BY <1>1, <1>2, <1>4, <2>1, <2>2 DEF TileShape
<1>6. QED
  BY <1>1, <1>3, <1>4, <1>5

\* A power of two that is larger is a multiple.
LEMMA PowerQuotient ==
  ASSUME NEW m, NEW n, IsPowerOfTwo(m), IsPowerOfTwo(n), m <= n
  PROVE  /\ IsPowerOfTwo(n \div m) /\ n \div m \in Nat \ {0} /\ n % m = 0
         /\ m \in Nat \ {0} /\ n \in Nat \ {0} /\ n = m * (n \div m)
<1>1. PICK r : IsPowerOfTwo(r) /\ n = m * r /\ n \div m = r /\ n % m = 0
  BY PowerDivides, Zenon
<1>2. r \in Nat \ {0} /\ m \in Nat \ {0} /\ n \in Nat \ {0}
  BY <1>1, PowerOfTwoTyped
<1>3. QED
  BY <1>1, <1>2, Zenon

\* Factors of a product.
LEMMA FactorBelow ==
  ASSUME NEW m \in Nat \ {0}, NEW x \in Nat \ {0}, NEW y \in Nat \ {0}, m * x <= m * y
  PROVE  x <= y
<1>1. CASE y < x
  <2>1. m * y + m <= m * x
    BY <1>1, LessTimes
  <2>2. m * x \in Nat /\ m * y \in Nat
    OBVIOUS
  <2>3. QED
    BY <2>1, <2>2
<1>2. QED
  BY <1>1

\* A factor is not larger than the product.
LEMMA FactorLess ==
  ASSUME NEW m \in Nat \ {0}, NEW x \in Nat \ {0}, NEW n, n = m * x
  PROVE  m <= n /\ (m < n => x > 1)
<1>1. n \in Nat /\ (x = 1 => n = m)
  OBVIOUS
<1>2. m <= n
  OBVIOUS
<1>3. QED
  BY <1>1, <1>2

\* The features of a group: as configured, or all.
LEMMA LocalFeaturesOf ==
  ASSUME NEW cfg, NEW call
  PROVE  LocalFeatures(cfg, call) = cfg.local_features \/ LocalFeatures(cfg, call) = call.F
BY DEF LocalFeatures, Min2

\* The tiles that a configuration cuts the features and points into.
LEMMA TilesOf ==
  ASSUME NEW cfg, ConfigOK(cfg), NEW call, ArgsOK(call), PardimOK(cfg, call)
  PROVE  LET tiles == FeatureTiles(cfg, call)
             features == LocalFeatures(cfg, call)
             rows == cfg.global \div tiles
         IN  /\ IsPowerOfTwo(tiles) /\ call.F = cfg.thread_features * tiles /\ tiles \in Nat \ {0}
             /\ IsPowerOfTwo(features) /\ features \in Nat \ {0} /\ features <= tiles
             /\ call.F % (cfg.thread_features * features) = 0
             /\ IsPowerOfTwo(rows) /\ rows \in Nat \ {0} /\ rows > 1 /\ cfg.global = tiles * rows
             /\ cfg.thread_features \in Nat \ {0}
<1> DEFINE tiles == FeatureTiles(cfg, call)
           features == LocalFeatures(cfg, call)
           rows == cfg.global \div tiles
           tf == cfg.thread_features
<1>1. /\ IsPowerOfTwo(tf) /\ IsPowerOfTwo(cfg.local_features) /\ tf * features <= call.F
      /\ tiles < cfg.global
  BY DEF PardimOK
<1>2. /\ IsPowerOfTwo(call.F) /\ call.F \in Nat \ {0} /\ IsPowerOfTwo(cfg.global)
      /\ cfg.global \in Nat \ {0} /\ tf \in Nat \ {0} /\ cfg.local_features \in Nat \ {0}
  BY <1>1, PowerOfTwoTyped DEF ArgsOK, ConfigOK
<1>3. IsPowerOfTwo(features) /\ features \in Nat \ {0}
  <2>1. features = cfg.local_features \/ features = call.F
    BY LocalFeaturesOf, Zenon
  <2> HIDE DEF features
  <2>2. QED
    BY <1>1, <1>2, <2>1
<1>4. tiles = call.F \div tf
  BY DEF FeatureTiles
<1> HIDE DEF tiles, features, tf
<1> DEFINE q == tf * features
<1>5. IsPowerOfTwo(q) /\ q <= call.F /\ tf <= q
  <2>1. IsPowerOfTwo(q)
    BY <1>1, <1>3, PowerProduct
  <2>2. q <= call.F /\ tf <= q
    BY <1>1, <1>2, <1>3
  <2>3. QED
    BY <2>1, <2>2
<1>6. q \in Nat
  BY <1>5, PowerOfTwoTyped
<1> HIDE DEF q
<1>7. tf <= call.F
  BY <1>2, <1>5, <1>6
<1>8. IsPowerOfTwo(tiles) /\ tiles \in Nat \ {0} /\ call.F = tf * tiles
  BY <1>1, <1>2, <1>4, <1>7, PowerQuotient
<1>9. call.F % q = 0
  BY <1>2, <1>5, PowerQuotient
<1>10. features <= tiles
  <2>1. tf * features <= tf * tiles
    BY <1>1, <1>8
  <2>2. QED
    BY <2>1, <1>2, <1>3, <1>8, FactorBelow
<1>11. tiles <= cfg.global
  BY <1>1, <1>2, <1>8
<1>12. IsPowerOfTwo(rows) /\ rows \in Nat \ {0} /\ cfg.global = tiles * rows
  BY <1>2, <1>8, <1>11, PowerQuotient
<1>13. rows > 1
  <2> HIDE DEF rows
  <2>1. QED
    BY <1>1, <1>8, <1>12, FactorLess
<1>14. QED
  BY <1>2, <1>3, <1>8, <1>9, <1>10, <1>12, <1>13, Zenon DEF tiles, features, tf, q

\* The local sizes.
LEMMA LocalSizesOf ==
  ASSUME NEW cfg, ConfigOK(cfg), NEW call, ArgsOK(call), PardimOK(cfg, call)
  PROVE  LET l == PardimLocal(cfg, call)
             tiles == FeatureTiles(cfg, call)
             rows == cfg.global \div tiles
         IN  IsPowerOfTwo(l[1]) /\ IsPowerOfTwo(l[2]) /\ l[1] <= rows /\ l[2] <= tiles
<1> DEFINE tiles == FeatureTiles(cfg, call)
           features == LocalFeatures(cfg, call)
           rows == cfg.global \div tiles
           l == PardimLocal(cfg, call)
<1>1. /\ tiles \in Nat \ {0} /\ IsPowerOfTwo(features) /\ features <= tiles
      /\ rows \in Nat \ {0} /\ cfg.global = tiles * rows
  BY TilesOf
<1>2. /\ tiles = 1 => cfg.local1 = 1
      /\ tiles # 1 => features <= cfg.local /\ cfg.local \div features <= rows
  BY DEF PardimOK
<1>3. IsPowerOfTwo(cfg.local) /\ cfg.local <= cfg.global
  BY DEF ConfigOK
<1>4. l = IF tiles = 1 THEN <<cfg.local, cfg.local1>> ELSE <<cfg.local \div features, features>>
  BY Zenon DEF PardimLocal
<1> HIDE DEF tiles, features, rows, l
<1>5. CASE tiles = 1
  <2>1. l[1] = cfg.local /\ l[2] = 1
    BY <1>2, <1>4, <1>5
  <2>2. cfg.global = rows
    BY <1>1, <1>5
  <2>3. QED
    BY <1>1, <1>3, <1>5, <2>1, <2>2, OneIsPower DEF tiles, rows, l
<1>6. CASE tiles # 1
  <2>1. l[1] = cfg.local \div features /\ l[2] = features
    BY <1>4, <1>6
  <2>2. IsPowerOfTwo(cfg.local \div features)
    BY <1>1, <1>2, <1>3, <1>6, PowerQuotient
  <2>3. QED
    BY <1>1, <1>2, <1>6, <2>1, <2>2 DEF tiles, rows, l
<1>7. QED
  BY <1>5, <1>6

\* The local memory of a group, the rows of tiles, and the launch of
\* lloyd_feature_sum_pardim.
PardimCells(cfg, call) ==
  PardimLocal(cfg, call)[1] * PardimLocal(cfg, call)[2] * cfg.thread_features * call.C
PardimRows(cfg, call) == cfg.global \div FeatureTiles(cfg, call)
PardimBase(cfg, call, program) ==
  OverPoints("lloyd_feature_sum_pardim", cfg, call, program, cfg.vec, "tmp_centroids",
             [l_centroids |-> PardimCells(cfg, call)])
PardimLaunch(cfg, call, program) ==
  LET l == PardimLocal(cfg, call)
      tiles == FeatureTiles(cfg, call)
      rows == PardimRows(cfg, call)
  IN  [PardimBase(cfg, call, program)
         EXCEPT !.groups = (rows \div l[1]) * (tiles \div l[2]), !.local = l[1] * l[2],
                !.cols = tiles, !.lcols = l[2], !.tf = cfg.thread_features,
                !.divides = rows % l[1] = 0 /\ tiles % l[2] = 0]

\* Its fields, one by one,
LEMMA PardimFields ==
  ASSUME NEW cfg, NEW call, NEW program, program.features \in {AnyFeatures, call.F},
         NEW L, L = PardimLaunch(cfg, call, program)
  PROVE  LET l == PardimLocal(cfg, call)
             tiles == FeatureTiles(cfg, call)
             rows == PardimRows(cfg, call)
         IN  /\ L.kernel = "lloyd_feature_sum_pardim" /\ L.out = "tmp_centroids"
             /\ L.groups = (rows \div l[1]) * (tiles \div l[2]) /\ L.local = l[1] * l[2]
             /\ L.cols = tiles /\ L.lcols = l[2] /\ L.N = call.N /\ L.b = call.b /\ L.C = call.C
             /\ L.dims = call.F /\ L.F = call.F /\ L.vec = cfg.vec /\ L.program = program
             /\ L.tf = cfg.thread_features
             /\ DOMAIN L.locals = {"l_centroids"}
             /\ L.locals["l_centroids"] = PardimCells(cfg, call)
             /\ L.lstride = program.lstride /\ L.lmem = program.lmem
             /\ L.divides = (rows % l[1] = 0 /\ tiles % l[2] = 0)
<1> DEFINE F == IF program.features = AnyFeatures THEN call.F ELSE program.features
           cells == [l_centroids |-> PardimCells(cfg, call)]
           over == cfg.global \div cfg.local
           even == cfg.global % cfg.local = 0
           g == (PardimRows(cfg, call) \div PardimLocal(cfg, call)[1])
                  * (FeatureTiles(cfg, call) \div PardimLocal(cfg, call)[2])
           n == PardimLocal(cfg, call)[1] * PardimLocal(cfg, call)[2]
           tiles == FeatureTiles(cfg, call)
           lc == PardimLocal(cfg, call)[2]
           d == /\ PardimRows(cfg, call) % PardimLocal(cfg, call)[1] = 0
                /\ FeatureTiles(cfg, call) % PardimLocal(cfg, call)[2] = 0
<1>1. L = [[kernel |-> "lloyd_feature_sum_pardim", groups |-> over, local |-> cfg.local,
            cols |-> 1, lcols |-> 1, divides |-> even,
            N |-> call.N, b |-> call.b, C |-> call.C, dims |-> call.F, vec |-> cfg.vec,
            F |-> F, lstride |-> program.lstride, lmem |-> program.lmem, program |-> program,
            tf |-> 1, out |-> "tmp_centroids", locals |-> cells]
             EXCEPT !.groups = g, !.local = n, !.cols = tiles, !.lcols = lc,
                    !.tf = cfg.thread_features, !.divides = d]
  BY Zenon DEF PardimLaunch, PardimBase, OverPoints
<1>2. F = call.F
  OBVIOUS
<1>3. DOMAIN cells = {"l_centroids"} /\ cells["l_centroids"] = PardimCells(cfg, call)
  OBVIOUS
<1> HIDE DEF F, cells, over, even, g, n, tiles, lc, d
<1>4. L.groups = g /\ L.local = n /\ L.cols = tiles /\ L.lcols = lc /\ L.divides = d
  BY <1>1
<1>5. L.kernel = "lloyd_feature_sum_pardim" /\ L.out = "tmp_centroids" /\ L.locals = cells
  BY <1>1
<1>6. L.N = call.N /\ L.b = call.b /\ L.C = call.C /\ L.dims = call.F /\ L.F = F
  BY <1>1
<1>7. /\ L.vec = cfg.vec /\ L.program = program /\ L.tf = cfg.thread_features
      /\ L.lstride = program.lstride /\ L.lmem = program.lmem
  BY <1>1
<1>8. DOMAIN L.locals = {"l_centroids"} /\ L.locals["l_centroids"] = PardimCells(cfg, call)
  BY <1>3, <1>5
<1>9. QED
  BY <1>2, <1>4, <1>5, <1>6, <1>7, <1>8, Zenon DEF g, n, tiles, lc, d

\* and what the program decides.
LEMMA PardimFlags ==
  ASSUME NEW cfg, NEW call, NEW program, Flags(program, call.F),
         NEW L, L = PardimLaunch(cfg, call, program),
         PardimRows(cfg, call) % PardimLocal(cfg, call)[1] = 0,
         FeatureTiles(cfg, call) % PardimLocal(cfg, call)[2] = 0
  PROVE  L.lstride \in BOOLEAN /\ L.lmem \in BOOLEAN /\ L.divides
<1> DEFINE d == /\ PardimRows(cfg, call) % PardimLocal(cfg, call)[1] = 0
               /\ FeatureTiles(cfg, call) % PardimLocal(cfg, call)[2] = 0
<1>1. program.features \in {AnyFeatures, call.F}
  BY Zenon DEF Flags
<1>2. L.lstride = program.lstride /\ L.lmem = program.lmem /\ L.divides = d
  BY <1>1, PardimFields
<1>3. d
  OBVIOUS
<1> HIDE DEF d
<1>4. QED
  BY <1>2, <1>3, Zenon DEF Flags

\* The launch is one of tiles, whose vectors are shared out evenly.
LEMMA PardimShape ==
  ASSUME NEW cfg, ConfigOK(cfg), NEW call, ArgsOK(call), PardimOK(cfg, call),
         NEW program, Flags(program, call.F), NEW L, L = PardimLaunch(cfg, call, program)
  PROVE  /\ PointsLaunch(L) /\ TileShape(L) /\ EvenShares(L) /\ L.divides
         /\ GlobalSize0(L) = PardimRows(cfg, call)
<1> DEFINE l == PardimLocal(cfg, call)
           tiles == FeatureTiles(cfg, call)
           rows == PardimRows(cfg, call)
           a == rows \div l[1]
           b == tiles \div l[2]
<1>1. /\ IsPowerOfTwo(tiles) /\ call.F = cfg.thread_features * tiles /\ IsPowerOfTwo(rows)
      /\ rows \in Nat \ {0} /\ cfg.thread_features \in Nat \ {0}
  BY TilesOf DEF PardimRows
<1>2. IsPowerOfTwo(l[1]) /\ IsPowerOfTwo(l[2]) /\ l[1] <= rows /\ l[2] <= tiles
  BY LocalSizesOf DEF PardimRows
<1>3. a \in Nat \ {0} /\ rows % l[1] = 0 /\ l[1] \in Nat \ {0} /\ rows = l[1] * a
  BY <1>1, <1>2, PowerQuotient
<1>4. b \in Nat \ {0} /\ tiles % l[2] = 0 /\ l[2] \in Nat \ {0} /\ tiles = l[2] * b
  BY <1>1, <1>2, PowerQuotient
<1>5. /\ L.kernel = "lloyd_feature_sum_pardim" /\ L.out = "tmp_centroids"
      /\ L.groups = a * b /\ L.local = l[1] * l[2] /\ L.cols = tiles /\ L.lcols = l[2]
      /\ L.N = call.N /\ L.b = call.b /\ L.C = call.C /\ L.dims = call.F /\ L.F = call.F
      /\ L.vec = cfg.vec /\ L.tf = cfg.thread_features /\ DOMAIN L.locals = {"l_centroids"}
  BY PardimFields DEF Flags
<1>6. L.lstride \in BOOLEAN /\ L.lmem \in BOOLEAN /\ L.divides
  <2>2. /\ PardimRows(cfg, call) % PardimLocal(cfg, call)[1] = 0
        /\ FeatureTiles(cfg, call) % PardimLocal(cfg, call)[2] = 0
    BY <1>3, <1>4
  <2> HIDE DEF l, tiles, rows, a, b
  <2>3. QED
    BY <2>2, PardimFlags, Zenon
<1>7. /\ cfg.vec \in Nat \ {0} /\ call.N % (cfg.vec * rows) = 0
      /\ call.C \in Nat \ {0} /\ call.F \in Nat \ {0} /\ call.N \in Nat
  BY ArgsFacts DEF PardimOK, PardimRows
<1> HIDE DEF l, tiles, rows, a, b
<1>8. b * l[2] = tiles /\ a * l[1] = rows
  BY <1>3, <1>4
<1>9. TwoDim(L, a, b, l[1], l[2])
  BY <1>3, <1>4, <1>5, <1>8 DEF TwoDim
<1>10. L.vec \in Nat \ {0} /\ L.N \in Nat /\ L.tf \in Nat \ {0} /\ L.F = L.tf * L.cols
  BY <1>1, <1>5, <1>7
<1>11. Striped(L) /\ TileShape(L) /\ L.groups \in Nat \ {0} /\ L.local \in Nat \ {0}
  BY <1>9, <1>10, TwoDimShape
<1>12. GlobalSize0(L) = rows
  BY <1>8, <1>9, TwoDimSizes
<1>13. PICK k \in Nat : call.N = (cfg.vec * rows) * k
  <2> DEFINE y == cfg.vec * rows
             n == call.N
  <2>1. y \in Nat \ {0} /\ n \in Nat /\ n % y = 0
    BY <1>1, <1>7
  <2> HIDE DEF y, n
  <2>2. n \div y \in Nat /\ n = y * (n \div y) + (n % y)
    BY <2>1, DivNat, DivMod
  <2> DEFINE q == n \div y
  <2>3. q \in Nat /\ n = y * q + 0
    BY <2>1, <2>2
  <2> HIDE DEF q
  <2>4. n = y * q
    BY <2>1, <2>3
  <2>5. QED
    BY <2>3, <2>4 DEF n, y
<1>14. EvenShares(L)
  BY <1>5, <1>12, <1>13 DEF EvenShares
<1>15. WholeVectors(L)
  <2>1. rows * k \in Nat /\ (cfg.vec * rows) * k = cfg.vec * (rows * k)
    BY <1>1, <1>7, TimesAssoc
  <2>2. L.N = L.vec * (rows * k)
    BY <1>5, <1>13, <2>1, Zenon
  <2>3. QED
    BY <2>1, <2>2 DEF WholeVectors
<1>16. DOMAIN L.locals \cap {"labels", "points", "masses", "ro_centroids", "tmp_masses",
                             "tmp_centroids", "tmp_new_centroids", "new_masses"} = {}
  BY <1>5
<1>17. PointsLaunch(L)
  BY <1>5, <1>6, <1>7, <1>11, <1>15, <1>16 DEF PointsLaunch
<1>18. QED
  BY <1>6, <1>11, <1>12, <1>14, <1>17, Zenon DEF rows

\* Products of four numbers.
LEMMA FourFactors ==
  ASSUME NEW a \in Nat, NEW b \in Nat, NEW c \in Nat, NEW d \in Nat
  PROVE  /\ (c * a) * (b * d) = d * (c * (a * b))
         /\ ((a * b) * c) * d = (a * b) * (d * c)
OBVIOUS

\* The launch finds room,
LEMMA PardimFits ==
  ASSUME NEW cfg, ConfigOK(cfg), NEW call, ArgsOK(call), PardimOK(cfg, call),
         NEW program, Flags(program, call.F), NEW L, L = PardimLaunch(cfg, call, program),
         NEW sz, Room(sz, "tmp_centroids", PardimRows(cfg, call) * (call.C * call.F))
  PROVE  FitsPardim(L, sz)
<1> DEFINE tiles == FeatureTiles(cfg, call)
           rows == PardimRows(cfg, call)
           tf == cfg.thread_features
           x == PardimLocal(cfg, call)[1]
           y == PardimLocal(cfg, call)[2]
<1>1. /\ L.kernel = "lloyd_feature_sum_pardim" /\ L.out = "tmp_centroids" /\ L.local = x * y
      /\ L.cols = tiles /\ L.C = call.C /\ L.tf = tf
      /\ DOMAIN L.locals = {"l_centroids"} /\ L.locals["l_centroids"] = PardimCells(cfg, call)
  <2>1. program.features \in {AnyFeatures, call.F}
    BY DEF Flags
  <2>2. QED
    BY <2>1, PardimFields
<1>2. TileShape(L) /\ EvenShares(L) /\ GlobalSize0(L) = rows
  BY PardimShape
<1>3. tiles \in Nat /\ rows \in Nat /\ tf \in Nat /\ call.C \in Nat /\ call.F = tf * tiles
  BY TilesOf, ArgsFacts DEF PardimRows
<1>4. x \in Nat /\ y \in Nat
  BY LocalSizesOf, PowerOfTwoTyped
<1>5. PardimCells(cfg, call) = x * y * tf * call.C
  BY DEF PardimCells
<1> HIDE DEF tiles, rows, tf, x, y
<1>6. Room(sz, "tmp_centroids", (L.C * L.tf) * (L.cols * GlobalSize0(L)))
  <2>1. (call.C * tf) * (tiles * rows) = rows * (call.C * (tf * tiles))
    BY <1>3, FourFactors
  <2>2. (L.C * L.tf) * (L.cols * GlobalSize0(L)) = rows * (call.C * call.F)
    BY <1>1, <1>2, <1>3, <2>1
  <2>3. QED
    BY <2>2 DEF rows
<1>7. HasLocal(L, "l_centroids", L.local * (L.C * L.tf))
  <2>1. ((x * y) * tf) * call.C = (x * y) * (call.C * tf)
    BY <1>3, <1>4, FourFactors
  <2> DEFINE n == (x * y) * (call.C * tf)
  <2>2. n \in Nat
    BY <1>3, <1>4
  <2>3. L.locals["l_centroids"] = n /\ L.local * (L.C * L.tf) = n
    BY <1>1, <1>5, <2>1
  <2> HIDE DEF n
  <2>4. QED
    BY <1>1, <2>2, <2>3 DEF HasLocal
<1>8. QED
  BY <1>1, <1>2, <1>6, <1>7 DEF FitsPardim

\* and the phase can be called.
LEMMA PardimOk ==
  ASSUME NEW cfg, ConfigOK(cfg), NEW dev, NEW call, ArgsOK(call), NEW host, BuffersOK(host, call),
         PardimOK(cfg, call)
  PROVE  PhaseOk(CentroidUpdateFeatureSumPardim(cfg, dev, call), host, call)
<1> DEFINE P == Program(UseLocalStride(dev), UseLocalMemory(dev, PardimCells(cfg, call)),
                        AnyFeatures)
           L == PardimLaunch(cfg, call, P)
           k == PardimRows(cfg, call)
           p == call.C * call.F
           n == k * call.C * call.F
           needs == [tmp_centroids |-> n]
           ls == <<L>> \o SumUp(call.new, "tmp_centroids", n, call.C, call.F)
           tf == cfg.thread_features
           tiles == FeatureTiles(cfg, call)
<1>1. Flags(P, call.F) /\ P \in ByStrideAndMemory
  BY MemoryProgram
<1>2. /\ call.C \in Nat \ {0} /\ IsPowerOfTwo(call.C) /\ call.F \in Nat \ {0}
      /\ IsPowerOfTwo(call.F)
      /\ IsPowerOfTwo(k) /\ k > 1 /\ k \in Nat \ {0}
  BY ArgsFacts, TilesOf DEF ArgsOK, PardimRows
<1>3. /\ IsPowerOfTwo(tf) /\ IsPowerOfTwo(cfg.local_features)
      /\ tiles \in Nat \ {0} /\ call.F % (tf * LocalFeatures(cfg, call)) = 0
  BY TilesOf DEF PardimOK
<1> HIDE DEF P, k
<1>4. n = k * p
  BY <1>2, TimesAssoc
<1>5. ASSUME NEW sz, Sized(sz), Room(sz, "tmp_centroids", n)
      PROVE  Queued(<<L>>, sz, ByStrideAndMemory, call)
  <2> HIDE DEF n, p
  <2>1. Room(sz, "tmp_centroids", k * (call.C * call.F))
    BY <1>4, <1>5 DEF p
  <2>2. FitsPardim(L, sz)
    BY <1>1, <2>1, PardimFits DEF k
  <2>3. PointsLaunch(L) /\ L.divides
    BY <1>1, PardimShape
  <2>4. /\ L.kernel = "lloyd_feature_sum_pardim" /\ L.C = call.C /\ L.program = P
        /\ DOMAIN L.locals = {"l_centroids"}
    <3>1. P.features \in {AnyFeatures, call.F}
      BY <1>1 DEF Flags
    <3>2. QED
      BY <3>1, PardimFields
  <2> HIDE DEF L
  <2>5. Fits(L, sz, call.C)
    BY <2>2, <2>3, <2>4 DEF Fits
  <2>6. FitsIn(L, sz, call.C)
    BY <1>5, <2>4, <2>5, FitsNow
  <2>7. ~Counts(L)
    BY <2>4 DEF Counts
  <2>8. Admits(L, sz, ByStrideAndMemory, call)
    BY <1>1, <2>3, <2>4, <2>6, <2>7, Zenon DEF Admits
  <2>9. QED
    BY <2>8, QueuedOne
<1>6. DOMAIN needs = {"tmp_centroids"} /\ needs["tmp_centroids"] = n
  OBVIOUS
<1> HIDE DEF L, n, needs
<1>7. PhaseOk(Phase(SumUpOk(n, k, p, "tmp_centroids"), ByStrideAndMemory, needs, ls), host, call)
  BY <1>2, <1>4, <1>5, <1>6, TempPhaseOk
<1> DEFINE power == IsPowerOfTwo(tf)
           powers == IsPowerOfTwo(cfg.local_features)
           positive == tiles > 0
           divides == call.F % (tf * LocalFeatures(cfg, call)) = 0
<1>8. (power /\ powers /\ positive /\ divides)
  BY <1>3
<1> HIDE DEF p, ls, power, powers, positive, divides
<1>9. PhaseOk(Phase((power /\ powers /\ positive /\ divides) /\ SumUpOk(n, k, p, "tmp_centroids"),
                    ByStrideAndMemory, needs, ls), host, call)
  BY <1>7, <1>8, PhaseAsserts
<1>10. QED
  BY <1>9 DEF CentroidUpdateFeatureSumPardim, CentroidUpdateFeatureSumPardimPrograms, L, P, n, p,
              needs, k, ls, power, powers, positive, divides, PardimLaunch, PardimBase, PardimRows,
              PardimCells

\* A number without rest is a multiple.
LEMMA Multiple ==
  ASSUME NEW y \in Nat \ {0}, NEW n \in Nat, n % y = 0
  PROVE  \E k \in Nat : n = y * k
<1> DEFINE q == n \div y
<1>1. q \in Nat /\ n = y * q + (n % y)
  BY DivNat, DivMod
<1>2. n = y * q + 0
  BY <1>1
<1> HIDE DEF q
<1>3. n = y * q
  BY <1>1, <1>2
<1>4. QED
  BY <1>1, <1>3

\* The programs of the kernels that are unrolled.
LEMMA UnrolledProgram ==
  ASSUME NEW dev, NEW bytes, NEW F, IsPowerOfTwo(F), F > 1, F <= MaxFeatures
  PROVE  LET p == Program(UseLocalStride(dev), UseLocalMemory(dev, bytes), KernelFeatures(F))
         IN  Flags(p, F) /\ p \in Unrolled(ByStrideAndMemory) /\ (p.lstride <=> UseLocalStride(dev))
<1>1. UseLocalStride(dev) \in BOOLEAN /\ UseLocalMemory(dev, bytes) \in BOOLEAN
  BY StrideTyped
<1>2. KernelFeatures(F) \in {AnyFeatures, F}
  BY KernelFeaturesOf
<1>3. QED
  BY <1>1, <1>2, FlagsOf, UnrolledBuilt, Zenon

\* The copy of the centroids.
LEMMA CopyAdmitted ==
  ASSUME NEW call, ArgsOK(call), NEW host, BuffersOK(host, call), NEW sz, Sized(sz), Has(sz, host),
         Room(sz, "ro_centroids", call.C * call.F), NEW programs
  PROVE  Queued(CopyCentroids(call), sz, programs, call)
<1> DEFINE n == call.C * call.F
<1>1. n \in Nat
  BY ArgsFacts
<1>2. Room(sz, call.old, n) /\ Room(sz, "ro_centroids", n)
  BY HostRoom
<1>3. call.old \notin {"labels", "points"} /\ "ro_centroids" \notin {"labels", "points"}
  BY DEF BuffersOK
<1> HIDE DEF n
<1>3a. "copy" \in {"fill", "copy"}
  OBVIOUS
<1>4. Admits(Command("copy", n, call.old, "ro_centroids"), sz, programs, call)
  BY <1>1, <1>2, <1>3, <1>3a, CommandAdmitted
<1>5. QED
  BY <1>4, QueuedOne DEF CopyCentroids, n

\* The labelling can be called.
LEMMA LabelingOk ==
  ASSUME NEW cfg, ConfigOK(cfg), NEW dev, NEW call, ArgsOK(call), NEW host, BuffersOK(host, call),
         LabelingOK(cfg, dev, call)
  PROVE  PhaseOk(LabelingUnrollVector(cfg, dev, call), host, call)
<1> DEFINE bytes == LocalPoints(cfg, call)
           P == Program(UseLocalStride(dev), UseLocalMemory(dev, bytes), KernelFeatures(call.F))
           cells == LocalPointCells(cfg, call)
           locals == [l_points |-> cells]
           L == OverPoints("lloyd_labeling_vp_clcp", cfg, call, P, cfg.vec, "labels", locals)
           p == call.C * call.F
           needs == [ro_centroids |-> p]
           programs == Unrolled(ByStrideAndMemory)
           below == call.F <= MaxFeatures
<1>1. /\ IsPowerOfTwo(call.F) /\ call.F \in Nat \ {0} /\ call.C \in Nat \ {0} /\ call.N \in Nat
      /\ call.F > 1 /\ below /\ cfg.vec \in Nat \ {0} /\ call.N % cfg.vec = 0
  BY ArgsFacts DEF ArgsOK, LabelingOK, UnrolledOK, VectorsOK
<1>2. Flags(P, call.F) /\ P \in programs /\ (P.lstride <=> UseLocalStride(dev))
  BY <1>1, UnrolledProgram
<1>3. DOMAIN locals = {"l_points"} /\ locals["l_points"] = cells
  OBVIOUS
<1>4. DOMAIN locals \subseteq LocalNames
  BY <1>3 DEF LocalNames
<1>5. cfg.local \in Nat \ {0} /\ NumWorkGroups(cfg) \in Nat \ {0} /\ cells \in Nat
        /\ cells = cfg.local * call.F
  BY <1>1, ConfigFacts DEF NumWorkGroups, LocalPointCells
<1> HIDE DEF P, locals, cells
<1>6. /\ L.kernel = "lloyd_labeling_vp_clcp" /\ L.C = call.C /\ L.F = call.F /\ L.vec = cfg.vec
      /\ L.local = cfg.local /\ L.locals = locals /\ L.N = call.N /\ L.groups = NumWorkGroups(cfg)
  BY <1>1, <1>2, <1>4, OverPointsLaunch DEF NumWorkGroups
<1>7. L.lstride <=> UseLocalStride(dev)
  <2>1. L.lstride <=> P.lstride
    BY <1>1, <1>2, <1>4, OverPointsLaunch
  <2>2. QED
    BY <1>2, <2>1, Zenon
<1> HIDE DEF L
<1>8. EvenGroups(L)
  <2> DEFINE y == cfg.vec * NumWorkGroups(cfg)
  <2>1. y \in Nat \ {0}
    BY <1>1, <1>5
  <2>2. SUFFICES ASSUME UseLocalStride(dev), cfg.vec # 1
                 PROVE \E k \in Nat : L.N = (L.vec * L.groups) * k
    BY <1>6, <1>7 DEF EvenGroups
  <2>3. call.N % y = 0
    BY <2>2 DEF LabelingOK
  <2> HIDE DEF y
  <2>4. PICK k \in Nat : call.N = y * k
    BY <1>1, <2>1, <2>3, Multiple
  <2>5. QED
    BY <1>6, <2>4 DEF y
<1>9. HasLocal(L, "l_points", L.local * L.F)
  BY <1>3, <1>5, <1>6 DEF HasLocal
<1>10. ASSUME NEW sz, Sized(sz), Has(sz, host), Has(sz, needs)
       PROVE  Queued(CopyCentroids(call) \o <<L>>, sz, programs, call)
  <2>1. Room(sz, "ro_centroids", p)
    BY <1>10 DEF Has
  <2>2. Room(sz, "ro_centroids", L.C * L.F)
    BY <1>6, <2>1
  <2>3. FitsOnce(L, sz)
    BY <1>6, <1>8, <1>9, <2>2 DEF FitsOnce
  <2>4. Queued(<<L>>, sz, programs, call)
    BY <1>1, <1>2, <1>4, <1>10, <2>3, PointsAdmitted DEF L
  <2>5. Queued(CopyCentroids(call), sz, programs, call)
    BY <1>10, <2>1, CopyAdmitted
  <2>6. QED
    BY <2>4, <2>5, QueuedBoth
<1>11. \A b \in DOMAIN needs : b # "labels" /\ needs[b] \in Nat
  BY <1>1
<1>12. below
  BY <1>1
<1> HIDE DEF needs, below
<1>13. PhaseOk(Phase(below, programs, needs, CopyCentroids(call) \o <<L>>), host, call)
  BY <1>10, <1>11, <1>12, PhaseIs, Zenon
<1>14. QED
  BY <1>13 DEF LabelingUnrollVector, LabelingUnrollVectorPrograms, L, P, cells, locals, needs, below

\* A phase of a fused kernel.
FusedNeeds(needs, sums, masses, p) ==
  /\ DOMAIN needs = {"tmp_new_centroids", "new_masses", "ro_centroids"}
  /\ needs["tmp_new_centroids"] = sums /\ needs["new_masses"] = masses /\ needs["ro_centroids"] = p

\* A launch that needs no more than the buffers of a fused phase.
FusedAdmitted(launch, sums, masses, cells, ps, arguments) ==
  \A sz : Sized(sz) =>
    (Room(sz, "tmp_new_centroids", sums) /\ Room(sz, "new_masses", masses)
       /\ Room(sz, "ro_centroids", cells) =>
       Queued(<<launch>>, sz, ps, arguments))

\* A fused phase with such a launch can be called.
LEMMA FusedPhaseOk ==
  ASSUME NEW cfg, ConfigOK(cfg), cfg.global > 1, NEW call, ArgsOK(call), call.F <= MaxFeatures,
         NEW host, BuffersOK(host, call),
         NEW k, IsPowerOfTwo(k), k > 1, NEW p, p = call.C * call.F, NEW n, n = k * p,
         NEW m, m = cfg.global * call.C, NEW programs, NEW L,
         NEW needs, FusedNeeds(needs, n, m, p), FusedAdmitted(L, n, m, p, programs, call)
  PROVE  PhaseOk(Phase(FusedOk(cfg, call, n, k), programs, needs,
                       CopyCentroids(call) \o <<L>> \o FusedResults(cfg, call, n)), host, call)
<1> DEFINE g == cfg.global
<1>1. /\ IsPowerOfTwo(g) /\ g > 1 /\ g \in Nat \ {0} /\ IsPowerOfTwo(call.C) /\ IsPowerOfTwo(call.F)
      /\ call.C \in Nat \ {0} /\ call.F \in Nat \ {0}
  BY ConfigFacts, ArgsFacts DEF ConfigOK, ArgsOK
<1>2. call.C * 1 = call.C /\ m = g * (call.C * 1)
  BY <1>1
<1>2a. "masses" # "new_masses" /\ {"masses", "new_masses"} \cap {"labels", "points", "l_data"} = {}
  OBVIOUS
<1> HIDE DEF g
<1>3. /\ m \in Nat /\ SumUpOk(m, g, call.C * 1, "new_masses")
      /\ \A sz, ps, c : Sized(sz) /\ Room(sz, "new_masses", m) /\ Room(sz, "masses", call.C * 1)
           => Queued(SumUp("masses", "new_masses", m, call.C, 1), sz, ps, c)
  BY <1>1, <1>2, <1>2a, OneIsPower, SumUpPowers
<1>4. call.new # "tmp_new_centroids"
        /\ {call.new, "tmp_new_centroids"} \cap {"labels", "points", "l_data"} = {}
  BY DEF BuffersOK
<1>5. n = k * (call.C * call.F)
  OBVIOUS
<1>6. /\ n \in Nat /\ SumUpOk(n, k, call.C * call.F, "tmp_new_centroids")
      /\ \A sz, ps, c :
           Sized(sz) /\ Room(sz, "tmp_new_centroids", n) /\ Room(sz, call.new, call.C * call.F)
           => Queued(SumUp(call.new, "tmp_new_centroids", n, call.C, call.F), sz, ps, c)
  BY <1>1, <1>4, <1>5, SumUpPowers
<1>7. SumUpOk(m, g, call.C, "new_masses")
  BY <1>2, <1>3, Zenon
<1>8. FusedOk(cfg, call, n, k)
  <2>1. SumUpOk(cfg.global * call.C, cfg.global, call.C, "new_masses")
    BY <1>7 DEF g
  <2>2. QED
    BY <1>6, <2>1, Zenon DEF FusedOk
<1>9. ASSUME NEW sz, Sized(sz), Has(sz, host), Has(sz, needs)
      PROVE  Queued(CopyCentroids(call) \o <<L>> \o FusedResults(cfg, call, n), sz, programs, call)
  <2>1. Room(sz, "tmp_new_centroids", n) /\ Room(sz, "new_masses", m) /\ Room(sz, "ro_centroids", p)
    BY <1>9 DEF Has, FusedNeeds
  <2>2. Room(sz, "masses", call.C) /\ Room(sz, call.new, call.C * call.F)
    BY <1>9, HostRoom
  <2>3. Queued(SumUp("masses", "new_masses", m, call.C, 1), sz, programs, call)
    BY <1>2, <1>3, <1>9, <2>1, <2>2, Zenon
  <2>4. Queued(SumUp(call.new, "tmp_new_centroids", n, call.C, call.F), sz, programs, call)
    BY <1>6, <1>9, <2>1, <2>2, Zenon
  <2>5. Queued(FusedResults(cfg, call, n), sz, programs, call)
    BY <2>3, <2>4, QueuedBoth DEF FusedResults
  <2>6. Queued(<<L>>, sz, programs, call)
    BY <1>9, <2>1, Zenon DEF FusedAdmitted
  <2>7. Queued(CopyCentroids(call), sz, programs, call)
    BY <1>9, <2>1, CopyAdmitted
  <2>8. Queued(CopyCentroids(call) \o <<L>>, sz, programs, call)
    BY <2>6, <2>7, QueuedBoth
  <2>9. QED
    BY <2>5, <2>8, QueuedBoth
<1>10. p \in Nat
  BY <1>1
<1>11. \A b \in DOMAIN needs : b # "labels" /\ needs[b] \in Nat
  BY <1>3, <1>6, <1>10 DEF FusedNeeds
<1>12. QED
  BY <1>8, <1>9, <1>11, PhaseIs, Zenon

-----------------------------------------------------------------------------
(***************************************************************************)
(* The sizes of a fused phase                                              *)
(***************************************************************************)
\* The sizes in a fused phase.
LEMMA FusedFacts ==
  ASSUME NEW cfg, ConfigOK(cfg), NEW call, ArgsOK(call), FusedConfigOK(cfg, call)
  PROVE  /\ IsPowerOfTwo(cfg.global) /\ cfg.global \in Nat \ {0} /\ cfg.global > 1
         /\ cfg.local \in Nat \ {0} /\ IsPowerOfTwo(cfg.local)
         /\ IsPowerOfTwo(call.C) /\ call.C \in Nat \ {0} /\ IsPowerOfTwo(call.F)
         /\ call.F \in Nat \ {0}
         /\ call.F > 1 /\ call.F <= MaxFeatures /\ call.N \in Nat
         /\ cfg.vec \in Nat \ {0} /\ call.N % cfg.vec = 0
BY ConfigFacts, ArgsFacts DEF ConfigOK, ArgsOK, FusedConfigOK, UnrolledOK, ItemsOK, VectorsOK

\* The fused phase with sums for every item can be called.
LEMMA FusedMergeOk ==
  ASSUME NEW cfg, ConfigOK(cfg), NEW dev, NEW call, ArgsOK(call), NEW host, BuffersOK(host, call),
         FusedConfigOK(cfg, call)
  PROVE  PhaseOk(FusedClusterMerge(cfg, dev, call), host, call)
<1> DEFINE centroids == cfg.local * call.C * call.F
           masses == cfg.local * call.C
           cells == LocalPointCells(cfg, call)
           bytes == LocalPoints(cfg, call) + centroids + masses
           P == Program(UseLocalStride(dev), UseLocalMemory(dev, bytes), KernelFeatures(call.F))
           locals == [l_points |-> cells, l_centroids |-> centroids, l_masses |-> masses]
           L == OverPoints("lloyd_fused_cluster_merge", cfg, call, P, cfg.vec, "tmp_new_centroids",
                           locals)
           g == cfg.global
           p == call.C * call.F
           n == g * call.C * call.F
           m == g * call.C
           needs == [tmp_new_centroids |-> n, new_masses |-> m, ro_centroids |-> p]
           programs == Unrolled(ByStrideAndMemory)
<1>1. /\ IsPowerOfTwo(g) /\ g \in Nat \ {0} /\ g > 1 /\ cfg.local \in Nat \ {0}
      /\ call.C \in Nat \ {0} /\ IsPowerOfTwo(call.F) /\ call.F \in Nat \ {0}
      /\ call.F > 1 /\ call.F <= MaxFeatures /\ cfg.vec \in Nat \ {0} /\ call.N % cfg.vec = 0
  BY FusedFacts
<1>2. Flags(P, call.F) /\ P \in programs
  BY <1>1, UnrolledProgram
<1>3. /\ DOMAIN locals = {"l_points", "l_centroids", "l_masses"} /\ locals["l_points"] = cells
      /\ locals["l_centroids"] = centroids /\ locals["l_masses"] = masses
  OBVIOUS
<1>4. DOMAIN locals \subseteq LocalNames
  BY <1>3 DEF LocalNames
<1>5. /\ cells \in Nat /\ cells = cfg.local * call.F /\ masses \in Nat
      /\ masses = cfg.local * call.C
      /\ centroids \in Nat /\ centroids = cfg.local * p
  BY <1>1, TimesAssoc DEF LocalPointCells
<1>6. n = g * p /\ n = p * g /\ m = call.C * g /\ p \in Nat /\ m \in Nat
  BY <1>1, TimesAssoc
<1> HIDE DEF P, locals, cells, centroids, masses, g
<1>7. /\ L.kernel = "lloyd_fused_cluster_merge" /\ L.out = "tmp_new_centroids" /\ L.C = call.C
      /\ L.F = call.F /\ L.local = cfg.local /\ L.locals = locals /\ L.groups * L.local = g
  BY <1>1, <1>2, <1>4, OverPointsLaunch DEF g
<1>8. FusedNeeds(needs, n, m, p)
  BY DEF FusedNeeds
<1> HIDE DEF L, n, m, needs
<1>9. L.C * L.F = p
  BY <1>7
<1> HIDE DEF p
<1>10. /\ HasLocal(L, "l_centroids", L.local * (L.C * L.F))
       /\ HasLocal(L, "l_masses", L.local * L.C)
       /\ HasLocal(L, "l_points", L.local * L.F)
  BY <1>3, <1>5, <1>7, <1>9 DEF HasLocal
<1> HIDE DEF programs
<1>11. FusedAdmitted(L, n, m, p, programs, call)
  <2>0. SUFFICES ASSUME NEW sz, Sized(sz), Room(sz, "tmp_new_centroids", n),
                        Room(sz, "new_masses", m),
                        Room(sz, "ro_centroids", p)
                 PROVE  Queued(<<L>>, sz, programs, call)
    BY Zenon DEF FusedAdmitted
  <2>1. /\ Room(sz, "ro_centroids", L.C * L.F) /\ Room(sz, "new_masses", L.C * (L.groups * L.local))
        /\ Room(sz, "tmp_new_centroids", (L.C * L.F) * (L.groups * L.local))
    BY <1>6, <1>7, <1>9, <2>0
  <2>2. FitsOnce(L, sz)
    BY <1>7, <1>10, <2>1 DEF FitsOnce
  <2>3. QED
    BY <1>1, <1>2, <1>4, <2>0, <2>2, PointsAdmitted DEF L
<1> DEFINE ls == CopyCentroids(call) \o <<L>> \o FusedResults(cfg, call, n)
<1>12. PhaseOk(Phase(FusedOk(cfg, call, n, g), programs, needs, ls), host, call)
  <2>1. m = cfg.global * call.C /\ p = call.C * call.F
    BY DEF m, g, p
  <2>2. cfg.global > 1 /\ call.F <= MaxFeatures /\ IsPowerOfTwo(g) /\ g > 1 /\ n = g * p
    BY <1>1, <1>6 DEF g
  <2>3. QED
    BY <1>8, <1>11, <2>1, <2>2, FusedPhaseOk
<1> HIDE DEF ls
<1>13. QED
  BY <1>12 DEF FusedClusterMerge, FusedClusterMergePrograms, L, P, locals, cells, centroids, masses,
              programs, needs, n, m, p, g, ls

\* The tiles: x items of a block have t features each, and y blocks are in a group.
TiledBy(cfg, call, t, x, y) ==
  /\ t \in Nat \ {0} /\ x \in Nat \ {0} /\ y \in Nat \ {0} /\ IsPowerOfTwo(y)
  /\ call.F = x * t /\ cfg.local = x * y

\* The features of a fused phase make whole tiles.
LEMMA TiledFeatures ==
  ASSUME NEW cfg, ConfigOK(cfg), NEW call, ArgsOK(call), FusedConfigOK(cfg, call)
  PROVE  \E x, y : TiledBy(cfg, call, ThreadFeatures(cfg, call), x, y)
<1> DEFINE t == ThreadFeatures(cfg, call)
<1>1. /\ IsPowerOfTwo(call.F) /\ call.F \in Nat \ {0} /\ IsPowerOfTwo(cfg.local)
      /\ cfg.local \in Nat \ {0}
  BY FusedFacts
<1>2. CASE cfg.local >= call.F
  <2>1. t = 1
    BY <1>2 DEF ThreadFeatures
  <2> DEFINE y == cfg.local \div call.F
  <2>2. IsPowerOfTwo(y) /\ y \in Nat \ {0} /\ cfg.local = call.F * y
    BY <1>1, <1>2, PowerQuotient
  <2> HIDE DEF t, y
  <2>3. TiledBy(cfg, call, t, call.F, y)
    BY <1>1, <2>1, <2>2 DEF TiledBy
  <2>4. QED
    BY <2>3 DEF t
<1>3. CASE ~(cfg.local >= call.F)
  <2>1. t = call.F \div cfg.local
    BY <1>3 DEF ThreadFeatures
  <2>1a. cfg.local <= call.F
    BY <1>1, <1>3
  <2>2. call.F \div cfg.local \in Nat \ {0} /\ call.F = cfg.local * (call.F \div cfg.local)
    BY <1>1, <2>1a, PowerQuotient
  <2>3. t \in Nat \ {0} /\ call.F = cfg.local * t
    BY <2>1, <2>2
  <2> HIDE DEF t
  <2>4. TiledBy(cfg, call, t, cfg.local, 1)
    BY <1>1, <2>3, OneIsPower DEF TiledBy
  <2>5. QED
    BY <2>4 DEF t
<1>4. QED
  BY <1>2, <1>3

\* The number of tiles of all groups.
LEMMA TileCount ==
  ASSUME NEW cfg, ConfigOK(cfg), NEW call, NEW t, NEW x, NEW y, TiledBy(cfg, call, t, x, y)
  PROVE  /\ (cfg.global * t) \div call.F = NumWorkGroups(cfg) * y
         /\ IsPowerOfTwo(NumWorkGroups(cfg) * y) /\ NumWorkGroups(cfg) * y \in Nat \ {0}
<1> DEFINE g == NumWorkGroups(cfg)
<1>1. g \in Nat \ {0} /\ IsPowerOfTwo(g) /\ cfg.global = g * cfg.local
  BY ConfigFacts DEF NumWorkGroups
<1>2. /\ t \in Nat \ {0} /\ x \in Nat \ {0} /\ y \in Nat \ {0} /\ IsPowerOfTwo(y)
      /\ call.F = x * t /\ cfg.local = x * y
  BY DEF TiledBy
<1> HIDE DEF g
<1>3. cfg.global * t = (g * y) * (x * t)
  <2>1. (g * (x * y)) * t = (g * y) * (x * t)
    BY <1>1, <1>2
  <2>2. QED
    BY <1>1, <1>2, <2>1
<1>4. (cfg.global * t) \div call.F = g * y
  <2> DEFINE z == cfg.global * t
             f == x * t
             q == g * y
  <2>1. z = q * f /\ f \in Nat \ {0} /\ q \in Nat /\ call.F = f
    BY <1>1, <1>2, <1>3
  <2> HIDE DEF z, f, q
  <2>2. z \div f = q
    BY <2>1, ProductDiv
  <2>3. QED
    BY <2>1, <2>2 DEF z, q
<1>5. IsPowerOfTwo(g * y)
  BY <1>1, <1>2, PowerProduct
<1>6. QED
  BY <1>4, <1>5, PowerOfTwoTyped DEF g

-----------------------------------------------------------------------------
(***************************************************************************)
(* The fused phase                                                         *)
(***************************************************************************)
\* The launch of lloyd_fused_feature_sum,
FusedSumBase(cfg, call, program, locals) ==
  OverPoints("lloyd_fused_feature_sum", cfg, call, program, cfg.vec, "tmp_new_centroids", locals)
FusedSumLaunch(cfg, call, program, locals) ==
  [FusedSumBase(cfg, call, program, locals) EXCEPT !.tf = ThreadFeatures(cfg, call)]

\* The launch differs from one over points in the number of features of an item.
LEMMA FusedSumRecord ==
  ASSUME NEW cfg, NEW call, NEW program, NEW locals,
         NEW L, L = FusedSumLaunch(cfg, call, program, locals)
  PROVE  L = [kernel |-> "lloyd_fused_feature_sum", groups |-> cfg.global \div cfg.local,
              local |-> cfg.local, cols |-> 1, lcols |-> 1, divides |-> cfg.global % cfg.local = 0,
              N |-> call.N, b |-> call.b, C |-> call.C, dims |-> call.F, vec |-> cfg.vec,
              F |-> IF program.features = AnyFeatures THEN call.F ELSE program.features,
              lstride |-> program.lstride, lmem |-> program.lmem, program |-> program,
              tf |-> ThreadFeatures(cfg, call), out |-> "tmp_new_centroids", locals |-> locals]
BY DEF FusedSumLaunch, FusedSumBase, OverPoints

\* and its fields.
FusedSumIs(L, cfg, call, program, locals) ==
  /\ L.kernel = "lloyd_fused_feature_sum" /\ L.out = "tmp_new_centroids"
  /\ L.groups = NumWorkGroups(cfg) /\ L.local = cfg.local /\ L.cols = 1 /\ L.lcols = 1
  /\ L.N = call.N /\ L.b = call.b /\ L.C = call.C /\ L.dims = call.F /\ L.F = call.F
  /\ L.vec = cfg.vec /\ L.program = program /\ L.tf = ThreadFeatures(cfg, call) /\ L.locals = locals

\* It has them.
LEMMA FusedSumFields ==
  ASSUME NEW cfg, NEW call, NEW program, Flags(program, call.F), NEW locals,
         NEW L, L = FusedSumLaunch(cfg, call, program, locals)
  PROVE  FusedSumIs(L, cfg, call, program, locals)
<1>1. program.features \in {AnyFeatures, call.F}
  BY DEF Flags
<1>2. QED
  BY <1>1, FusedSumRecord DEF NumWorkGroups, FusedSumIs

\* What the program decides about it.
LEMMA FusedSumFlags ==
  ASSUME NEW cfg, ConfigOK(cfg), NEW call, NEW program, Flags(program, call.F), NEW locals,
         NEW L, L = FusedSumLaunch(cfg, call, program, locals)
  PROVE  L.lstride \in BOOLEAN /\ L.lmem \in BOOLEAN /\ L.divides /\ (L.lstride <=> program.lstride)
<1>1. L.lstride = program.lstride
  BY FusedSumRecord
<1>2. L.lmem = program.lmem
  BY FusedSumRecord
<1> DEFINE d == cfg.global % cfg.local = 0
<1>3. L.divides = d
  BY FusedSumRecord
<1>4. d
  BY ConfigFacts
<1> HIDE DEF d
<1>5. QED
  BY <1>1, <1>2, <1>3, <1>4, Zenon DEF Flags

\* Blocks of LOCAL_STRIDE in which all items of a group have their vectors.
LEMMA WholeTurns ==
  ASSUME NEW L, Linear(L), CeilDiv(L.N, L.groups) % (L.vec * L.local) = 0
  PROVE  \E k \in Nat : BlockSize(L) = (L.vec * L.local) * k
<1> DEFINE b == CeilDiv(L.N, L.groups)
           v == L.vec
           y == L.vec * L.local
<1>1. /\ v \in Nat \ {0} /\ L.local \in Nat \ {0} /\ L.groups \in Nat \ {0} /\ L.N \in Nat
      /\ y \in Nat \ {0}
  BY DEF Linear
<1>2. b \in Nat
  <2> DEFINE z == L.N + L.groups - 1
             g == L.groups
  <2>1. g - 1 \in Nat
    BY <1>1
  <2>2. z \in Nat
    BY <1>1, <2>1
  <2>3. b = z \div g
    BY DEF CeilDiv
  <2> HIDE DEF z, b
  <2>4. z \div g \in Nat
    BY <1>1, <2>2, DivNat
  <2>5. QED
    BY <2>3, <2>4
<1>3. BlockSize(L) = b - (b % v)
  BY LinearGeometry DEF BlockSize
<1>4. b % y = 0
  OBVIOUS
<1>4a. y = v * L.local
  OBVIOUS
<1> HIDE DEF b, y, v
<1>5. PICK k \in Nat : b = y * k
  BY <1>1, <1>2, <1>4, Multiple
<1>6. b % v = 0
  <2> DEFINE q == L.local * k
  <2>1. q \in Nat
    BY <1>1
  <2>2. b = v * q
    BY <1>1, <1>4a, <1>5, TimesAssoc
  <2> HIDE DEF q
  <2>3. QED
    BY <1>1, <2>1, <2>2, ProductDiv
<1>7. BlockSize(L) = b
  BY <1>2, <1>3, <1>6
<1>8. QED
  BY <1>5, <1>7 DEF y

\* It is a launch over points,
LEMMA FusedSumPoints ==
  ASSUME NEW cfg, ConfigOK(cfg), NEW call, ArgsOK(call), FusedConfigOK(cfg, call),
         NEW program, Flags(program, call.F), NEW locals, DOMAIN locals \subseteq LocalNames,
         NEW L, L = FusedSumLaunch(cfg, call, program, locals)
  PROVE  PointsLaunch(L) /\ Linear(L) /\ L.divides
<1>1. FusedSumIs(L, cfg, call, program, locals)
  BY FusedSumFields
<1>2. /\ L.groups = NumWorkGroups(cfg) /\ L.local = cfg.local /\ L.cols = 1 /\ L.lcols = 1
      /\ L.N = call.N /\ L.C = call.C /\ L.dims = call.F /\ L.F = call.F
      /\ L.vec = cfg.vec /\ L.locals = locals
  BY <1>1 DEF FusedSumIs
<1>3. L.groups \in Nat \ {0} /\ cfg.local \in Nat \ {0}
  <2>1. NumWorkGroups(cfg) \in Nat \ {0} /\ cfg.local \in Nat \ {0}
    BY ConfigFacts DEF NumWorkGroups
  <2>2. QED
    BY <1>2, <2>1
<1>4. /\ call.C \in Nat \ {0} /\ call.F \in Nat \ {0} /\ call.N \in Nat
      /\ cfg.vec \in Nat \ {0} /\ call.N % cfg.vec = 0
  BY FusedFacts
<1>5. L.lstride \in BOOLEAN /\ L.lmem \in BOOLEAN /\ L.divides
  BY FusedSumFlags
<1>6. Linear(L)
  BY <1>2, <1>3, <1>4 DEF Linear
<1>7. WholeVectors(L)
  <2>1. \E k \in Nat : call.N = cfg.vec * k
    BY <1>4, Multiple
  <2>2. QED
    BY <1>2, <2>1 DEF WholeVectors
<1>8. DOMAIN L.locals \cap {"labels", "points", "masses", "ro_centroids", "tmp_masses",
                            "tmp_centroids", "tmp_new_centroids", "new_masses"} = {}
  BY <1>2 DEF LocalNames
<1>9. Striped(L)
  BY <1>6, LinearStriped
<1>10. PointsLaunch(L)
  BY <1>2, <1>3, <1>4, <1>5, <1>7, <1>8, <1>9 DEF PointsLaunch
<1>11. QED
  BY <1>5, <1>6, <1>10

\* The tiles of a launch of the fused feature sum.
LEMMA FusedSumTiles ==
  ASSUME NEW cfg, NEW call, NEW t, NEW x, NEW y, TiledBy(cfg, call, t, x, y),
         NEW L, L.F = call.F, L.tf = t, L.local = cfg.local
  PROVE  /\ TileBlock(L) = x /\ TileBlocks(L) = y
         /\ L.F = TileBlock(L) * L.tf /\ L.local = TileBlock(L) * TileBlocks(L)
<1>1. /\ t \in Nat \ {0} /\ x \in Nat \ {0} /\ y \in Nat \ {0}
      /\ L.F = x * t /\ L.local = x * y
  BY DEF TiledBy
<1>2. TileBlock(L) = x
  BY <1>1, ProductDiv DEF TileBlock
<1>3. TileBlocks(L) = y
  BY <1>1, <1>2, ProductDiv DEF TileBlocks
<1>4. QED
  BY <1>1, <1>2, <1>3

\* in which a group makes whole tiles,
LEMMA FusedSumShape ==
  ASSUME NEW cfg, ConfigOK(cfg), NEW dev, NEW call, ArgsOK(call), FusedSumOK(cfg, dev, call),
         NEW program, Flags(program, call.F), program.lstride <=> UseLocalStride(dev),
         NEW locals, DOMAIN locals \subseteq LocalNames,
         NEW L, L = FusedSumLaunch(cfg, call, program, locals),
         NEW x, NEW y, TiledBy(cfg, call, ThreadFeatures(cfg, call), x, y)
  PROVE  FusedShape(L) /\ TileBlocks(L) = y
<1>1. FusedSumIs(L, cfg, call, program, locals)
  BY FusedSumFields
<1>2. /\ L.groups = NumWorkGroups(cfg) /\ L.local = cfg.local /\ L.N = call.N /\ L.F = call.F
      /\ L.vec = cfg.vec /\ L.tf = ThreadFeatures(cfg, call)
  BY <1>1 DEF FusedSumIs
<1>3. Linear(L)
  BY FusedSumPoints DEF FusedSumOK
<1>4. /\ TileBlock(L) = x /\ TileBlocks(L) = y
      /\ L.F = TileBlock(L) * L.tf /\ L.local = TileBlock(L) * TileBlocks(L)
  BY <1>2, FusedSumTiles
<1>5. x \in Nat \ {0} /\ y \in Nat \ {0} /\ L.tf \in Nat \ {0}
  BY <1>2 DEF TiledBy
<1>6. L.lstride <=> program.lstride
  BY FusedSumFlags
<1>7. ASSUME L.lstride
      PROVE  \E k \in Nat : BlockSize(L) = (L.vec * L.local) * k
  <2>1. UseLocalStride(dev)
    BY <1>6, <1>7
  <2>2. CeilDiv(L.N, L.groups) % (L.vec * L.local) = 0
    BY <1>2, <2>1 DEF FusedSumOK
  <2>3. QED
    BY <1>3, <2>2, WholeTurns
<1>8. QED
  BY <1>3, <1>4, <1>5, <1>7 DEF FusedShape

\* The room that a launch of the fused feature sum finds.
LEMMA FusedSumFits ==
  ASSUME NEW cfg, ConfigOK(cfg), NEW dev, NEW call, ArgsOK(call), FusedSumOK(cfg, dev, call),
         NEW program, Flags(program, call.F), program.lstride <=> UseLocalStride(dev),
         NEW L, L = FusedSumLaunch(cfg, call, program, FusedFeatureSumLocals(cfg, call)),
         NEW x, NEW y, TiledBy(cfg, call, ThreadFeatures(cfg, call), x, y),
         NEW sz, Room(sz, "tmp_new_centroids", (NumWorkGroups(cfg) * y) * (call.C * call.F)),
         Room(sz, "new_masses", cfg.global * call.C), Room(sz, "ro_centroids", call.C * call.F)
  PROVE  FitsOnce(L, sz)
<1> DEFINE locals == FusedFeatureSumLocals(cfg, call)
           t == ThreadFeatures(cfg, call)
           g == NumWorkGroups(cfg)
<1>1. /\ DOMAIN locals = {"l_points", "l_centroids", "l_masses", "l_labels"}
      /\ locals["l_points"] = cfg.local * call.F /\ locals["l_centroids"] = cfg.local * t * call.C
      /\ locals["l_masses"] = cfg.local * call.C /\ locals["l_labels"] = cfg.local
  BY DEF FusedFeatureSumLocals, LocalPointCells
<1>2. DOMAIN locals \subseteq LocalNames
  BY <1>1 DEF LocalNames
<1> HIDE DEF locals
<1>3. FusedSumIs(L, cfg, call, program, locals)
  BY FusedSumFields DEF locals
<1>4. /\ L.kernel = "lloyd_fused_feature_sum" /\ L.out = "tmp_new_centroids" /\ L.groups = g
      /\ L.local = cfg.local /\ L.C = call.C /\ L.F = call.F /\ L.locals = locals
  BY <1>3 DEF FusedSumIs
<1>5. FusedShape(L) /\ TileBlocks(L) = y
  BY <1>2, FusedSumShape DEF locals
<1>6. /\ g \in Nat \ {0} /\ cfg.local \in Nat \ {0} /\ g * cfg.local = cfg.global
  BY ConfigFacts DEF NumWorkGroups
<1>7. call.C \in Nat \ {0} /\ call.F \in Nat \ {0}
  BY ArgsFacts
<1>8. /\ t \in Nat \ {0} /\ x \in Nat \ {0} /\ y \in Nat \ {0} /\ call.F = x * t
      /\ cfg.local = x * y
  BY DEF TiledBy
<1> HIDE DEF t, g
<1>9. Room(sz, "ro_centroids", L.C * L.F) /\ Room(sz, "new_masses", L.C * (L.groups * L.local))
  <2>1. cfg.global * call.C = call.C * (g * cfg.local)
    <3>1. cfg.global \in Nat
      BY <1>6
    <3>2. QED
      BY <1>6, <1>7, <3>1, TimesAssoc
  <2>2. QED
    BY <1>4, <2>1
<1>10. Room(sz, "tmp_new_centroids", (L.C * L.F) * (L.groups * TileBlocks(L)))
  <2>1. call.C * call.F \in Nat /\ g * y \in Nat
    BY <1>6, <1>7, <1>8
  <2>2. (g * y) * (call.C * call.F) = (call.C * call.F) * (g * y)
    BY <2>1, TimesAssoc
  <2>3. Room(sz, "tmp_new_centroids", (g * y) * (call.C * call.F))
    BY DEF g
  <2>4. QED
    BY <1>4, <1>5, <2>2, <2>3
<1>11. HasLocal(L, "l_centroids", TileBlocks(L) * L.F * L.C)
  <2> DEFINE m == y * call.F * call.C
  <2>1. m \in Nat
    BY <1>7, <1>8
  <2>2. cfg.local * t = y * call.F
    BY <1>8
  <2>3. locals["l_centroids"] = m
    BY <1>1, <2>2
  <2>4. TileBlocks(L) * L.F * L.C = m
    BY <1>4, <1>5
  <2> HIDE DEF m
  <2>5. QED
    BY <1>1, <1>4, <2>1, <2>3, <2>4 DEF HasLocal
<1>12. /\ HasLocal(L, "l_masses", L.local * L.C) /\ HasLocal(L, "l_points", L.local * L.F)
       /\ HasLocal(L, "l_labels", L.local * 1)
  <2>1. L.local * L.C \in Nat /\ L.local * L.F \in Nat /\ L.local * 1 \in Nat
          /\ L.local * 1 = cfg.local
    BY <1>4, <1>6, <1>7
  <2>2. QED
    BY <1>1, <1>4, <2>1 DEF HasLocal
<1> HIDE DEF locals
<1>13. QED
  BY <1>4, <1>5, <1>9, <1>10, <1>11, <1>12 DEF FitsOnce

\* and that its phase may enqueue.
LEMMA FusedSumAdmitted ==
  ASSUME NEW cfg, ConfigOK(cfg), NEW call, ArgsOK(call), FusedConfigOK(cfg, call),
         NEW program, Flags(program, call.F), NEW locals, DOMAIN locals \subseteq LocalNames,
         NEW L, L = FusedSumLaunch(cfg, call, program, locals),
         NEW sz, Sized(sz), FitsOnce(L, sz), NEW programs, program \in programs
  PROVE  Queued(<<L>>, sz, programs, call)
<1>1. FusedSumIs(L, cfg, call, program, locals)
  BY FusedSumFields
<1>2. /\ L.kernel = "lloyd_fused_feature_sum" /\ L.C = call.C /\ L.locals = locals
      /\ L.program = program
  BY <1>1 DEF FusedSumIs
<1>3. PointsLaunch(L) /\ Linear(L) /\ L.divides
  BY FusedSumPoints
<1>4. DOMAIN L.locals \cap {"labels", "points"} = {}
  BY <1>2 DEF LocalNames
<1> HIDE DEF FusedSumLaunch
<1>5. Fits(L, sz, call.C)
  BY <1>2, <1>3 DEF Fits
<1>6. FitsIn(L, sz, call.C)
  BY <1>4, <1>5, FitsNow
<1>7. ~Counts(L)
  BY <1>2 DEF Counts
<1>8. Admits(L, sz, programs, call)
  BY <1>2, <1>3, <1>6, <1>7, Zenon DEF Admits
<1>9. QED
  BY <1>8, QueuedOne

\* The fused phase with tiles of features can be called.
LEMMA FusedSumOk ==
  ASSUME NEW cfg, ConfigOK(cfg), NEW dev, NEW call, ArgsOK(call), NEW host, BuffersOK(host, call),
         FusedSumOK(cfg, dev, call)
  PROVE  PhaseOk(FusedFeatureSum(cfg, dev, call), host, call)
<1> DEFINE tf == ThreadFeatures(cfg, call)
           locals == FusedFeatureSumLocals(cfg, call)
           bytes == LocalPoints(cfg, call) + locals.l_centroids + locals.l_masses
           P == Program(UseLocalStride(dev), UseLocalMemory(dev, bytes), KernelFeatures(call.F))
           L == FusedSumLaunch(cfg, call, P, locals)
           k == (cfg.global * tf) \div call.F
           p == call.C * call.F
           n == cfg.global * call.C * tf
           m == cfg.global * call.C
           needs == [tmp_new_centroids |-> n, new_masses |-> m, ro_centroids |-> p]
           programs == Unrolled(ByStrideAndMemory)
           ls == CopyCentroids(call) \o <<L>> \o FusedResults(cfg, call, n)
<1>0. FusedConfigOK(cfg, call) /\ k > 1
  BY DEF FusedSumOK
<1>1. /\ cfg.global \in Nat \ {0} /\ cfg.global > 1 /\ cfg.local \in Nat \ {0}
      /\ call.C \in Nat \ {0} /\ IsPowerOfTwo(call.F) /\ call.F \in Nat \ {0}
      /\ call.F > 1 /\ call.F <= MaxFeatures
  BY <1>0, FusedFacts
<1>2. Flags(P, call.F) /\ P \in programs /\ (P.lstride <=> UseLocalStride(dev))
  BY <1>1, UnrolledProgram
<1>3. DOMAIN locals \subseteq LocalNames
  <2>1. DOMAIN locals = {"l_points", "l_centroids", "l_masses", "l_labels"}
    BY DEF FusedFeatureSumLocals
  <2>2. QED
    BY <2>1 DEF LocalNames
<1>4. PICK x, y : TiledBy(cfg, call, tf, x, y)
  BY <1>0, TiledFeatures
<1> HIDE DEF P, locals, programs
<1>5. /\ k = NumWorkGroups(cfg) * y /\ IsPowerOfTwo(k) /\ k \in Nat \ {0}
  BY <1>4, TileCount
<1>6. n = k * p
  <2> DEFINE g == NumWorkGroups(cfg)
  <2>1. g \in Nat /\ cfg.global = g * cfg.local
    BY ConfigFacts DEF NumWorkGroups
  <2>2. tf \in Nat /\ x \in Nat /\ y \in Nat /\ call.F = x * tf /\ cfg.local = x * y
    BY <1>4 DEF TiledBy
  <2>3. k = g * y
    BY <1>5
  <2> HIDE DEF g, tf, k
  <2>4. (g * (x * y)) * call.C * tf = (g * y) * (call.C * (x * tf))
    <3>1. call.C \in Nat
      BY <1>1
    <3>2. (g * (x * y)) * call.C * tf = (g * y) * (call.C * (x * tf))
      BY <2>1, <2>2, <3>1
    <3>3. QED
      BY <3>2
  <2>5. QED
    BY <2>1, <2>2, <2>3, <2>4
<1>7. FusedNeeds(needs, n, m, p)
  BY DEF FusedNeeds
<1> HIDE DEF needs, k, L, tf
<1>8. FusedAdmitted(L, n, m, p, programs, call)
  <2> HIDE DEF n, m, p
  <2>1. SUFFICES ASSUME NEW sz, Sized(sz), Room(sz, "tmp_new_centroids", n),
                        Room(sz, "new_masses", m),
                        Room(sz, "ro_centroids", p)
                 PROVE  Queued(<<L>>, sz, programs, call)
    BY Zenon DEF FusedAdmitted
  <2>2. Room(sz, "tmp_new_centroids", (NumWorkGroups(cfg) * y) * (call.C * call.F))
    BY <1>5, <1>6, <2>1 DEF p
  <2>3. Room(sz, "new_masses", cfg.global * call.C) /\ Room(sz, "ro_centroids", call.C * call.F)
    BY <2>1 DEF m, p
  <2>4. FitsOnce(L, sz)
    BY <1>2, <1>4, <2>2, <2>3, FusedSumFits DEF L, locals, tf
  <2>5. QED
    BY <1>0, <1>2, <1>3, <2>1, <2>4, FusedSumAdmitted DEF L
<1>9. PhaseOk(Phase(FusedOk(cfg, call, n, k), programs, needs, ls), host, call)
  <2> HIDE DEF n, ls
  <2>1. m = cfg.global * call.C /\ p = call.C * call.F
    OBVIOUS
  <2> HIDE DEF m, p
  <2>2. QED
    BY <1>0, <1>1, <1>5, <1>6, <1>7, <1>8, <2>1, FusedPhaseOk DEF ls
<1> HIDE DEF ls, n, m, p
<1>10. QED
  BY <1>9 DEF FusedFeatureSum, FusedFeatureSumPrograms, FusedSumLaunch, FusedSumBase, L, P,
     locals, tf,
              k, programs, needs, n, m, p, ls

\* Blocks of r rows: none begins behind the last of n rows.
LEMMA BlocksWithin ==
  ASSUME NEW n \in Nat \ {0}, NEW r \in Nat \ {0}
  PROVE  /\ CeilDiv(n, r) \in Nat \ {0}
         /\ \A b \in 0 .. CeilDiv(n, r) - 1 : r * b \in Nat /\ r * b < n
<1> DEFINE z == n + r - 1
           q == z \div r
<1>1. z = n + (r - 1) /\ r - 1 \in Nat
  OBVIOUS
<1>2. z \in Nat /\ z >= r
  BY <1>1
<1> HIDE DEF z
<1>3. q \in Nat /\ z % r \in 0 .. r - 1 /\ z = r * q + (z % r)
  <2>1. q \in Nat
    BY <1>2, DivNat
  <2>2. z % r \in 0 .. r - 1 /\ z = r * q + (z % r)
    BY <1>2, DivMod
  <2>3. QED
    BY <2>1, <2>2
<1>4. CeilDiv(n, r) = q
  BY DEF CeilDiv, z
<1> HIDE DEF q
<1>5. q # 0
  <2>1. SUFFICES ASSUME q = 0 PROVE FALSE
    OBVIOUS
  <2>2. z = z % r
    BY <1>3, <2>1
  <2>3. QED
    BY <1>2, <1>3, <2>2
<1>6. ASSUME NEW b \in 0 .. q - 1
      PROVE  r * b \in Nat /\ r * b < n
  <2>1. r * b <= r * (q - 1)
    BY <1>3, TimesMonotone
  <2>2. r * (q - 1) = r * q - r
    BY <1>3
  <2> DEFINE x == r * q
             y == r * b
  <2>3. x \in Nat /\ y \in Nat
    BY <1>3
  <2>4. y <= x - r
    BY <2>1, <2>2
  <2>5. x <= z /\ z = n + (r - 1)
    BY <1>1, <1>3, <2>3
  <2> HIDE DEF x, y
  <2>6. y < n
    BY <2>3, <2>4, <2>5
  <2>7. QED
    BY <2>3, <2>6 DEF y
<1>7. QED
  BY <1>3, <1>4, <1>5, <1>6

\* The sizes of a job.
LEMMA DataFacts ==
  ASSUME NEW j, DataOK(j)
  PROVE  /\ NumPoints(j) \in Nat \ {0} /\ BlockRows(j) \in Nat \ {0}
         /\ NumFeatures(j) \in Nat \ {0} /\ IsPowerOfTwo(NumFeatures(j))
         /\ NumClusters(j) \in Nat \ {0} /\ IsPowerOfTwo(NumClusters(j))
         /\ NumBlocks(j) \in Nat \ {0}
         /\ \A b \in 0 .. NumBlocks(j) - 1 :
              BlockRows(j) * b \in Nat /\ BlockRows(j) * b < NumPoints(j)
<1>1. /\ NumPoints(j) \in Nat \ {0} /\ BlockRows(j) \in Nat \ {0}
      /\ IsPowerOfTwo(NumFeatures(j)) /\ IsPowerOfTwo(NumClusters(j))
  BY DEF DataOK
<1>2. NumFeatures(j) \in Nat \ {0} /\ NumClusters(j) \in Nat \ {0}
  BY <1>1, PowerOfTwoTyped
<1>3. QED
  BY <1>1, <1>2, BlocksWithin DEF NumBlocks

\* The arguments that a client passes for block b,
LEMMA ArgumentsFields ==
  ASSUME NEW j, NEW b, NEW call, call = Arguments(j, b)
  PROVE  /\ call.N = Min2(BlockRows(j), NumPoints(j) - b * BlockRows(j)) /\ call.b = b
         /\ call.F = NumFeatures(j) /\ call.C = NumClusters(j)
         /\ call.old = Old(j) /\ call.new = New(j)
BY DEF Arguments

\* which a block always has.
LEMMA ArgumentsOK ==
  ASSUME NEW j, DataOK(j), NEW b \in 0 .. NumBlocks(j) - 1
  PROVE  ArgsOK(Arguments(j, b))
<1> DEFINE n == NumPoints(j)
           r == BlockRows(j)
           call == Arguments(j, b)
<1>1. /\ call.N = Min2(r, n - b * r) /\ call.F = NumFeatures(j) /\ call.C = NumClusters(j)
  BY ArgumentsFields
<1>2. /\ n \in Nat \ {0} /\ r \in Nat \ {0} /\ r * b \in Nat /\ r * b < n /\ NumBlocks(j) \in Nat
      /\ IsPowerOfTwo(NumFeatures(j)) /\ IsPowerOfTwo(NumClusters(j))
  BY DataFacts
<1> HIDE DEF n, r, call
<1>3. b * r = r * b
  BY <1>2
<1>4. n - b * r \in Nat
  <2> DEFINE x == r * b
  <2>1. x \in Nat /\ x < n /\ b * r = x
    BY <1>2, <1>3
  <2> HIDE DEF x
  <2>2. QED
    BY <1>2, <2>1
<1>5. Min2(r, n - b * r) \in Nat
  <2> DEFINE y == n - b * r
  <2>1. y \in Nat
    BY <1>4
  <2> HIDE DEF y
  <2>2. Min2(r, y) \in Nat
    BY <1>2, <2>1 DEF Min2
  <2>3. QED
    BY <2>2 DEF y
<1>6. ArgsOK(call)
  BY <1>1, <1>2, <1>5 DEF ArgsOK
<1>7. QED
  BY <1>6 DEF call

\* The buffers of the client.
LEMMA ClientBuffers ==
  ASSUME NEW j, DataOK(j), j.client # "reduce_vector_test", NEW b
  PROVE  Sized(ClientSizes(j)) /\ BuffersOK(ClientSizes(j), Arguments(j, b))
<1> DEFINE host == ClientSizes(j)
           call == Arguments(j, b)
           p == NumClusters(j) * NumFeatures(j)
<1>1. /\ call.F = NumFeatures(j) /\ call.C = NumClusters(j) /\ call.old = Old(j)
      /\ call.new = New(j)
  BY ArgumentsFields
<1>2. NumClusters(j) \in Nat /\ p \in Nat
  BY DataFacts
<1>3. {Old(j), New(j)} \subseteq {"centroids", "old_centroids", "new_centroids"}
  BY DEF Old, New
<1> DEFINE c == NumClusters(j)
<1> HIDE DEF c, p
<1>4. host = [x \in {Old(j), New(j), "masses"} |-> IF x = "masses" THEN c ELSE p]
  BY DEF ClientSizes, c, p
<1> HIDE DEF host
<1>5. DOMAIN host = {Old(j), New(j), "masses"} /\ host["masses"] = c
      /\ host[Old(j)] = p /\ host[New(j)] = p
  BY <1>3, <1>4
<1>6. c \in Nat
  BY <1>2 DEF c
<1>7. Sized(host)
  BY <1>2, <1>5, <1>6 DEF Sized
<1>8. /\ Room(host, "masses", c) /\ Room(host, Old(j), p) /\ Room(host, New(j), p)
  BY <1>2, <1>5, <1>6 DEF Room
<1>9. BuffersOK(host, call)
  BY <1>1, <1>3, <1>7, <1>8 DEF BuffersOK, c, p
<1>10. QED
  BY <1>7, <1>9 DEF host, call

\* A matrix of n rows and f columns, columns first.
Columns(m, n, f) == [i \in 0 .. n * f - 1 |-> m[i % n][i \div n]]

\* A matrix column by column.
LEMMA ColumnsTyped ==
  ASSUME NEW n \in Nat \ {0}, NEW f \in Nat \ {0}, NEW m \in [0 .. n - 1 -> [0 .. f - 1 -> Int]]
  PROVE  Columns(m, n, f) \in [0 .. n * f - 1 -> Int]
<1>1. ASSUME NEW i \in 0 .. n * f - 1
      PROVE  m[i % n][i \div n] \in Int
  <2> DEFINE s == n * f
  <2>1. s \in Nat
    OBVIOUS
  <2>2. i \in 0 .. s - 1 /\ s = n * f
    OBVIOUS
  <2> HIDE DEF s
  <2>3. i \in Nat /\ i < n * f
    BY <2>1, <2>2
  <2>4. i % n \in 0 .. n - 1
    BY <2>3, DivMod
  <2>5. i \div n \in 0 .. f - 1
    BY <2>3, DivBelow
  <2>6. m[i % n] \in [0 .. f - 1 -> Int]
    BY <2>4
  <2>7. QED
    BY <2>5, <2>6
<1>2. QED
  BY <1>1 DEF Columns

\* A buffer of s cells.
LEMMA CellsCount ==
  ASSUME NEW s \in Nat \ {0}
  PROVE  Cardinality(0 .. s - 1) = s
BY FS_Interval

\* The part of a buffer of a partition that has points.
LEMMA RealRows ==
  ASSUME NEW n \in Nat \ {0}, NEW r \in Nat \ {0}, NEW b \in 0 .. CeilDiv(n, r) - 1
  PROVE  /\ b * r \in Nat /\ Min2(r, n - b * r) \in Nat \ {0}
         /\ b * r + Min2(r, n - b * r) <= n
<1> DEFINE x == b * r
<1>1. r * b \in Nat /\ r * b < n /\ CeilDiv(n, r) \in Nat
  BY BlocksWithin
<1>2. x = r * b
  BY <1>1
<1>3. x \in Nat /\ x < n
  BY <1>1, <1>2
<1> HIDE DEF x
<1>4. Min2(r, n - x) \in Nat \ {0} /\ x + Min2(r, n - x) <= n
  BY <1>3 DEF Min2
<1>5. QED
  BY <1>3, <1>4 DEF x

\* The place of a number of the partition in the matrix.
LEMMA PartIndex ==
  ASSUME NEW n \in Nat \ {0}, NEW f \in Nat \ {0}, NEW x \in Nat, NEW k \in Nat \ {0}, x + k <= n,
         NEW i \in Nat, i < f * k
  PROVE  (i \div k) * n + x + (i % k) \in 0 .. n * f - 1
<1> DEFINE d == i \div k
           m == i % k
<1>1. i < k * f
  OBVIOUS
<1>2. d \in 0 .. f - 1
  BY <1>1, DivBelow
<1>3. m \in 0 .. k - 1
  BY DivMod
<1> HIDE DEF d, m
<1> DEFINE y == x + m
<1>4. y \in 0 .. n - 1
  BY <1>3
<1>5. n * d <= n * (f - 1)
  BY <1>2, TimesMonotone
<1>6. n * (f - 1) = n * f - n
  OBVIOUS
<1> DEFINE u == n * d
           v == n * f
<1>7. u \in Nat /\ v \in Nat /\ u <= v - n
  BY <1>2, <1>5, <1>6
<1>8. d * n + x + m = u + y
  BY <1>2, <1>3
<1> HIDE DEF y, u, v
<1>9. u + y \in 0 .. v - 1
  BY <1>4, <1>7
<1>10. QED
  BY <1>8, <1>9 DEF d, m, v

\* The blocks that the buffered clients cut the points into.
LEMMA PartitionTyped ==
  ASSUME NEW n \in Nat \ {0}, NEW f \in Nat \ {0}, NEW r \in Nat \ {0},
         NEW src \in [0 .. n * f - 1 -> Int]
  PROVE  LET part == PartitionMatrix(src, f, r)
         IN  \A c \in DOMAIN part : part[c] \in Int
<1> DEFINE part == PartitionMatrix(src, f, r)
           rows == Cardinality(DOMAIN src) \div f
           real(b) == Min2(r, rows - b * r)
           all == (0 .. CeilDiv(rows, r) - 1) \X (0 .. r * f - 1)
           cells == {c \in all : c[2] < f * real(c[1])}
           place(c) == (c[2] \div real(c[1])) * rows + c[1] * r + (c[2] % real(c[1]))
<1>1. part = [c \in cells |-> src[place(c)]]
  BY DEF PartitionMatrix
<1>2. rows = n
  <2> DEFINE s == n * f
  <2>1. s \in Nat \ {0}
    OBVIOUS
  <2>2. DOMAIN src = 0 .. s - 1
    OBVIOUS
  <2> HIDE DEF s
  <2>3. Cardinality(DOMAIN src) = s
    BY <2>1, <2>2, CellsCount
  <2>4. s \div f = n
    BY <2>1, ProductDiv DEF s
  <2>5. QED
    BY <2>3, <2>4
<1>3. ASSUME NEW c \in cells
      PROVE  src[place(c)] \in Int
  <2> DEFINE b == c[1]
             i == c[2]
             k == real(b)
  <2>1. b \in 0 .. CeilDiv(n, r) - 1 /\ i \in 0 .. r * f - 1 /\ i < f * k
    BY <1>2
  <2>2. i \in Nat
    <3> DEFINE s == r * f
    <3>1. s \in Nat /\ i \in 0 .. s - 1
      BY <2>1
    <3> HIDE DEF s, i
    <3>2. QED
      BY <3>1
  <2>3. k = Min2(r, n - b * r)
    BY <1>2
  <2>4. b * r \in Nat /\ k \in Nat \ {0} /\ b * r + k <= n
    BY <2>1, <2>3, RealRows
  <2> DEFINE x == b * r
  <2>5. place(c) = (i \div k) * n + x + (i % k)
    BY <1>2
  <2>6. x \in Nat /\ x + k <= n
    BY <2>4
  <2> HIDE DEF place, rows, x, k, i, b
  <2>7. place(c) \in 0 .. n * f - 1
    BY <2>1, <2>2, <2>4, <2>5, <2>6, PartIndex
  <2>8. QED
    BY <2>7
<1> HIDE DEF cells, place, part
<1>4. \A c \in DOMAIN part : part[c] \in Int
  BY <1>1, <1>3
<1>5. QED
  BY <1>4 DEF part

\* Points and centroids on the host.
LEMMA HostTyped ==
  ASSUME NEW j, DataOK(j)
  PROVE  /\ HostPoints(j) \in [0 .. NumPoints(j) * NumFeatures(j) - 1 -> Int]
         /\ HostCentroids(j) \in [0 .. NumClusters(j) * NumFeatures(j) - 1 -> Int]
<1>1. NumPoints(j) \in Nat \ {0} /\ NumFeatures(j) \in Nat \ {0} /\ NumClusters(j) \in Nat \ {0}
  BY DataFacts
<1>2. /\ j.points \in [0 .. NumPoints(j) - 1 -> [0 .. NumFeatures(j) - 1 -> Int]]
      /\ j.centroids \in [0 .. NumClusters(j) - 1 -> [0 .. NumFeatures(j) - 1 -> Int]]
  BY DEF DataOK
<1>3. /\ HostPoints(j) = Columns(j.points, NumPoints(j), NumFeatures(j))
      /\ HostCentroids(j) = Columns(j.centroids, NumClusters(j), NumFeatures(j))
  BY DEF HostPoints, HostCentroids, Columns
<1>4. Columns(j.points, NumPoints(j), NumFeatures(j))
        \in [0 .. NumPoints(j) * NumFeatures(j) - 1 -> Int]
  BY <1>1, <1>2, ColumnsTyped
<1>5. Columns(j.centroids, NumClusters(j), NumFeatures(j))
        \in [0 .. NumClusters(j) * NumFeatures(j) - 1 -> Int]
  BY <1>1, <1>2, ColumnsTyped
<1>6. QED
  BY <1>3, <1>4, <1>5

\* What is uploaded before the iteration.
Uploaded(m) == MemOK(m) /\ \A a \in DOMAIN m : a[1] # "labels"

\* What the clients upload are whole numbers.
LEMMA PointsUploaded ==
  ASSUME NEW j, DataOK(j)
  PROVE  Uploaded(UploadPoints(j))
<1> DEFINE points == PartitionMatrix(HostPoints(j), NumFeatures(j), BlockRows(j))
           centroids == HostCentroids(j)
           ps == {<<"points", x[1], x[2]>> : x \in DOMAIN points}
           cs == {Glob(Old(j), i) : i \in DOMAIN centroids}
           f == [a \in ps |-> points[<<a[2], a[3]>>]]
           g == [a \in cs |-> centroids[a[3]]]
<1>1. UploadPoints(j) = Over(f, g)
  BY DEF UploadPoints
<1>2. /\ NumPoints(j) \in Nat \ {0} /\ NumFeatures(j) \in Nat \ {0} /\ BlockRows(j) \in Nat \ {0}
  BY DataFacts
<1>3. \A x \in DOMAIN points : points[x] \in Int
  BY <1>2, HostTyped, PartitionTyped
<1>4. \A i \in DOMAIN centroids : centroids[i] \in Int
  BY HostTyped
<1>5. \A x \in DOMAIN points : <<x[1], x[2]>> = x
  <2>1. \A x \in DOMAIN points : x \in (DOMAIN points)
    OBVIOUS
  <2>2. PICK A, B : DOMAIN points \subseteq A \X B
    BY DEF PartitionMatrix
  <2>3. QED
    BY <2>2
<1> HIDE DEF points, centroids
<1>6. \A a \in ps : a[1] = "points" /\ points[<<a[2], a[3]>>] \in Int
  BY <1>3, <1>5
<1>7. Old(j) # "labels"
  BY DEF Old
<1>8. \A a \in cs : a[1] # "labels" /\ centroids[a[3]] \in Int
  BY <1>4, <1>7 DEF Glob
<1> HIDE DEF ps, cs
<1>9. DOMAIN f = ps /\ DOMAIN g = cs /\ (\A a \in ps : f[a] \in Int) /\ (\A a \in cs : g[a] \in Int)
  BY <1>6, <1>8
<1> HIDE DEF f, g
<1>10. /\ DOMAIN Over(f, g) = ps \cup cs
       /\ \A a \in ps \cup cs : Over(f, g)[a] \in Int
  BY <1>9 DEF Over
<1>11. QED
  BY <1>1, <1>6, <1>8, <1>10 DEF Uploaded, MemOK

\* The test of the reduction.
LEMMA TestUploaded ==
  ASSUME NEW j, TestOK(j), j.client = "reduce_vector_test"
  PROVE  Uploaded(Upload(j))
<1> DEFINE r == Rows(j)
           c == Cols(j)
           cs == {Glob("data", i) : i \in 0 .. r * c - 1}
           m == [a \in cs |-> j.data[a[3] \div r][a[3] % r]]
<1>1. Upload(j) = m
  BY DEF Upload
<1>2. r \in Nat \ {0} /\ c \in Nat \ {0} /\ j.data \in [0 .. c - 1 -> [0 .. r - 1 -> Int]]
  BY DEF TestOK
<1> HIDE DEF r, c
<1>3. ASSUME NEW i \in 0 .. r * c - 1
      PROVE  j.data[i \div r][i % r] \in Int
  <2> DEFINE s == r * c
  <2>1. i \in 0 .. s - 1 /\ s = r * c /\ s \in Nat
    BY <1>2
  <2> HIDE DEF s
  <2>2. i \in Nat /\ i < r * c
    BY <2>1
  <2>3. i % r \in 0 .. r - 1
    BY <1>2, <2>2, DivMod
  <2>4. i \div r \in 0 .. c - 1
    BY <1>2, <2>2, DivBelow
  <2>5. j.data[i \div r] \in [0 .. r - 1 -> Int]
    BY <1>2, <2>4
  <2>6. QED
    BY <2>3, <2>5
<1>4. \A a \in cs : a[1] = "data" /\ a[3] \in 0 .. r * c - 1
  BY DEF Glob
<1>5. \A a \in cs : a[1] # "labels" /\ j.data[a[3] \div r][a[3] % r] \in Int
  BY <1>3, <1>4
<1> HIDE DEF cs
<1>6. DOMAIN m = cs /\ \A a \in cs : m[a] \in Int
  BY <1>5
<1> HIDE DEF m
<1>7. QED
  BY <1>1, <1>5, <1>6 DEF Uploaded, MemOK

\* The test of the reduction can call it.
LEMMA TestPhaseOk ==
  ASSUME NEW j, TestOK(j), j.client = "reduce_vector_test", NEW call
  PROVE  /\ Sized(ClientSizes(j))
         /\ Len(Iteration(j)) = 1 /\ PhaseOk(Iteration(j)[1], ClientSizes(j), call)
<1> DEFINE n == Rows(j) * Cols(j)
           ok == ReduceOk(n, Cols(j), Rows(j), "data")
           ls == Reduce(n, Rows(j), "data")
           ph == Phase(ok, {}, <<>>, ls)
           host == ClientSizes(j)
<1>1. Rows(j) \in Nat \ {0} /\ Cols(j) \in Nat \ {0} /\ ok
  BY DEF TestOK
<1>2. n \in Nat
  BY <1>1
<1>3. DOMAIN host = {"data"} /\ host["data"] = n
  BY DEF ClientSizes
<1>4. Iteration(j) = <<ph>>
  BY DEF Iteration, ReduceVectorRun
<1> HIDE DEF n
<1>5. ASSUME NEW sz, Sized(sz), Has(sz, host)
      PROVE  Queued(ls, sz, {}, call)
  <2>1. Room(sz, "data", n)
    BY <1>3, <1>5 DEF Has
  <2>2. QED
    BY <1>1, <1>2, <1>5, <2>1, ReduceAdmitted
<1>6. Sized(host)
  BY <1>2, <1>3 DEF Sized
<1> HIDE DEF ls, host, ok
<1>7. PhaseOk(ph, host, call)
  <2> DEFINE needs == <<>>
  <2>1. \A b \in DOMAIN needs : b # "labels" /\ needs[b] \in Nat
    OBVIOUS
  <2>2. \A sz : Sized(sz) /\ Has(sz, host) /\ Has(sz, needs) => Queued(ls, sz, {}, call)
    BY <1>5
  <2> HIDE DEF needs
  <2>3. PhaseOk(Phase(ok, {}, needs, ls), host, call)
    BY <1>1, <2>1, <2>2, PhaseIs
  <2>4. QED
    BY <2>3 DEF needs
<1> HIDE DEF ph
<1>8. QED
  BY <1>4, <1>6, <1>7 DEF host

-----------------------------------------------------------------------------
(***************************************************************************)
(* The clients, whose phases fit one after the other                       *)
(***************************************************************************)
\* What a client does on its own.
LEMMA HostPhase ==
  ASSUME NEW launches, NEW host, NEW call,
         \A sz : Sized(sz) /\ Has(sz, host) => Queued(launches, sz, {}, call)
  PROVE  PhaseOk(HostCall(launches), host, call)
<1> DEFINE needs == <<>>
           ok == TRUE
<1>1. \A b \in DOMAIN needs : b # "labels" /\ needs[b] \in Nat
  OBVIOUS
<1>2. ok
  OBVIOUS
<1> HIDE DEF needs, ok
<1>3. PhaseOk(Phase(ok, {}, needs, launches), host, call)
  BY <1>1, <1>2, PhaseIs
<1>4. QED
  BY <1>3 DEF needs, ok, HostCall

\* The buffers that a client gives its phases.
LEMMA ClientNames ==
  ASSUME NEW j
  PROVE  /\ New(j) \notin {"labels", "points", "masses"} /\ New(j) # "masses"
         /\ Old(j) \notin {"labels", "points", "masses"}
BY DEF New, Old

\* A fill needs room.
LEMMA FillAdmitted ==
  ASSUME NEW n \in Nat, NEW buf, buf \notin {"labels", "points"},
         NEW sz, Sized(sz), Room(sz, buf, n),
         NEW programs, NEW call
  PROVE  Admits(Command("fill", n, buf, "none"), sz, programs, call)
<1>1. "none" \notin {"labels", "points"} /\ "fill" \in {"fill", "copy"} /\ "fill" # "copy"
  OBVIOUS
<1>2. QED
  BY <1>1, CommandAdmitted

\* Two launches.
LEMMA QueuedTwo ==
  ASSUME NEW K, NEW L, NEW sz, NEW programs, NEW call,
         Admits(K, sz, programs, call), Admits(L, sz, programs, call)
  PROVE  Queued(<<K, L>>, sz, programs, call)
<1> DEFINE S == {K, L}
           ls == <<K, L>>
<1>1. ls \in Seq(S)
  OBVIOUS
<1>2. \A M \in S : Admits(M, sz, programs, call)
  OBVIOUS
<1> HIDE DEF S, ls
<1>3. Queued(ls, sz, programs, call)
  BY <1>1, <1>2, Zenon DEF Queued
<1>4. QED
  BY <1>3 DEF ls

\* Resetting the sums at the start of an iteration,
LEMMA FillOk ==
  ASSUME NEW j, DataOK(j), j.client # "reduce_vector_test", NEW b \in 0 .. NumBlocks(j) - 1
  PROVE  PhaseOk(Fill(j), ClientSizes(j), Arguments(j, b))
<1> DEFINE host == ClientSizes(j)
           call == Arguments(j, b)
           c == NumClusters(j)
           p == NumClusters(j) * NumFeatures(j)
           fst == Command("fill", c, "masses", "none")
           snd == Command("fill", p, New(j), "none")
           ls == <<fst, snd>>
<1>1. call.F = NumFeatures(j) /\ call.C = NumClusters(j) /\ call.new = New(j)
  BY ArgumentsFields
<1>2. c \in Nat /\ p \in Nat
  BY DataFacts
<1>3. BuffersOK(host, call) /\ ArgsOK(call)
  BY ClientBuffers, ArgumentsOK
<1> HIDE DEF host, call
<1>4. ASSUME NEW sz, Sized(sz), Has(sz, host)
      PROVE  Queued(ls, sz, {}, call)
  <2>1. Room(sz, "masses", call.C) /\ Room(sz, call.new, call.C * call.F)
    BY <1>3, <1>4, HostRoom
  <2>2. Room(sz, "masses", c) /\ Room(sz, New(j), p)
    BY <1>1, <2>1
  <2>3. New(j) \notin {"labels", "points"} /\ "masses" \notin {"labels", "points"}
        /\ "none" \notin {"labels", "points"}
    BY ClientNames
  <2> HIDE DEF c, p
  <2>4. Admits(fst, sz, {}, call) /\ Admits(snd, sz, {}, call)
    BY <1>2, <1>4, <2>2, <2>3, FillAdmitted
  <2> HIDE DEF fst, snd
  <2>5. QED
    BY <2>4, QueuedTwo
<1> HIDE DEF ls
<1>5. PhaseOk(HostCall(ls), host, call)
  BY <1>4, HostPhase
<1>6. QED
  BY <1>5 DEF Fill, ls, fst, snd, c, p, host, call

\* and dividing them by the masses at its end.
LEMMA DivideOk ==
  ASSUME NEW j, DataOK(j), j.client # "reduce_vector_test", NEW b \in 0 .. NumBlocks(j) - 1
  PROVE  PhaseOk(Divide(j), ClientSizes(j), Arguments(j, b))
<1> DEFINE host == ClientSizes(j)
           call == Arguments(j, b)
           c == NumClusters(j)
           f == NumFeatures(j)
           L == OverCells("matrix_row_vector", c, f, New(j), "masses")
           ls == <<L>>
<1>1. call.F = NumFeatures(j) /\ call.C = NumClusters(j) /\ call.new = New(j)
  BY ArgumentsFields
<1>2. c \in Nat \ {0} /\ f \in Nat \ {0}
  BY DataFacts
<1>3. BuffersOK(host, call) /\ ArgsOK(call)
  BY ClientBuffers, ArgumentsOK
<1> HIDE DEF host, call
<1>4. ASSUME NEW sz, Sized(sz), Has(sz, host)
      PROVE  Queued(ls, sz, {}, call)
  <2>1. Room(sz, "masses", call.C) /\ Room(sz, call.new, call.C * call.F)
    BY <1>3, <1>4, HostRoom
  <2>2. Room(sz, "masses", c) /\ Room(sz, New(j), c * f)
    BY <1>1, <2>1
  <2>3. New(j) \notin {"labels", "points"} /\ "masses" \notin {"labels", "points"}
        /\ New(j) # "masses"
    BY ClientNames
  <2> HIDE DEF c, f
  <2>4. Admits(L, sz, {}, call)
    BY <1>2, <1>4, <2>2, <2>3, CellsAdmitted
  <2>5. QED
    BY <2>4, QueuedOne
<1> HIDE DEF ls
<1>5. PhaseOk(HostCall(ls), host, call)
  BY <1>4, HostPhase
<1>6. QED
  BY <1>5 DEF Divide, MatrixRow, ls, L, c, f, host, call

\* Launches none of which counts labels.
Uncounted(s) == \E S : s \in Seq(S) /\ \A L \in S : ~Counts(L)

\* Launches none of which counts labels.
LEMMA UncountedBoth ==
  ASSUME NEW s, NEW t, Uncounted(s), Uncounted(t)
  PROVE  Uncounted(s \o t)
<1>1. PICK S : s \in Seq(S) /\ \A L \in S : ~Counts(L)
  BY DEF Uncounted
<1>2. PICK T : t \in Seq(T) /\ \A L \in T : ~Counts(L)
  BY DEF Uncounted
<1>3. s \in Seq(S \cup T) /\ t \in Seq(S \cup T)
  BY <1>1, <1>2
<1>4. s \o t \in Seq(S \cup T)
  BY <1>3
<1>5. QED
  BY <1>1, <1>2, <1>4 DEF Uncounted

\* One of them.
LEMMA UncountedOne ==
  ASSUME NEW L, ~Counts(L)
  PROVE  Uncounted(<<L>>)
<1> DEFINE S == {L}
           ls == <<L>>
<1>1. ls \in Seq(S)
  OBVIOUS
<1>2. \A K \in S : ~Counts(K)
  OBVIOUS
<1> HIDE DEF S, ls
<1>3. Uncounted(ls)
  BY <1>1, <1>2, Zenon DEF Uncounted
<1>4. QED
  BY <1>3 DEF ls

\* Every one of them.
LEMMA UncountedAll ==
  ASSUME NEW s, Uncounted(s)
  PROVE  \A i \in DOMAIN s : ~Counts(s[i])
<1>1. PICK S : s \in Seq(S) /\ \A L \in S : ~Counts(L)
  BY DEF Uncounted
<1>2. \A i \in DOMAIN s : s[i] \in S
  BY <1>1
<1>3. QED
  BY <1>1, <1>2

\* Summing up the parts counts no labels,
LEMMA SumUpUncounted ==
  ASSUME NEW k, IsPowerOfTwo(k), k > 1, NEW rows, IsPowerOfTwo(rows), NEW cols, IsPowerOfTwo(cols),
         NEW n, n = k * (rows * cols), NEW result, NEW tmp, result # tmp,
         {result, tmp} \cap {"labels", "points", "l_data"} = {}
  PROVE  Uncounted(SumUp(result, tmp, n, rows, cols))
<1> DEFINE p == rows * cols
           s == Reduce(n, p, tmp)
           sz == [b \in {tmp} |-> n]
<1>1. n \in Nat /\ ReduceOk(n, k, p, tmp)
  <2>1. n \in Nat /\ SumUpOk(n, k, p, tmp)
    BY SumUpPowers
  <2>2. QED
    BY <2>1, Zenon DEF SumUpOk
<1>2. k \in Nat \ {0} /\ p \in Nat \ {0}
  <2>1. IsPowerOfTwo(p)
    BY PowerProduct
  <2>2. QED
    BY <2>1, PowerOfTwoTyped
<1>3. Sized(sz) /\ Room(sz, tmp, n)
  BY <1>1 DEF Sized, Room
<1>4. tmp \notin {"labels", "points", "l_data"}
  OBVIOUS
<1> HIDE DEF p, sz
<1>5. \A i \in DOMAIN s : ~Counts(s[i])
  BY <1>1, <1>2, <1>3, <1>4, ReduceFits
<1>6. PICK S : s \in Seq(S)
  BY <1>1, <1>2, ReduceElements
<1> HIDE DEF s
<1>7. s \in Seq({s[i] : i \in DOMAIN s})
  BY <1>6
<1>8. Uncounted(s)
  BY <1>5, <1>7 DEF Uncounted
<1> DEFINE L == OverCells("matrix_matrix", rows, cols, result, tmp)
<1>9. L.kernel = "matrix_matrix"
  BY DEF OverCells
<1>10. ~Counts(L)
  BY <1>9 DEF Counts
<1> HIDE DEF L
<1>11. Uncounted(s \o <<L>>)
  BY <1>8, <1>10, UncountedOne, UncountedBoth
<1>12. QED
  BY <1>11 DEF SumUp, MatrixAdd, s, p, L

\* nor does copying the centroids,
LEMMA CopyUncounted ==
  ASSUME NEW call
  PROVE  Uncounted(CopyCentroids(call))
<1> DEFINE L == Command("copy", call.C * call.F, call.old, "ro_centroids")
<1>1. L.kernel = "copy"
  BY DEF Command
<1>2. ~Counts(L)
  BY <1>1 DEF Counts
<1> HIDE DEF L
<1>3. Uncounted(<<L>>)
  BY <1>2, UncountedOne
<1>4. QED
  BY <1>3 DEF CopyCentroids, L

\* The launches of a fused phase.
LEMMA FusedUncounted ==
  ASSUME NEW cfg, ConfigOK(cfg), cfg.global > 1, NEW call, ArgsOK(call),
         NEW host, BuffersOK(host, call),
         NEW k, IsPowerOfTwo(k), k > 1, NEW n, n = k * (call.C * call.F), NEW L, ~Counts(L)
  PROVE  Uncounted(CopyCentroids(call) \o <<L>> \o FusedResults(cfg, call, n))
<1> DEFINE g == cfg.global
           m == cfg.global * call.C
<1>1. /\ IsPowerOfTwo(g) /\ g > 1 /\ g \in Nat \ {0} /\ IsPowerOfTwo(call.C) /\ IsPowerOfTwo(call.F)
      /\ call.C \in Nat \ {0}
  BY ConfigFacts, ArgsFacts DEF ConfigOK, ArgsOK
<1>2. m = g * (call.C * 1)
  BY <1>1
<1>3. "masses" # "new_masses" /\ {"masses", "new_masses"} \cap {"labels", "points", "l_data"} = {}
  OBVIOUS
<1> HIDE DEF g, m
<1>4. Uncounted(SumUp("masses", "new_masses", m, call.C, 1))
  BY <1>1, <1>2, <1>3, OneIsPower, SumUpUncounted
<1>5. call.new # "tmp_new_centroids"
        /\ {call.new, "tmp_new_centroids"} \cap {"labels", "points", "l_data"} = {}
  BY DEF BuffersOK
<1>6. Uncounted(SumUp(call.new, "tmp_new_centroids", n, call.C, call.F))
  BY <1>1, <1>5, SumUpUncounted
<1>7. Uncounted(FusedResults(cfg, call, n))
  BY <1>4, <1>6, UncountedBoth DEF FusedResults, m
<1>8. Uncounted(CopyCentroids(call)) /\ Uncounted(<<L>>)
  BY CopyUncounted, UncountedOne
<1>9. Uncounted(CopyCentroids(call) \o <<L>>)
  BY <1>8, UncountedBoth
<1>10. QED
  BY <1>7, <1>9, UncountedBoth

\* nor do the fused phases, which label the points themselves,
LEMMA FusedMergeUncounted ==
  ASSUME NEW cfg, ConfigOK(cfg), NEW dev, NEW call, ArgsOK(call), NEW host, BuffersOK(host, call),
         FusedConfigOK(cfg, call)
  PROVE  Uncounted(FusedClusterMerge(cfg, dev, call).launches)
<1> DEFINE bytes == LocalPoints(cfg, call) + cfg.local * call.C * call.F + cfg.local * call.C
           P == Program(UseLocalStride(dev), UseLocalMemory(dev, bytes), KernelFeatures(call.F))
           locals == [l_points |-> LocalPointCells(cfg, call),
                      l_centroids |-> cfg.local * call.C * call.F, l_masses |-> cfg.local * call.C]
           L == OverPoints("lloyd_fused_cluster_merge", cfg, call, P, cfg.vec, "tmp_new_centroids",
                           locals)
           n == cfg.global * call.C * call.F
           ls == CopyCentroids(call) \o <<L>> \o FusedResults(cfg, call, n)
<1>1. FusedClusterMerge(cfg, dev, call).launches = ls
  BY DEF FusedClusterMerge, Phase
<1>2. L.kernel = "lloyd_fused_cluster_merge"
  BY DEF OverPoints
<1>3. ~Counts(L)
  BY <1>2 DEF Counts
<1> HIDE DEF L
<1>4. /\ IsPowerOfTwo(cfg.global) /\ cfg.global \in Nat /\ cfg.global > 1 /\ call.C \in Nat
      /\ call.F \in Nat
  BY FusedFacts
<1>5. n = cfg.global * (call.C * call.F)
  BY <1>4, TimesAssoc
<1> HIDE DEF n
<1>6. Uncounted(ls)
  BY <1>3, <1>4, <1>5, FusedUncounted
<1> HIDE DEF ls
<1>7. QED
  BY <1>1, <1>6

\* The temporary sums of the fused feature sum are a column for every tile.
LEMMA FusedSumColumns ==
  ASSUME NEW cfg, ConfigOK(cfg), NEW call, ArgsOK(call), FusedConfigOK(cfg, call)
  PROVE  LET k == (cfg.global * ThreadFeatures(cfg, call)) \div call.F
         IN  /\ IsPowerOfTwo(k)
             /\ cfg.global * call.C * ThreadFeatures(cfg, call) = k * (call.C * call.F)
<1> DEFINE tf == ThreadFeatures(cfg, call)
           k == (cfg.global * tf) \div call.F
           g == NumWorkGroups(cfg)
<1>1. PICK x, y : TiledBy(cfg, call, tf, x, y)
  BY TiledFeatures
<1>2. k = g * y /\ IsPowerOfTwo(k)
  BY <1>1, TileCount
<1>3. g \in Nat /\ cfg.global = g * cfg.local
  BY ConfigFacts DEF NumWorkGroups
<1>4. tf \in Nat /\ x \in Nat /\ y \in Nat /\ call.F = x * tf /\ cfg.local = x * y
  BY <1>1 DEF TiledBy
<1>5. call.C \in Nat
  BY ArgsFacts
<1> HIDE DEF tf, k, g
<1>6. (g * (x * y)) * call.C * tf = (g * y) * (call.C * (x * tf))
  BY <1>3, <1>4, <1>5
<1>7. cfg.global * call.C * tf = k * (call.C * call.F)
  BY <1>2, <1>3, <1>4, <1>6
<1>8. QED
  BY <1>2, <1>7 DEF k, tf

\* of either kind,
LEMMA FusedSumUncounted ==
  ASSUME NEW cfg, ConfigOK(cfg), NEW dev, NEW call, ArgsOK(call), NEW host, BuffersOK(host, call),
         FusedSumOK(cfg, dev, call)
  PROVE  Uncounted(FusedFeatureSum(cfg, dev, call).launches)
<1> DEFINE tf == ThreadFeatures(cfg, call)
           locals == FusedFeatureSumLocals(cfg, call)
           bytes == LocalPoints(cfg, call) + locals.l_centroids + locals.l_masses
           P == Program(UseLocalStride(dev), UseLocalMemory(dev, bytes), KernelFeatures(call.F))
           L == FusedSumLaunch(cfg, call, P, locals)
           k == (cfg.global * tf) \div call.F
           n == cfg.global * call.C * tf
           ls == CopyCentroids(call) \o <<L>> \o FusedResults(cfg, call, n)
<1>1. FusedFeatureSum(cfg, dev, call).launches = ls
  BY DEF FusedFeatureSum, Phase, FusedSumLaunch, FusedSumBase
<1>2. L.kernel = "lloyd_fused_feature_sum"
  BY FusedSumRecord
<1>3. ~Counts(L)
  BY <1>2 DEF Counts
<1> HIDE DEF L
<1>4. FusedConfigOK(cfg, call) /\ k > 1
  BY DEF FusedSumOK
<1>5. IsPowerOfTwo(k) /\ n = k * (call.C * call.F)
  BY <1>4, FusedSumColumns
<1>6. cfg.global > 1
  BY <1>4, FusedFacts
<1> HIDE DEF n, k
<1>7. Uncounted(ls)
  BY <1>3, <1>4, <1>5, <1>6, FusedUncounted
<1> HIDE DEF ls
<1>8. QED
  BY <1>1, <1>7

\* The labelling writes the labels of its block, and counts none.
LEMMA LabelingMakes ==
  ASSUME NEW cfg, NEW dev, NEW call
  PROVE  LET ls == LabelingUnrollVector(cfg, dev, call).launches
         IN  /\ Uncounted(ls)
             /\ \E i \in DOMAIN ls : MakesLabels(ls[i]) /\ LabelCells(ls[i]) = LabelCells(call)
<1> DEFINE P == Program(UseLocalStride(dev), UseLocalMemory(dev, LocalPoints(cfg, call)),
                        KernelFeatures(call.F))
           locals == [l_points |-> LocalPointCells(cfg, call)]
           K == Command("copy", call.C * call.F, call.old, "ro_centroids")
           L == OverPoints("lloyd_labeling_vp_clcp", cfg, call, P, cfg.vec, "labels", locals)
           ls == CopyCentroids(call) \o <<L>>
<1>1. LabelingUnrollVector(cfg, dev, call).launches = ls
  BY DEF LabelingUnrollVector, Phase
<1>2. L.kernel = "lloyd_labeling_vp_clcp" /\ L.N = call.N /\ L.b = call.b
  BY DEF OverPoints
<1>3. CopyCentroids(call) = <<K>>
  BY DEF CopyCentroids
<1> HIDE DEF L, K
<1>4. ~Counts(L) /\ MakesLabels(L) /\ LabelCells(L) = LabelCells(call)
  BY <1>2 DEF Counts, MakesLabels, LabelCells, InBlock
<1>5. Uncounted(ls)
  BY <1>4, CopyUncounted, UncountedOne, UncountedBoth
<1>6. 2 \in DOMAIN ls /\ ls[2] = L
  BY <1>3
<1> HIDE DEF ls
<1>7. QED
  BY <1>1, <1>4, <1>5, <1>6

\* nor resetting the sums,
LEMMA FillUncounted ==
  ASSUME NEW j
  PROVE  \A i \in DOMAIN Fill(j).launches : ~Counts(Fill(j).launches[i])
<1> DEFINE fst == Command("fill", NumClusters(j), "masses", "none")
           snd == Command("fill", NumClusters(j) * NumFeatures(j), New(j), "none")
<1>1. Fill(j).launches = <<fst, snd>>
  BY DEF Fill, HostCall, Phase
<1>2. fst.kernel = "fill" /\ snd.kernel = "fill"
  BY DEF Command
<1>3. ~Counts(fst) /\ ~Counts(snd)
  BY <1>2 DEF Counts
<1> HIDE DEF fst, snd
<1>4. QED
  BY <1>1, <1>3

\* nor dividing them.
LEMMA DivideUncounted ==
  ASSUME NEW j
  PROVE  \A i \in DOMAIN Divide(j).launches : ~Counts(Divide(j).launches[i])
<1> DEFINE L == OverCells("matrix_row_vector", NumClusters(j), NumFeatures(j), New(j), "masses")
<1>1. Divide(j).launches = <<L>>
  BY DEF Divide, HostCall, Phase, MatrixRow
<1>2. L.kernel = "matrix_row_vector"
  BY DEF OverCells
<1>3. ~Counts(L)
  BY <1>2 DEF Counts
<1> HIDE DEF L
<1>4. QED
  BY <1>1, <1>3

\* Every strategy of the mass update can be called,
LEMMA MassPhaseOk ==
  ASSUME NEW j, NEW b, NEW host, ArgsOK(Arguments(j, b)), BuffersOK(host, Arguments(j, b)),
         MassOK(j.mass, Arguments(j, b))
  PROVE  PhaseOk(MassUpdate(j, b), host, Arguments(j, b))
<1> DEFINE call == Arguments(j, b)
           cfg == j.mass
<1>1. ConfigOK(cfg)
  BY DEF MassOK
<1>2. CASE cfg.strategy = "global_atomic"
  <2>1. MassUpdate(j, b) = MassUpdateGlobalAtomic(cfg, j.device, call)
    BY <1>2 DEF MassUpdate
  <2> HIDE DEF call, cfg
  <2>2. PhaseOk(MassUpdateGlobalAtomic(cfg, j.device, call), host, call)
    BY <1>1, GlobalAtomicOk DEF call
  <2>3. QED
    BY <2>1, <2>2 DEF call
<1>3. CASE cfg.strategy = "part_global" /\ NumWorkGroups(cfg) > 1
  <2>1. MassUpdate(j, b) = MassUpdatePartGlobal(cfg, j.device, call)
    BY <1>3 DEF MassUpdate
  <2>2. PhaseOk(MassUpdatePartGlobal(cfg, j.device, call), host, call)
    BY <1>1, <1>3, PartGlobalOk
  <2>3. QED
    BY <2>1, <2>2
<1>4. CASE cfg.strategy = "part_local" /\ NumWorkGroups(cfg) > 1
  <2>1. MassUpdate(j, b) = MassUpdatePartLocal(cfg, j.device, call)
    BY <1>4 DEF MassUpdate
  <2>2. PhaseOk(MassUpdatePartLocal(cfg, j.device, call), host, call)
    BY <1>1, <1>4, PartLocalOk
  <2>3. QED
    BY <2>1, <2>2
<1>5. CASE cfg.strategy = "part_private" /\ ItemsOK(cfg, call)
  <2>1. MassUpdate(j, b) = MassUpdatePartPrivate(cfg, j.device, call)
    BY <1>5 DEF MassUpdate
  <2>2. cfg.global > 1 /\ cfg.vec \in Nat \ {0} /\ call.N % cfg.vec = 0
    BY <1>5 DEF ItemsOK, VectorsOK
  <2>3. PhaseOk(MassUpdatePartPrivate(cfg, j.device, call), host, call)
    BY <1>1, <2>2, PartPrivateOk
  <2>4. QED
    BY <2>1, <2>3
<1>6. QED
  BY <1>2, <1>3, <1>4, <1>5 DEF MassOK

\* of the centroid update,
LEMMA CentroidPhaseOk ==
  ASSUME NEW j, NEW b, NEW host, ArgsOK(Arguments(j, b)), BuffersOK(host, Arguments(j, b)),
         CentroidOK(j.centroid, Arguments(j, b))
  PROVE  PhaseOk(CentroidUpdate(j, b), host, Arguments(j, b))
<1> DEFINE call == Arguments(j, b)
           cfg == j.centroid
<1>1. ConfigOK(cfg)
  BY DEF CentroidOK
<1>2. CASE cfg.strategy = "cluster_merge" /\ ItemsOK(cfg, call)
  <2>1. CentroidUpdate(j, b) = CentroidUpdateClusterMerge(cfg, j.device, call)
    BY <1>2 DEF CentroidUpdate
  <2>2. cfg.global > 1 /\ cfg.vec \in Nat \ {0} /\ call.N % cfg.vec = 0
    BY <1>2 DEF ItemsOK, VectorsOK
  <2>3. PhaseOk(CentroidUpdateClusterMerge(cfg, j.device, call), host, call)
    BY <1>1, <2>2, ClusterMergeOk
  <2>4. QED
    BY <2>1, <2>3
<1>3. CASE cfg.strategy = "feature_sum" /\ FeatureSumOK(cfg, call)
  <2>1. CentroidUpdate(j, b) = CentroidUpdateFeatureSum(cfg, j.device, call)
    BY <1>3 DEF CentroidUpdate
  <2>2. call.F < cfg.global
    BY <1>3 DEF FeatureSumOK
  <2>3. PhaseOk(CentroidUpdateFeatureSum(cfg, j.device, call), host, call)
    BY <1>1, <2>2, FeatureSumOk
  <2>4. QED
    BY <2>1, <2>3
<1>4. CASE cfg.strategy = "feature_sum_pardim" /\ PardimOK(cfg, call)
  <2>1. CentroidUpdate(j, b) = CentroidUpdateFeatureSumPardim(cfg, j.device, call)
    BY <1>4 DEF CentroidUpdate
  <2>2. PhaseOk(CentroidUpdateFeatureSumPardim(cfg, j.device, call), host, call)
    BY <1>1, <1>4, PardimOk
  <2>3. QED
    BY <2>1, <2>2
<1>5. QED
  BY <1>2, <1>3, <1>4 DEF CentroidOK

\* and of the fused update.
LEMMA FusedOneOk ==
  ASSUME NEW j, NEW b, NEW host, ArgsOK(Arguments(j, b)), BuffersOK(host, Arguments(j, b)),
         SingleStageOK(j.fused, j.device, Arguments(j, b))
  PROVE  PhaseOk(Fused(j, b), host, Arguments(j, b)) /\ Uncounted(Fused(j, b).launches)
<1> DEFINE call == Arguments(j, b)
           cfg == j.fused
<1>1. ConfigOK(cfg)
  BY DEF SingleStageOK
<1>2. CASE cfg.strategy = "cluster_merge" /\ FusedConfigOK(cfg, call)
  <2>1. Fused(j, b) = FusedClusterMerge(cfg, j.device, call)
    BY <1>2 DEF Fused
  <2>2. PhaseOk(FusedClusterMerge(cfg, j.device, call), host, call)
    BY <1>1, <1>2, FusedMergeOk
  <2>3. Uncounted(FusedClusterMerge(cfg, j.device, call).launches)
    BY <1>1, <1>2, FusedMergeUncounted
  <2>4. QED
    BY <2>1, <2>2, <2>3
<1>3. CASE cfg.strategy = "feature_sum" /\ FusedSumOK(cfg, j.device, call)
  <2>1. Fused(j, b) = FusedFeatureSum(cfg, j.device, call)
    BY <1>3 DEF Fused
  <2>2. PhaseOk(FusedFeatureSum(cfg, j.device, call), host, call)
    BY <1>1, <1>3, FusedSumOk
  <2>3. Uncounted(FusedFeatureSum(cfg, j.device, call).launches)
    BY <1>1, <1>3, FusedSumUncounted
  <2>4. QED
    BY <2>1, <2>2, <2>3
<1>4. QED
  BY <1>2, <1>3 DEF SingleStageOK

\* A phase of the iteration that counts no labels.
Silent(j, ph) == PhaseFits(j, ph) /\ \A i \in DOMAIN ph.launches : ~Counts(ph.launches[i])
\* A phase that labels block b.
Makes(j, ph, b) ==
  /\ Silent(j, ph)
  /\ \E i \in DOMAIN ph.launches :
       MakesLabels(ph.launches[i]) /\ LabelCells(ph.launches[i]) = LabelCells(Arguments(j, b))
\* A phase that counts no labels but those of block b.
CountsIn(j, ph, b) ==
  /\ PhaseFits(j, ph)
  /\ \A i \in DOMAIN ph.launches :
       Counts(ph.launches[i]) => LabelCells(ph.launches[i]) = LabelCells(Arguments(j, b))

\* An iteration of such phases, with what is counted made before.
LabelsFirst(j) ==
  /\ Len(Iteration(j)) \in Nat
  /\ \A n \in 1 .. Len(Iteration(j)) :
       \/ Silent(j, Iteration(j)[n])
       \/ \E b : /\ CountsIn(j, Iteration(j)[n], b)
                 /\ \E k \in 1 .. n - 1 : Makes(j, Iteration(j)[k], b)

\* A job whose phases come in such an order fits.
LEMMA LabelsFirstFits ==
  ASSUME NEW j, LabelsFirst(j), Sized(ClientSizes(j)), Uploaded(Upload(j))
  PROVE  JobFits(j)
<1>1. ASSUME NEW n \in 1 .. Len(Iteration(j))
      PROVE  /\ PhaseFits(j, Iteration(j)[n])
             /\ \A L \in Calls(j, n) : Counts(L) =>
                  \E k \in 1 .. n - 1 : \E K \in Calls(j, k) :
                    MakesLabels(K) /\ LabelCells(K) = LabelCells(L)
  <2>1. CASE Silent(j, Iteration(j)[n])
    BY <2>1 DEF Silent, Calls
  <2>2. ASSUME NEW b, CountsIn(j, Iteration(j)[n], b),
               NEW k \in 1 .. n - 1, Makes(j, Iteration(j)[k], b)
        PROVE  /\ PhaseFits(j, Iteration(j)[n])
               /\ \A L \in Calls(j, n) : Counts(L) =>
                    \E m \in 1 .. n - 1 : \E K \in Calls(j, m) :
                      MakesLabels(K) /\ LabelCells(K) = LabelCells(L)
    <3>1. PhaseFits(j, Iteration(j)[n])
      BY <2>2 DEF CountsIn
    <3>2. PICK K \in Calls(j, k) : MakesLabels(K) /\ LabelCells(K) = LabelCells(Arguments(j, b))
      BY <2>2 DEF Makes, Calls
    <3>3. \A L \in Calls(j, n) : Counts(L) => LabelCells(L) = LabelCells(Arguments(j, b))
      BY <2>2 DEF CountsIn, Calls
    <3>4. QED
      BY <3>1, <3>2, <3>3
  <2>3. QED
    BY <2>1, <2>2 DEF LabelsFirst
<1>2. QED
  BY <1>1 DEF JobFits, LabelsFirst, Uploaded

\* Phases that count no labels may come at any time,
LEMMA SilentPhase ==
  ASSUME NEW j, NEW ph, NEW call, PhaseOk(ph, ClientSizes(j), call), Sized(ClientSizes(j)),
         call.C = ClustersOf(j), \A i \in DOMAIN ph.launches : ~Counts(ph.launches[i])
  PROVE  Silent(j, ph)
BY PhaseOkFits DEF Silent

\* The arguments of a block of a client.
LEMMA BlockArguments ==
  ASSUME NEW j, DataOK(j), j.client # "reduce_vector_test", NEW b \in 0 .. NumBlocks(j) - 1
  PROVE  /\ ArgsOK(Arguments(j, b)) /\ BuffersOK(ClientSizes(j), Arguments(j, b))
         /\ Sized(ClientSizes(j)) /\ Arguments(j, b).C = ClustersOf(j)
<1>1. Arguments(j, b).C = ClustersOf(j)
  BY ArgumentsFields DEF ClustersOf
<1>2. QED
  BY <1>1, ArgumentsOK, ClientBuffers

\* those at both ends of an iteration,
LEMMA HostSilent ==
  ASSUME NEW j, DataOK(j), j.client # "reduce_vector_test"
  PROVE  Silent(j, Fill(j)) /\ Silent(j, Divide(j))
<1>1. 0 \in 0 .. NumBlocks(j) - 1
  BY DataFacts
<1> DEFINE call == Arguments(j, 0)
<1>2. Sized(ClientSizes(j)) /\ call.C = ClustersOf(j)
  BY <1>1, BlockArguments
<1>3. PhaseOk(Fill(j), ClientSizes(j), call) /\ PhaseOk(Divide(j), ClientSizes(j), call)
  BY <1>1, FillOk, DivideOk
<1> HIDE DEF call
<1>4. QED
  BY <1>2, <1>3, FillUncounted, DivideUncounted, SilentPhase

\* The phases of a block.
LEMMA ThreeStageBlock ==
  ASSUME NEW j, DataOK(j), j.client \in {"three_stage", "three_stage_buffered"},
         NEW b \in 0 .. NumBlocks(j) - 1, BlockOK(j, b)
  PROVE  /\ Makes(j, Labeling(j, b), b)
         /\ CountsIn(j, MassUpdate(j, b), b) /\ CountsIn(j, CentroidUpdate(j, b), b)
<1> DEFINE call == Arguments(j, b)
           host == ClientSizes(j)
<1>1. j.client # "reduce_vector_test"
  OBVIOUS
<1>2. ArgsOK(call) /\ BuffersOK(host, call) /\ Sized(host) /\ call.C = ClustersOf(j)
  BY <1>1, BlockArguments
<1>3. /\ ConfigOK(j.labeling) /\ LabelingOK(j.labeling, j.device, call)
      /\ MassOK(j.mass, call) /\ CentroidOK(j.centroid, call)
  BY DEF BlockOK
<1>4. Labeling(j, b) = LabelingUnrollVector(j.labeling, j.device, call)
  BY DEF Labeling
<1> HIDE DEF call, host
<1>5. PhaseOk(Labeling(j, b), host, call)
  BY <1>2, <1>3, <1>4, LabelingOk
<1>6. /\ \A i \in DOMAIN Labeling(j, b).launches : ~Counts(Labeling(j, b).launches[i])
      /\ \E i \in DOMAIN Labeling(j, b).launches :
           MakesLabels(Labeling(j, b).launches[i])
             /\ LabelCells(Labeling(j, b).launches[i]) = LabelCells(call)
  BY <1>4, LabelingMakes, UncountedAll
<1>7. Silent(j, Labeling(j, b))
  BY <1>2, <1>5, <1>6, SilentPhase DEF host
<1>8. Makes(j, Labeling(j, b), b)
  BY <1>6, <1>7 DEF Makes, call
<1>9. PhaseOk(MassUpdate(j, b), host, call)
  BY <1>2, <1>3, MassPhaseOk DEF call
<1>10. PhaseOk(CentroidUpdate(j, b), host, call)
  BY <1>2, <1>3, CentroidPhaseOk DEF call
<1>11. CountsIn(j, MassUpdate(j, b), b)
  BY <1>2, <1>9, PhaseOkFits DEF CountsIn, call, host
<1>12. CountsIn(j, CentroidUpdate(j, b), b)
  BY <1>2, <1>10, PhaseOkFits DEF CountsIn, call, host
<1>13. QED
  BY <1>8, <1>11, <1>12

\* and the fused phases.
LEMMA SingleStageBlock ==
  ASSUME NEW j, DataOK(j), j.client \in {"single_stage", "single_stage_buffered"},
         NEW b \in 0 .. NumBlocks(j) - 1, BlockOK(j, b)
  PROVE  Silent(j, Fused(j, b))
<1> DEFINE call == Arguments(j, b)
           host == ClientSizes(j)
<1>1. j.client # "reduce_vector_test"
  OBVIOUS
<1>2. ArgsOK(call) /\ BuffersOK(host, call) /\ Sized(host) /\ call.C = ClustersOf(j)
  BY <1>1, BlockArguments
<1>3. SingleStageOK(j.fused, j.device, call)
  BY DEF BlockOK
<1> HIDE DEF call, host
<1>4. PhaseOk(Fused(j, b), host, call) /\ Uncounted(Fused(j, b).launches)
  BY <1>2, <1>3, FusedOneOk DEF call
<1>5. QED
  BY <1>2, <1>4, UncountedAll, SilentPhase DEF host

\* A sequence of m phases, between two others.
Numbered(s, m) == s = [i \in 1 .. m |-> s[i]]

\* A phase before and a phase after the others.
LEMMA Framed ==
  ASSUME NEW m \in Nat, NEW s, Numbered(s, m), NEW a, NEW z
  PROVE  LET t == <<a>> \o s \o <<z>>
         IN  /\ Len(t) = m + 2 /\ t[1] = a /\ t[m + 2] = z
             /\ \A i \in 1 .. m : t[i + 1] = s[i]
<1> DEFINE S == {s[i] : i \in 1 .. m} \cup {a, z}
           first == <<a>>
           last == <<z>>
           u == first \o s
           t == u \o last
<1>1. \A i \in 1 .. m : s[i] \in S
  OBVIOUS
<1>2. first \in Seq(S) /\ Len(first) = 1 /\ first[1] = a /\ last \in Seq(S) /\ Len(last) = 1
        /\ last[1] = z
  OBVIOUS
<1> HIDE DEF S, first, last
<1>3. s \in Seq(S) /\ Len(s) = m
  BY <1>1 DEF Numbered
<1>4. /\ u \in Seq(S) /\ Len(u) = m + 1 /\ u[1] = a
      /\ \A i \in 1 .. m : u[i + 1] = s[i]
  <2>1. /\ u \in Seq(S) /\ Len(u) = Len(first) + Len(s)
        /\ \A i \in 1 .. Len(first) + Len(s) :
             u[i] = IF i <= Len(first) THEN first[i] ELSE s[i - Len(first)]
    BY <1>2, <1>3, ConcatProperties
  <2> HIDE DEF u
  <2>2. /\ u \in Seq(S) /\ Len(u) = m + 1
        /\ \A i \in 1 .. m + 1 : u[i] = IF i <= 1 THEN a ELSE s[i - 1]
    BY <1>2, <1>3, <2>1
  <2>3. \A i \in 1 .. m : u[i + 1] = s[i]
    BY <2>2
  <2>4. u[1] = a
    BY <2>2
  <2>5. QED
    BY <2>2, <2>3, <2>4
<1> HIDE DEF u
<1>5. /\ Len(t) = m + 2 /\ t[1] = a /\ t[m + 2] = z
      /\ \A i \in 1 .. m : t[i + 1] = s[i]
  <2>1. /\ Len(t) = Len(u) + Len(last)
        /\ \A i \in 1 .. Len(u) + Len(last) : t[i] = IF i <= Len(u) THEN u[i] ELSE last[i - Len(u)]
    BY <1>2, <1>4, ConcatProperties
  <2> HIDE DEF t
  <2>2. /\ Len(t) = m + 2
        /\ \A i \in 1 .. m + 2 : t[i] = IF i <= m + 1 THEN u[i] ELSE last[i - (m + 1)]
    BY <1>2, <1>4, <2>1
  <2>3. t[1] = a /\ t[m + 2] = z
    BY <1>2, <1>4, <2>2
  <2>4. \A i \in 1 .. m : t[i + 1] = s[i]
    BY <1>4, <2>2
  <2>5. QED
    BY <2>2, <2>3, <2>4
<1>6. QED
  BY <1>5 DEF t, u, first, last

\* The three stages label the points before they count them,
LEMMA ThreeStageOrdered ==
  ASSUME NEW j, DataOK(j), j.client = "three_stage", BlockOK(j, 0)
  PROVE  LabelsFirst(j)
<1> DEFINE s == Iteration(j)
<1>1. s = <<Labeling(j, 0), Fill(j), MassUpdate(j, 0), CentroidUpdate(j, 0), Divide(j)>>
  BY DEF Iteration, KmeansThreeStage
<1>2. Silent(j, Fill(j)) /\ Silent(j, Divide(j))
  BY HostSilent
<1>3. 0 \in 0 .. NumBlocks(j) - 1
  BY DataFacts
<1>4. /\ Makes(j, Labeling(j, 0), 0) /\ CountsIn(j, MassUpdate(j, 0), 0)
      /\ CountsIn(j, CentroidUpdate(j, 0), 0)
  BY <1>3, ThreeStageBlock
<1>5. Silent(j, Labeling(j, 0))
  BY <1>4 DEF Makes
<1>6. /\ Len(s) = 5 /\ s[1] = Labeling(j, 0) /\ s[2] = Fill(j) /\ s[3] = MassUpdate(j, 0)
      /\ s[4] = CentroidUpdate(j, 0) /\ s[5] = Divide(j)
  BY <1>1
<1> HIDE DEF s
<1>7. ASSUME NEW n \in 1 .. 5
      PROVE  \/ Silent(j, s[n])
             \/ \E b : CountsIn(j, s[n], b) /\ \E k \in 1 .. n - 1 : Makes(j, s[k], b)
  <2>1. CASE n \in {1, 2, 5}
    BY <1>2, <1>5, <1>6, <2>1
  <2>2. CASE n \in {3, 4}
    <3>1. 1 \in 1 .. n - 1
      BY <2>2
    <3>2. Makes(j, s[1], 0) /\ CountsIn(j, s[n], 0)
      BY <1>4, <1>6, <2>2
    <3>3. QED
      BY <3>1, <3>2
  <2>3. QED
    BY <2>1, <2>2
<1>8. QED
  BY <1>6, <1>7 DEF LabelsFirst, s

\* The phases of the blocks of the buffered client.
PhaseOf(j, i) ==
  CASE i % 3 = 0 -> Labeling(j, i \div 3)
    [] i % 3 = 1 -> MassUpdate(j, i \div 3)
    [] i % 3 = 2 -> CentroidUpdate(j, i \div 3)

\* (the phases of the buffered client come in threes, one block after the other)
LEMMA PhaseOfBlock ==
  ASSUME NEW j, NEW m \in Nat, NEW i \in 0 .. 3 * m - 1
  PROVE  \E b \in 0 .. m - 1 :
           \/ i = 3 * b /\ PhaseOf(j, i) = Labeling(j, b)
           \/ i = 3 * b + 1 /\ PhaseOf(j, i) = MassUpdate(j, b)
           \/ i = 3 * b + 2 /\ PhaseOf(j, i) = CentroidUpdate(j, b)
<1> DEFINE b == i \div 3
           r == i % 3
<1>1. b \in 0 .. m - 1 /\ r \in 0 .. 2 /\ i = 3 * b + r
  OBVIOUS
<1>2. PhaseOf(j, i) = CASE r = 0 -> Labeling(j, b) [] r = 1 -> MassUpdate(j, b)
                          [] r = 2 -> CentroidUpdate(j, b)
  BY DEF PhaseOf
<1> HIDE DEF b, r
<1>3. CASE r = 0
  BY <1>1, <1>2, <1>3
<1>4. CASE r = 1
  BY <1>1, <1>2, <1>4
<1>5. CASE r = 2
  BY <1>1, <1>2, <1>5
<1>6. QED
  BY <1>1, <1>3, <1>4, <1>5

\* block by block,
LEMMA ThreeStageBufferedOrdered ==
  ASSUME NEW j, DataOK(j), j.client = "three_stage_buffered",
         \A b \in 0 .. NumBlocks(j) - 1 : BlockOK(j, b)
  PROVE  LabelsFirst(j)
<1> DEFINE m == NumBlocks(j)
           phases == [i \in 1 .. 3 * m |-> PhaseOf(j, i - 1)]
           s == Iteration(j)
           z == 3 * m
<1>1. m \in Nat \ {0} /\ z \in Nat
  BY DataFacts
<1>2. s = <<Fill(j)>> \o phases \o <<Divide(j)>>
  BY DEF Iteration, KmeansThreeStageBuffered, PhaseOf
<1>3. Numbered(phases, z)
  BY DEF Numbered
<1>4. \A i \in 1 .. z : phases[i] = PhaseOf(j, i - 1)
  OBVIOUS
<1>5. Silent(j, Fill(j)) /\ Silent(j, Divide(j))
  BY HostSilent
<1>6. \A b \in 0 .. m - 1 : /\ Makes(j, Labeling(j, b), b)
                            /\ CountsIn(j, MassUpdate(j, b), b)
                            /\ CountsIn(j, CentroidUpdate(j, b), b)
  BY ThreeStageBlock
<1>6a. z = 3 * m
  OBVIOUS
<1> HIDE DEF m, phases, s, z
<1>7. /\ Len(s) = z + 2 /\ s[1] = Fill(j) /\ s[z + 2] = Divide(j)
      /\ \A i \in 1 .. z : s[i + 1] = phases[i]
  BY <1>1, <1>2, <1>3, Framed
<1>8. ASSUME NEW n \in 1 .. z + 2
      PROVE  \/ Silent(j, s[n])
             \/ \E b : CountsIn(j, s[n], b) /\ \E k \in 1 .. n - 1 : Makes(j, s[k], b)
  <2>1. CASE n \in {1, z + 2}
    BY <1>5, <1>7, <2>1
  <2>2. CASE n - 2 \in 0 .. z - 1
    <3> DEFINE i == n - 2
    <3>1. s[n] = PhaseOf(j, i)
      <4>1. n - 1 \in 1 .. z /\ n = (n - 1) + 1
        BY <1>1, <2>2
      <4>2. s[n] = phases[n - 1]
        BY <1>7, <4>1
      <4>3. QED
        BY <1>4, <4>1, <4>2
    <3>2. PICK b \in 0 .. m - 1 :
             \/ i = 3 * b /\ PhaseOf(j, i) = Labeling(j, b)
             \/ i = 3 * b + 1 /\ PhaseOf(j, i) = MassUpdate(j, b)
             \/ i = 3 * b + 2 /\ PhaseOf(j, i) = CentroidUpdate(j, b)
      BY <1>1, <1>6a, <2>2, PhaseOfBlock
    <3>3. CASE i = 3 * b /\ PhaseOf(j, i) = Labeling(j, b)
      BY <1>6, <3>1, <3>3 DEF Makes
    <3>4. CASE i \in {3 * b + 1, 3 * b + 2} /\ CountsIn(j, s[n], b)
      <4>1. 3 * b + 1 \in 1 .. z /\ 3 * b + 2 \in 1 .. n - 1
        BY <1>1, <1>6a, <2>2, <3>4
      <4>2. s[(3 * b + 1) + 1] = PhaseOf(j, (3 * b + 1) - 1)
        BY <1>4, <1>7, <4>1
      <4>3. PhaseOf(j, 3 * b) = Labeling(j, b)
        <5>1. (3 * b) % 3 = 0 /\ (3 * b) \div 3 = b
          BY <1>1
        <5>2. QED
          BY <5>1 DEF PhaseOf
      <4>4. (3 * b + 1) + 1 = 3 * b + 2 /\ (3 * b + 1) - 1 = 3 * b
        BY <1>1
      <4>5. Makes(j, s[3 * b + 2], b)
        BY <1>6, <4>2, <4>3, <4>4
      <4>6. QED
        BY <3>4, <4>1, <4>5
    <3>5. QED
      BY <1>6, <3>1, <3>2, <3>3, <3>4
  <2>3. QED
    BY <1>1, <2>1, <2>2
<1>9. QED
  BY <1>1, <1>7, <1>8 DEF LabelsFirst, s

\* and the fused phases have nothing to wait for,
LEMMA SingleStageOrdered ==
  ASSUME NEW j, DataOK(j), j.client = "single_stage", BlockOK(j, 0)
  PROVE  LabelsFirst(j)
<1> DEFINE s == Iteration(j)
<1>1. s = <<Fill(j), Fused(j, 0), Divide(j)>>
  BY DEF Iteration, KmeansSingleStage
<1>2. 0 \in 0 .. NumBlocks(j) - 1
  BY DataFacts
<1>3. Silent(j, Fill(j)) /\ Silent(j, Divide(j)) /\ Silent(j, Fused(j, 0))
  BY <1>2, HostSilent, SingleStageBlock
<1>4. Len(s) = 3 /\ s[1] = Fill(j) /\ s[2] = Fused(j, 0) /\ s[3] = Divide(j)
  BY <1>1
<1> HIDE DEF s
<1>5. \A n \in 1 .. 3 : Silent(j, s[n])
  BY <1>3, <1>4
<1>6. QED
  BY <1>4, <1>5 DEF LabelsFirst, s

\* in blocks or at once.
LEMMA SingleStageBufferedOrdered ==
  ASSUME NEW j, DataOK(j), j.client = "single_stage_buffered",
         \A b \in 0 .. NumBlocks(j) - 1 : BlockOK(j, b)
  PROVE  LabelsFirst(j)
<1> DEFINE m == NumBlocks(j)
           phases == [i \in 1 .. m |-> Fused(j, i - 1)]
           s == Iteration(j)
<1>1. m \in Nat \ {0}
  BY DataFacts
<1>2. s = <<Fill(j)>> \o phases \o <<Divide(j)>>
  BY DEF Iteration, KmeansSingleStageBuffered
<1>3. Numbered(phases, m) /\ \A i \in 1 .. m : phases[i] = Fused(j, i - 1)
  BY DEF Numbered
<1>4. Silent(j, Fill(j)) /\ Silent(j, Divide(j))
  BY HostSilent
<1>5. \A b \in 0 .. m - 1 : Silent(j, Fused(j, b))
  BY SingleStageBlock
<1> HIDE DEF m, phases, s
<1>6. /\ Len(s) = m + 2 /\ s[1] = Fill(j) /\ s[m + 2] = Divide(j)
      /\ \A i \in 1 .. m : s[i + 1] = phases[i]
  BY <1>1, <1>2, <1>3, Framed
<1>7. ASSUME NEW n \in 1 .. m + 2
      PROVE  Silent(j, s[n])
  <2>1. CASE n \in {1, m + 2}
    BY <1>4, <1>6, <2>1
  <2>2. CASE n - 1 \in 1 .. m
    <3>1. s[n] = Fused(j, n - 2)
      <4>1. n = (n - 1) + 1 /\ n - 2 = (n - 1) - 1
        BY <1>1
      <4>2. s[n] = phases[n - 1]
        BY <1>6, <2>2, <4>1
      <4>3. QED
        BY <1>3, <2>2, <4>1, <4>2
    <3>2. n - 2 \in 0 .. m - 1
      BY <1>1, <2>2
    <3>3. QED
      BY <1>5, <3>1, <3>2
  <2>3. QED
    BY <1>1, <2>1, <2>2
<1>8. QED
  BY <1>1, <1>6, <1>7 DEF LabelsFirst, s

\* The test of the reduction has one phase.
LEMMA TestFits ==
  ASSUME NEW j, j.client = "reduce_vector_test", TestOK(j)
  PROVE  JobFits(j)
<1> DEFINE call == [N |-> 0, b |-> 0, C |-> 1]
           other == [N |-> 1, b |-> 0, C |-> 1]
           s == Iteration(j)
<1>1. /\ Sized(ClientSizes(j)) /\ Len(s) = 1
      /\ PhaseOk(s[1], ClientSizes(j), call) /\ PhaseOk(s[1], ClientSizes(j), other)
  BY TestPhaseOk
<1>2. call.C = ClustersOf(j) /\ other.C = ClustersOf(j)
  BY DEF ClustersOf
<1>3. LabelCells(call) # LabelCells(other)
  <2>1. LabelCells(call) = {} /\ InBlock(other, "labels", 0) \in LabelCells(other)
    BY DEF LabelCells
  <2>2. QED
    BY <2>1
<1> HIDE DEF call, other, s
<1>4. PhaseFits(j, s[1]) /\ \A i \in DOMAIN s[1].launches : ~Counts(s[1].launches[i])
  <2>1. \A i \in DOMAIN s[1].launches :
          Counts(s[1].launches[i]) => LabelCells(s[1].launches[i]) = LabelCells(call)
    BY <1>1, <1>2, PhaseOkFits
  <2>2. \A i \in DOMAIN s[1].launches :
          Counts(s[1].launches[i]) => LabelCells(s[1].launches[i]) = LabelCells(other)
    BY <1>1, <1>2, PhaseOkFits
  <2>3. PhaseFits(j, s[1])
    BY <1>1, <1>2, PhaseOkFits
  <2>4. QED
    BY <1>3, <2>1, <2>2, <2>3
<1>5. \A n \in 1 .. 1 : Silent(j, s[n])
  BY <1>4 DEF Silent
<1>6. LabelsFirst(j)
  BY <1>1, <1>5 DEF LabelsFirst, s
<1>7. QED
  BY <1>1, <1>6, TestUploaded, LabelsFirstFits

\* Jobs that the assumption admits fit.
LEMMA JobsFit ==
  ASSUME NEW j, JobOK(j)
  PROVE  JobFits(j)
<1>1. CASE j.client = "reduce_vector_test" /\ TestOK(j)
  BY <1>1, TestFits
<1>2. CASE DataOK(j) /\ \A b \in 0 .. NumBlocks(j) - 1 : BlockOK(j, b)
  <2>1. 0 \in 0 .. NumBlocks(j) - 1
    BY <1>2, DataFacts
  <2>2. BlockOK(j, 0)
    BY <1>2, <2>1
  <2>3. \/ j.client = "three_stage" \/ j.client = "three_stage_buffered"
        \/ j.client = "single_stage" \/ j.client = "single_stage_buffered"
    BY <2>2 DEF BlockOK
  <2>4. LabelsFirst(j)
    BY <1>2, <2>2, <2>3, ThreeStageOrdered, ThreeStageBufferedOrdered, SingleStageOrdered,
       SingleStageBufferedOrdered
  <2>5. j.client # "reduce_vector_test"
    BY <2>3
  <2>6. Sized(ClientSizes(j))
    BY <1>2, <2>1, <2>5, ClientBuffers
  <2>7. Uploaded(Upload(j))
    BY <1>2, <2>5, PointsUploaded DEF Upload
  <2>8. QED
    BY <2>4, <2>6, <2>7, LabelsFirstFits
<1>3. QED
  BY <1>1, <1>2 DEF JobOK

\* The invariant of the queue holds in every state of every job: the wrappers
\* allocate for their kernels what the kernels use, and call them in an order in
\* which labels are made before masses and sums are taken over them.
THEOREM QueueInvariant == Spec => []QInv
<1>1. \A j \in Jobs : JobFits(j)
  BY JobsAssumption, JobsFit
<1>2. Init => QInv
  BY <1>1, QInit
<1>3. QInv /\ [Next]_vars => QInv'
  BY <1>1, QNext
<1>4. QED
  BY <1>2, <1>3, PTL DEF Spec

\* Whatever the clients enqueue, every launch keeps its work items, none goes
\* past its last interval, memory holds whole numbers, and every label is the
\* number of a cluster, as the kernels that index bins and sums by it expect.
THEOREM DeviceTyped == Spec => []DeviceTypeOK
<1>1. QInv => DeviceTypeOK
  BY InvJobTyped
<1>2. QED
  BY <1>1, QueueInvariant, PTL

\* Every phase of every client can be called: the assertions of the wrappers hold,
\* the local size divides the range, the program that a wrapper chooses is one
\* that prepare has built, and no wait list gets the event of an empty reduction.
THEOREM PhasesCalled == Spec => []CallsSucceed
<1>1. QInv => CallsSucceed
  BY DEF QInv, CallsInv, CallsSucceed
<1>2. QED
  BY <1>1, QueueInvariant, PTL

\* No work item ever reads, writes or adds outside of a buffer: sizes on the
\* host and indices in the kernels agree, with every number of points, and with
\* items or vectors left over.
THEOREM StaysInBounds == Spec => []InBounds
<1>1. QInv => InBounds
  BY InvInBounds
<1>2. QED
  BY <1>1, QueueInvariant, PTL

\* The kernels have no data race: items that use the same cell, not both to read
\* or to add atomically, are of one group and have a barrier between them that
\* orders the address space of the cell.
THEOREM RaceFree == Spec => []NoDataRace
<1>1. QInv => NoDataRace
  BY InvNoRace
<1>2. QED
  BY <1>1, QueueInvariant, PTL

\* The items of a group always have the same number of barriers before them,
\* also where the loop around a barrier depends on the item.
THEOREM BarriersMeet == Spec => []UniformBarriers
<1>1. QInv => UniformBarriers
  BY InvUniform
<1>2. QED
  BY <1>1, QueueInvariant, PTL
=============================================================================
