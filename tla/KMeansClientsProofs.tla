------------------------ MODULE KMeansClientsProofs ------------------------
(***************************************************************************)
(* Theorems about the clients that issue their commands to the queues of   *)
(* one device, or to those of two with enough waits: what their queues do  *)
(* is what the commands do one after the other, and that is Lloyd's        *)
(* algorithm, for every number of iterations and calls.                    *)
(***************************************************************************)
EXTENDS KMeansClients, SequenceTheorems, TLAPS

\* Clients without a cache, whose mass and centroid update share a device, the
\* device of the labelling too or a CPU.
Ordered(p) ==
  /\ p.blocks = 1 /\ p.place["mu"] = p.place["cu"]
  /\ \/ p.name = "single_stage" /\ p.place["ll"] = p.place["cu"]
     \/ /\ p.name = "three_stage"
        /\ p.place["ll"] = p.place["cu"] \/ Type[p.place["cu"]] = "cpu"

-----------------------------------------------------------------------------
(***************************************************************************)
(* Commands and memory                                                     *)
(***************************************************************************)
Values ==
  [what : {"zero", "wrong", "centroids", "labels", "sums", "masses"},
   run : Nat, n : Int, blocks : Nat]

Memory == [Buffers -> Values]

Arity == [copy |-> 2, fill |-> 1, label |-> 2, mass |-> 2, sum |-> 2,
          divide |-> 2, fused |-> 4]
Kinds == DOMAIN Arity

\* What the clients issue, and what is in a queue.
Commands ==
  {c \in [q : Devices \cup {"none"}, kind : Kinds \cup {"finish"},
          bufs : Seq(Buffers), awaits : SUBSET Devices, chained : {FALSE}] :
     c.kind # "finish" => c.q \in Devices /\ Len(c.bufs) = Arity[c.kind]}

Operations ==
  {o \in [kind : Kinds, bufs : Seq(Buffers), id : Nat, after : {0}] :
     Len(o.bufs) = Arity[o.kind]}

Effect(c, m) == IF c.kind = "finish" THEN m ELSE After(c, m, 1)

\* One of the two writes what the other uses.
Conflict(a, b) ==
  \/ Written(a) \cap ToSet(b.bufs) # {}
  \/ Written(b) \cap ToSet(a.bufs) # {}

Works == Commands \cup Operations

LEMMA KindNames ==
  /\ Kinds = {"copy", "fill", "label", "mass", "sum", "divide", "fused"}
  /\ Arity.copy = 2 /\ Arity.fill = 1 /\ Arity.label = 2 /\ Arity.mass = 2
  /\ Arity.sum = 2 /\ Arity.divide = 2 /\ Arity.fused = 4
  /\ \A k \in Kinds : Arity[k] \in 1 .. 4
BY DEF Kinds, Arity

LEMMA ValuesOf ==
  /\ Zero \in Values /\ Wrong \in Values
  /\ \A v \in Values : Labelled(v) \in Values
  /\ \A v, w \in Values : /\ Added("sums", v, w) \in Values
                          /\ Added("masses", v, w) \in Values
                          /\ Divided(v, w, 1) \in Values
<1>1. Zero \in Values /\ Wrong \in Values
  BY DEF Zero, Wrong, Value, Values
<1>2. \A v \in Values : Labelled(v) \in Values
  BY <1>1 DEF Labelled, Value, Values
<1>3. ASSUME NEW v \in Values, NEW w \in Values
      PROVE  /\ Added("sums", v, w) \in Values
             /\ Added("masses", v, w) \in Values
  <2>1. Zero.blocks = 0
    BY DEF Zero, Value
  <2>2. w.blocks + 1 \in Nat
    BY DEF Values
  <2>3. /\ Value("sums", v.run, v.n, w.blocks + 1) \in Values
        /\ Value("masses", v.run, v.n, w.blocks + 1) \in Values
    BY <2>2 DEF Value, Values
  <2>4. QED
    BY <2>3, <1>1 DEF Added
<1>4. ASSUME NEW v \in Values, NEW w \in Values
      PROVE  Divided(v, w, 1) \in Values
  <2>1. Value("centroids", w.run, w.n + 1, 0) \in Values
    BY DEF Value, Values
  <2>2. QED
    BY <2>1, <1>1 DEF Divided
<1>5. QED
  BY <1>1, <1>2, <1>3, <1>4

\* The buffers of a command.
LEMMA BuffersOf ==
  ASSUME NEW c \in Works, c.kind # "finish"
  PROVE  /\ c.kind \in Kinds /\ Len(c.bufs) = Arity[c.kind]
         /\ \A k \in 1 .. Arity[c.kind] : c.bufs[k] \in ToSet(c.bufs)
         /\ \A k \in 1 .. Arity[c.kind] : c.bufs[k] \in Buffers
         /\ ToSet(c.bufs) \subseteq Buffers
         /\ Written(c) \subseteq ToSet(c.bufs)
<1>1. /\ c.kind \in Kinds /\ Len(c.bufs) = Arity[c.kind] /\ c.bufs \in Seq(Buffers)
  BY DEF Works, Commands, Operations
<1>2. /\ \A k \in 1 .. Len(c.bufs) : c.bufs[k] \in ToSet(c.bufs)
      /\ \A k \in 1 .. Len(c.bufs) : c.bufs[k] \in Buffers
      /\ ToSet(c.bufs) \subseteq Buffers
  BY <1>1 DEF ToSet
<1>3. Written(c) \subseteq ToSet(c.bufs)
  BY <1>1, <1>2, KindNames DEF Written
<1>4. QED
  BY <1>1, <1>2, <1>3

-----------------------------------------------------------------------------
(***************************************************************************)
(* What a command reads and writes                                         *)
(***************************************************************************)
LEMMA EffectType ==
  ASSUME NEW c \in Works, NEW m \in Memory
  PROVE  Effect(c, m) \in Memory
<1>1. CASE c.kind = "finish"
  BY <1>1 DEF Effect
<1>2. CASE c.kind # "finish"
  <2>1. \A k \in 1 .. Arity[c.kind] : m[c.bufs[k]] \in Values
    BY <1>2, BuffersOf DEF Memory
  <2>2. c.kind \in Kinds
    BY <1>2, BuffersOf
  <2>3. CASE c.kind = "copy"
    <3>1. m[c.bufs[1]] \in Values
      BY <2>3, <2>1, KindNames
    <3>2. QED
      BY <2>3, <3>1 DEF Effect, After, Memory
  <2>4. CASE c.kind = "fill"
    BY <2>4, ValuesOf DEF Effect, After, Memory
  <2>5. CASE c.kind = "label"
    <3>1. Labelled(m[c.bufs[1]]) \in Values
      BY <2>5, <2>1, KindNames, ValuesOf
    <3>2. QED
      BY <2>5, <3>1 DEF Effect, After, Memory
  <2>6. CASE c.kind \in {"mass", "sum"}
    <3>1. /\ Added("masses", m[c.bufs[1]], m[c.bufs[2]]) \in Values
          /\ Added("sums", m[c.bufs[1]], m[c.bufs[2]]) \in Values
      BY <2>6, <2>1, KindNames, ValuesOf
    <3>2. QED
      BY <2>6, <3>1 DEF Effect, After, Memory
  <2>7. CASE c.kind = "divide"
    <3>1. Divided(m[c.bufs[1]], m[c.bufs[2]], 1) \in Values
      BY <2>7, <2>1, KindNames, ValuesOf
    <3>2. QED
      BY <2>7, <3>1 DEF Effect, After, Memory
  <2>8. CASE c.kind = "fused"
    <3>1. Labelled(m[c.bufs[1]]) \in Values
      BY <2>8, <2>1, KindNames, ValuesOf
    <3>2. /\ Added("sums", Labelled(m[c.bufs[1]]), m[c.bufs[3]]) \in Values
          /\ Added("masses", Labelled(m[c.bufs[1]]), m[c.bufs[4]]) \in Values
      BY <2>8, <2>1, <3>1, KindNames, ValuesOf
    <3>3. QED
      BY <2>8, <3>1, <3>2 DEF Effect, After, Memory
  <2>9. QED
    BY <2>2, <2>3, <2>4, <2>5, <2>6, <2>7, <2>8, KindNames
<1>3. QED
  BY <1>1, <1>2

\* What is not written stays.
LEMMA EffectFrame ==
  ASSUME NEW c \in Works, NEW m \in Memory, NEW b \in Buffers,
         c.kind = "finish" \/ b \notin Written(c)
  PROVE  Effect(c, m)[b] = m[b]
<1>1. CASE c.kind = "finish"
  BY <1>1 DEF Effect
<1>2. CASE c.kind # "finish"
  <2>1. c.kind \in Kinds
    BY <1>2, BuffersOf
  <2>2. QED
    BY <1>2, <2>1, KindNames DEF Effect, After, Written, Memory
<1>3. QED
  BY <1>1, <1>2

\* What is written follows from the buffers of the command.
LEMMA EffectReads ==
  ASSUME NEW c \in Works, c.kind # "finish", NEW m1 \in Memory, NEW m2 \in Memory,
         \A b \in ToSet(c.bufs) : m1[b] = m2[b],
         NEW b \in Written(c)
  PROVE  Effect(c, m1)[b] = Effect(c, m2)[b]
<1>1. /\ \A k \in 1 .. Arity[c.kind] : m1[c.bufs[k]] = m2[c.bufs[k]]
      /\ b \in Buffers /\ c.kind \in Kinds
  BY BuffersOf
<1>2. CASE c.kind = "copy"
  BY <1>2, <1>1, KindNames DEF Effect, After, Written, Memory
<1>3. CASE c.kind = "fill"
  BY <1>3, <1>1, KindNames DEF Effect, After, Written, Memory
<1>4. CASE c.kind = "label"
  BY <1>4, <1>1, KindNames DEF Effect, After, Written, Memory
<1>5. CASE c.kind \in {"mass", "sum"}
  BY <1>5, <1>1, KindNames DEF Effect, After, Written, Memory
<1>6. CASE c.kind = "divide"
  BY <1>6, <1>1, KindNames DEF Effect, After, Written, Memory
<1>7. CASE c.kind = "fused"
  BY <1>7, <1>1, KindNames DEF Effect, After, Written, Memory
<1>8. QED
  BY <1>1, <1>2, <1>3, <1>4, <1>5, <1>6, <1>7, KindNames

\* Commands that do not conflict can change places.
LEMMA EffectsCommute ==
  ASSUME NEW a \in Works, a.kind # "finish", NEW c \in Works, c.kind # "finish",
         ~Conflict(a, c), NEW m \in Memory
  PROVE  Effect(a, Effect(c, m)) = Effect(c, Effect(a, m))
<1> DEFINE ma == Effect(a, m)  mc == Effect(c, m)
<1>1. /\ ma \in Memory /\ mc \in Memory
      /\ Effect(a, mc) \in Memory /\ Effect(c, ma) \in Memory
  BY EffectType
<1>2. \A b \in ToSet(a.bufs) : mc[b] = m[b]
  BY EffectFrame, BuffersOf DEF Conflict
<1>3. \A b \in ToSet(c.bufs) : ma[b] = m[b]
  BY EffectFrame, BuffersOf DEF Conflict
<1>4. Written(a) \cap Written(c) = {}
  BY BuffersOf DEF Conflict
<1> HIDE DEF ma, mc
<1>5. ASSUME NEW b \in Buffers PROVE Effect(a, mc)[b] = Effect(c, ma)[b]
  <2>1. CASE b \in Written(a)
    <3>1. Effect(a, mc)[b] = Effect(a, m)[b]
      BY <2>1, <1>1, <1>2, EffectReads
    <3>2. Effect(c, ma)[b] = ma[b]
      BY <2>1, <1>1, <1>4, EffectFrame
    <3>3. QED
      BY <3>1, <3>2 DEF ma
  <2>2. CASE b \in Written(c)
    <3>1. Effect(c, ma)[b] = Effect(c, m)[b]
      BY <2>2, <1>1, <1>3, EffectReads
    <3>2. Effect(a, mc)[b] = mc[b]
      BY <2>2, <1>1, <1>4, EffectFrame
    <3>3. QED
      BY <3>1, <3>2 DEF mc
  <2>3. CASE b \notin Written(a) /\ b \notin Written(c)
    <3>1. Effect(a, mc)[b] = mc[b] /\ Effect(c, ma)[b] = ma[b]
      BY <2>3, <1>1, EffectFrame
    <3>2. ma[b] = m[b] /\ mc[b] = m[b]
      BY <2>3, EffectFrame DEF ma, mc
    <3>3. QED
      BY <3>1, <3>2
  <2>4. QED
    BY <2>1, <2>2, <2>3
<1>6. Effect(a, mc) = Effect(c, ma)
  BY <1>1, <1>5 DEF Memory
<1>7. QED
  BY <1>6 DEF ma, mc

-----------------------------------------------------------------------------
(***************************************************************************)
(* A list of commands, one after the other                                 *)
(***************************************************************************)
\* ms is what memory holds after every command of w, from m on.
Trace(w, m, ms) ==
  /\ ms \in [0 .. Len(w) -> Memory] /\ ms[0] = m
  /\ \A i \in 1 .. Len(w) : ms[i] = Effect(w[i], ms[i - 1])

\* w makes m2 of m1.
Yields(w, m1, m2) == \E ms : Trace(w, m1, ms) /\ ms[Len(w)] = m2

LEMMA YieldsNothing ==
  ASSUME NEW m \in Memory
  PROVE  Yields(<<>>, m, m)
<1> DEFINE ms == [i \in 0 .. 0 |-> m]
<1>1. Trace(<<>>, m, ms) /\ ms[Len(<<>>)] = m
  BY DEF Trace
<1>2. QED
  BY <1>1 DEF Yields

LEMMA YieldsEmpty ==
  ASSUME NEW m1, NEW m2, Yields(<<>>, m1, m2)
  PROVE  m1 = m2
BY DEF Yields, Trace

LEMMA YieldsMemory ==
  ASSUME NEW w \in Seq(Works), NEW m1, NEW m2, Yields(w, m1, m2)
  PROVE  m1 \in Memory /\ m2 \in Memory
<1>1. PICK ms : Trace(w, m1, ms) /\ ms[Len(w)] = m2
  BY DEF Yields
<1>2. Len(w) \in Nat
  OBVIOUS
<1>3. QED
  BY <1>1, <1>2 DEF Trace

LEMMA YieldsAppend ==
  ASSUME NEW w \in Seq(Works), NEW c \in Works, NEW m1, NEW m2, Yields(w, m1, m2)
  PROVE  Yields(Append(w, c), m1, Effect(c, m2))
<1>1. PICK ms : Trace(w, m1, ms) /\ ms[Len(w)] = m2
  BY DEF Yields
<1> DEFINE e == Effect(c, m2)
           after == [i \in 0 .. Len(w) + 1 |-> IF i <= Len(w) THEN ms[i] ELSE e]
<1>2. /\ Len(w) \in Nat /\ Len(Append(w, c)) = Len(w) + 1
      /\ Append(w, c)[Len(w) + 1] = c
      /\ \A i \in 1 .. Len(w) : Append(w, c)[i] = w[i]
  OBVIOUS
<1>3. e \in Memory
  BY YieldsMemory, EffectType
<1> HIDE DEF e
<1>4. after \in [0 .. Len(w) + 1 -> Memory] /\ after[0] = m1
  BY <1>1, <1>2, <1>3 DEF Trace
<1>5. ASSUME NEW i \in 1 .. Len(w) + 1
      PROVE  after[i] = Effect(Append(w, c)[i], after[i - 1])
  <2>1. CASE i <= Len(w)
    BY <2>1, <1>1, <1>2 DEF Trace
  <2>2. CASE i = Len(w) + 1
    <3>1. after[i] = e /\ after[i - 1] = m2 /\ Append(w, c)[i] = c
      BY <2>2, <1>1, <1>2
    <3>2. QED
      BY <3>1 DEF e
  <2>3. QED
    BY <2>1, <2>2, <1>2
<1>6. Trace(Append(w, c), m1, after) /\ after[Len(Append(w, c))] = e
  BY <1>2, <1>4, <1>5 DEF Trace
<1>7. QED
  BY <1>6 DEF Yields, e

LEMMA YieldsTail ==
  ASSUME NEW w \in Seq(Works), w # <<>>, NEW m1, NEW m2, Yields(w, m1, m2)
  PROVE  Yields(Tail(w), Effect(Head(w), m1), m2)
<1>1. PICK ms : Trace(w, m1, ms) /\ ms[Len(w)] = m2
  BY DEF Yields
<1> DEFINE rest == [i \in 0 .. Len(w) - 1 |-> ms[i + 1]]
<1>2. /\ Len(w) \in Nat \ {0} /\ Len(Tail(w)) = Len(w) - 1 /\ Head(w) = w[1]
      /\ \A i \in 1 .. Len(w) - 1 : Tail(w)[i] = w[i + 1]
  OBVIOUS
<1>3. rest \in [0 .. Len(w) - 1 -> Memory] /\ rest[0] = Effect(Head(w), m1)
  BY <1>1, <1>2 DEF Trace
<1>4. ASSUME NEW i \in 1 .. Len(w) - 1
      PROVE  rest[i] = Effect(Tail(w)[i], rest[i - 1])
  <2>1. /\ rest[i] = ms[i + 1] /\ rest[i - 1] = ms[i]
        /\ i + 1 \in 1 .. Len(w) /\ (i + 1) - 1 = i
    BY <1>2
  <2>2. ms[i + 1] = Effect(w[i + 1], ms[i])
    BY <2>1, <1>1 DEF Trace
  <2>3. QED
    BY <2>1, <2>2, <1>2
<1>5. Trace(Tail(w), Effect(Head(w), m1), rest) /\ rest[Len(Tail(w))] = m2
  BY <1>1, <1>2, <1>3, <1>4 DEF Trace
<1>6. QED
  BY <1>5 DEF Yields

\* A command that conflicts with none of w can be executed before it.
LEMMA YieldsCommute ==
  ASSUME NEW w \in Seq(Works), NEW c \in Works, c.kind # "finish",
         \A i \in 1 .. Len(w) : w[i].kind # "finish" /\ ~Conflict(w[i], c),
         NEW m1, NEW m2, Yields(w, m1, m2)
  PROVE  Yields(w, Effect(c, m1), Effect(c, m2))
<1>1. PICK ms : Trace(w, m1, ms) /\ ms[Len(w)] = m2
  BY DEF Yields
<1> DEFINE after == [i \in 0 .. Len(w) |-> Effect(c, ms[i])]
<1>2. Len(w) \in Nat /\ \A i \in 1 .. Len(w) : w[i] \in Works
  OBVIOUS
<1>3. after \in [0 .. Len(w) -> Memory]
  BY <1>1, EffectType DEF Trace
<1>4. ASSUME NEW i \in 1 .. Len(w)
      PROVE  after[i] = Effect(w[i], after[i - 1])
  <2>1. /\ i - 1 \in 0 .. Len(w) /\ ms[i - 1] \in Memory
        /\ ms[i] = Effect(w[i], ms[i - 1])
    BY <1>1, <1>2 DEF Trace
  <2>2. Effect(w[i], Effect(c, ms[i - 1])) = Effect(c, Effect(w[i], ms[i - 1]))
    BY <2>1, <1>2, EffectsCommute
  <2>3. QED
    BY <2>1, <2>2, <1>2
<1>5. after[0] = Effect(c, m1) /\ after[Len(w)] = Effect(c, m2)
  BY <1>1, <1>2 DEF Trace
<1>6. Trace(w, Effect(c, m1), after) /\ after[Len(w)] = Effect(c, m2)
  BY <1>3, <1>4, <1>5 DEF Trace
<1>7. QED
  BY <1>6 DEF Yields

-----------------------------------------------------------------------------
(***************************************************************************)
(* Waits.  A client waits between two commands that conflict and are in    *)
(* different queues, or the first has been waited for before.              *)
(***************************************************************************)
ClientTypes ==
  /\ runs \in Nat /\ iteration \in Nat /\ issued \in Nat
  /\ todo \in Seq(Commands) /\ awaits \in SUBSET Queues
  /\ queued \in [Queues -> Seq(Operations)] /\ mem \in Memory

\* In a list of commands,
Spaced(t) ==
  \A i, k \in 1 .. Len(t) :
    /\ i < k /\ t[i].kind # "finish" /\ t[k].kind # "finish" /\ t[i].q # t[k].q
    /\ Conflict(t[i], t[k])
    => \E j \in i .. k - 1 : t[i].q \in t[j].awaits

\* between what is in the queues and what comes,
Guarded ==
  \A q \in Queues : \A i \in 1 .. Len(queued[q]) : \A k \in 1 .. Len(todo) :
    todo[k].kind # "finish" /\ todo[k].q # q /\ Conflict(queued[q][i], todo[k])
    => q \in awaits \/ \E j \in 1 .. k - 1 : q \in todo[j].awaits

\* so that nothing that conflicts is in different queues.
Apart ==
  \A q, r \in Queues : q # r =>
    \A i \in 1 .. Len(queued[q]) : \A k \in 1 .. Len(queued[r]) :
      ~Conflict(queued[q][i], queued[r][k])

\* A list waits for all its commands in the queues qs,
Finished(t, qs) ==
  \A i \in 1 .. Len(t) : t[i].kind # "finish" /\ t[i].q \in qs =>
    \E j \in i .. Len(t) : t[i].q \in t[j].awaits

\* and for those in the queues.
Finishing(qs) ==
  \A q \in qs : \/ queued[q] = <<>> \/ q \in awaits
                \/ \E j \in 1 .. Len(todo) : q \in todo[j].awaits

WaitInv(qs) ==
  /\ Spaced(todo) /\ Guarded /\ Apart
  /\ Finished(todo, qs) /\ Finishing(qs)

\* What Issue makes of a command.
Issued(c) ==
  [kind |-> c.kind, bufs |-> c.bufs, id |-> issued + 1,
   after |-> IF c.chained THEN issued ELSE 0]

LEMMA IssuedCommand ==
  ASSUME ClientTypes, NEW c \in Commands, c.kind # "finish"
  PROVE  /\ Issued(c) \in Operations /\ c.q \in Queues /\ c \in Works
         /\ \A m : Effect(Issued(c), m) = Effect(c, m)
         /\ \A d : /\ Conflict(Issued(c), d) <=> Conflict(c, d)
                   /\ Conflict(d, Issued(c)) <=> Conflict(d, c)
<1>1. /\ Issued(c).kind = c.kind /\ Issued(c).bufs = c.bufs
      /\ Issued(c).id = issued + 1 /\ Issued(c).after = 0
  BY DEF Issued, Commands
<1>2. Issued(c) \in Operations /\ c.q \in Queues /\ c \in Works
  <2>1. /\ c.kind \in Kinds /\ c.bufs \in Seq(Buffers) /\ Len(c.bufs) = Arity[c.kind]
        /\ c.q \in Devices
    BY DEF Commands
  <2>5. c.chained = FALSE /\ issued + 1 \in Nat
    <3>1. c.chained \in {FALSE}
      BY Zenon DEF Commands
    <3>2. issued + 1 \in Nat
      BY DEF ClientTypes
    <3>3. QED
      BY <3>1, <3>2
  <2>2. Issued(c) = [kind |-> c.kind, bufs |-> c.bufs, id |-> issued + 1, after |-> 0]
    BY <2>5 DEF Issued
  <2>3. Issued(c) \in [kind : Kinds, bufs : Seq(Buffers), id : Nat, after : {0}]
    BY <2>1, <2>2, <2>5
  <2>4. QED
    BY <2>1, <2>3, <1>1 DEF Operations, Works, Queues
<1>3. \A m : Effect(Issued(c), m) = Effect(c, m)
  BY <1>1 DEF Effect, After
<1>4. Written(Issued(c)) = Written(c)
  BY <1>1 DEF Written
<1>5. QED
  BY <1>1, <1>2, <1>3, <1>4 DEF Conflict

LEMMA ConflictSymmetric == \A a, b : Conflict(a, b) <=> Conflict(b, a)
BY DEF Conflict

\* The first command of a list.
LEMMA FirstOf ==
  ASSUME ClientTypes, todo # <<>>
  PROVE  /\ Len(todo) \in Nat \ {0} /\ Head(todo) = todo[1] /\ todo[1] \in Commands
         /\ Tail(todo) \in Seq(Commands) /\ Len(Tail(todo)) = Len(todo) - 1
         /\ \A i \in 1 .. Len(Tail(todo)) :
              Tail(todo)[i] = todo[i + 1] /\ i + 1 \in 1 .. Len(todo)
BY DEF ClientTypes

LEMMA FirstQueued ==
  ASSUME ClientTypes, NEW q \in Queues, queued[q] # <<>>
  PROVE  /\ Len(queued[q]) \in Nat \ {0} /\ Head(queued[q]) = queued[q][1]
         /\ queued[q][1] \in Operations /\ queued[q] \in Seq(Operations)
         /\ Tail(queued[q]) \in Seq(Operations)
         /\ Len(Tail(queued[q])) = Len(queued[q]) - 1
         /\ \A i \in 1 .. Len(Tail(queued[q])) :
              Tail(queued[q])[i] = queued[q][i + 1] /\ i + 1 \in 1 .. Len(queued[q])
<1>1. queued[q] \in Seq(Operations)
  BY DEF ClientTypes
<1>2. QED
  BY <1>1

LEMMA QueuedWorks ==
  ASSUME ClientTypes, NEW q \in Queues
  PROVE  /\ queued[q] \in Seq(Works) /\ Len(queued[q]) \in Nat
         /\ \A i \in 1 .. Len(queued[q]) :
              /\ queued[q][i] \in Works /\ queued[q][i].kind # "finish"
              /\ queued[q][i] \in Operations
<1>1. queued[q] \in Seq(Operations)
  BY DEF ClientTypes
<1>2. \A o \in Operations : o.kind # "finish"
  BY KindNames DEF Operations
<1>3. queued[q] \in Seq(Works)
  BY <1>1 DEF Works
<1>4. QED
  BY <1>1, <1>2, <1>3 DEF Works

\* One step of the client: the first command is issued.
IssueFirst(c) ==
  /\ Returned /\ todo # <<>> /\ c = Head(todo)
  /\ todo' = Tail(todo) /\ awaits' = c.awaits
  /\ IF c.kind = "finish" THEN queued' = queued /\ issued' = issued
     ELSE /\ queued' = [queued EXCEPT ![c.q] = Append(@, Issued(c))]
          /\ issued' = issued + 1

LEMMA IssueQueues ==
  ASSUME ClientTypes, NEW c \in Commands, IssueFirst(c), NEW q \in Queues
  PROVE  \/ c.kind # "finish" /\ c.q = q /\ queued'[q] = Append(queued[q], Issued(c))
         \/ (c.kind = "finish" \/ c.q # q) /\ queued'[q] = queued[q]
BY DEF ClientTypes, IssueFirst

LEMMA IssueTypes ==
  ASSUME ClientTypes, NEW c \in Commands, IssueFirst(c),
         mem' = mem, iteration' = iteration, runs' = runs
  PROVE  ClientTypes'
<1>1. todo' \in Seq(Commands) /\ awaits' \in SUBSET Queues
  BY FirstOf DEF IssueFirst, Commands, Queues
<1>2. queued' \in [Queues -> Seq(Operations)] /\ issued' \in Nat
  <2>1. CASE c.kind = "finish"
    BY <2>1 DEF ClientTypes, IssueFirst
  <2>2. CASE c.kind # "finish"
    <3>1. Issued(c) \in Operations /\ c.q \in Queues
      BY <2>2, IssuedCommand
    <3>2. Append(queued[c.q], Issued(c)) \in Seq(Operations)
      BY <3>1 DEF ClientTypes
    <3>3. /\ queued' = [queued EXCEPT ![c.q] = Append(queued[c.q], Issued(c))]
          /\ issued' = issued + 1
      BY <2>2 DEF IssueFirst
    <3>4. queued \in [Queues -> Seq(Operations)] /\ issued \in Nat
      BY DEF ClientTypes
    <3>5. QED
      BY <3>1, <3>2, <3>3, <3>4
  <2>3. QED
    BY <2>1, <2>2
<1>3. QED
  BY <1>1, <1>2 DEF ClientTypes

\* What was in a queue the client has not waited for, and what is new.
LEMMA AfterIssue ==
  ASSUME ClientTypes, NEW c \in Commands, IssueFirst(c), NEW q \in Queues,
         NEW i \in 1 .. Len(queued'[q])
  PROVE  \/ /\ i \in 1 .. Len(queued[q]) /\ queued'[q][i] = queued[q][i]
            /\ q \notin awaits
         \/ c.kind # "finish" /\ c.q = q /\ queued'[q][i] = Issued(c)
<1>1. queued[q] \in Seq(Operations)
  BY DEF ClientTypes
<1>2. q \in awaits => queued[q] = <<>>
  BY DEF IssueFirst, Returned
<1>3. CASE queued'[q] = queued[q]
  BY <1>1, <1>2, <1>3
<1>4. CASE c.kind # "finish" /\ c.q = q /\ queued'[q] = Append(queued[q], Issued(c))
  BY <1>1, <1>2, <1>4
<1>5. QED
  BY <1>3, <1>4, IssueQueues

\* The waits of a list are those of the rest of it.
LEMMA TailSpaced ==
  ASSUME ClientTypes, todo # <<>>, NEW t, t = Tail(todo),
         Spaced(todo), NEW qs, Finished(todo, qs)
  PROVE  Spaced(t) /\ Finished(t, qs)
<1>1. /\ Len(todo) \in Nat \ {0} /\ Len(t) = Len(todo) - 1
      /\ \A i \in 1 .. Len(t) : t[i] = todo[i + 1] /\ i + 1 \in 1 .. Len(todo)
  BY FirstOf
<1>2. ASSUME NEW i \in 1 .. Len(t), NEW k \in 1 .. Len(t), i < k,
             t[i].kind # "finish", t[k].kind # "finish", t[i].q # t[k].q,
             Conflict(t[i], t[k])
      PROVE  \E j \in i .. k - 1 : t[i].q \in t[j].awaits
  <2>1. PICK j \in i + 1 .. (k + 1) - 1 : todo[i + 1].q \in todo[j].awaits
    BY <1>1, <1>2 DEF Spaced
  <2>2. j - 1 \in i .. k - 1 /\ t[j - 1] = todo[j]
    BY <1>1, <2>1
  <2>3. QED
    BY <1>1, <2>1, <2>2
<1>3. ASSUME NEW i \in 1 .. Len(t), t[i].kind # "finish", t[i].q \in qs
      PROVE  \E j \in i .. Len(t) : t[i].q \in t[j].awaits
  <2>1. PICK j \in i + 1 .. Len(todo) : todo[i + 1].q \in todo[j].awaits
    BY <1>1, <1>3 DEF Finished
  <2>2. j - 1 \in i .. Len(t) /\ t[j - 1] = todo[j]
    BY <1>1, <2>1
  <2>3. QED
    BY <1>1, <2>1, <2>2
<1>4. QED
  BY <1>2, <1>3 DEF Spaced, Finished

\* An await of the list is one of the rest, or of the command issued.
LEMMA AwaitLater ==
  ASSUME ClientTypes, NEW c \in Commands, IssueFirst(c),
         NEW q, NEW n \in Nat, n <= Len(todo),
         NEW j \in 1 .. n, q \in todo[j].awaits
  PROVE  q \in awaits' \/ \E l \in 1 .. n - 1 : q \in todo'[l].awaits
<1>1. /\ Len(todo) \in Nat \ {0} /\ Head(todo) = todo[1]
      /\ Len(Tail(todo)) = Len(todo) - 1
      /\ \A i \in 1 .. Len(Tail(todo)) : Tail(todo)[i] = todo[i + 1]
  BY FirstOf DEF IssueFirst
<1>2. c = todo[1] /\ todo' = Tail(todo) /\ awaits' = c.awaits
  BY <1>1 DEF IssueFirst
<1>3. CASE j = 1
  BY <1>2, <1>3
<1>4. CASE j # 1
  <2>1. j - 1 \in 1 .. n - 1 /\ j - 1 \in 1 .. Len(Tail(todo)) /\ (j - 1) + 1 = j
    BY <1>1, <1>4
  <2>2. todo'[j - 1] = todo[j]
    BY <2>1, <1>1, <1>2
  <2>3. QED
    BY <2>1, <2>2
<1>5. QED
  BY <1>3, <1>4

\* Issuing a command keeps the waits, and finds no conflict in another queue.
LEMMA IssueWaits ==
  ASSUME ClientTypes, NEW c \in Commands, IssueFirst(c),
         NEW qs \in SUBSET Queues, WaitInv(qs)
  PROVE  WaitInv(qs)'
<1> DEFINE t == Tail(todo)
<1>1. /\ Len(todo) \in Nat \ {0} /\ todo[1] = c /\ todo' = t
      /\ Len(t) = Len(todo) - 1 /\ awaits' = c.awaits
      /\ \A i \in 1 .. Len(t) : t[i] = todo[i + 1] /\ i + 1 \in 1 .. Len(todo)
  BY FirstOf DEF IssueFirst
<1>2. Spaced(t) /\ Finished(t, qs)
  BY TailSpaced DEF IssueFirst, WaitInv
<1> HIDE DEF t
<1>3. ASSUME NEW q \in Queues, NEW i \in 1 .. Len(queued'[q]), NEW k \in 1 .. Len(t),
             t[k].kind # "finish", t[k].q # q, Conflict(queued'[q][i], t[k])
      PROVE  q \in awaits' \/ \E j \in 1 .. k - 1 : q \in t[j].awaits
  <2>1. /\ t[k] = todo[k + 1] /\ k + 1 \in 1 .. Len(todo) /\ k \in Nat
        /\ k <= Len(todo) /\ 1 \in 1 .. Len(todo) /\ 1 < k + 1 /\ (k + 1) - 1 = k
    BY <1>1
  <2>2. \E j \in 1 .. k : q \in todo[j].awaits
    <3>1. CASE /\ i \in 1 .. Len(queued[q]) /\ queued'[q][i] = queued[q][i]
               /\ q \notin awaits
      BY <1>3, <2>1, <3>1 DEF WaitInv, Guarded
    <3>2. CASE c.kind # "finish" /\ c.q = q /\ queued'[q][i] = Issued(c)
      <4>1. Conflict(todo[1], todo[k + 1])
        BY <1>1, <1>3, <2>1, <3>2, IssuedCommand
      <4>2. /\ todo[1].kind # "finish" /\ todo[k + 1].kind # "finish"
            /\ todo[1].q # todo[k + 1].q
        BY <1>1, <1>3, <2>1, <3>2
      <4>3. \E j \in 1 .. (k + 1) - 1 : todo[1].q \in todo[j].awaits
        BY <4>1, <4>2, <2>1 DEF WaitInv, Spaced
      <4>4. QED
        BY <4>3, <2>1, <3>2, <1>1
    <3>3. QED
      BY <3>1, <3>2, AfterIssue
  <2>3. QED
    BY <2>1, <2>2, <1>1, AwaitLater
<1>4. ASSUME NEW q \in Queues, NEW r \in Queues, q # r,
             NEW i \in 1 .. Len(queued'[q]), NEW k \in 1 .. Len(queued'[r])
      PROVE  ~Conflict(queued'[q][i], queued'[r][k])
  <2>1. ASSUME NEW s \in Queues, NEW n \in 1 .. Len(queued[s]),
               s \notin awaits, c.kind # "finish", c.q # s
        PROVE  ~Conflict(queued[s][n], Issued(c))
    <3>1. 1 \in 1 .. Len(todo) /\ 1 .. 1 - 1 = {}
      BY <1>1
    <3>2. ~Conflict(queued[s][n], todo[1])
      BY <2>1, <3>1, <1>1 DEF WaitInv, Guarded
    <3>3. QED
      BY <3>2, <1>1, <2>1, IssuedCommand
  <2>2. \/ /\ i \in 1 .. Len(queued[q]) /\ queued'[q][i] = queued[q][i]
           /\ q \notin awaits
        \/ c.kind # "finish" /\ c.q = q /\ queued'[q][i] = Issued(c)
    BY AfterIssue
  <2>3. \/ /\ k \in 1 .. Len(queued[r]) /\ queued'[r][k] = queued[r][k]
           /\ r \notin awaits
        \/ c.kind # "finish" /\ c.q = r /\ queued'[r][k] = Issued(c)
    BY AfterIssue
  <2>4. CASE i \in 1 .. Len(queued[q]) /\ queued'[q][i] = queued[q][i] /\ q \notin awaits
    <3>1. CASE k \in 1 .. Len(queued[r]) /\ queued'[r][k] = queued[r][k]
      BY <1>4, <2>4, <3>1 DEF WaitInv, Apart
    <3>2. CASE c.kind # "finish" /\ c.q = r /\ queued'[r][k] = Issued(c)
      BY <1>4, <2>1, <2>4, <3>2
    <3>3. QED
      BY <2>3, <3>1, <3>2
  <2>5. CASE c.kind # "finish" /\ c.q = q /\ queued'[q][i] = Issued(c)
    <3>1. /\ k \in 1 .. Len(queued[r]) /\ queued'[r][k] = queued[r][k]
          /\ r \notin awaits
      BY <1>4, <2>3, <2>5
    <3>2. ~Conflict(queued[r][k], Issued(c))
      BY <1>4, <2>1, <2>5, <3>1
    <3>3. QED
      BY <2>5, <3>1, <3>2, ConflictSymmetric
  <2>6. QED
    BY <2>2, <2>4, <2>5
<1>5. ASSUME NEW q \in qs
      PROVE  \/ queued'[q] = <<>> \/ q \in awaits'
             \/ \E j \in 1 .. Len(t) : q \in t[j].awaits
  <2>1. q \in Queues /\ Len(todo) \in Nat /\ Len(todo) - 1 = Len(t)
    BY <1>1
  <2>2. CASE queued[q] = <<>> \/ q \in awaits
    <3>1. queued[q] = <<>>
      BY <2>2, <2>1 DEF IssueFirst, Returned
    <3>2. CASE queued'[q] = queued[q]
      BY <3>1, <3>2
    <3>3. CASE c.kind # "finish" /\ c.q = q
      <4>1. \E j \in 1 .. Len(todo) : q \in todo[j].awaits
        BY <1>1, <3>3 DEF WaitInv, Finished
      <4>2. QED
        BY <4>1, <2>1, <1>1, AwaitLater
    <3>4. QED
      BY <2>1, <3>2, <3>3, IssueQueues
  <2>3. CASE \E j \in 1 .. Len(todo) : q \in todo[j].awaits
    <3>1. PICK j \in 1 .. Len(todo) : q \in todo[j].awaits
      BY <2>3
    <3>2. Len(todo) <= Len(todo)
      BY <2>1
    <3>3. q \in awaits' \/ \E l \in 1 .. Len(todo) - 1 : q \in todo'[l].awaits
      BY <3>1, <3>2, <2>1, AwaitLater
    <3>4. QED
      BY <3>3, <2>1, <1>1
  <2>4. QED
    BY <2>2, <2>3 DEF WaitInv, Finishing
<1>6. QED
  BY <1>1, <1>2, <1>3, <1>4, <1>5 DEF WaitInv, Guarded, Apart, Finishing

-----------------------------------------------------------------------------
\* A device executes the first command of q.
LEMMA DeviceTypes ==
  ASSUME ClientTypes, pipeline.blocks = 1, NEW q \in Queues, DeviceStep(q)
  PROVE  /\ ClientTypes'
         /\ mem' = Effect(queued[q][1], mem)
         /\ queued'[q] = Tail(queued[q])
         /\ \A r \in Queues : r # q => queued'[r] = queued[r]
<1>1. queued[q] # <<>>
  BY DEF DeviceStep
<1>2. /\ queued[q][1] \in Works /\ queued[q][1].kind # "finish"
      /\ Head(queued[q]) = queued[q][1] /\ Tail(queued[q]) \in Seq(Operations)
  BY <1>1, FirstQueued, QueuedWorks
<1>3. mem' = Effect(queued[q][1], mem)
  BY <1>2 DEF DeviceStep, Effect
<1>4. mem' \in Memory
  BY <1>2, <1>3, EffectType DEF ClientTypes
<1>5. queued' = [queued EXCEPT ![q] = Tail(queued[q])] /\ queued \in [Queues -> Seq(Operations)]
  BY DEF DeviceStep, ClientTypes
<1>6. queued' \in [Queues -> Seq(Operations)]
  BY <1>2, <1>5
<1>7. QED
  BY <1>3, <1>4, <1>5, <1>6 DEF DeviceStep, ClientTypes, benchmarkVars

LEMMA DeviceWaits ==
  ASSUME ClientTypes, pipeline.blocks = 1, NEW q \in Queues, DeviceStep(q),
         NEW qs \in SUBSET Queues, WaitInv(qs)
  PROVE  WaitInv(qs)'
<1>1. todo' = todo /\ awaits' = awaits /\ queued[q] # <<>>
  BY DEF DeviceStep
<1>2. ASSUME NEW r \in Queues, NEW i \in 1 .. Len(queued'[r])
      PROVE  \E k \in 1 .. Len(queued[r]) : queued'[r][i] = queued[r][k]
  <2>1. CASE r = q
    <3>1. i + 1 \in 1 .. Len(queued[r]) /\ queued'[r][i] = queued[r][i + 1]
      BY <2>1, <1>1, FirstQueued, DeviceTypes
    <3>2. QED
      BY <3>1
  <2>2. CASE r # q
    BY <2>2, DeviceTypes
  <2>3. QED
    BY <2>1, <2>2
<1>3. \A r \in Queues : queued[r] = <<>> => queued'[r] = <<>>
  BY <1>1, DeviceTypes
<1>4. Guarded'
  <2>1. SUFFICES ASSUME NEW r \in Queues, NEW i \in 1 .. Len(queued'[r]),
                        NEW k \in 1 .. Len(todo),
                        todo[k].kind # "finish", todo[k].q # r,
                        Conflict(queued'[r][i], todo[k])
                 PROVE  r \in awaits \/ \E j \in 1 .. k - 1 : r \in todo[j].awaits
    BY <1>1 DEF Guarded
  <2>2. PICK n \in 1 .. Len(queued[r]) : queued'[r][i] = queued[r][n]
    BY <1>2
  <2>3. QED
    BY <2>1, <2>2 DEF WaitInv, Guarded
<1>5. Apart'
  <2>1. SUFFICES ASSUME NEW r \in Queues, NEW s \in Queues, r # s,
                        NEW i \in 1 .. Len(queued'[r]), NEW k \in 1 .. Len(queued'[s])
                 PROVE  ~Conflict(queued'[r][i], queued'[s][k])
    BY DEF Apart
  <2>2. PICK n \in 1 .. Len(queued[r]) : queued'[r][i] = queued[r][n]
    BY <1>2
  <2>3. PICK l \in 1 .. Len(queued[s]) : queued'[s][k] = queued[s][l]
    BY <1>2
  <2>4. QED
    BY <2>1, <2>2, <2>3 DEF WaitInv, Apart
<1>6. Finishing(qs)'
  BY <1>1, <1>3 DEF WaitInv, Finishing
<1>7. QED
  BY <1>1, <1>4, <1>5, <1>6 DEF WaitInv

-----------------------------------------------------------------------------
(***************************************************************************)
(* One after the other.  What is queued for the device of the labelling,   *)
(* then what is queued for the other device, then what is still to issue   *)
(* makes the same of memory in the end, whatever is executed first.        *)
(***************************************************************************)
Labeller(p) == p.place["ll"]
Updater(p) == p.place["cu"]

Ahead(p) == IF Labeller(p) = Updater(p) THEN <<>> ELSE queued[Labeller(p)]

Executes(p, m) ==
  \E m1, m2 : /\ Yields(Ahead(p), mem, m1)
              /\ Yields(queued[Updater(p)], m1, m2)
              /\ Yields(todo, m2, m)

\* The commands of t are for the two devices.
InPlace(p, t) ==
  \A i \in 1 .. Len(t) : t[i].kind # "finish" => t[i].q \in {Labeller(p), Updater(p)}

OthersEmpty(p) ==
  \A q \in Queues : q \notin {Labeller(p), Updater(p)} => queued[q] = <<>>

PlaceInv(p) == InPlace(p, todo) /\ OthersEmpty(p)

LEMMA PlacesOf ==
  ASSUME NEW p \in Pipelines
  PROVE  /\ Labeller(p) \in Devices /\ Updater(p) \in Devices
         /\ Labeller(p) \in Queues /\ Updater(p) \in Queues
         /\ p.place["mu"] \in Devices
BY ClientsAssumption DEF PipelineType, Phases, Labeller, Updater, Queues

LEMMA AheadWorks ==
  ASSUME ClientTypes, NEW p \in Pipelines
  PROVE  Ahead(p) \in Seq(Works)
BY QueuedWorks, PlacesOf DEF Ahead

LEMMA IssuePlaces ==
  ASSUME ClientTypes, NEW p \in Pipelines, NEW c \in Commands, IssueFirst(c), PlaceInv(p)
  PROVE  PlaceInv(p)'
<1>1. /\ 1 \in 1 .. Len(todo) /\ todo[1] = c /\ todo' = Tail(todo)
      /\ \A i \in 1 .. Len(todo') : todo'[i] = todo[i + 1] /\ i + 1 \in 1 .. Len(todo)
  BY FirstOf DEF IssueFirst
<1>2. InPlace(p, todo)'
  BY <1>1 DEF PlaceInv, InPlace, Labeller, Updater
<1>3. c.kind # "finish" => c.q \in {Labeller(p), Updater(p)}
  BY <1>1 DEF PlaceInv, InPlace
<1>4. OthersEmpty(p)'
  BY <1>3, IssueQueues DEF PlaceInv, OthersEmpty, Labeller, Updater
<1>5. QED
  BY <1>2, <1>4 DEF PlaceInv

LEMMA IssueExecutes ==
  ASSUME ClientTypes, NEW p \in Pipelines, NEW c \in Commands, IssueFirst(c),
         mem' = mem, PlaceInv(p), NEW qs \in SUBSET Queues, WaitInv(qs),
         NEW m, Executes(p, m)
  PROVE  Executes(p, m)'
<1> DEFINE l == Labeller(p)  u == Updater(p)  o == Issued(c)
<1>1. PICK m1, m2 : /\ Yields(Ahead(p), mem, m1) /\ Yields(queued[u], m1, m2)
                    /\ Yields(todo, m2, m)
  BY DEF Executes
<1>2. /\ todo \in Seq(Works) /\ todo # <<>> /\ Head(todo) = c /\ todo' = Tail(todo)
      /\ 1 \in 1 .. Len(todo) /\ todo[1] = c /\ c \in Works
  BY FirstOf DEF ClientTypes, IssueFirst, Works
<1>3. Yields(todo', Effect(c, m2), m)
  BY <1>1, <1>2, YieldsTail
<1>4. l \in Queues /\ u \in Queues /\ (c.kind # "finish" => c.q \in {l, u})
  BY <1>2, PlacesOf DEF PlaceInv, InPlace
<1>5. /\ Ahead(p) \in Seq(Works) /\ queued[u] \in Seq(Works)
      /\ Ahead(p)' = IF l = u THEN <<>> ELSE queued'[l]
  BY AheadWorks, QueuedWorks, PlacesOf DEF Ahead, Labeller, Updater
<1>6. CASE c.kind = "finish"
  <2>1. queued' = queued /\ Effect(c, m2) = m2
    BY <1>6 DEF IssueFirst, Effect
  <2>2. Ahead(p)' = Ahead(p)
    BY <2>1 DEF Ahead, Labeller, Updater
  <2>3. QED
    BY <1>1, <1>3, <2>1, <2>2 DEF Executes, Updater
<1>7. CASE c.kind # "finish"
  <2>1. /\ o \in Works /\ o.kind # "finish"
        /\ \A n : Effect(o, n) = Effect(c, n)
    <3>1. o \in Operations /\ \A n : Effect(o, n) = Effect(c, n)
      BY <1>7, IssuedCommand
    <3>2. o.kind # "finish"
      BY <1>7 DEF Issued
    <3>3. QED
      BY <3>1, <3>2 DEF Works
  <2>2. /\ c.q \in Queues
        /\ \A q \in Queues : queued'[q] = IF q = c.q THEN Append(queued[q], o) ELSE queued[q]
    BY <1>7, IssueQueues, IssuedCommand
  <2> HIDE DEF l, u, o
  <2>3. CASE c.q = u
    <3>1. queued'[u] = Append(queued[u], o) /\ (l # u => queued'[l] = queued[l])
      BY <1>4, <2>2, <2>3
    <3>2. Yields(queued'[u], m1, Effect(c, m2))
      BY <1>1, <1>5, <2>1, <3>1, YieldsAppend
    <3>3. Ahead(p)' = Ahead(p)
      BY <1>5, <3>1 DEF Ahead, l, u
    <3>4. QED
      BY <1>1, <1>3, <3>2, <3>3 DEF Executes, u, Updater
  <2>4. CASE c.q # u
    <3>1. c.q = l /\ l # u
      BY <1>4, <1>7, <2>4
    <3>2. queued'[l] = Append(queued[l], o) /\ queued'[u] = queued[u] /\ Ahead(p) = queued[l]
      BY <1>4, <2>2, <3>1 DEF Ahead, l, u
    <3>3. Yields(queued'[l], mem, Effect(o, m1))
      BY <1>1, <1>5, <2>1, <3>2, YieldsAppend
    <3>4. ASSUME NEW i \in 1 .. Len(queued[u])
          PROVE  queued[u][i].kind # "finish" /\ ~Conflict(queued[u][i], o)
      <4>1. queued[u][i].kind # "finish"
        BY <1>4, QueuedWorks
      <4>2. /\ Len(queued[l]) + 1 \in 1 .. Len(queued'[l])
            /\ queued'[l][Len(queued[l]) + 1] = o
        BY <1>4, <3>2, QueuedWorks
      <4>3. Apart'
        BY IssueWaits DEF WaitInv
      <4>4. ~Conflict(queued'[u][i], queued'[l][Len(queued[l]) + 1])
        BY <1>4, <3>1, <3>2, <4>2, <4>3 DEF Apart
      <4>5. QED
        BY <3>2, <4>1, <4>2, <4>4
    <3>5. Yields(queued[u], Effect(o, m1), Effect(o, m2))
      BY <1>1, <1>5, <2>1, <3>4, YieldsCommute
    <3>6. /\ Yields(Ahead(p)', mem', Effect(o, m1))
          /\ Yields(queued'[u], Effect(o, m1), Effect(c, m2))
      BY <1>5, <2>1, <3>1, <3>2, <3>3, <3>5
    <3>7. QED
      BY <1>3, <3>6 DEF Executes, u, Updater
  <2>5. QED
    BY <2>3, <2>4
<1>8. QED
  BY <1>6, <1>7

LEMMA DeviceExecutes ==
  ASSUME ClientTypes, NEW p \in Pipelines, pipeline.blocks = 1,
         NEW q \in Queues, DeviceStep(q), PlaceInv(p),
         NEW qs \in SUBSET Queues, WaitInv(qs)
  PROVE  PlaceInv(p)' /\ \A m : Executes(p, m) => Executes(p, m)'
<1> DEFINE l == Labeller(p)  u == Updater(p)  o == queued[q][1]
<1>1. /\ queued[q] # <<>> /\ todo' = todo /\ mem' = Effect(o, mem)
      /\ queued'[q] = Tail(queued[q]) /\ \A r \in Queues : r # q => queued'[r] = queued[r]
  BY DeviceTypes DEF DeviceStep
<1>2. /\ l \in Queues /\ u \in Queues /\ q \in {l, u} /\ o \in Works /\ o.kind # "finish"
      /\ queued[q] \in Seq(Works) /\ Head(queued[q]) = o /\ 1 \in 1 .. Len(queued[q])
  BY <1>1, FirstQueued, QueuedWorks, PlacesOf DEF PlaceInv, OthersEmpty
<1>3. PlaceInv(p)'
  BY <1>1, <1>2 DEF PlaceInv, InPlace, OthersEmpty, Labeller, Updater
<1>4. ASSUME NEW m, Executes(p, m)
      PROVE  Executes(p, m)'
  <2>1. PICK m1, m2 : /\ Yields(Ahead(p), mem, m1) /\ Yields(queued[u], m1, m2)
                      /\ Yields(todo, m2, m)
    BY <1>4 DEF Executes
  <2>2. /\ Ahead(p) \in Seq(Works) /\ queued[u] \in Seq(Works)
        /\ Ahead(p) = IF l = u THEN <<>> ELSE queued[l]
        /\ Ahead(p)' = IF l = u THEN <<>> ELSE queued'[l]
    BY AheadWorks, QueuedWorks, PlacesOf DEF Ahead, Labeller, Updater
  <2>3. mem \in Memory /\ mem' \in Memory
    BY DeviceTypes DEF ClientTypes
  <2> HIDE DEF l, u, o
  <2>4. CASE q # u
    <3>1. q = l /\ l # u /\ queued'[u] = queued[u]
      BY <1>1, <1>2, <2>4
    <3>2. Yields(Ahead(p)', mem', m1)
      BY <1>1, <1>2, <2>1, <2>2, <3>1, YieldsTail
    <3>3. QED
      BY <1>1, <2>1, <3>1, <3>2 DEF Executes, u, Updater
  <2>5. CASE q = u /\ l = u
    <3>1. mem = m1
      BY <2>1, <2>2, <2>5, YieldsEmpty
    <3>2. Yields(Ahead(p)', mem', mem')
      BY <2>2, <2>3, <2>5, YieldsNothing
    <3>3. Yields(queued'[u], mem', m2)
      BY <1>1, <1>2, <2>1, <2>5, <3>1, YieldsTail
    <3>4. QED
      BY <1>1, <2>1, <3>2, <3>3 DEF Executes, u, Updater
  <2>6. CASE q = u /\ l # u
    <3>1. ASSUME NEW i \in 1 .. Len(queued[l])
          PROVE  queued[l][i].kind # "finish" /\ ~Conflict(queued[l][i], o)
      <4>1. ~Conflict(queued[l][i], queued[u][1])
        BY <1>2, <2>6 DEF WaitInv, Apart
      <4>2. QED
        BY <1>2, <2>6, <4>1, QueuedWorks DEF o
    <3>2. Yields(Ahead(p), Effect(o, mem), Effect(o, m1))
      <4>1. Ahead(p) = queued[l]
        BY <2>2, <2>6
      <4>2. \A i \in 1 .. Len(Ahead(p)) :
              Ahead(p)[i].kind # "finish" /\ ~Conflict(Ahead(p)[i], o)
        BY <3>1, <4>1
      <4>3. QED
        BY <1>2, <2>1, <2>2, <4>2, YieldsCommute
    <3>3. Ahead(p)' = Ahead(p)
      BY <1>1, <1>2, <2>2, <2>6
    <3>4. Yields(queued'[u], Effect(o, m1), m2)
      BY <1>1, <1>2, <2>1, <2>6, YieldsTail
    <3>5. QED
      BY <1>1, <2>1, <3>2, <3>3, <3>4 DEF Executes, u, Updater
  <2>7. QED
    BY <1>2, <2>4, <2>5, <2>6
<1>5. QED
  BY <1>3, <1>4

-----------------------------------------------------------------------------
(***************************************************************************)
(* Lists that are put together                                             *)
(***************************************************************************)
LEMMA Appended3 ==
  ASSUME NEW a, NEW b, NEW c
  PROVE  <<a>> \o <<b, c>> = <<a, b, c>>
<1> DEFINE S == {a, b, c}  s == <<a>> \o <<b, c>>  t == <<a, b, c>>
<1>1. s \in Seq(S) /\ Len(s) = 3 /\ s[1] = a /\ s[2] = b /\ s[3] = c
  OBVIOUS
<1>2. t \in Seq(S) /\ Len(t) = 3 /\ t[1] = a /\ t[2] = b /\ t[3] = c
  OBVIOUS
<1> HIDE DEF S, s, t
<1>3. \A i \in 1 .. 3 : i = 1 \/ i = 2 \/ i = 3
  OBVIOUS
<1>4. \A i \in 1 .. Len(s) : s[i] = t[i]
  BY <1>1, <1>2, <1>3
<1>5. s = t
  BY <1>1, <1>2, <1>4, SeqEqual
<1>6. QED
  BY <1>5 DEF s, t

LEMMA Appended4 ==
  ASSUME NEW a, NEW b, NEW c, NEW d
  PROVE  /\ <<a>> \o <<b>> \o <<c, d>> = <<a, b, c, d>>
         /\ <<a, b>> \o <<c>> \o <<d>> = <<a, b, c, d>>
<1> DEFINE S == {a, b, c, d}  t == <<a, b, c, d>>
           r == <<a>> \o <<b>> \o <<c, d>>  s == <<a, b>> \o <<c>> \o <<d>>
<1>1. r \in Seq(S) /\ Len(r) = 4 /\ r[1] = a /\ r[2] = b /\ r[3] = c /\ r[4] = d
  OBVIOUS
<1>2. s \in Seq(S) /\ Len(s) = 4 /\ s[1] = a /\ s[2] = b /\ s[3] = c /\ s[4] = d
  OBVIOUS
<1>3. t \in Seq(S) /\ Len(t) = 4 /\ t[1] = a /\ t[2] = b /\ t[3] = c /\ t[4] = d
  OBVIOUS
<1> HIDE DEF S, r, s, t
<1>4. \A i \in 1 .. 4 : i = 1 \/ i = 2 \/ i = 3 \/ i = 4
  OBVIOUS
<1>5. \A i \in 1 .. 4 : r[i] = t[i] /\ s[i] = t[i]
  BY <1>1, <1>2, <1>3, <1>4
<1>6. r = t
  BY <1>1, <1>3, <1>5, SeqEqual
<1>7. s = t
  BY <1>2, <1>3, <1>5, SeqEqual
<1>8. QED
  BY <1>6, <1>7 DEF r, s, t

LEMMA Appended6 ==
  ASSUME NEW a, NEW b, NEW c, NEW d, NEW e, NEW f
  PROVE  <<>> \o <<a, b, c>> \o <<>> \o <<d>> \o <<>> \o <<e, f>> = <<a, b, c, d, e, f>>
<1> DEFINE S == {a, b, c, d, e, f}  t == <<a, b, c, d, e, f>>
           s == <<>> \o <<a, b, c>> \o <<>> \o <<d>> \o <<>> \o <<e, f>>
<1>1. /\ Len(s) = 6 /\ s[1] = a /\ s[2] = b /\ s[3] = c /\ s[4] = d
      /\ s[5] = e /\ s[6] = f
  OBVIOUS
<1>2. s \in Seq(S)
  OBVIOUS
<1>3. /\ t \in Seq(S) /\ Len(t) = 6 /\ t[1] = a /\ t[2] = b /\ t[3] = c /\ t[4] = d
      /\ t[5] = e /\ t[6] = f
  OBVIOUS
<1> HIDE DEF S, s, t
<1>4. \A i \in 1 .. 6 : i = 1 \/ i = 2 \/ i = 3 \/ i = 4 \/ i = 5 \/ i = 6
  OBVIOUS
<1>5. \A i \in 1 .. Len(s) : s[i] = t[i]
  BY <1>1, <1>3, <1>4
<1>6. s = t
  BY <1>1, <1>2, <1>3, <1>5, SeqEqual
<1>7. QED
  BY <1>6 DEF s, t

LEMMA Appended9 ==
  ASSUME NEW a, NEW b, NEW c, NEW d, NEW e, NEW f, NEW g, NEW h, NEW k
  PROVE  <<a, b>> \o <<c, d, e>> \o <<f>> \o <<g>> \o <<>> \o <<h, k>>
           = <<a, b, c, d, e, f, g, h, k>>
<1> DEFINE S == {a, b, c, d, e, f, g, h, k}  t == <<a, b, c, d, e, f, g, h, k>>
           s == <<a, b>> \o <<c, d, e>> \o <<f>> \o <<g>> \o <<>> \o <<h, k>>
<1>1. /\ Len(s) = 9 /\ s[1] = a /\ s[2] = b /\ s[3] = c /\ s[4] = d
      /\ s[5] = e /\ s[6] = f /\ s[7] = g /\ s[8] = h /\ s[9] = k
  OBVIOUS
<1>2. s \in Seq(S)
  OBVIOUS
<1>3. /\ t \in Seq(S) /\ Len(t) = 9 /\ t[1] = a /\ t[2] = b /\ t[3] = c /\ t[4] = d
      /\ t[5] = e /\ t[6] = f /\ t[7] = g /\ t[8] = h /\ t[9] = k
  OBVIOUS
<1> HIDE DEF S, s, t
<1>4. \A i \in 1 .. 9 : \/ i = 1 \/ i = 2 \/ i = 3 \/ i = 4 \/ i = 5 \/ i = 6
                        \/ i = 7 \/ i = 8 \/ i = 9
  OBVIOUS
<1>5. \A i \in 1 .. Len(s) : s[i] = t[i]
  BY <1>1, <1>3, <1>4
<1>6. s = t
  BY <1>1, <1>2, <1>3, <1>5, SeqEqual
<1>7. QED
  BY <1>6 DEF s, t

-----------------------------------------------------------------------------
(***************************************************************************)
(* The commands of the clients                                             *)
(***************************************************************************)
\* Their buffers.
LEMMA BufferNames ==
  ASSUME NEW p \in Pipelines, Ordered(p), NEW d \in {Labeller(p), Updater(p)}
  PROVE  /\ \A b \in {"centroids", "labels", "masses"} :
              /\ Host(b) \in Buffers /\ <<b, d, 0>> \in Buffers /\ <<b, d, 1>> \in Buffers
              /\ Host(b)[2] = "host"
         /\ d \in Devices /\ d # "host"
<1>1. p.blocks = 1
  BY DEF Ordered
<1>2. 0 \in 0 .. p.blocks /\ 1 \in 0 .. p.blocks
  BY <1>1
<1>3. 0 \in UNION {0 .. r.blocks : r \in Pipelines} /\ 1 \in UNION {0 .. r.blocks : r \in Pipelines}
  BY <1>2
<1>4. d \in Devices /\ d # "host"
  BY PlacesOf, ClientsAssumption
<1>5. QED
  BY <1>3, <1>4 DEF Buffers, Host

\* What phases of one client share.
LEMMA PlaceNames ==
  ASSUME NEW p \in Pipelines, pipeline = p, Ordered(p)
  PROVE  /\ Place("ll") = Labeller(p) /\ Place("mu") = Updater(p)
         /\ Place("cu") = Updater(p) /\ Client = Updater(p)
         /\ {Place(ph) : ph \in Phases} = {Labeller(p), Updater(p)}
         /\ Shared("cu", "ll") <=> Labeller(p) = Updater(p)
         /\ Shared("ll", "mu") <=> Labeller(p) = Updater(p)
         /\ Shared("ll", "cu") <=> Labeller(p) = Updater(p)
         /\ Shared("mu", "cu")
         /\ p.name = "single_stage" => Labeller(p) = Updater(p)
         /\ Labeller(p) # Updater(p) => Type[Updater(p)] = "cpu"
BY DEF Place, Labeller, Updater, Client, Shared, Ordered, Phases

UploadOf(p) == IF p.name = "three_stage" THEN ThreeStageUpload ELSE SwappingUpload
IterationOf(p, n) ==
  IF p.name = "three_stage" THEN ThreeStageIteration ELSE SwappingIteration(n)
DownloadOf(p) ==
  IF p.name = "three_stage" THEN ThreeStageDownload ELSE SingleStageDownload

Centroids(d, i) == <<"centroids", d, i>>
Labels(d, i) == <<"labels", d, i>>
MassesAt(d) == <<"masses", d, 0>>

\* On one device.
ThreeStageOn(u) ==
  <<Cmd(u, "label", <<Centroids(u, 0), Labels(u, 0)>>),
    Fill(u, MassesAt(u)), Fill(u, Centroids(u, 0)),
    Cmd(u, "mass", <<Labels(u, 0), MassesAt(u)>>),
    Cmd(u, "sum", <<Labels(u, 0), Centroids(u, 0)>>),
    Cmd(u, "divide", <<Centroids(u, 0), MassesAt(u)>>)>>

\* On a device for the labelling and a CPU.
ThreeStageAcross(l, u) ==
  <<Finish({u}),
    Blocking(Copy(l, Centroids(u, 0), Centroids(l, 0))),
    Cmd(l, "label", <<Centroids(l, 0), Labels(l, 0)>>),
    Fill(u, MassesAt(u)), Fill(u, Centroids(u, 0)),
    Blocking(Copy(l, Labels(l, 0), Labels(u, 0))),
    Cmd(u, "mass", <<Labels(u, 0), MassesAt(u)>>),
    Cmd(u, "sum", <<Labels(u, 0), Centroids(u, 0)>>),
    Cmd(u, "divide", <<Centroids(u, 0), MassesAt(u)>>)>>

SingleStageOn(u, old, new) ==
  <<Fill(u, MassesAt(u)), Fill(u, Centroids(u, new)),
    Cmd(u, "fused", <<Centroids(u, old), Labels(u, 1), Centroids(u, new), MassesAt(u)>>),
    Cmd(u, "divide", <<Centroids(u, new), MassesAt(u)>>)>>

Fetch(l, u, i, j) ==
  <<Blocking(Copy(u, Centroids(u, i), Host("centroids"))),
    Blocking(Copy(l, Labels(l, j), Host("labels"))),
    Blocking(Copy(u, MassesAt(u), Host("masses")))>>

LEMMA OneDeviceLists ==
  ASSUME NEW p \in Pipelines, pipeline = p, Ordered(p), p.name = "three_stage",
         Labeller(p) = Updater(p), NEW u, u = Updater(p), NEW n \in Nat
  PROVE  /\ UploadOf(p) = <<Copy(u, Host("centroids"), Centroids(u, 0)), Finish({u}), Finish({u})>>
         /\ IterationOf(p, n) = ThreeStageOn(u)
         /\ DownloadOf(p) = Fetch(u, u, 0, 0)
<1>1. /\ SyncCentroids = <<>> /\ SyncLabelsMu = <<>> /\ SyncLabelsCu = <<>>
      /\ SyncMasses = <<>>
  BY PlaceNames DEF SyncCentroids, SyncLabelsMu, SyncLabelsCu, SyncMasses
<1>2. SyncLabels = <<>>
  BY <1>1 DEF SyncLabels
<1>3. /\ CentroidsOf("ll") = Centroids(u, 0) /\ CentroidsOf("cu") = Centroids(u, 0)
      /\ LabelsOf("ll") = Labels(u, 0) /\ LabelsOf("mu") = Labels(u, 0)
      /\ LabelsOf("cu") = Labels(u, 0)
      /\ MassesOf("mu") = MassesAt(u) /\ MassesOf("cu") = MassesAt(u)
      /\ Place("ll") = u /\ Place("mu") = u /\ Place("cu") = u
  BY PlaceNames DEF CentroidsOf, LabelsOf, MassesOf, Centroids, Labels, MassesAt
<1>4. ThreeStageIteration = ThreeStageOn(u)
  BY <1>1, <1>2, <1>3, Appended6 DEF ThreeStageIteration, ThreeStageOn
<1>5. ThreeStageDownload = Fetch(u, u, 0, 0)
  BY <1>3 DEF ThreeStageDownload, Fetch
<1>6. ThreeStageUpload =
        <<Copy(u, Host("centroids"), Centroids(u, 0)), Finish({u}), Finish({u})>>
  <2>1. /\ Shared("cu", "ll") /\ {Place(ph) : ph \in Phases} = {u}
    BY PlaceNames
  <2>2. \A a : <<a>> \o <<>> = <<a>>
    OBVIOUS
  <2>3. ThreeStageUpload =
          <<Copy(u, Host("centroids"), Centroids(u, 0))>> \o <<>>
            \o <<Finish({u}), Finish({u})>>
    BY <1>3, <2>1 DEF ThreeStageUpload
  <2>4. QED
    BY <2>2, <2>3, Appended3
<1>7. QED
  BY <1>4, <1>5, <1>6 DEF UploadOf, IterationOf, DownloadOf

LEMMA TwoDeviceLists ==
  ASSUME NEW p \in Pipelines, pipeline = p, Ordered(p), p.name = "three_stage",
         NEW l, l = Labeller(p), NEW u, u = Updater(p), l # u, NEW n \in Nat
  PROVE  /\ UploadOf(p) =
              <<Copy(l, Host("centroids"), Centroids(l, 0)),
                Blocking(Copy(u, Host("centroids"), Centroids(u, 0))),
                Finish({l}), Finish({l, u})>>
         /\ IterationOf(p, n) = ThreeStageAcross(l, u)
         /\ DownloadOf(p) = Fetch(l, u, 0, 0)
<1>1. /\ CentroidsOf("ll") = Centroids(l, 0) /\ CentroidsOf("cu") = Centroids(u, 0)
      /\ LabelsOf("ll") = Labels(l, 0) /\ LabelsOf("mu") = Labels(u, 0)
      /\ LabelsOf("cu") = Labels(u, 0)
      /\ MassesOf("mu") = MassesAt(u) /\ MassesOf("cu") = MassesAt(u)
      /\ Place("ll") = l /\ Place("mu") = u /\ Place("cu") = u
      /\ ~Shared("cu", "ll") /\ ~Shared("ll", "mu") /\ ~Shared("ll", "cu")
      /\ Shared("mu", "cu") /\ Type[u] = "cpu"
  BY PlaceNames DEF CentroidsOf, LabelsOf, MassesOf, Centroids, Labels, MassesAt
<1>2. SyncCentroids = <<Finish({u}), Blocking(Copy(l, Centroids(u, 0), Centroids(l, 0)))>>
  BY <1>1 DEF SyncCentroids
<1>3. SyncLabels = <<Blocking(Copy(l, Labels(l, 0), Labels(u, 0)))>>
  <2>1. SyncLabelsMu = <<Blocking(Copy(l, Labels(l, 0), Labels(u, 0)))>>
    BY <1>1 DEF SyncLabelsMu
  <2>2. SyncLabelsCu = <<>>
    BY <1>1 DEF SyncLabelsCu
  <2>3. \A a : <<a>> \o <<>> = <<a>>
    OBVIOUS
  <2>4. QED
    BY <2>1, <2>2, <2>3 DEF SyncLabels
<1>4. SyncMasses = <<>>
  BY <1>1 DEF SyncMasses
<1>5. ThreeStageIteration = ThreeStageAcross(l, u)
  <2> DEFINE ll == <<Cmd(Place("ll"), "label", <<CentroidsOf("ll"), LabelsOf("ll")>>),
                     Fill(Place("mu"), MassesOf("mu")), Fill(Place("cu"), CentroidsOf("cu"))>>
             mu == <<Cmd(Place("mu"), "mass", <<LabelsOf("mu"), MassesOf("mu")>>)>>
             cu == <<Cmd(Place("cu"), "sum", <<LabelsOf("cu"), CentroidsOf("cu")>>),
                     Cmd(Place("cu"), "divide", <<CentroidsOf("cu"), MassesOf("cu")>>)>>
  <2>1. ThreeStageIteration = SyncCentroids \o ll \o SyncLabels \o mu \o SyncMasses \o cu
    BY DEF ThreeStageIteration
  <2>2. /\ ll = <<Cmd(l, "label", <<Centroids(l, 0), Labels(l, 0)>>),
                  Fill(u, MassesAt(u)), Fill(u, Centroids(u, 0))>>
        /\ mu = <<Cmd(u, "mass", <<Labels(u, 0), MassesAt(u)>>)>>
        /\ cu = <<Cmd(u, "sum", <<Labels(u, 0), Centroids(u, 0)>>),
                  Cmd(u, "divide", <<Centroids(u, 0), MassesAt(u)>>)>>
    BY <1>1
  <2> HIDE DEF ll, mu, cu
  <2> DEFINE c1 == Finish({u})
             c2 == Blocking(Copy(l, Centroids(u, 0), Centroids(l, 0)))
             c3 == Cmd(l, "label", <<Centroids(l, 0), Labels(l, 0)>>)
             c4 == Fill(u, MassesAt(u))
             c5 == Fill(u, Centroids(u, 0))
             c6 == Blocking(Copy(l, Labels(l, 0), Labels(u, 0)))
             c7 == Cmd(u, "mass", <<Labels(u, 0), MassesAt(u)>>)
             c8 == Cmd(u, "sum", <<Labels(u, 0), Centroids(u, 0)>>)
             c9 == Cmd(u, "divide", <<Centroids(u, 0), MassesAt(u)>>)
  <2>3. /\ SyncCentroids = <<c1, c2>> /\ ll = <<c3, c4, c5>> /\ SyncLabels = <<c6>>
        /\ mu = <<c7>> /\ cu = <<c8, c9>>
    BY <1>2, <1>3, <2>2
  <2>4. ThreeStageAcross(l, u) = <<c1, c2, c3, c4, c5, c6, c7, c8, c9>>
    BY DEF ThreeStageAcross
  <2> HIDE DEF c1, c2, c3, c4, c5, c6, c7, c8, c9
  <2>5. <<c1, c2>> \o <<c3, c4, c5>> \o <<c6>> \o <<c7>> \o <<>> \o <<c8, c9>>
          = <<c1, c2, c3, c4, c5, c6, c7, c8, c9>>
    BY Appended9
  <2>6. QED
    BY <1>4, <2>1, <2>3, <2>4, <2>5
<1>6. ThreeStageDownload = Fetch(l, u, 0, 0)
  BY <1>1 DEF ThreeStageDownload, Fetch
<1>7. ThreeStageUpload =
        <<Copy(l, Host("centroids"), Centroids(l, 0)),
          Blocking(Copy(u, Host("centroids"), Centroids(u, 0))),
          Finish({l}), Finish({l, u})>>
  <2>1. {Place(ph) : ph \in Phases} = {l, u}
    BY PlaceNames
  <2> DEFINE all == {Place(ph) : ph \in Phases}
  <2>2. ThreeStageUpload =
          <<Copy(Place("ll"), Host("centroids"), CentroidsOf("ll"))>>
            \o <<Blocking(Copy(Place("cu"), Host("centroids"), CentroidsOf("cu")))>>
            \o <<Finish({Place("ll")}), Finish(all)>>
    BY <1>1 DEF ThreeStageUpload
  <2>3. all = {l, u}
    BY <2>1
  <2> HIDE DEF all
  <2>4. QED
    BY <1>1, <2>2, <2>3, Appended4
<1>8. QED
  BY <1>5, <1>6, <1>7 DEF UploadOf, IterationOf, DownloadOf

LEMMA SingleStageLists ==
  ASSUME NEW p \in Pipelines, pipeline = p, Ordered(p), p.name = "single_stage",
         NEW u, u = Updater(p), NEW n \in Nat
  PROVE  /\ UploadOf(p) = <<Copy(u, Host("centroids"), Centroids(u, 0)), Finish({u})>>
         /\ IterationOf(p, n) = SingleStageOn(u, n % 2, (n + 1) % 2)
         /\ DownloadOf(p) = Fetch(u, u, MaxIterations % 2, 1)
<1>1. Client = u /\ 0 % 2 = 0
  BY PlaceNames
<1>2. /\ \A i : OldCentroids(i) = Centroids(u, i % 2)
      /\ \A i : NewCentroids(i) = Centroids(u, (i + 1) % 2)
      /\ BlockLabels(1) = Labels(u, 1) /\ Masses = MassesAt(u)
  BY <1>1 DEF OldCentroids, NewCentroids, BlockLabels, Masses, Centroids, Labels, MassesAt
<1>3. SwappingIteration(n) = SingleStageOn(u, n % 2, (n + 1) % 2)
  <2>1. SwappingIteration(n) =
          <<Fill(u, MassesAt(u)), Fill(u, Centroids(u, (n + 1) % 2))>>
            \o <<Fused(u, n, 1)>>
            \o <<Cmd(u, "divide", <<Centroids(u, (n + 1) % 2), MassesAt(u)>>)>>
    <3>1. SwappingIteration(n) =
            <<Fill(Client, Masses), Fill(Client, NewCentroids(n))>>
              \o <<Fused(Client, n, 1)>>
              \o <<Cmd(Client, "divide", <<NewCentroids(n), Masses>>)>>
      BY DEF SwappingIteration
    <3>2. NewCentroids(n) = Centroids(u, (n + 1) % 2)
      BY <1>2
    <3>3. QED
      BY <1>1, <1>2, <3>1, <3>2
  <2>2. Fused(u, n, 1) =
          Cmd(u, "fused", <<Centroids(u, n % 2), Labels(u, 1),
                            Centroids(u, (n + 1) % 2), MassesAt(u)>>)
    BY <1>2 DEF Fused
  <2> DEFINE c1 == Fill(u, MassesAt(u))
             c2 == Fill(u, Centroids(u, (n + 1) % 2))
             c3 == Fused(u, n, 1)
             c4 == Cmd(u, "divide", <<Centroids(u, (n + 1) % 2), MassesAt(u)>>)
  <2>3. SwappingIteration(n) = <<c1, c2>> \o <<c3>> \o <<c4>>
    BY <2>1
  <2>4. SingleStageOn(u, n % 2, (n + 1) % 2) = <<c1, c2, c3, c4>>
    BY <2>2 DEF SingleStageOn
  <2> HIDE DEF c1, c2, c3, c4
  <2>5. <<c1, c2>> \o <<c3>> \o <<c4>> = <<c1, c2, c3, c4>>
    BY Appended4
  <2>6. QED
    BY <2>3, <2>4, <2>5
<1>4. SingleStageDownload = Fetch(u, u, MaxIterations % 2, 1)
  BY <1>1, <1>2 DEF SingleStageDownload, Fetch
<1>5. SwappingUpload = <<Copy(u, Host("centroids"), Centroids(u, 0)), Finish({u})>>
  BY <1>1, <1>2 DEF SwappingUpload
<1>6. QED
  BY <1>3, <1>4, <1>5 DEF UploadOf, IterationOf, DownloadOf

-----------------------------------------------------------------------------
(***************************************************************************)
(* The waits in the lists                                                  *)
(***************************************************************************)
\* A command of q that the client waits for, or not.
IsCommand(c, q, k, b, waits) ==
  c \in Commands /\ c.q = q /\ c.kind = k /\ c.bufs = b /\ c.awaits = waits

LEMMA Builders ==
  ASSUME NEW q \in Devices, NEW k \in Kinds, NEW b \in Seq(Buffers), Len(b) = Arity[k]
  PROVE  /\ IsCommand(Cmd(q, k, b), q, k, b, {})
         /\ IsCommand(Blocking(Cmd(q, k, b)), q, k, b, {q})
<1> DEFINE plain == [q |-> q, kind |-> k, bufs |-> b, awaits |-> {}, chained |-> FALSE]
           blocking == [plain EXCEPT !.awaits = {q}]
           All == [q : Devices \cup {"none"}, kind : Kinds \cup {"finish"},
                   bufs : Seq(Buffers), awaits : SUBSET Devices, chained : {FALSE}]
<1>1. Cmd(q, k, b) = plain
  BY DEF Cmd
<1>2. Blocking(Cmd(q, k, b)) = blocking
  <2>1. plain.q = q
    OBVIOUS
  <2>2. QED
    BY <1>1, <2>1 DEF Blocking
<1>3. /\ plain \in All /\ plain.q = q /\ plain.kind = k /\ plain.bufs = b
      /\ plain.awaits = {}
  OBVIOUS
<1>4. /\ blocking \in All /\ blocking.q = q /\ blocking.kind = k /\ blocking.bufs = b
      /\ blocking.awaits = {q}
  <2> HIDE DEF plain
  <2>1. {q} \in SUBSET Devices
    OBVIOUS
  <2>2. QED
    BY <1>3, <2>1
<1> HIDE DEF plain, blocking
<1>5. QED
  BY <1>1, <1>2, <1>3, <1>4 DEF IsCommand, Commands

LEMMA Finishes ==
  ASSUME NEW qs \in SUBSET Devices
  PROVE  Finish(qs) \in Commands /\ Finish(qs).kind = "finish" /\ Finish(qs).awaits = qs
<1>1. /\ <<>> \in Seq(Buffers) /\ {} \subseteq Devices
      /\ Finish(qs) = [q |-> "none", kind |-> "finish", bufs |-> <<>>, awaits |-> qs,
                       chained |-> FALSE]
  BY DEF Finish
<1>2. Finish(qs) \in [q : Devices \cup {"none"}, kind : Kinds \cup {"finish"},
                      bufs : Seq(Buffers), awaits : SUBSET Devices, chained : {FALSE}]
  BY <1>1
<1>3. QED
  BY <1>1, <1>2 DEF Commands

\* Copies and fills between buffers of a client.
LEMMA Transfers ==
  ASSUME NEW q \in Devices, NEW a \in Buffers, NEW b \in Buffers
  PROVE  /\ IsCommand(Copy(q, a, b), q, "copy", <<a, b>>, {})
         /\ IsCommand(Blocking(Copy(q, a, b)), q, "copy", <<a, b>>, {q})
         /\ IsCommand(Fill(q, a), q, "fill", <<a>>, {})
<1>1. /\ <<a, b>> \in Seq(Buffers) /\ Len(<<a, b>>) = Arity["copy"]
      /\ <<a>> \in Seq(Buffers) /\ Len(<<a>>) = Arity["fill"]
      /\ "copy" \in Kinds /\ "fill" \in Kinds
  BY DEF Kinds, Arity
<1>2. QED
  BY <1>1, Builders DEF Copy, Fill

\* Kernels over two buffers.
LEMMA Launches ==
  ASSUME NEW q \in Devices, NEW k \in {"label", "mass", "sum", "divide"},
         NEW a \in Buffers, NEW b \in Buffers
  PROVE  IsCommand(Cmd(q, k, <<a, b>>), q, k, <<a, b>>, {})
<1>1. <<a, b>> \in Seq(Buffers) /\ k \in Kinds /\ Len(<<a, b>>) = Arity[k]
  BY DEF Kinds, Arity
<1>2. QED
  BY <1>1, Builders

\* What a command with two buffers uses and writes.
LEMMA PairBuffers ==
  ASSUME NEW c, NEW a, NEW b, c.bufs = <<a, b>>
  PROVE  /\ ToSet(c.bufs) = {a, b}
         /\ c.kind \in {"copy", "label", "mass", "sum"} => Written(c) = {b}
         /\ c.kind = "divide" => Written(c) = {a}
<1>1. ToSet(<<a, b>>) = {a, b}
  BY DEF ToSet
<1>2. c.bufs[1] = a /\ c.bufs[2] = b
  OBVIOUS
<1>3. QED
  BY <1>1, <1>2 DEF Written

LEMMA SingleBuffer ==
  ASSUME NEW c, NEW a, c.bufs = <<a>>
  PROVE  ToSet(c.bufs) = {a} /\ (c.kind = "fill" => Written(c) = {a})
<1>1. ToSet(<<a>>) = {a}
  BY DEF ToSet
<1>2. c.bufs[1] = a
  OBVIOUS
<1>3. QED
  BY <1>1, <1>2 DEF Written

\* A list a client may issue when its queues are as WaitInv(qs) says.
ListOf(p, t, qs) ==
  t \in Seq(Commands) /\ InPlace(p, t) /\ Spaced(t) /\ Finished(t, qs)

\* On one device no two commands of a list are in different queues.
LEMMA OneQueue ==
  ASSUME NEW p, Labeller(p) = Updater(p), NEW t, InPlace(p, t)
  PROVE  Spaced(t)
BY DEF InPlace, Spaced

LEMMA UploadList ==
  ASSUME NEW p \in Pipelines, pipeline = p, Ordered(p)
  PROVE  ListOf(p, UploadOf(p), Devices)
<1> DEFINE l == Labeller(p)  u == Updater(p)
<1>1. /\ l \in Devices /\ u \in Devices /\ Host("centroids") \in Buffers
      /\ Centroids(l, 0) \in Buffers /\ Centroids(u, 0) \in Buffers
  BY BufferNames DEF Centroids
<1> HIDE DEF l, u
<1> DEFINE a == Copy(l, Host("centroids"), Centroids(l, 0))
           b == Blocking(Copy(u, Host("centroids"), Centroids(u, 0)))
           c == Finish({l})  d == Finish({l, u})  e == Finish({u})
           f == Copy(u, Host("centroids"), Centroids(u, 0))
<1>2. /\ a \in Commands /\ a.q = l /\ a.kind = "copy" /\ Written(a) = {Centroids(l, 0)}
      /\ ToSet(a.bufs) = {Host("centroids"), Centroids(l, 0)}
      /\ b \in Commands /\ b.q = u /\ b.kind = "copy" /\ Written(b) = {Centroids(u, 0)}
      /\ ToSet(b.bufs) = {Host("centroids"), Centroids(u, 0)} /\ b.awaits = {u}
      /\ f \in Commands /\ f.q = u /\ f.kind = "copy"
  <2>1. /\ a \in Commands /\ a.q = l /\ a.kind = "copy"
        /\ a.bufs = <<Host("centroids"), Centroids(l, 0)>>
    BY <1>1, Transfers DEF IsCommand
  <2>2. /\ b \in Commands /\ b.q = u /\ b.kind = "copy" /\ b.awaits = {u}
        /\ b.bufs = <<Host("centroids"), Centroids(u, 0)>>
    BY <1>1, Transfers DEF IsCommand
  <2>3. f \in Commands /\ f.q = u /\ f.kind = "copy"
    BY <1>1, Transfers DEF IsCommand
  <2>4. QED
    BY <2>1, <2>2, <2>3, PairBuffers
<1>3. /\ c \in Commands /\ c.kind = "finish" /\ c.awaits = {l}
      /\ d \in Commands /\ d.kind = "finish" /\ d.awaits = {l, u}
      /\ e \in Commands /\ e.kind = "finish" /\ e.awaits = {u}
  BY <1>1, Finishes
<1>4. l # u => ~Conflict(a, b)
  <2>1. l # "host" /\ u # "host"
    BY BufferNames DEF l, u
  <2>2. QED
    BY <1>2, <2>1 DEF Conflict, Host, Centroids
<1> HIDE DEF a, b, c, d, e, f
<1>5. CASE p.name = "three_stage" /\ l = u
  <2> DEFINE t == <<f, e, e>>
  <2>1. UploadOf(p) = t
    BY <1>5, OneDeviceLists, 0 \in Nat DEF l, u, f, e
  <2>2. t \in Seq(Commands) /\ Len(t) = 3 /\ t[1] = f /\ t[2] = e /\ t[3] = e
    BY <1>2, <1>3
  <2> HIDE DEF t
  <2>3. \A i \in 1 .. 3 : i = 1 \/ i = 2 \/ i = 3
    OBVIOUS
  <2>4. InPlace(p, t)
    BY <1>2, <1>3, <2>2, <2>3 DEF InPlace, u
  <2>5. Finished(t, Devices)
    <3>1. 2 \in 1 .. 3
      OBVIOUS
    <3>2. QED
      BY <1>2, <1>3, <2>2, <2>3, <3>1 DEF Finished
  <2>6. QED
    BY <1>5, <2>1, <2>2, <2>4, <2>5, OneQueue DEF ListOf, l, u
<1>6. CASE p.name = "single_stage"
  <2> DEFINE t == <<f, e>>
  <2>1. UploadOf(p) = t
    BY <1>6, SingleStageLists, 0 \in Nat DEF l, u, f, e
  <2>2. t \in Seq(Commands) /\ Len(t) = 2 /\ t[1] = f /\ t[2] = e
    BY <1>2, <1>3
  <2> HIDE DEF t
  <2>3. \A i \in 1 .. 2 : i = 1 \/ i = 2
    OBVIOUS
  <2>4. InPlace(p, t)
    BY <1>2, <1>3, <2>2, <2>3 DEF InPlace, u
  <2>5. Finished(t, Devices)
    <3>1. 2 \in 1 .. 2
      OBVIOUS
    <3>2. QED
      BY <1>2, <1>3, <2>2, <2>3, <3>1 DEF Finished
  <2>6. l = u
    BY <1>6, PlaceNames DEF l, u
  <2>7. QED
    BY <2>1, <2>2, <2>4, <2>5, <2>6, OneQueue DEF ListOf, l, u
<1>7. CASE p.name = "three_stage" /\ l # u
  <2> DEFINE t == <<a, b, c, d>>
  <2>1. UploadOf(p) = t
    BY <1>7, TwoDeviceLists, 0 \in Nat DEF l, u, a, b, c, d
  <2>2. t \in Seq(Commands) /\ Len(t) = 4 /\ t[1] = a /\ t[2] = b /\ t[3] = c /\ t[4] = d
    BY <1>2, <1>3
  <2> HIDE DEF t
  <2>3. \A i \in 1 .. 4 : i = 1 \/ i = 2 \/ i = 3 \/ i = 4
    OBVIOUS
  <2>4. InPlace(p, t)
    BY <1>2, <1>3, <2>2, <2>3 DEF InPlace, l, u
  <2>5. Finished(t, Devices)
    <3>1. 4 \in 1 .. 4 /\ 4 \in 2 .. 4
      OBVIOUS
    <3>2. QED
      BY <1>2, <1>3, <2>2, <2>3, <3>1 DEF Finished
  <2>6. Spaced(t)
    BY <1>2, <1>3, <1>4, <1>7, <2>2, <2>3 DEF Spaced
  <2>7. QED
    BY <2>1, <2>2, <2>4, <2>5, <2>6 DEF ListOf
<1>8. QED
  BY <1>5, <1>6, <1>7 DEF Ordered

LEMMA FetchList ==
  ASSUME NEW p \in Pipelines, Ordered(p), NEW i \in {0, 1}, NEW j \in {0, 1}
  PROVE  ListOf(p, Fetch(Labeller(p), Updater(p), i, j), Devices)
<1> DEFINE l == Labeller(p)  u == Updater(p)
           a == Blocking(Copy(u, Centroids(u, i), Host("centroids")))
           b == Blocking(Copy(l, Labels(l, j), Host("labels")))
           c == Blocking(Copy(u, MassesAt(u), Host("masses")))
           t == <<a, b, c>>
<1>1. /\ l \in Devices /\ u \in Devices /\ Centroids(u, i) \in Buffers
      /\ Labels(l, j) \in Buffers /\ MassesAt(u) \in Buffers
      /\ Host("centroids") \in Buffers /\ Host("labels") \in Buffers
      /\ Host("masses") \in Buffers
  BY BufferNames DEF Centroids, Labels, MassesAt
<1> HIDE DEF l, u
<1>2. /\ a \in Commands /\ a.q = u /\ a.awaits = {u}
      /\ b \in Commands /\ b.q = l /\ b.awaits = {l}
      /\ c \in Commands /\ c.q = u /\ c.awaits = {u}
  BY <1>1, Transfers DEF IsCommand
<1>3. Fetch(Labeller(p), Updater(p), i, j) = t
  BY DEF Fetch, l, u
<1> HIDE DEF a, b, c
<1>4. t \in Seq(Commands) /\ Len(t) = 3 /\ t[1] = a /\ t[2] = b /\ t[3] = c
  BY <1>2
<1> HIDE DEF t
<1>5. \A k \in 1 .. 3 : k = 1 \/ k = 2 \/ k = 3
  OBVIOUS
<1>6. InPlace(p, t)
  BY <1>2, <1>4, <1>5 DEF InPlace, l, u
<1>7. \A k \in 1 .. Len(t) : t[k].q \in t[k].awaits
  BY <1>2, <1>4, <1>5
<1>8. Spaced(t)
  <2>1. \A k, n \in 1 .. Len(t) : k < n => k \in k .. n - 1
    BY <1>4
  <2>2. QED
    BY <1>7, <2>1 DEF Spaced
<1>9. Finished(t, Devices)
  <2>1. \A k \in 1 .. Len(t) : k \in k .. Len(t)
    BY <1>4
  <2>2. QED
    BY <1>7, <2>1 DEF Finished
<1>10. QED
  BY <1>3, <1>4, <1>6, <1>8, <1>9 DEF ListOf

LEMMA DownloadList ==
  ASSUME NEW p \in Pipelines, pipeline = p, Ordered(p)
  PROVE  ListOf(p, DownloadOf(p), Devices)
<1> DEFINE l == Labeller(p)  u == Updater(p)
<1>1. 0 \in Nat /\ 0 \in {0, 1} /\ 1 \in {0, 1} /\ MaxIterations % 2 \in {0, 1}
  BY ClientsAssumption
<1>2. CASE p.name = "three_stage"
  <2>1. DownloadOf(p) = Fetch(l, u, 0, 0)
    BY <1>1, <1>2, OneDeviceLists, TwoDeviceLists
  <2>2. QED
    BY <1>1, <2>1, FetchList
<1>3. CASE p.name = "single_stage"
  <2>1. DownloadOf(p) = Fetch(l, u, MaxIterations % 2, 1)
    BY <1>1, <1>3, SingleStageLists, PlaceNames
  <2>2. QED
    BY <1>1, <2>1, FetchList
<1>4. QED
  BY <1>2, <1>3 DEF Ordered

\* A command of t for the labelling device comes after a wait for the other.
AfterUpdater(p, t) ==
  \A k \in 1 .. Len(t) : t[k].kind # "finish" /\ t[k].q # Updater(p) =>
    \E j \in 1 .. k - 1 : Updater(p) \in t[j].awaits

IterationListOf(p, t) ==
  ListOf(p, t, Devices \ {Updater(p)}) /\ AfterUpdater(p, t)

\* On one device there is nothing to wait for.
LEMMA OneDeviceIteration ==
  ASSUME NEW p \in Pipelines, Labeller(p) = Updater(p), NEW t \in Seq(Commands),
         \A i \in 1 .. Len(t) : t[i].q = Updater(p)
  PROVE  IterationListOf(p, t)
<1>1. InPlace(p, t)
  BY DEF InPlace
<1>2. Spaced(t) /\ Finished(t, Devices \ {Updater(p)}) /\ AfterUpdater(p, t)
  BY <1>1, OneQueue DEF Finished, AfterUpdater
<1>3. QED
  BY <1>1, <1>2 DEF IterationListOf, ListOf

LEMMA ThreeStageOnList ==
  ASSUME NEW p \in Pipelines, Ordered(p), Labeller(p) = Updater(p)
  PROVE  IterationListOf(p, ThreeStageOn(Updater(p)))
<1> DEFINE u == Updater(p)
           a == Cmd(u, "label", <<Centroids(u, 0), Labels(u, 0)>>)
           b == Fill(u, MassesAt(u))
           c == Fill(u, Centroids(u, 0))
           d == Cmd(u, "mass", <<Labels(u, 0), MassesAt(u)>>)
           e == Cmd(u, "sum", <<Labels(u, 0), Centroids(u, 0)>>)
           f == Cmd(u, "divide", <<Centroids(u, 0), MassesAt(u)>>)
           t == <<a, b, c, d, e, f>>
<1>1. /\ u \in Devices /\ Centroids(u, 0) \in Buffers
      /\ Labels(u, 0) \in Buffers /\ MassesAt(u) \in Buffers
  BY BufferNames DEF Centroids, Labels, MassesAt
<1> HIDE DEF u
<1>2. /\ a \in Commands /\ a.q = u /\ d \in Commands /\ d.q = u
      /\ e \in Commands /\ e.q = u /\ f \in Commands /\ f.q = u
  BY <1>1, Launches DEF IsCommand
<1>3. b \in Commands /\ b.q = u /\ c \in Commands /\ c.q = u
  BY <1>1, Transfers DEF IsCommand
<1>4. ThreeStageOn(Updater(p)) = t
  BY DEF ThreeStageOn, u
<1> HIDE DEF a, b, c, d, e, f
<1>5. /\ t \in Seq(Commands) /\ Len(t) = 6 /\ t[1] = a /\ t[2] = b /\ t[3] = c
      /\ t[4] = d /\ t[5] = e /\ t[6] = f
  BY <1>2, <1>3
<1> HIDE DEF t
<1>6. \A i \in 1 .. 6 : i = 1 \/ i = 2 \/ i = 3 \/ i = 4 \/ i = 5 \/ i = 6
  OBVIOUS
<1>7. \A i \in 1 .. Len(t) : t[i].q = u
  BY <1>2, <1>3, <1>5, <1>6
<1>8. QED
  BY <1>4, <1>5, <1>7, OneDeviceIteration DEF u

LEMMA SingleStageOnList ==
  ASSUME NEW p \in Pipelines, Ordered(p), Labeller(p) = Updater(p),
         NEW old \in {0, 1}, NEW new \in {0, 1}
  PROVE  IterationListOf(p, SingleStageOn(Updater(p), old, new))
<1> DEFINE u == Updater(p)
           bufs == <<Centroids(u, old), Labels(u, 1), Centroids(u, new), MassesAt(u)>>
           a == Fill(u, MassesAt(u))
           b == Fill(u, Centroids(u, new))
           c == Cmd(u, "fused", bufs)
           d == Cmd(u, "divide", <<Centroids(u, new), MassesAt(u)>>)
           t == <<a, b, c, d>>
<1>1. /\ u \in Devices /\ Centroids(u, old) \in Buffers /\ Centroids(u, new) \in Buffers
      /\ Labels(u, 1) \in Buffers /\ MassesAt(u) \in Buffers
  BY BufferNames DEF Centroids, Labels, MassesAt
<1> HIDE DEF u
<1>2. a \in Commands /\ a.q = u /\ b \in Commands /\ b.q = u
  BY <1>1, Transfers DEF IsCommand
<1>3. d \in Commands /\ d.q = u
  BY <1>1, Launches DEF IsCommand
<1>4. c \in Commands /\ c.q = u
  <2>1. bufs \in Seq(Buffers) /\ Len(bufs) = Arity["fused"] /\ "fused" \in Kinds
    BY <1>1 DEF Kinds, Arity
  <2> HIDE DEF bufs
  <2>2. IsCommand(Cmd(u, "fused", bufs), u, "fused", bufs, {})
    BY <1>1, <2>1, Builders
  <2>3. QED
    BY <2>2 DEF IsCommand
<1>5. SingleStageOn(Updater(p), old, new) = t
  BY DEF SingleStageOn, u
<1> HIDE DEF a, b, c, d
<1>6. /\ t \in Seq(Commands) /\ Len(t) = 4 /\ t[1] = a /\ t[2] = b /\ t[3] = c /\ t[4] = d
  BY <1>2, <1>3, <1>4
<1> HIDE DEF t
<1>7. \A i \in 1 .. 4 : i = 1 \/ i = 2 \/ i = 3 \/ i = 4
  OBVIOUS
<1>8. \A i \in 1 .. Len(t) : t[i].q = u
  BY <1>2, <1>3, <1>4, <1>6, <1>7
<1>9. QED
  BY <1>5, <1>6, <1>8, OneDeviceIteration DEF u

LEMMA ThreeStageAcrossList ==
  ASSUME NEW p \in Pipelines, Ordered(p), Labeller(p) # Updater(p)
  PROVE  IterationListOf(p, ThreeStageAcross(Labeller(p), Updater(p)))
<1> DEFINE l == Labeller(p)  u == Updater(p)
           c1 == Finish({u})
           c2 == Blocking(Copy(l, Centroids(u, 0), Centroids(l, 0)))
           c3 == Cmd(l, "label", <<Centroids(l, 0), Labels(l, 0)>>)
           c4 == Fill(u, MassesAt(u))
           c5 == Fill(u, Centroids(u, 0))
           c6 == Blocking(Copy(l, Labels(l, 0), Labels(u, 0)))
           c7 == Cmd(u, "mass", <<Labels(u, 0), MassesAt(u)>>)
           c8 == Cmd(u, "sum", <<Labels(u, 0), Centroids(u, 0)>>)
           c9 == Cmd(u, "divide", <<Centroids(u, 0), MassesAt(u)>>)
           t == <<c1, c2, c3, c4, c5, c6, c7, c8, c9>>
<1>1. /\ l \in Devices /\ u \in Devices /\ Centroids(u, 0) \in Buffers
      /\ Centroids(l, 0) \in Buffers /\ Labels(u, 0) \in Buffers
      /\ Labels(l, 0) \in Buffers /\ MassesAt(u) \in Buffers
  BY BufferNames DEF Centroids, Labels, MassesAt
<1> HIDE DEF l, u
<1>2. c1 \in Commands /\ c1.kind = "finish" /\ c1.awaits = {u}
  BY <1>1, Finishes
<1>3. /\ IsCommand(c2, l, "copy", <<Centroids(u, 0), Centroids(l, 0)>>, {l})
      /\ IsCommand(c6, l, "copy", <<Labels(l, 0), Labels(u, 0)>>, {l})
      /\ IsCommand(c4, u, "fill", <<MassesAt(u)>>, {})
      /\ IsCommand(c5, u, "fill", <<Centroids(u, 0)>>, {})
  BY <1>1, Transfers
<1>4. /\ IsCommand(c3, l, "label", <<Centroids(l, 0), Labels(l, 0)>>, {})
      /\ IsCommand(c7, u, "mass", <<Labels(u, 0), MassesAt(u)>>, {})
      /\ IsCommand(c8, u, "sum", <<Labels(u, 0), Centroids(u, 0)>>, {})
      /\ IsCommand(c9, u, "divide", <<Centroids(u, 0), MassesAt(u)>>, {})
  BY <1>1, Launches
<1>5. ThreeStageAcross(Labeller(p), Updater(p)) = t
  BY DEF ThreeStageAcross, l, u
<1> HIDE DEF c1, c2, c3, c4, c5, c6, c7, c8, c9
\* The labelling may run with the fills, and the fills with the copy of labels.
<1>6. /\ ~Conflict(c3, c4) /\ ~Conflict(c3, c5)
      /\ ~Conflict(c4, c6) /\ ~Conflict(c5, c6)
  <2>1. /\ ToSet(c3.bufs) = {Centroids(l, 0), Labels(l, 0)} /\ Written(c3) = {Labels(l, 0)}
        /\ ToSet(c6.bufs) = {Labels(l, 0), Labels(u, 0)} /\ Written(c6) = {Labels(u, 0)}
    BY <1>3, <1>4, PairBuffers DEF IsCommand
  <2>2. /\ ToSet(c4.bufs) = {MassesAt(u)} /\ Written(c4) = {MassesAt(u)}
        /\ ToSet(c5.bufs) = {Centroids(u, 0)} /\ Written(c5) = {Centroids(u, 0)}
    BY <1>3, SingleBuffer DEF IsCommand
  <2>3. /\ Centroids(l, 0) # Centroids(u, 0)
        /\ \A d, e : Labels(d, 0) # Centroids(e, 0) /\ Labels(d, 0) # MassesAt(e)
                     /\ Centroids(d, 0) # MassesAt(e)
    BY DEF Centroids, Labels, MassesAt, l, u
  <2>4. QED
    BY <2>1, <2>2, <2>3 DEF Conflict
<1>7. /\ Len(t) = 9 /\ t[1] = c1 /\ t[2] = c2 /\ t[3] = c3 /\ t[4] = c4 /\ t[5] = c5
      /\ t[6] = c6 /\ t[7] = c7 /\ t[8] = c8 /\ t[9] = c9
  OBVIOUS
<1>8. t \in Seq(Commands)
  BY <1>2, <1>3, <1>4 DEF IsCommand
<1> HIDE DEF t
<1>9. \A i \in 1 .. 9 : i \in {1} \cup {2, 3, 6} \cup {4, 5, 7, 8, 9}
  OBVIOUS
<1>10. /\ \A i \in {2, 3, 6} : t[i].q = l /\ t[i].kind # "finish"
       /\ \A i \in {4, 5, 7, 8, 9} : t[i].q = u /\ t[i].kind # "finish"
       /\ t[1].kind = "finish" /\ t[1].awaits = {u}
       /\ t[2].awaits = {l} /\ t[6].awaits = {l}
  BY <1>2, <1>3, <1>4, <1>7 DEF IsCommand
<1>11. InPlace(p, t)
  BY <1>7, <1>9, <1>10 DEF InPlace, l, u
<1>12. Finished(t, Devices \ {u})
  <2>1. \A i \in {2, 3, 6} : 6 \in i .. 9
    OBVIOUS
  <2>2. QED
    BY <1>7, <1>9, <1>10, <2>1 DEF Finished
<1>13. AfterUpdater(p, t)
  <2>1. \A i \in {2, 3, 6} : 1 \in 1 .. i - 1
    OBVIOUS
  <2>2. QED
    BY <1>7, <1>9, <1>10, <2>1 DEF AfterUpdater, u
<1>14. Spaced(t)
  <2>1. SUFFICES ASSUME NEW i \in 1 .. 9, NEW k \in 1 .. 9, i < k,
                        t[i].kind # "finish", t[k].kind # "finish", t[i].q # t[k].q,
                        Conflict(t[i], t[k])
                 PROVE  \E j \in i .. k - 1 : t[i].q \in t[j].awaits
    BY <1>7 DEF Spaced
  <2>2. \/ i \in {2, 3, 6} /\ k \in {4, 5, 7, 8, 9}
        \/ i \in {4, 5, 7, 8, 9} /\ k \in {2, 3, 6}
    <3>1. i # 1 /\ k # 1
      BY <1>10, <2>1
    <3>2. /\ i \in {2, 3, 6} \/ i \in {4, 5, 7, 8, 9}
          /\ k \in {2, 3, 6} \/ k \in {4, 5, 7, 8, 9}
      BY <1>9, <3>1
    <3>3. ~(i \in {2, 3, 6} /\ k \in {2, 3, 6})
      BY <1>10, <2>1
    <3>4. ~(i \in {4, 5, 7, 8, 9} /\ k \in {4, 5, 7, 8, 9})
      BY <1>10, <2>1
    <3>5. QED
      BY <3>2, <3>3, <3>4
  <2>3. CASE i \in {2, 6}
    <3>1. i \in i .. k - 1 /\ t[i].q = l /\ t[i].awaits = {l}
      BY <1>10, <2>1, <2>3
    <3>2. QED
      BY <3>1
  <2>4. CASE i = 3
    <3>1. k \in {4, 5, 7, 8, 9}
      BY <2>2, <2>4
    <3>2. k # 4 /\ k # 5
      BY <1>6, <1>7, <2>1, <2>4
    <3>3. 6 \in i .. k - 1
      BY <2>4, <3>1, <3>2
    <3>4. QED
      BY <1>10, <2>4, <3>3
  <2>5. CASE i \in {4, 5, 7, 8, 9}
    <3>1. k = 6 /\ i \in {4, 5}
      BY <2>1, <2>2, <2>5
    <3>2. QED
      BY <1>6, <1>7, <2>1, <3>1
  <2>6. QED
    BY <2>2, <2>3, <2>4, <2>5
<1>15. QED
  BY <1>5, <1>8, <1>11, <1>12, <1>13, <1>14 DEF IterationListOf, ListOf, u

LEMMA IterationList ==
  ASSUME NEW p \in Pipelines, pipeline = p, Ordered(p), NEW n \in Nat
  PROVE  IterationListOf(p, IterationOf(p, n))
<1>1. CASE p.name = "three_stage" /\ Labeller(p) = Updater(p)
  BY <1>1, OneDeviceLists, ThreeStageOnList
<1>2. CASE p.name = "three_stage" /\ Labeller(p) # Updater(p)
  <2>1. IterationOf(p, n) = ThreeStageAcross(Labeller(p), Updater(p))
    BY <1>2, TwoDeviceLists
  <2>2. QED
    BY <1>2, <2>1, ThreeStageAcrossList
<1>3. CASE p.name = "single_stage"
  <2>1. n % 2 \in {0, 1} /\ (n + 1) % 2 \in {0, 1}
    OBVIOUS
  <2>2. QED
    BY <1>3, <2>1, SingleStageLists, SingleStageOnList, PlaceNames
<1>4. QED
  BY <1>1, <1>2, <1>3 DEF Ordered

-----------------------------------------------------------------------------
(***************************************************************************)
(* What the lists make of memory                                           *)
(***************************************************************************)
\* s is what memory holds after every command of t.
Steps(t, m, s) ==
  /\ t \in Seq(Works) /\ s \in Seq(Memory) /\ Len(t) > 0 /\ Len(s) = Len(t)
  /\ s[1] = Effect(t[1], m)
  /\ \A i \in 2 .. Len(t) : s[i] = Effect(t[i], s[i - 1])

LEMMA StepsYield ==
  ASSUME NEW m \in Memory, NEW t, NEW s, Steps(t, m, s)
  PROVE  Yields(t, m, s[Len(t)])
<1> DEFINE ms == [i \in 0 .. Len(t) |-> IF i = 0 THEN m ELSE s[i]]
<1>1. /\ Len(t) \in Nat /\ Len(t) > 0 /\ s[1] = Effect(t[1], m)
      /\ \A i \in 1 .. Len(t) : s[i] \in Memory
      /\ \A i \in 2 .. Len(t) : s[i] = Effect(t[i], s[i - 1])
  BY DEF Steps
<1>2. ms \in [0 .. Len(t) -> Memory] /\ ms[0] = m /\ ms[Len(t)] = s[Len(t)]
  BY <1>1
<1>3. ASSUME NEW i \in 1 .. Len(t)
      PROVE  ms[i] = Effect(t[i], ms[i - 1])
  <2>1. CASE i = 1
    BY <1>1, <2>1
  <2>2. CASE i # 1
    <3>1. i \in 2 .. Len(t) /\ ms[i] = s[i] /\ ms[i - 1] = s[i - 1]
      BY <1>1, <2>2
    <3>2. QED
      BY <1>1, <3>1
  <2>3. QED
    BY <2>1, <2>2
<1> HIDE DEF ms
<1>4. Trace(t, m, ms) /\ ms[Len(t)] = s[Len(t)]
  BY <1>2, <1>3 DEF Trace
<1>5. QED
  BY <1>4 DEF Yields

\* What a command makes of memory.
LEMMA EffectOfPair ==
  ASSUME NEW c \in Commands, NEW m \in Memory,
         NEW a \in Buffers, NEW b \in Buffers, c.bufs = <<a, b>>
  PROVE  /\ Effect(c, m) \in Memory
         /\ c.kind = "copy" => Effect(c, m) = [m EXCEPT ![b] = m[a]]
         /\ c.kind = "label" => Effect(c, m) = [m EXCEPT ![b] = Labelled(m[a])]
         /\ c.kind = "mass" => Effect(c, m) = [m EXCEPT ![b] = Added("masses", m[a], m[b])]
         /\ c.kind = "sum" => Effect(c, m) = [m EXCEPT ![b] = Added("sums", m[a], m[b])]
         /\ c.kind = "divide" => Effect(c, m) = [m EXCEPT ![a] = Divided(m[a], m[b], 1)]
<1>1. c.bufs[1] = a /\ c.bufs[2] = b
  OBVIOUS
<1>2. Effect(c, m) \in Memory
  BY EffectType DEF Works
<1>3. QED
  BY <1>1, <1>2 DEF Effect, After

LEMMA Copies ==
  ASSUME NEW m \in Memory, NEW a \in Buffers, NEW b \in Buffers,
         NEW c, NEW q, NEW w, IsCommand(c, q, "copy", <<a, b>>, w)
  PROVE  Effect(c, m) \in Memory /\ Effect(c, m) = [m EXCEPT ![b] = m[a]]
<1>1. c \in Commands /\ c.bufs = <<a, b>> /\ c.kind = "copy"
  BY DEF IsCommand
<1>2. QED
  BY <1>1, EffectOfPair

LEMMA LabelsOut ==
  ASSUME NEW m \in Memory, NEW a \in Buffers, NEW b \in Buffers,
         NEW c, NEW q, NEW w, IsCommand(c, q, "label", <<a, b>>, w)
  PROVE  Effect(c, m) \in Memory /\ Effect(c, m) = [m EXCEPT ![b] = Labelled(m[a])]
<1>1. c \in Commands /\ c.bufs = <<a, b>> /\ c.kind = "label"
  BY DEF IsCommand
<1>2. QED
  BY <1>1, EffectOfPair

LEMMA AddsMasses ==
  ASSUME NEW m \in Memory, NEW a \in Buffers, NEW b \in Buffers,
         NEW c, NEW q, NEW w, IsCommand(c, q, "mass", <<a, b>>, w)
  PROVE  Effect(c, m) \in Memory /\ Effect(c, m) = [m EXCEPT ![b] = Added("masses", m[a], m[b])]
<1>1. c \in Commands /\ c.bufs = <<a, b>> /\ c.kind = "mass"
  BY DEF IsCommand
<1>2. QED
  BY <1>1, EffectOfPair

LEMMA AddsSums ==
  ASSUME NEW m \in Memory, NEW a \in Buffers, NEW b \in Buffers,
         NEW c, NEW q, NEW w, IsCommand(c, q, "sum", <<a, b>>, w)
  PROVE  Effect(c, m) \in Memory /\ Effect(c, m) = [m EXCEPT ![b] = Added("sums", m[a], m[b])]
<1>1. c \in Commands /\ c.bufs = <<a, b>> /\ c.kind = "sum"
  BY DEF IsCommand
<1>2. QED
  BY <1>1, EffectOfPair

LEMMA Divides ==
  ASSUME NEW m \in Memory, NEW a \in Buffers, NEW b \in Buffers,
         NEW c, NEW q, NEW w, IsCommand(c, q, "divide", <<a, b>>, w)
  PROVE  Effect(c, m) \in Memory /\ Effect(c, m) = [m EXCEPT ![a] = Divided(m[a], m[b], 1)]
<1>1. c \in Commands /\ c.bufs = <<a, b>> /\ c.kind = "divide"
  BY DEF IsCommand
<1>2. QED
  BY <1>1, EffectOfPair

LEMMA Fills ==
  ASSUME NEW m \in Memory, NEW a \in Buffers,
         NEW c, NEW q, NEW w, IsCommand(c, q, "fill", <<a>>, w)
  PROVE  Effect(c, m) \in Memory /\ Effect(c, m) = [m EXCEPT ![a] = Zero]
<1>1. c \in Commands /\ c.kind = "fill" /\ c.bufs[1] = a
  BY DEF IsCommand
<1>2. Effect(c, m) \in Memory
  BY <1>1, EffectType DEF Works
<1>3. QED
  BY <1>1, <1>2 DEF Effect, After

LEMMA EffectOfFinish ==
  ASSUME NEW c, NEW m \in Memory, c.kind = "finish"
  PROVE  Effect(c, m) = m
BY DEF Effect

LEMMA EffectOfFused ==
  ASSUME NEW c \in Commands, NEW m \in Memory, NEW a \in Buffers, NEW b \in Buffers,
         NEW d \in Buffers, NEW e \in Buffers, NEW l,
         c.bufs = <<a, b, d, e>>, c.kind = "fused", l = Labelled(m[a])
  PROVE  /\ Effect(c, m) \in Memory
         /\ Effect(c, m) = [m EXCEPT ![b] = l, ![d] = Added("sums", l, m[d]),
                                     ![e] = Added("masses", l, m[e])]
<1>1. c.bufs[1] = a /\ c.bufs[2] = b /\ c.bufs[3] = d /\ c.bufs[4] = e
  OBVIOUS
<1>2. Effect(c, m) \in Memory
  BY EffectType DEF Works
<1>3. QED
  BY <1>1, <1>2 DEF Effect, After

\* One iteration of Lloyd's algorithm.
LEMMA LloydValues ==
  ASSUME NEW r, NEW n \in Nat
  PROVE  /\ Labelled(Value("centroids", r, n, 0)) = Value("labels", r, n, 1)
         /\ Added("masses", Value("labels", r, n, 1), Zero) = Value("masses", r, n, 1)
         /\ Added("sums", Value("labels", r, n, 1), Zero) = Value("sums", r, n, 1)
         /\ Divided(Value("sums", r, n, 1), Value("masses", r, n, 1), 1)
              = Value("centroids", r, n + 1, 0)
<1>1. Labelled(Value("centroids", r, n, 0)) = Value("labels", r, n, 1)
  BY DEF Labelled, Value
<1>2. /\ Added("masses", Value("labels", r, n, 1), Zero) = Value("masses", r, n, 1)
      /\ Added("sums", Value("labels", r, n, 1), Zero) = Value("sums", r, n, 1)
  BY DEF Added, Value, Zero
<1>3. Divided(Value("sums", r, n, 1), Value("masses", r, n, 1), 1)
        = Value("centroids", r, n + 1, 0)
  BY DEF Divided, Value
<1>4. QED
  BY <1>1, <1>2, <1>3

-----------------------------------------------------------------------------
\* Where the results of an iteration are.
Now(p, n) == IF p.name = "single_stage" THEN n % 2 ELSE 0
Block(p) == IF p.name = "single_stage" THEN 1 ELSE 0

\* The results of iteration n of call r are on the devices,
Results(p, m, r, n) ==
  /\ m[Centroids(Updater(p), Now(p, n))] = Value("centroids", r, n, 0)
  /\ n > 0 => /\ m[Labels(Labeller(p), Block(p))] = Value("labels", r, n - 1, 1)
              /\ m[MassesAt(Updater(p))] = Value("masses", r, n - 1, 1)

\* or on the host.
HostResults(m, r, n) ==
  /\ m[Host("centroids")] = Value("centroids", r, n, 0)
  /\ m[Host("labels")] = Value("labels", r, n - 1, 1)
  /\ m[Host("masses")] = Value("masses", r, n - 1, 1)

\* The iterations.
LEMMA ThreeStageOnYields ==
  ASSUME NEW p \in Pipelines, Ordered(p), NEW u, u = Updater(p),
         NEW m \in Memory, NEW r, NEW n \in Nat,
         m[Centroids(u, 0)] = Value("centroids", r, n, 0)
  PROVE  \E e : /\ Yields(ThreeStageOn(u), m, e) /\ e \in Memory
                /\ e[Centroids(u, 0)] = Value("centroids", r, n + 1, 0)
                /\ e[Labels(u, 0)] = Value("labels", r, n, 1)
                /\ e[MassesAt(u)] = Value("masses", r, n, 1)
<1> DEFINE C == Centroids(u, 0)  L == Labels(u, 0)  M == MassesAt(u)
           c1 == Cmd(u, "label", <<C, L>>)
           c2 == Fill(u, M)
           c3 == Fill(u, C)
           c4 == Cmd(u, "mass", <<L, M>>)
           c5 == Cmd(u, "sum", <<L, C>>)
           c6 == Cmd(u, "divide", <<C, M>>)
           m1 == Effect(c1, m)   m2 == Effect(c2, m1)  m3 == Effect(c3, m2)
           m4 == Effect(c4, m3)  m5 == Effect(c5, m4)  m6 == Effect(c6, m5)
           t == <<c1, c2, c3, c4, c5, c6>>  s == <<m1, m2, m3, m4, m5, m6>>
<1>1. u \in Devices /\ C \in Buffers /\ L \in Buffers /\ M \in Buffers
  BY BufferNames DEF Centroids, Labels, MassesAt
<1>2. C # L /\ C # M /\ L # M
  BY DEF Centroids, Labels, MassesAt
<1>3. ThreeStageOn(u) = t
  BY DEF ThreeStageOn
<1>4. m[C] = Value("centroids", r, n, 0)
  OBVIOUS
<1> HIDE DEF C, L, M
<1>5. /\ IsCommand(c1, u, "label", <<C, L>>, {}) /\ IsCommand(c4, u, "mass", <<L, M>>, {})
      /\ IsCommand(c5, u, "sum", <<L, C>>, {}) /\ IsCommand(c6, u, "divide", <<C, M>>, {})
      /\ IsCommand(c2, u, "fill", <<M>>, {}) /\ IsCommand(c3, u, "fill", <<C>>, {})
  BY <1>1, Launches, Transfers
<1> HIDE DEF c1, c2, c3, c4, c5, c6
<1>6. m1 \in Memory /\ m1 = [m EXCEPT ![L] = Labelled(m[C])]
  BY <1>1, <1>5, LabelsOut
<1> HIDE DEF m1
<1>7. m2 \in Memory /\ m2 = [m1 EXCEPT ![M] = Zero]
  <2>1. m1 \in Memory /\ IsCommand(c2, u, "fill", <<M>>, {})
    BY <1>5, <1>6
  <2>2. QED
    BY <1>1, <2>1, Fills
<1> HIDE DEF m2
<1>8. m3 \in Memory /\ m3 = [m2 EXCEPT ![C] = Zero]
  <2>1. m2 \in Memory /\ IsCommand(c3, u, "fill", <<C>>, {})
    BY <1>5, <1>7
  <2>2. QED
    BY <1>1, <2>1, Fills
<1> HIDE DEF m3
<1>9. m4 \in Memory /\ m4 = [m3 EXCEPT ![M] = Added("masses", m3[L], m3[M])]
  <2>1. m3 \in Memory
    BY <1>8
  <2>2. IsCommand(c4, u, "mass", <<L, M>>, {})
    BY <1>5
  <2>3. QED
    BY <1>1, <2>1, <2>2, AddsMasses
<1> HIDE DEF m4
<1>10. m5 \in Memory /\ m5 = [m4 EXCEPT ![C] = Added("sums", m4[L], m4[C])]
  <2>1. m4 \in Memory
    BY <1>9
  <2>2. IsCommand(c5, u, "sum", <<L, C>>, {})
    BY <1>5
  <2>3. QED
    BY <1>1, <2>1, <2>2, AddsSums
<1> HIDE DEF m5
<1>11. m6 \in Memory /\ m6 = [m5 EXCEPT ![C] = Divided(m5[C], m5[M], 1)]
  <2>1. m5 \in Memory
    BY <1>10
  <2>2. IsCommand(c6, u, "divide", <<C, M>>, {})
    BY <1>5
  <2>3. QED
    BY <1>1, <2>1, <2>2, Divides
<1>12. /\ m1 = Effect(c1, m) /\ m2 = Effect(c2, m1) /\ m3 = Effect(c3, m2)
       /\ m4 = Effect(c4, m3) /\ m5 = Effect(c5, m4) /\ m6 = Effect(c6, m5)
  BY DEF m1, m2, m3, m4, m5
<1> HIDE DEF m6
<1> DEFINE x == Value("centroids", r, n, 0)  l == Value("labels", r, n, 1)
           a == Value("masses", r, n, 1)  b == Value("sums", r, n, 1)
           y == Value("centroids", r, n + 1, 0)
<1>22. /\ Labelled(x) = l /\ Added("masses", l, Zero) = a /\ Added("sums", l, Zero) = b
       /\ Divided(b, a, 1) = y
  BY LloydValues
<1> HIDE DEF x, l, a, b, y
\* Labels, nothing added up yet,
<1>13. m3[L] = l /\ m3[M] = Zero /\ m3[C] = Zero
  <2>1. m1[L] = l
    BY <1>1, <1>4, <1>6, <1>22 DEF Memory, x
  <2>2. QED
    BY <1>1, <1>2, <1>6, <1>7, <1>8, <2>1 DEF Memory
\* masses and sums,
<1>14. m5[L] = l /\ m5[M] = a /\ m5[C] = b
  <2>1. m4[L] = l /\ m4[M] = a /\ m4[C] = Zero
    BY <1>1, <1>2, <1>8, <1>9, <1>13, <1>22 DEF Memory
  <2>2. QED
    BY <1>1, <1>2, <1>9, <1>10, <1>22, <2>1 DEF Memory
\* new centroids.
<1>15. m6[L] = l /\ m6[M] = a /\ m6[C] = y
  BY <1>1, <1>2, <1>10, <1>11, <1>14, <1>22 DEF Memory
<1>16. /\ t \in Seq(Works) /\ Len(t) = 6 /\ t[1] = c1 /\ t[2] = c2 /\ t[3] = c3
       /\ t[4] = c4 /\ t[5] = c5 /\ t[6] = c6
  BY <1>5 DEF IsCommand, Works
<1>17. /\ s \in Seq(Memory) /\ Len(s) = 6 /\ s[1] = m1 /\ s[2] = m2 /\ s[3] = m3
       /\ s[4] = m4 /\ s[5] = m5 /\ s[6] = m6
  BY <1>6, <1>7, <1>8, <1>9, <1>10, <1>11
<1> HIDE DEF t, s
<1>18. \A i \in 2 .. 6 : i = 2 \/ i = 3 \/ i = 4 \/ i = 5 \/ i = 6
  OBVIOUS
<1>19. Steps(t, m, s)
  BY <1>12, <1>16, <1>17, <1>18 DEF Steps
<1>20. Yields(t, m, m6)
  BY <1>16, <1>17, <1>19, StepsYield
<1>21. QED
  BY <1>3, <1>11, <1>15, <1>20 DEF C, L, M, l, a, y

LEMMA SingleStageOnYields ==
  ASSUME NEW p \in Pipelines, Ordered(p), NEW u, u = Updater(p),
         NEW old \in {0, 1}, NEW new \in {0, 1}, old # new,
         NEW m \in Memory, NEW r, NEW n \in Nat,
         m[Centroids(u, old)] = Value("centroids", r, n, 0)
  PROVE  \E e : /\ Yields(SingleStageOn(u, old, new), m, e) /\ e \in Memory
                /\ e[Centroids(u, new)] = Value("centroids", r, n + 1, 0)
                /\ e[Labels(u, 1)] = Value("labels", r, n, 1)
                /\ e[MassesAt(u)] = Value("masses", r, n, 1)
<1> DEFINE O == Centroids(u, old)  C == Centroids(u, new)
           L == Labels(u, 1)  M == MassesAt(u)
           c1 == Fill(u, M)
           c2 == Fill(u, C)
           c3 == Cmd(u, "fused", <<O, L, C, M>>)
           c4 == Cmd(u, "divide", <<C, M>>)
           m1 == Effect(c1, m)   m2 == Effect(c2, m1)
           m3 == Effect(c3, m2)  m4 == Effect(c4, m3)
           t == <<c1, c2, c3, c4>>  s == <<m1, m2, m3, m4>>
<1>1. /\ u \in Devices /\ O \in Buffers /\ C \in Buffers /\ L \in Buffers
      /\ M \in Buffers
  BY BufferNames DEF Centroids, Labels, MassesAt
<1>2. O # C /\ O # L /\ O # M /\ C # L /\ C # M /\ L # M
  BY DEF Centroids, Labels, MassesAt
<1>3. SingleStageOn(u, old, new) = t
  BY DEF SingleStageOn
<1>4. m[O] = Value("centroids", r, n, 0)
  OBVIOUS
<1> HIDE DEF O, C, L, M
<1>5. /\ IsCommand(c1, u, "fill", <<M>>, {}) /\ IsCommand(c2, u, "fill", <<C>>, {})
      /\ IsCommand(c4, u, "divide", <<C, M>>, {})
  BY <1>1, Launches, Transfers
<1>6. IsCommand(c3, u, "fused", <<O, L, C, M>>, {})
  <2> DEFINE bufs == <<O, L, C, M>>
  <2>1. bufs \in Seq(Buffers) /\ Len(bufs) = Arity["fused"] /\ "fused" \in Kinds
    BY <1>1 DEF Kinds, Arity
  <2> HIDE DEF bufs
  <2>2. IsCommand(Cmd(u, "fused", bufs), u, "fused", bufs, {})
    BY <1>1, <2>1, Builders
  <2>3. QED
    BY <2>2 DEF bufs
<1> HIDE DEF c1, c2, c3, c4
<1>7. m1 \in Memory /\ m1 = [m EXCEPT ![M] = Zero]
  <2>1. m \in Memory /\ IsCommand(c1, u, "fill", <<M>>, {})
    BY <1>5
  <2>2. QED
    BY <1>1, <2>1, Fills
<1> HIDE DEF m1
<1>8. m2 \in Memory /\ m2 = [m1 EXCEPT ![C] = Zero]
  <2>1. m1 \in Memory /\ IsCommand(c2, u, "fill", <<C>>, {})
    BY <1>5, <1>7
  <2>2. QED
    BY <1>1, <2>1, Fills
<1> HIDE DEF m2
<1>9. m2[O] = Value("centroids", r, n, 0) /\ m2[M] = Zero /\ m2[C] = Zero
  BY <1>1, <1>2, <1>4, <1>7, <1>8 DEF Memory
<1> DEFINE l == Value("labels", r, n, 1)  a == Value("masses", r, n, 1)
           b == Value("sums", r, n, 1)  y == Value("centroids", r, n + 1, 0)
<1>10. l = Labelled(m2[O])
  BY <1>9, LloydValues
<1>22. /\ Added("masses", l, Zero) = a /\ Added("sums", l, Zero) = b
       /\ Divided(b, a, 1) = y
  BY LloydValues
<1> HIDE DEF l, a, b, y
<1>11. /\ m3 \in Memory
       /\ m3 = [m2 EXCEPT ![L] = l, ![C] = Added("sums", l, m2[C]),
                          ![M] = Added("masses", l, m2[M])]
  <2>1. m2 \in Memory /\ l = Labelled(m2[O])
    BY <1>8, <1>10
  <2>2. c3 \in Commands /\ c3.kind = "fused" /\ c3.bufs = <<O, L, C, M>>
    BY <1>6 DEF IsCommand
  <2>3. QED
    BY <1>1, <2>1, <2>2, EffectOfFused
<1> HIDE DEF m3
<1>12. /\ m4 \in Memory /\ m4 = [m3 EXCEPT ![C] = Divided(m3[C], m3[M], 1)]
  <2>1. m3 \in Memory
    BY <1>11
  <2>2. IsCommand(c4, u, "divide", <<C, M>>, {})
    BY <1>5
  <2>3. QED
    BY <1>1, <2>1, <2>2, Divides
<1>13. /\ m1 = Effect(c1, m) /\ m2 = Effect(c2, m1) /\ m3 = Effect(c3, m2)
       /\ m4 = Effect(c4, m3)
  BY DEF m1, m2, m3
<1> HIDE DEF m4
<1>14. m3[L] = l /\ m3[C] = b /\ m3[M] = a
  BY <1>1, <1>2, <1>8, <1>9, <1>11, <1>22 DEF Memory
<1>15. m4[L] = l /\ m4[C] = y /\ m4[M] = a
  BY <1>1, <1>2, <1>11, <1>12, <1>14, <1>22 DEF Memory
<1>16. /\ t \in Seq(Works) /\ Len(t) = 4 /\ t[1] = c1 /\ t[2] = c2 /\ t[3] = c3
       /\ t[4] = c4
  BY <1>5, <1>6 DEF IsCommand, Works
<1>17. /\ s \in Seq(Memory) /\ Len(s) = 4 /\ s[1] = m1 /\ s[2] = m2 /\ s[3] = m3
       /\ s[4] = m4
  BY <1>7, <1>8, <1>11, <1>12
<1> HIDE DEF t, s
<1>18. \A i \in 2 .. 4 : i = 2 \/ i = 3 \/ i = 4
  OBVIOUS
<1>19. Steps(t, m, s)
  BY <1>13, <1>16, <1>17, <1>18 DEF Steps
<1>20. Yields(t, m, m4)
  BY <1>16, <1>17, <1>19, StepsYield
<1>21. QED
  BY <1>3, <1>12, <1>15, <1>20 DEF C, L, M, l, a, y

LEMMA ThreeStageAcrossYields ==
  ASSUME NEW p \in Pipelines, Ordered(p), NEW d, d = Labeller(p), NEW u, u = Updater(p),
         d # u, NEW m \in Memory, NEW r, NEW n \in Nat,
         m[Centroids(u, 0)] = Value("centroids", r, n, 0)
  PROVE  \E e : /\ Yields(ThreeStageAcross(d, u), m, e) /\ e \in Memory
                /\ e[Centroids(u, 0)] = Value("centroids", r, n + 1, 0)
                /\ e[Labels(d, 0)] = Value("labels", r, n, 1)
                /\ e[MassesAt(u)] = Value("masses", r, n, 1)
<1> DEFINE C == Centroids(u, 0)  L == Labels(u, 0)  M == MassesAt(u)
           D == Centroids(d, 0)  K == Labels(d, 0)
           c1 == Finish({u})
           c2 == Blocking(Copy(d, C, D))
           c3 == Cmd(d, "label", <<D, K>>)
           c4 == Fill(u, M)
           c5 == Fill(u, C)
           c6 == Blocking(Copy(d, K, L))
           c7 == Cmd(u, "mass", <<L, M>>)
           c8 == Cmd(u, "sum", <<L, C>>)
           c9 == Cmd(u, "divide", <<C, M>>)
           m1 == Effect(c1, m)   m2 == Effect(c2, m1)  m3 == Effect(c3, m2)
           m4 == Effect(c4, m3)  m5 == Effect(c5, m4)  m6 == Effect(c6, m5)
           m7 == Effect(c7, m6)  m8 == Effect(c8, m7)  m9 == Effect(c9, m8)
           t == <<c1, c2, c3, c4, c5, c6, c7, c8, c9>>
           s == <<m1, m2, m3, m4, m5, m6, m7, m8, m9>>
<1>1. /\ u \in Devices /\ d \in Devices /\ C \in Buffers /\ L \in Buffers
      /\ M \in Buffers /\ D \in Buffers /\ K \in Buffers
  BY BufferNames DEF Centroids, Labels, MassesAt
<1>2. /\ C # D /\ C # L /\ C # K /\ C # M /\ D # L /\ D # K /\ D # M
      /\ L # K /\ L # M /\ K # M
  BY DEF Centroids, Labels, MassesAt
<1>3. ThreeStageAcross(d, u) = t
  BY DEF ThreeStageAcross
<1>4. m[C] = Value("centroids", r, n, 0)
  OBVIOUS
<1> HIDE DEF C, L, M, D, K
<1>5. /\ c1 \in Commands /\ c1.kind = "finish"
      /\ IsCommand(c2, d, "copy", <<C, D>>, {d}) /\ IsCommand(c6, d, "copy", <<K, L>>, {d})
      /\ IsCommand(c3, d, "label", <<D, K>>, {})
      /\ IsCommand(c4, u, "fill", <<M>>, {}) /\ IsCommand(c5, u, "fill", <<C>>, {})
      /\ IsCommand(c7, u, "mass", <<L, M>>, {}) /\ IsCommand(c8, u, "sum", <<L, C>>, {})
      /\ IsCommand(c9, u, "divide", <<C, M>>, {})
  BY <1>1, Launches, Transfers, Finishes
<1> HIDE DEF c1, c2, c3, c4, c5, c6, c7, c8, c9
<1>6. m1 = m
  BY <1>5, EffectOfFinish
<1> HIDE DEF m1
<1>7. m2 \in Memory /\ m2 = [m1 EXCEPT ![D] = m1[C]]
  <2>1. m1 \in Memory /\ IsCommand(c2, d, "copy", <<C, D>>, {d})
    BY <1>5, <1>6
  <2>2. QED
    BY <1>1, <2>1, Copies
<1> HIDE DEF m2
<1>8. m3 \in Memory /\ m3 = [m2 EXCEPT ![K] = Labelled(m2[D])]
  <2>1. m2 \in Memory /\ IsCommand(c3, d, "label", <<D, K>>, {})
    BY <1>5, <1>7
  <2>2. QED
    BY <1>1, <2>1, LabelsOut
<1> HIDE DEF m3
<1>9. m4 \in Memory /\ m4 = [m3 EXCEPT ![M] = Zero]
  <2>1. m3 \in Memory /\ IsCommand(c4, u, "fill", <<M>>, {})
    BY <1>5, <1>8
  <2>2. QED
    BY <1>1, <2>1, Fills
<1> HIDE DEF m4
<1>10. m5 \in Memory /\ m5 = [m4 EXCEPT ![C] = Zero]
  <2>1. m4 \in Memory /\ IsCommand(c5, u, "fill", <<C>>, {})
    BY <1>5, <1>9
  <2>2. QED
    BY <1>1, <2>1, Fills
<1> HIDE DEF m5
<1>11. m6 \in Memory /\ m6 = [m5 EXCEPT ![L] = m5[K]]
  <2>1. m5 \in Memory /\ IsCommand(c6, d, "copy", <<K, L>>, {d})
    BY <1>5, <1>10
  <2>2. QED
    BY <1>1, <2>1, Copies
<1> HIDE DEF m6
<1>12. m7 \in Memory /\ m7 = [m6 EXCEPT ![M] = Added("masses", m6[L], m6[M])]
  <2>1. m6 \in Memory /\ IsCommand(c7, u, "mass", <<L, M>>, {})
    BY <1>5, <1>11
  <2>2. QED
    BY <1>1, <2>1, AddsMasses
<1> HIDE DEF m7
<1>13. m8 \in Memory /\ m8 = [m7 EXCEPT ![C] = Added("sums", m7[L], m7[C])]
  <2>1. m7 \in Memory /\ IsCommand(c8, u, "sum", <<L, C>>, {})
    BY <1>5, <1>12
  <2>2. QED
    BY <1>1, <2>1, AddsSums
<1> HIDE DEF m8
<1>14. m9 \in Memory /\ m9 = [m8 EXCEPT ![C] = Divided(m8[C], m8[M], 1)]
  <2>1. m8 \in Memory /\ IsCommand(c9, u, "divide", <<C, M>>, {})
    BY <1>5, <1>13
  <2>2. QED
    BY <1>1, <2>1, Divides
<1>15. /\ m1 = Effect(c1, m) /\ m2 = Effect(c2, m1) /\ m3 = Effect(c3, m2)
       /\ m4 = Effect(c4, m3) /\ m5 = Effect(c5, m4) /\ m6 = Effect(c6, m5)
       /\ m7 = Effect(c7, m6) /\ m8 = Effect(c8, m7) /\ m9 = Effect(c9, m8)
  BY DEF m1, m2, m3, m4, m5, m6, m7, m8
<1> HIDE DEF m9
<1> DEFINE x == Value("centroids", r, n, 0)  l == Value("labels", r, n, 1)
           a == Value("masses", r, n, 1)  b == Value("sums", r, n, 1)
           y == Value("centroids", r, n + 1, 0)
<1>16. /\ Labelled(x) = l /\ Added("masses", l, Zero) = a /\ Added("sums", l, Zero) = b
       /\ Divided(b, a, 1) = y
  BY LloydValues
<1>17. m[C] = x
  BY <1>4
<1> HIDE DEF x, l, a, b, y
\* The labels of the copied centroids,
<1>18. m3[K] = l
  <2>1. m2[D] = x
    BY <1>1, <1>6, <1>7, <1>17 DEF Memory
  <2>2. QED
    BY <1>1, <1>8, <1>16, <2>1, <1>7 DEF Memory
\* which are copied, when nothing is added up yet,
<1>19. m6[K] = l /\ m6[L] = l /\ m6[M] = Zero /\ m6[C] = Zero
  <2>1. m5[K] = l /\ m5[M] = Zero /\ m5[C] = Zero
    BY <1>1, <1>2, <1>8, <1>9, <1>10, <1>18 DEF Memory
  <2>2. QED
    BY <1>1, <1>2, <1>10, <1>11, <2>1 DEF Memory
\* masses and sums,
<1>20. m8[K] = l /\ m8[M] = a /\ m8[C] = b
  <2>1. m7[K] = l /\ m7[L] = l /\ m7[M] = a /\ m7[C] = Zero
    BY <1>1, <1>2, <1>11, <1>12, <1>16, <1>19 DEF Memory
  <2>2. QED
    BY <1>1, <1>2, <1>12, <1>13, <1>16, <2>1 DEF Memory
\* new centroids.
<1>21. m9[K] = l /\ m9[M] = a /\ m9[C] = y
  BY <1>1, <1>2, <1>13, <1>14, <1>16, <1>20 DEF Memory
<1>22. /\ Len(t) = 9 /\ t[1] = c1 /\ t[2] = c2 /\ t[3] = c3 /\ t[4] = c4 /\ t[5] = c5
       /\ t[6] = c6 /\ t[7] = c7 /\ t[8] = c8 /\ t[9] = c9
  OBVIOUS
<1>23. t \in Seq(Works)
  BY <1>5 DEF IsCommand, Works
<1>24. /\ Len(s) = 9 /\ s[1] = m1 /\ s[2] = m2 /\ s[3] = m3 /\ s[4] = m4 /\ s[5] = m5
       /\ s[6] = m6 /\ s[7] = m7 /\ s[8] = m8 /\ s[9] = m9
  OBVIOUS
<1>25. s \in Seq(Memory)
  BY <1>6, <1>7, <1>8, <1>9, <1>10, <1>11, <1>12, <1>13, <1>14
<1> HIDE DEF t, s
<1>26. \A i \in 2 .. 9 : \/ i = 2 \/ i = 3 \/ i = 4 \/ i = 5 \/ i = 6 \/ i = 7
                         \/ i = 8 \/ i = 9
  OBVIOUS
<1>27. Steps(t, m, s)
  BY <1>15, <1>22, <1>23, <1>24, <1>25, <1>26 DEF Steps
<1>28. Yields(t, m, m9)
  BY <1>22, <1>24, <1>27, StepsYield
<1>29. QED
  BY <1>3, <1>14, <1>21, <1>28 DEF C, K, M, l, a, y

LEMMA IterationYields ==
  ASSUME NEW p \in Pipelines, pipeline = p, Ordered(p), NEW m \in Memory,
         NEW r, NEW n \in Nat, Results(p, m, r, n)
  PROVE  \E e : Yields(IterationOf(p, n), m, e) /\ Results(p, e, r, n + 1)
<1> DEFINE d == Labeller(p)  u == Updater(p)
<1>1. n + 1 > 0 /\ (n + 1) - 1 = n
  OBVIOUS
<1>2. m[Centroids(u, Now(p, n))] = Value("centroids", r, n, 0)
  BY DEF Results
<1>3. ASSUME NEW e, e[Centroids(u, Now(p, n + 1))] = Value("centroids", r, n + 1, 0),
             e[Labels(d, Block(p))] = Value("labels", r, n, 1),
             e[MassesAt(u)] = Value("masses", r, n, 1)
      PROVE  Results(p, e, r, n + 1)
  BY <1>1, <1>3 DEF Results
<1> HIDE DEF d, u
<1>4. CASE p.name = "three_stage" /\ d = u
  <2>1. Now(p, n) = 0 /\ Now(p, n + 1) = 0 /\ Block(p) = 0
    BY <1>4 DEF Now, Block
  <2>2. IterationOf(p, n) = ThreeStageOn(u)
    BY <1>4, OneDeviceLists DEF d, u
  <2>3. QED
    BY <1>2, <1>3, <1>4, <2>1, <2>2, ThreeStageOnYields DEF u
<1>5. CASE p.name = "three_stage" /\ d # u
  <2>1. Now(p, n) = 0 /\ Now(p, n + 1) = 0 /\ Block(p) = 0
    BY <1>5 DEF Now, Block
  <2>2. IterationOf(p, n) = ThreeStageAcross(d, u)
    BY <1>5, TwoDeviceLists DEF d, u
  <2>3. QED
    BY <1>2, <1>3, <1>5, <2>1, <2>2, ThreeStageAcrossYields DEF d, u
<1>6. CASE p.name = "single_stage"
  <2> DEFINE old == n % 2  new == (n + 1) % 2
  <2>1. Now(p, n) = old /\ Now(p, n + 1) = new /\ Block(p) = 1
    BY <1>6 DEF Now, Block
  <2>2. old \in {0, 1} /\ new \in {0, 1} /\ old # new
    OBVIOUS
  <2>3. IterationOf(p, n) = SingleStageOn(u, old, new) /\ d = u
    BY <1>6, SingleStageLists, PlaceNames DEF d, u
  <2> HIDE DEF old, new
  <2>4. QED
    BY <1>2, <1>3, <2>1, <2>2, <2>3, SingleStageOnYields DEF u
<1>7. QED
  BY <1>4, <1>5, <1>6 DEF Ordered

\* The upload of the initial centroids, and the download of the results.
LEMMA UploadYields ==
  ASSUME NEW p \in Pipelines, pipeline = p, Ordered(p), NEW m \in Memory,
         NEW r, m[Host("centroids")] = InitialCentroids(r)
  PROVE  \E e : Yields(UploadOf(p), m, e) /\ Results(p, e, r, 0)
<1> DEFINE d == Labeller(p)  u == Updater(p)
           H == Host("centroids")  C == Centroids(u, 0)  D == Centroids(d, 0)
           x == Value("centroids", r, 0, 0)
<1>1. /\ d \in Devices /\ u \in Devices /\ H \in Buffers /\ C \in Buffers /\ D \in Buffers
      /\ H # C /\ H # D /\ (d # u => C # D)
  <2>1. /\ d \in Devices /\ u \in Devices /\ H \in Buffers
        /\ C \in Buffers /\ D \in Buffers
    BY BufferNames DEF Centroids
  <2>2. d # "host" /\ u # "host"
    BY BufferNames
  <2>3. QED
    BY <2>1, <2>2 DEF Centroids, Host
<1>2. m[H] = x
  BY DEF InitialCentroids
<1>3. ASSUME NEW e, e[C] = x PROVE Results(p, e, r, 0)
  <2>1. Now(p, 0) = 0
    BY DEF Now
  <2>2. QED
    BY <1>3, <2>1 DEF Results
<1> HIDE DEF H, C, D, x
<1> DEFINE a == Copy(d, H, D)  b == Blocking(Copy(u, H, C))  c == Finish({d})
           f == Finish({d, u})  g == Copy(u, H, C)  h == Finish({u})
<1>4. /\ IsCommand(a, d, "copy", <<H, D>>, {}) /\ IsCommand(b, u, "copy", <<H, C>>, {u})
      /\ IsCommand(g, u, "copy", <<H, C>>, {})
  BY <1>1, Transfers
<1>5. /\ c \in Commands /\ c.kind = "finish" /\ f \in Commands /\ f.kind = "finish"
      /\ h \in Commands /\ h.kind = "finish"
  BY <1>1, Finishes
<1>6. a \in Works /\ b \in Works /\ c \in Works /\ f \in Works /\ g \in Works /\ h \in Works
  BY <1>4, <1>5 DEF IsCommand, Works
<1>7. /\ p.name = "three_stage" /\ d = u => UploadOf(p) = <<g, h, h>>
      /\ p.name = "single_stage" => UploadOf(p) = <<g, h>>
      /\ p.name = "three_stage" /\ d # u => UploadOf(p) = <<a, b, c, f>>
  <2>1. p.name = "three_stage" /\ d = u => UploadOf(p) = <<g, h, h>>
    BY OneDeviceLists, 0 \in Nat DEF H, C
  <2>2. p.name = "single_stage" => UploadOf(p) = <<g, h>>
    BY SingleStageLists, 0 \in Nat DEF H, C
  <2>3. p.name = "three_stage" /\ d # u => UploadOf(p) = <<a, b, c, f>>
    BY TwoDeviceLists, 0 \in Nat DEF H, C, D
  <2>4. QED
    BY <2>1, <2>2, <2>3
<1> HIDE DEF a, b, c, f, g, h, d, u
<1> DEFINE e == Effect(g, m)
<1>8. e \in Memory /\ e = [m EXCEPT ![C] = m[H]]
  BY <1>1, <1>4, Copies
<1>9. e[C] = x /\ e = Effect(g, m) /\ Effect(h, e) = e
  BY <1>1, <1>2, <1>5, <1>8, EffectOfFinish DEF Memory
<1> HIDE DEF e
<1>10. CASE p.name = "three_stage" /\ d = u
  <2> DEFINE t == <<g, h, h>>  s == <<e, e, e>>
  <2>1. t \in Seq(Works) /\ Len(t) = 3 /\ t[1] = g /\ t[2] = h /\ t[3] = h
    BY <1>6
  <2>2. s \in Seq(Memory) /\ Len(s) = 3 /\ s[1] = e /\ s[2] = e /\ s[3] = e
    BY <1>8
  <2>3. UploadOf(p) = t
    BY <1>7, <1>10
  <2> HIDE DEF t, s
  <2>4. \A i \in 2 .. 3 : i = 2 \/ i = 3
    OBVIOUS
  <2>5. Steps(t, m, s)
    BY <1>9, <2>1, <2>2, <2>4 DEF Steps
  <2>6. Yields(t, m, e)
    BY <2>1, <2>2, <2>5, StepsYield
  <2>7. QED
    BY <1>3, <1>9, <2>3, <2>6
<1>11. CASE p.name = "single_stage"
  <2> DEFINE t == <<g, h>>  s == <<e, e>>
  <2>1. t \in Seq(Works) /\ Len(t) = 2 /\ t[1] = g /\ t[2] = h
    BY <1>6
  <2>2. s \in Seq(Memory) /\ Len(s) = 2 /\ s[1] = e /\ s[2] = e
    BY <1>8
  <2>3. UploadOf(p) = t
    BY <1>7, <1>11
  <2> HIDE DEF t, s
  <2>4. \A i \in 2 .. 2 : i = 2
    OBVIOUS
  <2>5. Steps(t, m, s)
    BY <1>9, <2>1, <2>2, <2>4 DEF Steps
  <2>6. Yields(t, m, e)
    BY <2>1, <2>2, <2>5, StepsYield
  <2>7. QED
    BY <1>3, <1>9, <2>3, <2>6
<1>12. CASE p.name = "three_stage" /\ d # u
  <2> DEFINE t == <<a, b, c, f>>  m1 == Effect(a, m)  m2 == Effect(b, m1)
             s == <<m1, m2, m2, m2>>
  <2>1. /\ t \in Seq(Works) /\ Len(t) = 4 /\ t[1] = a /\ t[2] = b /\ t[3] = c
        /\ t[4] = f
    BY <1>6
  <2>2. m1 \in Memory /\ m1 = [m EXCEPT ![D] = m[H]] /\ m1 = Effect(a, m)
    BY <1>1, <1>4, Copies
  <2> HIDE DEF m1
  <2>3. m2 \in Memory /\ m2 = [m1 EXCEPT ![C] = m1[H]] /\ m2 = Effect(b, m1)
    <3>1. m1 \in Memory /\ IsCommand(b, u, "copy", <<H, C>>, {u})
      BY <1>4, <2>2
    <3>2. QED
      BY <1>1, <3>1, Copies
  <2> HIDE DEF m2
  <2>4. m2[C] = x
    BY <1>1, <1>2, <2>2, <2>3 DEF Memory
  <2>5. Effect(c, m2) = m2 /\ Effect(f, m2) = m2
    BY <1>5, <2>3, EffectOfFinish
  <2>6. /\ s \in Seq(Memory) /\ Len(s) = 4 /\ s[1] = m1 /\ s[2] = m2 /\ s[3] = m2
        /\ s[4] = m2
    BY <2>2, <2>3
  <2>7. UploadOf(p) = t
    BY <1>7, <1>12
  <2> HIDE DEF t, s
  <2>8. \A i \in 2 .. 4 : i = 2 \/ i = 3 \/ i = 4
    OBVIOUS
  <2>9. Steps(t, m, s)
    <3>1. m1 = Effect(a, m) /\ m2 = Effect(b, m1)
      BY <2>2, <2>3
    <3>2. QED
      BY <2>1, <2>5, <2>6, <2>8, <3>1 DEF Steps
  <2>10. Yields(t, m, m2)
    BY <2>1, <2>6, <2>9, StepsYield
  <2>11. QED
    BY <1>3, <2>4, <2>7, <2>10
<1>13. QED
  BY <1>10, <1>11, <1>12 DEF Ordered

LEMMA FetchYields ==
  ASSUME NEW p \in Pipelines, Ordered(p), NEW m \in Memory,
         NEW d, d = Labeller(p), NEW u, u = Updater(p),
         NEW i \in {0, 1}, NEW j \in {0, 1}
  PROVE  \E e : /\ Yields(Fetch(d, u, i, j), m, e)
                /\ e[Host("centroids")] = m[Centroids(u, i)]
                /\ e[Host("labels")] = m[Labels(d, j)]
                /\ e[Host("masses")] = m[MassesAt(u)]
<1> DEFINE C == Centroids(u, i)  L == Labels(d, j)  M == MassesAt(u)
           A == Host("centroids")  B == Host("labels")  G == Host("masses")
           a == Blocking(Copy(u, C, A))
           b == Blocking(Copy(d, L, B))
           c == Blocking(Copy(u, M, G))
           m1 == Effect(a, m)  m2 == Effect(b, m1)  m3 == Effect(c, m2)
           t == <<a, b, c>>  s == <<m1, m2, m3>>
<1>1. /\ d \in Devices /\ u \in Devices /\ C \in Buffers /\ L \in Buffers
      /\ M \in Buffers /\ A \in Buffers /\ B \in Buffers /\ G \in Buffers
  BY BufferNames DEF Centroids, Labels, MassesAt
<1>2. A # B /\ A # G /\ B # G /\ A # L /\ A # M /\ B # M
  BY DEF Host, Labels, MassesAt
<1>3. Fetch(d, u, i, j) = t
  BY DEF Fetch
<1> HIDE DEF C, L, M, A, B, G
<1>4. /\ IsCommand(a, u, "copy", <<C, A>>, {u}) /\ IsCommand(b, d, "copy", <<L, B>>, {d})
      /\ IsCommand(c, u, "copy", <<M, G>>, {u})
  BY <1>1, Transfers
<1> HIDE DEF a, b, c
<1>5. m1 \in Memory /\ m1 = [m EXCEPT ![A] = m[C]] /\ m1 = Effect(a, m)
  BY <1>1, <1>4, Copies
<1> HIDE DEF m1
<1>6. m2 \in Memory /\ m2 = [m1 EXCEPT ![B] = m1[L]] /\ m2 = Effect(b, m1)
  <2>1. m1 \in Memory /\ IsCommand(b, d, "copy", <<L, B>>, {d})
    BY <1>4, <1>5
  <2>2. QED
    BY <1>1, <2>1, Copies
<1> HIDE DEF m2
<1>7. m3 \in Memory /\ m3 = [m2 EXCEPT ![G] = m2[M]] /\ m3 = Effect(c, m2)
  <2>1. m2 \in Memory /\ IsCommand(c, u, "copy", <<M, G>>, {u})
    BY <1>4, <1>6
  <2>2. QED
    BY <1>1, <2>1, Copies
<1> HIDE DEF m3
<1>8. m3[A] = m[C] /\ m3[B] = m[L] /\ m3[G] = m[M]
  BY <1>1, <1>2, <1>5, <1>6, <1>7 DEF Memory
<1>9. t \in Seq(Works) /\ Len(t) = 3 /\ t[1] = a /\ t[2] = b /\ t[3] = c
  BY <1>4 DEF IsCommand, Works
<1>10. s \in Seq(Memory) /\ Len(s) = 3 /\ s[1] = m1 /\ s[2] = m2 /\ s[3] = m3
  BY <1>5, <1>6, <1>7
<1> HIDE DEF t, s
<1>11. \A k \in 2 .. 3 : k = 2 \/ k = 3
  OBVIOUS
<1>12. Steps(t, m, s)
  <2>1. m1 = Effect(a, m) /\ m2 = Effect(b, m1) /\ m3 = Effect(c, m2)
    BY <1>5, <1>6, <1>7
  <2>2. QED
    BY <1>9, <1>10, <1>11, <2>1 DEF Steps
<1>13. Yields(t, m, m3)
  BY <1>9, <1>10, <1>12, StepsYield
<1>14. QED
  BY <1>3, <1>8, <1>13 DEF C, L, M, A, B, G

LEMMA DownloadYields ==
  ASSUME NEW p \in Pipelines, pipeline = p, Ordered(p), NEW m \in Memory,
         NEW r, MaxIterations > 0, Results(p, m, r, MaxIterations)
  PROVE  \E e : Yields(DownloadOf(p), m, e) /\ HostResults(e, r, MaxIterations)
<1> DEFINE d == Labeller(p)  u == Updater(p)  i == Now(p, MaxIterations)
<1>1. /\ m[Centroids(u, i)] = Value("centroids", r, MaxIterations, 0)
      /\ m[Labels(d, Block(p))] = Value("labels", r, MaxIterations - 1, 1)
      /\ m[MassesAt(u)] = Value("masses", r, MaxIterations - 1, 1)
  BY DEF Results
<1>2. i \in {0, 1} /\ Block(p) \in {0, 1}
  BY ClientsAssumption DEF Now, Block
<1>3. DownloadOf(p) = Fetch(d, u, i, Block(p))
  <2>1. 0 \in Nat
    OBVIOUS
  <2>2. CASE p.name = "three_stage"
    BY <2>1, <2>2, OneDeviceLists, TwoDeviceLists DEF Now, Block
  <2>3. CASE p.name = "single_stage"
    BY <2>1, <2>3, SingleStageLists, PlaceNames DEF Now, Block
  <2>4. QED
    BY <2>2, <2>3 DEF Ordered
<1> HIDE DEF i
<1>4. PICK e : /\ Yields(Fetch(d, u, i, Block(p)), m, e)
               /\ e[Host("centroids")] = m[Centroids(u, i)]
               /\ e[Host("labels")] = m[Labels(d, Block(p))]
               /\ e[Host("masses")] = m[MassesAt(u)]
  BY <1>2, FetchYields
<1>5. QED
  BY <1>1, <1>3, <1>4 DEF HostResults

-----------------------------------------------------------------------------
(***************************************************************************)
(* The invariant of client p                                               *)
(***************************************************************************)
\* While iterations are issued, nothing waits for the centroid update.
Settling(p) == IF stage = "loop" THEN Devices \ {Updater(p)} ELSE Devices

\* What memory is to hold when all that is queued or to issue has been done.
Goal(p, m) ==
  /\ stage \in {"upload", "loop", "last"} => Results(p, m, runs, iteration)
  /\ stage \in {"download", "returned"} => HostResults(m, runs, MaxIterations)

Quiet == \A q \in Queues : queued[q] = <<>>

StageInv ==
  /\ stage \in {"idle", "upload", "loop", "last", "download", "returned", "end"}
  /\ stage \in {"idle", "returned", "end"} => todo = <<>> /\ Quiet
  /\ stage = "upload" => iteration = 0
  /\ stage = "last" => iteration = MaxIterations

GoalInv(p) ==
  stage \in {"upload", "loop", "last", "download", "returned"} =>
    \E m : Executes(p, m) /\ Goal(p, m)

VerifyInv ==
  /\ reference # Wrong => reference = NaiveLabels(InitialCentroids(0))
  /\ purpose = "verify" /\ stage # "idle" => reference # Wrong
  /\ incorrect = 0

ClientInv(p) ==
  /\ ClientTypes /\ pipeline = p
  /\ StageInv /\ PlaceInv(p) /\ WaitInv(Settling(p))
  /\ GoalInv(p) /\ VerifyInv

\* All queues are empty once the client has waited for all devices.
LEMMA WaitedForAll ==
  ASSUME NEW p \in Pipelines, ClientTypes, PlaceInv(p), Finishing(Devices),
         todo = <<>>, Returned
  PROVE  Quiet
<1>1. ASSUME NEW q \in Devices PROVE queued[q] = <<>>
  <2>1. Len(todo) = 0
    OBVIOUS
  <2>2. queued[q] = <<>> \/ q \in awaits
    BY <2>1 DEF Finishing
  <2>3. QED
    BY <2>2 DEF Returned
<1>2. \A q \in Queues : q \notin Devices => queued[q] = <<>>
  BY PlacesOf DEF PlaceInv, OthersEmpty
<1>3. QED
  BY <1>1, <1>2 DEF Quiet

LEMMA QuietYields ==
  ASSUME NEW p \in Pipelines, ClientTypes, Quiet, NEW m, Executes(p, m)
  PROVE  Yields(todo, mem, m)
<1>1. Ahead(p) = <<>> /\ queued[Updater(p)] = <<>>
  BY PlacesOf DEF Quiet, Ahead
<1>2. PICK m1, m2 : /\ Yields(<<>>, mem, m1) /\ Yields(<<>>, m1, m2)
                    /\ Yields(todo, m2, m)
  BY <1>1 DEF Executes
<1>3. mem = m1 /\ m1 = m2
  BY <1>2, YieldsEmpty
<1>4. QED
  BY <1>2, <1>3

\* A list begun when all queues are empty.
LEMMA BeginWaits ==
  ASSUME NEW p \in Pipelines, Quiet, queued' = queued, NEW t, todo' = t,
         ListOf(p, t, Devices)
  PROVE  PlaceInv(p)' /\ WaitInv(Devices)'
<1>1. \A q \in Queues : queued'[q] = <<>> /\ Len(queued'[q]) = 0
  BY DEF Quiet
<1>2. Guarded' /\ Apart'
  BY <1>1 DEF Guarded, Apart
<1>3. Finishing(Devices)' /\ OthersEmpty(p)'
  BY <1>1 DEF Finishing, OthersEmpty, Queues
<1>4. InPlace(p, todo)' /\ Spaced(todo)' /\ Finished(todo, Devices)'
  BY DEF ListOf, InPlace, Labeller, Updater
<1>5. QED
  BY <1>2, <1>3, <1>4 DEF PlaceInv, WaitInv

LEMMA BeginExecutes ==
  ASSUME NEW p \in Pipelines, Quiet, queued' = queued, NEW t, todo' = t,
         mem' \in Memory, NEW m, Yields(t, mem', m)
  PROVE  Executes(p, m)'
<1>1. Ahead(p)' = <<>> /\ queued'[Updater(p)] = <<>>
  BY PlacesOf DEF Quiet, Ahead, Labeller, Updater
<1>2. Yields(<<>>, mem', mem')
  BY YieldsNothing
<1>3. QED
  BY <1>1, <1>2 DEF Executes, Updater

-----------------------------------------------------------------------------
LEMMA InitInv ==
  ASSUME ClientsInit
  PROVE  \E p \in Pipelines : ClientInv(p)
<1>1. PICK p \in Pipelines : p = pipeline
  BY DEF ClientsInit
<1>2. ClientTypes
  <2>1. [b \in Buffers |-> Zero] \in Memory
    BY ValuesOf DEF Memory
  <2>2. [q \in Queues |-> <<>>] \in [Queues -> Seq(Operations)]
    OBVIOUS
  <2>3. QED
    BY <2>1, <2>2 DEF ClientsInit, ClientTypes
<1>3. Quiet /\ todo = <<>>
  BY DEF ClientsInit, Quiet
<1>4. PlaceInv(p) /\ WaitInv(Devices)
  <2>1. \A q \in Queues : queued[q] = <<>> /\ Len(queued[q]) = 0
    BY <1>3 DEF Quiet
  <2>2. Guarded /\ Apart
    BY <2>1 DEF Guarded, Apart
  <2>3. Finishing(Devices) /\ OthersEmpty(p)
    BY <2>1 DEF Finishing, OthersEmpty, Queues
  <2>4. Len(todo) = 0
    BY <1>3
  <2>5. InPlace(p, todo) /\ Spaced(todo) /\ Finished(todo, Devices)
    BY <2>4 DEF InPlace, Spaced, Finished
  <2>6. QED
    BY <2>2, <2>3, <2>5 DEF PlaceInv, WaitInv
<1>5. stage = "idle" /\ incorrect = 0 /\ reference = Wrong
  BY DEF ClientsInit
<1>6. ClientInv(p)
  BY <1>1, <1>2, <1>3, <1>4, <1>5
     DEF ClientInv, StageInv, GoalInv, VerifyInv, Settling
<1>7. QED
  BY <1>6

\* A call of the client.
LEMMA CallTypes ==
  ASSUME NEW p \in Pipelines, Ordered(p), ClientTypes, NEW c \in Values
  PROVE  CallMemory(c) \in Memory /\ CallMemory(c)[Host("centroids")] = c
<1>1. mem \in Memory /\ DOMAIN mem = Buffers /\ Host("centroids") \in Buffers
      /\ Host("labels") \in Buffers
  BY BufferNames DEF ClientTypes, Memory
<1>2. ASSUME NEW b \in Buffers PROVE AtCall(b) \in Values
  <2>1. /\ b[1] \in {"centroids", "labels", "masses"} /\ mem[b] \in Values
        /\ mem[Host("labels")] \in Values /\ Zero \in Values /\ Wrong \in Values
    BY <1>1, ValuesOf DEF Buffers, Memory
  <2>2. CASE b[1] = "labels"
    BY <2>1, <2>2 DEF AtCall
  <2>3. CASE b[1] = "masses"
    BY <2>1, <2>3 DEF AtCall
  <2>4. CASE b[1] = "centroids"
    BY <2>1, <2>4 DEF AtCall
  <2>5. QED
    BY <2>1, <2>2, <2>3, <2>4
<1>3. CallMemory(c) =
        [b \in Buffers |-> IF b = Host("centroids") THEN c
                           ELSE IF b[2] = "host" THEN mem[b] ELSE AtCall(b)]
  BY <1>1 DEF CallMemory
<1>4. \A b \in Buffers : mem[b] \in Values
  BY <1>1 DEF Memory
<1>5. QED
  BY <1>1, <1>2, <1>3, <1>4 DEF Memory

LEMMA CallInv ==
  ASSUME NEW p \in Pipelines, Ordered(p), ClientInv(p), stage \in {"idle", "returned"},
         runs' = runs + 1, Call(InitialCentroids(runs + 1)),
         incorrect' = incorrect, reference' = reference, purpose' = purpose,
         purpose = "verify" => reference # Wrong
  PROVE  ClientInv(p)'
<1> DEFINE r == runs + 1  x == InitialCentroids(r)
<1>1. /\ ClientTypes /\ pipeline = p /\ Quiet /\ todo = <<>> /\ runs \in Nat
  BY DEF ClientInv, StageInv, ClientTypes
<1>2. /\ stage' = "upload" /\ iteration' = 0 /\ todo' = UploadOf(p)
      /\ mem' = CallMemory(x) /\ pipeline' = p /\ awaits' = awaits
      /\ queued' = queued /\ issued' = issued /\ runs' = r
  BY <1>1 DEF Call, UploadOf
<1>3. x \in Values /\ r \in Nat
  BY <1>1 DEF InitialCentroids, Value, Values
<1>4. mem' \in Memory /\ mem'[Host("centroids")] = InitialCentroids(r)
  BY <1>1, <1>2, <1>3, CallTypes
<1>5. ListOf(p, UploadOf(p), Devices)
  BY <1>1, UploadList
<1> HIDE DEF x, r
<1>6. ClientTypes'
  BY <1>1, <1>2, <1>3, <1>4, <1>5 DEF ClientTypes, ListOf
<1>8. PlaceInv(p)' /\ WaitInv(Devices)'
  BY <1>1, <1>2, <1>5, BeginWaits
<1>9. PICK e : Yields(UploadOf(p), mem', e) /\ Results(p, e, r, 0)
  <2> DEFINE m == CallMemory(x)
  <2>1. m \in Memory /\ m[Host("centroids")] = InitialCentroids(r) /\ mem' = m
    BY <1>2, <1>4
  <2> HIDE DEF m
  <2>2. \E e : Yields(UploadOf(p), m, e) /\ Results(p, e, r, 0)
    BY <1>1, <2>1, UploadYields
  <2>3. QED
    BY <2>1, <2>2
<1>10. Executes(p, e)'
  BY <1>1, <1>2, <1>4, <1>9, BeginExecutes
<1>11. Goal(p, e)'
  BY <1>2, <1>9 DEF Goal
<1>12. QED
  BY <1>1, <1>2, <1>6, <1>8, <1>10, <1>11
     DEF ClientInv, StageInv, GoalInv, VerifyInv, Settling

LEMMA IssueInv ==
  ASSUME NEW p \in Pipelines, ClientInv(p), Issue
  PROVE  ClientInv(p)'
<1> DEFINE c == Head(todo)
<1>1. /\ ClientTypes /\ todo # <<>> /\ PlaceInv(p) /\ WaitInv(Settling(p))
      /\ Settling(p) \in SUBSET Queues /\ GoalInv(p)
  BY DEF ClientInv, Issue, Settling, Queues
<1>2. /\ mem' = mem /\ iteration' = iteration /\ stage' = stage /\ pipeline' = pipeline
      /\ runs' = runs /\ purpose' = purpose /\ reference' = reference
      /\ incorrect' = incorrect
  BY DEF Issue, benchmarkVars
<1>3. c \in Commands /\ IssueFirst(c)
  BY <1>1, FirstOf DEF Issue, IssueFirst, Issued
<1> HIDE DEF c
<1>4. ClientTypes' /\ PlaceInv(p)'
  BY <1>1, <1>2, <1>3, IssueTypes, IssuePlaces
<1>5. WaitInv(Settling(p))'
  <2> DEFINE qs == Settling(p)
  <2>1. qs' = qs
    BY <1>2 DEF Settling, Updater
  <2>2. qs \in SUBSET Queues /\ WaitInv(qs)
    BY <1>1
  <2> HIDE DEF qs
  <2>3. WaitInv(qs)'
    BY <1>1, <1>3, <2>1, <2>2, IssueWaits DEF WaitInv, Finished, Finishing
  <2>4. QED
    BY <2>3 DEF qs
<1>6. StageInv' /\ VerifyInv'
  BY <1>1, <1>2 DEF ClientInv, StageInv, VerifyInv
<1>7. GoalInv(p)'
  <2>1. SUFFICES ASSUME stage \in {"upload", "loop", "last", "download", "returned"}
                 PROVE  \E m : Executes(p, m)' /\ Goal(p, m)'
    BY <1>2 DEF GoalInv
  <2>2. PICK m : Executes(p, m) /\ Goal(p, m)
    BY <1>1, <2>1 DEF GoalInv
  <2>3. Executes(p, m)'
    BY <1>1, <1>2, <1>3, <2>2, IssueExecutes
  <2>4. Goal(p, m)'
    BY <1>2, <2>2 DEF Goal
  <2>5. QED
    BY <2>3, <2>4
<1>8. QED
  BY <1>2, <1>4, <1>5, <1>6, <1>7 DEF ClientInv

LEMMA DeviceInv ==
  ASSUME NEW p \in Pipelines, Ordered(p), ClientInv(p), NEW q \in Queues, DeviceStep(q)
  PROVE  ClientInv(p)'
<1>1. /\ ClientTypes /\ queued[q] # <<>> /\ PlaceInv(p) /\ WaitInv(Settling(p))
      /\ Settling(p) \in SUBSET Queues /\ GoalInv(p) /\ pipeline.blocks = 1
  BY DEF ClientInv, DeviceStep, Settling, Queues, Ordered
<1>2. /\ iteration' = iteration /\ stage' = stage /\ pipeline' = pipeline /\ todo' = todo
      /\ runs' = runs /\ purpose' = purpose /\ reference' = reference
      /\ incorrect' = incorrect
  BY DEF DeviceStep, benchmarkVars
<1>3. ~Quiet
  BY <1>1 DEF Quiet
<1>4. ClientTypes'
  BY <1>1, DeviceTypes
<1>5. WaitInv(Settling(p))'
  <2> DEFINE qs == Settling(p)
  <2>1. qs' = qs
    BY <1>2 DEF Settling, Updater
  <2>2. qs \in SUBSET Queues /\ WaitInv(qs)
    BY <1>1
  <2> HIDE DEF qs
  <2>3. WaitInv(qs)'
    BY <1>1, <2>1, <2>2, DeviceWaits DEF WaitInv, Finished, Finishing
  <2>4. QED
    BY <2>3 DEF qs
<1>6. PlaceInv(p)' /\ \A m : Executes(p, m) => Executes(p, m)'
  BY <1>1, DeviceExecutes
<1>7. StageInv' /\ VerifyInv'
  BY <1>2, <1>3 DEF ClientInv, StageInv, VerifyInv
<1>8. \A m : Goal(p, m) => Goal(p, m)'
  BY <1>2 DEF Goal
<1>9. GoalInv(p)'
  BY <1>1, <1>2, <1>6, <1>8 DEF GoalInv
<1>10. QED
  BY <1>2, <1>4, <1>5, <1>6, <1>7, <1>9 DEF ClientInv

LEMMA StartTimerInv ==
  ASSUME NEW p \in Pipelines, ClientInv(p), StartTimer
  PROVE  ClientInv(p)'
<1>1. /\ ClientTypes /\ PlaceInv(p) /\ WaitInv(Devices) /\ GoalInv(p)
      /\ stage = "upload" /\ pipeline = p
  BY DEF ClientInv, StartTimer, Settling
<1>2. /\ iteration' = iteration /\ stage' = "loop" /\ pipeline' = pipeline
      /\ todo' = todo /\ awaits' = awaits /\ queued' = queued /\ issued' = issued
      /\ mem' = mem /\ runs' = runs /\ purpose' = purpose
      /\ reference' = reference /\ incorrect' = incorrect
  BY DEF StartTimer, benchmarkVars
<1>3. ClientTypes' /\ PlaceInv(p)' /\ StageInv' /\ VerifyInv'
  BY <1>1, <1>2 DEF ClientTypes, PlaceInv, InPlace, OthersEmpty, Labeller, Updater,
                    StageInv, VerifyInv, ClientInv
<1>4. WaitInv(Devices \ {Updater(p)})'
  BY <1>1, <1>2 DEF WaitInv, Spaced, Guarded, Apart, Finished, Finishing, Updater
<1>5. \A m : Executes(p, m) => Executes(p, m)'
  BY <1>2 DEF Executes, Ahead, Labeller, Updater
<1>6. \A m : Goal(p, m) => Goal(p, m)'
  BY <1>1, <1>2 DEF Goal
<1>7. GoalInv(p)'
  BY <1>1, <1>5, <1>6 DEF GoalInv
<1>8. QED
  BY <1>1, <1>2, <1>3, <1>4, <1>7 DEF ClientInv, Settling, Updater

\* The commands of an iteration may be issued when those of the one before it
\* are still in the queue of the updates.
LEMMA IterateInv ==
  ASSUME NEW p \in Pipelines, Ordered(p), ClientInv(p), Iterate
  PROVE  ClientInv(p)'
<1> DEFINE n == iteration  t == IterationOf(p, n)  u == Updater(p)
<1>1. /\ ClientTypes /\ PlaceInv(p) /\ WaitInv(Devices \ {u}) /\ GoalInv(p)
      /\ stage = "loop" /\ pipeline = p /\ todo = <<>> /\ n \in Nat
      /\ Len(todo) = 0
  BY DEF ClientInv, Iterate, Settling, ClientTypes
<1>2. /\ todo' = t /\ iteration' = n + 1 /\ stage' = stage /\ pipeline' = pipeline
      /\ awaits' = awaits /\ queued' = queued /\ issued' = issued /\ mem' = mem
      /\ runs' = runs /\ purpose' = purpose /\ reference' = reference
      /\ incorrect' = incorrect
  BY <1>1 DEF Iterate, benchmarkVars, IterationOf
<1>3. /\ t \in Seq(Commands) /\ InPlace(p, t) /\ Spaced(t)
      /\ Finished(t, Devices \ {u}) /\ AfterUpdater(p, t)
  BY <1>1, IterationList DEF IterationListOf, ListOf
<1>4. PICK m : Executes(p, m) /\ Results(p, m, runs, n)
  BY <1>1 DEF GoalInv, Goal
<1>5. \E e : Yields(t, m, e) /\ Results(p, e, runs, n + 1)
  <2>1. m \in Memory
    <3>1. PICK m1, m2 : Yields(<<>>, m2, m) /\ Yields(queued[u], m1, m2)
      BY <1>1, <1>4 DEF Executes
    <3>2. m2 \in Memory /\ m2 = m
      BY <1>1, <3>1, YieldsMemory, YieldsEmpty, QueuedWorks, PlacesOf
    <3>3. QED
      BY <3>2
  <2> HIDE DEF n
  <2>2. QED
    BY <1>1, <1>4, <2>1, IterationYields
<1> HIDE DEF n, t, u
<1>6. /\ ClientTypes' /\ PlaceInv(p)' /\ StageInv' /\ VerifyInv'
  <2>1. ClientTypes'
    BY <1>1, <1>2, <1>3 DEF ClientTypes
  <2>2. PlaceInv(p)'
    BY <1>1, <1>2, <1>3 DEF PlaceInv, InPlace, OthersEmpty, Labeller, Updater
  <2>3. StageInv' /\ VerifyInv'
    BY <1>1, <1>2 DEF StageInv, VerifyInv, ClientInv
  <2>4. QED
    BY <2>1, <2>2, <2>3
<1>7. Guarded'
  <2>1. SUFFICES ASSUME NEW q \in Queues, NEW i \in 1 .. Len(queued[q]),
                        NEW k \in 1 .. Len(t), t[k].kind # "finish", t[k].q # q
                 PROVE  q \in awaits \/ \E j \in 1 .. k - 1 : q \in t[j].awaits
    BY <1>2 DEF Guarded
  <2>2. queued[q] # <<>>
    <3>1. Len(queued[q]) # 0
      BY <1>1, <2>1, QueuedWorks
    <3>2. QED
      BY <3>1
  <2>3. q \in Devices
    BY <1>1, <2>2, PlacesOf DEF PlaceInv, OthersEmpty
  <2>4. CASE q = u
    BY <1>3, <2>1, <2>4 DEF AfterUpdater, u
  <2>5. CASE q # u
    BY <1>1, <2>2, <2>3, <2>5 DEF WaitInv, Finishing
  <2>6. QED
    BY <2>4, <2>5
<1>8. WaitInv(Devices \ {u})'
  <2>1. Spaced(todo)' /\ Finished(todo, Devices \ {u})'
    BY <1>2, <1>3 DEF Spaced, Finished, u, Updater
  <2>2. Apart'
    BY <1>1, <1>2 DEF WaitInv, Apart
  <2>3. Finishing(Devices \ {u})'
    BY <1>1, <1>2 DEF WaitInv, Finishing, u, Updater
  <2>4. QED
    BY <1>7, <2>1, <2>2, <2>3 DEF WaitInv
<1>9. PICK e : Yields(t, m, e) /\ Results(p, e, runs, n + 1)
  BY <1>5
<1>10. Executes(p, e)'
  <2>1. PICK m1, m2 : /\ Yields(Ahead(p), mem, m1) /\ Yields(queued[u], m1, m2)
                      /\ Yields(<<>>, m2, m)
    BY <1>1, <1>4 DEF Executes, u
  <2>2. m2 = m
    BY <2>1, YieldsEmpty
  <2>3. QED
    BY <1>2, <1>9, <2>1, <2>2 DEF Executes, Ahead, Labeller, Updater, u
<1>11. Goal(p, e)'
  BY <1>1, <1>2, <1>9 DEF Goal
<1>12. QED
  BY <1>1, <1>2, <1>6, <1>8, <1>10, <1>11 DEF ClientInv, GoalInv, Settling, u, Updater

LEMMA WaitForLastQueueInv ==
  ASSUME NEW p \in Pipelines, Ordered(p), ClientInv(p), WaitForLastQueue
  PROVE  ClientInv(p)'
<1> DEFINE u == Updater(p)  t == <<Finish({u})>>  f == Finish({u})
<1>1. /\ ClientTypes /\ PlaceInv(p) /\ WaitInv(Devices \ {u}) /\ GoalInv(p)
      /\ stage = "loop" /\ pipeline = p /\ todo = <<>> /\ Len(todo) = 0
      /\ iteration = MaxIterations /\ u \in Devices
  BY PlacesOf DEF ClientInv, WaitForLastQueue, Settling
<1>2. /\ todo' = t /\ iteration' = iteration /\ stage' = "last" /\ pipeline' = pipeline
      /\ awaits' = awaits /\ queued' = queued /\ issued' = issued /\ mem' = mem
      /\ runs' = runs /\ purpose' = purpose /\ reference' = reference
      /\ incorrect' = incorrect
  BY <1>1, PlaceNames DEF WaitForLastQueue, benchmarkVars
<1>3. f \in Commands /\ f.kind = "finish" /\ f.awaits = {u}
  BY <1>1, Finishes
<1> HIDE DEF f
<1>4. t \in Seq(Commands) /\ Len(t) = 1 /\ t[1] = f /\ \A i \in 1 .. Len(t) : i = 1
  BY <1>3 DEF f
<1> HIDE DEF t
<1>5. InPlace(p, t) /\ Spaced(t) /\ Finished(t, Devices)
  BY <1>3, <1>4 DEF InPlace, Spaced, Finished
<1>6. ClientTypes' /\ PlaceInv(p)' /\ StageInv' /\ VerifyInv'
  <2>1. ClientTypes'
    BY <1>1, <1>2, <1>4 DEF ClientTypes
  <2>2. PlaceInv(p)'
    BY <1>1, <1>2, <1>5 DEF PlaceInv, InPlace, OthersEmpty, Labeller, Updater
  <2>3. StageInv' /\ VerifyInv'
    BY <1>1, <1>2 DEF StageInv, VerifyInv, ClientInv
  <2>4. QED
    BY <2>1, <2>2, <2>3
<1>7. WaitInv(Devices)'
  <2>1. Guarded'
    BY <1>2, <1>3, <1>4 DEF Guarded
  <2>2. Apart' /\ Spaced(todo)' /\ Finished(todo, Devices)'
    BY <1>1, <1>2, <1>5 DEF WaitInv, Apart, Spaced, Finished
  <2>3. ASSUME NEW q \in Devices
        PROVE  \/ queued[q] = <<>> \/ q \in awaits \/ \E j \in 1 .. Len(t) : q \in t[j].awaits
    <3>1. CASE q = u
      <4>1. 1 \in 1 .. Len(t) /\ q \in t[1].awaits
        BY <1>3, <1>4, <3>1
      <4>2. QED
        BY <4>1
    <3>2. CASE q # u
      BY <1>1, <3>2 DEF WaitInv, Finishing
    <3>3. QED
      BY <3>1, <3>2
  <2>4. QED
    BY <1>2, <2>1, <2>2, <2>3 DEF WaitInv, Finishing
<1>8. PICK m : Executes(p, m) /\ Goal(p, m)
  BY <1>1 DEF GoalInv
<1>9. Executes(p, m)'
  <2>1. PICK m1, m2 : /\ Yields(Ahead(p), mem, m1) /\ Yields(queued[u], m1, m2)
                      /\ Yields(<<>>, m2, m)
    BY <1>1, <1>8 DEF Executes, u
  <2>2. m2 = m /\ m \in Memory
    BY <1>1, <2>1, YieldsEmpty, YieldsMemory, QueuedWorks, PlacesOf DEF u
  <2>3. Yields(t, m, m)
    <3> DEFINE s == <<m>>
    <3>1. s \in Seq(Memory) /\ Len(s) = 1 /\ s[1] = m
      BY <2>2
    <3> HIDE DEF s
    <3>2. Effect(f, m) = m /\ t \in Seq(Works)
      BY <1>3, <1>4, <2>2, EffectOfFinish DEF Works
    <3>3. Steps(t, m, s)
      BY <1>4, <3>1, <3>2 DEF Steps
    <3>4. QED
      BY <1>4, <2>2, <3>1, <3>3, StepsYield
  <2>4. QED
    BY <1>2, <2>1, <2>2, <2>3 DEF Executes, Ahead, Labeller, Updater, u
<1>10. Goal(p, m)'
  BY <1>1, <1>2, <1>8 DEF Goal
<1>11. QED
  BY <1>1, <1>2, <1>6, <1>7, <1>9, <1>10 DEF ClientInv, GoalInv, Settling

LEMMA DownloadInv ==
  ASSUME NEW p \in Pipelines, Ordered(p), MaxIterations > 0, ClientInv(p), Download
  PROVE  ClientInv(p)'
<1> DEFINE t == DownloadOf(p)
<1>1. /\ ClientTypes /\ PlaceInv(p) /\ Finishing(Devices) /\ GoalInv(p)
      /\ stage = "last" /\ pipeline = p /\ todo = <<>> /\ Returned
      /\ iteration = MaxIterations /\ mem \in Memory
  BY DEF ClientInv, WaitInv, Download, Settling, StageInv, ClientTypes
<1>2. /\ todo' = t /\ iteration' = iteration /\ stage' = "download" /\ pipeline' = pipeline
      /\ awaits' = awaits /\ queued' = queued /\ issued' = issued /\ mem' = mem
      /\ runs' = runs /\ purpose' = purpose /\ reference' = reference
      /\ incorrect' = incorrect
  BY <1>1 DEF Download, benchmarkVars, DownloadOf, Ordered
<1>3. Quiet
  BY <1>1, WaitedForAll
<1>4. ListOf(p, t, Devices)
  BY <1>1, DownloadList
<1>5. PICK m : Executes(p, m) /\ Results(p, m, runs, MaxIterations)
  BY <1>1 DEF GoalInv, Goal
<1>6. m = mem
  BY <1>1, <1>3, <1>5, QuietYields, YieldsEmpty
<1>7. \E e : Yields(t, m, e) /\ HostResults(e, runs, MaxIterations)
  BY <1>1, <1>5, <1>6, DownloadYields
<1>8. PICK e : Yields(t, m, e) /\ HostResults(e, runs, MaxIterations)
  BY <1>7
<1> HIDE DEF t
<1>9. PlaceInv(p)' /\ WaitInv(Devices)'
  BY <1>2, <1>3, <1>4, BeginWaits
<1>10. Executes(p, e)'
  BY <1>1, <1>2, <1>3, <1>6, <1>8, BeginExecutes
<1>11. Goal(p, e)'
  BY <1>2, <1>8 DEF Goal
<1>12. ClientTypes'
  BY <1>1, <1>2, <1>4 DEF ClientTypes, ListOf
<1>13. StageInv' /\ VerifyInv'
  BY <1>1, <1>2 DEF StageInv, VerifyInv, ClientInv
<1>14. QED
  BY <1>1, <1>2, <1>9, <1>10, <1>11, <1>12, <1>13 DEF ClientInv, GoalInv, Settling

\* What the host has when a call has returned.
LEMMA ReturnedResults ==
  ASSUME NEW p \in Pipelines, ClientInv(p), stage \in {"download", "returned"},
         todo = <<>>, Quiet
  PROVE  HostResults(mem, runs, MaxIterations)
<1>1. PICK m : Executes(p, m) /\ HostResults(m, runs, MaxIterations)
  BY DEF ClientInv, GoalInv, Goal
<1>2. m = mem
  BY <1>1, QuietYields, YieldsEmpty DEF ClientInv
<1>3. QED
  BY <1>1, <1>2

\* The steps that issue nothing and execute nothing.
LEMMA StageInvKept ==
  ASSUME NEW p \in Pipelines, ClientInv(p), Quiet, todo = <<>>,
         WaitInv(Devices),
         pipeline' = pipeline, iteration' = iteration, todo' = todo, awaits' = awaits,
         queued' = queued, issued' = issued, mem' = mem, runs' = runs,
         StageInv', stage' # "loop", VerifyInv',
         stage' = "returned" => stage = "download",
         stage' \in {"returned", "idle", "end"}
  PROVE  ClientInv(p)'
<1>1. ClientTypes' /\ PlaceInv(p)'
  BY DEF ClientInv, ClientTypes, PlaceInv, InPlace, OthersEmpty, Labeller, Updater
<1>2. WaitInv(Devices)'
  BY DEF WaitInv, Spaced, Guarded, Apart, Finished, Finishing
<1>3. \A m : Executes(p, m) => Executes(p, m)'
  BY DEF Executes, Ahead, Labeller, Updater
<1>4. stage = "download" => \A m : Goal(p, m) => Goal(p, m)'
  BY DEF Goal
<1>5. GoalInv(p)'
  BY <1>3, <1>4 DEF ClientInv, GoalInv
<1>6. QED
  BY <1>1, <1>2, <1>5 DEF ClientInv, Settling

LEMMA ReturnInv ==
  ASSUME NEW p \in Pipelines, ClientInv(p), Return
  PROVE  ClientInv(p)'
<1>1. /\ ClientTypes /\ PlaceInv(p) /\ WaitInv(Devices) /\ Finishing(Devices)
      /\ todo = <<>> /\ Returned
  BY DEF ClientInv, WaitInv, Return, Settling
<1>2. Quiet /\ stage' = "returned" /\ stage = "download" /\ todo' = todo /\ queued' = queued
  BY <1>1, WaitedForAll DEF Return
<1>3. StageInv'
  BY <1>1, <1>2 DEF StageInv, Quiet
<1>4. VerifyInv'
  BY <1>2 DEF VerifyInv, Return, benchmarkVars, ClientInv
<1>5. QED
  BY <1>1, <1>2, <1>3, <1>4, StageInvKept DEF Return, benchmarkVars

LEMMA EndInv ==
  ASSUME NEW p \in Pipelines, MaxIterations > 0, ClientInv(p), EndRuns \/ EndVerify
  PROVE  ClientInv(p)'
<1>1. /\ Quiet /\ todo = <<>> /\ WaitInv(Devices) /\ stage \in {"idle", "returned"}
  BY DEF ClientInv, StageInv, Settling, EndRuns, EndVerify
<1>2. /\ stage' = "end" /\ pipeline' = pipeline /\ iteration' = iteration /\ todo' = todo
      /\ awaits' = awaits /\ queued' = queued /\ issued' = issued /\ mem' = mem
      /\ runs' = runs /\ purpose' = purpose /\ reference' = reference
  BY DEF EndRuns, EndVerify, benchmarkVars
<1>3. StageInv'
  BY <1>1, <1>2 DEF StageInv, Quiet
<1>4. incorrect' = 0
  <2>1. CASE EndRuns
    BY <2>1 DEF EndRuns, benchmarkVars, ClientInv, VerifyInv
  <2>2. CASE EndVerify
    <3>1. stage = "returned" /\ reference = NaiveLabels(InitialCentroids(0))
      BY <2>2 DEF EndVerify, ClientInv, VerifyInv
    <3>2. mem[Host("labels")] = Value("labels", runs, MaxIterations - 1, 1)
      BY <1>1, <3>1, ReturnedResults DEF HostResults
    <3>3. reference = Value("labels", 0, MaxIterations - 1, 1)
      BY <3>1, ClientsAssumption DEF NaiveLabels, InitialCentroids, Value
    <3>4. ~Differ(reference, mem[Host("labels")])
      BY <3>2, <3>3 DEF Differ, Value
    <3>5. QED
      BY <2>2, <3>4 DEF EndVerify
  <2>3. QED
    BY <2>1, <2>2
<1>5. VerifyInv'
  BY <1>1, <1>2, <1>4 DEF ClientInv, VerifyInv, EndRuns, EndVerify
<1>6. QED
  BY <1>1, <1>2, <1>3, <1>5, StageInvKept

LEMMA SetReferenceInv ==
  ASSUME NEW p \in Pipelines, ClientInv(p), SetReference
  PROVE  ClientInv(p)'
<1>1. Quiet /\ todo = <<>> /\ WaitInv(Devices) /\ stage = "idle"
  BY DEF ClientInv, StageInv, Settling, SetReference
<1>2. /\ stage' = stage /\ pipeline' = pipeline /\ iteration' = iteration /\ todo' = todo
      /\ awaits' = awaits /\ queued' = queued /\ issued' = issued /\ mem' = mem
      /\ runs' = runs /\ purpose' = purpose /\ incorrect' = incorrect
      /\ reference' = NaiveLabels(InitialCentroids(0))
  BY DEF SetReference, clientVars
<1>3. StageInv'
  BY <1>1, <1>2 DEF StageInv, Quiet
<1>4. VerifyInv'
  BY <1>1, <1>2 DEF ClientInv, VerifyInv, NaiveLabels
<1>5. QED
  BY <1>1, <1>2, <1>3, <1>4, StageInvKept

LEMMA StartInv ==
  ASSUME NEW p \in Pipelines, Ordered(p), ClientInv(p), StartRun \/ StartVerify
  PROVE  ClientInv(p)'
<1>1. /\ stage \in {"idle", "returned"} /\ runs' = runs + 1
      /\ Call(InitialCentroids(runs + 1))
      /\ incorrect' = incorrect /\ reference' = reference /\ purpose' = purpose
  BY DEF StartRun, StartVerify, CentroidsAtCall
<1>2. purpose = "verify" => reference # Wrong
  BY DEF StartRun, StartVerify
<1>3. QED
  BY <1>1, <1>2, CallInv

Inv == \E p \in Pipelines : ClientInv(p)

LEMMA NextInv ==
  ASSUME \A p \in Pipelines : Ordered(p), MaxIterations > 0, Inv, [ClientsNext]_vars
  PROVE  Inv'
<1>1. PICK p \in Pipelines : ClientInv(p)
  BY DEF Inv
<1>2. Ordered(p)
  OBVIOUS
<1>3. CASE StartRun \/ StartVerify
  BY <1>1, <1>2, <1>3, StartInv DEF Inv
<1>4. CASE EndRuns \/ EndVerify
  BY <1>1, <1>4, EndInv DEF Inv
<1>5. CASE SetReference
  BY <1>1, <1>5, SetReferenceInv DEF Inv
<1>6. CASE Issue
  BY <1>1, <1>6, IssueInv DEF Inv
<1>7. CASE StartTimer
  BY <1>1, <1>7, StartTimerInv DEF Inv
<1>8. CASE Iterate
  BY <1>1, <1>2, <1>8, IterateInv DEF Inv
<1>9. CASE WaitForLastQueue
  BY <1>1, <1>2, <1>9, WaitForLastQueueInv DEF Inv
<1>10. CASE Download
  BY <1>1, <1>2, <1>10, DownloadInv DEF Inv
<1>11. CASE Return
  BY <1>1, <1>11, ReturnInv DEF Inv
<1>12. CASE \E q \in Queues : DeviceStep(q)
  BY <1>1, <1>2, <1>12, DeviceInv DEF Inv
<1>13. CASE UNCHANGED vars
  <2>1. ClientInv(p)'
    BY <1>1, <1>13
       DEF vars, benchmarkVars, clientVars, ClientInv, ClientTypes, StageInv, Quiet,
           PlaceInv, InPlace, OthersEmpty, WaitInv, Spaced, Guarded, Apart, Finished,
           Finishing, Settling, GoalInv, Goal, Executes, Ahead, Labeller, Updater,
           VerifyInv
  <2>2. QED
    BY <2>1 DEF Inv
<1>14. QED
  BY <1>3, <1>4, <1>5, <1>6, <1>7, <1>8, <1>9, <1>10, <1>11, <1>12, <1>13
     DEF ClientsNext, Done

-----------------------------------------------------------------------------
(***************************************************************************)
(* What the invariant says of the clients                                  *)
(***************************************************************************)
LEMMA RunningApart ==
  ASSUME Inv
  PROVE  PhasesOrdered
<1>1. ClientTypes /\ Apart
  BY DEF Inv, ClientInv, WaitInv
<1>2. SUFFICES ASSUME NEW a \in Running, NEW b \in Running, a.id # b.id
               PROVE  Written(a) \cap ToSet(b.bufs) = {}
  BY DEF PhasesOrdered
<1>3. PICK q \in Queues : queued[q] # <<>> /\ a = Head(queued[q])
  BY DEF Running
<1>4. PICK r \in Queues : queued[r] # <<>> /\ b = Head(queued[r])
  BY DEF Running
<1>5. q # r
  BY <1>2, <1>3, <1>4
<1>6. /\ 1 \in 1 .. Len(queued[q]) /\ a = queued[q][1]
      /\ 1 \in 1 .. Len(queued[r]) /\ b = queued[r][1]
  BY <1>1, <1>3, <1>4, FirstQueued
<1>7. ~Conflict(a, b)
  BY <1>1, <1>5, <1>6 DEF Apart
<1>8. QED
  BY <1>7 DEF Conflict

LEMMA LastIsLast ==
  ASSUME Inv
  PROVE  LastQueueIsLast
<1>1. SUFFICES ASSUME stage = "last", todo = <<>>, Returned
               PROVE  Outstanding = {}
  BY DEF LastQueueIsLast
<1>2. PICK p \in Pipelines : ClientInv(p)
  BY DEF Inv
<1>3. ClientTypes /\ PlaceInv(p) /\ Finishing(Devices)
  BY <1>1, <1>2 DEF ClientInv, WaitInv, Settling
<1>4. Quiet
  BY <1>1, <1>2, <1>3, WaitedForAll
<1>5. \A q \in Queues : ToSet(queued[q]) = {}
  BY <1>4 DEF Quiet, ToSet
<1>6. QED
  BY <1>5 DEF Outstanding

LEMMA HostIsRight ==
  ASSUME \A p \in Pipelines : Ordered(p), Inv
  PROVE  HostHasResult
<1>1. SUFFICES ASSUME stage = "returned"
               PROVE  /\ HostResults(mem, runs, MaxIterations) /\ pipeline.blocks = 1
  BY DEF HostHasResult, HostResults
<1>2. PICK p \in Pipelines : ClientInv(p)
  BY DEF Inv
<1>3. todo = <<>> /\ Quiet /\ pipeline = p
  BY <1>1, <1>2 DEF ClientInv, StageInv
<1>4. QED
  BY <1>1, <1>2, <1>3, ReturnedResults DEF Ordered

LEMMA InvAlways ==
  ASSUME \A p \in Pipelines : Ordered(p), MaxIterations > 0
  PROVE  ClientsSpec => []Inv
<1>1. ClientsInit => Inv
  BY InitInv DEF Inv
<1>2. Inv /\ [ClientsNext]_vars => Inv'
  BY NextInv
<1>3. QED
  BY <1>1, <1>2, PTL DEF ClientsSpec

\* Commands that may run at the same time never write what the other uses:
\* every phase of an iteration waits for the phases whose results it takes
\* (sync_labels, sync_centroids and the blocking transfers of
\* kmeans_three_stage.hpp), when no third device is involved.
THEOREM PhasesWait ==
  ASSUME \A p \in Pipelines : Ordered(p), MaxIterations > 0
  PROVE  ClientsSpec => []PhasesOrdered
<1>1. Inv => PhasesOrdered
  BY RunningApart
<1>2. QED
  BY <1>1, InvAlways, PTL

\* "Wait for last queue to finish processing" waits for all the queues there
\* are: no command is left in any of them.
THEOREM LastQueueSuffices ==
  ASSUME \A p \in Pipelines : Ordered(p), MaxIterations > 0
  PROVE  ClientsSpec => []LastQueueIsLast
<1>1. Inv => LastQueueIsLast
  BY LastIsLast
<1>2. QED
  BY <1>1, InvAlways, PTL

\* The functional correctness of the clients: whatever the order in which the
\* devices execute, each call leaves on the host the centroids of Lloyd's
\* algorithm after max_iterations iterations, and the labels and masses they
\* follow from.
THEOREM ClientsCompute ==
  ASSUME \A p \in Pipelines : Ordered(p), MaxIterations > 0
  PROVE  ClientsSpec => []HostHasResult
<1>1. Inv => HostHasResult
  BY HostIsRight
<1>2. QED
  BY <1>1, InvAlways, PTL

\* verify of clustering_benchmark.cpp finds the labels of kmeans_naive.
THEOREM ClientsVerify ==
  ASSUME \A p \in Pipelines : Ordered(p), MaxIterations > 0
  PROVE  ClientsSpec => []VerifyAccepts
<1>1. Inv => VerifyAccepts
  BY DEF Inv, ClientInv, VerifyInv, VerifyAccepts
<1>2. QED
  BY <1>1, InvAlways, PTL
=============================================================================
