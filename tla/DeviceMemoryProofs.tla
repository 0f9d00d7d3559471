------------------------ MODULE DeviceMemoryProofs ------------------------
(***************************************************************************)
(* What the kernels compute, and what the client gets back.  The device    *)
(* and the I/O threads are behind the client, in any order their events    *)
(* allow; but two operations that are in conflict are ordered, so memory   *)
(* will be what it is once the work that is left has been done in the      *)
(* order of its events.  That memory changes only when the client's thread *)
(* takes a step.  In it every function has been applied to every block     *)
(* once, as the documentation of run has it, and the host has the latest   *)
(* version of all that is not cached.                                      *)
(***************************************************************************)
EXTENDS DeviceSchedulerProofs, SchedulerClients, WellFoundedInduction

-----------------------------------------------------------------------------
(***************************************************************************)
(* What the operations compute                                             *)
(***************************************************************************)
\* The memory that commands and tasks read and write: device buffers, pinned
\* buffers, blocks in host memory, and the results the kernels share.
HostPlaces ==
  {x \in {"host"} \X Nat \X Nat :
     x[2] \in Oids /\ x[3] \in 0 .. objects[x[2]].size - 1}

Places == ({"dev", "stage"} \X Slots) \cup HostPlaces \cup {<<"result">>}

\* What the kernels have received; how many of them have been given every
\* block of a mutable object; and whether they found the latest version of
\* all their blocks.
Entry == [block : [oid : Nat \ {0}, bid : Nat, len : Nat], ver : Int]
Results == [log : Seq(Seq(Entry)), ver : [Nat \X Nat -> Nat], ok : BOOLEAN]

\* The contents of all memory: of the places themselves, not of the variables
\* of a state.
Typed ==
  {d \in [Places -> Contents \cup Int \cup Results] :
     /\ \A s \in Slots : d[<<"dev", s>>] \in Contents /\ d[<<"stage", s>>] \in Contents
     /\ \A x \in HostPlaces : d[x] \in Int
     /\ d[<<"result">>] \in Results}

\* Received and Execute, of such contents.
ReceivedIn(d, b) ==
  [block |-> b.block,
   ver |-> IF objects[b.block.oid].mode = "Transient" THEN 0
           ELSE VersionIn(d[<<"dev", b.slot>>], b.block)]

\* The kernel finds the latest version of the block in its buffer.
Current(d, b) ==
  LET c == d[<<"dev", b.slot>>]
  IN  objects[b.block.oid].mode # "Transient" =>
        /\ c.oid = b.block.oid /\ c.bid = b.block.bid
        /\ c.ver = d[<<"result">>].ver[<<b.block.oid, b.block.bid>>]

\* The kernel is given block off of the mutable object oid.
Updates(args, p) ==
  \E j \in 1 .. Len(args) :
     /\ objects[args[j].block.oid].mode = "ReadWrite"
     /\ p = <<args[j].block.oid, args[j].block.bid>>

\* What a kernel adds to the results.
KernelResult(args, d) ==
  LET r == d[<<"result">>]
  IN  [log |-> Append(r.log, [j \in DOMAIN args |-> ReceivedIn(d, args[j])]),
       ver |-> [p \in Nat \X Nat |-> IF Updates(args, p) THEN r.ver[p] + 1 ELSE r.ver[p]],
       ok |-> r.ok /\ \A j \in 1 .. Len(args) : Current(d, args[j])]

\* One of the buffers in B.
SomeOf(B) == CHOOSE b \in B : TRUE

\* If there is one.
LEMMA SomeIsIn ==
  ASSUME NEW B, B # {}
  PROVE  SomeOf(B) \in B
BY DEF SomeOf

\* What a kernel leaves in a buffer it writes: the next version of its block.
KernelContents(args, d, s) ==
  LET b == SomeOf(WrittenBuffers(s, args))
  IN  Copy(b.block, IF objects[b.block.oid].mode = "Transient" THEN 0
                    ELSE ReceivedIn(d, b).ver + 1)

\* What an operation leaves in a place it writes.
Result(op, d, x) ==
  CASE op.kind = "read" -> d[<<"dev", op.slot>>]
    [] op.kind = "write" -> d[<<"stage", op.slot>>]
    [] op.kind = "load" -> Copy(op.block, d[<<"host", op.block.oid, op.block.bid>>])
    [] op.kind = "back" -> VersionIn(d[<<"stage", op.slot>>], op.block)
    [] op.kind = "kernel" -> IF x = <<"result">> THEN KernelResult(op.args, d)
                             ELSE KernelContents(op.args, d, x[2])

\* Memory after an operation.
Effect(op, d) ==
  [x \in Places |-> IF x \in Writes(op) THEN Result(op, d, x) ELSE d[x]]

\* Commands and tasks on memory that exists; only mutable blocks are returned
\* to the host.
DataWork ==
  {op \in MovedWork :
     /\ op.kind = "back" => objects[op.block.oid].mode = "ReadWrite"
     /\ op.kind = "kernel" =>
          \A j \in 1 .. Len(op.args) : /\ op.args[j].block.oid \in Oids
                                       /\ objects[op.args[j].block.oid].mode \in ObjectMode}

\* What the operations of the scheduler are.
LEMMA DataWorkKinds ==
  ASSUME NEW op \in DataWork
  PROVE  \/ /\ op.kind \in {"read", "write", "load", "back", "barrier"}
            /\ op.slot \in Slots /\ op.block \in Block /\ InObject(op.block)
            /\ op.kind = "back" => objects[op.block.oid].mode = "ReadWrite"
         \/ /\ op.kind = "kernel" /\ op.args \in Seq(Buffer)
            /\ \A j \in 1 .. Len(op.args) :
                 /\ op.args[j] \in Buffer /\ op.args[j].block.oid \in Oids
                 /\ objects[op.args[j].block.oid].mode \in ObjectMode
<1>1. op \in Transfers \/ op \in Kernels
  BY DEF DataWork, MovedWork, Work
<1>2. CASE op \in Transfers
  <2>1. op.kind \in {"read", "write", "load", "back", "barrier"}
        /\ op.slot \in Slots /\ op.block \in Block
    BY <1>2 DEF Transfers
  <2>2. InObject(op.block)
    BY <2>1 DEF DataWork, MovedWork
  <2>3. QED
    BY <2>1, <2>2 DEF DataWork
<1>3. CASE op \in Kernels
  <2>1. op.kind = "kernel" /\ op.args \in Seq(Buffer)
    BY <1>3 DEF Kernels
  <2>2. \A j \in 1 .. Len(op.args) : op.args[j] \in Buffer
    BY <2>1, ElementOf
  <2>3. QED
    BY <2>1, <2>2 DEF DataWork
<1>4. QED
  BY <1>1, <1>2, <1>3

\* The places of slots, blocks and results are places.
LEMMA PlaceKinds ==
  /\ \A s \in Slots : <<"dev", s>> \in Places /\ <<"stage", s>> \in Places
  /\ \A block \in Block : InObject(block) =>
       /\ <<"host", block.oid, block.bid>> \in HostPlaces
       /\ <<"host", block.oid, block.bid>> \in Places
  /\ <<"result">> \in Places
<1>1. ASSUME NEW block \in Block, InObject(block)
      PROVE  <<"host", block.oid, block.bid>> \in HostPlaces
  <2>1. block.oid \in Oids /\ block.bid \in 0 .. objects[block.oid].size - 1
        /\ block.oid \in Nat /\ block.bid \in Nat
    BY <1>1 DEF InObject, Block, Oids
  <2>2. QED
    BY <2>1 DEF HostPlaces
<1>2. QED
  BY <1>1 DEF Places

\* Operations work on places.
LEMMA WorkOnPlaces ==
  ASSUME NEW op \in DataWork
  PROVE  /\ Reads(op) \subseteq Places /\ Writes(op) \subseteq Places
         /\ op.kind = "kernel" => <<"result">> \in Writes(op)
<1>1. CASE op.kind = "kernel"
  <2>1. /\ Reads(op) = Buffers(op, ObjectMode)
        /\ Writes(op) = Buffers(op, ObjectMode \ {"ReadOnly"}) \cup {<<"result">>}
    BY <1>1 DEF Reads, Writes
  <2>2. /\ op.args \in Seq(Buffer) /\ \A j \in 1 .. Len(op.args) : op.args[j] \in Buffer
        /\ DOMAIN op.args = 1 .. Len(op.args)
    BY <1>1, DataWorkKinds
  <2>3. \A b \in Range(op.args) : b.slot \in Slots
    BY <2>2 DEF Range, Buffer
  <2>4. \A modes : Buffers(op, modes) \subseteq Places
    BY <2>3, PlaceKinds DEF Buffers
  <2>5. QED
    BY <2>1, <2>4, PlaceKinds
<1>2. CASE op.kind # "kernel"
  <2>1. op.kind \in {"read", "write", "load", "back", "barrier"}
        /\ op.slot \in Slots /\ op.block \in Block /\ InObject(op.block)
    BY <1>2, DataWorkKinds
  <2>2. QED
    BY <2>1, PlaceKinds DEF Reads, Writes
<1>3. QED
  BY <1>1, <1>2

\* An operation changes what it writes, and nothing else.
LEMMA EffectFrame ==
  ASSUME NEW op, NEW d, NEW x \in Places
  PROVE  /\ x \notin Writes(op) => Effect(op, d)[x] = d[x]
         /\ x \in Writes(op) => Effect(op, d)[x] = Result(op, d, x)
BY DEF Effect

\* What it leaves depends on what it reads and writes.
LEMMA EffectReads ==
  ASSUME NEW op \in DataWork, NEW d, NEW e, NEW x \in Writes(op),
         \A y \in Reads(op) \cup Writes(op) : d[y] = e[y]
  PROVE  Result(op, d, x) = Result(op, e, x)
<1>1. CASE op.kind = "kernel"
  <2>1. /\ Reads(op) = Buffers(op, ObjectMode)
        /\ Writes(op) = Buffers(op, ObjectMode \ {"ReadOnly"}) \cup {<<"result">>}
    BY <1>1 DEF Reads, Writes
  <2>2. /\ op.args \in Seq(Buffer) /\ DOMAIN op.args = 1 .. Len(op.args)
        /\ \A j \in 1 .. Len(op.args) : objects[op.args[j].block.oid].mode \in ObjectMode
    BY <1>1, DataWorkKinds
  <2>3. \A j \in 1 .. Len(op.args) : <<"dev", op.args[j].slot>> \in Reads(op)
    BY <2>1, <2>2 DEF Buffers, Range
  <2>4. \A j \in 1 .. Len(op.args) :
          d[<<"dev", op.args[j].slot>>] = e[<<"dev", op.args[j].slot>>]
    BY <2>3
  <2>5. \A j \in 1 .. Len(op.args) : ReceivedIn(d, op.args[j]) = ReceivedIn(e, op.args[j])
    BY <2>4 DEF ReceivedIn
  <2>6. CASE x = <<"result">>
    <3>1. d[<<"result">>] = e[<<"result">>]
      BY <2>1
    <3>2. \A j \in 1 .. Len(op.args) : Current(d, op.args[j]) <=> Current(e, op.args[j])
      BY <2>4, <3>1 DEF Current
    <3>3. [j \in DOMAIN op.args |-> ReceivedIn(d, op.args[j])]
            = [j \in DOMAIN op.args |-> ReceivedIn(e, op.args[j])]
      BY <2>2, <2>5
    <3>4. KernelResult(op.args, d) = KernelResult(op.args, e)
      BY <3>1, <3>2, <3>3 DEF KernelResult
    <3>5. QED
      BY <1>1, <2>6, <3>4 DEF Result
  <2>7. CASE x # <<"result">>
    <3>1. PICK a \in Range(op.args) : x = <<"dev", a.slot>>
                                      /\ objects[a.block.oid].mode # "ReadOnly"
      BY <2>1, <2>7 DEF Buffers
    <3>2. x[2] = a.slot /\ WrittenBuffers(x[2], op.args) # {}
      BY <3>1 DEF WrittenBuffers
    <3> DEFINE b == SomeOf(WrittenBuffers(x[2], op.args))
    <3>3. b \in Range(op.args)
      BY <3>2, SomeIsIn DEF WrittenBuffers
    <3>4. ReceivedIn(d, b) = ReceivedIn(e, b)
      BY <2>2, <2>5, <3>3 DEF Range
    <3>5. KernelContents(op.args, d, x[2]) = KernelContents(op.args, e, x[2])
      BY <3>4 DEF KernelContents
    <3>6. QED
      BY <1>1, <2>7, <3>5 DEF Result
  <2>8. QED
    BY <2>6, <2>7
<1>2. CASE op.kind # "kernel"
  <2>1. op.kind \in {"read", "write", "load", "back", "barrier"}
    BY <1>2, DataWorkKinds
  <2>2. CASE op.kind = "read"
    BY <2>2 DEF Reads, Result
  <2>3. CASE op.kind = "write"
    BY <2>3 DEF Reads, Result
  <2>4. CASE op.kind = "load"
    BY <2>4 DEF Reads, Result
  <2>5. CASE op.kind = "back"
    BY <2>5 DEF Reads, Result
  <2>6. CASE op.kind = "barrier"
    BY <2>6 DEF Writes
  <2>7. QED
    BY <2>1, <2>2, <2>3, <2>4, <2>5, <2>6
<1>3. QED
  BY <1>1, <1>2

\* Operations that are not in conflict may run in any order.
LEMMA EffectsCommute ==
  ASSUME NEW a \in DataWork, NEW b \in DataWork, ~Conflict(a, b), NEW d
  PROVE  Effect(a, Effect(b, d)) = Effect(b, Effect(a, d))
<1>1. /\ Reads(a) \cup Writes(a) \subseteq Places
      /\ Reads(b) \cup Writes(b) \subseteq Places
  BY WorkOnPlaces
<1>2. /\ Writes(a) \cap (Reads(b) \cup Writes(b)) = {}
      /\ Writes(b) \cap (Reads(a) \cup Writes(a)) = {}
  BY DEF Conflict
<1>3. /\ \A y \in Reads(a) \cup Writes(a) : Effect(b, d)[y] = d[y]
      /\ \A y \in Reads(b) \cup Writes(b) : Effect(a, d)[y] = d[y]
  BY <1>1, <1>2, EffectFrame
<1>4. ASSUME NEW x \in Places
      PROVE  Effect(a, Effect(b, d))[x] = Effect(b, Effect(a, d))[x]
  <2>1. CASE x \in Writes(a)
    <3>1. Effect(a, Effect(b, d))[x] = Result(a, Effect(b, d), x)
      BY <2>1, EffectFrame
    <3>2. Effect(b, Effect(a, d))[x] = Result(a, d, x)
      BY <2>1, <1>2, EffectFrame
    <3>3. QED
      BY <2>1, <1>3, <3>1, <3>2, EffectReads
  <2>2. CASE x \in Writes(b)
    <3>1. Effect(b, Effect(a, d))[x] = Result(b, Effect(a, d), x)
      BY <2>2, EffectFrame
    <3>2. Effect(a, Effect(b, d))[x] = Result(b, d, x)
      BY <2>2, <1>2, EffectFrame
    <3>3. QED
      BY <2>2, <1>3, <3>1, <3>2, EffectReads
  <2>3. CASE x \notin Writes(a) /\ x \notin Writes(b)
    BY <2>3, EffectFrame
  <2>4. QED
    BY <2>1, <2>2, <2>3
<1>5. QED
  <2>1. /\ Effect(a, Effect(b, d)) = [x \in Places |-> Effect(a, Effect(b, d))[x]]
        /\ Effect(b, Effect(a, d)) = [x \in Places |-> Effect(b, Effect(a, d))[x]]
    BY DEF Effect
  <2>2. QED
    BY <1>4, <2>1, Zenon

\* As long as the kernels found the latest versions: no place holds a later
\* one, and blocks that are not mutable have only one.
Bounded(d) ==
  LET latest == d[<<"result">>].ver
  IN  /\ \A s \in Slots : \A k \in {"dev", "stage"} :
           d[<<k, s>>].ver <= latest[<<d[<<k, s>>].oid, d[<<k, s>>].bid>>]
      /\ \A x \in HostPlaces : /\ d[x] <= latest[<<x[2], x[3]>>]
                               /\ objects[x[2]].mode # "ReadWrite" => d[x] = 0
      /\ \A o \in Oids : objects[o].mode # "ReadWrite" =>
           \A off \in Nat : latest[<<o, off>>] = 0

\* A memory no kernel has found anything stale in.
States == {d \in Typed : d[<<"result">>].ok => Bounded(d)}

\* The fields of a result.
LEMMA ResultFields ==
  ASSUME NEW d \in Typed
  PROVE  LET r == d[<<"result">>]
         IN  /\ r.log \in Seq(Seq(Entry)) /\ r.ver \in [Nat \X Nat -> Nat]
             /\ r.ok \in BOOLEAN
BY DEF Typed, Results

\* What a kernel receives, and the places it reads.
LEMMA ReceivedType ==
  ASSUME NEW d \in Typed, NEW b \in Buffer
  PROVE  /\ ReceivedIn(d, b) \in Entry /\ ReceivedIn(d, b).ver \in Int
         /\ b.slot \in Slots /\ d[<<"dev", b.slot>>] \in Contents
<1>1. /\ b.slot \in Slots /\ b.block \in [oid : Nat \ {0}, bid : Nat, len : Nat]
  BY DEF Buffer
<1>2. d[<<"dev", b.slot>>] \in Contents
  BY <1>1 DEF Typed
<1>3. VersionIn(d[<<"dev", b.slot>>], b.block) \in Int
  BY <1>2 DEF VersionIn, Contents
<1>4. QED
  BY <1>1, <1>2, <1>3 DEF ReceivedIn, Entry

\* What a kernel computes has its type.
LEMMA KernelTypes ==
  ASSUME NEW d \in Typed, NEW args \in Seq(Buffer),
         \A j \in 1 .. Len(args) : args[j] \in Buffer
  PROVE  /\ KernelResult(args, d) \in Results
         /\ \A s \in Slots : WrittenBuffers(s, args) # {} =>
              KernelContents(args, d, s) \in Contents
<1>1. KernelResult(args, d) \in Results
  <2> DEFINE r == d[<<"result">>]
             e == [j \in DOMAIN args |-> ReceivedIn(d, args[j])]
  <2>1. r.log \in Seq(Seq(Entry)) /\ r.ver \in [Nat \X Nat -> Nat] /\ r.ok \in BOOLEAN
    BY ResultFields
  <2>2. e \in Seq(Entry)
    <3>1. DOMAIN args = 1 .. Len(args) /\ Len(args) \in Nat
      OBVIOUS
    <3>2. \A j \in 1 .. Len(args) : ReceivedIn(d, args[j]) \in Entry
      BY ReceivedType
    <3>3. QED
      BY <3>1, <3>2
  <2>3. Append(r.log, e) \in Seq(Seq(Entry))
    BY <2>1, <2>2
  <2>4. [p \in Nat \X Nat |-> IF Updates(args, p) THEN r.ver[p] + 1 ELSE r.ver[p]]
          \in [Nat \X Nat -> Nat]
    BY <2>1
  <2>5. (r.ok /\ \A j \in 1 .. Len(args) : Current(d, args[j])) \in BOOLEAN
    BY <2>1
  <2>6. QED
    BY <2>3, <2>4, <2>5 DEF KernelResult, Results
<1>2. ASSUME NEW s \in Slots, WrittenBuffers(s, args) # {}
      PROVE  KernelContents(args, d, s) \in Contents
  <2> DEFINE b == SomeOf(WrittenBuffers(s, args))
  <2>1. b \in Range(args)
    BY <1>2, SomeIsIn DEF WrittenBuffers
  <2>2. b \in Buffer
    <3>1. DOMAIN args = 1 .. Len(args)
      OBVIOUS
    <3>2. QED
      BY <2>1, <3>1 DEF Range
  <2>3. ReceivedIn(d, b).ver \in Int /\ b.block.oid \in Nat /\ b.block.bid \in Nat
    BY <2>2, ReceivedType DEF Buffer
  <2>4. QED
    BY <2>3 DEF KernelContents, Copy, Contents
<1>3. QED
  BY <1>1, <1>2

\* So does what any operation computes.
LEMMA EffectTyped ==
  ASSUME NEW op \in DataWork, NEW d \in Typed
  PROVE  Effect(op, d) \in Typed
<1> DEFINE e == Effect(op, d)
<1>1. \A x \in Places : e[x] = IF x \in Writes(op) THEN Result(op, d, x) ELSE d[x]
  BY DEF Effect
<1>2. /\ \A s \in Slots : d[<<"dev", s>>] \in Contents /\ d[<<"stage", s>>] \in Contents
      /\ \A x \in HostPlaces : d[x] \in Int
      /\ d[<<"result">>] \in Results
  BY DEF Typed
<1>3. /\ \A s \in Slots : e[<<"dev", s>>] \in Contents /\ e[<<"stage", s>>] \in Contents
      /\ \A x \in HostPlaces : e[x] \in Int
      /\ e[<<"result">>] \in Results
  <2>1. CASE op.kind = "kernel"
    <3>1. /\ op.args \in Seq(Buffer) /\ \A j \in 1 .. Len(op.args) : op.args[j] \in Buffer
      BY <2>1, DataWorkKinds
    <3>2. Writes(op) = Buffers(op, ObjectMode \ {"ReadOnly"}) \cup {<<"result">>}
      BY <2>1 DEF Writes
    <3>3. ASSUME NEW x \in Writes(op), x # <<"result">>
          PROVE  x[1] = "dev" /\ WrittenBuffers(x[2], op.args) # {}
      BY <3>2, <3>3 DEF Buffers, WrittenBuffers
    <3>4. \A s \in Slots : WrittenBuffers(s, op.args) # {} =>
            KernelContents(op.args, d, s) \in Contents
      BY <3>1, KernelTypes
    <3>5. ASSUME NEW s \in Slots PROVE e[<<"dev", s>>] \in Contents
      <4>1. CASE <<"dev", s>> \in Writes(op)
        <5>1. WrittenBuffers(s, op.args) # {}
          BY <3>3, <4>1
        <5>2. e[<<"dev", s>>] = KernelContents(op.args, d, s)
          BY <1>1, <2>1, <4>1, PlaceKinds DEF Result
        <5>3. QED
          BY <3>4, <5>1, <5>2
      <4>2. QED
        BY <1>1, <1>2, <4>1, PlaceKinds
    <3>6. \A s \in Slots : e[<<"stage", s>>] = d[<<"stage", s>>]
      BY <1>1, <3>3, PlaceKinds
    <3>7. \A x \in HostPlaces : e[x] = d[x]
      BY <1>1, <3>3 DEF HostPlaces, Places
    <3>8. e[<<"result">>] = KernelResult(op.args, d)
      BY <1>1, <2>1, <3>2, PlaceKinds DEF Result
    <3>9. e[<<"result">>] \in Results
      BY <3>1, <3>8, KernelTypes
    <3>10. QED
      BY <1>2, <3>5, <3>6, <3>7, <3>9
  <2>2. CASE op.kind # "kernel"
    <3>1. /\ op.kind \in {"read", "write", "load", "back", "barrier"}
          /\ op.slot \in Slots /\ op.block \in Block /\ InObject(op.block)
      BY <2>2, DataWorkKinds
    <3>2. <<"result">> \notin Writes(op)
      BY <3>1 DEF Writes
    <3>3. e[<<"result">>] \in Results
      BY <1>1, <1>2, <3>2, PlaceKinds
    <3>4. \A s \in Slots : e[<<"dev", s>>] \in Contents
      <4>1. \A s \in Slots : <<"dev", s>> \in Writes(op) =>
              op.kind = "write" /\ Result(op, d, <<"dev", s>>) = d[<<"stage", op.slot>>]
        BY <3>1 DEF Writes, Result
      <4>2. QED
        BY <1>1, <1>2, <3>1, <4>1, PlaceKinds
    <3>5. \A s \in Slots : e[<<"stage", s>>] \in Contents
      <4>1. d[<<"host", op.block.oid, op.block.bid>>] \in Int
        BY <1>2, <3>1, PlaceKinds
      <4>2. Copy(op.block, d[<<"host", op.block.oid, op.block.bid>>]) \in Contents
        <5>1. op.kind # "load" \/ op.block.oid \in Nat
          BY <3>1 DEF InObject, Oids
        <5>2. QED
          BY <3>1, <4>1 DEF Copy, Contents, Block, InObject
      <4>3. \A s \in Slots : <<"stage", s>> \in Writes(op) =>
              Result(op, d, <<"stage", s>>) \in
                {d[<<"dev", op.slot>>], Copy(op.block, d[<<"host", op.block.oid, op.block.bid>>])}
        BY <3>1 DEF Writes, Result
      <4>4. QED
        BY <1>1, <1>2, <3>1, <4>2, <4>3, PlaceKinds
    <3>6. \A x \in HostPlaces : e[x] \in Int
      <4>1. \A x \in HostPlaces : x[1] = "host" /\ x \in Places
        BY DEF HostPlaces, Places
      <4>2. VersionIn(d[<<"stage", op.slot>>], op.block) \in Int
        <5>1. d[<<"stage", op.slot>>].ver \in Int
          BY <1>2, <3>1 DEF Contents
        <5>2. QED
          BY <5>1 DEF VersionIn
      <4>3. \A x \in HostPlaces : x \in Writes(op) =>
              Result(op, d, x) = VersionIn(d[<<"stage", op.slot>>], op.block)
        BY <3>1, <4>1 DEF Writes, Result
      <4>4. QED
        BY <1>1, <1>2, <4>1, <4>2, <4>3
    <3>7. QED
      BY <3>3, <3>4, <3>5, <3>6
  <2>3. QED
    BY <2>1, <2>2
<1>4. e \in [Places -> Contents \cup Int \cup Results]
  <2>1. e = [x \in Places |-> e[x]]
    BY DEF Effect
  <2>2. ASSUME NEW x \in Places PROVE e[x] \in Contents \cup Int \cup Results
    <3>1. CASE x \in {"dev", "stage"} \X Slots
      <4>1. PICK k \in {"dev", "stage"}, s \in Slots : x = <<k, s>>
        BY <3>1
      <4>2. QED
        BY <1>3, <4>1
    <3>2. CASE x \in HostPlaces \/ x = <<"result">>
      BY <1>3, <3>2
    <3>3. QED
      BY <3>1, <3>2 DEF Places
  <2>3. QED
    BY <2>1, <2>2
<1>5. QED
  BY <1>3, <1>4 DEF Typed

\* When the kernels have found the latest versions, no place holds a later one.
LEMMA EffectBounded ==
  ASSUME NEW op \in DataWork, NEW d \in States, Effect(op, d)[<<"result">>].ok
  PROVE  Bounded(Effect(op, d))
<1> DEFINE e == Effect(op, d)
           r == d[<<"result">>]
           t == e[<<"result">>]
<1>0. d \in Typed /\ e \in Typed
  BY EffectTyped DEF States
<1>1. /\ \A x \in Places : e[x] = IF x \in Writes(op) THEN Result(op, d, x) ELSE d[x]
      /\ r.ver \in [Nat \X Nat -> Nat] /\ t.ver \in [Nat \X Nat -> Nat]
  BY <1>0, ResultFields DEF Effect
<1>2. /\ \A s \in Slots : d[<<"dev", s>>] \in Contents /\ d[<<"stage", s>>] \in Contents
      /\ \A x \in HostPlaces : d[x] \in Int /\ x \in Places /\ x[1] = "host"
                              /\ <<x[2], x[3]>> \in Nat \X Nat
      /\ \A s \in Slots : \A k \in {"dev", "stage"} : <<k, s>> \in Places
  BY <1>0, PlaceKinds DEF Typed, HostPlaces, Places
<1>3. CASE op.kind = "kernel"
  <2>1. /\ op.args \in Seq(Buffer) /\ DOMAIN op.args = 1 .. Len(op.args)
        /\ \A j \in 1 .. Len(op.args) : op.args[j] \in Buffer
        /\ \A j \in 1 .. Len(op.args) : /\ op.args[j].block.oid \in Oids
                                        /\ objects[op.args[j].block.oid].mode \in ObjectMode
    BY <1>3, DataWorkKinds
  <2>2. Writes(op) = Buffers(op, ObjectMode \ {"ReadOnly"}) \cup {<<"result">>}
    BY <1>3 DEF Writes
  <2>3. t = KernelResult(op.args, d)
    BY <1>1, <1>3, <2>2, PlaceKinds DEF Result
  <2>4. r.ok /\ \A j \in 1 .. Len(op.args) : Current(d, op.args[j])
    <3>1. t.ok = (r.ok /\ \A j \in 1 .. Len(op.args) : Current(d, op.args[j]))
      <4>1. KernelResult(op.args, d).ok =
              (r.ok /\ \A j \in 1 .. Len(op.args) : Current(d, op.args[j]))
        BY DEF KernelResult
      <4>2. QED
        BY <2>3, <4>1, Zenon
    <3>2. QED
      BY <3>1, Zenon
  <2>5. Bounded(d)
    BY <2>4 DEF States
  <2> DEFINE latest == r.ver
  <2>12. /\ \A s \in Slots : \A k \in {"dev", "stage"} :
              d[<<k, s>>].ver <= latest[<<d[<<k, s>>].oid, d[<<k, s>>].bid>>]
         /\ \A x \in HostPlaces : /\ d[x] <= latest[<<x[2], x[3]>>]
                                  /\ objects[x[2]].mode # "ReadWrite" => d[x] = 0
         /\ \A o \in Oids : objects[o].mode # "ReadWrite" =>
              \A off \in Nat : latest[<<o, off>>] = 0
    BY <2>5, Zenon DEF Bounded
  <2>6. \A p \in Nat \X Nat : /\ t.ver[p] = IF Updates(op.args, p) THEN r.ver[p] + 1 ELSE r.ver[p]
                              /\ r.ver[p] \in Nat /\ r.ver[p] <= t.ver[p]
    BY <1>1, <2>3 DEF KernelResult
  <2>7. ASSUME NEW x \in Writes(op), x # <<"result">>
        PROVE  x[1] = "dev" /\ WrittenBuffers(x[2], op.args) # {}
    BY <2>2, <2>7 DEF Buffers, WrittenBuffers
  <2>8. ASSUME NEW s \in Slots, NEW k \in {"dev", "stage"}
        PROVE  e[<<k, s>>].ver <= t.ver[<<e[<<k, s>>].oid, e[<<k, s>>].bid>>]
    <3>1. CASE <<k, s>> \in Writes(op)
      <4>1. k = "dev" /\ WrittenBuffers(s, op.args) # {}
        BY <2>7, <3>1
      <4> DEFINE b == SomeOf(WrittenBuffers(s, op.args))
      <4>2. b \in Range(op.args) /\ objects[b.block.oid].mode # "ReadOnly"
        BY <4>1, SomeIsIn DEF WrittenBuffers
      <4>3. PICK j \in 1 .. Len(op.args) : b = op.args[j]
        BY <2>1, <4>2 DEF Range
      <4>4. e[<<k, s>>] = KernelContents(op.args, d, s)
        BY <1>1, <1>2, <1>3, <3>1, <4>1 DEF Result
      <4>5. e[<<k, s>>] = Copy(b.block, IF objects[b.block.oid].mode = "Transient" THEN 0
                                        ELSE ReceivedIn(d, b).ver + 1)
        BY <4>4 DEF KernelContents
      <4>6. /\ e[<<k, s>>].oid = b.block.oid /\ e[<<k, s>>].bid = b.block.bid
            /\ e[<<k, s>>].ver = IF objects[b.block.oid].mode = "Transient" THEN 0
                                 ELSE ReceivedIn(d, b).ver + 1
        BY <4>5 DEF Copy
      <4>7. <<b.block.oid, b.block.bid>> \in Nat \X Nat
        <5>1. b \in Buffer
          BY <2>1, <4>3
        <5>2. QED
          BY <5>1 DEF Buffer
      <4>8. CASE objects[b.block.oid].mode = "Transient"
        BY <2>6, <4>6, <4>7, <4>8
      <4>9. CASE objects[b.block.oid].mode # "Transient"
        <5>1. objects[b.block.oid].mode = "ReadWrite"
          BY <2>1, <4>2, <4>3, <4>9 DEF ObjectMode
        <5>2. Updates(op.args, <<b.block.oid, b.block.bid>>)
          BY <4>3, <5>1 DEF Updates
        <5>3. ReceivedIn(d, b).ver = r.ver[<<b.block.oid, b.block.bid>>]
          BY <2>4, <4>3, <4>9 DEF Current, ReceivedIn, VersionIn
        <5>4. /\ t.ver[<<b.block.oid, b.block.bid>>] = r.ver[<<b.block.oid, b.block.bid>>] + 1
              /\ r.ver[<<b.block.oid, b.block.bid>>] \in Nat
          BY <2>6, <4>7, <5>2
        <5>5. e[<<k, s>>].ver = r.ver[<<b.block.oid, b.block.bid>>] + 1
          BY <4>6, <4>9, <5>3
        <5>6. t.ver[<<e[<<k, s>>].oid, e[<<k, s>>].bid>>] = r.ver[<<b.block.oid, b.block.bid>>] + 1
          BY <4>6, <5>4, Zenon
        <5>7. \A n \in Nat : n + 1 <= n + 1
          OBVIOUS
        <5>8. QED
          BY <5>4, <5>5, <5>6, <5>7, Zenon
      <4>10. QED
        BY <4>8, <4>9
    <3>2. CASE <<k, s>> \notin Writes(op)
      <4>1. e[<<k, s>>] = d[<<k, s>>]
        BY <1>1, <1>2, <3>2
      <4>2. /\ d[<<k, s>>].ver \in Int
            /\ <<d[<<k, s>>].oid, d[<<k, s>>].bid>> \in Nat \X Nat
        BY <1>2 DEF Contents
      <4>3. d[<<k, s>>].ver <= r.ver[<<d[<<k, s>>].oid, d[<<k, s>>].bid>>]
        BY <2>12
      <4>4. QED
        BY <2>6, <4>1, <4>2, <4>3
    <3>3. QED
      BY <3>1, <3>2
  <2>9. ASSUME NEW x \in HostPlaces
        PROVE  /\ e[x] <= t.ver[<<x[2], x[3]>>]
               /\ objects[x[2]].mode # "ReadWrite" => e[x] = 0
    <3>1. x # <<"result">> /\ x \notin Writes(op)
      BY <1>2, <2>7
    <3>2. e[x] = d[x]
      BY <1>1, <1>2, <3>1
    <3>3. /\ d[x] <= r.ver[<<x[2], x[3]>>]
          /\ objects[x[2]].mode # "ReadWrite" => d[x] = 0
      <4>1. \A y \in HostPlaces : /\ d[y] <= r.ver[<<y[2], y[3]>>]
                                  /\ objects[y[2]].mode # "ReadWrite" => d[y] = 0
        BY <2>12, Zenon
      <4>2. x \in HostPlaces
        BY <2>9
      <4>3. QED
        BY <4>1, <4>2, Zenon
    <3>4. d[x] \in Int
      BY <1>2
    <3>5. QED
      BY <1>2, <2>6, <3>2, <3>3, <3>4
  <2>10. ASSUME NEW o \in Oids, objects[o].mode # "ReadWrite", NEW off \in Nat
         PROVE  t.ver[<<o, off>>] = 0
    <3>1. ~Updates(op.args, <<o, off>>)
      BY <2>10 DEF Updates
    <3>2. r.ver[<<o, off>>] = 0
      BY <2>10, <2>12
    <3>3. <<o, off>> \in Nat \X Nat
      BY DEF Oids
    <3>4. QED
      BY <2>6, <3>1, <3>2, <3>3
  <2>11. QED
    BY <2>8, <2>9, <2>10 DEF Bounded
<1>4. CASE op.kind # "kernel"
  <2>1. /\ op.kind \in {"read", "write", "load", "back", "barrier"}
        /\ op.slot \in Slots /\ op.block \in Block /\ InObject(op.block)
        /\ op.kind = "back" => objects[op.block.oid].mode = "ReadWrite"
    BY <1>4, DataWorkKinds
  <2>2. <<"result">> \notin Writes(op)
    BY <2>1 DEF Writes
  <2>3. t = r
    BY <1>1, <2>2, PlaceKinds
  <2>4. Bounded(d)
    <3>1. r.ok
      BY <2>3
    <3>2. QED
      BY <3>1 DEF States
  <2> DEFINE latest == r.ver
  <2>9. /\ \A s \in Slots : \A k \in {"dev", "stage"} :
             d[<<k, s>>].ver <= latest[<<d[<<k, s>>].oid, d[<<k, s>>].bid>>]
        /\ \A x \in HostPlaces : /\ d[x] <= latest[<<x[2], x[3]>>]
                                 /\ objects[x[2]].mode # "ReadWrite" => d[x] = 0
        /\ \A o \in Oids : objects[o].mode # "ReadWrite" =>
             \A off \in Nat : latest[<<o, off>>] = 0
    BY <2>4, Zenon DEF Bounded
  <2> DEFINE h == <<"host", op.block.oid, op.block.bid>>
  <2>5. h \in HostPlaces /\ h[2] = op.block.oid /\ h[3] = op.block.bid
    BY <2>1, PlaceKinds
  <2>6. ASSUME NEW s \in Slots, NEW k \in {"dev", "stage"}
        PROVE  e[<<k, s>>].ver <= r.ver[<<e[<<k, s>>].oid, e[<<k, s>>].bid>>]
    <3>1. CASE <<k, s>> \notin Writes(op)
      <4>1. e[<<k, s>>] = d[<<k, s>>]
        BY <1>1, <1>2, <3>1
      <4>2. QED
        BY <2>9, <4>1
    <3>2. CASE <<k, s>> \in Writes(op)
      <4>1. \/ k = "stage" /\ op.kind = "read" /\ e[<<k, s>>] = d[<<"dev", op.slot>>]
            \/ k = "dev" /\ op.kind = "write" /\ e[<<k, s>>] = d[<<"stage", op.slot>>]
            \/ k = "stage" /\ op.kind = "load" /\ e[<<k, s>>] = Copy(op.block, d[h])
        <5>1. \/ k = "stage" /\ op.kind \in {"read", "load"}
              \/ k = "dev" /\ op.kind = "write"
          BY <2>1, <3>2 DEF Writes
        <5>2. e[<<k, s>>] = Result(op, d, <<k, s>>)
          BY <1>1, <1>2, <3>2
        <5>3. CASE op.kind = "read"
          BY <5>1, <5>2, <5>3 DEF Result
        <5>4. CASE op.kind = "write"
          BY <5>1, <5>2, <5>4 DEF Result
        <5>5. CASE op.kind = "load"
          BY <5>1, <5>2, <5>5 DEF Result
        <5>6. QED
          BY <5>1, <5>3, <5>4, <5>5
      <4>2. CASE op.kind # "load"
        BY <2>1, <2>9, <4>1, <4>2
      <4>3. CASE op.kind = "load"
        <5>1. e[<<k, s>>] = Copy(op.block, d[h])
          BY <4>1, <4>3
        <5>2. /\ e[<<k, s>>].oid = op.block.oid /\ e[<<k, s>>].bid = op.block.bid
              /\ e[<<k, s>>].ver = d[h]
          BY <5>1 DEF Copy
        <5>3. d[h] <= r.ver[<<h[2], h[3]>>]
          BY <2>5, <2>9, Zenon
        <5>4. QED
          BY <2>5, <5>2, <5>3
      <4>4. QED
        BY <4>2, <4>3
    <3>3. QED
      BY <3>1, <3>2
  <2>7. ASSUME NEW x \in HostPlaces
        PROVE  /\ e[x] <= r.ver[<<x[2], x[3]>>]
               /\ objects[x[2]].mode # "ReadWrite" => e[x] = 0
    <3>1. CASE x \notin Writes(op)
      <4>1. e[x] = d[x]
        BY <1>1, <1>2, <3>1
      <4>2. QED
        BY <2>9, <4>1, Zenon
    <3>2. CASE x \in Writes(op)
      <4>1. op.kind = "back" /\ x = h
        <5>1. x[1] = "host"
          BY <1>2
        <5>2. op.kind = "back"
          BY <2>1, <3>2, <5>1 DEF Writes
        <5>3. QED
          BY <3>2, <5>2 DEF Writes
      <4> DEFINE c == d[<<"stage", op.slot>>]
      <4>2. e[x] = VersionIn(c, op.block)
        BY <1>1, <1>2, <3>2, <4>1 DEF Result
      <4>3. c \in Contents /\ c.ver <= r.ver[<<c.oid, c.bid>>]
        BY <1>2, <2>1, <2>9
      <4>4. r.ver[<<x[2], x[3]>>] \in Nat
        BY <1>1, <1>2
      <4>5. CASE c.oid = op.block.oid /\ c.bid = op.block.bid
        BY <2>1, <2>5, <4>1, <4>2, <4>3, <4>5 DEF VersionIn
      <4>6. CASE ~(c.oid = op.block.oid /\ c.bid = op.block.bid)
        <5>1. e[x] = -1
          BY <4>2, <4>6 DEF VersionIn
        <5>2. QED
          BY <2>1, <2>5, <4>1, <4>4, <5>1
      <4>7. QED
        BY <4>5, <4>6
    <3>3. QED
      BY <3>1, <3>2
  <2>8. QED
    BY <2>3, <2>6, <2>7, <2>9 DEF Bounded
<1>5. QED
  BY <1>3, <1>4

\* Operations lead from such a memory to such a memory.
LEMMA EffectStates ==
  ASSUME NEW op \in DataWork, NEW d \in States
  PROVE  Effect(op, d) \in States
BY EffectTyped, EffectBounded DEF States

-----------------------------------------------------------------------------
(***************************************************************************)
(* Operations in the order of their events                                 *)
(***************************************************************************)
\* A set of numbers has a least one.
LEMMA LeastNat ==
  ASSUME NEW T, T \subseteq Nat, T # {}
  PROVE  \E x \in T : \A y \in T : x <= y
<1>1. IsWellFoundedOn(OpToRel(<, Nat), Nat)
  BY NatLessThanWellFounded
<1>2. \E x \in T : \A y \in T : ~ (<<y, x>> \in OpToRel(<, Nat))
  BY <1>1, WFMin
<1>3. PICK x \in T : \A y \in T : ~ (<<y, x>> \in OpToRel(<, Nat))
  BY <1>2
<1>4. \A y \in T : ~ (y < x)
  BY <1>3 DEF OpToRel
<1>5. QED
  BY <1>4

\* A set that contains 0, and with a number the next, contains them all.
LEMMA AllNumbers ==
  ASSUME NEW T, 0 \in T, \A k \in Nat : k \in T => k + 1 \in T
  PROVE  Nat \subseteq T
<1>1. SUFFICES ASSUME Nat \ T # {} PROVE FALSE
  OBVIOUS
<1>2. PICK x \in Nat \ T : \A y \in Nat \ T : x <= y
  BY <1>1, LeastNat
<1>3. x # 0 /\ x - 1 \in Nat /\ (x - 1) + 1 = x /\ ~(x <= x - 1)
  BY <1>2
<1>4. x - 1 \in T
  BY <1>2, <1>3
<1>5. QED
  BY <1>2, <1>3, <1>4

\* m is what memory holds before operation k, when the operations of ops are
\* done in the order of their events: d first, e after all of them.
Trace(m, ops, n, d, e) ==
  /\ m[0] = d
  /\ \A k \in Nat : k >= n => m[k] = e
  /\ \A op \in ops : m[op.ev + 1] = Effect(op, m[op.ev])
  /\ \A k \in Nat : (\A op \in ops : op.ev # k) => m[k + 1] = m[k]

Runs(ops, n, d, e) == \E m \in [Nat -> States] : Trace(m, ops, n, d, e)

\* Operations with events of their own, before event n.
Numbered(ops, n) ==
  /\ n \in Nat
  /\ \A x \in ops : x \in DataWork /\ x.ev \in 0 .. n - 1
  /\ \A x, y \in ops : x.ev = y.ev => x = y

\* What every operation keeps holds at the end if it holds at the beginning.
LEMMA RunsKeep ==
  ASSUME NEW ops, NEW n, Numbered(ops, n), NEW d, NEW e, Runs(ops, n, d, e),
         NEW C, d \in C,
         \A op \in ops : \A c \in States : c \in C => Effect(op, c) \in C
  PROVE  e \in C
<1>1. PICK m \in [Nat -> States] : Trace(m, ops, n, d, e)
  BY DEF Runs
<1> DEFINE T == {k \in Nat : m[k] \in C}
<1>2. 0 \in T
  BY <1>1 DEF Trace
<1>3. ASSUME NEW k \in Nat, k \in T PROVE k + 1 \in T
  <2>1. k + 1 \in Nat /\ m[k] \in States /\ m[k] \in C
    BY <1>3
  <2>2. CASE \E op \in ops : op.ev = k
    BY <1>1, <2>1, <2>2 DEF Trace
  <2>3. CASE \A op \in ops : op.ev # k
    BY <1>1, <2>1, <2>3 DEF Trace
  <2>4. QED
    BY <2>2, <2>3
<1>4. Nat \subseteq T
  <2> HIDE DEF T
  <2>1. QED
    BY <1>2, <1>3, AllNumbers
<1>5. n \in Nat /\ m[n] = e
  BY <1>1 DEF Numbered, Trace
<1>6. QED
  BY <1>4, <1>5

\* What is at the end is a state.
LEMMA RunsTyped ==
  ASSUME NEW ops, NEW n, Numbered(ops, n), NEW d, NEW e, Runs(ops, n, d, e)
  PROVE  d \in States /\ e \in States
BY DEF Runs, Trace, Numbered

\* One more operation, after all others.
LEMMA RunsAppend ==
  ASSUME NEW ops, NEW n, Numbered(ops, n), NEW d, NEW e, Runs(ops, n, d, e),
         NEW op \in DataWork, op.ev \in Nat, op.ev >= n
  PROVE  /\ Runs(ops \cup {op}, op.ev + 1, d, Effect(op, e))
         /\ Numbered(ops \cup {op}, op.ev + 1)
<1>1. PICK m \in [Nat -> States] : Trace(m, ops, n, d, e)
  BY DEF Runs
<1> DEFINE f == Effect(op, e)
           a == [k \in Nat |-> IF k <= op.ev THEN m[k] ELSE f]
<1>2. n \in Nat /\ e \in States /\ f \in States
  BY EffectStates, RunsTyped DEF Numbered
<1>3. a \in [Nat -> States]
  BY <1>1, <1>2
<1> HIDE DEF f
<1>4. a[0] = d
  BY <1>1 DEF Trace
<1>5. \A k \in Nat : k >= op.ev + 1 => a[k] = f
  OBVIOUS
<1>6. ASSUME NEW x \in ops \cup {op} PROVE a[x.ev + 1] = Effect(x, a[x.ev])
  <2>1. CASE x \in ops
    <3>1. x.ev \in Nat /\ x.ev + 1 <= op.ev /\ x.ev <= op.ev /\ x.ev + 1 \in Nat
      BY <1>2, <2>1 DEF Numbered
    <3>2. a[x.ev] = m[x.ev] /\ a[x.ev + 1] = m[x.ev + 1]
      BY <3>1
    <3>3. QED
      BY <1>1, <2>1, <3>2 DEF Trace
  <2>2. CASE x = op
    <3>1. a[op.ev] = m[op.ev] /\ a[op.ev + 1] = f
      OBVIOUS
    <3>2. m[op.ev] = e
      BY <1>1 DEF Trace
    <3>3. QED
      BY <2>2, <3>1, <3>2 DEF f
  <2>3. QED
    BY <2>1, <2>2
<1>7. ASSUME NEW k \in Nat, \A x \in ops \cup {op} : x.ev # k
      PROVE  a[k + 1] = a[k]
  <2>1. m[k + 1] = m[k]
    BY <1>1, <1>7 DEF Trace
  <2>2. k # op.ev /\ k + 1 \in Nat
    BY <1>7
  <2>3. CASE k < op.ev
    BY <2>1, <2>2, <2>3
  <2>4. CASE k > op.ev
    BY <2>2, <2>4
  <2>5. QED
    BY <2>2, <2>3, <2>4
<1>8. Trace(a, ops \cup {op}, op.ev + 1, d, f)
  BY <1>4, <1>5, <1>6, <1>7 DEF Trace
<1>9. Numbered(ops \cup {op}, op.ev + 1)
  <2>1. op.ev + 1 \in Nat /\ op.ev \in 0 .. (op.ev + 1) - 1
    OBVIOUS
  <2>2. \A x \in ops : x \in DataWork /\ x.ev \in 0 .. (op.ev + 1) - 1 /\ x.ev # op.ev
    BY <1>2 DEF Numbered
  <2>3. \A x, y \in ops : x.ev = y.ev => x = y
    BY DEF Numbered
  <2>4. QED
    BY <2>1, <2>2, <2>3 DEF Numbered
<1>10. QED
  BY <1>3, <1>8, <1>9 DEF Runs, f

\* Events that nothing has.
LEMMA RunsLater ==
  ASSUME NEW ops, NEW n, Numbered(ops, n), NEW d, NEW e, Runs(ops, n, d, e),
         NEW k \in Nat, k >= n
  PROVE  Runs(ops, k, d, e) /\ Numbered(ops, k)
<1>1. PICK m \in [Nat -> States] : Trace(m, ops, n, d, e)
  BY DEF Runs
<1>2. n \in Nat
  BY DEF Numbered
<1>3. Trace(m, ops, k, d, e)
  BY <1>1, <1>2 DEF Trace
<1>4. Numbered(ops, k)
  BY <1>2 DEF Numbered
<1>5. QED
  BY <1>3, <1>4 DEF Runs

\* One that is in conflict with none before it may as well be done first.
LEMMA RunsStep ==
  ASSUME NEW ops, NEW n, Numbered(ops, n), NEW d, NEW e, Runs(ops, n, d, e),
         NEW op \in ops, \A x \in ops : x.ev < op.ev => ~Conflict(op, x)
  PROVE  /\ Runs(ops \ {op}, n, Effect(op, d), e)
         /\ Numbered(ops \ {op}, n)
<1>1. PICK m \in [Nat -> States] : Trace(m, ops, n, d, e)
  BY DEF Runs
<1>2. op \in DataWork /\ op.ev \in Nat /\ n \in Nat /\ op.ev < n
  BY DEF Numbered
<1> DEFINE a == [k \in Nat |-> IF k <= op.ev THEN Effect(op, m[k]) ELSE m[k]]
<1>3. a \in [Nat -> States]
  BY <1>2, EffectStates
<1>4. a[0] = Effect(op, d)
  BY <1>1, <1>2 DEF Trace
<1>5. \A k \in Nat : k >= n => a[k] = e
  BY <1>1, <1>2 DEF Trace
<1>6. ASSUME NEW x \in ops \ {op} PROVE a[x.ev + 1] = Effect(x, a[x.ev])
  <2>1. /\ x \in ops /\ x \in DataWork /\ x.ev \in Nat /\ x.ev + 1 \in Nat
        /\ x.ev # op.ev
    BY DEF Numbered
  <2>2. m[x.ev + 1] = Effect(x, m[x.ev])
    BY <1>1, <2>1 DEF Trace
  <2>3. CASE x.ev < op.ev
    <3>1. a[x.ev + 1] = Effect(op, m[x.ev + 1]) /\ a[x.ev] = Effect(op, m[x.ev])
      BY <1>2, <2>1, <2>3
    <3>2. Effect(op, Effect(x, m[x.ev])) = Effect(x, Effect(op, m[x.ev]))
      BY <1>2, <2>1, <2>3, EffectsCommute
    <3>3. QED
      BY <2>2, <3>1, <3>2
  <2>4. CASE x.ev > op.ev
    BY <1>2, <2>1, <2>2, <2>4
  <2>5. QED
    BY <1>2, <2>1, <2>3, <2>4
<1>7. ASSUME NEW k \in Nat, \A x \in ops \ {op} : x.ev # k
      PROVE  a[k + 1] = a[k]
  <2>1. k + 1 \in Nat
    OBVIOUS
  <2>2. CASE k = op.ev
    <3>1. a[k] = Effect(op, m[k]) /\ a[k + 1] = m[k + 1]
      BY <1>2, <2>1, <2>2
    <3>2. m[k + 1] = Effect(op, m[k])
      BY <1>1, <2>2 DEF Trace
    <3>3. QED
      BY <3>1, <3>2
  <2>3. CASE k # op.ev
    <3>1. m[k + 1] = m[k]
      BY <1>1, <1>7, <2>3 DEF Trace
    <3>2. k + 1 <= op.ev <=> k <= op.ev
      BY <1>2, <2>3
    <3>3. QED
      BY <2>1, <3>1, <3>2
  <2>4. QED
    BY <2>2, <2>3
<1>8. Trace(a, ops \ {op}, n, Effect(op, d), e)
  <2> HIDE DEF a
  <2>1. QED
    BY <1>4, <1>5, <1>6, <1>7 DEF Trace
<1>9. Numbered(ops \ {op}, n)
  BY DEF Numbered
<1>10. QED
  BY <1>3, <1>8, <1>9 DEF Runs

\* Without operations nothing happens.
LEMMA RunsNothing ==
  ASSUME NEW ops, ops = {}, NEW n \in Nat, NEW d \in States, NEW e
  PROVE  Numbered(ops, n) /\ (Runs(ops, n, d, e) <=> d = e)
<1>0. Numbered(ops, n)
  BY DEF Numbered
<1>1. ASSUME Runs(ops, n, d, e) PROVE d = e
  <2>1. /\ d \in {d}
        /\ \A op \in ops : \A c \in States : c \in {d} => Effect(op, c) \in {d}
    OBVIOUS
  <2>2. e \in {d}
    BY <1>0, <1>1, <2>1, RunsKeep
  <2>3. QED
    BY <2>2
<1>2. ASSUME d = e PROVE Runs(ops, n, d, e)
  <2> DEFINE m == [k \in Nat |-> d]
  <2>1. m \in [Nat -> States] /\ Trace(m, ops, n, d, e)
    BY <1>2 DEF Trace
  <2>2. QED
    BY <2>1 DEF Runs
<1>3. QED
  BY <1>0, <1>1, <1>2

-----------------------------------------------------------------------------
\* An operation that is no kernel leaves the results.
LEMMA ResultsStay ==
  ASSUME NEW op \in DataWork, op.kind # "kernel", NEW d
  PROVE  Effect(op, d)[<<"result">>] = d[<<"result">>]
<1>1. op.kind \in {"read", "write", "load", "back", "barrier"}
  BY DataWorkKinds
<1>2. <<"result">> \notin Writes(op)
  BY <1>1 DEF Writes
<1>3. QED
  BY <1>2, EffectFrame, PlaceKinds

\* A kernel computes them.
LEMMA ResultsOfKernel ==
  ASSUME NEW op \in DataWork, op.kind = "kernel", NEW d
  PROVE  /\ Effect(op, d)[<<"result">>] = KernelResult(op.args, d)
         /\ KernelResult(op.args, d).ok =
              (d[<<"result">>].ok /\ \A j \in 1 .. Len(op.args) : Current(d, op.args[j]))
         /\ KernelResult(op.args, d).log =
              Append(d[<<"result">>].log,
                     [j \in DOMAIN op.args |-> ReceivedIn(d, op.args[j])])
         /\ \A p \in Nat \X Nat : KernelResult(op.args, d).ver[p] =
              IF Updates(op.args, p) THEN d[<<"result">>].ver[p] + 1
              ELSE d[<<"result">>].ver[p]
<1>1. Effect(op, d)[<<"result">>] = Result(op, d, <<"result">>)
  BY WorkOnPlaces, EffectFrame, PlaceKinds
<1>2. Result(op, d, <<"result">>) = KernelResult(op.args, d)
  BY DEF Result
<1>3. QED
  BY <1>1, <1>2 DEF KernelResult

\* All is well after a kernel only if it was before and the kernel found the
\* latest versions.
LEMMA KernelOk ==
  ASSUME NEW op \in DataWork, op.kind = "kernel", NEW d, Effect(op, d)[<<"result">>].ok
  PROVE  d[<<"result">>].ok /\ \A j \in 1 .. Len(op.args) : Current(d, op.args[j])
<1>1. /\ Effect(op, d)[<<"result">>] = KernelResult(op.args, d)
      /\ KernelResult(op.args, d).ok =
           (d[<<"result">>].ok /\ \A j \in 1 .. Len(op.args) : Current(d, op.args[j]))
  BY ResultsOfKernel
<1>2. QED
  BY <1>1, Zenon

\* A kernel that has missed the latest version is not forgotten.
LEMMA RunsOk ==
  ASSUME NEW ops, NEW n, Numbered(ops, n), NEW d, NEW e, Runs(ops, n, d, e),
         e[<<"result">>].ok
  PROVE  d[<<"result">>].ok
<1> DEFINE C == {c \in States : ~c[<<"result">>].ok}
<1>1. ASSUME NEW op \in ops, NEW c \in States, c \in C
      PROVE  Effect(op, c) \in C
  <2>1. op \in DataWork /\ ~c[<<"result">>].ok
    BY <1>1 DEF Numbered
  <2>2. Effect(op, c) \in States
    BY <2>1, EffectStates
  <2>3. CASE op.kind # "kernel"
    <3>1. Effect(op, c)[<<"result">>] = c[<<"result">>]
      BY <2>1, <2>3, ResultsStay
    <3>2. QED
      BY <2>1, <2>2, <3>1
  <2>4. CASE op.kind = "kernel"
    <3>1. ~Effect(op, c)[<<"result">>].ok
      BY <2>1, <2>4, KernelOk
    <3>2. QED
      BY <2>2, <3>1
  <2>5. QED
    BY <2>3, <2>4
<1>2. SUFFICES ASSUME ~d[<<"result">>].ok PROVE FALSE
  OBVIOUS
<1>3. d \in C
  BY <1>2, RunsTyped
<1>4. e \in C
  <2> HIDE DEF C
  <2>1. QED
    BY <1>1, <1>3, RunsKeep
<1>5. QED
  BY <1>4

\* What the kernels have received is where the log begins.
LEMMA RunsLog ==
  ASSUME NEW ops, NEW n, Numbered(ops, n), NEW d, NEW e, Runs(ops, n, d, e)
  PROVE  LET before == d[<<"result">>].log
             after == e[<<"result">>].log
         IN  /\ Len(before) <= Len(after)
             /\ \A k \in 1 .. Len(before) : after[k] = before[k]
<1> DEFINE before == d[<<"result">>].log
           Begins(c) == LET after == c[<<"result">>].log
                        IN  /\ Len(before) <= Len(after)
                            /\ \A k \in 1 .. Len(before) : after[k] = before[k]
           C == {c \in States : Begins(c)}
<1>0. d \in States /\ before \in Seq(Seq(Entry)) /\ Len(before) \in Nat
  BY RunsTyped, ResultFields DEF States
<1>1. ASSUME NEW op \in ops, NEW c \in States, c \in C
      PROVE  Effect(op, c) \in C
  <2> DEFINE after == c[<<"result">>].log
  <2>1. /\ op \in DataWork
        /\ Len(before) <= Len(after) /\ \A k \in 1 .. Len(before) : after[k] = before[k]
    BY <1>1 DEF Numbered
  <2>2. Effect(op, c) \in States
    BY <2>1, EffectStates
  <2>3. CASE op.kind # "kernel"
    <3>1. Effect(op, c)[<<"result">>] = c[<<"result">>]
      BY <2>1, <2>3, ResultsStay
    <3>2. QED
      BY <2>1, <2>2, <3>1
  <2>4. CASE op.kind = "kernel"
    <3> DEFINE x == [j \in DOMAIN op.args |-> ReceivedIn(c, op.args[j])]
    <3>1. Effect(op, c)[<<"result">>].log = Append(after, x)
      BY <2>1, <2>4, ResultsOfKernel
    <3>2. after \in Seq(Seq(Entry))
      BY ResultFields DEF States
    <3> HIDE DEF x
    <3>3. /\ Len(Append(after, x)) = Len(after) + 1
          /\ \A k \in 1 .. Len(after) : Append(after, x)[k] = after[k]
          /\ Len(after) \in Nat
      BY <3>2
    <3> HIDE DEF after, before
    <3>4. Begins(Effect(op, c))
      BY <1>0, <2>1, <3>1, <3>3
    <3>5. QED
      BY <2>2, <3>4
  <2>5. QED
    BY <2>3, <2>4
<1>2. d \in C
  BY <1>0
<1>3. e \in C
  <2> HIDE DEF C
  <2>1. QED
    BY <1>1, <1>2, RunsKeep
<1>4. QED
  BY <1>3

\* Some place holds the latest version of the block.
HoldsLatest(d, o, off) ==
  LET ver == d[<<"result">>].ver[<<o, off>>]
  IN  \/ <<"host", o, off>> \in HostPlaces /\ d[<<"host", o, off>>] = ver
      \/ \E s \in Slots : \E k \in {"dev", "stage"} :
           d[<<k, s>>].oid = o /\ d[<<k, s>>].bid = off /\ d[<<k, s>>].ver = ver

\* What is lost stays lost, unless a kernel has missed it.
LEMMA LostStays ==
  ASSUME NEW op \in DataWork, NEW d \in States, NEW o \in Oids, NEW off \in Nat,
         objects[o].mode = "ReadWrite", Effect(op, d)[<<"result">>].ok,
         HoldsLatest(Effect(op, d), o, off)
  PROVE  HoldsLatest(d, o, off)
<1> DEFINE e == Effect(op, d)
           r == d[<<"result">>]
           p == <<o, off>>
<1>0. /\ d \in Typed /\ r.ver \in [Nat \X Nat -> Nat] /\ p \in Nat \X Nat
      /\ \A x \in Places : e[x] = IF x \in Writes(op) THEN Result(op, d, x) ELSE d[x]
      /\ HostPlaces \subseteq Places
      /\ \A s \in Slots : \A k \in {"dev", "stage"} : <<k, s>> \in Places
  BY ResultFields, PlaceKinds DEF States, Effect, Oids, Places
<1>1. CASE op.kind = "kernel"
  <2>1. /\ op.args \in Seq(Buffer) /\ DOMAIN op.args = 1 .. Len(op.args)
        /\ \A j \in 1 .. Len(op.args) : op.args[j] \in Buffer
        /\ \A j \in 1 .. Len(op.args) : objects[op.args[j].block.oid].mode \in ObjectMode
    BY <1>1, DataWorkKinds
  <2>2. Writes(op) = Buffers(op, ObjectMode \ {"ReadOnly"}) \cup {<<"result">>}
    BY <1>1 DEF Writes
  <2>3. \A j \in 1 .. Len(op.args) : Current(d, op.args[j])
    BY <1>1, KernelOk
  <2>4. SUFFICES ASSUME ~HoldsLatest(d, o, off) PROVE FALSE
    OBVIOUS
  <2>5. ~Updates(op.args, p)
    <3>1. SUFFICES ASSUME NEW j \in 1 .. Len(op.args),
                          p = <<op.args[j].block.oid, op.args[j].block.bid>>,
                          objects[op.args[j].block.oid].mode = "ReadWrite"
                   PROVE  FALSE
      BY DEF Updates
    <3>2. op.args[j].slot \in Slots /\ o = op.args[j].block.oid /\ off = op.args[j].block.bid
      BY <2>1, <3>1 DEF Buffer
    <3>3. Current(d, op.args[j])
      BY <2>3
    <3>4. QED
      BY <2>4, <3>1, <3>2, <3>3 DEF Current, HoldsLatest
  <2>6. e[<<"result">>].ver[p] = r.ver[p]
    <3>1. e[<<"result">>] = KernelResult(op.args, d)
      BY <1>1, ResultsOfKernel
    <3>2. KernelResult(op.args, d).ver[p] = IF Updates(op.args, p) THEN r.ver[p] + 1 ELSE r.ver[p]
      BY <1>0, <1>1, ResultsOfKernel
    <3>3. QED
      BY <2>5, <3>1, <3>2
  <2>7. ASSUME NEW x \in Writes(op), x # <<"result">>
        PROVE  x[1] = "dev" /\ WrittenBuffers(x[2], op.args) # {}
    BY <2>2, <2>7 DEF Buffers, WrittenBuffers
  <2>8. CASE <<"host", o, off>> \in HostPlaces /\ e[<<"host", o, off>>] = r.ver[p]
    <3>1. <<"host", o, off>> \notin Writes(op)
      BY <2>7
    <3>2. e[<<"host", o, off>>] = d[<<"host", o, off>>]
      BY <1>0, <2>8, <3>1
    <3>3. QED
      BY <2>4, <2>8, <3>2 DEF HoldsLatest
  <2>9. ASSUME NEW s \in Slots, NEW k \in {"dev", "stage"},
               e[<<k, s>>].oid = o /\ e[<<k, s>>].bid = off /\ e[<<k, s>>].ver = r.ver[p]
        PROVE  FALSE
    <3>1. CASE <<k, s>> \notin Writes(op)
      <4>1. e[<<k, s>>] = d[<<k, s>>]
        BY <1>0, <3>1
      <4>2. QED
        BY <2>4, <2>9, <4>1 DEF HoldsLatest
    <3>2. CASE <<k, s>> \in Writes(op)
      <4>1. k = "dev" /\ WrittenBuffers(s, op.args) # {}
        BY <2>7, <3>2
      <4> DEFINE b == SomeOf(WrittenBuffers(s, op.args))
      <4>2. b \in Range(op.args) /\ objects[b.block.oid].mode # "ReadOnly"
        BY <4>1, SomeIsIn DEF WrittenBuffers
      <4>3. PICK j \in 1 .. Len(op.args) : b = op.args[j]
        BY <2>1, <4>2 DEF Range
      <4>4. e[<<k, s>>] = KernelContents(op.args, d, s)
        BY <1>0, <1>1, <3>2, <4>1 DEF Result
      <4>5. e[<<k, s>>].oid = b.block.oid /\ e[<<k, s>>].bid = b.block.bid
        BY <4>4 DEF KernelContents, Copy
      <4>6. Updates(op.args, p)
        BY <2>9, <4>3, <4>5 DEF Updates
      <4>7. QED
        BY <2>5, <4>6
    <3>3. QED
      BY <3>1, <3>2
  <2>10. \/ <<"host", o, off>> \in HostPlaces /\ e[<<"host", o, off>>] = r.ver[p]
         \/ \E s \in Slots : \E k \in {"dev", "stage"} :
              e[<<k, s>>].oid = o /\ e[<<k, s>>].bid = off /\ e[<<k, s>>].ver = r.ver[p]
    BY <2>6 DEF HoldsLatest
  <2>11. QED
    BY <2>8, <2>9, <2>10
<1>2. CASE op.kind # "kernel"
  <2>1. /\ op.kind \in {"read", "write", "load", "back", "barrier"}
        /\ op.slot \in Slots /\ op.block \in Block /\ InObject(op.block)
    BY <1>2, DataWorkKinds
  <2>2. e[<<"result">>] = r
    BY <1>2, ResultsStay
  <2> DEFINE h == <<"host", op.block.oid, op.block.bid>>
  <2>3. h \in HostPlaces
    BY <2>1, PlaceKinds
  <2>4. CASE <<"host", o, off>> \in HostPlaces /\ e[<<"host", o, off>>] = r.ver[p]
    <3>1. CASE <<"host", o, off>> \notin Writes(op)
      <4>1. e[<<"host", o, off>>] = d[<<"host", o, off>>]
        BY <1>0, <2>4, <3>1
      <4>2. QED
        BY <2>4, <4>1 DEF HoldsLatest
    <3>2. CASE <<"host", o, off>> \in Writes(op)
      <4>1. op.kind = "back"
        BY <2>1, <3>2 DEF Writes
      <4>2. o = op.block.oid /\ off = op.block.bid
        BY <3>2, <4>1 DEF Writes
      <4> DEFINE c == d[<<"stage", op.slot>>]
      <4>3. e[<<"host", o, off>>] = VersionIn(c, op.block)
        BY <1>0, <2>4, <3>2, <4>1 DEF Result
      <4>4. r.ver[p] # -1
        BY <1>0
      <4>5. c.oid = o /\ c.bid = off /\ c.ver = r.ver[p]
        BY <2>4, <4>2, <4>3, <4>4 DEF VersionIn
      <4>6. QED
        BY <2>1, <4>5 DEF HoldsLatest
    <3>3. QED
      BY <3>1, <3>2
  <2>5. ASSUME NEW s \in Slots, NEW k \in {"dev", "stage"},
               e[<<k, s>>].oid = o /\ e[<<k, s>>].bid = off /\ e[<<k, s>>].ver = r.ver[p]
        PROVE  HoldsLatest(d, o, off)
    <3>1. CASE <<k, s>> \notin Writes(op)
      <4>1. e[<<k, s>>] = d[<<k, s>>]
        BY <1>0, <3>1
      <4>2. QED
        BY <2>5, <4>1 DEF HoldsLatest
    <3>2. CASE <<k, s>> \in Writes(op)
      <4>1. e[<<k, s>>] = Result(op, d, <<k, s>>)
        BY <1>0, <3>2
      <4>2. op.kind \in {"read", "write", "load"}
        BY <2>1, <3>2 DEF Writes
      <4>3. CASE op.kind \in {"read", "write"}
        <5>1. PICK i \in {"dev", "stage"} : e[<<k, s>>] = d[<<i, op.slot>>]
          BY <4>1, <4>3 DEF Result
        <5>2. QED
          BY <2>1, <2>5, <5>1 DEF HoldsLatest
      <4>4. CASE op.kind = "load"
        <5>1. e[<<k, s>>] = Copy(op.block, d[h])
          BY <4>1, <4>4 DEF Result
        <5>2. op.block.oid = o /\ op.block.bid = off /\ d[h] = r.ver[p]
          BY <2>5, <5>1 DEF Copy
        <5>3. QED
          BY <2>3, <5>2 DEF HoldsLatest
      <4>5. QED
        BY <4>2, <4>3, <4>4
    <3>3. QED
      BY <3>1, <3>2
  <2>6. QED
    BY <2>2, <2>4, <2>5 DEF HoldsLatest
<1>3. QED
  BY <1>1, <1>2

\* What some place will hold when the operations are done, some place holds.
LEMMA RunsLatest ==
  ASSUME NEW ops, NEW n, Numbered(ops, n), NEW d, NEW e, Runs(ops, n, d, e),
         e[<<"result">>].ok, NEW o \in Oids, NEW off \in Nat, objects[o].mode = "ReadWrite",
         HoldsLatest(e, o, off)
  PROVE  HoldsLatest(d, o, off)
<1> DEFINE C == {c \in States : c[<<"result">>].ok => ~HoldsLatest(c, o, off)}
<1>1. ASSUME NEW op \in ops, NEW c \in States, c \in C
      PROVE  Effect(op, c) \in C
  <2>1. op \in DataWork
    BY DEF Numbered
  <2>2. Effect(op, c) \in States
    BY <2>1, EffectStates
  <2>3. SUFFICES ASSUME Effect(op, c)[<<"result">>].ok, HoldsLatest(Effect(op, c), o, off)
                 PROVE  FALSE
    BY <2>2
  <2>4. HoldsLatest(c, o, off)
    BY <2>1, <2>3, LostStays
  <2>5. c[<<"result">>].ok
    <3>1. CASE op.kind # "kernel"
      BY <2>1, <2>3, <3>1, ResultsStay
    <3>2. CASE op.kind = "kernel"
      BY <2>1, <2>3, <3>2, KernelOk
    <3>3. QED
      BY <3>1, <3>2
  <2>6. QED
    BY <1>1, <2>4, <2>5
<1>2. SUFFICES ASSUME ~HoldsLatest(d, o, off) PROVE FALSE
  OBVIOUS
<1>3. d \in C
  BY <1>2, RunsTyped
<1>4. e \in C
  <2> HIDE DEF C
  <2>1. QED
    BY <1>1, <1>3, RunsKeep
<1>5. QED
  BY <1>4

-----------------------------------------------------------------------------
(***************************************************************************)
(* The order of events is an order in which the work may be done           *)
(***************************************************************************)
\* Everything comes after what it waits for, and after what is before it in
\* its queue.
InEventOrder(ops) ==
  /\ \A i, j \in 1 .. Len(ops) : i < j => ops[i].ev < ops[j].ev
  /\ \A i \in 1 .. Len(ops) : \A x \in ops[i].waits : x < ops[i].ev

BacklogsOrdered == \A w \in Workers : InEventOrder(Backlog(w))

\* What is enqueued after it.
LEMMA OrderedConcat ==
  ASSUME NEW c \in Seq(MovedWork), NEW d \in Seq(MovedWork), NEW n \in Nat,
         InEventOrder(c), InEventOrder(d),
         \A i \in 1 .. Len(c) : c[i].ev \in Nat /\ c[i].ev < n,
         \A i \in 1 .. Len(d) : d[i].ev \in Nat /\ n <= d[i].ev
  PROVE  InEventOrder(c \o d)
<1>1. PICK e : e = c \o d
  OBVIOUS
<1>2. /\ Len(c) \in Nat /\ Len(d) \in Nat /\ Len(e) = Len(c) + Len(d)
      /\ \A k \in 1 .. Len(c) : e[k] = c[k]
      /\ \A k \in 1 .. Len(d) : e[Len(c) + k] = d[k]
  BY <1>1, ConcatElements
<1>3. ASSUME NEW i \in 1 .. Len(e)
      PROVE  \/ i \in 1 .. Len(c) /\ e[i] = c[i]
             \/ \E k \in 1 .. Len(d) : i = Len(c) + k /\ e[i] = d[k]
  <2>1. CASE i \in 1 .. Len(c)
    BY <1>2, <2>1
  <2>2. CASE i \notin 1 .. Len(c)
    <3>1. i - Len(c) \in 1 .. Len(d) /\ i = Len(c) + (i - Len(c))
      BY <1>2, <2>2
    <3>2. QED
      BY <1>2, <3>1
  <2>3. QED
    BY <2>1, <2>2
<1>4. ASSUME NEW i \in 1 .. Len(e), NEW j \in 1 .. Len(e), i < j
      PROVE  e[i].ev < e[j].ev
  <2>1. CASE i \in 1 .. Len(c) /\ e[i] = c[i]
    <3>1. CASE j \in 1 .. Len(c) /\ e[j] = c[j]
      BY <1>4, <2>1, <3>1 DEF InEventOrder
    <3>2. CASE \E k \in 1 .. Len(d) : j = Len(c) + k /\ e[j] = d[k]
      <4>1. PICK k \in 1 .. Len(d) : e[j] = d[k]
        BY <3>2
      <4>2. PICK x \in Nat, y \in Nat : x = c[i].ev /\ y = d[k].ev /\ x < n /\ n <= y
        BY <2>1
      <4>3. QED
        BY <2>1, <4>1, <4>2
    <3>3. QED
      BY <1>3, <3>1, <3>2
  <2>2. CASE \E k \in 1 .. Len(d) : i = Len(c) + k /\ e[i] = d[k]
    <3>1. PICK k \in 1 .. Len(d) : i = Len(c) + k /\ e[i] = d[k]
      BY <2>2
    <3>2. j \notin 1 .. Len(c)
      BY <1>2, <1>4, <3>1
    <3>3. PICK l \in 1 .. Len(d) : j = Len(c) + l /\ e[j] = d[l]
      BY <1>3, <3>2
    <3>4. k < l
      BY <1>2, <1>4, <3>1, <3>3
    <3>5. QED
      BY <3>1, <3>3, <3>4 DEF InEventOrder
  <2>3. QED
    BY <1>3, <2>1, <2>2
<1>5. ASSUME NEW i \in 1 .. Len(e)
      PROVE  \A x \in e[i].waits : x < e[i].ev
  <2>1. CASE i \in 1 .. Len(c) /\ e[i] = c[i]
    BY <2>1 DEF InEventOrder
  <2>2. CASE \E k \in 1 .. Len(d) : e[i] = d[k]
    BY <2>2 DEF InEventOrder
  <2>3. QED
    BY <1>3, <2>1, <2>2
<1>6. QED
  BY <1>1, <1>4, <1>5 DEF InEventOrder

\* The transfers of get are numbered in the order of their creation.
LEMMA TransfersOrdered ==
  ASSUME NEW s \in Slots, NEW block, NEW n \in Nat, NEW waits \in SUBSET Nat,
         \A x \in waits : x < n
  PROVE  /\ InEventOrder(ReadCommands(s, block, waits, n))
         /\ InEventOrder(ReadTasks(s, block, n))
         /\ InEventOrder(FillCommands(s, block, waits, n))
         /\ InEventOrder(FillTasks(s, block, waits, n))
<1> DEFINE a(x) == Op("read", s, x, waits, n)
           b(x) == Op("barrier", s, x, {n + 1}, n + 2)
           c(x) == Op("back", s, x, {n}, n + 1)
           d == Op("write", s, block, {n + 3}, n + 4)
           t == Op("load", s, block, waits \cup {n + 2}, n + 3)
           u == Op("load", s, block, waits, n + 3)
<1>1. /\ \A x : a(x).ev = n /\ a(x).waits = waits
      /\ \A x : b(x).ev = n + 2 /\ b(x).waits = {n + 1}
      /\ \A x : c(x).ev = n + 1 /\ c(x).waits = {n}
      /\ d.ev = n + 4 /\ d.waits = {n + 3}
      /\ t.ev = n + 3 /\ t.waits = waits \cup {n + 2}
      /\ u.ev = n + 3 /\ u.waits = waits
  BY OpFields
<1>2. /\ \A x : \A y \in a(x).waits : y < a(x).ev
      /\ \A x : \A y \in b(x).waits : y < b(x).ev
      /\ \A x : \A y \in c(x).waits : y < c(x).ev
      /\ \A y \in d.waits : y < d.ev
      /\ \A y \in t.waits : y < t.ev
      /\ \A y \in u.waits : y < u.ev
  <2> HIDE DEF a, b, c, d, t, u
  <2>1. /\ \A y \in waits : y < n /\ y < n + 3
        /\ \A y \in {n + 1} : y < n + 2
        /\ \A y \in {n} : y < n + 1
        /\ \A y \in {n + 3} : y < n + 4
        /\ \A y \in waits \cup {n + 2} : y < n + 3
    <3>1. \A y \in waits : y \in Nat /\ y < n
      OBVIOUS
    <3>2. \A y \in waits : y < n + 3
      BY <3>1
    <3>3. n + 1 < n + 2 /\ n < n + 1 /\ n + 3 < n + 4 /\ n + 2 < n + 3
      OBVIOUS
    <3>4. QED
      BY <3>1, <3>2, <3>3
  <2>2. ASSUME NEW o, NEW w, NEW m, o.waits = w, o.ev = m, \A y \in w : y < m
        PROVE  \A y \in o.waits : y < o.ev
    BY <2>2
  <2>3. ASSUME NEW x
        PROVE  /\ \A y \in a(x).waits : y < a(x).ev
               /\ \A y \in b(x).waits : y < b(x).ev
               /\ \A y \in c(x).waits : y < c(x).ev
    <3>1. \A y \in a(x).waits : y < a(x).ev
      BY <1>1, <2>1, ZenonT(30)
    <3>2. \A y \in b(x).waits : y < b(x).ev
      BY <1>1, <2>1
    <3>3. \A y \in c(x).waits : y < c(x).ev
      BY <1>1, <2>1
    <3>4. QED
      BY <3>1, <3>2, <3>3
  <2>4. \A y \in d.waits : y < d.ev
    BY <1>1, <2>1, <2>2
  <2>5. \A y \in t.waits : y < t.ev
    BY <1>1, <2>1, <2>2
  <2>6. \A y \in u.waits : y < u.ev
    BY <1>1, <2>1, <2>2
  <2>7. QED
    BY <2>3, <2>4, <2>5, <2>6
<1>3. ASSUME NEW x
      PROVE  a(x).ev < b(x).ev /\ a(x).ev < d.ev /\ b(x).ev < d.ev /\ c(x).ev < t.ev
  <2>1. /\ a(x).ev = n /\ b(x).ev = n + 2 /\ c(x).ev = n + 1
        /\ d.ev = n + 4 /\ t.ev = n + 3
    BY <1>1
  <2> HIDE DEF a, b, c, d, t, u
  <2>2. QED
    BY <2>1
<1> HIDE DEF a, b, c, d, t, u
<1>10. ASSUME NEW o, \A y \in o.waits : y < o.ev
       PROVE  InEventOrder(<<o>>)
  BY <1>10 DEF InEventOrder
<1>11. ASSUME NEW o, NEW p, \A y \in o.waits : y < o.ev, \A y \in p.waits : y < p.ev,
              o.ev < p.ev
       PROVE  InEventOrder(<<o, p>>)
  <2>1. PICK ops : ops = <<o, p>>
    OBVIOUS
  <2>2. Len(ops) = 2 /\ ops[1] = o /\ ops[2] = p
    BY <2>1
  <2>3. 1 .. Len(ops) = {1, 2}
    BY <2>2
  <2>4. QED
    BY <1>11, <2>1, <2>2, <2>3 DEF InEventOrder
<1>4. /\ \A x : InEventOrder(<<a(x), b(x)>>) /\ InEventOrder(<<c(x)>>)
      /\ \A x : InEventOrder(<<c(x), t>>)
      /\ InEventOrder(<<d>>) /\ InEventOrder(<<u>>)
  BY <1>2, <1>3, <1>10, <1>11
<1>5. ASSUME NEW x PROVE InEventOrder(<<a(x), b(x), d>>)
  <2>1. PICK ops : ops = <<a(x), b(x), d>>
    OBVIOUS
  <2>2. Len(ops) = 3 /\ ops[1] = a(x) /\ ops[2] = b(x) /\ ops[3] = d
    BY <2>1
  <2>3. 1 .. Len(ops) = {1, 2, 3}
    BY <2>2
  <2>4. QED
    BY <1>2, <1>3, <2>1, <2>2, <2>3 DEF InEventOrder
<1>6. InEventOrder(ReadCommands(s, block, waits, n)) /\ InEventOrder(ReadTasks(s, block, n))
  BY <1>4 DEF ReadCommands, ReadTasks, a, b, c
<1>7. CASE WritesBack(s)
  <2>1. /\ EvictCommands(s, block, waits, n) = <<a(cached[s]), b(cached[s]), d>>
        /\ EvictTasks(s, block, waits, n) = <<c(cached[s]), t>>
    BY DEF EvictCommands, EvictTasks, a, b, c, d, t
  <2>2. QED
    BY <1>4, <1>5, <1>6, <1>7, <2>1, FillShape
<1>8. CASE ~WritesBack(s)
  <2>1. /\ LoadCommands(s, block, n) = <<d>> /\ LoadTasks(s, block, waits, n) = <<u>>
    BY DEF LoadCommands, LoadTasks, d, u
  <2>2. QED
    BY <1>4, <1>6, <1>8, <2>1, FillShape
<1>9. QED
  BY <1>7, <1>8

\* What is enqueued comes after what is there.
LEMMA EnqueueOrdered ==
  ASSUME WorkTypes, EventsBelow, BacklogsOrdered, next_event \in Nat,
         NEW q \in Queues, NEW cmds \in Seq(MovedWork),
         NEW tasks \in Seq(MovedWork), Enqueue(q, cmds, tasks),
         InEventOrder(cmds), InEventOrder(tasks),
         FreshEvents(cmds, tasks, next_event)
  PROVE  BacklogsOrdered'
<1> SUFFICES ASSUME NEW w \in Workers
             PROVE  InEventOrder(Backlog(w)')
  BY DEF BacklogsOrdered
<1>1. PICK t : t = Added(w, q, cmds, tasks)
  OBVIOUS
<1>2. t \in Seq(MovedWork) /\ Backlog(w)' = Backlog(w) \o t
  BY <1>1, EnqueueBacklog
<1>3. InEventOrder(t)
  BY <1>1 DEF Added, InEventOrder
<1>4. PICK n \in Nat : n = next_event
  OBVIOUS
<1>5. \A i \in 1 .. Len(t) : t[i].ev \in Nat /\ n <= t[i].ev
  <2>1. CASE t = <<>>
    BY <2>1
  <2>2. CASE t # <<>>
    <3>1. t = cmds \/ t = tasks
      BY <1>1, <2>2, AddedWhere
    <3>2. \A i \in 1 .. Len(t) : t[i].ev \in n .. n + 4
      BY <1>4, <3>1 DEF FreshEvents
    <3>3. QED
      BY <3>2
  <2>3. QED
    BY <2>1, <2>2
<1>6. \A i \in 1 .. Len(Backlog(w)) : Backlog(w)[i].ev \in Nat /\ Backlog(w)[i].ev < n
  <2>1. \A i \in 1 .. Len(Backlog(w)) : Backlog(w)[i].ev \in 1 .. n - 1
    BY <1>4 DEF EventsBelow
  <2>2. QED
    BY <2>1
<1>7. Backlog(w) \in Seq(MovedWork) /\ InEventOrder(Backlog(w))
  BY BacklogTypes DEF BacklogsOrdered
<1>8. QED
  BY <1>2, <1>3, <1>5, <1>6, <1>7, OrderedConcat

\* The transfers of an activation.
LEMMA MissOrdered ==
  ASSUME GInv, BacklogsOrdered, ActivateMiss
  PROVE  BacklogsOrdered'
<1>1. PICK s \in Slots :
           /\ Transfer(s, next_event) /\ cached[s] \in Block
           /\ ThisBlock \in Block /\ InObject(ThisBlock)
  BY MissFills DEF GInv
<1>2. /\ objects' = objects /\ next_event \in Nat /\ next_event > 0
  BY DEF ActivateMiss, Fill, GInv, HInv, HostTypes, EventsBelow
<1>3. /\ ActivateWaits \in SUBSET Nat /\ ThisQueue \in Queues /\ WorkTypes
      /\ EventsBelow /\ KeptEvents
  BY RunFields, ThisQueueType DEF ActivateWaits, GInv
<1>4. \A x \in ActivateWaits : x < next_event
  <2>1. ActivateWaits \subseteq 0 .. next_event - 1
    BY <1>3 DEF ActivateWaits, KeptEvents
  <2>2. QED
    BY <1>2, <2>1
<1>5. PICK waits \in SUBSET Nat, n \in Nat :
           waits = ActivateWaits /\ n = next_event /\ \A x \in waits : x < n
  BY <1>2, <1>3, <1>4
<1>6. /\ InEventOrder(ReadCommands(s, cached[s], waits, n))
      /\ InEventOrder(ReadTasks(s, cached[s], n))
      /\ InEventOrder(FillCommands(s, ThisBlock, waits, n))
      /\ InEventOrder(FillTasks(s, ThisBlock, waits, n))
  BY <1>5, TransfersOrdered
<1>7. CASE UNCHANGED queueVars
  BY <1>7 DEF queueVars, BacklogsOrdered, InEventOrder, Backlog
<1>8. CASE WritesBack(s) /\ Enqueue(ThisQueue, ReadCommands(s, cached[s], waits, n),
                                    ReadTasks(s, cached[s], n))
  <2>1. InObject(cached[s])
    BY <1>1, <1>8, EvictedInObject DEF GInv
  <2>2. /\ ReadCommands(s, cached[s], waits, n) \in Seq(MovedWork)
        /\ ReadTasks(s, cached[s], n) \in Seq(MovedWork)
        /\ FreshEvents(ReadCommands(s, cached[s], waits, n), ReadTasks(s, cached[s], n), n)
    BY <1>1, <2>1, ReadMoved
  <2>3. QED
    BY <1>2, <1>3, <1>5, <1>6, <1>8, <2>2, EnqueueOrdered
<1>9. CASE Enqueue(ThisQueue, FillCommands(s, ThisBlock, waits, n),
                   FillTasks(s, ThisBlock, waits, n))
  <2>1. WritesBack(s) => InObject(cached[s])
    BY <1>1, EvictedInObject DEF GInv
  <2>2. /\ FillCommands(s, ThisBlock, waits, n) \in Seq(MovedWork)
        /\ FillTasks(s, ThisBlock, waits, n) \in Seq(MovedWork)
        /\ FreshEvents(FillCommands(s, ThisBlock, waits, n),
                       FillTasks(s, ThisBlock, waits, n), n)
    BY <1>1, <2>1, FillMoved
  <2>3. QED
    BY <1>2, <1>3, <1>5, <1>6, <1>9, <2>2, EnqueueOrdered
<1>10. QED
  BY <1>1, <1>5, <1>7, <1>8, <1>9 DEF Transfer

\* A kernel.
LEMMA KernelOrdered ==
  ASSUME GInv, BacklogsOrdered, RunFunction
  PROVE  BacklogsOrdered'
<1> DEFINE op == Kernel(run.wait_list, next_event)
<1>1. /\ Enqueue(ThisQueue, <<op>>, <<>>) /\ next_event \in Nat
      /\ WorkTypes /\ EventsBelow /\ KeptEvents
  BY DEF RunFunction, GInv, HInv, HostTypes
<1>2. op \in MovedWork /\ op.waits = run.wait_list /\ op.ev = next_event
  BY KernelType DEF MovedWork, Work, Kernels, GInv
<1>3. ThisQueue \in Queues
  BY ThisQueueType DEF GInv
<1>4. \A x \in op.waits : x < op.ev
  <2>1. op.waits \subseteq 0 .. next_event - 1
    BY <1>1, <1>2 DEF KeptEvents
  <2>2. QED
    BY <1>1, <1>2, <2>1
<1>5. next_event \in next_event .. next_event + 4
  BY <1>1
<1> HIDE DEF op
<1>6. /\ <<op>> \in Seq(MovedWork) /\ <<>> \in Seq(MovedWork)
      /\ InEventOrder(<<op>>) /\ InEventOrder(<<>>)
      /\ FreshEvents(<<op>>, <<>>, next_event)
  BY <1>2, <1>4, <1>5 DEF InEventOrder, FreshEvents
<1>7. QED
  BY <1>1, <1>3, <1>6, EnqueueOrdered

\* What the client reads.
LEMMA ReadOrdered ==
  ASSUME GInv, BacklogsOrdered, ClientRead
  PROVE  BacklogsOrdered'
<1>1. PICK b : b = Head(program.reads)
  OBVIOUS
<1>2. b \in Block
  <2>1. program.reads \in Seq(Block) /\ program.reads # <<>>
    BY DEF ClientRead, GInv, HInv, HostTypes
  <2>2. QED
    BY <1>1, <2>1
<1>3. ClientQueue \in Queues /\ WorkTypes /\ EventsBelow /\ next_event \in Nat
  BY DEF ClientQueue, Queues, NumQueues, GInv, HInv, HostTypes
<1>4. ASSUME NEW s \in Slots, ReadBack(s, b.oid, b.bid, b.len),
             Enqueue(ClientQueue, ReadCommands(s, b, {}, next_event),
                     ReadTasks(s, b, next_event))
      PROVE  BacklogsOrdered'
  <2>1. cached[s].oid = b.oid /\ cached[s].bid = b.bid /\ b.oid \in Oids
    BY <1>4 DEF ReadBack, FoundAt, Holds, Accepted, ValidPtr
  <2>2. cached[s] # NoBlock
    BY <2>1 DEF NoBlock, Oids
  <2>3. InObject(b)
    BY <2>1, <2>2 DEF GInv, BlocksExist, InObject
  <2>4. PICK n \in Nat : n = next_event
    BY <1>3
  <2>5. {} \in SUBSET Nat /\ \A x \in {} : x < n
    OBVIOUS
  <2>6. /\ ReadCommands(s, b, {}, n) \in Seq(MovedWork)
        /\ ReadTasks(s, b, n) \in Seq(MovedWork)
        /\ FreshEvents(ReadCommands(s, b, {}, n), ReadTasks(s, b, n), n)
    BY <1>2, <2>3, <2>5, ReadMoved
  <2>7. InEventOrder(ReadCommands(s, b, {}, n)) /\ InEventOrder(ReadTasks(s, b, n))
    BY <2>5, TransfersOrdered
  <2>8. QED
    BY <1>3, <1>4, <2>4, <2>6, <2>7, EnqueueOrdered
<1>5. CASE UNCHANGED queueVars
  BY <1>5 DEF queueVars, BacklogsOrdered, InEventOrder, Backlog
<1>6. QED
  BY <1>1, <1>4, <1>5 DEF ClientRead

\* The work of a worker stays in the order of its events.
LEMMA OrderedStep ==
  ASSUME GInv, BacklogsOrdered, [SchedulerNext]_vars
  PROVE  BacklogsOrdered'
<1>0. WorkTypes
  BY DEF GInv
<1>1. CASE UNCHANGED queueVars
  BY <1>1 DEF queueVars, BacklogsOrdered, InEventOrder, Backlog
<1>2. CASE ActivateMiss
  BY <1>2, MissOrdered
<1>3. CASE RunFunction
  BY <1>3, KernelOrdered
<1>4. CASE ClientRead
  BY <1>4, ReadOrdered
<1>5. CASE \E q \in Queues : DeviceStep(q) \/ IOThreadStep(q)
  <2>1. PICK w \in Workers : WorkerStep(w)
    BY <1>0, <1>5, WorkerSteps
  <2>2. SUFFICES ASSUME NEW v \in Workers
                 PROVE  InEventOrder(Backlog(v)')
    BY DEF BacklogsOrdered
  <2>3. PICK d \in {0, 1} : \A k \in 1 .. Len(Backlog(v)') :
          k + d \in 1 .. Len(Backlog(v)) /\ Backlog(v)'[k] = Backlog(v)[k + d]
    <3>1. CASE v = w
      BY <1>0, <2>1, <3>1, BacklogShrinks
    <3>2. CASE v # w
      BY <1>0, <2>1, <3>2, BacklogShrinks
    <3>3. QED
      BY <3>1, <3>2
  <2>4. PICK c, e : c = Backlog(v) /\ e = Backlog(v)'
    OBVIOUS
  <2>5. InEventOrder(c)
    BY <2>4 DEF BacklogsOrdered
  <2>6. ASSUME NEW i \in 1 .. Len(e), NEW j \in 1 .. Len(e), i < j
        PROVE  e[i].ev < e[j].ev
    <3>1. i + d < j + d
      BY <2>6
    <3>2. QED
      BY <2>3, <2>4, <2>5, <3>1 DEF InEventOrder
  <2>7. \A i \in 1 .. Len(e) : \A x \in e[i].waits : x < e[i].ev
    BY <2>3, <2>4, <2>5 DEF InEventOrder
  <2>8. QED
    BY <2>4, <2>6, <2>7 DEF InEventOrder
<1>6. QED
  BY <1>1, <1>2, <1>3, <1>4, <1>5
  DEF SchedulerNext, HostStep, StartBatch, RegisterOk, RegisterFails, ActivateAgain,
      ActivateHit, ActivateFails, Deactivate, Finish, ClientEnds, Done, vars

\* What is outstanding with a smaller event, when a command of a queue and a
\* task of its I/O thread are on one slot, has to be done first.
LEMMA EarlierOnSlot ==
  ASSUME GInv, RInv, BacklogsOrdered, NEW size, RaceInv(size, {}),
         NEW q \in Queues, NEW v \in Workers, NEW w \in Workers,
         v = <<q, "device">>, w = <<q, "io">>,
         NEW i \in 1 .. Len(Backlog(v)), NEW m \in 1 .. Len(Backlog(w)),
         Backlog(v)[i].kind \in {"read", "write"},
         Backlog(v)[i].slot = Backlog(w)[m].slot
  PROVE  /\ ~ (/\ i = 1 /\ Backlog(w)[m].ev < Backlog(v)[1].ev
               /\ \A u \in Workers : \A k \in 1 .. Len(Backlog(u)) :
                    Backlog(u)[k].ev \notin Backlog(v)[1].waits)
         /\ ~ (/\ m = 1 /\ Backlog(v)[i].ev < Backlog(w)[1].ev
               /\ \A u \in Workers : \A k \in 1 .. Len(Backlog(u)) :
                    Backlog(u)[k].ev \notin Backlog(w)[1].waits)
<1>1. PICK c, t : c = Backlog(v) /\ t = Backlog(w)
  OBVIOUS
<1>2. c = commands[q] /\ t = io[q]
  BY <1>1 DEF Backlog
<1>3. InOrder(c, t, {}) /\ ~LoadOf(t[m], {}) /\ InEventOrder(c) /\ InEventOrder(t)
  BY <1>1, <1>2 DEF RaceInv, StagingInOrder, LoadOf, BacklogsOrdered
<1>4. Len(c) \in Nat /\ Len(t) \in Nat
  BY <1>1, BacklogTypes DEF GInv
<1>5. \A k \in 1 .. Len(c) : c[k].ev \in Int
  BY <1>1 DEF GInv, EventsBelow
<1>6. \A k \in 1 .. Len(t) : t[k].ev \in Int
  BY <1>1 DEF GInv, EventsBelow
<1>7. ASSUME NEW k \in 1 .. Len(c), NEW l \in 1 .. Len(c), k <= l
      PROVE  c[k].ev <= c[l].ev
  <2>1. k = l \/ k < l
    BY <1>4, <1>7
  <2>2. k < l => c[k].ev < c[l].ev
    BY <1>3 DEF InEventOrder
  <2>3. c[k].ev \in Int /\ c[l].ev \in Int
    BY <1>5
  <2>4. QED
    BY <2>1, <2>2, <2>3
<1>8. ASSUME NEW k \in 1 .. Len(t), NEW l \in 1 .. Len(t), k <= l
      PROVE  t[k].ev <= t[l].ev
  <2>1. k = l \/ k < l
    BY <1>4, <1>8
  <2>2. k < l => t[k].ev < t[l].ev
    BY <1>3 DEF InEventOrder
  <2>3. t[k].ev \in Int /\ t[l].ev \in Int
    BY <1>6
  <2>4. QED
    BY <2>1, <2>2, <2>3
<1>9. Orders(c, i, t, m)
  BY <1>1, <1>3 DEF InOrder, Meet
<1>10. CASE \E n \in i .. Len(c) : \E l \in 1 .. m : c[n].ev \in t[l].waits
  <2>1. PICK n \in i .. Len(c), l \in 1 .. m : c[n].ev \in t[l].waits
    BY <1>10
  <2>2. n \in 1 .. Len(c) /\ l \in 1 .. Len(t) /\ i <= n /\ l <= m /\ i \in 1 .. Len(c)
        /\ m \in 1 .. Len(t)
    BY <1>1, <1>4
  <2>3. c[n].ev < t[l].ev
    BY <1>3, <2>1, <2>2 DEF InEventOrder
  <2>4. c[i].ev <= c[n].ev /\ t[l].ev <= t[m].ev
    BY <1>7, <1>8, <2>2
  <2>5. c[i].ev < t[m].ev
    BY <1>5, <1>6, <2>2, <2>3, <2>4, SMTT(30)
  <2>6. ~(t[m].ev < c[i].ev)
    BY <1>5, <1>6, <2>2, <2>5
  <2>7. m = 1 => l = 1
    BY <2>2, <1>4
  <2>8. QED
    BY <1>1, <2>1, <2>2, <2>6, <2>7
<1>11. CASE \E n \in 1 .. i : t[m].ev \in c[n].waits
  <2>1. PICK n \in 1 .. i : t[m].ev \in c[n].waits
    BY <1>11
  <2>2. n \in 1 .. Len(c) /\ n <= i /\ i \in 1 .. Len(c) /\ m \in 1 .. Len(t)
    BY <1>1, <1>4
  <2>3. t[m].ev < c[n].ev
    BY <1>3, <2>1, <2>2 DEF InEventOrder
  <2>4. c[n].ev <= c[i].ev
    BY <1>7, <2>2
  <2>5. t[m].ev < c[i].ev
    BY <1>5, <1>6, <2>2, <2>3, <2>4
  <2>6. ~(c[i].ev < t[m].ev)
    BY <1>5, <1>6, <2>2, <2>5
  <2>7. i = 1 => n = 1
    BY <2>2, <1>4
  <2>8. QED
    BY <1>1, <2>1, <2>2, <2>6, <2>7
<1>12. QED
  BY <1>9, <1>10, <1>11 DEF Orders

\* What may be done now is in conflict with nothing that is left and was
\* created before it.
LEMMA NoEarlierConflict ==
  ASSUME GInv, RInv, BacklogsOrdered, NEW size \in Sizes, RaceInv(size, {}),
         NEW v \in Workers, 1 \in 1 .. Len(Backlog(v)), Ready(Backlog(v)[1]),
         NEW w \in Workers, NEW k \in 1 .. Len(Backlog(w)),
         Backlog(w)[k].ev < Backlog(v)[1].ev
  PROVE  ~Conflict(Backlog(v)[1], Backlog(w)[k])
<1>1. PICK a, b : a = Backlog(v)[1] /\ b = Backlog(w)[k]
  OBVIOUS
<1>2. SUFFICES ASSUME Conflict(a, b) PROVE FALSE
  BY <1>1
<1>3. a \in Work /\ b \in Work /\ Len(Backlog(v)) \in Nat /\ Len(Backlog(w)) \in Nat
  BY <1>1, BacklogTypes DEF GInv
<1>4. a.ev \in Int /\ b.ev \in Int /\ b.ev < a.ev
  BY <1>1 DEF GInv, EventsBelow
<1>5. \A u \in Workers : \A j \in 1 .. Len(Backlog(u)) : Backlog(u)[j].ev \notin a.waits
  <2>1. \A u \in Workers : \A j \in 1 .. Len(Backlog(u)) : Backlog(u)[j].ev \in Outstanding
    BY WorkOutstanding DEF GInv
  <2>2. a.waits \cap Outstanding = {}
    BY <1>1 DEF Ready
  <2>3. QED
    BY <2>1, <2>2
<1>6. v # w
  <2>1. SUFFICES ASSUME v = w PROVE FALSE
    OBVIOUS
  <2>2. k # 1
    BY <1>1, <1>4, <2>1
  <2>3. 1 < k
    BY <1>3, <2>2
  <2>4. Backlog(w)[1].ev < Backlog(w)[k].ev
    BY <2>1, <2>3 DEF BacklogsOrdered, InEventOrder
  <2>5. QED
    BY <1>1, <1>4, <2>1, <2>4
<1>7. /\ KindsFit /\ TransfersInPlace(size) /\ KernelsChained /\ ReadsAlone /\ QueueTypes
      /\ a.kind \in KindsOf(v) /\ b.kind \in KindsOf(w)
  BY <1>1 DEF RaceInv, RInv, KindsFit
<1>8. Backlog(v) # <<>> /\ Backlog(w) # <<>>
  BY <1>3
<1>9. (v[1] = ClientQueue) <=> (w[1] = ClientQueue)
  BY <1>7, <1>8, ClientAlone
<1>10. \/ /\ a.kind \in {"read", "write", "kernel"} /\ b.kind \in {"read", "write", "kernel"}
          /\ \E s \in SlotsOf(a) : s \in SlotsOf(b)
       \/ /\ a.kind \in {"read", "write", "load", "back"}
          /\ b.kind \in {"read", "write", "load", "back"}
          /\ a.slot = b.slot
       \/ /\ a.kind \in {"load", "back"} /\ b.kind \in {"load", "back"}
          /\ a.block.oid = b.block.oid /\ a.block.bid = b.block.bid
       \/ a.kind = "kernel" /\ b.kind = "kernel"
  BY <1>2, <1>3, ConflictCases
<1>11. PICK p \in Queues, q \in Queues, side \in {"device", "io"}, other \in {"device", "io"} :
         v = <<p, side>> /\ w = <<q, other>>
  BY DEF Workers
<1>12. CASE p = q
  <2>1. \/ side = "device" /\ other = "io"
        \/ side = "io" /\ other = "device"
    BY <1>6, <1>11, <1>12
  <2>2. CASE side = "device" /\ other = "io"
    <3>1. /\ a.kind \in {"read", "write", "barrier", "kernel"}
          /\ b.kind \in {"back", "load"}
      BY <1>7, <1>11, <2>2 DEF KindsOf
    <3>2. a.kind \in {"read", "write"} /\ a.slot = b.slot
      BY <1>10, <3>1
    <3>3. QED
      BY <1>1, <1>4, <1>5, <1>11, <1>12, <2>2, <3>2, EarlierOnSlot
  <2>3. CASE side = "io" /\ other = "device"
    <3>1. /\ b.kind \in {"read", "write", "barrier", "kernel"}
          /\ a.kind \in {"back", "load"}
      BY <1>7, <1>11, <2>3 DEF KindsOf
    <3>2. b.kind \in {"read", "write"} /\ b.slot = a.slot
      BY <1>10, <3>1
    <3>3. QED
      BY <1>1, <1>4, <1>5, <1>11, <1>12, <2>3, <3>2, EarlierOnSlot
  <2>4. QED
    BY <2>1, <2>2, <2>3
<1>13. CASE p # q
  <2>1. v[1] # ClientQueue /\ w[1] # ClientQueue
    BY <1>9, <1>11, <1>13
  <2>2. /\ \A s \in SlotsOf(a) : s % DoubleBuffering = p
        /\ \A s \in SlotsOf(b) : s % DoubleBuffering = q
    BY <1>1, <1>7, <1>11, <2>1, ParityOfWork
  <2>3. a.kind # "kernel" => a.slot \in SlotsOf(a) /\ TransferInPlace(a, size)
    BY <1>1, <1>7, <2>1 DEF TransfersInPlace, SlotsOf
  <2>4. b.kind # "kernel" => b.slot \in SlotsOf(b) /\ TransferInPlace(b, size)
    BY <1>1, <1>7, <2>1 DEF TransfersInPlace, SlotsOf
  <2>5. CASE \E s \in SlotsOf(a) : s \in SlotsOf(b)
    BY <1>13, <2>2, <2>5
  <2>6. CASE a.kind # "kernel" /\ b.kind # "kernel" /\ a.slot = b.slot
    BY <1>13, <2>2, <2>3, <2>4, <2>6
  <2>7. CASE /\ a.kind \in {"load", "back"} /\ b.kind \in {"load", "back"}
             /\ a.block.oid = b.block.oid /\ a.block.bid = b.block.bid
    <3>1. a.block.oid \in Nat \ {0}
      <4>1. Backlog(v) \in Seq(MovedWork)
        BY BacklogTypes DEF GInv
      <4>2. a \in MovedWork
        BY <1>1, <4>1, ElementOf
      <4>3. InObject(a.block)
        BY <2>7, <4>2 DEF MovedWork
      <4>4. Len(objects) \in Nat
        BY DEF GInv, HInv, IInv, TypeOK
      <4>5. QED
        BY <4>3, <4>4 DEF InObject
    <3>2. a.slot % DoubleBuffering = b.slot % DoubleBuffering
      BY <2>3, <2>4, <2>7, <3>1, SameParity
    <3>3. QED
      BY <1>13, <2>2, <2>3, <2>4, <2>7, <3>2
  <2>8. CASE a.kind = "kernel" /\ b.kind = "kernel"
    <3>1. a \in KernelOps /\ b \in KernelOps
      BY <1>1, <2>8 DEF KernelOps, AllWork
    <3>2. PICK c \in KernelOps : c.ev \in a.waits
      BY <1>4, <1>7, <3>1 DEF KernelsChained
    <3>3. QED
      BY <1>5, <3>2, KernelPlace
  <2>9. QED
    BY <1>10, <2>5, <2>6, <2>7, <2>8
<1>14. QED
  BY <1>12, <1>13

-----------------------------------------------------------------------------
(***************************************************************************)
(* Objects are not registered any more: places, and what operations do to  *)
(* them, stay as they are                                                  *)
(***************************************************************************)
LEMMA PlacesStay ==
  ASSUME objects' = objects
  PROVE  /\ Oids' = Oids /\ HostPlaces' = HostPlaces /\ Places' = Places
         /\ Typed' = Typed /\ MovedWork' = MovedWork /\ DataWork' = DataWork
<1>1. Oids' = Oids
  BY DEF Oids
<1>2. HostPlaces' = HostPlaces
  BY <1>1 DEF HostPlaces
<1>3. Places' = Places
  BY <1>2 DEF Places
<1>4. Typed' = Typed
  BY <1>2, <1>3 DEF Typed
<1>5. MovedWork' = MovedWork
  BY DEF MovedWork, InObject
<1>6. DataWork' = DataWork
  BY <1>1, <1>5 DEF DataWork
<1>7. QED
  BY <1>1, <1>2, <1>3, <1>4, <1>5, <1>6

\* What is written, and what a kernel makes of it.
LEMMA KernelsStay ==
  ASSUME objects' = objects, NEW args, NEW d
  PROVE  /\ KernelResult(args, d)' = KernelResult(args, d)
         /\ \A s : KernelContents(args, d, s)' = KernelContents(args, d, s)
<1>1. /\ \A b : ReceivedIn(d, b)' = ReceivedIn(d, b)
      /\ \A b : Current(d, b)' <=> Current(d, b)
      /\ \A p : Updates(args, p)' <=> Updates(args, p)
      /\ \A s : WrittenBuffers(s, args)' = WrittenBuffers(s, args)
  BY DEF ReceivedIn, Current, Updates, WrittenBuffers
<1>2. KernelResult(args, d)' = KernelResult(args, d)
  BY <1>1 DEF KernelResult
<1>3. ASSUME NEW s
      PROVE  KernelContents(args, d, s)' = KernelContents(args, d, s)
  BY <1>1 DEF KernelContents
<1>4. QED
  BY <1>2, <1>3

\* What it does to all places.
LEMMA EffectStays ==
  ASSUME objects' = objects, NEW op \in DataWork, NEW d
  PROVE  Effect(op, d)' = Effect(op, d)
<1>1. \A modes : Buffers(op, modes)' = Buffers(op, modes)
  BY DEF Buffers
<1>2. Writes(op)' = Writes(op)
  <2>1. CASE op.kind = "kernel"
    BY <1>1, <2>1 DEF Writes
  <2>2. CASE op.kind # "kernel"
    BY <2>2, DataWorkKinds DEF Writes
  <2>3. QED
    BY <2>1, <2>2
<1>3. ASSUME NEW x
      PROVE  Result(op, d, x)' = Result(op, d, x)
  <2>1. CASE op.kind = "kernel"
    BY <2>1, KernelsStay DEF Result
  <2>2. CASE op.kind # "kernel"
    BY <2>2, DataWorkKinds DEF Result
  <2>3. QED
    BY <2>1, <2>2
<1>4. Places' = Places
  BY PlacesStay
<1>5. QED
  BY <1>2, <1>3, <1>4 DEF Effect

\* And so do the states of memory.
LEMMA StatesStay ==
  ASSUME objects' = objects
  PROVE  States' = States
<1>1. Oids' = Oids /\ HostPlaces' = HostPlaces /\ Typed' = Typed
  BY PlacesStay
<1>2. \A d : Bounded(d)' <=> Bounded(d)
  BY <1>1 DEF Bounded
<1>3. QED
  BY <1>1, <1>2 DEF States

\* What is done in the order of events stays done.
LEMMA RunsStay ==
  ASSUME objects' = objects, NEW ops, NEW n, NEW d, NEW e,
         Numbered(ops, n), Runs(ops, n, d, e)
  PROVE  Numbered(ops, n)' /\ Runs(ops, n, d, e)'
<1>1. DataWork' = DataWork /\ States' = States
  BY PlacesStay, StatesStay
<1>2. Numbered(ops, n)'
  BY <1>1 DEF Numbered
<1>3. \A op \in ops : \A c : Effect(op, c)' = Effect(op, c)
  BY EffectStays DEF Numbered
<1>4. PICK m \in [Nat -> States] : Trace(m, ops, n, d, e)
  BY DEF Runs
<1>5. Trace(m, ops, n, d, e)'
  BY <1>3, <1>4 DEF Trace
<1>6. m \in [Nat -> States']
  BY <1>1, <1>4
<1>7. Runs(ops, n, d, e)'
  BY <1>5, <1>6 DEF Runs
<1>8. QED
  BY <1>2, <1>7

-----------------------------------------------------------------------------
(***************************************************************************)
(* The variables of the scheduler as such a memory                         *)
(***************************************************************************)
\* v is how often every block has been given to the kernels.
ContentOf(v, x) ==
  CASE x[1] = "dev" -> dev[x[2]]
    [] x[1] = "stage" -> stage[x[2]]
    [] x[1] = "host" -> memory[x[2]][x[3]]
    [] x[1] = "result" -> [log |-> log, ver |-> v, ok |-> TRUE]

Data(v) == [x \in Places |-> ContentOf(v, x)]

\* What it is in every place.
LEMMA DataPlaces ==
  ASSUME NEW v
  PROVE  /\ \A s \in Slots : /\ Data(v)[<<"dev", s>>] = dev[s]
                             /\ Data(v)[<<"stage", s>>] = stage[s]
         /\ \A x \in HostPlaces : Data(v)[x] = memory[x[2]][x[3]]
         /\ Data(v)[<<"result">>] = [log |-> log, ver |-> v, ok |-> TRUE]
<1>1. ASSUME NEW s \in Slots
      PROVE  Data(v)[<<"dev", s>>] = dev[s] /\ Data(v)[<<"stage", s>>] = stage[s]
  <2>1. <<"dev", s>> \in Places /\ <<"stage", s>> \in Places
    BY PlaceKinds
  <2>2. QED
    BY <2>1 DEF Data, ContentOf
<1>2. ASSUME NEW x \in HostPlaces
      PROVE  Data(v)[x] = memory[x[2]][x[3]]
  <2>1. x \in Places /\ x[1] = "host"
    BY DEF Places, HostPlaces
  <2>2. QED
    BY <2>1 DEF Data, ContentOf
<1>3. <<"result">> \in Places
  BY PlaceKinds
<1>4. Data(v)[<<"result">>] = [log |-> log, ver |-> v, ok |-> TRUE]
  BY <1>3 DEF Data, ContentOf
<1>5. QED
  BY <1>1, <1>2, <1>4

\* And after a step.
LEMMA DataPlacesNext ==
  ASSUME NEW v, objects' = objects
  PROVE  /\ Data(v)' = [x \in Places |-> Data(v)'[x]]
         /\ \A s \in Slots : /\ Data(v)'[<<"dev", s>>] = dev'[s]
                             /\ Data(v)'[<<"stage", s>>] = stage'[s]
         /\ \A x \in HostPlaces : Data(v)'[x] = memory'[x[2]][x[3]]
         /\ Data(v)'[<<"result">>] = [log |-> log', ver |-> v, ok |-> TRUE]
<1>0. Places' = Places
  BY PlacesStay
<1>1. ASSUME NEW s \in Slots
      PROVE  Data(v)'[<<"dev", s>>] = dev'[s] /\ Data(v)'[<<"stage", s>>] = stage'[s]
  <2>1. <<"dev", s>> \in Places /\ <<"stage", s>> \in Places
    BY PlaceKinds
  <2>2. QED
    BY <1>0, <2>1 DEF Data, ContentOf
<1>2. ASSUME NEW x \in HostPlaces
      PROVE  Data(v)'[x] = memory'[x[2]][x[3]]
  <2>1. x \in Places /\ x[1] = "host"
    BY DEF Places, HostPlaces
  <2>2. QED
    BY <1>0, <2>1 DEF Data, ContentOf
<1>3. <<"result">> \in Places
  BY PlaceKinds
<1>4. Data(v)'[<<"result">>] = [log |-> log', ver |-> v, ok |-> TRUE]
  BY <1>0, <1>3 DEF Data, ContentOf
<1>5. Data(v)' = [x \in Places |-> Data(v)'[x]]
  <2>1. Data(v)' = [x \in Places' |-> Data(v)'[x]]
    BY DEF Data
  <2>2. QED
    BY <1>0, <2>1
<1>6. QED
  BY <1>1, <1>2, <1>4, <1>5

\* Two memories with the same contents are the same.
IsMemory(d) == d = [x \in Places |-> d[x]]

\* They are determined by what is in the buffers, the host and the results.
LEMMA SameContents ==
  ASSUME NEW d, NEW e, IsMemory(d), IsMemory(e),
         \A s \in Slots : d[<<"dev", s>>] = e[<<"dev", s>>]
                          /\ d[<<"stage", s>>] = e[<<"stage", s>>],
         \A x \in HostPlaces : d[x] = e[x],
         d[<<"result">>] = e[<<"result">>]
  PROVE  d = e
<1>1. ASSUME NEW x \in Places
      PROVE  d[x] = e[x]
  <2>1. CASE x \in {"dev", "stage"} \X Slots
    <3>1. PICK s \in Slots : x = <<"dev", s>> \/ x = <<"stage", s>>
      BY <2>1
    <3>2. QED
      BY <3>1
  <2>2. CASE x \in HostPlaces \/ x = <<"result">>
    BY <2>2
  <2>3. QED
    BY <2>1, <2>2 DEF Places
<1>2. QED
  BY <1>1, Zenon DEF IsMemory

\* Memory whose contents have not changed.
LEMMA DataStays ==
  ASSUME NEW v, objects' = objects, UNCHANGED <<memory, stage, dev, log>>
  PROVE  Data(v)' = Data(v)
<1>1. Places' = Places
  BY PlacesStay
<1>2. QED
  BY <1>1 DEF Data, ContentOf

\* What an operation writes is where its effect is.
LEMMA WritesWhere ==
  ASSUME NEW op \in DataWork
  PROVE  /\ \A s \in Slots : <<"dev", s>> \in Writes(op) <=>
              \/ op.kind = "write" /\ op.slot = s
              \/ op.kind = "kernel" /\ WrittenBuffers(s, op.args) # {}
         /\ \A s \in Slots : <<"stage", s>> \in Writes(op) <=>
              op.kind \in {"read", "load"} /\ op.slot = s
         /\ \A x \in HostPlaces : x \in Writes(op) <=>
              op.kind = "back" /\ x[2] = op.block.oid /\ x[3] = op.block.bid
         /\ <<"result">> \in Writes(op) <=> op.kind = "kernel"
<1>1. CASE op.kind = "kernel"
  <2>1. Writes(op) = Buffers(op, ObjectMode \ {"ReadOnly"}) \cup {<<"result">>}
    BY <1>1 DEF Writes
  <2>2. /\ op.args \in Seq(Buffer) /\ DOMAIN op.args = 1 .. Len(op.args)
        /\ \A j \in 1 .. Len(op.args) : objects[op.args[j].block.oid].mode \in ObjectMode
    BY <1>1, DataWorkKinds
  <2>3. \A a \in Range(op.args) : objects[a.block.oid].mode \in ObjectMode
    BY <2>2 DEF Range
  <2>4. \A s \in Slots : <<"dev", s>> \in Writes(op) <=> WrittenBuffers(s, op.args) # {}
    <3>1. SUFFICES ASSUME NEW s \in Slots
                   PROVE  <<"dev", s>> \in Writes(op) <=> WrittenBuffers(s, op.args) # {}
      OBVIOUS
    <3>2. <<"dev", s>> # <<"result">>
      OBVIOUS
    <3>3. <<"dev", s>> \in Buffers(op, ObjectMode \ {"ReadOnly"}) <=>
            \E a \in Range(op.args) : a.slot = s /\ objects[a.block.oid].mode # "ReadOnly"
      BY <2>3 DEF Buffers
    <3>4. QED
      BY <2>1, <3>2, <3>3 DEF WrittenBuffers
  <2>5. /\ \A s \in Slots : <<"stage", s>> \notin Writes(op)
        /\ \A x \in HostPlaces : x \notin Writes(op)
        /\ <<"result">> \in Writes(op)
    BY <2>1 DEF Buffers, HostPlaces
  <2>6. QED
    BY <1>1, <2>4, <2>5
<1>2. CASE op.kind = "back"
  <2>1. Writes(op) = {<<"host", op.block.oid, op.block.bid>>}
    BY <1>2 DEF Writes
  <2>2. \A x \in HostPlaces : x = <<"host", x[2], x[3]>>
    BY DEF HostPlaces
  <2>3. QED
    BY <1>2, <2>1, <2>2
<1>3. CASE op.kind \in {"read", "write", "load", "barrier"}
  <2>1. \A x \in HostPlaces : x[1] = "host"
    BY DEF HostPlaces
  <2>2. QED
    BY <1>3, <2>1 DEF Writes
<1>4. QED
  BY <1>1, <1>2, <1>3, DataWorkKinds

\* A command or task does to the variables what its effect says, as long as
\* the kernels find the latest versions.
LEMMA ExecuteEffect ==
  ASSUME DataTypes, objects' = objects, NEW op \in DataWork, Execute(op),
         NEW v, NEW w, Effect(op, Data(v))[<<"result">>].ok,
         w = Effect(op, Data(v))[<<"result">>].ver
  PROVE  Data(w)' = Effect(op, Data(v))
<1>1. PICK a, d, e : a = Data(v) /\ d = Data(w)' /\ e = Effect(op, Data(v))
  OBVIOUS
<1>2. /\ \A s \in Slots : a[<<"dev", s>>] = dev[s] /\ a[<<"stage", s>>] = stage[s]
      /\ \A x \in HostPlaces : a[x] = memory[x[2]][x[3]]
      /\ a[<<"result">>] = [log |-> log, ver |-> v, ok |-> TRUE]
  BY <1>1, DataPlaces
<1>3. /\ d = [x \in Places |-> d[x]]
      /\ \A s \in Slots : d[<<"dev", s>>] = dev'[s] /\ d[<<"stage", s>>] = stage'[s]
      /\ \A x \in HostPlaces : d[x] = memory'[x[2]][x[3]]
      /\ d[<<"result">>] = [log |-> log', ver |-> w, ok |-> TRUE]
  BY <1>1, DataPlacesNext
<1>4. e = [x \in Places |-> e[x]]
  BY <1>1 DEF Effect
<1>5. /\ \A x \in Places : x \notin Writes(op) => e[x] = a[x]
      /\ \A x \in Places : x \in Writes(op) => e[x] = Result(op, a, x)
  BY <1>1, EffectFrame
<1>6. /\ \A s \in Slots : <<"dev", s>> \in Places /\ <<"stage", s>> \in Places
      /\ HostPlaces \subseteq Places /\ <<"result">> \in Places
  BY PlaceKinds DEF Places
<1>7. /\ dev \in [Slots -> Contents] /\ stage \in [Slots -> Contents] /\ DOMAIN memory = Oids
      /\ \A o \in Oids : memory[o] \in [0 .. objects[o].size - 1 -> Int]
  BY DEF DataTypes
<1>8. \A s \in Slots : d[<<"dev", s>>] = e[<<"dev", s>>]
  <2>1. SUFFICES ASSUME NEW s \in Slots
                 PROVE  dev'[s] = e[<<"dev", s>>]
    BY <1>3
  <2>2. CASE op.kind = "write"
    <3>1. op.slot \in Slots /\ dev' = [dev EXCEPT ![op.slot] = stage[op.slot]]
      BY <2>2, DataWorkKinds DEF Execute
    <3>2. Result(op, a, <<"dev", s>>) = stage[op.slot]
      BY <1>2, <2>2, <3>1 DEF Result
    <3>3. <<"dev", s>> \in Writes(op) <=> op.slot = s
      BY <2>2, WritesWhere
    <3>4. QED
      BY <1>2, <1>5, <1>6, <1>7, <3>1, <3>2, <3>3
  <2>3. CASE op.kind = "kernel"
    <3>1. dev' = AfterKernel(op.args)
      BY <2>3 DEF Execute
    <3>2. dev'[s] = ContentsAfter(s, op.args)
      BY <3>1 DEF AfterKernel
    <3>3. <<"dev", s>> \in Writes(op) <=> WrittenBuffers(s, op.args) # {}
      BY <2>3, WritesWhere
    <3>4. CASE WrittenBuffers(s, op.args) = {}
      BY <1>2, <1>5, <1>6, <3>2, <3>3, <3>4 DEF ContentsAfter
    <3>5. CASE WrittenBuffers(s, op.args) # {}
      <4>1. e[<<"dev", s>>] = KernelContents(op.args, a, s)
        BY <1>5, <1>6, <2>3, <3>3, <3>5 DEF Result
      <4>2. PICK b : b = SomeOf(WrittenBuffers(s, op.args))
        OBVIOUS
      <4>3. b \in Range(op.args)
        BY <3>5, <4>2, SomeIsIn DEF WrittenBuffers
      <4>4. b \in Buffer
        BY <2>3, <4>3, DataWorkKinds DEF Range
      <4>5. ReceivedIn(a, b) = Received(b)
        BY <1>2, <4>4 DEF ReceivedIn, Received, Buffer
      <4>6. e[<<"dev", s>>] =
              Copy(b.block, IF objects[b.block.oid].mode = "Transient" THEN 0
                            ELSE ReceivedIn(a, b).ver + 1)
        BY <4>1, <4>2 DEF KernelContents
      <4>7. ContentsAfter(s, op.args) =
              Copy(b.block, IF objects[b.block.oid].mode = "Transient" THEN 0
                            ELSE Received(b).ver + 1)
        BY <3>5, <4>2 DEF ContentsAfter, SomeOf
      <4>8. QED
        BY <3>2, <4>5, <4>6, <4>7
    <3>6. QED
      BY <3>4, <3>5
  <2>4. CASE op.kind \in {"read", "load", "back", "barrier"}
    <3>1. dev' = dev
      BY <2>4 DEF Execute, dataVars
    <3>2. <<"dev", s>> \notin Writes(op)
      BY <2>4, WritesWhere
    <3>3. QED
      BY <1>2, <1>5, <1>6, <3>1, <3>2
  <2>5. QED
    BY <2>2, <2>3, <2>4, DataWorkKinds
<1>9. \A s \in Slots : d[<<"stage", s>>] = e[<<"stage", s>>]
  <2>1. SUFFICES ASSUME NEW s \in Slots
                 PROVE  stage'[s] = e[<<"stage", s>>]
    BY <1>3
  <2>2. CASE op.kind = "read"
    <3>1. op.slot \in Slots /\ stage' = [stage EXCEPT ![op.slot] = dev[op.slot]]
      BY <2>2, DataWorkKinds DEF Execute
    <3>2. Result(op, a, <<"stage", s>>) = dev[op.slot]
      BY <1>2, <2>2, <3>1 DEF Result
    <3>3. <<"stage", s>> \in Writes(op) <=> op.slot = s
      BY <2>2, WritesWhere
    <3>4. QED
      BY <1>2, <1>5, <1>6, <1>7, <3>1, <3>2, <3>3
  <2>3. CASE op.kind = "load"
    <3>1. /\ op.slot \in Slots /\ op.block \in Block /\ InObject(op.block)
          /\ stage' = [stage EXCEPT ![op.slot] =
                         Copy(op.block, memory[op.block.oid][op.block.bid])]
      BY <2>3, DataWorkKinds DEF Execute
    <3>2. <<"host", op.block.oid, op.block.bid>> \in HostPlaces
      BY <3>1, PlaceKinds
    <3>3. Result(op, a, <<"stage", s>>) =
            Copy(op.block, memory[op.block.oid][op.block.bid])
      BY <1>2, <2>3, <3>2 DEF Result
    <3>4. <<"stage", s>> \in Writes(op) <=> op.slot = s
      BY <2>3, WritesWhere
    <3>5. QED
      BY <1>2, <1>5, <1>6, <1>7, <3>1, <3>3, <3>4
  <2>4. CASE op.kind \in {"write", "kernel", "back", "barrier"}
    <3>1. stage' = stage
      BY <2>4 DEF Execute, dataVars
    <3>2. <<"stage", s>> \notin Writes(op)
      BY <2>4, WritesWhere
    <3>3. QED
      BY <1>2, <1>5, <1>6, <3>1, <3>2
  <2>5. QED
    BY <2>2, <2>3, <2>4, DataWorkKinds
<1>10. \A x \in HostPlaces : d[x] = e[x]
  <2>1. SUFFICES ASSUME NEW x \in HostPlaces
                 PROVE  memory'[x[2]][x[3]] = e[x]
    BY <1>3
  <2>2. x[2] \in Oids /\ x[3] \in 0 .. objects[x[2]].size - 1
    BY DEF HostPlaces
  <2>3. CASE op.kind = "back"
    <3>1. /\ op.slot \in Slots /\ op.block \in Block /\ InObject(op.block)
          /\ memory' = [memory EXCEPT ![op.block.oid][op.block.bid] =
                          VersionIn(stage[op.slot], op.block)]
      BY <2>3, DataWorkKinds DEF Execute
    <3>2. Result(op, a, x) = VersionIn(stage[op.slot], op.block)
      BY <1>2, <2>3, <3>1 DEF Result
    <3>3. x \in Writes(op) <=> x[2] = op.block.oid /\ x[3] = op.block.bid
      BY <2>3, WritesWhere
    <3>4. PICK o, off : o = op.block.oid /\ off = op.block.bid
      OBVIOUS
    <3>5. o \in DOMAIN memory /\ x[2] \in DOMAIN memory
      BY <1>7, <2>2, <3>1, <3>4 DEF InObject, Oids
    <3>6. off \in DOMAIN memory[o] /\ x[3] \in DOMAIN memory[x[2]]
      BY <1>7, <2>2, <3>1, <3>4, <3>5 DEF InObject
    <3>7. memory'[x[2]][x[3]] = IF x[2] = o /\ x[3] = off
                                THEN VersionIn(stage[op.slot], op.block)
                                ELSE memory[x[2]][x[3]]
      BY <3>1, <3>4, <3>5, <3>6
    <3>8. QED
      BY <1>2, <1>5, <1>6, <3>2, <3>3, <3>4, <3>7
  <2>4. CASE op.kind \in {"read", "write", "kernel", "load", "barrier"}
    <3>1. memory' = memory
      BY <2>4 DEF Execute, dataVars
    <3>2. x \notin Writes(op)
      BY <2>4, WritesWhere
    <3>3. QED
      BY <1>2, <1>5, <1>6, <3>1, <3>2
  <2>5. QED
    BY <2>3, <2>4, DataWorkKinds
<1>11. d[<<"result">>] = e[<<"result">>]
  <2>1. CASE op.kind = "kernel"
    <3>1. /\ e[<<"result">>] = KernelResult(op.args, a)
          /\ KernelResult(op.args, a).log =
               Append(log, [j \in DOMAIN op.args |-> ReceivedIn(a, op.args[j])])
      BY <1>1, <1>2, <2>1, ResultsOfKernel
    <3>2. /\ log' = Append(log, [j \in DOMAIN op.args |-> Received(op.args[j])])
      BY <2>1 DEF Execute
    <3>3. \A j \in DOMAIN op.args : ReceivedIn(a, op.args[j]) = Received(op.args[j])
      <4>1. \A j \in DOMAIN op.args : op.args[j] \in Buffer
        BY <2>1, DataWorkKinds
      <4>2. \A j \in DOMAIN op.args : op.args[j].slot \in Slots
        BY <4>1 DEF Buffer
      <4>3. QED
        BY <1>2, <4>2 DEF ReceivedIn, Received
    <3>4. log' = e[<<"result">>].log
      BY <3>1, <3>2, <3>3
    <3>5. e[<<"result">>].ok = TRUE
      <4>1. e[<<"result">>].ok \in BOOLEAN
        BY <3>1 DEF KernelResult
      <4>2. QED
        BY <1>1, <4>1, Zenon
    <3>6. e[<<"result">>] = [log |-> e[<<"result">>].log, ver |-> e[<<"result">>].ver,
                             ok |-> e[<<"result">>].ok]
      BY <3>1 DEF KernelResult
    <3>7. QED
      BY <1>1, <1>3, <3>4, <3>5, <3>6, Zenon
  <2>2. CASE op.kind # "kernel"
    <3>1. e[<<"result">>] = a[<<"result">>]
      BY <1>1, <2>2, ResultsStay
    <3>2. log' = log
      BY <2>2, DataWorkKinds DEF Execute, dataVars
    <3>3. w = v
      BY <1>1, <1>2, <3>1
    <3>4. QED
      BY <1>2, <1>3, <3>1, <3>2, <3>3, Zenon
  <2>3. QED
    BY <2>1, <2>2
<1>12. d = e
  <2>1. IsMemory(d) /\ IsMemory(e)
    BY <1>3, <1>4 DEF IsMemory
  <2>2. \A s \in Slots : d[<<"dev", s>>] = e[<<"dev", s>>]
                         /\ d[<<"stage", s>>] = e[<<"stage", s>>]
    BY <1>8, <1>9
  <2>3. QED
    BY <1>10, <1>11, <2>1, <2>2, SameContents
<1>13. QED
  BY <1>1, <1>12

\* Memory, after the work that is left in the order of its events, is S; and
\* all kernels find the latest versions.
Pending(v, S) ==
  /\ Numbered(AllWork, next_event) /\ Runs(AllWork, next_event, Data(v), S)
  /\ S[<<"result">>].ok

\* What is so before a step is so after it.
LEMMA PendingNext ==
  ASSUME objects' = objects, NEW v, NEW S, NEW ops, NEW n, NEW d,
         Numbered(ops, n), Runs(ops, n, d, S), S[<<"result">>].ok,
         AllWork' = ops, next_event' = n, Data(v)' = d
  PROVE  Pending(v, S)'
<1>1. Numbered(ops, n)' /\ Runs(ops, n, d, S)'
  BY RunsStay
<1>2. QED
  BY <1>1 DEF Pending

\* The work that is left when a worker has done its first.
LEMMA WorkerLeaves ==
  ASSUME WorkTypes, EventsDistinct, NEW w \in Workers, WorkerStep(w)
  PROVE  /\ Backlog(w)[1] \in AllWork
         /\ AllWork' = AllWork \ {Backlog(w)[1]}
<1>1. 1 \in 1 .. Len(Backlog(w)) /\ Backlog(w)[1] \in AllWork
  BY FirstIsReady DEF AllWork
<1>2. PICK op, ops : op = Backlog(w)[1] /\ ops = AllWork
  OBVIOUS
<1>3. ASSUME NEW x \in AllWork'
      PROVE  x \in ops /\ x # op
  <2>1. PICK v \in Workers : \E k \in 1 .. Len(Backlog(v)') : x = Backlog(v)'[k]
    BY DEF AllWork
  <2>2. PICK k \in 1 .. Len(Backlog(v)') : x = Backlog(v)'[k]
    BY <2>1
  <2>3. /\ \E j \in 1 .. Len(Backlog(v)) : x = Backlog(v)[j]
        /\ x.ev # op.ev
    BY <1>2, <2>2, DoneIsGone
  <2>4. QED
    BY <1>2, <2>3 DEF AllWork
<1>4. ASSUME NEW x \in ops, x # op
      PROVE  x \in AllWork'
  <2>1. PICK v \in Workers : \E k \in 1 .. Len(Backlog(v)) : x = Backlog(v)[k]
    BY <1>2 DEF AllWork
  <2>2. PICK k \in 1 .. Len(Backlog(v)) : x = Backlog(v)[k]
    BY <2>1
  <2>3. v # w \/ k # 1
    BY <1>2, <1>4, <2>2
  <2>4. \E j \in 1 .. Len(Backlog(v)') : Backlog(v)'[j] = x
    BY <2>2, <2>3, BacklogRemains
  <2>5. QED
    BY <2>4 DEF AllWork
<1>5. QED
  BY <1>1, <1>2, <1>3, <1>4

\* The device or an I/O thread does a piece of work: memory comes one step
\* closer to what the client's thread has arranged.
LEMMA WorkerPending ==
  ASSUME GInv, RInv, BacklogsOrdered, NEW size \in Sizes, RaceInv(size, {}),
         NEW v, NEW S, Pending(v, S), NEW w \in Workers, WorkerStep(w),
         NEW op, op = Backlog(w)[1], NEW e, e = Effect(op, Data(v)),
         NEW u, u = e[<<"result">>].ver
  PROVE  /\ op \in AllWork /\ op \in DataWork
         /\ e[<<"result">>].ok
         /\ Data(u)' = e
         /\ Pending(u, S)'
<1>1. PICK n, ops : n = next_event /\ ops = AllWork
  OBVIOUS
<1>2. /\ op \in ops /\ AllWork' = ops \ {op} /\ objects' = objects /\ next_event' = n
      /\ WorkTypes /\ EventsDistinct /\ DataTypes
  BY <1>1, WorkerLeaves DEF GInv, WorkerStep, cacheVars
<1>3. Numbered(ops, n) /\ Runs(ops, n, Data(v), S) /\ S[<<"result">>].ok
  BY <1>1 DEF Pending
<1>4. op \in DataWork
  BY <1>2, <1>3 DEF Numbered
<1>5. Backlog(w) # <<>> /\ 1 \in 1 .. Len(Backlog(w)) /\ Ready(op) /\ Execute(op)
  <2>1. Backlog(w) \in Seq(MovedWork) /\ Backlog(w) # <<>>
    BY <1>2, BacklogTypes DEF WorkerStep
  <2>2. Head(Backlog(w)) = op
    BY <1>1, <2>1
  <2>3. QED
    BY <1>1, <1>2, <2>1, <2>2, FirstIsReady DEF WorkerStep
<1>6. ASSUME NEW x \in ops, x.ev < op.ev
      PROVE  ~Conflict(op, x)
  <2>1. PICK y \in Workers : \E k \in 1 .. Len(Backlog(y)) : x = Backlog(y)[k]
    BY <1>1 DEF AllWork
  <2>2. QED
    BY <1>1, <1>5, <1>6, <2>1, NoEarlierConflict
<1>7. Runs(ops \ {op}, n, e, S) /\ Numbered(ops \ {op}, n)
  BY <1>1, <1>2, <1>3, <1>6, RunsStep
<1>8. e[<<"result">>].ok
  BY <1>3, <1>7, RunsOk
<1>9. Data(u)' = e
  BY <1>1, <1>2, <1>4, <1>5, <1>8, ExecuteEffect
<1>10. Pending(u, S)'
  BY <1>2, <1>3, <1>7, <1>9, PendingNext
<1>11. op \in AllWork
  BY <1>1, <1>2
<1>12. QED
  BY <1>4, <1>8, <1>9, <1>10, <1>11, Zenon

-----------------------------------------------------------------------------
(***************************************************************************)
(* Blocks and indices                                                      *)
(***************************************************************************)
\* Block i of an object that is cut into blocks of one size.
CutBlock(size, o, i) ==
  LET off == i * size[o]
  IN  [oid |-> o, bid |-> off,
       len |-> IF off + size[o] < objects[o].size THEN size[o] ELSE objects[o].size - off]

\* The buffers of this index hold its blocks.
ActivatingCut(size) ==
  \A m \in 1 .. Len(run.activating) :
     run.activating[m].block = CutBlock(size, run.activating[m].block.oid, run.index)

\* run has been through all blocks when it waits for its queues.
IndexAtEnd ==
  pc \in {"drain", "finish"} =>
    run_queue # <<>> /\ run.index = NumBlocks(run_queue[1], 1)

\* The j-th block that function k is given for index i.
LEMMA CutBlockAt ==
  ASSUME NEW size, CutAlike(size), NEW k \in 1 .. Len(run_queue),
         NEW j \in 1 .. Len(run_queue[k].objs), NEW i
  PROVE  BlockAt(run_queue[k], j, i) = CutBlock(size, run_queue[k].objs[j], i)
<1>1. run_queue[k].steps[j] = size[run_queue[k].objs[j]]
  BY DEF CutAlike, Cuts
<1>2. QED
  BY <1>1 DEF BlockAt, CutBlock

\* Where run goes on with the kernels it begins with the first function.
LEMMA ObjectDoneRuns ==
  ASSUME HInv, pc = "activate", NEW fst, NEW act, NEW bufs, ObjectDone(fst, act, bufs)
  PROVE  /\ pc' = "run" => run'.fun = 1
         /\ pc' \in {"activate", "run"}
         /\ run'.index = run.index /\ run'.activating = bufs /\ run_queue' = run_queue
<1>1. run \in RunState
  BY DEF HInv, HostTypes
<1>2. CASE run.arg # Len(ThisFun.objs)
  <2>1. pc' = "activate"
    BY <1>2 DEF ObjectDone
  <2>2. QED
    BY <2>1, ObjectDoneMoves
<1>3. CASE run.arg = Len(ThisFun.objs)
  <2> DEFINE lastFun == run.fun = Len(run_queue)
             waits == IF act = NoEvent THEN run.wait_list ELSE {act}
  <2>1. /\ run' = [run EXCEPT !.arg = 1, !.fst_event = NoEvent,
                      !.activate_event = act, !.activating = bufs,
                      !.fun = IF lastFun THEN 1 ELSE run.fun + 1,
                      !.wait_list = IF lastFun THEN KernelWaits(waits) ELSE waits]
        /\ pc' = IF lastFun THEN "run" ELSE "activate"
    BY <1>3 DEF ObjectDone
  <2>2. run'.fun = IF lastFun THEN 1 ELSE run.fun + 1
    BY <1>1, <2>1 DEF RunState
  <2>3. QED
    BY <2>1, <2>2, ObjectDoneMoves
<1>4. QED
  BY <1>2, <1>3

\* What is cut into blocks once is so ever after.
LEMMA CutBlockStays ==
  ASSUME objects' = objects, NEW size, NEW o, NEW i
  PROVE  CutBlock(size, o, i)' = CutBlock(size, o, i)
BY DEF CutBlock

\* get has returned a buffer of this index.
LEMMA GotBufferCut ==
  ASSUME HInv, pc = "activate", NEW size, CutAlike(size), ActivatingCut(size),
         objects' = objects, NEW s, NEW ev, GotBuffer(s, ev)
  PROVE  ActivatingCut(size)'
<1>1. PICK b, bufs, i : /\ b = [slot |-> s, block |-> ThisBlock] /\ i = run.index
                        /\ bufs = Append(run.activating, b)
  OBVIOUS
<1>2. PICK fst, act : ObjectDone(fst, act, bufs)
  BY <1>1 DEF GotBuffer
<1>3. run'.index = i /\ run'.activating = bufs
  BY <1>1, <1>2, ObjectDoneRuns
<1>4. run.activating \in BufferList
  BY RunFields
<1>5. /\ Len(bufs) = Len(run.activating) + 1 /\ bufs[Len(bufs)] = b
      /\ \A m \in 1 .. Len(run.activating) : bufs[m] = run.activating[m]
      /\ Len(run.activating) \in Nat
  BY <1>1, <1>4 DEF BufferList
<1>6. b.block = CutBlock(size, b.block.oid, i)
  <2>1. b.block = ThisBlock
    BY <1>1
  <2>2. run.fun \in 1 .. Len(run_queue) /\ run.arg \in 1 .. Len(ThisFun.objs)
    BY DEF HInv, Position
  <2>3. ThisBlock = CutBlock(size, ThisFun.objs[run.arg], i)
    BY <1>1, <2>2, CutBlockAt DEF ThisBlock, ThisFun
  <2>4. ThisBlock.oid = ThisFun.objs[run.arg]
    BY ThisBlockType
  <2>5. QED
    BY <2>1, <2>3, <2>4
<1>7. ASSUME NEW m \in 1 .. Len(bufs)
      PROVE  bufs[m].block = CutBlock(size, bufs[m].block.oid, i)
  BY <1>1, <1>5, <1>6, <1>7 DEF ActivatingCut
<1>8. ASSUME NEW m \in 1 .. Len(bufs)
      PROVE  bufs[m].block = CutBlock(size, bufs[m].block.oid, i)'
  BY <1>7, CutBlockStays
<1>9. QED
  BY <1>3, <1>8 DEF ActivatingCut, CutBlock

\* The buffers of the index stay as they are.
LEMMA SameCut ==
  ASSUME NEW size, ActivatingCut(size), objects' = objects,
         run'.activating = run.activating, run'.index = run.index
  PROVE  ActivatingCut(size)'
<1>1. PICK bufs, i : bufs = run.activating /\ i = run.index
  OBVIOUS
<1>2. ASSUME NEW m \in 1 .. Len(bufs)
      PROVE  bufs[m].block = CutBlock(size, bufs[m].block.oid, i)
  BY <1>1, <1>2 DEF ActivatingCut
<1>3. ASSUME NEW m \in 1 .. Len(bufs)
      PROVE  bufs[m].block = CutBlock(size, bufs[m].block.oid, i)'
  BY <1>2, CutBlockStays
<1>4. QED
  BY <1>1, <1>3, ZenonT(30) DEF ActivatingCut, CutBlock

\* Without buffers there is nothing to say.
LEMMA NoCut ==
  ASSUME NEW size, run'.activating = <<>>
  PROVE  ActivatingCut(size)'
BY DEF ActivatingCut

\* What is activated for an index are its blocks.
LEMMA CutStep ==
  ASSUME RInv, NEW size, CutAlike(size), ActivatingCut(size), [SchedulerNext]_vars,
         run_ret' = 1
  PROVE  ActivatingCut(size)'
<1>1. objects' = objects
  BY CacheSteps
<1>2. HInv /\ run \in RunState
  BY DEF RInv, HInv, HostTypes
<1>3. CASE \/ StartBatch \/ RegisterOk \/ RegisterFails \/ ActivateFails \/ Finish
           \/ ClientRead \/ ClientEnds
  <2>1. run'.activating = <<>>
    BY <1>2, <1>3, OutsideRun
  <2>2. QED
    BY <2>1, NoCut
<1>4. CASE ActivateAgain
  <2>1. PICK fst, act, bufs : ObjectDone(fst, act, bufs) /\ bufs = run.activating
    BY <1>4 DEF ActivateAgain
  <2>2. run'.activating = run.activating /\ run'.index = run.index
    BY <1>2, <1>4, <2>1, ObjectDoneRuns DEF ActivateAgain
  <2>3. QED
    BY <1>1, <2>2, SameCut
<1>5. CASE ActivateHit \/ ActivateMiss
  <2>1. \E s, ev : GotBuffer(s, ev)
    BY <1>5 DEF ActivateHit, ActivateMiss, Transfer
  <2>2. pc = "activate"
    BY <1>5 DEF ActivateHit, ActivateMiss
  <2>3. QED
    BY <1>1, <1>2, <2>1, <2>2, GotBufferCut
<1>6. CASE RunFunction
  <2>1. CASE run.fun # Len(run_queue)
    <3>1. run' = [run EXCEPT !.fun = @ + 1, !.wait_list = {next_event}]
      BY <1>6, <2>1 DEF RunFunction
    <3>2. run'.activating = run.activating /\ run'.index = run.index
      BY <1>2, <3>1 DEF RunState
    <3>3. QED
      BY <1>1, <3>2, SameCut
  <2>2. CASE run.fun = Len(run_queue)
    <3>1. run'.activating = <<>>
      BY <1>6, <2>2 DEF RunFunction, NotRunning
    <3>2. QED
      BY <3>1, NoCut
  <2>3. QED
    BY <2>1, <2>2
<1>7. CASE Deactivate
  <2>1. run'.activating = run.activating /\ run'.index = run.index
    BY <1>2, <1>7, UnlockSucceeds DEF Deactivate, RunState
  <2>2. QED
    BY <1>1, <2>1, SameCut
<1>8. CASE (\E q \in Queues : DeviceStep(q) \/ IOThreadStep(q)) \/ Done \/ UNCHANGED vars
  <2>1. run' = run
    BY <1>8 DEF DeviceStep, IOThreadStep, Done, vars, hostVars
  <2>2. QED
    BY <1>1, <2>1, SameCut
<1>9. QED
  BY <1>3, <1>4, <1>5, <1>6, <1>7, <1>8 DEF SchedulerNext, HostStep

\* run waits for its queues when it has been through all blocks.
LEMMA IndexAtEndStep ==
  ASSUME RInv, IndexAtEnd, [SchedulerNext]_vars, run_ret' = 1
  PROVE  IndexAtEnd'
<1>1. objects' = objects
  BY CacheSteps
<1>2. HInv /\ run \in RunState
  BY DEF RInv, HInv, HostTypes
<1>3. ASSUME run_queue' = run_queue
      PROVE  NumBlocks(run_queue[1], 1)' = NumBlocks(run_queue[1], 1)
  BY <1>1, <1>3 DEF NumBlocks
<1>4. CASE \/ StartBatch \/ RegisterOk \/ RegisterFails \/ ActivateFails \/ Finish
           \/ ClientRead \/ ClientEnds
  <2>1. pc' \in {"idle", "register", "activate", "end"}
    BY <1>2, <1>4, OutsideRun
  <2>2. QED
    BY <2>1 DEF IndexAtEnd
<1>5. CASE ActivateAgain \/ ActivateHit \/ ActivateMiss
  <2>1. pc' \in {"activate", "run"}
    <3>1. PICK fst, act, bufs : ObjectDone(fst, act, bufs)
      BY <1>5 DEF ActivateAgain, ActivateHit, ActivateMiss, Transfer, GotBuffer
    <3>2. QED
      BY <1>2, <1>5, <3>1, ObjectDoneRuns DEF ActivateAgain, ActivateHit, ActivateMiss
  <2>2. QED
    BY <2>1 DEF IndexAtEnd
<1>6. CASE RunFunction
  <2>1. pc = "run" /\ run_queue' = run_queue
    BY <1>6 DEF RunFunction
  <2>2. CASE run.fun # Len(run_queue)
    <3>1. pc' = pc
      BY <1>6, <2>2 DEF RunFunction
    <3>2. QED
      BY <2>1, <3>1 DEF IndexAtEnd
  <2>3. CASE run.fun = Len(run_queue)
    <3>1. run'.index = run.index + 1
      BY <1>6, <2>3 DEF RunFunction, NotRunning
    <3>2. run.index + 1 # NumBlocks(run_queue[1], 1) =>
            pc' \in {"activate", "deactivate"}
      <4>1. Len(Append(run.active, run.activating)) \in Nat
        BY <1>2, RunFields DEF BufferLists, BufferList, HInv, Position
      <4>2. QED
        BY <1>6, <2>3, <4>1 DEF RunFunction, NumQueues
    <3>3. run_queue # <<>>
      BY <1>2, <2>1 DEF HInv, HostTypes, Position
    <3>4. QED
      BY <1>3, <2>1, <3>1, <3>2, <3>3 DEF IndexAtEnd
  <2>4. QED
    BY <2>2, <2>3
<1>7. CASE Deactivate
  <2>1. run'.index = run.index /\ run_queue' = run_queue
    BY <1>2, <1>7, UnlockSucceeds DEF Deactivate, RunState
  <2>2. pc' \in {"drain", "finish"} => pc = "drain"
    BY <1>7, UnlockSucceeds DEF Deactivate
  <2>3. QED
    BY <1>3, <2>1, <2>2 DEF IndexAtEnd
<1>8. CASE (\E q \in Queues : DeviceStep(q) \/ IOThreadStep(q)) \/ Done \/ UNCHANGED vars
  <2>1. UNCHANGED <<pc, run, run_queue>>
    BY <1>8 DEF DeviceStep, IOThreadStep, Done, vars, hostVars
  <2>2. QED
    BY <1>3, <2>1 DEF IndexAtEnd
<1>9. QED
  BY <1>4, <1>5, <1>6, <1>7, <1>8 DEF SchedulerNext, HostStep

-----------------------------------------------------------------------------
(***************************************************************************)
(* What the transfers of get and read do                                   *)
(***************************************************************************)
\* One more operation, and events that nothing has.
LEMMA RunsMore ==
  ASSUME NEW ops, NEW n, Numbered(ops, n), NEW d, NEW e, Runs(ops, n, d, e),
         NEW op \in DataWork, op.ev \in Nat, op.ev >= n, NEW k \in Nat, k > op.ev
  PROVE  Runs(ops \cup {op}, k, d, Effect(op, e)) /\ Numbered(ops \cup {op}, k)
<1>1. Runs(ops \cup {op}, op.ev + 1, d, Effect(op, e)) /\ Numbered(ops \cup {op}, op.ev + 1)
  BY RunsAppend
<1>2. k >= op.ev + 1
  OBVIOUS
<1>3. QED
  BY <1>1, <1>2, RunsLater

\* A transfer of a block of an object is an operation on memory.
LEMMA TransferIsWork ==
  ASSUME NEW kind \in {"read", "write", "load", "back", "barrier"}, NEW s \in Slots,
         NEW block \in Block, InObject(block), NEW waits \in SUBSET Nat, NEW ev \in Nat,
         kind = "back" => objects[block.oid].mode = "ReadWrite",
         NEW op, op = Op(kind, s, block, waits, ev)
  PROVE  /\ op \in DataWork /\ op.ev = ev
         /\ op.kind = kind /\ op.slot = s /\ op.block = block
<1>1. op \in MovedWork /\ op.ev = ev
  BY OpMoved
<1>2. op.kind = kind /\ op.slot = s /\ op.block = block
  BY OpFields
<1>3. QED
  BY <1>1, <1>2 DEF DataWork

\* Memory with the block of slot s in its place on the host.
Returned(d, s, block, e) ==
  /\ \A t \in Slots : e[<<"dev", t>>] = d[<<"dev", t>>]
  /\ e[<<"result">>] = d[<<"result">>]
  /\ e[<<"host", block.oid, block.bid>>] = VersionIn(d[<<"dev", s>>], block)
  /\ \A x \in HostPlaces : x # <<"host", block.oid, block.bid>> => e[x] = d[x]

\* Memory with a block of the host in slot s.
Loaded(d, s, block, e) ==
  /\ \A t \in Slots : t # s => e[<<"dev", t>>] = d[<<"dev", t>>]
  /\ e[<<"result">>] = d[<<"result">>]
  /\ e[<<"dev", s>>] = Copy(block, d[<<"host", block.oid, block.bid>>])
  /\ \A x \in HostPlaces : e[x] = d[x]

\* What a transfer leaves as it was, on the device and on the host.
LEMMA TransferFrame ==
  ASSUME NEW op \in DataWork, NEW d, NEW e, e = Effect(op, d), op.kind # "kernel"
  PROVE  /\ e[<<"result">>] = d[<<"result">>]
         /\ \A t \in Slots : op.kind # "write" \/ op.slot # t =>
              e[<<"dev", t>>] = d[<<"dev", t>>]
         /\ \A t \in Slots : op.kind \notin {"read", "load"} \/ op.slot # t =>
              e[<<"stage", t>>] = d[<<"stage", t>>]
         /\ \A x \in HostPlaces :
              op.kind # "back" \/ x # <<"host", op.block.oid, op.block.bid>> => e[x] = d[x]
<1>1. \A x \in Places : x \notin Writes(op) => e[x] = d[x]
  BY EffectFrame
<1>2. \A t \in Slots : <<"dev", t>> \in Places /\ <<"stage", t>> \in Places
  BY PlaceKinds
<1>3. <<"result">> \in Places /\ HostPlaces \subseteq Places
  BY PlaceKinds DEF Places
<1>4. ASSUME NEW x \in HostPlaces, x[2] = op.block.oid, x[3] = op.block.bid
      PROVE  x = <<"host", op.block.oid, op.block.bid>>
  BY <1>4 DEF HostPlaces
<1>5. QED
  BY <1>1, <1>2, <1>3, <1>4, WritesWhere

\* read: the block is back on the host.
LEMMA ReadEffect ==
  ASSUME NEW s \in Slots, NEW block \in Block, InObject(block), NEW d,
         NEW a \in DataWork, a.kind = "read", a.slot = s,
         NEW b \in DataWork, b.kind = "back", b.slot = s, b.block = block,
         NEW c \in DataWork, c.kind = "barrier"
  PROVE  Returned(d, s, block, Effect(c, Effect(b, Effect(a, d))))
<1>1. PICK e, f, g : e = Effect(a, d) /\ f = Effect(b, e) /\ g = Effect(c, f)
  OBVIOUS
<1>2. e[<<"stage", s>>] = d[<<"dev", s>>]
  <2>1. <<"stage", s>> \in Places /\ <<"stage", s>> \in Writes(a)
    BY PlaceKinds, WritesWhere
  <2>2. e[<<"stage", s>>] = Result(a, d, <<"stage", s>>)
    BY <1>1, <2>1, EffectFrame
  <2>3. QED
    BY <2>2 DEF Result
<1>3. f[<<"host", block.oid, block.bid>>] = VersionIn(e[<<"stage", s>>], block)
  <2>1. PICK x : x = <<"host", block.oid, block.bid>>
    OBVIOUS
  <2>2. x \in HostPlaces /\ x \in Places
    BY <2>1, PlaceKinds
  <2>3. x[2] = block.oid /\ x[3] = block.bid
    BY <2>1
  <2>4. x \in Writes(b)
    BY <2>2, <2>3, WritesWhere
  <2>5. f[x] = Result(b, e, x)
    BY <1>1, <2>2, <2>4, EffectFrame
  <2>6. QED
    BY <2>1, <2>5 DEF Result
<1>4. <<"host", block.oid, block.bid>> \in HostPlaces
  BY PlaceKinds
<1>5. /\ e[<<"result">>] = d[<<"result">>]
      /\ \A t \in Slots : e[<<"dev", t>>] = d[<<"dev", t>>]
      /\ \A x \in HostPlaces : e[x] = d[x]
  BY <1>1, TransferFrame
<1>6. /\ f[<<"result">>] = e[<<"result">>]
      /\ \A t \in Slots : f[<<"dev", t>>] = e[<<"dev", t>>]
      /\ \A x \in HostPlaces : x # <<"host", block.oid, block.bid>> => f[x] = e[x]
  BY <1>1, TransferFrame
<1>7. /\ g[<<"result">>] = f[<<"result">>]
      /\ \A t \in Slots : g[<<"dev", t>>] = f[<<"dev", t>>]
      /\ \A x \in HostPlaces : g[x] = f[x]
  BY <1>1, TransferFrame
<1>8. Returned(d, s, block, g)
  BY <1>2, <1>3, <1>4, <1>5, <1>6, <1>7 DEF Returned
<1>9. QED
  BY <1>1, <1>8

\* load and write: the block is in the slot.
LEMMA LoadEffect ==
  ASSUME NEW s \in Slots, NEW block \in Block, InObject(block), NEW d,
         NEW a \in DataWork, a.kind = "load", a.slot = s, a.block = block,
         NEW b \in DataWork, b.kind = "write", b.slot = s
  PROVE  Loaded(d, s, block, Effect(b, Effect(a, d)))
<1>1. PICK e, f : e = Effect(a, d) /\ f = Effect(b, e)
  OBVIOUS
<1>2. e[<<"stage", s>>] = Copy(block, d[<<"host", block.oid, block.bid>>])
  <2>1. <<"stage", s>> \in Places /\ <<"stage", s>> \in Writes(a)
    BY PlaceKinds, WritesWhere
  <2>2. e[<<"stage", s>>] = Result(a, d, <<"stage", s>>)
    BY <1>1, <2>1, EffectFrame
  <2>3. QED
    BY <2>2 DEF Result
<1>3. f[<<"dev", s>>] = e[<<"stage", s>>]
  <2>1. <<"dev", s>> \in Places /\ <<"dev", s>> \in Writes(b)
    BY PlaceKinds, WritesWhere
  <2>2. f[<<"dev", s>>] = Result(b, e, <<"dev", s>>)
    BY <1>1, <2>1, EffectFrame
  <2>3. QED
    BY <2>2 DEF Result
<1>4. /\ e[<<"result">>] = d[<<"result">>]
      /\ \A t \in Slots : e[<<"dev", t>>] = d[<<"dev", t>>]
      /\ \A x \in HostPlaces : e[x] = d[x]
  BY <1>1, TransferFrame
<1>5. /\ f[<<"result">>] = e[<<"result">>]
      /\ \A t \in Slots : t # s => f[<<"dev", t>>] = e[<<"dev", t>>]
      /\ \A x \in HostPlaces : f[x] = e[x]
  BY <1>1, TransferFrame
<1>6. Loaded(d, s, block, f)
  BY <1>2, <1>3, <1>4, <1>5 DEF Loaded
<1>7. QED
  BY <1>1, <1>6

-----------------------------------------------------------------------------
(***************************************************************************)
(* Where the latest versions will be                                       *)
(***************************************************************************)
\* A slot holds the latest version of its block, unless it is transient.
CacheHolds(S) ==
  \A s \in Slots : cached[s] # NoBlock /\ objects[cached[s].oid].mode # "Transient" =>
     S[<<"dev", s>>] =
       Copy(cached[s], S[<<"result">>].ver[<<cached[s].oid, cached[s].bid>>])

\* The host has that of a mutable block that is not cached.
HostHolds(S) ==
  \A x \in HostPlaces : objects[x[2]].mode = "ReadWrite" /\ ~InCache(x[2], x[3]) =>
     S[x] = S[<<"result">>].ver[<<x[2], x[3]>>]

\* The slots are as they were.
LEMMA HoldingStays ==
  ASSUME NEW S, CacheHolds(S), HostHolds(S), objects' = objects, cached' = cached
  PROVE  CacheHolds(S)' /\ HostHolds(S)'
<1>1. HostPlaces' = HostPlaces
  BY PlacesStay
<1>2. CacheHolds(S)'
  BY DEF CacheHolds
<1>3. \A o, b : InCache(o, b)' <=> InCache(o, b)
  BY DEF InCache, Holds
<1>4. HostHolds(S)'
  BY <1>1, <1>3 DEF HostHolds
<1>5. QED
  BY <1>2, <1>4

\* The host's version of a block that is not cached is the latest one.
LEMMA HostIsLatest ==
  ASSUME NEW S \in States, S[<<"result">>].ok, HostHolds(S),
         NEW block \in Block, InObject(block), objects[block.oid].mode \in ObjectMode,
         ~InCache(block.oid, block.bid)
  PROVE  S[<<"host", block.oid, block.bid>>]
           = S[<<"result">>].ver[<<block.oid, block.bid>>]
<1>1. PICK x : x = <<"host", block.oid, block.bid>>
  OBVIOUS
<1>2. x \in HostPlaces /\ x[2] = block.oid /\ x[3] = block.bid
  BY <1>1, PlaceKinds
<1>3. CASE objects[block.oid].mode = "ReadWrite"
  BY <1>1, <1>2, <1>3 DEF HostHolds
<1>4. CASE objects[block.oid].mode # "ReadWrite"
  <2>1. Bounded(S)
    BY DEF States
  <2>2. S[x] = 0
    BY <1>2, <1>4, <2>1 DEF Bounded
  <2>3. block.oid \in Oids /\ block.bid \in Nat
    BY DEF InObject, Oids, Block
  <2>4. S[<<"result">>].ver[<<block.oid, block.bid>>] = 0
    BY <1>4, <2>1, <2>3 DEF Bounded
  <2>5. QED
    BY <1>1, <2>2, <2>4
<1>5. QED
  BY <1>3, <1>4

\* get has taken slot s for a block: the one that was there is back on the host
\* if it is mutable, and the new one is loaded if it is not transient.
LEMMA FillData ==
  ASSUME NEW S \in States, S[<<"result">>].ok, CacheHolds(S), HostHolds(S),
         TypeOK, BlocksExist,
         objects' = objects, NEW s \in Slots, NEW block \in Block, InObject(block),
         objects[block.oid].mode \in ObjectMode,
         cached'[s] = block, \A t \in Slots : t # s => cached'[t] = cached[t],
         ~InCache(block.oid, block.bid), NEW M, NEW T,
         WritesBack(s) => Returned(S, s, cached[s], M), ~WritesBack(s) => M = S,
         objects[block.oid].mode # "Transient" => Loaded(M, s, block, T),
         objects[block.oid].mode = "Transient" => T = M
  PROVE  CacheHolds(T)' /\ HostHolds(T)'
<1>1. PICK b, latest : b = cached[s] /\ latest = S[<<"result">>].ver
  OBVIOUS
<1>2. HostPlaces' = HostPlaces
  BY PlacesStay
<1>3. b \in Block /\ cached \in [Slots -> Block]
  BY <1>1 DEF TypeOK
<1>4. /\ M[<<"result">>] = S[<<"result">>] /\ T[<<"result">>] = S[<<"result">>]
      /\ T[<<"result">>].ver = latest
      /\ \A t \in Slots : t # s => T[<<"dev", t>>] = S[<<"dev", t>>]
      /\ \A x \in HostPlaces : T[x] = M[x]
  <2>1. /\ M[<<"result">>] = S[<<"result">>]
        /\ \A t \in Slots : M[<<"dev", t>>] = S[<<"dev", t>>]
    BY DEF Returned
  <2>2. /\ T[<<"result">>] = M[<<"result">>]
        /\ \A t \in Slots : t # s => T[<<"dev", t>>] = M[<<"dev", t>>]
        /\ \A x \in HostPlaces : T[x] = M[x]
    BY DEF Loaded
  <2>3. QED
    BY <1>1, <2>1, <2>2
\* What the eviction does on the host.
<1>5. /\ \A x \in HostPlaces : ~(WritesBack(s) /\ x[2] = b.oid /\ x[3] = b.bid) => M[x] = S[x]
      /\ WritesBack(s) => M[<<"host", b.oid, b.bid>>] = latest[<<b.oid, b.bid>>]
  <2>1. CASE ~WritesBack(s)
    BY <2>1
  <2>2. CASE WritesBack(s)
    <3>1. Returned(S, s, b, M)
      BY <1>1, <2>2
    <3>2. \A x \in HostPlaces : ~(x[2] = b.oid /\ x[3] = b.bid) => M[x] = S[x]
      BY <3>1 DEF Returned
    <3>3. S[<<"dev", s>>] = Copy(b, latest[<<b.oid, b.bid>>])
      BY <1>1, <2>2 DEF CacheHolds, WritesBack, Immutable
    <3>4. VersionIn(S[<<"dev", s>>], b) = latest[<<b.oid, b.bid>>]
      BY <3>3 DEF VersionIn, Copy
    <3>5. M[<<"host", b.oid, b.bid>>] = latest[<<b.oid, b.bid>>]
      BY <3>1, <3>4 DEF Returned
    <3>6. QED
      BY <2>2, <3>2, <3>5
  <2>3. QED
    BY <2>1, <2>2
<1>6. ~(block.oid = b.oid /\ block.bid = b.bid)
  BY <1>1 DEF InCache, Holds
<1>7. CacheHolds(T)'
  <2>1. SUFFICES ASSUME NEW t \in Slots, cached'[t] # NoBlock,
                        objects[cached'[t].oid].mode # "Transient"
                 PROVE  T[<<"dev", t>>] =
                          Copy(cached'[t], latest[<<cached'[t].oid, cached'[t].bid>>])
    BY <1>4 DEF CacheHolds
  <2>2. CASE t # s
    BY <1>1, <1>4, <2>1, <2>2 DEF CacheHolds
  <2>3. CASE t = s
    <3>1. T[<<"dev", s>>] = Copy(block, M[<<"host", block.oid, block.bid>>])
      BY <2>1, <2>3 DEF Loaded
    <3>2. PICK x : x = <<"host", block.oid, block.bid>>
      OBVIOUS
    <3>3. x \in HostPlaces /\ x[2] = block.oid /\ x[3] = block.bid
      BY <3>2, PlaceKinds
    <3>4. M[x] = S[x]
      BY <1>5, <1>6, <3>3
    <3>5. S[x] = latest[<<block.oid, block.bid>>]
      BY <1>1, <3>2, HostIsLatest
    <3>6. QED
      BY <2>3, <3>1, <3>2, <3>4, <3>5
  <2>4. QED
    BY <2>2, <2>3
<1>8. HostHolds(T)'
  <2>1. SUFFICES ASSUME NEW x \in HostPlaces, objects[x[2]].mode = "ReadWrite",
                        ~InCache(x[2], x[3])'
                 PROVE  T[x] = latest[<<x[2], x[3]>>]
    BY <1>2, <1>4 DEF HostHolds
  <2>2. \A t \in Slots : ~(cached'[t].oid = x[2] /\ cached'[t].bid = x[3])
    BY <2>1 DEF InCache, Holds
  <2>3. CASE InCache(x[2], x[3])
    <3>1. x[2] = b.oid /\ x[3] = b.bid
      BY <1>1, <2>2, <2>3 DEF InCache, Holds
    <3>2. WritesBack(s)
      <4>1. x[2] # -1
        BY <2>1 DEF HostPlaces
      <4>2. b # NoBlock
        BY <3>1, <4>1 DEF NoBlock
      <4>3. QED
        BY <1>1, <2>1, <3>1, <4>2 DEF WritesBack, Immutable
    <3>3. x = <<"host", b.oid, b.bid>>
      BY <2>1, <3>1 DEF HostPlaces
    <3>4. QED
      BY <1>4, <1>5, <3>1, <3>2, <3>3
  <2>4. CASE ~InCache(x[2], x[3])
    <3>1. S[x] = latest[<<x[2], x[3]>>]
      BY <1>1, <2>1, <2>4 DEF HostHolds
    <3>2. ~(b.oid = x[2] /\ b.bid = x[3])
      BY <1>1, <2>4 DEF InCache, Holds
    <3>3. QED
      BY <1>4, <1>5, <3>1, <3>2
  <2>5. QED
    BY <2>3, <2>4
<1>9. QED
  BY <1>7, <1>8

\* A kernel finds the latest versions in its buffers, and leaves newer ones.
LEMMA KernelData ==
  ASSUME NEW S, S[<<"result">>].ok, CacheHolds(S), HostHolds(S),
         BlocksExist, OneHome, NEW op \in DataWork, op.kind = "kernel",
         \A j \in 1 .. Len(op.args) :
            Holds(op.args[j].slot, op.args[j].block.oid, op.args[j].block.bid),
         NEW T, T = Effect(op, S)
  PROVE  T[<<"result">>].ok /\ CacheHolds(T) /\ HostHolds(T)
<1>1. PICK args, latest, next :
        args = op.args /\ latest = S[<<"result">>].ver /\ next = T[<<"result">>].ver
  OBVIOUS
<1>2. /\ args \in Seq(Buffer)
      /\ \A j \in 1 .. Len(args) :
           /\ args[j] \in Buffer /\ args[j].block.oid \in Oids
           /\ objects[args[j].block.oid].mode \in ObjectMode
           /\ args[j].slot \in Slots /\ args[j].block.oid # -1
           /\ args[j].block.bid \in Nat /\ args[j].block.oid \in Nat
  <2>1. /\ args \in Seq(Buffer)
        /\ \A j \in 1 .. Len(args) :
             /\ args[j] \in Buffer /\ args[j].block.oid \in Oids
             /\ objects[args[j].block.oid].mode \in ObjectMode
    BY <1>1, DataWorkKinds
  <2>2. ASSUME NEW b \in Buffer
        PROVE  b.slot \in Slots /\ b.block.oid \in Nat \ {0} /\ b.block.bid \in Nat
    BY DEF Buffer
  <2>3. QED
    BY <2>1, <2>2
<1>3. ASSUME NEW j \in 1 .. Len(args)
      PROVE  /\ cached[args[j].slot].oid = args[j].block.oid
             /\ cached[args[j].slot].bid = args[j].block.bid
             /\ cached[args[j].slot] # NoBlock
             /\ objects[args[j].block.oid].mode # "Transient" =>
                  S[<<"dev", args[j].slot>>] =
                    Copy(args[j].block, latest[<<args[j].block.oid, args[j].block.bid>>])
  <2>1. /\ cached[args[j].slot].oid = args[j].block.oid
        /\ cached[args[j].slot].bid = args[j].block.bid
    BY <1>1, <1>3 DEF Holds
  <2>2. cached[args[j].slot] # NoBlock
    BY <1>2, <1>3, <2>1 DEF NoBlock
  <2>3. objects[args[j].block.oid].mode # "Transient" =>
          S[<<"dev", args[j].slot>>] =
            Copy(args[j].block, latest[<<args[j].block.oid, args[j].block.bid>>])
    BY <1>1, <1>2, <1>3, <2>1, <2>2 DEF CacheHolds, Copy
  <2>4. QED
    BY <2>1, <2>2, <2>3
<1>4. T[<<"result">>].ok
  <2>1. ASSUME NEW j \in 1 .. Len(args)
        PROVE  Current(S, args[j])
    <3>1. PICK b : b = args[j]
      OBVIOUS
    <3>2. SUFFICES ASSUME objects[b.block.oid].mode # "Transient"
                   PROVE  /\ S[<<"dev", b.slot>>].oid = b.block.oid
                          /\ S[<<"dev", b.slot>>].bid = b.block.bid
                          /\ S[<<"dev", b.slot>>].ver = latest[<<b.block.oid, b.block.bid>>]
      BY <1>1, <3>1 DEF Current
    <3>3. S[<<"dev", b.slot>>] = Copy(b.block, latest[<<b.block.oid, b.block.bid>>])
      BY <1>3, <2>1, <3>1, <3>2
    <3>4. QED
      BY <3>3 DEF Copy
  <2>2. T[<<"result">>] = KernelResult(args, S)
    BY <1>1, ResultsOfKernel
  <2>3. KernelResult(args, S).ok =
          (S[<<"result">>].ok /\ \A j \in 1 .. Len(args) : Current(S, args[j]))
    BY <1>1, ResultsOfKernel
  <2>4. QED
    BY <2>1, <2>2, <2>3, Zenon
<1>5. ASSUME NEW p \in Nat \X Nat
      PROVE  next[p] = IF Updates(args, p) THEN latest[p] + 1 ELSE latest[p]
  <2>1. T[<<"result">>] = KernelResult(args, S)
    BY <1>1, ResultsOfKernel
  <2>2. KernelResult(args, S).ver[p] =
          IF Updates(args, p) THEN S[<<"result">>].ver[p] + 1 ELSE S[<<"result">>].ver[p]
    BY <1>1, <1>5, ResultsOfKernel
  <2>3. QED
    BY <1>1, <2>1, <2>2
<1>6. ASSUME NEW j \in 1 .. Len(args), NEW t \in Slots,
             cached[t].oid = args[j].block.oid, cached[t].bid = args[j].block.bid
      PROVE  args[j].slot = t
  <2>1. args[j].slot \in Slots /\ cached[t].oid # -1
    BY <1>2, <1>6
  <2>2. /\ cached[args[j].slot].oid = cached[t].oid
        /\ cached[args[j].slot].bid = cached[t].bid
    BY <1>3, <1>6
  <2>3. QED
    BY <2>1, <2>2 DEF OneHome
<1>7. CacheHolds(T)
  <2>1. SUFFICES ASSUME NEW t \in Slots, cached[t] # NoBlock,
                        objects[cached[t].oid].mode # "Transient"
                 PROVE  T[<<"dev", t>>] =
                          Copy(cached[t], next[<<cached[t].oid, cached[t].bid>>])
    BY <1>1 DEF CacheHolds
  <2>2. PICK p : p = <<cached[t].oid, cached[t].bid>>
    OBVIOUS
  <2>3. p \in Nat \X Nat
    BY <2>1, <2>2 DEF BlocksExist, InObject
  <2>4. S[<<"dev", t>>] = Copy(cached[t], latest[p])
    BY <1>1, <2>1, <2>2 DEF CacheHolds
  <2>5. <<"dev", t>> \in Places
    BY PlaceKinds
  <2>6. CASE WrittenBuffers(t, args) = {}
    <3>1. <<"dev", t>> \notin Writes(op)
      BY <1>1, <2>6, WritesWhere
    <3>2. T[<<"dev", t>>] = S[<<"dev", t>>]
      BY <2>5, <3>1, EffectFrame
    <3>3. ~Updates(args, p)
      <4>1. SUFFICES ASSUME NEW j \in 1 .. Len(args),
                            objects[args[j].block.oid].mode = "ReadWrite",
                            p = <<args[j].block.oid, args[j].block.bid>>
                     PROVE  FALSE
        BY DEF Updates
      <4>2. args[j].slot = t
        BY <1>6, <2>2, <4>1
      <4>3. args[j] \in Range(args)
        BY <1>2, <4>1 DEF Range
      <4>4. args[j] \in WrittenBuffers(t, args)
        BY <4>1, <4>2, <4>3 DEF WrittenBuffers
      <4>5. QED
        BY <2>6, <4>4
    <3>4. QED
      BY <1>5, <2>2, <2>3, <2>4, <3>2, <3>3
  <2>7. CASE WrittenBuffers(t, args) # {}
    <3>1. PICK b : b = SomeOf(WrittenBuffers(t, args))
      OBVIOUS
    <3>2. b \in WrittenBuffers(t, args)
      BY <2>7, <3>1, SomeIsIn
    <3>3. b \in Range(args) /\ b.slot = t /\ objects[b.block.oid].mode # "ReadOnly"
      BY <3>2 DEF WrittenBuffers
    <3>4. PICK j \in 1 .. Len(args) : b = args[j]
      <4>1. DOMAIN args = 1 .. Len(args)
        BY <1>2
      <4>2. QED
        BY <3>3, <4>1 DEF Range
    <3>5. /\ cached[t].oid = b.block.oid /\ cached[t].bid = b.block.bid
          /\ objects[b.block.oid].mode = "ReadWrite"
      BY <1>2, <1>3, <2>1, <3>3, <3>4 DEF ObjectMode
    <3>6. Updates(args, p)
      BY <2>2, <3>4, <3>5 DEF Updates
    <3>7. T[<<"dev", t>>] = KernelContents(args, S, t)
      <4>1. <<"dev", t>> \in Writes(op)
        BY <1>1, <2>7, WritesWhere
      <4>2. T[<<"dev", t>>] = Result(op, S, <<"dev", t>>)
        BY <2>5, <4>1, EffectFrame
      <4>3. QED
        BY <1>1, <4>2 DEF Result
    <3>8. KernelContents(args, S, t) = Copy(b.block, ReceivedIn(S, b).ver + 1)
      BY <3>1, <3>5 DEF KernelContents
    <3>9. ReceivedIn(S, b).ver = latest[p]
      <4>1. ReceivedIn(S, b).ver = VersionIn(S[<<"dev", t>>], b.block)
        BY <3>3, <3>5 DEF ReceivedIn
      <4>2. QED
        BY <2>4, <3>5, <4>1 DEF VersionIn, Copy
    <3>10. Copy(b.block, latest[p] + 1) = Copy(cached[t], latest[p] + 1)
      BY <3>5 DEF Copy
    <3>11. QED
      BY <1>5, <2>2, <2>3, <3>6, <3>7, <3>8, <3>9, <3>10
  <2>8. QED
    BY <2>6, <2>7
<1>8. HostHolds(T)
  <2>1. SUFFICES ASSUME NEW x \in HostPlaces, objects[x[2]].mode = "ReadWrite",
                        ~InCache(x[2], x[3])
                 PROVE  T[x] = next[<<x[2], x[3]>>]
    BY <1>1 DEF HostHolds
  <2>2. PICK p : p = <<x[2], x[3]>>
    OBVIOUS
  <2>3. p \in Nat \X Nat
    BY <2>2 DEF HostPlaces
  <2>4. x \in Places /\ x \notin Writes(op)
    BY WritesWhere DEF Places
  <2>5. T[x] = S[x]
    BY <2>4, EffectFrame
  <2>6. S[x] = latest[p]
    BY <1>1, <2>1, <2>2 DEF HostHolds
  <2>7. ~Updates(args, p)
    <3>1. SUFFICES ASSUME NEW j \in 1 .. Len(args),
                          p = <<args[j].block.oid, args[j].block.bid>>
                   PROVE  FALSE
      BY DEF Updates
    <3>2. Holds(args[j].slot, x[2], x[3]) /\ args[j].slot \in Slots
      BY <1>1, <1>2, <2>2, <3>1
    <3>3. QED
      BY <2>1, <3>2 DEF InCache
  <2>8. QED
    BY <1>5, <2>2, <2>3, <2>5, <2>6, <2>7
<1>9. QED
  BY <1>4, <1>7, <1>8

-----------------------------------------------------------------------------
(***************************************************************************)
(* What the kernels will have received                                     *)
(***************************************************************************)
\* The number of kernels run has enqueued.
Launched == run.index * Len(run_queue) + (IF pc = "run" THEN run.fun - 1 ELSE 0)

\* The k-th kernel: a function, and an index.
FunOf(k) == run_queue[((k - 1) % Len(run_queue)) + 1]
BlockIndex(k) == (k - 1) \div Len(run_queue)

\* What it received are the blocks of this index.
Serves(entry, f, i) ==
  DOMAIN entry = DOMAIN f.objs /\ \A j \in DOMAIN f.objs : entry[j].block = BlockAt(f, j, i)

\* The kernels enqueued so far have received, function by function, the blocks
\* of one index after the other.
LogIs(kernels) ==
  /\ Len(kernels) = Launched
  /\ \A k \in 1 .. Len(kernels) : Serves(kernels[k], FunOf(k), BlockIndex(k))

\* While run is at work.
LogHolds(S) == pc \notin {"idle", "end"} => LogIs(S[<<"result">>].log)

\* What it received stays what it should be.
LEMMA LogStays ==
  ASSUME NEW S, LogHolds(S), objects' = objects,
         \/ pc' \in {"idle", "end"}
         \/ /\ pc \notin {"idle", "end"}
            /\ run_queue' = run_queue /\ Launched' = Launched
  PROVE  LogHolds(S)'
<1>1. CASE pc' \in {"idle", "end"}
  BY <1>1 DEF LogHolds
<1>2. CASE pc \notin {"idle", "end"} /\ run_queue' = run_queue /\ Launched' = Launched
  <2>1. PICK kernels : kernels = S[<<"result">>].log
    OBVIOUS
  <2>2. LogIs(kernels)
    BY <1>2, <2>1 DEF LogHolds
  <2>3. Len(kernels) = Launched'
    BY <1>2, <2>2 DEF LogIs
  <2>4. ASSUME NEW k \in 1 .. Len(kernels)
        PROVE  Serves(kernels[k], FunOf(k), BlockIndex(k))'
    <3>1. PICK f, i : f = FunOf(k) /\ i = BlockIndex(k)
      OBVIOUS
    <3>2. Serves(kernels[k], f, i)
      BY <2>2, <2>4, <3>1 DEF LogIs
    <3>3. FunOf(k)' = f /\ BlockIndex(k)' = i
      BY <1>2, <3>1 DEF FunOf, BlockIndex
    <3>4. Serves(kernels[k], f, i)'
      BY <3>2 DEF Serves, BlockAt
    <3>5. QED
      BY <3>3, <3>4 DEF Serves, BlockAt
  <2>5. LogIs(kernels)'
    BY <2>3, <2>4 DEF LogIs
  <2>6. QED
    BY <2>1, <2>5 DEF LogHolds
<1>3. QED
  BY <1>1, <1>2

\* Quotient and rest of a number in this form.
LEMMA DivMod ==
  ASSUME NEW i \in Nat, NEW r \in Nat, NEW n \in Nat \ {0}, r < n
  PROVE  (i * n + r) \div n = i /\ (i * n + r) % n = r
<1>1. PICK a \in Int : a = i * n + r
  OBVIOUS
<1>2. PICK q, s : q = a \div n /\ s = a % n
  OBVIOUS
<1>3. q \in Int /\ s \in 0 .. n - 1 /\ a = n * q + s
  BY <1>2, Quotient
<1>4. ~(q < i)
  <2>1. SUFFICES ASSUME q < i PROVE FALSE
    OBVIOUS
  <2>2. n * q + n <= n * i
    BY <1>3, <2>1, ProductsInOrder
  <2>3. PICK x \in Int, y \in Int : x = n * q /\ y = n * i
    BY <1>3
  <2>4. n * i = i * n
    OBVIOUS
  <2>5. QED
    BY <1>1, <1>3, <2>2, <2>3, <2>4
<1>5. ~(i < q)
  <2>1. SUFFICES ASSUME i < q PROVE FALSE
    OBVIOUS
  <2>2. n * i + n <= n * q
    BY <1>3, <2>1, ProductsInOrder
  <2>3. PICK x \in Int, y \in Int : x = n * q /\ y = n * i
    BY <1>3
  <2>4. n * i = i * n
    OBVIOUS
  <2>5. QED
    BY <1>1, <1>3, <2>2, <2>3, <2>4
<1>6. q = i
  BY <1>3, <1>4, <1>5
<1>7. s = r
  <2>1. PICK x \in Int : x = n * q
    BY <1>3
  <2>2. i * n = n * q
    BY <1>6
  <2>3. QED
    BY <1>1, <1>3, <2>1, <2>2
<1>8. QED
  BY <1>1, <1>2, <1>6, <1>7

\* The kernel that is enqueued next, and how many there are after it.
LEMMA NextLaunch ==
  ASSUME RInv, RunFunction
  PROVE  /\ Launched \in Nat /\ FunOf(Launched + 1) = ThisFun
         /\ BlockIndex(Launched + 1) = run.index
         /\ Launched' = Launched + 1
<1>1. /\ pc = "run" /\ run.fun \in 1 .. Len(run_queue) /\ run.index \in Nat
      /\ run \in RunState /\ Len(run_queue) \in Nat /\ run_queue' = run_queue
  BY RunFields DEF RInv, HInv, Position, HostTypes, RunFunction
<1>2. PICK i \in Nat, n \in Nat \ {0}, r \in Nat :
        i = run.index /\ n = Len(run_queue) /\ r = run.fun - 1
  BY <1>1
<1>3. r < n /\ Launched = i * n + r /\ i * n \in Nat
  BY <1>1, <1>2 DEF Launched
<1>4. (i * n + r) \div n = i /\ (i * n + r) % n = r
  BY <1>3, DivMod
<1>5. Launched \in Nat /\ (Launched + 1) - 1 = i * n + r
  BY <1>3
<1>6. FunOf(Launched + 1) = ThisFun
  <2>1. FunOf(Launched + 1) = run_queue[r + 1]
    BY <1>2, <1>4, <1>5 DEF FunOf
  <2>2. r + 1 = run.fun
    BY <1>1, <1>2
  <2>3. QED
    BY <2>1, <2>2 DEF ThisFun
<1>7. BlockIndex(Launched + 1) = run.index
  BY <1>2, <1>4, <1>5 DEF BlockIndex
<1>8. CASE run.fun # n
  <2>1. run' = [run EXCEPT !.fun = @ + 1, !.wait_list = {next_event}] /\ pc' = pc
    BY <1>2, <1>8 DEF RunFunction
  <2>2. run'.fun = run.fun + 1 /\ run'.index = i
    BY <1>1, <1>2, <2>1 DEF RunState
  <2>3. Launched' = i * n + run'.fun - 1
    <3>1. Launched' = run'.index * Len(run_queue') + (run'.fun - 1)
      BY <1>1, <2>1 DEF Launched
    <3>2. run'.index = i /\ Len(run_queue') = n /\ run'.fun = r + 2
      BY <1>1, <1>2, <2>2
    <3>3. QED
      BY <1>3, <3>1, <3>2
  <2>4. Launched' = Launched + 1
    <3>1. run'.fun = r + 2
      BY <1>1, <1>2, <2>2
    <3>2. QED
      BY <1>3, <2>3, <3>1
  <2>5. QED
    BY <1>5, <1>6, <1>7, <2>4
<1>9. CASE run.fun = n
  <2>1. run'.index = i + 1
    BY <1>2, <1>9 DEF RunFunction, NotRunning
  <2>2. pc' # "run"
    <3>1. Len(Append(run.active, run.activating)) \in Nat
      BY RunFields DEF RInv, BufferLists
    <3>2. QED
      BY <1>2, <1>9, <3>1 DEF RunFunction, NumQueues
  <2>3. Launched' = (i + 1) * n
    <3>1. Launched' = run'.index * Len(run_queue') + 0
      BY <2>2 DEF Launched
    <3>2. (i + 1) * n \in Nat
      OBVIOUS
    <3>3. run'.index = i + 1 /\ Len(run_queue') = n
      BY <1>1, <1>2, <2>1
    <3>4. QED
      BY <3>1, <3>2, <3>3
  <2>4. (i + 1) * n = i * n + n
    OBVIOUS
  <2>5. r + 1 = n
    BY <1>1, <1>2, <1>9
  <2>6. Launched' = Launched + 1
    BY <1>3, <2>3, <2>4, <2>5
  <2>7. QED
    BY <1>5, <1>6, <1>7, <2>6
<1>10. QED
  BY <1>8, <1>9

-----------------------------------------------------------------------------
(***************************************************************************)
(* What get, read and run leave behind, after all that is there            *)
(***************************************************************************)
\* The block of slot s is returned.
LEMMA ReadRuns ==
  ASSUME NEW ops, NEW n \in Nat, Numbered(ops, n), NEW d, NEW S, Runs(ops, n, d, S),
         NEW s \in Slots, NEW block \in Block, InObject(block),
         objects[block.oid].mode = "ReadWrite",
         NEW wa \in SUBSET Nat, NEW wb \in SUBSET Nat, NEW wc \in SUBSET Nat,
         NEW a, a = Op("read", s, block, wa, n),
         NEW b, b = Op("back", s, block, wb, n + 1),
         NEW c, c = Op("barrier", s, block, wc, n + 2)
  PROVE  \E T : /\ Returned(S, s, block, T)
                /\ Runs(ops \cup {a, b, c}, n + 3, d, T)
                /\ Numbered(ops \cup {a, b, c}, n + 3)
<1>1. /\ a \in DataWork /\ a.ev = n /\ a.kind = "read" /\ a.slot = s
      /\ b \in DataWork /\ b.ev = n + 1 /\ b.kind = "back" /\ b.slot = s /\ b.block = block
      /\ c \in DataWork /\ c.ev = n + 2 /\ c.kind = "barrier"
  <2>1. a \in DataWork /\ a.ev = n /\ a.kind = "read" /\ a.slot = s
    BY TransferIsWork
  <2>2. PICK k : k = n + 1 /\ k \in Nat
    OBVIOUS
  <2>3. b \in DataWork /\ b.ev = k /\ b.kind = "back" /\ b.slot = s /\ b.block = block
    BY <2>2, TransferIsWork
  <2>4. PICK m : m = n + 2 /\ m \in Nat
    OBVIOUS
  <2>5. c \in DataWork /\ c.ev = m /\ c.kind = "barrier"
    BY <2>4, TransferIsWork
  <2>6. QED
    BY <2>1, <2>2, <2>3, <2>4, <2>5
<1>2. PICK e, f, g : e = Effect(a, S) /\ f = Effect(b, e) /\ g = Effect(c, f)
  OBVIOUS
<1>3. Runs(ops \cup {a}, n + 1, d, e) /\ Numbered(ops \cup {a}, n + 1)
  <2>1. a.ev \in Nat /\ a.ev >= n /\ n + 1 \in Nat /\ n + 1 > a.ev
    BY <1>1
  <2>2. QED
    BY <1>1, <1>2, <2>1, RunsMore
<1>4. Runs((ops \cup {a}) \cup {b}, n + 2, d, f) /\ Numbered((ops \cup {a}) \cup {b}, n + 2)
  <2>1. b.ev \in Nat /\ b.ev >= n + 1 /\ n + 2 \in Nat /\ n + 2 > b.ev
    BY <1>1
  <2>2. QED
    BY <1>1, <1>2, <1>3, <2>1, RunsMore
<1>5. /\ Runs(((ops \cup {a}) \cup {b}) \cup {c}, n + 3, d, g)
      /\ Numbered(((ops \cup {a}) \cup {b}) \cup {c}, n + 3)
  <2>1. c.ev \in Nat /\ c.ev >= n + 2 /\ n + 3 \in Nat /\ n + 3 > c.ev
    BY <1>1
  <2>2. QED
    BY <1>1, <1>2, <1>4, <2>1, RunsMore
<1>6. ((ops \cup {a}) \cup {b}) \cup {c} = ops \cup {a, b, c}
  OBVIOUS
<1>7. Returned(S, s, block, g)
  BY <1>1, <1>2, ReadEffect
<1>8. QED
  BY <1>5, <1>6, <1>7

\* A block is loaded into slot s.
LEMMA LoadRuns ==
  ASSUME NEW ops, NEW n \in Nat, NEW k \in Nat, k <= n + 3, Numbered(ops, k),
         NEW d, NEW S, Runs(ops, k, d, S),
         NEW s \in Slots, NEW block \in Block, InObject(block),
         NEW wa \in SUBSET Nat, NEW wb \in SUBSET Nat,
         NEW a, a = Op("load", s, block, wa, n + 3),
         NEW b, b = Op("write", s, block, wb, n + 4)
  PROVE  \E T : /\ Loaded(S, s, block, T)
                /\ Runs(ops \cup {a, b}, n + 5, d, T)
                /\ Numbered(ops \cup {a, b}, n + 5)
<1>1. /\ a \in DataWork /\ a.ev = n + 3 /\ a.kind = "load" /\ a.slot = s /\ a.block = block
      /\ b \in DataWork /\ b.ev = n + 4 /\ b.kind = "write" /\ b.slot = s
  <2>1. n + 3 \in Nat /\ n + 4 \in Nat
    OBVIOUS
  <2>2. QED
    BY <2>1, TransferIsWork
<1>2. PICK e, f : e = Effect(a, S) /\ f = Effect(b, e)
  OBVIOUS
<1>3. Runs(ops \cup {a}, n + 4, d, e) /\ Numbered(ops \cup {a}, n + 4)
  <2>1. a.ev \in Nat /\ a.ev >= k /\ n + 4 \in Nat /\ n + 4 > a.ev
    BY <1>1
  <2>2. QED
    BY <1>1, <1>2, <2>1, RunsMore
<1>4. Runs((ops \cup {a}) \cup {b}, n + 5, d, f) /\ Numbered((ops \cup {a}) \cup {b}, n + 5)
  <2>1. b.ev \in Nat /\ b.ev >= n + 4 /\ n + 5 \in Nat /\ n + 5 > b.ev
    BY <1>1
  <2>2. QED
    BY <1>1, <1>2, <1>3, <2>1, RunsMore
<1>5. (ops \cup {a}) \cup {b} = ops \cup {a, b}
  OBVIOUS
<1>6. Loaded(S, s, block, f)
  BY <1>1, <1>2, LoadEffect
<1>7. QED
  BY <1>4, <1>5, <1>6

\* All work after something has been enqueued.
LEMMA WorkEnqueued ==
  ASSUME WorkTypes, NEW q \in Queues, NEW cmds \in Seq(MovedWork),
         NEW tasks \in Seq(MovedWork), Enqueue(q, cmds, tasks)
  PROVE  AllWork' = (AllWork \cup {cmds[m] : m \in 1 .. Len(cmds)})
                      \cup {tasks[m] : m \in 1 .. Len(tasks)}
<1>1. PICK ops, more :
        /\ ops = AllWork
        /\ more = {cmds[m] : m \in 1 .. Len(cmds)} \cup {tasks[m] : m \in 1 .. Len(tasks)}
  OBVIOUS
<1>2. <<q, "device">> \in Workers /\ <<q, "io">> \in Workers
  BY DEF Workers
<1>3. /\ Added(<<q, "device">>, q, cmds, tasks) = cmds
      /\ Added(<<q, "io">>, q, cmds, tasks) = tasks
  BY DEF Added
<1>4. ASSUME NEW x \in AllWork'
      PROVE  x \in ops \cup more
  <2>1. PICK w \in Workers : \E k \in 1 .. Len(Backlog(w)') : x = Backlog(w)'[k]
    BY DEF AllWork
  <2>2. PICK k \in 1 .. Len(Backlog(w)') : x = Backlog(w)'[k]
    BY <2>1
  <2>3. CASE k \in 1 .. Len(Backlog(w)) /\ Backlog(w)'[k] = Backlog(w)[k]
    BY <1>1, <2>2, <2>3 DEF AllWork
  <2>4. CASE \E m \in 1 .. Len(Added(w, q, cmds, tasks)) :
               Backlog(w)'[k] = Added(w, q, cmds, tasks)[m]
    <3>1. PICK m \in 1 .. Len(Added(w, q, cmds, tasks)) :
            x = Added(w, q, cmds, tasks)[m]
      BY <2>2, <2>4
    <3>2. Added(w, q, cmds, tasks) # <<>>
      BY <3>1
    <3>3. Added(w, q, cmds, tasks) = cmds \/ Added(w, q, cmds, tasks) = tasks
      BY <3>2, AddedWhere
    <3>4. QED
      BY <1>1, <3>1, <3>3
  <2>5. QED
    BY <2>2, <2>3, <2>4, EnqueuedWhere
<1>5. ASSUME NEW x \in ops
      PROVE  x \in AllWork'
  <2>1. PICK w \in Workers : \E k \in 1 .. Len(Backlog(w)) : x = Backlog(w)[k]
    BY <1>1 DEF AllWork
  <2>2. PICK k \in 1 .. Len(Backlog(w)) : x = Backlog(w)[k]
    BY <2>1
  <2>3. k \in 1 .. Len(Backlog(w)') /\ Backlog(w)'[k] = x
    BY <2>2, EnqueuedWhere
  <2>4. QED
    BY <2>3 DEF AllWork
<1>6. ASSUME NEW x \in more
      PROVE  x \in AllWork'
  <2>1. \E w \in Workers : \E m \in 1 .. Len(Added(w, q, cmds, tasks)) :
          x = Added(w, q, cmds, tasks)[m]
    BY <1>1, <1>2, <1>3
  <2>2. PICK w \in Workers : \E m \in 1 .. Len(Added(w, q, cmds, tasks)) :
          x = Added(w, q, cmds, tasks)[m]
    BY <2>1
  <2>3. PICK m \in 1 .. Len(Added(w, q, cmds, tasks)) : x = Added(w, q, cmds, tasks)[m]
    BY <2>2
  <2>4. /\ Len(Backlog(w)) + m \in 1 .. Len(Backlog(w)')
        /\ Backlog(w)'[Len(Backlog(w)) + m] = x
    BY <2>3, EnqueuedWhere
  <2>5. QED
    BY <2>4 DEF AllWork
<1>7. QED
  BY <1>1, <1>4, <1>5, <1>6

\* The work that is left now, and what it makes of memory.
LEMMA PendingEnqueued ==
  ASSUME objects' = objects, UNCHANGED dataVars, NEW v, NEW S, Pending(v, S),
         NEW n, n = next_event, NEW k, next_event' = n + 5, n \in Nat, k \in Nat, k <= n + 5,
         NEW ops, AllWork' = ops, NEW T, T[<<"result">>] = S[<<"result">>],
         NEW d, d = Data(v), Runs(ops, k, d, T), Numbered(ops, k)
  PROVE  Pending(v, T)'
<1>1. Runs(ops, n + 5, d, T) /\ Numbered(ops, n + 5)
  <2>1. n + 5 \in Nat /\ n + 5 >= k
    OBVIOUS
  <2>2. QED
    BY <2>1, RunsLater
<1>2. T[<<"result">>].ok
  BY DEF Pending
<1>3. Data(v)' = d
  BY DataStays DEF dataVars
<1>4. QED
  BY <1>1, <1>2, <1>3, PendingNext

\* read has been called.
LEMMA ReadPending ==
  ASSUME WorkTypes, objects' = objects, UNCHANGED dataVars, NEW v, NEW S, Pending(v, S),
         next_event \in Nat, NEW q \in Queues, NEW s \in Slots, NEW block \in Block,
         InObject(block), objects[block.oid].mode = "ReadWrite", NEW waits \in SUBSET Nat,
         Enqueue(q, ReadCommands(s, block, waits, next_event),
                 ReadTasks(s, block, next_event))
  PROVE  \E T : Returned(S, s, block, T) /\ Pending(v, T)'
<1>0. PICK n \in Nat : n = next_event
  OBVIOUS
<1>1. PICK ops, d, c, t :
        /\ n = next_event /\ ops = AllWork /\ d = Data(v)
        /\ c = ReadCommands(s, block, waits, n) /\ t = ReadTasks(s, block, n)
  BY <1>0
<1>2. c \in Seq(MovedWork) /\ t \in Seq(MovedWork)
  BY <1>1, ReadMoved
<1>3. AllWork' = (ops \cup {c[m] : m \in 1 .. Len(c)}) \cup {t[m] : m \in 1 .. Len(t)}
  BY <1>1, <1>2, WorkEnqueued
<1>4. PICK a, b, z : /\ a = Op("read", s, block, waits, n)
                     /\ b = Op("back", s, block, {n}, n + 1)
                     /\ z = Op("barrier", s, block, {n + 1}, n + 2)
  OBVIOUS
<1>5. c = <<a, z>> /\ t = <<b>>
  BY <1>1, <1>4 DEF ReadCommands, ReadTasks
<1>6. AllWork' = ops \cup {a, b, z}
  <2>1. {c[m] : m \in 1 .. Len(c)} = {a, z}
    <3>1. Len(c) = 2 /\ c[1] = a /\ c[2] = z
      BY <1>5
    <3>2. QED
      BY <3>1
  <2>2. {t[m] : m \in 1 .. Len(t)} = {b}
    <3>1. Len(t) = 1 /\ t[1] = b
      BY <1>5
    <3>2. QED
      BY <3>1
  <2>3. QED
    BY <1>3, <2>1, <2>2
<1>7. PICK T : /\ Returned(S, s, block, T)
               /\ Runs(ops \cup {a, b, z}, n + 3, d, T)
               /\ Numbered(ops \cup {a, b, z}, n + 3)
  <2>1. Numbered(ops, n) /\ Runs(ops, n, d, S)
    BY <1>1 DEF Pending
  <2>2. {n} \in SUBSET Nat /\ {n + 1} \in SUBSET Nat
    OBVIOUS
  <2>3. QED
    BY <1>4, <2>1, <2>2, ReadRuns
<1>8. T[<<"result">>] = S[<<"result">>]
  BY <1>7 DEF Returned
<1>9. next_event' = n + 5
  BY <1>1 DEF Enqueue
<1>10. n + 3 \in Nat /\ n + 3 <= n + 5
  OBVIOUS
<1>11. Pending(v, T)'
  BY <1>1, <1>6, <1>7, <1>8, <1>9, <1>10, PendingEnqueued
<1>12. QED
  BY <1>7, <1>11

\* write_and_get has been called.
LEMMA FillPending ==
  ASSUME WorkTypes, objects' = objects, UNCHANGED dataVars, NEW v, NEW S, Pending(v, S),
         next_event \in Nat, NEW q \in Queues, NEW s \in Slots, NEW block \in Block,
         InObject(block), NEW waits \in SUBSET Nat, cached[s] \in Block,
         WritesBack(s) => /\ InObject(cached[s])
                          /\ objects[cached[s].oid].mode = "ReadWrite",
         Enqueue(q, FillCommands(s, block, waits, next_event),
                 FillTasks(s, block, waits, next_event))
  PROVE  \E M, T : /\ WritesBack(s) => Returned(S, s, cached[s], M)
                   /\ ~WritesBack(s) => M = S
                   /\ Loaded(M, s, block, T) /\ Pending(v, T)'
<1>0. PICK n \in Nat : n = next_event
  OBVIOUS
<1>1. PICK ops, d, c, t, old :
        /\ n = next_event /\ ops = AllWork /\ d = Data(v) /\ old = cached[s]
        /\ c = FillCommands(s, block, waits, n) /\ t = FillTasks(s, block, waits, n)
  BY <1>0
<1>2. c \in Seq(MovedWork) /\ t \in Seq(MovedWork)
  BY <1>1, FillMoved
<1>3. AllWork' = (ops \cup {c[m] : m \in 1 .. Len(c)}) \cup {t[m] : m \in 1 .. Len(t)}
  BY <1>1, <1>2, WorkEnqueued
<1>4. Numbered(ops, n) /\ Runs(ops, n, d, S)
  BY <1>1 DEF Pending
<1>5. next_event' = n + 5 /\ n + 5 \in Nat /\ n + 5 <= n + 5 /\ n + 3 \in Nat
  BY <1>1 DEF Enqueue
<1>6. PICK l, w : /\ l = Op("load", s, block, IF WritesBack(s) THEN waits \cup {n + 2} ELSE waits,
                            n + 3)
                  /\ w = Op("write", s, block, {n + 3}, n + 4)
  OBVIOUS
<1>7. {n + 3} \in SUBSET Nat /\ waits \cup {n + 2} \in SUBSET Nat
  OBVIOUS
<1>8. CASE ~WritesBack(s)
  <2>1. c = <<w>> /\ t = <<l>>
    BY <1>1, <1>6, <1>8, FillShape DEF LoadCommands, LoadTasks
  <2>2. AllWork' = ops \cup {l, w}
    <3>1. Len(c) = 1 /\ c[1] = w /\ Len(t) = 1 /\ t[1] = l
      BY <2>1
    <3>2. {c[m] : m \in 1 .. Len(c)} = {w} /\ {t[m] : m \in 1 .. Len(t)} = {l}
      BY <3>1
    <3>3. QED
      BY <1>3, <3>2
  <2>3. PICK T : /\ Loaded(S, s, block, T)
                 /\ Runs(ops \cup {l, w}, n + 5, d, T) /\ Numbered(ops \cup {l, w}, n + 5)
    <3>1. l = Op("load", s, block, waits, n + 3) /\ n <= n + 3
      BY <1>6, <1>8
    <3>2. QED
      BY <1>4, <1>6, <1>7, <3>1, LoadRuns
  <2>4. T[<<"result">>] = S[<<"result">>]
    BY <2>3 DEF Loaded
  <2>5. Pending(v, T)'
    BY <1>1, <1>5, <2>2, <2>3, <2>4, PendingEnqueued
  <2>6. QED
    BY <1>8, <2>3, <2>5
<1>9. CASE WritesBack(s)
  <2>1. PICK a, b, z : /\ a = Op("read", s, old, waits, n)
                       /\ b = Op("back", s, old, {n}, n + 1)
                       /\ z = Op("barrier", s, old, {n + 1}, n + 2)
    OBVIOUS
  <2>2. c = <<a, z, w>> /\ t = <<b, l>>
    <3>1. c = EvictCommands(s, block, waits, n) /\ t = EvictTasks(s, block, waits, n)
      BY <1>1, <1>9, FillShape
    <3>2. l = Op("load", s, block, waits \cup {n + 2}, n + 3)
      BY <1>6, <1>9
    <3>3. QED
      BY <1>1, <1>6, <2>1, <3>1, <3>2 DEF EvictCommands, EvictTasks
  <2>3. AllWork' = (ops \cup {a, b, z}) \cup {l, w}
    <3>1. Len(c) = 3 /\ c[1] = a /\ c[2] = z /\ c[3] = w /\ Len(t) = 2 /\ t[1] = b /\ t[2] = l
      BY <2>2
    <3>2. {c[m] : m \in 1 .. Len(c)} = {a, z, w} /\ {t[m] : m \in 1 .. Len(t)} = {b, l}
      BY <3>1
    <3>3. QED
      BY <1>3, <3>2
  <2>4. PICK M : /\ Returned(S, s, old, M)
                 /\ Runs(ops \cup {a, b, z}, n + 3, d, M)
                 /\ Numbered(ops \cup {a, b, z}, n + 3)
    <3>1. /\ old \in Block /\ InObject(old) /\ objects[old.oid].mode = "ReadWrite"
          /\ {n} \in SUBSET Nat /\ {n + 1} \in SUBSET Nat
      BY <1>1, <1>9
    <3>2. QED
      BY <1>4, <2>1, <3>1, ReadRuns
  <2>5. PICK T : /\ Loaded(M, s, block, T)
                 /\ Runs((ops \cup {a, b, z}) \cup {l, w}, n + 5, d, T)
                 /\ Numbered((ops \cup {a, b, z}) \cup {l, w}, n + 5)
    <3>1. PICK more, k, ws :
            more = ops \cup {a, b, z} /\ k = n + 3 /\ ws = waits \cup {n + 2}
      OBVIOUS
    <3>2. l = Op("load", s, block, ws, n + 3) /\ k \in Nat /\ k <= n + 3 /\ ws \in SUBSET Nat
      BY <1>5, <1>6, <1>7, <1>9, <3>1
    <3>3. Numbered(more, k) /\ Runs(more, k, d, M)
      BY <2>4, <3>1
    <3>4. \E T : /\ Loaded(M, s, block, T)
                 /\ Runs(more \cup {l, w}, n + 5, d, T)
                 /\ Numbered(more \cup {l, w}, n + 5)
      BY <1>6, <1>7, <3>2, <3>3, LoadRuns
    <3>5. QED
      BY <3>1, <3>4
  <2>6. T[<<"result">>] = S[<<"result">>]
    BY <2>4, <2>5 DEF Loaded, Returned
  <2>7. Pending(v, T)'
    BY <1>1, <1>5, <2>3, <2>5, <2>6, PendingEnqueued
  <2>8. QED
    BY <1>1, <1>9, <2>4, <2>5, <2>7
<1>10. QED
  BY <1>8, <1>9

-----------------------------------------------------------------------------
(***************************************************************************)
(* What memory will be when all that is left is done                       *)
(***************************************************************************)
\* v is how often every block has been given to the kernels, and S what memory
\* will be: every block that get has returned is in its slot, what is not
\* cached is on the host, and every kernel receives the blocks of its index.
DataIs(v, S) == Pending(v, S) /\ CacheHolds(S) /\ HostHolds(S) /\ LogHolds(S)

\* What holds of one memory holds of another that agrees with it.
LEMMA SameHolds ==
  ASSUME NEW S, NEW T, CacheHolds(S), HostHolds(S),
         \A s \in Slots : T[<<"dev", s>>] = S[<<"dev", s>>],
         \A x \in HostPlaces : T[x] = S[x],
         T[<<"result">>].ver = S[<<"result">>].ver
  PROVE  CacheHolds(T) /\ HostHolds(T)
BY DEF CacheHolds, HostHolds

\* The memories are memories.
LEMMA DataTyped ==
  ASSUME NEW v, NEW S, DataIs(v, S)
  PROVE  S \in States /\ S[<<"result">>].ok /\ Data(v) \in States
<1>1. PICK ops, n, d : ops = AllWork /\ n = next_event /\ d = Data(v)
  OBVIOUS
<1>2. Numbered(ops, n) /\ Runs(ops, n, d, S) /\ S[<<"result">>].ok
  BY <1>1 DEF DataIs, Pending
<1>3. QED
  BY <1>1, <1>2, RunsTyped

\* The kernels enqueued so far, where run enqueues none.
LEMMA ActivateLaunches ==
  ASSUME HInv, ActivateAgain \/ ActivateHit \/ ActivateMiss
  PROVE  /\ pc = "activate" /\ run_queue' = run_queue /\ Launched' = Launched
         /\ UNCHANGED dataVars
<1>1. PICK fst, act, bufs : ObjectDone(fst, act, bufs)
  BY DEF ActivateAgain, ActivateHit, ActivateMiss, Transfer, GotBuffer
<1>2. pc = "activate" /\ UNCHANGED dataVars
  BY <1>1 DEF ActivateAgain, ActivateHit, ActivateMiss, ObjectDone
<1>3. /\ pc' = "run" => run'.fun = 1
      /\ run'.index = run.index /\ run_queue' = run_queue
  BY <1>1, <1>2, ObjectDoneRuns
<1>4. Launched' = run'.index * Len(run_queue') + 0
  BY <1>3 DEF Launched
<1>5. Launched = run.index * Len(run_queue) + 0
  BY <1>2 DEF Launched
<1>6. QED
  BY <1>2, <1>3, <1>4, <1>5

\* A step that enqueues nothing and moves no slot.
LEMMA QuietData ==
  ASSUME NEW v, NEW S, DataIs(v, S), objects' = objects, cached' = cached,
         UNCHANGED queueVars, UNCHANGED dataVars,
         \/ pc' \in {"idle", "end"}
         \/ /\ pc \notin {"idle", "end"}
            /\ run_queue' = run_queue /\ Launched' = Launched
  PROVE  DataIs(v, S)'
<1>1. PICK ops, n, d : ops = AllWork /\ n = next_event /\ d = Data(v)
  OBVIOUS
<1>2. AllWork' = ops /\ next_event' = n
  BY <1>1 DEF AllWork, Backlog, queueVars
<1>3. Data(v)' = d
  BY <1>1, DataStays DEF dataVars
<1>4. Numbered(ops, n) /\ Runs(ops, n, d, S) /\ S[<<"result">>].ok
  BY <1>1 DEF DataIs, Pending
<1>5. Pending(v, S)'
  BY <1>2, <1>3, <1>4, PendingNext
<1>6. CacheHolds(S)' /\ HostHolds(S)'
  BY HoldingStays DEF DataIs
<1>7. LogHolds(S)'
  BY LogStays DEF DataIs
<1>8. QED
  BY <1>5, <1>6, <1>7 DEF DataIs

\* Such steps of the client's thread.
LEMMA OtherData ==
  ASSUME RInv, NEW v, NEW S, DataIs(v, S), objects' = objects,
         \/ RegisterOk \/ ActivateAgain \/ ActivateHit \/ Deactivate \/ Finish \/ ClientEnds
         \/ UNCHANGED vars
  PROVE  DataIs(v, S)'
<1>1. HInv /\ run \in RunState
  BY DEF RInv, HInv, HostTypes
<1>2. CASE RegisterOk
  <2>1. /\ UNCHANGED queueVars /\ UNCHANGED dataVars /\ cached' = cached
        /\ run_queue' = run_queue /\ run' = run /\ pc = "register" /\ pc' = "activate"
    BY <1>2 DEF RegisterOk, cacheVars
  <2>2. Launched' = Launched
    BY <2>1 DEF Launched
  <2>3. QED
    BY <2>1, <2>2, QuietData
<1>3. CASE ActivateAgain \/ ActivateHit
  <2>1. UNCHANGED queueVars /\ cached' = cached
    BY <1>3 DEF ActivateAgain, ActivateHit, GetHit, cacheVars
  <2>2. QED
    BY <1>1, <1>3, <2>1, ActivateLaunches, QuietData
<1>4. CASE Deactivate
  <2>1. /\ run'.index = run.index /\ run_queue' = run_queue
        /\ pc \in {"deactivate", "drain"}
        /\ pc' \in {"activate", "deactivate", "drain", "finish"}
    BY <1>1, <1>4, UnlockSucceeds DEF Deactivate, RunState
  <2>2. UNCHANGED queueVars /\ UNCHANGED dataVars /\ cached' = cached
    BY <1>4, UnlockSucceeds DEF Deactivate, UnlockFound
  <2>3. Launched' = Launched
    BY <2>1 DEF Launched
  <2>4. QED
    BY <2>1, <2>2, <2>3, QuietData
<1>5. CASE Finish \/ ClientEnds
  <2>1. /\ UNCHANGED queueVars /\ UNCHANGED dataVars /\ cached' = cached
        /\ pc' \in {"idle", "end"}
    BY <1>5 DEF Finish, ClientEnds, cacheVars
  <2>2. QED
    BY <2>1, QuietData
<1>6. CASE UNCHANGED vars
  <2>1. /\ UNCHANGED queueVars /\ UNCHANGED dataVars /\ cached' = cached
        /\ run_queue' = run_queue /\ run' = run /\ pc' = pc
    BY <1>6 DEF vars, cacheVars, hostVars
  <2>2. Launched' = Launched
    BY <2>1 DEF Launched
  <2>3. QED
    BY <2>1, <2>2, QuietData
<1>7. QED
  BY <1>2, <1>3, <1>4, <1>5, <1>6

\* get has returned a block that was not cached.
LEMMA MissData ==
  ASSUME GInv, NEW v, NEW S, DataIs(v, S), ActivateMiss
  PROVE  \E T : DataIs(v, T)'
<1>1. /\ HInv /\ TypeOK /\ WorkTypes /\ BlocksExist /\ objects' = objects
      /\ next_event \in Nat
  BY CacheSteps DEF GInv, HInv, IInv, HostTypes, SchedulerNext, HostStep
<1>2. PICK s \in Slots :
           /\ NewFill(s, ThisBlock.oid, ThisBlock.bid, ThisBlock.len)
           /\ Transfer(s, next_event)
           /\ cached[s] \in Block /\ cached' = [cached EXCEPT ![s] = ThisBlock]
           /\ ThisBlock \in Block /\ InObject(ThisBlock)
  BY <1>1, MissFills
<1>3. PICK block, b, waits : block = ThisBlock /\ b = cached[s] /\ waits = ActivateWaits
  OBVIOUS
<1>4. /\ block \in Block /\ InObject(block) /\ ~InCache(block.oid, block.bid)
      /\ cached'[s] = block /\ \A t \in Slots : t # s => cached'[t] = cached[t]
      /\ b \in Block
  <2>1. ~InCache(block.oid, block.bid)
    BY <1>2, <1>3 DEF NewFill
  <2>2. s \in DOMAIN cached
    BY <1>1 DEF TypeOK
  <2>3. QED
    BY <1>2, <1>3, <2>1, <2>2
<1>5. /\ \A o \in Oids : objects[o].mode \in ObjectMode
      /\ objects[block.oid].mode \in ObjectMode
  <2>1. objects \in Seq([size : Nat, mode : ObjectMode])
    BY <1>1 DEF TypeOK
  <2>2. ASSUME NEW o \in Oids
        PROVE  objects[o].mode \in ObjectMode
    <3>1. objects[o] \in [size : Nat, mode : ObjectMode]
      BY <2>1, <2>2, ElementOf DEF Oids
    <3>2. QED
      BY <3>1
  <2>3. QED
    BY <1>4, <2>2 DEF InObject, Oids
<1>6. WritesBack(s) => InObject(b) /\ objects[b.oid].mode = "ReadWrite"
  <2>1. SUFFICES ASSUME WritesBack(s)
                 PROVE  InObject(b) /\ objects[b.oid].mode = "ReadWrite"
    OBVIOUS
  <2>2. b # NoBlock /\ ~Immutable(b.oid)
    BY <1>3, <2>1 DEF WritesBack
  <2>3. InObject(b)
    BY <1>1, <1>3, <2>2 DEF BlocksExist
  <2>4. objects[b.oid].mode \in ObjectMode
    BY <1>5, <2>3 DEF InObject, Oids
  <2>5. QED
    BY <2>2, <2>3, <2>4 DEF Immutable, ObjectMode
<1>7. waits \in SUBSET Nat
  BY <1>1, <1>3, RunFields DEF ActivateWaits
<1>8. ThisQueue \in Queues
  BY <1>1, ThisQueueType
<1>9. /\ pc = "activate" /\ run_queue' = run_queue /\ Launched' = Launched
      /\ UNCHANGED dataVars
  BY <1>1, ActivateLaunches
<1>10. S \in States /\ S[<<"result">>].ok
  BY DataTyped
<1>11. Pending(v, S) /\ CacheHolds(S) /\ HostHolds(S)
  BY DEF DataIs
<1>12. LogHolds(S)'
  BY <1>1, <1>9, LogStays DEF DataIs
<1>13. ASSUME NEW M, NEW T, Pending(v, T)',
              WritesBack(s) => Returned(S, s, b, M), ~WritesBack(s) => M = S,
              objects[block.oid].mode # "Transient" => Loaded(M, s, block, T),
              objects[block.oid].mode = "Transient" => T = M
       PROVE  DataIs(v, T)'
  <2>1. CacheHolds(T)' /\ HostHolds(T)'
    BY <1>1, <1>3, <1>4, <1>5, <1>10, <1>11, <1>13, FillData
  <2>2. T[<<"result">>] = S[<<"result">>]
    BY <1>13 DEF Returned, Loaded
  <2>3. LogHolds(T)'
    BY <1>12, <2>2 DEF LogHolds
  <2>4. QED
    BY <1>13, <2>1, <2>3 DEF DataIs
<1>14. CASE objects[block.oid].mode # "Transient"
  <2>1. Enqueue(ThisQueue, FillCommands(s, block, waits, next_event),
                FillTasks(s, block, waits, next_event))
    BY <1>2, <1>3, <1>14 DEF Transfer
  <2>2. PICK M, T : /\ WritesBack(s) => Returned(S, s, cached[s], M)
                    /\ ~WritesBack(s) => M = S
                    /\ Loaded(M, s, block, T) /\ Pending(v, T)'
    BY <1>1, <1>3, <1>4, <1>6, <1>7, <1>8, <1>9, <1>11, <2>1, FillPending
  <2>3. DataIs(v, T)'
    BY <1>3, <1>13, <1>14, <2>2
  <2>4. QED
    BY <2>3
<1>15. CASE objects[block.oid].mode = "Transient" /\ WritesBack(s)
  <2>1. Enqueue(ThisQueue, ReadCommands(s, b, waits, next_event),
                ReadTasks(s, b, next_event))
    BY <1>2, <1>3, <1>15 DEF Transfer
  <2>2. PICK T : Returned(S, s, b, T) /\ Pending(v, T)'
    BY <1>1, <1>4, <1>6, <1>7, <1>8, <1>9, <1>11, <1>15, <2>1, ReadPending
  <2>3. DataIs(v, T)'
    BY <1>13, <1>15, <2>2
  <2>4. QED
    BY <2>3
<1>16. CASE objects[block.oid].mode = "Transient" /\ ~WritesBack(s)
  <2>1. UNCHANGED queueVars
    BY <1>2, <1>3, <1>16 DEF Transfer
  <2>2. PICK ops, n, d : ops = AllWork /\ n = next_event /\ d = Data(v)
    OBVIOUS
  <2>3. AllWork' = ops /\ next_event' = n
    BY <2>1, <2>2 DEF AllWork, Backlog, queueVars
  <2>4. Data(v)' = d
    BY <1>1, <1>9, <2>2, DataStays DEF dataVars
  <2>5. Numbered(ops, n) /\ Runs(ops, n, d, S)
    BY <1>11, <2>2 DEF Pending
  <2>6. Pending(v, S)'
    BY <1>1, <1>10, <2>3, <2>4, <2>5, PendingNext
  <2>7. DataIs(v, S)'
    BY <1>13, <1>16, <2>6
  <2>8. QED
    BY <2>7
<1>17. QED
  BY <1>14, <1>15, <1>16

\* One more kernel will have received its blocks.
LEMMA LogGrows ==
  ASSUME objects' = objects, run_queue' = run_queue, NEW X, NEW kernels \in Seq(X),
         LogIs(kernels), Launched' = Launched + 1,
         NEW entry \in X, Serves(entry, FunOf(Launched + 1), BlockIndex(Launched + 1))
  PROVE  LogIs(Append(kernels, entry))'
<1>0. PICK n \in Nat : n = Len(kernels)
  OBVIOUS
<1>1. PICK more : n = Len(kernels) /\ more = Append(kernels, entry)
  BY <1>0
<1>2. Launched = n
  BY <1>1 DEF LogIs
<1>3. /\ Len(more) = n + 1 /\ more[n + 1] = entry
      /\ \A k \in 1 .. n : more[k] = kernels[k]
  BY <1>1
<1>4. ASSUME NEW k \in 1 .. Len(more)
      PROVE  Serves(more[k], FunOf(k), BlockIndex(k))'
  <2>1. Serves(more[k], FunOf(k), BlockIndex(k))
    <3>1. CASE k \in 1 .. n
      BY <1>1, <1>3, <3>1 DEF LogIs
    <3>2. CASE k = n + 1
      BY <1>2, <1>3, <3>2
    <3>3. QED
      BY <1>3, <1>4, <3>1, <3>2
  <2>2. PICK f, i : f = FunOf(k) /\ i = BlockIndex(k)
    OBVIOUS
  <2>3. FunOf(k)' = f /\ BlockIndex(k)' = i
    BY <2>2 DEF FunOf, BlockIndex
  <2>4. Serves(more[k], f, i)'
    BY <2>1, <2>2 DEF Serves, BlockAt
  <2>5. QED
    BY <2>3, <2>4 DEF Serves, BlockAt
<1>5. LogIs(more)'
  BY <1>2, <1>3, <1>4 DEF LogIs
<1>6. QED
  BY <1>1, <1>5

\* The kernel that is enqueued, and its buffers.
LEMMA KernelBuffers ==
  ASSUME GInv, RInv, FitInv, NEW size, CutAlike(size), ActivatingCut(size), RunFunction,
         NEW op, op = Kernel(run.wait_list, next_event)
  PROVE  /\ op \in DataWork /\ op.kind = "kernel" /\ op.ev = next_event
         /\ DOMAIN op.args = DOMAIN ThisFun.objs
         /\ \A j \in 1 .. Len(op.args) :
              /\ op.args[j] \in Buffer /\ j \in DOMAIN ThisFun.objs
              /\ Holds(op.args[j].slot, op.args[j].block.oid, op.args[j].block.bid)
              /\ op.args[j].block = BlockAt(ThisFun, j, run.index)
<1>1. /\ HInv /\ Completed /\ InFlightInPlace /\ pc = "run"
      /\ objects \in Seq([size : Nat, mode : ObjectMode])
  BY DEF RInv, RunFunction, HInv, IInv, TypeOK
<1>2. /\ op \in Kernels /\ op.ev = next_event
      /\ op.args = [j \in 1 .. Len(ThisFun.objs) |-> BufferOf(j)]
  BY <1>1, KernelType
<1>3. op.kind = "kernel" /\ op.args \in Seq(Buffer)
  BY <1>2 DEF Kernels
<1>4. run.fun \in 1 .. Len(run_queue) /\ ThisFun = run_queue[run.fun]
  BY <1>1 DEF HInv, Position, ThisFun
<1>5. DOMAIN ThisFun.objs = 1 .. Len(ThisFun.objs) /\ Len(ThisFun.objs) \in Nat
  <2>1. ThisFun \in Runnable
    BY <1>1, <1>4, ElementOf DEF HInv, HostTypes
  <2>2. ThisFun.objs \in Seq(Nat \ {0})
    BY <2>1 DEF Runnable
  <2>3. QED
    BY <2>2
<1>6. DOMAIN op.args = 1 .. Len(ThisFun.objs) /\ Len(op.args) = Len(ThisFun.objs)
  BY <1>2, <1>3, <1>5
<1>7. ASSUME NEW j \in 1 .. Len(ThisFun.objs)
      PROVE  /\ op.args[j] \in Buffer
             /\ op.args[j].block.oid \in Oids
             /\ objects[op.args[j].block.oid].mode \in ObjectMode
             /\ Holds(op.args[j].slot, op.args[j].block.oid, op.args[j].block.bid)
             /\ op.args[j].block = BlockAt(ThisFun, j, run.index)
  <2>1. op.args[j] = BufferOf(j)
    BY <1>2, <1>7
  <2>2. /\ BufferOf(j) \in Buffer
        /\ BufferOf(j).block.oid = ThisFun.objs[j]
        /\ \E n \in 1 .. Len(run.activating) : BufferOf(j) = run.activating[n]
    BY <1>1, <1>7, BufferOfType
  <2>3. PICK n \in 1 .. Len(run.activating) : op.args[j] = run.activating[n]
    BY <2>1, <2>2
  <2>4. Holds(op.args[j].slot, op.args[j].block.oid, op.args[j].block.bid)
    BY <1>1, <2>3 DEF InFlightInPlace, AllInPlace, InPlace
  <2>5. ThisFun.objs[j] \in Oids
    BY <1>4, <1>7 DEF FitInv, AllFit, BatchFits, Oids
  <2>6. objects[ThisFun.objs[j]].mode \in ObjectMode
    <3>1. objects[ThisFun.objs[j]] \in [size : Nat, mode : ObjectMode]
      BY <1>1, <2>5, ElementOf DEF Oids
    <3>2. QED
      BY <3>1
  <2>7. op.args[j].block = CutBlock(size, ThisFun.objs[j], run.index)
    BY <2>1, <2>2, <2>3 DEF ActivatingCut
  <2>8. BlockAt(ThisFun, j, run.index) = CutBlock(size, ThisFun.objs[j], run.index)
    BY <1>4, <1>7, CutBlockAt
  <2>9. QED
    BY <2>1, <2>2, <2>4, <2>5, <2>6, <2>7, <2>8
<1>8. op \in DataWork
  BY <1>2, <1>3, <1>6, <1>7 DEF DataWork, MovedWork, Work
<1>9. QED
  BY <1>2, <1>3, <1>5, <1>6, <1>7, <1>8

\* run has enqueued a kernel.
LEMMA LaunchData ==
  ASSUME GInv, RInv, FitInv, NEW size, CutAlike(size), ActivatingCut(size),
         NEW v, NEW S, DataIs(v, S), RunFunction
  PROVE  \E T : DataIs(v, T)'
<1>1. PICK op, T, n, ops, d :
        /\ op = Kernel(run.wait_list, next_event) /\ T = Effect(op, S)
        /\ n = next_event /\ ops = AllWork /\ d = Data(v)
  OBVIOUS
<1>2. /\ op \in DataWork /\ op.kind = "kernel" /\ op.ev = n
      /\ DOMAIN op.args = DOMAIN ThisFun.objs
      /\ \A j \in 1 .. Len(op.args) :
           /\ op.args[j] \in Buffer /\ j \in DOMAIN ThisFun.objs
           /\ Holds(op.args[j].slot, op.args[j].block.oid, op.args[j].block.bid)
           /\ op.args[j].block = BlockAt(ThisFun, j, run.index)
  BY <1>1, KernelBuffers
<1>3. /\ objects' = objects /\ cached' = cached /\ run_queue' = run_queue /\ pc = "run"
      /\ UNCHANGED dataVars /\ Enqueue(ThisQueue, <<op>>, <<>>)
      /\ next_event' = n + 5 /\ n \in Nat
  BY <1>1 DEF RunFunction, cacheVars, Enqueue, GInv, HInv, HostTypes
<1>4. S \in States /\ S \in Typed /\ S[<<"result">>].ok
  BY DataTyped DEF States
<1>5. T[<<"result">>].ok /\ CacheHolds(T) /\ HostHolds(T)
  <2>1. CacheHolds(S) /\ HostHolds(S) /\ BlocksExist /\ OneHome
    BY DEF DataIs, GInv, HInv, IInv
  <2>2. QED
    BY <1>1, <1>2, <1>4, <2>1, KernelData
<1>6. CacheHolds(T)' /\ HostHolds(T)'
  BY <1>3, <1>5, HoldingStays
<1>7. AllWork' = ops \cup {op}
  <2>1. PICK c, t : c = <<op>> /\ t = <<>>
    OBVIOUS
  <2>2. c \in Seq(MovedWork) /\ t \in Seq(MovedWork)
    BY <1>2, <2>1 DEF DataWork
  <2>3. ThisQueue \in Queues /\ WorkTypes
    BY ThisQueueType DEF GInv
  <2>4. AllWork' = (ops \cup {c[m] : m \in 1 .. Len(c)}) \cup {t[m] : m \in 1 .. Len(t)}
    <3>1. Enqueue(ThisQueue, c, t)
      BY <1>3, <2>1 DEF Enqueue
    <3>2. PICK q \in Queues : Enqueue(q, c, t)
      BY <2>3, <3>1
    <3>3. AllWork' = (AllWork \cup {c[m] : m \in 1 .. Len(c)}) \cup {t[m] : m \in 1 .. Len(t)}
      BY <2>2, <2>3, <3>2, WorkEnqueued
    <3>4. QED
      BY <1>1, <3>3
  <2>5. {c[m] : m \in 1 .. Len(c)} = {op} /\ {t[m] : m \in 1 .. Len(t)} = {}
    BY <2>1
  <2>6. QED
    BY <2>4, <2>5
<1>8. Pending(v, T)'
  <2>1. Numbered(ops, n) /\ Runs(ops, n, d, S)
    BY <1>1 DEF DataIs, Pending
  <2>2. op.ev \in Nat /\ op.ev >= n /\ n + 5 \in Nat /\ n + 5 > op.ev
    BY <1>2, <1>3
  <2>3. Runs(ops \cup {op}, n + 5, d, T) /\ Numbered(ops \cup {op}, n + 5)
    BY <1>1, <1>2, <2>1, <2>2, RunsMore
  <2>4. Data(v)' = d
    BY <1>1, <1>3, DataStays DEF dataVars
  <2>5. QED
    BY <1>3, <1>5, <1>7, <2>3, <2>4, PendingNext
<1>9. LogHolds(T)'
  <2>1. PICK kernels, entry :
          /\ kernels = S[<<"result">>].log
          /\ entry = [j \in DOMAIN op.args |-> ReceivedIn(S, op.args[j])]
    OBVIOUS
  <2>2. T[<<"result">>].log = Append(kernels, entry)
    <3>1. T[<<"result">>] = KernelResult(op.args, S)
      BY <1>1, <1>2, ResultsOfKernel
    <3>2. KernelResult(op.args, S).log = Append(kernels, entry)
      BY <1>2, <2>1, ResultsOfKernel
    <3>3. QED
      BY <3>1, <3>2
  <2>3. LogIs(kernels)
    BY <1>3, <2>1 DEF DataIs, LogHolds
  <2>4. Serves(entry, ThisFun, run.index)
    <3>1. ASSUME NEW j \in DOMAIN ThisFun.objs
          PROVE  entry[j].block = BlockAt(ThisFun, j, run.index)
      <4>1. op.args \in Seq(Buffer)
        BY <1>2, DataWorkKinds
      <4>2. j \in 1 .. Len(op.args)
        BY <1>2, <3>1, <4>1
      <4>3. entry[j] = ReceivedIn(S, op.args[j])
        BY <1>2, <2>1, <3>1
      <4>4. QED
        BY <1>2, <4>2, <4>3 DEF ReceivedIn
    <3>2. QED
      BY <1>2, <2>1, <3>1 DEF Serves
  <2>5. Serves(entry, FunOf(Launched + 1), BlockIndex(Launched + 1)) /\ Launched' = Launched + 1
    BY <2>4, NextLaunch
  <2>6. \E X : kernels \in Seq(X) /\ entry \in X
    <3>1. kernels \in Seq(Seq(Entry))
      BY <1>4, <2>1, ResultFields
    <3>2. Seq(Seq(Entry)) \subseteq Seq(Seq(Entry) \cup {entry})
      OBVIOUS
    <3>3. QED
      BY <3>1, <3>2
  <2>7. LogIs(Append(kernels, entry))'
    BY <1>3, <2>3, <2>5, <2>6, LogGrows
  <2>8. QED
    BY <2>2, <2>7 DEF LogHolds
<1>10. DataIs(v, T)'
  BY <1>6, <1>8, <1>9 DEF DataIs
<1>11. QED
  BY <1>10

\* The device or an I/O thread does what is left: what memory will be is what
\* it was going to be.
LEMMA WorkerData ==
  ASSUME GInv, RInv, BacklogsOrdered, NEW size \in Sizes, RaceInv(size, {}),
         NEW v, NEW S, DataIs(v, S), NEW w \in Workers, WorkerStep(w),
         NEW op, op = Backlog(w)[1], NEW e, e = Effect(op, Data(v)),
         NEW u, u = e[<<"result">>].ver
  PROVE  DataIs(u, S)'
<1>1. /\ UNCHANGED <<cacheVars, hostVars>> /\ objects' = objects /\ cached' = cached
      /\ run_queue' = run_queue /\ run' = run /\ pc' = pc
  BY DEF WorkerStep, cacheVars, hostVars
<1>2. Pending(v, S) /\ CacheHolds(S) /\ HostHolds(S) /\ LogHolds(S)
  BY DEF DataIs
<1>3. Pending(u, S)'
  BY <1>2, WorkerPending
<1>4. CacheHolds(S)' /\ HostHolds(S)'
  BY <1>1, <1>2, HoldingStays
<1>5. Launched' = Launched
  BY <1>1 DEF Launched
<1>6. LogHolds(S)'
  BY <1>1, <1>2, <1>5, LogStays
<1>7. QED
  BY <1>3, <1>4, <1>6 DEF DataIs

\* Memory when the client has read block b: the host has the latest version of
\* the block, if it is mutable and no longer than what is read.
ReadInto(S, b, T) ==
  /\ T[<<"result">>] = S[<<"result">>]
  /\ \A x \in HostPlaces : objects[x[2]].mode = "ReadWrite" =>
       /\ T[x] = S[x] \/ T[x] = S[<<"result">>].ver[<<x[2], x[3]>>]
       /\ /\ x[2] = b.oid /\ x[3] = b.bid
          /\ \A s \in Slots : Holds(s, b.oid, b.bid) => cached[s].len <= b.len
          => T[x] = S[<<"result">>].ver[<<x[2], x[3]>>]

\* The client reads a block.
LEMMA ReadData ==
  ASSUME GInv, NEW v, NEW S, DataIs(v, S), ClientRead
  PROVE  \E T : DataIs(v, T)' /\ ReadInto(S, Head(program.reads), T)
<1>1. PICK b : b = Head(program.reads)
  OBVIOUS
<1>2. b \in Block
  <2>1. program.reads \in Seq(Block) /\ program.reads # <<>>
    BY DEF ClientRead, GInv, HInv, HostTypes
  <2>2. QED
    BY <1>1, <2>1
<1>3. /\ ClientQueue \in Queues /\ next_event \in Nat /\ objects' = objects
      /\ cached' = cached /\ pc' \in {"idle", "end"} /\ UNCHANGED dataVars
      /\ WorkTypes /\ BlocksExist /\ TypeOK
  BY DEF ClientQueue, Queues, NumQueues, GInv, HInv, IInv, HostTypes, ClientRead,
     ReadBack, ReadNothing, Return
<1>4. CASE ReadNothing(b.oid, b.bid, b.len) /\ UNCHANGED queueVars
  <2>1. DataIs(v, S)'
    BY <1>3, <1>4, QuietData
  <2>2. ASSUME NEW x \in HostPlaces, objects[x[2]].mode = "ReadWrite",
               x[2] = b.oid, x[3] = b.bid,
               \A s \in Slots : Holds(s, b.oid, b.bid) => cached[s].len <= b.len
        PROVE  S[x] = S[<<"result">>].ver[<<x[2], x[3]>>]
    <3>1. ~Immutable(b.oid)
      BY <2>2 DEF Immutable
    <3>2. ~InCache(b.oid, b.bid)
      <4>1. ASSUME NEW s \in Slots, FoundAt(s, b.oid, b.bid), cached[s].len > b.len
            PROVE  FALSE
        <5>1. cached[s].len <= b.len
          BY <2>2, <4>1 DEF FoundAt
        <5>2. cached[s].len \in Nat /\ b.len \in Nat
          BY <1>2, <1>3 DEF TypeOK, Block
        <5>3. QED
          BY <4>1, <5>1, <5>2
      <4>2. QED
        BY <1>4, <3>1, <4>1 DEF ReadNothing
    <3>3. QED
      BY <2>2, <3>2 DEF DataIs, HostHolds
  <2>3. ReadInto(S, b, S)
    BY <2>2 DEF ReadInto
  <2>4. QED
    BY <1>1, <2>1, <2>3
<1>5. ASSUME NEW s \in Slots, ReadBack(s, b.oid, b.bid, b.len),
             Enqueue(ClientQueue, ReadCommands(s, b, {}, next_event),
                     ReadTasks(s, b, next_event))
      PROVE  \E T : DataIs(v, T)' /\ ReadInto(S, b, T)
  <2>1. /\ cached[s].oid = b.oid /\ cached[s].bid = b.bid /\ b.oid \in Oids
        /\ ~Immutable(b.oid)
    BY <1>5 DEF ReadBack, FoundAt, Holds, Accepted, ValidPtr
  <2>2. cached[s] # NoBlock
    BY <2>1 DEF NoBlock, Oids
  <2>3. InObject(b)
    BY <1>3, <2>1, <2>2 DEF BlocksExist, InObject
  <2>4. objects[b.oid].mode = "ReadWrite"
    <3>1. objects[b.oid] \in [size : Nat, mode : ObjectMode]
      BY <1>3, <2>1, ElementOf DEF Oids, TypeOK
    <3>2. QED
      BY <2>1, <3>1 DEF Immutable, ObjectMode
  <2>5. PICK waits \in SUBSET Nat : waits = {}
    OBVIOUS
  <2>6. Enqueue(ClientQueue, ReadCommands(s, b, waits, next_event),
                ReadTasks(s, b, next_event))
    BY <1>5, <2>5
  <2>7. Pending(v, S) /\ CacheHolds(S) /\ HostHolds(S)
    BY DEF DataIs
  <2>8. PICK T : Returned(S, s, b, T) /\ Pending(v, T)'
    BY <1>2, <1>3, <2>3, <2>4, <2>6, <2>7, ReadPending
  <2>9. S[<<"dev", s>>] =
          Copy(cached[s], S[<<"result">>].ver[<<cached[s].oid, cached[s].bid>>])
    BY <2>1, <2>2, <2>4, <2>7 DEF CacheHolds
  <2>10. T[<<"host", b.oid, b.bid>>] = S[<<"result">>].ver[<<b.oid, b.bid>>]
    <3>1. VersionIn(S[<<"dev", s>>], b) = S[<<"result">>].ver[<<b.oid, b.bid>>]
      BY <2>1, <2>9 DEF VersionIn, Copy
    <3>2. QED
      BY <2>8, <3>1 DEF Returned
  <2>11. CacheHolds(T)
    BY <2>7, <2>8 DEF CacheHolds, Returned
  <2>12. HostHolds(T)
    <3> SUFFICES ASSUME NEW x \in HostPlaces, objects[x[2]].mode = "ReadWrite",
                        ~InCache(x[2], x[3])
                 PROVE  T[x] = T[<<"result">>].ver[<<x[2], x[3]>>]
      BY DEF HostHolds
    <3>1. T[<<"result">>] = S[<<"result">>]
      BY <2>8 DEF Returned
    <3>2. S[x] = S[<<"result">>].ver[<<x[2], x[3]>>]
      BY <2>7 DEF HostHolds
    <3>3. CASE x # <<"host", b.oid, b.bid>>
      BY <2>8, <3>1, <3>2, <3>3 DEF Returned
    <3>4. CASE x = <<"host", b.oid, b.bid>>
      <4>1. x[2] = b.oid /\ x[3] = b.bid
        BY <3>4
      <4>2. QED
        BY <2>10, <3>1, <3>4, <4>1
    <3>5. QED
      BY <3>3, <3>4
  <2>13. CacheHolds(T)' /\ HostHolds(T)'
    BY <1>3, <2>11, <2>12, HoldingStays
  <2>14. LogHolds(T)'
    BY <1>3 DEF LogHolds
  <2>15. DataIs(v, T)'
    BY <2>8, <2>13, <2>14 DEF DataIs
  <2>16. ReadInto(S, b, T)
    <3>1. T[<<"result">>] = S[<<"result">>]
      BY <2>8 DEF Returned
    <3>2. ASSUME NEW x \in HostPlaces, x[2] = b.oid, x[3] = b.bid
          PROVE  x = <<"host", b.oid, b.bid>>
      BY <3>2 DEF HostPlaces
    <3>3. ASSUME NEW x \in HostPlaces, x = <<"host", b.oid, b.bid>>
          PROVE  T[x] = S[<<"result">>].ver[<<x[2], x[3]>>]
      <4>1. x[2] = b.oid /\ x[3] = b.bid
        BY <3>3
      <4>2. QED
        BY <2>10, <3>3, <4>1
    <3>4. \A x \in HostPlaces : x # <<"host", b.oid, b.bid>> => T[x] = S[x]
      BY <2>8 DEF Returned
    <3>5. QED
      BY <3>1, <3>2, <3>3, <3>4 DEF ReadInto
  <2>17. QED
    BY <2>15, <2>16
<1>6. QED
  BY <1>1, <1>4, <1>5 DEF ClientRead

\* When the commands of run have ended there is nothing left to do.
LEMMA AllDone ==
  ASSUME RInv, ReadsAlone, pc \notin {"idle", "end"} \/ program.batches # <<>>,
         \A q \in 0 .. NumQueues - 1 : commands[q] = <<>>
  PROVE  AllWork = {}
<1>1. ASSUME NEW w \in Workers
      PROVE  Backlog(w) = <<>>
  <2>1. PICK q \in Queues, side \in {"device", "io"} : w = <<q, side>>
    BY DEF Workers
  <2>2. CASE q = ClientQueue
    BY <2>1, <2>2 DEF ReadsAlone
  <2>3. CASE q # ClientQueue
    <3>1. commands[q] = <<>>
      BY <2>3 DEF Queues, ClientQueue, NumQueues
    <3>2. io[q] \in Seq(Work) /\ Await(commands[q], io[q])
      BY DEF RInv, QueueTypes, TasksAwaited
    <3>3. io[q] = <<>>
      BY <3>1, <3>2 DEF Await
    <3>4. QED
      BY <2>1, <3>1, <3>3 DEF Backlog
  <2>4. QED
    BY <2>2, <2>3
<1>2. QED
  BY <1>1 DEF AllWork

\* Then memory is what it was going to be.
LEMMA DoneData ==
  ASSUME AllWork = {}, next_event \in Nat, NEW v, NEW S, DataIs(v, S)
  PROVE  Data(v) = S
<1>1. PICK ops, n, d : ops = AllWork /\ n = next_event /\ d = Data(v)
  OBVIOUS
<1>2. Runs(ops, n, d, S) /\ d \in States
  BY <1>1, DataTyped DEF DataIs, Pending
<1>3. ops = {} /\ n \in Nat
  BY <1>1
<1>4. d = S
  BY <1>2, <1>3, RunsNothing
<1>5. QED
  BY <1>1, <1>4

\* Memory with nothing received yet.
Forgotten(S) ==
  [x \in Places |->
     IF x = <<"result">>
     THEN [log |-> <<>>, ver |-> S[<<"result">>].ver, ok |-> S[<<"result">>].ok]
     ELSE S[x]]

\* It differs from S in what the kernels have received only.
LEMMA ForgottenIsState ==
  ASSUME NEW S \in States
  PROVE  /\ Forgotten(S) \in States /\ IsMemory(Forgotten(S))
         /\ \A s \in Slots : /\ Forgotten(S)[<<"dev", s>>] = S[<<"dev", s>>]
                             /\ Forgotten(S)[<<"stage", s>>] = S[<<"stage", s>>]
         /\ \A x \in HostPlaces : Forgotten(S)[x] = S[x]
         /\ Forgotten(S)[<<"result">>] =
              [log |-> <<>>, ver |-> S[<<"result">>].ver, ok |-> S[<<"result">>].ok]
<1>1. PICK T, r : /\ T = Forgotten(S)
                  /\ r = [log |-> <<>>, ver |-> S[<<"result">>].ver,
                          ok |-> S[<<"result">>].ok]
  OBVIOUS
<1>2. IsMemory(T)
  BY <1>1 DEF IsMemory, Forgotten
<1>3. ASSUME NEW x \in Places
      PROVE  T[x] = IF x = <<"result">> THEN r ELSE S[x]
  BY <1>1 DEF Forgotten
<1>4. /\ \A s \in Slots : T[<<"dev", s>>] = S[<<"dev", s>>] /\ T[<<"stage", s>>] = S[<<"stage", s>>]
      /\ T[<<"result">>] = r
  BY <1>3, PlaceKinds
<1>5. \A x \in HostPlaces : T[x] = S[x] /\ x \in Places
  BY <1>3 DEF Places, HostPlaces
<1>6. S \in Typed
  BY DEF States
<1>7. r \in Results
  <2>1. S[<<"result">>].ver \in [Nat \X Nat -> Nat] /\ S[<<"result">>].ok \in BOOLEAN
    BY <1>6, ResultFields
  <2>2. <<>> \in Seq(Seq(Entry))
    OBVIOUS
  <2>3. QED
    BY <1>1, <2>1, <2>2 DEF Results
<1>8. T \in Typed
  <2>1. \A x \in Places : T[x] \in Contents \cup Int \cup Results
    BY <1>3, <1>6, <1>7 DEF Typed
  <2>2. T \in [Places -> Contents \cup Int \cup Results]
    BY <1>2, <2>1 DEF IsMemory
  <2>3. QED
    BY <1>4, <1>5, <1>6, <1>7, <2>2 DEF Typed
<1>9. r.ver = S[<<"result">>].ver /\ r.ok = S[<<"result">>].ok
  BY <1>1
<1>10. T[<<"result">>].ok => Bounded(T)
  <2> SUFFICES ASSUME T[<<"result">>].ok PROVE Bounded(T)
    OBVIOUS
  <2>1. Bounded(S)
    BY <1>4, <1>9 DEF States
  <2>2. QED
    BY <1>4, <1>5, <1>9, <2>1 DEF Bounded
<1>11. T \in States
  BY <1>8, <1>10 DEF States
<1>12. QED
  BY <1>1, <1>2, <1>4, <1>5, <1>11

\* The functions of a batch have been enqueued.
LEMMA StartData ==
  ASSUME GInv, RInv, ReadsAlone, NEW v, NEW S, DataIs(v, S), StartBatch
  PROVE  \E T : DataIs(v, T)'
<1>1. /\ pc = "idle" /\ program.batches # <<>> /\ pc' = "register" /\ log' = <<>>
      /\ objects' = objects /\ cached' = cached /\ UNCHANGED queueVars
      /\ memory' = memory /\ stage' = stage /\ dev' = dev /\ run' = run
      /\ next_event \in Nat
  BY DEF StartBatch, cacheVars, GInv, HInv, HostTypes
<1>2. AllWork = {}
  <2>1. \A q \in 0 .. NumQueues - 1 : commands[q] = <<>>
    BY <1>1 DEF RInv, Quiet
  <2>2. QED
    BY <1>1, <2>1, AllDone
<1>3. Data(v) = S /\ S \in States /\ S[<<"result">>].ok
  BY <1>1, <1>2, DoneData, DataTyped
<1>4. PICK T : T = Forgotten(S)
  OBVIOUS
<1>5. S[<<"result">>] = [log |-> log, ver |-> v, ok |-> TRUE]
  BY <1>3, DataPlaces
<1>6. T[<<"result">>] = [log |-> <<>>, ver |-> v, ok |-> TRUE]
  <2>1. S[<<"result">>].ver = v /\ S[<<"result">>].ok = TRUE
    BY <1>5
  <2>2. QED
    BY <1>3, <1>4, <2>1, ForgottenIsState
<1>7. /\ T \in States /\ IsMemory(T)
      /\ \A s \in Slots : T[<<"dev", s>>] = S[<<"dev", s>>] /\ T[<<"stage", s>>] = S[<<"stage", s>>]
      /\ \A x \in HostPlaces : T[x] = S[x]
  BY <1>3, <1>4, ForgottenIsState
<1>8. Data(v)' = T
  <2>1. PICK e : e = Data(v)'
    OBVIOUS
  <2>2. /\ e = [x \in Places |-> e[x]]
        /\ \A s \in Slots : e[<<"dev", s>>] = dev'[s] /\ e[<<"stage", s>>] = stage'[s]
        /\ \A x \in HostPlaces : e[x] = memory'[x[2]][x[3]]
        /\ e[<<"result">>] = [log |-> log', ver |-> v, ok |-> TRUE]
    BY <1>1, <2>1, DataPlacesNext
  <2>3. /\ \A s \in Slots : T[<<"dev", s>>] = dev[s] /\ T[<<"stage", s>>] = stage[s]
        /\ \A x \in HostPlaces : T[x] = memory[x[2]][x[3]]
    <3>1. /\ \A s \in Slots : S[<<"dev", s>>] = dev[s] /\ S[<<"stage", s>>] = stage[s]
          /\ \A x \in HostPlaces : S[x] = memory[x[2]][x[3]]
      BY <1>3, DataPlaces
    <3>2. QED
      BY <1>7, <3>1
  <2>4. IsMemory(e)
    BY <2>2 DEF IsMemory
  <2>5. e[<<"result">>] = T[<<"result">>]
    BY <1>1, <1>6, <2>2
  <2>6. /\ \A s \in Slots : /\ e[<<"dev", s>>] = T[<<"dev", s>>]
                            /\ e[<<"stage", s>>] = T[<<"stage", s>>]
        /\ \A x \in HostPlaces : e[x] = T[x]
    BY <1>1, <2>2, <2>3
  <2>7. e = T
    BY <1>7, <2>4, <2>5, <2>6, SameContents
  <2>8. QED
    BY <2>1, <2>7
<1>9. Pending(v, T)'
  <2>1. PICK ops, n : ops = AllWork /\ n = next_event
    OBVIOUS
  <2>2. ops = {} /\ n \in Nat
    BY <1>1, <1>2, <2>1
  <2>3. Numbered(ops, n) /\ Runs(ops, n, T, T)
    BY <1>7, <2>2, RunsNothing
  <2>4. AllWork' = ops /\ next_event' = n
    BY <1>1, <2>1 DEF AllWork, Backlog, queueVars
  <2>5. T[<<"result">>].ok
    BY <1>6
  <2>6. QED
    BY <1>1, <1>8, <2>3, <2>4, <2>5, PendingNext
<1>10. CacheHolds(T)' /\ HostHolds(T)'
  <2>1. CacheHolds(S) /\ HostHolds(S)
    BY DEF DataIs
  <2>2. /\ \A s \in Slots : T[<<"dev", s>>] = S[<<"dev", s>>]
        /\ \A x \in HostPlaces : T[x] = S[x]
    BY <1>3, <1>4, ForgottenIsState
  <2>3. T[<<"result">>].ver = S[<<"result">>].ver
    BY <1>5, <1>6
  <2>4. CacheHolds(T) /\ HostHolds(T)
    BY <2>1, <2>2, <2>3, SameHolds
  <2>5. QED
    BY <1>1, <2>4, HoldingStays
<1>11. LogHolds(T)'
  <2>1. T[<<"result">>].log = <<>>
    BY <1>6
  <2>2. Launched' = 0
    <3>1. run'.index = 0
      BY <1>1, NothingInFlight DEF GInv, HInv
    <3>2. Launched' = run'.index * Len(run_queue') + 0
      BY <1>1 DEF Launched
    <3>3. Len(run_queue') \in Nat
      BY GNext, StartBatchTypes DEF GInv, HInv, HostTypes
    <3>4. QED
      BY <3>1, <3>2, <3>3
  <2>3. PICK kernels : kernels = T[<<"result">>].log
    OBVIOUS
  <2>4. LogIs(kernels)'
    BY <2>1, <2>2, <2>3 DEF LogIs
  <2>5. QED
    BY <2>3, <2>4 DEF LogHolds
<1>12. DataIs(v, T)'
  BY <1>9, <1>10, <1>11 DEF DataIs
<1>13. QED
  BY <1>12

\* Before the first run no block has been given to a kernel.
NoVersions == [p \in Nat \X Nat |-> 0]

\* Memory as it is, since nothing is left to do.
LEMMA InitData ==
  ASSUME SchedulerInit
  PROVE  DataIs(NoVersions, Data(NoVersions))
<1>1. /\ commands = [q \in Queues |-> <<>>] /\ io = [q \in Queues |-> <<>>]
      /\ next_event = 1 /\ pc = "idle" /\ log = <<>>
      /\ stage = [s \in Slots |-> Garbage] /\ dev = [s \in Slots |-> Garbage]
      /\ memory = [o \in DOMAIN objects |-> [off \in 0 .. objects[o].size - 1 |-> 0]]
      /\ cached = [s \in Slots |-> NoBlock]
  BY DEF SchedulerInit, CacheEmpty
<1>2. objects \in Seq([size : Nat, mode : ObjectMode])
  BY SchedulerInitInv DEF HInv, IInv, TypeOK
<1>3. PICK v, d : v = NoVersions /\ d = Data(v)
  OBVIOUS
<1>4. v \in [Nat \X Nat -> Nat] /\ \A p \in Nat \X Nat : v[p] = 0
  BY <1>3 DEF NoVersions
<1>5. /\ \A s \in Slots : d[<<"dev", s>>] = Garbage /\ d[<<"stage", s>>] = Garbage
      /\ \A x \in HostPlaces : d[x] = 0
      /\ d[<<"result">>] = [log |-> <<>>, ver |-> v, ok |-> TRUE]
  <2>1. /\ \A s \in Slots : d[<<"dev", s>>] = dev[s] /\ d[<<"stage", s>>] = stage[s]
        /\ \A x \in HostPlaces : d[x] = memory[x[2]][x[3]]
        /\ d[<<"result">>] = [log |-> log, ver |-> v, ok |-> TRUE]
    BY <1>3, DataPlaces
  <2>2. \A x \in HostPlaces : memory[x[2]][x[3]] = 0
    BY <1>1, <1>2 DEF HostPlaces, Oids
  <2>3. QED
    BY <1>1, <2>1, <2>2
<1>6. Garbage \in Contents /\ Garbage.oid = 0 /\ Garbage.bid = 0 /\ Garbage.ver = 0
  BY DEF Garbage, Contents
<1>7. PICK r : r = [log |-> <<>>, ver |-> v, ok |-> TRUE]
  OBVIOUS
<1>8. r \in Results /\ r.ver = v /\ r.ok = TRUE
  <2>1. <<>> \in Seq(Seq(Entry))
    OBVIOUS
  <2>2. QED
    BY <1>4, <1>7, <2>1 DEF Results
<1>9. d[<<"result">>] = r
  BY <1>5, <1>7
<1>10. d \in Typed
  <2>1. d = [x \in Places |-> d[x]]
    BY <1>3 DEF Data
  <2>2. \A x \in Places : d[x] \in Contents \cup Int \cup Results
    <3> SUFFICES ASSUME NEW x \in Places PROVE d[x] \in Contents \cup Int \cup Results
      OBVIOUS
    <3>1. CASE x \in HostPlaces
      BY <1>5, <3>1
    <3>2. CASE x = <<"result">>
      BY <1>8, <1>9, <3>2
    <3>3. CASE x \in {"dev", "stage"} \X Slots
      <4>1. PICK k \in {"dev", "stage"}, s \in Slots : x = <<k, s>>
        BY <3>3
      <4>2. d[x] = Garbage
        BY <1>5, <4>1
      <4>3. QED
        BY <1>6, <4>2
    <3>4. QED
      BY <3>1, <3>2, <3>3 DEF Places
  <2>3. d \in [Places -> Contents \cup Int \cup Results]
    BY <2>1, <2>2
  <2>4. QED
    BY <1>5, <1>6, <1>8, <1>9, <2>3 DEF Typed
<1>11. Bounded(d)
  <2>1. d[<<"result">>].ver = v
    BY <1>8, <1>9
  <2>2. <<0, 0>> \in Nat \X Nat
    OBVIOUS
  <2>3. \A s \in Slots : \A k \in {"dev", "stage"} :
           d[<<k, s>>].ver <= v[<<d[<<k, s>>].oid, d[<<k, s>>].bid>>]
    <3> SUFFICES ASSUME NEW s \in Slots, NEW k \in {"dev", "stage"}
                 PROVE  d[<<k, s>>].ver <= v[<<d[<<k, s>>].oid, d[<<k, s>>].bid>>]
      OBVIOUS
    <3>1. d[<<k, s>>] = Garbage
      BY <1>5
    <3>2. QED
      BY <1>4, <1>6, <2>2, <3>1
  <2>4. \A x \in HostPlaces : <<x[2], x[3]>> \in Nat \X Nat
    BY DEF HostPlaces
  <2>5. \A o \in Oids : \A off \in Nat : <<o, off>> \in Nat \X Nat
    BY DEF Oids
  <2>6. QED
    BY <1>4, <1>5, <2>1, <2>3, <2>4, <2>5 DEF Bounded
<1>12. d \in States
  BY <1>10, <1>11 DEF States
<1>13. Pending(v, d)
  <2>1. PICK ops, n : ops = AllWork /\ n = next_event
    OBVIOUS
  <2>2. ops = {}
    <3>1. \A w \in Workers : Backlog(w) = <<>>
      BY <1>1 DEF Workers, Backlog
    <3>2. QED
      BY <2>1, <3>1 DEF AllWork
  <2>3. n \in Nat
    BY <1>1, <2>1
  <2>4. Numbered(ops, n) /\ Runs(ops, n, d, d)
    BY <1>12, <2>2, <2>3, RunsNothing
  <2>5. d[<<"result">>].ok
    BY <1>8, <1>9
  <2>6. QED
    BY <1>3, <2>1, <2>4, <2>5 DEF Pending
<1>14. CacheHolds(d) /\ HostHolds(d)
  <2>1. CacheHolds(d)
    BY <1>1 DEF CacheHolds
  <2>2. \A x \in HostPlaces : <<x[2], x[3]>> \in Nat \X Nat
    BY DEF HostPlaces
  <2>3. d[<<"result">>].ver = v
    BY <1>8, <1>9
  <2>4. HostHolds(d)
    BY <1>4, <1>5, <2>2, <2>3 DEF HostHolds
  <2>5. QED
    BY <2>1, <2>4
<1>15. LogHolds(d)
  BY <1>1 DEF LogHolds
<1>16. DataIs(v, d)
  BY <1>13, <1>14, <1>15 DEF DataIs
<1>17. QED
  BY <1>3, <1>16

\* Whatever is done next, as long as no run fails.
LEMMA MemoryStep ==
  ASSUME GInv, RInv, FitInv, run_ret = 1, BacklogsOrdered, NEW size \in Sizes,
         RaceInv(size, {}), ActivatingCut(size), NEW v, NEW S, DataIs(v, S),
         [SchedulerNext]_vars
  PROVE  \E u, T : DataIs(u, T)'
<1>1. objects' = objects
  BY CacheSteps
<1>2. run_ret' = 1
  BY RetStays
<1>3. CASE \/ RegisterOk \/ ActivateAgain \/ ActivateHit \/ Deactivate \/ Finish \/ ClientEnds
           \/ UNCHANGED vars
  <2>1. DataIs(v, S)'
    BY <1>1, <1>3, OtherData
  <2>2. QED
    BY <2>1
<1>4. CASE ActivateMiss
  <2>1. PICK T : DataIs(v, T)'
    BY <1>4, MissData
  <2>2. QED
    BY <2>1
<1>5. CASE RunFunction
  <2>1. PICK T : DataIs(v, T)'
    BY <1>5, LaunchData DEF RaceInv
  <2>2. QED
    BY <2>1
<1>6. CASE ClientRead
  <2>1. PICK T : DataIs(v, T)'
    BY <1>6, ReadData
  <2>2. QED
    BY <2>1
<1>7. CASE StartBatch
  <2>1. PICK T : DataIs(v, T)'
    BY <1>7, StartData DEF RaceInv
  <2>2. QED
    BY <2>1
<1>8. CASE \E q \in Queues : DeviceStep(q) \/ IOThreadStep(q)
  <2>1. PICK q \in Queues : DeviceStep(q) \/ IOThreadStep(q)
    BY <1>8
  <2>2. PICK w \in Workers : WorkerStep(w)
    BY <2>1, WorkerSteps DEF GInv
  <2>3. PICK op, e, u : /\ op = Backlog(w)[1] /\ e = Effect(op, Data(v))
                        /\ u = e[<<"result">>].ver
    OBVIOUS
  <2>4. DataIs(u, S)'
    BY <2>2, <2>3, WorkerData
  <2>5. QED
    BY <2>4
<1>9. CASE RegisterFails \/ ActivateFails
  BY <1>2, <1>9 DEF RegisterFails, ActivateFails, Fail
<1>10. QED
  BY <1>3, <1>4, <1>5, <1>6, <1>7, <1>8, <1>9 DEF SchedulerNext, HostStep, Done

-----------------------------------------------------------------------------
(***************************************************************************)
(* The latest version of a block                                           *)
(***************************************************************************)
\* Where a mutable block is when everything is done.
LEMMA BlockHeld ==
  ASSUME NEW S, CacheHolds(S), HostHolds(S), NEW o \in Oids, NEW off \in Nat,
         off < objects[o].size, objects[o].mode = "ReadWrite", objects[o].size \in Nat
  PROVE  HoldsLatest(S, o, off)
<1>1. CASE InCache(o, off)
  <2>1. PICK s \in Slots : cached[s].oid = o /\ cached[s].bid = off
    BY <1>1 DEF InCache, Holds
  <2>2. cached[s] # NoBlock
    BY <2>1 DEF NoBlock, Oids
  <2>3. S[<<"dev", s>>] =
          Copy(cached[s], S[<<"result">>].ver[<<cached[s].oid, cached[s].bid>>])
    BY <2>1, <2>2 DEF CacheHolds
  <2>4. /\ S[<<"dev", s>>].oid = o /\ S[<<"dev", s>>].bid = off
        /\ S[<<"dev", s>>].ver = S[<<"result">>].ver[<<o, off>>]
    BY <2>1, <2>3 DEF Copy
  <2>5. QED
    BY <2>4 DEF HoldsLatest
<1>2. CASE ~InCache(o, off)
  <2>1. PICK x : x = <<"host", o, off>>
    OBVIOUS
  <2>2. x \in HostPlaces /\ x[2] = o /\ x[3] = off
    BY <2>1 DEF HostPlaces, Oids
  <2>3. S[x] = S[<<"result">>].ver[<<o, off>>]
    BY <1>2, <2>2 DEF HostHolds
  <2>4. QED
    BY <2>1, <2>2, <2>3 DEF HoldsLatest
<1>3. QED
  BY <1>1, <1>2

\* The largest element.
LEMMA MaxIs ==
  ASSUME NEW T, T \subseteq Int, NEW m \in T, \A y \in T : y <= m
  PROVE  Max(T) = m
<1>1. \A y \in T : m >= y
  OBVIOUS
<1>2. Max(T) \in T /\ \A y \in T : Max(T) >= y
  BY <1>1 DEF Max
<1>3. Max(T) \in Int /\ Max(T) >= m /\ Max(T) <= m
  BY <1>2
<1>4. QED
  BY <1>3

\* It is the number of times a kernel has been given the block.
LEMMA LatestIs ==
  ASSUME DataTypes, TypeOK, NEW v, NEW S, DataIs(v, S), NEW o \in Oids,
         NEW off \in 0 .. objects[o].size - 1
  PROVE  Latest(o, off) = v[<<o, off>>] /\ v[<<o, off>>] \in Nat
<1>1. PICK d : d = Data(v)
  OBVIOUS
<1>2. d \in States /\ S \in States /\ S[<<"result">>].ok
  BY <1>1, DataTyped
<1>3. /\ \A s \in Slots : d[<<"dev", s>>] = dev[s] /\ d[<<"stage", s>>] = stage[s]
      /\ \A x \in HostPlaces : d[x] = memory[x[2]][x[3]]
      /\ d[<<"result">>] = [log |-> log, ver |-> v, ok |-> TRUE]
  BY <1>1, DataPlaces
<1>4. d[<<"result">>].ver = v /\ d[<<"result">>].ok = TRUE
  BY <1>3
<1>5. Bounded(d)
  BY <1>2, <1>4 DEF States
<1>6. objects[o].mode \in ObjectMode /\ objects[o].size \in Nat /\ off \in Nat
  <2>1. objects[o] \in [size : Nat, mode : ObjectMode]
    BY ElementOf DEF Oids, TypeOK
  <2>2. QED
    BY <2>1
<1>7. PICK x : x = <<"host", o, off>>
  OBVIOUS
<1>8. x \in HostPlaces /\ x[2] = o /\ x[3] = off
  BY <1>6, <1>7 DEF HostPlaces, Oids
<1>9. PICK m : m = v[<<o, off>>]
  OBVIOUS
<1>10. m \in Nat
  <2>1. v \in [Nat \X Nat -> Nat]
    BY <1>2, <1>4, ResultFields DEF States
  <2>2. <<o, off>> \in Nat \X Nat
    BY <1>6 DEF Oids
  <2>3. QED
    BY <1>9, <2>1, <2>2
<1>11. PICK block : block = [oid |-> o, bid |-> off]
  OBVIOUS
<1>12. PICK A, B : /\ A = {VersionIn(stage[s], block) : s \in Slots}
                   /\ B = {VersionIn(dev[s], block) : s \in Slots}
  OBVIOUS
<1>13. Latest(o, off) = Max({memory[o][off]} \cup A \cup B)
  BY <1>11, <1>12 DEF Latest
<1>14. memory[o][off] \in Int /\ memory[o][off] <= m /\ d[x] = memory[o][off]
  <2>1. memory[o][off] \in Int
    BY DEF DataTypes
  <2>2. d[x] = memory[o][off]
    BY <1>3, <1>8
  <2>3. d[x] <= v[<<x[2], x[3]>>]
    BY <1>4, <1>5, <1>8 DEF Bounded
  <2>4. QED
    BY <1>8, <1>9, <2>1, <2>2, <2>3
<1>15. ASSUME NEW c, c \in Contents, c.ver <= v[<<c.oid, c.bid>>]
       PROVE  VersionIn(c, block) \in Int /\ VersionIn(c, block) <= m
  <2>1. c.ver \in Int
    BY <1>15 DEF Contents
  <2>2. CASE c.oid = block.oid /\ c.bid = block.bid
    <3>1. c.oid = o /\ c.bid = off
      BY <1>11, <2>2
    <3>2. QED
      BY <1>9, <1>15, <2>1, <2>2, <3>1 DEF VersionIn
  <2>3. CASE ~(c.oid = block.oid /\ c.bid = block.bid)
    BY <1>10, <2>3 DEF VersionIn
  <2>4. QED
    BY <2>2, <2>3
<1>16. ASSUME NEW s \in Slots
       PROVE  /\ stage[s] \in Contents /\ stage[s].ver <= v[<<stage[s].oid, stage[s].bid>>]
              /\ dev[s] \in Contents /\ dev[s].ver <= v[<<dev[s].oid, dev[s].bid>>]
  <2>1. \A k \in {"dev", "stage"} : d[<<k, s>>].ver <= v[<<d[<<k, s>>].oid, d[<<k, s>>].bid>>]
    BY <1>4, <1>5 DEF Bounded
  <2>2. d[<<"dev", s>>] = dev[s] /\ d[<<"stage", s>>] = stage[s]
    BY <1>3
  <2>3. stage[s] \in Contents /\ dev[s] \in Contents
    BY DEF DataTypes
  <2>4. QED
    BY <2>1, <2>2, <2>3
<1>17. \A y \in A \cup B : y \in Int /\ y <= m
  BY <1>12, <1>15, <1>16
<1>18. m \in {memory[o][off]} \cup A \cup B
  <2>1. CASE objects[o].mode # "ReadWrite"
    <3>1. d[x] = 0
      BY <1>5, <1>8, <2>1 DEF Bounded
    <3>2. m = 0
      BY <1>4, <1>5, <1>6, <1>9, <2>1 DEF Bounded
    <3>3. QED
      BY <1>14, <3>1, <3>2
  <2>2. CASE objects[o].mode = "ReadWrite"
    <3>1. HoldsLatest(S, o, off)
      BY <1>6, <2>2, BlockHeld DEF DataIs
    <3>2. PICK ops, n : ops = AllWork /\ n = next_event
      OBVIOUS
    <3>3. Numbered(ops, n) /\ Runs(ops, n, d, S)
      BY <1>1, <3>2 DEF DataIs, Pending
    <3>4. HoldsLatest(d, o, off)
      BY <1>2, <1>6, <2>2, <3>1, <3>3, RunsLatest
    <3>5. CASE d[<<"host", o, off>>] = m
      BY <1>7, <1>14, <3>5
    <3>6. CASE \E s \in Slots : \E k \in {"dev", "stage"} :
                 d[<<k, s>>].oid = o /\ d[<<k, s>>].bid = off /\ d[<<k, s>>].ver = m
      <4>1. PICK s \in Slots, k \in {"dev", "stage"} :
                 d[<<k, s>>].oid = o /\ d[<<k, s>>].bid = off /\ d[<<k, s>>].ver = m
        BY <3>6
      <4>2. VersionIn(d[<<k, s>>], block) = m
        BY <1>11, <4>1 DEF VersionIn
      <4>3. d[<<"dev", s>>] = dev[s] /\ d[<<"stage", s>>] = stage[s]
        BY <1>3
      <4>4. VersionIn(dev[s], block) = m \/ VersionIn(stage[s], block) = m
        BY <4>2, <4>3
      <4>5. QED
        BY <1>12, <4>4
    <3>7. QED
      BY <1>4, <1>9, <3>4, <3>5, <3>6 DEF HoldsLatest
  <2>3. QED
    BY <2>1, <2>2
<1>19. Max({memory[o][off]} \cup A \cup B) = m
  <2>1. PICK T : T = {memory[o][off]} \cup A \cup B
    OBVIOUS
  <2>2. T \subseteq Int /\ m \in T /\ \A y \in T : y <= m
    BY <1>14, <1>17, <1>18, <2>1
  <2>3. Max(T) = m
    BY <2>2, MaxIs
  <2>4. QED
    BY <2>1, <2>3
<1>20. QED
  BY <1>9, <1>10, <1>13, <1>19

\* All of them.
LatestIsIn(v) ==
  \A o \in Oids : \A off \in 0 .. objects[o].size - 1 :
     Latest(o, off) = v[<<o, off>>] /\ v[<<o, off>>] \in Nat

\* Now, and after a step.
LEMMA LatestOfData ==
  ASSUME NEW v, NEW S
  PROVE  /\ DataTypes /\ TypeOK /\ DataIs(v, S) => LatestIsIn(v)
         /\ DataTypes' /\ TypeOK' /\ DataIs(v, S)' => LatestIsIn(v)'
<1>1. DataTypes /\ TypeOK /\ DataIs(v, S) => LatestIsIn(v)
  BY LatestIs DEF LatestIsIn
<1>2. (DataTypes /\ TypeOK /\ DataIs(v, S) => LatestIsIn(v))'
  BY <1>1, PTL
<1>3. QED
  BY <1>1, <1>2

-----------------------------------------------------------------------------
(***************************************************************************)
(* run applies every function to every block once                          *)
(***************************************************************************)
\* As long as run is there it has functions.
LEMMA HasFunctions ==
  ASSUME HInv, IndexAtEnd, pc \notin {"idle", "end"}
  PROVE  /\ run_queue # <<>> /\ run_queue \in Seq(Runnable)
         /\ Len(run_queue) \in Nat \ {0} /\ 1 \in 1 .. Len(run_queue)
<1>1. run_queue \in Seq(Runnable) /\ pc \in Phases
  BY DEF HInv, HostTypes
<1>2. CASE pc = "register"
  BY <1>1, <1>2 DEF HInv, Position
<1>3. CASE pc \in {"activate", "run", "deactivate"}
  BY <1>1, <1>3 DEF HInv, Position
<1>4. CASE pc \in {"drain", "finish"}
  BY <1>1, <1>4 DEF IndexAtEnd
<1>5. QED
  BY <1>1, <1>2, <1>3, <1>4 DEF Phases

\* All objects of all functions have as many blocks as the first.
LEMMA SameBlocks ==
  ASSUME HInv, FitInv, IndexAtEnd, pc \notin {"idle", "end"},
         NEW k \in 1 .. Len(run_queue), NEW j \in 1 .. Len(run_queue[k].objs)
  PROVE  /\ NumBlocks(run_queue[k], j) = NumBlocks(run_queue[1], 1)
         /\ NumBlocks(run_queue[1], 1) \in Nat
         /\ run_queue[k].objs[j] \in Oids
         /\ objects[run_queue[k].objs[j]].size \in Nat \ {0}
         /\ run_queue[k].steps[j] \in Nat \ {0}
<1>1. PICK n \in Nat : BatchFits(run_queue, objects, n)
  BY DEF FitInv, AllFit
<1>2. run_queue \in Seq(Runnable) /\ 1 \in 1 .. Len(run_queue)
  BY HasFunctions
<1>3. ASSUME NEW m \in 1 .. Len(run_queue), NEW l \in 1 .. Len(run_queue[m].objs)
      PROVE  NumBlocks(run_queue[m], l) = n /\ run_queue[m].objs[l] \in Oids
  BY <1>1, <1>3 DEF BatchFits, NumBlocks, Oids
<1>4. NumBlocks(run_queue[1], 1) = n
  <2>1. run_queue[1] \in Runnable
    BY <1>2, ElementOf
  <2>2. 1 \in 1 .. Len(run_queue[1].objs)
    BY <2>1, RunnableHasObject
  <2>3. QED
    BY <1>2, <1>3, <2>2
<1>5. objects[run_queue[k].objs[j]].size \in Nat \ {0}
  <2>1. objects \in Seq([size : Nat \ {0}, mode : ObjectMode])
    BY DEF FitInv, AllFit, HInv, HostTypes
  <2>2. run_queue[k].objs[j] \in 1 .. Len(objects)
    BY <1>3 DEF Oids
  <2>3. objects[run_queue[k].objs[j]] \in [size : Nat \ {0}, mode : ObjectMode]
    BY <2>1, <2>2, ElementOf
  <2>4. QED
    BY <2>3
<1>6. run_queue[k].steps[j] \in Nat \ {0}
  <2>1. run_queue[k] \in Runnable
    BY <1>2, ElementOf
  <2>2. run_queue[k].steps \in Seq(Nat \ {0}) /\ Len(run_queue[k].steps) = Len(run_queue[k].objs)
    BY <2>1 DEF Runnable
  <2>3. QED
    BY <2>2, ElementOf
<1>7. QED
  BY <1>1, <1>3, <1>4, <1>5, <1>6

\* The kernels enqueued so far are those of the indices before this one, and
\* some of this one.
LEMMA LaunchedIs ==
  ASSUME RInv, FitInv, IndexAtEnd, pc \notin {"idle", "end", "register"},
         NEW L, L = Len(run_queue), NEW n, n = NumBlocks(run_queue[1], 1)
  PROVE  \E i \in Nat : \E r \in Nat :
           /\ Launched = i * L + r /\ i = run.index
           /\ (i < n /\ r < L) \/ (i = n /\ r = 0)
           /\ pc = "finish" => i = n /\ r = 0
<1>1. HInv /\ pc \in Phases
  BY DEF RInv, HInv, HostTypes
<1>2. run.index \in Nat /\ run.fun \in Nat \ {0}
  BY <1>1, RunFields
<1>3. L \in Nat \ {0}
  BY <1>1, HasFunctions
<1>4. CASE pc = "run"
  <2>1. Launched = run.index * L + (run.fun - 1)
    BY <1>4 DEF Launched
  <2>2. run.fun \in 1 .. L /\ run.index < n
    BY <1>1, <1>4 DEF HInv, Position, FitInv, IndexInRange
  <2>3. run.fun - 1 \in Nat /\ run.fun - 1 < L
    BY <1>3, <2>2
  <2>4. PICK i \in Nat, r \in Nat : i = run.index /\ r = run.fun - 1
    BY <1>2, <2>3
  <2>5. Launched = i * L + r /\ i < n /\ r < L /\ pc # "finish"
    BY <1>4, <2>1, <2>2, <2>3, <2>4
  <2>6. QED
    BY <2>4, <2>5
<1>5. CASE pc \in {"activate", "deactivate"}
  <2>1. Launched = run.index * L + 0
    BY <1>5 DEF Launched
  <2>2. run.index < n
    BY <1>5 DEF FitInv, IndexInRange
  <2>3. PICK i \in Nat, r \in Nat : i = run.index /\ r = 0
    BY <1>2
  <2>4. Launched = i * L + r /\ i < n /\ r < L /\ pc # "finish"
    BY <1>3, <1>5, <2>1, <2>2, <2>3
  <2>5. QED
    BY <2>3, <2>4
<1>6. CASE pc \in {"drain", "finish"}
  <2>1. Launched = run.index * L + 0
    BY <1>6 DEF Launched
  <2>2. run.index = n
    BY <1>6 DEF IndexAtEnd
  <2>3. PICK i \in Nat, r \in Nat : i = run.index /\ r = 0
    BY <1>2
  <2>4. Launched = i * L + r /\ i = n
    BY <2>1, <2>2, <2>3
  <2>5. QED
    BY <2>3, <2>4
<1>7. QED
  BY <1>1, <1>4, <1>5, <1>6 DEF Phases

\* Each of them has a function, and the number of a block.
LEMMA KernelIndex ==
  ASSUME RInv, FitInv, IndexAtEnd, pc \notin {"idle", "end", "register"},
         NEW p \in Nat, p < Launched
  PROVE  /\ p \div Len(run_queue) \in Nat
         /\ p \div Len(run_queue) < NumBlocks(run_queue[1], 1)
         /\ (p % Len(run_queue)) + 1 \in 1 .. Len(run_queue)
<1>1. PICK L, n : L = Len(run_queue) /\ n = NumBlocks(run_queue[1], 1)
  OBVIOUS
<1>2. HInv /\ L \in Nat \ {0}
  BY <1>1, HasFunctions DEF RInv
<1>3. PICK i \in Nat, r \in Nat : /\ Launched = i * L + r
                                  /\ (i < n /\ r < L) \/ (i = n /\ r = 0)
  BY <1>1, LaunchedIs
<1>4. n \in Nat
  <2>1. run_queue \in Seq(Runnable) /\ 1 \in 1 .. Len(run_queue)
    BY <1>2, HasFunctions
  <2>2. run_queue[1] \in Runnable
    BY <2>1, ElementOf
  <2>3. 1 \in 1 .. Len(run_queue[1].objs)
    BY <2>2, RunnableHasObject
  <2>4. QED
    BY <1>1, <1>2, <2>1, <2>3, SameBlocks
<1>5. PICK q, s : q = p \div L /\ s = p % L
  OBVIOUS
<1>6. q \in Int /\ s \in 0 .. L - 1 /\ p = L * q + s
  BY <1>2, <1>5, Quotient
<1>7. 0 <= q
  <2>1. SUFFICES ASSUME q < 0 PROVE FALSE
    BY <1>6
  <2>2. L * q + L <= L * 0
    BY <1>2, <1>6, <2>1, ProductsInOrder
  <2>3. PICK x \in Int : x = L * q
    BY <1>2, <1>6
  <2>4. L * 0 = 0
    BY <1>2
  <2>5. QED
    BY <1>2, <1>6, <2>2, <2>3, <2>4
<1>8. q < n
  <2>1. SUFFICES ASSUME n <= q PROVE FALSE
    BY <1>4, <1>6
  <2>2. i * L = L * i /\ i * L \in Nat /\ L * n \in Nat /\ L * q \in Int
    BY <1>2, <1>3, <1>4, <1>6
  <2>3. L * n <= L * q
    <3>1. CASE n = q
      BY <2>2, <3>1
    <3>2. CASE n < q
      <4>1. L * n + L <= L * q
        BY <1>2, <1>4, <1>6, <3>2, ProductsInOrder
      <4>2. PICK x \in Int, y \in Int : x = L * n /\ y = L * q
        BY <2>2
      <4>3. QED
        BY <1>2, <4>1, <4>2
    <3>3. QED
      BY <1>4, <1>6, <2>1, <3>1, <3>2
  <2>4. i * L + r <= L * n
    <3>1. CASE i = n /\ r = 0
      BY <2>2, <3>1
    <3>2. CASE i < n /\ r < L
      <4>1. L * i + L <= L * n
        BY <1>2, <1>3, <1>4, <3>2, ProductsInOrder
      <4>2. PICK x \in Int, y \in Int : x = L * i /\ y = L * n
        BY <2>2
      <4>3. QED
        BY <1>2, <1>3, <2>2, <3>2, <4>1, <4>2
    <3>3. QED
      BY <1>3, <3>1, <3>2
  <2>5. PICK x \in Int, y \in Int, z \in Int : x = L * n /\ y = L * q /\ z = i * L
    BY <2>2
  <2>6. QED
    BY <1>3, <1>6, <2>3, <2>4, <2>5
<1>9. q \in Nat /\ s + 1 \in 1 .. L
  BY <1>2, <1>6, <1>7
<1>10. QED
  BY <1>1, <1>5, <1>8, <1>9

\* The variables of ZipMap.
VersionNow == [o \in DOMAIN objects |-> [off \in DOMAIN memory[o] |-> Latest(o, off)]]
BatchNow == IF pc \in {"idle", "end"} THEN <<>> ELSE run_queue

\* Nothing ZipMap sees has changed.
LEMMA MapStutter ==
  ASSUME objects' = objects, VersionNow' = VersionNow, log' = log, BatchNow' = BatchNow
  PROVE  UNCHANGED Map!zipVars
BY DEF Map!zipVars, VersionNow, BatchNow

\* Without work on memory the versions stay.
LEMMA VersionsStay ==
  ASSUME objects' = objects, UNCHANGED <<memory, stage, dev>>
  PROVE  VersionNow' = VersionNow
BY DEF VersionNow, Latest

\* The first state.
LEMMA MapInit ==
  ASSUME SchedulerInit
  PROVE  Map!ZipInit
BY DEF SchedulerInit, Map!ZipInit

\* A sequence of other elements.
LEMMA SequenceOf ==
  ASSUME NEW X, NEW Y, NEW c \in Seq(X), \A k \in 1 .. Len(c) : c[k] \in Y
  PROVE  c \in Seq(Y)
<1>1. PICK n \in Nat : n = Len(c)
  OBVIOUS
<1>2. c = [k \in 1 .. n |-> c[k]]
  BY <1>1
<1>3. c \in [1 .. n -> Y]
  BY <1>1, <1>2
<1>4. QED
  BY <1>3, SeqDef

\* run begins: the functions it is to apply are functions on registered objects.
LEMMA MapBegin ==
  ASSUME RInv, HInv', FitInv', StartBatch
  PROVE  Map!Begin
<1>1. /\ pc = "idle" /\ pc' = "register" /\ log' = <<>> /\ objects' = objects
      /\ UNCHANGED <<memory, stage, dev>>
  BY DEF StartBatch, cacheVars
<1>2. VersionNow' = VersionNow
  BY <1>1, VersionsStay
<1>3. PICK functions : functions = run_queue'
  OBVIOUS
<1>4. functions \in Seq(Runnable) /\ functions # <<>>
  BY <1>1, <1>3 DEF HInv, HostTypes, Position
<1>5. \A k \in 1 .. Len(functions) : \A j \in 1 .. Len(functions[k].objs) :
         functions[k].objs[j] \in 1 .. Len(objects)
  BY <1>1, <1>3 DEF FitInv, AllFit, BatchFits
<1>6. objects \in Seq([size : Nat, mode : ObjectMode])
  BY DEF RInv, HInv, IInv, TypeOK
<1>7. ASSUME NEW k \in 1 .. Len(functions)
      PROVE  functions[k] \in [objs : Seq(DOMAIN objects), steps : Seq(Nat)]
  <2>1. functions[k] \in Runnable
    BY <1>4, <1>7, ElementOf
  <2>2. PICK a \in Seq(Nat \ {0}), b \in Seq(Nat \ {0}) :
           functions[k] = [objs |-> a, steps |-> b]
    BY <2>1 DEF Runnable
  <2>3. a \in Seq(DOMAIN objects)
    <3>1. functions[k].objs = a
      BY <2>2
    <3>2. DOMAIN objects = 1 .. Len(objects)
      BY <1>6
    <3>3. \A j \in 1 .. Len(a) : a[j] \in DOMAIN objects
      BY <1>5, <1>7, <3>1, <3>2
    <3>4. QED
      BY <3>3, SequenceOf
  <2>4. b \in Seq(Nat)
    OBVIOUS
  <2>5. QED
    BY <2>2, <2>3, <2>4
<1>8. functions \in Seq([objs : Seq(DOMAIN objects), steps : Seq(Nat)]) \ {<<>>}
  BY <1>4, <1>7, SequenceOf
<1>9. BatchNow = <<>> /\ BatchNow' = functions
  BY <1>1, <1>3 DEF BatchNow
<1>10. /\ BatchNow' \in Seq(Map!Fun) \ {<<>>}
  BY <1>8, <1>9 DEF Map!Fun
<1>11. QED
  BY <1>1, <1>2, <1>9, <1>10 DEF Map!Begin, VersionNow, BatchNow

\* run returns: every function has been applied to every block.
LEMMA MapEnd ==
  ASSUME RInv, FitInv, IndexAtEnd, ReadsAlone, NEW v, NEW S, DataIs(v, S), Finish
  PROVE  Map!End
<1>1. /\ pc = "finish" /\ \A q \in 0 .. NumQueues - 1 : commands[q] = <<>>
      /\ run_queue' = <<>> /\ pc' = "idle" /\ UNCHANGED dataVars /\ objects' = objects
  BY DEF Finish, cacheVars
<1>2. HInv /\ next_event \in Nat
  BY DEF RInv, HInv, HostTypes
<1>3. AllWork = {}
  BY <1>1, AllDone
<1>4. Data(v) = S
  BY <1>2, <1>3, DoneData
<1>5. S[<<"result">>] = [log |-> log, ver |-> v, ok |-> TRUE]
  BY <1>4, DataPlaces
<1>6. LogIs(log)
  <2>1. S[<<"result">>].log = log
    BY <1>5
  <2>2. LogIs(S[<<"result">>].log)
    BY <1>1 DEF DataIs, LogHolds
  <2>3. QED
    BY <2>1, <2>2
<1>7. PICK L, n : L = Len(run_queue) /\ n = NumBlocks(run_queue[1], 1)
  OBVIOUS
<1>8. L \in Nat \ {0} /\ run_queue # <<>> /\ run_queue \in Seq(Runnable)
  BY <1>1, <1>2, <1>7, HasFunctions
<1>9. Len(log) = n * L + 0 /\ n \in Nat
  <2>1. PICK i \in Nat, r \in Nat : Launched = i * L + r /\ i = n /\ r = 0
    BY <1>1, <1>7, LaunchedIs
  <2>2. QED
    BY <1>6, <2>1 DEF LogIs
<1>10. Len(log) \div L = n /\ Len(log) % L = 0
  <2>1. PICK r \in Nat : r = 0
    OBVIOUS
  <2>2. r < L
    BY <1>8, <2>1
  <2>3. (n * L + r) \div L = n /\ (n * L + r) % L = r
    BY <1>8, <1>9, <2>2, DivMod
  <2>4. Len(log) = n * L + r
    BY <1>9, <2>1
  <2>5. QED
    BY <2>1, <2>3, <2>4
<1>11. ASSUME NEW k \in DOMAIN run_queue, NEW j \in DOMAIN run_queue[k].objs
       PROVE  Map!NumBlocks(run_queue[k], j) = n
  <2>1. k \in 1 .. Len(run_queue)
    BY <1>8, <1>11
  <2>2. run_queue[k] \in Runnable
    BY <1>8, <2>1, ElementOf
  <2>3. run_queue[k].objs \in Seq(Nat \ {0})
    BY <2>2 DEF Runnable
  <2>4. j \in 1 .. Len(run_queue[k].objs)
    BY <1>11, <2>3
  <2>5. NumBlocks(run_queue[k], j) = n
    BY <1>1, <1>2, <1>7, <2>1, <2>4, SameBlocks
  <2>6. QED
    BY <2>5 DEF Map!NumBlocks, Map!CeilDiv, NumBlocks, CeilDiv
<1>12. BatchNow = run_queue /\ BatchNow' = <<>>
  BY <1>1 DEF BatchNow
<1>13. Map!Zips(run_queue, n)
  BY <1>11 DEF Map!Zips
<1>14. VersionNow' = VersionNow /\ log' = log
  BY <1>1, VersionsStay DEF dataVars
<1>15. Map!Zips(BatchNow, Len(log) \div Len(BatchNow)) /\ Len(log) % Len(BatchNow) = 0
  BY <1>7, <1>10, <1>12, <1>13
<1>16. QED
  BY <1>1, <1>8, <1>12, <1>14, <1>15 DEF Map!End, VersionNow, BatchNow

\* The versions, when v is how often every block has been given to a kernel.
VersionOf(v) == [o \in Oids |-> [off \in 0 .. objects[o].size - 1 |-> v[<<o, off>>]]]

\* They are the versions ZipMap sees, now and after a step.
LEMMA VersionsAre ==
  ASSUME NEW v
  PROVE  /\ DataTypes /\ TypeOK /\ LatestIsIn(v) => VersionNow = VersionOf(v)
         /\ DataTypes' /\ TypeOK' /\ LatestIsIn(v)' => VersionNow' = VersionOf(v)'
<1>1. DataTypes /\ TypeOK /\ LatestIsIn(v) => VersionNow = VersionOf(v)
  <2> SUFFICES ASSUME DataTypes, TypeOK, LatestIsIn(v)
               PROVE  VersionNow = VersionOf(v)
    OBVIOUS
  <2>1. DOMAIN objects = Oids
    BY DEF TypeOK, Oids
  <2>2. \A o \in Oids : DOMAIN memory[o] = 0 .. objects[o].size - 1
    BY DEF DataTypes
  <2>3. \A o \in Oids : [off \in DOMAIN memory[o] |-> Latest(o, off)]
                          = [off \in 0 .. objects[o].size - 1 |-> v[<<o, off>>]]
    BY <2>2 DEF LatestIsIn
  <2>4. QED
    BY <2>1, <2>3 DEF VersionNow, VersionOf
<1>2. (DataTypes /\ TypeOK /\ LatestIsIn(v) => VersionNow = VersionOf(v))'
  BY <1>1, PTL
<1>3. QED
  BY <1>1, <1>2

\* No block comes or goes.
LEMMA VersionOfStays ==
  ASSUME objects' = objects, NEW v
  PROVE  VersionOf(v)' = VersionOf(v)
BY DEF VersionOf, Oids

\* What the kernels have received is where S begins.
LogBeginsIn(S) ==
  /\ Len(log) <= Len(S[<<"result">>].log)
  /\ \A k \in 1 .. Len(log) : S[<<"result">>].log[k] = log[k]

\* Operations only add to it.
LEMMA LogBegins ==
  ASSUME NEW v, NEW S
  PROVE  /\ Pending(v, S) => LogBeginsIn(S)
         /\ Pending(v, S)' => LogBeginsIn(S)'
<1>1. Pending(v, S) => LogBeginsIn(S)
  <2> SUFFICES ASSUME Pending(v, S) PROVE LogBeginsIn(S)
    OBVIOUS
  <2>1. PICK ops, n, d : ops = AllWork /\ n = next_event /\ d = Data(v)
    OBVIOUS
  <2>2. Numbered(ops, n) /\ Runs(ops, n, d, S)
    BY <2>1 DEF Pending
  <2>3. d[<<"result">>].log = log
    <3>1. d[<<"result">>] = [log |-> log, ver |-> v, ok |-> TRUE]
      BY <2>1, DataPlaces
    <3>2. QED
      BY <3>1
  <2>4. QED
    BY <2>2, <2>3, RunsLog DEF LogBeginsIn
<1>2. (Pending(v, S) => LogBeginsIn(S))'
  BY <1>1, PTL
<1>3. QED
  BY <1>1, <1>2

\* An object has at most as many blocks as elements.
LEMMA BlocksAtMost ==
  ASSUME NEW a \in Nat \ {0}, NEW b \in Nat \ {0}
  PROVE  CeilDiv(a, b) \in 1 .. a
<1>1. CeilDiv(a, b) \in Int /\ 0 < CeilDiv(a, b)
  BY BlocksBegin, 0 \in Nat
<1>2. ~(a < CeilDiv(a, b))
  <2>1. a < CeilDiv(a, b) <=> a * b < a
    BY BlocksBegin
  <2>2. ~(a * b < a)
    <3>1. b = 1 + (b - 1) /\ b - 1 \in Nat
      OBVIOUS
    <3>2. a * b = a + a * (b - 1) /\ a * (b - 1) \in Nat
      BY <3>1
    <3>3. QED
      BY <3>2
  <2>3. QED
    BY <2>1, <2>2
<1>3. QED
  BY <1>1, <1>2

\* What a kernel adds to the log.
LEMMA KernelLogs ==
  ASSUME NEW op \in DataWork, op.kind = "kernel", NEW d, NEW entry,
         entry = [j \in DOMAIN op.args |-> ReceivedIn(d, op.args[j])]
  PROVE  KernelResult(op.args, d).log = Append(d[<<"result">>].log, entry)
BY ResultsOfKernel

\* What the next kernel of the log receives: the blocks of an index, and of each
\* the latest version.
LEMMA KernelReceives ==
  ASSUME GInv, RInv, FitInv, IndexAtEnd, BacklogsOrdered, NEW size \in Sizes,
         RaceInv(size, {}), NEW v, NEW S, DataIs(v, S), NEW w \in Workers, WorkerStep(w),
         NEW op, op = Backlog(w)[1], op.kind = "kernel",
         NEW d, d = Data(v), NEW p, p = Len(log),
         NEW L, L = Len(run_queue), NEW i, i = p \div L,
         NEW k, k = (p % L) + 1, NEW f, f = run_queue[k]
  PROVE  /\ pc \notin {"idle", "register", "end"} /\ op \in DataWork
         /\ \E entry :
              /\ entry = [j \in DOMAIN op.args |-> ReceivedIn(d, op.args[j])]
              /\ log' = Append(log, entry)
              /\ i \in Nat /\ i < NumBlocks(run_queue[1], 1) /\ k \in 1 .. Len(run_queue)
              /\ Serves(entry, f, i)
         /\ \A j \in 1 .. Len(op.args) : Current(d, op.args[j])
         /\ \A q \in Nat \X Nat : Effect(op, d)[<<"result">>].ver[q] =
              IF Updates(op.args, q) THEN v[q] + 1 ELSE v[q]
<1>1. PICK e, u : e = Effect(op, d) /\ u = e[<<"result">>].ver
  OBVIOUS
<1>2. /\ op \in AllWork /\ op \in DataWork /\ e[<<"result">>].ok
      /\ Data(u)' = e /\ Pending(u, S)'
  BY <1>1, WorkerPending DEF DataIs
<1>3. pc \notin {"idle", "register", "end"}
  <2>1. op \in KernelOps
    BY <1>2 DEF KernelOps
  <2>2. QED
    BY <2>1 DEF RaceInv, LastKernelKept
<1>4. objects' = objects
  BY DEF WorkerStep, cacheVars
<1>5. d[<<"result">>] = [log |-> log, ver |-> v, ok |-> TRUE]
  BY DataPlaces
<1>6. d[<<"result">>].log = log /\ d[<<"result">>].ver = v
  BY <1>5
<1>7. PICK entry : entry = [j \in DOMAIN op.args |-> ReceivedIn(d, op.args[j])]
  OBVIOUS
<1>8. e[<<"result">>] = KernelResult(op.args, d)
  BY <1>1, <1>2, ResultsOfKernel
<1>9. KernelResult(op.args, d).log = Append(log, entry)
  <2>1. KernelResult(op.args, d).log = Append(d[<<"result">>].log, entry)
    BY <1>2, <1>7, KernelLogs, ZenonT(30)
  <2>2. QED
    BY <1>6, <2>1
<1>10. \A q \in Nat \X Nat : KernelResult(op.args, d).ver[q] =
          IF Updates(op.args, q) THEN v[q] + 1 ELSE v[q]
  <2>1. SUFFICES ASSUME NEW q \in Nat \X Nat
                 PROVE  KernelResult(op.args, d).ver[q] =
                          IF Updates(op.args, q) THEN v[q] + 1 ELSE v[q]
    OBVIOUS
  <2>2. KernelResult(op.args, d).ver[q] =
          IF Updates(op.args, q) THEN d[<<"result">>].ver[q] + 1 ELSE d[<<"result">>].ver[q]
    BY <1>2, ResultsOfKernel
  <2>3. QED
    BY <1>6, <2>2
<1>11. log' = Append(log, entry)
  <2>1. e[<<"result">>] = [log |-> log', ver |-> u, ok |-> TRUE]
    BY <1>2, <1>4, DataPlacesNext
  <2>2. e[<<"result">>].log = log'
    BY <2>1
  <2>3. QED
    BY <1>8, <1>9, <2>2
<1>12. \A j \in 1 .. Len(op.args) : Current(d, op.args[j])
  BY <1>1, <1>2, KernelOk
<1>13. log \in Seq(Seq(Entry))
  <2>1. d \in Typed
    BY DataTyped DEF States
  <2>2. QED
    BY <1>6, <2>1, ResultFields
<1>14. p \in Nat /\ Len(log') = p + 1 /\ log'[p + 1] = entry
  <2>1. PICK X : X = Seq(Entry) \cup {entry}
    OBVIOUS
  <2>2. log \in Seq(X) /\ entry \in X
    BY <1>13, <2>1
  <2>3. QED
    BY <1>11, <2>2
<1>15. PICK kernels : kernels = S[<<"result">>].log
  OBVIOUS
<1>16. p + 1 <= Len(kernels) /\ kernels[p + 1] = entry
  <2>1. Len(log') <= Len(kernels) /\ \A m \in 1 .. Len(log') : kernels[m] = log'[m]
    BY <1>2, <1>15, LogBegins DEF LogBeginsIn
  <2>2. QED
    BY <1>14, <2>1
<1>17. LogIs(kernels)
  BY <1>3, <1>15 DEF DataIs, LogHolds
<1>18. kernels \in Seq(Seq(Entry))
  <2>1. S \in Typed
    BY DataTyped DEF States
  <2>2. QED
    BY <1>15, <2>1, ResultFields
<1>19. p + 1 \in 1 .. Len(kernels)
  BY <1>14, <1>16, <1>18
<1>20. Serves(entry, FunOf(p + 1), BlockIndex(p + 1))
  BY <1>16, <1>17, <1>19 DEF LogIs
<1>21. FunOf(p + 1) = f /\ BlockIndex(p + 1) = i
  <2>1. (p + 1) - 1 = p
    BY <1>14
  <2>2. QED
    BY <2>1 DEF FunOf, BlockIndex
<1>22. p < Launched
  BY <1>14, <1>17, <1>18, <1>19 DEF LogIs
<1>23. i \in Nat /\ i < NumBlocks(run_queue[1], 1) /\ k \in 1 .. Len(run_queue)
  BY <1>3, <1>14, <1>22, KernelIndex
<1>24. Serves(entry, f, i)
  BY <1>20, <1>21
<1>25. \E en : /\ en = [j \in DOMAIN op.args |-> ReceivedIn(d, op.args[j])]
               /\ log' = Append(log, en) /\ Serves(en, f, i)
  BY <1>7, <1>11, <1>24
<1>26. QED
  BY <1>1, <1>2, <1>3, <1>8, <1>10, <1>12, <1>23, <1>25

\* A kernel that finds the latest versions receives them.
LEMMA EntryIs ==
  ASSUME NEW d, NEW v, d[<<"result">>].ver = v, Bounded(d), NEW b, b.block.oid \in Oids,
         b.block.bid \in Nat, Current(d, b)
  PROVE  ReceivedIn(d, b) = [block |-> b.block, ver |-> v[<<b.block.oid, b.block.bid>>]]
<1>1. CASE objects[b.block.oid].mode = "Transient"
  <2>1. v[<<b.block.oid, b.block.bid>>] = 0
    BY <1>1 DEF Bounded
  <2>2. QED
    BY <1>1, <2>1 DEF ReceivedIn
<1>2. CASE objects[b.block.oid].mode # "Transient"
  BY <1>2 DEF Current, ReceivedIn, VersionIn
<1>3. QED
  BY <1>1, <1>2

\* What it receives are blocks of objects, and how often a kernel was given
\* them before.
Versioned(entry, f, i, v) ==
  /\ entry = [j \in DOMAIN entry |-> entry[j]]
  /\ \A j \in DOMAIN f.objs :
       /\ f.objs[j] \in Oids /\ i * f.steps[j] \in 0 .. objects[f.objs[j]].size - 1
       /\ entry[j] = [block |-> entry[j].block,
                      ver |-> v[<<entry[j].block.oid, entry[j].block.bid>>]]

\* Its versions are those the functions of the batch are to see.
LEMMA InputIs ==
  ASSUME NEW v, VersionNow = VersionOf(v), NEW f, NEW i, NEW entry,
         Serves(entry, f, i), Versioned(entry, f, i, v)
  PROVE  entry = Map!Input(f, i)
<1>1. entry = [j \in DOMAIN f.objs |-> entry[j]]
  BY DEF Serves, Versioned
<1>2. ASSUME NEW j \in DOMAIN f.objs
      PROVE  entry[j] = [block |-> Map!BlockAt(f, j, i),
                         ver |-> VersionNow[f.objs[j]][i * f.steps[j]]]
  <2>1. entry[j].block = BlockAt(f, j, i)
    BY <1>2 DEF Serves
  <2>2. BlockAt(f, j, i).oid = f.objs[j] /\ BlockAt(f, j, i).bid = i * f.steps[j]
    BY DEF BlockAt
  <2>3. Map!BlockAt(f, j, i) = BlockAt(f, j, i)
    BY DEF Map!BlockAt, BlockAt
  <2>4. VersionNow[f.objs[j]][i * f.steps[j]] = v[<<f.objs[j], i * f.steps[j]>>]
    BY <1>2 DEF VersionOf, Versioned
  <2>5. QED
    BY <1>2, <2>1, <2>2, <2>3, <2>4 DEF Versioned
<1>3. [j \in DOMAIN f.objs |-> entry[j]]
        = [j \in DOMAIN f.objs |-> [block |-> Map!BlockAt(f, j, i),
                                    ver |-> VersionNow[f.objs[j]][i * f.steps[j]]]]
  BY <1>2
<1>4. QED
  BY <1>1, <1>3 DEF Map!Input, VersionNow

\* It is given the blocks of an index.
Given(args, f, i) ==
  DOMAIN f.objs = 1 .. Len(args) /\ \A j \in 1 .. Len(args) : args[j].block = BlockAt(f, j, i)

\* The blocks it updates are those of mutable objects with this index.
LEMMA UpdatesAt ==
  ASSUME NEW args, NEW f, NEW i, Given(args, f, i),
         NEW o, NEW off, NEW q, q = <<o, off>>
  PROVE  Updates(args, q) <=>
           /\ objects[o].mode = "ReadWrite"
           /\ \E j \in DOMAIN f.objs : f.objs[j] = o /\ i * f.steps[j] = off
<1>1. \A j \in 1 .. Len(args) :
         args[j].block.oid = f.objs[j] /\ args[j].block.bid = i * f.steps[j]
  <2>1. ASSUME NEW j
        PROVE  BlockAt(f, j, i).oid = f.objs[j] /\ BlockAt(f, j, i).bid = i * f.steps[j]
    BY DEF BlockAt
  <2>2. QED
    BY <2>1 DEF Given
<1>2. \A j \in 1 .. Len(args) :
         <<o, off>> = <<args[j].block.oid, args[j].block.bid>>
           <=> f.objs[j] = o /\ i * f.steps[j] = off
  <2>1. SUFFICES ASSUME NEW j \in 1 .. Len(args)
                 PROVE  <<o, off>> = <<args[j].block.oid, args[j].block.bid>>
                          <=> f.objs[j] = o /\ i * f.steps[j] = off
    OBVIOUS
  <2>2. PICK x, y : x = args[j].block.oid /\ y = args[j].block.bid
    OBVIOUS
  <2>3. x = f.objs[j] /\ y = i * f.steps[j]
    BY <1>1, <2>2
  <2>4. <<o, off>> = <<x, y>> <=> o = x /\ off = y
    OBVIOUS
  <2>5. QED
    BY <2>2, <2>3, <2>4
<1>3. Updates(args, <<o, off>>) <=>
         \E j \in 1 .. Len(args) : /\ objects[o].mode = "ReadWrite"
                                   /\ f.objs[j] = o /\ i * f.steps[j] = off
  <2>1. ASSUME NEW j \in 1 .. Len(args)
        PROVE  (/\ objects[args[j].block.oid].mode = "ReadWrite"
                /\ <<o, off>> = <<args[j].block.oid, args[j].block.bid>>)
               <=> (/\ objects[o].mode = "ReadWrite"
                    /\ f.objs[j] = o /\ i * f.steps[j] = off)
    BY <1>1, <1>2
  <2>2. QED
    BY <2>1 DEF Updates
<1>4. QED
  BY <1>3 DEF Given

\* Their versions afterwards.
LEMMA AppliedIs ==
  ASSUME NEW v, NEW u, VersionNow = VersionOf(v), NEW f, NEW i, NEW args,
         TypeOK,
         \A q \in Nat \X Nat : u[q] = IF Updates(args, q) THEN v[q] + 1 ELSE v[q],
         Given(args, f, i)
  PROVE  VersionOf(u) = Map!Applied(f, i)
<1>1. DOMAIN objects = Oids /\ Oids \subseteq Nat
  BY DEF TypeOK, Oids
<1>2. ASSUME NEW o \in Oids
      PROVE  /\ objects[o].size \in Nat
             /\ VersionNow[o] = [off \in 0 .. objects[o].size - 1 |-> v[<<o, off>>]]
             /\ DOMAIN VersionNow[o] = 0 .. objects[o].size - 1
  <2>1. objects[o].size \in Nat
    <3>1. objects[o] \in [size : Nat, mode : ObjectMode]
      BY ElementOf DEF Oids, TypeOK
    <3>2. QED
      BY <3>1
  <2>2. VersionNow[o] = [off \in 0 .. objects[o].size - 1 |-> v[<<o, off>>]]
    BY DEF VersionOf
  <2>3. QED
    BY <2>1, <2>2
<1>3. ASSUME NEW o \in Oids, NEW off \in 0 .. objects[o].size - 1
      PROVE  u[<<o, off>>] =
               IF /\ objects[o].mode = "ReadWrite"
                  /\ \E j \in DOMAIN f.objs : f.objs[j] = o /\ i * f.steps[j] = off
               THEN VersionNow[o][off] + 1
               ELSE VersionNow[o][off]
  <2>1. <<o, off>> \in Nat \X Nat
    BY <1>1, <1>2
  <2>2. PICK q : q = <<o, off>>
    OBVIOUS
  <2>3. u[q] = IF Updates(args, q) THEN v[q] + 1 ELSE v[q]
    BY <2>1, <2>2
  <2>4. VersionNow[o][off] = v[q]
    BY <1>2, <2>2
  <2>5. Updates(args, q) <=>
          /\ objects[o].mode = "ReadWrite"
          /\ \E j \in DOMAIN f.objs : f.objs[j] = o /\ i * f.steps[j] = off
    BY <2>2, UpdatesAt
  <2>6. QED
    BY <2>2, <2>3, <2>4, <2>5
<1>4. ASSUME NEW o \in Oids
      PROVE  [off \in 0 .. objects[o].size - 1 |-> u[<<o, off>>]]
               = [off \in DOMAIN VersionNow[o] |->
                    IF /\ objects[o].mode = "ReadWrite"
                       /\ \E j \in DOMAIN f.objs : f.objs[j] = o /\ i * f.steps[j] = off
                    THEN VersionNow[o][off] + 1
                    ELSE VersionNow[o][off]]
  <2>1. DOMAIN VersionNow[o] = 0 .. objects[o].size - 1
    BY <1>2
  <2>2. QED
    BY <1>3, <2>1
<1>5. QED
  BY <1>1, <1>4 DEF VersionOf, Map!Applied, VersionNow

\* The versions before and after the work of a worker.
LEMMA WorkerVersions ==
  ASSUME GInv, GInv', RInv, BacklogsOrdered, NEW size \in Sizes, RaceInv(size, {}),
         NEW v, NEW S, DataIs(v, S), NEW w \in Workers, WorkerStep(w),
         NEW op, op = Backlog(w)[1], NEW e, e = Effect(op, Data(v)),
         NEW u, u = e[<<"result">>].ver
  PROVE  VersionNow = VersionOf(v) /\ VersionNow' = VersionOf(u)
<1>1. DataTypes /\ TypeOK /\ DataTypes' /\ TypeOK' /\ objects' = objects
  BY DEF GInv, HInv, IInv, WorkerStep, cacheVars
<1>2. VersionNow = VersionOf(v)
  <2>1. LatestIsIn(v)
    BY <1>1, LatestOfData
  <2>2. QED
    BY <1>1, <2>1, VersionsAre
<1>3. DataIs(u, S)'
  BY WorkerData
<1>4. VersionNow' = VersionOf(u)'
  <2>1. LatestIsIn(u)'
    BY <1>1, <1>3, LatestOfData
  <2>2. QED
    BY <1>1, <2>1, VersionsAre
<1>5. VersionOf(u)' = VersionOf(u)
  BY <1>1, VersionOfStays
<1>6. QED
  BY <1>2, <1>4, <1>5

\* A kernel applies the next function to the next blocks.
LEMMA MapApply ==
  ASSUME GInv, GInv', RInv, FitInv, IndexAtEnd, BacklogsOrdered, NEW size \in Sizes,
         RaceInv(size, {}), NEW v, NEW S, DataIs(v, S), NEW w \in Workers, WorkerStep(w),
         NEW op, op = Backlog(w)[1], op.kind = "kernel"
  PROVE  Map!Apply
<1>1. PICK d, p, L, i, k, e, u :
         /\ d = Data(v) /\ p = Len(log) /\ L = Len(run_queue) /\ i = p \div L
         /\ k = (p % L) + 1 /\ e = Effect(op, Data(v)) /\ u = e[<<"result">>].ver
  OBVIOUS
<1>2. PICK f : f = run_queue[k]
  OBVIOUS
<1>3. /\ pc \notin {"idle", "register", "end"} /\ op \in DataWork
      /\ \E entry :
           /\ entry = [j \in DOMAIN op.args |-> ReceivedIn(d, op.args[j])]
           /\ log' = Append(log, entry)
           /\ i \in Nat /\ i < NumBlocks(run_queue[1], 1) /\ k \in 1 .. Len(run_queue)
           /\ Serves(entry, f, i)
      /\ \A j \in 1 .. Len(op.args) : Current(d, op.args[j])
      /\ \A q \in Nat \X Nat : Effect(op, d)[<<"result">>].ver[q] =
           IF Updates(op.args, q) THEN v[q] + 1 ELSE v[q]
  BY <1>1, <1>2, KernelReceives, SMTT(30)
<1>4. PICK entry :
        /\ entry = [j \in DOMAIN op.args |-> ReceivedIn(d, op.args[j])]
        /\ log' = Append(log, entry) /\ Serves(entry, f, i)
  BY <1>3
<1>5. i \in Nat /\ i < NumBlocks(run_queue[1], 1) /\ k \in 1 .. Len(run_queue)
  BY <1>3
<1>6. \A q \in Nat \X Nat : u[q] = IF Updates(op.args, q) THEN v[q] + 1 ELSE v[q]
  BY <1>1, <1>3
<1>7. VersionNow = VersionOf(v) /\ VersionNow' = VersionOf(u)
  BY <1>1, WorkerVersions
<1>8. TypeOK /\ HInv /\ objects' = objects /\ run_queue' = run_queue /\ pc' = pc
  BY DEF GInv, HInv, IInv, WorkerStep, cacheVars, hostVars
<1>9. /\ op.args \in Seq(Buffer)
      /\ \A j \in 1 .. Len(op.args) : op.args[j] \in Buffer /\ op.args[j].block.oid \in Oids
  BY <1>3, DataWorkKinds
<1>10. DOMAIN op.args = 1 .. Len(op.args)
  BY <1>9
<1>11. \A j \in 1 .. Len(op.args) : entry[j] = ReceivedIn(d, op.args[j])
  BY <1>4, <1>10
<1>12. Given(op.args, f, i)
  <2>1. DOMAIN f.objs = 1 .. Len(op.args)
    BY <1>4, <1>10 DEF Serves
  <2>2. ASSUME NEW j \in 1 .. Len(op.args)
        PROVE  op.args[j].block = BlockAt(f, j, i)
    <3>1. entry[j].block = BlockAt(f, j, i)
      BY <1>4, <2>1, <2>2 DEF Serves
    <3>2. entry[j].block = op.args[j].block
      <4>1. entry[j] = ReceivedIn(d, op.args[j])
        BY <1>11, <2>2
      <4>2. \A b : ReceivedIn(d, b).block = b.block
        BY DEF ReceivedIn
      <4>3. QED
        BY <4>1, <4>2
    <3>3. QED
      BY <3>1, <3>2
  <2>3. QED
    BY <2>1, <2>2 DEF Given
<1>13. \A j \in DOMAIN f.objs :
         /\ NumBlocks(f, j) = NumBlocks(run_queue[1], 1)
         /\ f.objs[j] \in Oids /\ objects[f.objs[j]].size \in Nat \ {0}
         /\ f.steps[j] \in Nat \ {0}
  <2>1. f \in Runnable
    BY <1>2, <1>3, <1>5, <1>8, HasFunctions, ElementOf
  <2>2. DOMAIN f.objs = 1 .. Len(f.objs)
    BY <2>1 DEF Runnable
  <2>3. QED
    BY <1>2, <1>3, <1>5, <1>8, <2>2, SameBlocks
<1>14. \A j \in DOMAIN f.objs : i * f.steps[j] \in 0 .. objects[f.objs[j]].size - 1
  <2>1. SUFFICES ASSUME NEW j \in DOMAIN f.objs
                 PROVE  i * f.steps[j] \in 0 .. objects[f.objs[j]].size - 1
    OBVIOUS
  <2>2. PICK a \in Nat \ {0}, b \in Nat \ {0} : a = objects[f.objs[j]].size /\ b = f.steps[j]
    BY <1>13
  <2>3. i < CeilDiv(a, b)
    BY <1>5, <1>13, <2>2 DEF NumBlocks
  <2>4. i * b < a
    BY <1>5, <2>3, BlocksBegin
  <2>5. i * b \in Nat
    BY <1>5
  <2>6. i * b \in 0 .. a - 1
    BY <2>4, <2>5
  <2>7. QED
    BY <2>2, <2>6
<1>15. Map!Input(f, i) = entry
  <2>1. Bounded(d) /\ d[<<"result">>].ver = v
    <3>1. d[<<"result">>] = [log |-> log, ver |-> v, ok |-> TRUE]
      BY <1>1, DataPlaces
    <3>2. d \in States
      BY <1>1, DataTyped
    <3>3. QED
      BY <3>1, <3>2 DEF States
  <2>2. ASSUME NEW j \in 1 .. Len(op.args)
        PROVE  entry[j] = [block |-> entry[j].block,
                           ver |-> v[<<entry[j].block.oid, entry[j].block.bid>>]]
    <3>1. PICK b : b = op.args[j]
      OBVIOUS
    <3>2. b.block.oid \in Oids /\ b.block.bid \in Nat
      BY <1>9, <2>2, <3>1 DEF Buffer, Block
    <3>3. Current(d, b)
      BY <1>3, <2>2, <3>1
    <3>4. ReceivedIn(d, b) = [block |-> b.block, ver |-> v[<<b.block.oid, b.block.bid>>]]
      BY <2>1, <3>2, <3>3, EntryIs
    <3>5. entry[j] = ReceivedIn(d, b)
      BY <1>11, <2>2, <3>1
    <3>6. QED
      BY <3>4, <3>5
  <2>3. \A j \in DOMAIN f.objs :
          /\ f.objs[j] \in Oids /\ i * f.steps[j] \in 0 .. objects[f.objs[j]].size - 1
          /\ entry[j] = [block |-> entry[j].block,
                         ver |-> v[<<entry[j].block.oid, entry[j].block.bid>>]]
    BY <1>12, <1>13, <1>14, <2>2 DEF Given
  <2>4. entry = [j \in DOMAIN entry |-> entry[j]]
    BY <1>4
  <2>5. Versioned(entry, f, i, v)
    BY <2>3, <2>4 DEF Versioned
  <2>6. QED
    BY <1>4, <1>7, <2>5, InputIs
<1>16. VersionNow' = Map!Applied(f, i)
  <2>1. VersionOf(u) = Map!Applied(f, i)
    BY <1>6, <1>7, <1>8, <1>12, AppliedIs
  <2>2. QED
    BY <1>7, <2>1
<1>17. \E n \in 1 .. objects[f.objs[1]].size : Map!Zips(run_queue, n) /\ i < n
  <2>1. PICK n : n = NumBlocks(run_queue[1], 1)
    OBVIOUS
  <2>2. 1 \in DOMAIN f.objs
    <3>1. f \in Runnable
      BY <1>2, <1>3, <1>5, <1>8, HasFunctions, ElementOf
    <3>2. QED
      BY <3>1 DEF Runnable
  <2>3. n \in 1 .. objects[f.objs[1]].size
    <3>1. PICK a \in Nat \ {0}, b \in Nat \ {0} :
            a = objects[f.objs[1]].size /\ b = f.steps[1]
      BY <1>13, <2>2
    <3>2. n = CeilDiv(a, b)
      BY <1>13, <2>1, <2>2, <3>1 DEF NumBlocks
    <3>3. QED
      BY <3>1, <3>2, BlocksAtMost
  <2>4. Map!Zips(run_queue, n)
    <3>1. ASSUME NEW m \in DOMAIN run_queue, NEW j \in DOMAIN run_queue[m].objs
          PROVE  Map!NumBlocks(run_queue[m], j) = n
      <4>1. run_queue \in Seq(Runnable)
        BY <1>3, <1>8, HasFunctions
      <4>2. m \in 1 .. Len(run_queue)
        BY <3>1, <4>1
      <4>3. run_queue[m] \in Runnable
        BY <4>1, <4>2, ElementOf
      <4>4. run_queue[m].objs \in Seq(Nat \ {0})
        BY <4>3 DEF Runnable
      <4>5. j \in 1 .. Len(run_queue[m].objs)
        BY <3>1, <4>4
      <4>6. NumBlocks(run_queue[m], j) = n
        BY <1>3, <1>8, <2>1, <4>2, <4>5, SameBlocks
      <4>7. QED
        BY <4>6 DEF Map!NumBlocks, Map!CeilDiv, NumBlocks, CeilDiv
    <3>2. QED
      BY <3>1 DEF Map!Zips
  <2>5. QED
    BY <1>5, <2>1, <2>3, <2>4
<1>18. BatchNow = run_queue /\ BatchNow' = run_queue /\ run_queue # <<>>
  <2>1. run_queue # <<>>
    BY <1>3, <1>8, HasFunctions
  <2>2. QED
    BY <1>3, <1>8, <2>1 DEF BatchNow
<1>19. QED
  <2>1. /\ f = BatchNow[(Len(log) % Len(BatchNow)) + 1]
        /\ i = Len(log) \div Len(BatchNow)
    BY <1>1, <1>2, <1>18
  <2>2. log' = Append(log, Map!Input(f, i))
    BY <1>4, <1>15
  <2>3. \E n \in 1 .. objects[f.objs[1]].size : Map!Zips(BatchNow, n) /\ i < n
    BY <1>17, <1>18
  <2>4. QED
    BY <1>8, <1>16, <1>18, <2>1, <2>2, <2>3 DEF Map!Apply, VersionNow, BatchNow

\* The device or an I/O thread.
LEMMA MapWorker ==
  ASSUME GInv, GInv', RInv, FitInv, IndexAtEnd, BacklogsOrdered, NEW size \in Sizes,
         RaceInv(size, {}), NEW v, NEW S, DataIs(v, S), NEW w \in Workers, WorkerStep(w)
  PROVE  Map!Apply \/ UNCHANGED Map!zipVars
<1>1. PICK op, d, e, u : /\ op = Backlog(w)[1] /\ d = Data(v) /\ e = Effect(op, Data(v))
                         /\ u = e[<<"result">>].ver
  OBVIOUS
<1>2. CASE op.kind = "kernel"
  <2>1. Map!Apply
    BY <1>1, <1>2, MapApply
  <2>2. QED
    BY <2>1
<1>3. CASE op.kind # "kernel"
  <2>1. /\ objects' = objects /\ run_queue' = run_queue /\ pc' = pc
    BY DEF WorkerStep, cacheVars, hostVars
  <2>2. op \in DataWork /\ Data(u)' = e
    BY <1>1, WorkerPending DEF DataIs
  <2>3. e[<<"result">>] = d[<<"result">>]
    BY <1>1, <1>3, <2>2, ResultsStay
  <2>4. d[<<"result">>] = [log |-> log, ver |-> v, ok |-> TRUE]
    BY <1>1, DataPlaces
  <2>5. e[<<"result">>] = [log |-> log', ver |-> u, ok |-> TRUE]
    BY <2>1, <2>2, DataPlacesNext
  <2>6. log' = log /\ u = v
    <3>1. d[<<"result">>].log = log /\ d[<<"result">>].ver = v
      BY <2>4
    <3>2. e[<<"result">>].log = log'
      BY <2>5
    <3>3. QED
      BY <1>1, <2>3, <3>1, <3>2
  <2>7. VersionNow = VersionOf(v) /\ VersionNow' = VersionOf(u)
    BY <1>1, WorkerVersions
  <2>8. BatchNow' = BatchNow
    BY <2>1 DEF BatchNow
  <2>9. QED
    BY <2>1, <2>6, <2>7, <2>8, MapStutter
<1>4. QED
  BY <1>2, <1>3

\* A step of the client's thread that neither begins nor ends a run.
LEMMA MapQuiet ==
  ASSUME objects' = objects, UNCHANGED dataVars,
         \/ pc \in {"idle", "end"} /\ pc' \in {"idle", "end"}
         \/ /\ pc \notin {"idle", "end"} /\ pc' \notin {"idle", "end"}
            /\ run_queue' = run_queue
  PROVE  UNCHANGED Map!zipVars
<1>1. VersionNow' = VersionNow /\ log' = log
  BY VersionsStay DEF dataVars
<1>2. BatchNow' = BatchNow
  BY DEF BatchNow
<1>3. QED
  BY <1>1, <1>2, MapStutter

\* The steps of the client's thread.
LEMMA MapHost ==
  ASSUME GInv, GInv', RInv, RInv', FitInv, FitInv', run_ret' = 1, IndexAtEnd,
         NEW size \in Sizes, RaceInv(size, {}), NEW v, NEW S, DataIs(v, S),
         HostStep \/ UNCHANGED vars, objects' = objects
  PROVE  Map!ZipNext \/ UNCHANGED Map!zipVars
<1>1. HInv /\ HInv' /\ run \in RunState
  BY DEF RInv, HInv, HostTypes
<1>2. CASE StartBatch
  <2>1. Map!Begin
    BY <1>1, <1>2, MapBegin
  <2>2. QED
    BY <2>1 DEF Map!ZipNext
<1>3. CASE Finish
  <2>1. Map!End
    BY <1>3, MapEnd DEF RaceInv
  <2>2. QED
    BY <2>1 DEF Map!ZipNext
<1>4. CASE RegisterOk
  <2>1. /\ UNCHANGED dataVars /\ run_queue' = run_queue
        /\ pc = "register" /\ pc' = "activate"
    BY <1>4 DEF RegisterOk
  <2>2. QED
    BY <2>1, MapQuiet
<1>5. CASE ActivateAgain \/ ActivateHit \/ ActivateMiss
  <2>1. pc = "activate" /\ run_queue' = run_queue /\ UNCHANGED dataVars
    BY <1>1, <1>5, ActivateLaunches
  <2>2. PICK fst, act, bufs : ObjectDone(fst, act, bufs)
    BY <1>5 DEF ActivateAgain, ActivateHit, ActivateMiss, Transfer, GotBuffer
  <2>3. pc' \in {"activate", "run"}
    BY <1>1, <2>1, <2>2, ObjectDoneRuns
  <2>4. QED
    BY <2>1, <2>3, MapQuiet
<1>6. CASE RunFunction
  <2>1. UNCHANGED dataVars /\ run_queue' = run_queue /\ pc = "run"
    BY <1>6 DEF RunFunction
  <2>2. pc' \in {"run", "drain", "deactivate", "activate"}
    <3>1. Len(Append(run.active, run.activating)) \in Nat
      BY <1>1, RunFields DEF BufferLists
    <3>2. QED
      BY <1>6, <3>1 DEF RunFunction, NumQueues
  <2>3. QED
    BY <2>1, <2>2, MapQuiet
<1>7. CASE Deactivate
  <2>1. /\ run_queue' = run_queue /\ pc \in {"deactivate", "drain"}
        /\ pc' \in {"activate", "deactivate", "drain", "finish"}
    BY <1>1, <1>7, UnlockSucceeds DEF Deactivate, RunState
  <2>2. UNCHANGED dataVars
    BY <1>7 DEF Deactivate
  <2>3. QED
    BY <2>1, <2>2, MapQuiet
<1>8. CASE ClientRead \/ ClientEnds \/ UNCHANGED vars
  <2>1. UNCHANGED dataVars
    BY <1>8 DEF ClientRead, ClientEnds, vars
  <2>2. \/ pc \in {"idle", "end"} /\ pc' \in {"idle", "end"}
        \/ pc' = pc /\ run_queue' = run_queue
    BY <1>8 DEF ClientRead, ClientEnds, vars, hostVars
  <2>3. QED
    BY <2>1, <2>2, MapQuiet
<1>9. CASE RegisterFails \/ ActivateFails
  BY <1>9 DEF RegisterFails, ActivateFails, Fail
<1>10. QED
  BY <1>2, <1>3, <1>4, <1>5, <1>6, <1>7, <1>8, <1>9 DEF HostStep

\* Every step is one of the documentation's, or none.
LEMMA MapStep ==
  ASSUME GInv, GInv', RunsInv, RunsInv', BacklogsOrdered, IndexAtEnd, NEW size \in Sizes,
         RaceInv(size, {}), NEW v, NEW S, DataIs(v, S), [SchedulerNext]_vars
  PROVE  Map!ZipNext \/ UNCHANGED Map!zipVars
<1>1. RInv /\ RInv' /\ FitInv /\ FitInv' /\ run_ret' = 1
  BY DEF RunsInv
<1>2. objects' = objects
  BY CacheSteps
<1>3. CASE HostStep \/ UNCHANGED vars
  BY <1>1, <1>2, <1>3, MapHost
<1>4. CASE \E q \in Queues : DeviceStep(q) \/ IOThreadStep(q)
  <2>1. PICK q \in Queues : DeviceStep(q) \/ IOThreadStep(q)
    BY <1>4
  <2>2. PICK w \in Workers : WorkerStep(w)
    BY <2>1, WorkerSteps DEF GInv
  <2>3. Map!Apply \/ UNCHANGED Map!zipVars
    BY <1>1, <2>2, MapWorker
  <2>4. QED
    BY <2>3 DEF Map!ZipNext
<1>5. QED
  BY <1>3, <1>4 DEF SchedulerNext, Done

\* What memory will be when the work that is left is done is what the runs so
\* far are to make of it.
MapInv(size) ==
  /\ BacklogsOrdered /\ ActivatingCut(size) /\ IndexAtEnd
  /\ \E v, S : DataIs(v, S)

\* Before the first run.
LEMMA MapInvInit ==
  ASSUME SchedulerInit, NEW size
  PROVE  MapInv(size)
<1>1. /\ run = NotRunning /\ pc = "idle"
      /\ commands = [q \in Queues |-> <<>>] /\ io = [q \in Queues |-> <<>>]
  BY DEF SchedulerInit
<1>2. BacklogsOrdered
  <2> SUFFICES ASSUME NEW w \in Workers PROVE InEventOrder(Backlog(w))
    BY DEF BacklogsOrdered
  <2>1. Backlog(w) = <<>>
    BY <1>1 DEF Backlog, Workers
  <2>2. QED
    BY <2>1 DEF InEventOrder
<1>3. run.activating = <<>>
  BY <1>1 DEF NotRunning
<1>4. ActivatingCut(size)
  BY <1>3 DEF ActivatingCut
<1>5. IndexAtEnd
  BY <1>1 DEF IndexAtEnd
<1>6. DataIs(NoVersions, Data(NoVersions))
  BY InitData
<1>7. QED
  BY <1>2, <1>4, <1>5, <1>6 DEF MapInv

\* After every step.
LEMMA MapInvNext ==
  ASSUME GInv, RunsInv, NEW size \in Sizes, RaceInv(size, {}), MapInv(size),
         [SchedulerNext]_vars
  PROVE  MapInv(size)'
<1>1. RInv /\ FitInv /\ run_ret = 1 /\ run_ret' = 1
  BY RunsNext DEF RunsInv
<1>2. BacklogsOrdered /\ ActivatingCut(size) /\ IndexAtEnd
  BY DEF MapInv
<1>3. BacklogsOrdered'
  BY <1>2, OrderedStep
<1>4. ActivatingCut(size)'
  BY <1>1, <1>2, CutStep DEF RaceInv
<1>5. IndexAtEnd'
  BY <1>1, <1>2, IndexAtEndStep
<1>6. PICK v, S : DataIs(v, S)
  BY DEF MapInv
<1>7. PICK u, T : DataIs(u, T)'
  BY <1>1, <1>2, <1>6, MemoryStep
<1>8. (\E x, y : DataIs(x, y))'
  BY <1>7
<1>9. QED
  BY <1>3, <1>4, <1>5, <1>8 DEF MapInv

\* Every operation is ordered with those it is in conflict with, too.
OrderedRuns(size) == RaceInv(size, {}) /\ MapInv(size)

\* Then every step is one of ZipMap, or none.
LEMMA OrderedRunsStep ==
  ASSUME GInv, RunsInv, NEW size \in Sizes, OrderedRuns(size), [SchedulerNext]_vars
  PROVE  /\ GInv' /\ RunsInv' /\ MapInv(size)'
         /\ [Map!ZipNext]_(Map!zipVars)
<1>1. GInv' /\ RunsInv'
  BY RunsNext, GNext DEF RunsInv
<1>2. RaceInv(size, {}) /\ MapInv(size)
  BY DEF OrderedRuns
<1>3. MapInv(size)'
  BY <1>2, MapInvNext
<1>4. PICK v, S : DataIs(v, S)
  BY <1>2 DEF MapInv
<1>5. Map!ZipNext \/ UNCHANGED Map!zipVars
  BY <1>1, <1>2, <1>4, MapStep DEF MapInv
<1>6. QED
  BY <1>1, <1>3, <1>5

\* A client that run serves as documented: its objects fit into the pool, every
\* object is cut into blocks of one size, and it is a k-means client if it has
\* an object that is only read.
Served(p) == FitsPool(p) /\ SameSteps(p) /\ (AllMutable(p) \/ KMeansClient(p))

\* Its runs succeed, and every operation comes before or after those it is in
\* conflict with.
ServedInv ==
  /\ GInv /\ RunsInv
  /\ \E size \in Sizes : OrderedRuns(size) /\ (NothingReadOnly \/ KMInv(size))

\* None of its objects is loaded from a copy that was never written back.
LEMMA NothingReloaded ==
  ASSUME NothingReadOnly
  PROVE  ReloadsAwaited({})
BY DEF ReloadsAwaited, NothingReadOnly

\* Before the first run.
LEMMA ServedInit ==
  ASSUME SchedulerInit, \A p \in Programs : Served(p)
  PROVE  ServedInv
<1>1. program \in Programs /\ \A p \in Programs : FitsPool(p) /\ SameSteps(p)
  BY DEF Served, SchedulerInit
<1>2. GInv /\ RunsInv
  BY <1>1, GInit, RInit, FitInit DEF SchedulerInit, RunsInv
<1>3. CASE AllMutable(program)
  <2>1. NothingReadOnly
    BY <1>3 DEF SchedulerInit, AllMutable, NothingReadOnly, Oids
  <2>2. PICK size \in Sizes, oids \in SUBSET Nat : oids = ReadOnlyObjects /\ RaceInv(size, oids)
    BY <1>1, RaceInit DEF RaceOK
  <2>3. oids = {}
    BY <2>1, <2>2 DEF ReadOnlyObjects, NothingReadOnly
  <2>4. RaceInv(size, {}) /\ MapInv(size)
    BY <2>2, <2>3, MapInvInit
  <2>5. QED
    BY <1>2, <2>1, <2>4 DEF ServedInv, OrderedRuns
<1>4. CASE KMeansClient(program)
  <2>1. PICK size \in Sizes : RaceInv(size, {}) /\ KMInv(size)
    BY <1>1, <1>4, KMInit DEF KMOK
  <2>2. MapInv(size)
    BY MapInvInit
  <2>3. QED
    BY <1>2, <2>1, <2>2 DEF ServedInv, OrderedRuns
<1>5. QED
  BY <1>1, <1>3, <1>4 DEF Served

\* After every step, which is one the documentation of run knows.
LEMMA ServedNext ==
  ASSUME ServedInv, [SchedulerNext]_vars
  PROVE  ServedInv' /\ [Map!ZipNext]_(Map!zipVars)
<1>1. GInv /\ RunsInv /\ RInv
  BY DEF ServedInv, RunsInv
<1>2. PICK size \in Sizes : OrderedRuns(size) /\ (NothingReadOnly \/ KMInv(size))
  BY DEF ServedInv
<1>3. /\ GInv' /\ RunsInv' /\ MapInv(size)' /\ run_ret' = 1
      /\ [Map!ZipNext]_(Map!zipVars)
  BY <1>1, <1>2, OrderedRunsStep DEF RunsInv
<1>4. RaceInv(size, {})
  BY <1>2 DEF OrderedRuns
<1>5. CASE NothingReadOnly
  <2>1. RaceInv(size, {})'
    BY <1>1, <1>3, <1>4, <1>5, NothingReloaded, RaceStep
  <2>2. NothingReadOnly'
    <3>1. objects' = objects /\ Oids' = Oids
      BY CacheSteps DEF Oids
    <3>2. QED
      BY <1>5, <3>1 DEF NothingReadOnly
  <2>3. QED
    BY <1>3, <2>1, <2>2 DEF ServedInv, OrderedRuns
<1>6. CASE KMInv(size)
  <2>1. RaceInv(size, {})' /\ KMInv(size)'
    BY <1>1, <1>3, <1>4, <1>6, KMNext
  <2>2. QED
    BY <1>3, <2>1 DEF ServedInv, OrderedRuns
<1>7. QED
  BY <1>2, <1>5, <1>6

\* run does what device_scheduler.hpp says of it, map[f(fst(x), snd(x))], for
\* every client it serves: every function is applied to every block once, in the
\* order of the functions and of the blocks, each to what the ones before it
\* have made of the block, however far the device and the I/O threads are behind
\* and wherever the blocks are cached.
THEOREM AppliedOnce ==
  ASSUME \A p \in Programs : Served(p)
  PROVE  SchedulerSpec => AppliesEachOnce
<1>1. SchedulerInit => ServedInv /\ Map!ZipInit
  BY ServedInit, MapInit
<1>2. ServedInv /\ [SchedulerNext]_vars => ServedInv' /\ [Map!ZipNext]_(Map!zipVars)
  BY ServedNext
<1>3. QED
  BY <1>1, <1>2, PTL DEF SchedulerSpec, AppliesEachOnce, Map!ZipSpec

-----------------------------------------------------------------------------
(***************************************************************************)
(* Reading the results back                                                *)
(***************************************************************************)
\* Every block of a mutable object that a function uses is read, whole, when
\* the last run has returned.
FunctionRead(f, objs, reads) ==
  \A j \in 1 .. Len(f.objs) : \A i \in Nat :
     LET size == objs[f.objs[j]].size
         off == i * f.steps[j]
         len == IF off + f.steps[j] < size THEN f.steps[j] ELSE size - off
     IN  objs[f.objs[j]].mode = "ReadWrite" /\ off < size =>
           \E m \in 1 .. Len(reads) :
              reads[m].oid = f.objs[j] /\ reads[m].bid = off /\ len <= reads[m].len

\* So it is for all functions of a batch,
BatchRead(functions, objs, reads) ==
  \A k \in 1 .. Len(functions) : FunctionRead(functions[k], objs, reads)

\* and for all batches of the client.
ReadsBack(p) == \A n \in 1 .. Len(p.batches) : BatchRead(p.batches[n], p.objects, p.reads)

\* The client has still to read the contents of a slot.
ToRead(c) ==
  \E m \in 1 .. Len(program.reads) :
     /\ program.reads[m].oid = c.oid /\ program.reads[m].bid = c.bid
     /\ c.len <= program.reads[m].len

\* There is nothing left to run.
Reading == pc \in {"idle", "end"} /\ program.batches = <<>>

\* Until then, whatever is cached and mutable will be read.
CoverInv ==
  ~Reading =>
    /\ BatchRead(run_queue, objects, program.reads)
    /\ \A n \in 1 .. Len(program.batches) :
         BatchRead(program.batches[n], objects, program.reads)
    /\ \A s \in Slots : cached[s] # NoBlock /\ objects[cached[s].oid].mode = "ReadWrite" =>
         ToRead(cached[s])

\* Then the host will have the latest version of a mutable block, unless the
\* block is cached and is still to be read.
HostLate(S) ==
  Reading => \A x \in HostPlaces : objects[x[2]].mode = "ReadWrite" =>
    \/ S[x] = S[<<"result">>].ver[<<x[2], x[3]>>]
    \/ pc = "idle" /\ \E s \in Slots : Holds(s, x[2], x[3]) /\ ToRead(cached[s])

\* When the client has ended there is no work left, and there is none to come.
EndInv == pc = "end" => AllWork = {} /\ program.batches = <<>>

\* What the functions of this run use is read.
LEMMA BlockRead ==
  ASSUME HInv, FitInv, pc = "activate", BatchRead(run_queue, objects, program.reads),
         objects[ThisBlock.oid].mode = "ReadWrite"
  PROVE  ToRead(ThisBlock)
<1>1. /\ run.fun \in 1 .. Len(run_queue) /\ run_queue \in Seq(Runnable)
      /\ run.arg \in 1 .. Len(ThisFun.objs) /\ run.index \in Nat
  BY RunFields DEF HInv, HostTypes, Position, ThisFun
<1>2. PICK size, off, f, j, i :
        /\ f = ThisFun /\ j = run.arg /\ i = run.index
        /\ size = objects[f.objs[j]].size /\ off = i * f.steps[j]
  OBVIOUS
<1>3. ThisBlock = [oid |-> f.objs[j], bid |-> off,
                   len |-> IF off + f.steps[j] < size THEN f.steps[j] ELSE size - off]
  BY <1>2 DEF ThisBlock, BlockAt
<1>4. off < size
  BY <1>2, <1>3, BlockAccepted DEF Accepted, ValidPtr
<1>5. FunctionRead(f, objects, program.reads)
  BY <1>1, <1>2 DEF BatchRead, ThisFun
<1>6. \E m \in 1 .. Len(program.reads) :
        /\ program.reads[m].oid = f.objs[j] /\ program.reads[m].bid = off
        /\ (IF off + f.steps[j] < size THEN f.steps[j] ELSE size - off)
             <= program.reads[m].len
  <2>1. j \in 1 .. Len(f.objs) /\ i \in Nat /\ objects[f.objs[j]].mode = "ReadWrite"
    BY <1>1, <1>2, <1>3
  <2>2. objects[f.objs[j]].mode = "ReadWrite" /\ i * f.steps[j] < objects[f.objs[j]].size =>
          \E m \in 1 .. Len(program.reads) :
             /\ program.reads[m].oid = f.objs[j] /\ program.reads[m].bid = i * f.steps[j]
             /\ (IF i * f.steps[j] + f.steps[j] < objects[f.objs[j]].size THEN f.steps[j]
                 ELSE objects[f.objs[j]].size - i * f.steps[j])
                  <= program.reads[m].len
    BY <1>5, <2>1 DEF FunctionRead
  <2>3. QED
    BY <1>2, <1>4, <2>1, <2>2
<1>7. QED
  BY <1>3, <1>6 DEF ToRead

\* Only the client changes what it reads.
LEMMA ReadsStay ==
  ASSUME HInv, [SchedulerNext]_vars, ~ClientRead
  PROVE  program'.reads = program.reads
<1>1. program \in [objects : Seq([size : Nat \ {0}, mode : ObjectMode]),
                   batches : Seq(Batch), reads : Seq(Block)]
  BY DEF HInv, HostTypes
<1>2. CASE StartBatch
  BY <1>1, <1>2 DEF StartBatch
<1>3. CASE RegisterOk \/ RegisterFails \/ ActivateFails \/ RunFunction \/ Finish \/ ClientEnds
  BY <1>3 DEF RegisterOk, RegisterFails, ActivateFails, RunFunction, Finish, ClientEnds, Fail
<1>4. CASE ActivateAgain \/ ActivateHit \/ ActivateMiss
  BY <1>4, ObjectDoneLeaves DEF ActivateAgain, ActivateHit, ActivateMiss
<1>5. CASE Deactivate
  BY <1>5 DEF Deactivate, Fail
<1>6. CASE (\E q \in Queues : DeviceStep(q) \/ IOThreadStep(q)) \/ Done \/ UNCHANGED vars
  BY <1>6 DEF DeviceStep, IOThreadStep, Done, vars, hostVars
<1>7. QED
  BY <1>2, <1>3, <1>4, <1>5, <1>6 DEF SchedulerNext, HostStep

\* When there is nothing left to run it stays so; and only run's end gets there.
LEMMA ReadingSteps ==
  ASSUME RInv, [SchedulerNext]_vars, run_ret' = 1
  PROVE  /\ Reading => /\ Reading'
                       /\ \/ ClientRead \/ ClientEnds \/ UNCHANGED vars
                          \/ \E q \in Queues : DeviceStep(q) \/ IOThreadStep(q)
         /\ ~Reading /\ Reading' => Finish
         /\ ClientRead => Reading
         /\ pc' = "end" =>
              \/ ClientEnds \/ UNCHANGED vars
              \/ \E q \in Queues : DeviceStep(q) \/ IOThreadStep(q)
<1>1. HInv /\ run \in RunState
  BY DEF RInv, HInv, HostTypes
<1>2. program'.batches = program.batches \/ StartBatch
  BY <1>1, ProgramSteps
<1>3. CASE StartBatch
  BY <1>3 DEF StartBatch, Reading, ClientRead
<1>4. CASE RegisterOk
  BY <1>4 DEF RegisterOk, Reading, ClientRead
<1>5. CASE ActivateAgain \/ ActivateHit \/ ActivateMiss
  <2>1. pc = "activate"
    BY <1>5 DEF ActivateAgain, ActivateHit, ActivateMiss
  <2>2. PICK fst, act, bufs : ObjectDone(fst, act, bufs)
    BY <1>5 DEF ActivateAgain, ActivateHit, ActivateMiss, Transfer, GotBuffer
  <2>3. pc' \in {"activate", "run"}
    BY <1>1, <2>1, <2>2, ObjectDoneRuns
  <2>4. QED
    BY <2>1, <2>3 DEF Reading, ClientRead
<1>6. CASE RunFunction
  <2>1. Len(Append(run.active, run.activating)) \in Nat
    BY <1>1, RunFields DEF BufferLists
  <2>2. pc = "run"
    BY <1>6 DEF RunFunction
  <2>3. pc' \in {"run", "drain", "deactivate", "activate"}
    BY <1>6, <2>1 DEF RunFunction, NumQueues
  <2>4. QED
    BY <2>2, <2>3 DEF Reading, ClientRead
<1>7. CASE Deactivate
  <2>1. /\ pc \in {"deactivate", "drain"}
        /\ pc' \in {"activate", "deactivate", "drain", "finish"}
    BY <1>1, <1>7, UnlockSucceeds DEF Deactivate, RunState
  <2>2. QED
    BY <2>1 DEF Reading, ClientRead
<1>8. CASE Finish
  BY <1>8 DEF Finish, Reading, ClientRead
<1>9. CASE ClientRead
  <2>1. pc = "idle" /\ pc' = "idle" /\ program.batches = <<>>
    BY <1>9 DEF ClientRead
  <2>2. program'.batches = program.batches
    BY <1>2, <2>1 DEF StartBatch
  <2>3. QED
    BY <1>9, <2>1, <2>2 DEF Reading
<1>10. CASE ClientEnds
  BY <1>10 DEF ClientEnds, Reading, ClientRead
<1>11. CASE (\E q \in Queues : DeviceStep(q) \/ IOThreadStep(q)) \/ UNCHANGED vars
  <2>1. pc' = pc /\ program' = program
    BY <1>11 DEF DeviceStep, IOThreadStep, vars, hostVars
  <2>2. ClientRead => Reading
    BY DEF ClientRead, Reading
  <2>3. QED
    BY <1>11, <2>1, <2>2 DEF Reading
<1>12. CASE RegisterFails \/ ActivateFails
  BY <1>12 DEF RegisterFails, ActivateFails, Fail
<1>13. QED
  BY <1>3, <1>4, <1>5, <1>6, <1>7, <1>8, <1>9, <1>10, <1>11, <1>12
     DEF SchedulerNext, HostStep, Done

\* What is cached will be read, as long as there is something to run.
LEMMA CoverStep ==
  ASSUME GInv, RInv, FitInv, run_ret' = 1, CoverInv, [SchedulerNext]_vars
  PROVE  CoverInv'
<1>1. HInv /\ HInv'
  BY GNext DEF RInv, GInv
<1>2. SUFFICES ASSUME ~Reading'
               PROVE  CoverInv'
  BY DEF CoverInv
<1>3. ~Reading /\ ~ClientRead
  BY <1>2, ReadingSteps
<1>4. program'.reads = program.reads /\ objects' = objects
  BY <1>1, <1>3, ReadsStay, CacheSteps
<1>5. /\ BatchRead(run_queue, objects, program.reads)
      /\ \A n \in 1 .. Len(program.batches) :
           BatchRead(program.batches[n], objects, program.reads)
      /\ \A s \in Slots : cached[s] # NoBlock /\ objects[cached[s].oid].mode = "ReadWrite" =>
           ToRead(cached[s])
  BY <1>3 DEF CoverInv
<1>6. /\ BatchRead(run_queue', objects, program.reads)
      /\ \A n \in 1 .. Len(program'.batches) :
           BatchRead(program'.batches[n], objects, program.reads)
  <2>1. CASE StartBatch
    <3>1. PICK d, e : d = program.batches /\ e = Head(program.batches)
      OBVIOUS
    <3>2. d \in Seq(Batch) /\ d # <<>> /\ e = d[1] /\ 1 \in 1 .. Len(d)
      <4>1. d \in Seq(Batch) /\ d # <<>>
        BY <1>1, <2>1, <3>1 DEF StartBatch, HInv, HostTypes
      <4>2. QED
        BY <3>1, <4>1
    <3>3. e \in Seq(Runnable)
      BY <3>2, ElementOf DEF Batch
    <3>4. run_queue' = e
      <4>1. run_queue = <<>> /\ run_queue' = run_queue \o e
        BY <2>1, <3>1 DEF StartBatch, RInv, NothingLeft
      <4>2. QED
        BY <3>3, <4>1
    <3>5. program'.batches = Tail(d)
      BY <1>1, <2>1, <3>1 DEF StartBatch, HInv, HostTypes
    <3>6. ASSUME NEW b \in 1 .. Len(Tail(d))
          PROVE  BatchRead(Tail(d)[b], objects, program.reads)
      <4>1. b + 1 \in 1 .. Len(d) /\ Tail(d)[b] = d[b + 1]
        BY <3>2
      <4>2. QED
        BY <1>5, <3>1, <4>1
    <3>7. QED
      BY <1>5, <3>1, <3>2, <3>4, <3>5, <3>6
  <2>2. CASE ~StartBatch
    <3>1. program'.batches = program.batches
      BY <1>1, <2>2, ProgramSteps
    <3>2. CASE run_queue' = run_queue
      BY <1>5, <3>1, <3>2
    <3>3. CASE run_queue' = <<>>
      BY <1>5, <3>1, <3>3 DEF BatchRead
    <3>4. QED
      BY <2>2, <3>2, <3>3, QueueOfFunctions
  <2>3. QED
    BY <2>1, <2>2
<1>7. ASSUME NEW s \in Slots, cached'[s] # NoBlock, objects[cached'[s].oid].mode = "ReadWrite"
      PROVE  ToRead(cached'[s])
  <2>1. CASE cached' = cached
    BY <1>5, <1>7, <2>1
  <2>2. CASE ActivateMiss
    <3>1. PICK t \in Slots : Fill(t, ThisBlock.oid, ThisBlock.bid, ThisBlock.len)
      BY <2>2 DEF ActivateMiss
    <3>2. pc = "activate" /\ cached \in [Slots -> Block]
      BY <1>1, <2>2 DEF ActivateMiss, HInv, IInv, TypeOK
    <3>3. cached' = [cached EXCEPT ![t] = ThisBlock]
      <4>1. ThisBlock = [oid |-> ThisBlock.oid, bid |-> ThisBlock.bid, len |-> ThisBlock.len]
        BY <1>1, <3>2, ThisBlockType
      <4>2. QED
        BY <3>1, <4>1 DEF Fill
    <3>4. CASE s = t
      <4>1. cached'[s] = ThisBlock
        BY <3>2, <3>3, <3>4
      <4>2. QED
        BY <1>1, <1>5, <1>7, <3>2, <4>1, BlockRead
    <3>5. CASE s # t
      <4>1. cached'[s] = cached[s]
        BY <3>2, <3>3, <3>5
      <4>2. QED
        BY <1>5, <1>7, <4>1
    <3>6. QED
      BY <3>4, <3>5
  <2>3. QED
    BY <2>1, <2>2, CacheSteps
<1>8. ASSUME NEW s \in Slots, cached'[s] # NoBlock, objects'[cached'[s].oid].mode = "ReadWrite"
      PROVE  \E m \in 1 .. Len(program'.reads) :
                /\ program'.reads[m].oid = cached'[s].oid
                /\ program'.reads[m].bid = cached'[s].bid
                /\ cached'[s].len <= program'.reads[m].len
  <2>1. ToRead(cached'[s])
    BY <1>4, <1>7, <1>8
  <2>2. QED
    BY <1>4, <2>1 DEF ToRead
<1>9. QED
  BY <1>4, <1>6, <1>8 DEF CoverInv, ToRead

\* Neither the client nor the cache has gone on.
LEMMA HostLateStays ==
  ASSUME NEW S, HostLate(S), objects' = objects, cached' = cached, pc' = pc,
         program' = program
  PROVE  HostLate(S)'
<1>1. HostPlaces' = HostPlaces
  BY PlacesStay
<1>2. QED
  BY <1>1 DEF HostLate, Reading, Holds, ToRead

\* The client reads a block.
LEMMA HostLateRead ==
  ASSUME GInv, NEW S, HostLate(S), ClientRead, NEW T, ReadInto(S, Head(program.reads), T)
  PROVE  HostLate(T)'
<1>1. PICK reads, b : reads = program.reads /\ b = Head(program.reads)
  OBVIOUS
<1>2. /\ reads \in Seq(Block) /\ reads # <<>> /\ pc = "idle" /\ pc' = "idle"
      /\ program.batches = <<>> /\ objects' = objects /\ cached' = cached
      /\ OneHome
  BY <1>1 DEF ClientRead, GInv, HInv, IInv, HostTypes, ReadBack, ReadNothing, Return
<1>3. b = reads[1]
  BY <1>1, <1>2
<1>4. program'.reads = Tail(reads)
  BY <1>1 DEF ClientRead, GInv, HInv, HostTypes
<1>5. HostPlaces' = HostPlaces
  BY <1>2, PlacesStay
<1>6. T[<<"result">>] = S[<<"result">>] /\ Reading
  BY <1>2 DEF ReadInto, Reading
<1>7. ASSUME NEW x \in HostPlaces, objects[x[2]].mode = "ReadWrite",
             T[x] # T[<<"result">>].ver[<<x[2], x[3]>>]
      PROVE  \E s \in Slots : Holds(s, x[2], x[3]) /\ ToRead(cached[s])'
  <2>1. T[x] # S[<<"result">>].ver[<<x[2], x[3]>>]
    BY <1>6, <1>7
  <2>2. S[x] # S[<<"result">>].ver[<<x[2], x[3]>>]
    BY <1>7, <2>1 DEF ReadInto
  <2>3. PICK s \in Slots : Holds(s, x[2], x[3]) /\ ToRead(cached[s])
    BY <1>6, <1>7, <2>2 DEF HostLate
  <2>4. PICK m \in 1 .. Len(reads) : /\ reads[m].oid = cached[s].oid
                                     /\ reads[m].bid = cached[s].bid
                                     /\ cached[s].len <= reads[m].len
    BY <1>1, <2>3 DEF ToRead
  <2>5. m # 1
    <3>1. SUFFICES ASSUME m = 1 PROVE FALSE
      OBVIOUS
    <3>2. b.oid = x[2] /\ b.bid = x[3] /\ cached[s].len <= b.len
      BY <1>3, <2>3, <2>4, <3>1 DEF Holds
    <3>3. cached[s].oid # -1
      BY <1>7, <2>3 DEF Holds, HostPlaces, Oids
    <3>4. \A t \in Slots : Holds(t, b.oid, b.bid) => t = s
      BY <1>2, <2>3, <3>2, <3>3 DEF OneHome, Holds
    <3>5. \A t \in Slots : Holds(t, b.oid, b.bid) => cached[t].len <= b.len
      BY <3>2, <3>4
    <3>6. QED
      BY <1>1, <1>7, <2>1, <3>2, <3>5 DEF ReadInto
  <2>6. m - 1 \in 1 .. Len(Tail(reads)) /\ Tail(reads)[m - 1] = reads[m]
    BY <1>2, <2>5
  <2>7. ToRead(cached[s])'
    BY <1>2, <1>4, <2>4, <2>6 DEF ToRead
  <2>8. QED
    BY <2>3, <2>7
<1>8. QED
  BY <1>2, <1>5, <1>7 DEF HostLate, Holds

\* run has returned, and there is nothing left to run.
LEMMA HostLateFinish ==
  ASSUME HInv, NEW S, HostHolds(S), CoverInv, ~Reading, Finish
  PROVE  HostLate(S)'
<1>1. /\ objects' = objects /\ cached' = cached /\ pc' = "idle" /\ program' = program
  BY DEF Finish, cacheVars
<1>2. HostPlaces' = HostPlaces
  BY <1>1, PlacesStay
<1>3. ASSUME NEW x \in HostPlaces, objects[x[2]].mode = "ReadWrite",
             S[x] # S[<<"result">>].ver[<<x[2], x[3]>>]
      PROVE  \E s \in Slots : Holds(s, x[2], x[3]) /\ ToRead(cached[s])
  <2>1. PICK s \in Slots : Holds(s, x[2], x[3])
    BY <1>3 DEF HostHolds, InCache
  <2>2. cached[s] # NoBlock /\ objects[cached[s].oid].mode = "ReadWrite"
    BY <1>3, <2>1 DEF Holds, NoBlock, HostPlaces, Oids
  <2>3. ToRead(cached[s])
    BY <2>2 DEF CoverInv
  <2>4. QED
    BY <2>1, <2>3
<1>4. QED
  BY <1>1, <1>2, <1>3 DEF HostLate, Holds, ToRead

\* The client has read everything.
LEMMA HostLateEnds ==
  ASSUME NEW S, HostLate(S), ClientEnds, run_ret = 1
  PROVE  HostLate(S)'
<1>1. /\ objects' = objects /\ pc = "idle" /\ program.reads = <<>> /\ program.batches = <<>>
  BY DEF ClientEnds, cacheVars
<1>2. HostPlaces' = HostPlaces
  BY <1>1, PlacesStay
<1>3. \A c : ~ToRead(c)
  BY <1>1 DEF ToRead
<1>4. Reading
  BY <1>1 DEF Reading
<1>5. QED
  BY <1>1, <1>2, <1>3, <1>4 DEF HostLate

\* After every step.
LEMMA LateStep ==
  ASSUME GInv, RunsInv, BacklogsOrdered, NEW size \in Sizes, RaceInv(size, {}),
         ActivatingCut(size), NEW v, NEW S, DataIs(v, S), HostLate(S), CoverInv,
         [SchedulerNext]_vars
  PROVE  \E u, T : DataIs(u, T)' /\ HostLate(T)'
<1>1. /\ RInv /\ FitInv /\ run_ret = 1 /\ run_ret' = 1 /\ HInv /\ objects' = objects
  BY RunsNext, CacheSteps DEF RunsInv, RInv
<1>2. CASE ~Reading'
  <2>1. PICK u, T : DataIs(u, T)'
    BY <1>1, MemoryStep
  <2>2. HostLate(T)'
    BY <1>2 DEF HostLate
  <2>3. QED
    BY <2>1, <2>2
<1>3. CASE ClientRead
  <2>1. PICK T : DataIs(v, T)' /\ ReadInto(S, Head(program.reads), T)
    BY <1>3, ReadData
  <2>2. HostLate(T)'
    BY <1>3, <2>1, HostLateRead
  <2>3. QED
    BY <2>1, <2>2
<1>4. CASE Finish /\ ~Reading
  <2>1. DataIs(v, S)'
    BY <1>1, <1>4, OtherData
  <2>2. HostLate(S)'
    BY <1>1, <1>4, HostLateFinish DEF DataIs
  <2>3. QED
    BY <2>1, <2>2
<1>5. CASE ClientEnds
  <2>1. DataIs(v, S)'
    BY <1>1, <1>5, OtherData
  <2>2. HostLate(S)'
    BY <1>1, <1>5, HostLateEnds
  <2>3. QED
    BY <2>1, <2>2
<1>6. CASE UNCHANGED vars
  <2>1. DataIs(v, S)'
    BY <1>1, <1>6, OtherData
  <2>2. cached' = cached /\ pc' = pc /\ program' = program
    BY <1>6 DEF vars, cacheVars, hostVars
  <2>3. HostLate(S)'
    BY <1>1, <2>2, HostLateStays
  <2>4. QED
    BY <2>1, <2>3
<1>7. CASE \E q \in Queues : DeviceStep(q) \/ IOThreadStep(q)
  <2>1. PICK q \in Queues : DeviceStep(q) \/ IOThreadStep(q)
    BY <1>7
  <2>2. PICK w \in Workers : WorkerStep(w)
    BY <2>1, WorkerSteps DEF GInv
  <2>3. PICK op, e, u : /\ op = Backlog(w)[1] /\ e = Effect(op, Data(v))
                        /\ u = e[<<"result">>].ver
    OBVIOUS
  <2>4. DataIs(u, S)'
    BY <1>1, <2>2, <2>3, WorkerData
  <2>5. cached' = cached /\ pc' = pc /\ program' = program
    BY <2>2 DEF WorkerStep, cacheVars, hostVars
  <2>6. HostLate(S)'
    BY <1>1, <2>5, HostLateStays
  <2>7. QED
    BY <2>4, <2>6
<1>8. QED
  BY <1>1, <1>2, <1>3, <1>4, <1>5, <1>6, <1>7, ReadingSteps

\* The client waits for its own queue; those of run are empty.
LEMMA EndsDone ==
  ASSUME RInv, run_ret = 1, ClientEnds
  PROVE  AllWork' = {}
<1>1. /\ pc = "idle" /\ commands[ClientQueue] = <<>>
      /\ commands' = commands /\ io' = io
  BY DEF ClientEnds, queueVars
<1>2. ASSUME NEW w \in Workers
      PROVE  Backlog(w) = <<>>
  <2>1. PICK q \in Queues, side \in {"device", "io"} : w = <<q, side>>
    BY DEF Workers
  <2>2. commands[q] = <<>>
    <3>1. \A p \in 0 .. NumQueues - 1 : commands[p] = <<>>
      BY <1>1 DEF RInv, Quiet
    <3>2. q = ClientQueue \/ q \in 0 .. NumQueues - 1
      BY DEF Queues, ClientQueue, NumQueues
    <3>3. QED
      BY <1>1, <3>1, <3>2
  <2>3. io[q] \in Seq(Work) /\ Await(commands[q], io[q])
    BY DEF RInv, QueueTypes, TasksAwaited
  <2>4. io[q] = <<>>
    BY <2>2, <2>3 DEF Await
  <2>5. QED
    BY <2>1, <2>2, <2>4 DEF Backlog
<1>3. AllWork = {}
  BY <1>2 DEF AllWork
<1>4. AllWork' = AllWork
  BY <1>1 DEF AllWork, Backlog
<1>5. QED
  BY <1>3, <1>4

\* After that there is nothing to do.
LEMMA EndStep ==
  ASSUME GInv, RInv, run_ret = 1, run_ret' = 1, EndInv, [SchedulerNext]_vars
  PROVE  EndInv'
<1>1. SUFFICES ASSUME pc' = "end"
               PROVE  AllWork' = {} /\ program'.batches = <<>>
  BY DEF EndInv
<1>2. CASE ClientEnds
  <2>1. program' = program /\ program.batches = <<>>
    BY <1>2 DEF ClientEnds
  <2>2. QED
    BY <1>2, <2>1, EndsDone
<1>3. CASE UNCHANGED vars
  <2>1. /\ pc' = pc /\ program' = program /\ commands' = commands /\ io' = io
    BY <1>3 DEF vars, hostVars, queueVars
  <2>2. AllWork' = AllWork
    BY <2>1 DEF AllWork, Backlog
  <2>3. QED
    BY <1>1, <2>1, <2>2 DEF EndInv
<1>4. CASE \E q \in Queues : DeviceStep(q) \/ IOThreadStep(q)
  <2>1. PICK q \in Queues : DeviceStep(q) \/ IOThreadStep(q)
    BY <1>4
  <2>2. PICK w \in Workers : WorkerStep(w)
    BY <2>1, WorkerSteps DEF GInv
  <2>3. pc' = pc /\ Backlog(w) # <<>>
    BY <2>2 DEF WorkerStep, hostVars
  <2>4. AllWork = {}
    BY <1>1, <2>3 DEF EndInv
  <2>5. Backlog(w)[1] \in AllWork
    <3>1. Backlog(w) \in Seq(Work)
      <4>1. PICK p \in Queues, side \in {"device", "io"} : w = <<p, side>>
        BY DEF Workers
      <4>2. commands[p] \in Seq(Work) /\ io[p] \in Seq(Work)
        BY DEF RInv, QueueTypes
      <4>3. QED
        BY <4>1, <4>2 DEF Backlog
    <3>2. 1 \in 1 .. Len(Backlog(w))
      BY <2>3, <3>1
    <3>3. QED
      BY <3>2 DEF AllWork
  <2>6. QED
    BY <2>4, <2>5
<1>5. QED
  BY <1>1, <1>2, <1>3, <1>4, ReadingSteps

\* What memory will be, and what of it the client has still to read.
LateInv ==
  /\ CoverInv /\ EndInv
  /\ \E v, S : DataIs(v, S) /\ HostLate(S)

\* Before the first run nothing is cached: all that is valid is on the host.
LEMMA LateInit ==
  ASSUME SchedulerInit, \A p \in Programs : ReadsBack(p)
  PROVE  LateInv
<1>1. /\ program \in Programs /\ objects = program.objects /\ run_queue = <<>>
      /\ pc = "idle" /\ cached = [s \in Slots |-> NoBlock]
  BY DEF SchedulerInit, CacheEmpty
<1>2. CoverInv
  <2>1. \A n \in 1 .. Len(program.batches) :
          BatchRead(program.batches[n], objects, program.reads)
    BY <1>1 DEF ReadsBack
  <2>2. BatchRead(run_queue, objects, program.reads)
    BY <1>1 DEF BatchRead
  <2>3. QED
    BY <1>1, <2>1, <2>2 DEF CoverInv
<1>3. EndInv
  BY <1>1 DEF EndInv
<1>4. PICK v, S : DataIs(v, S)
  BY InitData
<1>5. HostLate(S)
  <2>1. \A x \in HostPlaces : ~InCache(x[2], x[3])
    BY <1>1 DEF InCache, Holds, NoBlock, HostPlaces, Oids
  <2>2. HostHolds(S)
    BY <1>4 DEF DataIs
  <2>3. QED
    BY <2>1, <2>2 DEF HostLate, HostHolds
<1>6. \E x, y : DataIs(x, y) /\ HostLate(y)
  BY <1>4, <1>5
<1>7. QED
  BY <1>2, <1>3, <1>6 DEF LateInv

\* After every step.
LEMMA LateNext ==
  ASSUME ServedInv, LateInv, [SchedulerNext]_vars
  PROVE  LateInv'
<1>1. /\ GInv /\ RunsInv /\ RInv /\ FitInv /\ run_ret = 1 /\ run_ret' = 1
  BY RunsNext DEF ServedInv, RunsInv
<1>2. PICK size \in Sizes : RaceInv(size, {}) /\ BacklogsOrdered /\ ActivatingCut(size)
  BY DEF ServedInv, OrderedRuns, MapInv
<1>3. PICK v, S : DataIs(v, S) /\ HostLate(S)
  BY DEF LateInv
<1>4. CoverInv /\ EndInv
  BY DEF LateInv
<1>5. CoverInv' /\ EndInv'
  BY <1>1, <1>4, CoverStep, EndStep
<1>6. PICK u, T : DataIs(u, T)' /\ HostLate(T)'
  BY <1>1, <1>2, <1>3, <1>4, LateStep
<1>7. (\E x, y : DataIs(x, y) /\ HostLate(y))'
  BY <1>6
<1>8. QED
  BY <1>5, <1>7 DEF LateInv

\* When the client has ended memory is as it was to be, and nothing is to be read.
LEMMA LateIsCurrent ==
  ASSUME ServedInv, LateInv
  PROVE  HostCurrentAtEnd
<1>1. SUFFICES ASSUME pc = "end", NEW o \in DOMAIN objects, objects[o].mode = "ReadWrite",
                      NEW off \in DOMAIN memory[o]
               PROVE  memory[o][off] = Latest(o, off)
  BY DEF HostCurrentAtEnd
<1>2. GInv /\ TypeOK /\ DataTypes /\ next_event \in Nat
  BY DEF ServedInv, GInv, HInv, IInv, HostTypes
<1>3. PICK v, S : DataIs(v, S) /\ HostLate(S)
  BY DEF LateInv
<1>4. AllWork = {} /\ Reading
  BY <1>1 DEF LateInv, EndInv, Reading
<1>5. Data(v) = S
  BY <1>2, <1>3, <1>4, DoneData
<1>6. o \in Oids /\ off \in 0 .. objects[o].size - 1
  <2>1. objects \in Seq([size : Nat, mode : ObjectMode])
    BY <1>2 DEF TypeOK
  <2>2. o \in Oids
    BY <1>1, <2>1 DEF Oids
  <2>3. QED
    BY <1>1, <1>2, <2>2 DEF DataTypes
<1>7. PICK x : x = <<"host", o, off>>
  OBVIOUS
<1>8. x \in HostPlaces /\ x[2] = o /\ x[3] = off
  <2>1. o \in Nat /\ off \in Nat
    <3>1. o \in Nat
      BY <1>6 DEF Oids
    <3>2. PICK m : m = objects[o].size - 1
      OBVIOUS
    <3>3. off \in 0 .. m
      BY <1>6, <3>2
    <3>4. QED
      BY <3>1, <3>3
  <2>2. x \in {"host"} \X Nat \X Nat /\ x[2] = o /\ x[3] = off
    BY <1>7, <2>1
  <2>3. QED
    BY <1>6, <2>2 DEF HostPlaces
<1>9. S[x] = S[<<"result">>].ver[<<o, off>>]
  BY <1>1, <1>3, <1>4, <1>8 DEF HostLate
<1>10. S[x] = memory[o][off] /\ S[<<"result">>].ver = v
  <2>1. /\ \A y \in HostPlaces : S[y] = memory[y[2]][y[3]]
        /\ S[<<"result">>] = [log |-> log, ver |-> v, ok |-> TRUE]
    BY <1>5, DataPlaces
  <2>2. QED
    BY <1>8, <2>1
<1>11. Latest(o, off) = v[<<o, off>>]
  BY <1>2, <1>3, <1>6, LatestOfData DEF LatestIsIn
<1>12. QED
  BY <1>9, <1>10, <1>11

\* Once its runs have returned, a client that reads every block its functions
\* use has the latest version of its mutable objects in its own memory: the one
\* the kernels made, whether the block was written back when its slot was
\* reused or was still cached when the client read it.
THEOREM ReadBackCurrent ==
  ASSUME \A p \in Programs : Served(p) /\ ReadsBack(p)
  PROVE  SchedulerSpec => []HostCurrentAtEnd
<1>1. SchedulerInit => ServedInv /\ LateInv
  BY ServedInit, LateInit
<1>2. ServedInv /\ LateInv /\ [SchedulerNext]_vars => (ServedInv /\ LateInv)'
  BY ServedNext, LateNext
<1>3. ServedInv /\ LateInv => HostCurrentAtEnd
  BY LateIsCurrent
<1>4. QED
  BY <1>1, <1>2, <1>3, PTL DEF SchedulerSpec

-----------------------------------------------------------------------------
(***************************************************************************)
(* The clients of the repository                                           *)
(***************************************************************************)
\* The buffered k-means, for points whose features divide the buffer size.
SizedKMeans(p) ==
  \E num_points, num_features, labels_step \in Nat \ {0} : \E iterations \in Nat :
     /\ labels_step * num_features <= BufferSize
     /\ p = KMeansBuffered(num_points, num_features, labels_step * num_features, iterations)

\* The test, for objects of any size.
SizedUnary(p) ==
  \E size, step \in Nat \ {0} : step <= BufferSize /\ p = RunUnaryAndRead(size, step)

\* Division of a product.
LEMMA ProductDivides ==
  ASSUME NEW l \in Nat \ {0}, NEW f \in Nat \ {0}
  PROVE  (l * f) \div f = l /\ l * f \in Nat \ {0} /\ l <= l * f
<1> DEFINE n == l * f
           q == n \div f
           r == n % f
<1>1. n \in Int /\ n = f * l /\ 0 < n /\ l <= n
  OBVIOUS
<1>2. q \in Int /\ r \in 0 .. f - 1 /\ n = f * q + r
  BY <1>1, Quotient
<1> HIDE DEF q, r
<1>3. f * q \in Int /\ f * l \in Int
  BY <1>2
<1>4. ~(q < l)
  <2>1. q < l => f * q + f <= f * l
    BY <1>2, ProductsInOrder
  <2>2. QED
    BY <1>1, <1>2, <1>3, <2>1
<1>5. ~(l < q)
  <2>1. l < q => f * l + f <= f * q
    BY <1>2, ProductsInOrder
  <2>2. QED
    BY <1>1, <1>2, <1>3, <2>1
<1>6. q = l
  BY <1>2, <1>4, <1>5
<1>7. QED
  BY <1>1, <1>6 DEF q

\* Points and labels have the same number of blocks.
LEMMA BlocksMatch ==
  ASSUME NEW a \in Nat \ {0}, NEW l \in Nat \ {0}, NEW f \in Nat \ {0}
  PROVE  CeilDiv(a * f, l * f) = CeilDiv(a, l)
<1>1. PICK b, m, c, d : /\ b = a * f /\ m = l * f
                        /\ c = CeilDiv(b, m) /\ d = CeilDiv(a, l)
  OBVIOUS
<1>2. b \in Nat \ {0} /\ m \in Nat \ {0}
  <2>1. a * f \in Nat \ {0} /\ l * f \in Nat \ {0}
    BY ProductDivides
  <2>2. QED
    BY <1>1, <2>1
<1>3. c \in Nat /\ d \in Nat
  <2>1. CeilDiv(b, m) \in Int /\ 0 < CeilDiv(b, m)
    BY <1>2, BlocksBegin
  <2>2. CeilDiv(a, l) \in Int /\ 0 < CeilDiv(a, l)
    BY BlocksBegin
  <2>3. QED
    BY <1>1, <2>1, <2>2
<1>4. ASSUME NEW i \in Nat
      PROVE  i < c <=> i < d
  <2>1. (i < c <=> i * m < b) /\ (i < d <=> i * l < a)
    BY <1>1, <1>2, BlocksBegin
  <2>2. i * m = f * (i * l) /\ b = f * a /\ i * l \in Int
    BY <1>1
  <2>3. i * l < a => f * (i * l) + f <= f * a
    BY <2>2, ProductsInOrder
  <2>4. a < i * l => f * a + f <= f * (i * l)
    BY <2>2, ProductsInOrder
  <2>5. f * (i * l) \in Int /\ f * a \in Int
    BY <2>2
  <2>6. a = i * l => f * a = f * (i * l)
    OBVIOUS
  <2>7. QED
    BY <2>1, <2>2, <2>3, <2>4, <2>5, <2>6
<1>5. ~(c < d) /\ ~(d < c)
  BY <1>3, <1>4
<1>6. QED
  BY <1>1, <1>3, <1>5

\* The loop that reads an object back reads all its blocks.
LEMMA BlocksRead ==
  ASSUME NEW o, NEW size \in Nat \ {0}, NEW step \in Nat \ {0}, NEW i \in Nat,
         i * step < size
  PROVE  \E m \in 1 .. Len(Blocks(o, size, step)) :
            /\ Blocks(o, size, step)[m].oid = o
            /\ Blocks(o, size, step)[m].bid = i * step
            /\ (IF i * step + step < size THEN step ELSE size - i * step)
                 <= Blocks(o, size, step)[m].len
<1>1. PICK n, reads : n = CeilDiv(size, step) /\ reads = Blocks(o, size, step)
  OBVIOUS
<1>2. n \in Nat /\ i < n
  <2>1. CeilDiv(size, step) \in Int /\ i < CeilDiv(size, step)
    BY BlocksBegin
  <2>2. QED
    BY <1>1, <2>1
<1>3. reads = [k \in 1 .. n |->
         [oid |-> o, bid |-> (k - 1) * step,
          len |-> IF k * step <= size THEN step ELSE size - (k - 1) * step]]
  BY <1>1 DEF Blocks
<1>4. Len(reads) = n
  BY <1>2, <1>3
<1>5. i + 1 \in 1 .. n /\ (i + 1) - 1 = i
  BY <1>2
<1>6. (i + 1) * step = i * step + step /\ i * step \in Int
  OBVIOUS
<1>7. reads[i + 1] = [oid |-> o, bid |-> i * step,
          len |-> IF i * step + step <= size THEN step ELSE size - i * step]
  BY <1>3, <1>5, <1>6
<1>8. QED
  BY <1>1, <1>4, <1>5, <1>6, <1>7

\* The k-means is a client that run serves, and reads its labels back.
LEMMA KMeansIsServed ==
  ASSUME 2 * DoubleBuffering <= NumSlots, NEW p, SizedKMeans(p)
  PROVE  Served(p) /\ KMeansClient(p) /\ ReadsBack(p)
<1>1. PICK a, f, l \in Nat \ {0} : \E iterations \in Nat :
        /\ l * f <= BufferSize
        /\ p = KMeansBuffered(a, f, l * f, iterations)
  BY DEF SizedKMeans
<1>2. PICK n \in Nat : l * f <= BufferSize /\ p = KMeansBuffered(a, f, l * f, n)
  BY <1>1
<1>3. (l * f) \div f = l /\ l * f \in Nat \ {0} /\ l <= l * f /\ a * f \in Nat \ {0}
  BY ProductDivides
<1>4. PICK step, rows : /\ step = l * f /\ rows = a * f
                        /\ step \in Nat \ {0} /\ step <= BufferSize /\ l <= step
                        /\ rows \in Nat \ {0}
  BY <1>2, <1>3
<1>5. p = [objects |-> <<Obj(rows, "ReadOnly"), Obj(a, "ReadWrite")>>,
           batches |-> [i \in 1 .. n |-> KMeansIteration(step, l)],
           reads |-> Blocks(2, a, l)]
  <2>1. step \div f = l
    BY <1>3, <1>4
  <2>2. KMeansBuffered(a, f, step, n) =
          [objects |-> <<Obj(a * f, "ReadOnly"), Obj(a, "ReadWrite")>>,
           batches |-> [i \in 1 .. n |-> KMeansIteration(step, step \div f)],
           reads |-> Blocks(2, a, step \div f)]
    BY DEF KMeansBuffered
  <2>3. QED
    BY <1>2, <1>4, <2>1, <2>2
<1>6. PICK fs : fs = KMeansIteration(step, l)
  OBVIOUS
<1>7. fs = <<[objs |-> <<1, 2>>, steps |-> <<step, l>>],
             [objs |-> <<2>>, steps |-> <<l>>],
             [objs |-> <<1, 2>>, steps |-> <<step, l>>]>>
  BY <1>6 DEF KMeansIteration, Binary, Unary
<1>8. /\ Len(p.objects) = 2
      /\ p.objects[1] = [size |-> rows, mode |-> "ReadOnly"]
      /\ p.objects[2] = [size |-> a, mode |-> "ReadWrite"]
      /\ p.reads = Blocks(2, a, l)
      /\ Len(p.batches) = n /\ \A b \in 1 .. Len(p.batches) : p.batches[b] = fs
  <2>1. p.objects = <<[size |-> rows, mode |-> "ReadOnly"], [size |-> a, mode |-> "ReadWrite"]>>
    BY <1>5 DEF Obj
  <2>2. p.reads = Blocks(2, a, l)
    BY <1>5
  <2>3. p.batches = [i \in 1 .. n |-> fs]
    BY <1>5, <1>6
  <2>4. Len(p.batches) = n /\ \A b \in 1 .. n : p.batches[b] = fs
    BY <2>3
  <2>5. QED
    BY <2>1, <2>2, <2>4
<1>9. ASSUME NEW k \in 1 .. Len(fs), NEW j \in 1 .. Len(fs[k].objs)
      PROVE  \/ fs[k].objs[j] = 1 /\ fs[k].steps[j] = step
             \/ fs[k].objs[j] = 2 /\ fs[k].steps[j] = l
  <2>1. PICK g, h : /\ g = [objs |-> <<1, 2>>, steps |-> <<step, l>>]
                    /\ h = [objs |-> <<2>>, steps |-> <<l>>]
                    /\ fs = <<g, h, g>>
    BY <1>7
  <2>2. /\ g.objs = <<1, 2>> /\ g.steps = <<step, l>>
        /\ h.objs = <<2>> /\ h.steps = <<l>>
    BY <2>1
  <2>3. CASE fs[k] = g
    BY <2>2, <2>3
  <2>4. CASE fs[k] = h
    BY <2>2, <2>4
  <2>5. fs[k] = g \/ fs[k] = h
    <3>1. fs = <<g, h, g>>
      BY <2>1
    <3>2. k \in 1 .. 3 /\ \A m \in 1 .. 3 : fs[m] = g \/ fs[m] = h
      BY <3>1
    <3>3. QED
      BY <3>2
  <2>6. QED
    BY <2>3, <2>4, <2>5
<1>10. FitsPool(p)
  <2>1. PICK m \in Nat : m = CeilDiv(a, l)
    BY BlocksBegin
  <2>2. CeilDiv(rows, step) = m
    BY <1>4, <2>1, BlocksMatch
  <2>3. BatchFits(fs, p.objects, m)
    <3>1. ASSUME NEW k \in 1 .. Len(fs), NEW j \in 1 .. Len(fs[k].objs)
          PROVE  LET o == fs[k].objs[j]
                 IN  /\ o \in 1 .. Len(p.objects)
                     /\ o * DoubleBuffering <= NumSlots
                     /\ fs[k].steps[j] <= BufferSize
                     /\ CeilDiv(p.objects[o].size, fs[k].steps[j]) = m
      <4>1. NumSlots \in Nat /\ BufferSize \in Nat
        BY CacheAssumption
      <4>2. /\ step <= BufferSize /\ l <= BufferSize
            /\ 1 * DoubleBuffering <= NumSlots /\ 2 * DoubleBuffering <= NumSlots
        <5>1. step \in Nat /\ step <= BufferSize /\ l <= step
          BY <1>4
        <5>2. QED
          BY <4>1, <5>1 DEF DoubleBuffering
      <4>3. CASE fs[k].objs[j] = 1 /\ fs[k].steps[j] = step
        BY <1>8, <2>2, <4>2, <4>3
      <4>4. CASE fs[k].objs[j] = 2 /\ fs[k].steps[j] = l
        BY <1>8, <2>1, <4>2, <4>4
      <4>5. QED
        BY <1>9, <4>3, <4>4
    <3>2. QED
      BY <3>1 DEF BatchFits
  <2>4. QED
    BY <1>8, <2>3 DEF FitsPool
<1>11. SameSteps(p)
  <2>1. PICK size : size = [o \in Nat \ {0} |-> IF o = 1 THEN step ELSE l]
    OBVIOUS
  <2>2. size \in Sizes /\ size[1] = step /\ size[2] = l
    BY <1>4, <2>1 DEF Sizes
  <2>3. \A k \in 1 .. Len(fs) : Cuts(fs[k], size)
    BY <1>9, <2>2 DEF Cuts
  <2>4. QED
    BY <1>8, <2>2, <2>3 DEF SameSteps
<1>12. KMeansClient(p)
  <2>1. IterationOf(fs)
    BY <1>7, <1>9 DEF IterationOf, PointsId, LabelsId
  <2>2. QED
    BY <1>8, <2>1 DEF KMeansClient, PointsId, LabelsId
<1>13. ReadsBack(p)
  <2>1. ASSUME NEW k \in 1 .. Len(fs), NEW j \in 1 .. Len(fs[k].objs), NEW i \in Nat,
               p.objects[fs[k].objs[j]].mode = "ReadWrite",
               i * fs[k].steps[j] < p.objects[fs[k].objs[j]].size
        PROVE  \E m \in 1 .. Len(p.reads) :
                  /\ p.reads[m].oid = fs[k].objs[j] /\ p.reads[m].bid = i * fs[k].steps[j]
                  /\ (IF i * fs[k].steps[j] + fs[k].steps[j] < p.objects[fs[k].objs[j]].size
                      THEN fs[k].steps[j]
                      ELSE p.objects[fs[k].objs[j]].size - i * fs[k].steps[j])
                       <= p.reads[m].len
    <3>1. fs[k].objs[j] = 2 /\ fs[k].steps[j] = l /\ p.objects[fs[k].objs[j]].size = a
      BY <1>8, <1>9, <2>1
    <3>2. i * l < a
      BY <2>1, <3>1
    <3>3. \E m \in 1 .. Len(p.reads) :
             /\ p.reads[m].oid = 2 /\ p.reads[m].bid = i * l
             /\ (IF i * l + l < a THEN l ELSE a - i * l) <= p.reads[m].len
      <4>1. PICK reads : reads = Blocks(2, a, l)
        OBVIOUS
      <4>2. \E m \in 1 .. Len(reads) :
               /\ reads[m].oid = 2 /\ reads[m].bid = i * l
               /\ (IF i * l + l < a THEN l ELSE a - i * l) <= reads[m].len
        BY <3>2, <4>1, BlocksRead, ZenonT(30)
      <4>3. QED
        BY <1>8, <4>1, <4>2
    <3>4. QED
      BY <3>1, <3>3
  <2>2. ASSUME NEW k \in 1 .. Len(fs) PROVE FunctionRead(fs[k], p.objects, p.reads)
    BY <2>1 DEF FunctionRead
  <2>3. BatchRead(fs, p.objects, p.reads)
    BY <2>2 DEF BatchRead
  <2>4. QED
    BY <1>8, <2>3 DEF ReadsBack
<1>14. QED
  BY <1>10, <1>11, <1>12, <1>13 DEF Served

\* So is the test.
LEMMA UnaryIsServed ==
  ASSUME NEW p, SizedUnary(p)
  PROVE  Served(p) /\ AllMutable(p) /\ ReadsBack(p)
<1>1. PICK a, l \in Nat \ {0} : l <= BufferSize /\ p = RunUnaryAndRead(a, l)
  BY DEF SizedUnary
<1>2. PICK g, fs : g = [objs |-> <<1>>, steps |-> <<l>>] /\ fs = <<g, g>>
  OBVIOUS
<1>3. p = [objects |-> <<Obj(a, "ReadWrite"), Obj(a, "ReadWrite")>>,
           batches |-> <<fs>>, reads |-> Blocks(1, a, l)]
  BY <1>1, <1>2 DEF RunUnaryAndRead, Unary
<1>4. /\ p.objects = <<[size |-> a, mode |-> "ReadWrite"], [size |-> a, mode |-> "ReadWrite"]>>
      /\ p.batches = <<fs>> /\ p.reads = Blocks(1, a, l)
  BY <1>3 DEF Obj
<1>5. /\ Len(p.objects) = 2
      /\ \A o \in 1 .. 2 : p.objects[o] = [size |-> a, mode |-> "ReadWrite"]
      /\ \A b \in 1 .. Len(p.batches) : p.batches[b] = fs
  BY <1>4
<1>6. ASSUME NEW k \in 1 .. Len(fs), NEW j \in 1 .. Len(fs[k].objs)
      PROVE  fs[k].objs[j] = 1 /\ fs[k].steps[j] = l
  <2>1. g.objs = <<1>> /\ g.steps = <<l>>
    BY <1>2
  <2>2. fs[k] = g
    <3>1. fs = <<g, g>>
      BY <1>2
    <3>2. k \in 1 .. 2 /\ \A m \in 1 .. 2 : fs[m] = g
      BY <3>1
    <3>3. QED
      BY <3>2
  <2>3. QED
    BY <2>1, <2>2
<1>7. FitsPool(p)
  <2>1. PICK m \in Nat : m = CeilDiv(a, l)
    BY BlocksBegin
  <2>2. 1 * DoubleBuffering <= NumSlots
    BY CacheAssumption DEF DoubleBuffering
  <2>3. BatchFits(fs, p.objects, m)
    BY <1>1, <1>5, <1>6, <2>1, <2>2 DEF BatchFits
  <2>4. QED
    BY <1>5, <2>3 DEF FitsPool
<1>8. SameSteps(p)
  <2>1. PICK size : size = [o \in Nat \ {0} |-> l]
    OBVIOUS
  <2>2. size \in Sizes /\ size[1] = l
    BY <2>1 DEF Sizes
  <2>3. \A k \in 1 .. Len(fs) : Cuts(fs[k], size)
    BY <1>6, <2>2 DEF Cuts
  <2>4. QED
    BY <1>5, <2>2, <2>3 DEF SameSteps
<1>9. AllMutable(p)
  BY <1>5 DEF AllMutable
<1>10. ReadsBack(p)
  <2>1. ASSUME NEW k \in 1 .. Len(fs), NEW j \in 1 .. Len(fs[k].objs), NEW i \in Nat,
               i * fs[k].steps[j] < p.objects[fs[k].objs[j]].size
        PROVE  \E m \in 1 .. Len(p.reads) :
                  /\ p.reads[m].oid = fs[k].objs[j] /\ p.reads[m].bid = i * fs[k].steps[j]
                  /\ (IF i * fs[k].steps[j] + fs[k].steps[j] < p.objects[fs[k].objs[j]].size
                      THEN fs[k].steps[j]
                      ELSE p.objects[fs[k].objs[j]].size - i * fs[k].steps[j])
                       <= p.reads[m].len
    <3>1. fs[k].objs[j] = 1 /\ fs[k].steps[j] = l /\ p.objects[fs[k].objs[j]].size = a
      BY <1>5, <1>6, <2>1
    <3>2. i * l < a
      BY <2>1, <3>1
    <3>3. \E m \in 1 .. Len(p.reads) :
             /\ p.reads[m].oid = 1 /\ p.reads[m].bid = i * l
             /\ (IF i * l + l < a THEN l ELSE a - i * l) <= p.reads[m].len
      <4>1. PICK reads : reads = Blocks(1, a, l)
        OBVIOUS
      <4>2. \E m \in 1 .. Len(reads) :
               /\ reads[m].oid = 1 /\ reads[m].bid = i * l
               /\ (IF i * l + l < a THEN l ELSE a - i * l) <= reads[m].len
        BY <3>2, <4>1, BlocksRead, ZenonT(30)
      <4>3. QED
        BY <1>4, <4>1, <4>2
    <3>4. QED
      BY <3>1, <3>3
  <2>2. ASSUME NEW k \in 1 .. Len(fs) PROVE FunctionRead(fs[k], p.objects, p.reads)
    BY <2>1 DEF FunctionRead
  <2>3. BatchRead(fs, p.objects, p.reads)
    BY <2>2 DEF BatchRead
  <2>4. QED
    BY <1>5, <2>3 DEF ReadsBack
<1>11. QED
  BY <1>7, <1>8, <1>9, <1>10 DEF Served

\* The buffered k-means of any number of points, features and iterations, in a
\* pool of two slot pairs or more and with buffers of a whole number of points:
\* its runs succeed, no two of its operations race, none waits for an empty
\* event, every phase is applied to every block once and in order, and the
\* labels the client reads are those of the last iteration.
THEOREM KMeansDelivers ==
  ASSUME 2 * DoubleBuffering <= NumSlots, \A p \in Programs : SizedKMeans(p)
  PROVE  SchedulerSpec =>
           /\ []NoRace /\ []NoEmptyWait /\ []HostCurrentAtEnd /\ [](run_ret = 1)
           /\ AppliesEachOnce
<1>1. \A p \in Programs : Served(p) /\ KMeansClient(p) /\ ReadsBack(p)
  BY KMeansIsServed
<1>2. \A p \in Programs : FitsPool(p) /\ SameSteps(p)
  BY <1>1 DEF Served
<1>3. (SchedulerSpec => []NoRace) /\ (SchedulerSpec => []NoEmptyWait)
  BY <1>1, <1>2, KMeansNeverRaces, KMeansNeverWaitsEmpty
<1>4. SchedulerSpec => [](run_ret = 1)
  BY <1>2, RunsSucceed
<1>5. (SchedulerSpec => []HostCurrentAtEnd) /\ (SchedulerSpec => AppliesEachOnce)
  BY <1>1, ReadBackCurrent, AppliedOnce
<1>6. QED
  BY <1>3, <1>4, <1>5

\* The test's two functions, on an object of any size.
THEOREM UnaryDelivers ==
  ASSUME \A p \in Programs : SizedUnary(p)
  PROVE  SchedulerSpec =>
           []NoRace /\ []HostCurrentAtEnd /\ [](run_ret = 1) /\ AppliesEachOnce
<1>1. \A p \in Programs : Served(p) /\ AllMutable(p) /\ ReadsBack(p)
  BY UnaryIsServed
<1>2. \A p \in Programs : FitsPool(p) /\ SameSteps(p)
  BY <1>1 DEF Served
<1>3. SchedulerSpec => []NoRace
  BY <1>1, <1>2, FittingMutableNeverRace
<1>4. SchedulerSpec => [](run_ret = 1)
  BY <1>2, RunsSucceed
<1>5. (SchedulerSpec => []HostCurrentAtEnd) /\ (SchedulerSpec => AppliesEachOnce)
  BY <1>1, ReadBackCurrent, AppliedOnce
<1>6. QED
  BY <1>3, <1>4, <1>5
=============================================================================
