--------------------------- MODULE CoherentCache ---------------------------
(***************************************************************************)
(* The data a SimpleBufferCache moves, for a client that waits for the     *)
(* event of every call before the next one, as test/buffer_cache.cpp does. *)
(* Data are version numbers: cur is the version a program without a cache  *)
(* would see, host and dev are the copies in host memory and in the device *)
(* buffer of every slot.  A kernel writes the whole range its descriptor   *)
(* names.                                                                  *)
(***************************************************************************)
EXTENDS BufferCache

CONSTANTS
  ObjectChoices,  \* bound: the registered objects, a set of sequences
  MaxUnits,       \* bound: size of the largest object
  MaxVersion      \* bound: kernels that write

ASSUME DataAssumption ==
  /\ MaxUnits \in Nat /\ MaxVersion \in Nat
  /\ \A choice \in ObjectChoices :
       /\ choice \in Seq([size : 0 .. MaxUnits, mode : ObjectMode])
       /\ Len(choice) <= MaxObjects

VARIABLES host, dev, cur

dataVars == <<host, dev, cur>>
vars == <<cacheVars, dataVars>>

Units == 0 .. MaxUnits - 1
Garbage == -1

\* What a kernel reads through slot s.  On a CPU the device buffer is made
\* over the host memory itself (CPU_ZERO_COPY).
DeviceUnit(s, u) ==
  IF device = "cpu" THEN host[cached[s].oid][cached[s].bid + u] ELSE dev[s][u]

-----------------------------------------------------------------------------
(***************************************************************************)
(* The transfers                                                           *)
(***************************************************************************)

\* Fault variant: the copy stops one unit early.
CopiedBackShort(h, f, oid, off, len) ==
  [h EXCEPT ![oid] =
     [u \in Units |-> IF u \in off .. off + len - 2 THEN dev[f][u - off] ELSE @[u]]]

\* Host memory after len units of slot f are copied to offset off of oid.
CopiedBack(h, f, oid, off, len) ==
  [h EXCEPT ![oid] =
     [u \in Units |-> IF u \in off .. off + len - 1 THEN dev[f][u - off] ELSE @[u]]]

\* Fault variant: every block is dropped on eviction.
HostAfterDrop(s) == host

\* evict_cache_slot: a mutable block goes back to the host through read,
\* which looks its slot up; all others, and all blocks on a CPU, are dropped.
HostAfterEvict(s) ==
  LET b == cached[s]
  IN  IF device = "cpu" \/ b = NoBlock \/ Immutable(b.oid)
      THEN host
      ELSE CopiedBack(host, CHOOSE f \in Slots : FoundAt(f, b.oid, b.bid),
                      b.oid, b.bid, b.len)

\* Fault variant: a range that ends at the end of a buffer loses a unit.
LoadShort(s, oid, off, len) ==
  /\ host' = HostAfterEvict(s)
  /\ dev' = [dev EXCEPT ![s] =
               [u \in DOMAIN @ |-> IF u < len - 1 THEN host'[oid][off + u] ELSE @[u]]]

\* write_and_get fills slot s.  A transient block and a CPU buffer need no
\* transfer.
Load(s, oid, off, len) ==
  /\ host' = HostAfterEvict(s)
  /\ dev' = IF device = "cpu" \/ objects[oid].mode = "Transient"
            THEN dev
            ELSE [dev EXCEPT ![s] =
                    [u \in DOMAIN @ |->
                       IF u < len THEN host'[oid][off + u] ELSE @[u]]]

\* read copies the range asked for, not the content.
CopyBack(s, oid, off, len) ==
  /\ host' = IF device = "cpu" THEN host ELSE CopiedBack(host, s, oid, off, len)
  /\ UNCHANGED dev

-----------------------------------------------------------------------------
DataInit ==
  /\ device \in {"cpu", "gpu"}
  /\ objects \in ObjectChoices
  /\ CacheEmpty
  /\ host = [oid \in 1 .. MaxObjects |-> [u \in Units |-> 0]]
  /\ cur = host
  /\ dev = [s \in Slots |-> [u \in 0 .. BufferSize - 1 |-> Garbage]]

DataGet(oid, off, len) ==
  \/ /\ \/ Refused(oid, off, len, 0)
        \/ \E s \in Slots : GetHit(s, oid, off, len) \/ GetLocked(s, oid, off, len)
        \/ ~InCache(oid, off) /\ NoSlot(oid, off, len)
     /\ UNCHANGED dataVars
  \/ \E s \in Slots : /\ ~InCache(oid, off)
                      /\ Fill(s, oid, off, len)
                      /\ Load(s, oid, off, len)
                      /\ UNCHANGED cur

DataRead(oid, off, len) ==
  \/ /\ Refused(oid, off, len, 0) \/ ReadNothing(oid, off, len)
     /\ UNCHANGED dataVars
  \/ \E s \in Slots : /\ ReadBack(s, oid, off, len)
                      /\ CopyBack(s, oid, off, len)
                      /\ UNCHANGED cur

\* A kernel writes the next version to the range of the descriptor.
KernelWrite(s, v) ==
  LET d == granted[s]
      range == d.bid .. d.bid + d.len - 1
  IN  /\ Held(s)
      /\ objects[d.oid].mode = "ReadWrite"
      /\ \A oid \in 1 .. MaxObjects, u \in Units : cur[oid][u] < v
      /\ cur' = [cur EXCEPT ![d.oid] = [u \in Units |-> IF u \in range THEN v ELSE @[u]]]
      /\ IF device = "cpu"
         THEN host' = [host EXCEPT ![d.oid] =
                         [u \in Units |-> IF u \in range THEN v ELSE @[u]]]
              /\ UNCHANGED dev
         ELSE dev' = [dev EXCEPT ![s] =
                        [u \in DOMAIN @ |-> IF u < d.len THEN v ELSE @[u]]]
              /\ UNCHANGED host
      /\ UNCHANGED cacheVars

Calls(oid, r) ==
  /\ ClientRange(oid, r)
  /\ \/ (\A s \in Slots : users[s] < MaxUsers) /\ DataGet(oid, r[1], r[2])
     \/ DataRead(oid, r[1], r[2])

DataUnlock(h) == Unlock(h) /\ UNCHANGED dataVars

DataNext ==
  \/ \E oid \in Oids, r \in Requests : Calls(oid, r)
  \/ \E h \in Slots : DataUnlock(h)
  \/ \E s \in Slots, v \in 1 .. MaxVersion : KernelWrite(s, v)

DataSpec == DataInit /\ [][DataNext]_vars

-----------------------------------------------------------------------------
(***************************************************************************)
(* Properties                                                              *)
(***************************************************************************)

\* "Get locked device buffer of object at location of pointer": whoever holds
\* a descriptor of a block that is not transient finds the current version of
\* every unit of its range in the device buffer.
ServedCurrent ==
  \A s \in Slots :
     Held(s) /\ objects[granted[s].oid].mode # "Transient" =>
        \A u \in 0 .. granted[s].len - 1 :
           DeviceUnit(s, u) = cur[granted[s].oid][granted[s].bid + u]

\* No update is lost: a unit that no slot holds is current in host memory.
UncachedIsCurrent ==
  \A oid \in Oids : \A u \in Units :
     \/ host[oid][u] = cur[oid][u]
     \/ \E s \in Slots : /\ cached[s].oid = oid
                         /\ u \in cached[s].bid .. cached[s].bid + cached[s].len - 1

\* A read that reports success has brought the range it was asked for up to
\* date in host memory.
ReadDelivers ==
  [][\A oid \in Oids, r \in Requests :
        ClientRange(oid, r) /\ DataRead(oid, r[1], r[2]) /\ ret' = 1 =>
           \A u \in r[1] .. r[1] + r[2] - 1 : host'[oid][u] = cur[oid][u]]_vars
=============================================================================
