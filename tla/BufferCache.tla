---------------------------- MODULE BufferCache ----------------------------
(***************************************************************************)
(* The host side of SimpleBufferCache (src/simple_buffer_cache.cpp) for    *)
(* one device: which block of which object every cache slot holds, and the *)
(* lock on every slot.  A call of the cache runs on the client's thread    *)
(* and is one step here.  What a call asks of the device and of the I/O    *)
(* threads is added by the modules that extend this one: CoherentCache     *)
(* (the client waits for every call) and DeviceScheduler (it does not).    *)
(*                                                                         *)
(* A block is named by its object id and its buffer_id, the byte offset of *)
(* its first element, as in find_buffer_id.                                *)
(***************************************************************************)
EXTENDS Integers, Sequences

CONSTANTS
  BufferSize,   \* buffer_size_i: bytes that fit into one slot
  NumSlots,     \* num_slots = pool_size / buffer_size_i
  MaxObjects,   \* bound: objects a client registers
  ObjectSizes,  \* bound: sizes a client registers
  Requests,     \* bound: <<offset, length>> ranges a client asks for
  MaxUsers      \* bound: descriptors out on one slot at a time

\* add_device refuses a pool that is not larger than two buffers (line 54).
ASSUME CacheAssumption ==
  /\ BufferSize \in Nat \ {0}
  /\ NumSlots \in Nat /\ NumSlots >= 2
  /\ MaxObjects \in Nat
  /\ ObjectSizes \subseteq Nat
  /\ Requests \subseteq Nat \X (Nat \ {0})
  /\ MaxUsers \in Nat \ {0}

VARIABLES
  device,     \* type of the device added, "none" before add_device
  objects,    \* object_info_i without the invalid object 0
  cached,     \* cached_object_id, cached_buffer_id, cached_content_length
  slot_lock,  \* SlotLock of every slot
  ret,        \* what the last call returned
  users,      \* ghost: descriptors of each slot handed out, not unlocked yet
  granted     \* ghost: the latest descriptor handed out for each slot

cacheVars == <<device, objects, cached, slot_lock, ret, users, granted>>

DoubleBuffering == 2
Slots == 0 .. NumSlots - 1
ObjectMode == {"ReadWrite", "ReadOnly", "Transient"}
NoBlock == [oid |-> -1, bid |-> 0, len |-> 0]
Unlocked == [status |-> "Free", count |-> 0]

Free(s) == slot_lock[s].status = "Free"
Immutable(oid) == objects[oid].mode \in {"ReadOnly", "Transient"}
Oids == 1 .. Len(objects)

\* A descriptor of slot s that is still out.
Held(s) == users[s] > 0

-----------------------------------------------------------------------------
(***************************************************************************)
(* Lookups                                                                 *)
(***************************************************************************)

\* find_buffer_id succeeds: a known object and a pointer into it.
ValidPtr(oid, off) == oid \in Oids /\ off < objects[oid].size

Holds(s, oid, bid) == cached[s].oid = oid /\ cached[s].bid = bid

\* find_cache_slot returns the first slot that holds the block.
FoundAt(s, oid, bid) ==
  /\ Holds(s, oid, bid)
  /\ \A t \in Slots : t < s => ~Holds(t, oid, bid)

\* Fault variant: only the first slot of every pair is searched.
InCacheFirst(oid, bid) ==
  \E s \in Slots : s % DoubleBuffering = 0 /\ Holds(s, oid, bid)

InCache(oid, bid) == \E s \in Slots : Holds(s, oid, bid)

\* Fault variant: the first slot of the pair is taken without looking at its
\* lock.
AssignedUnchecked(s, oid) == s = (oid - 1) * DoubleBuffering

\* assign_cache_slot: every object owns two slots and takes the second one
\* while the first is locked.  A slot past the pool is refused by
\* try_write_lock, whatever lock status the unchecked read at line 613 sees.
Assigned(s, oid) ==
  LET base == (oid - 1) * DoubleBuffering
  IN  /\ Free(s)
      /\ \/ s = base
         \/ s = base + 1 /\ ~Free(base)

\* Fault variant: the comparison of the content lengths is off by one.
EvictFailsOnEqual(s) ==
  /\ device = "gpu"
  /\ cached[s] # NoBlock
  /\ ~Immutable(cached[s].oid)
  /\ \E f \in Slots : /\ FoundAt(f, cached[s].oid, cached[s].bid)
                      /\ cached[f].len >= cached[s].len

\* evict_cache_slot fails when the write-back of a mutable block fails:
\* read() looks the block up again, and refuses if the slot it finds has
\* more content than the slot being evicted.
EvictFails(s) ==
  /\ device = "gpu"
  /\ cached[s] # NoBlock
  /\ ~Immutable(cached[s].oid)
  /\ \E f \in Slots : /\ FoundAt(f, cached[s].oid, cached[s].bid)
                      /\ cached[f].len > cached[s].len

-----------------------------------------------------------------------------
(***************************************************************************)
(* Set-up                                                                  *)
(***************************************************************************)

\* Every slot empty and unlocked, as add_device leaves them.
CacheEmpty ==
  /\ cached = [s \in Slots |-> NoBlock]
  /\ slot_lock = [s \in Slots |-> Unlocked]
  /\ ret = 1
  /\ users = [s \in Slots |-> 0]
  /\ granted = [s \in Slots |-> NoBlock]

Init == device = "none" /\ objects = <<>> /\ CacheEmpty

AddDevice(type) ==
  /\ device = "none"
  /\ device' = type
  /\ ret' = 1
  /\ UNCHANGED <<objects, cached, slot_lock, users, granted>>

AddObject(size, mode) ==
  /\ Len(objects) < MaxObjects
  /\ objects' = Append(objects, [size |-> size, mode |-> mode])
  /\ UNCHANGED <<device, cached, slot_lock, ret, users, granted>>

-----------------------------------------------------------------------------
(***************************************************************************)
(* Calls that change nothing and return r.                                 *)
(***************************************************************************)
Return(r) ==
  /\ ret' = r
  /\ UNCHANGED <<device, objects, cached, slot_lock, users, granted>>

\* The checks that get, write_and_get and read begin with.  A pointer outside
\* the object makes get and read return the buffer_id, still 0 (lines 154 and
\* 313), and write_and_get return -1.
Refused(oid, off, len, badPtr) ==
  \/ (len > BufferSize \/ device = "none") /\ Return(-1)
  \/ /\ len <= BufferSize /\ device # "none" /\ ~ValidPtr(oid, off)
     /\ Return(badPtr)

Accepted(oid, off, len) ==
  len <= BufferSize /\ device # "none" /\ ValidPtr(oid, off)

\* The caller receives a descriptor of slot s.
HandOut(s, oid, off, len) ==
  /\ users' = [users EXCEPT ![s] = @ + 1]
  /\ granted' = [granted EXCEPT ![s] = [oid |-> oid, bid |-> off, len |-> len]]
  /\ ret' = 1

-----------------------------------------------------------------------------
(***************************************************************************)
(* get and write_and_get                                                   *)
(***************************************************************************)

\* Fault variant: a second reader does not add to the count.
ReadLockNoCount(s) ==
  /\ slot_lock[s].status # "WriteLock"
  /\ slot_lock' = [slot_lock EXCEPT ![s] =
                     [status |-> "ReadLock", count |-> 1]]

\* try_read_lock succeeds.
ReadLock(s) ==
  /\ slot_lock[s].status # "WriteLock"
  /\ slot_lock' = [slot_lock EXCEPT ![s] =
                     [status |-> "ReadLock",
                      count |-> IF Free(s) THEN 1 ELSE @.count + 1]]

\* try_write_lock succeeds: the caller has seen that the slot is free.
WriteLock(s) ==
  slot_lock' = [slot_lock EXCEPT ![s] = [status |-> "WriteLock", count |-> 1]]

\* get finds the block and read-locks its slot.  The descriptor has the
\* length asked for, not the length of the content.
GetHit(s, oid, off, len) ==
  /\ Accepted(oid, off, len)
  /\ FoundAt(s, oid, off)
  /\ ReadLock(s)
  /\ HandOut(s, oid, off, len)
  /\ UNCHANGED <<device, objects, cached>>

\* get finds the block in a write-locked slot.
GetLocked(s, oid, off, len) ==
  /\ Accepted(oid, off, len)
  /\ FoundAt(s, oid, off)
  /\ slot_lock[s].status = "WriteLock"
  /\ Return(-1)

\* write_and_get locks slot s, evicts its block and takes it for the new one.
Fill(s, oid, off, len) ==
  /\ Accepted(oid, off, len)
  /\ Assigned(s, oid)
  /\ ~EvictFails(s)
  /\ WriteLock(s)
  /\ cached' = [cached EXCEPT ![s] = [oid |-> oid, bid |-> off, len |-> len]]
  /\ HandOut(s, oid, off, len)
  /\ UNCHANGED <<device, objects>>

\* write_and_get locks slot s and cannot evict it: the lock stays (line 225).
FillFails(s, oid, off, len) ==
  /\ Accepted(oid, off, len)
  /\ Assigned(s, oid)
  /\ EvictFails(s)
  /\ WriteLock(s)
  /\ ret' = -1
  /\ UNCHANGED <<device, objects, cached, users, granted>>

\* write_and_get finds both slots of the object locked, or past the pool.
NoSlot(oid, off, len) ==
  /\ Accepted(oid, off, len)
  /\ \A s \in Slots : ~Assigned(s, oid)
  /\ Return(-1)

WriteAndGet(oid, off, len) ==
  \/ Refused(oid, off, len, -1)
  \/ \E s \in Slots : Fill(s, oid, off, len) \/ FillFails(s, oid, off, len)
  \/ NoSlot(oid, off, len)

Get(oid, off, len) ==
  \/ Refused(oid, off, len, 0)
  \/ \E s \in Slots : GetHit(s, oid, off, len) \/ GetLocked(s, oid, off, len)
  \/ /\ Accepted(oid, off, len)
     /\ ~InCache(oid, off)
     /\ WriteAndGet(oid, off, len)

-----------------------------------------------------------------------------
(***************************************************************************)
(* read                                                                    *)
(***************************************************************************)

\* read copies a mutable block back from slot s.
ReadBack(s, oid, off, len) ==
  /\ Accepted(oid, off, len)
  /\ ~Immutable(oid)
  /\ FoundAt(s, oid, off)
  /\ cached[s].len <= len
  /\ Return(1)

\* read has nothing to do, or refuses to copy less than the content.
ReadNothing(oid, off, len) ==
  /\ Accepted(oid, off, len)
  /\ \/ (Immutable(oid) \/ ~InCache(oid, off)) /\ Return(1)
     \/ /\ ~Immutable(oid)
        /\ \E s \in Slots : FoundAt(s, oid, off) /\ cached[s].len > len
        /\ Return(-1)

Read(oid, off, len) ==
  \/ Refused(oid, off, len, 0)
  \/ \E s \in Slots : ReadBack(s, oid, off, len)
  \/ ReadNothing(oid, off, len)

-----------------------------------------------------------------------------
(***************************************************************************)
(* unlock: a client gives back a descriptor of slot h.  The code looks the *)
(* block up again and releases the slot it finds.                          *)
(***************************************************************************)

\* Fault variant: the last reader but one frees the slot.
ReleaseAll(s) == slot_lock' = [slot_lock EXCEPT ![s] = Unlocked]

\* Fault variant: the count of the last reader reaches 0 and the slot is
\* still locked.
ReleaseCount(s) ==
  slot_lock' = [slot_lock EXCEPT ![s] =
                  IF @.status = "ReadLock"
                  THEN [status |-> "ReadLock", count |-> @.count - 1]
                  ELSE Unlocked]

\* Fault variant: only readers are released.
ReleaseReaders(s) ==
  slot_lock' = [slot_lock EXCEPT ![s] = IF @.status = "ReadLock" THEN Unlocked ELSE @]

Release(s) ==
  slot_lock' = [slot_lock EXCEPT ![s] =
                  IF @.status = "ReadLock" /\ @.count > 1
                  THEN [status |-> "ReadLock", count |-> @.count - 1]
                  ELSE Unlocked]

GiveBack(h) ==
  /\ users' = [users EXCEPT ![h] = @ - 1]
  /\ granted' = [granted EXCEPT ![h] = IF users[h] = 1 THEN NoBlock ELSE @]

UnlockFound(h, s) ==
  /\ Held(h)
  /\ FoundAt(s, granted[h].oid, granted[h].bid)
  /\ ~Free(s)
  /\ Release(s)
  /\ GiveBack(h)
  /\ ret' = 1
  /\ UNCHANGED <<device, objects, cached>>

\* unlock does not find the block, or finds its slot unlocked.
UnlockRefused(oid, off) ==
  /\ \A s \in Slots : FoundAt(s, oid, off) => Free(s)
  /\ Return(-1)

Unlock(h) ==
  /\ Held(h)
  /\ \/ UnlockRefused(granted[h].oid, granted[h].bid)
     \/ \E s \in Slots : UnlockFound(h, s)

-----------------------------------------------------------------------------
(***************************************************************************)
(* Clients.  A range lies inside its object or begins outside of it, and a *)
(* client calls write_and_get itself only for a block that is not cached,  *)
(* as the tests and get do.                                                *)
(***************************************************************************)
ClientRange(oid, r) ==
  oid \in Oids => r[1] >= objects[oid].size \/ r[1] + r[2] <= objects[oid].size

SetUp ==
  \/ \E type \in {"cpu", "gpu"} : AddDevice(type)
  \/ \E size \in ObjectSizes, mode \in ObjectMode : AddObject(size, mode)

CallGet ==
  \E oid \in 0 .. MaxObjects, r \in Requests :
     /\ ClientRange(oid, r)
     /\ \A s \in Slots : users[s] < MaxUsers
     /\ Get(oid, r[1], r[2])

CallWriteAndGet ==
  \E oid \in 0 .. MaxObjects, r \in Requests :
     ClientRange(oid, r) /\ ~InCache(oid, r[1]) /\ WriteAndGet(oid, r[1], r[2])

CallRead ==
  \E oid \in 0 .. MaxObjects, r \in Requests :
     ClientRange(oid, r) /\ Read(oid, r[1], r[2])

\* A client may also give back what it has given back before or never had.
CallUnlock ==
  \/ \E h \in Slots : Unlock(h)
  \/ \E oid \in 0 .. MaxObjects, r \in Requests : UnlockRefused(oid, r[1])

Next == SetUp \/ CallGet \/ CallWriteAndGet \/ CallRead \/ CallUnlock

Spec == Init /\ [][Next]_cacheVars

-----------------------------------------------------------------------------
(***************************************************************************)
(* Properties                                                              *)
(***************************************************************************)

\* The slots, locks and descriptors have the shapes the declarations in
\* simple_buffer_cache.hpp give them, and a lock is free when nobody counts.
Block == [oid : Int, bid : Nat, len : Nat]
SlotLock ==
  {lock \in [status : {"Free", "ReadLock", "WriteLock"}, count : Nat] :
     lock.status = "Free" <=> lock.count = 0}

TypeOK ==
  /\ device \in {"none", "cpu", "gpu"}
  /\ objects \in Seq([size : Nat, mode : ObjectMode])
  /\ cached \in [Slots -> Block]
  /\ slot_lock \in [Slots -> SlotLock]
  /\ ret \in {-1, 0, 1}
  /\ users \in [Slots -> Nat]
  /\ granted \in [Slots -> Block]

\* The lock of a slot accounts for exactly the descriptors clients hold: no
\* leaked lock, no descriptor of an unlocked slot, one holder of a write lock.
LockAccounting ==
  \A s \in Slots :
     /\ Free(s) <=> users[s] = 0
     /\ slot_lock[s].count = users[s]
     /\ slot_lock[s].status = "WriteLock" => users[s] = 1

\* No block is cached twice, so find_cache_slot has one answer and a mutable
\* block has one device copy.
OneHome ==
  \A s, t \in Slots :
     /\ cached[s].oid # -1
     /\ cached[s].oid = cached[t].oid
     /\ cached[s].bid = cached[t].bid
     => s = t

\* A descriptor stays good until it is given back: the block it names is
\* still in the slot it was granted from, unlock finds that very slot, and
\* finds it locked.
DescriptorGood ==
  \A h \in Slots :
     Held(h) => FoundAt(h, granted[h].oid, granted[h].bid) /\ ~Free(h)

\* A call that reports failure leaves every lock, slot and descriptor as it
\* was: a client that gets no descriptor has nothing to unlock.
FailureChangesNothing ==
  [][ret' < 1 => UNCHANGED <<cached, slot_lock, users>>]_cacheVars

\* "Locking prevents eviction": no step changes what a locked slot holds.
LockedStays ==
  [][\A s \in Slots : ~Free(s) => cached'[s] = cached[s]]_cacheVars
=============================================================================
