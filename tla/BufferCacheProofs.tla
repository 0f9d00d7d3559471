------------------------- MODULE BufferCacheProofs -------------------------
(***************************************************************************)
(* The locks of SimpleBufferCache, for every pool, buffer size, number of  *)
(* objects and clients.                                                    *)
(***************************************************************************)
EXTENDS BufferCache, TLAPS

\* An empty slot has no length, and a slot in use holds a registered object.
SlotsFilled ==
  \A s \in Slots : cached[s] = NoBlock \/ cached[s].oid \in Nat

\* The inductive invariant.  DescriptorGood and OneHome need each other: a
\* fill may not create a second home for a granted block, and unlock releases
\* the slot a descriptor came from only if that is where the block is found.
IInv == TypeOK /\ LockAccounting /\ OneHome /\ DescriptorGood /\ SlotsFilled

-----------------------------------------------------------------------------
\* find_cache_slot has at most one answer.
LEMMA FoundOnce ==
  ASSUME NEW s \in Slots, NEW t \in Slots, NEW oid, NEW bid,
         FoundAt(s, oid, bid), FoundAt(t, oid, bid)
  PROVE  s = t
BY CacheAssumption DEF FoundAt, Slots

\* With one home for every block, find_cache_slot finds the block of a slot in
\* that slot.
LEMMA FoundWhereHeld ==
  ASSUME OneHome, NEW s \in Slots, cached[s].oid # -1
  PROVE  FoundAt(s, cached[s].oid, cached[s].bid)
<1>1. Holds(s, cached[s].oid, cached[s].bid)
  BY DEF Holds
<1>2. ASSUME NEW t \in Slots, t < s, Holds(t, cached[s].oid, cached[s].bid)
      PROVE  FALSE
  <2>1. s = t
    BY <1>2 DEF OneHome, Holds
  <2>2. QED
    BY <1>2, <2>1, CacheAssumption DEF Slots
<1>3. QED
  BY <1>1, <1>2 DEF FoundAt

\* evict_cache_slot never fails: the write-back finds the slot it is for.
LEMMA EvictSucceeds ==
  ASSUME IInv, NEW s \in Slots
  PROVE  ~EvictFails(s)
<1> SUFFICES ASSUME EvictFails(s) PROVE FALSE
  OBVIOUS
<1>1. PICK f \in Slots : /\ FoundAt(f, cached[s].oid, cached[s].bid)
                         /\ cached[f].len > cached[s].len
  BY DEF EvictFails
<1>2. cached[s].oid # -1
  BY DEF EvictFails, IInv, SlotsFilled
<1>3. FoundAt(s, cached[s].oid, cached[s].bid)
  BY <1>2, FoundWhereHeld DEF IInv
<1>4. f = s
  BY <1>1, <1>3, FoundOnce
<1>5. cached[s].len \in Nat
  BY DEF IInv, TypeOK, Block
<1>6. QED
  BY <1>1, <1>4, <1>5

-----------------------------------------------------------------------------
\* The state of the slots does not change.
SlotsUnchanged == UNCHANGED <<cached, slot_lock, users, granted>>

\* The variables that TypeOK constrains beside the slots.
OtherTypes ==
  /\ device' \in {"none", "cpu", "gpu"}
  /\ objects' \in Seq([size : Nat, mode : ObjectMode])
  /\ ret' \in {-1, 0, 1}

\* A fill, for a block that is not cached.
NewFill(s, oid, off, len) == ~InCache(oid, off) /\ Fill(s, oid, off, len)

\* A step of the clients changes no slot, or is a hit, a fill or a release.
StepCase ==
  \/ SlotsUnchanged
  \/ \E s \in Slots, oid \in Nat, off \in Nat, len \in Nat :
        GetHit(s, oid, off, len) \/ NewFill(s, oid, off, len)
  \/ \E h, s \in Slots : UnlockFound(h, s)

\* A failing call leaves the slots alone.
CleanFailure == ret' < 1 => SlotsUnchanged

\* write_and_get of a block that is not cached changes nothing or fills a slot.
LEMMA WriteAndGetCases ==
  ASSUME IInv, NEW oid \in Nat, NEW off \in Nat, NEW len \in Nat,
         ~InCache(oid, off), WriteAndGet(oid, off, len)
  PROVE  /\ SlotsUnchanged \/ \E s \in Slots : NewFill(s, oid, off, len)
         /\ CleanFailure
         /\ OtherTypes
<1> USE DEF OtherTypes, CleanFailure, SlotsUnchanged
<1>0. /\ device \in {"none", "cpu", "gpu"}
      /\ objects \in Seq([size : Nat, mode : ObjectMode])
  BY DEF IInv, TypeOK
<1>1. CASE Refused(oid, off, len, -1)
  BY <1>0, <1>1 DEF Refused, Return
<1>2. CASE NoSlot(oid, off, len)
  BY <1>0, <1>2 DEF NoSlot, Return
<1>3. CASE \E s \in Slots : Fill(s, oid, off, len)
  <2>1. PICK s \in Slots : Fill(s, oid, off, len)
    BY <1>3
  <2>2. ret' = 1 /\ UNCHANGED <<device, objects>>
    BY <2>1 DEF Fill, HandOut
  <2>3. QED
    BY <1>0, <2>1, <2>2 DEF NewFill
<1>4. CASE \E s \in Slots : FillFails(s, oid, off, len)
  BY <1>4, EvictSucceeds DEF FillFails
<1>5. QED
  BY <1>1, <1>2, <1>3, <1>4 DEF WriteAndGet

\* get changes nothing, adds a reader to a slot, or fills one.
LEMMA GetCases ==
  ASSUME IInv, NEW oid \in Nat, NEW off \in Nat, NEW len \in Nat,
         Get(oid, off, len)
  PROVE  /\ \/ SlotsUnchanged
            \/ \E s \in Slots : GetHit(s, oid, off, len) \/ NewFill(s, oid, off, len)
         /\ CleanFailure
         /\ OtherTypes
<1>0. /\ device \in {"none", "cpu", "gpu"}
      /\ objects \in Seq([size : Nat, mode : ObjectMode])
  BY DEF IInv, TypeOK
<1>1. CASE Refused(oid, off, len, 0)
  BY <1>0, <1>1 DEF Refused, Return, OtherTypes, CleanFailure, SlotsUnchanged
<1>2. CASE \E s \in Slots : GetHit(s, oid, off, len)
  <2>1. ret' = 1 /\ UNCHANGED <<device, objects>>
    BY <1>2 DEF GetHit, HandOut
  <2>2. QED
    BY <1>0, <1>2, <2>1 DEF OtherTypes, CleanFailure
<1>3. CASE \E s \in Slots : GetLocked(s, oid, off, len)
  BY <1>0, <1>3 DEF GetLocked, Return, OtherTypes, CleanFailure, SlotsUnchanged
<1>4. CASE ~InCache(oid, off) /\ WriteAndGet(oid, off, len)
  BY <1>4, WriteAndGetCases
<1>5. QED
  BY <1>1, <1>2, <1>3, <1>4 DEF Get

\* read changes no slot.
LEMMA ReadCases ==
  ASSUME IInv, NEW oid \in Nat, NEW off \in Nat, NEW len \in Nat,
         Read(oid, off, len)
  PROVE  SlotsUnchanged /\ OtherTypes
<1>0. /\ device \in {"none", "cpu", "gpu"}
      /\ objects \in Seq([size : Nat, mode : ObjectMode])
  BY DEF IInv, TypeOK
<1>1. \E r \in {-1, 0, 1} : Return(r)
  BY DEF Read, Refused, ReadBack, ReadNothing
<1>2. QED
  BY <1>0, <1>1 DEF Return, OtherTypes, SlotsUnchanged

\* unlock releases one slot; it changes nothing if it fails.
LEMMA UnlockCases ==
  ASSUME IInv, NEW h \in Slots, Unlock(h)
  PROVE  /\ SlotsUnchanged \/ \E s \in Slots : UnlockFound(h, s)
         /\ CleanFailure
         /\ OtherTypes
<1>0. /\ device \in {"none", "cpu", "gpu"}
      /\ objects \in Seq([size : Nat, mode : ObjectMode])
  BY DEF IInv, TypeOK
<1>1. CASE UnlockRefused(granted[h].oid, granted[h].bid)
  BY <1>0, <1>1 DEF UnlockRefused, Return, OtherTypes, CleanFailure, SlotsUnchanged
<1>2. CASE \E s \in Slots : UnlockFound(h, s)
  <2>1. ret' = 1 /\ UNCHANGED <<device, objects>>
    BY <1>2 DEF UnlockFound
  <2>2. QED
    BY <1>0, <1>2, <2>1 DEF OtherTypes, CleanFailure
<1>3. QED
  BY <1>1, <1>2 DEF Unlock

\* Every step of the clients is one of the cases.
LEMMA NextCases ==
  ASSUME IInv, Next
  PROVE  StepCase /\ CleanFailure /\ OtherTypes
<1>0. /\ device \in {"none", "cpu", "gpu"}
      /\ objects \in Seq([size : Nat, mode : ObjectMode])
      /\ ret \in {-1, 0, 1}
  BY DEF IInv, TypeOK
<1>1. ASSUME NEW oid \in 0 .. MaxObjects, NEW r \in Requests
      PROVE  oid \in Nat /\ r[1] \in Nat /\ r[2] \in Nat
  BY CacheAssumption
<1>2. CASE SetUp
  <2>1. SlotsUnchanged
    BY <1>2 DEF SetUp, AddDevice, AddObject, SlotsUnchanged
  <2>2. ASSUME NEW type \in {"cpu", "gpu"}, AddDevice(type)
        PROVE  OtherTypes
    BY <1>0, <2>2 DEF AddDevice, OtherTypes
  <2>3. ASSUME NEW size \in ObjectSizes, NEW mode \in ObjectMode,
               AddObject(size, mode)
        PROVE  OtherTypes
    <3>1. [size |-> size, mode |-> mode] \in [size : Nat, mode : ObjectMode]
      BY CacheAssumption
    <3>2. QED
      BY <1>0, <2>3, <3>1 DEF AddObject, OtherTypes
  <2>4. QED
    BY <1>2, <2>1, <2>2, <2>3 DEF SetUp, StepCase, CleanFailure
<1>3. CASE CallGet
  <2>1. PICK oid \in 0 .. MaxObjects, r \in Requests : Get(oid, r[1], r[2])
    BY <1>3 DEF CallGet
  <2>2. QED
    BY <1>1, <2>1, GetCases DEF StepCase
<1>4. CASE CallWriteAndGet
  <2>1. PICK oid \in 0 .. MaxObjects, r \in Requests :
           ~InCache(oid, r[1]) /\ WriteAndGet(oid, r[1], r[2])
    BY <1>4 DEF CallWriteAndGet
  <2>2. QED
    BY <1>1, <2>1, WriteAndGetCases DEF StepCase
<1>5. CASE CallRead
  <2>1. PICK oid \in 0 .. MaxObjects, r \in Requests : Read(oid, r[1], r[2])
    BY <1>5 DEF CallRead
  <2>2. QED
    BY <1>1, <2>1, ReadCases DEF StepCase, CleanFailure
<1>6. CASE CallUnlock
  <2>1. CASE \E h \in Slots : Unlock(h)
    BY <2>1, UnlockCases DEF StepCase
  <2>2. CASE \E oid \in 0 .. MaxObjects, r \in Requests : UnlockRefused(oid, r[1])
    <3>1. Return(-1)
      BY <2>2 DEF UnlockRefused
    <3>2. QED
      BY <1>0, <3>1 DEF Return, StepCase, CleanFailure, OtherTypes, SlotsUnchanged
  <2>3. QED
    BY <1>6, <2>1, <2>2 DEF CallUnlock
<1>7. QED
  BY <1>2, <1>3, <1>4, <1>5, <1>6 DEF Next

-----------------------------------------------------------------------------
\* A slot is locked as often as its descriptors are out, so a free slot has
\* none.
LEMMA FreeSlotHasNoUser ==
  ASSUME IInv, NEW s \in Slots, Free(s)
  PROVE  users[s] = 0
BY DEF IInv, LockAccounting

\* unlock releases the slot the descriptor was granted from.
LEMMA UnlockFindsGranted ==
  ASSUME IInv, NEW h \in Slots, NEW s \in Slots, UnlockFound(h, s)
  PROVE  s = h
BY FoundOnce DEF IInv, DescriptorGood, UnlockFound

\* The invariant is kept by a hit: one more reader of a slot that is not
\* write-locked, of the block it already holds.
LEMMA HitKeepsInv ==
  ASSUME IInv, OtherTypes, NEW s \in Slots, NEW oid \in Nat, NEW off \in Nat,
         NEW len \in Nat, GetHit(s, oid, off, len)
  PROVE  IInv'
<1> USE DEF IInv
<1>1. cached' = cached
  BY DEF GetHit
<1>2. slot_lock' = [slot_lock EXCEPT ![s] =
                      [status |-> "ReadLock",
                       count |-> IF Free(s) THEN 1 ELSE slot_lock[s].count + 1]]
  BY DEF GetHit, ReadLock, TypeOK
<1>3. users' = [users EXCEPT ![s] = users[s] + 1]
  BY DEF GetHit, HandOut, TypeOK
<1>4. granted' = [granted EXCEPT ![s] = [oid |-> oid, bid |-> off, len |-> len]]
  BY DEF GetHit, HandOut
<1>5. slot_lock[s].status # "WriteLock" /\ FoundAt(s, oid, off)
  BY DEF GetHit, ReadLock
<1>6. slot_lock[s].count \in Nat /\ users[s] \in Nat
  BY DEF TypeOK, SlotLock
<1>7. TypeOK'
  <2>1. [oid |-> oid, bid |-> off, len |-> len] \in Block
    BY DEF Block
  <2>2. granted' \in [Slots -> Block]
    BY <1>4, <2>1 DEF TypeOK
  <2>3. users' \in [Slots -> Nat]
    BY <1>3, <1>6 DEF TypeOK
  <2>4. [status |-> "ReadLock",
         count |-> IF Free(s) THEN 1 ELSE slot_lock[s].count + 1] \in SlotLock
    BY <1>6 DEF SlotLock
  <2>5. slot_lock' \in [Slots -> SlotLock]
    BY <1>2, <2>4 DEF TypeOK
  <2>6. QED
    BY <1>1, <2>2, <2>3, <2>5 DEF TypeOK, OtherTypes
<1>8. LockAccounting'
  <2>1. ASSUME NEW t \in Slots, t # s
        PROVE  slot_lock'[t] = slot_lock[t] /\ users'[t] = users[t]
    BY <1>2, <1>3, <2>1 DEF TypeOK
  <2>2. slot_lock'[s] = [status |-> "ReadLock",
                         count |-> IF Free(s) THEN 1 ELSE slot_lock[s].count + 1]
    BY <1>2 DEF TypeOK
  <2>3. users'[s] = users[s] + 1
    BY <1>3 DEF TypeOK
  <2>4. users'[s] = slot_lock'[s].count /\ users'[s] # 0
    BY <1>6, <2>2, <2>3 DEF LockAccounting
  <2>5. QED
    BY <2>1, <2>2, <2>4 DEF LockAccounting, Free
<1>9. OneHome' /\ SlotsFilled'
  BY <1>1 DEF OneHome, SlotsFilled
<1>10. DescriptorGood'
  <2> SUFFICES ASSUME NEW h \in Slots, Held(h)'
               PROVE  FoundAt(h, granted[h].oid, granted[h].bid)' /\ ~Free(h)'
    BY DEF DescriptorGood
  <2>1. CASE h = s
    BY <1>1, <1>2, <1>4, <1>5, <2>1 DEF FoundAt, Holds, Free, TypeOK
  <2>2. CASE h # s
    BY <1>1, <1>2, <1>3, <1>4, <2>2 DEF DescriptorGood, Held, FoundAt, Holds, Free, TypeOK
  <2>3. QED
    BY <2>1, <2>2
<1>11. QED
  BY <1>7, <1>8, <1>9, <1>10

\* The invariant is kept by a fill: the slot is free, so no descriptor of it
\* is out, and the block is new, so no descriptor names it.
LEMMA FillKeepsInv ==
  ASSUME IInv, OtherTypes, NEW s \in Slots, NEW oid \in Nat, NEW off \in Nat,
         NEW len \in Nat, NewFill(s, oid, off, len)
  PROVE  IInv'
<1> USE DEF IInv
<1> DEFINE b == [oid |-> oid, bid |-> off, len |-> len]
<1>1. cached' = [cached EXCEPT ![s] = b]
  BY DEF NewFill, Fill
<1>2. slot_lock' = [slot_lock EXCEPT ![s] = [status |-> "WriteLock", count |-> 1]]
  BY DEF NewFill, Fill, WriteLock
<1>3. users' = [users EXCEPT ![s] = users[s] + 1] /\ granted' = [granted EXCEPT ![s] = b]
  BY DEF NewFill, Fill, HandOut
<1>4. ~InCache(oid, off)
  BY DEF NewFill
<1>5. users[s] = 0
  BY FreeSlotHasNoUser DEF NewFill, Fill, Assigned
<1>6. b \in Block
  BY DEF Block
<1> HIDE DEF b
<1>7. /\ cached'[s] = b /\ granted'[s] = b /\ users'[s] = 1
      /\ slot_lock'[s] = [status |-> "WriteLock", count |-> 1]
  BY <1>1, <1>2, <1>3, <1>5 DEF TypeOK
<1>8. ASSUME NEW t \in Slots, t # s
      PROVE  /\ cached'[t] = cached[t] /\ granted'[t] = granted[t]
             /\ users'[t] = users[t] /\ slot_lock'[t] = slot_lock[t]
  BY <1>1, <1>2, <1>3, <1>8 DEF TypeOK
<1>9. TypeOK'
  <2>1. [status |-> "WriteLock", count |-> 1] \in SlotLock
    BY DEF SlotLock
  <2>2. slot_lock' \in [Slots -> SlotLock]
    BY <1>2, <2>1 DEF TypeOK
  <2>3. users' \in [Slots -> Nat]
    BY <1>3, <1>5 DEF TypeOK
  <2>4. cached' \in [Slots -> Block] /\ granted' \in [Slots -> Block]
    BY <1>1, <1>3, <1>6 DEF TypeOK
  <2>5. QED
    BY <2>2, <2>3, <2>4 DEF TypeOK, OtherTypes
<1>10. LockAccounting'
  BY <1>7, <1>8 DEF LockAccounting, Free
<1>11. b.oid = oid /\ b.bid = off /\ b.oid \in Nat
  BY DEF b
<1>12. ASSUME NEW t \in Slots, t # s
       PROVE  ~(cached'[t].oid = oid /\ cached'[t].bid = off)
  BY <1>4, <1>8, <1>12 DEF InCache, Holds
<1>13. OneHome'
  <2> SUFFICES ASSUME NEW u \in Slots, NEW v \in Slots,
                      cached'[u].oid # -1,
                      cached'[u].oid = cached'[v].oid,
                      cached'[u].bid = cached'[v].bid
               PROVE  u = v
    BY DEF OneHome
  <2>1. CASE u = s \/ v = s
    BY <1>7, <1>11, <1>12, <2>1
  <2>2. CASE u # s /\ v # s
    BY <1>8, <2>2 DEF OneHome
  <2>3. QED
    BY <2>1, <2>2
<1>14. SlotsFilled'
  BY <1>7, <1>8, <1>11 DEF SlotsFilled
<1>15. DescriptorGood'
  <2> SUFFICES ASSUME NEW h \in Slots, Held(h)'
               PROVE  FoundAt(h, granted[h].oid, granted[h].bid)' /\ ~Free(h)'
    BY DEF DescriptorGood
  <2>1. CASE h = s
    BY <1>7, <1>11, <1>12, <2>1, CacheAssumption DEF FoundAt, Holds, Free, Slots
  <2>2. CASE h # s
    <3>1. FoundAt(h, granted[h].oid, granted[h].bid) /\ ~Free(h)
      BY <1>8, <2>2 DEF DescriptorGood, Held
    <3>2. ~(granted[h].oid = oid /\ granted[h].bid = off)
      BY <1>4, <3>1 DEF InCache, FoundAt
    <3>3. QED
      BY <1>7, <1>8, <1>11, <2>2, <3>1, <3>2 DEF FoundAt, Holds, Free
  <2>3. QED
    BY <2>1, <2>2
<1>16. QED
  BY <1>9, <1>10, <1>13, <1>14, <1>15

\* The invariant is kept by unlock: it releases the slot h of the descriptor,
\* which stays locked while other readers hold it.
LEMMA ReleaseKeepsInv ==
  ASSUME IInv, OtherTypes, NEW h \in Slots, UnlockFound(h, h)
  PROVE  IInv'
<1> USE DEF IInv
<1>1. cached' = cached
  BY DEF UnlockFound
<1>2. slot_lock' = [slot_lock EXCEPT ![h] =
                      IF slot_lock[h].status = "ReadLock" /\ slot_lock[h].count > 1
                      THEN [status |-> "ReadLock", count |-> slot_lock[h].count - 1]
                      ELSE Unlocked]
  BY DEF UnlockFound, Release
<1>3. users' = [users EXCEPT ![h] = users[h] - 1]
  BY DEF UnlockFound, GiveBack
<1>4. granted' = [granted EXCEPT ![h] = IF users[h] = 1 THEN NoBlock ELSE granted[h]]
  BY DEF UnlockFound, GiveBack
<1>5. /\ slot_lock[h] \in [status : {"Free", "ReadLock", "WriteLock"}, count : Nat]
      /\ users[h] \in Nat /\ users[h] > 0
      /\ slot_lock[h].count = users[h]
      /\ slot_lock[h].status = "WriteLock" => users[h] = 1
      /\ slot_lock[h].status # "Free"
  BY DEF UnlockFound, Held, Free, TypeOK, SlotLock, LockAccounting
<1>6. users'[h] = users[h] - 1
  BY <1>3 DEF TypeOK
<1>7. CASE users[h] = 1
  <2>1. slot_lock'[h] = Unlocked
    BY <1>2, <1>5, <1>7 DEF TypeOK
  <2>2. TypeOK'
    <3>1. Unlocked \in SlotLock /\ NoBlock \in Block
      BY DEF Unlocked, SlotLock, NoBlock, Block
    <3>2. slot_lock' \in [Slots -> SlotLock] /\ granted' \in [Slots -> Block]
      BY <1>2, <1>4, <1>7, <2>1, <3>1 DEF TypeOK
    <3>3. users' \in [Slots -> Nat]
      BY <1>3, <1>7 DEF TypeOK
    <3>4. QED
      BY <1>1, <3>2, <3>3 DEF TypeOK, OtherTypes
  <2>3. LockAccounting'
    BY <1>2, <1>3, <1>6, <1>7, <2>1 DEF LockAccounting, Free, Unlocked, TypeOK
  <2>4. DescriptorGood'
    BY <1>1, <1>2, <1>3, <1>4, <1>6, <1>7
       DEF DescriptorGood, Held, FoundAt, Holds, Free, TypeOK
  <2>5. QED
    BY <1>1, <2>2, <2>3, <2>4 DEF OneHome, SlotsFilled
<1>8. CASE users[h] # 1
  <2>1. slot_lock'[h] = [status |-> "ReadLock", count |-> users[h] - 1]
    BY <1>2, <1>5, <1>8 DEF TypeOK
  <2>2. TypeOK'
    <3>1. [status |-> "ReadLock", count |-> users[h] - 1] \in SlotLock
      BY <1>5, <1>8 DEF SlotLock
    <3>2. slot_lock' \in [Slots -> SlotLock]
      BY <1>2, <2>1, <3>1 DEF TypeOK
    <3>3. users' \in [Slots -> Nat] /\ granted' = granted
      BY <1>3, <1>4, <1>5, <1>8 DEF TypeOK
    <3>4. QED
      BY <1>1, <3>2, <3>3 DEF TypeOK, OtherTypes
  <2>3. LockAccounting'
    BY <1>2, <1>3, <1>5, <1>6, <1>8, <2>1 DEF LockAccounting, Free, TypeOK
  <2>4. DescriptorGood'
    BY <1>1, <1>2, <1>3, <1>4, <1>5, <1>8, <2>1
       DEF DescriptorGood, Held, FoundAt, Holds, Free, TypeOK
  <2>5. QED
    BY <1>1, <2>2, <2>3, <2>4 DEF OneHome, SlotsFilled
<1>9. QED
  BY <1>7, <1>8

\* Calls that change no slot keep the invariant.
LEMMA UnchangedKeepsInv ==
  ASSUME IInv, OtherTypes, SlotsUnchanged
  PROVE  IInv'
BY DEF IInv, OtherTypes, SlotsUnchanged, TypeOK, LockAccounting, OneHome,
       DescriptorGood, SlotsFilled, Free, Held, FoundAt, Holds

-----------------------------------------------------------------------------
\* The invariant holds before the first call.
LEMMA InitInv == Init => IInv
<1> SUFFICES ASSUME Init PROVE IInv
  OBVIOUS
<1>1. TypeOK
  BY DEF Init, CacheEmpty, TypeOK, NoBlock, Unlocked, Block, SlotLock
<1>2. LockAccounting /\ OneHome /\ DescriptorGood /\ SlotsFilled
  BY DEF Init, CacheEmpty, LockAccounting, OneHome, DescriptorGood, SlotsFilled,
         Free, Held, NoBlock, Unlocked
<1>3. QED
  BY <1>1, <1>2 DEF IInv

\* Every step keeps it.
LEMMA NextInv == IInv /\ [Next]_cacheVars => IInv'
<1> SUFFICES ASSUME IInv, [Next]_cacheVars PROVE IInv'
  OBVIOUS
<1>1. CASE Next
  <2>1. StepCase /\ OtherTypes
    BY <1>1, NextCases
  <2>2. CASE SlotsUnchanged
    BY <2>1, <2>2, UnchangedKeepsInv
  <2>3. CASE \E s \in Slots, oid \in Nat, off \in Nat, len \in Nat :
               GetHit(s, oid, off, len)
    BY <2>1, <2>3, HitKeepsInv
  <2>4. CASE \E s \in Slots, oid \in Nat, off \in Nat, len \in Nat :
               NewFill(s, oid, off, len)
    BY <2>1, <2>4, FillKeepsInv
  <2>5. CASE \E h, s \in Slots : UnlockFound(h, s)
    BY <2>1, <2>5, UnlockFindsGranted, ReleaseKeepsInv
  <2>6. QED
    BY <2>1, <2>2, <2>3, <2>4, <2>5 DEF StepCase
<1>2. CASE UNCHANGED cacheVars
  <2>1. SlotsUnchanged /\ OtherTypes
    BY <1>2 DEF cacheVars, SlotsUnchanged, OtherTypes, IInv, TypeOK
  <2>2. QED
    BY <2>1, UnchangedKeepsInv
<1>3. QED
  BY <1>1, <1>2

\* The conjunction that every call keeps holds in every reachable state.
THEOREM InvariantHolds == Spec => []IInv
BY InitInv, NextInv, PTL DEF Spec

\* The fields of the cache keep their types.
THEOREM CacheTypes == Spec => []TypeOK
<1>1. IInv => TypeOK
  BY DEF IInv
<1>2. QED
  BY <1>1, InvariantHolds, PTL

\* No lock is leaked or lost: every slot is locked exactly as often as its
\* descriptors are out, and a write lock has one holder.
THEOREM LocksAccounted == Spec => []LockAccounting
<1>1. IInv => LockAccounting
  BY DEF IInv
<1>2. QED
  BY <1>1, InvariantHolds, PTL

\* find_cache_slot has one answer: no block is cached twice.
THEOREM BlocksHaveOneHome == Spec => []OneHome
<1>1. IInv => OneHome
  BY DEF IInv
<1>2. QED
  BY <1>1, InvariantHolds, PTL

\* A descriptor stays good until it is given back to unlock.
THEOREM DescriptorsStayGood == Spec => []DescriptorGood
<1>1. IInv => DescriptorGood
  BY DEF IInv
<1>2. QED
  BY <1>1, InvariantHolds, PTL

\* A locked slot is never evicted or filled.
THEOREM LockedSlotsStay == Spec => LockedStays
<1>1. IInv /\ [Next]_cacheVars
        => [\A s \in Slots : ~Free(s) => cached'[s] = cached[s]]_cacheVars
  <2> SUFFICES ASSUME IInv, Next, NEW s \in Slots, ~Free(s)
               PROVE  cached'[s] = cached[s]
    BY DEF cacheVars
  <2>1. StepCase
    BY NextCases
  <2>2. CASE cached' = cached
    BY <2>2
  <2>3. CASE \E t \in Slots, oid \in Nat, off \in Nat, len \in Nat :
               NewFill(t, oid, off, len)
    BY <2>3 DEF NewFill, Fill, Assigned, IInv, TypeOK
  <2>4. QED
    BY <2>1, <2>2, <2>3 DEF StepCase, SlotsUnchanged, GetHit, UnlockFound
<1>2. QED
  BY <1>1, InvariantHolds, PTL DEF Spec, LockedStays

\* A call that fails leaves no lock and no trace: the eviction that could fail
\* with the lock taken cannot fail.
THEOREM FailuresAreClean == Spec => FailureChangesNothing
<1>1. IInv /\ [Next]_cacheVars
        => [ret' < 1 => UNCHANGED <<cached, slot_lock, users>>]_cacheVars
  BY NextCases DEF CleanFailure, SlotsUnchanged, cacheVars
<1>2. QED
  BY <1>1, InvariantHolds, PTL DEF Spec, FailureChangesNothing
=============================================================================
