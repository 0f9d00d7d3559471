------------------------------- MODULE ZipMap -------------------------------
(***************************************************************************)
(* What device_scheduler.hpp promises of enqueue and run: run blocks until *)
(* every enqueued function has been applied to every block of its objects, *)
(* exactly once, blocks with the same index together:                      *)
(* map[f(fst(x), snd(x))].  Functions of a batch that share an object see  *)
(* it one after the other, in the order they were enqueued.                *)
(*                                                                         *)
(* A function is [objs, steps]: the object ids it takes, and for each the  *)
(* size of its blocks.  Every application gives the blocks of mutable      *)
(* objects a new version.                                                  *)
(***************************************************************************)
EXTENDS Integers, Sequences

VARIABLES
  objs,     \* the registered objects: [size, mode] by object id
  version,  \* version of every block, by object id and offset
  batch,    \* the functions being run, <<>> when run is not active
  log       \* what the applications of this run received, in order

zipVars == <<objs, version, batch, log>>

Fun ==
  [objs : Seq(DOMAIN objs), steps : Seq(Nat)]

CeilDiv(a, b) == (a + b - 1) \div b

\* Number of blocks of the j-th object of f.
NumBlocks(f, j) == CeilDiv(objs[f.objs[j]].size, f.steps[j])

\* Every object of every function has n blocks.
Zips(b, n) ==
  \A k \in DOMAIN b : \A j \in DOMAIN b[k].objs : NumBlocks(b[k], j) = n

\* Block i of the j-th object of f.
BlockAt(f, j, i) ==
  LET size == objs[f.objs[j]].size
      off == i * f.steps[j]
  IN  [oid |-> f.objs[j], bid |-> off,
       len |-> IF off + f.steps[j] < size THEN f.steps[j] ELSE size - off]

\* What f receives for index i.
Input(f, i) ==
  [j \in DOMAIN f.objs |->
     [block |-> BlockAt(f, j, i),
      ver |-> version[f.objs[j]][i * f.steps[j]]]]

\* The versions after f is applied to index i.
Applied(f, i) ==
  [oid \in DOMAIN objs |->
     [off \in DOMAIN version[oid] |->
        IF /\ objs[oid].mode = "ReadWrite"
           /\ \E j \in DOMAIN f.objs : f.objs[j] = oid /\ i * f.steps[j] = off
        THEN version[oid][off] + 1
        ELSE version[oid][off]]]

-----------------------------------------------------------------------------
ZipInit ==
  /\ batch = <<>>
  /\ log = <<>>

Begin ==
  /\ batch = <<>>
  /\ batch' \in Seq(Fun) \ {<<>>}
  /\ log' = <<>>
  /\ UNCHANGED <<objs, version>>

Apply ==
  LET p == Len(log)
      i == p \div Len(batch)
      f == batch[(p % Len(batch)) + 1]
  IN  /\ batch # <<>>
      /\ \E n \in 1 .. objs[f.objs[1]].size : Zips(batch, n) /\ i < n
      /\ log' = Append(log, Input(f, i))
      /\ version' = Applied(f, i)
      /\ UNCHANGED <<objs, batch>>

\* run returns 1: everything has been applied.
End ==
  /\ batch # <<>>
  /\ Zips(batch, Len(log) \div Len(batch))
  /\ Len(log) % Len(batch) = 0
  /\ batch' = <<>>
  /\ UNCHANGED <<objs, version, log>>

\* run returns an error: nothing has been applied.
Reject ==
  /\ batch # <<>>
  /\ log = <<>>
  /\ batch' = <<>>
  /\ UNCHANGED <<objs, version, log>>

ZipNext == Begin \/ Apply \/ End \/ Reject

ZipSpec == ZipInit /\ [][ZipNext]_zipVars
=============================================================================
