-------------------------- MODULE MCDeviceScheduler --------------------------
(***************************************************************************)
(* Small clients of the scheduler: buffers of two units and two slot       *)
(* pairs, objects of up to three blocks.                                   *)
(***************************************************************************)
EXTENDS SchedulerClients

Points == Obj(5, "ReadOnly")
Labels == Obj(3, "ReadWrite")

KMeans == KMeansBuffered(3, 2, BufferSize, 2)

\* Two functions on one mutable object.
ZeroInc == RunUnaryAndRead(6, BufferSize)

\* The object fits into its two slots: the second run finds it cached.
Cached ==
  [objects |-> <<Obj(3, "ReadWrite"), Obj(2, "ReadWrite")>>,
   batches |-> <<<<Unary(1, 2)>>, <<Unary(1, 2), Binary(2, 1, 1, 2)>>>>,
   reads |-> Blocks(1, 3, 2) \o Blocks(2, 2, 1)]

\* A transient object in between.
Intermediate ==
  [objects |-> <<Labels, Obj(3, "Transient")>>,
   batches |-> <<<<Binary(1, 2, 1, 1), Binary(2, 1, 1, 1)>>>>,
   reads |-> Blocks(1, 3, 1)]

\* The blocks of the two objects do not match, and the client tries again.
Mismatch ==
  [objects |-> <<Points, Labels>>,
   batches |-> <<<<Binary(1, 2, 2, 2)>>, <<Unary(2, 1)>>>>, reads |-> <<>>]

\* The second object is larger than a buffer.
TooLarge ==
  [objects |-> <<Labels, Obj(9, "ReadWrite")>>,
   batches |-> <<<<Binary(1, 2, 1, 3)>>, <<Unary(1, 1)>>>>, reads |-> <<>>]

MCPrograms == {KMeans, ZeroInc, Intermediate, Mismatch, TooLarge, Cached}

\* The transfer benchmark, with three buffers to transfer.
MCTransfers == {TransferBench(BufferSize, 3)}

MCOneRun == {[objects |-> <<Labels>>, batches |-> <<<<Unary(1, 1)>>>>, reads |-> <<>>]}

\* A binary function that finds its first object cached and not its second.
MCHalfCached ==
  {[objects |-> <<Obj(2, "ReadOnly"), Obj(2, "ReadWrite")>>,
    batches |-> <<<<Unary(1, 2)>>, <<Binary(1, 2, 2, 2)>>>>,
    reads |-> Blocks(2, 2, 2)]}

MCNone == {}
==============================================================================
