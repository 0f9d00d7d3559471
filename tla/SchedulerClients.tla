-------------------------- MODULE SchedulerClients --------------------------
(***************************************************************************)
(* The clients of SingleDeviceScheduler, as members of Programs: the       *)
(* buffered k-means, the transfer benchmark and a test.                    *)
(***************************************************************************)
EXTENDS DeviceScheduler

\* add_object, and the two forms of enqueue.
Obj(size, mode) == [size |-> size, mode |-> mode]
Unary(o, step) == [objs |-> <<o>>, steps |-> <<step>>]
Binary(o, p, step1, step2) == [objs |-> <<o, p>>, steps |-> <<step1, step2>>]

\* The loop that reads an object back, block by block.
Blocks(o, size, step) ==
  [i \in 1 .. CeilDiv(size, step) |->
     [oid |-> o, bid |-> (i - 1) * step,
      len |-> IF i * step <= size THEN step ELSE size - (i - 1) * step]]

\* transfer_to_device_only, for one of its buffer sizes: a function over
\* read-only data of as many buffers as it is to transfer.
TransferBench(buffer_size, repeat) ==
  [objects |-> <<Obj(buffer_size * repeat, "ReadOnly")>>,
   batches |-> <<<<Unary(1, buffer_size)>>>>, reads |-> <<>>]

\* One iteration of KmeansThreeStageBuffered: label, sum masses, update.
KMeansIteration(points_step, labels_step) ==
  <<Binary(1, 2, points_step, labels_step), Unary(2, labels_step),
    Binary(1, 2, points_step, labels_step)>>

\* Points and labels are cut into the same number of blocks; the labels are
\* read back.
KMeansBuffered(num_points, num_features, buffer_size, iterations) ==
  LET labels_step == buffer_size \div num_features
  IN  [objects |-> <<Obj(num_points * num_features, "ReadOnly"),
                     Obj(num_points, "ReadWrite")>>,
       batches |-> [i \in 1 .. iterations |-> KMeansIteration(buffer_size, labels_step)],
       reads |-> Blocks(2, num_points, labels_step)]

\* The test RunUnaryAndRead: zero and increment the first of two objects, and
\* read it back.
RunUnaryAndRead(size, buffer_size) ==
  [objects |-> <<Obj(size, "ReadWrite"), Obj(size, "ReadWrite")>>,
   batches |-> <<<<Unary(1, buffer_size), Unary(1, buffer_size)>>>>,
   reads |-> Blocks(1, size, buffer_size)]
=============================================================================
