-------------------------- MODULE MCKMeansClients --------------------------
(***************************************************************************)
(* TLC instances of KMeansClients.  MCOrdered has the clients that need no *)
(* more than the order of one queue and the blocking map of a CPU buffer:  *)
(* all phases on one device, or the labelling apart from a CPU that does   *)
(* the rest.                                                               *)
(***************************************************************************)
EXTENDS KMeansClients

MCType == [cpu0 |-> "cpu", gpu0 |-> "gpu"]

Client3(ll, mu, cu) ==
  [name |-> "three_stage", place |-> [p \in Phases |->
     CASE p = "ll" -> ll [] p = "mu" -> mu [] p = "cu" -> cu], blocks |-> 1]
OneDevice(name, blocks) ==
  [name |-> name, place |-> [p \in Phases |-> "gpu0"], blocks |-> blocks]

MCOrdered ==
  {Client3("gpu0", "gpu0", "gpu0"), Client3("gpu0", "cpu0", "cpu0"),
   OneDevice("single_stage", 1)}

MCBuffered ==
  {OneDevice("three_stage_buffered", 2), OneDevice("single_stage_buffered", 2)}
=============================================================================
