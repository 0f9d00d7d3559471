----------------------------- MODULE MCIOThread -----------------------------
(***************************************************************************)
(* TLC instance of IOThread: the tasks of an eviction and of the fills     *)
(* before and after it.  "load1" fills a slot, "back" returns the block to *)
(* the host after the device read it, "load2" fills the slot after the     *)
(* barrier that waits for "back".                                          *)
(***************************************************************************)
EXTENDS IOThread

MCScript == <<"load1", "back", "load2">>
MCEvents == {"write1", "read", "barrier", "write2"}
MCTaskWaits == [load1 |-> {}, back |-> {"read"}, load2 |-> {"barrier"}]
MCEventNeeds ==
  [write1 |-> {"load1"}, read |-> {}, barrier |-> {"back"}, write2 |-> {"load2"}]
=============================================================================
