-------------------------- MODULE MCCoherentCache --------------------------
(***************************************************************************)
(* TLC instances of CoherentCache.  The client of the first cuts an object *)
(* of five units into three blocks for two slots, the last block short,    *)
(* and now and then asks outside of it.  The client of the second asks for *)
(* ranges of two lengths at the same place.                                *)
(***************************************************************************)
EXTENDS CoherentCache

Object(mode) == <<[size |-> 5, mode |-> mode]>>
MCObjects == {Object(m) : m \in ObjectMode}
MCAligned == {<<0, 2>>, <<2, 2>>, <<4, 1>>, <<5, 1>>, <<0, 3>>}
MCMixed == {<<0, 1>>, <<0, 2>>, <<2, 2>>}
=============================================================================
