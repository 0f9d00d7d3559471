--------------------------- MODULE MCBufferCache ---------------------------
(***************************************************************************)
(* TLC instance of BufferCache: a pool of three slots, so that the second  *)
(* object owns one slot and the pool ends where its pair would; blocks of  *)
(* two units and of one; requests of two lengths at one place, past the    *)
(* object and larger than a buffer.                                        *)
(***************************************************************************)
EXTENDS BufferCache

MCRequests == {<<0, 1>>, <<0, 2>>, <<2, 1>>, <<0, 3>>}
=============================================================================
