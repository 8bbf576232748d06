----------------------------- MODULE MCChunkPool -----------------------------
(* ChunkPool on the production set (7, {0, 1, 3}).                          *)
EXTENDS ChunkPool

C7 == <<0, 1, 3>>

=============================================================================
