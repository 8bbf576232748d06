-------------------------- MODULE MCRefinementTree --------------------------
(* RefinementTree, TileMask and FusedPaths on the production set           *)
(* (7, {0, 1, 3}).                                                         *)
EXTENDS TileMask, FusedPaths

C7 == <<0, 1, 3>>

\* No level, one level with empty and with uneven chunks, two levels.
SomeLengths == {1, 6, 8, 17, 49, 51}

\* Tiles of whole blocks, smaller than a block, and across blocks.
SomeTiles == {<<2, 2>>, <<4, 2>>, <<2, 1>>, <<3, 4>>}

=============================================================================
