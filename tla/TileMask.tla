------------------------------ MODULE TileMask ------------------------------
(***************************************************************************)
(* How the CUDA kernels apply the mask of a subproblem: tile by tile, with *)
(* a summary of the group bits of every block of tokens                    *)
(* (cqs_block_summaries in interface.py, the cqs_ operators of mask.h).    *)
(* A tile found masked is skipped whole, a tile found clear takes the      *)
(* unmasked path, any other is masked pair by pair.                        *)
(*                                                                         *)
(* A bitset is the set of groups whose bit is set; positions are local,    *)
(* from 0, and a range of them is a first position and an extent.          *)
(***************************************************************************)
EXTENDS RefinementTree

CONSTANTS
  BlkSize,   \* CQS_BLK_SIZE, the tokens summarised by one OR and one AND
  Tiles      \* the <<rows, columns>> a kernel's tile or a warp's window may have

ASSUME TilesArePositive ==
  /\ BlkSize \in Nat \ {0}
  /\ Tiles \subseteq (Nat \ {0}) \X (Nat \ {0})

NumBlocks(t) == (Len(t.ids) + BlkSize - 1) \div BlkSize

\* The positions summarised by block b; the padding of the last one is neutral.
Block(t, b) == {r \in b * BlkSize .. (b + 1) * BlkSize - 1 : r < Len(t.ids)}

\* slip: the last block is left out when the range ends inside it
RoundedDown(t, first, extent) ==
  LET last == (first + extent) \div BlkSize
  IN  UNION {Block(t, b) :
               b \in first \div BlkSize .. (IF last > NumBlocks(t) THEN NumBlocks(t) ELSE last) - 1}

\* The positions whose summaries a range of tokens consults: whole blocks.
Span(t, first, extent) ==
  LET last == (first + extent + BlkSize - 1) \div BlkSize
  IN  UNION {Block(t, b) :
               b \in first \div BlkSize .. (IF last > NumBlocks(t) THEN NumBlocks(t) ELSE last) - 1}

\* cqs_blk_range_or and cqs_blk_range_and.
RangeOr(t, first, extent) ==
  {g \in t.groups : \E r \in Span(t, first, extent) : t.ids[r + 1] \in g}

RangeAnd(t, first, extent) ==
  {g \in t.groups : /\ Span(t, first, extent) # {}
                    /\ \A r \in Span(t, first, extent) : t.ids[r + 1] \in g}

Aligned(first, extent) == first % BlkSize = 0 /\ extent % BlkSize = 0

\* cqs_tile_masked, and cqs_tile_is_fully_masked of the forward kernel.
TileMasked(t, row, rows, col, cols) ==
  /\ Aligned(row, rows) /\ Aligned(col, cols)
  /\ row + rows <= Len(t.ids) /\ col + cols <= Len(t.ids)
  /\ RangeAnd(t, row, rows) \cap RangeAnd(t, col, cols) # {}

\* cqs_tile_clear, and cqs_tile_is_clear of the forward kernel.
TileClear(t, row, rows, col, cols) ==
  RangeOr(t, row, rows) \cap RangeOr(t, col, cols) = {}

Within(t, first, extent) == {r \in first .. first + extent - 1 : r < Len(t.ids)}

InTile(t, row, rows, col, cols) == Within(t, row, rows) \X Within(t, col, cols)

\* cqs_should_mask: the test of one pair.
ShouldMask(t, p) == Masked(t, t.ids[p[1] + 1], t.ids[p[2] + 1])

\* The pairs of a tile that reach the softmax.
Scored(t, row, rows, col, cols) ==
  IF TileMasked(t, row, rows, col, cols) THEN {}
  ELSE IF TileClear(t, row, rows, col, cols) THEN InTile(t, row, rows, col, cols)
  ELSE {p \in InTile(t, row, rows, col, cols) : ~ ShouldMask(t, p)}

\* "It can only ever fail to skip, never skip wrongly" (flash_bwd_kernel.h, and
\* the same of cqs_tile_masked in mask.h): whatever the shape of the tiles and
\* wherever they fall on the blocks, exactly the pairs the mask keeps are scored.
TilesKeepExactly ==
  \A shape \in Tiles :
    LET rows == shape[1]
        cols == shape[2]
    IN  \A i \in 0 .. (Len(task.ids) - 1) \div rows, j \in 0 .. (Len(task.ids) - 1) \div cols :
          Scored(task, i * rows, rows, j * cols, cols) =
            {p \in InTile(task, i * rows, rows, j * cols, cols) : ~ ShouldMask(task, p)}

=============================================================================
