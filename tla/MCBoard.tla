------------------------------- MODULE MCBoard -------------------------------
(***************************************************************************)
(* A yard of four by two cells:   . B . .                                  *)
(*                                # . b #     B box, b block, # wall       *)
(***************************************************************************)
EXTENDS Board, TLC
MCWalls == {<<1, 2>>, <<4, 2>>}
MCBlocks == {<<3, 2>>}
MCBoxes == {<<2, 1>>}
Symmetry == Permutations(Owner)
=============================================================================
