------------------------------- MODULE MCRamFs -------------------------------
(* Writes of one and of two bytes, so that reads end inside a cbuf.        *)
EXTENDS RamFs, TLC
MCPieces == {<<1>>, <<2, 3>>}
Symmetry == Permutations(Handles) \cup Permutations(Defs) \cup Permutations(Names)
==============================================================================
