---------------------------- MODULE MCRequestFiles ----------------------------
(* One byte is stored at a time: what is read is the matter of MCRamFs.    *)
EXTENDS RequestFiles, TLC
MCPieces == {<<1>>}
Symmetry == Permutations(Clients)
==============================================================================
