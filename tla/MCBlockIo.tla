------------------------------ MODULE MCBlockIo ------------------------------
EXTENDS BlockIo
Symmetry == Permutations(Proc) \union Permutations(Block)
=============================================================================
