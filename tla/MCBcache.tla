------------------------------ MODULE MCBcache ------------------------------
(* A small instance of Bcache: buffers, blocks and contents may be swapped *)
EXTENDS Bcache, TLC

Symmetry == Permutations(Bufs) \cup Permutations(Blocks) \cup Permutations(Vals)
=============================================================================
