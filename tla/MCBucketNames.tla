--------------------------- MODULE MCBucketNames ---------------------------
(* Symmetry of BucketNames: threads and names are only compared.           *)
EXTENDS BucketNames, TLC

Symmetry == Permutations(Threads) \cup Permutations(Names)
=============================================================================
