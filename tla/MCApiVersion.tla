---------------------------- MODULE MCApiVersion ----------------------------
(* Servers before, between and after the changes of protocol.              *)
EXTENDS ApiVersion, TLC

MCVersions == {<<1, 17>>, <<1, 19>>}

MCThreeVersions == {<<1, 17>>, <<1, 18>>, <<1, 19>>}

\* For safety properties only.
ThreadSymmetry == Permutations(Threads)
=============================================================================
