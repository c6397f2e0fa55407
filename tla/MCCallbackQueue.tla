-------------------------- MODULE MCCallbackQueue --------------------------
(* CallbackQueue for TLC: model values for the threads.                    *)
EXTENDS CallbackQueue, TLC

\* Application threads are interchangeable (safety runs only).
Symmetry == Permutations(Caller)
=============================================================================
