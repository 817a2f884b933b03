---------------------------- MODULE MCDispatcher ----------------------------
(* Model-checking instances of Dispatcher.                                 *)
EXTENDS Dispatcher, TLC

\* Runs are interchangeable.
RunSymmetry == Permutations(Runs)

=============================================================================
