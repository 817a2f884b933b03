------------------------------ MODULE MCOutbox ------------------------------
(* Model-checking instances of Outbox.                                     *)
EXTENDS Outbox, TLC

\* Publishers are interchangeable, and so are jobs.
Symmetry == Permutations(Publishers) \cup Permutations(Jobs)

=============================================================================
