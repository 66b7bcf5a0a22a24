------------------------------ MODULE MCQueue ------------------------------
(***************************************************************************)
(* Instances of Queue.                                                     *)
(***************************************************************************)
EXTENDS Queue

CONSTANT open

\* Everything in pages of one; what changed in the first second and is open, in
\* pages of two.
MCFilters == {[classes |-> Classes, from |-> 0, to |-> MaxTime, size |-> 1],
              [classes |-> {open}, from |-> 1, to |-> 3, size |-> 2]}
=============================================================================
