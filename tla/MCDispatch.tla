----------------------------- MODULE MCDispatch -----------------------------
(***************************************************************************)
(* Instances of Dispatch for TLC.                                          *)
(***************************************************************************)
EXTENDS Dispatch, TLC

\* Loads below the capacity and loads that reach it occur.
MCCapacity == [p \in Points |-> 2]

\* Requests, and ids of a table, are interchangeable.
Symmetry == Permutations(Requests) \cup Permutations(Tasks)
=============================================================================
