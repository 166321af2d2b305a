----------------------------- MODULE MCCredits -----------------------------
(***************************************************************************)
(* Instances of Credits for TLC.                                           *)
(***************************************************************************)
EXTENDS Credits, TLC

CONSTANTS r1, r2, k1, k2, k3

\* One key both callers use and one that only the first uses, and callers that
\* share all.
MixedKeys == r1 :> {k1, k2} @@ r2 :> {k2}
SharedKeys == [r \in Requests |-> Keys]

Symmetry == Permutations(Residents)
=============================================================================
