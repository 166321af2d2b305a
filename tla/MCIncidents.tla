---------------------------- MODULE MCIncidents ----------------------------
(***************************************************************************)
(* Instances of Incidents for TLC.                                         *)
(***************************************************************************)
EXTENDS Incidents, TLC

\* Two users and two resolutions would only be told apart by their names.
Symmetry == Permutations(Requests)

MCUsers == {"u1"}
MCResolutions == {"done"}
=============================================================================
