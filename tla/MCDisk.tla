------------------------------- MODULE MCDisk -------------------------------
(* Instances of Disk for TLC. *)
EXTENDS Disk, TLC

Symmetry == Permutations(Requests)
=============================================================================
