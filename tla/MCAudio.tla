------------------------------ MODULE MCAudio ------------------------------
(***************************************************************************)
(* Disk and WavHeader for TLC.  They share no state: the variable part     *)
(* says which of the two a behaviour is about, and the other one rests.    *)
(***************************************************************************)
EXTENDS Disk, WavHeader, TLC

VARIABLE part

Symmetry == Permutations(Requests)

\* A volume without free space that nobody writes to.
DiskRests == free = 0 /\ Init

\* An empty file before its header is read.
WavRests == size = 0 /\ rf64 = FALSE /\ WavInit

MCInit ==
    \/ part = "disk" /\ WavRests /\ Init
    \/ part = "header" /\ DiskRests /\ WavInit

MCNext ==
    /\ UNCHANGED part
    /\ \/ part = "disk" /\ Next /\ UNCHANGED wavVars
       \/ part = "header" /\ WavNext /\ UNCHANGED vars

MCSpec == MCInit /\ [][MCNext]_<<part, vars, wavVars>>
=============================================================================
