----------------------------- MODULE MCWindows -----------------------------
(***************************************************************************)
(* Segmenter and Overlap for TLC.  They share no state: the variable part  *)
(* says which of the two a behaviour is about, and the other one rests.    *)
(***************************************************************************)
EXTENDS Segmenter, MCOverlap

VARIABLE part

\* A recording before its first frame, and one in which nobody speaks.
SegmenterRests == probe = 0 /\ Init
OverlapRests == track = <<>> /\ OverlapInit

MCInit ==
    \/ part = "segmenter" /\ OverlapRests /\ Init
    \/ part = "overlap" /\ SegmenterRests /\ OverlapInit

MCNext ==
    /\ UNCHANGED part
    /\ \/ part = "segmenter" /\ Next /\ UNCHANGED overlapVars
       \/ part = "overlap" /\ OverlapNext /\ UNCHANGED vars

MCSpec == MCInit /\ [][MCNext]_<<part, vars, overlapVars>>
=============================================================================
