------------------------------ MODULE MCEngine ------------------------------
(***************************************************************************)
(* Sessions and Install for TLC.  They share no state: the variable part   *)
(* says which of the two a behaviour is about, and the other one rests.    *)
(***************************************************************************)
EXTENDS Sessions, Install

VARIABLE part

\* A configuration that was refused.
InstallRests ==
    /\ model = "another" /\ precision = "another" /\ other = TRUE /\ bad = {}
    /\ place = "refused" /\ bundle = 1 /\ asr = 0 /\ vad = 0 /\ opened = {}

MCInit ==
    /\ Init
    /\ \/ part = "sessions" /\ InstallRests
       \/ part = "install" /\ InstallInit

InstallEnds == place \in {"refused", "unavailable", "opened"} /\ UNCHANGED installVars

MCNext ==
    /\ UNCHANGED part
    /\ \/ part = "sessions" /\ Next /\ UNCHANGED installVars
       \/ part = "install" /\ (InstallNext \/ InstallEnds) /\ UNCHANGED vars

MCSpec == MCInit /\ [][MCNext]_<<part, vars, installVars>> /\ Fairness
=============================================================================
