------------------------------ MODULE MCUpload ------------------------------
(***************************************************************************)
(* Upload and Paths for TLC.  They share no state: the variable part says  *)
(* which of the two a behaviour is about, and the other one rests.         *)
(***************************************************************************)
EXTENDS Upload, Paths, TLC

VARIABLE part

Symmetry == Permutations(Names)

\* Two directories that were refused for being the same.
PathsRest ==
    /\ fs = [e \in Entries |-> Thing("directory")]
    /\ given = [work |-> Root, models |-> Root]
    /\ work = Root /\ models = Root /\ audio = Root
    /\ place = "refused"

\* A body without a part.
UploadRests == body = <<>> /\ framing = 0 /\ Init

MCInit ==
    \/ part = "upload" /\ PathsRest /\ Init
    \/ part = "paths" /\ UploadRests /\ PathsInit

PathsEnd == place \in {"refused", "made", "failed"} /\ UNCHANGED pathVars

MCNext ==
    /\ UNCHANGED part
    /\ \/ part = "upload" /\ Next /\ UNCHANGED pathVars
       \/ part = "paths" /\ (PathsNext \/ PathsEnd) /\ UNCHANGED vars

MCSpec == MCInit /\ [][MCNext]_<<part, vars, pathVars>>
=============================================================================
