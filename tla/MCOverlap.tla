------------------------------ MODULE MCOverlap ------------------------------
(* Instances of Overlap for TLC. *)
EXTENDS Overlap, SequencesExt

CONSTANT MaxWords \* bound: words in a recording

Extended(tracks, n) ==
    tracks \cup {Append(t, w) : t \in {u \in tracks : Len(u) = n - 1}, w \in Words}

\* Every recording of at most MaxWords words; labels are only compared, so that it is
\* enough to begin with the first.
SmallTracks ==
    FoldLeft(LAMBDA tracks, n : {t \in Extended(tracks, n) :
                                    /\ \A i \in 1..(Len(t) - 1) : t[i].to <= t[i+1].from
                                    /\ t # <<>> => t[1].label = 1},
             {<<>>}, [n \in 1..MaxWords |-> n])
=============================================================================
