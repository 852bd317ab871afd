------------------------------- MODULE Overlap -------------------------------
(***************************************************************************)
(* How the texts of overlapping windows become one transcript: emit,       *)
(* from the text of a window on, and overlapSuffix                         *)
(* (internal/inference/engine.go).                                         *)
(*                                                                         *)
(* The recording is a track of spoken words, and a window may end anywhere *)
(* in it, also inside a word: quietBoundary finds no quiet point in        *)
(* continuous speech.  The recogniser is taken to be perfect but for what  *)
(* a window cannot hear: a word that an edge of the window cuts is heard   *)
(* as a fragment, as the word, or not at all.  What is joined wrongly here *)
(* is the fault of the joining alone.  Time is in units of 100 ms (1600    *)
(* samples).                                                               *)
(***************************************************************************)
EXTENDS Integers, Sequences, FiniteSets

CONSTANTS Horizon, \* bound: the length of the recording
          Tracks,  \* the recordings, each as the words that are spoken in it
          Longest, \* the longest word
          Labels,  \* different words: 1..Labels
          Before,  \* how far before the window a word of the last one counts (3200)
          After,   \* how far after the last window a word of this one counts (1600)
          Cap      \* how many words are compared (64)

\* A word, from when and to when it is spoken.
Words == {w \in [label : 1..Labels, from : 0..Horizon, to : 1..Horizon] :
             w.to - w.from \in 1..Longest}

\* The words of a recording are in order and do not overlap.
ASSUME OverlapAssumption ==
    /\ {Horizon, Longest, Labels, Cap} \subseteq Nat \ {0}
    /\ {Before, After} \subseteq Nat
    /\ \A t \in Tracks : /\ t \in Seq(Words)
                         /\ \A i, j \in DOMAIN t : i < j => t[i].to <= t[j].from

VARIABLES
    track,    \* the words spoken, in order
    a, b,     \* the last window
    last,     \* what was heard in it: [label, at], lastText and previousWords
    result,   \* the transcript
    removed,  \* the words of the last window that were not added
    known,    \* history: how many words of the track have been heard
    unclear,  \* history: two windows in a row were Ambiguous
    severed   \* history: two windows in a row were Severed

history == <<known, unclear, severed>>
overlapVars == <<track, a, b, last, result, removed, history>>

OverlapInit ==
    /\ track \in Tracks
    /\ a = -Longest /\ b = 0
    /\ last = <<>> /\ result = <<>> /\ removed = <<>>
    /\ known = 0 /\ unclear = FALSE /\ severed = FALSE

-----------------------------------------------------------------------------
(* What is heard in a window. *)

Least(x, y) == IF x <= y THEN x ELSE y

\* A word that is cut at a window's left or right edge gets a label of its own.
Left == 0
Right == 1
Fragment(side, time) == Labels + 1 + 2 * time + side

IsWord(label) == label \in 1..Labels

\* A word's token comes late by lag, but while the window hears the word.
AsWord(w, lag, to) ==
    [label |-> w.label, at |-> Least(w.from + lag, Least(w.to, to) - 1)]

\* How many words have begun before a time, and how many have ended by it.
Begun(time) == Cardinality({i \in DOMAIN track : track[i].from < time})
Ended(time) == Cardinality({i \in DOMAIN track : track[i].to <= time})

\* Mutant: positions are counted from the window's start.
WholeRelative(from, to, n, lag) ==
    [i \in 1..(n - Begun(from)) |->
        [AsWord(track[Begun(from) + i], lag, to) EXCEPT !.at = @ - from]]

\* The words from the window's start on, up to the n-th of the track.
Whole(from, to, n, lag) ==
    LET earlier == Begun(from)
    IN  [i \in 1..(n - earlier) |-> AsWord(track[earlier + i], lag, to)]

CutAt(time) == {i \in DOMAIN track : track[i].from < time /\ time < track[i].to}

\* What is heard of the word that the left edge cuts.
Cuts(from) ==
    {<<>>}
    \cup {<<[label |-> Fragment(Left, from), at |-> from]>> : i \in CutAt(from)}
    \cup {<<[label |-> track[i].label, at |-> from]>> :
            i \in {j \in CutAt(from) : from = track[j].from + 1}}

\* How many words of the track a window has heard that ends here, and what else it
\* hears of the word that the right edge cuts.
Ends(to) ==
    {[known |-> Ended(to), tail |-> <<>>]}
    \cup {[known |-> Ended(to), tail |-> <<[label |-> Fragment(Right, to), at |-> to - 1]>>] :
            i \in CutAt(to)}
    \cup {[known |-> i, tail |-> <<>>] : i \in {j \in CutAt(to) : to = track[j].to - 1}}

\* No word is spoken between two times.
Silent(s, t) == \A i \in DOMAIN track : track[i].to <= s \/ t <= track[i].from

\* A window begins so early that it hears every word that the last one has not heard
\* to its end; if it hears words of the last one again, it begins more than a word
\* later.  It ends anywhere, but in a word only by a forced cut, after more than a word.
\* It ends before the last one only in a pause: after a forced cut the last voice may
\* be before the cut.
Window(from, to) ==
    /\ from < to
    /\ \A i \in DOMAIN track : track[i].to > b => track[i].from >= from
    /\ from >= a + Longest \/ Silent(from, b)
    /\ \A i \in CutAt(to) : track[i].from >= from + Longest
    /\ to > b \/ Silent(to, b)

-----------------------------------------------------------------------------
(* emit. *)

\* Mutant: the word that crosses the left edge is not counted.
SuffixExact(from) == Cardinality({i \in DOMAIN last : last[i].at >= from - Before})

\* Words of the last window that can lie in this one, and the one that crosses
\* the left edge.
Suffix(from) ==
    LET inside == Cardinality({i \in DOMAIN last : last[i].at >= from - Before})
    IN  IF inside < Len(last) THEN inside + 1 ELSE inside

\* Mutant: any word of this window can have been in the last one.
PrefixAll(next) == Len(next)

\* Words of this window that can have been in the last one.
Prefix(next) == Cardinality({i \in DOMAIN next : next[i].at <= b + After})

Limit(from, next) ==
    Least(Least(Least(Len(last), Len(next)), Cap), Least(Suffix(from), Prefix(next)))

\* The last n words of the last window are n words of this one.
Matches(next, n, offset) ==
    \A i \in 1..n : last[Len(last) - n + i].label = next[offset + i].label

Found(next, limit) ==
    {m \in (1..limit) \X (0..(limit - 1)) :
        m[1] + m[2] <= limit /\ Matches(next, m[1], m[2])}

\* Mutant: the word after the match is dropped too.
DroppedOver(next, limit) ==
    LET found == Found(next, limit)
        best == CHOOSE m \in found :
                   \A k \in found : k[1] < m[1] \/ (k[1] = m[1] /\ k[2] <= m[2])
    IN  IF found = {} THEN 0 ELSE Least(best[1] + best[2] + 1, Len(next))

\* overlapSuffix: the longest match wins, then the one that begins last; it and
\* what comes before it is dropped.
Dropped(next, limit) ==
    LET found == Found(next, limit)
        best == CHOOSE m \in found :
                   \A k \in found : k[1] < m[1] \/ (k[1] = m[1] /\ k[2] <= m[2])
    IN  IF found = {} THEN 0 ELSE best[1] + best[2]

LastIs(label) == last # <<>> /\ last[Len(last)].label = label

\* The words that are heard again are too many to compare, or one that is new and
\* begins at most 100 ms after the last window is the same as the last word in it.
Ambiguous(from) ==
    \/ known - Begun(from) >= Cap
    \/ \E i \in DOMAIN track : /\ i > known /\ track[i].from <= b + After
                               /\ LastIs(track[i].label)

\* The last window has ended in a word that it heard as a fragment, and this one
\* hears it again.
Severed(from) == from < b /\ LastIs(Fragment(Right, b))

\* The text of the next window is added without what repeats the last one.
EmitText(from, to, lag, cut, end) ==
    LET next == cut \o Whole(from, to, end.known, lag) \o end.tail
        drop == IF from < b THEN Dropped(next, Limit(from, next)) ELSE 0
    IN  /\ a' = from /\ b' = to
        /\ last' = next
        /\ result' = result \o [i \in 1..(Len(next) - drop) |-> next[i + drop].label]
        /\ removed' = SubSeq(next, 1, drop)
        /\ known' = end.known
        /\ unclear' = (unclear \/ (from < b /\ Ambiguous(from)))
        /\ severed' = (severed \/ Severed(from))
        /\ UNCHANGED track

OverlapReturned == b = Horizon /\ UNCHANGED overlapVars

OverlapNext ==
    \/ \E from, to \in 0..Horizon :
         /\ Window(from, to)
         /\ \E lag \in 0..1, cut \in Cuts(from), end \in Ends(to) : EmitText(from, to, lag, cut, end)
    \/ OverlapReturned

OverlapSpec == OverlapInit /\ [][OverlapNext]_overlapVars

-----------------------------------------------------------------------------
(* Safety. *)

OverlapTypeOK ==
    /\ a \in (-Longest)..Horizon /\ b \in 0..Horizon
    /\ \A i \in DOMAIN last : last[i].at \in a..(b - 1)
    /\ Len(removed) <= Len(last)
    /\ known \in Ended(b)..Begun(b)

\* Where the transcript has words, and not fragments of them.
Places == {k \in DOMAIN result : IsWord(result[k])}

\* The words there are the first n of the recording, in order.
Transcribes(places, n) ==
    /\ Cardinality(places) = n
    /\ \A k \in places : result[k] = track[Cardinality({j \in places : j <= k})].label

\* Every word heard so far is in the transcript exactly once and in order,
\* however often it comes again; what is left over is fragments of cut words.  Not
\* so where windows were Ambiguous: overlapSuffix cannot tell their words apart.
\* And not where they were Severed: a fragment matches nothing, so that the words
\* of the overlap are added again.
WordsOnce == ~unclear /\ ~severed => Transcribes(Places, known)

\* No word is lost and the order is kept, also where a forced cut has fallen into a
\* word: but for some words that are repeated, the transcript is that of every word
\* heard so far.
WordsKept == ~unclear => \E repeated \in SUBSET Places : Transcribes(Places \ repeated, known)

\* engine.go:257: only what was said in the overlap, and up to 100 ms after it,
\* is ever dropped.
DropsBounded == [][\A i \in DOMAIN removed' : removed'[i].at <= b + After]_overlapVars

\* engine.go:256-257: "identical phrases elsewhere must never be removed".  A token is
\* late by 100 ms at most: a word whose token comes later than the end of the last window
\* has begun after that window, and was not in it.
RepeatsOutsideKept == [][\A i \in DOMAIN removed' : removed'[i].at <= b]_overlapVars

\* gigaam-go-service-spec.md:98: no systematic repetitions at the joints.  The transcript
\* has no more words than were spoken, whatever point the windows were cut at.
NothingRepeated == ~unclear => Cardinality(Places) <= known
=============================================================================
