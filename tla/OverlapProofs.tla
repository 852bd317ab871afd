---------------------------- MODULE OverlapProofs ----------------------------
(* What Overlap.tla states, for every recording, every way to cut it and      *)
(* every limit.                                                               *)
EXTENDS Overlap, FiniteSetTheorems, SequenceTheorems, TLAPS

-----------------------------------------------------------------------------
(* Counting. *)

LEMMA UpTo ==
  ASSUME NEW n \in Nat
  PROVE  IsFiniteSet(1..n) /\ Cardinality(1..n) = n
  BY FS_Interval

\* What holds of a number's predecessors too holds of as many as there are.
LEMMA Initially ==
  ASSUME NEW n \in Nat, NEW S \in SUBSET (1..n),
         \A i \in S : \A j \in 1..n : j < i => j \in S
  PROVE  Cardinality(S) \in 0..n /\ S = 1..Cardinality(S)
  <1> DEFINE m == Cardinality(S)
  <1>1. IsFiniteSet(1..n) /\ Cardinality(1..n) = n
    BY FS_Interval
  <1>2. IsFiniteSet(S) /\ m \in Nat /\ m <= n
    BY <1>1, FS_Subset, FS_CardinalityType
  <1>3. ASSUME NEW i \in S PROVE i \in 1..m
    <2>1. i \in 1..n /\ 1..i \subseteq S
      OBVIOUS
    <2>2. Cardinality(1..i) = i
      BY <2>1, FS_Interval
    <2>3. Cardinality(1..i) <= m
      BY <1>2, <2>1, FS_Subset
    <2> QED BY <1>2, <2>1, <2>2, <2>3
  <1>4. IsFiniteSet(1..m) /\ Cardinality(1..m) = m
    BY <1>2, FS_Interval
  <1>5. S = 1..m
    BY <1>3, <1>4, FS_Subset
  <1> QED BY <1>2, <1>5

LEMMA Greatest ==
  ASSUME NEW n \in Nat, NEW S \in SUBSET (0..n), S # {}
  PROVE  \E m \in S : \A s \in S : s <= m
  <1> DEFINE D == {i \in 1..(n + 1) : \E s \in S : i <= s + 1}
             c == Cardinality(D)
  <1>1. D \in SUBSET (1..(n + 1)) /\ \A i \in D : \A j \in 1..(n + 1) : j < i => j \in D
    OBVIOUS
  <1>2. c \in 0..(n + 1) /\ D = 1..c
    <2> HIDE DEF D
    <2> QED BY <1>1, Initially
  <1>3. \A s \in S : s + 1 \in D
    OBVIOUS
  <1>4. PICK s \in S : TRUE
    OBVIOUS
  <1>5. c \in D
    <2> HIDE DEF D
    <2> QED BY <1>2, <1>3, <1>4
  <1>6. PICK m \in S : c <= m + 1
    BY <1>5
  <1> HIDE DEF D, c
  <1>7. \A x \in S : x + 1 <= c
    BY <1>2, <1>3
  <1> QED BY <1>2, <1>6, <1>7

-----------------------------------------------------------------------------
(* The recording. *)

LEMMA TrackFacts ==
  ASSUME track \in Tracks
  PROVE  /\ Len(track) \in Nat /\ DOMAIN track = 1..Len(track)
         /\ \A i \in 1..Len(track) :
              /\ track[i].label \in 1..Labels
              /\ track[i].from \in 0..Horizon /\ track[i].to \in 1..Horizon
              /\ track[i].from < track[i].to /\ track[i].to <= track[i].from + Longest
         /\ \A i, j \in 1..Len(track) : i < j => track[i].to <= track[j].from
  <1>1. track \in Seq(Words) /\ \A i, j \in DOMAIN track : i < j => track[i].to <= track[j].from
    BY OverlapAssumption
  <1>2. Len(track) \in Nat /\ DOMAIN track = 1..Len(track) /\ \A i \in 1..Len(track) : track[i] \in Words
    BY <1>1
  <1>3. ASSUME NEW w \in Words
        PROVE  /\ w.label \in 1..Labels
               /\ w.from \in 0..Horizon /\ w.to \in 1..Horizon
               /\ w.from < w.to /\ w.to <= w.from + Longest
    BY OverlapAssumption DEF Words
  <1> QED BY <1>1, <1>2, <1>3

LEMMA BegunFacts ==
  ASSUME track \in Tracks, NEW time \in Int
  PROVE  /\ Begun(time) \in 0..Len(track)
         /\ \A i \in 1..Len(track) : track[i].from < time <=> i <= Begun(time)
  <1> DEFINE n == Len(track)
             S == {i \in 1..n : track[i].from < time}
  <1>1. /\ n \in Nat /\ DOMAIN track = 1..n
        /\ \A i \in 1..n : track[i].from \in Nat /\ track[i].to \in Nat /\ track[i].from < track[i].to
        /\ \A i, j \in 1..n : i < j => track[i].to <= track[j].from
    BY TrackFacts, OverlapAssumption
  <1> HIDE DEF n
  <1>2. \A i \in S : \A j \in 1..n : j < i => j \in S
    BY <1>1
  <1>3. Begun(time) = Cardinality(S)
    BY <1>1 DEF Begun
  <1>4. S \in SUBSET (1..n)
    OBVIOUS
  <1>5. Cardinality(S) \in 0..n /\ S = 1..Cardinality(S)
    <2> HIDE DEF S
    <2> QED BY <1>1, <1>2, <1>4, Initially
  <1>6. \A i \in 1..n : track[i].from < time <=> i \in S
    OBVIOUS
  <1> HIDE DEF S
  <1> QED BY <1>1, <1>3, <1>5, <1>6 DEF n

LEMMA EndedFacts ==
  ASSUME track \in Tracks, NEW time \in Int
  PROVE  /\ Ended(time) \in 0..Len(track)
         /\ \A i \in 1..Len(track) : track[i].to <= time <=> i <= Ended(time)
  <1> DEFINE n == Len(track)
             S == {i \in 1..n : track[i].to <= time}
  <1>1. /\ n \in Nat /\ DOMAIN track = 1..n
        /\ \A i \in 1..n : track[i].from \in Nat /\ track[i].to \in Nat /\ track[i].from < track[i].to
        /\ \A i, j \in 1..n : i < j => track[i].to <= track[j].from
    BY TrackFacts, OverlapAssumption
  <1> HIDE DEF n
  <1>2. \A i \in S : \A j \in 1..n : j < i => j \in S
    BY <1>1
  <1>3. Ended(time) = Cardinality(S)
    BY <1>1 DEF Ended
  <1>4. S \in SUBSET (1..n)
    OBVIOUS
  <1>5. Cardinality(S) \in 0..n /\ S = 1..Cardinality(S)
    <2> HIDE DEF S
    <2> QED BY <1>1, <1>2, <1>4, Initially
  <1>6. \A i \in 1..n : track[i].to <= time <=> i \in S
    OBVIOUS
  <1> HIDE DEF S
  <1> QED BY <1>1, <1>3, <1>5, <1>6 DEF n

LEMMA BegunLater ==
  ASSUME track \in Tracks, NEW s \in Int, NEW t \in Int, s <= t
  PROVE  Begun(s) <= Begun(t)
  <1>1. /\ Len(track) \in Nat
        /\ \A i \in 1..Len(track) : track[i].from \in Nat
    BY TrackFacts, OverlapAssumption
  <1>2. Begun(s) \in 0..Len(track) /\ \A i \in 1..Len(track) : track[i].from < s <=> i <= Begun(s)
    BY BegunFacts
  <1>3. Begun(t) \in 0..Len(track) /\ \A i \in 1..Len(track) : track[i].from < t <=> i <= Begun(t)
    BY BegunFacts
  <1>4. CASE Begun(s) = 0
    BY <1>3, <1>4
  <1>5. CASE Begun(s) # 0
    <2>1. Begun(s) \in 1..Len(track)
      BY <1>1, <1>2, <1>5
    <2>2. track[Begun(s)].from < s
      BY <1>2, <2>1
    <2>3. track[Begun(s)].from < t
      BY <1>1, <2>1, <2>2
    <2> QED BY <1>3, <2>1, <2>3
  <1> QED BY <1>4, <1>5

-----------------------------------------------------------------------------
(* What is heard. *)

\* The first n words of the recording, and no others, can have been heard before a
\* time: the last of them may be spoken a little longer.
Knows(n, time) ==
    /\ n \in 0..Len(track)
    /\ \A i \in 1..Len(track) :
          /\ i <= n => track[i].from < time /\ track[i].to <= time + 1
          /\ i > n => track[i].to > time

LEMMA CutFacts ==
  ASSUME track \in Tracks, NEW time \in Int, NEW i \in CutAt(time)
  PROVE  /\ i \in 1..Len(track) /\ track[i].from < time /\ time < track[i].to
         /\ \A j \in 1..Len(track) : /\ j < i => track[j].to <= track[i].from
                                     /\ j > i => track[i].to <= track[j].from
  BY TrackFacts DEF CutAt

LEMMA EndedKnown ==
  ASSUME track \in Tracks, NEW time \in Int
  PROVE  Knows(Ended(time), time) /\ Ended(time) <= Begun(time)
  <1>1. /\ Len(track) \in Nat
        /\ \A i \in 1..Len(track) : /\ track[i].from \in Nat /\ track[i].to \in Nat
                                    /\ track[i].from < track[i].to
    BY TrackFacts, OverlapAssumption
  <1>2. Ended(time) \in 0..Len(track) /\ \A i \in 1..Len(track) : track[i].to <= time <=> i <= Ended(time)
    BY EndedFacts
  <1>3. Begun(time) \in 0..Len(track) /\ \A i \in 1..Len(track) : track[i].from < time <=> i <= Begun(time)
    BY BegunFacts
  <1>4. Knows(Ended(time), time)
    <2>1. ASSUME NEW i \in 1..Len(track)
          PROVE  /\ i <= Ended(time) => track[i].from < time /\ track[i].to <= time + 1
                 /\ i > Ended(time) => track[i].to > time
      BY <1>1, <1>2
    <2> QED BY <1>2, <2>1 DEF Knows
  <1>5. CASE Ended(time) = 0
    BY <1>3, <1>4, <1>5
  <1>6. CASE Ended(time) # 0
    <2>1. Ended(time) \in 1..Len(track)
      BY <1>1, <1>2, <1>6
    <2>2. track[Ended(time)].from < time
      BY <1>1, <1>2, <2>1
    <2> QED BY <1>3, <1>4, <2>1, <2>2
  <1> QED BY <1>4, <1>5, <1>6

\* A word that is cut has begun, and is the next one after those that have ended.
LEMMA CutKnown ==
  ASSUME track \in Tracks, NEW time \in Int, NEW i \in CutAt(time), time = track[i].to - 1
  PROVE  Knows(i, time) /\ i \in Ended(time)..Begun(time)
  <1>1. /\ Len(track) \in Nat
        /\ \A j \in 1..Len(track) : /\ track[j].from \in Nat /\ track[j].to \in Nat
                                    /\ track[j].from < track[j].to
    BY TrackFacts, OverlapAssumption
  <1>2. Ended(time) \in 0..Len(track) /\ \A j \in 1..Len(track) : track[j].to <= time <=> j <= Ended(time)
    BY EndedFacts
  <1>3. Begun(time) \in 0..Len(track) /\ \A j \in 1..Len(track) : track[j].from < time <=> j <= Begun(time)
    BY BegunFacts
  <1>4. /\ i \in 1..Len(track) /\ track[i].from < time /\ time < track[i].to
        /\ \A j \in 1..Len(track) : /\ j < i => track[j].to <= track[i].from
                                    /\ j > i => track[i].to <= track[j].from
    BY CutFacts
  <1>5. ASSUME NEW j \in 1..Len(track)
        PROVE  /\ j <= i => track[j].from < time /\ track[j].to <= time + 1
               /\ j > i => track[j].to > time
    <2>1. CASE j = i
      BY <1>1, <1>4, <2>1
    <2>2. CASE j < i
      <3>1. track[j].from \in Nat /\ track[j].to \in Nat /\ track[j].from < track[j].to
        BY <1>1
      <3>2. track[i].from \in Nat /\ track[i].from < time
        BY <1>1, <1>4
      <3>3. track[j].to <= track[i].from
        BY <1>4, <2>2, Zenon
      <3>4. track[j].from < time /\ track[j].to <= time + 1
        BY <3>1, <3>2, <3>3
      <3>5. ~(j > i)
        BY <1>4, <2>2
      <3> QED BY <3>4, <3>5
    <2>3. CASE j > i
      <3>1. track[j].from \in Nat /\ track[j].to \in Nat /\ track[j].from < track[j].to
        BY <1>1
      <3>2. track[i].to \in Nat /\ time < track[i].to
        BY <1>1, <1>4
      <3>3. track[i].to <= track[j].from
        BY <1>4, <2>3
      <3>4. track[j].to > time
        BY <3>1, <3>2, <3>3
      <3>5. ~(j <= i)
        BY <1>4, <2>3
      <3> QED BY <3>4, <3>5
    <2> QED BY <1>4, <2>1, <2>2, <2>3
  <1>6. Knows(i, time)
    BY <1>1, <1>4, <1>5 DEF Knows
  <1>7. i <= Begun(time)
    BY <1>3, <1>4
  <1>8. Ended(time) <= i
    <2>1. CASE Ended(time) = 0
      BY <1>4, <2>1
    <2>2. CASE Ended(time) # 0
      <3> DEFINE j == Ended(time)
      <3>1. j \in 1..Len(track)
        BY <1>1, <1>2, <2>2
      <3>2. track[j].to <= time
        BY <1>2, <3>1
      <3> HIDE DEF j
      <3>3. ~(j > i)
        BY <1>1, <1>5, <3>1, <3>2
      <3> QED BY <1>4, <3>1, <3>3 DEF j
    <2> QED BY <2>1, <2>2
  <1>9. i \in Nat /\ Ended(time) \in Nat /\ Begun(time) \in Nat
    BY <1>2, <1>3, <1>4
  <1> QED BY <1>6, <1>7, <1>8, <1>9

LEMMA EndsFacts ==
  ASSUME track \in Tracks, NEW to \in 0..Horizon, NEW end \in Ends(to)
  PROVE  /\ Knows(end.known, to) /\ end.known \in Ended(to)..Begun(to)
         /\ \/ end.tail = <<>>
            \/ CutAt(to) # {} /\ end.tail = <<[label |-> Fragment(Right, to), at |-> to - 1]>>
  <1>1. Knows(Ended(to), to) /\ Ended(to) \in Ended(to)..Begun(to)
    <2>1. Ended(to) \in 0..Len(track) /\ Begun(to) \in 0..Len(track)
      BY EndedFacts, BegunFacts
    <2> QED BY <2>1, EndedKnown
  <1>2. CASE end = [known |-> Ended(to), tail |-> <<>>]
    BY <1>1, <1>2
  <1>3. CASE /\ end = [known |-> Ended(to),
                       tail |-> <<[label |-> Fragment(Right, to), at |-> to - 1]>>]
             /\ CutAt(to) # {}
    BY <1>1, <1>3
  <1>4. ASSUME NEW i \in CutAt(to), to = track[i].to - 1, end = [known |-> i, tail |-> <<>>]
        PROVE  Knows(end.known, to) /\ end.known \in Ended(to)..Begun(to) /\ end.tail = <<>>
    BY <1>4, CutKnown
  <1> QED BY <1>2, <1>3, <1>4 DEF Ends

Heard == [label : Nat, at : Int]

\* What a window gives: a word that its left edge cuts, if c is 1, the words from p + 1
\* to q, and a fragment of the word that its right edge cuts, if f is 1.
HeardIn(s, c, p, q, f, from, to) ==
    /\ s \in Seq(Heard) /\ Len(s) = c + (q - p) + f
    /\ c = 1 => /\ s[1].at = from
                /\ s[1].label = Fragment(Left, from) \/ IsWord(s[1].label)
    /\ f = 1 => s[Len(s)].label = Fragment(Right, to) /\ s[Len(s)].at = to - 1
    /\ \A i \in 1..(q - p) :
          /\ s[c + i].label = track[p + i].label
          /\ track[p + i].from <= s[c + i].at /\ s[c + i].at < track[p + i].to
          /\ s[c + i].at < to

LEMMA CutHeard ==
  ASSUME track \in Tracks, NEW from \in 0..Horizon, NEW cut \in Cuts(from)
  PROVE  \/ cut = <<>>
         \/ \E i \in CutAt(from) :
              /\ cut \in Seq(Heard) /\ Len(cut) = 1 /\ cut[1].at = from
              /\ cut[1].label \in {Fragment(Left, from), track[i].label}
              /\ IsWord(track[i].label)
  <1>1. CASE cut = <<>>
    BY <1>1
  <1>2. ASSUME NEW i \in CutAt(from)
        PROVE  IsWord(track[i].label) /\ track[i].label \in Nat
    <2>1. i \in 1..Len(track)
      BY CutFacts
    <2>2. track[i].label \in 1..Labels
      BY <2>1, TrackFacts
    <2> QED BY <2>2, OverlapAssumption DEF IsWord
  <1>3. ASSUME NEW i \in CutAt(from), cut = <<[label |-> Fragment(Left, from), at |-> from]>>
        PROVE  /\ cut \in Seq(Heard) /\ Len(cut) = 1 /\ cut[1].at = from
               /\ cut[1].label \in {Fragment(Left, from), track[i].label}
    <2>1. [label |-> Fragment(Left, from), at |-> from] \in Heard
      BY OverlapAssumption DEF Heard, Fragment, Left
    <2> QED BY <1>3, <2>1
  <1>4. ASSUME NEW i \in CutAt(from), cut = <<[label |-> track[i].label, at |-> from]>>
        PROVE  /\ cut \in Seq(Heard) /\ Len(cut) = 1 /\ cut[1].at = from
               /\ cut[1].label \in {Fragment(Left, from), track[i].label}
    <2>1. [label |-> track[i].label, at |-> from] \in Heard
      BY <1>2 DEF Heard
    <2> QED BY <1>4, <2>1
  <1> QED BY <1>1, <1>2, <1>3, <1>4 DEF Cuts

LEMMA AsWordFacts ==
  ASSUME NEW w, w.label \in Nat, w.from \in Nat, w.to \in Nat, w.from < w.to,
         NEW lag \in 0..1, NEW to \in Nat, w.from < to
  PROVE  /\ AsWord(w, lag, to) \in Heard /\ AsWord(w, lag, to).label = w.label
         /\ w.from <= AsWord(w, lag, to).at /\ AsWord(w, lag, to).at < w.to
         /\ AsWord(w, lag, to).at < to
  <1> DEFINE at == Least(w.from + lag, Least(w.to, to) - 1)
  <1>1. AsWord(w, lag, to) = [label |-> w.label, at |-> at]
    BY DEF AsWord
  <1>2. at \in Int /\ w.from <= at /\ at < w.to /\ at < to
    BY DEF Least
  <1> HIDE DEF at
  <1> QED BY <1>1, <1>2 DEF Heard

LEMMA WholeHeard ==
  ASSUME track \in Tracks, NEW from \in 0..Horizon, NEW to \in 0..Horizon, NEW lag \in 0..1,
         NEW q \in 0..Len(track), Knows(q, to), Begun(from) <= q
  PROVE  HeardIn(Whole(from, to, q, lag), 0, Begun(from), q, 0, from, to)
  <1> DEFINE p == Begun(from)
             s == Whole(from, to, q, lag)
             n == q - p
  <1>1. p \in 0..Len(track) /\ Len(track) \in Nat /\ p <= q /\ to \in Nat
    BY BegunFacts, TrackFacts
  <1>0. \A j \in 1..Len(track) : /\ track[j].label \in Nat /\ track[j].from \in Nat
                                 /\ track[j].to \in Nat /\ track[j].from < track[j].to
    BY TrackFacts, OverlapAssumption, SMTT(30)
  <1>2. n \in Nat /\ s = [i \in 1..n |-> AsWord(track[p + i], lag, to)]
    BY <1>1 DEF Whole
  <1> HIDE DEF p, s, n
  <1>3. ASSUME NEW i \in 1..n
        PROVE  /\ AsWord(track[p + i], lag, to) \in Heard
               /\ s[i].label = track[p + i].label
               /\ track[p + i].from <= s[i].at /\ s[i].at < track[p + i].to
               /\ s[i].at < to
    <2> DEFINE w == track[p + i]
    <2>1. p + i \in 1..Len(track) /\ p + i <= q
      BY <1>1, <1>2 DEF n
    <2>2. /\ w.label \in Nat /\ w.from \in Nat /\ w.to \in Nat /\ w.from < w.to
      BY <1>0, <2>1
    <2>3. w.from < to
      BY <2>1 DEF Knows
    <2>4. s[i] = AsWord(w, lag, to)
      BY <1>2
    <2>5. to \in Nat
      BY <1>1
    <2> HIDE DEF w
    <2>6. /\ AsWord(w, lag, to) \in Heard /\ AsWord(w, lag, to).label = w.label
          /\ w.from <= AsWord(w, lag, to).at /\ AsWord(w, lag, to).at < w.to
          /\ AsWord(w, lag, to).at < to
      BY <2>2, <2>3, <2>5, AsWordFacts
    <2> QED BY <2>4, <2>6 DEF w
  <1>4. s \in [1..n -> Heard]
    BY <1>2, <1>3
  <1>5. s \in Seq(Heard) /\ Len(s) = n
    BY <1>2, <1>4
  <1>6. Len(s) = 0 + (q - p) + 0
    BY <1>1, <1>5 DEF n
  <1>7. \A i \in 1..(q - p) :
           /\ s[0 + i].label = track[p + i].label
           /\ track[p + i].from <= s[0 + i].at /\ s[0 + i].at < track[p + i].to
           /\ s[0 + i].at < to
    BY <1>3 DEF n
  <1> QED BY <1>5, <1>6, <1>7 DEF HeardIn, p, s

\* A cut word may come before the words, whatever it was heard as.
LEMMA CutBefore ==
  ASSUME NEW s, NEW p \in Nat, NEW q \in Nat, p <= q, NEW from \in Int, NEW to \in Int,
         HeardIn(s, 0, p, q, 0, from, to),
         NEW cut \in Seq(Heard), Len(cut) = 1, cut[1].at = from,
         cut[1].label = Fragment(Left, from) \/ IsWord(cut[1].label)
  PROVE  HeardIn(cut \o s, 1, p, q, 0, from, to) /\ (cut \o s)[1] = cut[1]
  <1> DEFINE t == cut \o s
  <1>1. /\ s \in Seq(Heard) /\ Len(s) = q - p
        /\ \A i \in 1..(q - p) :
              /\ s[i].label = track[p + i].label
              /\ track[p + i].from <= s[i].at /\ s[i].at < track[p + i].to /\ s[i].at < to
    BY DEF HeardIn
  <1>2. /\ t \in Seq(Heard) /\ Len(t) = Len(cut) + Len(s)
        /\ \A k \in 1..Len(cut) + Len(s) : t[k] = IF k <= Len(cut) THEN cut[k] ELSE s[k - Len(cut)]
    BY <1>1, ConcatProperties
  <1> HIDE DEF t
  <1>3. Len(t) = 1 + (q - p) + 0 /\ t[1] = cut[1]
    BY <1>1, <1>2
  <1>4. ASSUME NEW k \in 1..(q - p) PROVE t[1 + k] = s[k]
    <2>1. 1 + k \in 1..Len(cut) + Len(s) /\ ~(1 + k <= Len(cut)) /\ (1 + k) - Len(cut) = k
      BY <1>1
    <2> QED BY <1>2, <2>1
  <1> QED BY <1>1, <1>2, <1>3, <1>4 DEF HeardIn, t

\* And a fragment of a cut word after them.
LEMMA CutAfter ==
  ASSUME NEW s, NEW c \in {0, 1}, NEW p \in Nat, NEW q \in Nat, p <= q,
         NEW from \in Int, NEW to \in Int, HeardIn(s, c, p, q, 0, from, to),
         NEW cut \in Seq(Heard), Len(cut) = 1, cut[1].at = to - 1,
         cut[1].label = Fragment(Right, to)
  PROVE  HeardIn(s \o cut, c, p, q, 1, from, to) /\ (c = 1 => (s \o cut)[1] = s[1])
  <1> DEFINE t == s \o cut
  <1>1. /\ s \in Seq(Heard) /\ Len(s) = c + (q - p)
        /\ c = 1 => /\ s[1].at = from
                    /\ s[1].label = Fragment(Left, from) \/ IsWord(s[1].label)
        /\ \A i \in 1..(q - p) :
              /\ s[c + i].label = track[p + i].label
              /\ track[p + i].from <= s[c + i].at /\ s[c + i].at < track[p + i].to
              /\ s[c + i].at < to
    BY DEF HeardIn
  <1>2. /\ t \in Seq(Heard) /\ Len(t) = Len(s) + Len(cut)
        /\ \A k \in 1..Len(s) + Len(cut) : t[k] = IF k <= Len(s) THEN s[k] ELSE cut[k - Len(s)]
    BY <1>1, ConcatProperties
  <1> HIDE DEF t
  <1>3. Len(s) \in Nat /\ Len(t) = c + (q - p) + 1 /\ Len(t) = Len(s) + 1
    BY <1>1, <1>2
  <1>4. t[Len(t)] = cut[1]
    <2>1. Len(t) \in 1..Len(s) + Len(cut) /\ ~(Len(t) <= Len(s)) /\ Len(t) - Len(s) = 1
      BY <1>3
    <2> QED BY <1>2, <2>1
  <1>5. ASSUME NEW k \in 1..Len(s) PROVE t[k] = s[k]
    BY <1>2, <1>3
  <1>6. c = 1 => t[1] = s[1]
    <2>1. c = 1 => 1 \in 1..Len(s)
      BY <1>1
    <2> QED BY <1>5, <2>1
  <1>7. ASSUME NEW i \in 1..(q - p) PROVE t[c + i] = s[c + i]
    <2>1. c + i \in 1..Len(s)
      BY <1>1
    <2> QED BY <1>5, <2>1
  <1> QED BY <1>1, <1>2, <1>3, <1>4, <1>6, <1>7 DEF HeardIn, t

\* What a window hears of the cut words is a word or a fragment, or nothing.
Gives(next, p, q, from, to) ==
    \E c, f \in {0, 1} :
      /\ HeardIn(next, c, p, q, f, from, to)
      /\ f = 1 => CutAt(to) # {}
      /\ c = 1 => \E i \in CutAt(from) : next[1].label \in {Fragment(Left, from), track[i].label}

LEMMA WindowHeard ==
  ASSUME track \in Tracks, NEW from \in 0..Horizon, NEW to \in 0..Horizon, from < to,
         NEW lag \in 0..1, NEW cut \in Cuts(from), NEW end \in Ends(to),
         Begun(from) <= end.known
  PROVE  Gives(cut \o Whole(from, to, end.known, lag) \o end.tail,
               Begun(from), end.known, from, to)
  <1> DEFINE p == Begun(from)
             q == end.known
             s == Whole(from, to, q, lag)
             t == cut \o s
             next == t \o end.tail
  <1> SUFFICES Gives(next, p, q, from, to)
    OBVIOUS
  <1>1. /\ Knows(q, to)
        /\ \/ end.tail = <<>>
           \/ CutAt(to) # {} /\ end.tail = <<[label |-> Fragment(Right, to), at |-> to - 1]>>
    BY EndsFacts
  <1>2. p \in Nat /\ q \in Nat /\ q \in 0..Len(track) /\ p <= q /\ from \in Int /\ to \in Int
    <2>1. Begun(from) \in 0..Len(track) /\ Len(track) \in Nat /\ from \in Int /\ to \in Int
      BY BegunFacts, TrackFacts
    <2>2. q \in 0..Len(track)
      BY <1>1 DEF Knows
    <2> HIDE DEF q
    <2>3. p <= q
      BY DEF q
    <2> QED BY <2>1, <2>2, <2>3
  <1>3. HeardIn(s, 0, p, q, 0, from, to)
    BY <1>1, <1>2, WholeHeard
  <1>4. s \in Seq(Heard)
    BY <1>3 DEF HeardIn
  <1> HIDE DEF p, q, s
  <1>5. \E c \in {0, 1} :
           /\ HeardIn(t, c, p, q, 0, from, to)
           /\ c = 1 => \E i \in CutAt(from) : t[1].label \in {Fragment(Left, from), track[i].label}
    <2>1. CASE cut = <<>>
      <3>1. t = s
        BY <1>4, <2>1
      <3> HIDE DEF t
      <3> WITNESS 0 \in {0, 1}
      <3> QED BY <1>3, <3>1
    <2>2. CASE cut # <<>>
      <3>1. PICK i \in CutAt(from) :
               /\ cut \in Seq(Heard) /\ Len(cut) = 1 /\ cut[1].at = from
               /\ cut[1].label \in {Fragment(Left, from), track[i].label}
               /\ IsWord(track[i].label)
        BY <2>2, CutHeard
      <3>2. cut[1].label = Fragment(Left, from) \/ IsWord(cut[1].label)
        BY <3>1
      <3>3. p \in Nat /\ q \in Nat /\ p <= q /\ from \in Int /\ to \in Int
        BY <1>2
      <3>4. cut \in Seq(Heard) /\ Len(cut) = 1 /\ cut[1].at = from
        BY <3>1
      <3>5. HeardIn(cut \o s, 1, p, q, 0, from, to)
        BY <1>3, <3>2, <3>3, <3>4, CutBefore
      <3>6. (cut \o s)[1] = cut[1]
        BY <1>3, <3>2, <3>3, <3>4, CutBefore
      <3>7. HeardIn(t, 1, p, q, 0, from, to) /\ t[1] = cut[1]
        BY <3>5, <3>6
      <3> HIDE DEF t
      <3> WITNESS 1 \in {0, 1}
      <3> QED BY <3>1, <3>7
    <2> QED BY <2>1, <2>2
  <1>6. PICK c \in {0, 1} :
           /\ HeardIn(t, c, p, q, 0, from, to)
           /\ c = 1 => \E i \in CutAt(from) : t[1].label \in {Fragment(Left, from), track[i].label}
    BY <1>5
  <1> HIDE DEF t
  <1>7. CASE end.tail = <<>>
    <2>1. next = t
      <3>1. t \in Seq(Heard)
        BY <1>6 DEF HeardIn
      <3> QED BY <1>7, <3>1
    <2> HIDE DEF next
    <2>2. /\ HeardIn(next, c, p, q, 0, from, to)
          /\ c = 1 => \E i \in CutAt(from) : next[1].label \in {Fragment(Left, from), track[i].label}
      BY <1>6, <2>1
    <2>3. \E d, f \in {0, 1} :
             /\ HeardIn(next, d, p, q, f, from, to)
             /\ f = 1 => CutAt(to) # {}
             /\ d = 1 => \E i \in CutAt(from) : next[1].label \in {Fragment(Left, from), track[i].label}
      <3> WITNESS c \in {0, 1}, 0 \in {0, 1}
      <3> QED BY <2>2
    <2> QED BY <2>3 DEF Gives
  <1>8. CASE /\ CutAt(to) # {}
             /\ end.tail = <<[label |-> Fragment(Right, to), at |-> to - 1]>>
    <2>1. [label |-> Fragment(Right, to), at |-> to - 1] \in Heard
      BY <1>2, OverlapAssumption DEF Heard, Fragment, Right
    <2>2. /\ end.tail \in Seq(Heard) /\ Len(end.tail) = 1
          /\ end.tail[1].at = to - 1 /\ end.tail[1].label = Fragment(Right, to)
      BY <1>8, <2>1
    <2> DEFINE tail == end.tail
    <2> HIDE DEF tail
    <2>0. /\ tail \in Seq(Heard) /\ Len(tail) = 1
          /\ tail[1].at = to - 1 /\ tail[1].label = Fragment(Right, to)
      BY <2>2 DEF tail
    <2>3. HeardIn(t \o tail, c, p, q, 1, from, to) /\ (c = 1 => (t \o tail)[1] = t[1])
      <3>1. HeardIn(t, c, p, q, 0, from, to)
        BY <1>6
      <3>2. p \in Nat /\ q \in Nat /\ p <= q /\ from \in Int /\ to \in Int
        BY <1>2
      <3>3. HeardIn(t \o tail, c, p, q, 1, from, to)
        BY <2>0, <3>1, <3>2, CutAfter
      <3>4. c = 1 => (t \o tail)[1] = t[1]
        BY <2>0, <3>1, <3>2, CutAfter
      <3> QED BY <3>3, <3>4
    <2>5. next = t \o tail
      BY DEF tail
    <2> HIDE DEF next
    <2>4. c = 1 => \E i \in CutAt(from) : next[1].label \in {Fragment(Left, from), track[i].label}
      BY <1>6, <2>3, <2>5
    <2>6. \E d, f \in {0, 1} :
             /\ HeardIn(next, d, p, q, f, from, to)
             /\ f = 1 => CutAt(to) # {}
             /\ d = 1 => \E i \in CutAt(from) : next[1].label \in {Fragment(Left, from), track[i].label}
      <3> WITNESS c \in {0, 1}, 1 \in {0, 1}
      <3> QED BY <1>8, <2>3, <2>4, <2>5
    <2> QED BY <2>6 DEF Gives
  <1> HIDE DEF next
  <1> QED BY <1>1, <1>7, <1>8

-----------------------------------------------------------------------------
(* Which words are compared. *)

\* The word that is heard at i, after c words that are cut.
LEMMA HeardPlace ==
  ASSUME NEW m \in Nat, NEW p \in Nat, NEW q \in 0..m, p <= q, NEW c \in Nat,
         NEW i \in 1..(c + (q - p)), i > c
  PROVE  i - c \in 1..(q - p) /\ p + (i - c) \in 1..m /\ c + (i - c) = i
  BY SMT

LEMMA Transitive ==
  ASSUME NEW w \in Int, NEW x \in Nat, NEW y \in Nat, NEW z \in Int, w < x, x <= y, y <= z
  PROVE  w <= z
  OBVIOUS

\* What is heard is in order.
LEMMA InOrder ==
  ASSUME track \in Tracks, NEW from \in 0..Horizon, NEW to \in 0..Horizon, from < to,
         NEW q \in 0..Len(track), NEW c \in {0, 1}, NEW f \in {0, 1}, NEW next,
         Begun(from) <= q, HeardIn(next, c, Begun(from), q, f, from, to)
  PROVE  /\ Len(next) \in Nat
         /\ \A i \in 1..Len(next) : next[i].at \in Int
         /\ \A i, j \in 1..Len(next) : j < i => next[j].at <= next[i].at
  <1> DEFINE p == Begun(from)
             n == Len(next)
  <1>1. /\ p \in 0..Len(track) /\ \A i \in 1..Len(track) : track[i].from < from <=> i <= p
        /\ p <= q
    <2>1. p \in 0..Len(track) /\ \A i \in 1..Len(track) : track[i].from < from <=> i <= p
      BY BegunFacts
    <2> QED BY <2>1
  <1>2. /\ Len(track) \in Nat
        /\ \A i \in 1..Len(track) : track[i].from \in Nat /\ track[i].to \in Nat
        /\ \A i, j \in 1..Len(track) : i < j => track[i].to <= track[j].from
    BY TrackFacts, OverlapAssumption
  <1>3. /\ next \in Seq(Heard) /\ n = c + (q - p) + f /\ n \in Nat
        /\ c = 1 => next[1].at = from
        /\ f = 1 => next[n].at = to - 1
        /\ \A i \in 1..(q - p) : /\ track[p + i].from <= next[c + i].at
                                 /\ next[c + i].at < track[p + i].to
                                 /\ next[c + i].at < to
    BY <1>1, <1>2 DEF HeardIn
  <1> HIDE DEF p, n
  <1>4. \A i \in 1..n : next[i].at \in Int
    <2>1. \A i \in 1..n : next[i] \in Heard
      BY <1>3 DEF n
    <2> QED BY <2>1 DEF Heard
  <1>5. \A i \in 1..n : i > c /\ i <= c + (q - p) =>
           /\ i - c \in 1..(q - p) /\ p + (i - c) \in 1..Len(track) /\ c + (i - c) = i
           /\ ~(p + (i - c) <= p)
    <2> SUFFICES ASSUME NEW i \in 1..n, i > c, i <= c + (q - p)
                 PROVE  /\ i - c \in 1..(q - p) /\ p + (i - c) \in 1..Len(track)
                        /\ c + (i - c) = i /\ ~(p + (i - c) <= p)
      OBVIOUS
    <2>1. p \in Nat /\ i \in 1..(c + (q - p)) /\ c \in Nat
      BY <1>1, <1>3
    <2>2. i - c \in 1..(q - p) /\ p + (i - c) \in 1..Len(track) /\ c + (i - c) = i
      BY <1>1, <1>2, <2>1, HeardPlace
    <2> QED BY <2>1, <2>2
  <1>6. ASSUME NEW i \in 1..n, NEW j \in 1..n, j < i PROVE next[j].at <= next[i].at
    <2>0. next[i].at \in Int /\ next[j].at \in Int
      BY <1>4
    <2>1. CASE i = c + (q - p) + 1
      <3>1. f = 1 /\ next[i].at = to - 1 /\ j <= c + (q - p)
        BY <1>1, <1>3, <1>6, <2>1
      <3>2. CASE j <= c
        <4>1. j = 1 /\ c = 1 /\ next[j].at = from
          BY <1>3, <3>2
        <4> QED BY <3>1, <4>1
      <3>3. CASE j > c
        <4>1. j - c \in 1..(q - p) /\ c + (j - c) = j
          BY <1>5, <3>1, <3>3
        <4>2. next[j].at < to
          BY <1>3, <4>1
        <4> QED BY <2>0, <3>1, <4>2
      <3> QED BY <3>2, <3>3
    <2>2. CASE i <= c + (q - p)
      <3>1. i > c
        BY <1>6
      <3>2. /\ i - c \in 1..(q - p) /\ p + (i - c) \in 1..Len(track) /\ c + (i - c) = i
            /\ ~(p + (i - c) <= p)
        BY <1>5, <2>2, <3>1
      <3>3. track[p + (i - c)].from <= next[i].at /\ track[p + (i - c)].from \in Nat
        BY <1>2, <1>3, <3>2
      <3>4. PICK k \in 1..Len(track) : k = p + (i - c)
        BY <3>2
      <3>5. k > p /\ track[k].from <= next[i].at /\ track[k].from \in Nat
        <4>1. k \in Int /\ p \in Int /\ ~(k <= p)
          BY <1>1, <1>2, <3>2, <3>4
        <4>2. track[k] = track[p + (i - c)]
          BY <3>4
        <4> QED BY <3>3, <4>1, <4>2
      <3>6. CASE j <= c
        <4>1. j = 1 /\ c = 1 /\ next[j].at = from
          BY <1>3, <3>6
        <4>2. ~(k <= p)
          BY <1>1, <3>5
        <4>3. ~(track[k].from < from)
          BY <1>1, <4>2
        <4>4. from <= track[k].from
          BY <3>5, <4>3
        <4> QED BY <2>0, <3>5, <4>1, <4>4
      <3>7. CASE j > c
        <4>1. j <= c + (q - p)
          BY <1>1, <1>6, <2>2
        <4>2. j - c \in 1..(q - p) /\ p + (j - c) \in 1..Len(track) /\ c + (j - c) = j
          BY <1>5, <3>7, <4>1
        <4>3. p + (j - c) < p + (i - c)
          BY <1>1, <1>6
        <4>4. next[j].at < track[p + (j - c)].to /\ track[p + (j - c)].to \in Nat
          BY <1>2, <1>3, <4>2
        <4>5. PICK l \in 1..Len(track) : l = p + (j - c)
          BY <4>2
        <4>6. next[j].at < track[l].to /\ track[l].to \in Nat
          <5>1. track[l] = track[p + (j - c)]
            BY <4>5
          <5> QED BY <4>4, <5>1
        <4>7. track[l].to <= track[k].from
          BY <1>2, <3>4, <4>3, <4>5
        <4> QED BY <2>0, <3>5, <4>6, <4>7, Transitive
      <3> QED BY <3>6, <3>7
    <2>3. i <= c + (q - p) + 1
      BY <1>1, <1>3
    <2> QED BY <1>1, <2>1, <2>2, <2>3
  <1> QED BY <1>3, <1>4, <1>6 DEF n

\* So the words that can have been in the last window are the first ones.
LEMMA PrefixFacts ==
  ASSUME NEW next, next \in Seq(Heard), b \in Nat,
         \A i \in 1..Len(next) : next[i].at \in Int,
         \A i, j \in 1..Len(next) : j < i => next[j].at <= next[i].at
  PROVE  /\ Prefix(next) \in 0..Len(next)
         /\ \A i \in 1..Len(next) : next[i].at <= b + After <=> i <= Prefix(next)
  <1> DEFINE n == Len(next)
             S == {i \in 1..n : next[i].at <= b + After}
  <1>1. n \in Nat /\ DOMAIN next = 1..n
    OBVIOUS
  <1>2. b + After \in Nat
    BY OverlapAssumption
  <1>3. \A i \in S : \A j \in 1..n : j < i => j \in S
    BY <1>2
  <1>4. Prefix(next) = Cardinality(S)
    BY <1>1 DEF Prefix
  <1>5. S \in SUBSET (1..n) /\ \A i \in 1..n : next[i].at <= b + After <=> i \in S
    OBVIOUS
  <1> HIDE DEF S, n
  <1>6. Cardinality(S) \in 0..n /\ S = 1..Cardinality(S)
    BY <1>1, <1>3, <1>5, Initially
  <1> QED BY <1>1, <1>4, <1>5, <1>6 DEF n

LEMMA SuffixCounts ==
  ASSUME NEW from, last \in Seq(Heard)
  PROVE  Suffix(from) \in Nat
  <1> DEFINE n == Len(last)
             S == {i \in 1..n : last[i].at >= from - Before}
  <1>1. n \in Nat /\ DOMAIN last = 1..n /\ S \in SUBSET (1..n)
    OBVIOUS
  <1>2. IsFiniteSet(1..n)
    BY <1>1, UpTo
  <1>3. Suffix(from) = IF Cardinality(S) < n THEN Cardinality(S) + 1 ELSE Cardinality(S)
    BY <1>1 DEF Suffix
  <1> HIDE DEF S, n
  <1>4. Cardinality(S) \in Nat
    BY <1>1, <1>2, FS_Subset, FS_CardinalityType
  <1> QED BY <1>3, <1>4

\* Every word that both windows have heard is compared, and one more of the last
\* window, if there is one.
LEMMA SuffixFacts ==
  ASSUME track \in Tracks, NEW from \in 0..Horizon,
         NEW c \in {0, 1}, NEW p \in 0..Len(track), NEW q \in 0..Len(track),
         HeardIn(last, c, p, q, 0, a, b), p <= Begun(from), Begun(from) <= q
  PROVE  LET k == q - Begun(from) IN
         /\ Suffix(from) \in Nat /\ k <= Suffix(from)
         /\ k < Len(last) => k + 1 <= Suffix(from)
  <1> DEFINE g == Begun(from)
             k == q - g
             n == Len(last)
             S == {i \in 1..n : last[i].at >= from - Before}
  <1>1. /\ g \in 0..Len(track) /\ \A i \in 1..Len(track) : track[i].from < from <=> i <= g
        /\ p <= g /\ g <= q /\ Len(track) \in Nat
    BY BegunFacts, TrackFacts
  <1>0. last \in Seq(Heard) /\ DOMAIN last = 1..n
        /\ \A i \in 1..(q - p) : track[p + i].from <= last[c + i].at
    <2>1. last \in Seq(Heard) /\ \A i \in 1..(q - p) : track[p + i].from <= last[c + i].at
      BY DEF HeardIn
    <2> QED BY <2>1
  <1>2. n \in Nat /\ n = c + (q - p)
    BY DEF HeardIn
  <1> HIDE DEF g, n
  <1>3. \A i \in 1..n : last[i].at \in Int
    <2>1. \A i \in 1..n : last[i] \in Heard
      BY <1>0 DEF n
    <2> QED BY <2>1 DEF Heard
  <1>4. \A i \in (n - k + 1)..n : i \in S
    <2> SUFFICES ASSUME NEW i \in (n - k + 1)..n PROVE i \in S
      OBVIOUS
    <2> DEFINE j == i - c
    <2>1. j \in 1..(q - p) /\ p + j \in 1..Len(track) /\ ~(p + j <= g) /\ c + j = i /\ i \in 1..n
      BY <1>1, <1>2
    <2> HIDE DEF j
    <2>2. from <= track[p + j].from /\ track[p + j].from \in Nat
      BY <1>1, <2>1, TrackFacts, OverlapAssumption
    <2>3. track[p + j].from <= last[i].at
      BY <1>0, <2>1
    <2>4. last[i].at \in Int /\ Before \in Nat
      BY <1>3, <2>1, OverlapAssumption
    <2>5. last[i].at >= from - Before
      BY <2>2, <2>3, <2>4
    <2> QED BY <2>1, <2>5
  <1>5. IsFiniteSet(S) /\ Cardinality(S) \in Nat /\ Cardinality(S) <= n
    <2>1. S \in SUBSET (1..n)
      OBVIOUS
    <2> HIDE DEF S
    <2>2. IsFiniteSet(1..n) /\ Cardinality(1..n) = n
      BY <1>2, UpTo
    <2> QED BY <1>2, <2>1, <2>2, FS_Subset, FS_CardinalityType
  <1>6. k <= Cardinality(S)
    <2>1. k \in Nat /\ n - k + 1 \in Int
      BY <1>1, <1>2
    <2> HIDE DEF k, S
    <2>2. Cardinality((n - k + 1)..n) = k
      BY <1>2, <2>1, FS_Interval
    <2>3. (n - k + 1)..n \in SUBSET S
      BY <1>4 DEF k
    <2>4. Cardinality((n - k + 1)..n) <= Cardinality(S)
      BY <1>5, <2>3, FS_Subset
    <2> QED BY <2>2, <2>4
  <1>7. Suffix(from) = IF Cardinality(S) < n THEN Cardinality(S) + 1 ELSE Cardinality(S)
    BY <1>0 DEF Suffix, n
  <1> HIDE DEF S
  <1> QED BY <1>1, <1>2, <1>5, <1>6, <1>7 DEF g, n

LEMMA LimitFacts ==
  ASSUME NEW from, NEW next, Len(last) \in Nat, Len(next) \in Nat,
         Suffix(from) \in Nat, Prefix(next) \in Nat
  PROVE  /\ Limit(from, next) \in Nat
         /\ Limit(from, next) <= Len(last) /\ Limit(from, next) <= Len(next)
         /\ Limit(from, next) <= Prefix(next)
         /\ \A n \in Nat : n <= Len(last) /\ n <= Len(next) /\ n <= Cap
                          /\ n <= Suffix(from) /\ n <= Prefix(next) => n <= Limit(from, next)
  BY OverlapAssumption DEF Limit, Least

-----------------------------------------------------------------------------
(* overlapSuffix. *)

LEMMA FoundIs ==
  ASSUME NEW next, NEW limit \in Nat, NEW m \in Found(next, limit)
  PROVE  /\ m[1] \in 1..limit /\ m[2] \in 0..(limit - 1) /\ m = <<m[1], m[2]>>
         /\ m[1] + m[2] <= limit /\ Matches(next, m[1], m[2])
  BY DEF Found

Wins(m, next, limit) ==
    \A k \in Found(next, limit) : k[1] < m[1] \/ (k[1] = m[1] /\ k[2] <= m[2])

\* There is a match that wins, if there is a match.
LEMMA DroppedFacts ==
  ASSUME NEW next, NEW limit \in Nat
  PROVE  \/ Found(next, limit) = {} /\ Dropped(next, limit) = 0
         \/ \E m \in Found(next, limit) :
              Wins(m, next, limit) /\ Dropped(next, limit) = m[1] + m[2]
  <1> DEFINE found == Found(next, limit)
  <1>1. CASE found = {}
    BY <1>1 DEF Dropped
  <1>2. CASE found # {}
    <2> DEFINE Lengths == {m[1] : m \in found}
    <2>1. Lengths \in SUBSET (0..limit) /\ Lengths # {}
      BY <1>2, FoundIs
    <2>2. PICK n \in Lengths : \A k \in Lengths : k <= n
      <3> HIDE DEF Lengths
      <3> QED BY <2>1, Greatest
    <2> DEFINE Offsets == {m[2] : m \in {k \in found : k[1] = n}}
    <2>3. Offsets \in SUBSET (0..limit) /\ Offsets # {}
      BY <2>2, FoundIs
    <2>4. PICK o \in Offsets : \A k \in Offsets : k <= o
      <3> HIDE DEF Offsets
      <3> QED BY <2>3, Greatest
    <2>5. PICK m \in found : m[1] = n /\ m[2] = o
      BY <2>4
    <2>6. \A k \in found : k[1] \in Nat /\ k[1] <= n /\ (k[1] = n => k[2] <= o)
      BY <2>2, <2>4, FoundIs
    <2>7. n \in Nat
      BY <2>1, <2>2
    <2>8. Wins(m, next, limit)
      <3> HIDE DEF Lengths, Offsets
      <3> QED BY <2>5, <2>6, <2>7 DEF Wins
    <2> DEFINE best == CHOOSE k \in found : Wins(k, next, limit)
    <2>9. best \in found /\ Wins(best, next, limit)
      <3> HIDE DEF found
      <3> QED BY <2>5, <2>8
    <2>10. Dropped(next, limit) = best[1] + best[2]
      BY <1>2 DEF Dropped, Wins
    <2> HIDE DEF best
    <2> QED BY <2>9, <2>10
  <1> QED BY <1>1, <1>2

-----------------------------------------------------------------------------
(* The invariant. *)

\* Where a text has words.
PlacesOf(s) == {k \in 1..Len(s) : IsWord(s[k])}

\* The words there are the first q of the recording.
Spelt(s, S, q) ==
    /\ Cardinality(S) = q
    /\ \A k \in S : s[k] = track[Cardinality({n \in S : n <= k})].label

OverlapInv ==
    /\ track \in Tracks
    /\ a \in (-Longest)..Horizon /\ b \in 0..Horizon /\ a <= b
    /\ Knows(known, b) /\ known \in Ended(b)..Begun(b) /\ Begun(a) <= known
    /\ \E c, f \in {0, 1} : /\ c = 1 \/ f = 1 => a < b
                            /\ HeardIn(last, c, Begun(a), known, f, a, b)
    /\ removed \in Seq(Heard) /\ Len(removed) <= Len(last)
    /\ result \in Seq(Nat)
    /\ ~unclear => \E S \in SUBSET PlacesOf(result) : Spelt(result, S, known)
    /\ ~unclear /\ ~severed => Spelt(result, PlacesOf(result), known)

LEMMA OverlapStart == OverlapInit => OverlapInv
  <1> SUFFICES ASSUME OverlapInit PROVE OverlapInv
    OBVIOUS
  <1> USE DEF OverlapInit
  <1>1. /\ Len(track) \in Nat /\ DOMAIN track = 1..Len(track)
        /\ \A i \in 1..Len(track) : track[i].from \in Nat /\ track[i].to \in Nat \ {0}
    BY TrackFacts, OverlapAssumption
  <1>2. a \in (-Longest)..Horizon /\ b \in 0..Horizon /\ a <= b /\ a \in Int /\ b \in Int
    BY OverlapAssumption
  <1>3. ASSUME NEW time \in Int, time <= 0 PROVE Begun(time) = 0
    <2>1. Begun(time) \in 0..Len(track) /\ \A i \in 1..Len(track) : track[i].from < time <=> i <= Begun(time)
      BY BegunFacts
    <2>2. CASE Begun(time) # 0
      <3>1. Begun(time) \in 1..Len(track)
        BY <1>1, <2>1, <2>2
      <3>2. track[Begun(time)].from < time
        BY <2>1, <3>1
      <3> QED BY <1>1, <1>3, <3>1, <3>2
    <2> QED BY <2>2
  <1>4. Begun(a) = 0 /\ Begun(b) = 0
    BY <1>2, <1>3, OverlapAssumption
  <1>5. Ended(b) = 0 /\ Knows(Ended(b), b)
    <2>1. Ended(b) \in 0..Len(track) /\ Ended(b) <= Begun(b) /\ Knows(Ended(b), b)
      BY <1>2, EndedFacts, EndedKnown
    <2> QED BY <1>4, <2>1
  <1>6. HeardIn(last, 0, Begun(a), known, 0, a, b)
    BY <1>4 DEF HeardIn
  <1>7. PlacesOf(result) = {} /\ Spelt(result, {}, 0)
    <2>1. PlacesOf(result) = {}
      BY DEF PlacesOf
    <2> QED BY <2>1, FS_EmptySet DEF Spelt
  <1>8. Knows(known, b) /\ known \in Ended(b)..Begun(b) /\ Begun(a) <= known
    BY <1>4, <1>5
  <1>9. \E c, f \in {0, 1} : /\ c = 1 \/ f = 1 => a < b
                             /\ HeardIn(last, c, Begun(a), known, f, a, b)
    <2> WITNESS 0 \in {0, 1}, 0 \in {0, 1}
    <2> QED BY <1>6
  <1>10. \E S \in SUBSET PlacesOf(result) : Spelt(result, S, known)
    <2> WITNESS {} \in SUBSET PlacesOf(result)
    <2> QED BY <1>7
  <1>11. Spelt(result, PlacesOf(result), known)
    BY <1>7
  <1>12. removed \in Seq(Heard) /\ Len(removed) <= Len(last) /\ result \in Seq(Nat)
    OBVIOUS
  <1> QED BY <1>2, <1>8, <1>9, <1>10, <1>11, <1>12 DEF OverlapInv

-----------------------------------------------------------------------------
(* What two windows share. *)

\* Everything heard of the overlap was heard in the last window: its words, and
\* the one that is cut.
LEMMA Shared ==
  ASSUME OverlapInv, NEW from \in 0..Horizon, NEW to \in 0..Horizon, Window(from, to),
         NEW end \in Ends(to)
  PROVE  /\ Begun(a) <= Begun(from) /\ Begun(from) <= known /\ known <= end.known
         /\ from >= b => Begun(from) = known /\ CutAt(from) = {}
         /\ \A i \in CutAt(from) : i = Begun(from) /\ Begun(a) < i
  <1> DEFINE g == Begun(from)
             p == Begun(a)
             q == known
             r == end.known
             n == Len(track)
  <1>1. /\ n \in Nat /\ DOMAIN track = 1..n
        /\ \A i \in 1..n : /\ track[i].from \in Nat /\ track[i].to \in Nat
                           /\ track[i].from < track[i].to
                           /\ track[i].to <= track[i].from + Longest
        /\ \A i, j \in 1..n : i < j => track[i].to <= track[j].from
    <2>1. track \in Tracks
      BY DEF OverlapInv
    <2>2. /\ n \in Nat /\ DOMAIN track = 1..n
          /\ \A i, j \in 1..n : i < j => track[i].to <= track[j].from
      BY <2>1, TrackFacts
    <2>3. \A i \in 1..n : /\ track[i].from \in Nat /\ track[i].to \in Nat
                          /\ track[i].from < track[i].to
                          /\ track[i].to <= track[i].from + Longest
      BY <2>1, TrackFacts, OverlapAssumption
    <2> QED BY <2>2, <2>3
  <1>2. track \in Tracks /\ a \in Int /\ b \in Nat /\ a <= b /\ from \in Nat /\ to \in Nat
    BY OverlapAssumption DEF OverlapInv
  <1>3. /\ from >= a + Longest \/ Silent(from, b)
        /\ from < to
        /\ to > b \/ Silent(to, b)
        /\ \A i \in 1..n : track[i].to > b => track[i].from >= from
    BY <1>1 DEF Window
  <1>4. Longest \in Nat \ {0}
    BY OverlapAssumption
  <1>5. \A s \in Int : Silent(s, b) <=> \A i \in 1..n : track[i].to <= s \/ b <= track[i].from
    BY <1>1 DEF Silent
  <1>6. /\ g \in 0..n /\ \A i \in 1..n : track[i].from < from <=> i <= g
        /\ p \in 0..n /\ \A i \in 1..n : track[i].from < a <=> i <= p
    <2>1. \A time \in Int : /\ Begun(time) \in 0..Len(track)
                            /\ \A i \in 1..Len(track) : track[i].from < time <=> i <= Begun(time)
      BY <1>2, BegunFacts
    <2>2. from \in Int /\ a \in Int
      BY <1>2
    <2> QED BY <2>1, <2>2
  <1>7. /\ q \in 0..n
        /\ \A i \in 1..n : i <= q => track[i].from < b /\ track[i].to <= b + 1
        /\ \A i \in 1..n : i > q => track[i].to > b
    BY DEF OverlapInv, Knows
  <1>8. /\ r \in 0..n
        /\ \A i \in 1..n : i > r => track[i].to > to
    BY <1>2, EndsFacts DEF Knows
  <1> HIDE DEF g, p, q, r, n
  <1>9. p <= g
    <2>1. CASE p = 0
      BY <1>6, <2>1
    <2>2. CASE p # 0
      <3>1. p \in 1..n /\ track[p].from < a /\ track[p].from \in Nat /\ track[p].to \in Nat
        BY <1>1, <1>6, <2>2
      <3>2. track[p].from < from
        <4>1. CASE from >= a + Longest
          BY <1>2, <1>4, <3>1, <4>1
        <4>2. CASE Silent(from, b)
          <5>1. track[p].to <= from \/ b <= track[p].from
            BY <1>2, <1>5, <3>1, <4>2
          <5>2. track[p].from < track[p].to
            BY <1>1, <3>1
          <5> QED BY <1>2, <3>1, <5>1, <5>2
        <4> QED BY <1>3, <4>1, <4>2
      <3> QED BY <1>6, <3>1, <3>2
    <2> QED BY <2>1, <2>2
  <1>10. g <= q
    <2>1. CASE g = 0
      BY <1>7, <2>1
    <2>2. CASE g # 0
      <3>1. g \in 1..n
        BY <1>1, <1>6, <2>2
      <3>2. track[g].from < from /\ track[g].from \in Nat
        BY <1>1, <1>6, <3>1
      <3>3. ~(track[g].from >= from)
        BY <1>2, <3>2
      <3>4. ~(track[g].to > b)
        BY <1>3, <3>1, <3>3
      <3>5. ~(g > q)
        BY <1>7, <3>1, <3>4
      <3> QED BY <1>7, <3>1, <3>5
    <2> QED BY <2>1, <2>2
  <1>11. q <= r
    <2>1. CASE q = 0
      BY <1>8, <2>1
    <2>2. CASE q # 0
      <3>1. /\ q \in 1..n /\ track[q].from < b /\ track[q].to <= b + 1
            /\ track[q].from \in Nat /\ track[q].to \in Nat
        BY <1>1, <1>7, <2>2
      <3>2. track[q].to <= to
        <4>1. CASE to > b
          BY <1>2, <3>1, <4>1
        <4>2. CASE Silent(to, b)
          <5>1. track[q].to <= to \/ b <= track[q].from
            BY <1>2, <1>5, <3>1, <4>2
          <5> QED BY <1>2, <3>1, <5>1
        <4> QED BY <1>3, <4>1, <4>2
      <3>3. ~(track[q].to > to)
        BY <1>2, <3>1, <3>2
      <3>4. ~(q > r)
        BY <1>8, <3>1, <3>3
      <3> QED BY <1>8, <3>1, <3>4
    <2> QED BY <2>1, <2>2
  <1>12. ASSUME from >= b PROVE g = q /\ CutAt(from) = {}
    <2>1. q <= g
      <3>1. CASE q = 0
        BY <1>6, <3>1
      <3>2. CASE q # 0
        <4>1. q \in 1..n /\ track[q].from < b /\ track[q].from \in Nat
          BY <1>1, <1>7, <3>2
        <4>2. track[q].from < from
          BY <1>2, <1>12, <4>1
        <4> QED BY <1>6, <4>1, <4>2
      <3> QED BY <3>1, <3>2
    <2>2. g = q
      BY <1>6, <1>7, <1>10, <2>1
    <2>3. ASSUME NEW i \in CutAt(from) PROVE FALSE
      <3>1. /\ i \in 1..n /\ track[i].from < from /\ from < track[i].to
            /\ track[i].from \in Nat /\ track[i].to \in Nat
        BY <1>1, <2>3 DEF CutAt
      <3>2. track[i].to > b
        BY <1>2, <1>12, <3>1
      <3>3. track[i].from >= from
        BY <1>3, <3>1, <3>2
      <3> QED BY <1>2, <3>1, <3>3
    <2> QED BY <2>2, <2>3
  <1>13. ASSUME NEW i \in CutAt(from) PROVE i = g /\ p < i
    <2>1. /\ i \in 1..n /\ track[i].from < from /\ from < track[i].to
          /\ track[i].from \in Nat /\ track[i].to \in Nat
          /\ track[i].to <= track[i].from + Longest
      BY <1>1 DEF CutAt
    <2>2. i <= g
      BY <1>6, <2>1
    <2>3. ~(i < g)
      <3> SUFFICES ASSUME i < g PROVE FALSE
        OBVIOUS
      <3>1. g \in 1..n
        BY <1>6, <2>1
      <3>2. track[g].from < from /\ track[g].from \in Nat
        BY <1>1, <1>6, <3>1
      <3>3. track[i].to <= track[g].from
        BY <1>1, <2>1, <3>1
      <3> QED BY <1>2, <2>1, <3>2, <3>3
    <2>4. ~Silent(from, b)
      <3> SUFFICES ASSUME Silent(from, b) PROVE FALSE
        OBVIOUS
      <3>1. track[i].to <= from \/ b <= track[i].from
        BY <1>2, <1>5, <2>1
      <3>2. from >= b
        BY <1>2, <2>1, <3>1
      <3> QED BY <1>12, <1>13, <3>2
    <2>5. ~(track[i].from < a)
      <3>1. from >= a + Longest
        BY <1>3, <2>4
      <3> QED BY <1>2, <1>4, <2>1, <3>1
    <2>6. ~(i <= p)
      BY <1>6, <2>1, <2>5
    <2> QED BY <1>6, <2>1, <2>2, <2>3, <2>6
  <1> QED BY <1>9, <1>10, <1>11, <1>12, <1>13 DEF g, p, q, r

LEMMA FragmentFacts ==
  ASSUME NEW s \in Int, NEW t \in Nat
  PROVE  /\ Fragment(Left, s) # Fragment(Right, t)
         /\ ~IsWord(Fragment(Left, t)) /\ ~IsWord(Fragment(Right, t))
         /\ \A u \in Nat : Fragment(Right, u) = Fragment(Right, t) => u = t
  <1>1. Labels \in Nat
    BY OverlapAssumption
  <1> QED BY <1>1 DEF Fragment, Left, Right, IsWord

\* The last window, where it has heard something.
LEMMA LastFacts ==
  ASSUME OverlapInv, NEW c \in {0, 1}, NEW f \in {0, 1},
         HeardIn(last, c, Begun(a), known, f, a, b)
  PROVE  /\ Begun(a) \in 0..Len(track) /\ known \in 0..Len(track) /\ Begun(a) <= known
         /\ last \in Seq(Heard) /\ Len(last) = c + (known - Begun(a)) + f /\ Len(last) \in Nat
         /\ \A i \in 1..(known - Begun(a)) : last[c + i].label = track[Begun(a) + i].label
         /\ f = 1 => last[Len(last)].label = Fragment(Right, b)
         /\ f = 0 /\ Len(last) > 0 =>
              last[Len(last)].label = Fragment(Left, a) \/ IsWord(last[Len(last)].label)
  <1> DEFINE p == Begun(a)
             q == known
  <1>1. track \in Tracks /\ a \in Int /\ p <= q
    BY OverlapAssumption DEF OverlapInv
  <1>2. p \in 0..Len(track) /\ q \in 0..Len(track) /\ Len(track) \in Nat
    <2>1. q \in 0..Len(track)
      BY DEF OverlapInv, Knows
    <2> HIDE DEF q
    <2>2. Begun(a) \in 0..Len(track) /\ Len(track) \in Nat
      BY <1>1, BegunFacts, TrackFacts
    <2> QED BY <2>1, <2>2
  <1>3. /\ last \in Seq(Heard) /\ Len(last) = c + (q - p) + f
        /\ \A i \in 1..(q - p) : last[c + i].label = track[p + i].label
        /\ f = 1 => last[Len(last)].label = Fragment(Right, b)
        /\ c = 1 => last[1].label = Fragment(Left, a) \/ IsWord(last[1].label)
    BY DEF HeardIn
  <1>4. \A i \in 1..Len(track) : IsWord(track[i].label)
    BY <1>1, TrackFacts DEF IsWord
  <1> HIDE DEF p, q
  <1>5. Len(last) \in Nat
    BY <1>3
  <1>6. ASSUME f = 0, Len(last) > 0
        PROVE  last[Len(last)].label = Fragment(Left, a) \/ IsWord(last[Len(last)].label)
    <2>1. CASE p = q
      <3>1. c = 1 /\ Len(last) = 1
        BY <1>2, <1>3, <1>6, <2>1
      <3> QED BY <1>3, <3>1
    <2>2. CASE p # q
      <3>1. q - p \in 1..(q - p) /\ p + (q - p) = q /\ q \in 1..Len(track)
            /\ c + (q - p) = Len(last)
        BY <1>1, <1>2, <1>3, <1>6, <2>2 DEF p, q
      <3>2. last[c + (q - p)].label = track[p + (q - p)].label
        BY <1>3, <3>1
      <3> QED BY <1>4, <3>1, <3>2
    <2> QED BY <2>1, <2>2
  <1> QED BY <1>1, <1>2, <1>3, <1>5, <1>6 DEF p, q

\* What two windows and their words have to do with each other, in numbers.
LEMMA Sides ==
  ASSUME OverlapInv, NEW from \in 0..Horizon, NEW to \in 0..Horizon, Window(from, to),
         NEW end \in Ends(to)
  PROVE  /\ Begun(a) \in 0..Len(track) /\ Begun(from) \in 0..Len(track)
         /\ known \in 0..Len(track) /\ end.known \in 0..Len(track) /\ Len(track) \in Nat
         /\ Begun(a) <= Begun(from) /\ Begun(from) <= known /\ known <= end.known
         /\ track \in Tracks /\ a \in Int /\ b \in Nat /\ from \in Nat /\ to \in Nat /\ from < to
  <1>1. track \in Tracks /\ a \in Int /\ b \in Nat /\ from \in Nat /\ to \in Nat
    BY OverlapAssumption DEF OverlapInv
  <1>2. known \in 0..Len(track) /\ end.known \in 0..Len(track)
    BY <1>1, EndsFacts DEF OverlapInv, Knows
  <1>3. Begun(a) \in 0..Len(track) /\ Begun(from) \in 0..Len(track) /\ Len(track) \in Nat
    <2>1. \A time \in Int : Begun(time) \in 0..Len(track)
      BY <1>1, BegunFacts
    <2>2. from \in Int /\ a \in Int
      BY <1>1
    <2>3. Len(track) \in Nat
      BY <1>1, TrackFacts
    <2> QED BY <2>1, <2>2, <2>3, Zenon
  <1>4. Begun(a) <= Begun(from) /\ Begun(from) <= known /\ known <= end.known
    BY Shared
  <1>5. from < to
    BY DEF Window
  <1> QED BY <1>1, <1>2, <1>3, <1>4, <1>5

\* What is dropped can have been in the last window.
LEMMA LimitIs ==
  ASSUME OverlapInv, NEW from \in 0..Horizon, NEW to \in 0..Horizon, Window(from, to),
         NEW end \in Ends(to), NEW next, NEW c \in {0, 1}, NEW f \in {0, 1},
         HeardIn(next, c, Begun(from), end.known, f, from, to)
  PROVE  /\ next \in Seq(Heard) /\ Len(next) = c + (end.known - Begun(from)) + f
         /\ Len(next) \in Nat /\ Len(last) \in Nat
         /\ \A i \in 1..Len(next) : next[i].at \in Int
         /\ Prefix(next) \in Nat /\ Suffix(from) \in Nat
         /\ \A i \in 1..Len(next) : next[i].at <= b + After <=> i <= Prefix(next)
         /\ Limit(from, next) \in Nat /\ Limit(from, next) <= Len(last)
         /\ Limit(from, next) <= Len(next) /\ Limit(from, next) <= Prefix(next)
  <1>1. /\ Begun(from) \in 0..Len(track) /\ end.known \in 0..Len(track)
        /\ Begun(from) <= known /\ known <= end.known /\ known \in 0..Len(track)
        /\ track \in Tracks /\ a \in Int /\ b \in Nat /\ from < to
    BY Sides
  <1>2. Begun(from) <= end.known
    <2> DEFINE r == end.known
    <2> HIDE DEF r
    <2>1. Begun(from) <= known /\ known <= r /\ r \in Int /\ known \in Int /\ Begun(from) \in Int
      BY <1>1 DEF r
    <2> QED BY <2>1 DEF r
  <1>3. next \in Seq(Heard) /\ Len(next) = c + (end.known - Begun(from)) + f
    BY DEF HeardIn
  <1>4. /\ Len(next) \in Nat
        /\ \A i \in 1..Len(next) : next[i].at \in Int
        /\ \A i, j \in 1..Len(next) : j < i => next[j].at <= next[i].at
    <2> DEFINE r == end.known
    <2>1. r \in 0..Len(track) /\ Begun(from) <= r /\ HeardIn(next, c, Begun(from), r, f, from, to)
      BY <1>1, <1>2
    <2> HIDE DEF r
    <2> QED BY <1>1, <2>1, InOrder
  <1>5. /\ Prefix(next) \in 0..Len(next)
        /\ \A i \in 1..Len(next) : next[i].at <= b + After <=> i <= Prefix(next)
    BY <1>1, <1>3, <1>4, PrefixFacts
  <1>6. last \in Seq(Heard) /\ Len(last) \in Nat
    <2>1. last \in Seq(Heard)
      BY DEF OverlapInv, HeardIn
    <2> QED BY <2>1
  <1>7. Suffix(from) \in Nat /\ Prefix(next) \in Nat
    BY <1>4, <1>5, <1>6, SuffixCounts
  <1>8. /\ Limit(from, next) \in Nat /\ Limit(from, next) <= Len(last)
        /\ Limit(from, next) <= Len(next) /\ Limit(from, next) <= Prefix(next)
    BY <1>4, <1>6, <1>7, LimitFacts
  <1> QED BY <1>3, <1>4, <1>5, <1>6, <1>7, <1>8

\* What Ambiguous says where it does not hold.
LEMMA Unambiguous ==
  ASSUME track \in Tracks, known \in Nat, NEW from \in Int, ~Ambiguous(from)
  PROVE  /\ known - Begun(from) < Cap
         /\ \A i \in 1..Len(track) :
              i > known /\ track[i].from <= b + After /\ last # <<>>
                => track[i].label # last[Len(last)].label
  <1>1. DOMAIN track = 1..Len(track) /\ Begun(from) \in Nat /\ Cap \in Nat
    BY TrackFacts, BegunFacts, OverlapAssumption
  <1>2. ~(known - Begun(from) >= Cap)
    BY DEF Ambiguous
  <1>3. \A i \in 1..Len(track) : ~(/\ i > known /\ track[i].from <= b + After
                                   /\ last # <<>> /\ last[Len(last)].label = track[i].label)
    BY <1>1 DEF Ambiguous, LastIs
  <1>4. known - Begun(from) < Cap
    BY <1>1, <1>2
  <1> QED BY <1>3, <1>4

\* overlapSuffix drops what both windows have heard, and nothing else: the word
\* that is cut, if it is heard, and the words from Begun(from) + 1 to known.
\* It can only keep a fragment where there is nothing else to compare.
LEMMA Joined ==
  ASSUME OverlapInv, NEW from \in 0..Horizon, NEW to \in 0..Horizon, Window(from, to),
         from < b, ~Ambiguous(from), ~Severed(from), NEW end \in Ends(to),
         NEW next, NEW c \in {0, 1}, NEW f \in {0, 1},
         HeardIn(next, c, Begun(from), end.known, f, from, to),
         c = 1 => \E i \in CutAt(from) : next[1].label \in {Fragment(Left, from), track[i].label}
  PROVE  LET k == known - Begun(from)
             drop == Dropped(next, Limit(from, next))
         IN  \/ drop = c + k
             \/ drop = 0 /\ k = 0 /\ c = 1 /\ next[1].label = Fragment(Left, from)
  <1> DEFINE n == Len(track)
             p == Begun(a)
             g == Begun(from)
             q == known
             r == end.known
             k == q - g
             limit == Limit(from, next)
  <1>1. /\ p \in 0..n /\ g \in 0..n /\ q \in 0..n /\ r \in 0..n /\ n \in Nat
        /\ p <= g /\ g <= q /\ q <= r
        /\ track \in Tracks /\ a \in Int /\ b \in Nat /\ from \in Nat /\ to \in Nat /\ from < to
    BY Sides
  <1>2. PICK d, e \in {0, 1} : HeardIn(last, d, p, q, e, a, b)
    BY DEF OverlapInv
  <1>3. /\ last \in Seq(Heard) /\ Len(last) = d + (q - p) + e /\ Len(last) \in Nat
        /\ \A i \in 1..(q - p) : last[d + i].label = track[p + i].label
        /\ e = 1 => last[Len(last)].label = Fragment(Right, b)
        /\ e = 0 /\ Len(last) > 0 =>
             last[Len(last)].label = Fragment(Left, a) \/ IsWord(last[Len(last)].label)
    BY <1>2, LastFacts
  <1>4. e = 0
    <2> SUFFICES ASSUME e = 1 PROVE FALSE
      OBVIOUS
    <2>1. Len(last) > 0 /\ last[Len(last)].label = Fragment(Right, b)
      BY <1>1, <1>3
    <2>2. last # <<>>
      BY <2>1
    <2> QED BY <2>1, <2>2 DEF Severed, LastIs
  <1>5. \A i \in CutAt(from) : i = g /\ p < i
    BY Shared
  <1>6. \A i \in 1..n : track[i].from \in Nat /\ track[i].to \in Nat
    BY <1>1, TrackFacts, OverlapAssumption, SMTT(30)
  <1>7. \A i \in 1..n : i <= q => track[i].to <= b + 1
    BY DEF OverlapInv, Knows
  <1>8. /\ q - g < Cap
        /\ \A i \in 1..n : i > q /\ track[i].from <= b + After /\ last # <<>>
                             => track[i].label # last[Len(last)].label
    <2>1. known \in Nat /\ from \in Int
      BY <1>1
    <2> QED BY <1>1, <2>1, Unambiguous
  <1>9. /\ next \in Seq(Heard) /\ Len(next) = c + (r - g) + f
        /\ Len(next) \in Nat
        /\ \A i \in 1..Len(next) : next[i].at \in Int
        /\ Prefix(next) \in Nat /\ Suffix(from) \in Nat
        /\ \A i \in 1..Len(next) : next[i].at <= b + After <=> i <= Prefix(next)
        /\ limit \in Nat /\ limit <= Len(last)
        /\ limit <= Len(next) /\ limit <= Prefix(next)
    BY LimitIs
  <1>10. \A j \in Nat : j <= Len(last) /\ j <= Len(next) /\ j <= Cap
                       /\ j <= Suffix(from) /\ j <= Prefix(next) => j <= limit
    BY <1>3, <1>9, LimitFacts
  <1>11. /\ c = 1 => next[1].at = from
         /\ f = 1 => next[Len(next)].label = Fragment(Right, to)
         /\ \A i \in 1..(r - g) : /\ next[c + i].label = track[g + i].label
                                  /\ track[g + i].from <= next[c + i].at
                                  /\ next[c + i].at < track[g + i].to
    BY DEF HeardIn
  <1>12. c = 1 => p < g /\ next[1].label \in {Fragment(Left, from), track[g].label}
    BY <1>5
  <1>13. k <= Suffix(from) /\ (k < Len(last) => k + 1 <= Suffix(from))
    <2>1. HeardIn(last, d, p, q, 0, a, b)
      BY <1>2, <1>4
    <2> QED BY <1>1, <2>1, SuffixFacts
  <1> HIDE DEF n, p, g, q, r, limit
  <1>14. k \in Nat
    BY <1>1
  <1>15. c + k <= Prefix(next)
    <2>1. c + k \in 0..Len(next)
      BY <1>1, <1>9
    <2>2. CASE k > 0
      <3>1. k \in 1..(r - g) /\ g + k = q /\ q \in 1..n /\ c + k \in 1..Len(next)
        BY <1>1, <2>1, <2>2
      <3>2. next[c + k].at < track[q].to /\ track[q].to <= b + 1 /\ track[q].to \in Nat
        <4>1. next[c + k].at < track[g + k].to
          BY <1>11, <3>1
        <4>2. q <= q
          BY <1>1
        <4> QED BY <1>6, <1>7, <3>1, <4>1, <4>2
      <3>3. next[c + k].at <= b + After
        <4>1. next[c + k].at \in Int /\ After \in Nat
          BY <1>9, <3>1, OverlapAssumption
        <4> HIDE DEF k
        <4> QED BY <1>1, <3>2, <4>1
      <3> QED BY <1>9, <3>1, <3>3
    <2>3. CASE k = 0 /\ c = 1
      <3>1. next[1].at <= b + After /\ 1 \in 1..Len(next)
        BY <1>1, <1>11, <2>1, <2>3, OverlapAssumption
      <3> QED BY <1>9, <2>3, <3>1
    <2>4. CASE k = 0 /\ c = 0
      BY <1>9, <1>14, <2>4
    <2> QED BY <1>14, <2>2, <2>3, <2>4
  <1>16. c + k <= limit
    <2>1. c + k \in Nat /\ c + k <= Len(next) /\ c + k <= Cap
      <3>1. Cap \in Nat
        BY OverlapAssumption
      <3> QED BY <1>1, <1>8, <1>9, <3>1
    <2>2. c + k <= Len(last)
      BY <1>1, <1>3, <1>12
    <2>3. c + k <= Suffix(from)
      BY <1>9, <1>13, <1>14, <2>2, <1>3, SMTT(30)
    <2> QED BY <1>10, <1>15, <2>1, <2>2, <2>3
  <1>17. ASSUME NEW m \in Found(next, limit)
         PROVE  m[1] \in Nat \ {0} /\ m[2] \in Nat /\ m[1] + m[2] <= c + k
    <2>1. /\ m[1] \in 1..limit /\ m[2] \in 0..(limit - 1)
          /\ m[1] + m[2] <= limit /\ Matches(next, m[1], m[2])
      BY <1>9, FoundIs
    <2> DEFINE j == m[1] + m[2]
    <2>2. ASSUME j > c + k PROVE FALSE
      <3>1. j \in 1..Len(next) /\ j <= Prefix(next) /\ j > c + k
        <4>1. j \in Nat /\ j >= 1 /\ j <= limit /\ limit \in Nat
          <5>1. m[1] \in Nat /\ m[1] >= 1 /\ m[2] \in Nat /\ m[1] + m[2] <= limit /\ limit \in Nat
            BY <1>9, <2>1
          <5> QED BY <5>1
        <4>2. limit <= Len(next) /\ limit <= Prefix(next) /\ Len(next) \in Nat /\ Prefix(next) \in Nat
          BY <1>9
        <4>3. j > c + k
          BY <2>2
        <4> HIDE DEF j, k
        <4> QED BY <4>1, <4>2, <4>3
      <3>2. Len(last) >= 1 /\ last # <<>> /\ m[1] \in 1..m[1] /\ Len(last) - m[1] + m[1] = Len(last)
        <4>1. Len(last) >= 1 /\ m[1] \in 1..m[1] /\ Len(last) - m[1] + m[1] = Len(last)
          BY <1>3, <1>9, <2>1, SMTT(30)
        <4> QED BY <4>1
      <3>3. last[Len(last)].label = next[j].label
        <4>1. last[Len(last) - m[1] + m[1]].label = next[m[2] + m[1]].label
          BY <2>1, <3>2 DEF Matches
        <4>2. m[2] + m[1] = j
          BY <2>1
        <4> QED BY <3>2, <4>1, <4>2
      <3> HIDE DEF j
      <3>4. CASE j <= c + (r - g)
        <4> DEFINE i == j - c
        <4>1. i \in 1..(r - g) /\ g + i \in 1..n /\ g + i > q /\ c + i = j
          <5>1. j \in Int /\ j > c + (q - g) /\ j <= c + (r - g)
            BY <3>1, <3>4
          <5>2. i \in 1..(r - g) /\ c + i = j /\ i > q - g
            BY <1>1, <5>1
          <5> HIDE DEF i
          <5>3. g + i \in 1..n /\ g + i > q
            BY <1>1, <5>2
          <5> QED BY <5>2, <5>3
        <4> HIDE DEF i
        <4>2. next[j].label = track[g + i].label /\ track[g + i].from <= next[j].at
          BY <1>11, <4>1
        <4>3. next[j].at <= b + After
          BY <1>9, <3>1
        <4>4. track[g + i].from <= b + After
          <5>1. next[j].at \in Int /\ After \in Nat /\ track[g + i].from \in Nat
            BY <1>6, <1>9, <3>1, <4>1, OverlapAssumption
          <5> QED BY <1>1, <4>2, <4>3, <5>1
        <4> QED BY <1>8, <3>2, <3>3, <4>1, <4>2, <4>4
      <3>5. CASE j > c + (r - g)
        <4>1. f = 1 /\ j = Len(next)
          BY <1>1, <1>9, <3>1, <3>5
        <4>2. last[Len(last)].label = Fragment(Right, to)
          BY <1>11, <3>3, <4>1
        <4>3. last[Len(last)].label = Fragment(Left, a) \/ IsWord(last[Len(last)].label)
          BY <1>3, <1>4, <3>2
        <4> QED BY <1>1, <4>2, <4>3, FragmentFacts
      <3>6. j \in Int /\ c + (r - g) \in Int
        BY <1>1, <3>1
      <3> QED BY <3>4, <3>5, <3>6
    <2>3. m[1] \in Nat \ {0} /\ m[2] \in Nat
      BY <1>9, <2>1, SMTT(30)
    <2> QED BY <1>14, <2>2, <2>3
  <1>18. ASSUME k > 0 PROVE <<k, c>> \in Found(next, limit)
    <2>1. ASSUME NEW i \in 1..k
          PROVE  last[Len(last) - k + i].label = next[c + i].label
      <3> DEFINE j == (g - p) + i
      <3>1. /\ i \in 1..(r - g) /\ j \in 1..(q - p) /\ p + j = g + i
            /\ Len(last) - k + i = d + j
        <4>1. Len(last) = d + (q - p)
          BY <1>1, <1>3, <1>4
        <4>2. i \in Int /\ 1 <= i /\ i <= q - g
          BY <1>1
        <4>3. j \in 1..(q - p) /\ p + j = g + i
          BY <1>1, <4>2
        <4>4. Len(last) - k + i = d + j
          BY <1>1, <4>1, <4>2
        <4> QED BY <1>1, <4>2, <4>3, <4>4
      <3> HIDE DEF j
      <3>2. next[c + i].label = track[g + i].label
        BY <1>11, <3>1
      <3>3. last[d + j].label = track[p + j].label
        BY <1>3, <3>1
      <3> QED BY <3>1, <3>2, <3>3
    <2>2. Matches(next, k, c)
      BY <2>1 DEF Matches
    <2>3. k \in 1..limit /\ c \in 0..(limit - 1) /\ k + c <= limit
      BY <1>9, <1>14, <1>16, <1>18
    <2> HIDE DEF k
    <2> QED BY <2>2, <2>3 DEF Found
  <1>19. ASSUME k = 0, c = 1, next[1].label = track[g].label
         PROVE  <<1, 0>> \in Found(next, limit)
    <2>1. /\ q - p \in 1..(q - p) /\ p + (q - p) = g /\ Len(last) = d + (q - p)
          /\ Len(last) - 1 + 1 = Len(last) /\ 1 \in 1..limit
      <3>1. p < g /\ q = g
        BY <1>1, <1>12, <1>19
      <3>2. q - p \in 1..(q - p) /\ p + (q - p) = g
        BY <1>1, <3>1
      <3>3. Len(last) = d + (q - p) /\ Len(last) - 1 + 1 = Len(last)
        BY <1>1, <1>3, <1>4
      <3>4. 1 \in 1..limit
        BY <1>9, <1>14, <1>16, <1>19
      <3> QED BY <3>2, <3>3, <3>4
    <2>2. last[d + (q - p)].label = track[p + (q - p)].label
      BY <1>3, <2>1
    <2>3. last[Len(last) - 1 + 1].label = next[0 + 1].label
      BY <1>19, <2>1, <2>2
    <2>4. Matches(next, 1, 0)
      BY <2>3 DEF Matches
    <2> QED BY <1>9, <2>1, <2>4, SMTT(30) DEF Found
  <1> DEFINE drop == Dropped(next, limit)
  <1>20. \/ Found(next, limit) = {} /\ drop = 0
         \/ \E m \in Found(next, limit) : Wins(m, next, limit) /\ drop = m[1] + m[2]
    BY <1>9, DroppedFacts
  <1> HIDE DEF drop
  <1>21. CASE k > 0
    <2>1. PICK m \in Found(next, limit) : Wins(m, next, limit) /\ drop = m[1] + m[2]
      BY <1>18, <1>20, <1>21
    <2>2. k < m[1] \/ (k = m[1] /\ c <= m[2])
      <3>1. <<k, c>>[1] < m[1] \/ (<<k, c>>[1] = m[1] /\ <<k, c>>[2] <= m[2])
        BY <1>18, <1>21, <2>1 DEF Wins
      <3> QED BY <3>1
    <2>3. m[1] \in Nat \ {0} /\ m[2] \in Nat /\ m[1] + m[2] <= c + k
      BY <1>17
    <2>4. drop = c + k
      <3> HIDE DEF k
      <3> QED BY <1>14, <2>1, <2>2, <2>3
    <2> QED BY <2>4 DEF drop, limit, g, q
  <1>22. CASE k = 0
    <2>1. drop = 0 \/ (c = 1 /\ drop = 1)
      BY <1>17, <1>20, <1>22
    <2>2. CASE c = 0
      BY <1>22, <2>1, <2>2 DEF drop, limit, g, q
    <2>3. CASE c = 1 /\ next[1].label = track[g].label
      <3>1. drop = 1
        BY <1>17, <1>19, <1>20, <1>22, <2>3
      <3> QED BY <1>22, <2>3, <3>1 DEF drop, limit, g, q
    <2>4. CASE c = 1 /\ next[1].label = Fragment(Left, from)
      BY <1>22, <2>1, <2>4 DEF drop, limit, g, q
    <2> QED BY <1>12, <2>2, <2>3, <2>4
  <1> QED BY <1>14, <1>21, <1>22

\* A fragment at the end of the last window matches nothing: nothing is dropped.
LEMMA NotJoined ==
  ASSUME OverlapInv, NEW from \in 0..Horizon, NEW to \in 0..Horizon, Window(from, to),
         Severed(from), NEW end \in Ends(to),
         NEW next, NEW c \in {0, 1}, NEW f \in {0, 1},
         HeardIn(next, c, Begun(from), end.known, f, from, to),
         f = 1 => CutAt(to) # {}
  PROVE  Dropped(next, Limit(from, next)) = 0
  <1> DEFINE n == Len(track)
             g == Begun(from)
             r == end.known
             limit == Limit(from, next)
  <1>1. /\ g \in 0..n /\ r \in 0..n /\ n \in Nat
        /\ track \in Tracks /\ b \in Nat /\ from \in Nat /\ to \in Nat
    BY Sides
  <1>2. last # <<>> /\ last[Len(last)].label = Fragment(Right, b)
    BY DEF Severed, LastIs
  <1>3. /\ next \in Seq(Heard) /\ Len(next) = c + (r - g) + f
        /\ Len(next) \in Nat /\ Len(last) \in Nat
        /\ limit \in Nat /\ limit <= Len(last) /\ limit <= Len(next)
    BY LimitIs
  <1>4. /\ c = 1 => next[1].label = Fragment(Left, from) \/ IsWord(next[1].label)
        /\ f = 1 => next[Len(next)].label = Fragment(Right, to)
        /\ \A i \in 1..(r - g) : next[c + i].label = track[g + i].label
    BY DEF HeardIn
  <1>5. f = 1 => to # b
    <2> SUFFICES ASSUME f = 1, to = b PROVE FALSE
      OBVIOUS
    <2>1. PICK i \in CutAt(to) : TRUE
      OBVIOUS
    <2>2. i \in DOMAIN track /\ track[i].from < b /\ b < track[i].to
      BY <2>1 DEF CutAt
    <2>3. track[i].from \in Nat /\ track[i].to \in Nat
      BY <1>1, <2>2, TrackFacts, OverlapAssumption, SMTT(30)
    <2>4. Silent(to, b)
      BY <1>1 DEF Window
    <2>5. track[i].to <= b \/ b <= track[i].from
      BY <2>2, <2>4 DEF Silent
    <2> QED BY <1>1, <2>2, <2>3, <2>5
  <1>6. \A i \in 1..n : IsWord(track[i].label)
    BY <1>1, TrackFacts DEF IsWord
  <1> HIDE DEF n, g, r, limit
  <1>7. ASSUME NEW j \in 1..Len(next) PROVE next[j].label # Fragment(Right, b)
    <2>1. CASE j <= c
      <3>1. c = 1 /\ j = 1
        BY <2>1
      <3>2. next[1].label = Fragment(Left, from) \/ IsWord(next[1].label)
        BY <1>4, <3>1
      <3> QED BY <1>1, <3>1, <3>2, FragmentFacts
    <2>2. CASE j > c /\ j <= c + (r - g)
      <3>1. j - c \in 1..(r - g) /\ g + (j - c) \in 1..n /\ c + (j - c) = j
        BY <1>1, <2>2
      <3>2. next[j].label = track[g + (j - c)].label
        BY <1>4, <3>1
      <3>3. IsWord(next[j].label)
        BY <1>6, <3>1, <3>2
      <3> QED BY <1>1, <3>3, FragmentFacts
    <2>3. CASE j > c + (r - g)
      <3>1. f = 1 /\ j = Len(next)
        BY <1>1, <1>3, <2>3
      <3> QED BY <1>1, <1>4, <1>5, <3>1, FragmentFacts
    <2> QED BY <1>1, <2>1, <2>2, <2>3
  <1>8. ASSUME NEW m \in Found(next, limit) PROVE FALSE
    <2>1. /\ m[1] \in 1..limit /\ m[2] \in 0..(limit - 1)
          /\ m[1] + m[2] <= limit /\ Matches(next, m[1], m[2])
      BY <1>3, FoundIs
    <2>2. /\ m[2] + m[1] \in 1..Len(next) /\ m[1] \in 1..m[1]
          /\ Len(last) - m[1] + m[1] = Len(last)
      BY <1>3, <2>1, SMTT(30)
    <2>3. last[Len(last) - m[1] + m[1]].label = next[m[2] + m[1]].label
      BY <2>1, <2>2 DEF Matches
    <2> QED BY <1>2, <1>7, <2>2, <2>3
  <1>9. Dropped(next, limit) = 0
    BY <1>3, <1>8, DroppedFacts
  <1> QED BY <1>9 DEF limit

-----------------------------------------------------------------------------
(* The transcript. *)

\* As many more positions, right of all the others.
LEMMA Counted ==
  ASSUME NEW x \in Nat, NEW P \in SUBSET (1..x), NEW i \in Nat
  PROVE  Cardinality(P \cup (x + 1)..(x + i)) = Cardinality(P) + i
  <1> DEFINE T == (x + 1)..(x + i)
  <1>1. IsFiniteSet(P) /\ Cardinality(P) \in Nat
    <2>1. IsFiniteSet(1..x)
      BY UpTo
    <2> QED BY <2>1, FS_Subset, FS_CardinalityType
  <1>2. IsFiniteSet(T) /\ Cardinality(T) = i
    <2>1. x + 1 \in Int /\ x + i \in Int
      OBVIOUS
    <2>2. IsFiniteSet(T) /\ Cardinality(T) = IF x + 1 > x + i THEN 0 ELSE (x + i) - (x + 1) + 1
      BY <2>1, FS_Interval
    <2> HIDE DEF T
    <2> QED BY <2>2
  <1>3. P \cap T = {}
    OBVIOUS
  <1>4. Cardinality({}) = 0
    BY FS_EmptySet
  <1> HIDE DEF T
  <1>5. Cardinality(P \cup T) = Cardinality(P) + Cardinality(T) - Cardinality(P \cap T)
    BY <1>1, <1>2, FS_Union
  <1>6. Cardinality(P \cup T) = Cardinality(P) + i
    <2>1. Cardinality(P \cap T) = 0
      BY <1>3, <1>4
    <2> QED BY <1>1, <1>2, <1>5, <2>1
  <1> QED BY <1>6 DEF T

\* What is added: something that was heard before, the next words of the recording,
\* and a fragment, if f is 1.
Adds(add, lead, q, more, f) ==
    /\ add \in Seq(Nat) /\ Len(add) = lead + more + f
    /\ \A i \in 1..more : add[lead + i] = track[q + i].label /\ IsWord(add[lead + i])
    /\ f = 1 => ~IsWord(add[Len(add)])

\* The places S of a text, and those of the words that are added to it.
Longer(s, S, lead, more) ==
    LET x == Len(s) + lead IN S \cup (x + 1)..(x + more)

\* The words that are new are where they should be.
LEMMA Appended ==
  ASSUME NEW q \in Nat, NEW more \in Nat, NEW lead \in Nat, NEW f \in {0, 1},
         NEW s \in Seq(Nat), NEW S \in SUBSET PlacesOf(s), Spelt(s, S, q),
         NEW add, Adds(add, lead, q, more, f)
  PROVE  /\ s \o add \in Seq(Nat)
         /\ Longer(s, S, lead, more) \in SUBSET PlacesOf(s \o add)
         /\ Spelt(s \o add, Longer(s, S, lead, more), q + more)
         /\ S = PlacesOf(s) /\ (\A i \in 1..lead : ~IsWord(add[i]))
              => Longer(s, S, lead, more) = PlacesOf(s \o add)
  <1> DEFINE m == Len(s)
             t == s \o add
             x == m + lead
             Q == S \cup (x + 1)..(x + more)
  <1>1. m \in Nat /\ x \in Nat /\ m <= x /\ S \in SUBSET (1..m)
    BY DEF PlacesOf
  <1>2. /\ add \in Seq(Nat) /\ Len(add) = lead + more + f
        /\ \A i \in 1..more : add[lead + i] = track[q + i].label /\ IsWord(add[lead + i])
        /\ f = 1 => ~IsWord(add[Len(add)])
    BY DEF Adds
  <1>3. /\ t \in Seq(Nat) /\ Len(t) = Len(s) + Len(add)
        /\ \A k \in 1..Len(s) + Len(add) : t[k] = IF k <= Len(s) THEN s[k] ELSE add[k - Len(s)]
    BY <1>2, ConcatProperties
  <1>4. Cardinality(S) = q /\ \A k \in S : s[k] = track[Cardinality({n \in S : n <= k})].label
    BY DEF Spelt
  <1>5. S = PlacesOf(s) => \A k \in 1..m : IsWord(s[k]) <=> k \in S
    BY DEF PlacesOf
  <1>6. \A k \in S : IsWord(s[k])
    BY DEF PlacesOf
  <1> HIDE DEF t
  <1>7. Len(t) = x + more + f
    <2>1. Len(t) = Len(s) + Len(add)
      BY <1>3
    <2>2. Len(add) = lead + more + f
      BY <1>2
    <2> QED BY <2>1, <2>2
  <1>8. ASSUME NEW k \in 1..m PROVE t[k] = s[k]
    <2>1. k \in 1..Len(s) + Len(add) /\ k <= Len(s)
      BY <1>1, <1>2
    <2> QED BY <1>3, <2>1
  <1>9. ASSUME NEW i \in 1..Len(add) PROVE t[m + i] = add[i]
    <2>1. m + i \in 1..Len(s) + Len(add) /\ ~(m + i <= Len(s)) /\ (m + i) - Len(s) = i
      BY <1>1, <1>2
    <2> QED BY <1>3, <2>1
  <1>10. ASSUME NEW i \in 1..more PROVE t[x + i] = track[q + i].label /\ IsWord(t[x + i])
    <2>1. lead + i \in 1..Len(add) /\ m + (lead + i) = x + i
      BY <1>1, <1>2
    <2> QED BY <1>2, <1>9, <2>1
  <1> HIDE DEF m, x
  <1>11. \A i \in Nat : Cardinality(S \cup (x + 1)..(x + i)) = Cardinality(S) + i
    <2>1. ASSUME NEW i \in Nat
          PROVE  Cardinality(S \cup (x + 1)..(x + i)) = Cardinality(S) + i
      <3>1. S \in SUBSET (1..x) /\ x \in Nat
        BY <1>1
      <3> HIDE DEF Q
      <3> QED BY <3>1, Counted
    <2> QED BY <2>1
  <1>12. Cardinality(Q) = q + more
    BY <1>4, <1>11
  <1>13. Q \in SUBSET PlacesOf(t)
    <2>1. ASSUME NEW k \in S PROVE k \in PlacesOf(t)
      <3>1. k \in 1..Len(t) /\ k \in 1..m
        BY <1>1, <1>7
      <3> QED BY <1>6, <1>8, <3>1 DEF PlacesOf
    <2>2. ASSUME NEW k \in (x + 1)..(x + more) PROVE k \in PlacesOf(t)
      <3>1. k - x \in 1..more /\ x + (k - x) = k /\ k \in 1..Len(t)
        BY <1>1, <1>7
      <3> QED BY <1>10, <3>1 DEF PlacesOf
    <2> QED BY <2>1, <2>2
  <1>14. ASSUME NEW k \in Q PROVE t[k] = track[Cardinality({n \in Q : n <= k})].label
    <2>1. CASE k \in S
      <3>1. k \in 1..m /\ k <= x
        BY <1>1, <2>1
      <3>2. {n \in Q : n <= k} = {n \in S : n <= k}
        BY <1>1, <3>1
      <3> HIDE DEF Q
      <3> QED BY <1>4, <1>8, <2>1, <3>1, <3>2
    <2>2. CASE k \in (x + 1)..(x + more)
      <3> DEFINE i == k - x
      <3>1. i \in 1..more /\ x + i = k /\ i \in Nat
        BY <1>1, <2>2
      <3> HIDE DEF i
      <3>2. {n \in Q : n <= k} = S \cup (x + 1)..(x + i)
        <4>1. \A n \in S : n \in 1..m /\ n <= k
          BY <1>1, <2>2
        <4>2. \A n \in (x + 1)..(x + more) : n <= k <=> n \in (x + 1)..(x + i)
          BY <1>1, <3>1
        <4>3. (x + 1)..(x + i) \subseteq (x + 1)..(x + more)
          BY <1>1, <3>1
        <4> QED BY <4>1, <4>2, <4>3, Zenon
      <3> HIDE DEF Q
      <3>3. Cardinality({n \in Q : n <= k}) = q + i
        <4>1. Cardinality(S \cup (x + 1)..(x + i)) = Cardinality(S) + i
          BY <1>11, <3>1
        <4> QED BY <1>4, <3>2, <4>1
      <3> QED BY <1>10, <3>1, <3>3
    <2> QED BY <2>1, <2>2
  <1>15. Spelt(t, Q, q + more)
    <2> HIDE DEF Q
    <2> QED BY <1>12, <1>14 DEF Spelt
  <1>16. ASSUME S = PlacesOf(s), \A i \in 1..lead : ~IsWord(add[i])
         PROVE  Q = PlacesOf(t)
    <2>1. ASSUME NEW k \in 1..Len(t), IsWord(t[k]) PROVE k \in Q
      <3>1. CASE k \in 1..m
        BY <1>5, <1>8, <1>16, <2>1, <3>1
      <3>2. CASE k \in (m + 1)..x
        <4>1. k - m \in 1..lead /\ m + (k - m) = k /\ k - m \in 1..Len(add)
          BY <1>1, <1>2, <3>2 DEF x
        <4>2. ~IsWord(t[k])
          BY <1>9, <1>16, <4>1
        <4> QED BY <2>1, <4>2
      <3>3. CASE k \in (x + 1)..(x + more)
        BY <3>3
      <3>4. CASE k > x + more
        <4>1. f = 1 /\ k = Len(t) /\ Len(add) \in 1..Len(add) /\ m + Len(add) = k
          BY <1>1, <1>2, <1>7, <3>4 DEF x
        <4>2. ~IsWord(t[k])
          BY <1>2, <1>9, <4>1
        <4> QED BY <2>1, <4>2
      <3> QED BY <1>1, <3>1, <3>2, <3>3, <3>4
    <2>2. PlacesOf(t) \subseteq Q
      <3> HIDE DEF Q
      <3> QED BY <2>1 DEF PlacesOf
    <2> HIDE DEF Q
    <2> QED BY <1>13, <2>2
  <1>17. Longer(s, S, lead, more) = Q
    BY DEF Longer, Q, x, m
  <1> HIDE DEF Q
  <1> QED BY <1>3, <1>13, <1>15, <1>16, <1>17 DEF t

-----------------------------------------------------------------------------
(* Every step keeps the invariant. *)

Drop(from, next) == IF from < b THEN Dropped(next, Limit(from, next)) ELSE 0

\* Only words that can have been in the last window are dropped.
LEMMA DropFacts ==
  ASSUME OverlapInv, NEW from \in 0..Horizon, NEW to \in 0..Horizon, Window(from, to),
         NEW end \in Ends(to), NEW next, NEW c \in {0, 1}, NEW f \in {0, 1},
         HeardIn(next, c, Begun(from), end.known, f, from, to)
  PROVE  /\ Drop(from, next) \in 0..Len(next) /\ Len(next) \in Nat
         /\ Drop(from, next) <= Len(last)
         /\ \A i \in 1..Drop(from, next) : next[i].at <= b + After
  <1> DEFINE limit == Limit(from, next)
             drop == Drop(from, next)
  <1>1. /\ Len(next) \in Nat /\ Len(last) \in Nat /\ Prefix(next) \in Nat
        /\ \A i \in 1..Len(next) : next[i].at <= b + After <=> i <= Prefix(next)
        /\ limit \in Nat /\ limit <= Len(last)
        /\ limit <= Len(next) /\ limit <= Prefix(next)
    BY LimitIs
  <1> HIDE DEF limit
  <1>2. Dropped(next, limit) \in 0..limit
    <2>1. \A m \in Found(next, limit) : m[1] + m[2] \in 0..limit
      BY <1>1, FoundIs
    <2>2. \/ Dropped(next, limit) = 0
          \/ \E m \in Found(next, limit) : Dropped(next, limit) = m[1] + m[2]
      BY <1>1, DroppedFacts
    <2> QED BY <1>1, <2>1, <2>2
  <1>3. drop \in 0..limit
    BY <1>1, <1>2 DEF Drop, limit
  <1> HIDE DEF drop
  <1>4. drop \in 0..Len(next) /\ drop <= Len(last)
    BY <1>1, <1>3
  <1>5. \A i \in 1..drop : i \in 1..Len(next) /\ i <= Prefix(next)
    BY <1>1, <1>3
  <1> QED BY <1>1, <1>4, <1>5 DEF drop

\* The transcript grows by the words that no window had heard yet; before them come
\* words that were heard already, or fragments, only where windows were severed.
Joint(add, more, f, from) ==
    \E lead \in Nat : /\ Adds(add, lead, known, more, f)
                      /\ ~Severed(from) => \A i \in 1..lead : ~IsWord(add[i])

\* Of all that is heard, the cut word c, the words from g to r and a fragment f, all
\* but the first ones is added; those up to q are in the transcript.
Balance(len, all, drop, lead, c, f, g, q, r) ==
    /\ {drop, lead, c, f, g, q, r} \subseteq Int
    /\ len = all - drop /\ all = c + (r - g) + f /\ drop + lead = c + (q - g)

Amount(len, lead, q, r, f) == len = lead + (r - q) + f

LEMMA Balanced ==
  ASSUME NEW len, NEW all, NEW drop, NEW lead, NEW c, NEW f, NEW g, NEW q, NEW r,
         Balance(len, all, drop, lead, c, f, g, q, r)
  PROVE  Amount(len, lead, q, r, f)
  BY DEF Balance, Amount

LEMMA Joins ==
  ASSUME OverlapInv, NEW from \in 0..Horizon, NEW to \in 0..Horizon, Window(from, to),
         from < b => ~Ambiguous(from), NEW end \in Ends(to),
         NEW next, NEW c \in {0, 1}, NEW f \in {0, 1},
         HeardIn(next, c, Begun(from), end.known, f, from, to),
         f = 1 => CutAt(to) # {},
         c = 1 => \E i \in CutAt(from) : next[1].label \in {Fragment(Left, from), track[i].label},
         NEW add \in Seq(Nat), Len(add) = Len(next) - Drop(from, next),
         \A i \in 1..Len(add) : add[i] = next[i + Drop(from, next)].label
  PROVE  Joint(add, end.known - known, f, from)
  <1> DEFINE n == Len(track)
             g == Begun(from)
             q == known
             r == end.known
             k == q - g
             more == r - q
             drop == Drop(from, next)
  <1>1. /\ g \in 0..n /\ q \in 0..n /\ r \in 0..n /\ n \in Nat /\ g <= q /\ q <= r
        /\ track \in Tracks /\ b \in Nat /\ from \in Nat /\ to \in Nat
    BY Sides
  <1>2. from >= b => g = q /\ CutAt(from) = {}
    BY Shared
  <1>3. \A i \in 1..n : IsWord(track[i].label)
    BY <1>1, TrackFacts DEF IsWord
  <1>4. /\ Len(next) = c + (r - g) + f
        /\ \A i \in 1..(r - g) : next[c + i].label = track[g + i].label
        /\ f = 1 => next[Len(next)].label = Fragment(Right, to)
    BY DEF HeardIn
  <1>5. drop \in Nat /\ Len(next) \in Nat
    BY DropFacts
  <1>6. \E lead \in Nat :
          /\ drop + lead = c + k
          /\ \/ Severed(from)
             \/ lead = 0
             \/ lead = 1 /\ drop = 0 /\ next[1].label = Fragment(Left, from)
    <2>0. k \in Nat
      BY <1>1
    <2>1. CASE from >= b
      <3>1. drop = 0 /\ c = 0 /\ k = 0
        BY <1>1, <1>2, <2>1 DEF Drop
      <3> HIDE DEF k, drop
      <3> WITNESS 0 \in Nat
      <3> QED BY <3>1
    <2>2. CASE from < b /\ Severed(from)
      <3>1. drop = 0
        BY <2>2, NotJoined DEF Drop
      <3> HIDE DEF k, drop
      <3>2. c + k \in Nat
        BY <2>0
      <3> WITNESS c + k \in Nat
      <3> QED BY <2>0, <2>2, <3>1
    <2>3. CASE from < b /\ ~Severed(from)
      <3>1. \/ drop = c + k
            \/ drop = 0 /\ k = 0 /\ c = 1 /\ next[1].label = Fragment(Left, from)
        BY <2>3, Joined DEF Drop
      <3> HIDE DEF k, drop
      <3>2. CASE drop = c + k
        <4> WITNESS 0 \in Nat
        <4> QED BY <1>5, <3>2
      <3>3. CASE drop = 0 /\ k = 0 /\ c = 1 /\ next[1].label = Fragment(Left, from)
        <4> WITNESS 1 \in Nat
        <4> QED BY <3>3
      <3> QED BY <3>1, <3>2, <3>3
    <2> QED BY <1>1, <2>1, <2>2, <2>3
  <1>7. PICK lead \in Nat :
          /\ drop + lead = c + k
          /\ \/ Severed(from)
             \/ lead = 0
             \/ lead = 1 /\ drop = 0 /\ next[1].label = Fragment(Left, from)
    BY <1>6
  <1>8. Len(add) = Len(next) - drop /\ \A i \in 1..Len(add) : add[i] = next[i + drop].label
    OBVIOUS
  <1> HIDE DEF n, g, q, r, drop
  <1>9. Len(add) = lead + more + f /\ more \in Nat
    <2>1. Len(add) = Len(next) - drop /\ Len(next) = c + (r - g) + f /\ drop + lead = c + (q - g)
      BY <1>4, <1>7, <1>8
    <2>2. /\ g \in Int /\ q \in Int /\ r \in Int /\ drop \in Int /\ lead \in Int
          /\ c \in Int /\ f \in Int /\ q <= r
      BY <1>1, <1>5
    <2>3. Balance(Len(add), Len(next), drop, lead, c, f, g, q, r)
      BY <2>1, <2>2 DEF Balance
    <2>4. Amount(Len(add), lead, q, r, f)
      BY <2>3, Balanced, Zenon
    <2>5. Len(add) = lead + (r - q) + f
      BY <2>4 DEF Amount
    <2>6. r - q \in Nat
      BY <2>2
    <2> QED BY <2>5, <2>6, Zenon
  <1>10. ASSUME NEW i \in 1..more
         PROVE  add[lead + i] = track[q + i].label /\ IsWord(add[lead + i])
    <2>1. /\ lead + i \in 1..Len(add) /\ (lead + i) + drop = c + (k + i)
          /\ k + i \in 1..(r - g) /\ g + (k + i) = q + i /\ q + i \in 1..n
      <3>1. i \in Int /\ 1 <= i /\ i <= r - q
        BY <1>1
      <3>2. lead + i \in 1..Len(add)
        BY <1>1, <1>9, <3>1
      <3>3. (lead + i) + drop = c + (k + i)
        BY <1>1, <1>5, <1>7, <3>1
      <3>4. k + i \in 1..(r - g) /\ g + (k + i) = q + i
        BY <1>1, <3>1
      <3>5. q + i \in 1..n
        BY <1>1, <3>1
      <3> QED BY <3>2, <3>3, <3>4, <3>5
    <2>2. add[lead + i] = next[c + (k + i)].label
      BY <1>8, <2>1
    <2>3. next[c + (k + i)].label = track[g + (k + i)].label
      BY <1>4, <2>1
    <2>4. track[g + (k + i)] = track[q + i]
      BY <2>1
    <2> HIDE DEF k
    <2> QED BY <1>3, <2>1, <2>2, <2>3, <2>4
  <1>11. ASSUME f = 1 PROVE ~IsWord(add[Len(add)])
    <2>1. Len(add) \in 1..Len(add) /\ Len(add) + drop = Len(next)
      BY <1>5, <1>8, <1>9, <1>11, SMTT(30)
    <2>2. add[Len(add)] = Fragment(Right, to)
      BY <1>4, <1>8, <1>11, <2>1
    <2> QED BY <1>1, <2>2, FragmentFacts
  <1>12. Adds(add, lead, q, more, f)
    <2> HIDE DEF more
    <2> QED BY <1>9, <1>10, <1>11 DEF Adds
  <1>13. ASSUME ~Severed(from), NEW i \in 1..lead PROVE ~IsWord(add[i])
    <2>1. lead = 1 /\ i = 1 /\ drop = 0 /\ next[1].label = Fragment(Left, from)
      BY <1>7, <1>13
    <2>2. 1 \in 1..Len(add) /\ 1 + drop = 1
      BY <1>9, <2>1
    <2>3. add[1] = Fragment(Left, from)
      BY <1>8, <2>1, <2>2
    <2> QED BY <1>1, <2>1, <2>3, FragmentFacts
  <1> QED BY <1>12, <1>13 DEF Joint, q, r

\* The transcript after a window has all the words that are known then.
LEMMA Grows ==
  ASSUME OverlapInv, NEW more \in Nat, NEW f \in {0, 1}, NEW lead \in Nat, NEW add,
         Adds(add, lead, known, more, f)
  PROVE  /\ result \o add \in Seq(Nat)
         /\ ~unclear => \E S \in SUBSET PlacesOf(result \o add) : Spelt(result \o add, S, known + more)
         /\ ~unclear /\ ~severed /\ (\A i \in 1..lead : ~IsWord(add[i]))
              => Spelt(result \o add, PlacesOf(result \o add), known + more)
  <1>1. result \in Seq(Nat) /\ known \in Nat
    BY TrackFacts DEF OverlapInv, Knows
  <1>2. result \o add \in Seq(Nat)
    BY <1>1, ConcatProperties DEF Adds
  <1>3. ASSUME ~unclear
        PROVE  \E S \in SUBSET PlacesOf(result \o add) : Spelt(result \o add, S, known + more)
    <2>1. PICK S \in SUBSET PlacesOf(result) : Spelt(result, S, known)
      BY <1>3 DEF OverlapInv
    <2>2. /\ Longer(result, S, lead, more) \in SUBSET PlacesOf(result \o add)
          /\ Spelt(result \o add, Longer(result, S, lead, more), known + more)
      BY <1>1, <2>1, Appended, SMTT(30)
    <2> QED BY <2>2
  <1>4. ASSUME ~unclear, ~severed, \A i \in 1..lead : ~IsWord(add[i])
        PROVE  Spelt(result \o add, PlacesOf(result \o add), known + more)
    <2> DEFINE S == PlacesOf(result)
    <2>1. Spelt(result, S, known)
      BY <1>4 DEF OverlapInv
    <2>2. /\ Longer(result, S, lead, more) = PlacesOf(result \o add)
          /\ Spelt(result \o add, Longer(result, S, lead, more), known + more)
      <3>1. S \in SUBSET PlacesOf(result) /\ S = PlacesOf(result)
        OBVIOUS
      <3> HIDE DEF S
      <3> QED BY <1>1, <1>4, <2>1, <3>1, Appended
    <2> HIDE DEF S
    <2> QED BY <2>2
  <1> QED BY <1>2, <1>3, <1>4

LEMMA EmitStep ==
  ASSUME OverlapInv, NEW from \in 0..Horizon, NEW to \in 0..Horizon, Window(from, to),
         NEW lag \in 0..1, NEW cut \in Cuts(from), NEW end \in Ends(to),
         EmitText(from, to, lag, cut, end)
  PROVE  /\ OverlapInv'
         /\ \A i \in DOMAIN removed' : removed'[i].at <= b + After
  <1> DEFINE next == cut \o Whole(from, to, end.known, lag) \o end.tail
             drop == Drop(from, next)
             add == [i \in 1..(Len(next) - drop) |-> next[i + drop].label]
             g == Begun(from)
             r == end.known
  <1>1. /\ a' = from /\ b' = to /\ last' = next
        /\ result' = result \o add
        /\ removed' = SubSeq(next, 1, drop)
        /\ known' = r
        /\ unclear' = (unclear \/ (from < b /\ Ambiguous(from)))
        /\ severed' = (severed \/ Severed(from))
        /\ track' = track
    BY DEF EmitText, Drop
  <1>2. /\ g \in 0..Len(track) /\ r \in 0..Len(track) /\ known \in 0..Len(track)
        /\ Len(track) \in Nat /\ g <= known /\ known <= r
        /\ track \in Tracks /\ b \in Nat /\ from \in Nat /\ to \in Nat /\ from < to
    BY Sides
  <1>3. /\ Knows(r, to) /\ r \in Ended(to)..Begun(to)
    BY <1>2, EndsFacts
  <1>4. Gives(next, g, r, from, to)
    <2> HIDE DEF next, g, r
    <2>1. g <= r
      BY <1>2
    <2> QED BY <1>2, <2>1, WindowHeard DEF next, g, r
  <1> HIDE DEF next
  <1>5. PICK c, f \in {0, 1} :
           /\ HeardIn(next, c, g, r, f, from, to)
           /\ f = 1 => CutAt(to) # {}
           /\ c = 1 => \E i \in CutAt(from) : next[1].label \in {Fragment(Left, from), track[i].label}
    BY <1>4 DEF Gives
  <1>6. /\ drop \in 0..Len(next) /\ Len(next) \in Nat
        /\ \A i \in 1..drop : next[i].at <= b + After
    BY <1>5, DropFacts
  <1>7. next \in Seq(Heard)
    BY <1>5 DEF HeardIn
  <1>8. \A i \in 1..Len(next) : next[i] \in Heard /\ next[i].label \in Nat
    <2>1. \A i \in 1..Len(next) : next[i] \in Heard
      BY <1>7
    <2> QED BY <2>1 DEF Heard
  <1> HIDE DEF drop
  <1>9. /\ add \in Seq(Nat) /\ Len(add) = Len(next) - drop
        /\ \A i \in 1..Len(add) : add[i] = next[i + drop].label
    <2> DEFINE n == Len(next) - drop
    <2>1. n \in Nat /\ \A i \in 1..n : i + drop \in 1..Len(next)
      BY <1>6
    <2>2. add = [i \in 1..n |-> next[i + drop].label]
      OBVIOUS
    <2> HIDE DEF n, add
    <2>3. add \in [1..n -> Nat]
      BY <1>8, <2>1, <2>2
    <2>4. add \in Seq(Nat) /\ Len(add) = n
      BY <2>1, <2>3
    <2> QED BY <2>2, <2>4 DEF n
  <1> HIDE DEF add
  <1>10. /\ removed' \in Seq(Heard) /\ Len(removed') = drop
         /\ \A i \in 1..drop : removed'[i] = next[i]
    <2>1. /\ 1 \in Int /\ drop \in Int /\ \A i \in 1..drop : next[i] \in Heard
          /\ drop >= 0
      BY <1>6, <1>8
    <2>2. /\ SubSeq(next, 1, drop) \in Seq(Heard)
          /\ Len(SubSeq(next, 1, drop)) = IF 1 <= drop THEN drop - 1 + 1 ELSE 0
          /\ \A i \in 1..(drop - 1 + 1) : SubSeq(next, 1, drop)[i] = next[1 + i - 1]
      BY <2>1, SubSeqProperties
    <2>3. drop - 1 + 1 = drop /\ (IF 1 <= drop THEN drop - 1 + 1 ELSE 0) = drop
          /\ \A i \in 1..drop : 1 + i - 1 = i
      BY <2>1
    <2> QED BY <1>1, <2>2, <2>3
  <1>11. a' \in (-Longest)..Horizon /\ b' \in 0..Horizon /\ a' < b' /\ a' <= b'
    BY <1>1, <1>2, OverlapAssumption
  <1>12. Begun(a)' = g /\ Begun(b)' = Begun(to) /\ Ended(b)' = Ended(to)
    BY <1>1 DEF Begun, Ended
  <1>13. Knows(known, b)'
    BY <1>1, <1>3 DEF Knows
  <1> HIDE DEF g, r
  <1>14. known' \in (Ended(b)..Begun(b))' /\ Begun(a)' <= known'
    BY <1>1, <1>2, <1>3, <1>12
  <1>15. \E d, e \in {0, 1} : /\ d = 1 \/ e = 1 => a' < b'
                              /\ HeardIn(last, d, Begun(a), known, e, a, b)'
    <2>1. HeardIn(last, c, Begun(a), known, f, a, b)'
      BY <1>1, <1>5, <1>12 DEF HeardIn
    <2> WITNESS c \in {0, 1}, f \in {0, 1}
    <2> QED BY <1>11, <2>1
  <1>16. Len(removed') <= Len(last')
    BY <1>1, <1>6, <1>10
  <1>17. result' \in Seq(Nat)
    <2>1. result \in Seq(Nat)
      BY DEF OverlapInv
    <2> QED BY <1>1, <1>9, <2>1, ConcatProperties
  <1>18. ASSUME ~unclear'
         PROVE  /\ \E S \in SUBSET PlacesOf(result') : Spelt(result', S, r)
                /\ ~severed' => Spelt(result', PlacesOf(result'), r)
    <2>1. ~unclear /\ (from < b => ~Ambiguous(from))
      BY <1>1, <1>18
    <2>2. PICK lead \in Nat : /\ Adds(add, lead, known, r - known, f)
                              /\ ~Severed(from) => \A i \in 1..lead : ~IsWord(add[i])
      <3>1. /\ HeardIn(next, c, Begun(from), end.known, f, from, to)
            /\ f = 1 => CutAt(to) # {}
            /\ c = 1 => \E i \in CutAt(from) : next[1].label \in {Fragment(Left, from), track[i].label}
        BY <1>5 DEF g, r
      <3>2. /\ add \in Seq(Nat) /\ Len(add) = Len(next) - Drop(from, next)
            /\ \A i \in 1..Len(add) : add[i] = next[i + Drop(from, next)].label
        BY <1>9 DEF drop
      <3>3. Joint(add, end.known - known, f, from)
        <4>1. from < b => ~Ambiguous(from)
          BY <2>1
        <4> QED BY <3>1, <3>2, <4>1, Joins, SMTT(40)
      <3> QED BY <3>3 DEF Joint, r
    <2> DEFINE more == r - known
    <2>3. more \in Nat /\ known + more = r
      BY <1>2
    <2> HIDE DEF more
    <2>4. Adds(add, lead, known, more, f)
      BY <2>2 DEF more
    <2>5. /\ \E S \in SUBSET PlacesOf(result \o add) : Spelt(result \o add, S, known + more)
          /\ ~severed /\ (\A i \in 1..lead : ~IsWord(add[i]))
               => Spelt(result \o add, PlacesOf(result \o add), known + more)
      BY <2>1, <2>3, <2>4, Grows
    <2>6. ~severed' => ~severed /\ (\A i \in 1..lead : ~IsWord(add[i]))
      BY <1>1, <2>2
    <2> QED BY <1>1, <2>3, <2>5, <2>6
  <1>19. ~unclear' => (\E S \in SUBSET PlacesOf(result) : Spelt(result, S, known))'
    BY <1>1, <1>18 DEF PlacesOf, Spelt
  <1>20. ~unclear' /\ ~severed' => Spelt(result, PlacesOf(result), known)'
    BY <1>1, <1>18 DEF PlacesOf, Spelt
  <1>21. OverlapInv'
    <2>1. track' \in Tracks
      BY <1>1, <1>2
    <2> QED BY <1>10, <1>11, <1>13, <1>14, <1>15, <1>16, <1>17, <1>19, <1>20, <2>1 DEF OverlapInv
  <1>22. DOMAIN removed' = 1..drop
    BY <1>10
  <1> QED BY <1>6, <1>10, <1>21, <1>22

LEMMA OverlapStep ==
  ASSUME OverlapInv, [OverlapNext]_overlapVars
  PROVE  OverlapInv'
  <1>1. CASE UNCHANGED overlapVars
    <2>1. /\ track' = track /\ a' = a /\ b' = b /\ last' = last
          /\ result' = result /\ removed' = removed
          /\ known' = known /\ unclear' = unclear /\ severed' = severed
      BY <1>1 DEF overlapVars, history
    <2>2. Begun(a)' = Begun(a) /\ Begun(b)' = Begun(b) /\ Ended(b)' = Ended(b)
      BY <2>1 DEF Begun, Ended
    <2>3. Knows(known, b)'
      BY <2>1 DEF OverlapInv, Knows
    <2>4. \E c, f \in {0, 1} : /\ c = 1 \/ f = 1 => a' < b'
                               /\ HeardIn(last, c, Begun(a), known, f, a, b)'
      <3>1. PICK c, f \in {0, 1} : /\ c = 1 \/ f = 1 => a < b
                                   /\ HeardIn(last, c, Begun(a), known, f, a, b)
        BY DEF OverlapInv
      <3>2. HeardIn(last, c, Begun(a), known, f, a, b)'
        BY <2>1, <2>2, <3>1 DEF HeardIn
      <3> WITNESS c \in {0, 1}, f \in {0, 1}
      <3> QED BY <2>1, <3>1, <3>2
    <2>5. ~unclear' => (\E S \in SUBSET PlacesOf(result) : Spelt(result, S, known))'
      BY <2>1 DEF OverlapInv, PlacesOf, Spelt
    <2>6. ~unclear' /\ ~severed' => Spelt(result, PlacesOf(result), known)'
      BY <2>1 DEF OverlapInv, PlacesOf, Spelt
    <2> QED BY <2>1, <2>2, <2>3, <2>4, <2>5, <2>6 DEF OverlapInv
  <1>2. CASE OverlapNext
    <2>1. ASSUME NEW from \in 0..Horizon, NEW to \in 0..Horizon, Window(from, to),
                 NEW lag \in 0..1, NEW cut \in Cuts(from), NEW end \in Ends(to),
                 EmitText(from, to, lag, cut, end)
          PROVE  OverlapInv'
      BY <2>1, EmitStep
    <2> QED BY <1>1, <1>2, <2>1 DEF OverlapNext, OverlapReturned
  <1> QED BY <1>1, <1>2

\* The transcript has every word that a window has heard, and what is known of the
\* last window is what was heard in it, whatever the recording and its windows.
THEOREM OverlapInvariance == OverlapSpec => []OverlapInv
  <1>1. OverlapInit => OverlapInv
    BY OverlapStart
  <1>2. OverlapInv /\ [OverlapNext]_overlapVars => OverlapInv'
    BY OverlapStep
  <1> QED BY <1>1, <1>2, PTL DEF OverlapSpec

-----------------------------------------------------------------------------
(* What it gives. *)

\* Overlap's type invariant: what emit knows of the last window lies in it.
THEOREM OverlapTypes == OverlapSpec => []OverlapTypeOK
  <1>1. OverlapInv => OverlapTypeOK
    <2> SUFFICES ASSUME OverlapInv PROVE OverlapTypeOK
      OBVIOUS
    <2> DEFINE p == Begun(a)
               q == known
    <2>1. /\ track \in Tracks /\ a \in Int /\ b \in Nat
          /\ a \in (-Longest)..Horizon /\ b \in 0..Horizon
          /\ removed \in Seq(Heard) /\ Len(removed) <= Len(last)
          /\ known \in Ended(b)..Begun(b)
      BY OverlapAssumption DEF OverlapInv
    <2>2. PICK c, f \in {0, 1} : /\ c = 1 \/ f = 1 => a < b
                                 /\ HeardIn(last, c, p, q, f, a, b)
      BY DEF OverlapInv
    <2>3. /\ Len(track) \in Nat
          /\ \A i \in 1..Len(track) : track[i].from \in Nat /\ track[i].to \in Nat
      BY <2>1, TrackFacts, OverlapAssumption
    <2>4. p \in 0..Len(track) /\ \A i \in 1..Len(track) : track[i].from < a <=> i <= p
      BY <2>1, BegunFacts
    <2>5. q \in 0..Len(track)
      BY DEF OverlapInv, Knows
    <2>6. /\ last \in Seq(Heard) /\ Len(last) = c + (q - p) + f /\ DOMAIN last = 1..Len(last)
          /\ c = 1 => last[1].at = a
          /\ f = 1 => last[Len(last)].at = b - 1
          /\ \A i \in 1..(q - p) : /\ track[p + i].from <= last[c + i].at
                                   /\ last[c + i].at < b
      BY <2>2 DEF HeardIn
    <2> HIDE DEF p, q
    <2>7. ASSUME NEW i \in DOMAIN last PROVE last[i].at \in a..(b - 1)
      <3>1. i \in 1..Len(last) /\ Len(last) \in Nat
        BY <2>6
      <3>2. last[i].at \in Int
        <4>1. last[i] \in Heard
          BY <2>6, <3>1
        <4> QED BY <4>1 DEF Heard
      <3>3. CASE i <= c
        <4>1. i = 1 /\ c = 1
          BY <3>1, <3>3
        <4> QED BY <2>1, <2>2, <2>6, <4>1
      <3>4. CASE i > c /\ i <= c + (q - p)
        <4> DEFINE j == i - c
        <4>1. /\ j \in 1..(q - p) /\ c + j = i /\ p + j \in 1..Len(track)
              /\ ~(p + j <= p)
          BY <2>3, <2>4, <2>5, <3>1, <3>4
        <4> HIDE DEF j
        <4>2. track[p + j].from <= last[i].at /\ last[i].at < b
          BY <2>6, <4>1
        <4>3. ~(track[p + j].from < a)
          BY <2>4, <4>1
        <4>4. track[p + j].from \in Nat
          BY <2>3, <4>1
        <4> QED BY <2>1, <3>2, <4>2, <4>3, <4>4
      <3>5. CASE i > c + (q - p)
        <4>1. f = 1 /\ i = Len(last)
          BY <2>4, <2>5, <2>6, <3>1, <3>5
        <4> QED BY <2>1, <2>2, <2>6, <4>1
      <3> QED BY <2>4, <2>5, <3>1, <3>3, <3>4, <3>5
    <2> QED BY <2>1, <2>7 DEF OverlapTypeOK
  <1> QED BY <1>1, OverlapInvariance, PTL

LEMMA SpeltTranscribes ==
  ASSUME result \in Seq(Nat)
  PROVE  /\ Places = PlacesOf(result)
         /\ \A S, n : Spelt(result, S, n) <=> Transcribes(S, n)
  <1>1. DOMAIN result = 1..Len(result)
    OBVIOUS
  <1> QED BY <1>1 DEF Places, PlacesOf, Spelt, Transcribes

\* Where no two windows are ambiguous and no forced cut has fallen into a word, emit
\* and overlapSuffix give every word of the recording once and in its order.
THEOREM EveryWordOnce == OverlapSpec => []WordsOnce
  <1>1. OverlapInv => WordsOnce
    BY SpeltTranscribes DEF OverlapInv, WordsOnce
  <1> QED BY <1>1, OverlapInvariance, PTL

\* Also where a forced cut falls into a word, emit and overlapSuffix lose no word and
\* keep the order: they only repeat words.
THEOREM NoWordLost == OverlapSpec => []WordsKept
  <1>1. OverlapInv => WordsKept
    <2> SUFFICES ASSUME OverlapInv, ~unclear
                 PROVE  \E repeated \in SUBSET Places : Transcribes(Places \ repeated, known)
      BY DEF WordsKept
    <2>1. PICK S \in SUBSET Places : Transcribes(S, known)
      <3>1. result \in Seq(Nat) /\ \E S \in SUBSET PlacesOf(result) : Spelt(result, S, known)
        BY DEF OverlapInv
      <3> QED BY <3>1, SpeltTranscribes
    <2>2. Places \ S \in SUBSET Places /\ Places \ (Places \ S) = S
      OBVIOUS
    <2> WITNESS Places \ S \in SUBSET Places
    <2> QED BY <2>1, <2>2
  <1> QED BY <1>1, OverlapInvariance, PTL

\* engine.go:257: emit drops nothing that was said more than 100 ms after the
\* overlap.
THEOREM OnlyOverlapDropped == OverlapSpec => DropsBounded
  <1>1. OverlapInv /\ [OverlapNext]_overlapVars
          => [\A i \in DOMAIN removed' : removed'[i].at <= b + After]_overlapVars
    <2> SUFFICES ASSUME OverlapInv, OverlapNext, ~(UNCHANGED overlapVars)
                 PROVE  \A i \in DOMAIN removed' : removed'[i].at <= b + After
      OBVIOUS
    <2>1. ASSUME NEW from \in 0..Horizon, NEW to \in 0..Horizon, Window(from, to),
                 NEW lag \in 0..1, NEW cut \in Cuts(from), NEW end \in Ends(to),
                 EmitText(from, to, lag, cut, end)
          PROVE  \A i \in DOMAIN removed' : removed'[i].at <= b + After
      BY <2>1, EmitStep
    <2> QED BY <2>1 DEF OverlapNext, OverlapReturned
  <1> QED BY <1>1, OverlapInvariance, PTL DEF OverlapSpec, DropsBounded
=============================================================================
