------------------------------- MODULE Decoder -------------------------------
(***************************************************************************)
(* Greedy decoding of one window: recognizeTokens (internal/inference/     *)
(* engine.go) for the CTC and for the RNNT model.  The graphs are          *)
(* external: the encoder returns any number of frames, and the argmax of   *)
(* an output is any token.  What matters of the prediction network is      *)
(* which tokens it has read, so its output and its state h, c are the      *)
(* sequence of them.                                                       *)
(***************************************************************************)
EXTENDS Integers, Sequences

CONSTANTS
    Blank,    \* id of the blank, the last token of the vocabulary
    Lengths,  \* samples of a window
    Most      \* bound: frames that the encoder returns

ASSUME DecoderAssumption ==
    Blank \in Nat \ {0} /\ Lengths \subseteq Nat \ {0} /\ Most \in Nat

VARIABLES
    ctc,        \* the model has no prediction network
    samples,    \* of the window
    step,       \* "encode", "decode", "done" or "failed"
    size,       \* frames in the encoder's output
    stop,       \* frames to decode
    t,          \* the frame
    prev,       \* CTC: the token of the frame before
    emitted,    \* RNNT: tokens of this frame
    last,       \* RNNT: the token that is to be read next
    fed,        \* RNNT: what the state h, c has read
    prediction, \* RNNT: what the kept prediction has read, <<>> if there is none
    ids,        \* the result
    path        \* history: CTC's best token of each frame

encoded == <<ctc, samples, size, stop>>
rnntVars == <<emitted, last, fed, prediction>>
vars == <<encoded, step, t, prev, rnntVars, ids, path>>

Tokens == 0..Blank
Emission == [id : 0..(Blank - 1), sample : Nat]

\* Samples of the STFT and of its hop, hops and samples of an encoder frame.
Stft == 320
Hop == 160
Subsampling == 4
FrameSamples == 640

PerFrame == 3

Lesser(a, b) == IF a < b THEN a ELSE b
Greater(a, b) == IF a < b THEN b ELSE a

\* Features.Compute: frames of a window, padded to one at least.
FeatureFrames == (Greater(samples, Stft) - Stft) \div Hop + 1

\* Mutant: a frame that was only begun counts.
LimitBegun == FeatureFrames \div Subsampling + 1

Limit == (FeatureFrames - 1) \div Subsampling + 1

Init ==
    /\ ctc \in BOOLEAN /\ samples \in Lengths
    /\ step = "encode" /\ size = 0 /\ stop = 0 /\ t = 0
    /\ prev = -1
    /\ emitted = 0 /\ last = Blank /\ fed = <<>> /\ prediction = <<>>
    /\ ids = <<>> /\ path = <<>>

Encode ==
    /\ step = "encode"
    /\ size' \in 0..Most
    /\ stop' \in IF ctc THEN {Lesser(size', Limit)} ELSE 0..size'
    /\ step' = "decode"
    /\ UNCHANGED <<ctc, samples, t, prev, rnntVars, ids, path>>

\* The context has ended, a graph fails, or an output has another shape: CTC
\* runs no graph after the encoder.
Fail ==
    /\ step = "encode" \/ (step = "decode" /\ ~ctc /\ t < stop)
    /\ step' = "failed"
    /\ UNCHANGED <<encoded, t, prev, rnntVars, ids, path>>

AtFrame == step = "decode" /\ t < stop

Emit(id) == ids' = Append(ids, [id |-> id, sample |-> t * FrameSamples])

\* Mutant: a blank does not end a run of the same token.
PreviousKept(id) == prev' = IF id = Blank THEN prev ELSE id

Previous(id) == prev' = id

Frame(id) ==
    /\ AtFrame /\ ctc
    /\ IF id \notin {Blank, prev} THEN Emit(id) ELSE UNCHANGED ids
    /\ Previous(id)
    /\ path' = Append(path, id)
    /\ t' = t + 1
    /\ UNCHANGED <<encoded, step, rnntVars>>

\* The prediction network reads one more token: it runs only if the last
\* prediction was used up.
Predict ==
    /\ AtFrame /\ ~ctc /\ prediction = <<>>
    /\ prediction' = Append(fed, last)
    /\ UNCHANGED <<encoded, step, t, prev, emitted, last, fed, ids, path>>

NextFrame == t' = t + 1 /\ emitted' = 0

\* The joint network finds nothing more in this frame; the prediction is kept.
JoinBlank ==
    /\ AtFrame /\ ~ctc /\ prediction # <<>>
    /\ NextFrame
    /\ UNCHANGED <<encoded, step, prev, last, fed, prediction, ids, path>>

\* Mutant: the state of the network is not taken over.
ConsumeForgets(id) == last' = id /\ prediction' = <<>> /\ UNCHANGED fed

Consume(id) == last' = id /\ fed' = prediction /\ prediction' = <<>>

\* Mutant: one token too many.
CountAfter == IF emitted = PerFrame THEN NextFrame ELSE emitted' = emitted + 1 /\ UNCHANGED t

Count == IF emitted + 1 = PerFrame THEN NextFrame ELSE emitted' = emitted + 1 /\ UNCHANGED t

JoinToken(id) ==
    /\ AtFrame /\ ~ctc /\ prediction # <<>>
    /\ Emit(id)
    /\ Consume(id)
    /\ Count
    /\ UNCHANGED <<encoded, step, prev, path>>

Return ==
    /\ step = "decode" /\ t = stop
    /\ step' = "done"
    /\ UNCHANGED <<encoded, t, prev, rnntVars, ids, path>>

Next ==
    \/ Encode \/ Fail \/ Return
    \/ \E id \in Tokens : Frame(id)
    \/ Predict \/ JoinBlank
    \/ \E id \in Tokens \ {Blank} : JoinToken(id)

Spec == Init /\ [][Next]_vars
-----------------------------------------------------------------------------
(* Properties. *)

\* The type invariant: a result holds no blank, so that its ids index the
\* vocabulary, and the network reads only tokens.
TypeOK ==
    /\ ctc \in BOOLEAN /\ samples \in Lengths
    /\ step \in {"encode", "decode", "done", "failed"}
    /\ size \in 0..Most /\ stop \in 0..size /\ t \in 0..stop
    /\ prev \in Tokens \cup {-1}
    /\ emitted \in 0..PerFrame /\ last \in Tokens
    /\ fed \in Seq(Tokens) /\ prediction \in Seq(Tokens)
    /\ ids \in Seq(Emission) /\ path \in Seq(Tokens)

\* The first frames of the runs of a token other than the blank.
Runs == {i \in 1..Len(path) : path[i] # Blank /\ (i = 1 \/ path[i - 1] # path[i])}
RunAt(i) == [id |-> path[i], sample |-> (i - 1) * FrameSamples]

\* CTC: the result is the best path with repetitions and then blanks removed,
\* each token at the first frame of its run.
CtcCollapses ==
    ctc => /\ \A k \in 1..Len(ids) : \E i \in Runs : ids[k] = RunAt(i)
           /\ \A i \in Runs : \E k \in 1..Len(ids) : ids[k] = RunAt(i)

\* RNNT: a prediction that the joint network may be given has read the blank
\* and exactly the tokens of the result so far, through blanks, full frames and
\* kept predictions.
PredictionFresh ==
    prediction # <<>> =>
        /\ Len(prediction) = Len(ids) + 1 /\ prediction[1] = Blank
        /\ \A k \in 1..Len(ids) : prediction[k + 1] = ids[k].id

\* Times never go back, and a frame gives at most three tokens, with CTC one.
EmissionsOrdered ==
    \A k, n \in 1..Len(ids) :
        /\ k < n => ids[k].sample <= ids[n].sample
        /\ k + (IF ctc THEN 1 ELSE PerFrame) <= n => ids[k].sample < ids[n].sample

\* CTC's padding frames give no token: every token begins at audio of the
\* window, padded to one STFT window.
AudioOnly ==
    ctc => \A k \in 1..Len(ids) : ids[k].sample + Stft <= Greater(samples, Stft)
=============================================================================
