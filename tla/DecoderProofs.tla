--------------------------- MODULE DecoderProofs ----------------------------
(* What Decoder.tla keeps, for every vocabulary and every window, and what   *)
(* Words.tla keeps, for every vocabulary and every text.                     *)
EXTENDS Decoder, Words, FiniteSetTheorems, SequenceTheorems, TLAPS

\* What the prediction network has read, before and with its next token.
Reading ==
    /\ Len(fed) = Len(ids)
    /\ \A k \in 1..Len(fed) : fed[k] = IF k = 1 THEN Blank ELSE ids[k - 1].id
    /\ last = IF ids = <<>> THEN Blank ELSE ids[Len(ids)].id
    /\ PredictionFresh

\* The last `emitted' tokens, and only they, are of the frame.
Timing ==
    /\ EmissionsOrdered
    /\ emitted < PerFrame /\ emitted <= Len(ids)
    /\ \A k \in 1..Len(ids) : ids[k].sample <= t * FrameSamples
    /\ \A k \in 1..(Len(ids) - emitted) : ids[k].sample < t * FrameSamples

\* CTC: how far the best path is known, and that it stays in the window.
Walked ==
    /\ emitted = 0
    /\ Len(path) = t
    /\ prev = IF t = 0 THEN -1 ELSE path[t]
    /\ stop <= Limit
    /\ CtcCollapses

IInv ==
    /\ TypeOK
    /\ step = "encode" => t = 0
    /\ Timing
    /\ IF ctc THEN Walked /\ prediction = <<>> ELSE Reading

LEMMA LimitFacts ==
    ASSUME samples \in Nat
    PROVE  /\ Limit \in Nat /\ Limit >= 1
           /\ \A i \in Nat : i < Limit => i * FrameSamples + Stft <= Greater(samples, Stft)
  <1> DEFINE m == Greater(samples, Stft) - Stft
             n == m \div Hop
  <1>1. m \in Nat
    BY DEF Greater, Stft
  <1>2. n \in Nat /\ n * 160 <= m
    BY <1>1 DEF Hop
  <1>3. (FeatureFrames - 1) = n
    BY <1>2 DEF FeatureFrames
  <1> HIDE DEF n
  <1>4. n \div 4 \in Nat /\ 4 * (n \div 4) <= n
    BY <1>2
  <1>5. Limit = n \div 4 + 1
    BY <1>3 DEF Limit, Subsampling
  <1>6. ASSUME NEW i \in Nat, i < Limit PROVE i * FrameSamples + Stft <= Greater(samples, Stft)
    <2>1. i <= n \div 4
      BY <1>4, <1>5, <1>6
    <2>2. 4 * i <= n
      BY <1>2, <1>4, <2>1
    <2>3. i * 640 <= m
      BY <1>1, <1>2, <2>2
    <2> QED BY <2>3 DEF FrameSamples, Stft, Greater
  <1> QED BY <1>4, <1>5, <1>6

\* The result grows by one token of the frame.
LEMMA EmitFacts ==
    ASSUME IInv, NEW id \in 0..(Blank - 1), Emit(id)
    PROVE  /\ ids' \in Seq(Emission)
           /\ Len(ids') = Len(ids) + 1
           /\ \A k \in 1..Len(ids) : ids'[k] = ids[k]
           /\ ids'[Len(ids) + 1] = [id |-> id, sample |-> t * FrameSamples]
  <1>1. t \in Nat /\ ids \in Seq(Emission)
    BY DecoderAssumption DEF IInv, TypeOK
  <1>2. [id |-> id, sample |-> t * FrameSamples] \in Emission
    BY <1>1 DEF Emission, FrameSamples
  <1> QED BY <1>1, <1>2 DEF Emit

LEMMA SampleTypes ==
    ASSUME NEW s \in Seq(Emission)
    PROVE  \A k \in 1..Len(s) : s[k].sample \in Nat
  <1>1. \A k \in 1..Len(s) : s[k] \in Emission
    OBVIOUS
  <1> QED BY <1>1 DEF Emission

\* Its time fits those of the tokens before it.
LEMMA EmitTiming ==
    ASSUME IInv, NEW id \in 0..(Blank - 1), Emit(id), UNCHANGED ctc,
           ctc => emitted = 0
    PROVE  /\ EmissionsOrdered'
           /\ \A k \in 1..Len(ids') : ids'[k].sample \in Nat /\ ids'[k].sample <= t * FrameSamples
           /\ \A k \in 1..(Len(ids) - emitted) : ids'[k].sample < t * FrameSamples
  <1>1. /\ ids' \in Seq(Emission)
        /\ Len(ids') = Len(ids) + 1
        /\ \A k \in 1..Len(ids) : ids'[k] = ids[k]
        /\ ids'[Len(ids) + 1] = [id |-> id, sample |-> t * FrameSamples]
    BY EmitFacts
  <1>2. t \in Nat /\ emitted \in Nat /\ emitted < 3 /\ emitted <= Len(ids) /\ ids \in Seq(Emission)
        /\ Len(ids) \in Nat /\ t * FrameSamples \in Nat
    BY DecoderAssumption DEF IInv, TypeOK, Timing, PerFrame, FrameSamples
  <1>3. /\ \A k \in 1..Len(ids) : ids[k].sample \in Nat
        /\ \A k \in 1..Len(ids') : ids'[k].sample \in Nat
    BY <1>1, <1>2, SampleTypes
  <1>4. ids'[Len(ids) + 1].sample = t * FrameSamples
    BY <1>1
  <1>5. \A k \in 1..Len(ids) : ids'[k].sample = ids[k].sample /\ ids'[k].sample <= t * FrameSamples
    BY <1>1 DEF IInv, Timing
  <1>6. \A k \in 1..(Len(ids) - emitted) : ids'[k].sample < t * FrameSamples
    <2>1. \A k \in 1..(Len(ids) - emitted) : ids[k].sample < t * FrameSamples
      BY DEF IInv, Timing
    <2> QED BY <1>2, <1>5, <2>1
  <1>7. EmissionsOrdered'
    <2> SUFFICES ASSUME NEW k \in 1..Len(ids'), NEW n \in 1..Len(ids')
                 PROVE  /\ k < n => ids'[k].sample <= ids'[n].sample
                        /\ k + (IF ctc THEN 1 ELSE PerFrame) <= n => ids'[k].sample < ids'[n].sample
      BY DEF EmissionsOrdered
    <2>1. CASE n = Len(ids) + 1 /\ k < n
      <3>1. ids'[k].sample <= ids'[n].sample
        BY <1>2, <1>4, <1>5, <2>1
      <3>2. ASSUME k + (IF ctc THEN 1 ELSE PerFrame) <= n PROVE ids'[k].sample < ids'[n].sample
        <4>1. k \in 1..(Len(ids) - emitted)
          BY <1>2, <2>1, <3>2 DEF PerFrame
        <4> QED BY <1>4, <1>6, <2>1, <4>1
      <3> QED BY <3>1, <3>2
    <2>2. CASE n \in 1..Len(ids) /\ k < n
      <3>1. k \in 1..Len(ids)
        BY <1>2, <2>2
      <3>2. /\ k < n => ids[k].sample <= ids[n].sample
            /\ k + (IF ctc THEN 1 ELSE PerFrame) <= n => ids[k].sample < ids[n].sample
        BY <2>2, <3>1 DEF IInv, Timing, EmissionsOrdered
      <3> QED BY <1>5, <2>2, <3>1, <3>2
    <2>3. CASE ~(k < n)
      BY <2>3, <1>1, <1>2 DEF PerFrame
    <2> QED BY <1>1, <1>2, <2>1, <2>2, <2>3
  <1>8. \A k \in 1..Len(ids') : ids'[k].sample <= t * FrameSamples
    BY <1>1, <1>2, <1>3, <1>4, <1>5
  <1> QED BY <1>3, <1>6, <1>7, <1>8

LEMMA Initial == Init => IInv
  <1> SUFFICES ASSUME Init PROVE IInv
    OBVIOUS
  <1> USE DecoderAssumption DEF Init
  <1>1. samples \in Nat /\ Limit \in Nat
    BY LimitFacts
  <1>2. TypeOK
    BY DEF TypeOK, Tokens, PerFrame
  <1>3. Timing
    BY DEF Timing, EmissionsOrdered, PerFrame, FrameSamples
  <1>4. Walked
    BY <1>1, LimitFacts DEF Walked, CtcCollapses, Runs
  <1>5. Reading
    BY DEF Reading, PredictionFresh
  <1> QED BY <1>2, <1>3, <1>4, <1>5 DEF IInv

LEMMA EncodeKeeps == ASSUME IInv, Encode PROVE IInv'
  <1> USE DecoderAssumption DEF Encode, rnntVars
  <1>1. samples \in Nat /\ Limit \in Nat /\ Limit >= 1 /\ Limit' = Limit
    BY LimitFacts DEF IInv, TypeOK, Limit, FeatureFrames, Greater
  <1>2. size' \in 0..Most /\ stop' \in 0..size' /\ (ctc => stop' <= Limit)
    BY <1>1 DEF Lesser
  <1>3. TypeOK'
    BY <1>2 DEF IInv, TypeOK
  <1>4. Timing'
    BY DEF IInv, Timing, EmissionsOrdered
  <1>5. ctc => Walked'
    BY <1>1, <1>2 DEF IInv, Walked, CtcCollapses, Runs, RunAt
  <1>6. ~ctc => Reading'
    BY DEF IInv, Reading, PredictionFresh
  <1> QED BY <1>3, <1>4, <1>5, <1>6 DEF IInv

\* Fail and Return leave everything but the step.
LEMMA LeaveKeeps == ASSUME IInv, Fail \/ Return PROVE IInv'
  <1> USE DEF Fail, Return, encoded, rnntVars
  <1>1. UNCHANGED <<encoded, t, prev, rnntVars, ids, path>> /\ step' \in {"done", "failed"}
    BY Zenon
  <1>2. TypeOK'
    BY <1>1 DEF IInv, TypeOK
  <1>3. Timing'
    BY <1>1 DEF IInv, Timing, EmissionsOrdered
  <1>4. ctc => Walked'
    BY <1>1 DEF IInv, Walked, CtcCollapses, Runs, RunAt, Limit, FeatureFrames, Greater
  <1>5. ~ctc => Reading'
    BY <1>1 DEF IInv, Reading, PredictionFresh
  <1> QED BY <1>1, <1>2, <1>3, <1>4, <1>5 DEF IInv

LEMMA FrameKeeps == ASSUME IInv, NEW id \in Tokens, Frame(id) PROVE IInv'
  <1> USE DecoderAssumption DEF Frame, AtFrame, encoded, rnntVars, Previous
  <1>1. t \in Nat /\ stop \in Nat /\ t < stop /\ ctc /\ emitted = 0
        /\ ids \in Seq(Emission) /\ path \in Seq(Tokens) /\ Len(path) = t
    BY DEF IInv, TypeOK, Walked
  <1>2. /\ path' \in Seq(Tokens) /\ Len(path') = t + 1
        /\ \A i \in 1..t : path'[i] = path[i]
        /\ path'[t + 1] = id
    BY <1>1
  <1>3. t' = t + 1 /\ prev' = id /\ Limit' = Limit
    BY DEF Limit, FeatureFrames, Greater
  <1>4. CASE id \notin {Blank, prev}
    <2>1. id \in 0..(Blank - 1)
      BY <1>4 DEF Tokens
    <2>2. /\ ids' \in Seq(Emission)
          /\ Len(ids') = Len(ids) + 1
          /\ \A k \in 1..Len(ids) : ids'[k] = ids[k]
          /\ ids'[Len(ids) + 1] = [id |-> id, sample |-> t * FrameSamples]
      BY <1>4, <2>1, EmitFacts
    <2>3. TypeOK'
      BY <1>1, <1>2, <2>2 DEF IInv, TypeOK
    <2>4. Timing'
      <3>1. /\ EmissionsOrdered'
            /\ \A k \in 1..Len(ids') : ids'[k].sample \in Nat /\ ids'[k].sample <= t * FrameSamples
        BY <1>1, <1>4, <2>1, EmitTiming
      <3>2. \A k \in 1..Len(ids') : ids'[k].sample < t' * FrameSamples
        <4>1. t \in Nat /\ t' = t + 1
          BY <1>1, <1>3
        <4>2. t * FrameSamples < t' * FrameSamples /\ t * FrameSamples \in Nat /\ t' * FrameSamples \in Nat
          BY <4>1 DEF FrameSamples
        <4> QED BY <3>1, <4>2
      <3>3. emitted' = 0 /\ Len(ids') \in Nat
        BY <1>1, <2>2
      <3>4. Len(ids') - emitted' = Len(ids') /\ emitted' < PerFrame /\ emitted' <= Len(ids')
        BY <3>3 DEF PerFrame
      <3>5. \A k \in 1..Len(ids') : ids'[k].sample <= t' * FrameSamples
        BY <1>1, <1>3, <3>1, <3>2 DEF FrameSamples
      <3> HIDE DEF Frame, AtFrame, encoded, rnntVars, Previous
      <3> QED BY <3>1, <3>2, <3>4, <3>5 DEF Timing
    <2>5. CtcCollapses'
      <3>0. PICK m \in Nat : m = t + 1
        BY <1>1
      <3>1. m \in Runs'
        BY <1>1, <1>2, <1>4, <3>0 DEF Runs, IInv, Walked
      <3>2. \A i \in 1..t : (i \in Runs' <=> i \in Runs) /\ RunAt(i)' = RunAt(i)
        BY <1>1, <1>2 DEF Runs, RunAt
      <3>3. RunAt(m)' = [id |-> id, sample |-> t * FrameSamples]
        BY <1>1, <1>2, <3>0 DEF RunAt, FrameSamples
      <3>4. Runs' \subseteq 1..(t + 1) /\ Runs \subseteq 1..t
        BY <1>1, <1>2 DEF Runs
      <3>5. \A k \in 1..Len(ids') : \E i \in Runs' : ids'[k] = RunAt(i)'
        <4> SUFFICES ASSUME NEW k \in 1..Len(ids') PROVE \E i \in Runs' : ids'[k] = RunAt(i)'
          OBVIOUS
        <4>1. CASE k = Len(ids) + 1
          <5>1. ids'[k] = RunAt(m)'
            BY <2>2, <3>3, <4>1, Zenon
          <5> QED BY <3>1, <5>1, Zenon
        <4>2. CASE k \in 1..Len(ids)
          <5>1. PICK i \in Runs : ids[k] = RunAt(i)
            BY <1>1, <4>2 DEF IInv, Walked, CtcCollapses
          <5> QED BY <2>2, <3>2, <3>4, <4>2, <5>1
        <4> QED BY <1>1, <2>2, <4>1, <4>2
      <3>6. \A i \in Runs' : \E k \in 1..Len(ids') : ids'[k] = RunAt(i)'
        <4> SUFFICES ASSUME NEW i \in Runs' PROVE \E k \in 1..Len(ids') : ids'[k] = RunAt(i)'
          OBVIOUS
        <4>1. CASE i = m
          <5>1. Len(ids) + 1 \in 1..Len(ids')
            BY <1>1, <2>2
          <5>2. ids'[Len(ids) + 1] = RunAt(i)'
            BY <2>2, <3>3, <4>1, Zenon
          <5> QED BY <5>1, <5>2, Zenon
        <4>2. CASE i \in 1..t
          <5>1. PICK k \in 1..Len(ids) : ids[k] = RunAt(i)
            BY <1>1, <3>2, <4>2 DEF IInv, Walked, CtcCollapses
          <5>2. k \in 1..Len(ids')
            BY <1>1, <2>2
          <5> QED BY <2>2, <3>2, <4>2, <5>1, <5>2
        <4> QED BY <1>1, <3>0, <3>4, <4>1, <4>2
      <3> QED BY <3>5, <3>6, Zenon DEF CtcCollapses
    <2>6. Walked'
      BY <1>1, <1>2, <1>3, <2>5 DEF IInv, Walked
    <2> QED BY <1>1, <2>3, <2>4, <2>6 DEF IInv
  <1>5. CASE id \in {Blank, prev}
    <2>1. ids' = ids
      BY <1>5
    <2>2. TypeOK'
      BY <1>1, <1>2, <2>1 DEF IInv, TypeOK
    <2>3. Timing'
      <3>1. EmissionsOrdered' /\ \A k \in 1..Len(ids) : ids[k].sample \in Nat
        BY <1>1, <2>1, SampleTypes DEF IInv, Timing, EmissionsOrdered
      <3>2. \A k \in 1..Len(ids) : ids[k].sample < t' * FrameSamples
        BY <1>1, <1>3, <3>1 DEF IInv, Timing, FrameSamples
      <3> QED BY <1>1, <2>1, <3>1, <3>2 DEF Timing, PerFrame, FrameSamples
    <2>4. Runs' = Runs
      <3>1. t + 1 \notin Runs'
        BY <1>1, <1>2, <1>5 DEF Runs, IInv, Walked, Tokens
      <3> QED BY <1>1, <1>2, <3>1 DEF Runs
    <2>5. \A i \in Runs : RunAt(i)' = RunAt(i)
      BY <1>1, <1>2 DEF Runs, RunAt
    <2>6. CtcCollapses'
      BY <1>1, <2>1, <2>4, <2>5 DEF IInv, Walked, CtcCollapses
    <2>7. Walked'
      BY <1>1, <1>2, <1>3, <2>6 DEF IInv, Walked
    <2> QED BY <1>1, <2>2, <2>3, <2>7 DEF IInv
  <1> QED BY <1>4, <1>5

LEMMA PredictKeeps == ASSUME IInv, Predict PROVE IInv'
  <1> USE DecoderAssumption DEF Predict, encoded
  <1>1. TypeOK'
    BY DEF IInv, TypeOK
  <1>2. Timing'
    BY DEF IInv, Timing, EmissionsOrdered
  <1>3. fed \in Seq(Tokens) /\ last \in Tokens /\ ids \in Seq(Emission) /\ Reading
    BY DEF IInv, TypeOK
  <1>4. Len(prediction') = Len(fed) + 1 /\ prediction'[Len(fed) + 1] = last
        /\ \A k \in 1..Len(fed) : prediction'[k] = fed[k]
    BY <1>3
  <1>5. PredictionFresh'
    <2>1. Len(prediction') = Len(ids) + 1
      BY <1>3, <1>4 DEF Reading
    <2>2. prediction'[1] = Blank
      <3>1. CASE ids = <<>>
        BY <1>3, <1>4, <3>1 DEF Reading
      <3>2. CASE ids # <<>>
        <4>1. 1 \in 1..Len(fed)
          BY <1>3, <3>2 DEF Reading
        <4> QED BY <1>3, <1>4, <4>1 DEF Reading
      <3> QED BY <3>1, <3>2
    <2>3. ASSUME NEW k \in 1..Len(ids) PROVE prediction'[k + 1] = ids[k].id
      <3>1. CASE k = Len(ids)
        <4>1. ids # <<>> /\ k = Len(fed)
          BY <1>3, <2>3, <3>1 DEF Reading
        <4> QED BY <1>3, <1>4, <3>1, <4>1 DEF Reading
      <3>2. CASE k # Len(ids)
        <4>1. k + 1 \in 1..Len(fed) /\ k + 1 # 1 /\ (k + 1) - 1 = k
          BY <1>3, <2>3, <3>2 DEF Reading
        <4> QED BY <1>3, <1>4, <4>1 DEF Reading
      <3> QED BY <3>1, <3>2
    <2> QED BY <2>1, <2>2, <2>3 DEF PredictionFresh
  <1>6. Reading'
    BY <1>3, <1>5 DEF Reading
  <1> QED BY <1>1, <1>2, <1>6 DEF IInv

LEMMA JoinBlankKeeps == ASSUME IInv, JoinBlank PROVE IInv'
  <1> USE DEF JoinBlank, AtFrame, NextFrame, encoded
  <1>1. TypeOK'
    BY DecoderAssumption DEF IInv, TypeOK, PerFrame
  <1>2. Timing'
    <2>1. t \in Nat /\ t' = t + 1 /\ emitted' = 0 /\ ids' = ids /\ ids \in Seq(Emission)
      BY DecoderAssumption DEF IInv, TypeOK
    <2>2. EmissionsOrdered' /\ \A k \in 1..Len(ids) : ids[k].sample \in Nat
      BY <2>1, SampleTypes DEF IInv, Timing, EmissionsOrdered
    <2>3. \A k \in 1..Len(ids) : ids[k].sample < t' * FrameSamples
      BY <2>1, <2>2 DEF IInv, Timing, FrameSamples
    <2> QED BY <2>1, <2>2, <2>3 DEF Timing, PerFrame, FrameSamples
  <1>3. Reading'
    BY DEF IInv, Reading, PredictionFresh
  <1> QED BY <1>1, <1>2, <1>3 DEF IInv

LEMMA JoinTokenKeeps ==
    ASSUME IInv, NEW id \in Tokens \ {Blank}, JoinToken(id)
    PROVE  IInv'
  <1> USE DecoderAssumption DEF JoinToken, AtFrame, Consume, encoded
  <1>1. id \in 0..(Blank - 1)
    BY DEF Tokens
  <1>2. /\ ids' \in Seq(Emission)
        /\ Len(ids') = Len(ids) + 1
        /\ \A k \in 1..Len(ids) : ids'[k] = ids[k]
        /\ ids'[Len(ids) + 1] = [id |-> id, sample |-> t * FrameSamples]
    BY <1>1, EmitFacts
  <1>3. t \in Nat /\ emitted \in Nat /\ emitted < PerFrame /\ ids \in Seq(Emission)
    BY DEF IInv, TypeOK, Timing, PerFrame
  <1>4. \/ t' = t + 1 /\ emitted' = 0
        \/ t' = t /\ emitted' = emitted + 1 /\ emitted + 1 < PerFrame
    BY <1>3 DEF Count, NextFrame, PerFrame
  <1>5. TypeOK'
    <2>1. t' \in 0..stop' /\ emitted' \in 0..PerFrame
      BY <1>3, <1>4 DEF IInv, TypeOK, PerFrame
    <2>2. fed' \in Seq(Tokens) /\ prediction' \in Seq(Tokens) /\ last' \in Tokens
      BY DEF IInv, TypeOK
    <2> QED BY <1>2, <2>1, <2>2 DEF IInv, TypeOK
  <1>6. Timing'
    <2>1. /\ EmissionsOrdered'
          /\ \A k \in 1..Len(ids') : ids'[k].sample \in Nat /\ ids'[k].sample <= t * FrameSamples
          /\ \A k \in 1..(Len(ids) - emitted) : ids'[k].sample < t * FrameSamples
      BY <1>1, EmitTiming
    <2>2. CASE t' = t + 1 /\ emitted' = 0
      <3>1. \A k \in 1..Len(ids') : ids'[k].sample < t' * FrameSamples
        BY <1>3, <2>1, <2>2 DEF FrameSamples
      <3>2. Len(ids') \in Nat
        BY <1>2
      <3> QED BY <2>1, <2>2, <3>1, <3>2 DEF Timing, PerFrame, FrameSamples
    <2>3. CASE t' = t /\ emitted' = emitted + 1 /\ emitted + 1 < PerFrame
      <3>1. emitted' <= Len(ids') /\ Len(ids') - emitted' = Len(ids) - emitted
        BY <1>2, <1>3, <2>3 DEF IInv, Timing
      <3> QED BY <2>1, <2>3, <3>1, Zenon DEF Timing
    <2> QED BY <1>4, <2>2, <2>3
  <1>7. Reading'
    <2>1. prediction # <<>> /\ Reading /\ fed' = prediction /\ last' = id /\ prediction' = <<>>
      BY DEF IInv
    <2>2. ids' # <<>> /\ last' = ids'[Len(ids')].id
      BY <1>2, <1>3, <2>1
    <2>3. Len(fed') = Len(ids')
      BY <1>2, <2>1 DEF Reading, PredictionFresh
    <2>4. ASSUME NEW k \in 1..Len(fed') PROVE fed'[k] = IF k = 1 THEN Blank ELSE ids'[k - 1].id
      <3>1. CASE k = 1
        BY <2>1, <3>1 DEF Reading, PredictionFresh
      <3>2. CASE k # 1
        <4>1. k - 1 \in 1..Len(ids) /\ (k - 1) + 1 = k
          BY <1>2, <1>3, <2>3, <2>4, <3>2
        <4>2. prediction[(k - 1) + 1] = ids[k - 1].id
          BY <2>1, <4>1 DEF Reading, PredictionFresh
        <4> QED BY <1>2, <2>1, <3>2, <4>1, <4>2
      <3> QED BY <3>1, <3>2
    <2> QED BY <2>1, <2>2, <2>3, <2>4 DEF Reading, PredictionFresh
  <1> QED BY <1>5, <1>6, <1>7 DEF IInv

LEMMA Step == IInv /\ [Next]_vars => IInv'
  <1> SUFFICES ASSUME IInv, [Next]_vars PROVE IInv'
    OBVIOUS
  <1>1. CASE UNCHANGED vars
    <2> USE <1>1 DEF vars, encoded, rnntVars
    <2>1. TypeOK'
      BY DEF IInv, TypeOK
    <2>2. Timing'
      BY DEF IInv, Timing, EmissionsOrdered
    <2>3. ctc => Walked'
      BY DEF IInv, Walked, CtcCollapses, Runs, RunAt, Limit, FeatureFrames, Greater
    <2>4. ~ctc => Reading'
      BY DEF IInv, Reading, PredictionFresh
    <2> QED BY <2>1, <2>2, <2>3, <2>4 DEF IInv
  <1> QED BY <1>1, EncodeKeeps, LeaveKeeps, FrameKeeps, PredictKeeps, JoinBlankKeeps, JoinTokenKeeps DEF Next

LEMMA Inductive == Spec => []IInv
  BY Initial, Step, PTL DEF Spec

-----------------------------------------------------------------------------
(* The theorems. *)

\* The type invariant of Decoder: every id of a result indexes the vocabulary.
THEOREM TypeCorrect == Spec => []TypeOK
  BY Inductive, PTL DEF IInv

\* The tokens of the CTC model are the runs of its best path, each at its
\* first frame.
THEOREM Collapsed == Spec => []CtcCollapses
  <1>1. IInv => CtcCollapses
    BY DEF IInv, Walked, CtcCollapses
  <1> QED BY <1>1, Inductive, PTL

\* The RNNT model's joint network is given no stale prediction.
THEOREM Fresh == Spec => []PredictionFresh
  <1>1. IInv => PredictionFresh
    BY DEF IInv, Reading, PredictionFresh
  <1> QED BY <1>1, Inductive, PTL

\* Times are ordered and the tokens of a frame bounded, for both models.
THEOREM Ordered == Spec => []EmissionsOrdered
  BY Inductive, PTL DEF IInv, Timing

\* No token of the CTC model comes from the padding of the encoder's output.
THEOREM OnlyAudio == Spec => []AudioOnly
  <1>1. IInv => AudioOnly
    <2> SUFFICES ASSUME IInv, ctc, NEW k \in 1..Len(ids)
                 PROVE  ids[k].sample + Stft <= Greater(samples, Stft)
      BY DEF AudioOnly
    <2>1. PICK i \in Runs : ids[k] = RunAt(i)
      BY DEF IInv, Walked, CtcCollapses
    <2>2. samples \in Nat /\ t \in Nat /\ stop \in Nat /\ t <= stop /\ stop <= Limit /\ Len(path) = t
      BY DecoderAssumption DEF IInv, TypeOK, Walked
    <2>3. i - 1 \in Nat /\ i - 1 < Limit
      BY <2>1, <2>2, LimitFacts DEF Runs
    <2> QED BY <2>1, <2>2, <2>3, LimitFacts DEF RunAt
  <1> QED BY <1>1, Inductive, PTL

-----------------------------------------------------------------------------
(* Words: the vocabulary, the text and the times of its words. *)

\* The backends do not know that a literal is a string.
Runes == STRING \cup {"<blk>", "??", Space}
Lines == [piece : Seq(Runes), id : Int]

LEMMA SequenceSubset ==
  ASSUME NEW S, NEW T, S \subseteq T
  PROVE  Seq(S) \subseteq Seq(T)
  OBVIOUS

LEMMA SequenceElement ==
  ASSUME NEW S, NEW s \in Seq(S), NEW k \in 1..Len(s)
  PROVE  s[k] \in S
  OBVIOUS

LEMMA FunctionSequence ==
  ASSUME NEW S, NEW n \in Nat, NEW s \in [1..n -> S]
  PROVE  s \in Seq(S)
  OBVIOUS

LEMMA InstalledTypes ==
  /\ Installed \in Seq(Lines) /\ Len(Installed) \in Nat \ {0, 1}
  /\ \A i \in 1..Len(Installed) : /\ Installed[i].id = i - 1
                                  /\ Installed[i].piece \in Seq(Runes)
                                  /\ (Installed[i].piece = Blk) <=> (i = Len(Installed))
  <1> DEFINE Numbers == [piece : Seq(STRING), id : Nat]
             n == Len(Installed)
  <1>1. Installed \in Seq(Numbers) /\ n > 1
    BY VocabularyAssumption
  <1> HIDE DEF Numbers
  <1>2. n \in Nat \ {0, 1} /\ Installed \in [1..n -> Numbers]
    BY <1>1
  <1>4. Seq(STRING) \subseteq Seq(Runes)
    <2>1. STRING \subseteq Runes
      BY DEF Runes
    <2> QED BY <2>1, SequenceSubset
  <1>3. \A i \in 1..n : Installed[i] \in Lines /\ Installed[i].piece \in Seq(Runes)
    BY <1>2, <1>4 DEF Lines, Numbers
  <1>5. Installed \in Seq(Lines)
    BY <1>2, <1>3, FunctionSequence
  <1> QED BY <1>2, <1>3, <1>5, VocabularyAssumption

LEMMA FileTypes ==
  ASSUME NEW f \in Files
  PROVE  f \in Seq(Lines)
  <1> DEFINE n == Len(Installed)
  <1>1. Installed \in Seq(Lines) /\ n \in Nat \ {0, 1}
    BY InstalledTypes
  <1>2. Installed \in [1..n -> Lines]
    BY <1>1
  <1> HIDE DEF n
  <1>3. ASSUME NEW i \in 0..n PROVE SubSeq(Installed, 1, i) \in Seq(Lines)
    BY <1>1, <1>2
  <1>4. ASSUME NEW i \in 1..n PROVE RemoveAt(Installed, i) \in Seq(Lines)
    BY <1>1, <1>2 DEF RemoveAt, n
  <1>5. ASSUME NEW i \in 1..n, NEW j \in 1..n PROVE InsertAt(Installed, i, Installed[j]) \in Seq(Lines)
    BY <1>1, <1>2 DEF InsertAt, n
  <1>6. ASSUME NEW i \in 1..n, NEW j \in 1..n
        PROVE  [Installed EXCEPT ![i] = Installed[j], ![j] = Installed[i]] \in Seq(Lines)
    BY <1>1, <1>2
  <1>7. ASSUME NEW i \in 1..n PROVE [Installed EXCEPT ![i].id = Bad] \in Seq(Lines)
    BY <1>1, <1>2 DEF Lines, Bad
  <1>8. ASSUME NEW i \in 1..n
        PROVE  [Installed EXCEPT ![i].piece = Blk, ![n].piece = Installed[i].piece] \in Seq(Lines)
    <2>1. Installed[i].piece \in Seq(Runes) /\ Installed[n].piece \in Seq(Runes)
      BY InstalledTypes DEF n
    <2>2. Blk \in Seq(Runes)
      BY DEF Blk, Runes
    <2>3. [Installed[i] EXCEPT !.piece = Blk] \in Lines
      BY <1>1, <1>2, <2>2 DEF Lines
    <2> DEFINE g == [Installed EXCEPT ![i].piece = Blk]
    <2>4. g \in [1..n -> Lines] /\ n \in 1..n
      BY <1>1, <1>2, <2>3
    <2>5. [g EXCEPT ![n].piece = Installed[i].piece] \in [1..n -> Lines]
      <3>1. [g[n] EXCEPT !.piece = Installed[i].piece] \in Lines
        BY <2>4, <2>1 DEF Lines
      <3> HIDE DEF g
      <3> QED BY <2>4, <3>1
    <2>6. [Installed EXCEPT ![i].piece = Blk, ![n].piece = Installed[i].piece]
          = [g EXCEPT ![n].piece = Installed[i].piece]
      OBVIOUS
    <2> HIDE DEF g
    <2>7. [g EXCEPT ![n].piece = Installed[i].piece] \in Seq(Lines)
      BY <1>1, <2>5, FunctionSequence
    <2> QED BY <2>6, <2>7
  <1> QED
    <2>1. \/ f = Installed
          \/ \E i \in 0..n : f = SubSeq(Installed, 1, i)
          \/ \E i \in 1..n : f = RemoveAt(Installed, i)
          \/ \E i \in 1..n, j \in 1..n : f = InsertAt(Installed, i, Installed[j])
          \/ \E i \in 1..n, j \in 1..n : f = [Installed EXCEPT ![i] = Installed[j], ![j] = Installed[i]]
          \/ \E i \in 1..n : f = [Installed EXCEPT ![i].id = Bad]
          \/ \E i \in 1..n : f = [Installed EXCEPT ![i].piece = Blk, ![n].piece = Installed[i].piece]
      BY DEF Files, n
    <2> QED BY <1>1, <1>3, <1>4, <1>5, <1>6, <1>7, <1>8, <2>1

\* What loadVocab looks at, of the whole file.
Accepted(f) ==
    /\ Len(f) > 1
    /\ \A i \in 1..Len(f) : f[i].id = i - 1
    /\ f[Len(f)].piece = Blk

\* Each kind of damage is seen in a number or in the place of the blank.
LEMMA Undamaged ==
  ASSUME NEW f \in Files, Accepted(f)
  PROVE  f = Installed
  <1> DEFINE n == Len(Installed)
  <1>1. Installed \in Seq(Lines) /\ n \in Nat \ {0, 1}
    BY InstalledTypes
  <1>2. Installed \in [1..n -> Lines]
    BY <1>1
  <1>0. \A i \in 1..n : /\ Installed[i].id = i - 1
                        /\ (Installed[i].piece = Blk) <=> (i = n)
    BY InstalledTypes
  <1> HIDE DEF n
  <1>3. ASSUME NEW i \in 0..n, f = SubSeq(Installed, 1, i) PROVE f = Installed
    <2>1. Len(f) = i /\ i > 1 /\ f[i] = Installed[i]
      BY <1>1, <1>2, <1>3 DEF Accepted
    <2>2. i = n
      BY <1>0, <1>1, <2>1 DEF Accepted
    <2> QED BY <1>1, <1>2, <1>3, <2>2 DEF n
  <1>4. ASSUME NEW i \in 1..n, f = RemoveAt(Installed, i) PROVE FALSE
    <2>1. f = SubSeq(Installed, 1, i - 1) \o SubSeq(Installed, i + 1, n)
      BY <1>4 DEF RemoveAt, n
    <2>2. Len(f) = n - 1 /\ (i < n => f[i] = Installed[i + 1]) /\ (i = n => f[n - 1] = Installed[n - 1])
      <3> DEFINE a == SubSeq(Installed, 1, i - 1)
                 b == SubSeq(Installed, i + 1, n)
      <3>1. a \in Seq(Lines) /\ b \in Seq(Lines) /\ Len(a) = i - 1 /\ Len(b) = n - i
        <4>1. /\ \A k \in 1..(i - 1) : Installed[k] \in Lines
              /\ \A k \in (i + 1)..n : Installed[k] \in Lines
          BY <1>1, <1>2
        <4>2. a \in Seq(Lines) /\ Len(a) = IF 1 <= i - 1 THEN (i - 1) - 1 + 1 ELSE 0
          BY <1>1, <4>1, SubSeqProperties
        <4>3. b \in Seq(Lines) /\ Len(b) = IF i + 1 <= n THEN n - (i + 1) + 1 ELSE 0
          BY <1>1, <4>1, SubSeqProperties
        <4> HIDE DEF a, b
        <4> QED BY <1>1, <4>2, <4>3
      <3>4. \A k \in 1..(i - 1) : a[k] = Installed[k]
        BY <1>1, <1>2 DEF n
      <3>5. i < n => b[1] = Installed[i + 1]
        <4>1. \A k \in (i + 1)..n : Installed[k] \in Lines
          BY <1>2
        <4>2. \A k \in 1..(n - (i + 1) + 1) : b[k] = Installed[(i + 1) + k - 1]
          BY <1>1, <4>1, SubSeqProperties
        <4> HIDE DEF b
        <4> QED BY <1>1, <4>2
      <3>2. (i > 1 => a[i - 1] = Installed[i - 1]) /\ (i < n => b[1] = Installed[i + 1])
        <4> HIDE DEF a, b
        <4> QED BY <1>1, <3>4, <3>5
      <3> HIDE DEF a, b
      <3> QED BY <1>1, <2>1, <3>1, <3>2 DEF a, b
    <2>3. CASE i < n
      <3>1. f[i].id = i - 1
        BY <1>1, <2>2, <2>3 DEF Accepted
      <3>2. Installed[i + 1].id = i
        <4>1. i + 1 \in 1..n /\ (i + 1) - 1 = i
          BY <1>1, <2>3
        <4>2. Installed[i + 1].id = (i + 1) - 1
          BY <1>0, <4>1
        <4> QED BY <4>1, <4>2
      <3> QED BY <1>1, <2>2, <2>3, <3>1, <3>2
    <2>4. CASE i = n
      BY <1>0, <1>1, <2>2, <2>4 DEF Accepted
    <2> QED BY <2>3, <2>4, <1>1
  <1>5. ASSUME NEW i \in 1..n, NEW j \in 1..n, f = InsertAt(Installed, i, Installed[j]) PROVE FALSE
    <2>1. f = SubSeq(Installed, 1, i - 1) \o <<Installed[j]>> \o SubSeq(Installed, i, n)
      BY <1>5 DEF InsertAt, n
    <2>2. /\ Len(f) = n + 1 /\ f[i] = Installed[j] /\ f[i + 1] = Installed[i]
      <3> DEFINE a == SubSeq(Installed, 1, i - 1)
                 b == SubSeq(Installed, i, n)
                 c == <<Installed[j]>>
      <3>1. a \in Seq(Lines) /\ b \in Seq(Lines) /\ Len(a) = i - 1 /\ Len(b) = n - i + 1
        BY <1>1, <1>2 DEF n
      <3>2. b[1] = Installed[i]
        BY <1>1, <1>2 DEF n
      <3>3. c \in Seq(Lines) /\ Len(c) = 1 /\ c[1] = Installed[j]
        BY <1>2
      <3> HIDE DEF a, b, c
      <3>4. f = (a \o c) \o b
        BY <2>1 DEF a, b, c
      <3>5. (a \o c) \in Seq(Lines) /\ Len(a \o c) = i /\ (a \o c)[i] = Installed[j]
        <4>1. /\ (a \o c) \in Seq(Lines) /\ Len(a \o c) = Len(a) + Len(c)
              /\ \A k \in 1..Len(a) + Len(c) : (a \o c)[k] = IF k <= Len(a) THEN a[k] ELSE c[k - Len(a)]
          BY <3>1, <3>3, ConcatProperties
        <4>2. Len(a) + Len(c) = i /\ Len(a) = i - 1 /\ i \in 1..(Len(a) + Len(c)) /\ i - Len(a) = 1
          BY <1>1, <3>1, <3>3
        <4>3. (a \o c)[i] = c[i - Len(a)]
          BY <4>1, <4>2
        <4> QED BY <3>3, <4>1, <4>2, <4>3
      <3> DEFINE d == a \o c
      <3> HIDE DEF d
      <3>6. d \in Seq(Lines) /\ Len(d) = i /\ d[i] = Installed[j] /\ f = d \o b
        BY <3>4, <3>5 DEF d
      <3>7. Len(f) = Len(d) + Len(b) /\ f[i] = d[i] /\ f[i + 1] = b[1]
        BY <1>1, <3>1, <3>6
      <3> QED BY <1>1, <3>1, <3>2, <3>6, <3>7
    <2> QED BY <1>0, <1>1, <2>2 DEF Accepted
  <1>6. ASSUME NEW i \in 1..n, NEW j \in 1..n,
               f = [Installed EXCEPT ![i] = Installed[j], ![j] = Installed[i]]
        PROVE  f = Installed
    <2>1. Len(f) = n /\ f[j] = Installed[i] /\ DOMAIN f = 1..n
      BY <1>1, <1>2, <1>6
    <2>2. i = j
      BY <1>0, <1>1, <2>1 DEF Accepted
    <2> QED BY <1>2, <1>6, <2>2
  <1>7. ASSUME NEW i \in 1..n, f = [Installed EXCEPT ![i].id = Bad] PROVE FALSE
    <2>1. Len(f) = n /\ f[i].id = Bad
      BY <1>1, <1>2, <1>7 DEF Lines
    <2> QED BY <1>1, <2>1 DEF Accepted, Bad
  <1>8. ASSUME NEW i \in 1..n,
               f = [Installed EXCEPT ![i].piece = Blk, ![n].piece = Installed[i].piece]
        PROVE  f = Installed
    <2>1. Len(f) = n /\ f[n].piece = Installed[i].piece
      BY <1>1, <1>2, <1>8 DEF Lines
    <2>2. i = n
      BY <1>0, <1>1, <2>1 DEF Accepted
    <2> QED BY <1>0, <1>1, <1>2, <1>8, <2>2 DEF Lines
  <1> QED
    <2>1. \/ f = Installed
          \/ \E i \in 0..n : f = SubSeq(Installed, 1, i)
          \/ \E i \in 1..n : f = RemoveAt(Installed, i)
          \/ \E i \in 1..n, j \in 1..n : f = InsertAt(Installed, i, Installed[j])
          \/ \E i \in 1..n, j \in 1..n : f = [Installed EXCEPT ![i] = Installed[j], ![j] = Installed[i]]
          \/ \E i \in 1..n : f = [Installed EXCEPT ![i].id = Bad]
          \/ \E i \in 1..n : f = [Installed EXCEPT ![i].piece = Blk, ![n].piece = Installed[i].piece]
      BY DEF Files, n
    <2> QED BY <1>3, <1>4, <1>5, <1>6, <1>7, <1>8, <2>1

-----------------------------------------------------------------------------
(* What the state keeps. *)

Ids == 0..(Len(Installed) - 2)
InUse == phase \notin {"load", "refused"}

\* The vocabulary that was read so far, and the blank of it.
Loading ==
    /\ file \in Files
    /\ vocab \in Seq(Seq(Runes)) /\ Len(vocab) <= Len(file)
    /\ \A i \in 1..Len(vocab) : file[i].id = i - 1 /\ vocab[i] = file[i].piece
    /\ blank \in Int
    /\ blank # -1 => blank \in 0..(Len(vocab) - 1) /\ file[blank + 1].piece = Blk
    /\ InUse => Len(vocab) = Len(file) /\ BlankLast

\* What a token sounds like, which is what decode writes and wordPositions hears.
Sounds(id) ==
    LET piece == Installed[id + 1].piece
    IN  IF piece \in Marks THEN <<>> ELSE IF piece = Unk THEN Unknown ELSE Spaced(piece)

\* The text is the sounds of the tokens that were decoded, side by side.
Laid ==
    /\ tokens \in Seq([id : Ids, sample : Nat]) /\ (~InUse => tokens = <<>>)
    /\ text \in Seq([rune : Runes, sample : Nat])
    /\ laid \in Seq(Nat) /\ Len(laid) <= Len(tokens)
    /\ IF laid = <<>> THEN text = <<>> ELSE laid[1] = 0
    /\ \A k \in 1..Len(laid) :
          LET sound == Sounds(tokens[k].id)
          IN  /\ laid[k] + Len(sound) <= Len(text)
              /\ laid[k] + Len(sound) = IF k = Len(laid) THEN Len(text) ELSE laid[k + 1]
              /\ \A j \in 1..Len(sound) :
                    text[laid[k] + j] = [rune |-> sound[j], sample |-> tokens[k].sample]

\* The beginnings of words among the first p runes of a text.
BeginsTo(s, p) ==
    {i \in 1..Len(s) : i <= p /\ s[i].rune # Space /\ (i > 1 => s[i - 1].rune = Space)}

\* The runes of the text that wordPositions has seen.
Seen == IF scanned < Len(tokens) THEN laid[scanned + 1] + rune ELSE Len(text)

Scanned ==
    /\ phase \in {"load", "refused", "ready", "decode", "scan", "told"}
    /\ phase \in {"load", "refused", "ready"} => laid = <<>>
    /\ phase \in {"scan", "told"} => Len(laid) = Len(tokens)
    /\ phase = "told" => scanned = Len(tokens)
    /\ scanned \in 0..Len(tokens)
    /\ rune \in IF scanned < Len(tokens) THEN 0..Len(Sounds(tokens[scanned + 1].id)) ELSE {0}
    /\ positions \in Seq(Nat)
    /\ IF phase \in {"scan", "told"}
       THEN /\ inWord = (Seen > 0 /\ text[Seen].rune # Space)
            /\ Len(positions) = Cardinality(BeginsTo(text, Seen))
            /\ \A i \in BeginsTo(text, Seen) :
                  positions[Cardinality(BeginsTo(text, i))] = text[i].sample
       ELSE scanned = 0 /\ rune = 0 /\ inWord = FALSE /\ positions = <<>>

WordsInv == Loading /\ Laid /\ Scanned

-----------------------------------------------------------------------------
(* Lemmas. *)

LEMMA SoundTypes ==
  ASSUME NEW id \in Ids
  PROVE  Sounds(id) \in Seq(Runes)
  <1> DEFINE piece == Installed[id + 1].piece
  <1>1. piece \in Seq(Runes)
    BY InstalledTypes DEF Ids
  <1>2. Len(piece) \in Nat /\ piece \in [1..Len(piece) -> Runes]
    BY <1>1
  <1> HIDE DEF piece
  <1>3. Spaced(piece) \in [1..Len(piece) -> Runes]
    BY <1>2 DEF Spaced, Runes
  <1>4. Spaced(piece) \in Seq(Runes)
    BY <1>2, <1>3, FunctionSequence
  <1>5. Unknown \in Seq(Runes)
    BY DEF Unknown, Runes
  <1>6. <<>> \in Seq(Runes)
    OBVIOUS
  <1> QED BY <1>4, <1>5, <1>6 DEF Sounds, piece

LEMMA InstalledRead ==
  ASSUME Loading, InUse
  PROVE  /\ file = Installed
         /\ blank = Len(Installed) - 1
         /\ \A id \in Ids : Written(id) = Sounds(id) /\ Heard(id) = Sounds(id)
  <1>1. Len(file) = Len(vocab) /\ Len(vocab) \in Nat /\ blank = Len(vocab) - 1 /\ blank >= 1
    BY DEF Loading, BlankLast
  <1>2. Accepted(file)
    BY <1>1 DEF Loading, Accepted
  <1>3. file = Installed
    BY <1>2, Undamaged DEF Loading
  <1>4. ASSUME NEW id \in Ids PROVE Written(id) = Sounds(id) /\ Heard(id) = Sounds(id)
    <2>1. id \in 0..(blank - 1) /\ id + 1 \in 1..Len(vocab)
      BY <1>1, <1>3, InstalledTypes DEF Ids
    <2>2. vocab[id + 1] = Installed[id + 1].piece
      BY <1>3, <2>1 DEF Loading
    <2> QED BY <2>1, <2>2 DEF Written, Heard, Sounds
  <1> QED BY <1>1, <1>3, <1>4

\* Beginnings are counted one by one.
LEMMA BeginsFinite ==
  ASSUME NEW s, Len(s) \in Nat, NEW p \in Nat
  PROVE  /\ IsFiniteSet(BeginsTo(s, p)) /\ Cardinality(BeginsTo(s, p)) \in Nat
         /\ \A i \in BeginsTo(s, p) :
              Cardinality(BeginsTo(s, i)) \in 1..Cardinality(BeginsTo(s, p))
  <1>1. ASSUME NEW q \in Nat PROVE IsFiniteSet(BeginsTo(s, q)) /\ Cardinality(BeginsTo(s, q)) \in Nat
    <2>1. BeginsTo(s, q) \subseteq 1..Len(s)
      BY DEF BeginsTo
    <2>2. IsFiniteSet(1..Len(s))
      BY FS_Interval
    <2> QED BY <2>1, <2>2, FS_Subset, FS_CardinalityType
  <1>2. ASSUME NEW i \in BeginsTo(s, p)
        PROVE  Cardinality(BeginsTo(s, i)) \in 1..Cardinality(BeginsTo(s, p))
    <2>1. i \in Nat /\ i <= p /\ i \in BeginsTo(s, i)
      BY DEF BeginsTo
    <2>2. BeginsTo(s, i) \subseteq BeginsTo(s, p)
      BY <2>1 DEF BeginsTo
    <2>3. Cardinality(BeginsTo(s, i)) <= Cardinality(BeginsTo(s, p))
      BY <1>1, <2>2, FS_Subset
    <2>4. Cardinality(BeginsTo(s, i)) # 0
      BY <1>1, <2>1, FS_EmptySet
    <2> QED BY <1>1, <2>1, <2>3, <2>4
  <1> QED BY <1>1, <1>2

LEMMA NextBegins ==
  ASSUME NEW s, Len(s) \in Nat, NEW p \in 0..(Len(s) - 1)
  PROVE  IF s[p + 1].rune # Space /\ (p > 0 => s[p].rune = Space)
         THEN /\ BeginsTo(s, p + 1) = BeginsTo(s, p) \cup {p + 1}
              /\ Cardinality(BeginsTo(s, p + 1)) = Cardinality(BeginsTo(s, p)) + 1
         ELSE BeginsTo(s, p + 1) = BeginsTo(s, p)
  <1>1. CASE s[p + 1].rune # Space /\ (p > 0 => s[p].rune = Space)
    <2>1. BeginsTo(s, p + 1) = BeginsTo(s, p) \cup {p + 1}
      BY <1>1 DEF BeginsTo
    <2>2. p + 1 \notin BeginsTo(s, p)
      BY DEF BeginsTo
    <2>3. IsFiniteSet(BeginsTo(s, p)) /\ Cardinality(BeginsTo(s, p)) \in Nat
      <3>1. p \in Nat
        OBVIOUS
      <3> QED BY <3>1, BeginsFinite
    <2>4. Cardinality(BeginsTo(s, p) \cup {p + 1}) = Cardinality(BeginsTo(s, p)) + 1
      BY <2>2, <2>3, FS_AddElement
    <2> QED BY <1>1, <2>1, <2>4
  <1>2. CASE ~(s[p + 1].rune # Space /\ (p > 0 => s[p].rune = Space))
    BY <1>2 DEF BeginsTo
  <1> QED BY <1>1, <1>2

LEMMA TokenTypes ==
  ASSUME NEW s \in Seq([id : Ids, sample : Nat]), NEW k \in 1..Len(s)
  PROVE  /\ s[k].id \in Ids /\ s[k].sample \in Nat
         /\ Sounds(s[k].id) \in Seq(Runes) /\ Len(Sounds(s[k].id)) \in Nat
  <1>1. s[k] \in [id : Ids, sample : Nat]
    BY SequenceElement
  <1>2. s[k].id \in Ids /\ s[k].sample \in Nat
    BY <1>1
  <1>3. Sounds(s[k].id) \in Seq(Runes)
    BY <1>2, SoundTypes
  <1> QED BY <1>2, <1>3

-----------------------------------------------------------------------------
(* Every step keeps it. *)

LEMMA WordsStart == WordsInit => WordsInv
  <1> SUFFICES ASSUME WordsInit PROVE WordsInv
    OBVIOUS
  <1> USE DEF WordsInit
  <1>1. Len(file) \in Nat
    BY FileTypes
  <1>2. Loading
    BY <1>1 DEF Loading, InUse
  <1>3. Laid
    BY DEF Laid, InUse
  <1>4. Scanned
    BY DEF Scanned
  <1> QED BY <1>2, <1>3, <1>4 DEF WordsInv

LEMMA ReadLineKeeps == ASSUME WordsInv, ReadLine PROVE WordsInv'
  <1> USE DEF WordsInv, ReadLine, wordVars
  <1>1. file \in Seq(Lines) /\ Len(file) \in Nat /\ Len(vocab) + 1 \in 1..Len(file)
    BY FileTypes DEF Loading
  <1>2. Line.piece \in Seq(Runes) /\ Line = file[Len(vocab) + 1]
    <2>1. Line \in Lines
      BY <1>1, SequenceElement DEF Line
    <2> QED BY <2>1 DEF Line, Lines
  <1>3. Line.id = Len(vocab)
    BY DEF Numbered
  <1>4. /\ vocab' \in Seq(Seq(Runes)) /\ Len(vocab') = Len(vocab) + 1
        /\ \A i \in 1..Len(vocab) : vocab'[i] = vocab[i]
        /\ vocab'[Len(vocab) + 1] = Line.piece
    BY <1>2 DEF Loading
  <1>5. \A i \in 1..Len(vocab') : file[i].id = i - 1 /\ vocab'[i] = file[i].piece
    BY <1>1, <1>2, <1>3, <1>4 DEF Loading
  <1>6. blank' \in Int /\ (blank' # -1 => blank' \in 0..(Len(vocab') - 1) /\ file[blank' + 1].piece = Blk)
    <2>1. CASE Line.piece = Blk
      BY <1>1, <1>2, <1>3, <1>4, <2>1
    <2>2. CASE Line.piece # Blk
      BY <1>1, <1>4, <2>2 DEF Loading
    <2> QED BY <2>1, <2>2
  <1>7. Loading'
    BY <1>1, <1>4, <1>5, <1>6 DEF Loading, InUse
  <1>8. Laid'
    BY DEF Laid, InUse
  <1>9. Scanned'
    BY DEF Scanned
  <1> QED BY <1>7, <1>8, <1>9

LEMMA LoadKeeps == ASSUME WordsInv, RefuseFile \/ Loaded PROVE WordsInv'
  <1> USE DEF WordsInv, wordVars
  <1>1. /\ phase = "load" /\ phase' \in {"refused", "ready"}
        /\ UNCHANGED <<file, vocab, blank, tokens, wordVars>>
        /\ phase' = "ready" => Len(vocab) = Len(file) /\ BlankLast
    BY DEF RefuseFile, Loaded
  <1>2. Loading'
    BY <1>1 DEF Loading, InUse, BlankLast
  <1>3. Laid'
    BY <1>1 DEF Laid, InUse
  <1>4. Scanned'
    BY <1>1 DEF Scanned, Seen
  <1> QED BY <1>2, <1>3, <1>4

LEMMA RecogniseKeeps ==
  ASSUME WordsInv, NEW id \in 0..Len(Installed), Recognise(id)
  PROVE  WordsInv'
  <1> USE DEF WordsInv, Recognise, wordVars
  <1>1. phase = "ready" /\ InUse /\ laid = <<>>
    BY DEF InUse, Scanned
  <1>2. id \in Ids
    BY <1>1, InstalledRead, InstalledTypes DEF Ids
  <1>3. tokens' \in Seq([id : Ids, sample : Nat]) /\ Len(tokens') = Len(tokens) + 1
    BY <1>2 DEF Laid
  <1>4. Loading'
    BY DEF Loading, InUse, BlankLast
  <1>5. Laid'
    BY <1>1, <1>3 DEF Laid, InUse
  <1>6. Scanned'
    <2>1. scanned = 0 /\ rune = 0 /\ inWord = FALSE /\ positions = <<>>
      BY <1>1 DEF Scanned
    <2>2. rune \in 0..Len(Sounds(tokens'[1].id)) /\ Len(tokens) \in Nat
      BY <1>3, <2>1, TokenTypes DEF Laid
    <2> QED BY <1>1, <1>3, <2>1, <2>2 DEF Scanned
  <1> QED BY <1>4, <1>5, <1>6

LEMMA RecognisedKeeps == ASSUME WordsInv, Recognised PROVE WordsInv'
  <1> USE DEF WordsInv, Recognised, wordVars
  <1>1. Loading'
    BY DEF Loading, InUse, BlankLast
  <1>2. Laid'
    BY DEF Laid, InUse
  <1>3. Scanned'
    BY DEF Scanned, Seen
  <1> QED BY <1>1, <1>2, <1>3

LEMMA DecodeKeeps == ASSUME WordsInv, Decode PROVE WordsInv'
  <1> USE DEF WordsInv
  <1>1. /\ phase = "decode" /\ InUse
        /\ UNCHANGED <<file, vocab, blank, tokens, scanned, rune, inWord, positions>>
    BY DEF Decode, InUse
  <1>2. scanned = 0 /\ rune = 0 /\ inWord = FALSE /\ positions = <<>>
    BY <1>1 DEF Scanned
  <1>3. CASE /\ Len(laid) < Len(tokens)
             /\ LET token == tokens[Len(laid) + 1]
                IN  text' = text \o Timed(Written(token.id), token.sample)
             /\ laid' = Append(laid, Len(text))
             /\ UNCHANGED phase
    <2> DEFINE n == Len(laid)
               token == tokens[n + 1]
               sound == Sounds(token.id)
               added == Timed(sound, token.sample)
               Signs == [rune : Runes, sample : Nat]
    <2>1. n \in Nat /\ Len(tokens) \in Nat /\ n + 1 \in 1..Len(tokens)
      BY <1>3 DEF Laid
    <2>2. token.id \in Ids /\ token.sample \in Nat /\ sound \in Seq(Runes) /\ Len(sound) \in Nat
      BY <2>1, TokenTypes DEF Laid
    <2>3. text' = text \o added
      BY <1>1, <1>3, <2>2, InstalledRead
    <2>4. added \in Seq(Signs) /\ Len(added) = Len(sound)
          /\ \A j \in 1..Len(sound) : added[j] = [rune |-> sound[j], sample |-> token.sample]
      <3> HIDE DEF sound, token
      <3>1. DOMAIN sound = 1..Len(sound) /\ \A j \in 1..Len(sound) : sound[j] \in Runes
        BY <2>2
      <3>2. added = [j \in 1..Len(sound) |-> [rune |-> sound[j], sample |-> token.sample]]
        BY <3>1 DEF Timed
      <3>3. added \in [1..Len(sound) -> Signs]
        BY <2>2, <3>1, <3>2
      <3> HIDE DEF Signs, added
      <3>4. added \in Seq(Signs)
        BY <2>2, <3>3, FunctionSequence
      <3>5. Len(added) = Len(sound)
        BY <2>2, <3>2
      <3> QED BY <3>2, <3>4, <3>5
    <2>5. text \in Seq(Signs) /\ Len(text) \in Nat
      BY DEF Laid
    <2> HIDE DEF added, sound, token, Signs
    <2>6. /\ text' \in Seq(Signs) /\ Len(text') = Len(text) + Len(sound)
          /\ \A i \in 1..Len(text) : text'[i] = text[i]
          /\ \A j \in 1..Len(sound) : text'[Len(text) + j] = added[j]
      BY <2>2, <2>3, <2>4, <2>5
    <2>7. /\ laid' \in Seq(Nat) /\ Len(laid') = n + 1 /\ laid'[n + 1] = Len(text)
          /\ \A k \in 1..n : laid'[k] = laid[k]
      BY <1>3, <2>5 DEF Laid
    <2>8. laid'[1] = 0 /\ laid' # <<>>
      <3>1. CASE laid = <<>>
        <4>1. n = 0 /\ Len(text) = 0
          BY <3>1 DEF Laid
        <4>2. laid'[1] = Len(text) /\ Len(laid') = 1
          BY <2>7, <4>1
        <4> QED BY <4>1, <4>2
      <3>2. CASE laid # <<>>
        <4>1. 1 \in 1..n
          BY <3>2 DEF Laid
        <4> QED BY <2>7, <3>2, <4>1 DEF Laid
      <3> QED BY <3>1, <3>2
    <2>9. ASSUME NEW k \in 1..Len(laid')
          PROVE  LET heard == Sounds(tokens[k].id)
                 IN  /\ laid'[k] + Len(heard) <= Len(text')
                     /\ laid'[k] + Len(heard) = IF k = Len(laid') THEN Len(text') ELSE laid'[k + 1]
                     /\ \A j \in 1..Len(heard) :
                           text'[laid'[k] + j] = [rune |-> heard[j], sample |-> tokens[k].sample]
      <3> DEFINE heard == Sounds(tokens[k].id)
      <3>1. CASE k = n + 1
        <4>1. heard = sound
          BY <3>1 DEF sound, token
        <4>2. \A j \in 1..Len(sound) :
                 text'[Len(text) + j] = [rune |-> sound[j], sample |-> tokens[k].sample]
          BY <2>4, <2>6, <3>1 DEF token
        <4>3. laid'[k] = Len(text) /\ k = Len(laid')
          BY <2>7, <3>1
        <4> HIDE DEF heard
        <4>4. /\ laid'[k] + Len(heard) <= Len(text')
              /\ laid'[k] + Len(heard) = IF k = Len(laid') THEN Len(text') ELSE laid'[k + 1]
          BY <2>2, <2>5, <2>6, <4>1, <4>3
        <4>5. \A j \in 1..Len(heard) :
                 text'[laid'[k] + j] = [rune |-> heard[j], sample |-> tokens[k].sample]
          BY <4>1, <4>2, <4>3
        <4> QED BY <4>4, <4>5 DEF heard
      <3>2. CASE k \in 1..n
        <4>1. /\ laid[k] + Len(heard) <= Len(text)
              /\ laid[k] + Len(heard) = IF k = n THEN Len(text) ELSE laid[k + 1]
              /\ \A j \in 1..Len(heard) :
                    text[laid[k] + j] = [rune |-> heard[j], sample |-> tokens[k].sample]
          BY <3>2 DEF Laid
        <4>2. Len(heard) \in Nat /\ laid[k] \in Nat
          <5>1. k \in 1..Len(tokens) /\ k \in 1..Len(laid)
            BY <2>1, <3>2
          <5>2. laid[k] \in Nat
            BY <5>1, SequenceElement DEF Laid
          <5>3. Len(heard) \in Nat
            BY <5>1, TokenTypes DEF Laid
          <5> QED BY <5>2, <5>3
        <4> HIDE DEF heard
        <4>3. \A j \in 1..Len(heard) : laid[k] + j \in 1..Len(text)
          BY <2>5, <4>1, <4>2
        <4>4. laid[k] + Len(heard) = laid'[k + 1]
          <5>1. CASE k = n
            BY <2>1, <2>7, <4>1, <5>1
          <5>2. CASE k < n
            <6>1. k + 1 \in 1..n
              BY <2>1, <3>2, <5>2
            <6> QED BY <2>1, <2>7, <4>1, <5>2, <6>1
          <5> QED BY <2>1, <3>2, <5>1, <5>2
        <4>5. laid'[k] = laid[k] /\ k # Len(laid')
          BY <2>1, <2>7, <3>2
        <4>6. /\ laid'[k] + Len(heard) <= Len(text')
              /\ laid'[k] + Len(heard) = IF k = Len(laid') THEN Len(text') ELSE laid'[k + 1]
          BY <2>2, <2>5, <2>6, <4>1, <4>2, <4>4, <4>5
        <4>7. \A j \in 1..Len(heard) :
                 text'[laid'[k] + j] = [rune |-> heard[j], sample |-> tokens[k].sample]
          BY <2>6, <4>1, <4>3, <4>5
        <4> QED BY <4>6, <4>7 DEF heard
      <3> QED BY <2>1, <2>7, <3>1, <3>2
    <2>10. Laid'
      <3>1. tokens' \in Seq([id : Ids, sample : Nat]) /\ (~InUse' => tokens' = <<>>)
        BY <1>1, <1>3 DEF Laid, InUse
      <3>2. text' \in Seq([rune : Runes, sample : Nat])
        BY <2>6 DEF Signs
      <3>3. laid' \in Seq(Nat) /\ Len(laid') <= Len(tokens')
        BY <1>1, <2>1, <2>7
      <3>4. \A k \in 1..Len(laid') :
              LET heard == Sounds(tokens'[k].id)
              IN  /\ laid'[k] + Len(heard) <= Len(text')
                  /\ laid'[k] + Len(heard) = IF k = Len(laid') THEN Len(text') ELSE laid'[k + 1]
                  /\ \A j \in 1..Len(heard) :
                        text'[laid'[k] + j] = [rune |-> heard[j], sample |-> tokens'[k].sample]
        BY <1>1, <2>9
      <3> QED BY <2>8, <3>1, <3>2, <3>3, <3>4 DEF Laid
    <2>11. Loading'
      BY <1>1, <1>3 DEF Loading, InUse, BlankLast
    <2>12. Scanned'
      BY <1>1, <1>2, <1>3 DEF Scanned
    <2> QED BY <2>10, <2>11, <2>12
  <1>4. CASE /\ Len(laid) = Len(tokens)
             /\ phase' = "scan"
             /\ UNCHANGED <<text, laid>>
    <2>1. Loading'
      BY <1>1, <1>4 DEF Loading, InUse, BlankLast
    <2>2. Laid'
      BY <1>1, <1>4 DEF Laid, InUse
    <2>3. Seen' = 0
      <3>1. CASE laid = <<>>
        BY <1>1, <1>2, <1>4, <3>1 DEF Seen, Laid
      <3>2. CASE laid # <<>>
        BY <1>1, <1>2, <1>4, <3>2 DEF Seen, Laid
      <3> QED BY <3>1, <3>2
    <2>4. BeginsTo(text, 0) = {} /\ Cardinality(BeginsTo(text, 0)) = 0
      <3>1. BeginsTo(text, 0) = {}
        BY DEF BeginsTo
      <3> QED BY <3>1, FS_EmptySet
    <2>5. Scanned'
      <3>1. Len(laid') = Len(tokens') /\ phase' = "scan"
        BY <1>1, <1>4
      <3>2. scanned' \in 0..Len(tokens') /\ positions' \in Seq(Nat)
        BY <1>1, <1>2 DEF Laid
      <3>3. rune' \in IF scanned' < Len(tokens')
                      THEN 0..Len(Sounds(tokens'[scanned' + 1].id)) ELSE {0}
        BY <1>1, <1>2 DEF Scanned
      <3>4. inWord' = (Seen' > 0 /\ text'[Seen'].rune # Space)
        <4>1. ~(Seen' > 0)
          BY <2>3
        <4>2. inWord' = FALSE
          BY <1>1, <1>2
        <4> QED BY <4>1, <4>2, Zenon
      <3>5. /\ BeginsTo(text', Seen') = {}
            /\ Len(positions') = Cardinality(BeginsTo(text', Seen'))
        BY <1>1, <1>2, <1>4, <2>3, <2>4
      <3> QED BY <3>1, <3>2, <3>3, <3>4, <3>5 DEF Scanned
    <2> QED BY <2>1, <2>2, <2>5
  <1> QED BY <1>3, <1>4 DEF Decode

\* What wordPositions looks at next is what the text has there.
LEMMA Alike ==
  ASSUME WordsInv, phase = "scan", scanned < Len(tokens)
  PROVE  LET token == tokens[scanned + 1]
             sound == Sounds(token.id)
         IN  /\ Heard(token.id) = sound /\ Len(sound) \in Nat /\ token.sample \in Nat
             /\ scanned \in Nat /\ Len(tokens) \in Nat /\ Len(text) \in Nat
             /\ rune \in 0..Len(sound) /\ Seen = laid[scanned + 1] + rune
             /\ laid[scanned + 1] \in Nat /\ laid[scanned + 1] + Len(sound) <= Len(text)
             /\ laid[scanned + 1] + Len(sound)
                  = IF scanned + 1 = Len(tokens) THEN Len(text) ELSE laid[scanned + 2]
             /\ rune < Len(sound) =>
                  text[Seen + 1] = [rune |-> sound[rune + 1], sample |-> token.sample]
  <1> USE DEF WordsInv
  <1> DEFINE token == tokens[scanned + 1]
             sound == Sounds(token.id)
  <1>1. Len(laid) = Len(tokens) /\ scanned \in Nat /\ Len(tokens) \in Nat /\ Len(text) \in Nat
    BY DEF Scanned, Laid
  <1>2. scanned + 1 \in 1..Len(tokens)
    BY <1>1
  <1>3. token.id \in Ids /\ token.sample \in Nat /\ Len(sound) \in Nat
    BY <1>2, TokenTypes DEF Laid
  <1>4. Heard(token.id) = sound
    BY <1>3, InstalledRead DEF InUse
  <1>5. rune \in 0..Len(sound) /\ Seen = laid[scanned + 1] + rune
    BY DEF Scanned, Seen
  <1>6. laid[scanned + 1] \in Nat
    BY <1>1, <1>2, SequenceElement DEF Laid
  <1>7. /\ laid[scanned + 1] + Len(sound) <= Len(text)
        /\ laid[scanned + 1] + Len(sound)
             = IF scanned + 1 = Len(tokens) THEN Len(text) ELSE laid[(scanned + 1) + 1]
        /\ \A j \in 1..Len(sound) :
              text[laid[scanned + 1] + j] = [rune |-> sound[j], sample |-> token.sample]
    BY <1>1, <1>2 DEF Laid
  <1> HIDE DEF sound, token
  <1>8. rune < Len(sound) =>
          text[Seen + 1] = [rune |-> sound[rune + 1], sample |-> token.sample]
    <2> SUFFICES ASSUME rune < Len(sound)
                 PROVE  text[Seen + 1] = [rune |-> sound[rune + 1], sample |-> token.sample]
      OBVIOUS
    <2>1. rune + 1 \in 1..Len(sound) /\ Seen + 1 = laid[scanned + 1] + (rune + 1)
      BY <1>3, <1>5, <1>6
    <2> QED BY <1>7, <2>1
  <1>9. (scanned + 1) + 1 = scanned + 2
    BY <1>1
  <1> QED BY <1>1, <1>3, <1>4, <1>5, <1>6, <1>7, <1>8, <1>9 DEF sound, token

LEMMA ScanRuneKeeps == ASSUME WordsInv, ScanRune PROVE WordsInv'
  <1> DEFINE token == tokens[scanned + 1]
             sound == Sounds(token.id)
             r == sound[rune + 1]
             p == Seen
  <1>1. phase = "scan" /\ scanned < Len(tokens)
    BY DEF ScanRune
  <1>2. /\ Heard(token.id) = sound /\ Len(sound) \in Nat /\ token.sample \in Nat
        /\ Len(text) \in Nat
        /\ rune \in 0..Len(sound) /\ p = laid[scanned + 1] + rune
        /\ laid[scanned + 1] \in Nat /\ laid[scanned + 1] + Len(sound) <= Len(text)
        /\ rune < Len(sound) => text[p + 1] = [rune |-> r, sample |-> token.sample]
    BY <1>1, Alike
  <1>3. /\ rune < Len(sound) /\ rune' = rune + 1
        /\ inWord' = (r # Space)
        /\ positions' = IF r # Space /\ ~inWord THEN Append(positions, token.sample) ELSE positions
        /\ UNCHANGED <<file, vocab, blank, phase, tokens, text, laid, scanned>>
    BY <1>2 DEF ScanRune
  <1>4. Seen' = laid[scanned + 1] + (rune + 1)
    BY <1>1, <1>3 DEF Seen
  <1> HIDE DEF token, sound, r, p
  <1>5. p \in 0..(Len(text) - 1) /\ p \in Nat /\ p + 1 > 0 /\ Seen' = p + 1
        /\ text[p + 1].rune = r /\ text[p + 1].sample = token.sample
    <2>1. p \in Nat /\ p + 1 <= Len(text)
      BY <1>2, <1>3
    <2>2. Seen' = p + 1
      BY <1>2, <1>4
    <2>3. text[p + 1] = [rune |-> r, sample |-> token.sample]
      BY <1>2, <1>3
    <2> QED BY <1>2, <2>1, <2>2, <2>3
  <1>6. /\ inWord = (p > 0 /\ text[p].rune # Space)
        /\ positions \in Seq(Nat) /\ Len(positions) \in Nat
        /\ Len(positions) = Cardinality(BeginsTo(text, p))
        /\ \A i \in BeginsTo(text, p) : positions[Cardinality(BeginsTo(text, i))] = text[i].sample
    BY <1>1 DEF WordsInv, Scanned, p
  <1>7. \A i \in BeginsTo(text, p) :
          Cardinality(BeginsTo(text, i)) \in 1..Cardinality(BeginsTo(text, p))
    BY <1>2, <1>5, BeginsFinite
  <1>8. /\ positions' \in Seq(Nat)
        /\ Len(positions') = Cardinality(BeginsTo(text, p + 1))
        /\ \A i \in BeginsTo(text, p + 1) :
              positions'[Cardinality(BeginsTo(text, i))] = text[i].sample
    <2>1. CASE r # Space /\ ~inWord
      <3>1. text[p + 1].rune # Space /\ (p > 0 => text[p].rune = Space)
        BY <1>5, <1>6, <2>1
      <3>2. /\ BeginsTo(text, p + 1) = BeginsTo(text, p) \cup {p + 1}
            /\ Cardinality(BeginsTo(text, p + 1)) = Cardinality(BeginsTo(text, p)) + 1
        BY <1>2, <1>5, <3>1, NextBegins
      <3>3. positions' = Append(positions, token.sample)
        BY <1>3, <2>1
      <3>4. /\ positions' \in Seq(Nat) /\ Len(positions') = Len(positions) + 1
            /\ positions'[Len(positions) + 1] = token.sample
            /\ \A k \in 1..Len(positions) : positions'[k] = positions[k]
        BY <1>2, <1>6, <3>3
      <3>5. ASSUME NEW i \in BeginsTo(text, p + 1)
            PROVE  positions'[Cardinality(BeginsTo(text, i))] = text[i].sample
        <4>1. CASE i = p + 1
          BY <1>5, <1>6, <3>2, <3>4, <4>1
        <4>2. CASE i \in BeginsTo(text, p)
          BY <1>6, <1>7, <3>4, <4>2
        <4> QED BY <3>2, <4>1, <4>2
      <3> QED BY <1>6, <3>2, <3>4, <3>5
    <2>2. CASE ~(r # Space /\ ~inWord)
      <3>1. ~(text[p + 1].rune # Space /\ (p > 0 => text[p].rune = Space))
        BY <1>5, <1>6, <2>2
      <3>2. BeginsTo(text, p + 1) = BeginsTo(text, p)
        BY <1>2, <1>5, <3>1, NextBegins
      <3>3. positions' = positions
        BY <1>3, <2>2
      <3> QED BY <1>6, <3>2, <3>3
    <2> QED BY <2>1, <2>2
  <1>9. inWord' = (Seen' > 0 /\ text'[Seen'].rune # Space)
    <2>1. Seen' > 0 /\ text'[Seen'].rune = r
      BY <1>3, <1>5
    <2> QED BY <1>3, <2>1, Zenon
  <1>10. rune' \in IF scanned' < Len(tokens')
                   THEN 0..Len(Sounds(tokens'[scanned' + 1].id)) ELSE {0}
    <2>1. rune + 1 \in 0..Len(sound)
      BY <1>2, <1>3
    <2> QED BY <1>1, <1>3, <2>1 DEF sound, token
  <1>11. Scanned'
    BY <1>1, <1>3, <1>5, <1>8, <1>9, <1>10 DEF WordsInv, Scanned
  <1>12. Loading'
    BY <1>3 DEF WordsInv, Loading, InUse, BlankLast
  <1>13. Laid'
    BY <1>3 DEF WordsInv, Laid, InUse
  <1> QED BY <1>11, <1>12, <1>13 DEF WordsInv

LEMMA NextTokenKeeps == ASSUME WordsInv, NextToken PROVE WordsInv'
  <1>1. /\ phase = "scan" /\ scanned < Len(tokens)
        /\ scanned' = scanned + 1 /\ rune' = 0
        /\ UNCHANGED <<file, vocab, blank, phase, tokens, text, laid, inWord, positions>>
    BY DEF NextToken
  <1>2. scanned' \in 0..Len(tokens) /\ rune' = 0 /\ Seen' = Seen
    <2> DEFINE sound == Sounds(tokens[scanned + 1].id)
    <2>1. /\ scanned \in Nat /\ Len(tokens) \in Nat
          /\ Seen = laid[scanned + 1] + rune /\ rune = Len(sound)
          /\ laid[scanned + 1] + Len(sound)
               = IF scanned + 1 = Len(tokens) THEN Len(text) ELSE laid[scanned + 2]
          /\ Len(text) \in Nat
      BY <1>1, Alike DEF NextToken
    <2> HIDE DEF sound
    <2>2. CASE scanned + 1 = Len(tokens)
      BY <1>1, <2>1, <2>2 DEF Seen
    <2>3. CASE scanned + 1 # Len(tokens)
      <3>1. scanned + 1 < Len(tokens) /\ (scanned + 1) + 1 = scanned + 2 /\ scanned + 2 \in 1..Len(laid)
        BY <1>1, <2>1, <2>3 DEF WordsInv, Scanned
      <3>2. laid[scanned + 2] \in Nat
        BY <3>1, SequenceElement DEF WordsInv, Laid
      <3>3. Seen' = laid[scanned + 2]
        BY <1>1, <2>1, <3>1, <3>2 DEF Seen
      <3> QED BY <1>1, <2>1, <2>3, <3>1, <3>3
    <2> QED BY <2>2, <2>3
  <1>3. rune' \in IF scanned' < Len(tokens')
                  THEN 0..Len(Sounds(tokens'[scanned' + 1].id)) ELSE {0}
    <2>1. CASE scanned' < Len(tokens)
      <3>1. scanned' + 1 \in 1..Len(tokens)
        BY <1>1, <1>2, <2>1 DEF WordsInv, Laid
      <3>2. Len(Sounds(tokens[scanned' + 1].id)) \in Nat
        BY <3>1, TokenTypes DEF WordsInv, Laid
      <3> QED BY <1>1, <1>2, <3>2
    <2> QED BY <1>1, <1>2, <2>1
  <1>4. Scanned'
    BY <1>1, <1>2, <1>3 DEF WordsInv, Scanned
  <1>5. Loading'
    BY <1>1 DEF WordsInv, Loading, InUse, BlankLast
  <1>6. Laid'
    BY <1>1 DEF WordsInv, Laid, InUse
  <1> QED BY <1>4, <1>5, <1>6 DEF WordsInv

LEMMA ToldKeeps == ASSUME WordsInv, Told PROVE WordsInv'
  <1> USE DEF WordsInv, Told, wordVars
  <1>1. Loading'
    BY DEF Loading, InUse, BlankLast
  <1>2. Laid'
    BY DEF Laid, InUse
  <1>3. Scanned'
    BY DEF Scanned, Seen
  <1> QED BY <1>1, <1>2, <1>3

-----------------------------------------------------------------------------
(* The theorems. *)

\* The vocabulary in use is the installed one, and decode and wordPositions
\* agree on the tokens they have gone through.
THEOREM WordsInvariance == WordsSpec => []WordsInv
  <1>1. WordsInv /\ [WordsNext]_wordsVars => WordsInv'
    <2> SUFFICES ASSUME WordsInv, [WordsNext]_wordsVars PROVE WordsInv'
      OBVIOUS
    <2>1. CASE ReadLine
      BY <2>1, ReadLineKeeps
    <2>2. CASE RefuseFile \/ Loaded
      BY <2>2, LoadKeeps
    <2>3. ASSUME NEW id \in 0..Len(Installed), Recognise(id) PROVE WordsInv'
      BY <2>3, RecogniseKeeps
    <2>4. CASE Recognised
      BY <2>4, RecognisedKeeps
    <2>5. CASE Decode
      BY <2>5, DecodeKeeps
    <2>6. CASE ScanRune
      BY <2>6, ScanRuneKeeps
    <2>7. CASE NextToken
      BY <2>7, NextTokenKeeps
    <2>8. CASE Told
      BY <2>8, ToldKeeps
    <2>9. CASE UNCHANGED wordsVars
      <3> USE <2>9 DEF WordsInv, wordsVars, wordVars
      <3>1. Loading'
        BY DEF Loading, InUse, BlankLast
      <3>2. Laid'
        BY DEF Laid, InUse
      <3>3. Scanned'
        BY DEF Scanned, Seen
      <3> QED BY <3>1, <3>2, <3>3
    <2> QED BY <2>1, <2>2, <2>3, <2>4, <2>5, <2>6, <2>7, <2>8, <2>9 DEF WordsNext
  <1> QED BY <1>1, WordsStart, PTL DEF WordsSpec

\* loadVocab lets no vocabulary pass but the installed one, whichever line of
\* whichever vocabulary was damaged.
THEOREM OnlyInstalledUsed == WordsSpec => []DamageNoticed
  <1>1. WordsInv => DamageNoticed
    BY InstalledRead DEF WordsInv, DamageNoticed, InUse
  <1> QED BY <1>1, WordsInvariance, PTL

\* wordPositions finds the words that strings.Fields finds in the text, for
\* every vocabulary and every sequence of tokens.
THEOREM WordsFound == WordsSpec => []WordsTimed
  <1>1. WordsInv => WordsTimed
    <2> SUFFICES ASSUME WordsInv, phase = "told"
                 PROVE  /\ Len(positions) = Cardinality(Begins)
                        /\ \A i \in Begins :
                             positions[Cardinality({j \in Begins : j <= i})] = text[i].sample
      BY DEF WordsTimed
    <2>1. Len(text) \in Nat /\ Seen = Len(text)
      BY DEF WordsInv, Laid, Scanned, Seen
    <2>2. Begins = BeginsTo(text, Len(text))
      <3>1. CASE Cut = 0
        BY <2>1, <3>1 DEF Begins, BeginsTo
      <3>2. CASE Cut = 1
        <4>1. text[1].rune = Space
          BY <3>2 DEF Cut
        <4> QED BY <2>1, <3>2, <4>1 DEF Begins, BeginsTo
      <3> QED BY <3>1, <3>2 DEF Cut
    <2>3. \A i \in Begins : {j \in Begins : j <= i} = BeginsTo(text, i)
      <3>1. \A i \in BeginsTo(text, Len(text)) :
              {j \in BeginsTo(text, Len(text)) : j <= i} = BeginsTo(text, i)
        BY <2>1 DEF BeginsTo
      <3> QED BY <2>2, <3>1
    <2> QED BY <2>1, <2>2, <2>3 DEF WordsInv, Scanned
  <1> QED BY <1>1, WordsInvariance, PTL
=============================================================================
