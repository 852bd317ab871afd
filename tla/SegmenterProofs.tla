--------------------------- MODULE SegmenterProofs ---------------------------
(* What Segmenter.tla states, proved for every recording and configuration. *)
EXTENDS Segmenter, TLAPS

\* Where the loop is at the start of a frame.
Here == Lesser(pos, Samples)

\* The open window began before this frame and is shorter than the limit, and
\* everything remembered lies behind.
LoopInv ==
    /\ start <= Here /\ start >= -1
    /\ start >= 0 => Here - start < Chunk
    /\ lastVoice <= Here
    /\ silenceAt <= Here
    /\ previousEnd <= Here
    /\ start >= 0 => start >= previousEnd - Greater(Overlap, Pad)

\* A voiced sample is read already, or lies in the open window, which reaches
\* at least to the end of the last voiced frame.
VoiceKept ==
    heard => /\ probe < lastVoice
             /\ read \/ (phase = "scan" /\ start >= 0 /\ start <= probe)

IInv == TypeOK /\ (phase = "scan" => LoopInv) /\ (phase # "failed" => VoiceKept)
        /\ WindowBounded /\ RereadBounded

-----------------------------------------------------------------------------
LEMMA Halves == \A n \in Nat : /\ n \div 2 \in Nat
                               /\ 2 * (n \div 2) <= n
                               /\ n <= 2 * (n \div 2) + 1
  OBVIOUS

\* A forced cut leaves more than a frame beyond half of the window, and never
\* lies after the limit.
LEMMA CutLies ==
  ASSUME NEW a \in Nat, NEW stop \in CutPoints(a, a + Chunk)
  PROVE  /\ stop \in Nat
         /\ stop <= a + Chunk
         /\ stop - Overlap >= a + Frame
  <1>1. /\ Chunk \div 2 \in Nat /\ Width \div 2 \in Nat
        /\ 2 * (Chunk \div 2) <= Chunk /\ Chunk <= 2 * (Chunk \div 2) + 1
        /\ 2 * (Width \div 2) <= Width /\ Width <= 2 * (Width \div 2) + 1
    BY Halves, WindowAssumption, FrameAssumption
  <1> DEFINE half == Chunk \div 2
             quarter == Width \div 2
             limit == a + Chunk
             from == Greater(a + (limit - a) \div 2, limit - Look)
  <1>3. stop \in {limit} \cup ((from + quarter)..(limit - Width + quarter))
    BY Zenon DEF CutPoints, QuietBoundaries
  <1>4. from \in Int /\ from >= a + half
    <2>1. limit - a = Chunk /\ limit \in Int
      BY WindowAssumption
    <2>2. from = Greater(a + half, limit - Look)
      BY <2>1, Zenon
    <2> QED BY <2>1, <2>2, <1>1, FrameAssumption DEF Greater
  <1>5. Overlap <= half /\ Frame <= quarter
    BY <1>1, WindowAssumption, FrameAssumption
  <1> HIDE DEF half, quarter, from
  <1>6. half \in Nat /\ quarter \in Nat /\ 2 * quarter <= Width /\ 2 * half <= Chunk
    BY <1>1 DEF half, quarter
  <1>7. CASE stop = limit
    BY <1>7, <1>5, <1>6, WindowAssumption, FrameAssumption
  <1>8. CASE stop \in (from + quarter)..(limit - Width + quarter)
    BY <1>8, <1>4, <1>5, <1>6, WindowAssumption, FrameAssumption
  <1> QED BY <1>3, <1>7, <1>8

-----------------------------------------------------------------------------
(* One frame, before it is decided what follows it. *)

\* What the VAD's verdict does to the open window.
LEMMA Heard ==
  ASSUME TypeOK, LoopInv, pos < Samples, NEW sound \in Sounds
  PROVE  /\ End \in Position /\ pos < End /\ End <= pos + Frame
         /\ Here = pos
         /\ StartAfter(sound) \in Maybe /\ StartAfter(sound) <= pos
         /\ StartAfter(sound) >= 0 =>
              /\ End - StartAfter(sound) < Chunk + Frame
              /\ StartAfter(sound) >= previousEnd - Greater(Overlap, Pad)
         /\ VoiceAfter(sound) \in Position
         /\ lastVoice <= VoiceAfter(sound) /\ VoiceAfter(sound) <= End
         /\ SilenceAfter(sound) \in Maybe /\ SilenceAfter(sound) <= End
  <1> USE WindowAssumption, FrameAssumption DEF TypeOK, Position, Maybe
  <1>1. End \in Position /\ pos < End /\ End <= pos + Frame
    BY DEF End, Lesser
  <1>2. Here = pos
    BY DEF Here, Lesser
  <1>3. StartAfter(sound) \in Maybe /\ StartAfter(sound) <= pos
    BY <1>2 DEF StartAfter, LoopInv, Greater
  <1>4. ASSUME StartAfter(sound) >= 0
        PROVE  /\ End - StartAfter(sound) < Chunk + Frame
               /\ StartAfter(sound) >= previousEnd - Greater(Overlap, Pad)
    <2>1. CASE start >= 0
      BY <2>1, <1>1, <1>2 DEF StartAfter, LoopInv
    <2>2. CASE start < 0
      <3>1. StartAfter(sound) = Greater(0, pos - Pad)
        BY <2>2, <1>4 DEF StartAfter
      <3>2. StartAfter(sound) >= pos - Pad
        BY <3>1 DEF Greater
      <3>3. previousEnd <= pos
        BY <1>2 DEF LoopInv
      <3> QED BY <3>2, <3>3, <1>1, <1>3 DEF Greater
    <2> QED BY <2>1, <2>2
  <1>5. /\ VoiceAfter(sound) \in Position
        /\ lastVoice <= VoiceAfter(sound) /\ VoiceAfter(sound) <= End
    BY <1>1, <1>2 DEF VoiceAfter, LoopInv
  <1>6. SilenceAfter(sound) \in Maybe /\ SilenceAfter(sound) <= End
    <2>1. silenceAt <= End /\ pos <= End /\ pos \in Maybe
      BY <1>1, <1>2 DEF LoopInv
    <2> QED BY <2>1, <1>1 DEF SilenceAfter
  <1> QED BY <1>1, <1>2, <1>3, <1>4, <1>5, <1>6

\* A voiced sample that is not read yet lies in the window that is open now.
LEMMA HeardKept ==
  ASSUME TypeOK, LoopInv, VoiceKept, NEW sound \in Sounds, Listen(sound)
  PROVE  heard' => /\ probe < VoiceAfter(sound)
                   /\ \/ read
                      \/ StartAfter(sound) >= 0 /\ StartAfter(sound) <= probe
  <1> SUFFICES ASSUME heard'
               PROVE  /\ probe < VoiceAfter(sound)
                      /\ \/ read
                         \/ StartAfter(sound) >= 0 /\ StartAfter(sound) <= probe
    OBVIOUS
  <1>1. pos < Samples
    BY DEF Listen
  <1>2. /\ StartAfter(sound) <= pos /\ StartAfter(sound) \in Maybe
        /\ lastVoice <= VoiceAfter(sound) /\ VoiceAfter(sound) \in Position
    BY <1>1, Heard
  <1> USE WindowAssumption DEF TypeOK, Position, Maybe
  <1>3. CASE heard
    <2>1. probe < lastVoice /\ (read \/ (start >= 0 /\ start <= probe))
      BY <1>3 DEF VoiceKept
    <2>2. start >= 0 => StartAfter(sound) = start
      BY DEF StartAfter
    <2> QED BY <2>1, <2>2, <1>2
  <1>4. CASE ~heard
    <2>1. sound = "voiced" /\ pos <= probe /\ probe < End
      BY <1>4 DEF Listen
    <2>2. StartAfter(sound) >= 0
      BY <2>1, FrameAssumption DEF StartAfter, Greater
    <2> QED BY <2>1, <2>2, <1>2 DEF VoiceAfter
  <1> QED BY <1>3, <1>4

\* A window that is given to the recogniser, or is empty.
LEMMA Emitted ==
  ASSUME TypeOK, WindowBounded, RereadBounded,
         NEW a \in Position, NEW b \in Position, Emit(a, b),
         b - a < Chunk + Frame, a >= previousEnd - Greater(Overlap, Pad)
  PROVE  /\ window' \in Windows /\ previousEnd' \in Maybe /\ read' \in BOOLEAN
         /\ WindowBounded' /\ RereadBounded'
         /\ previousEnd' = previousEnd \/ previousEnd' = b
         /\ b > a => previousEnd' = b
         /\ read => read'
         /\ a <= probe /\ probe < b => read'
  <1> USE WindowAssumption, FrameAssumption
      DEF TypeOK, Position, Maybe, Windows, WindowBounded, RereadBounded
  <1>1. CASE b <= a
    BY <1>1 DEF Emit
  <1>2. CASE b > a
    <2>1. /\ window' = [a |-> a, b |-> b, prior |-> previousEnd]
          /\ previousEnd' = b
          /\ read' = (read \/ (a <= probe /\ probe < b))
      BY <1>2 DEF Emit
    <2>2. window'.a = a /\ window'.b = b /\ window'.prior = previousEnd
      BY <2>1
    <2>3. read' \in BOOLEAN
      BY <2>1
    <2>4. window' \in Windows
      BY <2>1
    <2>5. WindowBounded' /\ RereadBounded'
      BY <2>2, <1>2
    <2>6. (read => read') /\ (a <= probe /\ probe < b => read')
      BY <2>1, Zenon
    <2> QED BY <2>1, <2>3, <2>4, <2>5, <2>6, <1>2
  <1> QED BY <1>1, <1>2

-----------------------------------------------------------------------------
(* Every step keeps the invariant. *)

LEMMA GoOnKeeps ==
  ASSUME IInv, NEW sound \in Sounds, GoOn(sound)
  PROVE  IInv'
  <1>1. /\ phase = "scan" /\ phase' = "scan" /\ pos < Samples /\ Listen(sound)
        /\ pos' = pos + Frame /\ lastVoice' = VoiceAfter(sound)
        /\ start' = StartAfter(sound) /\ silenceAt' = SilenceAfter(sound)
        /\ UNCHANGED <<window, previousEnd, read, probe>>
        /\ StartAfter(sound) >= 0 => End - StartAfter(sound) < Chunk
        /\ heard' \in BOOLEAN
    <2>1. heard' \in BOOLEAN
      BY DEF GoOn, Listen, IInv, TypeOK
    <2>2. StartAfter(sound) >= 0 => End - StartAfter(sound) < Chunk
      <3>1. TypeOK /\ LoopInv /\ pos < Samples
        BY DEF IInv, GoOn, Listen
      <3>2. StartAfter(sound) \in Maybe /\ End \in Position
        BY <3>1, Heard
      <3> QED BY <3>2, WindowAssumption
            DEF GoOn, LimitReached, Maybe, Position
    <2> QED BY <2>1, <2>2 DEF GoOn, Listen, EmitNothing
  <1>2. TypeOK /\ LoopInv /\ VoiceKept /\ WindowBounded /\ RereadBounded
    BY <1>1 DEF IInv
  <1> USE WindowAssumption, FrameAssumption
  <1>3. /\ End \in Position /\ pos < End /\ End <= pos + Frame /\ Here = pos
        /\ StartAfter(sound) \in Maybe /\ StartAfter(sound) <= pos
        /\ StartAfter(sound) >= 0 =>
              StartAfter(sound) >= previousEnd - Greater(Overlap, Pad)
        /\ VoiceAfter(sound) \in Position /\ VoiceAfter(sound) <= End
        /\ SilenceAfter(sound) \in Maybe /\ SilenceAfter(sound) <= End
    BY <1>1, <1>2, Heard
  <1>4. Here' = End
    BY <1>1 DEF Here, End
  <1>5. TypeOK'
    BY <1>1, <1>2, <1>3 DEF TypeOK, Position
  <1>6. LoopInv'
    <2>1. previousEnd <= pos
      BY <1>2, <1>3 DEF LoopInv
    <2> QED BY <1>1, <1>2, <1>3, <1>4, <2>1 DEF LoopInv, TypeOK, Position, Maybe
  <1>7. VoiceKept'
    BY <1>1, <1>2, HeardKept DEF VoiceKept
  <1>8. WindowBounded' /\ RereadBounded'
    BY <1>1, <1>2 DEF WindowBounded, RereadBounded
  <1> QED BY <1>5, <1>6, <1>7, <1>8 DEF IInv

LEMMA PauseKeeps ==
  ASSUME IInv, NEW sound \in Sounds, Pause(sound)
  PROVE  IInv'
  <1> DEFINE a == StartAfter(sound)
             b == Lesser(VoiceAfter(sound) + Pad, End)
  <1>1. /\ phase = "scan" /\ phase' = "scan" /\ pos < Samples /\ Listen(sound)
        /\ pos' = pos + Frame /\ lastVoice' = VoiceAfter(sound)
        /\ start' = -1 /\ silenceAt' = -1 /\ Emit(a, b) /\ probe' = probe
        /\ a >= 0
    BY DEF Pause, Listen, PauseEnds
  <1>2. TypeOK /\ LoopInv /\ VoiceKept /\ WindowBounded /\ RereadBounded
    BY <1>1 DEF IInv
  <1> USE WindowAssumption, FrameAssumption
  <1>3. /\ End \in Position /\ pos < End /\ End <= pos + Frame /\ Here = pos
        /\ a \in Maybe /\ a <= pos
        /\ End - a < Chunk + Frame /\ a >= previousEnd - Greater(Overlap, Pad)
        /\ VoiceAfter(sound) \in Position /\ VoiceAfter(sound) <= End
    BY <1>1, <1>2, Heard
  <1>4. a \in Position /\ b \in Position /\ b <= End /\ VoiceAfter(sound) <= b
    BY <1>1, <1>3 DEF Lesser, Position, Maybe
  <1> HIDE DEF a, b
  <1>5. b - a < Chunk + Frame
    BY <1>3, <1>4 DEF Position
  <1>6. /\ window' \in Windows /\ previousEnd' \in Maybe /\ read' \in BOOLEAN
        /\ WindowBounded' /\ RereadBounded'
        /\ previousEnd' = previousEnd \/ previousEnd' = b
        /\ read => read'
        /\ a <= probe /\ probe < b => read'
    BY <1>1, <1>2, <1>3, <1>4, <1>5, Emitted
  <1>7. Here' = End
    BY <1>1 DEF Here, End
  <1>8. TypeOK'
    <2>1. heard' \in BOOLEAN
      BY <1>1, <1>2 DEF Listen, TypeOK
    <2> QED BY <1>1, <1>2, <1>3, <1>6, <2>1 DEF TypeOK, Position, Maybe
  <1>9. LoopInv'
    <2>1. previousEnd <= pos /\ previousEnd \in Maybe
      BY <1>2, <1>3 DEF LoopInv, TypeOK
    <2>2. previousEnd' <= End
      BY <2>1, <1>3, <1>4, <1>6, <1>2 DEF TypeOK, Position, Maybe
    <2> QED BY <1>1, <1>3, <1>7, <2>2 DEF LoopInv, Position
  <1>10. VoiceKept'
    <2>1. heard' => /\ probe < VoiceAfter(sound)
                    /\ read \/ (a >= 0 /\ a <= probe)
      BY <1>1, <1>2, HeardKept DEF a
    <2>2. probe \in Position
      BY <1>2 DEF TypeOK
    <2>3. probe < VoiceAfter(sound) => probe < b
      BY <2>2, <1>3, <1>4 DEF Position
    <2>4. heard' => probe' < lastVoice' /\ read'
      BY <2>1, <2>3, <1>1, <1>6
    <2> QED BY <2>4 DEF VoiceKept
  <1> QED BY <1>6, <1>8, <1>9, <1>10 DEF IInv

LEMMA CutKeeps ==
  ASSUME IInv, NEW sound \in Sounds, Cut(sound)
  PROVE  IInv'
  <1> DEFINE a == StartAfter(sound)
  <1>1. /\ phase = "scan" /\ phase' = "scan" /\ pos < Samples /\ Listen(sound)
        /\ pos' = pos + Frame /\ lastVoice' = VoiceAfter(sound)
        /\ silenceAt' = SilenceAfter(sound) /\ probe' = probe
        /\ a >= 0 /\ End - a >= Chunk
    BY DEF Cut, Listen, LimitReached
  <1>2. TypeOK /\ LoopInv /\ VoiceKept /\ WindowBounded /\ RereadBounded
    BY <1>1 DEF IInv
  <1> USE WindowAssumption, FrameAssumption
  <1>3. /\ End \in Position /\ pos < End /\ End <= pos + Frame /\ Here = pos
        /\ a \in Maybe /\ a <= pos
        /\ End - a < Chunk + Frame /\ a >= previousEnd - Greater(Overlap, Pad)
        /\ VoiceAfter(sound) \in Position /\ VoiceAfter(sound) <= End
        /\ SilenceAfter(sound) \in Maybe /\ SilenceAfter(sound) <= End
    BY <1>1, <1>2, Heard
  <1>4. PICK stop \in CutPoints(a, a + Chunk) :
           Emit(a, stop) /\ start' = stop - Overlap
    BY DEF Cut
  <1>5. a \in Nat /\ a \in Position
    BY <1>1, <1>3 DEF Maybe, Position
  <1> HIDE DEF a
  <1>6. stop \in Nat /\ stop <= a + Chunk /\ stop - Overlap >= a + Frame
    BY <1>4, <1>5, CutLies
  <1>7. stop \in Position /\ stop <= End /\ stop > a /\ stop - a < Chunk + Frame
    BY <1>1, <1>3, <1>5, <1>6 DEF Position
  <1>8. /\ window' \in Windows /\ previousEnd' \in Maybe /\ read' \in BOOLEAN
        /\ WindowBounded' /\ RereadBounded' /\ previousEnd' = stop
        /\ read => read'
        /\ a <= probe /\ probe < stop => read'
    BY <1>2, <1>3, <1>4, <1>5, <1>7, Emitted
  <1>9. Here' = End
    BY <1>1 DEF Here, End
  <1>10. start' \in Nat /\ start' <= stop /\ End - start' < Chunk
    BY <1>3, <1>4, <1>5, <1>6 DEF Position
  <1>11. TypeOK'
    <2>1. heard' \in BOOLEAN
      BY <1>1, <1>2 DEF Listen, TypeOK
    <2>2. start' \in Maybe
      BY <1>7, <1>10 DEF Position, Maybe
    <2> QED BY <1>1, <1>2, <1>3, <1>8, <2>1, <2>2 DEF TypeOK, Position
  <1>12. LoopInv'
    <2>1. start' >= previousEnd' - Greater(Overlap, Pad)
      BY <1>4, <1>6, <1>8 DEF Greater
    <2>2. start' <= Here' /\ start' >= -1 /\ Here' - start' < Chunk
      <3>1. stop \in Int /\ End \in Int /\ stop <= End
        BY <1>3, <1>7 DEF Position
      <3>2. start' <= End
        BY <3>1, <1>10
      <3>3. start' >= -1
        BY <1>10
      <3> QED BY <3>2, <3>3, <1>9, <1>10
    <2>3. lastVoice' <= Here' /\ silenceAt' <= Here' /\ previousEnd' <= Here'
      BY <1>1, <1>3, <1>7, <1>8, <1>9
    <2> QED BY <2>1, <2>2, <2>3 DEF LoopInv
  <1>13. VoiceKept'
    <2>1. heard' => /\ probe < VoiceAfter(sound)
                    /\ read \/ (a >= 0 /\ a <= probe)
      BY <1>1, <1>2, HeardKept DEF a
    <2>2. probe \in Position
      BY <1>2 DEF TypeOK
    <2>3. probe < stop \/ start' <= probe
      BY <2>2, <1>6, <1>10 DEF Position
    <2>4. start' >= 0
      BY <1>10
    <2>5. heard' => /\ probe' < lastVoice'
                    /\ read' \/ (phase' = "scan" /\ start' >= 0 /\ start' <= probe')
      BY <2>1, <2>3, <2>4, <1>1, <1>8
    <2> QED BY <2>5 DEF VoiceKept
  <1> QED BY <1>8, <1>11, <1>12, <1>13 DEF IInv

LEMMA FlushKeeps ==
  ASSUME IInv, Flush
  PROVE  IInv'
  <1>1. /\ phase = "scan" /\ phase' = "done" /\ pos >= Samples
        /\ IF start >= 0 THEN Emit(start, Samples) ELSE EmitNothing
        /\ UNCHANGED <<pos, start, lastVoice, silenceAt, probe, heard>>
    BY DEF Flush
  <1>2. TypeOK /\ LoopInv /\ VoiceKept /\ WindowBounded /\ RereadBounded
    BY <1>1 DEF IInv
  <1> USE WindowAssumption, FrameAssumption
  <1>3. Here = Samples
    BY <1>1, <1>2 DEF Here, Lesser, TypeOK
  <1>4. CASE start >= 0
    <2>1. Emit(start, Samples)
      BY <1>1, <1>4
    <2>2. /\ start \in Position /\ Samples \in Position
          /\ Samples - start < Chunk + Frame
          /\ start >= previousEnd - Greater(Overlap, Pad)
      BY <1>2, <1>3, <1>4 DEF TypeOK, LoopInv, Position, Maybe
    <2>3. /\ window' \in Windows /\ previousEnd' \in Maybe /\ read' \in BOOLEAN
          /\ WindowBounded' /\ RereadBounded'
          /\ read => read'
          /\ start <= probe /\ probe < Samples => read'
      BY <1>2, <2>1, <2>2, Emitted
    <2>4. TypeOK'
      BY <1>1, <1>2, <2>3 DEF TypeOK
    <2>5. lastVoice <= Samples
      BY <1>2, <1>3 DEF LoopInv
    <2>6. probe < lastVoice => probe < Samples
      BY <2>5, <1>2 DEF TypeOK, Position
    <2>7. VoiceKept'
      BY <1>1, <1>2, <2>3, <2>6 DEF VoiceKept
    <2> QED BY <1>1, <2>3, <2>4, <2>7 DEF IInv
  <1>5. CASE ~(start >= 0)
    <2>1. UNCHANGED <<window, previousEnd, read>>
      BY <1>1, <1>5 DEF EmitNothing
    <2>2. TypeOK'
      BY <1>1, <1>2, <2>1 DEF TypeOK
    <2>3. VoiceKept'
      BY <1>1, <1>2, <1>5, <2>1 DEF VoiceKept
    <2>4. WindowBounded' /\ RereadBounded'
      BY <1>2, <2>1 DEF WindowBounded, RereadBounded
    <2> QED BY <1>1, <2>2, <2>3, <2>4 DEF IInv
  <1> QED BY <1>4, <1>5

\* The loop invariant holds in every state of Transcribe's loop, for every
\* recording length and every window configuration that config.Load accepts.
THEOREM Invariance == Spec => []IInv
  <1>1. Init => IInv
    <2> SUFFICES ASSUME Init PROVE IInv
      OBVIOUS
    <2> USE WindowAssumption, FrameAssumption DEF Init
    <2>1. TypeOK
      <3>1. 0 \in Position /\ -1 \in Maybe /\ 0 \in 0..(Samples + Frame)
        BY DEF Position, Maybe
      <3>2. window \in Windows
        BY <3>1 DEF Windows
      <3>3. probe \in Position
        BY DEF Position
      <3> QED BY <3>1, <3>2, <3>3 DEF TypeOK
    <2>2. LoopInv
      BY DEF LoopInv, Here, Lesser
    <2>3. WindowBounded
      BY DEF WindowBounded
    <2>4. RereadBounded
      BY DEF RereadBounded, Greater
    <2> QED BY <2>1, <2>2, <2>3, <2>4 DEF IInv, VoiceKept
  <1>2. IInv /\ [Next]_vars => IInv'
    <2> SUFFICES ASSUME IInv, [Next]_vars PROVE IInv'
      OBVIOUS
    <2>1. CASE \E sound \in Sounds : GoOn(sound) \/ Pause(sound) \/ Cut(sound)
      BY <2>1, GoOnKeeps, PauseKeeps, CutKeeps
    <2>2. CASE Flush
      BY <2>2, FlushKeeps
    <2>3. CASE Fail
      <3>1. TypeOK' /\ WindowBounded' /\ RereadBounded'
        BY <2>3 DEF Fail, IInv, TypeOK, WindowBounded, RereadBounded
      <3> QED BY <3>1, <2>3 DEF Fail, IInv
    <2>4. CASE UNCHANGED vars
      BY <2>4 DEF vars, IInv, TypeOK, LoopInv, Here, VoiceKept,
                  WindowBounded, RereadBounded
    <2> QED BY <2>1, <2>2, <2>3, <2>4 DEF Next, Returned
  <1> QED BY <1>1, <1>2, PTL DEF Spec

\* The positions Transcribe computes stay within the recording.
THEOREM TypeCorrect == Spec => []TypeOK
  <1>1. IInv => TypeOK
    BY DEF IInv
  <1> QED BY <1>1, Invariance, PTL

\* No speech is lost: a text is returned only when every voiced sample has
\* been given to the recogniser.
THEOREM VoiceNeverLost == Spec => []NoVoiceLost
  <1>1. IInv => NoVoiceLost
    BY DEF IInv, NoVoiceLost, VoiceKept
  <1> QED BY <1>1, Invariance, PTL

\* Windows lie in the recording, and one is resident that is less than a VAD
\* frame longer than the configured limit.
THEOREM WindowsBounded == Spec => []WindowBounded
  <1>1. IInv => WindowBounded
    BY DEF IInv
  <1> QED BY <1>1, Invariance, PTL

\* Audio is recognised twice only within the overlap or the padding.
THEOREM RereadsBounded == Spec => []RereadBounded
  <1>1. IInv => RereadBounded
    BY DEF IInv
  <1> QED BY <1>1, Invariance, PTL
=============================================================================
