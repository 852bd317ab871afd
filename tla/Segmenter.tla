------------------------------ MODULE Segmenter ------------------------------
(***************************************************************************)
(* How Engine.Transcribe (internal/inference/engine.go) splits a recording *)
(* into recognition windows: one VAD frame at a time, a window opened by   *)
(* voice and closed by a pause, by a forced cut at a quiet point, or by    *)
(* the end of the recording.  Positions are samples.                       *)
(*                                                                         *)
(* The audio is abstract: each frame is voiced, unclear or quiet, and a    *)
(* forced cut falls on any point quietBoundary can return.  The            *)
(* observation variable probe is one arbitrary sample of the recording, so *)
(* that what holds of it holds of every sample.                            *)
(***************************************************************************)
EXTENDS Integers

CONSTANTS
    Samples,  \* length of the recording
    Chunk,    \* config.Chunk, the window limit
    Overlap,  \* config.Overlap, what a forced cut repeats
    Pad,      \* config.Padding around speech
    Silence,  \* config.MinSilence, the pause that ends a window
    Frame,    \* samples of a VAD frame (512)
    Width,    \* quietBoundary's power window (1600)
    Look      \* how far before the limit quietBoundary looks (3 * audio.Rate)

\* config.Load rejects other values (config.go:138); the 1-second minimum of
\* Chunk is 16000 samples, ten times Width.  Durations are truncated to whole
\* samples, so that the limits are met with equality at worst.
ASSUME WindowAssumption ==
    /\ Samples \in Nat /\ Chunk \in Nat /\ Overlap \in Nat
    /\ Pad \in Nat /\ Silence \in Nat
    /\ 2 * Overlap <= Chunk
    /\ 2 * Pad <= Chunk
    /\ Silence <= Chunk

ASSUME FrameAssumption ==
    /\ Frame \in Nat \ {0} /\ Width \in Nat /\ Look \in Nat
    /\ 2 * Frame <= Width
    /\ 2 * Width <= Chunk
    /\ Width <= Look

VARIABLES
    phase,        \* "scan", "done", or "failed" when an error is returned
    pos,          \* start of the next frame
    start,        \* start of the open window, -1 when none is open
    lastVoice,    \* end of the last voiced frame
    silenceAt,    \* start of the first quiet frame since, -1 when none
    previousEnd,  \* end of the last window given to the recogniser
    window,       \* that window, and previousEnd as it was before it
    probe,        \* an arbitrary sample
    heard,        \* the probe is in a voiced frame
    read          \* the probe is in a window given to the recogniser

vars == <<phase, pos, start, lastVoice, silenceAt, previousEnd, window,
          probe, heard, read>>

Lesser(a, b) == IF a < b THEN a ELSE b
Greater(a, b) == IF a < b THEN b ELSE a

Position == 0..Samples
Maybe == -1..Samples

Windows == [a : Position, b : Position, prior : Maybe]

TypeOK ==
    /\ phase \in {"scan", "done", "failed"}
    /\ pos \in 0..(Samples + Frame)
    /\ start \in Maybe
    /\ lastVoice \in Position
    /\ silenceAt \in Maybe
    /\ previousEnd \in Maybe
    /\ window \in Windows
    /\ probe \in Position
    /\ heard \in BOOLEAN
    /\ read \in BOOLEAN

Init ==
    /\ phase = "scan"
    /\ pos = 0
    /\ start = -1
    /\ lastVoice = 0
    /\ silenceAt = -1
    /\ previousEnd = -1
    /\ window = [a |-> 0, b |-> 0, prior |-> -1]
    /\ probe \in 0..(Samples - 1)
    /\ heard = FALSE
    /\ read = FALSE

-----------------------------------------------------------------------------
(* One frame. *)

\* The recording ends inside its last frame.
End == Lesser(pos + Frame, Samples)

Sounds == {"voiced", "unclear", "quiet"}

\* The three variables after the frame's VAD score has been compared with the
\* two thresholds.
StartAfter(sound) ==
    IF sound = "voiced" /\ start < 0 THEN Greater(0, pos - Pad) ELSE start

VoiceAfter(sound) == IF sound = "voiced" THEN End ELSE lastVoice

SilenceAfter(sound) ==
    CASE sound = "voiced" -> -1
      [] sound = "quiet" /\ start >= 0 /\ silenceAt < 0 -> pos
      [] OTHER -> silenceAt

Listen(sound) ==
    /\ phase = "scan" /\ pos < Samples
    /\ pos' = pos + Frame
    /\ lastVoice' = VoiceAfter(sound)
    /\ heard' = (heard \/ (sound = "voiced" /\ pos <= probe /\ probe < End))
    /\ UNCHANGED <<phase, probe>>

\* emit(a, b): an empty window is not recognised.
Emit(a, b) ==
    IF b <= a THEN UNCHANGED <<window, previousEnd, read>>
    ELSE /\ window' = [a |-> a, b |-> b, prior |-> previousEnd]
         /\ previousEnd' = b
         /\ read' = (read \/ (a <= probe /\ probe < b))

EmitNothing == UNCHANGED <<window, previousEnd, read>>

-----------------------------------------------------------------------------
(* What follows the frame. *)

\* The pause is long enough.
PauseEnds(sound) ==
    /\ StartAfter(sound) >= 0
    /\ SilenceAfter(sound) >= 0
    /\ End - SilenceAfter(sound) >= Silence

LimitReached(sound) ==
    /\ StartAfter(sound) >= 0
    /\ ~PauseEnds(sound)
    /\ End - StartAfter(sound) >= Chunk

\* No window is open, or it stays open.
GoOn(sound) ==
    /\ Listen(sound)
    /\ ~PauseEnds(sound) /\ ~LimitReached(sound)
    /\ start' = StartAfter(sound)
    /\ silenceAt' = SilenceAfter(sound)
    /\ EmitNothing

\* Mutant: the padding reaches past the frame.
PauseUnbounded(sound) ==
    /\ Listen(sound)
    /\ PauseEnds(sound)
    /\ Emit(StartAfter(sound), VoiceAfter(sound) + Pad)
    /\ start' = -1
    /\ silenceAt' = -1

Pause(sound) ==
    /\ Listen(sound)
    /\ PauseEnds(sound)
    /\ Emit(StartAfter(sound), Lesser(VoiceAfter(sound) + Pad, End))
    /\ start' = -1
    /\ silenceAt' = -1

\* What quietBoundary can return: the limit, or the middle of a quiet stretch
\* of Width samples in the part of the window it looks at.
QuietBoundaries(from, stop) ==
    {stop} \cup ((from + Width \div 2)..(stop - Width + Width \div 2))

CutPoints(a, b) == QuietBoundaries(Greater(a + (b - a) \div 2, b - Look), b)

\* Mutant: the new window repeats the overlap from the limit's other side.
CutSkips(sound) ==
    /\ Listen(sound)
    /\ LimitReached(sound)
    /\ \E stop \in CutPoints(StartAfter(sound), StartAfter(sound) + Chunk) :
          /\ Emit(StartAfter(sound), stop)
          /\ start' = stop + Overlap
    /\ silenceAt' = SilenceAfter(sound)

\* Mutant: the new window repeats half of the old one.
CutRereads(sound) ==
    /\ Listen(sound)
    /\ LimitReached(sound)
    /\ \E stop \in CutPoints(StartAfter(sound), StartAfter(sound) + Chunk) :
          /\ Emit(StartAfter(sound), stop)
          /\ start' = stop - Overlap - Pad
    /\ silenceAt' = SilenceAfter(sound)

Cut(sound) ==
    /\ Listen(sound)
    /\ LimitReached(sound)
    /\ \E stop \in CutPoints(StartAfter(sound), StartAfter(sound) + Chunk) :
          /\ Emit(StartAfter(sound), stop)
          /\ start' = stop - Overlap
    /\ silenceAt' = SilenceAfter(sound)

\* After the last frame the open window is emitted up to the recording's end.
Flush ==
    /\ phase = "scan" /\ pos >= Samples
    /\ phase' = "done"
    /\ IF start >= 0 THEN Emit(start, Samples) ELSE EmitNothing
    /\ UNCHANGED <<pos, start, lastVoice, silenceAt, probe, heard>>

\* The context is done, or reading or a model fails: no text is returned.
Fail ==
    /\ phase = "scan"
    /\ phase' = "failed"
    /\ UNCHANGED <<pos, start, lastVoice, silenceAt, previousEnd, window,
                   probe, heard, read>>

Returned == phase # "scan" /\ UNCHANGED vars

Next ==
    \/ \E sound \in Sounds : GoOn(sound) \/ Pause(sound) \/ Cut(sound)
    \/ Flush \/ Fail \/ Returned

Spec == Init /\ [][Next]_vars

-----------------------------------------------------------------------------
(* Safety. *)

\* No speech is lost: when Transcribe returns a text, every sample of every
\* voiced frame has been in a window given to the recogniser, whatever
\* pauses, forced cuts and paddings lay in between.
NoVoiceLost == phase = "done" /\ heard => read

\* Every window lies in the recording, and one window is resident that is
\* less than one frame longer than the configured limit.
WindowBounded ==
    /\ 0 <= window.a /\ window.a <= window.b /\ window.b <= Samples
    /\ window.b - window.a < Chunk + Frame

\* Audio is recognised again only next to a boundary: a window starts at most
\* the overlap, or the padding, before the end of the one before it.
RereadBounded == window.a >= window.prior - Greater(Overlap, Pad)

\* engine.go:367: only one <=30-second window is resident, 30 seconds being
\* the largest limit config.Load accepts.
WindowWithinLimit == window.b - window.a <= Chunk
=============================================================================
