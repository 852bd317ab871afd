------------------------------- MODULE Timings -------------------------------
(***************************************************************************)
(* What the log says about a transcription: metrics.Request and Complete   *)
(* (internal/metrics/metrics.go) with the calls of transcribe, process,    *)
(* Prepare, recognizeTokens and Transcribe that measure.  A stage is timed *)
(* by the difference of two readings of the clock and some stages run      *)
(* inside another, so that the times are right only if every path starts   *)
(* and stops them in order.  The control flow is that of Service and       *)
(* Segmenter; any amount of time passes in a step.                         *)
(***************************************************************************)
EXTENDS Integers

CONSTANTS Ticks, \* bound: time that passes in a step
          Parts  \* bound: frames and windows of a recording

ASSUME TimingsAssumption == Ticks \in Nat /\ Parts \in Nat

VARIABLES
    at,       \* the handler's place
    now,      \* the clock, 0 when the handler started
    begun,    \* start of the outer stage
    mark,     \* start of the stage inside inference
    dur,      \* durations
    recorded, \* the stages that have one
    audio,    \* seconds of audio; -1 until RecordAudio
    parts,    \* VAD frames and windows
    ok,       \* no error yet
    rtf,      \* the summary has real-time factors
    ran       \* history: the stages that have started

timingsVars == <<at, now, begun, mark, dur, recorded, audio, parts, ok, rtf, ran>>

Outer == {"upload", "probe", "convert", "inference", "cleanup"}
Inner == {"vad", "frontend", "encoder", "decoder"}
Stages == Outer \cup Inner

TimingsInit ==
    /\ at = "admission" /\ now = 0 /\ begun = 0 /\ mark = 0
    /\ dur = [s \in Stages |-> 0] /\ recorded = {}
    /\ audio = -1 /\ parts = 0
    /\ ok = TRUE /\ rtf = FALSE /\ ran = {}

Pass == \E d \in 0..Ticks : now' = now + d

\* metrics.Start, and time.Now for a stage inside inference.
Begin(s) ==
    /\ at' = s /\ ran' = ran \cup {s}
    /\ IF s \in Outer THEN begun' = now' /\ UNCHANGED mark ELSE mark' = now' /\ UNCHANGED begun

AddDuration(s, d) ==
    /\ dur' = [dur EXCEPT ![s] = @ + d]
    /\ recorded' = recorded \cup {s}

\* The function that Start returned.
Finish(s) == AddDuration(s, now' - begun)

Measured == UNCHANGED <<dur, recorded>>
Untouched == UNCHANGED <<audio, parts, rtf>>

\* An error leads to the deferred cleanup.
Fails == ok' = FALSE /\ Begin("cleanup")
GoesOn(s) == Begin(s) /\ UNCHANGED ok

-----------------------------------------------------------------------------
(* transcribe and process. *)

\* acquire, storage or MkdirTemp refuse, before there is anything to clean up.
Refused ==
    /\ at = "admission"
    /\ Pass
    /\ at' = "respond" /\ ok' = FALSE
    /\ Measured /\ Untouched /\ UNCHANGED <<begun, mark, ran>>

Admitted == at = "admission" /\ Pass /\ GoesOn("upload") /\ Measured /\ Untouched

Upload ==
    /\ at = "upload" /\ Pass /\ Finish("upload")
    /\ GoesOn("probe") \/ Fails
    /\ Untouched

\* The free space is tested between the probe and the conversion.
Probe ==
    /\ at = "probe" /\ Pass /\ Finish("probe")
    /\ GoesOn("convert") \/ Fails
    /\ Untouched

\* Mutant: the conversion is timed only if it succeeds.
ConvertMeasured ==
    /\ at = "convert" /\ Pass
    /\ \/ Finish("convert") /\ audio' \in 0..1 /\ GoesOn("inference")
       \/ Measured /\ Fails /\ UNCHANGED audio
    /\ UNCHANGED <<parts, rtf>>

\* OpenWAV is outside every stage; an empty recording is none of its errors.
Convert ==
    /\ at = "convert" /\ Pass /\ Finish("convert")
    /\ \/ audio' \in 0..1 /\ GoesOn("inference")
       \/ Fails /\ UNCHANGED audio
    /\ UNCHANGED <<parts, rtf>>

\* Transcribe has returned; the context may have ended meanwhile.
Inferred ==
    /\ Pass /\ Finish("inference")
    /\ GoesOn("cleanup") \/ Fails

Cleanup ==
    /\ at = "cleanup" /\ Pass /\ Finish("cleanup")
    /\ at' = "respond" /\ ok' \in {ok, FALSE}
    /\ Untouched /\ UNCHANGED <<begun, mark, ran>>

\* Complete: its real-time factors are of a success, and of audio.
Rated == audio > 0 /\ ok

Complete ==
    /\ at = "respond"
    /\ at' = "reported" /\ rtf' = Rated
    /\ UNCHANGED <<now, begun, mark, dur, recorded, audio, parts, ok, ran>>

-----------------------------------------------------------------------------
(* Transcribe and recognizeTokens, with their own readings of the clock. *)

\* Mutant: the reading of the stage before is used again.
MeasureFrom(s) == AddDuration(s, now' - mark) /\ UNCHANGED <<mark, begun>>

\* AddDuration with time.Since, and the reading for the stage after.
Measure(s) == AddDuration(s, now' - mark) /\ mark' = now' /\ UNCHANGED begun

InnerBegins(s) == at' = s /\ ran' = ran \cup {s}

\* A frame or a window after some time of inference's own; a recording without
\* samples has none.
NextPart ==
    /\ at = "inference" /\ parts < Parts /\ audio > 0
    /\ Pass /\ mark' = now'
    /\ \E s \in {"vad", "frontend"} : InnerBegins(s)
    /\ parts' = parts + 1
    /\ Measured /\ UNCHANGED <<begun, ok, audio, rtf>>

\* The end of the recording, of the context or of a scan that failed.
EndScan == at = "inference" /\ Inferred /\ Untouched

Vad ==
    /\ at = "vad" /\ Pass /\ Measure("vad")
    /\ at' = "inference"
    /\ UNCHANGED <<ok, ran>> /\ Untouched

Frontend ==
    /\ at = "frontend" /\ Pass /\ Measure("frontend")
    /\ InnerBegins("encoder")
    /\ UNCHANGED ok /\ Untouched

\* The encoder fails or its output is decoded.
Encoder ==
    /\ at = "encoder" /\ Pass /\ Measure("encoder")
    /\ \/ InnerBegins("decoder")
       \/ at' = "inference" /\ UNCHANGED ran
    /\ UNCHANGED ok /\ Untouched

\* The deferred measurement, with or without an error.
Decoding ==
    /\ at = "decoder" /\ Pass /\ Measure("decoder")
    /\ at' = "inference"
    /\ UNCHANGED <<ok, ran>> /\ Untouched

TimingsNext ==
    \/ Refused \/ Admitted \/ Upload \/ Probe \/ Convert \/ Cleanup \/ Complete
    \/ NextPart \/ EndScan \/ Vad \/ Frontend \/ Encoder \/ Decoding

TimingsSpec == TimingsInit /\ [][TimingsNext]_timingsVars
-----------------------------------------------------------------------------
(* Properties. *)

InnerTime == dur["vad"] + dur["frontend"] + dur["encoder"] + dur["decoder"]
OuterTime == dur["upload"] + dur["probe"] + dur["convert"] + dur["inference"] + dur["cleanup"]

\* The times inside inference are part of its time, and the outer stages follow
\* one another within the request's: nothing is counted twice, whatever fails.
TimesNest ==
    at = "reported" =>
        /\ InnerTime <= dur["inference"]
        /\ OuterTime <= now

\* The summary has exactly the stages that ran, on every error path too, and a
\* real-time factor only with all of the outer ones and with audio to divide by.
ReportComplete ==
    at = "reported" =>
        /\ recorded = ran
        /\ rtf => Outer \subseteq recorded /\ audio > 0
=============================================================================
