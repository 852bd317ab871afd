-------------------------------- MODULE Disk --------------------------------
(***************************************************************************)
(* What requests do to the work disk: the tests of free space in process   *)
(* (api/storage.go, api/transcription.go), the upload, and the conversion  *)
(* by FFmpeg with its output limit (audio/audio.go).  Nothing is reserved: *)
(* requests and other processes all write to the same free space.  Sizes   *)
(* are in blocks.  Who is admitted and what the multipart body looks like  *)
(* are Service and Upload.                                                 *)
(***************************************************************************)
EXTENDS Integers, FiniteSets

CONSTANTS Requests, \* the requests that can be admitted together
          Blocks,   \* bound: the space that other processes leave
          MaxFile,  \* MaxFile of the configuration
          Reserve,  \* ReserveBytes of the configuration
          Margin,   \* the room for headers (4096)
          Packet,   \* the most that FFmpeg writes between two tests of -fs
          Longest,  \* bound: the longest prepared recording
          Word      \* one more than the largest uint64

ASSUME DiskAssumption ==
    /\ {Blocks, Margin, Longest} \subseteq Nat
    /\ {MaxFile, Reserve, Packet, Word, Word \div 2} \subseteq Nat \ {0}

VARIABLES
    free,    \* blocks
    step,    \* "idle", "upload", "measure", "convert", "stat", "infer", "clean"
    sent,    \* the size of the file that is uploaded
    source,  \* blocks of source.bin
    need,    \* the size that prepared.wav would have
    output,  \* blocks of prepared.wav
    limit,   \* the output limit of FFmpeg
    noisy,   \* FFmpeg has filled its 4096 bytes of stderr with other complaints
    full,    \* a write of this request has met a full disk
    result,  \* what the request will be answered
    others   \* history: "silent" until another process writes, then "active"

vars == <<free, step, sent, source, need, output, limit, noisy, full, result, others>>

Init ==
    /\ free \in 0..Blocks
    /\ step = [r \in Requests |-> "idle"]
    /\ sent = [r \in Requests |-> 0] /\ source = [r \in Requests |-> 0]
    /\ need = [r \in Requests |-> 0] /\ output = [r \in Requests |-> 0]
    /\ limit = [r \in Requests |-> 0]
    /\ noisy = [r \in Requests |-> FALSE] /\ full = [r \in Requests |-> FALSE]
    /\ result = [r \in Requests |-> "none"]
    /\ others = "silent"

-----------------------------------------------------------------------------
(* process. *)

Go(r, s) == step' = [step EXCEPT ![r] = s]

\* An answer is decided; the deferred cleanup runs before it is sent.
Answer(r, code) == Go(r, "clean") /\ result' = [result EXCEPT ![r] = code]

\* Mutant: the reserve is left out.
StorageBare(required) == free >= required

\* storage: enough for what is still to be uploaded and for the reserve.
Storage(required) == free >= required + Reserve

Begin(r) ==
    /\ step[r] = "idle"
    /\ IF Storage(MaxFile)
       THEN Go(r, "upload") /\ UNCHANGED result
       ELSE Answer(r, "storage_unavailable")
    /\ \E n \in 1..(MaxFile + 1), m \in 0..Longest, noise \in BOOLEAN :
         /\ sent' = [sent EXCEPT ![r] = n]
         /\ need' = [need EXCEPT ![r] = m]
         /\ noisy' = [noisy EXCEPT ![r] = noise]
    /\ UNCHANGED <<others, free, source, output, limit, full>>

\* saveUpload: io.Copy up to one byte more than MaxFile.
Receive(r) ==
    /\ step[r] = "upload" /\ source[r] < sent[r] /\ free > 0
    /\ source' = [source EXCEPT ![r] = @ + 1] /\ free' = free - 1
    /\ UNCHANGED <<others, step, sent, need, output, limit, noisy, full, result>>

ReceiveFails(r) ==
    /\ step[r] = "upload" /\ source[r] < sent[r] /\ free = 0
    /\ full' = [full EXCEPT ![r] = TRUE]
    /\ Answer(r, "storage_unavailable")
    /\ UNCHANGED <<others, free, sent, source, need, output, limit, noisy>>

Received(r) ==
    /\ step[r] = "upload" /\ source[r] = sent[r]
    /\ CASE source[r] > MaxFile -> Answer(r, "file_too_large")
         [] source[r] <= MaxFile /\ ~Storage(0) -> Answer(r, "storage_unavailable")
         [] OTHER -> Go(r, "measure") /\ UNCHANGED result
    /\ UNCHANGED <<others, free, sent, source, need, output, limit, noisy, full>>

-----------------------------------------------------------------------------
(* Prepare and convert. *)

CanConvert == free > Reserve + Margin

\* Mutant: the limit is not clipped.
OutputLimitWide == (free - Reserve) % Word

\* uint64 arithmetic, clipped to what FFmpeg's option can hold.
OutputLimit ==
    LET left == (free - Reserve) % Word
    IN  IF left < Word \div 2 THEN left ELSE Word \div 2 - 1

Measure(r) ==
    /\ step[r] = "measure"
    /\ IF CanConvert
       THEN /\ limit' = [limit EXCEPT ![r] = OutputLimit]
            /\ Go(r, "convert") /\ UNCHANGED result
       ELSE Answer(r, "storage_unavailable") /\ UNCHANGED limit
    /\ UNCHANGED <<others, free, sent, source, need, output, noisy, full>>

\* FFmpeg looks at the size of its output before it writes a packet.
Convert(r) ==
    /\ step[r] = "convert" /\ output[r] < need[r] /\ output[r] < limit[r]
    /\ \E n \in 1..Packet :
         /\ output[r] + n <= need[r] /\ n <= free
         /\ output' = [output EXCEPT ![r] = @ + n] /\ free' = free - n
    /\ UNCHANGED <<others, step, sent, source, need, limit, noisy, full, result>>

\* A packet that does not fit, written as far as it does.  Of what FFmpeg says
\* the first 4096 bytes are kept: command finds ENOSPC in them or takes the
\* recording for damaged.
ConvertFails(r) ==
    /\ step[r] = "convert" /\ output[r] < need[r] /\ output[r] < limit[r]
    /\ free < Packet /\ free < need[r] - output[r]
    /\ output' = [output EXCEPT ![r] = @ + free] /\ free' = 0
    /\ full' = [full EXCEPT ![r] = TRUE]
    /\ Answer(r, IF noisy[r] THEN "invalid_audio" ELSE "storage_unavailable")
    /\ UNCHANGED <<others, sent, source, need, limit, noisy>>

\* FFmpeg finds the recording damaged, or is killed by the context.
ConvertStops(r) ==
    /\ step[r] = "convert"
    /\ \E code \in {"invalid_audio", "stopped"} :
         /\ code = "invalid_audio" => noisy[r]
         /\ Answer(r, code)
    /\ UNCHANGED <<others, free, sent, source, need, output, limit, noisy, full>>

\* FFmpeg exits with success at the end, and at the limit.
ConvertEnds(r) ==
    /\ step[r] = "convert" /\ (output[r] = need[r] \/ output[r] >= limit[r])
    /\ Go(r, "stat")
    /\ UNCHANGED <<others, free, sent, source, need, output, limit, noisy, full, result>>

\* Mutant: only more than the limit is an error.
AtLimitOver(r) == output[r] > limit[r]

AtLimit(r) == output[r] >= limit[r]

Stat(r) ==
    /\ step[r] = "stat"
    /\ IF AtLimit(r)
       THEN Answer(r, "storage_unavailable")
       ELSE Go(r, "infer") /\ UNCHANGED result
    /\ UNCHANGED <<others, free, sent, source, need, output, limit, noisy, full>>

Infer(r) ==
    /\ step[r] = "infer"
    /\ \E code \in {"ok", "stopped"} : Answer(r, code)
    /\ UNCHANGED <<others, free, sent, source, need, output, limit, noisy, full>>

\* The directory is removed, at once or by RetryCleanup.
Clean(r) ==
    /\ step[r] = "clean"
    /\ Go(r, "idle")
    /\ free' = free + source[r] + output[r]
    /\ source' = [source EXCEPT ![r] = 0] /\ output' = [output EXCEPT ![r] = 0]
    /\ limit' = [limit EXCEPT ![r] = 0] /\ full' = [full EXCEPT ![r] = FALSE]
    /\ result' = [result EXCEPT ![r] = "none"]
    /\ UNCHANGED <<others, sent, need, noisy>>

-----------------------------------------------------------------------------
\* Another process takes a block or gives one back.
Others ==
    /\ free' \in {free - 1, free + 1} \cap (0..Blocks)
    /\ others' = "active"
    /\ UNCHANGED <<step, sent, source, need, output, limit, noisy, full, result>>

Process(r) ==
    \/ Begin(r) \/ Receive(r) \/ ReceiveFails(r) \/ Received(r)
    \/ Measure(r) \/ Convert(r) \/ ConvertFails(r) \/ ConvertStops(r) \/ ConvertEnds(r)
    \/ Stat(r) \/ Infer(r) \/ Clean(r)

Next == (\E r \in Requests : Process(r)) \/ Others

Spec == Init /\ [][Next]_vars

-----------------------------------------------------------------------------
(* Safety. *)

TypeOK ==
    /\ free \in Nat
    /\ step \in [Requests -> {"idle", "upload", "measure", "convert", "stat", "infer", "clean"}]
    /\ sent \in [Requests -> 0..(MaxFile + 1)]
    /\ {source, need, output} \subseteq [Requests -> Nat]
    /\ limit \in [Requests -> 0..(Word \div 2 - 1)]
    /\ {noisy, full} \subseteq [Requests -> BOOLEAN] /\ others \in {"silent", "active"}
    /\ result \in [Requests -> {"none", "ok", "storage_unavailable", "file_too_large",
                               "invalid_audio", "stopped"}]

\* README.md:263: what was cut at the limit, or by a disk that others have filled
\* meanwhile, is never recognised: whoever gets a text gets all of it.
CutNeverRecognised ==
    \A r \in Requests :
       step[r] = "infer" \/ result[r] = "ok" =>
          output[r] = need[r] /\ source[r] = sent[r] /\ ~full[r]

\* Nothing but one request has ever written to the disk.
Alone == others = "silent" /\ \A q, r \in Requests : sent[q] > 0 /\ sent[r] > 0 => q = r

\* A request that has the disk for itself leaves the reserve free, but for the
\* packet with which FFmpeg passes its limit.
ReserveSpared ==
    Alone => \A r \in Requests : source[r] + output[r] > 0 => free >= Reserve - Packet

\* docs/hp-lan.md:75: the disk that runs full is what the client is told.
FullDiskIsStorage ==
    \A r \in Requests :
       full[r] => result[r] \in {"storage_unavailable", "file_too_large"}
=============================================================================
