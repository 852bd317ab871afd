# Verification of the GigaAM transcription service

TLA+ models, TLC configurations and TLAPS proofs of the Go service in `cmd/` and
`internal/`. Source positions below are relative to the repository.

## 1. The system

| Component | State it keeps | Operations | Interacts through |
|---|---|---|---|
| Lifecycle (`internal/api/server.go`, `lifecycle.go`) | `state`, `stopping`, `active`, `slots`, `drained`, `root`, `pending`, all but `slots`, `drained` and `root` guarded by `Server.mu` | `acquire`, `release`, `Ready`, `Unavailable`, `Drain`, `availabilityLocked` | called by handlers, `initialize` and `run` |
| Handler (`transcription.go`) | the request and processing contexts, the connection's read deadline, the error code | `transcribe`, `process` | slot, directory, engine, contexts; two `AfterFunc` callbacks run in goroutines of their own |
| Request directories (`storage.go`) | `WorkDir/request-*` on disk, `pending` | `CleanStartup`, `cleanup`, `RetryCleanup`, `storage` | disk; `pending` closes admission |
| Start-up and shutdown (`cmd/gigaam`) | the engine, the cancelled `ctx`, a wait group | `run`, `initialize` | signals, `Drain`, `http.Server.Shutdown`, `Engine.Close` |
| Upload (`upload.go`, `errors.go`) | fields, names seen, `source.bin` | `upload`, `saveUpload`, `validateFields`, `uploadError` | body reader, disk |
| Segmentation (`engine.go:302-423,454-487`) | open window, last voice, start of silence, end of the last window | the frame loop, `emit`, `quietBoundary` | VAD scores in, windows out |
| Text of overlapping windows (`engine.go:319-366,395-415,424-487`) | last text and word positions | `overlapSuffix`, `wordPositions` | windows in, text out |
| Decoding (`engine.go:127-280`) | RNNT state of one window | `recognizeTokens`, `decode` | native graphs |
| Native sessions (`engine.go:30-93`, `onnx.go`) | environment, four sessions, tensors of a call | `New`, `Close`, `openGraph`, `run` | native library |
| Audio (`internal/audio`) | `prepared.wav` | `Probe`, `Prepare`, `convert`, `OpenWAV`, `ReadSamples` | child processes, disk |
| Configuration, model files | none after start | `Load`, `Locate` | environment, file system |
| Routing, authorisation, health, model list | none of their own | `authorize`, `health`, `models` | `Server.mu` for the model list |
| Metrics, logging, diagnostics | per-request counters | `Start`, `Complete`, ... | log |

What is hard here: every request is a goroutine, with callbacks, a retry loop, the
initialisation and the main goroutine beside it; native calls cannot be cancelled;
directories outlive the process; cleanup can fail; shutdown must wait for exactly
the right things; nothing on the volume is reserved, and FFmpeg stops quietly at its
output limit; what the native library gives out is not collected. In the segmenter,
the padding, the pause, the limit and the overlap interact over many frames; the
texts of its windows are then joined by comparing words. `PROJECT.json` lists the
hazards with their lines, and for each the properties that would catch it.

What makes the parts correct:

* lifecycle: the two counters agree with the handlers, the concurrency is kept, and
  `drained` is closed once, behind the last handler;
* engine: open for as long as an admitted handler may use it, and closed at exit;
  every session, option, environment and tensor destroyed once and in order;
* directories: owned by one keeper at any time, removed before a 200 is sent, never
  under their handler, never forgotten, also over crashes;
* admission: closed while starting, stopping or cleaning up, and open again afterwards;
* upload: exactly the valid requests are processed, with the whole file;
* disk: a recording that was cut is never recognised, and the reserve stays free;
* audio file: exactly the well-formed headers are opened, and nothing else is read;
* segmentation: every voiced sample is recognised, and windows and repetitions are bounded;
* decoding: CTC collapses its best path, RNNT's prediction is never stale, and the
  words of the text are those that get a time;
* joining: no word is lost or moved, and each is in the transcript once unless a forced
  cut fell into a word or words cannot be told apart;
* configuration: recordings stay out of the models, and Load, the manifest and New
  agree on the files;
* metrics: no time counted twice, and the stages that ran are the stages reported.

## 2. Modules

| Module | Lines of code | What it is |
|---|---|---|
| `Gate` | `lifecycle.go`, `main.go:62-74` | abstract: users of a resource behind a gate |
| `Service` | `internal/api/{server,lifecycle,storage,transcription}.go`, `cmd/gigaam` | the concurrent core |
| `Sessions` | `engine.go:22-93`, `onnx.go` | the native side of the engine, behind the gate |
| `Disk` | `storage.go:53-69`, `transcription.go:62-116`, `audio.go:42-116` | requests on one volume |
| `Upload` | `upload.go`, `errors.go:35-49` | one multipart body |
| `WavHeader` | `audio.go:124-212` | the prepared file |
| `Segmenter` | `engine.go:302-423,454-487` | windows of one recording |
| `Decoder` | `engine.go:144-234`, `features.go:48-54` | tokens of one window |
| `Words` | `engine.go:100-143,249-280` | the vocabulary, and words from tokens |
| `Overlap` | `engine.go:319-366,395-415,424-487` | one transcript from many windows |
| `Timings` | `metrics.go`, and the calls that measure | the summary of one request |
| `Paths` | `config.go:148-194`, `storage.go:12-15` | where recordings and models are |
| `Install` | `config.go:59-160`, `models.go`, `manifest.json`, `engine.go:50-76` | which model files |
| `ServiceProofs` | | theorems of `Service` |
| `EngineProofs` | | theorems of `Gate`, `Sessions` and `Install` |
| `AudioProofs` | | theorems of `Disk` and `WavHeader` |
| `UploadProofs` | | theorems of `Upload` and `Paths` |
| `SegmenterProofs`, `OverlapProofs`, `TimingsProofs` | | theorems of the module of that name |
| `DecoderProofs` | | theorems of `Decoder` and `Words` |
| `MC...` | | instances for TLC |

### Service

State: one variable per field of `Server`, with `""` of `Server.state` written
`"available"`, `len(slots)` for the channel and Booleans for the closed channel and
the cancelled contexts. `main` and `init` are the program counters of `run` and
`initialize`; `paths` and `removed` are the local state of `RetryCleanup`; `entries`
is what `CleanStartup` has listed. Per request: `pc`, the two contexts, the read
deadline, whether the callback that expires it is still to run, and the code to be
answered.

A request stands for its handler and for its directory, because `os.MkdirTemp` does
not repeat a name: a request may start again only when its name is on no list and
not on the disk (`Fresh`).

Grain: a critical section of `Server.mu` is one action (`Acquire`, `Release`,
`AddPending`, `RetryTick`, `RetryForget`, `StopSignal`, `Ready`); a removal is one
action and taking the lock afterwards another, since other goroutines run between.
`Refuse` is one action too: it reads the availability and leaves the lock.

What happens where:

| pc | code |
|---|---|
| `arming` | `transcription.go:26-34`, slot taken, callbacks registered, upload deadline not yet set |
| `storage` | `:63-69` |
| `upload` | `:79-92` |
| `prepare` | `:93-98`, FFprobe and FFmpeg |
| `infer`, `native` | `:103`, between and in native calls |
| `close` | `:105-115` |
| `cleanup`, `pend` | `:70-78`, `removeAll` and the entry in `pending` |
| `finish`, `write` | `:36-59` |
| `unwind` | deferred `stopRead`, `stop`, `cancel`, `release` |

Choices left open: whether the volume has room, whether the upload is good, whether
FFmpeg, the model and `removeAll` succeed, when a client goes away (net/http notices
after the body has been read), when a timer fires, when the signal comes, and when
the process is killed. `Restart` keeps only the disk.

### Gate

`inside` is the set of admitted handlers, `closing` is `stopping`, `sealed` is the
closed `drained`, `resource` the engine. A user enters only while the resource is
ready, the gate is not closing and there is room; the resource is destroyed only
behind a sealed gate. `Service!ImplementsGate` is the refinement. `Sessions` extends
`Gate`: what it shows of native calls holds for every service that implements it, and
the details of handlers are not repeated there.

### Sessions

`load` is where `New` is, `at` the graph it opens, `shut` the graph that `Close` comes
to next; `Close` is one sequence of steps whether main calls it or the deferred
function of a `New` that fails. Each caller (the loader, which warms up, and the
handlers that are inside the gate) has a stage of `graph.run` and the number of tensors
it has made. Every native call may fail, also with only some of its outputs made.
Tensor shapes and types are part of a call that fails.

### Disk

Sizes are blocks. `free` is shared by all requests and by other processes (`Others`),
which may write or delete at any time. `need` is the size that the whole conversion
would have, `limit` what is given to FFmpeg as `-fs`: it looks at the size before it
writes a packet, and exits with success at the limit. `Word` is 2^64 scaled down, so
that the subtraction wraps around and the signed option overflows at sizes that the
run reaches. `noisy` says that FFmpeg has already filled the 4096 bytes of its output
that are kept, so that `No space left on device` is not among them.

### WavHeader

A chunk's identifier, size and content are chosen when the walk gets there.
`WellFormed` says what a good file is of the chunks as a whole, without an order of
reading. `Marker` is 0xffffffff, the size that refers to ds64.

### Segmenter

Positions are samples. A frame is `"voiced"` (score at or above the threshold),
`"quiet"` (below the lower threshold) or `"unclear"`. `CutPoints` is every point
that `quietBoundary` can return. `probe` is an arbitrary sample: that a property
holds of it for every initial choice is that it holds of every sample. A window that
is given to `emit` and is not empty is recorded in `window`, with the end of the one
before it.

### Upload

The body is a sequence of parts chosen at the start; `taken` counts against
`http.MaxBytesReader` and `unread` is what is left of the part. `ValidRequest` says
what a valid request is without an order of reading; `Fits` says that framing and parts
together stay within the body limit, as the existence of the sums up to each part.

### Decoder and Words

The graphs are external: the encoder returns any number of frames, the argmax is any
token. The output and the state of the prediction network are the sequence of tokens
that it has read, so that a stale one is another sequence. `path` records CTC's best
path. `Words` has a vocabulary with a piece of each shape (unknown, mark, a lone or a
leading or an inner word begin, the blank) and damages its file in every single way.
The vocabulary is a constant of `Words`; that one is `SmallVocabulary` of `MCDecoder`.
`text` is what `decode` writes, rune by rune with the time of its token, and `laid`
remembers where each token's runes begin; the words of the text by the definition of
`strings.Fields` (`Begins`) are compared with what `wordPositions` counts, rune by rune.

### Overlap

The recording is a track of spoken words, the recogniser perfect but for the words that
a window's edges cut and for tokens that come late by up to 100 ms. What is wrong
in the transcript is then the fault of the joining. The recordings are a constant,
`Tracks`; TLC is given every one of up to `MaxWords` words (`SmallTracks` of `MCOverlap`).
`Begun` and `Ended` count words at a time. A word that the left edge cuts is heard as a
fragment, as the word if little of it is missing, or not at all (`Cuts`), and so is one
that the right edge cuts (`Ends`); between them the window hears whole words (`Whole`).

`Window` says where a window can lie. It can end anywhere: `quietBoundary` returns the
limit itself where it finds no quiet point, and in continuous speech that can be inside
a word. It can also end before the last one, and `emit` then sets `previousEnd` back:
after a forced cut a window begins in the overlap, and if a pause follows soon it ends at
the last voice and the padding, which can be before the cut. What is required of a window
follows from the segmenter and the limits, on these assumptions:

* no word is longer than the overlap (one second by default), so that the window after
  a forced cut hears the word that the cut fell into from its beginning on;
* a window that ends by a forced cut is longer than two words and the overlap: the limit
  is 20 seconds by default, and the cut is in its second half;
* the detector hears every word, so that a pause is cut, and begins, where nobody
  speaks (that no voiced sample is lost is `NoVoiceLost` of `Segmenter`);
* the padding is shorter than the minimal silence (300 and 500 ms by default), so that
  what the windows around a pause share is silent.

A call of `emit` with `b <= a` returns at once and changes nothing; it is no step here.

`WordsOnce` has two exceptions. `Ambiguous`: more common words than are compared, or a
word that begins within 100 ms after the last window and is the same as the last word in
it; the code promises nothing of the first and is wrong about the second
(`overlap_repeat`). `Severed`: the last window has ended in a word that it heard as a
fragment, and this one hears it again; no match of `overlapSuffix` can include the
fragment, and the words of the overlap are repeated (`overlap_joints`). `WordsKept` says
what is left then: the transcript without some of its repetitions is that of every word.
`known`, `unclear` and `severed` are history: how many words have been heard, and whether
one of the two has happened.

### Timings

The control flow of the handler and of `Transcribe`, with a clock; a stage is measured
where the code measures it. `ran` records the stages that were begun.

### Paths and Install

A file system of two levels with directories, links, loops and directories that may
not be searched; `Canonical` is `canonicalPath`, `MkdirAll` what `CleanStartup` does
with the result. Both look at a walk, one name at a time: a link puts the names of its
target before what is left, and `own` counts the names that are of the path itself, so
that a directory that is missing behind a link can be told from one that can be made.
`Install` goes through `Load`, the manifest entry by entry, and the
files that `New` opens, with any of them missing. All other settings are one Boolean:
each is a single comparison.

## 3. Runs

| Run | Instance | States | Shows |
|---|---|---|---|
| `service` | 3 requests, 2 slots, no restart | 556k | `SlotAccounting`, `EngineOutlivesHandlers`, `HonestSuccess`, `NoForgottenDir`, `FilesHeld`, `ImplementsGate` |
| `service_live` | 2 requests, 1 slot, 1 restart, fairness | 29k | `NoForgottenDir`, `AdmittedToOwnedDisk`, `ShutdownCompletes`, `AdmittedEnds`, `AdmissionRecovers` |
| `service_read` | 2 requests, 1 slot | | violated: `CancelledReadEnds` |
| `windows` | 25 samples, chunk 10, overlap 5, padding 5, silence 3, frame 2; 700 ms, 3 words of 2 kinds, 3 compared | 395k | `NoVoiceLost`, `WindowBounded`, `RereadBounded`; `OverlapTypeOK`, `WordsKept`, `WordsOnce`, `DropsBounded` |
| `segmenter_limit` | 13 samples, the same limits | | violated: `WindowWithinLimit` |
| `upload` | file limit 2, framing 3, text limit 1, 3 parts; 2 names, 6 links | 535k | `OnlyValidProcessed`, `StoredWhole`; `AudioOutsideModels`, `SeparateAccepted` |
| `overlap_joints` | 700 ms, 2 words | | violated: `NothingRepeated` |
| `overlap_repeat` | 700 ms, 2 words | | violated: `RepeatsOutsideKept` |
| `audio` | 2 requests, 7 blocks, reserve 3, packet 2, word 8; files of up to 14 bytes | 2.07M | `TypeOK`, `CutNeverRecognised`, `ReserveSpared`; `OpenExactly`, `ReadsInside` |
| `disk_full` | 2 requests, 6 blocks | | violated: `FullDiskIsStorage` |
| `engine` | RNNT, 3 handlers, capacity 2, fairness; 2 missing files | 48k | `UseWhileLive`, `DestroyedOnce`, `NothingLeaks`, `EngineCloses`; `LoadsExactly` |
| `decoder` | 2 tokens and the blank, 4 frames, 4 lengths; 8 pieces, texts of 5; 4 frames or windows | 2.35M | `CtcCollapses`, `PredictionFresh`, `EmissionsOrdered`, `AudioOnly`; `DamageNoticed`, `WordsTimed`; `TimesNest`, `ReportComplete` |

Five runs check parts that share no state in one go: `MCWindows` is `Segmenter` or
`Overlap`, `MCUpload` is `Upload` or `Paths`, `MCAudio` is `Disk` or `WavHeader`, `MCEngine` is `Sessions` or `Install`, `MCDecoder` is
`Decoder`, `Words` or `Timings`. The variable `part` is chosen at the start and says
which one a behaviour is about; the others rest in one fixed state that is one of their
initial or final ones, so that nothing is multiplied. The harnesses extend the modules
that are proved, so that a run checks the very formulas that the theorems state and TLC
evaluates their assumptions.

Why the bounds are enough to be of use. Three requests over two slots have a full
service, a refusal, and a release between two others. One restart is enough for
every directory state to be met by a new process; leftovers are on the disk in the
initial states as well, so that a second crash starts from a state like the first.
The crash and liveness run has one slot and two requests, so that a handler, a refusal
and a leftover meet; symmetry is used in safety runs only. The segmenter's numbers
meet every assumption with equality: twice the overlap and twice the padding are the
chunk. The recording has two chunks and a half and an odd end. The upload run has
files of 0 to two above the limit, so that all sides of each comparison are met, and
three parts allow a repeated one before and after the file; two names give paths that
are equal, nested, apart, and linked into one another. In `audio`, seven blocks are less
than two conversions need and more than the largest signed size, so that the volume
runs full and the limit is clipped; files of 14 bytes hold six chunk headers. In
`windows`, the longest word is three steps and windows of every size are tried, so that
a cut can fall into a word at each of its points, three windows in a row can meet the
same words, and two of three words are the same in most recordings. Four frames hold a run, a blank and the
same token again, and an RNNT prediction kept over two frames; texts of five pieces hold
every pair with something around it.

Deadlock is checked except in `audio` and `decoder`, where a file is read or refused and
a window, a text or a report is finished. Elsewhere `Exited`, `Exit`, `Returned`,
`Answered` and the ends in the MC modules are the states in which the system is allowed
to stop.

### Fairness

`FairSpec` of `Service` gives weak fairness to what the code's own goroutines, timers
and callbacks do: the Go scheduler runs them, a native call and a child process end
(with `exec.CommandContext` the latter is killed), and `http.Server.Shutdown`
returns or times out. Nothing is owed by clients, signals or crashes: no fairness on
admission, on a good upload, on success of FFmpeg or the model. `RetryRemove` has
strong fairness per directory: a volume that refuses a directory again and again
does not refuse for ever. Without it `AdmissionRecovers` is false, as it should be:
with a broken disk, admission stays closed. The ticks of `RetryCleanup` are fair
only until its context is cancelled, although it may still run a last one.
A crash ends every obligation of the process that is killed: `ShutdownCompletes` says that
it exits or that another process is serving.

`Fairness` of `Sessions`: the loader, a native call and main go on when they can; the
warm-up comes to the VAD in the end (its recognition is a finite number of calls), and
a handler leaves in the end, which is what `AdmittedEnds` of `Service` says.

### Findings

* `service_read` (`transcription.go:32-34`): the callback that expires the read
  deadline when the context is cancelled may run before the upload deadline is set.
  The later call wins, and the handler reads the body until `UploadTimeout`, though
  the grace period is over. The window is small and needs a grace period that ends
  just after an admission; `GRACE_PERIOD` may be any positive duration.
* `segmenter_limit` (`engine.go:367,395`): a pause that ends in the frame in which
  the window reaches its limit emits up to one frame more than the limit. At the
  default settings the padding is shorter than the silence by more than a frame and this
  cannot happen.
* `overlap_repeat` (`engine.go:257,348`): a word that is said again less than 100 ms
  after the end of the last window was not in it and is dropped all the same, since
  words up to 1600 samples past the end count as possibly repeated.
* `overlap_joints` (`engine.go:486,436-448`, `gigaam-go-service-spec.md:98,296`): where a
  forced cut falls into a word, in speech without a quiet point, the window's text ends
  in a fragment of it. `overlapSuffix` compares only what includes this last word, finds
  nothing, and the words of the overlap are in the transcript twice. The specification
  wants no systematic repetitions, continuous speech and words at the joints included.
* `disk_full` (`audio.go:45,56`, `docs/hp-lan.md:75`): if FFmpeg has complained for more
  than 4096 bytes before the volume runs full, its last message is not kept and the
  client is told that the audio is invalid.

## 4. Proofs

All theorems hold for every value of the constants that meets the named assumptions:

| Module | Assumed of the constants |
|---|---|
| `Service` | finitely many requests, a concurrency of at least one, any number of restarts |
| `Segmenter` | the limits that `config.Load` enforces, a frame of at least one sample, at most half the power window, which is at most half the chunk |
| `Upload`, `Disk` | positive limits |
| `WavHeader` | any header sizes |
| `Sessions` | any handlers, both models |
| `Paths` | any names, any limit of links; files lie one or two names from the root |
| `Install` | any number of missing files; the manifest is the repository's |
| `Decoder` | any vocabulary, window lengths and number of frames |
| `Words` | a vocabulary of two lines or more that are numbered from 0, whose last one and no other is the blank; texts of any length |
| `Overlap` | recordings whose words are in order and do not overlap, of at most `Longest`; positive limits; windows as above, cut anywhere |
| `Timings` | any passage of time, any number of frames and windows |

The type invariants of the modules that are proved are not run again, except those of
`Disk`, which says that the limit fits FFmpeg's option, and of `Overlap`, which says that
what `emit` remembers lies in the last window (`OverlapTypeOK`).

`ServiceProofs`. `LifeInv` is `TypeOK`, `SlotAccounting`, `EngineOutlivesHandlers`
and `Phases`, and it is inductive; none of the middle two is by itself. `Phases`
ties the program counters to the engine: the engine is closed only when `run` has
exited, `run` comes so far only with `drained` closed and the initialisation
joined, and the service is available only with an engine. So `Acquire` finds the
engine open, `CloseEngine` finds nobody admitted, and `LoadOk` cannot reopen a
closed engine. One lemma per group of steps says what it does to the admitted set
(`InnerStepKeeps`, `AcquireKeeps`, `ReleaseKeeps`, ...); `GateKept` covers every
step that leaves the gate's variables alone. From the same lemmas `StepImplements`
shows that each step is a step of `Gate` or a stutter, and `GateImplemented`
follows.

The second half is about files and answers. `DirInv` adds to `FilesHeld` and
`NoForgottenDir` that the name of a directory that a handler owns, or is going to make,
is on no list of anybody else, and that what `RetryCleanup` has removed is not back on
the disk before it is forgotten. Without the first, the sweep or a retry could remove a
directory in use; without the second, forgetting could lose one. `Scan` needs `LifeInv`:
nobody is admitted while the directory is listed. `AnswerInv` is the invariant for
`HonestSuccess`: from the last look at the processing context on, no error means a
live context, and after cleanup no directory.

`EngineProofs` begins with what every implementation of the gate has (`GateSafety`).
For `Sessions`, `IInv` is `TypeOK`, `GateSafe`, `Phases`, `Calls`, `Environment` and
`Opened`. `Phases` ties the gate to `New` and `Close` (the resource is ready only when
`New` is up, gone only after); `Calls` says that a caller that is in a call is inside
the gate or the loader in its warm-up, so that `Close` finds nobody in one; `Opened`
says which graphs are open at each place of `New` and of `Close`. The three safety
properties follow. The case of the CTC model is covered here only. For `Install`,
`InstallInv` says what `Locate` has found at each entry of the manifest it has passed:
a bundle that was wanted is found only if it is whole, and at the end both the model and
the VAD are found, so that `New` wants nothing that `Locate` has not looked for. The
entries of the manifest are gone through one by one.

`SegmenterProofs`. `IInv` says where the open window is relative to the position,
the last voice and the last emitted end, that it is shorter than the limit before a
frame, and that the probe, once heard, is in an emitted window or in the open one.

`UploadProofs`. `UploadInv` says that stored and unread bytes add up to the file
while it is copied, that every part read has a name that was seen (so that a second
file is refused), and that the stored bytes are the whole file afterwards. For
`ExactlyTheValid` two parts are added while nothing is answered: `Known` says that the
parts that were read are good and have a name each of their own, and that `fields` has
their values; `Summed` that the bytes that `MaxBytesReader` has let through are the
framing, the parts that were read and what has been read of this one, in every way to
sum them up. A body that is too large is then one for which there are no sums within the
limit, and every other refusal finds something that no valid request has.

For `Paths` the file system is a value, and the lemmas say what its walks do. Every walk
ends, since a link that is followed is one of those that may be (`WalkEnds`), and where it
ends does not depend on how many steps are counted (`EvalUnique`). A longer path is
followed as its beginning is until that is found (`Split`), fewer links behind it change
nothing (`WalkRelinked`), and a real directory is where its path says (`RealWalk`). So
`canonicalPath` returns what is where it says or would be made there
(`CanonicalResolved`), and what can be made is canonical where it is made
(`CanonicalMade`); the hard case is a directory that is missing behind a dangling link,
which cannot be made under either name (`MissingFacts`). `PathsInv` carries that from
`Load` to `CleanStartup`; the comparison of the strings does the rest. Induction over the
steps of a walk is `Naturals`, which is stated for a set of numbers.

`AudioProofs`. For `Disk`, `IInv` is `TypeOK`, `CutNeverRecognised` and `Steps`, which
says what a request knows at each of its steps: after the upload its source is whole and
none of its writes has met a full disk, and when FFmpeg has ended with success its output
is complete or at the limit. The test of `Stat` then leaves the complete one only.
No assumption about other requests or processes is needed. `RInv` adds for
`ReserveSpared` what is left at each step for a request that is alone: the test before
the upload leaves room for the file, and the limit for the output. For `WavHeader`, the
invariant says what the walk remembers of the chunks that it has passed: where it is,
whether the last fmt chunk was good, and whether and what a ds64 chunk has claimed. At the
data chunk this is `WellFormed`, piece by piece.

`DecoderProofs`. For `Decoder`, `IInv` is `Timing` (the time of every token is that of a
frame up to this one, and the tokens of this frame are counted), `Walked` (the CTC path is
as long as the frames walked, the previous token is its last, and its runs are the result)
and `Reading` (the RNNT state has read what the result holds). For `Words`, `WordsInv` is
`Loading` (what was read is the beginning of the file, with every line at its number),
`Laid` (the text is the sounds of the tokens, side by side, each with the token's time) and
`Scanned` (`wordPositions` has counted the beginnings of words up to the rune it is at, and
`inWord` says what the rune before was). `DamageNoticed` needs that no damaged form of the
file has its lines numbered and the blank at its end (`Undamaged`, by every way of
damaging it). `WordsTimed` needs that the space `decode` cuts off begins no word.

`TimingsProofs`. `TimingsInv` is `Nested` and `Counted`. The outer stages that are over
fit into the time before the one that runs has begun, the inner ones into the time since;
what has been measured is what was begun and is over, and on a path without an error that
is every stage before this one.

`OverlapProofs`. `OverlapInv` says that what `emit` remembers of the last window is what
was heard in it (`HeardIn`): perhaps the word that its left edge cuts, the words up to
`known`, which are all that have ended and at most the one more that is cut (`Knows`), and
perhaps a fragment of that one. And it says that the transcript spells the words up to
`known` at all its places that have a word, or, once windows were severed, at some of them
(`Spelt`). Nothing is assumed of where a window ends. Of two windows, everything heard of
the overlap was heard in both (`Shared`), but for the fragment at the right edge of the
first, of which the second hears the whole word. The lemma that matters is `Joined`: unless
the windows are `Ambiguous` or `Severed`, `overlapSuffix` drops the cut word and the words
of the overlap, and no more. Their match lies within the limit, since `emit` counts one
word of the last window more than begin in the overlap, and any longer or later match
would pair the last word of the last window with one that begins after it, which is what
`Ambiguous` excludes. A fragment alone in the overlap matches nothing and is kept. Where
the windows are `Severed` nothing is dropped (`NotJoined`), so that only words that were
in the transcript come again before the new ones. `Joins` states both cases as one, and
`Appended` carries it over to the positions of the transcript: `EveryWordOnce` and
`NoWordLost` follow. `SuffixFacts`, `PrefixFacts` and `LimitFacts` say what `emit` lets
`overlapSuffix` compare, and give `DropsBounded` without a condition.

Only model-checked: the four liveness properties (fairness and `ENABLED` are
outside the prover's reach) and the violations. Every invariant and every action
property of the passing runs is proved.

## 5. Not modelled

* The spectra of `features.go` and the scores of the VAD: floating-point signal
  processing on fixed tables. The number of frames and the padding are in `Decoder`.
* What FFprobe and FFmpeg make of a recording, and how `Probe` reads FFprobe's answer:
  any outcome is possible.
* `quietBoundary`'s choice among the quiet points: any of the points that it can
  return.
* Routing, authorisation, health, the list of models, logging and diagnostics: no state
  of their own that others read.
* HTTP framing and keep-alive. The body of a request is taken to end with its last
  multipart boundary; how net/http drains what a client sends after it is not modelled.
* A panic in a handler: net/http recovers it and the deferred calls run as they do
  after an error.
* The numeric ranges of the settings, other than those of the windows.
* Image builds, scripts and benchmarks.

What would come next: `Upload` and `Disk` as the upload step of `Service` in one
composition, so that the code of the answer is followed from the disk to the client.
