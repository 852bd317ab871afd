------------------------------- MODULE Service -------------------------------
(***************************************************************************)
(* The life of the transcription service: admission, the request handler   *)
(* from its slot to its response, the request's directory on disk, the     *)
(* background cleanup, start-up, draining and shutdown                     *)
(* (internal/api/{server,lifecycle,storage,transcription}.go and           *)
(* cmd/gigaam/{main,initialize}.go).                                       *)
(*                                                                         *)
(* Processes: the main goroutine, the initialisation goroutine, the        *)
(* RetryCleanup goroutine, one handler goroutine per request and the       *)
(* AfterFunc callbacks of its contexts.  Each critical section of          *)
(* Server.mu is one action; what a goroutine does between two accesses to  *)
(* shared state is one action too.                                         *)
(*                                                                         *)
(* A request stands for its handler and for its directory: os.MkdirTemp    *)
(* never repeats a name, so a request is used again only when its name is  *)
(* nowhere any more.  Error codes no property tells apart are "failed".    *)
(***************************************************************************)
EXTENDS Naturals, FiniteSets

CONSTANTS Requests,     \* concurrent requests, and the names of their directories
          Concurrency,  \* config.Concurrency: the capacity of Server.slots
          MaxBoots      \* bound: how often the process is started again

ASSUME RequestsAssumption == IsFiniteSet(Requests)
ASSUME ConcurrencyAssumption == Concurrency \in Nat \ {0}
ASSUME MaxBootsAssumption == MaxBoots \in Nat

VARIABLES
    state,     \* Server.state: "service_initializing", "model_unavailable" or,
               \* where the code has the empty string, "available"
    stopping,  \* Server.stopping
    active,    \* Server.active
    slots,     \* len(Server.slots)
    drained,   \* the channel Server.drained is closed
    root,      \* Server.root is cancelled
    pending,   \* Server.pending
    engine,    \* the inference engine: "none", "open" or "closed"
    main,      \* where run() is
    init,      \* where initialize() is
    entries,   \* the directory entries CleanStartup has still to remove
    stopInit,  \* run()'s ctx, given to initialize and RetryCleanup, is cancelled
    paths,     \* RetryCleanup: its snapshot of pending, still to be tried
    removed,   \* RetryCleanup: the path removed and not yet deleted from pending
    disk,      \* the request-* directories of WorkDir; they survive the process
    boots,     \* restarts so far
    pc,        \* where each handler is
    ctx,       \* the request context: "live" or "canceled"
    pctx,      \* the processing context: "live", "canceled" or "timeout"
    deadline,  \* the connection's read deadline: "none", "upload" or "now"
    armed,     \* the AfterFunc that expires the read deadline has not run
    err        \* the code the handler is going to answer, "ok" for none

server == <<state, stopping, active, slots, drained, root, pending>>
process == <<engine, main, init, entries, stopInit>>
retrier == <<paths, removed>>
handler == <<pc, ctx, pctx, deadline, armed, err>>
vars == <<server, process, retrier, disk, boots, handler>>

-----------------------------------------------------------------------------
(* Where a handler can be. *)

Processing == {"prepare", "infer", "native", "close"}

\* Between os.MkdirTemp and the end of the deferred cleanup.
OwnsDir == {"upload"} \cup Processing \cup {"cleanup", "pend"}

\* Between acquire and the deferred release, which runs last.
HoldsSlot == {"arming", "storage"} \cup OwnsDir \cup {"finish", "write", "unwind"}

HandlerSteps == {"idle", "refused"} \cup HoldsSlot

Codes == {"ok", "failed", "upload_timeout", "transcription_timeout",
          "request_cancelled", "cleanup_failed", "service_stopping",
          "cleanup_pending", "service_initializing", "model_unavailable",
          "service_busy"}

Admitted == {r \in Requests : pc[r] \in HoldsSlot}

ServerTypes ==
    /\ state \in {"service_initializing", "model_unavailable", "available"}
    /\ stopping \in BOOLEAN
    /\ active \in Nat
    /\ slots \in Nat
    /\ drained \in BOOLEAN
    /\ root \in BOOLEAN

ProcessTypes ==
    /\ engine \in {"none", "open", "closed"}
    /\ main \in {"serving", "drain", "expired", "join", "shutdown", "close", "exited"}
    /\ init \in {"scan", "sweep", "load", "ready", "done", "unswept"}
    /\ stopInit \in BOOLEAN
    /\ boots \in 0..MaxBoots

DirTypes ==
    /\ disk \in SUBSET Requests
    /\ pending \in SUBSET Requests
    /\ entries \in SUBSET Requests
    /\ paths \in SUBSET Requests
    /\ removed \in SUBSET Requests

HandlerTypes ==
    /\ pc \in [Requests -> HandlerSteps]
    /\ ctx \in [Requests -> {"live", "canceled"}]
    /\ pctx \in [Requests -> {"live", "canceled", "timeout"}]
    /\ deadline \in [Requests -> {"none", "upload", "now"}]
    /\ armed \in [Requests -> BOOLEAN]
    /\ err \in [Requests -> Codes]

TypeOK == ServerTypes /\ ProcessTypes /\ DirTypes /\ HandlerTypes

-----------------------------------------------------------------------------
(* A new process.  Leftovers of an earlier one may be on the disk. *)

Init ==
    /\ state = "service_initializing"
    /\ stopping = FALSE
    /\ active = 0
    /\ slots = 0
    /\ drained = FALSE
    /\ root = FALSE
    /\ pending = {}
    /\ engine = "none"
    /\ main = "serving"
    /\ init = "scan"
    /\ entries = {}
    /\ stopInit = FALSE
    /\ paths = {}
    /\ removed = {}
    /\ disk \in SUBSET Requests
    /\ boots = 0
    /\ pc = [r \in Requests |-> "idle"]
    /\ ctx = [r \in Requests |-> "live"]
    /\ pctx = [r \in Requests |-> "live"]
    /\ deadline = [r \in Requests |-> "none"]
    /\ armed = [r \in Requests |-> FALSE]
    /\ err = [r \in Requests |-> "ok"]

\* The process is killed, or has exited, and is started again: everything but
\* the work directory is lost, and no interrupted request is resumed.
Restart ==
    /\ boots < MaxBoots
    /\ boots' = boots + 1
    /\ state' = "service_initializing"
    /\ stopping' = FALSE
    /\ active' = 0
    /\ slots' = 0
    /\ drained' = FALSE
    /\ root' = FALSE
    /\ pending' = {}
    /\ engine' = "none"
    /\ main' = "serving"
    /\ init' = "scan"
    /\ entries' = {}
    /\ stopInit' = FALSE
    /\ paths' = {}
    /\ removed' = {}
    /\ pc' = [r \in Requests |-> "idle"]
    /\ ctx' = [r \in Requests |-> "live"]
    /\ pctx' = [r \in Requests |-> "live"]
    /\ deadline' = [r \in Requests |-> "none"]
    /\ armed' = [r \in Requests |-> FALSE]
    /\ err' = [r \in Requests |-> "ok"]
    /\ UNCHANGED disk

Running == main # "exited"

-----------------------------------------------------------------------------
(* Admission. *)

\* Mutant: pending cleanup does not refuse.
AvailabilityIgnoresPending ==
    IF stopping THEN "service_stopping" ELSE IF state # "available" THEN state ELSE "ok"

\* Mutant: a stopping service does not refuse.
AvailabilityIgnoresStopping ==
    IF pending # {} THEN "cleanup_pending" ELSE IF state # "available" THEN state ELSE "ok"

\* availabilityLocked(true): the code that refuses a transcription, or "ok".
Availability ==
    IF stopping THEN "service_stopping"
    ELSE IF pending # {} THEN "cleanup_pending"
    ELSE IF state # "available" THEN state
    ELSE "ok"

\* The request's name is nowhere: os.MkdirTemp can return it.
Fresh(r) == r \notin disk \cup pending \cup entries \cup paths \cup removed

CanEnter == Availability = "ok" /\ slots < Concurrency

\* The handler takes a slot, derives its context and registers its two
\* AfterFuncs: root cancels ctx, and ctx expires the read deadline.
Acquire(r) ==
    /\ Running /\ pc[r] = "idle" /\ Fresh(r)
    /\ CanEnter
    /\ slots' = slots + 1
    /\ active' = active + 1
    /\ pc' = [pc EXCEPT ![r] = "arming"]
    /\ armed' = [armed EXCEPT ![r] = TRUE]
    /\ UNCHANGED <<state, stopping, drained, root, pending, process, retrier,
                   disk, boots, ctx, pctx, deadline, err>>

Refuse(r) ==
    /\ Running /\ pc[r] = "idle"
    /\ ~CanEnter
    /\ pc' = [pc EXCEPT ![r] = "refused"]
    /\ err' = [err EXCEPT ![r] = IF Availability = "ok" THEN "service_busy"
                                 ELSE Availability]
    /\ UNCHANGED <<server, process, retrier, disk, boots, ctx, pctx, deadline, armed>>

WriteRefusal(r) ==
    /\ Running /\ pc[r] = "refused"
    /\ pc' = [pc EXCEPT ![r] = "idle"]
    /\ err' = [err EXCEPT ![r] = "ok"]
    /\ UNCHANGED <<server, process, retrier, disk, boots, ctx, pctx, deadline, armed>>

-----------------------------------------------------------------------------
(* The handler, from its slot to its response. *)

At(r, step) == Running /\ pc[r] = step

\* Handler steps that touch neither Server, the directory nor the deadline.
Local(r, next, code) ==
    /\ pc' = [pc EXCEPT ![r] = next]
    /\ err' = [err EXCEPT ![r] = code]
    /\ UNCHANGED <<server, process, retrier, disk, boots, ctx, pctx, deadline, armed>>

\* Mutant: no upload deadline.
SetNoDeadline(r) ==
    /\ At(r, "arming")
    /\ pc' = [pc EXCEPT ![r] = "storage"]
    /\ UNCHANGED <<server, process, retrier, disk, boots, ctx, pctx, deadline, armed, err>>

\* The upload deadline replaces whatever deadline is set.
SetUploadDeadline(r) ==
    /\ At(r, "arming")
    /\ pc' = [pc EXCEPT ![r] = "storage"]
    /\ deadline' = [deadline EXCEPT ![r] = "upload"]
    /\ UNCHANGED <<server, process, retrier, disk, boots, ctx, pctx, armed, err>>

\* The volume has no room for the upload, or the directory cannot be made.
NoStorage(r) == At(r, "storage") /\ Local(r, "finish", "failed")

MakeDir(r) ==
    /\ At(r, "storage")
    /\ disk' = disk \cup {r}
    /\ pc' = [pc EXCEPT ![r] = "upload"]
    /\ UNCHANGED <<server, process, retrier, boots, ctx, pctx, deadline, armed, err>>

\* The body has been read and is valid: the deadline is cleared, and the
\* processing context is derived unless the volume is too full to go on.
UploadOk(r) ==
    /\ At(r, "upload")
    /\ deadline' = [deadline EXCEPT ![r] = "none"]
    /\ \/ /\ pc' = [pc EXCEPT ![r] = "prepare"]
          /\ pctx' = [pctx EXCEPT ![r] = ctx[r]]
          /\ UNCHANGED err
       \/ /\ pc' = [pc EXCEPT ![r] = "cleanup"]
          /\ err' = [err EXCEPT ![r] = "failed"]
          /\ UNCHANGED pctx
    /\ UNCHANGED <<server, process, retrier, disk, boots, ctx, armed>>

UploadFails(r) == At(r, "upload") /\ Local(r, "cleanup", "failed")

UploadTimesOut(r) ==
    /\ At(r, "upload") /\ deadline[r] # "none"
    /\ Local(r, "cleanup", "upload_timeout")

\* processingError of a context's error.
ContextCode(r) ==
    IF pctx[r] = "timeout" THEN "transcription_timeout" ELSE "request_cancelled"

ProcessTimeout(r) ==
    /\ Running /\ pc[r] \in Processing /\ pctx[r] = "live"
    /\ pctx' = [pctx EXCEPT ![r] = "timeout"]
    /\ UNCHANGED <<server, process, retrier, disk, boots, pc, ctx, deadline, armed, err>>

\* audio.Prepare: FFprobe and FFmpeg are killed when the context is done.
PrepareOk(r) == At(r, "prepare") /\ pctx[r] = "live" /\ Local(r, "infer", "ok")
PrepareFails(r) == At(r, "prepare") /\ pctx[r] = "live" /\ Local(r, "cleanup", "failed")
PrepareStopped(r) ==
    At(r, "prepare") /\ pctx[r] # "live" /\ Local(r, "cleanup", ContextCode(r))

\* Engine.Transcribe: the context is looked at before and after a native
\* call, never during it.
NativeCall(r) == At(r, "infer") /\ pctx[r] = "live" /\ Local(r, "native", "ok")
InferStopped(r) ==
    At(r, "infer") /\ pctx[r] # "live" /\ Local(r, "close", ContextCode(r))
InferFails(r) == At(r, "infer") /\ Local(r, "close", "failed")
InferDone(r) == At(r, "infer") /\ Local(r, "close", "ok")
NativeReturns(r) ==
    /\ At(r, "native")
    /\ IF pctx[r] = "live" THEN Local(r, "infer", "ok")
       ELSE Local(r, "close", ContextCode(r))
NativeFails(r) == At(r, "native") /\ Local(r, "close", "failed")

\* Mutant: what Transcribe returned stands, whatever the context says.
CloseAudioTrusting(r) ==
    /\ At(r, "close")
    /\ \E closed \in BOOLEAN :
         Local(r, "cleanup", IF err[r] # "ok" THEN err[r]
                             ELSE IF closed THEN "ok" ELSE "failed")

\* A done context overrides what Transcribe returned.
CloseAudio(r) ==
    /\ At(r, "close")
    /\ \E closed \in BOOLEAN :
         Local(r, "cleanup", IF pctx[r] # "live" THEN ContextCode(r)
                             ELSE IF err[r] # "ok" THEN err[r]
                             ELSE IF closed THEN "ok" ELSE "failed")

\* The deferred cleanup: removeAll, and pending under the lock if it failed.
RemoveDir(r) ==
    /\ At(r, "cleanup")
    /\ disk' = disk \ {r}
    /\ pc' = [pc EXCEPT ![r] = "finish"]
    /\ UNCHANGED <<server, process, retrier, boots, ctx, pctx, deadline, armed, err>>

RemoveDirFails(r) == At(r, "cleanup") /\ Local(r, "pend", err[r])

\* Mutant: the failed directory is answered for and not remembered.
AddPendingForgets(r) == At(r, "pend") /\ Local(r, "finish", "cleanup_failed")

AddPending(r) ==
    /\ At(r, "pend")
    /\ pending' = pending \cup {r}
    /\ pc' = [pc EXCEPT ![r] = "finish"]
    /\ err' = [err EXCEPT ![r] = "cleanup_failed"]
    /\ UNCHANGED <<state, stopping, active, slots, drained, root, process, retrier,
                   disk, boots, ctx, pctx, deadline, armed>>

\* process has returned: the last look at the context.
Finish(r) ==
    /\ At(r, "finish")
    /\ deadline' = [deadline EXCEPT ![r] = "none"]
    /\ err' = [err EXCEPT ![r] = IF ctx[r] # "live" /\ err[r] = "ok"
                                 THEN "request_cancelled" ELSE err[r]]
    /\ pc' = [pc EXCEPT ![r] = "write"]
    /\ UNCHANGED <<server, process, retrier, disk, boots, ctx, pctx, armed>>

Respond(r) == At(r, "write") /\ Local(r, "unwind", err[r])

\* Mutant: the first handler to leave a stopping service closes drained.
ReleaseDrainsEarly(r) ==
    /\ At(r, "unwind")
    /\ slots > 0
    /\ slots' = slots - 1
    /\ active' = active - 1
    /\ drained' = (drained \/ stopping)
    /\ pc' = [pc EXCEPT ![r] = "idle"]
    /\ ctx' = [ctx EXCEPT ![r] = "live"]
    /\ pctx' = [pctx EXCEPT ![r] = "live"]
    /\ deadline' = [deadline EXCEPT ![r] = "none"]
    /\ armed' = [armed EXCEPT ![r] = FALSE]
    /\ err' = [err EXCEPT ![r] = "ok"]
    /\ UNCHANGED <<state, stopping, root, pending, process, retrier, disk, boots>>

\* The deferred calls: the callbacks are stopped and the slot is given back.
Release(r) ==
    /\ At(r, "unwind")
    /\ slots > 0
    /\ slots' = slots - 1
    /\ active' = active - 1
    /\ drained' = (drained \/ (stopping /\ active' = 0))
    /\ pc' = [pc EXCEPT ![r] = "idle"]
    /\ ctx' = [ctx EXCEPT ![r] = "live"]
    /\ pctx' = [pctx EXCEPT ![r] = "live"]
    /\ deadline' = [deadline EXCEPT ![r] = "none"]
    /\ armed' = [armed EXCEPT ![r] = FALSE]
    /\ err' = [err EXCEPT ![r] = "ok"]
    /\ UNCHANGED <<state, stopping, root, pending, process, retrier, disk, boots>>

-----------------------------------------------------------------------------
(* Cancellation.  AfterFunc runs its function in a goroutine of its own. *)

CancelContext(r) ==
    /\ ctx[r] = "live"
    /\ ctx' = [ctx EXCEPT ![r] = "canceled"]
    /\ pctx' = [pctx EXCEPT ![r] = IF pc[r] \in Processing /\ pctx[r] = "live"
                                   THEN "canceled" ELSE pctx[r]]
    /\ UNCHANGED <<server, process, retrier, disk, boots, pc, deadline, armed, err>>

\* net/http sees a lost client once the body has been read.
Disconnect(r) ==
    /\ Running
    /\ pc[r] \in Processing \cup {"cleanup", "pend", "finish", "write"}
    /\ CancelContext(r)

RootCancels(r) ==
    /\ Running /\ root
    /\ pc[r] \in HoldsSlot \ {"unwind"}
    /\ CancelContext(r)

ExpireRead(r) ==
    /\ Running /\ armed[r] /\ ctx[r] = "canceled"
    /\ armed' = [armed EXCEPT ![r] = FALSE]
    /\ deadline' = [deadline EXCEPT ![r] = "now"]
    /\ UNCHANGED <<server, process, retrier, disk, boots, pc, ctx, pctx, err>>

-----------------------------------------------------------------------------
(* RetryCleanup. *)

\* Mutant: every directory is tried, not only the pending ones.
RetryTickAll ==
    /\ Running /\ paths = {} /\ removed = {} /\ pending # {}
    /\ paths' = disk
    /\ UNCHANGED <<server, process, removed, disk, boots, handler>>

\* One tick: the paths are copied under the lock and tried outside it.
RetryTick ==
    /\ Running /\ paths = {} /\ removed = {} /\ pending # {}
    /\ paths' = pending
    /\ UNCHANGED <<server, process, removed, disk, boots, handler>>

RetryRemove(d) ==
    /\ Running /\ removed = {} /\ d \in paths
    /\ disk' = disk \ {d}
    /\ paths' = paths \ {d}
    /\ removed' = {d}
    /\ UNCHANGED <<server, process, boots, handler>>

RetryFails(d) ==
    /\ Running /\ removed = {} /\ d \in paths
    /\ paths' = paths \ {d}
    /\ UNCHANGED <<server, process, removed, disk, boots, handler>>

\* Mutant: a removed path stays pending.
RetryForgetNothing ==
    /\ Running /\ removed # {}
    /\ removed' = {}
    /\ UNCHANGED <<server, process, paths, disk, boots, handler>>

RetryForget ==
    /\ Running /\ removed # {}
    /\ pending' = pending \ removed
    /\ removed' = {}
    /\ UNCHANGED <<state, stopping, active, slots, drained, root, process, paths,
                   disk, boots, handler>>

-----------------------------------------------------------------------------
(* initialize. *)

\* CleanStartup lists the work directory, before anybody is admitted.
Scan ==
    /\ Running /\ init = "scan"
    /\ init' = "sweep"
    /\ entries' = disk
    /\ UNCHANGED <<server, engine, main, stopInit, retrier, disk, boots, handler>>

ScanFails ==
    /\ Running /\ init = "scan"
    /\ init' = "unswept"
    /\ state' = "model_unavailable"
    /\ UNCHANGED <<stopping, active, slots, drained, root, pending, engine, main,
                   entries, stopInit, retrier, disk, boots, handler>>

\* Mutant: a directory that cannot be removed is left alone.
SweepForgets(d) ==
    /\ Running /\ init = "sweep" /\ d \in entries
    /\ entries' = entries \ {d}
    /\ disk' \in {disk, disk \ {d}}
    /\ UNCHANGED <<server, engine, main, init, stopInit, retrier, boots, handler>>

Sweep(d) ==
    /\ Running /\ init = "sweep" /\ d \in entries
    /\ entries' = entries \ {d}
    /\ \/ disk' = disk \ {d} /\ UNCHANGED pending
       \/ pending' = pending \cup {d} /\ UNCHANGED disk
    /\ UNCHANGED <<state, stopping, active, slots, drained, root, engine, main, init,
                   stopInit, retrier, boots, handler>>

SweepDone ==
    /\ Running /\ init = "sweep" /\ entries = {}
    /\ init' = "load"
    /\ UNCHANGED <<server, engine, main, entries, stopInit, retrier, disk, boots, handler>>

\* models.Locate and inference.New.
LoadOk ==
    /\ Running /\ init = "load"
    /\ engine' = "open"
    /\ init' = "ready"
    /\ UNCHANGED <<server, main, entries, stopInit, retrier, disk, boots, handler>>

LoadFails ==
    /\ Running /\ init = "load"
    /\ init' = "done"
    /\ state' = "model_unavailable"
    /\ UNCHANGED <<stopping, active, slots, drained, root, pending, engine, main,
                   entries, stopInit, retrier, disk, boots, handler>>

Ready ==
    /\ Running /\ init = "ready"
    /\ state' = "available"
    /\ init' = "done"
    /\ UNCHANGED <<stopping, active, slots, drained, root, pending, engine, main,
                   entries, stopInit, retrier, disk, boots, handler>>

-----------------------------------------------------------------------------
(* run, from the signal on. *)

\* Mutant: only release closes drained.
StopSignalWaits ==
    /\ main = "serving"
    /\ main' = "drain"
    /\ stopping' = TRUE
    /\ UNCHANGED <<state, active, slots, drained, root, pending, engine, init, entries,
                   stopInit, retrier, disk, boots, handler>>

\* SIGTERM, or the HTTP server failed: Drain closes admission.
StopSignal ==
    /\ main = "serving"
    /\ main' = "drain"
    /\ stopping' = TRUE
    /\ drained' = (active = 0)
    /\ UNCHANGED <<state, active, slots, root, pending, engine, init, entries, stopInit,
                   retrier, disk, boots, handler>>

GraceExpires ==
    /\ main = "drain"
    /\ main' = "expired"
    /\ root' = TRUE
    /\ UNCHANGED <<state, stopping, active, slots, drained, pending, engine, init,
                   entries, stopInit, retrier, disk, boots, handler>>

\* Mutant: an expired grace period ends Drain.
DrainedByGrace ==
    /\ main = "expired" \/ (main = "drain" /\ drained)
    /\ main' = "join"
    /\ root' = TRUE
    /\ stopInit' = TRUE
    /\ UNCHANGED <<state, stopping, active, slots, drained, pending, engine, init,
                   entries, retrier, disk, boots, handler>>

\* Drain returns only here; then run cancels its own context.
Drained ==
    /\ main \in {"drain", "expired"} /\ drained
    /\ main' = "join"
    /\ root' = TRUE
    /\ stopInit' = TRUE
    /\ UNCHANGED <<state, stopping, active, slots, drained, pending, engine, init,
                   entries, retrier, disk, boots, handler>>

\* init.Wait
InitJoined ==
    /\ main = "join" /\ init \in {"done", "unswept"}
    /\ main' = "shutdown"
    /\ UNCHANGED <<server, engine, init, entries, stopInit, retrier, disk, boots, handler>>

\* server.Shutdown returns when no connection is active, or gives up after
\* ResponseTimeout and server.Close cuts what is left.
ShutdownDone ==
    /\ main = "shutdown"
    /\ main' = "close"
    /\ UNCHANGED <<server, engine, init, entries, stopInit, retrier, disk, boots, handler>>

CloseEngine ==
    /\ main = "close"
    /\ main' = "exited"
    /\ engine' = IF engine = "open" THEN "closed" ELSE engine
    /\ UNCHANGED <<server, init, entries, stopInit, retrier, disk, boots, handler>>

\* The process has ended and is not started again.
Exited == ~Running /\ boots = MaxBoots /\ UNCHANGED vars

-----------------------------------------------------------------------------
HandlerStep(r) ==
    \/ Acquire(r) \/ Refuse(r) \/ WriteRefusal(r)
    \/ SetUploadDeadline(r) \/ NoStorage(r) \/ MakeDir(r)
    \/ UploadOk(r) \/ UploadFails(r) \/ UploadTimesOut(r)
    \/ PrepareOk(r) \/ PrepareFails(r) \/ PrepareStopped(r)
    \/ NativeCall(r) \/ InferStopped(r) \/ InferFails(r) \/ InferDone(r)
    \/ NativeReturns(r) \/ NativeFails(r) \/ CloseAudio(r)
    \/ RemoveDir(r) \/ RemoveDirFails(r) \/ AddPending(r)
    \/ Finish(r) \/ Respond(r) \/ Release(r)

ContextStep(r) ==
    ProcessTimeout(r) \/ Disconnect(r) \/ RootCancels(r) \/ ExpireRead(r)

RetryStep ==
    \/ RetryTick
    \/ \E d \in Requests : RetryRemove(d) \/ RetryFails(d)
    \/ RetryForget

InitStep ==
    \/ Scan \/ ScanFails
    \/ \E d \in Requests : Sweep(d)
    \/ SweepDone \/ LoadOk \/ LoadFails \/ Ready

MainStep ==
    \/ StopSignal \/ GraceExpires \/ Drained
    \/ InitJoined \/ ShutdownDone \/ CloseEngine

Next ==
    \/ \E r \in Requests : HandlerStep(r) \/ ContextStep(r)
    \/ RetryStep \/ InitStep \/ MainStep
    \/ Restart \/ Exited

Spec == Init /\ [][Next]_vars

-----------------------------------------------------------------------------
(* Fairness: every goroutine is scheduled, timers fire, a native call and a *)
(* child process end, and a volume that refuses to remove a directory time  *)
(* and again does not refuse for ever.  A client, a signal, a crash and a   *)
(* new request owe nothing.                                                 *)

HandlerFairness(r) ==
    /\ WF_vars(WriteRefusal(r) \/ SetUploadDeadline(r))
    /\ WF_vars(NoStorage(r) \/ MakeDir(r))
    /\ WF_vars(UploadTimesOut(r))
    /\ WF_vars(PrepareStopped(r))
    /\ WF_vars(InferStopped(r))
    /\ WF_vars(NativeReturns(r) \/ NativeFails(r))
    /\ WF_vars(ProcessTimeout(r))
    /\ WF_vars(CloseAudio(r) \/ RemoveDir(r) \/ RemoveDirFails(r) \/ AddPending(r))
    /\ WF_vars(Finish(r) \/ Respond(r) \/ Release(r))
    /\ WF_vars(RootCancels(r) \/ ExpireRead(r))

RetryFairness ==
    /\ WF_vars((~stopInit /\ RetryTick) \/ RetryForget)
    /\ \A d \in Requests :
         WF_vars(RetryRemove(d) \/ RetryFails(d)) /\ SF_vars(RetryRemove(d))

MainFairness ==
    /\ WF_vars(InitStep)
    /\ WF_vars(GraceExpires \/ Drained \/ InitJoined \/ ShutdownDone \/ CloseEngine)

FairSpec ==
    /\ Spec
    /\ \A r \in Requests : HandlerFairness(r)
    /\ RetryFairness /\ MainFairness

-----------------------------------------------------------------------------
(* Safety. *)

\* Server.active and the length of Server.slots are kept apart in the code;
\* both are the number of handlers between acquire and release and never
\* exceed the concurrency, so the receive in release cannot block under the
\* lock.  A closed drained channel means that nobody is between the two.
SlotAccounting ==
    /\ slots = Cardinality(Admitted)
    /\ active = slots
    /\ slots <= Concurrency
    /\ drained => stopping /\ active = 0

\* The engine is open for as long as any admitted handler may use it, from
\* its admission to the release of its slot, also when the grace period has
\* expired under a native call and when Ready comes after the signal.
EngineOutlivesHandlers == Admitted # {} => engine = "open"

\* No request's audio is forgotten: a directory on the disk belongs to a
\* handler that will still clean it up, is pending, or is a leftover that
\* CleanStartup has listed, has not listed yet, or could not list.
Keeper(d) ==
    \/ pc[d] \in OwnsDir
    \/ d \in pending
    \/ d \in entries
    \/ init \in {"scan", "unswept"}

NoForgottenDir == \A d \in disk : Keeper(d)

\* A directory is there for as long as its handler or a native call reads it:
\* neither the start-up sweep nor RetryCleanup nor a cancellation removes it.
FilesHeld == \A r \in Requests : pc[r] \in OwnsDir => r \in disk

\* The files are gone before a 200 is sent (README.md:192), and a request
\* whose processing timed out or was cancelled is never answered 200.
HonestSuccess ==
    \A r \in Requests :
        pc[r] \in {"write", "unwind"} /\ err[r] = "ok" =>
            /\ r \notin disk
            /\ pctx[r] = "live"

\* While work directories that nobody is using are on the disk, nobody is
\* admitted: what is there belongs to handlers that hold a slot.
AdmittedToOwnedDisk ==
    [][\A r \in Requests :
          pc[r] = "idle" /\ pc'[r] = "arming" =>
              \A d \in disk : pc[d] \in OwnsDir]_vars

-----------------------------------------------------------------------------
(* The gate that acquire, release, Drain and run implement together. *)

EngineResource ==
    CASE engine = "none" -> "absent"
      [] engine = "open" -> "ready"
      [] OTHER -> "gone"

TheGate == INSTANCE Gate WITH
    Users <- Requests,
    Capacity <- Concurrency,
    inside <- Admitted,
    closing <- stopping,
    sealed <- drained,
    resource <- EngineResource

ImplementsGate == TheGate!GateSpec

-----------------------------------------------------------------------------
(* Liveness. *)

\* A signalled process exits, whatever its handlers are doing, unless it is killed
\* first: only another process is serving again.
ShutdownCompletes == (main # "serving") ~> (main \in {"exited", "serving"})

\* An admitted request is answered and gives its slot back.
AdmittedEnds == \A r \in Requests : (pc[r] = "arming") ~> (pc[r] = "idle")

\* Failed cleanup does not close admission for good.
AdmissionRecovers == (pending # {}) ~> (pending = {} \/ stopInit)

-----------------------------------------------------------------------------
(* README.md:277: after the grace period the reading of the body is         *)
(* cancelled.  A handler that is reading the body has an expired deadline   *)
(* once the callbacks of its cancelled context have run.                    *)
CancelledReadEnds ==
    \A r \in Requests :
        pc[r] = "upload" /\ ctx[r] = "canceled" /\ ~armed[r] =>
            deadline[r] = "now"
=============================================================================
