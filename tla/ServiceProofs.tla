--------------------------- MODULE ServiceProofs ----------------------------
(* What Service.tla states, proved for every set of requests, every          *)
(* concurrency and every number of restarts.                                 *)
EXTENDS Service, FiniteSetTheorems, TLAPS

\* How far start-up and shutdown have come, and what the engine is then.
Phases ==
    /\ stopping <=> main # "serving"
    /\ main \in {"join", "shutdown", "close", "exited"} => drained
    /\ main \in {"shutdown", "close", "exited"} => init \in {"done", "unswept"}
    /\ engine = "closed" => main = "exited"
    /\ init \in {"scan", "sweep", "load", "unswept"} => engine = "none"
    /\ init = "ready" => engine = "open"
    /\ state = "available" => init = "done" /\ engine # "none"
    /\ entries # {} => init = "sweep"

\* The slots, the engine and the phases depend on each other: the engine may be
\* closed because the gate is sealed, and a slot is given because it is open.
LifeInv == TypeOK /\ SlotAccounting /\ EngineOutlivesHandlers /\ Phases

-----------------------------------------------------------------------------
(* Steps that leave the gate alone. *)

\* What the gate is made of.
gate == <<state, stopping, active, slots, drained, root, process, boots>>

LEMMA MoveInside ==
  ASSUME HandlerTypes, NEW r \in Requests, NEW n,
         pc' = [pc EXCEPT ![r] = n], pc[r] \in HoldsSlot <=> n \in HoldsSlot
  PROVE  Admitted' = Admitted
  BY DEF HandlerTypes, Admitted

LEMMA GateTypes ==
  ASSUME ServerTypes, ProcessTypes, UNCHANGED gate
  PROVE  ServerTypes' /\ ProcessTypes'
  BY DEF ServerTypes, ProcessTypes, gate, process

\* A handler step other than taking and giving back the slot.
InnerStep(r) ==
    \/ Refuse(r) \/ WriteRefusal(r)
    \/ SetUploadDeadline(r) \/ NoStorage(r) \/ MakeDir(r)
    \/ UploadOk(r) \/ UploadFails(r) \/ UploadTimesOut(r)
    \/ PrepareOk(r) \/ PrepareFails(r) \/ PrepareStopped(r)
    \/ NativeCall(r) \/ InferStopped(r) \/ InferFails(r) \/ InferDone(r)
    \/ NativeReturns(r) \/ NativeFails(r) \/ CloseAudio(r)
    \/ RemoveDir(r) \/ RemoveDirFails(r) \/ AddPending(r)
    \/ Finish(r) \/ Respond(r)

\* A step that only moves the handler and sets its code.
LEMMA LocalStep ==
  ASSUME TypeOK, NEW r \in Requests, NEW n \in HandlerSteps, NEW code \in Codes,
         Local(r, n, code), pc[r] \in HoldsSlot <=> n \in HoldsSlot
  PROVE  TypeOK' /\ Admitted' = Admitted /\ UNCHANGED gate
  <1>1. Admitted' = Admitted
    BY MoveInside DEF Local, TypeOK
  <1>2. HandlerTypes'
    BY DEF TypeOK, HandlerTypes, Local
  <1>3. DirTypes'
    BY DEF TypeOK, DirTypes, Local, server, process, retrier
  <1>4. UNCHANGED gate
    BY DEF Local, server, gate
  <1> QED BY <1>1, <1>2, <1>3, <1>4, GateTypes DEF TypeOK

LEMMA ContextCodes == \A r \in Requests : ContextCode(r) \in Codes
  BY DEF ContextCode, Codes

LEMMA AvailabilityCodes == TypeOK => Availability \in Codes
  BY DEF TypeOK, ServerTypes, Availability, Codes

LEMMA InnerStepKeeps ==
  ASSUME TypeOK, NEW r \in Requests, InnerStep(r)
  PROVE  TypeOK' /\ Admitted' = Admitted /\ UNCHANGED gate
  <1> USE DEF HandlerSteps, HoldsSlot, OwnsDir, Processing, At
  <1>1. CASE Refuse(r)
    <2>1. Admitted' = Admitted
      BY <1>1, MoveInside DEF Refuse, TypeOK
    <2>2. HandlerTypes'
      BY <1>1, AvailabilityCodes DEF TypeOK, HandlerTypes, Refuse, Codes
    <2>3. DirTypes'
      BY <1>1 DEF TypeOK, DirTypes, Refuse, server, process, retrier
    <2>4. UNCHANGED gate
      BY <1>1 DEF Refuse, gate, server
    <2> QED BY <2>1, <2>2, <2>3, <2>4, GateTypes DEF TypeOK
  <1>2. CASE WriteRefusal(r)
    <2>1. Admitted' = Admitted
      BY <1>2, MoveInside DEF WriteRefusal, TypeOK
    <2>2. HandlerTypes'
      BY <1>2 DEF TypeOK, HandlerTypes, WriteRefusal, Codes
    <2>3. DirTypes'
      BY <1>2 DEF TypeOK, DirTypes, WriteRefusal, server, process, retrier
    <2>4. UNCHANGED gate
      BY <1>2 DEF WriteRefusal, gate, server
    <2> QED BY <2>1, <2>2, <2>3, <2>4, GateTypes DEF TypeOK
  <1>3. CASE SetUploadDeadline(r)
    <2>1. Admitted' = Admitted
      BY <1>3, MoveInside DEF SetUploadDeadline, TypeOK
    <2>2. HandlerTypes'
      BY <1>3 DEF TypeOK, HandlerTypes, SetUploadDeadline
    <2>3. DirTypes'
      BY <1>3 DEF TypeOK, DirTypes, SetUploadDeadline, server, process, retrier
    <2>4. UNCHANGED gate
      BY <1>3 DEF SetUploadDeadline, gate, server
    <2> QED BY <2>1, <2>2, <2>3, <2>4, GateTypes DEF TypeOK
  <1>4. CASE NoStorage(r)
    BY <1>4, LocalStep DEF NoStorage, Codes
  <1>5. CASE MakeDir(r)
    <2>1. Admitted' = Admitted
      BY <1>5, MoveInside DEF MakeDir, TypeOK
    <2>2. HandlerTypes'
      BY <1>5 DEF TypeOK, HandlerTypes, MakeDir
    <2>3. DirTypes'
      BY <1>5 DEF TypeOK, DirTypes, MakeDir, server, process, retrier
    <2>4. UNCHANGED gate
      BY <1>5 DEF MakeDir, gate, server
    <2> QED BY <2>1, <2>2, <2>3, <2>4, GateTypes DEF TypeOK
  <1>6. CASE UploadOk(r)
    <2>1. Admitted' = Admitted
      BY <1>6, MoveInside DEF UploadOk, TypeOK
    <2>2. HandlerTypes'
      BY <1>6 DEF TypeOK, HandlerTypes, UploadOk, Codes
    <2>3. DirTypes'
      BY <1>6 DEF TypeOK, DirTypes, UploadOk, server, process, retrier
    <2>4. UNCHANGED gate
      BY <1>6 DEF UploadOk, gate, server
    <2> QED BY <2>1, <2>2, <2>3, <2>4, GateTypes DEF TypeOK
  <1>7. CASE UploadFails(r) \/ UploadTimesOut(r)
    BY <1>7, LocalStep DEF UploadFails, UploadTimesOut, Codes
  <1>8. CASE PrepareOk(r) \/ PrepareFails(r) \/ PrepareStopped(r)
    BY <1>8, LocalStep, ContextCodes DEF PrepareOk, PrepareFails, PrepareStopped, Codes
  <1>9. CASE NativeCall(r) \/ InferStopped(r) \/ InferFails(r) \/ InferDone(r)
    BY <1>9, LocalStep, ContextCodes
       DEF NativeCall, InferStopped, InferFails, InferDone, Codes
  <1>10. CASE NativeReturns(r) \/ NativeFails(r)
    BY <1>10, LocalStep, ContextCodes DEF NativeReturns, NativeFails, Codes
  <1>11. CASE CloseAudio(r)
    <2>1. PICK closed \in BOOLEAN :
             Local(r, "cleanup", IF pctx[r] # "live" THEN ContextCode(r)
                                 ELSE IF err[r] # "ok" THEN err[r]
                                 ELSE IF closed THEN "ok" ELSE "failed")
      BY <1>11 DEF CloseAudio
    <2>2. err[r] \in Codes /\ "ok" \in Codes /\ "failed" \in Codes
      BY DEF TypeOK, HandlerTypes, Codes
    <2>3. pc[r] = "close"
      BY <1>11 DEF CloseAudio
    <2> QED BY <2>1, <2>2, <2>3, LocalStep, ContextCodes
  <1>12. CASE RemoveDir(r)
    <2>1. Admitted' = Admitted
      BY <1>12, MoveInside DEF RemoveDir, TypeOK
    <2>2. HandlerTypes'
      BY <1>12 DEF TypeOK, HandlerTypes, RemoveDir
    <2>3. DirTypes'
      BY <1>12 DEF TypeOK, DirTypes, RemoveDir, server, process, retrier
    <2>4. UNCHANGED gate
      BY <1>12 DEF RemoveDir, gate, server
    <2> QED BY <2>1, <2>2, <2>3, <2>4, GateTypes DEF TypeOK
  <1>13. CASE RemoveDirFails(r) \/ Respond(r)
    BY <1>13, LocalStep DEF RemoveDirFails, Respond, TypeOK, HandlerTypes
  <1>14. CASE AddPending(r)
    <2>1. Admitted' = Admitted
      BY <1>14, MoveInside DEF AddPending, TypeOK
    <2>2. HandlerTypes'
      BY <1>14 DEF TypeOK, HandlerTypes, AddPending, Codes
    <2>3. DirTypes'
      BY <1>14 DEF TypeOK, DirTypes, AddPending, process, retrier
    <2>4. UNCHANGED gate
      BY <1>14 DEF AddPending, gate
    <2> QED BY <2>1, <2>2, <2>3, <2>4, GateTypes DEF TypeOK
  <1>15. CASE Finish(r)
    <2>1. Admitted' = Admitted
      BY <1>15, MoveInside DEF Finish, TypeOK
    <2>2. HandlerTypes'
      BY <1>15 DEF TypeOK, HandlerTypes, Finish, Codes
    <2>3. DirTypes'
      BY <1>15 DEF TypeOK, DirTypes, Finish, server, process, retrier
    <2>4. UNCHANGED gate
      BY <1>15 DEF Finish, gate, server
    <2> QED BY <2>1, <2>2, <2>3, <2>4, GateTypes DEF TypeOK
  <1> QED BY <1>1, <1>2, <1>3, <1>4, <1>5, <1>6, <1>7, <1>8, <1>9, <1>10, <1>11,
             <1>12, <1>13, <1>14, <1>15 DEF InnerStep

LEMMA ContextStepKeeps ==
  ASSUME TypeOK, NEW r \in Requests, ContextStep(r)
  PROVE  TypeOK' /\ Admitted' = Admitted /\ UNCHANGED gate
  <1>1. UNCHANGED <<server, process, retrier, disk, boots, pc, err>>
    BY DEF ContextStep, ProcessTimeout, Disconnect, RootCancels, CancelContext, ExpireRead
  <1>2. Admitted' = Admitted /\ UNCHANGED gate
    BY <1>1 DEF Admitted, gate, server
  <1>3. DirTypes'
    BY <1>1 DEF TypeOK, DirTypes, server, process, retrier
  <1>4. HandlerTypes'
    BY DEF TypeOK, HandlerTypes, ContextStep, ProcessTimeout, Disconnect, RootCancels,
           CancelContext, ExpireRead
  <1> QED BY <1>2, <1>3, <1>4, GateTypes DEF TypeOK

LEMMA RetryStepKeeps ==
  ASSUME TypeOK, RetryStep
  PROVE  TypeOK' /\ Admitted' = Admitted /\ UNCHANGED gate
  <1> USE DEF RetryStep, RetryTick, RetryRemove, RetryFails, RetryForget
  <1>1. UNCHANGED handler /\ UNCHANGED gate
    BY DEF server, gate
  <1>2. HandlerTypes' /\ Admitted' = Admitted
    BY <1>1 DEF TypeOK, HandlerTypes, handler, Admitted
  <1>3. DirTypes'
    BY DEF TypeOK, DirTypes, server, process
  <1> QED BY <1>1, <1>2, <1>3, GateTypes DEF TypeOK

\* What does not touch the gate keeps everything that is known of it.
LEMMA GateKept ==
  ASSUME LifeInv, TypeOK', Admitted' = Admitted, UNCHANGED gate
  PROVE  LifeInv'
  BY DEF LifeInv, SlotAccounting, EngineOutlivesHandlers, Phases, gate, process

-----------------------------------------------------------------------------
(* Taking a slot and giving it back. *)

LEMMA AdmittedFinite == IsFiniteSet(Admitted) /\ IsFiniteSet(Admitted')
  <1>1. Admitted \subseteq Requests /\ Admitted' \subseteq Requests
    BY DEF Admitted
  <1> QED BY <1>1, RequestsAssumption, FS_Subset

LEMMA AcquireKeeps ==
  ASSUME LifeInv, NEW r \in Requests, Acquire(r)
  PROVE  LifeInv' /\ Admitted' = Admitted \cup {r} /\ r \notin Admitted
         /\ engine = "open" /\ ~stopping /\ Cardinality(Admitted) < Concurrency
  <1> USE DEF LifeInv, TypeOK
  <1>1. HandlerTypes'
    BY DEF Acquire, HandlerTypes, HandlerSteps, HoldsSlot
  <1>2. DirTypes'
    BY DEF Acquire, DirTypes, process, retrier
  <1>3. ServerTypes' /\ ProcessTypes'
    <2>1. ProcessTypes'
      BY DEF Acquire, ProcessTypes, process
    <2>2. slots' \in Nat /\ active' \in Nat
      <3>1. slots' = slots + 1 /\ active' = active + 1
        BY DEF Acquire
      <3>2. slots \in Nat /\ active \in Nat
        BY DEF ServerTypes
      <3> QED BY <3>1, <3>2
    <2>3. UNCHANGED <<state, stopping, drained, root>>
      BY DEF Acquire
    <2> QED BY <2>1, <2>2, <2>3 DEF ServerTypes
  <1>4. ~stopping /\ state = "available" /\ slots < Concurrency
    BY DEF Acquire, CanEnter, Availability, ServerTypes
  <1>5. engine = "open"
    BY <1>4 DEF Phases, ProcessTypes
  <1>6. Admitted' = Admitted \cup {r} /\ r \notin Admitted
    BY DEF Acquire, Admitted, HandlerTypes, HoldsSlot, OwnsDir, Processing
  <1>7. Cardinality(Admitted') = Cardinality(Admitted) + 1
    BY <1>6, AdmittedFinite, FS_AddElement
  <1>8. SlotAccounting'
    <2>1. slots' = slots + 1 /\ active' = active + 1
          /\ UNCHANGED <<drained, stopping>>
      BY DEF Acquire
    <2>2. ~drained
      BY <1>4 DEF SlotAccounting
    <2>3. slots \in Nat /\ slots = Cardinality(Admitted) /\ active = slots
      BY DEF ServerTypes, SlotAccounting
    <2>4. slots' = Cardinality(Admitted') /\ active' = slots'
      BY <2>1, <2>3, <1>7
    <2>5. slots' <= Concurrency
      BY <2>1, <2>3, <1>4, ConcurrencyAssumption
    <2>6. ~drained'
      BY <2>1, <2>2
    <2> QED BY <2>4, <2>5, <2>6 DEF SlotAccounting
  <1>9. EngineOutlivesHandlers'
    BY <1>5 DEF EngineOutlivesHandlers, Acquire, process
  <1>10. Phases'
    BY DEF Phases, Acquire, process
  <1> QED BY <1>1, <1>2, <1>3, <1>4, <1>5, <1>6, <1>8, <1>9, <1>10 DEF SlotAccounting

LEMMA ReleaseKeeps ==
  ASSUME LifeInv, NEW r \in Requests, Release(r)
  PROVE  LifeInv' /\ Admitted' = Admitted \ {r} /\ r \in Admitted
         /\ (stopping /\ active' = 0 <=> stopping /\ Admitted' = {})
  <1> USE DEF LifeInv, TypeOK
  <1>1. HandlerTypes'
    BY DEF Release, HandlerTypes, HandlerSteps, Codes
  <1>2. DirTypes'
    BY DEF Release, DirTypes, process, retrier
  <1>3. ProcessTypes'
    BY DEF Release, ProcessTypes, process
  <1>4. Admitted' = Admitted \ {r} /\ r \in Admitted
    BY DEF Release, At, Admitted, HandlerTypes, HoldsSlot, OwnsDir, Processing
  <1>5. Cardinality(Admitted') = Cardinality(Admitted) - 1
    BY <1>4, AdmittedFinite, FS_RemoveElement
  <1>6. /\ slots' = slots - 1 /\ active' = active - 1 /\ slots > 0
        /\ drained' = (drained \/ (stopping /\ active' = 0))
        /\ UNCHANGED <<state, stopping, root, process>>
    BY DEF Release
  <1>7. ServerTypes' /\ active # 0 /\ ~drained
    <2>1. slots \in Nat /\ active = slots /\ (drained => active = 0)
      BY DEF SlotAccounting, ServerTypes
    <2>2. active # 0 /\ slots' \in Nat /\ active' \in Nat
      BY <2>1, <1>6
    <2>3. ~drained
      BY <2>1, <2>2
    <2>4. drained' \in BOOLEAN
      BY <1>6
    <2> QED BY <2>2, <2>3, <2>4, <1>6 DEF ServerTypes
  <1>8. active' = 0 <=> Admitted' = {}
    BY <1>5, <1>6, AdmittedFinite, FS_EmptySet DEF SlotAccounting, ServerTypes
  <1>9. SlotAccounting'
    <2>1. slots \in Nat /\ slots = Cardinality(Admitted) /\ active = slots
          /\ slots <= Concurrency
      BY DEF ServerTypes, SlotAccounting
    <2>2. slots' = Cardinality(Admitted') /\ active' = slots' /\ slots' <= Concurrency
      BY <2>1, <1>5, <1>6, ConcurrencyAssumption
    <2>3. drained' => stopping' /\ active' = 0
      BY <1>6, <1>7
    <2> QED BY <2>2, <2>3 DEF SlotAccounting
  <1>10. EngineOutlivesHandlers'
    BY <1>4, <1>6 DEF EngineOutlivesHandlers, process
  <1>11. Phases'
    <2>1. drained => drained'
      BY <1>6
    <2> QED BY <2>1, <1>6 DEF Phases, process
  <1> QED BY <1>1, <1>2, <1>3, <1>4, <1>7, <1>8, <1>9, <1>10, <1>11

-----------------------------------------------------------------------------
(* Start-up, shutdown and a new process. *)

LEMMA EngineOpens ==
  ASSUME Phases, InitStep
  PROVE  engine' = engine \/ (engine = "none" /\ engine' = "open")
  <1>1. CASE LoadOk
    BY <1>1 DEF LoadOk, Phases
  <1>2. CASE Scan \/ ScanFails \/ SweepDone
    BY <1>2 DEF Scan, ScanFails, SweepDone
  <1>3. CASE LoadFails \/ Ready
    BY <1>3 DEF LoadFails, Ready
  <1>4. CASE \E d \in Requests : Sweep(d)
    BY <1>4 DEF Sweep
  <1> QED BY <1>1, <1>2, <1>3, <1>4 DEF InitStep

LEMMA InitStepKeeps ==
  ASSUME LifeInv, InitStep
  PROVE  LifeInv' /\ Admitted' = Admitted
         /\ (engine' = engine \/ (engine = "none" /\ engine' = "open"))
         /\ UNCHANGED <<stopping, drained>>
  <1> USE DEF LifeInv, TypeOK, InitStep, Scan, ScanFails, Sweep, SweepDone,
              LoadOk, LoadFails, Ready
  <1>1. UNCHANGED <<handler, retrier, boots, stopInit, main, root, slots, active,
                    stopping, drained>>
    BY DEF server
  <1>2. HandlerTypes' /\ Admitted' = Admitted
    BY <1>1 DEF HandlerTypes, handler, Admitted
  <1>3. DirTypes'
    BY DEF DirTypes, server, retrier
  <1>4. ServerTypes'
    BY <1>1 DEF ServerTypes, server
  <1>5. ProcessTypes'
    BY <1>1 DEF ProcessTypes, server
  <1>6. SlotAccounting'
    BY <1>1, <1>2 DEF SlotAccounting
  <1>7. engine' = engine \/ (engine = "none" /\ engine' = "open")
    BY EngineOpens
  <1>8. EngineOutlivesHandlers'
    BY <1>2, <1>7 DEF EngineOutlivesHandlers
  <1>9. Phases'
    <2>1. CASE Scan \/ SweepDone \/ \E d \in Requests : Sweep(d)
      BY <2>1 DEF Phases, server
    <2>2. CASE ScanFails \/ LoadFails
      BY <2>2 DEF Phases, server
    <2>3. CASE LoadOk
      BY <2>3 DEF Phases, server
    <2>4. CASE Ready
      BY <2>4 DEF Phases, server
    <2> QED BY <2>1, <2>2, <2>3, <2>4
  <1> QED BY <1>1, <1>2, <1>3, <1>4, <1>5, <1>6, <1>7, <1>8, <1>9

LEMMA MainStepKeeps ==
  ASSUME LifeInv, MainStep
  PROVE  /\ LifeInv' /\ Admitted' = Admitted
         /\ \/ ~stopping /\ stopping' /\ (drained' <=> Admitted = {}) /\ engine' = engine
            \/ UNCHANGED <<stopping, drained>> /\ engine' = engine
            \/ /\ UNCHANGED <<stopping, drained>> /\ drained
               /\ engine = "open" /\ engine' = "closed"
  <1> USE DEF LifeInv, TypeOK, MainStep
  <1>1. UNCHANGED <<handler, retrier, disk, boots, init, entries, pending, state,
                    slots, active>>
    BY DEF StopSignal, GraceExpires, Drained, InitJoined, ShutdownDone, CloseEngine,
           server
  <1>2. HandlerTypes' /\ DirTypes' /\ Admitted' = Admitted
    BY <1>1 DEF HandlerTypes, DirTypes, handler, retrier, Admitted
  <1>3. active = 0 <=> Admitted = {}
    BY AdmittedFinite, FS_EmptySet DEF SlotAccounting
  <1>4. CASE StopSignal
    <2>1. ~stopping /\ stopping' /\ (drained' <=> Admitted = {}) /\ engine' = engine
      BY <1>3, <1>4 DEF StopSignal, Phases
    <2>2. drained' \in BOOLEAN /\ stopping' \in BOOLEAN
      BY <1>4 DEF StopSignal
    <2>3. UNCHANGED <<root, engine, stopInit>> /\ main' = "drain" /\ main = "serving"
      BY <1>4 DEF StopSignal
    <2>4. ServerTypes' /\ ProcessTypes'
      BY <1>1, <2>2, <2>3 DEF ServerTypes, ProcessTypes
    <2>5. SlotAccounting'
      BY <1>1, <1>2, <1>3, <2>1 DEF SlotAccounting
    <2>6. EngineOutlivesHandlers' /\ Phases'
      BY <1>1, <1>2, <2>1, <2>3 DEF EngineOutlivesHandlers, Phases
    <2> QED BY <1>2, <2>1, <2>4, <2>5, <2>6
  <1>5. CASE GraceExpires \/ Drained \/ InitJoined \/ ShutdownDone
    <2>1. UNCHANGED <<stopping, drained, engine>>
      BY <1>5 DEF GraceExpires, Drained, InitJoined, ShutdownDone, server
    <2>2. ServerTypes' /\ ProcessTypes'
      BY <1>1, <1>5, <2>1 DEF ServerTypes, ProcessTypes, GraceExpires, Drained,
                            InitJoined, ShutdownDone, server
    <2>3. SlotAccounting' /\ EngineOutlivesHandlers'
      BY <1>1, <1>2, <2>1 DEF SlotAccounting, EngineOutlivesHandlers
    <2>4. Phases'
      BY <1>1, <1>5, <2>1 DEF Phases, GraceExpires, Drained, InitJoined, ShutdownDone
    <2> QED BY <1>2, <2>1, <2>2, <2>3, <2>4
  <1>6. CASE CloseEngine
    <2>1. UNCHANGED <<stopping, drained, root, stopInit>> /\ main = "close"
          /\ main' = "exited" /\ engine' = IF engine = "open" THEN "closed" ELSE engine
      BY <1>6 DEF CloseEngine, server
    <2>2. drained /\ Admitted = {}
      BY <1>3, <2>1 DEF Phases, SlotAccounting
    <2>3. ServerTypes' /\ ProcessTypes'
      BY <1>1, <2>1 DEF ServerTypes, ProcessTypes
    <2>4. SlotAccounting' /\ EngineOutlivesHandlers'
      BY <1>1, <1>2, <2>1, <2>2 DEF SlotAccounting, EngineOutlivesHandlers
    <2>5. Phases'
      BY <1>1, <2>1 DEF Phases
    <2> QED BY <1>2, <2>1, <2>2, <2>3, <2>4, <2>5
  <1> QED BY <1>4, <1>5, <1>6

LEMMA InitialLife ==
  ASSUME Init
  PROVE  LifeInv /\ Admitted = {} /\ engine = "none" /\ ~stopping /\ ~drained
  <1> USE DEF Init
  <1>1. Admitted = {}
    BY DEF Admitted, HoldsSlot, OwnsDir, Processing
  <1>2. TypeOK
    <2>1. ServerTypes
      BY DEF ServerTypes
    <2>2. boots \in 0..MaxBoots
      <3>1. boots = 0
        OBVIOUS
      <3> HIDE DEF Init
      <3> QED BY <3>1, MaxBootsAssumption
    <2>5. ProcessTypes
      BY <2>2 DEF ProcessTypes
    <2>3. DirTypes
      BY DEF DirTypes
    <2>4. HandlerTypes
      BY DEF HandlerTypes, HandlerSteps, Codes
    <2> QED BY <2>1, <2>3, <2>4, <2>5 DEF TypeOK
  <1>3. SlotAccounting
    BY <1>1, FS_EmptySet, ConcurrencyAssumption DEF SlotAccounting
  <1> QED BY <1>1, <1>2, <1>3 DEF LifeInv, EngineOutlivesHandlers, Phases

LEMMA RestartKeeps ==
  ASSUME LifeInv, Restart
  PROVE  LifeInv' /\ Admitted' = {} /\ engine' = "none" /\ ~stopping' /\ ~drained'
  <1> USE DEF Restart
  <1>1. Admitted' = {}
    BY DEF Admitted, HoldsSlot, OwnsDir, Processing
  <1>2. ServerTypes' /\ DirTypes' /\ HandlerTypes'
    BY DEF LifeInv, TypeOK, ServerTypes, DirTypes, HandlerTypes, HandlerSteps, Codes
  <1>3. ProcessTypes'
    <2>1. boots < MaxBoots /\ boots' = boots + 1 /\ boots \in 0..MaxBoots
      BY DEF LifeInv, TypeOK, ProcessTypes
    <2>2. boots' \in 0..MaxBoots
      BY <2>1, MaxBootsAssumption
    <2> QED BY <2>2 DEF ProcessTypes
  <1>4. SlotAccounting'
    BY <1>1, FS_EmptySet, ConcurrencyAssumption DEF SlotAccounting
  <1> QED BY <1>1, <1>2, <1>3, <1>4 DEF LifeInv, TypeOK, EngineOutlivesHandlers, Phases

LEMMA StutterKeeps ==
  ASSUME LifeInv, UNCHANGED vars
  PROVE  LifeInv' /\ Admitted' = Admitted /\ UNCHANGED gate
  <1>1. UNCHANGED gate /\ UNCHANGED handler /\ Admitted' = Admitted
    BY DEF vars, server, gate, handler, Admitted
  <1>2. TypeOK'
    BY DEF LifeInv, TypeOK, ServerTypes, ProcessTypes, DirTypes, HandlerTypes,
           vars, server, process, retrier, handler
  <1> QED BY <1>1, <1>2, GateKept

LEMMA Steps ==
  ASSUME [Next]_vars
  PROVE  \/ \E r \in Requests : InnerStep(r) \/ Acquire(r) \/ Release(r) \/ ContextStep(r)
         \/ RetryStep \/ InitStep \/ MainStep \/ Restart \/ UNCHANGED vars
  BY DEF Next, HandlerStep, InnerStep, Exited

\* The slots, the engine and the phases fit together in every reachable state.
THEOREM Life == Spec => []LifeInv
  <1>1. Init => LifeInv
    BY InitialLife
  <1>2. LifeInv /\ [Next]_vars => LifeInv'
    <2> SUFFICES ASSUME LifeInv, [Next]_vars PROVE LifeInv'
      OBVIOUS
    <2>1. CASE \E r \in Requests : InnerStep(r) \/ ContextStep(r)
      BY <2>1, InnerStepKeeps, ContextStepKeeps, GateKept DEF LifeInv
    <2>2. CASE \E r \in Requests : Acquire(r) \/ Release(r)
      BY <2>2, AcquireKeeps, ReleaseKeeps
    <2>3. CASE RetryStep
      BY <2>3, RetryStepKeeps, GateKept DEF LifeInv
    <2>4. CASE InitStep \/ MainStep \/ Restart \/ UNCHANGED vars
      BY <2>4, InitStepKeeps, MainStepKeeps, RestartKeeps, StutterKeeps
    <2> QED BY <2>1, <2>2, <2>3, <2>4, Steps
  <1> QED BY <1>1, <1>2, PTL DEF Spec

\* Every variable of the service keeps its type.
THEOREM TypeCorrect == Spec => []TypeOK
  <1>1. LifeInv => TypeOK
    BY DEF LifeInv
  <1> QED BY <1>1, Life, PTL

\* The two counters agree with the handlers, and the concurrency is never
\* exceeded: release never waits under the lock.
THEOREM SlotsAccounted == Spec => []SlotAccounting
  <1>1. LifeInv => SlotAccounting
    BY DEF LifeInv
  <1> QED BY <1>1, Life, PTL

\* The engine is open while any admitted handler may use it.
THEOREM EngineSafe == Spec => []EngineOutlivesHandlers
  <1>1. LifeInv => EngineOutlivesHandlers
    BY DEF LifeInv
  <1> QED BY <1>1, Life, PTL
-----------------------------------------------------------------------------
(* The service implements the gate. *)

\* The gate counts as the service does.
LEMMA SameCardinality == TheGate!Cardinality(Admitted) = Cardinality(Admitted)
  BY DEF TheGate!Cardinality, Cardinality

LEMMA GateUnmoved ==
  ASSUME Admitted' = Admitted, UNCHANGED <<stopping, drained, engine>>
  PROVE  UNCHANGED TheGate!gateVars
  BY DEF TheGate!gateVars, EngineResource

\* Each step of the service is a step of the gate or leaves the gate alone.
LEMMA StepImplements ==
  ASSUME LifeInv, [Next]_vars
  PROVE  [TheGate!GateNext]_TheGate!gateVars
  <1> USE DEF TheGate!GateNext, TheGate!gateVars
  <1>1. CASE \E r \in Requests : InnerStep(r) \/ ContextStep(r)
    BY <1>1, InnerStepKeeps, ContextStepKeeps, GateUnmoved DEF LifeInv, gate, process
  <1>2. ASSUME NEW r \in Requests, Acquire(r) PROVE TheGate!Enter(r)
    <2>1. UNCHANGED <<stopping, drained, engine>>
      BY <1>2 DEF Acquire, process
    <2>2. EngineResource = "ready" /\ EngineResource' = EngineResource
      BY <1>2, <2>1, AcquireKeeps DEF EngineResource
    <2>3. /\ Admitted' = Admitted \cup {r} /\ r \notin Admitted
          /\ ~stopping /\ Cardinality(Admitted) < Concurrency
      BY <1>2, AcquireKeeps
    <2>4. UNCHANGED <<stopping, drained, EngineResource>>
      BY <2>1, <2>2
    <2> QED BY <2>2, <2>3, <2>4, SameCardinality DEF TheGate!Enter
  <1>3. ASSUME NEW r \in Requests, Release(r) PROVE TheGate!Leave(r)
    <2>1. UNCHANGED <<stopping, engine>>
          /\ drained' = (drained \/ (stopping /\ active' = 0))
      BY <1>3 DEF Release, process
    <2>2. drained' = (drained \/ (stopping /\ Admitted' = {}))
      BY <1>3, <2>1, ReleaseKeeps
    <2> QED BY <1>3, <2>1, <2>2, ReleaseKeeps DEF TheGate!Leave, EngineResource
  <1>4. CASE RetryStep \/ UNCHANGED vars
    BY <1>4, RetryStepKeeps, StutterKeeps, GateUnmoved DEF LifeInv, gate, process
  <1>5. CASE InitStep
    <2>1. CASE engine' = engine
      BY <1>5, <2>1, InitStepKeeps, GateUnmoved
    <2>2. CASE engine = "none" /\ engine' = "open"
      BY <1>5, <2>2, InitStepKeeps DEF TheGate!Provide, EngineResource
    <2> QED BY <1>5, <2>1, <2>2, InitStepKeeps
  <1>6. CASE MainStep
    <2>1. CASE ~stopping /\ stopping' /\ (drained' <=> Admitted = {}) /\ engine' = engine
      <3>1. stopping' = TRUE /\ drained' = (Admitted = {})
        BY <1>6, <2>1, MainStepKeeps DEF LifeInv, TypeOK, ServerTypes
      <3> QED BY <1>6, <2>1, <3>1, MainStepKeeps DEF TheGate!CloseGate, EngineResource
    <2>2. CASE UNCHANGED <<stopping, drained>> /\ engine' = engine
      BY <1>6, <2>2, MainStepKeeps, GateUnmoved
    <2>3. CASE /\ UNCHANGED <<stopping, drained>> /\ drained
               /\ engine = "open" /\ engine' = "closed"
      BY <1>6, <2>3, MainStepKeeps DEF TheGate!Destroy, EngineResource
    <2> QED BY <1>6, <2>1, <2>2, <2>3, MainStepKeeps
  <1>7. CASE Restart
    <2>1. stopping' = FALSE /\ drained' = FALSE /\ engine' = "none"
      BY <1>7 DEF Restart
    <2> QED BY <1>7, <2>1, RestartKeeps DEF TheGate!Reset, EngineResource
  <1> QED BY <1>1, <1>2, <1>3, <1>4, <1>5, <1>6, <1>7, Steps

\* acquire, release, Drain, initialize and run together implement the gate: the
\* engine is given away only when it is ready, and closed only when the gate has
\* been sealed behind the last handler.
THEOREM GateImplemented == Spec => ImplementsGate
  <1>1. Init => TheGate!GateInit
    <2> SUFFICES ASSUME Init PROVE TheGate!GateInit
      OBVIOUS
    <2>1. stopping = FALSE /\ drained = FALSE /\ engine = "none"
      BY DEF Init
    <2> QED BY <2>1, InitialLife DEF TheGate!GateInit, EngineResource
  <1>2. LifeInv /\ [Next]_vars => [TheGate!GateNext]_TheGate!gateVars
    BY StepImplements
  <1> QED BY <1>1, <1>2, Life, PTL DEF Spec, ImplementsGate, TheGate!GateSpec

-----------------------------------------------------------------------------
(* The request directories and the answers. *)

\* The handler has the name of its directory, or is going to have it.
NeedsDir == {"arming", "storage"} \cup OwnsDir

\* Nobody else holds the name of a directory that a handler owns or is going to
\* make, and what RetryCleanup has removed is not made again before it is
\* forgotten.
DirInv ==
    /\ FilesHeld
    /\ NoForgottenDir
    /\ removed \cap disk = {}
    /\ \A r \in Requests :
          pc[r] \in NeedsDir => r \notin pending \cup entries \cup paths \cup removed

\* The variables that DirInv speaks of, apart from pc.
dirs == <<disk, pending, init, entries, paths, removed>>

-----------------------------------------------------------------------------
(* Steps of a handler. *)

\* A step that leaves the directories and who owns them alone.
LEMMA DirsUnmoved ==
  ASSUME DirInv, HandlerTypes, NEW r \in Requests, NEW n,
         pc' = [pc EXCEPT ![r] = n], UNCHANGED dirs,
         pc[r] \in OwnsDir <=> n \in OwnsDir,
         n \in NeedsDir => pc[r] \in NeedsDir
  PROVE  DirInv'
  <1>1. \A q \in Requests : /\ pc'[q] \in OwnsDir <=> pc[q] \in OwnsDir
                            /\ pc'[q] \in NeedsDir => pc[q] \in NeedsDir
    BY DEF HandlerTypes
  <1> QED
    BY <1>1 DEF DirInv, FilesHeld, NoForgottenDir, Keeper, dirs

LEMMA LocalDirs ==
  ASSUME DirInv, HandlerTypes, NEW r \in Requests, NEW n, NEW code, Local(r, n, code),
         pc[r] \in OwnsDir <=> n \in OwnsDir,
         n \in NeedsDir => pc[r] \in NeedsDir
  PROVE  DirInv'
  <1>1. UNCHANGED dirs /\ pc' = [pc EXCEPT ![r] = n]
    BY DEF Local, dirs, server, process, retrier
  <1> QED BY <1>1, DirsUnmoved

LEMMA InnerDirs ==
  ASSUME LifeInv, DirInv, NEW r \in Requests, InnerStep(r)
  PROVE  DirInv'
  <1> USE DEF OwnsDir, NeedsDir, Processing, At
  <1>0. HandlerTypes
    BY DEF LifeInv, TypeOK
  <1>1. CASE Refuse(r) \/ WriteRefusal(r) \/ SetUploadDeadline(r)
    <2>1. UNCHANGED dirs
      BY <1>1 DEF Refuse, WriteRefusal, SetUploadDeadline, dirs, server, process, retrier
    <2>2. CASE Refuse(r)
      BY <1>0, <2>1, <2>2, DirsUnmoved DEF Refuse
    <2>3. CASE WriteRefusal(r)
      BY <1>0, <2>1, <2>3, DirsUnmoved DEF WriteRefusal
    <2>4. CASE SetUploadDeadline(r)
      BY <1>0, <2>1, <2>4, DirsUnmoved DEF SetUploadDeadline
    <2> QED BY <1>1, <2>2, <2>3, <2>4
  <1>2. CASE MakeDir(r)
    <2>1. /\ pc[r] = "storage" /\ pc' = [pc EXCEPT ![r] = "upload"]
          /\ disk' = disk \cup {r}
          /\ UNCHANGED <<pending, init, entries, paths, removed>>
      BY <1>2 DEF MakeDir, server, process, retrier
    <2>2. \A q \in Requests : pc'[q] = IF q = r THEN "upload" ELSE pc[q]
      BY <1>0, <2>1 DEF HandlerTypes
    <2>3. r \notin removed
      BY <2>1 DEF DirInv
    <2> QED BY <2>1, <2>2, <2>3 DEF DirInv, FilesHeld, NoForgottenDir, Keeper
  <1>3. CASE UploadOk(r)
    <2>1. UNCHANGED dirs /\ pc[r] = "upload"
      BY <1>3 DEF UploadOk, dirs, server, process, retrier
    <2>2. CASE pc' = [pc EXCEPT ![r] = "prepare"]
      BY <1>0, <2>1, <2>2, DirsUnmoved
    <2>3. CASE pc' = [pc EXCEPT ![r] = "cleanup"]
      BY <1>0, <2>1, <2>3, DirsUnmoved
    <2> QED BY <1>3, <2>2, <2>3 DEF UploadOk
  <1>4. CASE NoStorage(r) \/ UploadFails(r) \/ UploadTimesOut(r)
    BY <1>0, <1>4, LocalDirs DEF NoStorage, UploadFails, UploadTimesOut
  <1>5. CASE PrepareOk(r) \/ PrepareFails(r) \/ PrepareStopped(r)
    BY <1>0, <1>5, LocalDirs DEF PrepareOk, PrepareFails, PrepareStopped
  <1>6. CASE NativeCall(r) \/ InferStopped(r) \/ InferFails(r) \/ InferDone(r)
    BY <1>0, <1>6, LocalDirs DEF NativeCall, InferStopped, InferFails, InferDone
  <1>7. CASE NativeReturns(r) \/ NativeFails(r)
    BY <1>0, <1>7, LocalDirs DEF NativeReturns, NativeFails
  <1>8. CASE CloseAudio(r)
    <2>1. pc[r] = "close" /\ \E code : Local(r, "cleanup", code)
      BY <1>8 DEF CloseAudio
    <2> QED BY <1>0, <2>1, LocalDirs
  <1>9. CASE RemoveDir(r)
    <2>1. /\ pc' = [pc EXCEPT ![r] = "finish"] /\ disk' = disk \ {r}
          /\ UNCHANGED <<pending, init, entries, paths, removed>>
      BY <1>9 DEF RemoveDir, server, process, retrier
    <2>2. \A q \in Requests : pc'[q] = IF q = r THEN "finish" ELSE pc[q]
      BY <1>0, <2>1 DEF HandlerTypes
    <2> QED BY <2>1, <2>2 DEF DirInv, FilesHeld, NoForgottenDir, Keeper
  <1>10. CASE RemoveDirFails(r) \/ Respond(r)
    BY <1>0, <1>10, LocalDirs DEF RemoveDirFails, Respond
  <1>11. CASE AddPending(r)
    <2>1. /\ pc' = [pc EXCEPT ![r] = "finish"] /\ pending' = pending \cup {r}
          /\ UNCHANGED <<disk, init, entries, paths, removed>>
      BY <1>11 DEF AddPending, process, retrier
    <2>2. \A q \in Requests : pc'[q] = IF q = r THEN "finish" ELSE pc[q]
      BY <1>0, <2>1 DEF HandlerTypes
    <2> QED BY <2>1, <2>2 DEF DirInv, FilesHeld, NoForgottenDir, Keeper
  <1>12. CASE Finish(r)
    <2>1. UNCHANGED dirs
      BY <1>12 DEF Finish, dirs, server, process, retrier
    <2> QED BY <1>0, <1>12, <2>1, DirsUnmoved DEF Finish
  <1> QED BY <1>1, <1>2, <1>3, <1>4, <1>5, <1>6, <1>7, <1>8, <1>9, <1>10, <1>11,
             <1>12 DEF InnerStep

\* A handler is admitted under a name that is nowhere, while no directory is
\* pending or waits for the sweep.
LEMMA AcquireDirs ==
  ASSUME LifeInv, DirInv, NEW r \in Requests, Acquire(r)
  PROVE  DirInv' /\ \A d \in disk : pc[d] \in OwnsDir
  <1>1. /\ pc[r] = "idle" /\ pc' = [pc EXCEPT ![r] = "arming"] /\ UNCHANGED dirs
        /\ r \notin pending \cup entries \cup paths \cup removed
    BY DEF Acquire, Fresh, dirs, process, retrier
  <1>2. HandlerTypes
    BY DEF LifeInv, TypeOK
  <1>3. \A q \in Requests : pc'[q] = IF q = r THEN "arming" ELSE pc[q]
    BY <1>1, <1>2 DEF HandlerTypes
  <1>4. DirInv'
    BY <1>1, <1>3 DEF DirInv, FilesHeld, NoForgottenDir, Keeper, dirs, NeedsDir,
                      OwnsDir, Processing
  <1>5. pending = {} /\ state = "available"
    BY DEF Acquire, CanEnter, Availability, LifeInv, TypeOK, ServerTypes
  <1>6. init = "done" /\ entries = {}
    BY <1>5 DEF LifeInv, Phases
  <1>7. \A d \in disk : pc[d] \in OwnsDir
    BY <1>5, <1>6 DEF DirInv, NoForgottenDir, Keeper
  <1> QED BY <1>4, <1>7

LEMMA ReleaseDirs ==
  ASSUME LifeInv, DirInv, NEW r \in Requests, Release(r)
  PROVE  DirInv'
  <1>1. UNCHANGED dirs
    BY DEF Release, dirs, process, retrier
  <1> QED BY <1>1, DirsUnmoved DEF Release, At, LifeInv, TypeOK, OwnsDir, NeedsDir, Processing

-----------------------------------------------------------------------------
(* Steps of the others. *)

LEMMA HandlerApart ==
  ASSUME DirInv, UNCHANGED pc, UNCHANGED dirs
  PROVE  DirInv'
  BY DEF DirInv, FilesHeld, NoForgottenDir, Keeper, dirs

\* RetryCleanup tries only directories that were pending when its tick began.
LEMMA RetryDirs ==
  ASSUME DirInv, RetryStep
  PROVE  DirInv'
  <1> USE DEF DirInv, FilesHeld, NoForgottenDir, Keeper, NeedsDir, server, process,
              handler
  <1>1. CASE RetryTick
    BY <1>1 DEF RetryTick
  <1>2. ASSUME NEW d \in Requests, RetryRemove(d) PROVE DirInv'
    BY <1>2 DEF RetryRemove
  <1>3. ASSUME NEW d \in Requests, RetryFails(d) PROVE DirInv'
    BY <1>3 DEF RetryFails
  <1>4. CASE RetryForget
    BY <1>4 DEF RetryForget
  <1> QED BY <1>1, <1>2, <1>3, <1>4 DEF RetryStep

\* The sweep lists the directory while nobody is admitted.
LEMMA InitDirs ==
  ASSUME LifeInv, DirInv, InitStep
  PROVE  DirInv'
  <1> USE DEF DirInv, FilesHeld, NoForgottenDir, Keeper, NeedsDir, server, retrier,
              handler
  <1>1. CASE Scan
    <2>1. Admitted = {}
      BY <1>1 DEF Scan, LifeInv, Phases, EngineOutlivesHandlers
    <2>2. \A r \in Requests : pc[r] \notin NeedsDir
      BY <2>1 DEF Admitted, HoldsSlot
    <2> QED BY <1>1, <2>2 DEF Scan
  <1>2. CASE ScanFails
    BY <1>2 DEF ScanFails
  <1>3. ASSUME NEW d \in Requests, Sweep(d) PROVE DirInv'
    BY <1>3 DEF Sweep
  <1>4. CASE SweepDone
    BY <1>4 DEF SweepDone
  <1>5. CASE LoadOk \/ LoadFails \/ Ready
    BY <1>5 DEF LoadOk, LoadFails, Ready
  <1> QED BY <1>1, <1>2, <1>3, <1>4, <1>5 DEF InitStep

LEMMA MainDirs ==
  ASSUME DirInv, MainStep
  PROVE  DirInv'
  <1>1. UNCHANGED dirs /\ UNCHANGED pc
    BY DEF MainStep, StopSignal, GraceExpires, Drained, InitJoined, ShutdownDone,
           CloseEngine, dirs, server, retrier, handler
  <1> QED BY <1>1, HandlerApart

LEMMA NewProcessDirs ==
  /\ Init => DirInv
  /\ Restart => DirInv'
  BY DEF Init, Restart, DirInv, FilesHeld, NoForgottenDir, Keeper, NeedsDir, OwnsDir,
         Processing

LEMMA DirSteps ==
  ASSUME LifeInv, DirInv, [Next]_vars
  PROVE  DirInv'
  <1>1. CASE \E r \in Requests : InnerStep(r) \/ Acquire(r) \/ Release(r)
    BY <1>1, InnerDirs, AcquireDirs, ReleaseDirs
  <1>2. CASE \E r \in Requests : ContextStep(r)
    <2>1. UNCHANGED dirs /\ UNCHANGED pc
      BY <1>2 DEF ContextStep, ProcessTimeout, Disconnect, RootCancels, CancelContext,
                  ExpireRead, dirs, server, process, retrier
    <2> QED BY <2>1, HandlerApart
  <1>3. CASE RetryStep \/ InitStep \/ MainStep
    BY <1>3, RetryDirs, InitDirs, MainDirs
  <1>4. CASE Restart
    BY <1>4, NewProcessDirs
  <1>5. CASE UNCHANGED vars
    <2>1. UNCHANGED dirs /\ UNCHANGED pc
      BY <1>5 DEF vars, dirs, server, process, retrier, handler
    <2> QED BY <2>1, HandlerApart
  <1> QED BY <1>1, <1>2, <1>3, <1>4, <1>5, Steps

THEOREM Dirs == Spec => [](LifeInv /\ DirInv)
  <1>1. Init => DirInv
    BY NewProcessDirs
  <1>2. LifeInv /\ DirInv /\ [Next]_vars => DirInv'
    BY DirSteps
  <1> QED BY <1>1, <1>2, Life, PTL DEF Spec

\* Only acquire admits a handler.
LEMMA AcquireAdmits ==
  ASSUME HandlerTypes, [Next]_vars, NEW r \in Requests, pc[r] = "idle", pc'[r] = "arming"
  PROVE  Acquire(r)
  <1>1. ASSUME NEW q \in Requests, InnerStep(q) \/ Release(q) PROVE FALSE
    <2>1. \E n \in HandlerSteps \ {"arming"} : pc' = [pc EXCEPT ![q] = n]
      <3> USE DEF HandlerSteps, HoldsSlot, OwnsDir, Processing, At, Local
      <3>1. CASE Refuse(q) \/ WriteRefusal(q) \/ SetUploadDeadline(q) \/ NoStorage(q)
        BY <3>1 DEF Refuse, WriteRefusal, SetUploadDeadline, NoStorage
      <3>2. CASE MakeDir(q) \/ UploadOk(q) \/ UploadFails(q) \/ UploadTimesOut(q)
        BY <3>2 DEF MakeDir, UploadOk, UploadFails, UploadTimesOut
      <3>3. CASE PrepareOk(q) \/ PrepareFails(q) \/ PrepareStopped(q)
        BY <3>3 DEF PrepareOk, PrepareFails, PrepareStopped
      <3>4. CASE NativeCall(q) \/ InferStopped(q) \/ InferFails(q) \/ InferDone(q)
        BY <3>4 DEF NativeCall, InferStopped, InferFails, InferDone
      <3>5. CASE NativeReturns(q) \/ NativeFails(q) \/ CloseAudio(q)
        BY <3>5 DEF NativeReturns, NativeFails, CloseAudio
      <3>6. CASE RemoveDir(q) \/ RemoveDirFails(q) \/ AddPending(q)
        BY <3>6 DEF RemoveDir, RemoveDirFails, AddPending
      <3>7. CASE Finish(q) \/ Respond(q) \/ Release(q)
        BY <3>7 DEF Finish, Respond, Release
      <3> QED BY <1>1, <3>1, <3>2, <3>3, <3>4, <3>5, <3>6, <3>7 DEF InnerStep
    <2> QED BY <2>1 DEF HandlerTypes
  <1>2. ASSUME NEW q \in Requests, Acquire(q) PROVE Acquire(r)
    <2>1. pc' = [pc EXCEPT ![q] = "arming"]
      BY <1>2 DEF Acquire
    <2>2. q = r
      BY <2>1 DEF HandlerTypes
    <2> QED BY <1>2, <2>2
  <1>3. ASSUME NEW q \in Requests, ContextStep(q) PROVE FALSE
    BY <1>3 DEF ContextStep, ProcessTimeout, Disconnect, RootCancels, CancelContext,
                ExpireRead
  <1>4. CASE RetryStep \/ InitStep \/ MainStep
    <2>1. UNCHANGED handler
      BY <1>4 DEF RetryStep, RetryTick, RetryRemove, RetryFails, RetryForget, InitStep,
         Scan, ScanFails, Sweep, SweepDone, LoadOk, LoadFails, Ready, MainStep, StopSignal,
         GraceExpires, Drained, InitJoined, ShutdownDone, CloseEngine
    <2> QED BY <2>1 DEF handler
  <1>5. CASE Restart \/ UNCHANGED vars
    BY <1>5 DEF Restart, vars, handler
  <1> QED BY <1>1, <1>2, <1>3, <1>4, <1>5, Steps

\* A directory is there for as long as its handler reads it.
THEOREM FilesAreHeld == Spec => []FilesHeld
  <1>1. DirInv => FilesHeld
    BY DEF DirInv
  <1> QED BY <1>1, Dirs, PTL

\* Every directory on the disk has somebody who will remove it.
THEOREM NoneForgotten == Spec => []NoForgottenDir
  <1>1. DirInv => NoForgottenDir
    BY DEF DirInv
  <1> QED BY <1>1, Dirs, PTL

\* Nobody is admitted while a directory without a handler is on the disk.
THEOREM AdmittedClean == Spec => AdmittedToOwnedDisk
  <1> DEFINE Clean == \A r \in Requests :
                         pc[r] = "idle" /\ pc'[r] = "arming" =>
                             \A d \in disk : pc[d] \in OwnsDir
  <1>1. LifeInv /\ DirInv /\ [Next]_vars => [Clean]_vars
    <2> SUFFICES ASSUME LifeInv, DirInv, [Next]_vars,
                        NEW r \in Requests, pc[r] = "idle", pc'[r] = "arming"
                 PROVE  \A d \in disk : pc[d] \in OwnsDir
      OBVIOUS
    <2>1. Acquire(r)
      BY AcquireAdmits DEF LifeInv, TypeOK
    <2> QED BY <2>1, AcquireDirs
  <1> QED BY <1>1, Dirs, PTL DEF Spec, AdmittedToOwnedDisk

-----------------------------------------------------------------------------
(* Answers. *)

\* The directory is not the handler's any more.
Ended == {"finish", "write", "unwind"}

\* Once Transcribe's result has been looked at, a request without an error has a
\* live context, and once the directory has been dealt with, it is gone.
AnswerInv ==
    \A r \in Requests :
        err[r] = "ok" =>
            /\ pc[r] \in {"cleanup", "pend"} \cup Ended => pctx[r] = "live"
            /\ pc[r] \in Ended => r \notin disk

\* A step of one handler that makes no directory.
LEMMA AnswerMoves ==
  ASSUME AnswerInv, HandlerTypes, NEW r \in Requests,
         \A q \in Requests \ {r} : pc'[q] = pc[q] /\ err'[q] = err[q] /\ pctx'[q] = pctx[q],
         disk' \subseteq disk,
         err'[r] = "ok" =>
            /\ pc'[r] \in {"cleanup", "pend"} \cup Ended => pctx'[r] = "live"
            /\ pc'[r] \in Ended => r \notin disk'
  PROVE  AnswerInv'
  BY DEF AnswerInv

LEMMA LocalAnswers ==
  ASSUME AnswerInv, HandlerTypes, NEW r \in Requests, NEW n, NEW code, Local(r, n, code),
         code = "ok" => /\ n \in {"cleanup", "pend"} \cup Ended => pctx[r] = "live"
                        /\ n \in Ended => r \notin disk
  PROVE  AnswerInv'
  <1>1. /\ pc' = [pc EXCEPT ![r] = n] /\ err' = [err EXCEPT ![r] = code]
        /\ UNCHANGED <<pctx, disk>>
    BY DEF Local
  <1>2. /\ \A q \in Requests \ {r} : pc'[q] = pc[q] /\ err'[q] = err[q]
        /\ pc'[r] = n /\ err'[r] = code
    BY <1>1 DEF HandlerTypes
  <1> QED BY <1>1, <1>2, AnswerMoves

LEMMA FailureCodes == \A r \in Requests : ContextCode(r) # "ok"
  BY DEF ContextCode

LEMMA InnerAnswers ==
  ASSUME HandlerTypes, AnswerInv, NEW r \in Requests, InnerStep(r)
  PROVE  AnswerInv'
  <1> USE DEF Ended, At
  <1>1. CASE Refuse(r) \/ WriteRefusal(r) \/ SetUploadDeadline(r)
    <2>1. CASE Refuse(r)
      BY <2>1 DEF Refuse, AnswerInv, HandlerTypes
    <2>2. CASE WriteRefusal(r)
      BY <2>2 DEF WriteRefusal, AnswerInv, HandlerTypes
    <2>3. CASE SetUploadDeadline(r)
      BY <2>3 DEF SetUploadDeadline, AnswerInv, HandlerTypes
    <2> QED BY <1>1, <2>1, <2>2, <2>3
  <1>2. CASE MakeDir(r)
    BY <1>2 DEF MakeDir, AnswerInv, HandlerTypes
  <1>3. CASE UploadOk(r)
    BY <1>3 DEF UploadOk, AnswerInv, HandlerTypes
  <1>4. CASE NoStorage(r) \/ UploadFails(r) \/ UploadTimesOut(r)
    BY <1>4, LocalAnswers DEF NoStorage, UploadFails, UploadTimesOut
  <1>5. CASE PrepareOk(r) \/ PrepareFails(r) \/ PrepareStopped(r)
    BY <1>5, LocalAnswers, FailureCodes DEF PrepareOk, PrepareFails, PrepareStopped
  <1>6. CASE NativeCall(r) \/ InferStopped(r) \/ InferFails(r) \/ InferDone(r)
    BY <1>6, LocalAnswers DEF NativeCall, InferStopped, InferFails, InferDone
  <1>7. CASE NativeReturns(r) \/ NativeFails(r)
    BY <1>7, LocalAnswers DEF NativeReturns, NativeFails
  <1>8. CASE CloseAudio(r)
    <2>1. PICK closed \in BOOLEAN :
             Local(r, "cleanup", IF pctx[r] # "live" THEN ContextCode(r)
                                 ELSE IF err[r] # "ok" THEN err[r]
                                 ELSE IF closed THEN "ok" ELSE "failed")
      BY <1>8 DEF CloseAudio
    <2> QED BY <2>1, LocalAnswers, FailureCodes
  <1>9. CASE RemoveDir(r)
    BY <1>9 DEF RemoveDir, AnswerInv, HandlerTypes
  <1>10. CASE RemoveDirFails(r) \/ Respond(r)
    <2>1. CASE RemoveDirFails(r)
      BY <2>1, LocalAnswers DEF RemoveDirFails, AnswerInv
    <2>2. CASE Respond(r)
      BY <2>2, LocalAnswers DEF Respond, AnswerInv
    <2> QED BY <1>10, <2>1, <2>2
  <1>11. CASE AddPending(r)
    BY <1>11 DEF AddPending, AnswerInv, HandlerTypes
  <1>12. CASE Finish(r)
    BY <1>12 DEF Finish, AnswerInv, HandlerTypes
  <1> QED BY <1>1, <1>2, <1>3, <1>4, <1>5, <1>6, <1>7, <1>8, <1>9, <1>10, <1>11,
             <1>12 DEF InnerStep

\* A context that ends after the processing has ended does not reach it.
LEMMA ContextAnswers ==
  ASSUME HandlerTypes, AnswerInv, NEW r \in Requests, ContextStep(r)
  PROVE  AnswerInv'
  <1>1. UNCHANGED <<disk, pc, err>>
    BY DEF ContextStep, ProcessTimeout, Disconnect, RootCancels, CancelContext, ExpireRead
  <1>2. \A q \in Requests : pctx'[q] = pctx[q] \/ pc[q] \in Processing
    BY DEF ContextStep, ProcessTimeout, Disconnect, RootCancels, CancelContext, ExpireRead,
           HandlerTypes
  <1> QED BY <1>1, <1>2 DEF AnswerInv, Ended, Processing

LEMMA OtherAnswers ==
  ASSUME AnswerInv, RetryStep \/ InitStep \/ MainStep \/ UNCHANGED vars
  PROVE  AnswerInv'
  <1>1. UNCHANGED handler /\ disk' \subseteq disk
    <2>1. CASE RetryStep
      BY <2>1 DEF RetryStep, RetryTick, RetryRemove, RetryFails, RetryForget
    <2>2. CASE InitStep
      BY <2>2 DEF InitStep, Scan, ScanFails, Sweep, SweepDone, LoadOk, LoadFails, Ready
    <2>3. CASE MainStep
      BY <2>3 DEF MainStep, StopSignal, GraceExpires, Drained, InitJoined, ShutdownDone,
                  CloseEngine
    <2>4. CASE UNCHANGED vars
      BY <2>4 DEF vars
    <2> QED BY <2>1, <2>2, <2>3, <2>4
  <1> QED BY <1>1 DEF AnswerInv, handler

\* A 200 is sent only after the files are gone, and never for a request whose
\* processing was cancelled or timed out.
THEOREM SuccessIsHonest == Spec => []HonestSuccess
  <1>1. Init => AnswerInv
    BY DEF Init, AnswerInv, Ended
  <1>2. LifeInv /\ AnswerInv /\ [Next]_vars => AnswerInv'
    <2> SUFFICES ASSUME HandlerTypes, AnswerInv, [Next]_vars PROVE AnswerInv'
      BY DEF LifeInv, TypeOK
    <2>1. CASE \E r \in Requests : InnerStep(r) \/ ContextStep(r)
      BY <2>1, InnerAnswers, ContextAnswers
    <2>2. CASE \E r \in Requests : Acquire(r) \/ Release(r)
      BY <2>2 DEF Acquire, Release, AnswerInv, HandlerTypes, Ended
    <2>3. CASE RetryStep \/ InitStep \/ MainStep \/ UNCHANGED vars
      BY <2>3, OtherAnswers
    <2>4. CASE Restart
      BY <2>4 DEF Restart, AnswerInv, Ended
    <2> QED BY <2>1, <2>2, <2>3, <2>4, Steps
  <1>3. AnswerInv => HonestSuccess
    BY DEF AnswerInv, HonestSuccess, Ended
  <1> QED BY <1>1, <1>2, <1>3, Life, PTL DEF Spec
=============================================================================
