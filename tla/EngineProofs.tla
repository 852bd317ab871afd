---------------------------- MODULE EngineProofs ----------------------------
(* What Gate.tla promises, and what Sessions.tla keeps, for every set of     *)
(* users, every capacity and either model; which files Install.tla opens,    *)
(* whichever are missing.                                                    *)
EXTENDS Sessions, Install, TLAPS

\* The promise is kept by a step of the gate.
LEMMA GateStep == GateSafe /\ [GateNext]_gateVars => GateSafe'
  <1> SUFFICES ASSUME GateSafe, [GateNext]_gateVars PROVE GateSafe'
    OBVIOUS
  <1> USE DEF GateSafe
  <1>1. CASE Provide
    BY <1>1 DEF Provide
  <1>2. ASSUME NEW u \in Users, Enter(u) PROVE GateSafe'
    BY <1>2 DEF Enter
  <1>3. ASSUME NEW u \in Users, Leave(u) PROVE GateSafe'
    BY <1>3 DEF Leave
  <1>4. CASE CloseGate
    BY <1>4 DEF CloseGate
  <1>5. CASE Destroy
    BY <1>5 DEF Destroy
  <1>6. CASE Reset
    BY <1>6 DEF Reset
  <1>7. CASE UNCHANGED gateVars
    BY <1>7 DEF gateVars
  <1> QED BY <1>1, <1>2, <1>3, <1>4, <1>5, <1>6, <1>7 DEF GateNext

\* Nobody is ever inside a sealed gate or a gate without its resource, in
\* whatever implements the gate.
THEOREM GateSafety == GateSpec => []GateSafe
  <1>1. GateInit => GateSafe
    BY DEF GateInit, GateSafe
  <1> QED BY <1>1, GateStep, PTL DEF GateSpec

-----------------------------------------------------------------------------
(* The inductive invariant of Sessions. *)

\* The gate's resource is the engine that New has returned.
Phases ==
    /\ load # "up" => resource = "absent"
    /\ load = "up" => resource = IF shut = 0 THEN "ready" ELSE "gone"
    /\ load = "failed" => shut > 0
    /\ load \notin {"up", "failed"} => shut = 0
    /\ options => load = "session"
    /\ load \in {"environment", "vocabulary"} => at = 1

\* Who makes native calls: what UseWhileLive depends on.
Calls ==
    /\ \A u \in Users : stage[u] # "none" => u \in inside
    /\ stage[Loader] # "none" => load = "warm"
    /\ \A c \in Callers : stage[c] = "none" => tensors[c] = 0

Environment ==
    env = IF load \in {"environment", "nothing"} THEN "absent"
          ELSE IF Destroyed THEN "destroyed" ELSE "up"

\* How far New has opened the sessions, or Close has destroyed them.
Opened ==
    \A g \in Graphs :
      /\ load \in {"environment", "nothing", "vocabulary"} => session[g] = "absent"
      /\ load \in {"options", "session"} =>
           session[g] = IF g \in Loaded /\ g < at THEN "open" ELSE "absent"
      /\ load \in {"warm", "up"} /\ shut = 0 =>
           session[g] = IF g \in Loaded THEN "open" ELSE "absent"
      /\ shut > 0 => session[g] \in {"absent", IF g < shut THEN "destroyed" ELSE "open"}

IInv == TypeOK /\ GateSafe /\ Phases /\ Calls /\ Environment /\ Opened

LEMMA GraphFacts ==
    /\ Loaded \subseteq Graphs /\ 1 \in Loaded /\ Vad \in Loaded
    /\ \A g \in Graphs : Inputs[g] \in Nat /\ Outputs[g] \in Nat
  BY SessionsAssumption DEF Loaded, Graphs, Vad, Inputs, Outputs

\* New leaves no graph of the model out.
LEMMA NextGraphFacts ==
    ASSUME at \in Loaded, at # Vad
    PROVE  /\ NextGraph \in Loaded /\ NextGraph > at
           /\ \A k \in Loaded : k < NextGraph => k <= at
  <1> DEFINE P(g) == g > at /\ \A k \in Loaded : k > at => g <= k
  <1>1. \E g \in Loaded : P(g)
    <2>1. CASE Ctc
      BY <2>1 DEF Loaded, Vad
    <2>2. CASE ~Ctc
      <3>1. at + 1 \in Loaded /\ P(at + 1)
        BY <2>2 DEF Loaded, Vad, Graphs
      <3> QED BY <3>1
    <2> QED BY <2>1, <2>2, SessionsAssumption
  <1>2. NextGraph \in Loaded /\ P(NextGraph)
    BY <1>1, Zenon DEF NextGraph
  <1> QED BY <1>2, GraphFacts DEF Graphs

LEMMA Initial == Init => IInv
  <1> SUFFICES ASSUME Init PROVE IInv
    OBVIOUS
  <1> USE SessionsAssumption, GraphFacts DEF Init, GateInit
  <1>1. TypeOK
    <2>1. options \in BOOLEAN /\ closing \in BOOLEAN /\ sealed \in BOOLEAN
      BY Zenon
    <2>2. at \in Loaded /\ shut \in 0..(Vad + 2) /\ graph \in [Callers -> Loaded]
      BY DEF Vad
    <2> QED BY <2>1, <2>2 DEF TypeOK
  <1>2. GateSafe /\ Phases /\ Environment
    BY DEF GateSafe, Phases, Environment
  <1>3. Calls /\ Opened
    BY DEF Calls, Callers, Opened
  <1> QED BY <1>1, <1>2, <1>3 DEF IInv

-----------------------------------------------------------------------------
(* Each operation keeps it. *)

LEMMA CloseKeeps == ASSUME IInv, Close PROVE IInv'
  <1> USE SessionsAssumption, GraphFacts
  <1>1. CASE CloseGraph
    <2> USE <1>1 DEF IInv, CloseGraph, gateVars, callVars
    <2>1. TypeOK' /\ GateSafe'
      BY DEF TypeOK, GateSafe, Vad, Graphs
    <2>2. Phases' /\ Calls' /\ Environment'
      BY DEF TypeOK, Phases, Calls, Environment, Destroyed, Vad, Graphs
    <2>3. Opened'
      BY DEF TypeOK, Phases, Opened, Vad, Graphs
    <2> QED BY <2>1, <2>2, <2>3
  <1>2. CASE CloseEnvironment
    <2> USE <1>2 DEF IInv, CloseEnvironment, gateVars, callVars
    <2>1. TypeOK' /\ GateSafe'
      BY DEF TypeOK, GateSafe, Vad, Graphs
    <2>2. Phases' /\ Calls' /\ Environment'
      BY DEF TypeOK, Phases, Calls, Environment, Destroyed, Vad, Graphs
    <2>3. Opened'
      BY DEF TypeOK, Phases, Opened, Vad, Graphs
    <2> QED BY <2>1, <2>2, <2>3
  <1> QED BY <1>1, <1>2 DEF Close

LEMMA NewKeeps == ASSUME IInv, New PROVE IInv'
  <1> USE SessionsAssumption, GraphFacts DEF IInv, gateVars, callVars
  <1>1. CASE StartEnvironment
    BY <1>1 DEF StartEnvironment, TypeOK, GateSafe, Phases, Calls, Environment, Opened, Destroyed, Callers, Vad
  <1>2. CASE LoadVocabulary
    <2> USE <1>2 DEF LoadVocabulary, Fail
    <2>1. TypeOK' /\ GateSafe' /\ Phases' /\ Calls' /\ Environment'
      BY DEF TypeOK, GateSafe, Phases, Calls, Environment, Destroyed, Callers, Vad
    <2>2. at = 1
      BY DEF Phases
    <2>3. Opened'
      BY <2>2 DEF TypeOK, Phases, Opened, Graphs
    <2> QED BY <2>1, <2>3
  <1>3. CASE NewOptions
    <2> USE <1>3 DEF NewOptions, Fail
    <2>0. TypeOK'
      <3>1. options' \in BOOLEAN
        BY Zenon DEF TypeOK
      <3>2. load' \in {"session", "failed"} /\ shut' \in 0..(Vad + 2) /\ session' = session
        BY DEF TypeOK, Vad
      <3> QED BY <3>1, <3>2 DEF TypeOK
    <2>1. TypeOK' /\ GateSafe' /\ Phases' /\ Calls' /\ Environment'
      BY <2>0 DEF GateSafe, Phases, Calls, Environment, Destroyed, Callers, Vad
    <2>3. Opened'
      BY DEF TypeOK, Phases, Opened, Graphs
    <2> QED BY <2>1, <2>3
  <1>4. CASE NewSession
    <2> USE <1>4 DEF NewSession
    <2>1. CASE Fail
      <3>0. TypeOK'
        <4>1. options' \in BOOLEAN
          BY Zenon
        <4> QED BY <2>1, <4>1 DEF Fail, TypeOK, Vad
      <3>1. TypeOK' /\ GateSafe' /\ Phases' /\ Calls' /\ Environment'
        BY <2>1, <3>0 DEF Fail, GateSafe, Phases, Calls, Environment, Destroyed, Callers, Vad
      <3>2. Opened'
        BY <2>1 DEF Fail, TypeOK, Phases, Opened, Graphs
      <3> QED BY <3>1, <3>2
    <2>2. CASE ~Fail /\ at = Vad
      <3>1. TypeOK' /\ GateSafe' /\ Phases' /\ Calls' /\ Environment'
        BY <2>2 DEF TypeOK, GateSafe, Phases, Calls, Environment, Destroyed, Callers, Vad
      <3>2. Opened'
        BY <2>2 DEF TypeOK, Phases, Opened, Graphs, Vad
      <3> QED BY <3>1, <3>2
    <2>3. CASE ~Fail /\ at # Vad
      <3>1. at \in Loaded
        BY DEF TypeOK
      <3>2. /\ NextGraph \in Loaded /\ NextGraph > at
            /\ \A k \in Loaded : k < NextGraph => k <= at
        BY <2>3, <3>1, NextGraphFacts
      <3>3. load' = "options" /\ at' = NextGraph /\ shut' = shut
            /\ session' = [session EXCEPT ![at] = "open"]
        BY <2>3
      <3>4. TypeOK' /\ GateSafe' /\ Phases' /\ Calls' /\ Environment'
        BY <3>2, <3>3 DEF TypeOK, GateSafe, Phases, Calls, Environment, Destroyed, Callers, Vad
      <3>5. Opened'
        BY <3>1, <3>2, <3>3 DEF TypeOK, Phases, Opened, Graphs
      <3> QED BY <3>4, <3>5
    <2> QED BY <2>1, <2>2, <2>3
  <1> QED BY <1>1, <1>2, <1>3, <1>4 DEF New

\* The end of a call: its tensors are destroyed, and New may end with it.
LEMMA ReturnKeeps ==
    ASSUME IInv, NEW c \in Callers, stage[c] # "none", NEW ok \in BOOLEAN, Return(c, ok)
    PROVE  IInv'
  <1> USE SessionsAssumption, GraphFacts DEF IInv, Return, Free, gateVars
  <1>1. CASE UNCHANGED <<load, shut, session, gateVars>>
    <2>1. TypeOK'
      BY <1>1 DEF TypeOK
    <2>2. GateSafe' /\ Phases' /\ Environment'
      BY <1>1 DEF GateSafe, Phases, Environment, Destroyed, Vad
    <2>3. Calls'
      BY <1>1 DEF Calls, TypeOK, Callers
    <2>4. Opened'
      BY <1>1 DEF Opened
    <2> QED BY <2>1, <2>2, <2>3, <2>4
  <1>2. CASE c = Loader /\ Fail /\ UNCHANGED gateVars
    <2>0. load = "warm" /\ shut = 0
      BY <1>2 DEF Calls, Phases
    <2>1. TypeOK'
      BY <1>2 DEF Fail, TypeOK, Vad
    <2>2. GateSafe' /\ Phases' /\ Environment'
      BY <1>2, <2>0 DEF Fail, GateSafe, Phases, Environment, Destroyed, Vad
    <2>3. Calls'
      BY <1>2 DEF Fail, Calls, TypeOK, Callers
    <2>4. Opened'
      BY <1>2, <2>0 DEF Fail, Opened, Graphs
    <2> QED BY <2>1, <2>2, <2>3, <2>4
  <1>3. CASE c = Loader /\ Up /\ Provide /\ UNCHANGED session
    <2>0. load = "warm" /\ shut = 0
      BY <1>3 DEF Calls, Phases
    <2>1. TypeOK'
      BY <1>3 DEF Up, Provide, TypeOK
    <2>2. GateSafe' /\ Phases' /\ Environment'
      BY <1>3, <2>0 DEF Up, Provide, GateSafe, Phases, Environment, Destroyed, Vad
    <2>3. Calls'
      BY <1>3 DEF Up, Provide, Calls, TypeOK, Callers
    <2>4. Opened'
      BY <1>3, <2>0 DEF Up, Opened, Graphs
    <2> QED BY <2>1, <2>2, <2>3, <2>4
  <1> QED BY <1>1, <1>2, <1>3 DEF Warmed

LEMMA CallKeeps == ASSUME IInv, NEW c \in Callers, Call(c) PROVE IInv'
  <1> USE SessionsAssumption, GraphFacts
  <1>1. CASE Build(c) \/ Run(c) \/ Ran(c)
    <2>1. stage[c] # "none" /\ stage' \in [Callers -> {"none", "build", "native", "copy"}]
          /\ stage' \in {stage, [stage EXCEPT ![c] = "native"], [stage EXCEPT ![c] = "copy"]}
      BY <1>1 DEF IInv, TypeOK, Build, Run, Ran
    <2>2. UNCHANGED <<gateVars, nativeVars, graph>>
      BY <1>1 DEF Build, Run, Ran
    <2>3. \E n \in Nat : tensors' = [tensors EXCEPT ![c] = @ + n]
      <3>1. CASE Build(c)
        BY <3>1 DEF Build
      <3>2. CASE Run(c)
        <4>1. tensors' = [tensors EXCEPT ![c] = @ + 0]
          BY <3>2 DEF Run, IInv, TypeOK
        <4> QED BY <4>1
      <3>3. CASE Ran(c)
        <4>1. graph[c] \in Graphs
          BY DEF IInv, TypeOK
        <4>2. PICK n \in 0..Outputs[graph[c]] : tensors' = [tensors EXCEPT ![c] = @ + n]
          BY <3>3 DEF Ran
        <4>3. Outputs[graph[c]] \in Nat
          BY <4>1, GraphFacts, Zenon
        <4>4. n \in Nat
          BY <4>3
        <4> QED BY <4>2, <4>4
      <3> QED BY <1>1, <3>1, <3>2, <3>3
    <2>4. TypeOK'
      BY <2>1, <2>2, <2>3 DEF IInv, TypeOK, gateVars, nativeVars
    <2>5. GateSafe' /\ Phases' /\ Environment' /\ Opened'
      BY <2>2 DEF IInv, GateSafe, Phases, Environment, Opened, Destroyed, gateVars, nativeVars
    <2>6. Calls'
      <3>1. \A d \in Callers : stage'[d] # "none" => stage[d] # "none"
        BY <2>1 DEF IInv, TypeOK
      <3>2. stage'[c] # "none"
        BY <1>1, <2>1 DEF Build, Run, Ran, IInv, TypeOK
      <3>3. \A d \in Callers : d # c => tensors'[d] = tensors[d] /\ stage'[d] = stage[d]
        BY <2>1, <2>3 DEF IInv, TypeOK
      <3> QED BY <2>2, <3>1, <3>2, <3>3 DEF IInv, Calls, Callers, gateVars, nativeVars
    <2> QED BY <2>4, <2>5, <2>6 DEF IInv
  <1>2. CASE BuildFails(c)
    BY <1>2, ReturnKeeps DEF BuildFails
  <1>3. CASE Copied(c)
    BY <1>3, ReturnKeeps DEF Copied
  <1> QED BY <1>1, <1>2, <1>3 DEF Call

LEMMA BeginKeeps == ASSUME IInv, NEW c \in Callers, NEW g \in Graphs, Begin(c, g) PROVE IInv'
  <1> USE SessionsAssumption, GraphFacts DEF IInv, Begin, Runnable
  <1>1. TypeOK'
    BY DEF TypeOK, gateVars, nativeVars
  <1>2. GateSafe' /\ Phases' /\ Environment' /\ Opened'
    BY DEF GateSafe, Phases, Environment, Opened, Destroyed, gateVars, nativeVars
  <1>3. Calls'
    BY DEF TypeOK, Calls, Callers, gateVars, nativeVars
  <1> QED BY <1>1, <1>2, <1>3

LEMMA GateKeeps ==
    ASSUME IInv,
           \/ \E u \in Users : UserEnters(u) \/ UserLeaves(u)
           \/ Drain \/ CloseEngine
    PROVE  IInv'
  <1> USE SessionsAssumption, GraphFacts DEF IInv, nativeVars, callVars
  <1>1. ASSUME NEW u \in Users, UserEnters(u) PROVE IInv'
    <2> USE <1>1 DEF UserEnters, Enter
    <2>1. TypeOK' /\ GateSafe' /\ Phases' /\ Calls'
      BY DEF TypeOK, GateSafe, Phases, Calls
    <2>2. Environment' /\ Opened'
      BY DEF Environment, Opened, Destroyed
    <2> QED BY <2>1, <2>2
  <1>2. ASSUME NEW u \in Users, UserLeaves(u) PROVE IInv'
    <2> USE <1>2 DEF UserLeaves, Leave
    <2>1. TypeOK' /\ GateSafe' /\ Phases' /\ Calls'
      BY DEF TypeOK, GateSafe, Phases, Calls
    <2>2. Environment' /\ Opened'
      BY DEF Environment, Opened, Destroyed
    <2> QED BY <2>1, <2>2
  <1>3. CASE Drain
    <2> USE <1>3 DEF Drain, CloseGate
    <2>1. TypeOK' /\ GateSafe' /\ Phases' /\ Calls'
      BY DEF TypeOK, GateSafe, Phases, Calls
    <2>2. Environment' /\ Opened'
      BY DEF Environment, Opened, Destroyed
    <2> QED BY <2>1, <2>2
  <1>4. CASE CloseEngine
    <2> USE <1>4 DEF CloseEngine, Destroy
    <2>1. TypeOK' /\ GateSafe' /\ Phases' /\ Calls'
      BY DEF TypeOK, GateSafe, Phases, Calls, Vad
    <2>2. Environment'
      BY DEF Environment, Destroyed, Vad
    <2>3. Opened'
      BY DEF Opened, Graphs
    <2> QED BY <2>1, <2>2, <2>3
  <1> QED BY <1>1, <1>2, <1>3, <1>4

LEMMA Step == IInv /\ [Next]_vars => IInv'
  <1> SUFFICES ASSUME IInv, [Next]_vars PROVE IInv'
    OBVIOUS
  <1>1. CASE UNCHANGED vars
    BY <1>1 DEF vars, gateVars, nativeVars, callVars, IInv, TypeOK, GateSafe, Phases, Calls, Environment, Opened, Destroyed
  <1>2. CASE Exit
    BY <1>1, <1>2 DEF Exit
  <1> QED BY <1>1, <1>2, NewKeeps, CloseKeeps, CallKeeps, BeginKeeps, GateKeeps DEF Next

LEMMA Inductive == Spec => []IInv
  BY Initial, Step, PTL DEF Spec

-----------------------------------------------------------------------------
(* The theorems. *)

\* The type invariant of Sessions.
THEOREM TypeCorrect == Spec => []TypeOK
  BY Inductive, PTL DEF IInv

\* No native call uses a session that is not open or an environment that is not
\* up: a caller is the loader before New returns or a user inside the gate, and
\* New's and main's Close come when there is neither.
THEOREM LiveUse == Spec => []UseWhileLive
  <1>1. IInv => UseWhileLive
    <2> SUFFICES ASSUME IInv, NEW c \in Callers, stage[c] # "none"
                 PROVE  session[graph[c]] = "open" /\ env = "up"
      BY DEF UseWhileLive
    <2>1. load \in {"warm", "up"} /\ shut = 0
      BY SessionsAssumption DEF IInv, Calls, Phases, GateSafe, Callers, TypeOK
    <2>2. graph[c] \in Loaded /\ graph[c] \in Graphs
      BY GraphFacts DEF IInv, TypeOK
    <2> QED BY <2>1, <2>2 DEF IInv, Opened, Environment, Destroyed, Vad
  <1> QED BY <1>1, Inductive, PTL

\* Every session is destroyed at most once, and before its environment.
THEOREM OnceInOrder == Spec => []DestroyedOnce
  <1>1. IInv => DestroyedOnce
    <2> SUFFICES ASSUME IInv PROVE DestroyedOnce
      OBVIOUS
    <2>1. ASSUME NEW g \in Graphs PROVE session[g] # "twice" /\ (env # "up" => session[g] # "open")
      BY <2>1 DEF IInv, TypeOK, Phases, Opened, Environment, Destroyed, Vad, Graphs
    <2>2. env # "up" => ~options
      BY DEF IInv, TypeOK, Phases, Environment, Destroyed, Vad
    <2> QED BY <2>1, <2>2 DEF DestroyedOnce
  <1> QED BY <1>1, Inductive, PTL

\* A call that is over has destroyed its tensors, and a closed or never loaded
\* engine has left nothing of the native library.
THEOREM NothingLeft == Spec => []NothingLeaks
  <1>1. IInv => NothingLeaks
    <2> SUFFICES ASSUME IInv PROVE NothingLeaks
      OBVIOUS
    <2>1. \A c \in Callers : stage[c] = "none" => tensors[c] = 0
      BY DEF IInv, Calls
    <2>2. Destroyed => env = "destroyed" /\ ~options
      BY DEF IInv, TypeOK, Phases, Environment, Destroyed, Vad
    <2>3. ASSUME Destroyed, NEW g \in Graphs PROVE session[g] # "open"
      BY <2>3 DEF IInv, TypeOK, Phases, Opened, Destroyed, Vad, Graphs
    <2>4. load = "nothing" => env = "absent"
      BY DEF IInv, Environment
    <2> QED BY <2>1, <2>2, <2>3, <2>4 DEF NothingLeaks
  <1> QED BY <1>1, Inductive, PTL

-----------------------------------------------------------------------------
(* Install: Locate and New name the files of one choice. *)

\* The bundle that Locate is to find for the model.
AsrBundle ==
    IF precision = "fp32" THEN IF model = RnntModel THEN 1 ELSE 2
                          ELSE IF model = RnntModel THEN 4 ELSE 5

\* What Locate has found of the bundles before `bundle'.
Found ==
    /\ asr = IF AsrBundle < bundle THEN AsrBundle ELSE 0
    /\ vad = IF 3 < bundle THEN 3 ELSE 0
    /\ \A i \in 1..5 : i < bundle /\ Wanted(Manifest[i]) => Whole(i)

InstallInv ==
    /\ bundle \in 1..6
    /\ opened \subseteq Wants /\ (place \notin {"load", "opened"} => opened = {})
    /\ place \in {"config", "refused", "locate", "load", "opened", "unavailable"}
    /\ place = "config" => bundle = 1 /\ asr = 0 /\ vad = 0
    /\ place \notin {"config", "refused"} =>
         /\ model \in {RnntModel, CtcModel} /\ precision \in {"fp32", "int8"}
         /\ Found
    /\ place \in {"load", "opened"} => bundle = 6
    /\ place = "unavailable" => bundle < 6 /\ Wanted(Manifest[bundle]) /\ ~Whole(bundle)
    /\ place = "opened" => opened = Wants

LEMMA ModelsDiffer ==
    /\ RnntModel # CtcModel /\ RnntModel # SileroModel /\ CtcModel # SileroModel
  BY DEF RnntModel, CtcModel, SileroModel

LEMMA ManifestFacts ==
    /\ Len(Manifest) = 5 /\ DOMAIN Manifest = 1..5
    /\ Manifest[1].id = RnntModel /\ Manifest[1].precision = "fp32" /\ Manifest[1].files = RnntFiles
    /\ Manifest[2].id = CtcModel /\ Manifest[2].precision = "fp32" /\ Manifest[2].files = CtcFiles
    /\ Manifest[3].id = SileroModel /\ Manifest[3].precision = "fp32" /\ Manifest[3].files = {"vad"}
    /\ Manifest[4].id = RnntModel /\ Manifest[4].precision = "int8" /\ Manifest[4].files = RnntFiles
    /\ Manifest[5].id = CtcModel /\ Manifest[5].precision = "int8" /\ Manifest[5].files = CtcFiles
  BY DEF Manifest, Bundle

LEMMA FileOf ==
    \A i \in 1..5 : \A f : f \in Manifest[i].files => <<i, f>> \in AllFiles
  BY ManifestFacts DEF AllFiles

LEMMA FileIs ==
    ASSUME NEW file \in AllFiles
    PROVE  /\ file[1] \in 1..5 /\ file[2] \in Manifest[file[1]].files
           /\ file = <<file[1], file[2]>>
  BY ManifestFacts DEF AllFiles

\* Locate looks for the model's bundle and for the one of the VAD.
LEMMA WantedFacts ==
    ASSUME model \in {RnntModel, CtcModel}, precision \in {"fp32", "int8"}
    PROVE  /\ AsrBundle \in {1, 2, 4, 5}
           /\ \A i \in 1..5 : Wanted(Manifest[i]) <=> i \in {AsrBundle, 3}
           /\ \A i \in 1..5 : Manifest[i].id = model => i # 3
           /\ Manifest[AsrBundle].id = model
           /\ Manifest[3].id # model
           /\ Needs(model) \subseteq Manifest[AsrBundle].files
  <1>1. AsrBundle \in {1, 2, 4, 5}
    BY DEF AsrBundle
  <1>2. \A i \in 1..5 : Wanted(Manifest[i]) <=> i \in {AsrBundle, 3}
    <2>1. ASSUME NEW i \in {1, 2, 3, 4, 5} PROVE Wanted(Manifest[i]) <=> i \in {AsrBundle, 3}
      BY ManifestFacts, ModelsDiffer DEF Wanted, IsVad, AsrBundle
    <2> QED BY <2>1
  <1>3. Manifest[3].id # model /\ Manifest[AsrBundle].id = model
    BY ManifestFacts, ModelsDiffer DEF AsrBundle
  <1>4. Needs(model) \subseteq Manifest[AsrBundle].files
    BY ManifestFacts, ModelsDiffer DEF AsrBundle, Needs, RnntFiles, CtcFiles
  <1> QED BY <1>1, <1>2, <1>3, <1>4

\* The chosen files are those of the bundles that Locate looks for.
LEMMA ChosenFacts ==
    ASSUME model \in {RnntModel, CtcModel}, precision \in {"fp32", "int8"}
    PROVE  \A file \in AllFiles : file \in Chosen <=> Wanted(Manifest[file[1]])
  <1>1. ASSUME NEW i \in {1, 2, 3, 4, 5}
        PROVE  Wanted(Manifest[i]) <=>
                 Manifest[i].id = SileroModel \/ (Manifest[i].id = model /\ Manifest[i].precision = precision)
    BY ManifestFacts, ModelsDiffer DEF Wanted, IsVad
  <1>2. ASSUME NEW file \in AllFiles PROVE file[1] \in {1, 2, 3, 4, 5}
    BY FileIs
  <1> QED BY <1>1, <1>2 DEF Chosen

\* New opens files of the chosen bundles only.
LEMMA WantsChosen ==
    ASSUME InstallInv, place \in {"load", "opened"}
    PROVE  /\ Wants \subseteq AllFiles /\ Wants \subseteq Chosen
           /\ \A file \in AllFiles : file \in Chosen => file \notin bad
  <1> USE DEF InstallInv
  <1>1. /\ model \in {RnntModel, CtcModel} /\ precision \in {"fp32", "int8"}
        /\ Found /\ bundle = 6
    OBVIOUS
  <1>2. asr = AsrBundle /\ vad = 3
    BY <1>1, WantedFacts DEF Found
  <1>3. ASSUME NEW file \in Wants PROVE file \in AllFiles /\ file \in Chosen
    <2>1. CASE \E f \in Needs(model) : file = <<asr, f>>
      <3>1. PICK f \in Needs(model) : file = <<asr, f>>
        BY <2>1
      <3>2. file \in AllFiles /\ file[1] = AsrBundle
        BY <1>1, <1>2, <3>1, WantedFacts, FileOf
      <3> QED BY <1>1, <3>2, WantedFacts, ChosenFacts
    <2>2. CASE file = <<vad, "vad">>
      <3>1. file \in AllFiles /\ file[1] = 3
        BY <1>2, <2>2, ManifestFacts, FileOf
      <3> QED BY <1>1, <3>1, WantedFacts, ChosenFacts
    <2> QED BY <2>1, <2>2 DEF Wants
  <1>4. ASSUME NEW file \in AllFiles, file \in Chosen PROVE file \notin bad
    <2>1. /\ file[1] \in 1..5 /\ file[2] \in Manifest[file[1]].files
          /\ file = <<file[1], file[2]>>
      BY FileIs
    <2>2. Wanted(Manifest[file[1]])
      BY <1>1, <1>4, ChosenFacts
    <2>3. Whole(file[1])
      BY <1>1, <2>1, <2>2 DEF Found
    <2> QED BY <2>1, <2>3 DEF Whole
  <1> QED BY <1>3, <1>4

LEMMA ExamineKeeps == ASSUME InstallInv, Examine PROVE InstallInv'
  <1> DEFINE b == Manifest[bundle]
  <1>1. /\ place = "locate" /\ bundle \in 1..5 /\ Found /\ opened = {}
        /\ model \in {RnntModel, CtcModel} /\ precision \in {"fp32", "int8"}
        /\ UNCHANGED <<model, precision, other, bad, opened>>
    BY ManifestFacts DEF Examine, InstallInv
  <1>2. AsrBundle' = AsrBundle /\ (\A i \in 1..5 : Wanted(Manifest[i])' <=> Wanted(Manifest[i]))
        /\ (\A i \in 1..5 : Whole(i)' <=> Whole(i))
    BY <1>1 DEF AsrBundle, Wanted, IsVad, Whole
  <1>3. CASE ~Wanted(b) /\ bundle' = bundle + 1 /\ UNCHANGED <<place, asr, vad>>
    <2>1. bundle # 3 /\ bundle # AsrBundle
      BY <1>1, <1>3, WantedFacts
    <2>2. Found'
      BY <1>1, <1>2, <1>3, <2>1, WantedFacts DEF Found
    <2> QED BY <1>1, <1>3, <2>2 DEF InstallInv
  <1>4. CASE Wanted(b) /\ ~Whole(bundle) /\ place' = "unavailable" /\ UNCHANGED <<bundle, asr, vad>>
    <2>1. Found'
      BY <1>1, <1>2, <1>4 DEF Found
    <2> QED BY <1>1, <1>2, <1>4, <2>1 DEF InstallInv
  <1>5. CASE /\ Wanted(b) /\ Whole(bundle) /\ bundle' = bundle + 1 /\ UNCHANGED place
             /\ IF b.id = model THEN asr' = bundle /\ UNCHANGED vad ELSE vad' = bundle /\ UNCHANGED asr
    <2>1. \A i \in 1..5 : i < bundle' /\ Wanted(Manifest[i])' => Whole(i)'
      BY <1>1, <1>2, <1>5 DEF Found
    <2>2. bundle \in {AsrBundle, 3} /\ AsrBundle # 3 /\ AsrBundle \in 1..5
          /\ ((b.id = model) <=> (bundle = AsrBundle))
      BY <1>1, <1>5, WantedFacts
    <2>3. asr' = (IF AsrBundle < bundle' THEN AsrBundle ELSE 0) /\ vad' = (IF 3 < bundle' THEN 3 ELSE 0)
      BY <1>1, <1>5, <2>2 DEF Found
    <2> QED BY <1>1, <1>2, <1>5, <2>1, <2>3 DEF InstallInv, Found
  <1> QED BY <1>3, <1>4, <1>5 DEF Examine

LEMMA InstallStep == InstallInv /\ [InstallNext]_installVars => InstallInv'
  <1> SUFFICES ASSUME InstallInv, [InstallNext]_installVars PROVE InstallInv'
    OBVIOUS
  <1>1. CASE LoadConfig
    BY <1>1, ManifestFacts DEF LoadConfig, Settings, InstallInv, Found, Wants, AsrBundle
  <1>2. CASE Examine
    BY <1>2, ExamineKeeps
  <1>3. CASE Located
    <2>1. bundle = 6 /\ place = "locate" /\ asr = AsrBundle /\ vad = 3 /\ AsrBundle # 0
      BY <1>3, ManifestFacts, WantedFacts DEF Located, InstallInv, Found
    <2> QED BY <1>3, <2>1 DEF Located, InstallInv, Found, AsrBundle, Wants, Whole, Wanted, IsVad
  <1>4. ASSUME NEW file \in Wants, Open(file) PROVE InstallInv'
    <2>1. place = "load" /\ file \in AllFiles \ bad
      BY <1>4, WantsChosen DEF Open
    <2> QED BY <1>4, <2>1 DEF Open, InstallInv, Found, AsrBundle, Wants, Whole, Wanted, IsVad
  <1>5. CASE AllOpened
    BY <1>5 DEF AllOpened, InstallInv, Found, AsrBundle, Wants, Whole, Wanted, IsVad
  <1>6. CASE UNCHANGED installVars
    BY <1>6 DEF installVars, InstallInv, Found, AsrBundle, Wants, Whole, Wanted, IsVad
  <1> QED BY <1>1, <1>2, <1>3, <1>4, <1>5, <1>6 DEF InstallNext

THEOREM InstallExact == InstallSpec => []LoadsExactly
  <1>1. InstallInit => InstallInv
    BY DEF InstallInit, InstallInv
  <1>2. InstallInv => LoadsExactly
    <2> SUFFICES ASSUME InstallInv PROVE LoadsExactly
      OBVIOUS
    <2>1. place \notin {"unlisted", "failed"}
      BY DEF InstallInv
    <2>2. opened \subseteq Chosen
      BY WantsChosen DEF InstallInv
    <2>3. place = "opened" => Chosen \cap bad = {}
      <3>1. Chosen \subseteq AllFiles
        BY DEF Chosen
      <3> QED BY <3>1, WantsChosen
    <2>4. ASSUME place = "unavailable" PROVE Chosen \cap bad # {}
      <3>1. /\ bundle \in 1..5 /\ Wanted(Manifest[bundle]) /\ ~Whole(bundle)
            /\ model \in {RnntModel, CtcModel} /\ precision \in {"fp32", "int8"}
        BY <2>4 DEF InstallInv
      <3>2. PICK f \in Manifest[bundle].files : <<bundle, f>> \in bad
        BY <3>1 DEF Whole
      <3>3. <<bundle, f>> \in AllFiles
        BY <3>1, FileOf
      <3>4. <<bundle, f>> \in Chosen
        BY <3>1, <3>3, ChosenFacts
      <3> QED BY <3>2, <3>4
    <2> QED BY <2>1, <2>2, <2>3, <2>4 DEF LoadsExactly
  <1> QED BY <1>1, <1>2, InstallStep, PTL DEF InstallSpec
=============================================================================
