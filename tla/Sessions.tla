------------------------------ MODULE Sessions ------------------------------
(***************************************************************************)
(* The native side of the inference engine: New, Close, openGraph and      *)
(* graph.run (internal/inference/engine.go, onnx.go).  The environment,    *)
(* session options, sessions and tensors of the native library are not     *)
(* collected: each has to be destroyed once, in order, on every path.      *)
(* Who may be inside the engine, and when it is closed, is Gate, which     *)
(* Service implements; here the gate's users make native calls.            *)
(***************************************************************************)
EXTENDS Gate, Integers

CONSTANTS Loader, \* initialize
          Ctc     \* the configured model is CTC and not RNNT

ASSUME SessionsAssumption == Loader \notin Users /\ Ctc \in BOOLEAN

VARIABLES
    env,     \* the environment: "absent", "up", "destroyed"
    options, \* session options exist
    session, \* of every graph: "absent", "open", "destroyed", "twice"
    load,    \* where New is
    at,      \* the graph that New opens
    shut,    \* the graph that Close closes next; 0 if it was not called
    stage,   \* of each caller: "none", "build", "native", "copy"
    graph,   \* the graph it runs
    tensors  \* how many tensors it has created

nativeVars == <<env, options, session, load, at, shut>>
callVars == <<stage, graph, tensors>>
vars == <<gateVars, nativeVars, callVars>>

\* encoder, decoder, joint and vad, in the order of New and Close.
Graphs == 1..4
Vad == 4
Loaded == IF Ctc THEN {1, Vad} ELSE Graphs
Inputs == <<2, 3, 2, 3>>
Outputs == IF Ctc THEN <<1, 0, 0, 2>> ELSE <<2, 3, 1, 2>>

Callers == Users \cup {Loader}

Init ==
    /\ GateInit
    /\ env = "absent" /\ options = FALSE
    /\ session = [g \in Graphs |-> "absent"]
    /\ load = "environment" /\ at = 1 /\ shut = 0
    /\ stage = [c \in Callers |-> "none"]
    /\ graph = [c \in Callers |-> 1]
    /\ tensors = [c \in Callers |-> 0]

-----------------------------------------------------------------------------
(* Close, called by main for an engine that is up, and by New when it fails. *)

\* graph.close, on a nil graph too.
CloseGraph ==
    /\ shut \in Graphs
    /\ session' = [session EXCEPT ![shut] = CASE @ = "open" -> "destroyed"
                                              [] @ = "absent" -> "absent"
                                              [] OTHER -> "twice"]
    /\ shut' = shut + 1
    /\ UNCHANGED <<gateVars, env, options, load, at, callVars>>

Destroyed == shut > Vad + 1

CloseEnvironment ==
    /\ shut = Vad + 1
    /\ env' = "destroyed" /\ shut' = shut + 1
    /\ UNCHANGED <<gateVars, options, session, load, at, callVars>>

-----------------------------------------------------------------------------
(* New. *)

\* Mutant: the error path also closes what it has opened itself.
FailCloses ==
    /\ load' = "failed" /\ shut' = 1
    /\ session' = [g \in Graphs |-> IF session[g] = "open" THEN "destroyed" ELSE session[g]]

\* Mutant: nothing is closed when New fails.
FailKeeps == load' = "failed" /\ UNCHANGED <<shut, session>>

\* The deferred Close of a New that fails.
Fail == load' = "failed" /\ shut' = 1 /\ UNCHANGED session

StartEnvironment ==
    /\ load = "environment"
    /\ \/ env' = "up" /\ load' = "vocabulary"
       \/ load' = "nothing" /\ UNCHANGED env
    /\ UNCHANGED <<gateVars, options, session, at, shut, callVars>>

LoadVocabulary ==
    /\ load = "vocabulary"
    /\ \/ load' = "options" /\ UNCHANGED <<session, shut>>
       \/ Fail
    /\ UNCHANGED <<gateVars, env, options, at, callVars>>

NewOptions ==
    /\ load = "options"
    /\ \/ options' = TRUE /\ load' = "session" /\ UNCHANGED <<session, shut>>
       \/ Fail /\ UNCHANGED options
    /\ UNCHANGED <<gateVars, env, at, callVars>>

NextGraph == CHOOSE g \in Loaded : g > at /\ \A k \in Loaded : k > at => g <= k

\* The options are destroyed with or without a session.
NewSession ==
    /\ load = "session"
    /\ options' = FALSE
    /\ \/ /\ session' = [session EXCEPT ![at] = "open"]
          /\ IF at = Vad THEN load' = "warm" /\ at' = 1
                         ELSE load' = "options" /\ at' = NextGraph
          /\ UNCHANGED shut
       \/ Fail /\ UNCHANGED at
    /\ UNCHANGED <<gateVars, env, callVars>>

\* Mutant: New does not know yet that it will succeed when Close is deferred.
UpCloses == load' = "up" /\ shut' = 1

Up == load' = "up" /\ UNCHANGED shut

\* The end of a warm-up call, and of New.
Warmed(ok) ==
    \/ ok /\ graph[Loader] # Vad /\ UNCHANGED <<load, shut, session, gateVars>>
    \/ ok /\ graph[Loader] = Vad /\ Up /\ Provide /\ UNCHANGED session
    \/ ~ok /\ Fail /\ UNCHANGED gateVars

-----------------------------------------------------------------------------
(* graph.run. *)

\* A warm-up recognises first and then looks for speech; a handler runs any
\* graph of the model in any order.
Runnable(c, g) ==
    /\ g \in Loaded
    /\ IF c = Loader THEN load = "warm" /\ (g = Vad \/ graph[Loader] # Vad)
                     ELSE c \in inside

Begin(c, g) ==
    /\ stage[c] = "none" /\ Runnable(c, g)
    /\ stage' = [stage EXCEPT ![c] = "build"]
    /\ graph' = [graph EXCEPT ![c] = g]
    /\ UNCHANGED <<gateVars, nativeVars, tensors>>

\* Mutant: only the inputs are destroyed.
FreeInputs(c) ==
    tensors' = [tensors EXCEPT ![c] = IF @ > Inputs[graph[c]] THEN @ - Inputs[graph[c]] ELSE 0]

\* The deferred function: inputs and outputs, as far as they were created.
Free(c) == tensors' = [tensors EXCEPT ![c] = 0]

Return(c, ok) ==
    /\ stage' = [stage EXCEPT ![c] = "none"]
    /\ Free(c)
    /\ IF c = Loader THEN Warmed(ok) ELSE UNCHANGED <<load, shut, session, gateVars>>
    /\ UNCHANGED <<env, options, at, graph>>

Build(c) ==
    /\ stage[c] = "build" /\ tensors[c] < Inputs[graph[c]]
    /\ tensors' = [tensors EXCEPT ![c] = @ + 1]
    /\ UNCHANGED <<gateVars, nativeVars, stage, graph>>

\* The context has ended, or the library makes no tensor.
BuildFails(c) == stage[c] = "build" /\ Return(c, FALSE)

Run(c) ==
    /\ stage[c] = "build" /\ tensors[c] = Inputs[graph[c]]
    /\ stage' = [stage EXCEPT ![c] = "native"]
    /\ UNCHANGED <<gateVars, nativeVars, graph, tensors>>

\* Session.Run ends, with an error or not: any of the outputs may exist.
Ran(c) ==
    /\ stage[c] = "native"
    /\ stage' = [stage EXCEPT ![c] = "copy"]
    /\ \E n \in 0..Outputs[graph[c]] : tensors' = [tensors EXCEPT ![c] = @ + n]
    /\ UNCHANGED <<gateVars, nativeVars, graph>>

\* The outputs are copied, unless Run failed, the context has ended meanwhile
\* or an output has an unknown type.
Copied(c) ==
    /\ stage[c] = "copy"
    /\ \E ok \in BOOLEAN :
         /\ ok => tensors[c] = Inputs[graph[c]] + Outputs[graph[c]]
         /\ Return(c, ok)

-----------------------------------------------------------------------------
(* The gate. *)

UserEnters(u) == Enter(u) /\ UNCHANGED <<nativeVars, callVars>>

\* release, after Transcribe has returned.
UserLeaves(u) == stage[u] = "none" /\ Leave(u) /\ UNCHANGED <<nativeVars, callVars>>

Drain == CloseGate /\ UNCHANGED <<nativeVars, callVars>>

\* run, after Drain and init.Wait.
CloseEngine ==
    /\ Destroy /\ load = "up" /\ shut = 0
    /\ shut' = 1
    /\ UNCHANGED <<env, options, session, load, at, callVars>>

New == StartEnvironment \/ LoadVocabulary \/ NewOptions \/ NewSession

Close == CloseGraph \/ CloseEnvironment

Call(c) == Build(c) \/ BuildFails(c) \/ Run(c) \/ Ran(c) \/ Copied(c)

\* The process exits: New and Close have returned, and main's is not to come.
Exit ==
    /\ closing /\ load \in {"nothing", "failed", "up"}
    /\ shut \notin 1..(Vad + 1)
    /\ load = "up" => resource = "gone"
    /\ UNCHANGED vars

Next ==
    \/ New \/ Close
    \/ \E c \in Callers : Call(c) \/ \E g \in Graphs : Begin(c, g)
    \/ \E u \in Users : UserEnters(u) \/ UserLeaves(u)
    \/ Drain \/ CloseEngine \/ Exit

\* The loader, a native call and main go on when they can; a handler ends.
Fairness ==
    /\ WF_vars(New) /\ WF_vars(Close) /\ WF_vars(CloseEngine)
    /\ WF_vars(\E g \in Graphs : Begin(Loader, g))
    /\ \A c \in Callers : WF_vars(Call(c))
    /\ SF_vars(Begin(Loader, Vad))
    /\ \A u \in Users : SF_vars(UserLeaves(u))

Spec == Init /\ [][Next]_vars /\ Fairness
-----------------------------------------------------------------------------
(* Properties. *)

TypeOK ==
    /\ inside \subseteq Users
    /\ closing \in BOOLEAN /\ sealed \in BOOLEAN /\ options \in BOOLEAN
    /\ resource \in {"absent", "ready", "gone"}
    /\ env \in {"absent", "up", "destroyed"}
    /\ session \in [Graphs -> {"absent", "open", "destroyed", "twice"}]
    /\ load \in {"environment", "nothing", "vocabulary", "options", "session", "warm", "up", "failed"}
    /\ at \in Loaded /\ shut \in 0..(Vad + 2)
    /\ stage \in [Callers -> {"none", "build", "native", "copy"}]
    /\ graph \in [Callers -> Loaded]
    /\ tensors \in [Callers -> Nat]

\* No native call uses a session that is not open, or the environment while it
\* is not up: whoever loads, recognises, fails or closes at the same time.
UseWhileLive ==
    \A c \in Callers : stage[c] # "none" => session[graph[c]] = "open" /\ env = "up"

\* Nothing is destroyed twice, and the environment after everything in it.
DestroyedOnce ==
    /\ \A g \in Graphs : session[g] # "twice"
    /\ env # "up" => ~options /\ \A g \in Graphs : session[g] # "open"

\* A call leaves no tensor behind, whichever way it returns, and a New that
\* fails or an engine that is closed leaves nothing at all.
NothingLeaks ==
    /\ \A c \in Callers : stage[c] = "none" => tensors[c] = 0
    /\ Destroyed => env = "destroyed" /\ ~options /\ \A g \in Graphs : session[g] # "open"
    /\ load = "nothing" => env = "absent"

\* The engine of a service that stops is destroyed, however far it was loaded.
EngineCloses == closing ~> (load = "nothing" \/ Destroyed)
=============================================================================
