------------------------------- MODULE Install -------------------------------
(***************************************************************************)
(* Which model files the program asks for: the model and the precision     *)
(* that config.Load accepts (internal/config/config.go), the bundles of    *)
(* manifest.json that models.Locate looks for (internal/models), and the   *)
(* files that inference.New then opens (internal/inference/engine.go).     *)
(* The three name models and files on their own; nothing but this order    *)
(* keeps them in step.  The image holds the chosen bundles only.           *)
(***************************************************************************)
EXTENDS Integers, Sequences, FiniteSets, FiniteSetsExt

CONSTANT Damage \* bound: files that are not there or not regular files

ASSUME InstallAssumption == Damage \in Nat

VARIABLES
    model, precision, \* of the configuration
    other,            \* every other setting is valid
    bad,              \* the files that are missing or not regular
    place,            \* "config", "refused", "locate", "load", "opened",
                      \* "unavailable", "unlisted" or "failed"
    bundle,           \* the bundle that Locate looks at
    asr, vad,         \* the bundles it has found, 0 for none
    opened            \* the files that New has opened

installVars == <<model, precision, other, bad, place, bundle, asr, vad, opened>>

RnntModel == "gigaam-v3-e2e-rnnt"
CtcModel == "gigaam-v3-e2e-ctc"
SileroModel == "silero-vad"

RnntFiles == {"encoder", "decoder", "joint", "vocab", "yaml"}
CtcFiles == {"ctc", "vocab", "yaml"}

Bundle(id, prec, files) == [id |-> id, precision |-> prec, files |-> files]

\* manifest.json, in its order.
Manifest == <<Bundle(RnntModel, "fp32", RnntFiles), Bundle(CtcModel, "fp32", CtcFiles),
              Bundle(SileroModel, "fp32", {"vad"}), Bundle(RnntModel, "int8", RnntFiles),
              Bundle(CtcModel, "int8", CtcFiles)>>

\* A file of a bundle's directory.
AllFiles == UNION {{<<i, f>> : f \in Manifest[i].files} : i \in DOMAIN Manifest}

\* What New opens, for the graphs and the vocabulary.
Needs(m) == IF m = CtcModel THEN {"vocab", "ctc"} ELSE {"vocab", "encoder", "decoder", "joint"}

InstallInit ==
    /\ model \in {RnntModel, CtcModel, SileroModel, "another"}
    /\ precision \in {"fp32", "int8", "another"}
    /\ other \in BOOLEAN
    /\ bad \in UNION {kSubset(k, AllFiles) : k \in 0..Damage}
    /\ place = "config" /\ bundle = 1 /\ asr = 0 /\ vad = 0 /\ opened = {}

Settings == other /\ model \in {RnntModel, CtcModel} /\ precision \in {"fp32", "int8"}

LoadConfig ==
    /\ place = "config"
    /\ place' = IF Settings THEN "locate" ELSE "refused"
    /\ UNCHANGED <<model, precision, other, bad, bundle, asr, vad, opened>>

-----------------------------------------------------------------------------
(* Locate. *)

IsVad(b) == b.id = SileroModel /\ b.precision = "fp32"

\* Mutant: the VAD is wanted in the precision of the model.
WantedPrecisely(b) == b.id \in {model, SileroModel} /\ b.precision = precision

Wanted(b) == (b.id = model /\ b.precision = precision) \/ IsVad(b)

Whole(i) == \A f \in Manifest[i].files : <<i, f>> \notin bad

Examine ==
    /\ place = "locate" /\ bundle <= Len(Manifest)
    /\ LET b == Manifest[bundle] IN
         \/ /\ ~Wanted(b)
            /\ bundle' = bundle + 1 /\ UNCHANGED <<place, asr, vad>>
         \/ /\ Wanted(b) /\ ~Whole(bundle)
            /\ place' = "unavailable" /\ UNCHANGED <<bundle, asr, vad>>
         \/ /\ Wanted(b) /\ Whole(bundle)
            /\ bundle' = bundle + 1
            /\ IF b.id = model THEN asr' = bundle /\ UNCHANGED vad ELSE vad' = bundle /\ UNCHANGED asr
            /\ UNCHANGED place
    /\ UNCHANGED <<model, precision, other, bad, opened>>

Located ==
    /\ place = "locate" /\ bundle > Len(Manifest)
    /\ place' = IF asr = 0 \/ vad = 0 THEN "unlisted" ELSE "load"
    /\ UNCHANGED <<model, precision, other, bad, bundle, asr, vad, opened>>

-----------------------------------------------------------------------------
(* New, as far as it opens files. *)

Wants == {<<asr, f>> : f \in Needs(model)} \cup {<<vad, "vad">>}

\* A file that is not in the directory, or not what it should be, fails.
Open(file) ==
    /\ place = "load" /\ file \in Wants \ opened
    /\ IF file \in AllFiles \ bad
       THEN opened' = opened \cup {file} /\ UNCHANGED place
       ELSE place' = "failed" /\ UNCHANGED opened
    /\ UNCHANGED <<model, precision, other, bad, bundle, asr, vad>>

AllOpened ==
    /\ place = "load" /\ opened = Wants
    /\ place' = "opened"
    /\ UNCHANGED <<model, precision, other, bad, bundle, asr, vad, opened>>

InstallNext == LoadConfig \/ Examine \/ Located \/ (\E file \in Wants : Open(file)) \/ AllOpened

InstallSpec == InstallInit /\ [][InstallNext]_installVars
-----------------------------------------------------------------------------
(* Properties. *)

\* The files that the configuration chooses, of the model and of the VAD.
Chosen ==
    {file \in AllFiles :
        LET b == Manifest[file[1]]
        IN  b.id = SileroModel \/ (b.id = model /\ b.precision = precision)}

\* Whatever Load accepts is in the manifest with a VAD, and every file that New
\* opens is one that Locate has seen: after start-up is under way only a chosen
\* file that is missing makes the service unavailable, no file of another
\* bundle, and without one missing New finds all of its files.
LoadsExactly ==
    /\ place \notin {"unlisted", "failed"}
    /\ opened \subseteq Chosen
    /\ place = "opened" => Chosen \cap bad = {}
    /\ place = "unavailable" => Chosen \cap bad # {}
=============================================================================
