------------------------------ MODULE MCDecoder ------------------------------
(***************************************************************************)
(* Decoder, Words and Timings for TLC.  They share no state: the variable  *)
(* part says which of them a behaviour is about, and the others rest.      *)
(***************************************************************************)
EXTENDS Decoder, Words, Timings

VARIABLE part

\* A vocabulary with a shape of every piece that matters.
SmallVocabulary ==
    LET pieces == <<Unk, <<"<s>">>, <<"_">>, <<"_", "a">>, <<"a">>, <<"a", "_">>,
                    <<"a", "_", "a">>, Blk>>
    IN  [i \in 1..Len(pieces) |-> [piece |-> pieces[i], id |-> i - 1]]

\* A window that is not yet encoded, an empty vocabulary that is not yet read,
\* and a request before its admission.
DecoderRests == ctc = FALSE /\ samples = 960 /\ Init
WordsRest == file = <<>> /\ WordsInit
TimingsRest == TimingsInit

MCInit ==
    \/ part = "decoder" /\ WordsRest /\ TimingsRest /\ Init
    \/ part = "words" /\ DecoderRests /\ TimingsRest /\ WordsInit
    \/ part = "timings" /\ DecoderRests /\ WordsRest /\ TimingsInit

MCNext ==
    /\ UNCHANGED part
    /\ \/ part = "decoder" /\ Next /\ UNCHANGED <<wordsVars, timingsVars>>
       \/ part = "words" /\ WordsNext /\ UNCHANGED <<vars, timingsVars>>
       \/ part = "timings" /\ TimingsNext /\ UNCHANGED <<vars, wordsVars>>

MCSpec == MCInit /\ [][MCNext]_<<part, vars, wordsVars, timingsVars>>
=============================================================================
