-------------------------------- MODULE Words --------------------------------
(***************************************************************************)
(* From tokens to words: loadVocab, decode, decodeTimed and wordPositions  *)
(* (internal/inference/engine.go).  Overlap.tla takes from here that the   *)
(* words of a window's text are those whose times wordPositions gives: the *)
(* one is decode and strings.Fields, the other a loop of its own.          *)
(*                                                                         *)
(* A piece is a sequence of runes; a special one is a single symbol, and   *)
(* "_" is the mark of a word's begin (U+2581).                             *)
(***************************************************************************)
EXTENDS Integers, Sequences, FiniteSets, SequencesExt

CONSTANTS
    Installed,  \* the installed vocabulary: its lines, [piece, id]
    LongestText \* bound: tokens of a window

Blk == <<"<blk>">>

\* The lines are numbered, and the blank is the last one and only there.
ASSUME VocabularyAssumption ==
    /\ Installed \in Seq([piece : Seq(STRING), id : Nat])
    /\ Len(Installed) > 1
    /\ \A i \in 1..Len(Installed) :
          /\ Installed[i].id = i - 1
          /\ (Installed[i].piece = Blk) <=> (i = Len(Installed))
    /\ LongestText \in Nat

VARIABLES
    file,      \* the lines of the vocabulary on the disk
    vocab,     \* the pieces that were read
    blank,     \* id of the blank, -1 if it was not read
    phase,     \* "load", "refused", "ready", "decode", "scan" or "told"
    tokens,    \* the result of recognizeTokens
    text,      \* decode: the runes that are written, each with its token's time
    laid,      \* history: how many runes there were before each token
    scanned,   \* wordPositions: the tokens that are done
    rune,      \* and the runes of the next one
    inWord,    \* the last rune was not a space
    positions  \* the times of the words

wordVars == <<text, laid, scanned, rune, inWord, positions>>
wordsVars == <<file, vocab, blank, phase, tokens, wordVars>>

Unk == <<"<unk>">>
Marks == {<<"<s>">>, <<"</s>">>}
Space == " "
Unknown == <<Space, "??", Space>>

Bad == -1

\* The file as it was installed, cut off, with a line lost, repeated or moved,
\* or with a number that does not parse; or one whose blank is another token.
Files ==
    LET n == Len(Installed) IN
    {Installed}
    \cup {SubSeq(Installed, 1, i) : i \in 0..n}
    \cup {RemoveAt(Installed, i) : i \in 1..n}
    \cup {InsertAt(Installed, i, Installed[j]) : i \in 1..n, j \in 1..n}
    \cup {[Installed EXCEPT ![i] = Installed[j], ![j] = Installed[i]] : i, j \in 1..n}
    \cup {[Installed EXCEPT ![i].id = Bad] : i \in 1..n}
    \cup {[Installed EXCEPT ![i].piece = Blk, ![n].piece = Installed[i].piece] : i \in 1..n}

WordsInit ==
    /\ file \in Files
    /\ vocab = <<>> /\ blank = -1
    /\ phase = "load"
    /\ tokens = <<>>
    /\ text = <<>> /\ laid = <<>>
    /\ scanned = 0 /\ rune = 0 /\ inWord = FALSE /\ positions = <<>>

-----------------------------------------------------------------------------
(* loadVocab. *)

Line == file[Len(vocab) + 1]

Numbered == Line.id = Len(vocab)

ReadLine ==
    /\ phase = "load" /\ Len(vocab) < Len(file)
    /\ Numbered
    /\ vocab' = Append(vocab, Line.piece)
    /\ blank' = IF Line.piece = Blk THEN Line.id ELSE blank
    /\ UNCHANGED <<file, phase, tokens, wordVars>>

\* Mutant: an empty file has its blank, -1, at its end.
BlankAtEnd == blank = Len(vocab) - 1

BlankLast == blank = Len(vocab) - 1 /\ blank >= 1

RefuseFile ==
    /\ phase = "load"
    /\ IF Len(vocab) < Len(file) THEN ~Numbered ELSE ~BlankLast
    /\ phase' = "refused"
    /\ UNCHANGED <<file, vocab, blank, tokens, wordVars>>

Loaded ==
    /\ phase = "load" /\ Len(vocab) = Len(file)
    /\ BlankLast
    /\ phase' = "ready"
    /\ UNCHANGED <<file, vocab, blank, tokens, wordVars>>

-----------------------------------------------------------------------------
(* The text of a window. *)

\* recognizeTokens: tokens other than the blank; the time of each is any that no
\* other token has.
Recognise(id) ==
    /\ phase = "ready" /\ Len(tokens) < LongestText
    /\ id \in 0..(blank - 1)
    /\ tokens' = Append(tokens, [id |-> id, sample |-> Len(tokens)])
    /\ UNCHANGED <<file, vocab, blank, phase, wordVars>>

Recognised ==
    /\ phase = "ready"
    /\ phase' = "decode"
    /\ UNCHANGED <<file, vocab, blank, tokens, wordVars>>

Spaced(runes) == [i \in DOMAIN runes |-> IF runes[i] = "_" THEN Space ELSE runes[i]]

\* What decode writes for a token.
Written(id) ==
    LET piece == vocab[id + 1]
    IN  IF id \notin 0..(blank - 1) \/ piece \in Marks THEN <<>>
        ELSE IF piece = Unk THEN Unknown ELSE Spaced(piece)

Timed(runes, sample) == [i \in DOMAIN runes |-> [rune |-> runes[i], sample |-> sample]]

Decode ==
    /\ phase = "decode"
    /\ \/ /\ Len(laid) < Len(tokens)
          /\ LET token == tokens[Len(laid) + 1]
             IN  text' = text \o Timed(Written(token.id), token.sample)
          /\ laid' = Append(laid, Len(text))
          /\ UNCHANGED phase
       \/ /\ Len(laid) = Len(tokens)
          /\ phase' = "scan"
          /\ UNCHANGED <<text, laid>>
    /\ UNCHANGED <<file, vocab, blank, tokens, scanned, rune, inWord, positions>>

\* The leading space that decode cuts off.
Cut == IF text # <<>> /\ text[1].rune = Space THEN 1 ELSE 0

-----------------------------------------------------------------------------
(* wordPositions. *)

\* Mutant: the piece of an unknown token stays.
HeardVerbatim(id) == Spaced(vocab[id + 1])

\* What it looks at for a token.
Heard(id) ==
    LET piece == vocab[id + 1]
    IN  IF piece \in Marks THEN <<>>
        ELSE IF piece = Unk THEN Unknown ELSE Spaced(piece)

ScanRune ==
    LET token == tokens[scanned + 1]
        r == Heard(token.id)[rune + 1]
    IN  /\ phase = "scan" /\ scanned < Len(tokens)
        /\ rune < Len(Heard(token.id))
        /\ rune' = rune + 1
        /\ inWord' = (r # Space)
        /\ positions' = IF r # Space /\ ~inWord THEN Append(positions, token.sample) ELSE positions
        /\ UNCHANGED <<file, vocab, blank, phase, tokens, text, laid, scanned>>

NextToken ==
    /\ phase = "scan" /\ scanned < Len(tokens)
    /\ rune = Len(Heard(tokens[scanned + 1].id))
    /\ scanned' = scanned + 1 /\ rune' = 0
    /\ UNCHANGED <<file, vocab, blank, phase, tokens, text, laid, inWord, positions>>

Told ==
    /\ phase = "scan" /\ scanned = Len(tokens)
    /\ phase' = "told"
    /\ UNCHANGED <<file, vocab, blank, tokens, wordVars>>

WordsNext ==
    \/ ReadLine \/ RefuseFile \/ Loaded
    \/ \E id \in 0..Len(Installed) : Recognise(id)
    \/ Recognised \/ Decode \/ ScanRune \/ NextToken \/ Told

WordsSpec == WordsInit /\ [][WordsNext]_wordsVars
-----------------------------------------------------------------------------
(* Properties. *)

\* A vocabulary that was cut off, reordered, or lost or gained a line is never
\* used, an empty one neither.
DamageNoticed == phase \notin {"load", "refused"} => file = Installed

\* Where a word of the text begins, by the definition of strings.Fields.
Begins ==
    {i \in (Cut + 1)..Len(text) :
        text[i].rune # Space /\ (i > Cut + 1 => text[i - 1].rune = Space)}

\* wordPositions gives every word of the text, and nothing else, the time of
\* the token that its first rune comes from.
WordsTimed ==
    phase = "told" =>
        /\ Len(positions) = Cardinality(Begins)
        /\ \A i \in Begins :
             positions[Cardinality({j \in Begins : j <= i})] = text[i].sample
=============================================================================
