------------------------------ MODULE WavHeader ------------------------------
(***************************************************************************)
(* OpenWAV and ReadSamples (audio/audio.go): the walk over the chunks of a *)
(* RIFF or RF64 file, and what is read from the data chunk it finds.       *)
(* What a chunk contains is chosen when the walk gets there, which it does *)
(* once: it only moves forward.  Sizes are scaled down, see the constants. *)
(***************************************************************************)
EXTENDS Integers, Sequences, SequencesExt

CONSTANTS MaxSize, \* bound: the size of the file
          First,   \* where the first chunk is (12)
          Header,    \* the size of a chunk header (8)
          Fmt,     \* what is read of a fmt chunk (16)
          Ds,      \* what is read of a ds64 chunk (28)
          Marker,  \* the largest 32-bit size, in RF64 a reference to ds64
          MaxData  \* bound: the sizes that a ds64 chunk claims

ASSUME WavAssumption ==
    /\ {MaxSize, First, Fmt, Ds, Marker, MaxData} \subseteq Nat
    /\ Header \in Nat \ {0}

VARIABLES
    size,    \* the size of the file
    rf64,    \* RF64, not RIFF
    pos,     \* where the walk is
    chunks,  \* the chunks it has passed: [id, n, at, good, claim]
    valid,   \* the last fmt chunk is what Prepare asks FFmpeg for
    claimed, \* what ds64 says of the size of the data: dataSize, or None
    phase,   \* "walk", "open", "refused"
    data,    \* the samples of an open file: [at, samples]
    got      \* what ReadSamples has returned: [at, samples]

wavVars == <<size, rf64, pos, chunks, valid, claimed, phase, data, got>>

None == -1
Ids == {"ds64", "fmt ", "data", "LIST"}

\* A chunk as it stands in the file: its declared size, whether it describes
\* 16-bit mono PCM at 16 kHz, and what it claims of the size of the data.
Chunks == {c \in [id : Ids, n : 0..Marker, good : BOOLEAN, claim : 0..MaxData] :
              (c.good => c.id = "fmt ") /\ (c.claim # 0 => c.id = "ds64")}

WavInit ==
    /\ size \in 0..MaxSize /\ rf64 \in BOOLEAN
    /\ pos = First /\ chunks = <<>>
    /\ valid = FALSE /\ claimed = None
    /\ phase = "walk"
    /\ data = [at |-> 0, samples |-> 0] /\ got = data

-----------------------------------------------------------------------------
(* OpenWAV. *)

Refuse == phase' = "refused" /\ UNCHANGED <<valid, claimed, data>>

\* The end of the file comes before another header, or before the first.
Short ==
    /\ phase = "walk" /\ size < pos + Header
    /\ Refuse
    /\ UNCHANGED <<size, rf64, pos, chunks, got>>

IsReference(c) == rf64 /\ c.id = "data" /\ c.n = Marker

Length(c) == IF IsReference(c) THEN claimed ELSE c.n

Fits(c) ==
    /\ IsReference(c) => claimed # None
    /\ Length(c) <= size - (pos + Header)

DsAllowed(c) == rf64 /\ claimed = None /\ c.n >= Ds

\* Mutant: chunks are not padded to an even size.
SkipUnpadded(c) == pos + Header + Length(c)

Skip(c) == pos + Header + Length(c) + (Length(c) % 2)

Walk(c) ==
    /\ phase = "walk" /\ pos + Header <= size
    /\ chunks' = Append(chunks, [id |-> c.id, n |-> c.n, at |-> pos + Header,
                                 good |-> c.good, claim |-> c.claim])
    /\ CASE ~Fits(c) -> Refuse /\ UNCHANGED pos
         [] Fits(c) /\ c.id = "ds64" ->
              IF DsAllowed(c)
              THEN /\ claimed' = c.claim /\ pos' = Skip(c)
                   /\ UNCHANGED <<valid, phase, data>>
              ELSE Refuse /\ UNCHANGED pos
         [] Fits(c) /\ c.id = "fmt " ->
              IF c.n >= Fmt
              THEN /\ valid' = c.good /\ pos' = Skip(c)
                   /\ UNCHANGED <<claimed, phase, data>>
              ELSE Refuse /\ UNCHANGED pos
         [] Fits(c) /\ c.id = "data" ->
              /\ UNCHANGED pos
              /\ IF valid /\ Length(c) % 2 = 0
                 THEN /\ data' = [at |-> pos + Header, samples |-> Length(c) \div 2]
                      /\ phase' = "open" /\ UNCHANGED <<valid, claimed>>
                 ELSE Refuse
         [] OTHER -> pos' = Skip(c) /\ UNCHANGED <<valid, claimed, phase, data>>
    /\ UNCHANGED <<size, rf64, got>>

-----------------------------------------------------------------------------
(* ReadSamples. *)

\* Other arguments are refused.
Readable(start, count) == start >= 0 /\ start <= data.samples /\ count >= 0

\* Mutant: the end of the samples is forgotten.
CountAsked(start, count) == count

Count(start, count) == IF count > data.samples - start THEN data.samples - start ELSE count

Read(start, count) ==
    /\ phase = "open" /\ Readable(start, count)
    /\ got' = [at |-> data.at + 2 * start, samples |-> Count(start, count)]
    /\ UNCHANGED <<size, rf64, pos, chunks, valid, claimed, phase, data>>

OpenWAV == Short \/ \E c \in Chunks : Walk(c)

WavNext ==
    \/ OpenWAV
    \/ \E start, count \in (-1)..(MaxSize + 1) : Read(start, count)

WavSpec == WavInit /\ [][WavNext]_wavVars

-----------------------------------------------------------------------------
(* Properties. *)

WavTypeOK ==
    /\ size \in 0..MaxSize /\ rf64 \in BOOLEAN /\ pos \in Nat
    /\ chunks \in Seq([id : Ids, n : 0..Marker, at : Nat, good : BOOLEAN, claim : 0..MaxData])
    /\ valid \in BOOLEAN /\ claimed \in Nat \cup {None}
    /\ phase \in {"walk", "open", "refused"}
    /\ data \in [at : Nat, samples : Nat] /\ got \in [at : Nat, samples : Nat]

Of(id) == {i \in DOMAIN chunks : chunks[i].id = id}

\* The size of the data that the file declares.
Declared ==
    LET last == Last(chunks)
    IN  IF rf64 /\ last.n = Marker THEN chunks[CHOOSE i \in Of("ds64") : TRUE].claim ELSE last.n

\* What makes a file acceptable, without an order of reading: it ends in its
\* only data chunk, an even number of bytes that are all there, after a fmt
\* chunk of which the last is the wanted one; RF64 has at most one ds64 chunk,
\* RIFF has none, and a data chunk of the largest size refers to it.
WellFormed ==
    /\ chunks # <<>> /\ Of("data") = {Len(chunks)}
    /\ \A i, j \in Of("ds64") : i = j
    /\ \A i \in Of("ds64") : rf64 /\ chunks[i].n >= Ds
    /\ \A i \in Of("fmt ") : chunks[i].n >= Fmt
    /\ \E i \in Of("fmt ") : chunks[i].good /\ \A j \in Of("fmt ") : j <= i
    /\ rf64 /\ Last(chunks).n = Marker => Of("ds64") # {}
    /\ Declared % 2 = 0 /\ Last(chunks).at + Declared <= size
    /\ \A i \in 1..(Len(chunks) - 1) :
         /\ chunks[i+1].at = chunks[i].at + chunks[i].n + (chunks[i].n % 2) + Header
         /\ chunks[i].at + chunks[i].n <= size

\* Exactly the well-formed files are opened, with the samples they declare.
OpenExactly ==
    /\ phase = "open" <=> phase # "walk" /\ WellFormed
    /\ phase = "open" => data = [at |-> Last(chunks).at, samples |-> Declared \div 2]

\* No sample is read that is not in the file, and none from outside the data
\* chunk, whatever its header and that of ds64 claim.
ReadsInside ==
    /\ data.at + 2 * data.samples <= size \/ phase # "open"
    /\ got.samples > 0 =>
          data.at <= got.at /\ got.at + 2 * got.samples <= data.at + 2 * data.samples

=============================================================================
