---------------------------- MODULE AudioProofs -----------------------------
(* What Disk.tla states, for every disk, limit and set of requests, and what *)
(* WavHeader.tla states, for every size of files, headers and chunks.        *)
EXTENDS Disk, WavHeader, TLAPS

\* What a request knows at each of its steps; only at its limit can FFmpeg have
\* ended early.
Steps ==
    \A r \in Requests :
       /\ source[r] <= sent[r]
       /\ step[r] \in {"measure", "convert", "stat", "infer"} =>
             source[r] = sent[r] /\ ~full[r]
       /\ step[r] = "stat" => output[r] = need[r] \/ output[r] >= limit[r]
       /\ result[r] # "none" => step[r] = "clean"
       /\ step[r] \in {"idle", "upload", "measure"} => ~full[r] /\ output[r] = 0
       /\ step[r] = "idle" => source[r] = 0
       /\ sent[r] = 0 => step[r] = "idle"

IInv == TypeOK /\ Steps /\ CutNeverRecognised

LEMMA LimitType == TypeOK => OutputLimit \in 0..(Word \div 2 - 1)
  <1> SUFFICES ASSUME TypeOK PROVE OutputLimit \in 0..(Word \div 2 - 1)
    OBVIOUS
  <1>1. (free - Reserve) % Word \in 0..(Word - 1)
    BY DiskAssumption DEF TypeOK
  <1> HIDE DEF TypeOK
  <1>2. Word \div 2 \in Nat /\ Word \div 2 >= 1
    BY DiskAssumption
  <1> QED BY <1>1, <1>2 DEF OutputLimit

LEMMA StepInv == IInv /\ [Next]_vars => IInv'
  <1> SUFFICES ASSUME IInv, [Next]_vars PROVE IInv'
    OBVIOUS
  <1> USE DiskAssumption DEF IInv, TypeOK, Steps, CutNeverRecognised, Go, Answer
  <1>1. ASSUME NEW r \in Requests, Begin(r) PROVE IInv'
    <2>1. PICK n \in 1..(MaxFile + 1), m \in 0..Longest, noise \in BOOLEAN :
             /\ sent' = [sent EXCEPT ![r] = n]
             /\ need' = [need EXCEPT ![r] = m]
             /\ noisy' = [noisy EXCEPT ![r] = noise]
      BY <1>1 DEF Begin
    <2>2. /\ step[r] = "idle"
          /\ \/ Go(r, "upload") /\ UNCHANGED result
             \/ Answer(r, "storage_unavailable")
          /\ UNCHANGED <<others, free, source, output, limit, full>>
      BY <1>1 DEF Begin
    <2>3. TypeOK'
      <3>1. sent' \in [Requests -> 0..(MaxFile + 1)]
        BY <2>1
      <3>2. need' \in [Requests -> Nat] /\ noisy' \in [Requests -> BOOLEAN]
        BY <2>1
      <3>3. /\ step' \in [Requests -> {"idle", "upload", "measure", "convert", "stat", "infer", "clean"}]
            /\ result' \in [Requests -> {"none", "ok", "storage_unavailable", "file_too_large",
                                         "invalid_audio", "stopped"}]
        BY <2>2
      <3> QED BY <2>2, <3>1, <3>2, <3>3
    <2>4. Steps'
      <3>1. sent'[r] = n /\ n > 0 /\ \A q \in Requests \ {r} : sent'[q] = sent[q] /\ step'[q] = step[q]
        BY <2>1, <2>2
      <3>2. \A q \in Requests : sent'[q] = 0 => step'[q] = "idle"
        BY <3>1
      <3>3. source' = source /\ output' = output /\ limit' = limit /\ full' = full
        BY <2>2
      <3>4. /\ step'[r] \in {"upload", "clean"} /\ source[r] = 0
            /\ step'[r] = "upload" => result'[r] = "none" /\ ~full[r] /\ output[r] = 0
        BY <2>2
      <3>5. \A q \in Requests \ {r} : need'[q] = need[q] /\ result'[q] = result[q]
        BY <2>1, <2>2
      <3> QED BY <3>1, <3>2, <3>3, <3>4, <3>5
    <2>5. CutNeverRecognised'
      BY <2>1, <2>2
    <2> QED BY <2>3, <2>4, <2>5
  <1>2. ASSUME NEW r \in Requests, Receive(r) PROVE IInv'
    BY <1>2 DEF Receive
  <1>3. ASSUME NEW r \in Requests, ReceiveFails(r) PROVE IInv'
    BY <1>3 DEF ReceiveFails
  <1>4. ASSUME NEW r \in Requests, Received(r) PROVE IInv'
    BY <1>4 DEF Received, Storage
  <1>5. ASSUME NEW r \in Requests, Measure(r) PROVE IInv'
    BY <1>5, LimitType DEF Measure, CanConvert
  <1>6. ASSUME NEW r \in Requests, Convert(r) PROVE IInv'
    BY <1>6 DEF Convert
  <1>7. ASSUME NEW r \in Requests, ConvertFails(r) PROVE IInv'
    BY <1>7 DEF ConvertFails
  <1>8. ASSUME NEW r \in Requests, ConvertStops(r) PROVE IInv'
    BY <1>8 DEF ConvertStops
  <1>9. ASSUME NEW r \in Requests, ConvertEnds(r) PROVE IInv'
    BY <1>9 DEF ConvertEnds
  <1>10. ASSUME NEW r \in Requests, Stat(r) PROVE IInv'
    BY <1>10 DEF Stat, AtLimit
  <1>11. ASSUME NEW r \in Requests, Infer(r) PROVE IInv'
    BY <1>11 DEF Infer
  <1>12. ASSUME NEW r \in Requests, Clean(r) PROVE IInv'
    BY <1>12 DEF Clean
  <1>13. CASE Others
    BY <1>13 DEF Others
  <1>14. CASE UNCHANGED vars
    BY <1>14 DEF vars
  <1> QED BY <1>1, <1>2, <1>3, <1>4, <1>5, <1>6, <1>7, <1>8, <1>9, <1>10, <1>11, <1>12, <1>13, <1>14 DEF Next, Process

\* TypeOK, for every disk and every number of requests.
THEOREM TypeCorrect == Spec => []TypeOK
  <1>1. Init => IInv
    BY DiskAssumption DEF Init, IInv, TypeOK, Steps, CutNeverRecognised
  <1> QED BY <1>1, StepInv, PTL DEF Spec, IInv

\* CutNeverRecognised, whatever other requests and other processes write.
THEOREM NothingCut == Spec => []CutNeverRecognised
  <1>1. Init => IInv
    BY DiskAssumption DEF Init, IInv, TypeOK, Steps, CutNeverRecognised
  <1> QED BY <1>1, StepInv, PTL DEF Spec, IInv

-----------------------------------------------------------------------------
(* The reserve. *)

\* What a request that is alone leaves free at each of its steps.
Left ==
    \A r \in Requests :
       /\ step[r] = "upload" => free + source[r] >= Reserve + MaxFile
       /\ step[r] = "convert" /\ output[r] < limit[r] =>
             free + output[r] >= Reserve + limit[r]
       /\ source[r] + output[r] > 0 => free >= Reserve - Packet

RInv == IInv /\ (Alone => Left)

LEMMA LimitLeaves ==
  ASSUME TypeOK, CanConvert
  PROVE  OutputLimit <= free - Reserve
  <1>1. free - Reserve \in Nat /\ Word \in Nat \ {0}
    BY DiskAssumption DEF TypeOK, CanConvert
  <1>2. (free - Reserve) % Word <= free - Reserve
    BY <1>1
  <1> QED BY <1>1, <1>2, DiskAssumption DEF OutputLimit

\* Who acts alone is the only request that has begun: the others have nothing
\* on the disk.
LEMMA RInvStep == RInv /\ [Next]_vars => RInv'
  <1> SUFFICES ASSUME IInv, Alone => Left, [Next]_vars, Alone' PROVE Left'
    BY StepInv DEF RInv
  <1>0. TypeOK /\ Steps /\ TypeOK' /\ Steps'
    BY StepInv DEF IInv
  <1> USE DiskAssumption DEF TypeOK, Steps, Left, Go, Answer
  <1>1. ASSUME NEW r \in Requests, Begin(r) PROVE Left'
    <2>1. \A q \in Requests \ {r} : sent'[q] = 0
      BY <1>0, <1>1 DEF Alone, Begin
    <2>2. Alone
      BY <1>0, <1>1 DEF Alone, Begin
    <2> QED BY <1>0, <2>1, <2>2, <1>1 DEF Begin, Storage
  <1>2. ASSUME NEW r \in Requests, Receive(r) PROVE Left'
    <2>1. \A q \in Requests \ {r} : sent'[q] = 0
      BY <1>0, <1>2 DEF Alone, Receive
    <2>2. Alone
      BY <1>0, <1>2 DEF Alone, Receive
    <2>3. /\ \A q \in Requests : step'[q] = step[q] /\ output'[q] = output[q] /\ limit'[q] = limit[q]
          /\ source'[r] = source[r] + 1 /\ free' = free - 1 /\ step[r] = "upload"
          /\ source[r] < sent[r]
          /\ \A q \in Requests \ {r} : source'[q] = source[q]
      BY <1>2, <1>0 DEF Receive
    <2>4. \A q \in Requests \ {r} : step'[q] = "idle" /\ source'[q] + output'[q] = 0
      BY <1>0, <2>1
    <2>5. /\ step'[r] = "upload" => free' + source'[r] >= Reserve + MaxFile
          /\ source'[r] + output'[r] > 0 => free' >= Reserve - Packet
      BY <1>0, <2>2, <2>3
    <2> QED BY <2>3, <2>4, <2>5
  <1>3. ASSUME NEW r \in Requests, ReceiveFails(r) PROVE Left'
    <2>1. \A q \in Requests \ {r} : sent'[q] = 0
      BY <1>0, <1>3 DEF Alone, ReceiveFails
    <2>2. Alone
      BY <1>0, <1>3 DEF Alone, ReceiveFails
    <2> QED BY <1>0, <2>1, <2>2, <1>3 DEF ReceiveFails
  <1>4. ASSUME NEW r \in Requests, Received(r) PROVE Left'
    <2>1. \A q \in Requests \ {r} : sent'[q] = 0
      BY <1>0, <1>4 DEF Alone, Received
    <2>2. Alone
      BY <1>0, <1>4 DEF Alone, Received
    <2> QED BY <1>0, <2>1, <2>2, <1>4 DEF Received, Storage
  <1>5. ASSUME NEW r \in Requests, Measure(r) PROVE Left'
    <2>1. \A q \in Requests \ {r} : sent'[q] = 0
      BY <1>0, <1>5 DEF Alone, Measure
    <2>2. Alone
      BY <1>0, <1>5 DEF Alone, Measure
    <2> QED BY <1>0, <2>1, <2>2, <1>5, LimitType, LimitLeaves DEF Measure, CanConvert
  <1>6. ASSUME NEW r \in Requests, Convert(r) PROVE Left'
    <2>1. \A q \in Requests \ {r} : sent'[q] = 0
      BY <1>0, <1>6 DEF Alone, Convert
    <2>2. Alone
      BY <1>0, <1>6 DEF Alone, Convert
    <2> QED BY <1>0, <2>1, <2>2, <1>6 DEF Convert
  <1>7. ASSUME NEW r \in Requests, ConvertFails(r) PROVE Left'
    <2>1. \A q \in Requests \ {r} : sent'[q] = 0
      BY <1>0, <1>7 DEF Alone, ConvertFails
    <2>2. Alone
      BY <1>0, <1>7 DEF Alone, ConvertFails
    <2> QED BY <1>0, <2>1, <2>2, <1>7 DEF ConvertFails
  <1>8. ASSUME NEW r \in Requests, ConvertStops(r) PROVE Left'
    <2>1. \A q \in Requests \ {r} : sent'[q] = 0
      BY <1>0, <1>8 DEF Alone, ConvertStops
    <2>2. Alone
      BY <1>0, <1>8 DEF Alone, ConvertStops
    <2> QED BY <1>0, <2>1, <2>2, <1>8 DEF ConvertStops
  <1>9. ASSUME NEW r \in Requests, ConvertEnds(r) PROVE Left'
    <2>1. \A q \in Requests \ {r} : sent'[q] = 0
      BY <1>0, <1>9 DEF Alone, ConvertEnds
    <2>2. Alone
      BY <1>0, <1>9 DEF Alone, ConvertEnds
    <2> QED BY <1>0, <2>1, <2>2, <1>9 DEF ConvertEnds
  <1>10. ASSUME NEW r \in Requests, Stat(r) PROVE Left'
    <2>1. \A q \in Requests \ {r} : sent'[q] = 0
      BY <1>0, <1>10 DEF Alone, Stat
    <2>2. Alone
      BY <1>0, <1>10 DEF Alone, Stat
    <2> QED BY <1>0, <2>1, <2>2, <1>10 DEF Stat, AtLimit
  <1>11. ASSUME NEW r \in Requests, Infer(r) PROVE Left'
    <2>1. \A q \in Requests \ {r} : sent'[q] = 0
      BY <1>0, <1>11 DEF Alone, Infer
    <2>2. Alone
      BY <1>0, <1>11 DEF Alone, Infer
    <2> QED BY <1>0, <2>1, <2>2, <1>11 DEF Infer
  <1>12. ASSUME NEW r \in Requests, Clean(r) PROVE Left'
    <2>1. \A q \in Requests \ {r} : sent'[q] = 0
      BY <1>0, <1>12 DEF Alone, Clean
    <2>2. Alone
      BY <1>0, <1>12 DEF Alone, Clean
    <2> QED BY <1>0, <2>1, <2>2, <1>12 DEF Clean
  <1>13. CASE Others
    BY <1>13 DEF Others, Alone
  <1>14. CASE UNCHANGED vars
    BY <1>14 DEF vars, Alone
  <1> QED BY <1>1, <1>2, <1>3, <1>4, <1>5, <1>6, <1>7, <1>8, <1>9, <1>10, <1>11, <1>12, <1>13, <1>14 DEF Next, Process

\* ReserveSpared, for every size of the disk and of the limits.
THEOREM ReserveStays == Spec => []ReserveSpared
  <1>1. Init => RInv
    BY DiskAssumption DEF Init, RInv, IInv, TypeOK, Steps, CutNeverRecognised, Left
  <1>2. RInv => ReserveSpared
    BY DEF RInv, Left, ReserveSpared
  <1> QED BY <1>1, <1>2, RInvStep, PTL DEF Spec

-----------------------------------------------------------------------------
(* Type correctness and what is read. *)

LEMMA Parity == \A n \in Int : n % 2 \in {0, 1} /\ 2 * (n \div 2) <= n
  OBVIOUS

LEMMA Fields ==
  ASSUME NEW c \in Chunks
  PROVE  c.id \in Ids /\ c.n \in 0..Marker /\ c.n \in Nat /\ c.good \in BOOLEAN
         /\ c.claim \in 0..MaxData /\ c.claim \in Nat
  <1>1. c \in [id : Ids, n : 0..Marker, good : BOOLEAN, claim : 0..MaxData]
    BY DEF Chunks
  <1> QED BY <1>1, WavAssumption

LEMMA LengthType ==
  ASSUME WavTypeOK, NEW c \in Chunks, Fits(c)
  PROVE  Length(c) \in Nat /\ pos + Header + Length(c) <= size /\ Skip(c) \in Nat
  <1>0. pos \in Nat /\ size \in Nat /\ Header \in Nat
    BY WavAssumption DEF WavTypeOK
  <1>1. Length(c) \in Nat
    BY Fields, WavAssumption DEF WavTypeOK, Fits, Length, None
  <1>2. Length(c) <= size - (pos + Header)
    BY DEF Fits
  <1> DEFINE n == Length(c)
  <1>3. Skip(c) = pos + Header + n + (n % 2)
    BY DEF Skip
  <1> HIDE DEF n
  <1>4. n \in Nat /\ n <= size - (pos + Header)
    BY <1>1, <1>2 DEF n
  <1>5. (n % 2) \in Nat
    BY <1>4, Parity
  <1>6. pos + Header + n <= size
    BY <1>0, <1>4
  <1>7. Skip(c) \in Nat
    BY <1>0, <1>3, <1>4, <1>5
  <1> QED BY <1>4, <1>6, <1>7 DEF n

LEMMA Half ==
  ASSUME NEW n \in Nat
  PROVE  n \div 2 \in Nat /\ 2 * (n \div 2) <= n
  OBVIOUS

\* Nothing is read before the walk has ended.
Inside == WavTypeOK /\ ReadsInside /\ (phase = "walk" => got.samples = 0)

LEMMA WalkInside ==
  ASSUME Inside, NEW c \in Chunks, Walk(c)
  PROVE  Inside'
  <1>0. /\ pos \in Nat /\ size \in 0..MaxSize /\ size \in Nat /\ Header \in Nat /\ rf64 \in BOOLEAN
        /\ valid \in BOOLEAN /\ claimed \in Nat \cup {None} /\ phase = "walk"
        /\ data \in [at : Nat, samples : Nat] /\ got \in [at : Nat, samples : Nat]
    <2>1. phase = "walk"
      BY DEF Walk
    <2>2. MaxSize \in Nat /\ Header \in Nat
      BY WavAssumption
    <2> QED BY <2>1, <2>2 DEF Inside, WavTypeOK
  <1>1. chunks' \in Seq([id : Ids, n : 0..Marker, at : Nat, good : BOOLEAN, claim : 0..MaxData])
    <2> DEFINE Entries == [id : Ids, n : 0..Marker, at : Nat, good : BOOLEAN, claim : 0..MaxData]
               entry == [id |-> c.id, n |-> c.n, at |-> pos + Header, good |-> c.good,
                         claim |-> c.claim]
    <2>1. entry \in Entries
      BY <1>0, Fields
    <2>2. chunks \in Seq(Entries) /\ chunks' = Append(chunks, entry)
      BY DEF Inside, WavTypeOK, Walk
    <2> HIDE DEF Entries, entry
    <2>3. chunks' \in Seq(Entries)
      BY <2>1, <2>2
    <2> QED BY <2>3 DEF Entries
  <1>2. size' = size /\ rf64' = rf64 /\ got' = got
    BY DEF Walk
  <1>3. CASE phase' # "open"
    <2>1. data' = data
      BY <1>0, <1>3 DEF Walk, Refuse
    <2>2. phase' \in {"walk", "refused"} /\ valid' \in BOOLEAN /\ claimed' \in Nat \cup {None}
      BY <1>0, <1>3, Fields DEF Walk, Refuse
    <2>3. pos' = pos \/ (Fits(c) /\ pos' = Skip(c))
      BY DEF Walk
    <2>4. pos' \in Nat
      BY <1>0, <2>3, LengthType DEF Inside
    <2> QED BY <1>0, <1>1, <1>2, <2>1, <2>2, <2>4 DEF Inside, WavTypeOK, ReadsInside
  <1>4. CASE phase' = "open"
    <2>1. /\ Fits(c) /\ pos' = pos /\ UNCHANGED <<valid, claimed>>
          /\ data' = [at |-> pos + Header, samples |-> Length(c) \div 2]
      BY <1>0, <1>4 DEF Walk, Refuse
    <2>2. Length(c) \in Nat /\ pos + Header + Length(c) <= size
      BY <2>1, LengthType DEF Inside
    <2>3. Length(c) \div 2 \in Nat /\ 2 * (Length(c) \div 2) <= Length(c)
      BY <2>2, Half
    <2>4. data' \in [at : Nat, samples : Nat] /\ data'.at + 2 * data'.samples <= size
      BY <1>0, <2>1, <2>2, <2>3
    <2>5. got.samples = 0
      BY <1>0 DEF Inside
    <2> QED BY <1>0, <1>1, <1>2, <1>4, <2>1, <2>4, <2>5 DEF Inside, WavTypeOK, ReadsInside
  <1> QED BY <1>3, <1>4

LEMMA InsideStep == Inside /\ [WavNext]_wavVars => Inside'
  <1> SUFFICES ASSUME Inside, [WavNext]_wavVars PROVE Inside'
    OBVIOUS
  <1>1. CASE Short
    BY <1>1 DEF Short, Refuse, Inside, WavTypeOK, ReadsInside
  <1>2. ASSUME NEW c \in Chunks, Walk(c) PROVE Inside'
    BY <1>2, WalkInside
  <1>3. ASSUME NEW start \in (-1)..(MaxSize + 1), NEW count \in (-1)..(MaxSize + 1), Read(start, count)
        PROVE  Inside'
    <2>1. /\ phase = "open" /\ start \in Nat /\ count \in Nat /\ start <= data.samples
          /\ data.at \in Nat /\ data.samples \in Nat
          /\ got' = [at |-> data.at + 2 * start, samples |-> Count(start, count)]
          /\ UNCHANGED <<size, rf64, pos, chunks, valid, claimed, phase, data>>
      BY <1>3, WavAssumption DEF Read, Readable, Inside, WavTypeOK
    <2>2. Count(start, count) \in Nat /\ start + Count(start, count) <= data.samples
      BY <2>1 DEF Count
    <2>3. got' \in [at : Nat, samples : Nat] /\ data.at <= got'.at
          /\ got'.at + 2 * got'.samples <= data.at + 2 * data.samples
      BY <2>1, <2>2
    <2> QED BY <2>1, <2>3 DEF Inside, WavTypeOK, ReadsInside
  <1>4. CASE UNCHANGED wavVars
    BY <1>4 DEF wavVars, Inside, WavTypeOK, ReadsInside
  <1> QED BY <1>1, <1>2, <1>3, <1>4 DEF WavNext, OpenWAV

LEMMA InitInside == WavInit => Inside
  <1> SUFFICES ASSUME WavInit PROVE Inside
    OBVIOUS
  <1>1. data \in [at : Nat, samples : Nat] /\ got = data /\ data.at = 0 /\ data.samples = 0
    BY DEF WavInit
  <1>2. First \in Nat /\ MaxSize \in Nat
    BY WavAssumption
  <1>3. size \in Nat
    BY <1>2 DEF WavInit
  <1>4. chunks \in Seq([id : Ids, n : 0..Marker, at : Nat, good : BOOLEAN, claim : 0..MaxData])
    BY DEF WavInit
  <1>5. /\ size \in 0..MaxSize /\ rf64 \in BOOLEAN /\ pos = First /\ valid = FALSE
        /\ claimed = None /\ phase = "walk"
    BY DEF WavInit
  <1>6. WavTypeOK
    BY <1>1, <1>2, <1>4, <1>5 DEF WavTypeOK
  <1> QED BY <1>1, <1>3, <1>5, <1>6 DEF Inside, ReadsInside

\* WavTypeOK, for every size of file and header.
THEOREM WavTypeCorrect == WavSpec => []WavTypeOK
  <1> QED BY InitInside, InsideStep, PTL DEF WavSpec, Inside

\* ReadsInside, whatever the header and ds64 declare.
THEOREM NothingOutside == WavSpec => []ReadsInside
  <1> QED BY InitInside, InsideStep, PTL DEF WavSpec, Inside

-----------------------------------------------------------------------------
(* What is opened. *)

EndAt(i) == chunks[i].at + chunks[i].n + (chunks[i].n % 2)

\* The chunks that the walk has passed, and what it remembers of them.
Passed(N) ==
    \A i \in 1..N :
       /\ chunks[i].id = "ds64" => rf64 /\ chunks[i].n >= Ds
       /\ chunks[i].id = "fmt " => chunks[i].n >= Fmt
       /\ chunks[i].id # "data"
       /\ chunks[i].at + chunks[i].n <= size
       /\ i < N => chunks[i+1].at = EndAt(i) + Header

Claims(N) ==
    IF claimed = None
    THEN \A i \in 1..N : chunks[i].id # "ds64"
    ELSE \E k \in 1..N : /\ chunks[k].id = "ds64" /\ chunks[k].claim = claimed
                         /\ \A i \in 1..N : chunks[i].id = "ds64" => i = k

Wanted(N) ==
    \E i \in 1..N : /\ chunks[i].id = "fmt " /\ chunks[i].good
                    /\ \A j \in 1..N : chunks[j].id = "fmt " => j <= i

Remembers(N) ==
    Passed(N) /\ Claims(N) /\ (valid <=> Wanted(N)) /\ (N > 0 => pos = EndAt(N))

WInv ==
    /\ Inside
    /\ phase = "walk" => Remembers(Len(chunks))
    /\ OpenExactly

Entry(c) == [id |-> c.id, n |-> c.n, at |-> pos + Header, good |-> c.good, claim |-> c.claim]

LEMMA Appended ==
  ASSUME WavTypeOK, NEW c \in Chunks, Walk(c), NEW N, N = Len(chunks)
  PROVE  /\ N \in Nat /\ Len(chunks') = N + 1 /\ chunks' # <<>>
         /\ \A i \in 1..N : chunks'[i] = chunks[i]
         /\ chunks'[N+1] = Entry(c) /\ Last(chunks') = Entry(c)
         /\ DOMAIN chunks' = 1..(N+1) /\ DOMAIN chunks = 1..N
  <1> DEFINE S == [id : Ids, n : 0..Marker, at : Nat, good : BOOLEAN, claim : 0..MaxData]
  <1>1. chunks \in Seq(S) /\ chunks' = Append(chunks, Entry(c))
    BY DEF WavTypeOK, Walk, Entry
  <1>2. Entry(c) \in S
    <2>1. pos \in Nat /\ Header \in Nat
      BY WavAssumption DEF WavTypeOK
    <2> QED BY <2>1, Fields DEF Entry
  <1> HIDE DEF S
  <1>3. Len(chunks') = N + 1 /\ N \in Nat
    BY <1>1, <1>2
  <1>4. chunks'[N+1] = Entry(c) /\ \A i \in 1..N : chunks'[i] = chunks[i]
    BY <1>1, <1>2
  <1>5. DOMAIN chunks' = 1..(N+1) /\ DOMAIN chunks = 1..N
    BY <1>1, <1>2, <1>3
  <1>6. Last(chunks') = Entry(c) /\ chunks' # <<>>
    BY <1>1, <1>3, <1>4 DEF Last
  <1> QED BY <1>3, <1>4, <1>5, <1>6

\* The walk goes on.
LEMMA WalkRemembers ==
  ASSUME Inside, NEW c \in Chunks, Walk(c), phase' = "walk",
         NEW N \in Nat, N = Len(chunks), NEW M \in Nat, M = N + 1, Remembers(N)
  PROVE  Len(chunks') = M /\ Remembers(M)'
  <1>0. \A i : i \in 1..N <=> i \in 1..M /\ i # M
    OBVIOUS
  <1>1. /\ N \in Nat /\ Len(chunks') = M
        /\ \A i \in 1..N : chunks'[i] = chunks[i]
        /\ chunks'[M] = Entry(c)
    BY Appended DEF Inside
  <1>2. /\ Fits(c) /\ c.id # "data" /\ pos' = Skip(c) /\ rf64' = rf64 /\ size' = size
        /\ c.id = "ds64" => DsAllowed(c) /\ claimed' = c.claim
        /\ c.id # "ds64" => claimed' = claimed
        /\ c.id = "fmt " => c.n >= Fmt /\ valid' = c.good
        /\ c.id # "fmt " => valid' = valid
    BY DEF Walk, Refuse
  <1>3. /\ Length(c) = c.n /\ c.n \in Nat /\ c.claim \in Nat /\ pos \in Nat /\ Header \in Nat /\ size \in Nat
        /\ c.n <= size - (pos + Header) /\ pos' = pos + Header + c.n + (c.n % 2)
    <2>1. Length(c) = c.n
      BY <1>2 DEF Length, IsReference
    <2>2. pos \in Nat /\ Header \in Nat /\ size \in Nat /\ c.n \in Nat /\ c.claim \in Nat
      BY WavAssumption, Fields DEF Inside, WavTypeOK
    <2> QED BY <2>1, <2>2, <1>2 DEF Fits, Skip
  <1>4. Remembers(N)
    OBVIOUS
  <1>5. \A i \in 1..M : i \in 1..N \/ i = M
    BY <1>1
  <1>6. /\ chunks'[M].id = c.id /\ chunks'[M].n = c.n /\ chunks'[M].at = pos + Header
        /\ chunks'[M].good = c.good /\ chunks'[M].claim = c.claim
    BY <1>1 DEF Entry
  <1>7. Passed(M)'
    <2> SUFFICES ASSUME NEW i \in 1..M
                 PROVE  /\ chunks'[i].id = "ds64" => rf64' /\ chunks'[i].n >= Ds
                        /\ chunks'[i].id = "fmt " => chunks'[i].n >= Fmt
                        /\ chunks'[i].id # "data"
                        /\ chunks'[i].at + chunks'[i].n <= size'
                        /\ i < M => chunks'[i+1].at = EndAt(i)' + Header
      BY DEF Passed
    <2>1. CASE i = M
      <3>1. (c.n >= Ds /\ rf64) \/ c.id # "ds64"
        BY <1>2 DEF DsAllowed
      <3>2. ~(i < M) /\ pos + Header + c.n <= size
        BY <2>1, <1>0, <1>3
      <3> QED BY <2>1, <3>1, <3>2, <1>2, <1>6
    <2>2. CASE i \in 1..N
      <3>1. chunks'[i] = chunks[i] /\ EndAt(i)' = EndAt(i)
        BY <2>2, <1>1 DEF EndAt
      <3>2. CASE i < N
        <4>1. i + 1 \in 1..N
          BY <2>2, <3>2, <1>1
        <4> QED BY <2>2, <3>1, <3>2, <4>1, <1>1, <1>2, <1>4 DEF Remembers, Passed
      <3>3. CASE i = N
        <4>1. pos = EndAt(N)
          BY <2>2, <3>3, <1>1, <1>4 DEF Remembers
        <4> QED BY <2>2, <3>1, <3>3, <4>1, <1>1, <1>2, <1>4, <1>6 DEF Remembers, Passed
      <3>4. i < N \/ i = N
        BY <2>2
      <3> QED BY <3>2, <3>3, <3>4
    <2> QED BY <2>1, <2>2, <1>5
  <1>8. Claims(M)'
    <2>1. CASE c.id = "ds64"
      <3>1. claimed = None /\ claimed' = c.claim /\ claimed' # None
        BY <2>1, <1>2, <1>3 DEF DsAllowed, None
      <3>2. \A i \in 1..N : chunks'[i].id # "ds64"
        BY <3>1, <1>1, <1>4 DEF Remembers, Claims
      <3>3. M \in 1..M
        BY <1>1
      <3> QED BY <2>1, <3>1, <3>2, <3>3, <1>5, <1>6 DEF Claims
    <2>2. CASE c.id # "ds64" /\ claimed = None
      BY <2>2, <1>1, <1>2, <1>4, <1>5, <1>6 DEF Remembers, Claims
    <2>3. CASE c.id # "ds64" /\ claimed # None
      <3>1. PICK k \in 1..N : /\ chunks[k].id = "ds64" /\ chunks[k].claim = claimed
                             /\ \A i \in 1..N : chunks[i].id = "ds64" => i = k
        BY <2>3, <1>4 DEF Remembers, Claims
      <3>2. k \in 1..M /\ chunks'[k] = chunks[k] /\ claimed' = claimed
        BY <2>3, <1>0, <1>1, <1>2
      <3> QED BY <2>3, <3>1, <3>2, <1>1, <1>5, <1>6 DEF Claims
    <2> QED BY <2>1, <2>2, <2>3
  <1>9. (valid <=> Wanted(M))'
    <2>1. CASE c.id = "fmt "
      <3>1. M \in 1..M /\ \A j \in 1..M : j <= M
        BY <1>1
      <3>2. ASSUME Wanted(M)' PROVE c.good
        <4>1. PICK i \in 1..M : /\ chunks'[i].id = "fmt " /\ chunks'[i].good
                               /\ \A j \in 1..M : chunks'[j].id = "fmt " => j <= i
          BY <3>2 DEF Wanted
        <4>2. M <= i
          BY <4>1, <3>1, <2>1, <1>6
        <4>3. i = M
          BY <4>2
        <4> QED BY <4>1, <4>3, <1>6
      <3>3. ASSUME c.good PROVE Wanted(M)'
        BY <3>1, <3>3, <2>1, <1>6 DEF Wanted
      <3>4. valid' = c.good
        BY <2>1, <1>2
      <3> QED BY <3>2, <3>3, <3>4
    <2>2. CASE c.id # "fmt "
      <3>1. chunks'[M].id # "fmt "
        BY <2>2, <1>6
      <3>2. ASSUME Wanted(M)' PROVE Wanted(N)
        <4>1. PICK i \in 1..M : /\ chunks'[i].id = "fmt " /\ chunks'[i].good
                               /\ \A j \in 1..M : chunks'[j].id = "fmt " => j <= i
          BY <3>2 DEF Wanted
        <4>2. i \in 1..N /\ 1..N \subseteq 1..M
          BY <4>1, <3>1, <1>0, <1>5
        <4>3. chunks[i].id = "fmt " /\ chunks[i].good
          BY <4>1, <4>2, <1>1
        <4>4. \A j \in 1..N : chunks[j].id = "fmt " => j <= i
          BY <4>1, <4>2, <1>1
        <4> QED BY <4>2, <4>3, <4>4 DEF Wanted
      <3>3. ASSUME Wanted(N) PROVE Wanted(M)'
        <4>1. PICK i \in 1..N : /\ chunks[i].id = "fmt " /\ chunks[i].good
                               /\ \A j \in 1..N : chunks[j].id = "fmt " => j <= i
          BY <3>3 DEF Wanted
        <4>2. i \in 1..M /\ chunks'[i].id = "fmt " /\ chunks'[i].good
          BY <4>1, <1>0, <1>1
        <4>3. \A j \in 1..M : chunks'[j].id = "fmt " => j <= i
          BY <4>1, <3>1, <1>1, <1>5
        <4> QED BY <4>2, <4>3 DEF Wanted
      <3>4. valid' = valid /\ (valid <=> Wanted(N))
        BY <2>2, <1>2, <1>4 DEF Remembers
      <3> QED BY <3>2, <3>3, <3>4
    <2> QED BY <2>1, <2>2
  <1>10. pos' = EndAt(M)'
    BY <1>3, <1>6 DEF EndAt
  <1>11. Remembers(M)'
    BY <1>7, <1>8, <1>9, <1>10 DEF Remembers
  <1> QED BY <1>1, <1>11

\* What a new chunk adds to the chunks of each kind.
Added(c, N, M) ==
    /\ Len(chunks') = M /\ chunks' # <<>> /\ rf64' = rf64 /\ size' = size
    /\ \A i \in 1..N : chunks'[i] = chunks[i]
    /\ chunks'[M].id = c.id /\ chunks'[M].n = c.n /\ chunks'[M].at = pos + Header
    /\ Last(chunks') = chunks'[M]
    /\ \A i : i \in Of("ds64")' <=> i \in 1..M /\ chunks'[i].id = "ds64"
    /\ \A i : i \in Of("fmt ")' <=> i \in 1..M /\ chunks'[i].id = "fmt "
    /\ \A i : i \in Of("data")' <=> i \in 1..M /\ chunks'[i].id = "data"
    /\ \A i : i \in 1..M <=> i \in 1..N \/ i = M

LEMMA Kinds ==
  ASSUME Inside, NEW c \in Chunks, Walk(c),
         NEW N \in Nat, N = Len(chunks), NEW M \in Nat, M = N + 1
  PROVE  Added(c, N, M)
  <1>1. /\ Len(chunks') = M /\ chunks' # <<>>
        /\ \A i \in 1..N : chunks'[i] = chunks[i]
        /\ chunks'[M] = Entry(c) /\ Last(chunks') = Entry(c)
        /\ DOMAIN chunks' = 1..M
    BY Appended DEF Inside
  <1>2. rf64' = rf64 /\ size' = size
    BY DEF Walk
  <1>3. /\ \A i : i \in Of("ds64")' <=> i \in 1..M /\ chunks'[i].id = "ds64"
        /\ \A i : i \in Of("fmt ")' <=> i \in 1..M /\ chunks'[i].id = "fmt "
        /\ \A i : i \in Of("data")' <=> i \in 1..M /\ chunks'[i].id = "data"
    BY <1>1 DEF Of
  <1>4. \A i : i \in 1..M <=> i \in 1..N \/ i = M
    OBVIOUS
  <1>5. chunks'[M].id = c.id /\ chunks'[M].n = c.n /\ chunks'[M].at = pos + Header
    BY <1>1 DEF Entry
  <1>6. Last(chunks') = chunks'[M]
    BY <1>1
  <1> QED BY <1>1, <1>2, <1>3, <1>4, <1>5, <1>6 DEF Added

LEMMA DeclaredLength ==
  ASSUME Inside, NEW c \in Chunks, Walk(c), c.id = "data", IsReference(c) => claimed # None,
         NEW N \in Nat, N = Len(chunks), NEW M \in Nat, M = N + 1, Remembers(N)
  PROVE  Declared' = Length(c)
  <1>1. /\ \A i \in 1..N : chunks'[i] = chunks[i]
        /\ Last(chunks').n = c.n /\ rf64' = rf64
        /\ \A i : i \in Of("ds64")' <=> i \in 1..N /\ chunks[i].id = "ds64"
    <2>1. /\ \A i \in 1..N : chunks'[i] = chunks[i]
          /\ chunks'[M].id = "data" /\ Last(chunks').n = c.n /\ rf64' = rf64
          /\ \A i : i \in Of("ds64")' <=> i \in 1..M /\ chunks'[i].id = "ds64"
          /\ \A i : i \in 1..M <=> i \in 1..N \/ i = M
      <3>1. Added(c, N, M)
        BY Kinds, Zenon
      <3> QED BY <3>1 DEF Added
    <2> QED BY <2>1
  <1>2. CASE IsReference(c)
    <2>1. PICK k \in 1..N : /\ chunks[k].id = "ds64" /\ chunks[k].claim = claimed
                           /\ \A i \in 1..N : chunks[i].id = "ds64" => i = k
      BY <1>2 DEF Remembers, Claims
    <2>3. Of("ds64")' = {k}
      BY <2>1, <1>1
    <2>4. (CHOOSE i \in Of("ds64")' : TRUE) = k
      BY <2>3
    <2> QED BY <2>1, <2>4, <1>1, <1>2 DEF Declared, IsReference, Length
  <1>3. CASE ~IsReference(c)
    BY <1>1, <1>3 DEF Declared, IsReference, Length
  <1> QED BY <1>2, <1>3

\* The data chunk is accepted.
LEMMA WalkOpens ==
  ASSUME Inside, NEW c \in Chunks, Walk(c), phase' = "open",
         NEW N \in Nat, N = Len(chunks), NEW M \in Nat, M = N + 1, Remembers(N)
  PROVE  WellFormed' /\ data' = [at |-> Last(chunks').at, samples |-> Declared' \div 2]
  <1>0. Inside /\ phase = "walk"
    BY DEF Walk
  <1>1. /\ Fits(c) /\ c.id = "data" /\ valid /\ (Length(c) % 2) = 0
        /\ data' = [at |-> pos + Header, samples |-> Length(c) \div 2]
        /\ rf64' = rf64 /\ size' = size
    BY <1>0 DEF Walk, Refuse
  <1>2. /\ Len(chunks') = M /\ chunks' # <<>>
        /\ \A i \in 1..N : chunks'[i] = chunks[i]
        /\ chunks'[M].at = pos + Header /\ Last(chunks').at = pos + Header /\ Last(chunks').n = c.n
        /\ \A i : i \in Of("ds64")' <=> i \in 1..M /\ chunks'[i].id = "ds64"
        /\ \A i : i \in Of("fmt ")' <=> i \in 1..M /\ chunks'[i].id = "fmt "
        /\ \A i : i \in Of("data")' <=> i \in 1..M /\ chunks'[i].id = "data"
        /\ chunks'[M].id = c.id
        /\ \A i : i \in 1..M <=> i \in 1..N \/ i = M
    <2>1. Added(c, N, M)
      BY Kinds, Zenon
    <2> QED BY <2>1 DEF Added
  <1>3. Declared' = Length(c)
    BY <1>1, DeclaredLength DEF Fits
  <1>4. Passed(N) /\ Claims(N) /\ Wanted(N) /\ (N > 0 => pos = EndAt(N))
    BY <1>1 DEF Remembers
  <1>6. Of("data")' = {M}
    <2>1. \A i \in 1..N : chunks'[i].id # "data"
      BY <1>2, <1>4 DEF Passed
    <2> QED BY <2>1, <1>1, <1>2
  <1>7. /\ \A i \in Of("ds64")' : i \in 1..N /\ chunks[i].id = "ds64" /\ chunks'[i] = chunks[i]
        /\ \A i \in Of("fmt ")' : i \in 1..N /\ chunks[i].id = "fmt " /\ chunks'[i] = chunks[i]
    BY <1>1, <1>2
  <1>8. \A i, j \in Of("ds64")' : i = j
    BY <1>4, <1>7 DEF Claims
  <1>9. /\ \A i \in Of("ds64")' : rf64' /\ chunks'[i].n >= Ds
        /\ \A i \in Of("fmt ")' : chunks'[i].n >= Fmt
    BY <1>1, <1>4, <1>7 DEF Passed
  <1>10. \E i \in Of("fmt ")' : chunks'[i].good /\ \A j \in Of("fmt ")' : j <= i
    <2>1. PICK i \in 1..N : /\ chunks[i].id = "fmt " /\ chunks[i].good
                           /\ \A j \in 1..N : chunks[j].id = "fmt " => j <= i
      BY <1>4 DEF Wanted
    <2>2. i \in Of("fmt ")' /\ chunks'[i].good
      BY <2>1, <1>2
    <2>3. \A j \in Of("fmt ")' : j <= i
      BY <2>1, <1>7
    <2> QED BY <2>2, <2>3
  <1>11. rf64' /\ Last(chunks').n = Marker => Of("ds64")' # {}
    <2>1. ASSUME rf64, c.n = Marker PROVE Of("ds64")' # {}
      <3>1. claimed # None
        BY <2>1, <1>1 DEF Fits, IsReference
      <3> QED BY <3>1, <1>2, <1>4 DEF Claims
    <2> QED BY <2>1, <1>1, <1>2
  <1>12. (Declared' % 2) = 0 /\ Last(chunks').at + Declared' <= size'
    BY <1>0, <1>1, <1>2, <1>3, LengthType DEF Inside
  <1>13. \A i \in 1..(Len(chunks') - 1) :
           /\ chunks'[i+1].at = chunks'[i].at + chunks'[i].n + (chunks'[i].n % 2) + Header
           /\ chunks'[i].at + chunks'[i].n <= size'
    <2> SUFFICES ASSUME NEW i \in 1..N
                 PROVE  /\ chunks'[i+1].at = EndAt(i) + Header
                        /\ chunks[i].at + chunks[i].n <= size
      <3>1. \A i \in 1..(Len(chunks') - 1) : i \in 1..N
        <4>0. Len(chunks') = M
          BY <1>2, Zenon
        <4>1. Len(chunks') - 1 = N
          BY <4>0
        <4> QED BY <4>1
      <3> QED BY <3>1, <1>1, <1>2 DEF EndAt
    <2>1. chunks[i].at + chunks[i].n <= size
      BY <1>4 DEF Passed
    <2>2. CASE i < N
      <3>1. i + 1 \in 1..N
        BY <2>2
      <3> QED BY <2>1, <2>2, <3>1, <1>2, <1>4 DEF Passed
    <2>3. CASE i = N
      <3>1. pos = EndAt(N)
        BY <2>3, <1>4
      <3>2. i + 1 = M
        BY <2>3
      <3> QED BY <2>1, <2>3, <3>1, <3>2, <1>2
    <2> QED BY <2>2, <2>3
  <1> QED BY <1>1, <1>2, <1>3, <1>6, <1>8, <1>9, <1>10, <1>11, <1>12, <1>13 DEF WellFormed

\* A file that is refused is not well-formed.
LEMMA WalkRefuses ==
  ASSUME Inside, NEW c \in Chunks, Walk(c), phase' = "refused",
         NEW N \in Nat, N = Len(chunks), NEW M \in Nat, M = N + 1, Remembers(N)
  PROVE  ~WellFormed'
  <1> SUFFICES ASSUME WellFormed' PROVE FALSE
    OBVIOUS
  <1>0. Inside /\ phase = "walk"
    BY DEF Walk
  <1>2. /\ Len(chunks') = M /\ rf64' = rf64 /\ size' = size
        /\ \A i \in 1..N : chunks'[i] = chunks[i]
        /\ Last(chunks').at = pos + Header /\ Last(chunks').n = c.n
        /\ \A i : i \in Of("ds64")' <=> i \in 1..M /\ chunks'[i].id = "ds64"
        /\ \A i : i \in Of("fmt ")' <=> i \in 1..M /\ chunks'[i].id = "fmt "
        /\ \A i : i \in Of("data")' <=> i \in 1..M /\ chunks'[i].id = "data"
        /\ chunks'[M].id = c.id
        /\ \A i : i \in 1..M <=> i \in 1..N \/ i = M
    <2>1. Added(c, N, M)
      BY Kinds, Zenon
    <2> QED BY <2>1 DEF Added
  <1>3. c.id = "data"
    BY <1>2 DEF WellFormed
  <1>4. IsReference(c) => claimed # None
    <2> SUFFICES ASSUME rf64, c.n = Marker, claimed = None PROVE FALSE
      BY DEF IsReference
    <2>1. Of("ds64")' # {}
      BY <1>2 DEF WellFormed
    <2>2. PICK i \in Of("ds64")' : TRUE
      BY <2>1
    <2>3. i \in 1..N /\ chunks[i].id = "ds64"
      BY <2>2, <1>2, <1>3
    <2> QED BY <2>3 DEF Remembers, Claims
  <1>5. Declared' = Length(c)
    BY <1>3, <1>4, DeclaredLength
  <1>6. (Length(c) % 2) = 0 /\ pos + Header + Length(c) <= size
    BY <1>2, <1>5 DEF WellFormed
  <1>7. Fits(c)
    <2>1. pos \in Nat /\ Header \in Nat /\ size \in Nat
      BY WavAssumption DEF Inside, WavTypeOK
    <2>2. Length(c) \in Nat
      BY <1>4, Fields DEF Length, Inside, WavTypeOK
    <2> QED BY <2>1, <2>2, <1>4, <1>6 DEF Fits
  <1>8. Wanted(N)
    <2>1. PICK i \in Of("fmt ")' : chunks'[i].good /\ \A j \in Of("fmt ")' : j <= i
      BY DEF WellFormed
    <2>2. i \in 1..N
      BY <2>1, <1>2, <1>3
    <2>3. chunks[i].id = "fmt " /\ chunks[i].good
      BY <2>1, <2>2, <1>2
    <2>4. \A j \in 1..N : chunks[j].id = "fmt " => j <= i
      BY <2>1, <1>2
    <2> QED BY <2>2, <2>3, <2>4 DEF Wanted
  <1>9. valid
    BY <1>8 DEF Remembers
  <1> QED BY <1>0, <1>3, <1>6, <1>7, <1>9 DEF Walk

\* OpenExactly: what the walk accepts is what WellFormed says, for every file.
THEOREM OpensTheWellFormed == WavSpec => []OpenExactly
  <1>1. WavInit => WInv
    <2> SUFFICES ASSUME WavInit PROVE WInv
      OBVIOUS
    <2>1. Len(chunks) = 0 /\ ~valid /\ claimed = None /\ phase = "walk"
      BY DEF WavInit
    <2>2. Remembers(0)
      BY <2>1 DEF Remembers, Passed, Claims, Wanted
    <2> QED BY <2>1, <2>2, InitInside DEF WInv, OpenExactly
  <1>2. WInv /\ [WavNext]_wavVars => WInv'
    <2> SUFFICES ASSUME WInv, [WavNext]_wavVars PROVE WInv'
      OBVIOUS
    <2>1. Inside'
      BY InsideStep DEF WInv
    <2>2. CASE Short
      <3>1. phase = "walk" /\ phase' = "refused" /\ UNCHANGED <<size, rf64, chunks>>
        BY <2>2 DEF Short, Refuse
      <3>2. Of("data")' = {}
        <4>1. DOMAIN chunks' = 1..Len(chunks)
          BY <3>1 DEF WInv, Inside, WavTypeOK
        <4>2. \A i \in 1..Len(chunks) : chunks[i].id # "data"
          BY <3>1 DEF WInv, Remembers, Passed
        <4> QED BY <3>1, <4>1, <4>2 DEF Of
      <3>3. ~WellFormed'
        BY <3>2 DEF WellFormed
      <3> QED BY <2>1, <3>1, <3>3 DEF WInv, OpenExactly
    <2>3. ASSUME NEW c \in Chunks, Walk(c) PROVE WInv'
      <3>1. PICK N \in Nat : N = Len(chunks)
        BY DEF WInv, Inside, WavTypeOK
      <3>2. PICK M \in Nat : M = N + 1
        OBVIOUS
      <3>3. Inside /\ Remembers(N) /\ phase' \in {"walk", "open", "refused"}
        BY <2>1, <2>3, <3>1 DEF WInv, Walk, Inside, WavTypeOK
      <3>4. CASE phase' = "walk"
        <4>1. Len(chunks') = M /\ Remembers(M)'
          BY <2>3, <3>1, <3>2, <3>3, <3>4, WalkRemembers
        <4>2. Remembers(Len(chunks))'
          BY <4>1 DEF Remembers, Passed, Claims, Wanted
        <4> QED BY <2>1, <3>4, <4>2 DEF WInv, OpenExactly
      <3>5. CASE phase' = "open"
        <4>1. WellFormed' /\ data' = [at |-> Last(chunks').at, samples |-> Declared' \div 2]
          BY <2>3, <3>1, <3>2, <3>3, <3>5, WalkOpens
        <4> QED BY <2>1, <3>5, <4>1 DEF WInv, OpenExactly
      <3>6. CASE phase' = "refused"
        <4>1. ~WellFormed'
          BY <2>3, <3>1, <3>2, <3>3, <3>6, WalkRefuses
        <4> QED BY <2>1, <3>6, <4>1 DEF WInv, OpenExactly
      <3> QED BY <3>3, <3>4, <3>5, <3>6
    <2>4. ASSUME NEW start \in (-1)..(MaxSize + 1), NEW count \in (-1)..(MaxSize + 1),
                 Read(start, count)
          PROVE  WInv'
      <3>1. UNCHANGED <<size, rf64, chunks, phase, data>> /\ phase = "open"
        BY <2>4 DEF Read
      <3>2. (WellFormed' <=> WellFormed) /\ Declared' = Declared
        BY <3>1 DEF WellFormed, Declared, Of
      <3> QED BY <2>1, <3>1, <3>2 DEF WInv, OpenExactly
    <2>5. CASE UNCHANGED wavVars
      <3>1. UNCHANGED <<size, rf64, pos, chunks, valid, claimed, phase, data>>
        BY <2>5 DEF wavVars
      <3>2. (WellFormed' <=> WellFormed) /\ Declared' = Declared
        BY <3>1 DEF WellFormed, Declared, Of
      <3>3. Remembers(Len(chunks))' <=> Remembers(Len(chunks))
        BY <3>1 DEF Remembers, Passed, Claims, Wanted, EndAt
      <3> QED BY <2>1, <3>1, <3>2, <3>3 DEF WInv, OpenExactly
    <2> QED BY <2>2, <2>3, <2>4, <2>5 DEF WavNext, OpenWAV
  <1> QED BY <1>1, <1>2, PTL DEF WavSpec, WInv
=============================================================================
