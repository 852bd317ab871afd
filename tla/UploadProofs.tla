----------------------------- MODULE UploadProofs -----------------------------
(* What Upload.tla states of the stored file, proved for every limit and any *)
(* number of parts; what Paths.tla states of the two directories, for every  *)
(* file system.                                                              *)
EXTENDS Upload, Paths, FiniteSetTheorems, SequenceTheorems, TLAPS

BodyTypes ==
    /\ Len(body) \in Nat
    /\ DOMAIN body = 1..Len(body)
    /\ \A i \in 1..Len(body) : body[i] \in Parts

\* Every part that has been read has a name that has been seen, so that a second
\* file is refused; the bytes of the file are stored or still to come, and what
\* is stored is the file that has been read.
UploadInv ==
    /\ TypeOK /\ BodyTypes
    /\ \A i \in 1..(next - 1) : body[i].name \in seen
    /\ stored <= MaxFile + 1
    /\ "file" \notin seen => stored = 0
    /\ step = "file" =>
          /\ next <= Len(body) /\ "file" \in seen /\ body[next].name = "file"
          /\ stored + unread = body[next].size
          /\ \A i \in 1..(next - 1) : body[i].name # "file"
    /\ step = "text" =>
          next <= Len(body) /\ body[next].name \in TextNames \cap seen
    /\ step \in {"part", "text"} =>
          \A i \in 1..(next - 1) : body[i].name = "file" => stored = body[i].size
    /\ step = "done" /\ code = "ok" =>
          /\ next = Len(body) + 1
          /\ \A i \in 1..Len(body) : body[i].name = "file" => stored = body[i].size
    /\ step # "done" => code = "none"

LEMMA PartTypes ==
  ASSUME NEW p \in Parts
  PROVE  /\ p.name \in TextNames \cup {"file", "other"}
         /\ p.attached \in BOOLEAN
         /\ p.size \in Nat
         /\ p.value \in {"good", "bad"}
  <1>1. TextLimit \in Nat /\ TextLimit + 1 \in Nat /\ 0..(MaxFile + 2) \subseteq Nat
    BY SizesAssumption
  <1>2. p.name \in {"file"} \cup TextNames \cup {"model", "other"} /\ p.value \in {"good", "bad"}
    BY DEF Parts
  <1>3. p.size \in 0..(MaxFile + 2) \cup {1, TextLimit, TextLimit + 1}
    BY DEF Parts
  <1>4. p.attached \in BOOLEAN
    BY DEF Parts
  <1> QED BY <1>1, <1>2, <1>3, <1>4 DEF TextNames

LEMMA Started == Init => UploadInv
  <1> SUFFICES ASSUME Init PROVE UploadInv
    OBVIOUS
  <1>1. PICK n \in 0..MaxParts : body \in [1..n -> Parts]
    BY DEF Init
  <1>2. n \in Nat /\ Len(body) = n
    BY <1>1, SizesAssumption
  <1>3. BodyTypes
    BY <1>1, <1>2 DEF BodyTypes
  <1>4. TypeOK
    <2>1. next \in 1..(Len(body) + 1) /\ unread \in Nat /\ stored \in Nat
      BY <1>2 DEF Init
    <2>2. taken \in 0..Limit
      BY SizesAssumption DEF Init, Limit
    <2> QED BY <2>1, <2>2 DEF Init, TypeOK, Outcomes
  <1> QED BY <1>3, <1>4, SizesAssumption DEF Init, UploadInv

\* Ending with another outcome than "ok" needs nothing of the state.
LEMMA EndKeeps ==
  ASSUME UploadInv, NEW outcome \in Outcomes, End(outcome), fault' \in BOOLEAN,
         step # "done",
         outcome = "ok" => step = "part" /\ next = Len(body) + 1
  PROVE  UploadInv'
  <1> USE DEF UploadInv, End, offer
  <1>1. TypeOK'
    BY DEF TypeOK
  <1>2. BodyTypes'
    BY DEF BodyTypes
  <1>3. ASSUME outcome = "ok" PROVE \A i \in 1..Len(body) : body[i].name = "file" => stored = body[i].size
    BY <1>3 DEF TypeOK, BodyTypes
  <1> QED BY <1>1, <1>2, <1>3

LEMMA UploadSteps ==
  ASSUME UploadInv, [Next]_vars
  PROVE  UploadInv'
  <1> USE DEF UploadInv
  <1>1. ASSUME NEW outcome \in Outcomes \ {"ok"}, Refuse(outcome), step # "done"
        PROVE UploadInv'
    BY <1>1, EndKeeps DEF Refuse, TypeOK
  <1>2. CASE RefusePart
    BY <1>1, <1>2 DEF RefusePart, AtPart, Outcomes
  <1>3. CASE BeginPart
    <2>1. /\ next <= Len(body) /\ step = "part" /\ body[next].name \notin seen
          /\ unread' = body[next].size /\ seen' = seen \cup {body[next].name}
          /\ UNCHANGED <<body, next, taken, fields, stored, code, fault>>
      BY <1>3 DEF BeginPart, AtPart, Duplicate, Part, offer
    <2>2. next \in 1..Len(body) /\ body[next] \in Parts
      BY <2>1 DEF TypeOK, BodyTypes
    <2>3. \/ body[next].name = "file" /\ step' = "file"
          \/ body[next].name \in TextNames /\ step' = "text"
      BY <1>3 DEF BeginPart, Part
    <2>4. TypeOK'
      BY <2>1, <2>2, <2>3, PartTypes DEF TypeOK, Limit, TextNames
    <2>5. BodyTypes'
      BY <2>1 DEF BodyTypes
    <2> QED BY <2>1, <2>2, <2>3, <2>4, <2>5, PartTypes DEF TextNames, TypeOK
  <1>4. CASE Copy
    <2>1. /\ step = "file" /\ unread > 0 /\ stored < MaxFile + 1 /\ taken < Limit
          /\ unread' = unread - 1 /\ taken' = taken + 1 /\ stored' = stored + 1
          /\ UNCHANGED <<body, next, step, seen, fields, code, fault>>
      BY <1>4 DEF Copy, CopyLimit, Take, offer
    <2>2. TypeOK'
      BY <2>1, SizesAssumption DEF TypeOK, Limit
    <2>3. BodyTypes'
      BY <2>1 DEF BodyTypes
    <2>4. stored' + unread' = stored + unread /\ stored' <= MaxFile + 1
      BY <2>1, SizesAssumption DEF TypeOK
    <2> QED BY <2>1, <2>2, <2>3, <2>4
  <1>5. CASE RefuseFile
    BY <1>1, <1>5 DEF RefuseFile, Copied, Outcomes
  <1>6. CASE KeepFile
    <2>1. /\ step = "file" /\ step' = "part" /\ next' = next + 1
          /\ stored \in 1..MaxFile /\ (unread = 0 \/ stored = MaxFile + 1)
          /\ UNCHANGED <<body, unread, taken, seen, fields, stored, code, fault>>
      BY <1>6 DEF KeepFile, Copied, CopyLimit, NextPart, offer
    <2>2. unread = 0 /\ next <= Len(body) /\ next \in Nat /\ stored \in Nat
      BY <2>1, SizesAssumption DEF TypeOK
    <2>3. TypeOK'
      BY <2>1, <2>2 DEF TypeOK, BodyTypes, Limit
    <2>4. BodyTypes'
      BY <2>1 DEF BodyTypes
    <2>5. stored = body[next].size
      BY <2>1, <2>2
    <2>6. \A i \in 1..(next' - 1) : i \in 1..(next - 1) \/ i = next
      BY <2>1, <2>2
    <2> QED BY <2>1, <2>2, <2>3, <2>4, <2>5, <2>6
  <1>7. CASE DiskFails \/ ReadFails
    <2>1. \E outcome \in Outcomes \ {"ok"} : End(outcome) /\ fault' = TRUE /\ step # "done"
      BY <1>7 DEF DiskFails, ReadFails, Outcomes
    <2> QED BY <2>1, EndKeeps
  <1>8. CASE ReadText
    <2>1. /\ step = "text" /\ unread > 0 /\ taken < Limit
          /\ unread' = unread - 1 /\ taken' = taken + 1
          /\ UNCHANGED <<body, next, step, seen, fields, stored, code, fault>>
      BY <1>8 DEF ReadText, More, Take, offer
    <2>2. TypeOK'
      BY <2>1, SizesAssumption DEF TypeOK, Limit
    <2>3. BodyTypes'
      BY <2>1 DEF BodyTypes
    <2> QED BY <2>1, <2>2, <2>3
  <1>9. CASE RefuseText
    BY <1>1, <1>9 DEF RefuseText, Outcomes
  <1>10. CASE KeepText
    <2>1. /\ step = "text" /\ step' = "part" /\ next' = next + 1
          /\ fields' = [fields EXCEPT ![body[next].name] = body[next].value]
          /\ UNCHANGED <<body, unread, taken, seen, stored, code, fault>>
      BY <1>10 DEF KeepText, NextPart, Part, offer
    <2>2. next <= Len(body) /\ next \in Nat /\ body[next].name \in TextNames \cap seen
      BY <2>1 DEF TypeOK
    <2>3. body[next].name # "file" /\ body[next].value \in {"good", "bad"}
      <3>1. next \in 1..Len(body)
        BY <2>2 DEF TypeOK, BodyTypes
      <3> QED BY <2>2, <3>1, PartTypes DEF BodyTypes, TextNames
    <2>4. TypeOK'
      BY <2>1, <2>2, <2>3 DEF TypeOK, BodyTypes
    <2>5. BodyTypes'
      BY <2>1 DEF BodyTypes
    <2>6. \A i \in 1..(next' - 1) : i \in 1..(next - 1) \/ i = next
      BY <2>1, <2>2
    <2> QED BY <2>1, <2>2, <2>3, <2>4, <2>5, <2>6
  <1>11. CASE BodyTooLarge
    BY <1>1, <1>11 DEF BodyTooLarge, Outcomes
  <1>12. CASE EndOfBody
    <2>1. Validation \in Outcomes
      BY DEF Validation, Outcomes
    <2> QED BY <1>12, <2>1, EndKeeps DEF EndOfBody, Refuse, TypeOK
  <1>13. CASE UNCHANGED vars
    <2>1. TypeOK' /\ BodyTypes'
      BY <1>13 DEF vars, offer, TypeOK, BodyTypes
    <2> QED BY <1>13, <2>1 DEF vars, offer
  <1> QED BY <1>2, <1>3, <1>4, <1>5, <1>6, <1>7, <1>8, <1>9, <1>10, <1>11, <1>12,
             <1>13 DEF Next, Answered

THEOREM UploadInvariance == Spec => []UploadInv
  BY Started, UploadSteps, PTL DEF Spec

\* Every variable of the upload keeps its type.
THEOREM UploadTypes == Spec => []TypeOK
  <1>1. UploadInv => TypeOK
    BY DEF UploadInv
  <1> QED BY <1>1, UploadInvariance, PTL

\* A file that is cut off, at the file limit or by the connection, is never
\* given to FFmpeg.
THEOREM FileWhole == Spec => []StoredWhole
  <1>1. UploadInv => StoredWhole
    BY DEF UploadInv, BodyTypes, StoredWhole, Named
  <1> QED BY <1>1, UploadInvariance, PTL

-----------------------------------------------------------------------------
(* That exactly the valid requests are processed needs what is known of every *)
(* part that has been read, and that the bytes let through are their sum.     *)

Reading == step \in {"file", "text"}

Begun == IF Reading THEN next ELSE next - 1

\* A part that was read to its end.
PartRead(i) ==
    /\ body[i].name # "other"
    /\ body[i].name = "file" => body[i].attached /\ body[i].size \in 1..MaxFile
    /\ body[i].name \in TextNames =>
          /\ ~body[i].attached /\ body[i].size <= TextLimit
          /\ fields[body[i].name] = body[i].value

Known ==
    /\ \A i \in 1..(next - 1) : PartRead(i)
    /\ \A n \in seen : \E i \in 1..Begun : body[i].name = n
    /\ \A i, j \in 1..Begun : body[i].name = body[j].name => i = j
    /\ \A n \in TextNames : fields[n] # "absent" => \E i \in 1..(next - 1) : body[i].name = n
    /\ Reading => /\ next <= Len(body) /\ unread <= body[next].size
                  /\ body[next].attached = (step = "file")
    /\ ~fault

\* What has been read of the part.
ReadOf == IF Reading THEN body[next].size - unread ELSE 0

\* The sum up to the part exists, and every sum of the whole body has it.
Summed ==
    /\ \E sum \in [0..(next - 1) -> 0..Limit] :
          /\ sum[0] = framing
          /\ \A i \in 1..(next - 1) : sum[i] = sum[i - 1] + body[i].size
          /\ taken = sum[next - 1] + ReadOf
    /\ \A sum \in [0..Len(body) -> 0..Limit] :
          AddsUp(sum) => taken = sum[next - 1] + ReadOf

ValidInv ==
    /\ UploadInv
    /\ step # "done" => Known /\ Summed
    /\ OnlyValidProcessed

LEMMA ValidStarted == Init => ValidInv
  <1> SUFFICES ASSUME Init PROVE ValidInv
    OBVIOUS
  <1>1. UploadInv
    BY Started
  <1>2. step = "part" /\ next = 1 /\ taken = framing /\ seen = {} /\ ~fault /\ ~Reading
    BY DEF Init, Reading
  <1>3. Known
    BY <1>2 DEF Known, Begun, Init
  <1>4. Summed
    <2>1. framing \in 0..Limit
      BY SizesAssumption DEF Init, Limit
    <2> DEFINE first == [i \in 0..0 |-> framing]
    <2>2. first \in [0..(next - 1) -> 0..Limit] /\ first[0] = framing
      BY <2>1, <1>2
    <2>3. taken = first[next - 1] + ReadOf
      BY <2>2, <2>1, <1>2, SizesAssumption DEF ReadOf, Limit
    <2>4. \E sum \in [0..(next - 1) -> 0..Limit] :
             /\ sum[0] = framing
             /\ \A i \in 1..(next - 1) : sum[i] = sum[i - 1] + body[i].size
             /\ taken = sum[next - 1] + ReadOf
      <3>1. next - 1 = 0 /\ \A i \in 1..(next - 1) : FALSE
        BY <1>2
      <3> HIDE DEF first
      <3> QED BY <2>2, <2>3, <3>1
    <2>5. ASSUME NEW sum \in [0..Len(body) -> 0..Limit], AddsUp(sum)
          PROVE  taken = sum[next - 1] + ReadOf
      BY <2>5, <2>1, <1>2 DEF AddsUp, ReadOf, Limit
    <2> QED BY <2>4, <2>5 DEF Summed
  <1> QED BY <1>1, <1>2, <1>3, <1>4 DEF ValidInv, OnlyValidProcessed

\* Whatever is refused, without a failure, breaks a rule of the whole request.
LEMMA RefusedInvalid ==
  ASSUME ValidInv, step # "done",
         RefusePart \/ RefuseFile \/ RefuseText \/ BodyTooLarge
  PROVE  ~ValidRequest
  <1> USE DEF ValidInv
  <1> SUFFICES ASSUME ValidRequest PROVE FALSE
    OBVIOUS
  <1>1. Known /\ Summed /\ TypeOK /\ BodyTypes
    BY DEF UploadInv
  <1>2. CASE RefusePart
    <2>1. next \in 1..Len(body) /\ DOMAIN body = 1..Len(body) /\ ~Reading
      BY <1>1, <1>2 DEF RefusePart, AtPart, TypeOK, BodyTypes, Reading
    <2>2. CASE Duplicate
      <3>1. PICK i \in 1..(next - 1) : body[i].name = body[next].name
        BY <2>1, <2>2, <1>1 DEF Known, Begun, Duplicate, Part
      <3>2. i \in DOMAIN body /\ next \in DOMAIN body /\ i # next
        BY <2>1, <3>1
      <3>3. {i, next} \subseteq Named(body[next].name)
        BY <3>1, <3>2 DEF Named
      <3>4. body[next].name \in TextNames \cup {"file", "other"}
        BY <2>1, <1>1, PartTypes DEF BodyTypes
      <3> QED BY <3>2, <3>3, <3>4 DEF ValidRequest
    <2>3. CASE ~Duplicate
      <3>1. \/ Part.name = "file" /\ ~Part.attached
            \/ Part.name = "other"
            \/ Part.name \in TextNames /\ Part.attached
        BY <2>3, <1>2 DEF RefusePart
      <3>2. next \in Named(Part.name)
        BY <2>1 DEF Named, Part
      <3> QED BY <3>1, <3>2 DEF ValidRequest, Part
    <2> QED BY <2>2, <2>3
  <1>3. CASE RefuseFile
    <2>1. step = "file" /\ (unread = 0 \/ stored = MaxFile + 1)
      BY <1>3 DEF RefuseFile, Copied, CopyLimit
    <2>2. next \in 1..Len(body) /\ body[next].name = "file" /\ stored + unread = body[next].size
      BY <2>1, <1>1 DEF UploadInv, TypeOK
    <2>3. body[next].size \notin 1..MaxFile
      BY <2>1, <2>2, <1>1, <1>3, SizesAssumption DEF RefuseFile, TypeOK
    <2>4. next \in Named("file")
      BY <2>2, <1>1 DEF Named, BodyTypes
    <2> QED BY <2>3, <2>4 DEF ValidRequest
  <1>4. CASE RefuseText
    <2>1. step = "text" /\ body[next].size - unread > TextLimit
      BY <1>4 DEF RefuseText, Got, Part
    <2>2. next \in 1..Len(body) /\ body[next].name \in TextNames
      BY <2>1, <1>1 DEF UploadInv, TypeOK
    <2>3. body[next].size \in Nat
      BY <2>2, <1>1, PartTypes DEF BodyTypes
    <2>4. ~(body[next].size <= TextLimit)
      BY <2>1, <2>3, <1>1, SizesAssumption DEF TypeOK
    <2>5. next \in Named(body[next].name)
      BY <2>2, <1>1 DEF Named, BodyTypes
    <2> QED BY <2>2, <2>4, <2>5 DEF ValidRequest
  <1>5. CASE BodyTooLarge
    <2>1. Reading /\ taken = Limit /\ unread > 0
      BY <1>5 DEF BodyTooLarge, Reading, More
    <2>2. next \in 1..Len(body) /\ body[next].size \in Nat
      BY <2>1, <1>1, PartTypes DEF Known, TypeOK, BodyTypes
    <2>3. PICK sum \in [0..Len(body) -> 0..Limit] : AddsUp(sum)
      BY DEF ValidRequest, Fits
    <2>4. Limit = sum[next - 1] + (body[next].size - unread)
      BY <2>1, <2>3, <1>1 DEF Summed, ReadOf
    <2>5. sum[next] = sum[next - 1] + body[next].size
      BY <2>2, <2>3 DEF AddsUp
    <2>6. sum[next] \in 0..Limit /\ sum[next - 1] \in 0..Limit /\ unread \in Nat /\ Limit \in Nat
      BY <2>2, <2>3, <1>1, SizesAssumption DEF TypeOK, Limit
    <2> QED BY <2>1, <2>2, <2>4, <2>5, <2>6
  <1> QED BY <1>2, <1>3, <1>4, <1>5

\* At the end of the body, validateFields is right about the whole.
LEMMA ValidationExact ==
  ASSUME ValidInv, step = "part", next = Len(body) + 1
  PROVE  Validation = "ok" <=> ValidRequest
  <1> USE DEF ValidInv
  <1>1. Known /\ Summed /\ TypeOK /\ BodyTypes /\ ~Reading
    BY DEF UploadInv, Reading
  <1>2. DOMAIN body = 1..Len(body) /\ Len(body) \in Nat /\ next - 1 = Len(body) /\ Begun = Len(body)
    BY <1>1 DEF BodyTypes, Begun
  <1>3. \A i \in 1..Len(body) : PartRead(i) /\ body[i].name \in seen
    BY <1>1, <1>2 DEF Known, UploadInv
  <1>4. \A i, j \in 1..Len(body) : body[i].name = body[j].name => i = j
    BY <1>1, <1>2 DEF Known
  <1>5. \A n \in seen : \E i \in 1..Len(body) : body[i].name = n
    BY <1>1, <1>2 DEF Known
  <1>6. \A n \in TextNames : fields[n] # "absent" => \E i \in 1..Len(body) : body[i].name = n
    BY <1>1, <1>2 DEF Known
  <1>7. \A i \in 1..Len(body) : body[i].value \in {"good", "bad"}
    BY <1>1, PartTypes DEF BodyTypes
  <1>8. Validation = "ok" <=> /\ "file" \in seen /\ fields["model"] # "absent"
                              /\ \A n \in TextNames : fields[n] # "bad"
    BY DEF Validation
  <1>9. ASSUME Validation = "ok" PROVE ValidRequest
    <2>1. PICK i \in 1..Len(body) : body[i].name = "file"
      BY <1>5, <1>8, <1>9
    <2>2. Named("file") = {i} /\ body[i].attached /\ body[i].size \in 1..MaxFile
      BY <2>1, <1>2, <1>3, <1>4 DEF Named, PartRead
    <2>3. Named("other") = {}
      BY <1>2, <1>3 DEF Named, PartRead
    <2>4. Named("model") # {}
      BY <1>2, <1>6, <1>8, <1>9 DEF Named, TextNames
    <2>5. ASSUME NEW n \in TextNames, NEW k \in Named(n)
          PROVE  /\ Named(n) = {k} /\ ~body[k].attached
                 /\ body[k].size <= TextLimit /\ body[k].value = "good"
      <3>1. k \in 1..Len(body) /\ body[k].name = n
        BY <1>2 DEF Named
      <3>2. Named(n) = {k}
        BY <3>1, <1>2, <1>4 DEF Named
      <3>3. ~body[k].attached /\ body[k].size <= TextLimit /\ fields[n] = body[k].value
        BY <3>1, <1>3 DEF PartRead
      <3> QED BY <3>1, <3>2, <3>3, <1>7, <1>8, <1>9
    <2>6. Fits
      <3>1. PICK sum \in [0..(next - 1) -> 0..Limit] :
              /\ sum[0] = framing
              /\ \A j \in 1..(next - 1) : sum[j] = sum[j - 1] + body[j].size
        BY <1>1 DEF Summed
      <3> QED BY <3>1, <1>2 DEF Fits, AddsUp
    <2> QED BY <1>2, <2>1, <2>2, <2>3, <2>4, <2>5, <2>6 DEF ValidRequest
  <1>10. ASSUME ValidRequest PROVE Validation = "ok"
    <2>1. "file" \in seen
      <3>1. PICK i \in DOMAIN body : Named("file") = {i}
        BY <1>10 DEF ValidRequest
      <3> QED BY <3>1, <1>2, <1>3 DEF Named
    <2>2. fields["model"] # "absent"
      <3>1. PICK i \in 1..Len(body) : body[i].name = "model"
        BY <1>2, <1>10 DEF ValidRequest, Named
      <3> QED BY <3>1, <1>3, <1>7 DEF PartRead, TextNames
    <2>3. ASSUME NEW n \in TextNames PROVE fields[n] # "bad"
      <3>1. CASE fields[n] = "absent"
        BY <3>1
      <3>2. CASE fields[n] # "absent"
        <4>1. PICK i \in 1..Len(body) : body[i].name = n
          BY <3>2, <1>6
        <4>2. i \in Named(n) /\ fields[n] = body[i].value
          BY <4>1, <1>2, <1>3 DEF Named, PartRead
        <4> QED BY <4>2, <1>10 DEF ValidRequest
      <3> QED BY <3>1, <3>2
    <2> QED BY <2>1, <2>2, <2>3, <1>8
  <1> QED BY <1>9, <1>10

\* Reading on adds the part to the sum.
LEMMA SumGrows ==
  ASSUME ValidInv, Reading, unread = 0, NextPart
  PROVE  Summed'
  <1>1. Known /\ Summed /\ TypeOK /\ BodyTypes
    BY DEF ValidInv, UploadInv, Reading
  <1>2. next \in 1..Len(body) /\ body[next].size \in Nat /\ Len(body) \in Nat
    BY <1>1, PartTypes DEF Known, TypeOK, BodyTypes
  <1>3. next' = next + 1 /\ body' = body /\ framing' = framing /\ taken' = taken /\ ReadOf' = 0
    BY DEF NextPart, offer, ReadOf, Reading
  <1>4. ReadOf = body[next].size
    BY <1>2 DEF ReadOf
  <1>5. taken \in 0..Limit /\ Limit \in Nat
    BY <1>1, SizesAssumption DEF TypeOK, Limit
  <1>6. PICK sum \in [0..(next - 1) -> 0..Limit] :
           /\ sum[0] = framing
           /\ \A i \in 1..(next - 1) : sum[i] = sum[i - 1] + body[i].size
           /\ taken = sum[next - 1] + ReadOf
    BY <1>1 DEF Summed
  <1> DEFINE more == [i \in 0..next |-> IF i = next THEN taken ELSE sum[i]]
  <1>7. more \in [0..next -> 0..Limit] /\ more[0] = framing /\ more[next] = taken
    BY <1>2, <1>5, <1>6
  <1>8. ASSUME NEW i \in 1..next PROVE more[i] = more[i - 1] + body[i].size
    <2>1. CASE i = next
      BY <2>1, <1>2, <1>4, <1>6
    <2>2. CASE i # next
      <3>1. i \in 1..(next - 1) /\ i - 1 \in 0..(next - 1)
        BY <2>2, <1>2
      <3>2. more[i] = sum[i] /\ more[i - 1] = sum[i - 1]
        BY <3>1, <1>2
      <3> QED BY <3>1, <3>2, <1>6
    <2> QED BY <2>1, <2>2
  <1>9. \E s \in [0..(next' - 1) -> 0..Limit] :
           /\ s[0] = framing'
           /\ \A i \in 1..(next' - 1) : s[i] = s[i - 1] + body'[i].size
           /\ taken' = s[next' - 1] + ReadOf'
    <2>1. next' - 1 = next
      BY <1>2, <1>3
    <2> HIDE DEF more
    <2>2. taken' = more[next' - 1] + ReadOf'
      BY <2>1, <1>3, <1>5, <1>7
    <2> QED BY <1>3, <1>7, <1>8, <2>1, <2>2
  <1>10. ASSUME NEW s \in [0..Len(body) -> 0..Limit], AddsUp(s)
         PROVE  taken' = s[next' - 1] + ReadOf'
    <2>1. taken = s[next - 1] + body[next].size
      BY <1>1, <1>4, <1>10 DEF Summed
    <2>2. s[next] = s[next - 1] + body[next].size
      BY <1>2, <1>10 DEF AddsUp
    <2>3. next' - 1 = next /\ s[next] \in 0..Limit
      BY <1>2, <1>3
    <2> QED BY <1>3, <1>5, <2>1, <2>2, <2>3
  <1> QED BY <1>3, <1>9, <1>10 DEF Summed, AddsUp, Limit

LEMMA ValidSteps ==
  ASSUME ValidInv, [Next]_vars
  PROVE  ValidInv'
  <1>1. UploadInv' /\ UploadInv
    BY UploadSteps DEF ValidInv
  <1>2. TypeOK /\ BodyTypes /\ (step # "done" => Known /\ Summed)
    BY DEF ValidInv, UploadInv
  <1>3. SUFFICES /\ step' # "done" => Known' /\ Summed'
                 /\ OnlyValidProcessed'
    BY <1>1 DEF ValidInv
  <1>4. ASSUME UNCHANGED offer PROVE ValidRequest' = ValidRequest
    BY <1>4 DEF offer, ValidRequest, Named, Fits, AddsUp, Limit
  <1>5. CASE RefusePart \/ RefuseFile \/ RefuseText \/ BodyTooLarge
    <2>1. step # "done"
      BY <1>5 DEF RefusePart, AtPart, RefuseFile, Copied, RefuseText, BodyTooLarge
    <2>2. ~ValidRequest
      BY <1>5, <2>1, RefusedInvalid
    <2>3. PICK outcome \in Outcomes \ {"ok"} : Refuse(outcome)
      BY <1>5 DEF RefusePart, RefuseFile, RefuseText, BodyTooLarge, Outcomes
    <2>4. step' = "done" /\ code' # "ok" /\ UNCHANGED offer
      BY <2>3 DEF Refuse, End
    <2> QED BY <2>2, <2>4, <1>4 DEF OnlyValidProcessed
  <1>6. CASE DiskFails \/ ReadFails
    <2>1. step' = "done" /\ code' # "ok" /\ fault' = TRUE
      BY <1>6 DEF DiskFails, ReadFails, End
    <2> QED BY <2>1 DEF OnlyValidProcessed
  <1>7. CASE EndOfBody
    <2>1. /\ step = "part" /\ next = Len(body) + 1
          /\ step' = "done" /\ code' = Validation /\ UNCHANGED <<offer, fault>>
      BY <1>7 DEF EndOfBody, Refuse, End
    <2>2. ~fault
      BY <1>2, <2>1 DEF Known
    <2> QED BY <2>1, <2>2, <1>4, ValidationExact DEF OnlyValidProcessed
  <1>8. CASE BeginPart
    <2>1. /\ next <= Len(body) /\ step = "part" /\ body[next].name \notin seen
          /\ unread' = body[next].size /\ seen' = seen \cup {body[next].name}
          /\ UNCHANGED <<body, framing, next, taken, fields, stored, code, fault>>
      BY <1>8 DEF BeginPart, AtPart, Duplicate, Part, offer
    <2>2. \/ body[next].attached /\ step' = "file"
          \/ ~body[next].attached /\ step' = "text"
      BY <1>8 DEF BeginPart, Part
    <2>3. next \in 1..Len(body) /\ body[next].size \in Nat /\ body[next].attached \in BOOLEAN
      BY <2>1, <1>2, PartTypes DEF TypeOK, BodyTypes
    <2>4. ~Reading /\ Reading' /\ Begun = next - 1 /\ Begun' = next
      BY <2>1, <2>2 DEF Reading, Begun
    <2>5. Known'
      <3>1. \A i \in 1..(next' - 1) : PartRead(i)'
        BY <2>1, <1>2 DEF Known, PartRead
      <3>2. \A n \in seen' : \E i \in 1..Begun' : body'[i].name = n
        BY <2>1, <2>3, <2>4, <1>2 DEF Known
      <3>3. \A i \in 1..(next - 1) : body[i].name # body[next].name
        BY <2>1, <1>1 DEF UploadInv
      <3>4. \A i, j \in 1..Begun' : body'[i].name = body'[j].name => i = j
        <4>1. \A i \in 1..Begun' : i \in 1..Begun \/ i = next
          BY <2>3, <2>4
        <4> QED BY <2>1, <2>4, <3>3, <4>1, <1>2 DEF Known
      <3>5. \A n \in TextNames : fields'[n] # "absent" => \E i \in 1..(next' - 1) : body'[i].name = n
        BY <2>1, <1>2 DEF Known
      <3>6. next' <= Len(body') /\ unread' <= body'[next'].size /\ ~fault'
        BY <2>1, <2>3, <1>2 DEF Known
      <3>7. body'[next'].attached = (step' = "file")
        BY <2>1, <2>2, <2>3
      <3> QED BY <3>1, <3>2, <3>4, <3>5, <3>6, <3>7 DEF Known
    <2>6. ReadOf = 0 /\ ReadOf' = 0
      BY <2>1, <2>3, <2>4 DEF ReadOf
    <2>7. Summed'
      BY <2>1, <2>6, <1>2 DEF Summed, AddsUp, Limit
    <2> QED BY <2>2, <2>5, <2>7 DEF OnlyValidProcessed
  <1>9. CASE Copy \/ ReadText
    <2>1. /\ step \in {"file", "text"} /\ unread > 0
          /\ unread' = unread - 1 /\ taken' = taken + 1
          /\ UNCHANGED <<body, framing, next, step, seen, fields, code, fault>>
      BY <1>9 DEF Copy, ReadText, More, Take, offer
    <2>2. Reading /\ Reading' /\ Begun' = Begun /\ Known
      BY <2>1, <1>2 DEF Reading, Begun
    <2>3. next \in 1..Len(body) /\ body[next].size \in Nat /\ unread \in Nat
      BY <2>2, <1>2, PartTypes DEF Known, TypeOK, BodyTypes
    <2>4. Known'
      BY <2>1, <2>2, <2>3 DEF Known, PartRead
    <2>5. ReadOf' = ReadOf + 1 /\ ReadOf \in Nat
      BY <2>1, <2>2, <2>3 DEF ReadOf, Known
    <2>6. Limit \in Nat /\ Limit' = Limit
      BY SizesAssumption DEF Limit
    <2>7. \E sum \in [0..(next' - 1) -> 0..Limit'] :
             /\ sum[0] = framing'
             /\ \A i \in 1..(next' - 1) : sum[i] = sum[i - 1] + body'[i].size
             /\ taken' = sum[next' - 1] + ReadOf'
      <3>1. PICK sum \in [0..(next - 1) -> 0..Limit] :
               /\ sum[0] = framing
               /\ \A i \in 1..(next - 1) : sum[i] = sum[i - 1] + body[i].size
               /\ taken = sum[next - 1] + ReadOf
        BY <2>1, <1>2 DEF Summed
      <3>2. sum[next - 1] \in 0..Limit
        BY <2>3
      <3>3. taken' = sum[next - 1] + ReadOf'
        BY <2>1, <2>5, <2>6, <3>1, <3>2
      <3> QED BY <2>1, <2>6, <3>1, <3>3
    <2>8. ASSUME NEW sum \in [0..Len(body') -> 0..Limit'], AddsUp(sum)'
          PROVE  taken' = sum[next' - 1] + ReadOf'
      <3>1. AddsUp(sum) /\ sum \in [0..Len(body) -> 0..Limit]
        BY <2>1, <2>6, <2>8 DEF AddsUp
      <3>2. taken = sum[next - 1] + ReadOf
        BY <2>1, <3>1, <1>2 DEF Summed
      <3>3. sum[next - 1] \in 0..Limit
        BY <2>3, <3>1
      <3> QED BY <2>1, <2>5, <2>6, <3>2, <3>3
    <2>9. Summed'
      BY <2>7, <2>8 DEF Summed
    <2> QED BY <2>1, <2>4, <2>9 DEF OnlyValidProcessed
  <1>10. CASE KeepFile
    <2>1. /\ step = "file" /\ stored \in 1..MaxFile /\ (unread = 0 \/ stored = MaxFile + 1)
          /\ step' = "part" /\ next' = next + 1 /\ NextPart
          /\ UNCHANGED <<body, framing, unread, taken, seen, fields, stored, code, fault>>
      BY <1>10 DEF KeepFile, Copied, CopyLimit, NextPart, offer
    <2>2. Reading /\ ~Reading' /\ Known /\ Begun = next /\ unread = 0
      BY <2>1, <1>2, SizesAssumption DEF Reading, Begun
    <2>3. next \in 1..Len(body) /\ next' - 1 = next /\ Begun' = next
      BY <2>1, <2>2, <1>2 DEF Known, TypeOK, BodyTypes, Begun
    <2>4. body[next].name = "file" /\ body[next].attached /\ body[next].size \in 1..MaxFile
      <3>1. body[next].name = "file" /\ stored + unread = body[next].size
        BY <2>1, <1>1 DEF UploadInv
      <3>2. body[next].size \in 1..MaxFile
        BY <2>1, <2>2, <3>1, SizesAssumption
      <3> QED BY <2>1, <2>2, <3>1, <3>2 DEF Known
    <2>5. \A i \in {next} : PartRead(i)'
      BY <2>1, <2>4 DEF PartRead, TextNames
    <2>6. \A i \in 1..(next' - 1) : PartRead(i)'
      <3>1. \A i \in 1..(next' - 1) : i \in 1..(next - 1) \/ i = next
        BY <2>3
      <3>2. \A i \in 1..(next - 1) : PartRead(i)'
        BY <2>1, <2>2 DEF Known, PartRead
      <3> QED BY <2>5, <3>1, <3>2
    <2>7. Known'
      BY <2>1, <2>2, <2>3, <2>6 DEF Known
    <2>8. Summed'
      BY <2>1, <2>2, SumGrows
    <2> QED BY <2>1, <2>7, <2>8 DEF OnlyValidProcessed
  <1>11. CASE KeepText
    <2>1. /\ step = "text" /\ unread = 0 /\ body[next].size - unread <= TextLimit
          /\ fields' = [fields EXCEPT ![body[next].name] = body[next].value]
          /\ step' = "part" /\ next' = next + 1 /\ NextPart
          /\ UNCHANGED <<body, framing, unread, taken, seen, stored, code, fault>>
      BY <1>11 DEF KeepText, Got, Part, NextPart, offer
    <2>2. Reading /\ ~Reading' /\ Known /\ Begun = next
      BY <2>1, <1>2 DEF Reading, Begun
    <2>3. next \in 1..Len(body) /\ next' - 1 = next /\ Begun' = next
      BY <2>1, <2>2, <1>2 DEF Known, TypeOK, BodyTypes, Begun
    <2>4. /\ body[next].name \in TextNames /\ ~body[next].attached
          /\ body[next].size \in Nat /\ body[next].value \in {"good", "bad"}
      BY <2>1, <2>2, <2>3, <1>1, <1>2, PartTypes DEF UploadInv, Known, BodyTypes
    <2>5. /\ fields'[body[next].name] = body[next].value
          /\ \A n \in TextNames \ {body[next].name} : fields'[n] = fields[n]
      BY <2>1, <2>4, <1>2 DEF TypeOK
    <2>6. \A i \in {next} : PartRead(i)'
      BY <2>1, <2>4, <2>5 DEF PartRead, TextNames
    <2>7. ASSUME NEW i \in 1..(next - 1) PROVE PartRead(i)'
      <3>1. body[i].name # body[next].name
        BY <2>2, <2>3 DEF Known
      <3> QED BY <2>1, <2>2, <2>5, <3>1 DEF Known, PartRead
    <2>8. \A i \in 1..(next' - 1) : i \in 1..(next - 1) \/ i = next
      BY <2>3
    <2>9. \A n \in TextNames : fields'[n] # "absent" => \E i \in 1..(next' - 1) : body'[i].name = n
      <3>1. next \in 1..(next' - 1) /\ 1..(next - 1) \subseteq 1..(next' - 1)
        BY <2>3
      <3> QED BY <2>1, <2>2, <2>5, <3>1 DEF Known
    <2>10. Known'
      BY <2>1, <2>2, <2>3, <2>6, <2>7, <2>8, <2>9 DEF Known
    <2>11. Summed'
      BY <2>1, <2>2, SumGrows
    <2> QED BY <2>1, <2>10, <2>11 DEF OnlyValidProcessed
  <1>12. CASE UNCHANGED vars
    BY <1>12, <1>4 DEF vars, offer, ValidInv, Known, Summed, AddsUp, Limit, PartRead,
       Reading, Begun, ReadOf, OnlyValidProcessed
  <1> QED BY <1>5, <1>6, <1>7, <1>8, <1>9, <1>10, <1>11, <1>12 DEF Next, Answered

\* Exactly the valid requests are processed, whatever their parts, their order
\* and their sizes are; only a failure refuses a valid one.
THEOREM ExactlyTheValid == Spec => []OnlyValidProcessed
  <1>1. ValidInv => OnlyValidProcessed
    BY DEF ValidInv
  <1> QED BY <1>1, ValidStarted, ValidSteps, PTL DEF Spec

-----------------------------------------------------------------------------
(* Paths: where recordings are put. *)

\* Induction, for a set of numbers.
LEMMA Naturals ==
  ASSUME NEW S \in SUBSET Nat, 0 \in S, \A n \in S : n + 1 \in S
  PROVE  \A n \in Nat : n \in S
  <1> SUFFICES ASSUME NEW n \in Nat PROVE n \in S
    OBVIOUS
  <1> DEFINE D == {i \in 1..n : \A j \in 1..i : j \in S}
             m == Cardinality(D)
  <1>1. IsFiniteSet(1..n) /\ Cardinality(1..n) = n /\ D \subseteq 1..n
    BY FS_Interval
  <1>2. IsFiniteSet(D) /\ m \in Nat /\ m <= n
    BY <1>1, FS_Subset, FS_CardinalityType
  <1>3. ASSUME NEW i \in D PROVE i \in 1..m
    <2>1. i \in 1..n /\ 1..i \subseteq D
      OBVIOUS
    <2>2. Cardinality(1..i) = i
      BY <2>1, FS_Interval
    <2>3. Cardinality(1..i) <= m
      BY <1>2, <2>1, FS_Subset
    <2> QED BY <1>2, <2>1, <2>2, <2>3
  <1>4. IsFiniteSet(1..m) /\ Cardinality(1..m) = m
    BY <1>2, FS_Interval
  <1>5. D = 1..m
    BY <1>3, <1>4, FS_Subset
  <1>6. m \in S
    <2>1. m = 0 \/ m \in D
      <3> HIDE DEF D, m
      <3> QED BY <1>2, <1>5
    <2> QED BY <1>2, <2>1
  <1>7. \A j \in 1..m : j \in S
    BY <1>5
  <1> HIDE DEF m
  <1>8. CASE m < n
    <2>1. \A j \in 1..(m + 1) : j \in S
      BY <1>2, <1>6, <1>7
    <2>2. m + 1 \in D
      BY <1>2, <1>8, <2>1
    <2>3. m + 1 \in 1..m
      BY <1>5, <2>2
    <2> QED BY <1>2, <2>3
  <1> QED BY <1>2, <1>6, <1>8

\* The first n steps of a walk.
Steps(f, w, n, g) ==
    g = [i \in 0..n |-> IF i = 0 THEN w ELSE Advance(f, g[i - 1])]

LEMMA StepsFacts ==
  ASSUME NEW f, NEW w, NEW n \in Nat, NEW g, Steps(f, w, n, g)
  PROVE  /\ g[0] = w
         /\ \A i \in 0..n : i # 0 => g[i] = Advance(f, g[i - 1])
  <1> DEFINE h == [i \in 0..n |-> IF i = 0 THEN w ELSE Advance(f, g[i - 1])]
  <1>1. g = h
    BY DEF Steps
  <1>2. h[0] = w /\ \A i \in 0..n : i # 0 => h[i] = Advance(f, g[i - 1])
    OBVIOUS
  <1> HIDE DEF h
  <1> QED BY <1>1, <1>2

LEMMA StepsUnique ==
  ASSUME NEW f, NEW w, NEW n \in Nat, NEW m \in Nat, NEW g, NEW h,
         Steps(f, w, n, g), Steps(f, w, m, h)
  PROVE  \A i \in Nat : i <= n /\ i <= m => g[i] = h[i]
  <1> DEFINE S == {i \in Nat : i <= n /\ i <= m => g[i] = h[i]}
  <1>1. 0 \in S
    BY StepsFacts
  <1>2. ASSUME NEW i \in S PROVE i + 1 \in S
    <2> SUFFICES ASSUME i + 1 <= n, i + 1 <= m PROVE g[i + 1] = h[i + 1]
      OBVIOUS
    <2>1. i \in Nat /\ i + 1 \in 0..n /\ i + 1 \in 0..m /\ i + 1 # 0 /\ (i + 1) - 1 = i
      OBVIOUS
    <2>2. g[i] = h[i]
      OBVIOUS
    <2>3. \A j \in 0..n : j # 0 => g[j] = Advance(f, g[j - 1])
      BY StepsFacts
    <2>4. \A j \in 0..m : j # 0 => h[j] = Advance(f, h[j - 1])
      BY StepsFacts
    <2> HIDE DEF S
    <2>5. g[i + 1] = Advance(f, g[i]) /\ h[i + 1] = Advance(f, h[i])
      BY <2>1, <2>3, <2>4
    <2> QED BY <2>2, <2>5
  <1> HIDE DEF S
  <1>3. \A i \in Nat : i \in S
    BY <1>1, <1>2, Naturals DEF S
  <1> QED BY <1>3 DEF S

LEMMA StepsExist ==
  ASSUME NEW f, NEW w
  PROVE  \A n \in Nat : \E g : Steps(f, w, n, g)
  <1> DEFINE S == {n \in Nat : \E g : Steps(f, w, n, g)}
  <1>1. 0 \in S
    <2> DEFINE g == [i \in 0..0 |-> w]
    <2>1. g = [i \in 0..0 |-> IF i = 0 THEN w ELSE Advance(f, g[i - 1])]
      OBVIOUS
    <2> QED BY <2>1 DEF Steps
  <1>2. ASSUME NEW n \in S PROVE n + 1 \in S
    <2>1. n \in Nat
      OBVIOUS
    <2>2. PICK g : Steps(f, w, n, g)
      OBVIOUS
    <2> DEFINE h == [i \in 0..(n + 1) |-> IF i = n + 1 THEN Advance(f, g[n]) ELSE g[i]]
    <2>3. ASSUME NEW i \in 0..(n + 1)
          PROVE  h[i] = IF i = 0 THEN w ELSE Advance(f, h[i - 1])
      <3>1. CASE i = n + 1
        <4>1. h[i] = Advance(f, g[n]) /\ h[n] = g[n] /\ i - 1 = n /\ i # 0
          BY <2>1, <3>1
        <4> HIDE DEF h
        <4> QED BY <4>1
      <3>2. CASE i # n + 1
        <4>1. i \in 0..n /\ h[i] = g[i]
          BY <2>1, <3>2
        <4>2. i # 0 => h[i - 1] = g[i - 1]
          BY <2>1, <3>2
        <4>3. i # 0 => g[i] = Advance(f, g[i - 1])
          BY <2>1, <2>2, <4>1, StepsFacts
        <4>4. g[0] = w
          BY <2>1, <2>2, StepsFacts
        <4> HIDE DEF h
        <4> QED BY <4>1, <4>2, <4>3, <4>4
      <3> QED BY <3>1, <3>2
    <2>4. h = [i \in 0..(n + 1) |-> IF i = 0 THEN w ELSE Advance(f, h[i - 1])]
      <3>1. h = [i \in 0..(n + 1) |-> h[i]]
        OBVIOUS
      <3> HIDE DEF h
      <3> QED BY <2>3, <3>1
    <2>5. Steps(f, w, n + 1, h)
      <3> HIDE DEF h
      <3> QED BY <2>4 DEF Steps
    <2> QED BY <2>1, <2>5
  <1> HIDE DEF S
  <1>3. \A n \in Nat : n \in S
    BY <1>1, <1>2, Naturals DEF S
  <1> QED BY <1>3 DEF S

\* A walk begins where it is said to, and each step advances it.
LEMMA WalkFacts ==
  ASSUME NEW f, NEW w
  PROVE  /\ Walk(f, w)[0] = w
         /\ \A n \in Nat : Walk(f, w)[n + 1] = Advance(f, Walk(f, w)[n])
  <1> DEFINE Is(v) == v = [n \in Nat |-> IF n = 0 THEN w ELSE Advance(f, v[n - 1])]
             u == [n \in Nat |-> (CHOOSE g : Steps(f, w, n, g))[n]]
  <1>1. \A n \in Nat : Steps(f, w, n, CHOOSE g : Steps(f, w, n, g))
    BY StepsExist, Zenon
  <1>2. ASSUME NEW n \in Nat PROVE u[n] = IF n = 0 THEN w ELSE Advance(f, u[n - 1])
    <2> DEFINE g == CHOOSE g : Steps(f, w, n, g)
               h == CHOOSE h : Steps(f, w, n - 1, h)
    <2>1. u[n] = g[n]
      OBVIOUS
    <2>2. Steps(f, w, n, g)
      BY <1>1
    <2>3. CASE n = 0
      <3> HIDE DEF g
      <3>1. g[0] = w
        BY <2>2, StepsFacts
      <3> QED BY <2>1, <2>3, <3>1
    <2>4. CASE n # 0
      <3>1. n - 1 \in Nat /\ n - 1 <= n /\ n \in 0..n
        BY <2>4
      <3>2. u[n - 1] = h[n - 1] /\ Steps(f, w, n - 1, h)
        BY <1>1, <3>1
      <3> HIDE DEF g, h, u
      <3>3. g[n] = Advance(f, g[n - 1])
        BY <2>2, <2>4, <3>1, StepsFacts
      <3>4. g[n - 1] = h[n - 1]
        BY <2>2, <3>1, <3>2, StepsUnique
      <3> QED BY <2>1, <2>4, <3>2, <3>3, <3>4
    <2> QED BY <2>3, <2>4
  <1>3. Is(u)
    <2>1. u = [n \in Nat |-> u[n]]
      OBVIOUS
    <2> HIDE DEF u
    <2> QED BY <1>2, <2>1
  <1>4. Walk(f, w) = CHOOSE v : Is(v)
    BY DEF Walk
  <1> HIDE DEF u
  <1>5. Is(Walk(f, w))
    <2> HIDE DEF Is
    <2> QED BY <1>3, <1>4
  <1>6. ASSUME NEW n \in Nat
        PROVE  Walk(f, w)[n] = IF n = 0 THEN w ELSE Advance(f, Walk(f, w)[n - 1])
    BY <1>5
  <1> HIDE DEF Is
  <1>7. Walk(f, w)[0] = w
    BY <1>6
  <1>8. ASSUME NEW n \in Nat PROVE Walk(f, w)[n + 1] = Advance(f, Walk(f, w)[n])
    <2>1. n + 1 \in Nat /\ n + 1 # 0 /\ (n + 1) - 1 = n
      OBVIOUS
    <2> QED BY <1>6, <2>1
  <1> QED BY <1>7, <1>8

\* What there is in a file system.
LEMMA ThingFacts ==
  ASSUME NEW f \in FileSystems
  PROVE  /\ At(f, Root).kind = "directory"
         /\ \A p : At(f, p).kind \in {"none", "directory", "closed", "link"}
         /\ \A p : At(f, p).kind = "link" => At(f, p).to \in Entries
         /\ \A p : At(f, p).kind # "none" => p = Root \/ p \in Entries
  <1>1. \A t \in TopThings : /\ t.kind \in {"none", "directory", "closed", "link"}
                             /\ t.kind = "link" => t.to \in Entries
    BY DEF TopThings, Thing, Link
  <1>2. \A p \in Entries : f[p] \in TopThings
    BY DEF FileSystems
  <1>3. Thing("none").kind = "none" /\ Thing("directory").kind = "directory"
    BY DEF Thing
  <1> QED BY <1>1, <1>2, <1>3 DEF At

LEMMA EntryFacts ==
  ASSUME NEW p \in Entries
  PROVE  p \in Seq(Names) /\ Len(p) \in 1..2 /\ p # Root
  <1>1. CASE \E n \in Names : p = <<n>>
    BY <1>1 DEF Root
  <1>2. CASE \E n, m \in Names : p = <<n, m>>
    BY <1>2 DEF Root
  <1> QED BY <1>1, <1>2 DEF Entries

\* What is inside something that is there is in a directory.
LEMMA InnerFacts ==
  ASSUME NEW f \in FileSystems, NEW n \in Names, NEW m \in Names,
         At(f, <<n, m>>).kind # "none"
  PROVE  At(f, <<n>>).kind = "directory" /\ At(f, <<n, m>>).kind # "closed"
  <1>1. <<n>> \in Entries /\ <<n, m>> \in Entries /\ <<n>> # Root /\ <<n, m>> # Root
    BY DEF Entries, Root
  <1>2. At(f, <<n>>) = f[<<n>>] /\ At(f, <<n, m>>) = f[<<n, m>>]
    BY <1>1 DEF At
  <1>3. f[<<n, m>>] \in Things /\ (f[<<n>>].kind # "directory" => f[<<n, m>>] = Thing("none"))
    BY DEF FileSystems
  <1>4. Thing("none").kind = "none" /\ \A t \in Things : t.kind # "closed"
    BY DEF Thing, Things, Link
  <1> QED BY <1>1, <1>2, <1>3, <1>4

\* A walk is at a directory that is there, with names of the path among the names
\* that it has yet to follow.
Real(f, p) == p \in Entries \cup {Root} /\ At(f, p).kind \in {"directory", "closed"}

Walks == [at : Seq(Names), rest : Seq(Names), own : Nat, links : Nat]

Walking(f, w) ==
    /\ w \in Walks
    /\ Real(f, w.at)
    /\ w.own <= Len(w.rest)
    /\ w.links <= LinkLimit

LEMMA BeginWalks ==
  ASSUME NEW f \in FileSystems, NEW p \in Seq(Names)
  PROVE  Walking(f, Begin(p))
  <1>1. Root \in Seq(Names) /\ Real(f, Root)
    BY ThingFacts DEF Root, Real
  <1> QED BY <1>1, PathsAssumption DEF Begin, Walking, Walks

\* The names that are left when the first one is followed.
LEMMA RestFacts ==
  ASSUME NEW s \in Seq(Names), s # <<>>
  PROVE  /\ Head(s) \in Names /\ Tail(s) \in Seq(Names)
         /\ Len(s) \in Nat \ {0} /\ Len(Tail(s)) = Len(s) - 1
  <1>1. Len(s) \in Nat /\ Len(s) # 0
    BY EmptySeq
  <1> QED BY <1>1, HeadTailProperties

\* A name is replaced by the one or two names of a link.
LEMMA Replaced ==
  ASSUME NEW n \in Nat, NEW t \in 1..2, NEW m, m = t + (n - 1)
  PROVE  m <= n + 1 /\ m \in Nat
  OBVIOUS

LEMMA AdvanceFacts ==
  ASSUME NEW f \in FileSystems, NEW w, Walking(f, w)
  PROVE  /\ Walking(f, Advance(f, w))
         /\ Status(f, w) = "going" =>
              LET v == Advance(f, w)
              IN  Len(v.rest) + 2 * (LinkLimit - v.links) < Len(w.rest) + 2 * (LinkLimit - w.links)
  <1>1. CASE Status(f, w) # "going"
    <2>1. Advance(f, w) = w
      BY <1>1 DEF Advance
    <2> QED BY <1>1, <2>1
  <1>2. CASE Status(f, w) = "going"
    <2> DEFINE left == IF w.own < Len(w.rest) THEN w.own ELSE w.own - 1
               p == Ahead(w)
    <2>1. /\ w.rest # <<>> /\ At(f, p).kind # "none"
          /\ At(f, p).kind = "link" => w.links # LinkLimit
      BY <1>2 DEF Status
    <2>2. /\ w.at \in Seq(Names) /\ w.rest \in Seq(Names)
          /\ w.own \in Nat /\ w.links \in Nat /\ w.own <= Len(w.rest) /\ w.links <= LinkLimit
      BY DEF Walking, Walks
    <2>3. /\ Head(w.rest) \in Names /\ Tail(w.rest) \in Seq(Names)
          /\ Len(w.rest) \in Nat \ {0} /\ Len(Tail(w.rest)) = Len(w.rest) - 1
      BY <2>1, <2>2, RestFacts
    <2>4. left \in Nat /\ left <= Len(w.rest) - 1
      BY <2>2, <2>3
    <2>5. p \in Seq(Names) /\ p # Root /\ p \in Entries
      <3>1. p \in Seq(Names) /\ Len(p) = Len(w.at) + 1 /\ Len(w.at) \in Nat
        BY <2>2, <2>3 DEF Ahead
      <3>2. p # Root
        BY <3>1 DEF Root
      <3> QED BY <2>1, <3>1, <3>2, ThingFacts
    <2> HIDE DEF p
    <2>6. CASE At(f, p).kind = "link"
      <3> DEFINE goal == At(f, p).to
                 all == goal \o Tail(w.rest)
                 v == [at |-> Root, rest |-> all, own |-> left, links |-> w.links + 1]
      <3>1. Advance(f, w) = v
        BY <1>2, <2>6 DEF Advance, Linked, p
      <3>2. goal \in Seq(Names) /\ Len(goal) \in 1..2
        BY <2>6, ThingFacts, EntryFacts
      <3> HIDE DEF goal
      <3>3. all \in Seq(Names) /\ Len(all) = Len(goal) + Len(Tail(w.rest))
        BY <2>3, <3>2, ConcatProperties
      <3> HIDE DEF all, left
      <3>4. Root \in Seq(Names) /\ Real(f, Root)
        BY ThingFacts DEF Root, Real
      <3>5. v \in Walks
        BY <2>2, <2>4, <3>3, <3>4 DEF Walks
      <3>6. v.own <= Len(v.rest) /\ v.links <= LinkLimit
        BY <2>1, <2>2, <2>3, <2>4, <2>6, <3>2, <3>3, PathsAssumption
      <3>7. Walking(f, v)
        BY <3>4, <3>5, <3>6 DEF Walking
      <3>8. Len(v.rest) + 2 * (LinkLimit - v.links) < Len(w.rest) + 2 * (LinkLimit - w.links)
        <4>0. /\ Len(goal) \in 1..2 /\ Len(w.rest) \in Nat
              /\ Len(all) = Len(goal) + (Len(w.rest) - 1)
          BY <2>3, <3>2, <3>3
        <4>1. Len(all) <= Len(w.rest) + 1 /\ Len(all) \in Nat
          BY <4>0, Replaced
        <4>2. v.rest = all /\ v.links = w.links + 1
          OBVIOUS
        <4> HIDE DEF v
        <4> QED BY <2>2, <2>3, <4>1, <4>2, PathsAssumption
      <3> HIDE DEF v
      <3> QED BY <3>1, <3>7, <3>8
    <2>7. CASE At(f, p).kind # "link"
      <3> DEFINE v == [at |-> p, rest |-> Tail(w.rest), own |-> left, links |-> w.links]
      <3>1. Advance(f, w) = v
        BY <1>2, <2>7 DEF Advance, Entered, p
      <3>2. Real(f, p)
        BY <2>1, <2>5, <2>7, ThingFacts DEF Real
      <3> HIDE DEF left
      <3>3. v \in Walks
        BY <2>2, <2>3, <2>4, <2>5 DEF Walks
      <3>4. Walking(f, v)
        BY <2>2, <2>3, <2>4, <3>2, <3>3 DEF Walking
      <3>5. Len(v.rest) + 2 * (LinkLimit - v.links) < Len(w.rest) + 2 * (LinkLimit - w.links)
        BY <2>2, <2>3, PathsAssumption
      <3> HIDE DEF v
      <3> QED BY <3>1, <3>4, <3>5
    <2> QED BY <2>6, <2>7
  <1> QED BY <1>1, <1>2

LEMMA WalkTypes ==
  ASSUME NEW f \in FileSystems, NEW w, Walking(f, w)
  PROVE  \A n \in Nat : Walking(f, Walk(f, w)[n])
  <1> DEFINE S == {n \in Nat : Walking(f, Walk(f, w)[n])}
  <1>1. 0 \in S
    BY WalkFacts
  <1>2. ASSUME NEW n \in S PROVE n + 1 \in S
    BY WalkFacts, AdvanceFacts
  <1> HIDE DEF S
  <1>3. \A n \in Nat : n \in S
    BY <1>1, <1>2, Naturals DEF S
  <1> QED BY <1>3 DEF S

\* A walk that has ended stays where it is.
LEMMA EndStays ==
  ASSUME NEW f, NEW w, NEW m \in Nat, Status(f, Walk(f, w)[m]) # "going"
  PROVE  \A n \in Nat : m <= n => Walk(f, w)[n] = Walk(f, w)[m]
  <1> DEFINE S == {n \in Nat : m <= n => Walk(f, w)[n] = Walk(f, w)[m]}
  <1>1. 0 \in S
    OBVIOUS
  <1>2. ASSUME NEW n \in S PROVE n + 1 \in S
    <2> SUFFICES ASSUME m <= n + 1 PROVE Walk(f, w)[n + 1] = Walk(f, w)[m]
      OBVIOUS
    <2>1. CASE m = n + 1
      BY <2>1
    <2>2. CASE m # n + 1
      <3>1. n \in Nat /\ m <= n
        BY <2>2
      <3>2. Walk(f, w)[n] = Walk(f, w)[m]
        BY <3>1
      <3>3. Walk(f, w)[n + 1] = Advance(f, Walk(f, w)[n])
        BY <3>1, WalkFacts
      <3> QED BY <3>2, <3>3 DEF Advance
    <2> QED BY <2>1, <2>2
  <1> HIDE DEF S
  <1>3. \A n \in Nat : n \in S
    BY <1>1, <1>2, Naturals DEF S
  <1> QED BY <1>3 DEF S

\* Following a link uses up one of the links that may be followed, and every walk
\* ends.
LEMMA WalkEnds ==
  ASSUME NEW f \in FileSystems, NEW p \in Seq(Names)
  PROVE  Status(f, Eval(f, p)) # "going" /\ Walking(f, Eval(f, p))
  <1> DEFINE N == Len(p) + 2 * LinkLimit
             W(n) == Walk(f, Begin(p))[n]
             M(n) == Len(W(n).rest) + 2 * (LinkLimit - W(n).links)
             S == {n \in Nat : Status(f, W(n)) = "going" => M(n) + n <= N}
  <1>1. Len(p) \in Nat /\ N \in Nat /\ LinkLimit \in Nat
    BY PathsAssumption
  <1>2. \A n \in Nat : Walking(f, W(n)) /\ W(n + 1) = Advance(f, W(n))
    BY BeginWalks, WalkTypes, WalkFacts
  <1>3. W(0) = Begin(p)
    BY WalkFacts
  <1>4. ASSUME NEW n \in Nat
        PROVE  /\ Len(W(n).rest) \in Nat /\ W(n).links \in 0..LinkLimit
               /\ Status(f, W(n)) = "going" => Len(W(n).rest) # 0
    <2>1. W(n).rest \in Seq(Names) /\ W(n).links \in Nat /\ W(n).links <= LinkLimit
      BY <1>2 DEF Walking, Walks
    <2>2. Status(f, W(n)) = "going" => W(n).rest # <<>>
      BY DEF Status
    <2> HIDE DEF W
    <2> QED BY <1>1, <2>1, <2>2
  <1>5. \A n \in Nat : Status(f, W(n)) = "going" => M(n + 1) < M(n)
    <2> HIDE DEF W
    <2> QED BY <1>2, AdvanceFacts
  <1>6. 0 \in S
    <2>1. M(0) = N
      BY <1>1, <1>3 DEF Begin
    <2> HIDE DEF W
    <2> QED BY <1>1, <2>1
  <1>7. ASSUME NEW n \in S PROVE n + 1 \in S
    <2>1. n \in Nat /\ n + 1 \in Nat
      OBVIOUS
    <2> SUFFICES ASSUME Status(f, W(n + 1)) = "going" PROVE M(n + 1) + (n + 1) <= N
      BY <2>1
    <2>2. Status(f, W(n)) = "going"
      <3> HIDE DEF W
      <3> QED BY <1>2, <2>1 DEF Advance
    <2>3. M(n + 1) < M(n) /\ M(n) + n <= N
      BY <1>5, <2>1, <2>2
    <2>4. ASSUME NEW k \in Nat PROVE M(k) \in Int
      <3>1. Len(W(k).rest) \in Nat /\ W(k).links \in Int
        BY <1>4
      <3> HIDE DEF W
      <3> QED BY <1>1, <3>1
    <2>5. M(n) \in Int /\ M(n + 1) \in Int
      BY <2>1, <2>4
    <2> HIDE DEF M
    <2> QED BY <1>1, <2>1, <2>3, <2>5
  <1>8. N \in S
    <2> HIDE DEF S
    <2>1. \A n \in Nat : n \in S
      BY <1>6, <1>7, Naturals DEF S
    <2> QED BY <1>1, <2>1
  <1>9. Status(f, W(N)) # "going"
    <2> SUFFICES ASSUME Status(f, W(N)) = "going" PROVE FALSE
      OBVIOUS
    <2>1. M(N) + N <= N
      BY <1>8
    <2>2. Len(W(N).rest) \in Nat \ {0} /\ W(N).links \in 0..LinkLimit
      BY <1>1, <1>4
    <2> HIDE DEF W, N
    <2> QED BY <1>1, <2>1, <2>2
  <1> QED BY <1>1, <1>2, <1>9 DEF Eval

\* A path is evaluated to where any walk of it ends.
LEMMA EvalUnique ==
  ASSUME NEW f \in FileSystems, NEW p \in Seq(Names), NEW n \in Nat,
         Status(f, Walk(f, Begin(p))[n]) # "going"
  PROVE  Eval(f, p) = Walk(f, Begin(p))[n]
  <1>1. Len(p) + 2 * LinkLimit \in Nat
    BY PathsAssumption
  <1> DEFINE N == Len(p) + 2 * LinkLimit
  <1>2. Eval(f, p) = Walk(f, Begin(p))[N] /\ Status(f, Eval(f, p)) # "going"
    BY WalkEnds DEF Eval
  <1> HIDE DEF N
  <1>3. CASE n <= N
    BY <1>1, <1>2, <1>3, EndStays DEF N
  <1>4. CASE N <= n
    <2>1. N \in Nat /\ Status(f, Walk(f, Begin(p))[N]) # "going"
      BY <1>1, <1>2 DEF N
    <2> QED BY <1>2, <1>4, <2>1, EndStays
  <1> QED BY <1>1, <1>3, <1>4 DEF N

LEMMA TailOfConcat ==
  ASSUME NEW r \in Seq(Names), r # <<>>, NEW t \in Seq(Names)
  PROVE  Tail(r \o t) = Tail(r) \o t
  <1> DEFINE all == r \o t
             k == Len(r)
             n == Len(t)
  <1>1. /\ k \in Nat \ {0} /\ n \in Nat /\ Tail(r) \in Seq(Names) /\ Len(Tail(r)) = k - 1
        /\ \A i \in 1..(k - 1) : Tail(r)[i] = r[i + 1]
    BY RestFacts, HeadTailProperties
  <1>2. /\ all \in Seq(Names) /\ Len(all) = k + n
        /\ \A i \in 1..(k + n) : all[i] = IF i <= k THEN r[i] ELSE t[i - k]
    BY <1>1, ConcatProperties
  <1>3. /\ Tail(r) \o t \in Seq(Names) /\ Len(Tail(r) \o t) = (k - 1) + n
        /\ \A i \in 1..((k - 1) + n) :
             (Tail(r) \o t)[i] = IF i <= k - 1 THEN Tail(r)[i] ELSE t[i - (k - 1)]
    BY <1>1, ConcatProperties
  <1> HIDE DEF all, k, n
  <1>4. all # <<>>
    <2>1. Len(all) # 0
      BY <1>1, <1>2
    <2> QED BY <2>1, EmptySeq
  <1>5. /\ Tail(all) \in Seq(Names) /\ Len(Tail(all)) = (k + n) - 1
        /\ \A i \in 1..((k + n) - 1) : Tail(all)[i] = all[i + 1]
    BY <1>2, <1>4, HeadTailProperties
  <1>6. ASSUME NEW i \in 1..((k + n) - 1) PROVE Tail(all)[i] = (Tail(r) \o t)[i]
    <2>1. i + 1 \in 1..(k + n) /\ i \in 1..((k - 1) + n) /\ (i + 1) - k = i - (k - 1)
      BY <1>1
    <2>2. Tail(all)[i] = IF i + 1 <= k THEN r[i + 1] ELSE t[(i + 1) - k]
      BY <1>2, <1>5, <2>1
    <2>3. (Tail(r) \o t)[i] = IF i <= k - 1 THEN Tail(r)[i] ELSE t[i - (k - 1)]
      BY <1>3, <2>1
    <2>4. CASE i <= k - 1
      <3>1. i + 1 <= k /\ i \in 1..(k - 1)
        BY <1>1, <2>4
      <3> QED BY <1>1, <2>2, <2>3, <2>4, <3>1
    <2>5. CASE ~(i <= k - 1)
      <3>1. ~(i + 1 <= k)
        BY <1>1, <2>5
      <3> QED BY <2>1, <2>2, <2>3, <2>5, <3>1
    <2> QED BY <2>4, <2>5
  <1>7. (k + n) - 1 = (k - 1) + n
    BY <1>1
  <1> DEFINE u == Tail(all)
             v == Tail(r) \o t
  <1>8. u \in Seq(Names) /\ v \in Seq(Names) /\ Len(u) = Len(v) /\ \A i \in 1..Len(u) : u[i] = v[i]
    BY <1>3, <1>5, <1>6, <1>7
  <1>9. u = v
    <2> HIDE DEF u, v
    <2> QED BY <1>8, SeqEqual
  <1> QED BY <1>9 DEF all

\* The same walk with a longer path.
Further(w, t) == [at |-> w.at, rest |-> w.rest \o t, own |-> w.own + Len(t), links |-> w.links]

LEMMA FurtherStatus ==
  ASSUME NEW f, NEW w \in Walks, NEW t \in Seq(Names), w.rest # <<>>
  PROVE  /\ Ahead(Further(w, t)) = Ahead(w)
         /\ Further(w, t).rest # <<>>
         /\ Status(f, Further(w, t)) = Status(f, w)
  <1>1. w.rest \in Seq(Names) /\ Len(w.rest) \in Nat \ {0} /\ Len(t) \in Nat
    BY RestFacts DEF Walks
  <1>2. /\ w.rest \o t \in Seq(Names) /\ Len(w.rest \o t) = Len(w.rest) + Len(t)
        /\ \A i \in 1..(Len(w.rest) + Len(t)) :
             (w.rest \o t)[i] = IF i <= Len(w.rest) THEN w.rest[i] ELSE t[i - Len(w.rest)]
    BY <1>1, ConcatProperties
  <1>3. w.rest \o t # <<>>
    <2>1. Len(w.rest \o t) # 0
      BY <1>1, <1>2
    <2> QED BY <2>1, EmptySeq
  <1>4. Head(w.rest \o t) = Head(w.rest)
    <2>1. 1 \in 1..(Len(w.rest) + Len(t)) /\ 1 <= Len(w.rest)
      BY <1>1
    <2>2. (w.rest \o t)[1] = w.rest[1]
      BY <1>2, <2>1
    <2>3. Head(w.rest) = w.rest[1] /\ Head(w.rest \o t) = (w.rest \o t)[1]
      BY <1>1, <1>2, <1>3, HeadTailProperties
    <2> QED BY <2>2, <2>3
  <1> DEFINE v == Further(w, t)
  <1>5. v.at = w.at /\ v.rest = w.rest \o t /\ v.links = w.links
    BY DEF Further
  <1>6. Ahead(v) = Ahead(w)
    BY <1>4, <1>5 DEF Ahead
  <1> HIDE DEF v
  <1>7. Status(f, v) = Status(f, w)
    BY <1>3, <1>5, <1>6 DEF Status
  <1> QED BY <1>3, <1>5, <1>6, <1>7 DEF v

LEMMA FurtherAdvance ==
  ASSUME NEW f \in FileSystems, NEW w, Walking(f, w), NEW t \in Seq(Names),
         Status(f, w) = "going"
  PROVE  Advance(f, Further(w, t)) = Further(Advance(f, w), t)
  <1> DEFINE v == Further(w, t)
             r == w.rest
             left == IF w.own < Len(r) THEN w.own ELSE w.own - 1
             name == Ahead(w)
  <1>1. w \in Walks /\ r \in Seq(Names) /\ r # <<>> /\ w.own \in Nat /\ w.own <= Len(r)
    BY DEF Status, Walking, Walks
  <1>2. /\ Len(r) \in Nat \ {0} /\ Len(t) \in Nat /\ Tail(r) \in Seq(Names)
        /\ Len(r \o t) = Len(r) + Len(t)
    BY <1>1, RestFacts, ConcatProperties
  <1>3. Ahead(v) = name /\ Status(f, v) = "going"
    BY <1>1, FurtherStatus
  <1>4. v.at = w.at /\ v.rest = r \o t /\ v.own = w.own + Len(t) /\ v.links = w.links
    BY DEF Further
  <1>5. Tail(r \o t) = Tail(r) \o t
    BY <1>1, TailOfConcat
  <1>6. (IF v.own < Len(v.rest) THEN v.own ELSE v.own - 1) = left + Len(t)
    <2> HIDE DEF v, r
    <2> QED BY <1>1, <1>2, <1>4
  <1>7. CASE At(f, name).kind = "link"
    <2> DEFINE goal == At(f, name).to
    <2>1. goal \in Seq(Names)
      BY <1>7, ThingFacts, EntryFacts
    <2>2. goal \o (Tail(r) \o t) = (goal \o Tail(r)) \o t
      <3> HIDE DEF goal, r
      <3> QED BY <1>2, <2>1
    <2>3. Advance(f, v) = [at |-> Root, rest |-> goal \o (Tail(r) \o t), own |-> left + Len(t),
                           links |-> w.links + 1]
      <3> HIDE DEF v, left
      <3> QED BY <1>3, <1>4, <1>5, <1>6, <1>7 DEF Advance, Linked
    <2>4. Advance(f, w) = [at |-> Root, rest |-> goal \o Tail(r), own |-> left, links |-> w.links + 1]
      BY <1>7 DEF Advance, Linked
    <2>5. Further(Advance(f, w), t) = [at |-> Root, rest |-> (goal \o Tail(r)) \o t,
                                       own |-> left + Len(t), links |-> w.links + 1]
      <3> HIDE DEF goal, left, r
      <3> QED BY <2>4 DEF Further
    <2> QED BY <2>2, <2>3, <2>5
  <1>8. CASE At(f, name).kind # "link"
    <2>1. Advance(f, v) = [at |-> name, rest |-> Tail(r) \o t, own |-> left + Len(t), links |-> w.links]
      <3> HIDE DEF v, left
      <3> QED BY <1>3, <1>4, <1>5, <1>6, <1>8 DEF Advance, Entered
    <2>2. Advance(f, w) = [at |-> name, rest |-> Tail(r), own |-> left, links |-> w.links]
      BY <1>8 DEF Advance, Entered
    <2>3. Further(Advance(f, w), t) = [at |-> name, rest |-> Tail(r) \o t, own |-> left + Len(t),
                                       links |-> w.links]
      <3> HIDE DEF name, left, r
      <3> QED BY <2>2 DEF Further
    <2> QED BY <2>1, <2>3
  <1> QED BY <1>7, <1>8

\* A longer path is followed as its beginning is.
LEMMA WalkFurther ==
  ASSUME NEW f \in FileSystems, NEW w, Walking(f, w), NEW t \in Seq(Names)
  PROVE  \A n \in Nat : \E m \in Nat : Walk(f, Further(w, t))[m] = Further(Walk(f, w)[n], t)
  <1> DEFINE W(n) == Walk(f, w)[n]
             V(m) == Walk(f, Further(w, t))[m]
             S == {n \in Nat : \E m \in Nat : V(m) = Further(W(n), t)}
  <1>1. 0 \in S
    <2>1. V(0) = Further(W(0), t)
      BY WalkFacts
    <2> HIDE DEF V, W
    <2> QED BY <2>1
  <1>2. ASSUME NEW n \in S PROVE n + 1 \in S
    <2>1. n \in Nat /\ n + 1 \in Nat
      OBVIOUS
    <2>2. PICK m \in Nat : V(m) = Further(W(n), t)
      OBVIOUS
    <2>3. Walking(f, W(n)) /\ W(n + 1) = Advance(f, W(n)) /\ V(m + 1) = Advance(f, V(m))
      BY <2>1, WalkTypes, WalkFacts
    <2> HIDE DEF V, W
    <2>4. CASE Status(f, W(n)) = "going"
      <3>1. V(m + 1) = Further(W(n + 1), t)
        BY <2>2, <2>3, <2>4, FurtherAdvance
      <3> QED BY <2>1, <3>1
    <2>5. CASE Status(f, W(n)) # "going"
      <3>1. W(n + 1) = W(n)
        BY <2>3, <2>5 DEF Advance
      <3> QED BY <2>1, <2>2, <3>1
    <2> QED BY <2>4, <2>5
  <1> HIDE DEF S
  <1>3. \A n \in Nat : n \in S
    BY <1>1, <1>2, Naturals DEF S
  <1> QED BY <1>3 DEF S

LEMMA EvalFurther ==
  ASSUME NEW f \in FileSystems, NEW p \in Seq(Names), NEW t \in Seq(Names)
  PROVE  \E m \in Nat : Walk(f, Begin(p \o t))[m] = Further(Eval(f, p), t)
  <1>1. Begin(p \o t) = Further(Begin(p), t)
    BY ConcatProperties DEF Begin, Further
  <1>2. Len(p) + 2 * LinkLimit \in Nat
    BY PathsAssumption
  <1>3. Walking(f, Begin(p))
    BY BeginWalks
  <1>4. \A n \in Nat : \E m \in Nat :
          Walk(f, Further(Begin(p), t))[m] = Further(Walk(f, Begin(p))[n], t)
    BY <1>3, WalkFurther
  <1> QED BY <1>1, <1>2, <1>4 DEF Eval

\* The same walk after fewer links.
Relinked(w, c) == [at |-> w.at, rest |-> w.rest, own |-> w.own, links |-> c]

LEMMA RelinkedFacts ==
  ASSUME NEW f, NEW w, Walking(f, w), NEW c \in Nat, c <= w.links
  PROVE  /\ Status(f, w) # "loop" => Status(f, Relinked(w, c)) = Status(f, w)
         /\ Status(f, w) = "going" =>
              \E d \in Nat : /\ d <= Advance(f, w).links
                             /\ Advance(f, Relinked(w, c)) = Relinked(Advance(f, w), d)
  <1> DEFINE v == Relinked(w, c)
  <1>1. v.at = w.at /\ v.rest = w.rest /\ v.own = w.own /\ v.links = c
    BY DEF Relinked
  <1>2. Ahead(v) = Ahead(w)
    BY <1>1 DEF Ahead
  <1>3. w.links \in Nat /\ w.links <= LinkLimit
    BY DEF Walking, Walks
  <1> HIDE DEF v
  <1>4. ASSUME Status(f, w) # "loop" PROVE Status(f, v) = Status(f, w)
    <2>1. c = LinkLimit => w.links = LinkLimit
      BY <1>3, PathsAssumption
    <2> QED BY <1>1, <1>2, <1>4, <2>1 DEF Status
  <1>5. ASSUME Status(f, w) = "going"
        PROVE  \E d \in Nat : d <= Advance(f, w).links /\ Advance(f, v) = Relinked(Advance(f, w), d)
    <2>1. Status(f, v) = "going"
      BY <1>4, <1>5
    <2>2. CASE At(f, Ahead(w)).kind = "link"
      <3>1. Advance(f, w) = Linked(f, w) /\ Advance(f, v) = Linked(f, v)
        BY <1>2, <1>5, <2>1, <2>2 DEF Advance
      <3>2. Linked(f, v) = Relinked(Linked(f, w), c + 1) /\ Linked(f, w).links = w.links + 1
        BY <1>1, <1>2 DEF Linked, Relinked
      <3>3. c + 1 \in Nat /\ c + 1 <= w.links + 1
        BY <1>3
      <3> QED BY <3>1, <3>2, <3>3
    <2>3. CASE At(f, Ahead(w)).kind # "link"
      <3>1. Advance(f, w) = Entered(w) /\ Advance(f, v) = Entered(v)
        BY <1>2, <1>5, <2>1, <2>3 DEF Advance
      <3>2. Entered(v) = Relinked(Entered(w), c) /\ Entered(w).links = w.links
        BY <1>1, <1>2 DEF Entered, Relinked
      <3> QED BY <3>1, <3>2
    <2> QED BY <2>2, <2>3
  <1> QED BY <1>4, <1>5 DEF v

\* With more links left to follow a walk goes on as it did.
Follows(f, w, c, n) ==
    \E m \in Nat, d \in Nat :
      /\ d <= Walk(f, w)[n].links
      /\ Walk(f, Relinked(w, c))[m] = Relinked(Walk(f, w)[n], d)

LEMMA WalkRelinked ==
  ASSUME NEW f \in FileSystems, NEW w, Walking(f, w), NEW c \in Nat, c <= w.links
  PROVE  \A n \in Nat : Follows(f, w, c, n)
  <1> DEFINE W(n) == Walk(f, w)[n]
             V(m) == Walk(f, Relinked(w, c))[m]
             S == {n \in Nat : \E m \in Nat, d \in Nat : d <= W(n).links /\ V(m) = Relinked(W(n), d)}
  <1>1. 0 \in S
    <2>1. W(0) = w /\ V(0) = Relinked(w, c)
      BY WalkFacts
    <2> HIDE DEF V, W
    <2> QED BY <2>1
  <1>2. ASSUME NEW n \in S PROVE n + 1 \in S
    <2>1. n \in Nat /\ n + 1 \in Nat
      OBVIOUS
    <2>2. PICK m \in Nat, d \in Nat : d <= W(n).links /\ V(m) = Relinked(W(n), d)
      OBVIOUS
    <2>3. Walking(f, W(n)) /\ W(n + 1) = Advance(f, W(n)) /\ V(m + 1) = Advance(f, V(m))
      BY <2>1, WalkTypes, WalkFacts
    <2> HIDE DEF V, W
    <2>4. CASE Status(f, W(n)) = "going"
      <3>1. PICK e \in Nat : e <= W(n + 1).links /\ V(m + 1) = Relinked(W(n + 1), e)
        BY <2>2, <2>3, <2>4, RelinkedFacts
      <3> QED BY <2>1, <3>1
    <2>5. CASE Status(f, W(n)) # "going"
      <3>1. W(n + 1) = W(n)
        BY <2>3, <2>5 DEF Advance
      <3> QED BY <2>1, <2>2, <3>1
    <2> QED BY <2>4, <2>5
  <1> HIDE DEF S
  <1>3. \A n \in Nat : n \in S
    BY <1>1, <1>2, Naturals DEF S
  <1> QED BY <1>3 DEF S, Follows

\* A walk goes on from where it is.
LEMMA WalkFrom ==
  ASSUME NEW f, NEW w, NEW m \in Nat
  PROVE  \A n \in Nat : Walk(f, w)[m + n] = Walk(f, Walk(f, w)[m])[n]
  <1> DEFINE W(n) == Walk(f, w)[n]
             V(n) == Walk(f, W(m))[n]
             S == {n \in Nat : W(m + n) = V(n)}
  <1>1. 0 \in S
    <2>1. V(0) = W(m) /\ m + 0 = m
      BY WalkFacts
    <2> HIDE DEF V, W
    <2> QED BY <2>1
  <1>2. ASSUME NEW n \in S PROVE n + 1 \in S
    <2>1. n \in Nat /\ m + n \in Nat /\ m + (n + 1) = (m + n) + 1
      OBVIOUS
    <2>2. W((m + n) + 1) = Advance(f, W(m + n)) /\ V(n + 1) = Advance(f, V(n))
      BY <2>1, WalkFacts
    <2>3. W(m + n) = V(n)
      OBVIOUS
    <2> HIDE DEF V, W
    <2> QED BY <2>1, <2>2, <2>3
  <1> HIDE DEF S
  <1>3. \A n \in Nat : n \in S
    BY <1>1, <1>2, Naturals DEF S
  <1> QED BY <1>3 DEF S

\* A path to a real directory ends there.
There(a) == [at |-> a, rest |-> <<>>, own |-> 0, links |-> 0]

LEMMA RealWalk ==
  ASSUME NEW f \in FileSystems, NEW a, Real(f, a)
  PROVE  \E n \in Nat : Walk(f, Begin(a))[n] = There(a)
  <1>1. Walk(f, Begin(a))[0] = Begin(a)
    BY WalkFacts
  <1>2. CASE a = Root
    BY <1>1, <1>2 DEF Begin, There, Root
  <1>3. ASSUME NEW n \in Names, a = <<n>> PROVE Advance(f, Begin(a)) = There(a)
    <2> DEFINE b == Begin(a)
    <2>1. b.at = Root /\ b.rest = <<n>> /\ b.own = 1 /\ b.links = 0
      BY <1>3 DEF Begin
    <2>2. Ahead(b) = <<n>> /\ Tail(b.rest) = <<>> /\ b.rest # <<>> /\ Len(b.rest) = 1
      BY <2>1 DEF Ahead, Root
    <2> HIDE DEF b
    <2>3. Status(f, b) = "going" /\ At(f, Ahead(b)).kind # "link"
      BY <1>3, <2>1, <2>2, ThingFacts DEF Status, Real
    <2>4. Advance(f, b) = [at |-> <<n>>, rest |-> <<>>, own |-> 0, links |-> 0]
      BY <2>1, <2>2, <2>3 DEF Advance, Entered
    <2> QED BY <1>3, <2>4 DEF There, b
  <1>4. ASSUME NEW n \in Names, NEW m \in Names, a = <<n, m>>
        PROVE  Advance(f, Advance(f, Begin(a))) = There(a)
    <2> DEFINE b == Begin(a)
               c == Advance(f, b)
    <2>1. b.at = Root /\ b.rest = <<n, m>> /\ b.own = 2 /\ b.links = 0
      BY <1>4 DEF Begin
    <2>2. Ahead(b) = <<n>> /\ Tail(b.rest) = <<m>> /\ b.rest # <<>> /\ Len(b.rest) = 2
      BY <2>1 DEF Ahead, Root
    <2>3. At(f, <<n>>).kind = "directory" /\ At(f, a).kind \in {"directory", "closed"}
      BY <1>4, InnerFacts DEF Real
    <2> HIDE DEF b
    <2>4. Status(f, b) = "going" /\ At(f, Ahead(b)).kind # "link"
      BY <2>1, <2>2, <2>3, ThingFacts DEF Status
    <2>5. c = [at |-> <<n>>, rest |-> <<m>>, own |-> 1, links |-> 0]
      BY <2>1, <2>2, <2>4 DEF Advance, Entered
    <2> HIDE DEF c
    <2>6. c.at = <<n>> /\ c.rest = <<m>> /\ c.own = 1 /\ c.links = 0
      BY <2>5
    <2>0. Append(<<n>>, m) = <<n, m>>
      <3> DEFINE u == Append(<<n>>, m)
                 v == <<n, m>>
      <3>1. <<n>> \in Seq(Names) /\ Len(<<n>>) = 1 /\ <<n>>[1] = n
        OBVIOUS
      <3>2. u \in Seq(Names) /\ Len(u) = 2 /\ u[1] = n /\ u[2] = m
        BY <3>1, AppendProperties
      <3>3. v \in Seq(Names) /\ Len(v) = 2 /\ v[1] = n /\ v[2] = m
        OBVIOUS
      <3> HIDE DEF u, v
      <3>4. \A i \in 1..Len(u) : u[i] = v[i]
        BY <3>2, <3>3
      <3>5. u = v
        BY <3>2, <3>3, <3>4, SeqEqual
      <3> QED BY <3>5 DEF u, v
    <2>7. Ahead(c) = <<n, m>> /\ Tail(c.rest) = <<>> /\ c.rest # <<>> /\ Len(c.rest) = 1
      BY <2>0, <2>6 DEF Ahead
    <2>8. Status(f, c) = "going" /\ At(f, Ahead(c)).kind # "link"
      BY <1>4, <2>3, <2>6, <2>7 DEF Status
    <2>9. Advance(f, c) = [at |-> <<n, m>>, rest |-> <<>>, own |-> 0, links |-> 0]
      BY <2>6, <2>7, <2>8 DEF Advance, Entered
    <2> QED BY <1>4, <2>9 DEF There, c, b
  <1>5. Walk(f, Begin(a))[0 + 1] = Advance(f, Begin(a))
    BY <1>1, WalkFacts
  <1>6. Walk(f, Begin(a))[1 + 1] = Advance(f, Advance(f, Begin(a)))
    BY <1>5, WalkFacts
  <1>7. CASE \E n \in Names : a = <<n>>
    BY <1>3, <1>5, <1>7
  <1>8. CASE \E n, m \in Names : a = <<n, m>>
    BY <1>4, <1>6, <1>8
  <1> QED BY <1>2, <1>7, <1>8 DEF Real, Entries

Ended(f, p) == Status(f, Eval(f, p))

\* An evaluated path is a walk that has ended.
LEMMA EvalFacts ==
  ASSUME NEW f \in FileSystems, NEW p \in Seq(Names)
  PROVE  LET e == Eval(f, p)
         IN  /\ e = [at |-> e.at, rest |-> e.rest, own |-> e.own, links |-> e.links]
             /\ e \in Walks /\ Real(f, e.at) /\ e.at \in Seq(Names) /\ e.rest \in Seq(Names)
             /\ e.own \in Nat /\ e.own <= Len(e.rest) /\ e.links \in Nat
             /\ Ended(f, p) = "found" <=> e.rest = <<>>
             /\ Ended(f, p) # "going"
  <1> DEFINE e == Eval(f, p)
  <1>1. Walking(f, e) /\ Status(f, e) # "going"
    BY WalkEnds
  <1>2. Ended(f, p) = Status(f, e)
    BY DEF Ended
  <1> HIDE DEF e
  <1>3. e \in Walks /\ Real(f, e.at) /\ e.own <= Len(e.rest)
    BY <1>1 DEF Walking
  <1>4. /\ e = [at |-> e.at, rest |-> e.rest, own |-> e.own, links |-> e.links]
        /\ e.at \in Seq(Names) /\ e.rest \in Seq(Names) /\ e.own \in Nat /\ e.links \in Nat
    BY <1>3 DEF Walks
  <1>5. Status(f, e) = "found" <=> e.rest = <<>>
    BY DEF Status
  <1> QED BY <1>1, <1>2, <1>3, <1>4, <1>5 DEF e

\* A walk with the whole of t to follow.
On(at, t, links) == [at |-> at, rest |-> t, own |-> Len(t), links |-> links]

\* A path that stops at its beginning stops there when it is longer; one that is
\* found goes on from there.
LEMMA Split ==
  ASSUME NEW f \in FileSystems, NEW p \in Seq(Names), NEW t \in Seq(Names)
  PROVE  LET e == Eval(f, p)
         IN  /\ Ended(f, p) # "found" => /\ Eval(f, p \o t) = Further(e, t)
                                         /\ Ended(f, p \o t) = Ended(f, p)
             /\ Ended(f, p) = "found" =>
                  \E m \in Nat : Walk(f, Begin(p \o t))[m] = On(e.at, t, e.links)
  <1> DEFINE e == Eval(f, p)
  <1>1. PICK m \in Nat : Walk(f, Begin(p \o t))[m] = Further(e, t)
    BY EvalFurther
  <1>2. p \o t \in Seq(Names)
    BY ConcatProperties
  <1>3. /\ e \in Walks /\ e.own \in Nat /\ e.own <= Len(e.rest)
        /\ Ended(f, p) = "found" <=> e.rest = <<>>
        /\ Ended(f, p) # "going" /\ Ended(f, p) = Status(f, e)
    BY EvalFacts DEF Ended
  <1> HIDE DEF e
  <1>4. ASSUME Ended(f, p) # "found"
        PROVE  Eval(f, p \o t) = Further(e, t) /\ Ended(f, p \o t) = Ended(f, p)
    <2>1. Status(f, Further(e, t)) = Status(f, e)
      BY <1>3, <1>4, FurtherStatus
    <2>2. Eval(f, p \o t) = Further(e, t)
      BY <1>1, <1>2, <1>3, <2>1, EvalUnique
    <2> QED BY <1>3, <2>1, <2>2 DEF Ended
  <1>5. ASSUME Ended(f, p) = "found" PROVE Further(e, t) = On(e.at, t, e.links)
    <2>1. e.rest = <<>> /\ e.own = 0
      BY <1>3, <1>5
    <2>2. <<>> \o t = t /\ 0 + Len(t) = Len(t)
      BY ConcatEmptySeq
    <2> QED BY <2>1, <2>2 DEF Further, On
  <1> QED BY <1>1, <1>4, <1>5 DEF e

\* What a path is evaluated to is where it ends from any of its steps.
LEMMA EvalFrom ==
  ASSUME NEW f \in FileSystems, NEW p \in Seq(Names), NEW m \in Nat
  PROVE  \E k \in Nat : Walk(f, Walk(f, Begin(p))[m])[k] = Eval(f, p)
  <1> DEFINE N == Len(p) + 2 * LinkLimit
  <1>1. N \in Nat
    BY PathsAssumption
  <1>2. Eval(f, p) = Walk(f, Begin(p))[N] /\ Status(f, Walk(f, Begin(p))[N]) # "going"
    BY WalkEnds DEF Eval
  <1> HIDE DEF N
  <1>3. m + N \in Nat /\ N <= m + N
    BY <1>1
  <1>4. Walk(f, Begin(p))[m + N] = Eval(f, p)
    BY <1>1, <1>2, <1>3, EndStays
  <1>5. Walk(f, Begin(p))[m + N] = Walk(f, Walk(f, Begin(p))[m])[N]
    BY <1>1, WalkFrom
  <1> QED BY <1>1, <1>4, <1>5

\* No name of the path is left on a walk that has followed the last one.
LEMMA OwnStays ==
  ASSUME NEW f \in FileSystems, NEW w, Walking(f, w), w.own = 0
  PROVE  \A n \in Nat : Walk(f, w)[n].own = 0
  <1> DEFINE W(n) == Walk(f, w)[n]
             S == {n \in Nat : W(n).own = 0}
  <1>1. 0 \in S
    BY WalkFacts
  <1>2. ASSUME NEW n \in S PROVE n + 1 \in S
    <2>1. n \in Nat /\ n + 1 \in Nat /\ W(n).own = 0
      OBVIOUS
    <2>2. Walking(f, W(n)) /\ W(n + 1) = Advance(f, W(n))
      BY <2>1, WalkTypes, WalkFacts
    <2> DEFINE v == W(n)
    <2>3. v.rest \in Seq(Names) /\ v.own = 0
      BY <2>1, <2>2 DEF Walking, Walks
    <2> SUFFICES W(n + 1).own = 0
      BY <2>1
    <2> HIDE DEF v
    <2>4. CASE Status(f, v) = "going"
      <3>1. v.rest # <<>>
        BY <2>4 DEF Status
      <3>2. v.own < Len(v.rest)
        BY <2>3, <3>1, RestFacts
      <3>3. Advance(f, v).own = 0
        BY <2>3, <2>4, <3>2 DEF Advance, Linked, Entered
      <3> QED BY <2>2, <3>3 DEF v
    <2>5. CASE Status(f, v) # "going"
      <3>1. Advance(f, v) = v
        BY <2>5 DEF Advance
      <3> QED BY <2>2, <2>3, <3>1 DEF v
    <2> QED BY <2>4, <2>5
  <1> HIDE DEF S
  <1>3. \A n \in Nat : n \in S
    BY <1>1, <1>2, Naturals DEF S
  <1> QED BY <1>3 DEF S

-----------------------------------------------------------------------------
(* canonicalPath and os.MkdirAll. *)

FirstNames(p, i) == SubSeq(p, 1, i)
Left(p, i) == SubSeq(p, i + 1, Len(p))

LEMMA PartFacts ==
  ASSUME NEW p \in Seq(Names), NEW i \in 0..Len(p)
  PROVE  /\ FirstNames(p, i) \in Seq(Names) /\ Left(p, i) \in Seq(Names)
         /\ Len(Left(p, i)) = Len(p) - i
         /\ FirstNames(p, i) \o Left(p, i) = p
         /\ i = 0 => FirstNames(p, i) = <<>>
         /\ i = Len(p) => FirstNames(p, i) = p /\ Left(p, i) = <<>>
         /\ i < Len(p) => /\ p[i + 1] \in Names
                          /\ FirstNames(p, i + 1) = FirstNames(p, i) \o <<p[i + 1]>>
                          /\ Left(p, i) = <<p[i + 1]>> \o Left(p, i + 1)
  <1>1. Len(p) \in Nat /\ \A j \in 1..Len(p) : p[j] \in Names
    OBVIOUS
  <1>2. FirstNames(p, i) \in Seq(Names)
    BY <1>1, SubSeqProperties DEF FirstNames
  <1>3. Left(p, i) \in Seq(Names) /\ Len(Left(p, i)) = Len(p) - i
    <2>1. \A j \in (i + 1)..Len(p) : p[j] \in Names
      BY <1>1
    <2>2. /\ SubSeq(p, i + 1, Len(p)) \in Seq(Names)
          /\ Len(SubSeq(p, i + 1, Len(p))) = IF i + 1 <= Len(p) THEN Len(p) - (i + 1) + 1 ELSE 0
      BY <1>1, <2>1, SubSeqProperties
    <2> HIDE DEF Left
    <2>3. (IF i + 1 <= Len(p) THEN Len(p) - (i + 1) + 1 ELSE 0) = Len(p) - i
      BY <1>1
    <2> QED BY <2>2, <2>3 DEF Left
  <1>4. FirstNames(p, i) \o Left(p, i) = p
    <2>1. SubSeq(p, 1, i) \o SubSeq(p, i + 1, Len(p)) = SubSeq(p, 1, Len(p))
      <3>1. 1 \in 1..(Len(p) + 1) /\ i \in (1 - 1)..Len(p) /\ Len(p) \in i..Len(p)
        BY <1>1
      <3> QED BY <3>1, ConcatAdjacentSubSeq
    <2>2. SubSeq(p, 1, Len(p)) = p
      BY SubSeqFull
    <2> QED BY <2>1, <2>2 DEF FirstNames, Left
  <1>5. i = 0 => FirstNames(p, i) = <<>>
    BY SubSeqEmpty DEF FirstNames
  <1>6. i = Len(p) => FirstNames(p, i) = p /\ Left(p, i) = <<>>
    <2>1. Len(p) + 1 \in Int /\ Len(p) < Len(p) + 1
      BY <1>1
    <2> QED BY <1>1, <2>1, SubSeqFull, SubSeqEmpty DEF FirstNames, Left
  <1>7. ASSUME i < Len(p)
        PROVE  /\ p[i + 1] \in Names
               /\ FirstNames(p, i + 1) = FirstNames(p, i) \o <<p[i + 1]>>
               /\ Left(p, i) = <<p[i + 1]>> \o Left(p, i + 1)
    <2>1. i + 1 \in 1..Len(p) /\ (i + 1) - 1 = i
      BY <1>1, <1>7
    <2>2. SubSeq(p, 1, i + 1) = SubSeq(p, 1, (i + 1) - 1) \o <<p[i + 1]>>
      BY <1>1, <2>1, SubSeqRecursiveSecond
    <2>3. SubSeq(p, i + 1, Len(p)) = <<p[i + 1]>> \o SubSeq(p, (i + 1) + 1, Len(p))
      BY <1>1, <2>1, SubSeqRecursiveFirst
    <2> QED BY <1>1, <2>1, <2>2, <2>3 DEF FirstNames, Left
  <1> QED BY <1>2, <1>3, <1>4, <1>5, <1>6, <1>7

LEMMA RootFound == ASSUME NEW f \in FileSystems PROVE Ended(f, <<>>) = "found"
  <1>1. <<>> \in Seq(Names) /\ Walk(f, Begin(<<>>))[0] = Begin(<<>>)
    BY WalkFacts
  <1>2. Status(f, Begin(<<>>)) = "found"
    BY DEF Status, Begin
  <1>3. Eval(f, <<>>) = Begin(<<>>)
    BY <1>1, <1>2, EvalUnique
  <1> QED BY <1>2, <1>3 DEF Ended

\* There is an ancestor that is not missing, the root if no other.
LEMMA AncestorFacts ==
  ASSUME NEW f \in FileSystems, NEW p \in Seq(Names)
  PROVE  /\ Ancestor(f, p) \in 0..Len(p)
         /\ Ended(f, FirstNames(p, Ancestor(f, p))) # "missing"
         /\ \A j \in (Ancestor(f, p) + 1)..Len(p) : Ended(f, FirstNames(p, j)) = "missing"
  <1> DEFINE missing(i) == Ended(f, FirstNames(p, i)) = "missing"
             S == {n \in Nat : \E i \in 0..n : ~missing(i) /\ \A j \in (i + 1)..n : missing(j)}
  <1>1. 0 \in S
    <2>1. FirstNames(p, 0) = <<>>
      BY SubSeqEmpty DEF FirstNames
    <2>2. ~missing(0)
      BY <2>1, RootFound
    <2> HIDE DEF missing
    <2>3. 0 \in 0..0 /\ \A j \in (0 + 1)..0 : missing(j)
      OBVIOUS
    <2> QED BY <2>2, <2>3
  <1>2. ASSUME NEW n \in S PROVE n + 1 \in S
    <2>1. n \in Nat /\ n + 1 \in Nat
      OBVIOUS
    <2>2. PICK i \in 0..n : ~missing(i) /\ \A j \in (i + 1)..n : missing(j)
      OBVIOUS
    <2> HIDE DEF missing
    <2>3. CASE missing(n + 1)
      <3>1. i \in 0..(n + 1) /\ \A j \in (i + 1)..(n + 1) : missing(j)
        BY <2>1, <2>2, <2>3
      <3> QED BY <2>1, <2>2, <3>1
    <2>4. CASE ~missing(n + 1)
      <3>1. n + 1 \in 0..(n + 1) /\ \A j \in ((n + 1) + 1)..(n + 1) : missing(j)
        BY <2>1
      <3> QED BY <2>1, <2>4, <3>1
    <2> QED BY <2>3, <2>4
  <1>3. Len(p) \in S
    <2> HIDE DEF S
    <2>1. \A n \in Nat : n \in S
      BY <1>1, <1>2, Naturals DEF S
    <2> QED BY <2>1
  <1>4. Ancestor(f, p) = CHOOSE i \in 0..Len(p) : ~missing(i) /\ \A j \in (i + 1)..Len(p) : missing(j)
    BY DEF Ancestor, Ended, FirstNames
  <1> HIDE DEF missing
  <1>5. \E i \in 0..Len(p) : ~missing(i) /\ \A j \in (i + 1)..Len(p) : missing(j)
    BY <1>3
  <1>6. /\ Ancestor(f, p) \in 0..Len(p)
        /\ ~missing(Ancestor(f, p)) /\ \A j \in (Ancestor(f, p) + 1)..Len(p) : missing(j)
    BY <1>4, <1>5
  <1> QED BY <1>6 DEF missing

\* Some of a path has yet to be made: the walk comes to where its ancestor is and
\* has the rest to follow.  The path is missing, and when no link hides that
\* (MkdirAll succeeds) it is missing right there.
LEMMA MissingFacts ==
  ASSUME NEW f \in FileSystems, NEW p \in Seq(Names), Ancestor(f, p) < Len(p)
  PROVE  LET i == Ancestor(f, p)
             e == Eval(f, FirstNames(p, i))
         IN  /\ Ended(f, FirstNames(p, i)) = "found"
             /\ Ended(f, p) = "missing"
             /\ \E m \in Nat : Walk(f, Begin(p))[m] = On(e.at, Left(p, i), e.links)
             /\ MkdirAll(f, p).ok => MkdirAll(f, p).at = e.at \o Left(p, i)
  <1> DEFINE i == Ancestor(f, p)
             a == FirstNames(p, i)
             t == Left(p, i)
             e == Eval(f, a)
             n == p[i + 1]
             q == FirstNames(p, i + 1)
             r == Left(p, i + 1)
             z == Eval(f, q)
  <1>1. Len(p) \in Nat /\ i \in Nat /\ i \in 0..Len(p) /\ i + 1 \in 0..Len(p)
        /\ i + 1 \in (i + 1)..Len(p) /\ Len(p) \in (i + 1)..Len(p)
    BY AncestorFacts
  <1>2. /\ a \in Seq(Names) /\ t \in Seq(Names) /\ a \o t = p
        /\ n \in Names /\ q = a \o <<n>> /\ t = <<n>> \o r
    BY <1>1, PartFacts
  <1>3. q \in Seq(Names) /\ r \in Seq(Names) /\ q \o r = p /\ <<n>> \in Seq(Names)
    <2> HIDE DEF i
    <2>1. q \in Seq(Names) /\ r \in Seq(Names) /\ q \o r = p
      BY <1>1, PartFacts
    <2> HIDE DEF n
    <2>2. <<n>> \in Seq(Names)
      BY <1>2
    <2> QED BY <2>1, <2>2
  <1>4. FirstNames(p, Len(p)) = p
    <2>1. Len(p) \in 0..Len(p)
      BY <1>1
    <2> QED BY <2>1, PartFacts
  <1>5. Ended(f, a) # "missing" /\ Ended(f, q) = "missing" /\ Ended(f, p) = "missing"
    BY <1>1, <1>4, AncestorFacts
  <1> HIDE DEF i, a, t, n, q, r
  <1>6. Ended(f, a) = "found"
    BY <1>2, <1>5, Split
  <1>7. \E m \in Nat : Walk(f, Begin(p))[m] = On(e.at, t, e.links)
    BY <1>2, <1>6, Split
  <1>8. PICK m \in Nat : Walk(f, Begin(q))[m] = On(e.at, <<n>>, e.links)
    BY <1>2, <1>3, <1>6, Split
  <1> DEFINE v == On(e.at, <<n>>, e.links)
  <1>9. Walking(f, v) /\ Walk(f, Begin(q))[m + 1] = Advance(f, v)
    BY <1>3, <1>8, BeginWalks, WalkTypes, WalkFacts
  <1>10. v.at = e.at /\ v.rest = <<n>> /\ v.own = 1 /\ v.links = e.links
    BY DEF On
  <1>11. Further(v, r) = On(e.at, t, e.links)
    <2>1. Len(t) = 1 + Len(r)
      BY <1>2, <1>3, ConcatProperties
    <2> HIDE DEF e
    <2> QED BY <1>2, <1>10, <2>1 DEF Further, On
  <1>12. Eval(f, p) = Further(z, r)
    BY <1>3, <1>5, Split
  <1> HIDE DEF v
  <1>13. CASE Status(f, v) # "going"
    <2>1. z = v
      BY <1>3, <1>8, <1>13, EvalUnique DEF v
    <2>2. Eval(f, p) = On(e.at, t, e.links)
      BY <1>11, <1>12, <2>1
    <2>3. Eval(f, p).at = e.at /\ Eval(f, p).rest = t
      BY <2>2 DEF On
    <2>4. MkdirAll(f, p).ok => MkdirAll(f, p).at = e.at \o t
      <3> HIDE DEF e
      <3> QED BY <2>3 DEF MkdirAll
    <2> QED BY <1>5, <1>6, <1>7, <2>4 DEF i, a, t
  <1>14. CASE Status(f, v) = "going"
    <2> DEFINE x == Advance(f, v)
    <2>1. Len(v.rest) = 1 /\ Tail(v.rest) = <<>>
      BY <1>10
    <2>2. CASE At(f, Ahead(v)).kind # "link"
      <3>1. x = Entered(v)
        BY <1>14, <2>2 DEF Advance
      <3>2. x.rest = <<>>
        BY <2>1, <3>1 DEF Entered
      <3>3. Status(f, x) = "found"
        BY <3>2 DEF Status
      <3>4. z = x
        <4>1. m + 1 \in Nat /\ Status(f, Walk(f, Begin(q))[m + 1]) # "going"
          BY <1>9, <3>3
        <4> QED BY <1>3, <1>9, <4>1, EvalUnique
      <3> QED BY <1>5, <3>3, <3>4 DEF Ended
    <2>3. CASE At(f, Ahead(v)).kind = "link"
      <3>1. x = Linked(f, v)
        BY <1>14, <2>3 DEF Advance
      <3>2. x.own = 0
        BY <1>10, <2>1, <3>1 DEF Linked
      <3>3. Walking(f, x)
        BY <1>9, AdvanceFacts
      <3>4. PICK k \in Nat : Walk(f, x)[k] = z
        <4>1. m + 1 \in Nat
          OBVIOUS
        <4>2. \E k \in Nat : Walk(f, Walk(f, Begin(q))[m + 1])[k] = Eval(f, q)
          BY <1>3, <4>1, EvalFrom
        <4> QED BY <1>9, <4>2
      <3>5. z.own = 0
        BY <3>2, <3>3, <3>4, OwnStays
      <3>6. z.rest \in Seq(Names) /\ z.rest # <<>>
        BY <1>3, <1>5, EvalFacts
      <3>7. Len(z.rest) \in Nat \ {0} /\ Len(r) \in Nat /\ Len(z.rest \o r) = Len(z.rest) + Len(r)
        BY <1>3, <3>6, RestFacts, ConcatProperties
      <3> HIDE DEF z
      <3>8. Eval(f, p).rest = z.rest \o r /\ Eval(f, p).own = Len(r)
        BY <1>12, <3>5, <3>7 DEF Further
      <3>9. ~(Len(Eval(f, p).rest) <= Eval(f, p).own)
        BY <3>7, <3>8
      <3>10. ~MkdirAll(f, p).ok
        BY <1>5, <3>9 DEF MkdirAll, Ended
      <3> QED BY <1>5, <1>6, <1>7, <3>10 DEF i, a, t
    <2> QED BY <2>2, <2>3
  <1> QED BY <1>13, <1>14

\* A path that can be made is canonical where it is made.
LEMMA CanonicalMade ==
  ASSUME NEW f \in FileSystems, NEW p \in Seq(Names), MkdirAll(f, p).ok
  PROVE  /\ Canonical(f, p).ok
         /\ Canonical(f, p).path = MkdirAll(f, p).at
         /\ MkdirAll(f, p).at \in Seq(Names)
  <1> DEFINE i == Ancestor(f, p)
             e == Eval(f, p)
  <1>1. i \in 0..Len(p) /\ Len(p) \in Nat /\ Ended(f, FirstNames(p, i)) # "missing"
    BY AncestorFacts
  <1>2. e.at \in Seq(Names) /\ e.rest \in Seq(Names) /\ (Ended(f, p) = "found" <=> e.rest = <<>>)
    BY EvalFacts
  <1>3. MkdirAll(f, p).at = e.at \o e.rest /\ Ended(f, p) \in {"found", "missing"}
    BY DEF MkdirAll, Ended
  <1>4. MkdirAll(f, p).at \in Seq(Names)
    BY <1>2, <1>3, ConcatProperties
  <1>5. CASE i = Len(p)
    <2>1. FirstNames(p, i) = p /\ Left(p, i) = <<>>
      BY <1>1, <1>5, PartFacts
    <2>2. Ended(f, p) = "found"
      BY <1>1, <1>3, <2>1
    <2>3. Canonical(f, p) = [ok |-> TRUE, path |-> e.at \o <<>>]
      BY <2>1, <2>2 DEF Canonical, Ended, FirstNames, Left
    <2>4. e.rest = <<>>
      BY <1>2, <2>2
    <2> HIDE DEF e
    <2> QED BY <1>3, <1>4, <2>3, <2>4
  <1>6. CASE i < Len(p)
    <2> DEFINE b == Eval(f, FirstNames(p, i))
    <2>1. Ended(f, FirstNames(p, i)) = "found" /\ MkdirAll(f, p).at = b.at \o Left(p, i)
      BY <1>6, MissingFacts
    <2>2. Canonical(f, p) = [ok |-> TRUE, path |-> b.at \o Left(p, i)]
      BY <2>1 DEF Canonical, Ended, FirstNames, Left
    <2> QED BY <1>4, <2>1, <2>2
  <1> QED BY <1>1, <1>5, <1>6

\* A directory that is there is where its path says, and one that is made is made
\* there.
Resolved(f, q) ==
    /\ Ended(f, q) = "found" => Eval(f, q).at = q
    /\ MkdirAll(f, q).ok => MkdirAll(f, q).at = q

\* What canonicalPath returns is resolved, whatever links led to it.
LEMMA CanonicalResolved ==
  ASSUME NEW f \in FileSystems, NEW p \in Seq(Names), Canonical(f, p).ok
  PROVE  Resolved(f, Canonical(f, p).path)
  <1> DEFINE i == Ancestor(f, p)
             a == FirstNames(p, i)
             t == Left(p, i)
             e == Eval(f, a)
             q == Canonical(f, p).path
  <1>1. i \in 0..Len(p) /\ Len(p) \in Nat
    BY AncestorFacts
  <1>2. /\ a \in Seq(Names) /\ t \in Seq(Names)
        /\ i = Len(p) => a = p /\ t = <<>>
    BY <1>1, PartFacts
  <1>3. /\ Ended(f, a) \in {"found", "denied"}
        /\ q = IF Ended(f, a) = "found" THEN e.at \o t ELSE p
    BY DEF Canonical, Ended, FirstNames, Left
  <1>4. /\ Real(f, e.at) /\ e.at \in Seq(Names) /\ e.rest \in Seq(Names) /\ e.links \in Nat
    BY <1>2, EvalFacts
  <1> HIDE DEF i, a, t, e, q
  <1>5. /\ Ended(f, e.at) = "found"
        /\ Eval(f, e.at) = There(e.at)
    <2>1. PICK n \in Nat : Walk(f, Begin(e.at))[n] = There(e.at)
      BY <1>4, RealWalk
    <2>2. Status(f, There(e.at)) = "found"
      BY DEF Status, There
    <2>3. Eval(f, e.at) = There(e.at)
      BY <1>4, <2>1, <2>2, EvalUnique
    <2> QED BY <2>2, <2>3 DEF Ended
  <1>6. There(e.at).at = e.at /\ There(e.at).rest = <<>> /\ There(e.at).links = 0
    BY DEF There
  <1>7. CASE i = Len(p) /\ Ended(f, a) = "denied"
    <2>1. q = p /\ Status(f, Eval(f, p)) = "denied"
      BY <1>2, <1>3, <1>7 DEF Ended
    <2> QED BY <2>1 DEF Resolved, Ended, MkdirAll, q
  <1>8. CASE i = Len(p) /\ Ended(f, a) = "found"
    <2>1. q = e.at
      BY <1>2, <1>3, <1>4, <1>8, ConcatEmptySeq
    <2>2. Eval(f, q).at = q /\ Eval(f, q).rest = <<>> /\ q \o <<>> = q
      BY <1>4, <1>5, <1>6, <2>1, ConcatEmptySeq
    <2>3. MkdirAll(f, q).at = q
      BY <1>5, <2>1, <2>2 DEF MkdirAll, Ended
    <2> QED BY <2>2, <2>3 DEF Resolved, q
  <1>9. CASE i < Len(p)
    <2> DEFINE w == On(e.at, t, e.links)
               z == Eval(f, p)
    <2>1. /\ Ended(f, a) = "found" /\ Ended(f, p) = "missing"
          /\ MkdirAll(f, p).ok => MkdirAll(f, p).at = e.at \o t
      BY <1>9, MissingFacts DEF i, a, t, e
    <2>2. PICK m \in Nat : Walk(f, Begin(p))[m] = w
      BY <1>9, MissingFacts DEF i, a, t, e
    <2>3. q = e.at \o t /\ q \in Seq(Names)
      BY <1>2, <1>3, <1>4, <2>1, ConcatProperties
    <2>4. Walking(f, w)
      BY <2>2, BeginWalks, WalkTypes
    <2>5. PICK k \in Nat : Walk(f, w)[k] = z
      BY <2>2, EvalFrom
    <2>6. PICK n \in Nat : Walk(f, Begin(q))[n] = On(e.at, t, 0)
      BY <1>2, <1>4, <1>5, <1>6, <2>3, Split
    <2>7. Relinked(w, 0) = On(e.at, t, 0) /\ w.links = e.links
      BY DEF Relinked, On
    <2>8. PICK l \in Nat, d \in Nat :
            d <= z.links /\ Walk(f, On(e.at, t, 0))[l] = Relinked(z, d)
      <3>1. PICK c \in Nat : c = 0
        OBVIOUS
      <3>2. c <= w.links
        BY <1>4, <2>7, <3>1
      <3> HIDE DEF w, z
      <3>3. Follows(f, w, c, k)
        BY <2>4, <3>2, WalkRelinked
      <3> QED BY <2>5, <2>7, <3>1, <3>3 DEF Follows
    <2>9. Walking(f, z) /\ Status(f, z) = "missing"
      BY <2>1, WalkEnds DEF Ended
    <2>10. Status(f, Relinked(z, d)) = "missing"
      <3> HIDE DEF z
      <3> QED BY <2>8, <2>9, RelinkedFacts
    <2>11. Eval(f, q) = Relinked(z, d)
      <3>1. n + l \in Nat /\ Walk(f, Begin(q))[n + l] = Relinked(z, d)
        <4>1. Walk(f, Begin(q))[n + l] = Walk(f, Walk(f, Begin(q))[n])[l]
          BY WalkFrom
        <4> QED BY <2>6, <2>8, <4>1
      <3> QED BY <2>3, <2>10, <3>1, EvalUnique
    <2>12. Eval(f, q).at = z.at /\ Eval(f, q).rest = z.rest /\ Eval(f, q).own = z.own
      BY <2>11 DEF Relinked
    <2>13. Ended(f, q) = "missing"
      BY <2>10, <2>11 DEF Ended
    <2>14. MkdirAll(f, q) = MkdirAll(f, p)
      BY <2>1, <2>12, <2>13 DEF MkdirAll, Ended
    <2> QED BY <2>1, <2>3, <2>13, <2>14 DEF Resolved, q
  <1> QED BY <1>1, <1>3, <1>7, <1>8, <1>9

-----------------------------------------------------------------------------
(* Load and CleanStartup. *)

\* Directories that were accepted are resolved and separate; recordings are put
\* into the work directory itself; what was refused was not canonical or not
\* separate.
PathsInv ==
    /\ fs \in FileSystems
    /\ given \in [work : Entries, models : Entries \cup {Root}]
    /\ place \in {"load", "refused", "accepted", "made", "failed"}
    /\ place \in {"accepted", "made"} =>
         Resolved(fs, work) /\ Resolved(fs, models) /\ Separate(work, models)
    /\ place = "made" => audio = work
    /\ place = "refused" =>
         LET w == Canonical(fs, given.work)
             m == Canonical(fs, given.models)
         IN  ~(w.ok /\ m.ok /\ Separate(w.path, m.path))

LEMMA GivenFacts ==
  ASSUME given \in [work : Entries, models : Entries \cup {Root}]
  PROVE  given.work \in Seq(Names) /\ given.models \in Seq(Names)
  <1>1. \A p \in Entries : p \in Seq(Names)
    BY EntryFacts
  <1>2. Root \in Seq(Names)
    BY DEF Root
  <1> QED BY <1>1, <1>2

LEMMA PathsStep == PathsInv /\ [PathsNext]_pathVars => PathsInv'
  <1> SUFFICES ASSUME PathsInv, [PathsNext]_pathVars PROVE PathsInv'
    OBVIOUS
  <1>1. CASE Load
    <2> DEFINE w == Canonical(fs, given.work)
               m == Canonical(fs, given.models)
    <2>1. place = "load" /\ UNCHANGED <<fs, given, audio>> /\ fs \in FileSystems
          /\ given \in [work : Entries, models : Entries \cup {Root}]
      BY <1>1 DEF Load, PathsInv
    <2>2. given.work \in Seq(Names) /\ given.models \in Seq(Names)
      BY <2>1, GivenFacts
    <2>3. CASE w.ok /\ m.ok /\ Separate(w.path, m.path)
      <3>1. place' = "accepted" /\ work' = w.path /\ models' = m.path
        BY <1>1, <2>3 DEF Load
      <3>2. Resolved(fs, w.path) /\ Resolved(fs, m.path)
        BY <2>1, <2>2, <2>3, CanonicalResolved
      <3> HIDE DEF w, m
      <3> QED BY <2>1, <2>3, <3>1, <3>2 DEF PathsInv
    <2>4. CASE ~(w.ok /\ m.ok /\ Separate(w.path, m.path))
      <3>1. place' = "refused"
        BY <1>1, <2>4 DEF Load
      <3> QED BY <2>1, <2>4, <3>1 DEF PathsInv
    <2> QED BY <2>3, <2>4
  <1>2. CASE MakeWorkDir
    <2>1. /\ place = "accepted" /\ UNCHANGED <<fs, given, work, models>>
          /\ place' = (IF MkdirAll(fs, work).ok THEN "made" ELSE "failed")
          /\ audio' = MkdirAll(fs, work).at
      BY <1>2 DEF MakeWorkDir
    <2>2. Resolved(fs, work) /\ Resolved(fs, models) /\ Separate(work, models)
      BY <2>1 DEF PathsInv
    <2>3. place' = "made" => audio' = work
      BY <2>1, <2>2 DEF Resolved
    <2> QED BY <2>1, <2>2, <2>3 DEF PathsInv
  <1>3. CASE UNCHANGED pathVars
    BY <1>3 DEF pathVars, PathsInv
  <1> QED BY <1>1, <1>2, <1>3 DEF PathsNext

\* Whatever links name the two directories and however much of them has yet to
\* be made, Load accepts resolved directories that are apart (config.Load,
\* CleanStartup).
THEOREM PathsInvariance == PathsSpec => []PathsInv
  <1>1. PathsInit => PathsInv
    BY DEF PathsInit, PathsInv
  <1> QED BY <1>1, PathsStep, PTL DEF PathsSpec

\* Recordings are never put into the directory that the models are read from, nor
\* above it, in any file system.
THEOREM ModelsApart == PathsSpec => []AudioOutsideModels
  <1>1. PathsInv => AudioOutsideModels
    <2> SUFFICES ASSUME PathsInv, place = "made", Ended(fs, models) = "found"
                 PROVE  Apart(audio, Eval(fs, models).at)
      BY DEF AudioOutsideModels, Ended
    <2>1. audio = work /\ Resolved(fs, models) /\ Separate(work, models)
      BY DEF PathsInv
    <2>2. Eval(fs, models).at = models
      BY <2>1 DEF Resolved
    <2>3. Apart(work, models)
      BY <2>1 DEF Apart, Separate, Within
    <2> QED BY <2>1, <2>2, <2>3
  <1> QED BY <1>1, PathsInvariance, PTL

\* Two directories that can be made, and are separate in fact, are not refused.
THEOREM SeparateNotRefused == PathsSpec => []SeparateAccepted
  <1>1. PathsInv => SeparateAccepted
    <2> DEFINE w == MkdirAll(fs, given.work)
               m == MkdirAll(fs, given.models)
    <2> SUFFICES ASSUME PathsInv, w.ok, m.ok, Apart(w.at, m.at), place = "refused"
                 PROVE  FALSE
      BY DEF SeparateAccepted
    <2>1. given.work \in Seq(Names) /\ given.models \in Seq(Names) /\ fs \in FileSystems
      BY GivenFacts DEF PathsInv
    <2>2. /\ Canonical(fs, given.work).ok /\ Canonical(fs, given.work).path = w.at
          /\ Canonical(fs, given.models).ok /\ Canonical(fs, given.models).path = m.at
          /\ w.at \in Seq(Names) /\ m.at \in Seq(Names)
      BY <2>1, CanonicalMade
    <2>3. ~Separate(w.at, m.at)
      BY <2>2 DEF PathsInv
    <2> HIDE DEF w, m
    <2>4. ASSUME NEW s \in Seq(Names), NEW u \in Seq(Names), Apart(s, u)
          PROVE  Separate(s, u)
      <3>1. \A x \in Seq(Names) : IsPrefix(x, x) /\ IsPrefix(Root, x)
        <4> SUFFICES ASSUME NEW x \in Seq(Names) PROVE IsPrefix(x, x) /\ IsPrefix(Root, x)
          OBVIOUS
        <4>1. Len(x) \in Nat /\ SubSeq(x, 1, Len(x)) = SubSeq(x, 1, Len(x))
          OBVIOUS
        <4>2. Len(Root) = 0 /\ SubSeq(Root, 1, 0) = <<>> /\ SubSeq(x, 1, 0) = <<>>
          BY SubSeqEmpty DEF Root
        <4> QED BY <4>1, <4>2 DEF IsPrefix
      <3>2. s # Root /\ u # Root /\ s # u
        BY <2>4, <3>1 DEF Apart
      <3> QED BY <2>4, <3>2 DEF Apart, Separate, Within
    <2> QED BY <2>2, <2>3, <2>4
  <1> QED BY <1>1, PathsInvariance, PTL
=============================================================================
