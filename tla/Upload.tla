-------------------------------- MODULE Upload --------------------------------
(***************************************************************************)
(* How one multipart body becomes source.bin and a response format, or a   *)
(* refusal (internal/api/upload.go).  The client's parts arrive in any     *)
(* order; the connection, its read deadline and the disk can fail between  *)
(* any two reads.  Sizes are in units of the bounds below.                 *)
(*                                                                         *)
(* A part is [name, attached, size, value]: attached says that it has a    *)
(* file name, and value is "good" for the one value, or one of the values, *)
(* that validateFields accepts for its name.  A request with a query, or   *)
(* without a multipart body, is refused before any of this.                *)
(***************************************************************************)
EXTENDS Naturals, Sequences

CONSTANTS MaxFile,    \* config.MaxFile
          Framing,    \* what the body may hold besides the file (1 MiB)
          TextLimit,  \* the longest text field (4096)
          MaxParts    \* bound: parts in a body

ASSUME SizesAssumption ==
    /\ MaxFile \in Nat \ {0} /\ Framing \in Nat \ {0}
    /\ TextLimit \in Nat /\ MaxParts \in Nat

VARIABLES
    body,    \* the parts the client sends
    framing, \* the size of everything around them
    next,    \* the part being read
    step,    \* "part", "file", "text" or "done"
    unread,  \* what is left of the part
    taken,   \* what MaxBytesReader has let through
    seen,    \* the names of the parts so far
    fields,  \* the text fields: "absent", "good" or "bad"
    stored,  \* the size of source.bin
    code,    \* the outcome, "none" while there is none
    fault    \* the connection or the disk has failed

offer == <<body, framing>>
vars == <<offer, next, step, unread, taken, seen, fields, stored, code, fault>>

TextNames == {"model", "language", "response_format", "stream"}

\* Every kind of part that the code tells apart.
Parts ==
    [name : {"file"}, attached : {TRUE}, size : 0..(MaxFile + 2), value : {"good"}]
    \cup [name : {"file"}, attached : {FALSE}, size : {1}, value : {"good"}]
    \cup [name : TextNames, attached : {FALSE}, size : {TextLimit}, value : {"good", "bad"}]
    \cup [name : TextNames, attached : {FALSE}, size : {TextLimit + 1}, value : {"good"}]
    \cup [name : {"model", "other"}, attached : BOOLEAN, size : {TextLimit}, value : {"good"}]

Limit == MaxFile + Framing

Outcomes ==
    {"none", "ok", "unsupported_parameter", "duplicate_parameter",
     "invalid_file", "invalid_parameter", "file_too_large", "empty_file",
     "storage_unavailable", "upload_timeout", "invalid_upload", "missing_file",
     "missing_model", "invalid_value"}

TypeOK ==
    /\ next \in 1..(Len(body) + 1)
    /\ step \in {"part", "file", "text", "done"}
    /\ unread \in Nat
    /\ taken \in 0..Limit
    /\ seen \subseteq TextNames \cup {"file"}
    /\ fields \in [TextNames -> {"absent", "good", "bad"}]
    /\ stored \in Nat
    /\ code \in Outcomes
    /\ fault \in BOOLEAN

Init ==
    /\ body \in UNION {[1..n -> Parts] : n \in 0..MaxParts}
    /\ framing \in {0, Framing}
    /\ next = 1
    /\ step = "part"
    /\ unread = 0
    /\ taken = framing
    /\ seen = {}
    /\ fields = [n \in TextNames |-> "absent"]
    /\ stored = 0
    /\ code = "none"
    /\ fault = FALSE

Part == body[next]

End(outcome) ==
    /\ step' = "done"
    /\ code' = outcome
    /\ UNCHANGED <<offer, next, unread, taken, seen, fields, stored>>

Refuse(outcome) == End(outcome) /\ UNCHANGED fault

\* One unit of the part is read.
Take ==
    /\ taken < Limit
    /\ unread' = unread - 1
    /\ taken' = taken + 1
    /\ UNCHANGED <<offer, next, step, seen, fields, code, fault>>

-----------------------------------------------------------------------------
(* The parts. *)

AtPart == step = "part" /\ next <= Len(body)

\* Mutant: a field may come twice.
NeverDuplicate == FALSE

Duplicate == Part.name \in seen

RefusePart ==
    /\ AtPart
    /\ \/ Duplicate /\ Refuse("duplicate_parameter")
       \/ /\ ~Duplicate
          /\ \/ Part.name = "file" /\ ~Part.attached /\ Refuse("invalid_file")
             \/ Part.name = "other" /\ Refuse("unsupported_parameter")
             \/ Part.name \in TextNames /\ Part.attached /\ Refuse("invalid_parameter")

BeginPart ==
    /\ AtPart /\ ~Duplicate
    /\ \/ Part.name = "file" /\ Part.attached /\ step' = "file"
       \/ Part.name \in TextNames /\ ~Part.attached /\ step' = "text"
    /\ seen' = seen \cup {Part.name}
    /\ unread' = Part.size
    /\ UNCHANGED <<offer, next, taken, fields, stored, code, fault>>

\* Reading on, and the part's Close, after the part is complete.
NextPart ==
    /\ next' = next + 1
    /\ step' = "part"
    /\ UNCHANGED <<offer, unread, taken, seen, stored, code, fault>>

-----------------------------------------------------------------------------
(* saveUpload. *)

\* Mutant: the copy stops at the limit.
CopyLimitExact == MaxFile

\* One more than is allowed, so that an oversized file is noticed.
CopyLimit == MaxFile + 1

Copy ==
    /\ step = "file" /\ unread > 0 /\ stored < CopyLimit
    /\ Take
    /\ stored' = stored + 1

Copied == step = "file" /\ (unread = 0 \/ stored = CopyLimit)

RefuseFile ==
    /\ Copied
    /\ \/ stored > MaxFile /\ Refuse("file_too_large")
       \/ stored = 0 /\ Refuse("empty_file")

KeepFile ==
    /\ Copied /\ stored \in 1..MaxFile
    /\ NextPart
    /\ UNCHANGED fields

\* Opening, writing or closing source.bin fails.
DiskFails ==
    /\ step = "file" /\ stored <= MaxFile
    /\ End("storage_unavailable")
    /\ fault' = TRUE

-----------------------------------------------------------------------------
(* Text fields. *)

Got == Part.size - unread

More == unread > 0 /\ Got <= TextLimit

ReadText == step = "text" /\ More /\ Take /\ UNCHANGED stored

RefuseText == step = "text" /\ Got > TextLimit /\ Refuse("invalid_parameter")

KeepText ==
    /\ step = "text" /\ unread = 0 /\ Got <= TextLimit
    /\ fields' = [fields EXCEPT ![Part.name] = Part.value]
    /\ NextPart

-----------------------------------------------------------------------------
(* Reads that fail, and the end of the body. *)

\* The body is larger than the file limit and the framing together.
BodyTooLarge ==
    /\ taken = Limit
    /\ \/ step = "file" /\ unread > 0 /\ stored < CopyLimit
       \/ step = "text" /\ More
    /\ Refuse("file_too_large")

\* The read deadline passes, the client is lost or the framing is malformed.
ReadFails ==
    /\ step \in {"part", "file", "text"}
    /\ step = "file" => stored <= MaxFile
    /\ \E outcome \in {"upload_timeout", "invalid_upload"} : End(outcome)
    /\ fault' = TRUE

\* validateFields.
Validation ==
    IF "file" \notin seen THEN "missing_file"
    ELSE IF fields["model"] = "absent" THEN "missing_model"
    ELSE IF \E n \in TextNames : fields[n] = "bad" THEN "invalid_value"
    ELSE "ok"

EndOfBody ==
    /\ step = "part" /\ next = Len(body) + 1
    /\ Refuse(Validation)

Answered == step = "done" /\ UNCHANGED vars

Next ==
    \/ RefusePart \/ BeginPart
    \/ Copy \/ RefuseFile \/ KeepFile \/ DiskFails
    \/ ReadText \/ RefuseText \/ KeepText
    \/ BodyTooLarge \/ ReadFails \/ EndOfBody \/ Answered

Spec == Init /\ [][Next]_vars

-----------------------------------------------------------------------------
(* What the API promises, of the whole request and without an order. *)

Named(n) == {i \in DOMAIN body : body[i].name = n}

\* sum is what the body holds up to each of its parts.
AddsUp(sum) ==
    sum[0] = framing /\ \A i \in 1..Len(body) : sum[i] = sum[i - 1] + body[i].size

Fits == \E sum \in [0..Len(body) -> 0..Limit] : AddsUp(sum)

ValidRequest ==
    /\ \E i \in DOMAIN body :
          /\ Named("file") = {i}
          /\ body[i].attached
          /\ body[i].size \in 1..MaxFile
    /\ Named("other") = {} /\ Named("model") # {}
    /\ \A n \in TextNames : \A i \in Named(n) :
          /\ Named(n) = {i}
          /\ ~body[i].attached
          /\ body[i].size <= TextLimit
          /\ body[i].value = "good"
    /\ Fits

\* A request is processed exactly if it is valid as a whole, in whatever order
\* its parts come; only a failing connection or disk refuses a valid one.
OnlyValidProcessed ==
    step = "done" =>
        /\ code = "ok" => ValidRequest /\ ~fault
        /\ ValidRequest /\ ~fault => code = "ok"

\* What is given to FFmpeg is the client's whole file, never a cut one.
StoredWhole ==
    code = "ok" => \A i \in Named("file") : stored = body[i].size
=============================================================================
