-------------------------------- MODULE Paths --------------------------------
(***************************************************************************)
(* Where recordings are put: config.Load resolves GIGAAM_WORK_DIR and      *)
(* GIGAAM_MODEL_DIR with canonicalPath and refuses directories that lie in *)
(* one another (internal/config/config.go); CleanStartup makes the work    *)
(* directory (internal/api/storage.go).  Paths are sequences of names from *)
(* the root.  The file system is external and does not change meanwhile.   *)
(***************************************************************************)
EXTENDS Integers, Sequences, SequencesExt

CONSTANTS Names,    \* of directory entries
          LinkLimit \* links that are followed before it is a loop

ASSUME PathsAssumption == LinkLimit \in Nat

VARIABLES
    fs,     \* what is at each path of one or two names
    given,  \* GIGAAM_WORK_DIR and GIGAAM_MODEL_DIR
    work,   \* c.WorkDir
    models, \* c.ModelDir
    place,  \* "load", "refused", "accepted", "made" or "failed"
    audio   \* the directory that recordings are put in

pathVars == <<fs, given, work, models, place, audio>>

Root == <<>>
Entries == {<<n>> : n \in Names} \cup {<<n, m>> : n, m \in Names}

\* A directory that may not be searched is closed; what is in it is not seen.
Thing(kind) == [kind |-> kind, to |-> Root]
Link(p) == [kind |-> "link", to |-> p]
TopThings == {Thing("none"), Thing("directory"), Thing("closed")} \cup {Link(p) : p \in Entries}
Things == {Thing("none"), Thing("directory")} \cup {Link(p) : p \in Entries}

FileSystems ==
    {f \in [Entries -> TopThings] :
        \A n, m \in Names :
          /\ f[<<n, m>>] \in Things
          /\ f[<<n>>].kind # "directory" => f[<<n, m>>] = Thing("none")}

At(f, p) == IF p = Root THEN Thing("directory")
            ELSE IF p \in Entries THEN f[p] ELSE Thing("none")

-----------------------------------------------------------------------------
(* A file system f, as filepath.EvalSymlinks and mkdir see it.  A walk is  *)
(* at a directory with the rest of a path to follow; the last own names of *)
(* the rest are of the path itself and not of a link.                      *)

Begin(p) == [at |-> Root, rest |-> p, own |-> Len(p), links |-> 0]

Ahead(w) == Append(w.at, Head(w.rest))

Status(f, w) ==
    IF w.rest = <<>> THEN "found"
    ELSE IF At(f, w.at).kind = "closed" THEN "denied"
    ELSE IF At(f, Ahead(w)).kind = "none" THEN "missing"
    ELSE IF At(f, Ahead(w)).kind = "link" /\ w.links = LinkLimit THEN "loop"
    ELSE "going"

Linked(f, w) ==
    [at |-> Root, rest |-> At(f, Ahead(w)).to \o Tail(w.rest),
     own |-> IF w.own < Len(w.rest) THEN w.own ELSE w.own - 1, links |-> w.links + 1]

Entered(w) ==
    [at |-> Ahead(w), rest |-> Tail(w.rest),
     own |-> IF w.own < Len(w.rest) THEN w.own ELSE w.own - 1, links |-> w.links]

Advance(f, w) ==
    IF Status(f, w) # "going" THEN w
    ELSE IF At(f, Ahead(w)).kind = "link" THEN Linked(f, w) ELSE Entered(w)

Walk(f, w) ==
    LET walk[n \in Nat] == IF n = 0 THEN w ELSE Advance(f, walk[n - 1])
    IN  walk

\* Where the walk of a path ends: a link adds at most two names to follow.
Eval(f, p) == Walk(f, Begin(p))[Len(p) + 2 * LinkLimit]

\* os.MkdirAll makes what is missing of a path, unless a link points there.
MkdirAll(f, p) ==
    LET e == Eval(f, p)
        own == Len(e.rest) <= e.own
    IN  IF Status(f, e) = "found" \/ (Status(f, e) = "missing" /\ own)
        THEN [ok |-> TRUE, at |-> e.at \o e.rest] ELSE [ok |-> FALSE, at |-> Root]

-----------------------------------------------------------------------------
(* canonicalPath and Load. *)

\* Mutant: only a directory that exists is resolved.
CanonicalExisting(f, p) ==
    LET e == Eval(f, p)
        status == Status(f, e)
    IN  [ok |-> status # "loop", path |-> IF status = "found" THEN e.at ELSE p]

\* Mutant: a directory that does not exist yet is refused.
CanonicalStrict(f, p) ==
    LET e == Eval(f, p)
        status == Status(f, e)
    IN  [ok |-> status \in {"found", "denied"}, path |-> IF status = "found" THEN e.at ELSE p]

\* The longest ancestor of a path that is not missing.
Ancestor(f, p) ==
    LET missing(i) == Status(f, Eval(f, SubSeq(p, 1, i))) = "missing"
    IN  CHOOSE i \in 0..Len(p) : ~missing(i) /\ \A j \in (i + 1)..Len(p) : missing(j)

\* The path with that ancestor resolved; as it is when something on the way may
\* not be searched.
Canonical(f, p) ==
    LET i == Ancestor(f, p)
        e == Eval(f, SubSeq(p, 1, i))
        status == Status(f, e)
    IN  [ok |-> status \in {"found", "denied"},
         path |-> IF status = "found" THEN e.at \o SubSeq(p, i + 1, Len(p)) ELSE p]

\* The comparison of strings: a root's path is not followed by a separator.
Within(a, b) == a = b \/ (a # Root /\ IsPrefix(a, b))

Separate(w, m) == w # Root /\ m # Root /\ ~Within(w, m) /\ ~Within(m, w)

PathsInit ==
    /\ fs \in FileSystems
    /\ given \in [work : Entries, models : Entries \cup {Root}]
    /\ work = Root /\ models = Root
    /\ place = "load"
    /\ audio = Root

Load ==
    /\ place = "load"
    /\ LET w == Canonical(fs, given.work)
           m == Canonical(fs, given.models)
       IN  IF w.ok /\ m.ok /\ Separate(w.path, m.path)
           THEN place' = "accepted" /\ work' = w.path /\ models' = m.path
           ELSE place' = "refused" /\ UNCHANGED <<work, models>>
    /\ UNCHANGED <<fs, given, audio>>

\* CleanStartup; a work directory that cannot be made leaves the service
\* unavailable.
MakeWorkDir ==
    /\ place = "accepted"
    /\ place' = IF MkdirAll(fs, work).ok THEN "made" ELSE "failed"
    /\ audio' = MkdirAll(fs, work).at
    /\ UNCHANGED <<fs, given, work, models>>

PathsNext == Load \/ MakeWorkDir

PathsSpec == PathsInit /\ [][PathsNext]_pathVars
-----------------------------------------------------------------------------
(* Properties. *)

Apart(p, q) == ~IsPrefix(p, q) /\ ~IsPrefix(q, p)

\* Recordings are never put into the directory that the models are read from,
\* nor above it, through whatever links either was named, and whether or not
\* the work directory existed.
AudioOutsideModels ==
    LET m == Eval(fs, models)
    IN  place = "made" /\ Status(fs, m) = "found" => Apart(audio, m.at)

\* Two directories that are separate in fact are not refused, though one or
\* both have yet to be made.
SeparateAccepted ==
    LET w == MkdirAll(fs, given.work)
        m == MkdirAll(fs, given.models)
    IN  w.ok /\ m.ok /\ Apart(w.at, m.at) => place # "refused"
=============================================================================
