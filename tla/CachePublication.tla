-------------------------- MODULE CachePublication --------------------------
(***************************************************************************)
(* One date of the compact cache (cache/store.py, publication.py and the    *)
(* scan loop of builder.py): builders that stage a partition in a temporary *)
(* directory and publish it by renames, readers that validate the published *)
(* partition and open it, raw files that change, and processes that die.    *)
(* Nothing but the directory tree is shared, and there is no lock.          *)
(*                                                                         *)
(* A partition is a build number; `place` says under which kind of name its *)
(* directory stands and a rename changes that.  What a partition was built  *)
(* from is the version of the raw files each of its batches was read from;  *)
(* its manifest claims one version and one request: its identity.  Versions *)
(* stand for the size, mtime and footer that identify a raw file, and for   *)
(* the fingerprint of the code; a request for the symbols and policies that *)
(* the caller of the build chooses.                                         *)
(***************************************************************************)
EXTENDS Integers, Sequences, FiniteSets, Sums

CONSTANTS
    Builders,      \* processes that build the date
    Readers,       \* processes that read it
    Requests,      \* what a caller may ask a build for
    Batches,       \* batches a build scans
    MaxBytes,      \* max_cache_bytes, in batches of the estimated size
    MaxBuilds,     \* builds ever started (model bound)
    MaxVersion     \* changes of the raw files (model bound)

ASSUME ProcessesAssumption == IsFiniteSet(Builders) /\ Builders \cap Readers = {}
ASSUME BatchesAssumption == Batches \in Nat \ {0}
ASSUME BoundsAssumption == MaxBytes \in Nat /\ MaxBuilds \in Nat /\ MaxVersion \in Nat

Builds == 1 .. MaxBuilds
NoBuild == 0
NoRequest == "no request"
Procs == Builders \cup Readers

VARIABLES
    version,   \* the raw files' current version
    place,     \* per build: "unused", "temp", "final", "superseded" or "removed"
    part,      \* per build: what its directory holds
    pc,        \* per process: what it does next, "idle" between calls
    mine,      \* per builder: the build it stages, or NoBuild
    aside,     \* per builder: the build it moved aside, or NoBuild
    wanted,    \* per builder: the version its identity was computed with
    asked,     \* per builder: the request it serves, or NoRequest
    rebuild,   \* per builder: whether it may replace a published date
    seen,      \* per process: the build whose manifest it has read, or NoBuild
    outcome,   \* per process: what its call returned, nothing while it is under way
    since,     \* per reader: the version when its read began (history)
    torn       \* a builder died between the two renames, or could not undo the
               \* first (history)

treeVars    == <<place, part>>
builderVars == <<mine, aside, wanted, asked, rebuild>>
vars == <<version, treeVars, pc, builderVars, seen, outcome, since, torn>>

At(kind) == { i \in Builds : place[i] = kind }
Final    == At("final")

Empty == [ claims |-> 0, request |-> NoRequest, read |-> <<>>, bytes |-> 0, manifest |-> FALSE ]

\* A partition that is what its manifest claims: all batches, all of one version.
Whole(i) == part[i].manifest /\ part[i].read = [ n \in 1 .. Batches |-> part[i].claims ]

Result(state, build) == [ state |-> state, build |-> build ]
NoResult == Result("none", NoBuild)

Init ==
    /\ version = 0
    /\ place = [i \in Builds |-> "unused"]
    /\ part = [i \in Builds |-> Empty]
    /\ pc = [p \in Procs |-> "idle"]
    /\ mine = [b \in Builders |-> NoBuild]
    /\ aside = [b \in Builders |-> NoBuild]
    /\ wanted = [b \in Builders |-> 0]
    /\ asked = [b \in Builders |-> NoRequest]
    /\ rebuild = [b \in Builders |-> FALSE]
    /\ seen = [p \in Procs |-> NoBuild]
    /\ outcome = [p \in Procs |-> NoResult]
    /\ since = [r \in Readers |-> 0]
    /\ torn = FALSE

-----------------------------------------------------------------------------
\* Steps of a process.

Goto(p, label) == pc' = [pc EXCEPT ![p] = label]

\* The call ends; what it held is forgotten.
Forget(p) ==
    /\ mine' = [b \in Builders |-> IF b = p THEN NoBuild ELSE mine[b]]
    /\ aside' = [b \in Builders |-> IF b = p THEN NoBuild ELSE aside[b]]
    /\ wanted' = [b \in Builders |-> IF b = p THEN 0 ELSE wanted[b]]
    /\ asked' = [b \in Builders |-> IF b = p THEN NoRequest ELSE asked[b]]
    /\ rebuild' = [b \in Builders |-> IF b = p THEN FALSE ELSE rebuild[b]]
    /\ seen' = [seen EXCEPT ![p] = NoBuild]
    /\ since' = [r \in Readers |-> IF r = p THEN 0 ELSE since[r]]

Return(p, result) ==
    /\ Goto(p, "idle")
    /\ outcome' = [outcome EXCEPT ![p] = result]
    /\ Forget(p)

Fail(p) == Return(p, Result("error", NoBuild))

\* directory_bytes of the cache root.
Stored(i) == IF place[i] \in {"unused", "removed"} THEN 0 ELSE part[i].bytes
Bytes == SumTo([i \in Builds |-> Stored(i)], MaxBuilds)

-----------------------------------------------------------------------------
\* Validation of the published date, in two steps: the manifest with the raw
\* files it names, then the files beside it.  A rename may come in between.

\* Mutated form: the raw files are not looked at.
CurrentUnchecked(i) == part[i].manifest
Current(i) == part[i].manifest /\ part[i].claims = version

ReadManifest(p) ==
    /\ pc[p] \in {"check", "verify"}
    /\ seen' = [seen EXCEPT ![p] = IF \E i \in Final : Current(i)
                                   THEN CHOOSE i \in Final : Current(i)
                                   ELSE NoBuild]
    /\ Goto(p, IF pc[p] = "check" THEN "checkFiles" ELSE "verifyFiles")
    /\ UNCHANGED <<version, treeVars, builderVars, outcome, since, torn>>

Validated(p) == seen[p] # NoBuild /\ place[seen[p]] = "final"

-----------------------------------------------------------------------------
\* build_date.

\* The identity of the raw files is computed first.  The model starts a build
\* only while there is a number left for every builder that has none yet.
Unnumbered == { c \in Builders : pc[c] # "idle" /\ mine[c] = NoBuild }

Start(b) ==
    /\ pc[b] = "idle"
    /\ Cardinality(At("unused")) > Cardinality(Unnumbered)
    /\ wanted' = [wanted EXCEPT ![b] = version]
    /\ \E request \in Requests : asked' = [asked EXCEPT ![b] = request]
    /\ \E may \in BOOLEAN : rebuild' = [rebuild EXCEPT ![b] = may]
    /\ outcome' = [outcome EXCEPT ![b] = NoResult]
    /\ Goto(b, "look")
    /\ UNCHANGED <<version, treeVars, mine, aside, seen, since, torn>>

Look(b) ==
    /\ pc[b] = "look"
    /\ Goto(b, IF Final = {} THEN "preflight" ELSE "check")
    /\ UNCHANGED <<version, treeVars, builderVars, seen, outcome, since, torn>>

\* A valid date with the same identity is a hit; anything else there is only
\* replaced when the builder was asked to rebuild.
\* Mutated form: the identities are not compared.
SameIdentityAssumed(b, i) == TRUE
SameIdentity(b, i) == part[i].claims = wanted[b] /\ part[i].request = asked[b]

MayReplace(b) == rebuild[b]

Decide(b) ==
    /\ pc[b] = "checkFiles"
    /\ IF Validated(b) /\ SameIdentity(b, seen[b])
       THEN Return(b, Result("hit", seen[b]))
       ELSE \/ /\ MayReplace(b)
               /\ Goto(b, "preflight")
               /\ UNCHANGED <<builderVars, seen, outcome, since>>
            \/ ~MayReplace(b) /\ Fail(b)
    /\ UNCHANGED <<version, treeVars, torn>>

\* Twice the estimated output: the completed date and the staging copy.
\* Mutated form: only the completed date.
RequiredOnce == Batches
Required == 2 * Batches

\* Refused over the cache's own limit, and whenever what else is on the disk
\* leaves too little of it free.
Preflight(b) ==
    /\ pc[b] = "preflight"
    /\ \/ Fail(b)
       \/ /\ Bytes + Required <= MaxBytes
          /\ Goto(b, "mktemp")
          /\ UNCHANGED <<builderVars, seen, outcome, since>>
    /\ UNCHANGED <<version, treeVars, torn>>

MakeTemp(b) ==
    /\ pc[b] = "mktemp"
    /\ \E i \in At("unused") :
           /\ \A j \in At("unused") : i <= j
           /\ place' = [place EXCEPT ![i] = "temp"]
           /\ part' = [part EXCEPT ![i] =
                        [Empty EXCEPT !.claims = wanted[b], !.request = asked[b]]]
           /\ mine' = [mine EXCEPT ![b] = i]
    /\ Goto(b, "scan")
    /\ UNCHANGED <<version, aside, wanted, asked, rebuild, seen, outcome, since, torn>>

\* What a builder has staged so far.
Held(b) == part[mine[b]]

\* build_source: each batch read is written out, then the budget is looked at.
Scan(b) ==
    /\ pc[b] = "scan"
    /\ Len(Held(b).read) < Batches
    /\ part' = [part EXCEPT ![mine[b]] = [Held(b) EXCEPT
                   !.read = Append(Held(b).read, version), !.bytes = Held(b).bytes + 1]]
    /\ UNCHANGED place
    /\ Goto(b, IF Bytes' > MaxBytes THEN "clean" ELSE "scan")
    /\ UNCHANGED <<version, builderVars, seen, outcome, since, torn>>

\* The batches are written again as one file per symbol, under the same check.
Consolidate(b) ==
    /\ pc[b] = "scan"
    /\ Len(Held(b).read) = Batches
    /\ part' = [part EXCEPT ![mine[b]] = [Held(b) EXCEPT !.bytes = 2 * Held(b).bytes]]
    /\ UNCHANGED place
    /\ Goto(b, IF Bytes' > MaxBytes THEN "clean" ELSE "manifest")
    /\ UNCHANGED <<version, builderVars, seen, outcome, since, torn>>

\* The batch files are deleted, and the date manifest is the last file written.
WriteManifest(b) ==
    /\ pc[b] = "manifest"
    /\ part' = [part EXCEPT ![mine[b]] = [Held(b) EXCEPT
                   !.bytes = Held(b).bytes \div 2, !.manifest = TRUE]]
    /\ Goto(b, "stage")
    /\ UNCHANGED <<version, place, builderVars, seen, outcome, since, torn>>

\* Anything the build does may fail: a malformed batch, a full disk, the
\* free-space reserve.
BuildFails(b) ==
    /\ pc[b] \in {"scan", "manifest"}
    /\ Goto(b, "clean")
    /\ UNCHANGED <<version, treeVars, builderVars, seen, outcome, since, torn>>

\* publish_date_atomically: the staged date is validated, raw files included.
Stage(b) ==
    /\ pc[b] = "stage"
    /\ Goto(b, IF Current(mine[b]) THEN "exists" ELSE "clean")
    /\ UNCHANGED <<version, treeVars, builderVars, seen, outcome, since, torn>>

LookAgain(b) ==
    /\ pc[b] = "exists"
    /\ Goto(b, IF Final = {} THEN "movein" ELSE "moveaside")
    /\ UNCHANGED <<version, treeVars, builderVars, seen, outcome, since, torn>>

\* The first rename; the published date may be gone by now.
\* Mutated form: the predecessor is deleted.
RetireByDeleting(i) == place' = [place EXCEPT ![i] = "removed"]
Retire(i) == place' = [place EXCEPT ![i] = "superseded"]

MoveAside(b) ==
    /\ pc[b] = "moveaside"
    /\ \/ /\ Final = {}
          /\ Goto(b, "clean")
          /\ UNCHANGED <<place, aside>>
       \/ \E i \in Final :
             /\ Retire(i)
             /\ aside' = [aside EXCEPT ![b] = i]
             /\ Goto(b, "movein")
    /\ UNCHANGED <<version, part, mine, wanted, asked, rebuild, seen, outcome, since, torn>>

\* The second rename.  A directory cannot be renamed onto one that is not
\* empty, and a rename may fail for reasons of its own.
MoveIn(b) ==
    /\ pc[b] = "movein"
    /\ \/ /\ Final = {}
          /\ place' = [place EXCEPT ![mine[b]] = "final"]
          /\ mine' = [mine EXCEPT ![b] = NoBuild]
          /\ Goto(b, "verify")
       \/ /\ Goto(b, "restore")
          /\ UNCHANGED <<place, mine>>
    /\ UNCHANGED <<version, part, aside, wanted, asked, rebuild, seen, outcome, since, torn>>

\* The predecessor goes back, unless another builder has published meanwhile.
\* That rename may fail too, and then nothing is tried again.
PutBack(b) == aside[b] # NoBuild /\ Final = {}

AfterRestore == "clean"

Restore(b) ==
    /\ pc[b] = "restore"
    /\ \/ /\ place' = IF PutBack(b) THEN [place EXCEPT ![aside[b]] = "final"] ELSE place
          /\ UNCHANGED torn
       \/ PutBack(b) /\ torn' = TRUE /\ UNCHANGED place
    /\ Goto(b, AfterRestore)
    /\ UNCHANGED <<version, part, builderVars, seen, outcome, since>>

\* cleanup_incomplete_date: its own temporary directory, and no other.
Litter(b) == {mine[b]}

Clean(b) ==
    /\ pc[b] = "clean"
    /\ place' = [i \in Builds |-> IF i \in Litter(b) THEN "removed" ELSE place[i]]
    /\ Fail(b)
    /\ UNCHANGED <<version, part, torn>>

\* The published date is validated once more, whoever published it.
Verify(b) ==
    /\ pc[b] = "verifyFiles"
    /\ IF Validated(b) THEN Return(b, Result("miss", seen[b])) ELSE Fail(b)
    /\ UNCHANGED <<version, treeVars, torn>>

\* A builder is between the two renames, or about to undo the first.
Between(b) == pc[b] \in {"movein", "restore"} /\ aside[b] # NoBuild

\* The process dies or is interrupted: nothing is cleaned up.
Crash(b) ==
    /\ pc[b] # "idle"
    /\ Return(b, Result("crashed", NoBuild))
    /\ torn' = (torn \/ Between(b))
    /\ UNCHANGED <<version, treeVars>>

-----------------------------------------------------------------------------
\* read_symbol: validate the date, then resolve its path again and open it.

StartRead(r) ==
    /\ pc[r] = "idle"
    /\ since' = [since EXCEPT ![r] = version]
    /\ outcome' = [outcome EXCEPT ![r] = NoResult]
    /\ Goto(r, "check")
    /\ UNCHANGED <<version, treeVars, builderVars, seen, torn>>

ReadFiles(r) ==
    /\ pc[r] = "checkFiles"
    /\ IF Validated(r)
       THEN Goto(r, "open") /\ UNCHANGED <<builderVars, seen, outcome, since>>
       ELSE Fail(r)
    /\ UNCHANGED <<version, treeVars, torn>>

Open(r) ==
    /\ pc[r] = "open"
    /\ \/ Final = {} /\ Fail(r)
       \/ \E i \in Final : Return(r, Result("read", i))
    /\ UNCHANGED <<version, treeVars, torn>>

-----------------------------------------------------------------------------
\* The raw files are replaced by newer ones.
SourceChanges ==
    /\ version < MaxVersion
    /\ version' = version + 1
    /\ UNCHANGED <<treeVars, pc, builderVars, seen, outcome, since, torn>>

BuilderStep(b) ==
    \/ Start(b) \/ Look(b) \/ ReadManifest(b) \/ Decide(b) \/ Preflight(b) \/ MakeTemp(b)
    \/ Scan(b) \/ Consolidate(b) \/ WriteManifest(b) \/ BuildFails(b)
    \/ Stage(b) \/ LookAgain(b) \/ MoveAside(b) \/ MoveIn(b) \/ Restore(b) \/ Clean(b)
    \/ Verify(b) \/ Crash(b)

ReaderStep(r) == StartRead(r) \/ ReadManifest(r) \/ ReadFiles(r) \/ Open(r)

Next ==
    \/ \E b \in Builders : BuilderStep(b)
    \/ \E r \in Readers : ReaderStep(r)
    \/ SourceChanges

Spec == Init /\ [][Next]_vars

-----------------------------------------------------------------------------
Labels == { "idle", "look", "check", "checkFiles", "preflight", "mktemp", "scan", "manifest",
            "stage", "exists", "moveaside", "movein", "restore", "clean", "verify",
            "verifyFiles", "open" }

PartType == [ claims : Nat, request : Requests \cup {NoRequest}, read : Seq(Nat),
              bytes : Nat, manifest : BOOLEAN ]

ResultType == [ state : {"none", "hit", "miss", "read", "error", "crashed"},
                build : Builds \cup {NoBuild} ]

\* From mktemp until its rename or removal a builder has a directory of its own.
Staging == {"scan", "manifest", "stage", "exists", "moveaside", "movein", "restore", "clean"}

\* The types; a builder holds a build exactly while it stages one.
TypeOK ==
    /\ version \in Nat
    /\ place \in [Builds -> {"unused", "temp", "final", "superseded", "removed"}]
    /\ part \in [Builds -> PartType]
    /\ pc \in [Procs -> Labels]
    /\ mine \in [Builders -> Builds \cup {NoBuild}]
    /\ \A b \in Builders : mine[b] # NoBuild <=> pc[b] \in Staging
    /\ aside \in [Builders -> Builds \cup {NoBuild}]
    /\ wanted \in [Builders -> Nat]
    /\ asked \in [Builders -> Requests \cup {NoRequest}]
    /\ rebuild \in [Builders -> BOOLEAN]
    /\ seen \in [Procs -> Builds \cup {NoBuild}]
    /\ outcome \in [Procs -> ResultType]
    /\ since \in [Readers -> Nat]
    /\ torn \in BOOLEAN

\* Every partition that stands under the date's own name, or did, is complete
\* and was read from one version of the raw files, the one it claims, although
\* they may change while they are scanned.
PublishedIsWhole == \A i \in Builds : place[i] \in {"final", "superseded"} => Whole(i)

\* The cache stays within its limit, leaked temporaries included.
BudgetHeld == Bytes <= MaxBytes

\* A date that was published is there under its own name, or a builder has it
\* in hand, unless one died or failed twice between the renames.
DateStands ==
    At("superseded") # {} => Final # {} \/ torn \/ \E b \in Builders : Between(b)

\* What was published is never deleted, by failures, rebuilds or crashes, and a
\* rebuild whose second rename fails leaves the date standing, its own or that
\* of another builder.
PublishedIsKept ==
    /\ []DateStands
    /\ [][\A i \in Builds : place[i] \in {"final", "superseded"} =>
              place'[i] \in {"final", "superseded"}]_vars

\* A temporary directory is published or removed by its own builder and by no
\* other, so one that a crash left behind is never used again.
OwnTempOnly ==
    [][\A i \in At("temp") : place'[i] # "temp" =>
           \E b \in Builders : mine[b] = i /\ pc'[b] # pc[b]]_vars

\* The call of process p ends in this step, in one of the given states.
Answered(p, states) == pc[p] # "idle" /\ pc'[p] = "idle" /\ outcome'[p].state \in states

=============================================================================
