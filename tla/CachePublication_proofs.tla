----------------------- MODULE CachePublication_proofs -----------------------
(***************************************************************************)
(* Proofs about the publication of a cache date, for any number of          *)
(* builders, readers, batches and builds, any budget, and a crash anywhere. *)
(*                                                                         *)
(* The argument: a builder's temporary directory is its own (Owned, Apart). *)
(* The batches in it were read no earlier than its identity was computed,   *)
(* and not later than now (InTime), so when the raw files still have that   *)
(* identity at the last validation before the renames, none of them can     *)
(* have changed in between (Sealed).  Renames only touch directories that   *)
(* are sealed or were published before (AsidePublished).  That the date     *)
(* stands (DateStands) is inductive beside this invariant (StandsStep).     *)
(*                                                                         *)
(* Of one builder alone, among readers, more is proved (Single): what it    *)
(* may still write, twice the estimate less what it has written, fits the   *)
(* budget (Budgeted); the published date is the newest there is and has the *)
(* identity that the builder works with (Dated); and nothing that a reader  *)
(* may open, whatever the builder renames, is older than its call (Shown).  *)
(***************************************************************************)
EXTENDS MCCache, Sums_proofs, FiniteSetTheorems

\* What a builder stages is a temporary directory, and only it stages it.
Owned == \A b \in Builders : mine[b] # NoBuild => place[mine[b]] = "temp"
Apart == \A b, c \in Builders : mine[b] # NoBuild /\ mine[b] = mine[c] => b = c

\* What it moved aside had been published.
AsidePublished ==
    \A b \in Builders : aside[b] # NoBuild => place[aside[b]] \in {"final", "superseded"}

\* Every batch was read between the claimed version and the current one.
InTime ==
    /\ \A b \in Builders : wanted[b] <= version
    /\ \A i \in At("temp") :
           /\ part[i].claims <= version
           /\ \A n \in 1 .. Len(part[i].read) :
                  part[i].claims <= part[i].read[n] /\ part[i].read[n] <= version

\* How far a builder's partition is, by where the builder is.
Progress ==
    \A b \in Builders :
        /\ pc[b] \in {"manifest", "stage"} => Len(part[mine[b]].read) = Batches
        /\ pc[b] \in {"exists", "moveaside", "movein"} => Whole(mine[b])

Inv == TypeOK /\ Owned /\ Apart /\ AsidePublished /\ InTime /\ Progress /\ PublishedIsWhole

USE DEF NoBuild, Builds, Procs

LEMMA InitInv == Init => Inv
<1> SUFFICES ASSUME Init PROVE Inv
  OBVIOUS
<1>1. TypeOK
  <2>1. part \in [Builds -> PartType]
    BY DEF Init, PartType, Empty
  <2>2. outcome \in [Procs -> ResultType]
    BY DEF Init, ResultType, Result, NoResult
  <2> QED
    BY <2>1, <2>2 DEF Init, TypeOK, Labels, Staging
<1>2. Owned /\ Apart /\ AsidePublished
  BY DEF Init, Owned, Apart, AsidePublished
<1>3. InTime
  BY DEF Init, InTime, At
<1>4. Progress /\ PublishedIsWhole
  BY DEF Init, Progress, PublishedIsWhole
<1> QED
  BY <1>1, <1>2, <1>3, <1>4 DEF Inv

-----------------------------------------------------------------------------
\* Types.

\* A call that ends returns its caller's variables to their initial values.
LEMMA ReturnTypes ==
    ASSUME TypeOK, NEW p \in Procs, NEW result \in ResultType, Return(p, result)
    PROVE  /\ pc' \in [Procs -> Labels]
           /\ mine' \in [Builders -> Builds \cup {NoBuild}]
           /\ \A b \in Builders : mine'[b] # NoBuild <=> pc'[b] \in Staging
           /\ aside' \in [Builders -> Builds \cup {NoBuild}]
           /\ wanted' \in [Builders -> Nat]
           /\ asked' \in [Builders -> Requests \cup {NoRequest}]
           /\ rebuild' \in [Builders -> BOOLEAN]
           /\ seen' \in [Procs -> Builds \cup {NoBuild}]
           /\ outcome' \in [Procs -> ResultType]
           /\ since' \in [Readers -> Nat]
  BY DEF TypeOK, Return, Goto, Forget, Labels, Staging

LEMMA Results ==
    ASSUME NEW state \in {"none", "hit", "miss", "read", "error", "crashed"},
           NEW build \in Builds \cup {NoBuild}
    PROVE  Result(state, build) \in ResultType
  BY DEF Result, ResultType

\* Labels outside staging may be exchanged freely.
LEMMA GotoTypes ==
    ASSUME TypeOK, NEW p \in Procs, NEW label \in Labels, Goto(p, label), mine' = mine,
           p \in Builders => (pc[p] \in Staging <=> label \in Staging)
    PROVE  /\ pc' \in [Procs -> Labels]
           /\ \A b \in Builders : mine'[b] # NoBuild <=> pc'[b] \in Staging
  BY ProcessesAssumption DEF TypeOK, Goto

LEMMA ReadManifestTypes ==
    ASSUME TypeOK, NEW p \in Procs, ReadManifest(p)
    PROVE  TypeOK'
<1> DEFINE label == IF pc[p] = "check" THEN "checkFiles" ELSE "verifyFiles"
<1>1. /\ pc' \in [Procs -> Labels]
      /\ \A b \in Builders : mine'[b] # NoBuild <=> pc'[b] \in Staging
  <2>1. label \in Labels /\ label \notin Staging /\ pc[p] \notin Staging
    BY DEF ReadManifest, Labels, Staging
  <2>2. Goto(p, label) /\ mine' = mine
    BY DEF ReadManifest, builderVars
  <2> QED
    BY <2>1, <2>2, GotoTypes
<1>2. seen' \in [Procs -> Builds \cup {NoBuild}]
  <2>1. (IF \E i \in Final : Current(i) THEN CHOOSE i \in Final : Current(i) ELSE NoBuild)
            \in Builds \cup {NoBuild}
    BY DEF Final, At
  <2> QED
    BY <2>1 DEF ReadManifest, TypeOK
<1> QED
  BY <1>1, <1>2 DEF ReadManifest, TypeOK, treeVars, builderVars

\* A record of a partition stays one under the updates the builder makes.
LEMMA PartUpdates ==
    ASSUME NEW old \in PartType, NEW read \in Seq(Nat), NEW bytes \in Nat
    PROVE  /\ [old EXCEPT !.read = read, !.bytes = bytes] \in PartType
           /\ [old EXCEPT !.bytes = bytes] \in PartType
           /\ [old EXCEPT !.bytes = bytes, !.manifest = TRUE] \in PartType
<1>1. [old EXCEPT !.read = read, !.bytes = bytes] \in PartType
  BY DEF PartType
<1>2. [old EXCEPT !.bytes = bytes] \in PartType
  BY DEF PartType
<1>3. [old EXCEPT !.bytes = bytes, !.manifest = TRUE] \in PartType
  BY DEF PartType
<1> QED
  BY <1>1, <1>2, <1>3

LEMMA BuildTypes ==
    ASSUME TypeOK, NEW b \in Builders, BuilderStep(b)
    PROVE  TypeOK'
<1> b \in Procs
  OBVIOUS
<1>1. CASE Start(b)
  BY <1>1 DEF Start, Goto, TypeOK, Labels, Staging, ResultType, NoResult, Result, treeVars
<1>2. CASE Look(b)
  BY <1>2 DEF Look, Goto, TypeOK, Labels, Staging, treeVars, builderVars
<1>3. CASE ReadManifest(b)
  BY <1>3, ReadManifestTypes
<1>4. CASE Decide(b)
  <2>1. CASE Validated(b) /\ SameIdentity(b, seen[b])
    <3>1. Result("hit", seen[b]) \in ResultType
      BY Results DEF TypeOK
    <3> QED
      BY <1>4, <2>1, <3>1, ReturnTypes DEF Decide, TypeOK, treeVars
  <2>2. CASE ~(Validated(b) /\ SameIdentity(b, seen[b])) /\ MayReplace(b)
    BY <1>4, <2>2 DEF Decide, Goto, TypeOK, Labels, Staging, treeVars, builderVars
  <2>3. CASE ~(Validated(b) /\ SameIdentity(b, seen[b])) /\ ~MayReplace(b)
    BY <1>4, <2>3, Results, ReturnTypes DEF Decide, Fail, TypeOK, treeVars
  <2> QED
    BY <2>1, <2>2, <2>3
<1>5. CASE Preflight(b)
  <2>1. CASE Fail(b)
    BY <1>5, <2>1, Results, ReturnTypes DEF Preflight, Fail, TypeOK, treeVars
  <2>2. CASE ~Fail(b)
    BY <1>5, <2>2 DEF Preflight, Goto, TypeOK, Labels, Staging, treeVars, builderVars
  <2> QED
    BY <2>1, <2>2
<1>6. CASE MakeTemp(b)
  <2> PICK i \in At("unused") :
          /\ place' = [place EXCEPT ![i] = "temp"]
          /\ part' = [part EXCEPT ![i] =
                         [Empty EXCEPT !.claims = wanted[b], !.request = asked[b]]]
          /\ mine' = [mine EXCEPT ![b] = i]
    BY <1>6 DEF MakeTemp
  <2>1. [Empty EXCEPT !.claims = wanted[b], !.request = asked[b]] \in PartType
    <3>1. Empty \in PartType
      BY DEF Empty, PartType
    <3> QED
      BY <3>1 DEF PartType, TypeOK
  <2>2. part' \in [Builds -> PartType]
    BY <2>1 DEF TypeOK, At
  <2>3. i \in Builds /\ i # NoBuild
    BY DEF At
  <2>4. Goto(b, "scan") /\ pc[b] = "mktemp"
    BY <1>6 DEF MakeTemp
  <2>5. /\ pc' \in [Procs -> Labels]
        /\ \A c \in Builders : mine'[c] # NoBuild <=> pc'[c] \in Staging
    BY <2>3, <2>4 DEF Goto, TypeOK, Labels, Staging
  <2>6. place' \in [Builds -> {"unused", "temp", "final", "superseded", "removed"}]
    BY <2>3 DEF TypeOK
  <2>7. mine' \in [Builders -> Builds \cup {NoBuild}]
    BY <2>3 DEF TypeOK
  <2>8. UNCHANGED <<version, aside, wanted, asked, rebuild, seen, outcome, since, torn>>
    BY <1>6 DEF MakeTemp
  <2> QED
    BY <2>2, <2>5, <2>6, <2>7, <2>8 DEF TypeOK
<1>7. CASE Scan(b)
  <2>1. mine[b] # NoBuild
    BY <1>7 DEF Scan, TypeOK, Staging
  <2>2. Held(b) \in PartType
    BY <2>1 DEF Held, TypeOK
  <2>3. part' \in [Builds -> PartType]
    <3> DEFINE new == [Held(b) EXCEPT !.read = Append(Held(b).read, version), !.bytes = Held(b).bytes + 1]
    <3>0. Append(Held(b).read, version) \in Seq(Nat) /\ Held(b).bytes + 1 \in Nat
      BY <2>2 DEF PartType, TypeOK
    <3>1. new \in PartType
      BY <2>2, <3>0, PartUpdates
    <3>2. part' = [part EXCEPT ![mine[b]] = new]
      BY <1>7 DEF Scan
    <3> HIDE DEF new
    <3> QED
      BY <2>1, <3>1, <3>2 DEF TypeOK
  <2>4. /\ pc' \in [Procs -> Labels]
        /\ \A c \in Builders : mine'[c] # NoBuild <=> pc'[c] \in Staging
    <3> DEFINE label == IF Bytes' > MaxBytes THEN "clean" ELSE "scan"
    <3>1. label \in Labels /\ label \in Staging /\ pc[b] \in Staging
      BY <1>7 DEF Scan, Labels, Staging
    <3>2. Goto(b, label) /\ mine' = mine
      BY <1>7 DEF Scan, builderVars
    <3> QED
      BY <3>1, <3>2, GotoTypes
  <2>5. UNCHANGED <<version, place, builderVars, seen, outcome, since, torn>>
    BY <1>7 DEF Scan
  <2> QED
    BY <2>3, <2>4, <2>5 DEF TypeOK, builderVars
<1>8. CASE Consolidate(b)
  <2>1. mine[b] # NoBuild
    BY <1>8 DEF Consolidate, TypeOK, Staging
  <2>2. Held(b) \in PartType
    BY <2>1 DEF Held, TypeOK
  <2>3. part' \in [Builds -> PartType]
    <3> DEFINE new == [Held(b) EXCEPT !.bytes = 2 * Held(b).bytes]
    <3>0. 2 * Held(b).bytes \in Nat /\ Held(b).read \in Seq(Nat)
      BY <2>2 DEF PartType, TypeOK
    <3>1. new \in PartType
      BY <2>2, <3>0, PartUpdates
    <3>2. part' = [part EXCEPT ![mine[b]] = new]
      BY <1>8 DEF Consolidate
    <3> HIDE DEF new
    <3> QED
      BY <2>1, <3>1, <3>2 DEF TypeOK
  <2>4. /\ pc' \in [Procs -> Labels]
        /\ \A c \in Builders : mine'[c] # NoBuild <=> pc'[c] \in Staging
    <3> DEFINE label == IF Bytes' > MaxBytes THEN "clean" ELSE "manifest"
    <3>1. label \in Labels /\ label \in Staging /\ pc[b] \in Staging
      BY <1>8 DEF Consolidate, Labels, Staging
    <3>2. Goto(b, label) /\ mine' = mine
      BY <1>8 DEF Consolidate, builderVars
    <3> QED
      BY <3>1, <3>2, GotoTypes
  <2>5. UNCHANGED <<version, place, builderVars, seen, outcome, since, torn>>
    BY <1>8 DEF Consolidate
  <2> QED
    BY <2>3, <2>4, <2>5 DEF TypeOK, builderVars
<1>9. CASE WriteManifest(b)
  <2>1. mine[b] # NoBuild
    BY <1>9 DEF WriteManifest, TypeOK, Staging
  <2>2. Held(b) \in PartType
    BY <2>1 DEF Held, TypeOK
  <2>3. part' \in [Builds -> PartType]
    <3> DEFINE new == [Held(b) EXCEPT !.bytes = Held(b).bytes \div 2, !.manifest = TRUE]
    <3>0. Held(b).bytes \div 2 \in Nat /\ Held(b).read \in Seq(Nat)
      BY <2>2 DEF PartType, TypeOK
    <3>1. new \in PartType
      BY <2>2, <3>0, PartUpdates
    <3>2. part' = [part EXCEPT ![mine[b]] = new]
      BY <1>9 DEF WriteManifest
    <3> HIDE DEF new
    <3> QED
      BY <2>1, <3>1, <3>2 DEF TypeOK
  <2>4. /\ pc' \in [Procs -> Labels]
        /\ \A c \in Builders : mine'[c] # NoBuild <=> pc'[c] \in Staging
    <3> DEFINE label == "stage"
    <3>1. label \in Labels /\ label \in Staging /\ pc[b] \in Staging
      BY <1>9 DEF WriteManifest, Labels, Staging
    <3>2. Goto(b, label) /\ mine' = mine
      BY <1>9 DEF WriteManifest, builderVars
    <3> QED
      BY <3>1, <3>2, GotoTypes
  <2>5. UNCHANGED <<version, place, builderVars, seen, outcome, since, torn>>
    BY <1>9 DEF WriteManifest
  <2> QED
    BY <2>3, <2>4, <2>5 DEF TypeOK, builderVars
<1>10. CASE BuildFails(b)
  BY <1>10 DEF BuildFails, Goto, TypeOK, Labels, Staging, treeVars, builderVars
<1>11. CASE Stage(b)
  BY <1>11 DEF Stage, Goto, TypeOK, Labels, Staging, treeVars, builderVars
<1>12. CASE LookAgain(b)
  BY <1>12 DEF LookAgain, Goto, TypeOK, Labels, Staging, treeVars, builderVars
<1>13. CASE MoveAside(b)
  <2>1. /\ pc[b] = "moveaside"
        /\ UNCHANGED <<version, part, mine, wanted, asked, rebuild, seen, outcome, since, torn>>
    BY <1>13 DEF MoveAside
  <2>2. CASE Goto(b, "clean") /\ UNCHANGED <<place, aside>>
    BY <2>1, <2>2 DEF Goto, TypeOK, Labels, Staging
  <2>3. CASE Goto(b, "movein") /\ \E i \in Final : Retire(i) /\ aside' = [aside EXCEPT ![b] = i]
    BY <2>1, <2>3 DEF Retire, Final, At, Goto, TypeOK, Labels, Staging
  <2> QED
    BY <1>13, <2>2, <2>3 DEF MoveAside
<1>14. CASE MoveIn(b)
  <2>1. /\ mine[b] \in Builds /\ pc[b] = "movein"
        /\ UNCHANGED <<version, part, aside, wanted, asked, rebuild, seen, outcome, since, torn>>
    BY <1>14 DEF MoveIn, TypeOK, Staging
  <2>2. CASE /\ Goto(b, "verify") /\ place' = [place EXCEPT ![mine[b]] = "final"]
             /\ mine' = [mine EXCEPT ![b] = NoBuild]
    <3>1. /\ pc' \in [Procs -> Labels]
          /\ \A c \in Builders : mine'[c] # NoBuild <=> pc'[c] \in Staging
      BY <2>1, <2>2 DEF Goto, TypeOK, Labels, Staging
    <3>2. /\ place' \in [Builds -> {"unused", "temp", "final", "superseded", "removed"}]
          /\ mine' \in [Builders -> Builds \cup {NoBuild}]
      BY <2>1, <2>2 DEF TypeOK
    <3> QED
      BY <2>1, <3>1, <3>2 DEF TypeOK
  <2>3. CASE Goto(b, "restore") /\ UNCHANGED <<place, mine>>
    BY <2>1, <2>3 DEF Goto, TypeOK, Labels, Staging
  <2> QED
    BY <1>14, <2>2, <2>3 DEF MoveIn
<1>15. CASE Restore(b)
  BY <1>15 DEF Restore, PutBack, AfterRestore, Goto, TypeOK, Labels, Staging, builderVars
<1>16. CASE Clean(b)
  BY <1>16, Results, ReturnTypes DEF Clean, Fail, Litter, TypeOK
<1>17. CASE Verify(b)
  <2>1. CASE Validated(b)
    <3>1. Result("miss", seen[b]) \in ResultType
      BY Results DEF TypeOK
    <3> QED
      BY <1>17, <2>1, <3>1, ReturnTypes DEF Verify, TypeOK, treeVars
  <2>2. CASE ~Validated(b)
    BY <1>17, <2>2, Results, ReturnTypes DEF Verify, Fail, TypeOK, treeVars
  <2> QED
    BY <2>1, <2>2
<1>18. CASE Crash(b)
  BY <1>18, Results, ReturnTypes DEF Crash, TypeOK, treeVars
<1> QED
  BY <1>1, <1>2, <1>3, <1>4, <1>5, <1>6, <1>7, <1>8, <1>9, <1>10, <1>11, <1>12, <1>13, <1>14,
     <1>15, <1>16, <1>17, <1>18 DEF BuilderStep

LEMMA ReadTypes ==
    ASSUME TypeOK, NEW r \in Readers, ReaderStep(r)
    PROVE  TypeOK'
<1> r \in Procs /\ r \notin Builders
  BY ProcessesAssumption
<1>1. CASE StartRead(r)
  <2>1. mine' = mine /\ Goto(r, "check") /\ "check" \in Labels
    BY <1>1 DEF StartRead, builderVars, Labels
  <2>2. NoResult \in ResultType
    BY Results DEF NoResult
  <2> QED
    BY <1>1, <2>1, <2>2, GotoTypes DEF StartRead, TypeOK, treeVars, builderVars
<1>2. CASE ReadManifest(r)
  BY <1>2, ReadManifestTypes
<1>3. CASE ReadFiles(r)
  <2>1. CASE Validated(r)
    <3>1. mine' = mine /\ Goto(r, "open") /\ "open" \in Labels
      BY <1>3, <2>1 DEF ReadFiles, builderVars, Labels
    <3> QED
      BY <1>3, <2>1, <3>1, GotoTypes DEF ReadFiles, TypeOK, treeVars, builderVars
  <2>2. CASE ~Validated(r)
    BY <1>3, <2>2, Results, ReturnTypes DEF ReadFiles, Fail, TypeOK, treeVars
  <2> QED
    BY <2>1, <2>2
<1>4. CASE Open(r)
  <2>1. PICK result \in ResultType : Return(r, result)
    BY <1>4, Results DEF Open, Fail, Final, At
  <2> QED
    BY <1>4, <2>1, ReturnTypes DEF Open, TypeOK, treeVars
<1> QED
  BY <1>1, <1>2, <1>3, <1>4 DEF ReaderStep

LEMMA TypeStep == TypeOK /\ [Next]_vars => TypeOK'
<1> SUFFICES ASSUME TypeOK, [Next]_vars PROVE TypeOK'
  OBVIOUS
<1>1. CASE \E b \in Builders : BuilderStep(b)
  BY <1>1, BuildTypes
<1>2. CASE \E r \in Readers : ReaderStep(r)
  BY <1>2, ReadTypes
<1>3. CASE SourceChanges
  BY <1>3 DEF SourceChanges, TypeOK, treeVars, builderVars
<1>4. CASE UNCHANGED vars
  BY <1>4 DEF vars, TypeOK, treeVars, builderVars
<1> QED
  BY <1>1, <1>2, <1>3, <1>4 DEF Next

\* The types hold for every number of processes, batches and builds.
THEOREM TypeCorrect == Spec => []TypeOK
<1>1. Init => TypeOK
  BY InitInv DEF Inv
<1> QED
  BY <1>1, TypeStep, PTL DEF Spec

-----------------------------------------------------------------------------
\* What the steps do to the directories.

\* A directory changes its name only by one of these steps, each of which
\* touches one build.
Named(i, kind) == place' = [place EXCEPT ![i] = kind]

Made(b) == \E i \in At("unused") : Named(i, "temp") /\ mine' = [mine EXCEPT ![b] = i]
Retired(b) == \E i \in Final : Named(i, "superseded") /\ aside' = [aside EXCEPT ![b] = i]
Published(b) == pc[b] = "movein" /\ Named(mine[b], "final") /\ mine'[b] = NoBuild
PutBackAgain(b) == aside[b] # NoBuild /\ Named(aside[b], "final")
Removed(b) == pc[b] = "clean" /\ Named(mine[b], "removed") /\ mine'[b] = NoBuild

LEMMA Renames ==
    ASSUME TypeOK, Next
    PROVE  \/ place' = place
           \/ \E b \in Builders :
                 /\ pc'[b] # pc[b]
                 /\ Made(b) \/ Retired(b) \/ Published(b) \/ PutBackAgain(b) \/ Removed(b)
<1> SUFFICES ASSUME NEW b \in Builders, BuilderStep(b), place' # place
             PROVE  /\ pc'[b] # pc[b]
                    /\ Made(b) \/ Retired(b) \/ Published(b) \/ PutBackAgain(b) \/ Removed(b)
  BY DEF Next, ReaderStep, SourceChanges, StartRead, ReadManifest, ReadFiles, Open, treeVars
<1> b \in Procs /\ pc \in [Procs -> Labels]
  BY DEF TypeOK
<1>1. MakeTemp(b) \/ MoveAside(b) \/ MoveIn(b) \/ Restore(b) \/ Clean(b)
  BY DEF BuilderStep, Start, Look, ReadManifest, Decide, Preflight, Scan, Consolidate,
         WriteManifest, BuildFails, Stage, LookAgain, Verify, Crash, treeVars
<1>2. CASE MakeTemp(b)
  BY <1>2 DEF MakeTemp, Made, Named, Goto
<1>3. CASE MoveAside(b)
  BY <1>3 DEF MoveAside, Retire, Retired, Named, Goto
<1>4. CASE MoveIn(b)
  <2>1. mine[b] \in Builds
    BY <1>4 DEF MoveIn, TypeOK, Staging
  <2> QED
    BY <1>4, <2>1 DEF MoveIn, Published, Named, Goto, TypeOK
<1>5. CASE Restore(b)
  BY <1>5 DEF Restore, PutBack, AfterRestore, PutBackAgain, Named, Goto
<1>6. CASE Clean(b)
  <2>1. mine[b] \in Builds
    BY <1>6 DEF Clean, TypeOK, Staging
  <2>2. Named(mine[b], "removed")
    BY <1>6, <2>1 DEF Clean, Litter, Named, TypeOK
  <2> QED
    BY <1>6, <2>2 DEF Clean, Removed, Fail, Return, Forget, Goto
<1> QED
  BY <1>1, <1>2, <1>3, <1>4, <1>5, <1>6

-----------------------------------------------------------------------------
\* The invariant is inductive.

USE DEF At, Final

\* A step that only moves one process to a label at which its partition is as
\* far as Progress asks.
LEMMA QuietSteps ==
    ASSUME Inv, TypeOK', NEW p \in Procs, NEW label, Goto(p, label),
           UNCHANGED <<version, place, part, mine, aside, wanted>>,
           p \in Builders =>
               /\ label \in {"manifest", "stage"} => Len(part[mine[p]].read) = Batches
               /\ label \in {"exists", "moveaside", "movein"} => Whole(mine[p])
    PROVE  Inv'
<1>1. Owned' /\ Apart' /\ AsidePublished' /\ InTime' /\ PublishedIsWhole'
  <2>1. Owned' /\ Apart' /\ AsidePublished'
    BY DEF Inv, Owned, Apart, AsidePublished
  <2>2. InTime'
    BY DEF Inv, InTime
  <2>3. PublishedIsWhole'
    BY DEF Inv, PublishedIsWhole, Whole
  <2> QED
    BY <2>1, <2>2, <2>3
<1>2. Progress'
  <2> SUFFICES ASSUME NEW c \in Builders
               PROVE  /\ pc'[c] \in {"manifest", "stage"} => Len(part[mine[c]].read) = Batches
                      /\ pc'[c] \in {"exists", "moveaside", "movein"} => Whole(mine[c])
    BY DEF Progress, Whole
  <2>1. pc \in [Procs -> Labels]
    BY DEF Inv, TypeOK
  <2>2. CASE c = p
    BY <2>1, <2>2 DEF Goto
  <2>3. CASE c # p
    BY <2>1, <2>3 DEF Goto, Inv, Progress
  <2> QED
    BY <2>2, <2>3
<1> QED
  BY <1>1, <1>2 DEF Inv

\* A call that ends leaves its directories to nobody.
LEMMA EndingSteps ==
    ASSUME Inv, TypeOK', NEW p \in Procs, NEW result, Return(p, result),
           UNCHANGED <<version, place, part>>
    PROVE  Inv'
<1> /\ pc' = [pc EXCEPT ![p] = "idle"]
    /\ mine' = [b \in Builders |-> IF b = p THEN NoBuild ELSE mine[b]]
    /\ aside' = [b \in Builders |-> IF b = p THEN NoBuild ELSE aside[b]]
    /\ wanted' = [b \in Builders |-> IF b = p THEN 0 ELSE wanted[b]]
  BY DEF Return, Forget, Goto
<1>1. Owned' /\ Apart' /\ AsidePublished'
  BY DEF Inv, Owned, Apart, AsidePublished
<1>2. InTime'
  BY DEF Inv, InTime, TypeOK
<1>3. Progress'
  <2> SUFFICES ASSUME NEW c \in Builders, c # p
               PROVE  /\ pc[c] \in {"manifest", "stage"} => Len(part[mine[c]].read) = Batches
                      /\ pc[c] \in {"exists", "moveaside", "movein"} => Whole(mine[c])
    <3>1. pc'[p] = "idle"
      BY DEF Inv, TypeOK
    <3>2. \A c \in Builders : c # p => /\ pc'[c] = pc[c]
                                     /\ mine'[c] = mine[c]
                                     /\ Whole(mine[c])' <=> Whole(mine'[c])
      BY DEF Inv, TypeOK, Whole
    <3>3. \A i : Whole(i)' <=> Whole(i)
      BY DEF Whole
    <3> QED
      BY <3>1, <3>2, <3>3 DEF Progress
  <2> QED
    BY DEF Inv, Progress
<1>4. PublishedIsWhole'
  BY DEF Inv, PublishedIsWhole, Whole
<1> QED
  BY <1>1, <1>2, <1>3, <1>4 DEF Inv

\* A directory that is not written to stays what it was.
LEMMA WholeSame == \A i : part'[i] = part[i] => (Whole(i)' <=> Whole(i))
  BY DEF Whole

\* A builder that writes into its directory: what it wrote is in time, and as
\* far as the label it goes to asks.
LEMMA WritingSteps ==
    ASSUME Inv, TypeOK', NEW b \in Builders, NEW new, NEW label,
           mine[b] # NoBuild, part' = [part EXCEPT ![mine[b]] = new],
           UNCHANGED <<version, place, mine, aside, wanted>>,
           Goto(b, label), label \in {"clean", "scan", "manifest", "stage"},
           new.claims <= version,
           \A n \in 1 .. Len(new.read) : new.claims <= new.read[n] /\ new.read[n] <= version,
           label \in {"manifest", "stage"} => Len(new.read) = Batches
    PROVE  Inv'
<1>1. mine[b] \in Builds /\ place[mine[b]] = "temp"
  BY DEF Inv, TypeOK, Owned
<1>2. part'[mine[b]] = new /\ \A i \in Builds : i # mine[b] => part'[i] = part[i]
  BY <1>1 DEF Inv, TypeOK
<1>3. Owned' /\ Apart' /\ AsidePublished'
  BY DEF Inv, Owned, Apart, AsidePublished
<1>4. InTime'
  <2> SUFFICES ASSUME NEW i \in At("temp")
               PROVE  /\ part'[i].claims <= version
                      /\ \A n \in 1 .. Len(part'[i].read) :
                             part'[i].claims <= part'[i].read[n] /\ part'[i].read[n] <= version
    BY DEF Inv, InTime
  <2>1. CASE i = mine[b]
    BY <2>1, <1>2
  <2>2. CASE i # mine[b]
    BY <2>2, <1>2 DEF Inv, InTime
  <2> QED
    BY <2>1, <2>2
<1>5. Progress'
  <2> SUFFICES ASSUME NEW c \in Builders
               PROVE  /\ pc'[c] \in {"manifest", "stage"} => Len(part'[mine[c]].read) = Batches
                      /\ pc'[c] \in {"exists", "moveaside", "movein"} => Whole(mine[c])'
    BY DEF Progress
  <2>1. pc' = [pc EXCEPT ![b] = label] /\ pc \in [Procs -> Labels]
    BY DEF Goto, Inv, TypeOK
  <2>2. CASE c = b
    BY <2>1, <2>2, <1>2
  <2>3. CASE c # b /\ mine[c] # NoBuild
    <3>1. mine'[c] = mine[c] /\ part'[mine[c]] = part[mine[c]] /\ pc'[c] = pc[c]
      BY <2>1, <2>3, <1>2 DEF Inv, Apart, TypeOK
    <3>2. Whole(mine[c])' <=> Whole(mine[c])
      BY <3>1, WholeSame
    <3> QED
      BY <3>1, <3>2 DEF Inv, Progress
  <2>4. CASE c # b /\ mine[c] = NoBuild
    BY <2>1, <2>4 DEF Inv, TypeOK, Staging
  <2> QED
    BY <2>2, <2>3, <2>4
<1>6. PublishedIsWhole'
  <2> SUFFICES ASSUME NEW i \in Builds, place[i] \in {"final", "superseded"}
               PROVE  Whole(i)'
    BY DEF PublishedIsWhole
  <2>1. part'[i] = part[i] /\ Whole(i)
    BY <1>1, <1>2 DEF Inv, PublishedIsWhole
  <2> QED
    BY <2>1 DEF Whole
<1> QED
  BY <1>3, <1>4, <1>5, <1>6 DEF Inv

\* What a builder holds while it writes.
LEMMA HeldFacts ==
    ASSUME Inv, NEW b \in Builders, pc[b] \in Staging
    PROVE  /\ mine[b] \in Builds /\ mine[b] # NoBuild /\ place[mine[b]] = "temp"
           /\ Held(b) \in PartType
           /\ Held(b).claims <= version
           /\ \A n \in 1 .. Len(Held(b).read) :
                  Held(b).claims <= Held(b).read[n] /\ Held(b).read[n] <= version
  BY DEF Inv, TypeOK, Owned, InTime, Held

\* Reading a batch: the version it is read from is the current one, which is no
\* older than the identity.
LEMMA ScanKeeps ==
    ASSUME Inv, TypeOK', NEW b \in Builders, Scan(b)
    PROVE  Inv'
<1> DEFINE old == Held(b)
           new == [old EXCEPT !.read = Append(old.read, version), !.bytes = old.bytes + 1]
<1>1. old \in PartType /\ version \in Nat
  BY HeldFacts DEF Scan, Staging, Inv, TypeOK
<1>2. old.claims <= version
  BY HeldFacts DEF Scan, Staging
<1>3. \A n \in 1 .. Len(old.read) : old.claims <= old.read[n] /\ old.read[n] <= version
  BY HeldFacts DEF Scan, Staging
<1>4. new.claims = old.claims /\ new.read = Append(old.read, version)
  BY <1>1 DEF PartType
<1>5. /\ mine[b] # NoBuild
      /\ part' = [part EXCEPT ![mine[b]] = new]
      /\ UNCHANGED <<version, place, mine, aside, wanted>>
  BY HeldFacts DEF Scan, Staging, builderVars
<1>6. PICK label \in {"clean", "scan"} : Goto(b, label)
  BY DEF Scan
<1>7. old.claims \in Nat /\ old.read \in Seq(Nat)
  BY <1>1 DEF PartType
<1> HIDE DEF old, new
<1>8. ASSUME NEW n \in 1 .. Len(new.read)
      PROVE  new.claims <= new.read[n] /\ new.read[n] <= version
  <2>1. CASE n = Len(old.read) + 1
    BY <2>1, <1>1, <1>2, <1>4, <1>7
  <2>2. CASE n # Len(old.read) + 1
    <3>1. n \in 1 .. Len(old.read) /\ new.read[n] = old.read[n]
      BY <2>2, <1>1, <1>4, <1>7
    <3> QED
      BY <3>1, <1>3, <1>4
  <2> QED
    BY <2>1, <2>2
<1> QED
  BY <1>2, <1>4, <1>5, <1>6, <1>8, WritingSteps

LEMMA ConsolidateKeeps ==
    ASSUME Inv, TypeOK', NEW b \in Builders, Consolidate(b)
    PROVE  Inv'
<1> DEFINE old == Held(b)
           new == [old EXCEPT !.bytes = 2 * old.bytes]
<1>1. /\ old \in PartType /\ mine[b] # NoBuild /\ old.claims <= version
      /\ \A n \in 1 .. Len(old.read) : old.claims <= old.read[n] /\ old.read[n] <= version
  BY HeldFacts DEF Consolidate, Staging
<1>2. new.claims = old.claims /\ new.read = old.read
  BY <1>1 DEF PartType
<1>3. /\ part' = [part EXCEPT ![mine[b]] = new] /\ Len(old.read) = Batches
      /\ UNCHANGED <<version, place, mine, aside, wanted>>
  BY DEF Consolidate, builderVars
<1>4. PICK label \in {"clean", "manifest"} : Goto(b, label)
  BY DEF Consolidate
<1> HIDE DEF old, new
<1> QED
  BY <1>1, <1>2, <1>3, <1>4, WritingSteps

LEMMA WriteManifestKeeps ==
    ASSUME Inv, TypeOK', NEW b \in Builders, WriteManifest(b)
    PROVE  Inv'
<1> DEFINE old == Held(b)
           new == [old EXCEPT !.bytes = old.bytes \div 2, !.manifest = TRUE]
<1>1. /\ old \in PartType /\ mine[b] # NoBuild /\ old.claims <= version
      /\ \A n \in 1 .. Len(old.read) : old.claims <= old.read[n] /\ old.read[n] <= version
  BY HeldFacts DEF WriteManifest, Staging
<1>2. new.claims = old.claims /\ new.read = old.read
  BY <1>1 DEF PartType
<1>3. /\ part' = [part EXCEPT ![mine[b]] = new]
      /\ UNCHANGED <<version, place, mine, aside, wanted>>
  BY DEF WriteManifest, builderVars
<1>4. Len(old.read) = Batches /\ Goto(b, "stage")
  BY DEF WriteManifest, Inv, Progress, Held
<1> HIDE DEF old, new
<1> QED
  BY <1>1, <1>2, <1>3, <1>4, WritingSteps

\* The last validation: batches read between the claimed version and now were,
\* when the claimed version is still the current one, all read from it.
LEMMA StageSeals ==
    ASSUME Inv, NEW b \in Builders, Stage(b), Current(mine[b])
    PROVE  Whole(mine[b])
<1>1. /\ Held(b) \in PartType /\ Len(Held(b).read) = Batches
      /\ Held(b).manifest /\ Held(b).claims = version
  BY HeldFacts DEF Stage, Staging, Inv, Progress, Current, Held
<1>2. \A n \in 1 .. Batches :
          Held(b).claims <= Held(b).read[n] /\ Held(b).read[n] <= version
  BY HeldFacts, <1>1 DEF Stage, Staging
<1>3. Held(b).read \in Seq(Nat) /\ version \in Nat
  BY <1>1 DEF PartType, Inv, TypeOK
<1>4. \A n \in 1 .. Batches : Held(b).read[n] = Held(b).claims
  <2> TAKE n \in 1 .. Batches
  <2>1. Held(b).read[n] \in Nat
    BY <1>1, <1>3
  <2> QED
    BY <2>1, <1>1, <1>2, <1>3
<1>5. Held(b).read = [n \in 1 .. Batches |-> Held(b).claims]
  <2>1. Held(b).read \in [1 .. Batches -> Nat]
    BY <1>1, <1>3
  <2> DEFINE read == Held(b).read
  <2>2. read = [n \in 1 .. Batches |-> read[n]]
    BY <2>1
  <2> HIDE DEF read
  <2>3. [n \in 1 .. Batches |-> read[n]] = [n \in 1 .. Batches |-> Held(b).claims]
    BY <1>4 DEF read
  <2> QED
    BY <2>2, <2>3 DEF read
<1> QED
  BY <1>1, <1>5 DEF Whole, Held

LEMMA StartKeeps ==
    ASSUME Inv, TypeOK', NEW b \in Builders, Start(b)
    PROVE  Inv'
<1>1. /\ UNCHANGED <<version, place, part, mine, aside>>
      /\ wanted' = [wanted EXCEPT ![b] = version]
      /\ pc' = [pc EXCEPT ![b] = "look"]
  BY DEF Start, Goto, treeVars
<1>2. pc'[b] = "look" /\ \A c \in Builders : c # b => pc'[c] = pc[c]
  BY <1>1 DEF Inv, TypeOK
<1>3. Owned' /\ Apart' /\ AsidePublished'
  BY <1>1 DEF Inv, Owned, Apart, AsidePublished
<1>4. InTime'
  BY <1>1 DEF Inv, InTime, TypeOK
<1>5. Progress'
  <2>1. \A i : Whole(i)' <=> Whole(i)
    BY <1>1, WholeSame
  <2> QED
    BY <2>1, <1>1, <1>2 DEF Inv, Progress
<1>6. PublishedIsWhole'
  BY <1>1, WholeSame DEF Inv, PublishedIsWhole
<1> QED
  BY <1>3, <1>4, <1>5, <1>6 DEF Inv

LEMMA MakeTempKeeps ==
    ASSUME Inv, TypeOK', NEW b \in Builders, MakeTemp(b)
    PROVE  Inv'
<1>1. PICK i \in Builds :
          /\ place[i] = "unused"
          /\ place' = [place EXCEPT ![i] = "temp"]
          /\ part' = [part EXCEPT ![i] =
                         [Empty EXCEPT !.claims = wanted[b], !.request = asked[b]]]
          /\ mine' = [mine EXCEPT ![b] = i]
  BY DEF MakeTemp
<1>2. UNCHANGED <<version, aside, wanted>> /\ Goto(b, "scan")
  BY DEF MakeTemp
<1>3. /\ place'[i] = "temp" /\ part'[i].claims = wanted[b] /\ part'[i].read = <<>>
      /\ \A j \in Builds : j # i => place'[j] = place[j] /\ part'[j] = part[j]
  BY <1>1 DEF Inv, TypeOK, Empty
<1>4. mine'[b] = i /\ \A c \in Builders : c # b => mine'[c] = mine[c]
  BY <1>1 DEF Inv, TypeOK
<1>5. pc'[b] = "scan" /\ \A c \in Builders : c # b => pc'[c] = pc[c]
  BY <1>2 DEF Goto, Inv, TypeOK
<1>6. \A c \in Builders : mine[c] # NoBuild => mine[c] # i
  BY <1>1 DEF Inv, Owned
<1>7. Owned' /\ Apart'
  <2>1. \A c \in Builders : mine[c] \in Builds \cup {NoBuild}
    BY DEF Inv, TypeOK
  <2>2. Owned'
    BY <1>3, <1>4, <1>6, <2>1 DEF Inv, Owned
  <2>3. Apart'
    BY <1>4, <1>6 DEF Inv, Apart
  <2> QED
    BY <2>2, <2>3
<1>8. AsidePublished'
  BY <1>1, <1>2, <1>3 DEF Inv, AsidePublished, TypeOK
<1>9. InTime'
  BY <1>2, <1>3 DEF Inv, InTime
<1>10. Progress'
  <2> SUFFICES ASSUME NEW c \in Builders
               PROVE  /\ pc'[c] \in {"manifest", "stage"} => Len(part'[mine'[c]].read) = Batches
                      /\ pc'[c] \in {"exists", "moveaside", "movein"} => Whole(mine[c])'
    BY DEF Progress
  <2>1. CASE c = b
    BY <2>1, <1>5
  <2>2. CASE c # b /\ mine[c] # NoBuild
    <3>1. mine'[c] = mine[c] /\ part'[mine[c]] = part[mine[c]]
      BY <2>2, <1>3, <1>4, <1>6 DEF Inv, TypeOK
    <3> QED
      BY <2>2, <3>1, <1>5, WholeSame DEF Inv, Progress
  <2>3. CASE c # b /\ mine[c] = NoBuild
    BY <2>3, <1>5 DEF Inv, TypeOK, Staging
  <2> QED
    BY <2>1, <2>2, <2>3
<1>11. PublishedIsWhole'
  BY <1>1, <1>3, WholeSame DEF Inv, PublishedIsWhole
<1> QED
  BY <1>7, <1>8, <1>9, <1>10, <1>11 DEF Inv

\* The renames that publish, retire or bring back a directory: it is whole and
\* nobody's temporary any more.
LEMMA RenamingSteps ==
    ASSUME Inv, TypeOK', NEW b \in Builders, NEW i \in Builds, NEW kind,
           kind \in {"final", "superseded"}, Whole(i),
           UNCHANGED <<version, part, wanted>>,
           Named(i, kind), NEW label, Goto(b, label),
           label \in {"manifest", "stage"} => Len(part[mine[b]].read) = Batches,
           label \in {"exists", "moveaside", "movein"} => mine'[b] = mine[b] /\ Whole(mine[b]),
           mine' = mine \/ mine' = [mine EXCEPT ![b] = NoBuild],
           \A c \in Builders : mine'[c] # NoBuild => mine'[c] # i,
           \A c \in Builders : aside'[c] \in {aside[c], i}
    PROVE  Inv'
<1>1. place'[i] = kind /\ \A j \in Builds : j # i => place'[j] = place[j]
  BY DEF Named, Inv, TypeOK
<1>2. \A c \in Builders : mine'[c] # NoBuild => mine'[c] = mine[c]
  BY DEF Inv, TypeOK
<1>3. pc'[b] = label /\ \A c \in Builders : c # b => pc'[c] = pc[c]
  BY DEF Goto, Inv, TypeOK
<1>4. Owned' /\ Apart'
  BY <1>1, <1>2 DEF Inv, Owned, Apart, TypeOK
<1>5. AsidePublished'
  BY <1>1 DEF Inv, AsidePublished, TypeOK
<1>6. InTime'
  BY <1>1 DEF Inv, InTime
<1>7. Progress'
  <2> SUFFICES ASSUME NEW c \in Builders
               PROVE  /\ pc'[c] \in {"manifest", "stage"} => Len(part'[mine'[c]].read) = Batches
                      /\ pc'[c] \in {"exists", "moveaside", "movein"} => Whole(mine[c])'
    BY DEF Progress
  <2>1. \A j : Whole(j)' <=> Whole(j)
    BY WholeSame
  <2>2. CASE mine'[c] = NoBuild
    BY <2>2 DEF TypeOK, Staging
  <2>3. CASE mine'[c] # NoBuild /\ c # b
    BY <2>1, <2>3, <1>2, <1>3 DEF Inv, Progress
  <2>4. CASE mine'[c] # NoBuild /\ c = b
    BY <2>1, <2>4, <1>2, <1>3
  <2> QED
    BY <2>2, <2>3, <2>4
<1>8. PublishedIsWhole'
  BY <1>1, WholeSame DEF Inv, PublishedIsWhole
<1> QED
  BY <1>4, <1>5, <1>6, <1>7, <1>8 DEF Inv

LEMMA MoveAsideKeeps ==
    ASSUME Inv, TypeOK', NEW b \in Builders, MoveAside(b)
    PROVE  Inv'
<1>1. pc[b] = "moveaside" /\ UNCHANGED <<version, part, mine, wanted>>
  BY DEF MoveAside
<1>2. Whole(mine[b])
  BY <1>1 DEF Inv, Progress
<1>3. CASE Goto(b, "clean") /\ UNCHANGED <<place, aside>>
  BY <1>1, <1>3, QuietSteps
<1>4. ASSUME NEW i \in Final, Retire(i), aside' = [aside EXCEPT ![b] = i], Goto(b, "movein")
      PROVE  Inv'
  <2>1. Named(i, "superseded") /\ i \in Builds /\ place[i] = "final"
    BY <1>4 DEF Retire, Named
  <2>2. Whole(i) /\ \A c \in Builders : mine[c] # NoBuild => mine[c] # i
    BY <2>1 DEF Inv, PublishedIsWhole, Owned
  <2>3. \A c \in Builders : aside'[c] \in {aside[c], i}
    BY <1>4 DEF Inv, TypeOK
  <2> QED
    BY <1>1, <1>2, <1>4, <2>1, <2>2, <2>3, RenamingSteps
<1> QED
  BY <1>3, <1>4 DEF MoveAside

LEMMA MoveInKeeps ==
    ASSUME Inv, TypeOK', NEW b \in Builders, MoveIn(b)
    PROVE  Inv'
<1>1. pc[b] = "movein" /\ UNCHANGED <<version, part, aside, wanted>>
  BY DEF MoveIn
<1>2. mine[b] \in Builds /\ mine[b] # NoBuild /\ Whole(mine[b])
  BY <1>1, HeldFacts DEF Staging, Inv, Progress
<1>3. CASE Goto(b, "restore") /\ UNCHANGED <<place, mine>>
  BY <1>1, <1>3, QuietSteps
<1>4. CASE /\ place' = [place EXCEPT ![mine[b]] = "final"]
           /\ mine' = [mine EXCEPT ![b] = NoBuild]
           /\ Goto(b, "verify")
  <2>1. Named(mine[b], "final")
    BY <1>4 DEF Named
  <2>2. \A c \in Builders : mine'[c] # NoBuild => mine'[c] # mine[b]
    BY <1>2, <1>4 DEF Inv, Apart, TypeOK
  <2> QED
    BY <1>1, <1>2, <1>4, <2>1, <2>2, RenamingSteps
<1> QED
  BY <1>3, <1>4 DEF MoveIn

LEMMA RestoreKeeps ==
    ASSUME Inv, TypeOK', NEW b \in Builders, Restore(b)
    PROVE  Inv'
<1>1. Goto(b, "clean") /\ UNCHANGED <<version, part, mine, aside, wanted>>
  BY DEF Restore, AfterRestore, builderVars
<1>2. CASE PutBack(b) /\ place' = [place EXCEPT ![aside[b]] = "final"]
  <2>1. aside[b] \in Builds /\ place[aside[b]] \in {"final", "superseded"}
    BY <1>2 DEF PutBack, Inv, TypeOK, AsidePublished
  <2>2. Whole(aside[b]) /\ Named(aside[b], "final")
    BY <1>2, <2>1 DEF Restore, Named, Inv, PublishedIsWhole
  <2>3. \A c \in Builders : mine'[c] # NoBuild => mine'[c] # aside[b]
    BY <1>1, <2>1 DEF Inv, Owned
  <2> QED
    BY <1>1, <2>1, <2>2, <2>3, RenamingSteps
<1>3. CASE place' = place
  BY <1>1, <1>3, QuietSteps
<1> QED
  BY <1>2, <1>3 DEF Restore

LEMMA CleanKeeps ==
    ASSUME Inv, TypeOK', NEW b \in Builders, Clean(b)
    PROVE  Inv'
<1>1. /\ pc[b] = "clean" /\ UNCHANGED <<version, part>>
      /\ pc' = [pc EXCEPT ![b] = "idle"]
      /\ mine' = [c \in Builders |-> IF c = b THEN NoBuild ELSE mine[c]]
      /\ aside' = [c \in Builders |-> IF c = b THEN NoBuild ELSE aside[c]]
      /\ wanted' = [c \in Builders |-> IF c = b THEN 0 ELSE wanted[c]]
      /\ place' = [i \in Builds |-> IF i = mine[b] THEN "removed" ELSE place[i]]
  BY DEF Clean, Litter, Fail, Return, Forget, Goto
<1>2. mine[b] \in Builds /\ place[mine[b]] = "temp" /\ mine[b] # NoBuild
  BY <1>1, HeldFacts DEF Staging
<1>3. \A i \in Builds : i # mine[b] => place'[i] = place[i]
  BY <1>1
<1>4. \A c \in Builders : c # b => /\ mine'[c] = mine[c] /\ aside'[c] = aside[c]
                                   /\ pc'[c] = pc[c]
  BY <1>1 DEF Inv, TypeOK
<1>5. mine'[b] = NoBuild /\ aside'[b] = NoBuild /\ pc'[b] = "idle"
  BY <1>1 DEF Inv, TypeOK
<1>6. Owned' /\ Apart'
  <2>1. \A c \in Builders : c # b /\ mine[c] # NoBuild => mine[c] # mine[b]
    BY <1>2 DEF Inv, Apart
  <2>2. \A c \in Builders : mine[c] \in Builds \cup {NoBuild}
    BY DEF Inv, TypeOK
  <2>3. Owned'
    BY <1>3, <1>4, <1>5, <2>1, <2>2 DEF Inv, Owned
  <2>4. Apart'
    BY <1>4, <1>5 DEF Inv, Apart
  <2> QED
    BY <2>3, <2>4
<1>7. AsidePublished'
  <2> SUFFICES ASSUME NEW c \in Builders, aside'[c] # NoBuild
               PROVE  place'[aside'[c]] \in {"final", "superseded"}
    BY DEF AsidePublished
  <2>1. /\ aside'[c] = aside[c] /\ aside[c] \in Builds
        /\ place[aside[c]] \in {"final", "superseded"}
    BY <1>4, <1>5 DEF Inv, AsidePublished, TypeOK
  <2> QED
    BY <2>1, <1>2, <1>3
<1>8. InTime'
  BY <1>1 DEF Inv, InTime, TypeOK
<1>9. Progress'
  <2>1. \A i : Whole(i)' <=> Whole(i)
    BY <1>1, WholeSame
  <2> QED
    BY <2>1, <1>1, <1>4, <1>5 DEF Inv, Progress
<1>10. PublishedIsWhole'
  BY <1>1, WholeSame DEF Inv, PublishedIsWhole
<1> QED
  BY <1>6, <1>7, <1>8, <1>9, <1>10 DEF Inv

LEMMA BuildKeeps ==
    ASSUME Inv, TypeOK', NEW b \in Builders, BuilderStep(b)
    PROVE  Inv'
<1> b \in Procs /\ TypeOK
  BY DEF Inv
<1>1. CASE Look(b)
  <2>1. PICK label \in {"preflight", "check"} : Goto(b, label)
    BY <1>1 DEF Look
  <2> QED
    BY <1>1, <2>1, QuietSteps DEF Look, treeVars, builderVars
<1>2. CASE ReadManifest(b)
  <2>1. PICK label \in {"checkFiles", "verifyFiles"} : Goto(b, label)
    BY <1>2 DEF ReadManifest
  <2> QED
    BY <1>2, <2>1, QuietSteps DEF ReadManifest, treeVars, builderVars
<1>3. CASE Decide(b) \/ Preflight(b) \/ Verify(b) \/ Crash(b)
  <2>1. UNCHANGED <<version, place, part>>
    BY <1>3 DEF Decide, Preflight, Verify, Crash, treeVars
  <2>2. \/ \E result : Return(b, result)
        \/ UNCHANGED builderVars /\ \E label \in {"preflight", "mktemp"} : Goto(b, label)
    BY <1>3 DEF Decide, Preflight, Verify, Crash, Fail
  <2>3. CASE \E result : Return(b, result)
    BY <2>1, <2>3, EndingSteps
  <2>4. CASE UNCHANGED builderVars /\ \E label \in {"preflight", "mktemp"} : Goto(b, label)
    BY <2>1, <2>4, QuietSteps DEF builderVars
  <2> QED
    BY <2>2, <2>3, <2>4
<1>4. CASE BuildFails(b)
  BY <1>4, QuietSteps DEF BuildFails, treeVars, builderVars
<1>5. CASE Stage(b)
  <2>1. PICK label \in {"exists", "clean"} :
            Goto(b, label) /\ (label = "exists" => Current(mine[b]))
    BY <1>5 DEF Stage
  <2>2. label = "exists" => Whole(mine[b])
    BY <1>5, <2>1, StageSeals
  <2> QED
    BY <1>5, <2>1, <2>2, QuietSteps DEF Stage, treeVars, builderVars
<1>6. CASE LookAgain(b)
  <2>1. PICK label \in {"movein", "moveaside"} : Goto(b, label)
    BY <1>6 DEF LookAgain
  <2>2. Whole(mine[b])
    BY <1>6 DEF LookAgain, Inv, Progress
  <2> QED
    BY <1>6, <2>1, <2>2, QuietSteps DEF LookAgain, treeVars, builderVars
<1> QED
  BY <1>1, <1>2, <1>3, <1>4, <1>5, <1>6, StartKeeps, MakeTempKeeps, ScanKeeps, ConsolidateKeeps,
     WriteManifestKeeps, MoveAsideKeeps, MoveInKeeps, RestoreKeeps, CleanKeeps DEF BuilderStep

LEMMA ReadKeeps ==
    ASSUME Inv, TypeOK', NEW r \in Readers, ReaderStep(r)
    PROVE  Inv'
<1> r \in Procs /\ r \notin Builders
  BY ProcessesAssumption
<1>1. UNCHANGED <<version, place, part>>
  BY DEF ReaderStep, StartRead, ReadManifest, ReadFiles, Open, treeVars
<1>2. \/ \E result : Return(r, result)
      \/ UNCHANGED builderVars /\ \E label : Goto(r, label)
  BY DEF ReaderStep, StartRead, ReadManifest, ReadFiles, Open, Fail
<1>3. CASE \E result : Return(r, result)
  BY <1>1, <1>3, EndingSteps
<1>4. CASE UNCHANGED builderVars /\ \E label : Goto(r, label)
  BY <1>1, <1>4, QuietSteps DEF builderVars
<1> QED
  BY <1>2, <1>3, <1>4

LEMMA StepInv == Inv /\ [Next]_vars => Inv'
<1> SUFFICES ASSUME Inv, [Next]_vars PROVE Inv'
  OBVIOUS
<1> TypeOK'
  BY TypeStep DEF Inv
<1>1. CASE \E b \in Builders : BuilderStep(b)
  BY <1>1, BuildKeeps
<1>2. CASE \E r \in Readers : ReaderStep(r)
  BY <1>2, ReadKeeps
<1>3. CASE SourceChanges
  <2>1. version' = version + 1 /\ UNCHANGED <<place, part, pc, mine, aside, wanted>>
    BY <1>3 DEF SourceChanges, treeVars, builderVars
  <2>2. \A i : Whole(i)' <=> Whole(i)
    BY <2>1, WholeSame
  <2>3. Owned' /\ Apart' /\ AsidePublished'
    BY <2>1 DEF Inv, Owned, Apart, AsidePublished
  <2>4. Progress' /\ PublishedIsWhole'
    BY <2>1, <2>2 DEF Inv, Progress, PublishedIsWhole
  <2>5. InTime'
    <3> SUFFICES ASSUME NEW i \in At("temp")
                 PROVE  /\ part[i].claims <= version + 1
                        /\ \A n \in 1 .. Len(part[i].read) :
                               part[i].claims <= part[i].read[n] /\ part[i].read[n] <= version + 1
      BY <2>1 DEF Inv, InTime, TypeOK
    <3>1. part[i] \in PartType /\ version \in Nat
      BY DEF Inv, TypeOK
    <3>2. part[i].claims \in Nat /\ part[i].read \in Seq(Nat)
      BY <3>1 DEF PartType
    <3> QED
      BY <3>1, <3>2 DEF Inv, InTime
  <2> QED
    BY <2>3, <2>4, <2>5 DEF Inv
<1>4. CASE UNCHANGED vars
  <2>1. UNCHANGED <<version, place, part, pc, mine, aside, wanted>>
    BY <1>4 DEF vars, treeVars, builderVars
  <2>2. \A i : Whole(i)' <=> Whole(i)
    BY <2>1, WholeSame
  <2>3. Owned' /\ Apart' /\ AsidePublished' /\ InTime'
    BY <2>1 DEF Inv, Owned, Apart, AsidePublished, InTime
  <2>4. Progress' /\ PublishedIsWhole'
    BY <2>1, <2>2 DEF Inv, Progress, PublishedIsWhole
  <2> QED
    BY <2>3, <2>4 DEF Inv
<1> QED
  BY <1>1, <1>2, <1>3, <1>4 DEF Next

LEMMA Invariant == Spec => []Inv
  BY InitInv, StepInv, PTL DEF Spec

\* Whatever builders, failures, crashes and changes of the raw files do, every
\* partition under the date's own name is complete and read from one version.
THEOREM PublishedIsAlwaysWhole == Spec => []PublishedIsWhole
  BY Invariant, PTL DEF Inv

\* What another process has in hand is not touched.
LEMMA HandsOff ==
    ASSUME TypeOK, NEW p \in Procs, NEW b \in Builders, b # p,
           \/ p \in Builders /\ BuilderStep(p)
           \/ p \in Readers /\ ReaderStep(p)
    PROVE  pc'[b] = pc[b] /\ aside'[b] = aside[b]
<1>1. \E label : Goto(p, label)
  BY DEF BuilderStep, ReaderStep, Start, Look, ReadManifest, Decide, Preflight, MakeTemp, Scan,
         Consolidate, WriteManifest, BuildFails, Stage, LookAgain, MoveAside, MoveIn, Restore,
         Clean, Verify, Crash, StartRead, ReadFiles, Open, Fail, Return
<1>2. Forget(p) \/ aside' = aside \/ \E i : aside' = [aside EXCEPT ![p] = i]
  BY DEF BuilderStep, ReaderStep, Start, Look, ReadManifest, Decide, Preflight, MakeTemp, Scan,
         Consolidate, WriteManifest, BuildFails, Stage, LookAgain, MoveAside, MoveIn, Restore,
         Clean, Verify, Crash, StartRead, ReadFiles, Open, Fail, Return, builderVars
<1>3. pc'[b] = pc[b]
  BY <1>1 DEF Goto, TypeOK
<1>4. CASE Forget(p)
  BY <1>3, <1>4 DEF Forget
<1>5. CASE \E i : aside' = [aside EXCEPT ![p] = i]
  BY <1>3, <1>5 DEF TypeOK
<1> QED
  BY <1>2, <1>3, <1>4, <1>5

\* A superseded date that stands nowhere else is in some builder's hand: the
\* rename that takes the date away puts it there, and it lets go of it only
\* when a date stands again, or when it dies or its last rename fails.
LEMMA StandsInit == Init => DateStands
  BY DEF Init, DateStands

LEMMA StandsStep == Inv /\ DateStands /\ [Next]_vars => DateStands'
<1> SUFFICES ASSUME Inv, DateStands, [Next]_vars PROVE DateStands'
  OBVIOUS
<1> TypeOK
  BY DEF Inv
<1>1. ASSUME NEW b \in Builders, BuilderStep(b)
      PROVE  DateStands'
  <2> b \in Procs
    OBVIOUS
  <2>1. \A c \in Builders : c # b /\ Between(c) => Between(c)'
    BY <1>1, HandsOff DEF Between
  <2>2. CASE MoveAside(b)
    <3>1. CASE UNCHANGED <<place, aside>>
      <4>1. ~Between(b) /\ torn' = torn
        BY <2>2 DEF MoveAside, Between
      <4> QED
        BY <2>1, <3>1, <4>1 DEF DateStands
    <3>2. CASE ~UNCHANGED <<place, aside>>
      <4>1. PICK i \in Builds : aside' = [aside EXCEPT ![b] = i] /\ Goto(b, "movein")
        BY <2>2, <3>2 DEF MoveAside
      <4>2. Between(b)'
        BY <4>1 DEF Goto, Between, TypeOK
      <4> QED
        BY <4>2 DEF DateStands
    <3> QED
      BY <3>1, <3>2
  <2>3. CASE MoveIn(b)
    <3>1. mine[b] \in Builds
      BY <2>3, HeldFacts DEF MoveIn, Staging
    <3>2. CASE place' = [place EXCEPT ![mine[b]] = "final"]
      BY <3>1, <3>2 DEF DateStands, TypeOK
    <3>3. CASE UNCHANGED place /\ Goto(b, "restore")
      <4>1. Between(b) => Between(b)'
        BY <2>3, <3>3 DEF MoveIn, Between, Goto, TypeOK
      <4> QED
        BY <2>1, <2>3, <3>3, <4>1 DEF MoveIn, DateStands
    <3> QED
      BY <2>3, <3>2, <3>3 DEF MoveIn
  <2>4. CASE Restore(b)
    <3>1. CASE PutBack(b) /\ place' = [place EXCEPT ![aside[b]] = "final"]
      BY <3>1 DEF PutBack, DateStands, TypeOK
    <3>2. CASE torn'
      BY <3>2 DEF DateStands
    <3>3. CASE ~PutBack(b) /\ UNCHANGED <<place, torn>>
      BY <2>1, <3>3 DEF PutBack, Between, DateStands
    <3> QED
      BY <2>4, <3>1, <3>2, <3>3 DEF Restore
  <2>5. CASE Crash(b)
    <3>1. place' = place /\ torn' = (torn \/ Between(b))
      BY <2>5 DEF Crash, treeVars
    <3> QED
      BY <2>1, <3>1 DEF DateStands, TypeOK
  <2>6. CASE MakeTemp(b) \/ Clean(b)
    <3>1. /\ torn' = torn /\ ~Between(b)
          /\ \A i \in Builds : place[i] = "final" => place'[i] = "final"
          /\ \A i \in Builds : place'[i] = "superseded" => place[i] = "superseded"
      <4>1. torn' = torn /\ ~Between(b)
        BY <2>6 DEF MakeTemp, Clean, Between
      <4>2. CASE MakeTemp(b)
        BY <4>1, <4>2 DEF MakeTemp, TypeOK
      <4>3. CASE Clean(b)
        <5>1. place[mine[b]] = "temp"
          BY <4>3, HeldFacts DEF Clean, Staging
        <5>2. place' = [i \in Builds |-> IF i = mine[b] THEN "removed" ELSE place[i]]
          BY <4>3 DEF Clean, Litter
        <5> QED
          BY <4>1, <5>1, <5>2
      <4> QED
        BY <2>6, <4>2, <4>3
    <3> QED
      BY <2>1, <3>1 DEF DateStands
  <2>7. CASE UNCHANGED <<place, torn>> /\ ~Between(b)
    BY <2>1, <2>7 DEF DateStands
  <2> QED
    BY <1>1, <2>2, <2>3, <2>4, <2>5, <2>6, <2>7
       DEF BuilderStep, Between, Start, Look, ReadManifest, Decide, Preflight, Scan, Consolidate,
           WriteManifest, BuildFails, Stage, LookAgain, Verify, treeVars
<1>2. ASSUME NEW r \in Readers, ReaderStep(r)
      PROVE  DateStands'
  <2>1. r \in Procs /\ \A b \in Builders : b # r
    BY ProcessesAssumption
  <2>2. \A b \in Builders : Between(b) => Between(b)'
    BY <1>2, <2>1, HandsOff DEF Between
  <2>3. UNCHANGED <<place, torn>>
    BY <1>2 DEF ReaderStep, StartRead, ReadManifest, ReadFiles, Open, treeVars
  <2> QED
    BY <2>2, <2>3 DEF DateStands
<1>3. CASE SourceChanges \/ UNCHANGED vars
  <2>1. UNCHANGED <<place, torn, pc, aside>>
    BY <1>3 DEF SourceChanges, vars, treeVars, builderVars
  <2> QED
    BY <2>1 DEF DateStands, Between
<1> QED
  BY <1>1, <1>2, <1>3 DEF Next

\* Nothing that was published is ever removed or reused, and the date stands
\* under its own name unless a builder has it in hand or lost it there.
THEOREM PublishedIsAlwaysKept == Spec => PublishedIsKept
<1>1. Inv /\ [Next]_vars =>
          [\A i \in Builds : place[i] \in {"final", "superseded"} =>
               place'[i] \in {"final", "superseded"}]_vars
  <2> SUFFICES ASSUME Inv, Next, NEW i \in Builds, place[i] \in {"final", "superseded"}
               PROVE  place'[i] \in {"final", "superseded"}
    OBVIOUS
  <2> TypeOK
    BY DEF Inv
  <2>1. CASE place' = place
    BY <2>1
  <2>2. ASSUME NEW b \in Builders,
               Made(b) \/ Retired(b) \/ Published(b) \/ PutBackAgain(b) \/ Removed(b)
        PROVE  place'[i] \in {"final", "superseded"}
    <3>1. pc[b] = "clean" => mine[b] # i
      BY HeldFacts DEF Staging
    <3> QED
      BY <2>2, <3>1 DEF Made, Retired, Published, PutBackAgain, Removed, Named, TypeOK
  <2> QED
    BY <2>1, <2>2, Renames
<1> QED
  BY <1>1, Invariant, StandsInit, StandsStep, PTL DEF Spec, PublishedIsKept

\* A temporary directory leaves that name only by a step of the builder that
\* made it: what a crash left behind is never published nor taken over.
THEOREM TemporariesAreOwned == Spec => OwnTempOnly
<1>1. Inv /\ [Next]_vars =>
          [\A i \in At("temp") : place'[i] # "temp" =>
               \E b \in Builders : mine[b] = i /\ pc'[b] # pc[b]]_vars
  <2> SUFFICES ASSUME Inv, Next, NEW i \in At("temp"), place'[i] # "temp"
               PROVE  \E b \in Builders : mine[b] = i /\ pc'[b] # pc[b]
    OBVIOUS
  <2> TypeOK
    BY DEF Inv
  <2>1. PICK b \in Builders :
            /\ pc'[b] # pc[b]
            /\ Made(b) \/ Retired(b) \/ Published(b) \/ PutBackAgain(b) \/ Removed(b)
    BY Renames
  <2>2. CASE Made(b) \/ Retired(b) \/ PutBackAgain(b)
    BY <2>2 DEF Made, Retired, PutBackAgain, Named, Inv, AsidePublished, TypeOK
  <2>3. CASE Published(b) \/ Removed(b)
    <3>1. mine[b] = i
      BY <2>3 DEF Published, Removed, Named, TypeOK
    <3> QED
      BY <3>1, <2>1
  <2> QED
    BY <2>1, <2>2, <2>3
<1> QED
  BY <1>1, Invariant, PTL DEF Spec, OwnTempOnly

-----------------------------------------------------------------------------
\* One builder at work: what MCCache promises of it alone.

\* What the builder may still add to the cache, and how much it has added.
Owing(b) ==
    CASE pc[b] = "mktemp" -> Required
      [] pc[b] = "scan" -> Required - Len(Held(b).read)
      [] OTHER -> 0

Budgeted(b) ==
    /\ Bytes + Owing(b) <= MaxBytes
    /\ pc[b] = "scan" => Held(b).bytes = Len(Held(b).read) /\ Len(Held(b).read) <= Batches
    /\ pc[b] = "manifest" => Held(b).bytes = 2 * Batches

\* No partition is newer than the raw files, nor than the identity the builder
\* works with; at most one is published, and while the builder renames none.
Dated(b) ==
    /\ \A i \in Builds : place[i] # "unused" => part[i].claims <= version
    /\ pc[b] # "idle" => \A i \in Builds : place[i] # "unused" => part[i].claims <= wanted[b]
    /\ pc[b] \in Staging => part[mine[b]].claims = wanted[b] /\ part[mine[b]].request = asked[b]
    /\ \A i, j \in Builds : place[i] = "final" /\ place[j] = "final" => i = j
    /\ pc[b] \in {"movein", "restore"} => \A i \in Builds : place[i] # "final"
    /\ pc[b] \in {"verify", "verifyFiles"} =>
           \A i \in Builds : place[i] = "final" =>
               part[i].claims = wanted[b] /\ part[i].request = asked[b]

\* A builder that is not between its renames holds nothing aside.
Unswapped(b) ==
    pc[b] \notin {"movein", "restore", "clean", "verify", "verifyFiles"} => aside[b] = NoBuild

\* What a reader has found current stays newer than its call, and so does all
\* that may still take its place.
Shown(b) ==
    \A r \in Readers :
        /\ since[r] <= version
        /\ pc[r] = "checkFiles" /\ seen[r] # NoBuild =>
               place[seen[r]] # "unused" /\ since[r] <= part[seen[r]].claims
        /\ pc[r] = "open" =>
               /\ \A i \in Builds : place[i] = "final" => since[r] <= part[i].claims
               /\ pc[b] \in {"movein", "restore"} /\ aside[b] # NoBuild =>
                      since[r] <= part[aside[b]].claims
               /\ pc[b] # "idle" => since[r] <= wanted[b]

Single(b) ==
    /\ \A c \in Builders \ {b} : pc[c] = "idle"
    /\ Budgeted(b) /\ Dated(b) /\ Unswapped(b) /\ Shown(b)

LEMMA BytesFacts ==
    ASSUME TypeOK
    PROVE  Bytes \in Int /\ \A i \in Builds : Stored(i) \in Nat
<1>1. \A i \in Builds : Stored(i) \in Nat
  BY DEF TypeOK, Stored, PartType
<1> DEFINE f == [i \in Builds |-> Stored(i)]
<1>2. \A i \in 1 .. MaxBuilds : f[i] \in Int
  BY <1>1
<1> HIDE DEF f
<1>3. SumTo(f, MaxBuilds) \in Int
  BY <1>2, SumIsInt, BoundsAssumption
<1> QED
  BY <1>1, <1>3 DEF Bytes, f

LEMMA BytesSame ==
    ASSUME UNCHANGED <<place, part>>
    PROVE  Bytes' = Bytes
  BY DEF Bytes, Stored

\* A directory that changes changes the sum by as much.
LEMMA BytesMove ==
    ASSUME TypeOK, TypeOK', NEW i \in Builds,
           \A k \in Builds : k # i => place'[k] = place[k] /\ part'[k] = part[k]
    PROVE  Bytes' = Bytes - Stored(i) + Stored(i)'
<1> DEFINE f == [k \in Builds |-> Stored(k)]
           g == [k \in Builds |-> Stored(k)']
<1>1. \A k \in Builds : Stored(k) \in Nat /\ Stored(k)' \in Nat
  BY DEF TypeOK, Stored, PartType
<1>2. \A k \in Builds : k # i => Stored(k)' = Stored(k)
  BY DEF Stored
<1>3. \A k \in 1 .. MaxBuilds : f[k] \in Int /\ g[k] \in Int
  BY <1>1
<1>4. \A k \in 1 .. MaxBuilds : k # i => g[k] = f[k]
  BY <1>2
<1>5. f[i] = Stored(i) /\ g[i] = Stored(i)'
  OBVIOUS
<1>6. Bytes = SumTo(f, MaxBuilds) /\ Bytes' = SumTo(g, MaxBuilds)
  BY DEF Bytes
<1> HIDE DEF f, g
<1>7. SumTo(g, MaxBuilds) = SumTo(f, MaxBuilds) - f[i] + g[i]
  BY <1>3, <1>4, SumMoves, BoundsAssumption
<1> QED
  BY <1>5, <1>6, <1>7

LEMMA OwingFacts ==
    ASSUME TypeOK, NEW b \in Builders, Budgeted(b)
    PROVE  /\ Owing(b) \in Nat /\ Bytes <= MaxBytes
           /\ pc[b] = "scan" => Len(Held(b).read) \in Nat
<1>1. Bytes \in Int /\ MaxBytes \in Nat /\ Batches \in Nat
  BY BytesFacts, BoundsAssumption, BatchesAssumption
<1>2. pc[b] = "scan" => Len(Held(b).read) \in Nat
  BY DEF TypeOK, Held, Staging, PartType
<1>3. Owing(b) \in Nat
  BY <1>1, <1>2 DEF Owing, Required, Budgeted
<1> QED
  BY <1>1, <1>2, <1>3 DEF Budgeted

\* Away from the steps that write, the cache must not grow.
LEMMA BudgetCalm ==
    ASSUME TypeOK, NEW b \in Builders, Budgeted(b), Bytes' \in Int, Bytes' <= Bytes,
           pc'[b] \notin {"mktemp", "scan", "manifest"}
    PROVE  Budgeted(b)'
<1>1. Bytes \in Int /\ MaxBytes \in Nat /\ Bytes <= MaxBytes
  BY BytesFacts, OwingFacts, BoundsAssumption
<1>2. Owing(b)' = 0
  BY DEF Owing
<1>3. Bytes' <= MaxBytes
  BY <1>1
<1>4. \A n \in Int : n <= MaxBytes => n + 0 <= MaxBytes
  BY <1>1
<1>5. Bytes' + Owing(b)' <= MaxBytes
  BY <1>2, <1>3, <1>4, Zenon
<1> QED
  BY <1>5 DEF Budgeted

\* What is left to write does not change with the rest.
LEMMA BudgetKept ==
    ASSUME NEW b \in Builders, Budgeted(b), UNCHANGED <<place, part, mine>>, pc'[b] = pc[b]
    PROVE  Budgeted(b)'
<1>1. Bytes' = Bytes
  BY BytesSame
<1>2. Owing(b)' = Owing(b) /\ Held(b)' = Held(b)
  BY DEF Owing, Held
<1> QED
  BY <1>1, <1>2 DEF Budgeted

LEMMA BudgetStep ==
    ASSUME Inv, TypeOK', NEW b \in Builders, Budgeted(b), BuilderStep(b)
    PROVE  Budgeted(b)'
<1>0. TypeOK /\ pc \in [Procs -> Labels] /\ b \in Procs
  BY DEF Inv, TypeOK
<1>1. Bytes \in Int /\ Bytes <= MaxBytes /\ Owing(b) \in Nat /\ \A i \in Builds : Stored(i) \in Nat
  BY <1>0, BytesFacts, OwingFacts
<1>2. ASSUME UNCHANGED <<place, part>>, pc'[b] \notin {"mktemp", "scan", "manifest"}
      PROVE  Budgeted(b)'
  <2>1. Bytes' = Bytes
    BY <1>2, BytesSame
  <2>2. Bytes' \in Int /\ Bytes' <= Bytes
    BY <1>1, <2>1
  <2> QED
    BY <1>0, <1>2, <2>2, BudgetCalm
<1>3. CASE Preflight(b) /\ ~Fail(b)
  <2>1. Bytes + Required <= MaxBytes /\ Goto(b, "mktemp") /\ UNCHANGED <<place, part>>
    BY <1>3 DEF Preflight, treeVars
  <2>2. pc'[b] = "mktemp" /\ Bytes' = Bytes
    BY <1>0, <2>1, BytesSame DEF Goto
  <2>3. Owing(b)' = Required
    BY <2>2 DEF Owing, Required
  <2>4. Bytes' + Owing(b)' <= MaxBytes
    BY <2>1, <2>2, <2>3, Zenon
  <2> QED
    BY <2>2, <2>4 DEF Budgeted
<1>4. CASE MakeTemp(b)
  <2>1. PICK i \in Builds :
            /\ place[i] = "unused" /\ place' = [place EXCEPT ![i] = "temp"]
            /\ part' = [part EXCEPT ![i] = [Empty EXCEPT !.claims = wanted[b], !.request = asked[b]]]
            /\ mine' = [mine EXCEPT ![b] = i]
    BY <1>4 DEF MakeTemp
  <2>2. /\ part'[i].bytes = 0 /\ part'[i].read = <<>> /\ mine'[b] = i
        /\ \A k \in Builds : k # i => place'[k] = place[k] /\ part'[k] = part[k]
    BY <1>0, <2>1 DEF TypeOK, Empty
  <2>3. Stored(i) = 0 /\ Stored(i)' = 0
    BY <1>0, <2>1, <2>2 DEF Stored, TypeOK
  <2>4. Bytes' = Bytes - 0 + 0
    BY <1>0, <2>2, <2>3, BytesMove
  <2>5. pc[b] = "mktemp" /\ pc'[b] = "scan"
    BY <1>0, <1>4 DEF MakeTemp, Goto
  <2>6. Held(b)' = part'[i]
    BY <2>2 DEF Held
  <2>7. Held(b)'.bytes = Len(Held(b)'.read) /\ Len(Held(b)'.read) = 0
    BY <2>2, <2>6
  <2>8. Owing(b) = Required
    BY <2>5 DEF Owing
  <2>9. Owing(b)' = Required - Len(Held(b)'.read)
    BY <2>5 DEF Owing, Required
  <2>10. Required \in Nat /\ Batches \in Nat
    BY BatchesAssumption DEF Required
  <2>11. Required - 0 = Required /\ Bytes - 0 + 0 = Bytes
    BY <2>10, <1>1
  <2>12. Bytes' + Owing(b)' <= MaxBytes
    BY <2>4, <2>7, <2>8, <2>9, <2>11, Zenon DEF Budgeted
  <2> QED
    BY <2>5, <2>7, <2>10, <2>12 DEF Budgeted
<1>5. ASSUME pc[b] \in {"scan", "manifest"}, NEW new \in PartType,
             part' = [part EXCEPT ![mine[b]] = new], UNCHANGED <<place, mine>>
      PROVE  /\ Held(b)' = new /\ Bytes' = Bytes - Held(b).bytes + new.bytes
             /\ Held(b).bytes \in Nat /\ Held(b).read \in Seq(Nat) /\ new.bytes \in Nat
  <2>1. mine[b] \in Builds /\ place[mine[b]] = "temp" /\ Held(b) \in PartType
    BY <1>5, HeldFacts DEF Staging
  <2>2. part'[mine[b]] = new /\ \A k \in Builds : k # mine[b] => place'[k] = place[k] /\ part'[k] = part[k]
    BY <1>0, <1>5, <2>1 DEF TypeOK
  <2>3. Stored(mine[b]) = Held(b).bytes
    BY <2>1 DEF Stored, Held
  <2>4. Stored(mine[b])' = new.bytes
    BY <1>5, <2>1, <2>2 DEF Stored
  <2>5. Bytes' = Bytes - Stored(mine[b]) + part'[mine[b]].bytes
    <3> PICK i \in Builds : i = mine[b]
      BY <2>1
    <3>1. Bytes' = Bytes - Stored(i) + Stored(i)'
      BY <1>0, <2>2, BytesMove
    <3>2. Stored(i)' = part'[i].bytes
      BY <1>5, <2>1 DEF Stored
    <3> QED
      BY <3>1, <3>2, Zenon
  <2>6. Held(b)' = new
    BY <1>5, <2>2 DEF Held
  <2> QED
    BY <1>5, <2>1, <2>2, <2>3, <2>5, <2>6 DEF PartType
<1>6. CASE Scan(b)
  <2> DEFINE old == Held(b)
             new == [old EXCEPT !.read = Append(old.read, version), !.bytes = old.bytes + 1]
  <2>1. old \in PartType /\ version \in Nat /\ pc[b] = "scan"
    BY <1>0, <1>6, HeldFacts DEF Scan, Staging, TypeOK
  <2>2. old.read \in Seq(Nat) /\ old.bytes \in Nat /\ Len(old.read) \in Nat
    BY <2>1 DEF PartType
  <2>3. new \in PartType /\ new.read = Append(old.read, version) /\ new.bytes = old.bytes + 1
    <3>1. Append(old.read, version) \in Seq(Nat) /\ old.bytes + 1 \in Nat
      BY <2>1, <2>2
    <3>2. new \in PartType
      BY <2>1, <3>1, PartUpdates
    <3>3. new.read = Append(old.read, version) /\ new.bytes = old.bytes + 1
      BY <2>1 DEF PartType
    <3> QED
      BY <3>2, <3>3
  <2>4. /\ part' = [part EXCEPT ![mine[b]] = new] /\ UNCHANGED <<place, mine>>
        /\ Len(old.read) < Batches
    BY <1>6 DEF Scan, builderVars
  <2>5. Len(new.read) = Len(old.read) + 1
    BY <2>2, <2>3
  <2> HIDE DEF old, new
  <2>6. Held(b)' = new /\ Bytes' = Bytes - old.bytes + new.bytes
    BY <1>5, <2>1, <2>3, <2>4 DEF old
  <2>7. old.bytes = Len(old.read) /\ Owing(b) = Required - Len(old.read) /\ Bytes + Owing(b) <= MaxBytes
    BY <2>1 DEF Budgeted, Owing, old
  <2>8. /\ Bytes - old.bytes + new.bytes = Bytes + 1
        /\ Bytes + 1 <= MaxBytes
        /\ (Bytes + 1) + (Required - Len(new.read)) <= MaxBytes
        /\ (Bytes + 1) + 0 <= MaxBytes
        /\ new.bytes = Len(new.read) /\ Len(new.read) <= Batches
    <3>1. Batches \in Nat /\ MaxBytes \in Nat /\ Required = 2 * Batches
      BY BatchesAssumption, BoundsAssumption DEF Required
    <3>2. PICK n \in Nat : n = Len(old.read)
      BY <2>2
    <3>3. /\ old.bytes = n /\ new.bytes = n + 1 /\ Len(new.read) = n + 1 /\ n < Batches
          /\ Bytes + (2 * Batches - n) <= MaxBytes
      BY <2>3, <2>4, <2>5, <2>7, <3>1, <3>2, Zenon
    <3>4. n \in Nat /\ n < Batches /\ Batches \in Nat /\ MaxBytes \in Nat
      BY <3>1, <3>2, <3>3
    <3>5. \A x \in Int : x + (2 * Batches - n) <= MaxBytes =>
              /\ x - n + (n + 1) = x + 1
              /\ x + 1 <= MaxBytes /\ (x + 1) + 0 <= MaxBytes
              /\ (x + 1) + (2 * Batches - (n + 1)) <= MaxBytes
      BY <3>4
    <3>6. n + 1 <= Batches
      BY <3>4
    <3>7. Bytes - old.bytes + new.bytes = Bytes + 1
      <4>1. Bytes - n + (n + 1) = Bytes + 1
        BY <1>1, <3>3, <3>5, Zenon
      <4>2. old.bytes = n /\ new.bytes = n + 1
        BY <3>3
      <4> QED
        BY <4>1, <4>2, Zenon
    <3>8. Bytes + 1 <= MaxBytes /\ (Bytes + 1) + 0 <= MaxBytes
      BY <1>1, <3>3, <3>5, Zenon
    <3>9. (Bytes + 1) + (Required - Len(new.read)) <= MaxBytes
      BY <1>1, <3>1, <3>3, <3>5, Zenon
    <3>10. new.bytes = Len(new.read) /\ Len(new.read) <= Batches
      BY <3>3, <3>6, Zenon
    <3> QED
      BY <3>7, <3>8, <3>9, <3>10
  <2>9. pc'[b] \in {"clean", "scan"}
    BY <1>0, <1>6 DEF Scan, Goto
  <2>10. CASE pc'[b] = "scan"
    <3>1. Owing(b)' = Required - Len(new.read)
      BY <2>6, <2>10 DEF Owing, Required
    <3>2. Bytes' + Owing(b)' <= MaxBytes
      BY <2>6, <2>8, <3>1, Zenon
    <3> QED
      BY <2>6, <2>8, <2>10, <3>2 DEF Budgeted
  <2>11. CASE pc'[b] = "clean"
    <3>1. Owing(b)' = 0
      BY <2>11 DEF Owing
    <3>2. Bytes' + Owing(b)' <= MaxBytes
      BY <2>6, <2>8, <3>1, Zenon
    <3> QED
      BY <2>11, <3>2 DEF Budgeted
  <2> QED
    BY <2>9, <2>10, <2>11
<1>7. CASE Consolidate(b)
  <2> DEFINE old == Held(b)
             new == [old EXCEPT !.bytes = 2 * old.bytes]
  <2>1. old \in PartType /\ pc[b] = "scan"
    BY <1>0, <1>7, HeldFacts DEF Consolidate, Staging
  <2>2. old.read \in Seq(Nat) /\ old.bytes \in Nat /\ Len(old.read) = Batches /\ Batches \in Nat
    BY <1>7, <2>1, BatchesAssumption DEF Consolidate, PartType
  <2>3. new \in PartType /\ new.bytes = 2 * old.bytes
    <3>1. old.read \in Seq(Nat) /\ 2 * old.bytes \in Nat
      BY <2>2
    <3>2. new \in PartType
      BY <2>1, <3>1, PartUpdates
    <3>3. new.bytes = 2 * old.bytes
      BY <2>1 DEF PartType
    <3> QED
      BY <3>2, <3>3
  <2>4. part' = [part EXCEPT ![mine[b]] = new] /\ UNCHANGED <<place, mine>>
    BY <1>7 DEF Consolidate, builderVars
  <2> HIDE DEF old, new
  <2>6. Held(b)' = new /\ Bytes' = Bytes - old.bytes + new.bytes
    BY <1>5, <2>1, <2>3, <2>4 DEF old
  <2>7. old.bytes = Len(old.read) /\ Owing(b) = Required - Len(old.read) /\ Bytes + Owing(b) <= MaxBytes
    BY <2>1 DEF Budgeted, Owing, old
  <2>8. /\ (Bytes - old.bytes + new.bytes) + 0 <= MaxBytes
        /\ new.bytes = 2 * Batches
    BY <1>1, <2>2, <2>3, <2>7, BoundsAssumption DEF Required
  <2>9. pc'[b] \in {"clean", "manifest"}
    BY <1>0, <1>7 DEF Consolidate, Goto
  <2>10. Owing(b)' = 0
    BY <2>9 DEF Owing
  <2>11. Bytes' + Owing(b)' <= MaxBytes
    BY <2>6, <2>8, <2>10, Zenon
  <2> QED
    BY <2>6, <2>8, <2>9, <2>11 DEF Budgeted
<1>8. CASE WriteManifest(b)
  <2> DEFINE old == Held(b)
             new == [old EXCEPT !.bytes = old.bytes \div 2, !.manifest = TRUE]
  <2>1. old \in PartType /\ pc[b] = "manifest"
    BY <1>0, <1>8, HeldFacts DEF WriteManifest, Staging
  <2>2. old.bytes = 2 * Batches /\ Batches \in Nat /\ old.bytes \in Nat
    BY <2>1, BatchesAssumption DEF Budgeted, PartType
  <2>3. new \in PartType /\ new.bytes = Batches
    <3>1. old.bytes \div 2 = Batches
      BY <2>2
    <3>2. old.read \in Seq(Nat) /\ old.bytes \div 2 \in Nat
      BY <2>1, <2>2, <3>1 DEF PartType
    <3> QED
      BY <2>1, <3>1, <3>2, PartUpdates DEF PartType
  <2>4. /\ part' = [part EXCEPT ![mine[b]] = new] /\ UNCHANGED <<place, mine>>
        /\ pc'[b] = "stage"
    BY <1>0, <1>8 DEF WriteManifest, Goto, builderVars
  <2> HIDE DEF old, new
  <2>6. Bytes' = Bytes - old.bytes + new.bytes
    BY <1>5, <2>1, <2>3, <2>4 DEF old
  <2>7. Bytes - old.bytes + new.bytes \in Int /\ Bytes - old.bytes + new.bytes <= Bytes
    BY <1>1, <2>2, <2>3
  <2>8. Bytes' \in Int /\ Bytes' <= Bytes
    BY <2>6, <2>7
  <2> QED
    BY <1>0, <2>4, <2>8, BudgetCalm
<1>9. CASE MoveAside(b) \/ MoveIn(b) \/ Restore(b) \/ Clean(b)
  <2>1. part' = part /\ pc'[b] \notin {"mktemp", "scan", "manifest"}
    <3>1. part' = part
      BY <1>9 DEF MoveAside, MoveIn, Restore, Clean
    <3>2. \E label \in {"clean", "movein", "verify", "restore", "idle"} : Goto(b, label)
      BY <1>9 DEF MoveAside, MoveIn, Restore, Clean, AfterRestore, Fail, Return
    <3> QED
      BY <1>0, <3>1, <3>2 DEF Goto
  <2>2. \/ place' = place
        \/ \E i \in Builds : /\ place[i] \notin {"unused", "removed"}
                             /\ \E kind \in {"final", "superseded", "removed"} : Named(i, kind)
    <3>1. CASE MoveAside(b)
      BY <3>1 DEF MoveAside, Retire, Named
    <3>2. CASE MoveIn(b)
      BY <3>2, HeldFacts DEF MoveIn, Staging, Named
    <3>3. CASE Restore(b)
      <4>1. aside[b] # NoBuild => aside[b] \in Builds /\ place[aside[b]] \in {"final", "superseded"}
        BY <1>0 DEF Inv, AsidePublished, TypeOK
      <4> QED
        BY <3>3, <4>1 DEF Restore, PutBack, Named
    <3>4. CASE Clean(b)
      <4>1. mine[b] \in Builds /\ place[mine[b]] = "temp"
        BY <3>4, HeldFacts DEF Clean, Staging
      <4>2. place' = [place EXCEPT ![mine[b]] = "removed"]
        BY <1>0, <3>4, <4>1 DEF Clean, Litter, TypeOK
      <4> QED
        BY <4>1, <4>2 DEF Named
    <3> QED
      BY <1>9, <3>1, <3>2, <3>3, <3>4
  <2>3. CASE place' = place
    BY <1>2, <2>1, <2>3
  <2>4. ASSUME NEW i \in Builds, place[i] \notin {"unused", "removed"},
               NEW kind \in {"final", "superseded", "removed"}, Named(i, kind)
        PROVE  Budgeted(b)'
    <3>1. place'[i] = kind /\ \A k \in Builds : k # i => place'[k] = place[k] /\ part'[k] = part[k]
      BY <1>0, <2>1, <2>4 DEF Named, TypeOK
    <3>2. Bytes' = Bytes - Stored(i) + Stored(i)'
      BY <1>0, <3>1, BytesMove
    <3>3. Stored(i)' \in {0, Stored(i)} /\ Stored(i) \in Nat
      BY <1>1, <2>1, <2>4, <3>1 DEF Stored
    <3>4. PICK n \in Nat : n = Stored(i)' /\ n <= Stored(i)
      BY <3>3
    <3>5. Bytes - Stored(i) + n \in Int /\ Bytes - Stored(i) + n <= Bytes
      BY <1>1, <3>3, <3>4
    <3>6. Bytes' \in Int /\ Bytes' <= Bytes
      BY <3>2, <3>4, <3>5, Zenon
    <3> QED
      BY <1>0, <2>1, <3>6, BudgetCalm
  <2> QED
    BY <2>2, <2>3, <2>4
<1>10. CASE \/ Start(b) \/ Look(b) \/ ReadManifest(b) \/ Decide(b) \/ BuildFails(b) \/ Stage(b)
            \/ LookAgain(b) \/ Verify(b) \/ Crash(b)
  <2>1. UNCHANGED <<place, part>>
    BY <1>10 DEF Start, Look, ReadManifest, Decide, BuildFails, Stage, LookAgain,
                 Verify, Crash, treeVars
  <2>2. \E label \in {"look", "preflight", "check", "checkFiles", "verifyFiles", "idle", "clean",
                      "exists", "movein", "moveaside"} : Goto(b, label)
    BY <1>10 DEF Start, Look, ReadManifest, Decide, BuildFails, Stage, LookAgain,
                 Verify, Crash, Fail, Return
  <2>3. pc'[b] \notin {"mktemp", "scan", "manifest"}
    BY <1>0, <2>2 DEF Goto
  <2> QED
    BY <1>2, <2>1, <2>3
<1>11. CASE Preflight(b) /\ Fail(b)
  <2>1. UNCHANGED <<place, part>> /\ Goto(b, "idle")
    BY <1>11 DEF Preflight, treeVars, Fail, Return
  <2>2. pc'[b] \notin {"mktemp", "scan", "manifest"}
    BY <1>0, <2>1 DEF Goto
  <2> QED
    BY <1>2, <2>1, <2>2
<1> QED
  BY <1>3, <1>4, <1>6, <1>7, <1>8, <1>9, <1>10, <1>11 DEF BuilderStep

\* Steps that leave the directories alone, and the builder with what it has.
LEMMA DatedCalm ==
    ASSUME NEW b \in Builders, Dated(b), pc[b] # "idle",
           UNCHANGED <<version, place, part, mine, wanted, asked>>,
           pc'[b] \in Staging => pc[b] \in Staging,
           pc'[b] \in {"movein", "restore"} =>
               pc[b] \in {"movein", "restore"} \/ \A i \in Builds : place[i] # "final",
           pc'[b] \in {"verify", "verifyFiles"} => pc[b] \in {"verify", "verifyFiles"}
    PROVE  Dated(b)'
  BY DEF Dated

\* Nothing is asked of a builder that is done but that it left one date.
LEMMA DatedAtRest ==
    ASSUME NEW b \in Builders, Dated(b), pc'[b] = "idle", version' = version, part' = part,
           \A i \in Builds : place'[i] = place[i] \/ (place'[i] = "removed" /\ place[i] # "unused")
    PROVE  Dated(b)'
  BY DEF Dated, Staging

LEMMA DatedStep ==
    ASSUME Inv, TypeOK', NEW b \in Builders, Dated(b), BuilderStep(b)
    PROVE  Dated(b)'
<1>0. TypeOK /\ TypeOK' /\ pc \in [Procs -> Labels] /\ b \in Procs /\ version' = version
  <2>1. version' = version
    BY DEF BuilderStep, Start, Look, ReadManifest, Decide, Preflight, MakeTemp, Scan,
           Consolidate, WriteManifest, BuildFails, Stage, LookAgain, MoveAside, MoveIn, Restore,
           Clean, Verify, Crash
  <2> QED
    BY <2>1 DEF Inv, TypeOK
<1>1. CASE Start(b)
  <2>1. pc'[b] = "look" /\ UNCHANGED <<place, part>> /\ wanted'[b] = version
    BY <1>0, <1>1 DEF Start, Goto, treeVars, TypeOK
  <2>2. pc'[b] \notin Staging /\ pc'[b] \notin {"movein", "restore", "verify", "verifyFiles"}
    BY <2>1 DEF Staging
  <2> QED
    BY <1>0, <2>1, <2>2 DEF Dated
<1>2. CASE UNCHANGED <<place, part>> /\ pc'[b] = "idle"
  <2>1. place' = place /\ part' = part
    BY <1>2
  <2>2. \A i \in Builds : place'[i] = place[i] \/ (place'[i] = "removed" /\ place[i] # "unused")
    BY <2>1
  <2> QED
    BY <1>0, <1>2, <2>1, <2>2, DatedAtRest
<1>3. CASE Clean(b)
  <2>1. pc'[b] = "idle" /\ part' = part /\ pc[b] = "clean"
    BY <1>0, <1>3 DEF Clean, Fail, Return, Goto
  <2>2. place[mine[b]] = "temp"
    BY <2>1, HeldFacts DEF Staging
  <2>3. place' = [i \in Builds |-> IF i \in {mine[b]} THEN "removed" ELSE place[i]]
    BY <1>3 DEF Clean, Litter
  <2>4. \A i \in Builds : place'[i] = place[i] \/ (place'[i] = "removed" /\ place[i] # "unused")
    BY <2>2, <2>3
  <2> QED
    BY <1>0, <2>1, <2>4, DatedAtRest
<1>4. ASSUME \/ Look(b) \/ ReadManifest(b) \/ Decide(b)
             \/ Preflight(b) \/ BuildFails(b) \/ Stage(b) \/ LookAgain(b),
             pc'[b] # "idle"
      PROVE  Dated(b)'
  <2>1. /\ UNCHANGED <<place, part, mine, wanted, asked>> /\ pc[b] # "idle"
        /\ \E label \in {"preflight", "check", "checkFiles", "verifyFiles", "mktemp", "clean",
                         "exists", "movein", "moveaside"} : Goto(b, label)
    BY <1>0, <1>4 DEF Look, ReadManifest, Decide, Preflight, BuildFails, Stage, LookAgain,
                      Fail, Return, Goto, treeVars, builderVars
  <2>2. /\ pc'[b] \in Staging => pc[b] \in Staging
        /\ pc'[b] \in {"movein", "restore"} => \A i \in Builds : place[i] # "final"
        /\ pc'[b] \in {"verify", "verifyFiles"} => pc[b] \in {"verify", "verifyFiles"}
    BY <1>0, <1>4, <2>1 DEF Look, ReadManifest, Decide, Preflight, BuildFails, Stage, LookAgain,
                            Fail, Return, Goto, Staging
  <2> QED
    BY <1>0, <2>1, <2>2, DatedCalm
<1>5. CASE MakeTemp(b)
  <2>1. PICK i \in Builds :
            /\ place[i] = "unused" /\ place' = [place EXCEPT ![i] = "temp"]
            /\ part' = [part EXCEPT ![i] = [Empty EXCEPT !.claims = wanted[b], !.request = asked[b]]]
            /\ mine' = [mine EXCEPT ![b] = i]
    BY <1>5 DEF MakeTemp
  <2>2. /\ part'[i].claims = wanted[b] /\ part'[i].request = asked[b] /\ mine'[b] = i
        /\ place'[i] = "temp"
        /\ \A k \in Builds : k # i => place'[k] = place[k] /\ part'[k] = part[k]
    <3>1. mine'[b] = i /\ place'[i] = "temp"
      BY <1>0, <2>1 DEF TypeOK
    <3>2. \A k \in Builds : k # i => place'[k] = place[k] /\ part'[k] = part[k]
      BY <1>0, <2>1 DEF TypeOK
    <3>3. part'[i] = [Empty EXCEPT !.claims = wanted[b], !.request = asked[b]]
      BY <1>0, <2>1 DEF TypeOK
    <3> QED
      BY <3>1, <3>2, <3>3 DEF Empty
  <2>3. /\ pc[b] = "mktemp" /\ pc'[b] = "scan" /\ UNCHANGED <<wanted, asked>>
        /\ wanted[b] <= version /\ wanted[b] \in Nat
    BY <1>0, <1>5 DEF MakeTemp, Goto, Inv, InTime, TypeOK
  <2>4. \A k \in Builds : place'[k] # "unused" =>
            part'[k].claims <= version' /\ part'[k].claims <= wanted'[b]
    BY <1>0, <2>2, <2>3 DEF Dated
  <2>5. \A k, l \in Builds : place'[k] = "final" /\ place'[l] = "final" => k = l
    BY <2>2 DEF Dated
  <2> QED
    BY <2>2, <2>3, <2>4, <2>5 DEF Dated
<1>6. CASE Scan(b) \/ Consolidate(b) \/ WriteManifest(b)
  <2>0. pc[b] \in {"scan", "manifest"} /\ UNCHANGED <<place, mine, wanted, asked>>
    BY <1>6 DEF Scan, Consolidate, WriteManifest, builderVars
  <2>1. mine[b] \in Builds /\ Held(b) \in PartType
    BY <2>0, HeldFacts DEF Staging
  <2>2. /\ part'[mine[b]].claims = Held(b).claims /\ part'[mine[b]].request = Held(b).request
        /\ \A k \in Builds : k # mine[b] => part'[k] = part[k]
    <3>1. PICK new :
              /\ part' = [part EXCEPT ![mine[b]] = new]
              /\ new.claims = Held(b).claims /\ new.request = Held(b).request
      <4>1. CASE Scan(b)
        <5> DEFINE new == [Held(b) EXCEPT !.read = Append(Held(b).read, version), !.bytes = Held(b).bytes + 1]
        <5>1. new.claims = Held(b).claims /\ new.request = Held(b).request
          BY <2>1 DEF PartType
        <5>2. part' = [part EXCEPT ![mine[b]] = new]
          BY <4>1 DEF Scan
        <5> HIDE DEF new
        <5> QED
          BY <5>1, <5>2
      <4>2. CASE Consolidate(b)
        <5> DEFINE new == [Held(b) EXCEPT !.bytes = 2 * Held(b).bytes]
        <5>1. new.claims = Held(b).claims /\ new.request = Held(b).request
          BY <2>1 DEF PartType
        <5>2. part' = [part EXCEPT ![mine[b]] = new]
          BY <4>2 DEF Consolidate
        <5> HIDE DEF new
        <5> QED
          BY <5>1, <5>2
      <4>3. CASE WriteManifest(b)
        <5> DEFINE new == [Held(b) EXCEPT !.bytes = Held(b).bytes \div 2, !.manifest = TRUE]
        <5>1. new.claims = Held(b).claims /\ new.request = Held(b).request
          BY <2>1 DEF PartType
        <5>2. part' = [part EXCEPT ![mine[b]] = new]
          BY <4>3 DEF WriteManifest
        <5> HIDE DEF new
        <5> QED
          BY <5>1, <5>2
      <4> QED
        BY <1>6, <4>1, <4>2, <4>3
    <3> QED
      BY <1>0, <2>1, <3>1 DEF TypeOK
  <2>3. \A k \in Builds : part'[k].claims = part[k].claims /\ part'[k].request = part[k].request
    BY <2>1, <2>2 DEF Held
  <2>4. pc'[b] \in {"scan", "clean", "manifest", "stage"}
    BY <1>0, <1>6 DEF Scan, Consolidate, WriteManifest, Goto
  <2>5. pc[b] \in Staging /\ pc'[b] # "idle" /\ pc[b] # "idle"
        /\ pc'[b] \notin {"movein", "restore", "verify", "verifyFiles"}
    BY <2>0, <2>4 DEF Staging
  <2> QED
    BY <1>0, <2>0, <2>1, <2>3, <2>5 DEF Dated
<1>7. CASE MoveAside(b)
  <2>1. pc[b] = "moveaside" /\ UNCHANGED <<part, mine, wanted, asked>>
    BY <1>7 DEF MoveAside
  <2>2. CASE Goto(b, "clean") /\ place' = place
    <3>1. pc'[b] = "clean" /\ pc[b] \in Staging
      BY <1>0, <2>1, <2>2 DEF Goto, Staging
    <3> QED
      BY <1>0, <2>1, <2>2, <3>1, DatedCalm
  <2>3. ASSUME NEW i \in Builds, place[i] = "final", Retire(i), Goto(b, "movein")
        PROVE  Dated(b)'
    <3>1. /\ pc'[b] = "movein" /\ place'[i] = "superseded"
          /\ \A k \in Builds : k # i => place'[k] = place[k]
      BY <1>0, <2>3 DEF Retire, Goto, TypeOK
    <3>2. \A k \in Builds : place'[k] # "final"
      BY <2>3, <3>1 DEF Dated
    <3> QED
      BY <1>0, <2>1, <2>3, <3>1, <3>2 DEF Dated, Staging
  <2> QED
    BY <1>7, <2>2, <2>3 DEF MoveAside
<1>8. CASE MoveIn(b)
  <2>1. pc[b] = "movein" /\ pc[b] \in Staging /\ UNCHANGED <<part, wanted, asked>>
    BY <1>8 DEF MoveIn, Staging
  <2>2. CASE Goto(b, "restore") /\ UNCHANGED <<place, mine>>
    <3>1. pc'[b] = "restore"
      BY <1>0, <2>2 DEF Goto
    <3> QED
      BY <1>0, <2>1, <2>2, <3>1, DatedCalm
  <2>3. CASE place' = [place EXCEPT ![mine[b]] = "final"] /\ Goto(b, "verify")
    <3>1. /\ mine[b] \in Builds /\ pc'[b] = "verify" /\ place'[mine[b]] = "final"
          /\ place[mine[b]] = "temp"
          /\ \A k \in Builds : k # mine[b] => place'[k] = place[k]
      BY <1>0, <2>1, <2>3, HeldFacts DEF Goto, TypeOK
    <3>2. \A k \in Builds : place'[k] = "final" => k = mine[b]
      BY <2>1, <3>1 DEF Dated
    <3>3. part[mine[b]].claims = wanted[b] /\ part[mine[b]].request = asked[b]
      BY <2>1 DEF Dated
    <3> QED
      BY <1>0, <2>1, <3>1, <3>2, <3>3 DEF Dated, Staging
  <2> QED
    BY <1>8, <2>2, <2>3 DEF MoveIn
<1>9. CASE Restore(b)
  <2>1. /\ pc[b] = "restore" /\ pc'[b] = "clean" /\ UNCHANGED <<part, mine, wanted, asked>>
        /\ pc[b] \in Staging
    BY <1>0, <1>9 DEF Restore, AfterRestore, Goto, builderVars, Staging
  <2>2. CASE place' = place
    BY <1>0, <2>1, <2>2, DatedCalm
  <2>3. CASE aside[b] # NoBuild /\ place' = [place EXCEPT ![aside[b]] = "final"]
    <3>1. /\ aside[b] \in Builds /\ place[aside[b]] # "unused"
          /\ \A k \in Builds : k # aside[b] => place'[k] = place[k]
      BY <1>0, <2>3 DEF Inv, AsidePublished, TypeOK
    <3>2. \A k \in Builds : place'[k] = "final" => k = aside[b]
      BY <2>1, <3>1 DEF Dated
    <3> QED
      BY <1>0, <2>1, <3>1, <3>2 DEF Dated
  <2> QED
    BY <1>9, <2>2, <2>3 DEF Restore, PutBack
<1>10. ASSUME \/ Look(b) \/ ReadManifest(b) \/ Decide(b) \/ Preflight(b) \/ BuildFails(b)
              \/ Stage(b) \/ LookAgain(b) \/ Verify(b) \/ Crash(b),
              pc'[b] = "idle"
       PROVE  Dated(b)'
  <2>1. UNCHANGED <<place, part>>
    BY <1>10 DEF Look, ReadManifest, Decide, Preflight, BuildFails, Stage, LookAgain, Verify,
                 Crash, treeVars
  <2> QED
    BY <1>2, <1>10, <2>1
<1>11. CASE Verify(b) \/ Crash(b)
  <2>1. pc'[b] = "idle"
    BY <1>0, <1>11 DEF Verify, Crash, Fail, Return, Goto
  <2> QED
    BY <1>10, <1>11, <2>1
<1> QED
  BY <1>1, <1>3, <1>4, <1>5, <1>6, <1>7, <1>8, <1>9, <1>10, <1>11 DEF BuilderStep

LEMMA UnswappedStep ==
    ASSUME Inv, NEW b \in Builders, Unswapped(b), BuilderStep(b)
    PROVE  Unswapped(b)'
<1>0. TypeOK /\ pc \in [Procs -> Labels] /\ b \in Procs
  BY DEF Inv, TypeOK
<1>1. ASSUME pc'[b] \in {"idle", "movein", "restore", "clean", "verify", "verifyFiles"},
             pc'[b] = "idle" => aside'[b] = NoBuild
      PROVE  Unswapped(b)'
  BY <1>1 DEF Unswapped
<1>2. ASSUME NEW result, Return(b, result)
      PROVE  Unswapped(b)'
  <2>1. aside' = [c \in Builders |-> IF c = b THEN NoBuild ELSE aside[c]]
    BY <1>2 DEF Return, Forget
  <2> QED
    BY <2>1 DEF Unswapped
<1>3. CASE Decide(b) \/ Preflight(b)
  <2>1. \/ \E result : Return(b, result)
        \/ aside' = aside /\ pc[b] \in {"checkFiles", "preflight"}
    BY <1>3 DEF Decide, Preflight, Fail, builderVars
  <2> QED
    BY <1>2, <2>1 DEF Unswapped
<1>4. CASE Clean(b) \/ Verify(b) \/ Crash(b)
  BY <1>2, <1>4 DEF Clean, Verify, Crash, Fail
<1>5. CASE \/ Start(b) \/ Look(b) \/ MakeTemp(b) \/ Scan(b) \/ Consolidate(b) \/ WriteManifest(b)
           \/ BuildFails(b) \/ Stage(b) \/ LookAgain(b)
  <2>1. /\ aside' = aside
        /\ pc[b] \notin {"movein", "restore", "clean", "verify", "verifyFiles"}
    BY <1>5 DEF Start, Look, MakeTemp, Scan, Consolidate, WriteManifest, BuildFails, Stage,
                LookAgain, builderVars
  <2> QED
    BY <2>1 DEF Unswapped
<1>6. CASE ReadManifest(b)
  <2>1. aside' = aside /\ (pc[b] = "check" \/ pc'[b] = "verifyFiles")
    BY <1>0, <1>6 DEF ReadManifest, Goto, builderVars
  <2> QED
    BY <2>1 DEF Unswapped
<1>7. CASE MoveAside(b) \/ MoveIn(b) \/ Restore(b)
  <2>1. pc'[b] \in {"clean", "movein", "verify", "restore"}
    BY <1>0, <1>7 DEF MoveAside, MoveIn, Restore, AfterRestore, Goto
  <2> QED
    BY <1>1, <2>1
<1> QED
  BY <1>3, <1>4, <1>5, <1>6, <1>7 DEF BuilderStep

\* A directory in use stays in use and keeps its identity.
LEMMA ClaimsKept ==
    ASSUME Inv, NEW b \in Builders, BuilderStep(b), NEW i \in Builds, place[i] # "unused"
    PROVE  place'[i] # "unused" /\ part'[i].claims = part[i].claims
<1>0. TypeOK /\ Next
  BY DEF Inv, Next
<1>1. place'[i] # "unused"
  <2>1. \/ place' = place
        \/ \E c \in Builders : Made(c) \/ Retired(c) \/ Published(c) \/ PutBackAgain(c) \/ Removed(c)
    BY <1>0, Renames
  <2>2. ASSUME NEW k, NEW kind \in {"temp", "final", "superseded", "removed"}, Named(k, kind)
        PROVE  place'[i] # "unused"
    BY <1>0, <2>2 DEF Named, TypeOK
  <2> QED
    BY <2>1, <2>2 DEF Made, Retired, Published, PutBackAgain, Removed
<1>2. CASE MakeTemp(b)
  BY <1>0, <1>2 DEF MakeTemp, TypeOK
<1>3. ASSUME pc[b] \in Staging, NEW new, part' = [part EXCEPT ![mine[b]] = new],
             new.claims = Held(b).claims
      PROVE  part'[i].claims = part[i].claims
  BY <1>0, <1>3 DEF TypeOK, Held
<1>4. CASE Scan(b) \/ Consolidate(b) \/ WriteManifest(b)
  <2>1. pc[b] \in Staging /\ Held(b) \in PartType
    <3>1. pc[b] \in Staging
      BY <1>4 DEF Scan, Consolidate, WriteManifest, Staging
    <3> QED
      BY <3>1, HeldFacts
  <2>2. CASE Scan(b)
    <3> DEFINE new == [Held(b) EXCEPT !.read = Append(Held(b).read, version), !.bytes = Held(b).bytes + 1]
    <3>1. new.claims = Held(b).claims /\ part' = [part EXCEPT ![mine[b]] = new]
      BY <2>1, <2>2 DEF PartType, Scan
    <3> HIDE DEF new
    <3> QED
      BY <1>1, <1>3, <2>1, <3>1
  <2>3. CASE Consolidate(b)
    <3> DEFINE new == [Held(b) EXCEPT !.bytes = 2 * Held(b).bytes]
    <3>1. new.claims = Held(b).claims /\ part' = [part EXCEPT ![mine[b]] = new]
      BY <2>1, <2>3 DEF PartType, Consolidate
    <3> HIDE DEF new
    <3> QED
      BY <1>1, <1>3, <2>1, <3>1
  <2>4. CASE WriteManifest(b)
    <3> DEFINE new == [Held(b) EXCEPT !.bytes = Held(b).bytes \div 2, !.manifest = TRUE]
    <3>1. new.claims = Held(b).claims /\ part' = [part EXCEPT ![mine[b]] = new]
      BY <2>1, <2>4 DEF PartType, WriteManifest
    <3> HIDE DEF new
    <3> QED
      BY <1>1, <1>3, <2>1, <3>1
  <2> QED
    BY <1>4, <2>2, <2>3, <2>4
<1>5. CASE ~MakeTemp(b) /\ ~Scan(b) /\ ~Consolidate(b) /\ ~WriteManifest(b)
  <2>1. part' = part
    BY <1>5 DEF BuilderStep, Start, Look, ReadManifest, Decide, Preflight, BuildFails, Stage,
                LookAgain, MoveAside, MoveIn, Restore, Clean, Verify, Crash, treeVars
  <2> QED
    BY <1>1, <2>1
<1> QED
  BY <1>1, <1>2, <1>4, <1>5

LEMMA ReadersStand ==
    ASSUME Inv, NEW b \in Builders, BuilderStep(b)
    PROVE  \A r \in Readers : pc'[r] = pc[r] /\ since'[r] = since[r] /\ seen'[r] = seen[r]
<1>0. /\ pc \in [Procs -> Labels] /\ seen \in [Procs -> Builds \cup {NoBuild}]
      /\ since \in [Readers -> Nat] /\ \A r \in Readers : r # b
  BY ProcessesAssumption DEF Inv, TypeOK
<1>1. ASSUME NEW result, Return(b, result)
      PROVE  \A r \in Readers : pc'[r] = pc[r] /\ since'[r] = since[r] /\ seen'[r] = seen[r]
  BY <1>0, <1>1 DEF Return, Forget, Goto
<1>2. ASSUME NEW label, Goto(b, label), since' = since,
             seen' = seen \/ \E i : seen' = [seen EXCEPT ![b] = i]
      PROVE  \A r \in Readers : pc'[r] = pc[r] /\ since'[r] = since[r] /\ seen'[r] = seen[r]
  BY <1>0, <1>2 DEF Goto
<1>3. CASE Decide(b) \/ Preflight(b) \/ Clean(b) \/ Verify(b) \/ Crash(b)
  <2>1. \/ \E result : Return(b, result)
        \/ \E label : Goto(b, label) /\ since' = since /\ seen' = seen
    BY <1>3 DEF Decide, Preflight, Clean, Verify, Crash, Fail
  <2> QED
    BY <1>1, <1>2, <2>1
<1>4. CASE ReadManifest(b)
  <2>1. since' = since /\ (\E label : Goto(b, label)) /\ \E i : seen' = [seen EXCEPT ![b] = i]
    BY <1>4 DEF ReadManifest
  <2> QED
    BY <1>2, <2>1
<1>5. CASE \/ Start(b) \/ Look(b) \/ MakeTemp(b) \/ Scan(b) \/ Consolidate(b) \/ WriteManifest(b)
           \/ BuildFails(b) \/ Stage(b) \/ LookAgain(b) \/ MoveAside(b) \/ MoveIn(b) \/ Restore(b)
  <2>1. since' = since /\ seen' = seen /\ \E label : Goto(b, label)
    BY <1>5 DEF Start, Look, MakeTemp, Scan, Consolidate, WriteManifest, BuildFails, Stage,
                LookAgain, MoveAside, MoveIn, Restore
  <2> QED
    BY <1>2, <2>1
<1> QED
  BY <1>3, <1>4, <1>5 DEF BuilderStep

\* What a builder does to the date a reader has found current: it is only
\* replaced by a newer one, or put back.
LEMMA ShownStep ==
    ASSUME Inv, TypeOK', NEW b \in Builders, Dated(b), Unswapped(b), Shown(b), BuilderStep(b)
    PROVE  Shown(b)'
<1>0. /\ TypeOK /\ pc \in [Procs -> Labels] /\ b \in Procs /\ wanted \in [Builders -> Nat]
      /\ version' = version
  <2>1. version' = version
    BY DEF BuilderStep, Start, Look, ReadManifest, Decide, Preflight, MakeTemp, Scan,
           Consolidate, WriteManifest, BuildFails, Stage, LookAgain, MoveAside, MoveIn, Restore,
           Clean, Verify, Crash
  <2> QED
    BY <2>1 DEF Inv, TypeOK
<1> SUFFICES ASSUME NEW r \in Readers
             PROVE  /\ since[r] <= version
                    /\ pc[r] = "checkFiles" /\ seen[r] # NoBuild =>
                           place'[seen[r]] # "unused" /\ since[r] <= part'[seen[r]].claims
                    /\ pc[r] = "open" =>
                           /\ \A i \in Builds : place'[i] = "final" => since[r] <= part'[i].claims
                           /\ pc'[b] \in {"movein", "restore"} /\ aside'[b] # NoBuild =>
                                  since[r] <= part'[aside'[b]].claims
                           /\ pc'[b] # "idle" => since[r] <= wanted'[b]
  BY <1>0, ReadersStand DEF Shown
<1>1. since[r] <= version
  BY DEF Shown
<1>2. ASSUME pc[r] = "checkFiles", seen[r] # NoBuild
      PROVE  place'[seen[r]] # "unused" /\ since[r] <= part'[seen[r]].claims
  <2>1. seen[r] \in Builds /\ place[seen[r]] # "unused" /\ since[r] <= part[seen[r]].claims
    BY <1>0, <1>2 DEF Shown, TypeOK
  <2> QED
    BY <2>1, ClaimsKept
<1>3. ASSUME pc[r] = "open", NEW i \in Builds, place'[i] = "final"
      PROVE  since[r] <= part'[i].claims
  <2>1. CASE place[i] = "final"
    BY <1>3, <2>1, ClaimsKept DEF Shown
  <2>2. CASE place[i] # "final"
    <3>1. \/ MoveIn(b) /\ i = mine[b]
          \/ Restore(b) /\ i = aside[b] /\ aside[b] # NoBuild
      <4>1. place' # place
        BY <1>3, <2>2
      <4>2. MakeTemp(b) \/ MoveAside(b) \/ MoveIn(b) \/ Restore(b) \/ Clean(b)
        BY <4>1 DEF BuilderStep, Start, Look, ReadManifest, Decide, Preflight, Scan, Consolidate,
                    WriteManifest, BuildFails, Stage, LookAgain, Verify, Crash, treeVars
      <4>3. ~MakeTemp(b)
        BY <1>0, <1>3, <2>2 DEF MakeTemp, TypeOK
      <4>4. ~MoveAside(b)
        BY <1>0, <1>3, <2>2 DEF MoveAside, Retire, TypeOK
      <4>5. ~Clean(b)
        BY <1>0, <1>3, <2>2 DEF Clean, TypeOK
      <4>6. CASE MoveIn(b)
        BY <1>0, <1>3, <2>2, <4>6 DEF MoveIn, TypeOK
      <4>7. CASE Restore(b)
        BY <1>0, <1>3, <2>2, <4>7 DEF Restore, PutBack, TypeOK
      <4> QED
        BY <4>2, <4>3, <4>4, <4>5, <4>6, <4>7
    <3>2. CASE MoveIn(b) /\ i = mine[b]
      <4>1. pc[b] = "movein" /\ part' = part /\ pc[b] \in Staging
        BY <3>2 DEF MoveIn, Staging
      <4> QED
        BY <1>3, <3>2, <4>1 DEF Dated, Shown
    <3>3. CASE Restore(b) /\ i = aside[b] /\ aside[b] # NoBuild
      <4>1. pc[b] = "restore" /\ part' = part
        BY <3>3 DEF Restore
      <4> QED
        BY <1>3, <3>3, <4>1 DEF Shown
    <3> QED
      BY <3>1, <3>2, <3>3
  <2> QED
    BY <2>1, <2>2
<1>4. ASSUME pc[r] = "open", pc'[b] \in {"movein", "restore"}, aside'[b] # NoBuild
      PROVE  since[r] <= part'[aside'[b]].claims
  <2>1. MoveAside(b) \/ MoveIn(b) \/ LookAgain(b)
    <3>1. ~Return(b, outcome'[b])
      BY <1>0, <1>4 DEF Return, Goto
    <3>2. ASSUME NEW result PROVE ~Return(b, result)
      BY <1>0, <1>4 DEF Return, Goto
    <3>3. ASSUME NEW label, Goto(b, label) PROVE label \in {"movein", "restore"}
      BY <1>0, <1>4, <3>3 DEF Goto
    <3> QED
      BY <3>2, <3>3 DEF BuilderStep, Start, Look, ReadManifest, Decide, Preflight, MakeTemp, Scan,
         Consolidate, WriteManifest, BuildFails, Stage, Restore, AfterRestore, Clean, Verify, Crash, Fail
  <2>2. CASE LookAgain(b)
    BY <1>4, <2>2 DEF LookAgain, Unswapped, builderVars
  <2>3. CASE MoveIn(b)
    <3>1. pc[b] = "movein" /\ part' = part /\ aside' = aside
      BY <2>3 DEF MoveIn
    <3> QED
      BY <1>4, <3>1 DEF Shown
  <2>4. CASE MoveAside(b)
    <3>1. part' = part /\ pc[b] = "moveaside"
      BY <2>4 DEF MoveAside
    <3>2. CASE aside' = aside
      BY <1>4, <3>1, <3>2 DEF Unswapped
    <3>3. CASE \E i \in Builds : place[i] = "final" /\ aside' = [aside EXCEPT ![b] = i]
      BY <1>0, <1>4, <3>1, <3>3 DEF Shown, TypeOK
    <3> QED
      BY <2>4, <3>2, <3>3 DEF MoveAside
  <2> QED
    BY <2>1, <2>2, <2>3, <2>4
<1>5. ASSUME pc[r] = "open", pc'[b] # "idle"
      PROVE  since[r] <= wanted'[b]
  <2>1. CASE Start(b)
    BY <1>0, <1>1, <2>1 DEF Start
  <2>2. CASE ~Start(b)
    <3>1. wanted' = wanted /\ pc[b] # "idle"
      <4>1. ASSUME NEW result PROVE ~Return(b, result)
        BY <1>0, <1>5 DEF Return, Goto
      <4> QED
        BY <2>2, <4>1 DEF BuilderStep, Look, ReadManifest, Decide, Preflight, MakeTemp, Scan,
           Consolidate, WriteManifest, BuildFails, Stage, LookAgain, MoveAside, MoveIn, Restore,
           Clean, Verify, Crash, Fail, builderVars
    <3> QED
      BY <1>5, <3>1 DEF Shown
  <2> QED
    BY <2>1, <2>2
<1> QED
  BY <1>1, <1>2, <1>3, <1>4, <1>5

\* A reader's steps leave the builders, the directories and the other readers alone.
LEMMA ReaderFrame ==
    ASSUME TypeOK, NEW r \in Readers, ReaderStep(r)
    PROVE  /\ UNCHANGED <<version, place, part, mine, aside, wanted, asked>>
           /\ \A p \in Procs \ {r} : pc'[p] = pc[p]
           /\ \A s \in Readers \ {r} : since'[s] = since[s] /\ seen'[s] = seen[s]
<1>0. /\ pc \in [Procs -> Labels] /\ seen \in [Procs -> Builds \cup {NoBuild}]
      /\ since \in [Readers -> Nat] /\ mine \in [Builders -> Builds \cup {NoBuild}]
      /\ aside \in [Builders -> Builds \cup {NoBuild}] /\ wanted \in [Builders -> Nat]
      /\ asked \in [Builders -> Requests \cup {NoRequest}]
      /\ r \in Procs /\ \A b \in Builders : b # r
  BY ProcessesAssumption DEF TypeOK
<1>1. UNCHANGED <<version, place, part>>
  BY DEF ReaderStep, StartRead, ReadManifest, ReadFiles, Open, treeVars
<1>2. ASSUME NEW result, Return(r, result)
      PROVE  /\ UNCHANGED <<mine, aside, wanted, asked>>
             /\ \A p \in Procs \ {r} : pc'[p] = pc[p]
             /\ \A s \in Readers \ {r} : since'[s] = since[s] /\ seen'[s] = seen[s]
  <2>1. UNCHANGED <<mine, aside, wanted, asked>>
    BY <1>0, <1>2 DEF Return, Forget
  <2> QED
    BY <1>0, <1>2, <2>1 DEF Return, Forget, Goto
<1>3. CASE StartRead(r)
  BY <1>0, <1>1, <1>3 DEF StartRead, Goto, builderVars
<1>4. CASE ReadManifest(r)
  BY <1>0, <1>1, <1>4 DEF ReadManifest, Goto, builderVars
<1>5. CASE ReadFiles(r)
  <2>1. CASE Validated(r)
    BY <1>0, <1>1, <1>5, <2>1 DEF ReadFiles, Goto, builderVars
  <2>2. CASE ~Validated(r)
    BY <1>1, <1>2, <1>5, <2>2 DEF ReadFiles, Fail
  <2> QED
    BY <2>1, <2>2
<1>6. CASE Open(r)
  BY <1>1, <1>2, <1>6 DEF Open, Fail
<1> QED
  BY <1>3, <1>4, <1>5, <1>6 DEF ReaderStep

\* What a reader finds current is the newest there is, and nothing that may
\* take its place is older.
LEMMA ReaderShown ==
    ASSUME Inv, NEW b \in Builders, Dated(b), Shown(b), NEW r \in Readers, ReaderStep(r)
    PROVE  Shown(b)'
<1>0. /\ TypeOK /\ pc \in [Procs -> Labels] /\ seen \in [Procs -> Builds \cup {NoBuild}]
      /\ since \in [Readers -> Nat] /\ version \in Nat /\ wanted \in [Builders -> Nat]
      /\ r \in Procs /\ b \in Procs /\ b # r
  BY ProcessesAssumption DEF Inv, TypeOK
<1>1. /\ UNCHANGED <<version, place, part, mine, aside, wanted, asked>>
      /\ \A p \in Procs \ {r} : pc'[p] = pc[p]
      /\ \A s \in Readers \ {r} : since'[s] = since[s] /\ seen'[s] = seen[s]
  BY <1>0, ReaderFrame
<1>2. pc'[b] = pc[b]
  BY <1>0, <1>1
<1>3. ASSUME NEW s \in Readers, s # r
      PROVE  /\ since'[s] <= version
             /\ pc'[s] = "checkFiles" /\ seen'[s] # NoBuild =>
                    place[seen'[s]] # "unused" /\ since'[s] <= part[seen'[s]].claims
             /\ pc'[s] = "open" =>
                    /\ \A i \in Builds : place[i] = "final" => since'[s] <= part[i].claims
                    /\ pc[b] \in {"movein", "restore"} /\ aside[b] # NoBuild =>
                           since'[s] <= part[aside[b]].claims
                    /\ pc[b] # "idle" => since'[s] <= wanted[b]
  BY <1>1, <1>3 DEF Shown
<1>4. /\ since'[r] <= version
      /\ pc'[r] = "checkFiles" /\ seen'[r] # NoBuild =>
             place[seen'[r]] # "unused" /\ since'[r] <= part[seen'[r]].claims
      /\ pc'[r] = "open" =>
             /\ \A i \in Builds : place[i] = "final" => since'[r] <= part[i].claims
             /\ pc[b] \in {"movein", "restore"} /\ aside[b] # NoBuild =>
                    since'[r] <= part[aside[b]].claims
             /\ pc[b] # "idle" => since'[r] <= wanted[b]
  <2>1. ASSUME NEW result, Return(r, result)
        PROVE  pc'[r] = "idle" /\ since'[r] = 0
    BY <1>0, <2>1 DEF Return, Forget, Goto
  <2>2. CASE pc'[r] = "idle" /\ since'[r] = 0
    BY <1>0, <2>2
  <2>3. CASE StartRead(r)
    BY <1>0, <2>3 DEF StartRead, Goto
  <2>4. CASE ReadManifest(r)
    <3>1. since' = since /\ pc'[r] \in {"checkFiles", "verifyFiles"}
      BY <1>0, <2>4 DEF ReadManifest, Goto
    <3>2. seen'[r] # NoBuild => seen'[r] \in Final /\ Current(seen'[r])
      BY <1>0, <2>4 DEF ReadManifest
    <3> QED
      BY <3>1, <3>2 DEF Shown, Current
  <2>5. CASE ReadFiles(r) /\ Validated(r)
    <3>1. pc[r] = "checkFiles" /\ since' = since /\ pc'[r] = "open"
      BY <1>0, <2>5 DEF ReadFiles, Goto
    <3> DEFINE found == seen[r]
    <3>2. found \in Builds /\ place[found] = "final"
      BY <1>0, <2>5 DEF Validated
    <3>3. since[r] <= part[found].claims /\ since[r] <= version
      BY <3>1, <3>2 DEF Shown
    <3>4. \A i \in Builds : place[i] = "final" => i = found
      BY <3>2 DEF Dated
    <3>5. pc[b] \notin {"movein", "restore"}
      BY <3>2 DEF Dated
    <3>6. pc[b] # "idle" => part[found].claims <= wanted[b]
      BY <3>2 DEF Dated
    <3>7. part[found].claims \in Nat /\ since[r] \in Nat /\ wanted[b] \in Nat
      BY <1>0, <3>2 DEF TypeOK, PartType
    <3> HIDE DEF found
    <3>8. pc[b] # "idle" => since[r] <= wanted[b]
      BY <3>3, <3>6, <3>7
    <3> QED
      BY <3>1, <3>3, <3>4, <3>5, <3>8
  <2>6. CASE (ReadFiles(r) /\ ~Validated(r)) \/ Open(r)
    BY <2>1, <2>2, <2>6 DEF ReadFiles, Open, Fail
  <2> QED
    BY <2>3, <2>4, <2>5, <2>6 DEF ReaderStep
<1> QED
  BY <1>1, <1>2, <1>3, <1>4 DEF Shown

LEMMA ReaderSingle ==
    ASSUME Inv, NEW b \in Builders, Single(b), NEW r \in Readers, ReaderStep(r)
    PROVE  Single(b)'
<1>1. UNCHANGED <<version, place, part, mine, aside, wanted, asked>>
  BY ReaderFrame DEF Inv
<1>2. \A c \in Builders : pc'[c] = pc[c]
  BY ReaderFrame, ProcessesAssumption DEF Inv
<1>3. Budgeted(b)'
  BY <1>1, <1>2, BudgetKept DEF Single
<1>4. Dated(b)'
  BY <1>1, <1>2 DEF Single, Dated
<1>5. Unswapped(b)'
  BY <1>1, <1>2 DEF Single, Unswapped
<1>6. Shown(b)'
  BY ReaderShown DEF Single
<1> QED
  BY <1>2, <1>3, <1>4, <1>5, <1>6 DEF Single

LEMMA SourceSingle ==
    ASSUME Inv, NEW b \in Builders, Single(b), SourceChanges \/ UNCHANGED vars
    PROVE  Single(b)'
<1>1. UNCHANGED <<place, part, pc, mine, aside, wanted, asked, seen, since>>
  BY DEF SourceChanges, vars, treeVars, builderVars
<1>2. version \in Nat /\ version <= version' /\ version' \in Nat
  BY DEF SourceChanges, vars, Inv, TypeOK
<1>3. Budgeted(b)'
  BY <1>1, BudgetKept DEF Single
<1>4. Dated(b)'
  <2>1. \A i \in Builds : part[i].claims \in Nat
    BY DEF Inv, TypeOK, PartType
  <2>2. \A i \in Builds : place[i] # "unused" => part[i].claims <= version'
    BY <1>2, <2>1 DEF Single, Dated
  <2> QED
    BY <1>1, <2>2 DEF Single, Dated
<1>5. Unswapped(b)'
  BY <1>1 DEF Single, Unswapped
<1>6. Shown(b)'
  <2>1. \A r \in Readers : since[r] \in Nat
    BY DEF Inv, TypeOK
  <2>2. \A r \in Readers : since[r] <= version'
    BY <1>2, <2>1 DEF Single, Shown
  <2> QED
    BY <1>1, <2>2 DEF Single, Shown
<1> QED
  BY <1>1, <1>3, <1>4, <1>5, <1>6 DEF Single

\* A builder that steps was at work, or is from then on.
LEMMA StepIsAtWork ==
    ASSUME TypeOK, NEW c \in Builders, BuilderStep(c)
    PROVE  pc[c] # "idle" \/ pc'[c] # "idle"
  BY DEF TypeOK, BuilderStep, Start, Look, ReadManifest, Decide, Preflight, MakeTemp, Scan,
         Consolidate, WriteManifest, BuildFails, Stage, LookAgain, MoveAside, MoveIn, Restore,
         Clean, Verify, Crash, Goto

LEMMA BuilderSingle ==
    ASSUME Inv, TypeOK', NEW b \in Builders, Single(b), NEW c \in Builders, BuilderStep(c),
           \A d \in Builders \ {b} : pc'[d] = "idle"
    PROVE  Single(b)'
<1>1. c = b
  BY StepIsAtWork DEF Single, Inv
<1>2. BuilderStep(b)
  BY <1>1
<1>3. Budgeted(b)'
  BY <1>2, BudgetStep DEF Single
<1>4. Dated(b)'
  BY <1>2, DatedStep DEF Single
<1>5. Unswapped(b)'
  BY <1>2, UnswappedStep DEF Single
<1>6. Shown(b)'
  BY <1>2, ShownStep DEF Single
<1> QED
  BY <1>3, <1>4, <1>5, <1>6 DEF Single

LEMMA InitSingle ==
    ASSUME Init, NEW b \in Builders
    PROVE  Single(b)
<1>0. TypeOK
  BY InitInv DEF Inv
<1>1. Budgeted(b)
  <2>1. \A i \in Builds : Stored(i) = 0
    BY DEF Init, Stored
  <2> DEFINE f == [i \in Builds |-> Stored(i)]
  <2>2. \A i \in 1 .. MaxBuilds : f[i] = 0
    BY <2>1
  <2>3. Bytes = SumTo(f, MaxBuilds)
    BY DEF Bytes
  <2> HIDE DEF f
  <2>4. Bytes = 0
    BY <2>2, <2>3, SumOfZeros, BoundsAssumption
  <2>5. pc[b] = "idle" /\ Owing(b) = 0
    BY DEF Init, Owing
  <2> QED
    BY <2>4, <2>5, BoundsAssumption DEF Budgeted
<1>2. Dated(b) /\ Unswapped(b) /\ Shown(b)
  BY DEF Init, Dated, Unswapped, Shown, Staging
<1> QED
  BY <1>1, <1>2 DEF Init, Single

-----------------------------------------------------------------------------
\* The specification that TLC runs: some of the builders may be active.

AloneInv ==
    /\ Inv
    /\ active \subseteq Builders
    /\ \A b \in Builders : active = {b} => Single(b)

LEMMA AloneIsOne ==
    ASSUME active \subseteq Builders, Alone
    PROVE  \E b \in Builders : active = {b}
<1>1. IsFiniteSet(active)
  BY ProcessesAssumption, FS_Subset
<1> QED
  BY <1>1, FS_Singleton DEF Alone

LEMMA InitAlone == MCInit => AloneInv
  BY InitInv, InitSingle DEF MCInit, AloneInv

LEMMA AloneStep ==
    ASSUME AloneInv, [MCNext]_<<vars, active>>
    PROVE  AloneInv'
<1>1. [Next]_vars /\ active' = active
  BY DEF MCNext
<1>2. TypeOK' /\ Inv'
  BY <1>1, TypeStep, StepInv DEF AloneInv, Inv
<1>3. ASSUME NEW b \in Builders, active = {b}
      PROVE  Single(b)'
  <2>1. Inv /\ Single(b)
    BY <1>3 DEF AloneInv
  <2>2. CASE UNCHANGED vars
    BY <2>1, <2>2, SourceSingle
  <2>3. CASE MCNext
    <3>1. \A d \in Builders \ {b} : pc'[d] = "idle"
      BY <1>3, <2>3 DEF MCNext
    <3>2. CASE \E c \in Builders : BuilderStep(c)
      BY <1>2, <2>1, <3>1, <3>2, BuilderSingle
    <3>3. CASE \E r \in Readers : ReaderStep(r)
      BY <2>1, <3>3, ReaderSingle
    <3>4. CASE SourceChanges
      BY <2>1, <3>4, SourceSingle
    <3> QED
      BY <2>3, <3>2, <3>3, <3>4 DEF MCNext, Next
  <2> QED
    BY <2>2, <2>3
<1> QED
  BY <1>1, <1>2, <1>3 DEF AloneInv

\* One builder alone never takes the cache over its limit, although the space is
\* checked once, from an estimate, before the scan, and crashes leave
\* temporaries behind (builder.py's preflight and the check after each batch).
THEOREM BudgetIsHeldAlone == MCSpec => []BudgetHeldAlone
<1>1. AloneInv => BudgetHeldAlone
  <2> SUFFICES ASSUME AloneInv, Alone PROVE BudgetHeld
    BY DEF BudgetHeldAlone
  <2>1. PICK b \in Builders : active = {b}
    BY AloneIsOne DEF AloneInv
  <2>2. TypeOK /\ Budgeted(b)
    BY <2>1 DEF AloneInv, Inv, Single
  <2> QED
    BY <2>2, OwingFacts DEF BudgetHeld
<1>2. AloneInv /\ [MCNext]_<<vars, active>> => AloneInv'
  BY AloneStep
<1> QED
  BY <1>1, <1>2, InitAlone, PTL DEF MCSpec

\* A call ends with a result by one of these steps.
LEMMA ReaderAnswers ==
    ASSUME TypeOK, NEW r \in Readers, Next, Answered(r, {"read"})
    PROVE  \E i \in Final : pc[r] = "open" /\ outcome'[r] = Result("read", i)
                            /\ part' = part
<1>0. /\ pc \in [Procs -> Labels] /\ outcome \in [Procs -> ResultType]
      /\ r \in Procs /\ \A b \in Builders : b # r
  BY ProcessesAssumption DEF TypeOK
<1>1. pc[r] # "idle" /\ pc'[r] = "idle" /\ outcome'[r].state = "read"
  BY DEF Answered
<1>2. ReaderStep(r)
  <2>1. ASSUME NEW b \in Builders, BuilderStep(b) PROVE pc'[r] = pc[r]
    <3>1. ASSUME NEW label, Goto(b, label) PROVE pc'[r] = pc[r]
      BY <1>0, <3>1 DEF Goto
    <3>2. \E label : Goto(b, label)
      BY <2>1 DEF BuilderStep, Start, Look, ReadManifest, Decide, Preflight, MakeTemp, Scan,
         Consolidate, WriteManifest, BuildFails, Stage, LookAgain, MoveAside, MoveIn, Restore,
         Clean, Verify, Crash, Fail, Return
    <3> QED
      BY <3>1, <3>2
  <2>2. ASSUME NEW s \in Readers, s # r, ReaderStep(s) PROVE pc'[r] = pc[r]
    BY <1>0, <2>2, ReaderFrame
  <2>3. SourceChanges => pc' = pc
    BY DEF SourceChanges
  <2> QED
    BY <1>1, <2>1, <2>2, <2>3 DEF Next
<1>3. ASSUME NEW state, NEW i, Return(r, Result(state, i))
      PROVE  state = "read" /\ outcome'[r] = Result("read", i)
  <2>1. outcome'[r] = Result(state, i)
    BY <1>0, <1>3 DEF Return
  <2> QED
    BY <1>1, <2>1 DEF Result
<1>4. ~Fail(r)
  BY <1>3 DEF Fail
<1>5. ASSUME NEW label, Goto(r, label) PROVE label = "idle"
  BY <1>0, <1>1, <1>5 DEF Goto
<1>6. Open(r)
  BY <1>2, <1>4, <1>5 DEF ReaderStep, StartRead, ReadManifest, ReadFiles
<1>7. PICK i \in Final : Return(r, Result("read", i))
  BY <1>4, <1>6 DEF Open
<1>8. pc[r] = "open" /\ part' = part
  BY <1>6 DEF Open, treeVars
<1>9. outcome'[r] = Result("read", i)
  BY <1>3, <1>7
<1> QED
  BY <1>8, <1>9

LEMMA BuilderAnswers ==
    ASSUME TypeOK, NEW b \in Builders, Next, Answered(b, {"hit", "miss"})
    PROVE  /\ Validated(b) /\ part' = part
           /\ \/ outcome'[b] = Result("hit", seen[b]) /\ SameIdentity(b, seen[b])
              \/ outcome'[b] = Result("miss", seen[b]) /\ pc[b] = "verifyFiles"
<1>0. /\ pc \in [Procs -> Labels] /\ outcome \in [Procs -> ResultType]
      /\ b \in Procs /\ \A r \in Readers : b # r
  BY ProcessesAssumption DEF TypeOK
<1>1. pc[b] # "idle" /\ pc'[b] = "idle" /\ outcome'[b].state \in {"hit", "miss"}
  BY DEF Answered
<1>2. BuilderStep(b)
  <2>1. ASSUME NEW c \in Builders, c # b, BuilderStep(c) PROVE pc'[b] = pc[b]
    <3>1. ASSUME NEW label, Goto(c, label) PROVE pc'[b] = pc[b]
      BY <1>0, <2>1, <3>1 DEF Goto
    <3>2. \E label : Goto(c, label)
      BY <2>1 DEF BuilderStep, Start, Look, ReadManifest, Decide, Preflight, MakeTemp, Scan,
         Consolidate, WriteManifest, BuildFails, Stage, LookAgain, MoveAside, MoveIn, Restore,
         Clean, Verify, Crash, Fail, Return
    <3> QED
      BY <3>1, <3>2
  <2>2. ASSUME NEW s \in Readers, ReaderStep(s) PROVE pc'[b] = pc[b]
    BY <1>0, <2>2, ReaderFrame
  <2>3. SourceChanges => pc' = pc
    BY DEF SourceChanges
  <2> QED
    BY <1>1, <2>1, <2>2, <2>3 DEF Next
<1>3. ASSUME NEW state, NEW i, Return(b, Result(state, i))
      PROVE  state \in {"hit", "miss"} /\ outcome'[b] = Result(state, i)
  <2>1. outcome'[b] = Result(state, i)
    BY <1>0, <1>3 DEF Return
  <2> QED
    BY <1>1, <2>1 DEF Result
<1>4. ~Fail(b)
  BY <1>3 DEF Fail
<1>5. ASSUME NEW label, Goto(b, label) PROVE label = "idle"
  BY <1>0, <1>1, <1>5 DEF Goto
<1>6. ~Return(b, Result("crashed", NoBuild))
  BY <1>3
<1>7. Decide(b) \/ Verify(b)
  BY <1>2, <1>4, <1>5, <1>6 DEF BuilderStep, Start, Look, ReadManifest, Preflight, MakeTemp, Scan,
     Consolidate, WriteManifest, BuildFails, Stage, LookAgain, MoveAside, MoveIn, Restore,
     AfterRestore, Clean, Crash
<1>8. CASE Decide(b)
  <2>1. Validated(b) /\ SameIdentity(b, seen[b]) /\ Return(b, Result("hit", seen[b]))
    BY <1>4, <1>5, <1>8 DEF Decide
  <2> QED
    BY <1>3, <1>8, <2>1 DEF Decide, treeVars
<1>9. CASE Verify(b)
  <2>1. Validated(b) /\ pc[b] = "verifyFiles" /\ Return(b, Result("miss", seen[b]))
    BY <1>4, <1>9 DEF Verify
  <2> QED
    BY <1>3, <1>9, <2>1 DEF Verify, treeVars
<1> QED
  BY <1>7, <1>8, <1>9

LEMMA AnswersStep ==
    ASSUME AloneInv, [MCNext]_<<vars, active>>, Alone
    PROVE  /\ \A r \in Readers : Answered(r, {"read"}) =>
                  /\ Whole(outcome'[r].build)
                  /\ since[r] <= part[outcome'[r].build].claims
           /\ \A b \in Builders : Answered(b, {"hit", "miss"}) =>
                  /\ part[outcome'[b].build].claims = wanted[b]
                  /\ part[outcome'[b].build].request = asked[b]
<1>0. TypeOK /\ PublishedIsWhole /\ active \subseteq Builders
  BY DEF AloneInv, Inv
<1>1. PICK b \in Builders : active = {b}
  BY <1>0, AloneIsOne
<1>2. Single(b)
  BY <1>1 DEF AloneInv
<1>3. ASSUME NEW p \in Procs, NEW states, Answered(p, states) PROVE Next
  BY <1>3 DEF Answered, MCNext, vars
<1>4. ASSUME NEW r \in Readers, Answered(r, {"read"})
      PROVE  /\ Whole(outcome'[r].build)
             /\ since[r] <= part[outcome'[r].build].claims
  <2>1. Next
    BY <1>3, <1>4
  <2>2. PICK i \in Final : pc[r] = "open" /\ outcome'[r] = Result("read", i)
    BY <1>0, <1>4, <2>1, ReaderAnswers
  <2>3. outcome'[r].build = i
    BY <2>2 DEF Result
  <2>4. Whole(i)
    BY <1>0, <2>2 DEF PublishedIsWhole
  <2>5. since[r] <= part[i].claims
    BY <1>2, <2>2 DEF Single, Shown
  <2> QED
    BY <2>3, <2>4, <2>5
<1>5. ASSUME NEW c \in Builders, Answered(c, {"hit", "miss"})
      PROVE  /\ part[outcome'[c].build].claims = wanted[c]
             /\ part[outcome'[c].build].request = asked[c]
  <2>1. Next
    BY <1>3, <1>5
  <2>2. /\ Validated(c)
        /\ \/ outcome'[c] = Result("hit", seen[c]) /\ SameIdentity(c, seen[c])
           \/ outcome'[c] = Result("miss", seen[c]) /\ pc[c] = "verifyFiles"
    BY <1>0, <1>5, <2>1, BuilderAnswers
  <2>3. c = b
    BY <1>2, <1>5 DEF Single, Answered
  <2>4. outcome'[c].build = seen[c]
    BY <2>2 DEF Result
  <2>5. SameIdentity(c, seen[c])
    BY <1>0, <1>2, <2>2, <2>3 DEF Single, Dated, Validated, SameIdentity, TypeOK
  <2> QED
    BY <2>4, <2>5 DEF SameIdentity
<1> QED
  BY <1>4, <1>5

\* With one builder at work, a reader is given a whole partition at least as new
\* as the raw files were when it asked, and a build that succeeds hands out a date
\* with the identity it was asked for (read_symbol; build_date and
\* publish_date_atomically).
THEOREM AnswersAreCurrent == MCSpec => AnswersAreCurrentAlone
<1> DEFINE Given ==
      Alone =>
          /\ \A r \in Readers : Answered(r, {"read"}) =>
                /\ Whole(outcome'[r].build)
                /\ since[r] <= part[outcome'[r].build].claims
          /\ \A b \in Builders : Answered(b, {"hit", "miss"}) =>
                LET given == part[outcome'[b].build]
                IN  given.claims = wanted[b] /\ given.request = asked[b]
<1>1. AloneInv /\ [MCNext]_<<vars, active>> => [Given]_vars
  BY AnswersStep
<1>2. AloneInv /\ [MCNext]_<<vars, active>> => AloneInv'
  BY AloneStep
<1> QED
  BY <1>1, <1>2, InitAlone, PTL DEF MCSpec, AnswersAreCurrentAlone
=============================================================================
