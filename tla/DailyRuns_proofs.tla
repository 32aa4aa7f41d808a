-------------------------- MODULE DailyRuns_proofs --------------------------
(***************************************************************************)
(* Proofs about the runs of the multi-day backtest over one output          *)
(* directory, for any arguments, any range of dates, any number of runs,    *)
(* crashes and damaged partitions.                                          *)
(*                                                                         *)
(* A partition holds a whole result of its date (Stored), and the dates a   *)
(* run has done are in order (Progress) and in the store (Published), so    *)
(* what it reads back for the tables is what it computed or reused.  That a *)
(* resuming run never takes the CSV tables of others rests on the directory *)
(* of the store: a manifest of such a run exists only if the directory does *)
(* (Opened), and it is never removed.  A date trusted at the start is still *)
(* there when the run comes to it, with the positions of the date before    *)
(* (Trusted): a run that does not rebuild only publishes where nothing was. *)
(*                                                                         *)
(* The second part is about what such a run computes, the positions carried *)
(* from date to date (PositionCarry), for any pairs, contracts, calendar,   *)
(* exclusions and outcomes of the runs; the third about the replay of their *)
(* fills under a capital limit (Portfolio), for any capital, rates and      *)
(* amounts: the books are right after every event (BookOK), which needs     *)
(* that the next row of a date, and the next date, can always be named.     *)
(*                                                                         *)
(* The last part relates the lots the report shows as open (Reports) to the *)
(* positions held.  The rows of a run are together in the file (RunAt), so  *)
(* its lots and its position can be followed row by row (LotsOK); that each *)
(* date starts from what the one before left (HeldFollows) makes the sums   *)
(* over the dates bound what is held.                                       *)
(***************************************************************************)
EXTENDS DailyRuns, Reports, Sums_proofs, FiniteSetTheorems

-----------------------------------------------------------------------------
\* Types.

Contents == Seq(Results) \cup {Absent, Torn}
RunsWith(pcs, contents) ==
    [pc : pcs, v : Versions, first : Dates, last : Dates, rebuild : BOOLEAN,
     day : 1..(LastDate + 1), carry : Positions, results : contents, fresh : Results \cup {<<>>},
     todo : SUBSET Tables, cached : BOOLEAN, prefix : SUBSET Dates]
Dating == RunsWith({"days", "install", "stopped"}, Seq(Results))
Writing == RunsWith({"csv", "table"}, [Tables -> Contents])

TypeOK ==
    /\ opened \in BOOLEAN
    /\ parts \in [Dates -> Parts \cup {Absent}]
    /\ csv \in [Tables -> Contents]
    /\ manifest \in Ids \cup {Absent}
    /\ run \in Dating \cup Writing \cup {Idle}
    /\ report \in [id : Ids, tables : [Tables -> Contents]] \cup {Absent}

-----------------------------------------------------------------------------
\* The inductive invariant.

\* What the store holds.
Stored ==
    \A d \in Dates : parts[d] # Absent =>
        /\ opened
        /\ Kind[parts[d].r.v] # "independent"
        /\ parts[d].r = Result(parts[d].r.v, d, parts[d].r.in)

\* The dates a run has done: each from the one before, and in the store.
Busy == run.pc \in {"days", "install"}
Progress == Busy =>
    /\ ~run.cached /\ run.first <= run.last /\ run.first <= run.day /\ run.day <= run.last + 1
    /\ InOrder(run.results, run.v, run.first, run.day - 1)
    /\ run.carry = CarryIn(run.results, run.day - run.first + 1)
Published == Busy /\ Carries =>
    \A i \in 1..(run.day - run.first) : opened /\ parts[run.first + i - 1].r = run.results[i]
Installing == run.pc = "install" =>
    /\ Carries /\ opened /\ run.day <= run.last
    /\ run.fresh = Result(run.v, run.day, run.carry)
    /\ run.day \in run.prefix => run.rebuild

\* The dates trusted when the run started that it has not done yet.
Trusted == Busy /\ ~run.rebuild =>
    \A d \in run.prefix : run.day <= d =>
        /\ parts[d] # Absent /\ parts[d].r.v = run.v
        /\ d = run.first => parts[d].r.in = <<>>
        /\ d # run.first => d - 1 \in run.prefix /\ parts[d].r.in = parts[d - 1].r.out

\* The tables a run writes, and the manifest that names them.
Tabled == run.pc \in {"csv", "table"} /\ Kind[run.v] = "summary" =>
    /\ opened /\ ~run.cached
    /\ \A t \in Tables : InOrder(run.results[t], run.v, run.first, run.last)
Opened == manifest # Absent /\ Kind[manifest.v] = "summary" => opened

Inv ==
    /\ TypeOK
    /\ Stored /\ Progress /\ Published /\ Installing /\ Trusted /\ Tabled /\ Opened
    /\ ResumedReportIsOwn

-----------------------------------------------------------------------------
\* Results.

(* A result has its arguments for fields, and ends with positions.          *)
LEMMA ResultIsTyped ==
    ASSUME NEW v \in Versions, NEW d \in Dates, NEW c \in Positions
    PROVE  /\ Result(v, d, c) \in Results
           /\ Result(v, d, c).v = v /\ Result(v, d, c).in = c
<1>1. Append(c, <<v, d>>) \in Positions /\ <<>> \in Positions
  BY DEF Positions
<1> QED
  BY <1>1 DEF Result, Results

(* One more date keeps dates in order, and its positions are the next ones  *)
(* carried.                                                                 *)
LEMMA OneMoreDate ==
    ASSUME NEW s \in Seq(Results), NEW v \in Versions, NEW first \in Nat, NEW date \in Nat,
           first <= date, InOrder(s, v, first, date - 1),
           NEW r \in Results, r = Result(v, date, CarryIn(s, date - first + 1))
    PROVE  /\ Append(s, r) \in Seq(Results)
           /\ InOrder(Append(s, r), v, first, date)
           /\ CarryIn(Append(s, r), date + 1 - first + 1) = r.out
           /\ \A i \in 1..(date - first) : Append(s, r)[i] = s[i]
           /\ Append(s, r)[date - first + 1] = r
<1> DEFINE n == date - first
<1>1. n \in Nat /\ Len(s) = n /\ DOMAIN s = 1..n
  <2>1. DOMAIN s = 1..n
    <3>1. (date - 1) - first + 1 = n
      OBVIOUS
    <3> QED
      BY <3>1 DEF InOrder
  <2>2. DOMAIN s = 1..Len(s) /\ Len(s) \in Nat
    OBVIOUS
  <2>3. n \in Nat
    OBVIOUS
  <2> HIDE DEF n
  <2>4. ASSUME Len(s) < n PROVE FALSE
    BY <2>1, <2>2, <2>3, <2>4, n \in 1..n
  <2>5. ASSUME n < Len(s) PROVE FALSE
    BY <2>1, <2>2, <2>3, <2>5, Len(s) \in 1..Len(s)
  <2> QED
    BY <2>1, <2>2, <2>3, <2>4, <2>5
<1>2. /\ Append(s, r) \in Seq(Results) /\ Len(Append(s, r)) = n + 1
      /\ DOMAIN Append(s, r) = 1..(n + 1)
      /\ \A i \in 1..n : Append(s, r)[i] = s[i]
      /\ Append(s, r)[n + 1] = r
  BY <1>1
<1>3. \A i \in 1..(n + 1) : CarryIn(Append(s, r), i) = CarryIn(s, i)
  <2> SUFFICES ASSUME NEW i \in 1..(n + 1), i # 1
               PROVE  Append(s, r)[i - 1] = s[i - 1]
    BY DEF CarryIn
  <2>1. i - 1 \in 1..n
    BY <1>1
  <2> QED
    BY <2>1, <1>2
<1>4. \A i \in 1..(n + 1) : Append(s, r)[i] = Result(v, first + i - 1, CarryIn(Append(s, r), i))
  <2> SUFFICES ASSUME NEW i \in 1..(n + 1)
               PROVE  Append(s, r)[i] = Result(v, first + i - 1, CarryIn(s, i))
    BY <1>3
  <2>1. CASE i \in 1..n
    BY <2>1, <1>1, <1>2 DEF InOrder
  <2>2. CASE i = n + 1
    <3>1. first + i - 1 = date
      BY <2>2
    <3> QED
      BY <2>2, <3>1, <1>2
  <2> QED
    BY <2>1, <2>2, <1>1
<1>5. InOrder(Append(s, r), v, first, date)
  BY <1>2, <1>4 DEF InOrder
<1>6. CarryIn(Append(s, r), n + 2) = r.out
  BY <1>1, <1>2, n + 2 # 1, (n + 2) - 1 = n + 1 DEF CarryIn
<1> QED
  BY <1>1, <1>2, <1>5, <1>6

-----------------------------------------------------------------------------
\* The steps.

LEMMA InitInv == Init => Inv
<1> SUFFICES ASSUME Init PROVE Inv
  OBVIOUS
<1> USE DEF Init
<1>1. TypeOK
  BY DEF TypeOK, Contents
<1>2. run.pc = "idle"
  BY DEF Idle
<1>3. Stored /\ Opened /\ ResumedReportIsOwn
  BY DEF Stored, Opened, ResumedReportIsOwn
<1> QED
  BY <1>1, <1>2, <1>3 DEF Inv, Busy, Progress, Published, Installing, Trusted, Tabled

(* A run that dates is the run of the records Dating, and one that writes   *)
(* of Writing.                                                              *)
LEMMA RunIsTyped ==
    ASSUME TypeOK
    PROVE  /\ run.pc \in {"days", "install", "stopped"} => run \in Dating
           /\ run.pc \in {"csv", "table"} => run \in Writing
           /\ run # Idle => run \in Dating \cup Writing
<1> QED
  BY DEF TypeOK, Dating, Writing, RunsWith, Idle

(* The dates trusted are dates, with those before them.                     *)
LEMMA PrefixIsTrusted ==
    ASSUME TypeOK, NEW v \in Versions, NEW first \in Dates, NEW last \in Dates
    PROVE  /\ PrefixFrom(v, first, last) \subseteq Dates
           /\ \A d \in PrefixFrom(v, first, last) :
                 /\ parts[d] # Absent /\ parts[d].r.v = v
                 /\ d = first => parts[d].r.in = <<>>
                 /\ d # first => /\ d - 1 \in PrefixFrom(v, first, last)
                                 /\ parts[d].r.in = parts[d - 1].r.out
<1>1. first..last \subseteq Dates /\ first \in Int /\ last \in Int
  BY RunsAssumption DEF Dates
<1>2. ASSUME NEW d \in PrefixFrom(v, first, last)
      PROVE  /\ parts[d] # Absent /\ parts[d].r.v = v
             /\ parts[d].r.in = IF d = first THEN <<>> ELSE parts[d - 1].r.out
  <2>1. d \in first..d
    BY <1>1, <1>2 DEF PrefixFrom
  <2> QED
    BY <1>2, <2>1 DEF PrefixFrom, Valid
<1>3. ASSUME NEW d \in PrefixFrom(v, first, last), d # first
      PROVE  d - 1 \in PrefixFrom(v, first, last)
  <2>1. d - 1 \in first..last /\ first..(d - 1) \subseteq first..d
    BY <1>1, <1>3 DEF PrefixFrom
  <2> QED
    BY <1>3, <2>1 DEF PrefixFrom
<1>4. PrefixFrom(v, first, last) \subseteq Dates
  BY <1>1 DEF PrefixFrom
<1> QED
  BY <1>2, <1>3, <1>4

LEMMA StartKeeps ==
    ASSUME Inv, NEW v \in Versions, NEW first \in Dates, NEW last \in Dates, NEW rebuild \in BOOLEAN,
           Start(v, first, last, rebuild)
    PROVE  Inv'
<1>u. UNCHANGED <<opened, parts, csv, manifest, report, faults>> /\ first <= last
  BY DEF Start
<1>n. first \in 1..LastDate /\ last \in 1..LastDate /\ LastDate \in Nat
  BY RunsAssumption DEF Dates
<1>p. TypeOK /\ Stored /\ Opened /\ ResumedReportIsOwn
  BY DEF Inv
<1>1. Stored' /\ Opened' /\ ResumedReportIsOwn'
  BY <1>u, <1>p DEF Stored, Opened, ResumedReportIsOwn
<1> DEFINE r == [pc |-> "days", v |-> v, first |-> first, last |-> last, rebuild |-> rebuild,
              day |-> first, carry |-> <<>>, results |-> <<>>, fresh |-> <<>>,
              todo |-> Tables, cached |-> FALSE, prefix |-> PrefixFrom(v, first, last)]
<1>2. r \in Dating
  <2>1. PrefixFrom(v, first, last) \subseteq Dates
    BY <1>p, PrefixIsTrusted
  <2>2. <<>> \in Positions /\ <<>> \in Seq(Results) /\ first \in 1..(LastDate + 1)
    BY <1>n DEF Positions
  <2> QED
    BY <2>1, <2>2 DEF Dating, RunsWith
<1>3. CASE run' = r
  <2>1. TypeOK'
    BY <1>u, <1>p, <1>2, <1>3 DEF TypeOK
  <2>2. Progress'
    <3>1. InOrder(<<>>, v, first, first - 1)
      <4>1. (first - 1) - first + 1 = 0 /\ DOMAIN <<>> = 1..0 /\ 1..0 = {}
        BY <1>n
      <4> QED
        BY <4>1 DEF InOrder
    <3>2. CarryIn(<<>>, first - first + 1) = <<>>
      BY <1>n, first - first + 1 = 1 DEF CarryIn
    <3>3. first <= last + 1
      BY <1>n, <1>u
    <3> QED
      BY <1>3, <1>u, <3>1, <3>2, <3>3, <1>n DEF Progress
  <2>3. Published'
    BY <1>3, <1>n, 1..(first - first) = {} DEF Published
  <2>4. Trusted'
    BY <1>3, <1>u, <1>p, PrefixIsTrusted DEF Trusted
  <2> QED
    BY <1>1, <1>3, <2>1, <2>2, <2>3, <2>4 DEF Inv, Installing, Tabled
<1>4. CASE run' = FromCsvs(r) /\ CacheIsValid(v, first, last, rebuild) /\ ~ResumesByDate(v)
  <2>1. /\ run'.pc = "csv" /\ run'.v = v
        /\ run' \in Writing
    BY <1>4, <1>2, <1>p DEF FromCsvs, Dating, Writing, RunsWith, TypeOK
  <2>2. TypeOK'
    BY <1>u, <1>p, <2>1 DEF TypeOK
  <2>3. Kind[v] # "summary"
    <3>1. manifest = [v |-> v, first |-> first, last |-> last]
      BY <1>4 DEF CacheIsValid, Identity
    <3>2. manifest # Absent
      BY <3>1, RunsAssumption DEF Ids
    <3> QED
      BY <1>4, <1>p, <3>1, <3>2 DEF ResumesByDate, Opened
  <2> QED
    BY <1>1, <2>1, <2>2, <2>3 DEF Inv, Busy, Progress, Published, Installing, Trusted, Tabled
<1> QED
  BY <1>3, <1>4 DEF Start

(* A run takes the result of its next date: it has done that date too.      *)
LEMMA TakesKeeps ==
    ASSUME TypeOK, Progress, run \in Dating, Busy, run.day <= run.last,
           NEW r \in Results, r = Result(run.v, run.day, run.carry), run' = Takes(r)
    PROVE  /\ run' \in Dating
           /\ run'.pc = "days" /\ run'.v = run.v /\ run'.first = run.first /\ run'.rebuild = run.rebuild
           /\ run'.prefix = run.prefix /\ run'.day = run.day + 1
           /\ Progress'
           /\ \A i \in 1..(run.day - run.first) : run'.results[i] = run.results[i]
           /\ run'.results[run.day - run.first + 1] = r
<1>n. /\ LastDate \in Nat /\ run.first \in 1..LastDate /\ run.last \in 1..LastDate
      /\ run.day \in 1..(LastDate + 1) /\ run.first <= run.day
  BY RunsAssumption DEF Dating, RunsWith, Dates, Progress
<1>t. run.results \in Seq(Results) /\ run.v \in Versions
  BY DEF Dating, RunsWith
<1>1. /\ run'.pc = "days" /\ run'.v = run.v /\ run'.first = run.first /\ run'.last = run.last
      /\ run'.rebuild = run.rebuild /\ run'.prefix = run.prefix /\ run'.day = run.day + 1
      /\ run'.carry = r.out /\ run'.cached = run.cached
      /\ run'.results = Append(run.results, r)
  BY DEF Takes, Dating, RunsWith
<1>2. r = Result(run.v, run.day, CarryIn(run.results, run.day - run.first + 1))
  BY DEF Progress
<1>3. /\ Append(run.results, r) \in Seq(Results)
      /\ InOrder(Append(run.results, r), run.v, run.first, run.day)
      /\ CarryIn(Append(run.results, r), run.day + 1 - run.first + 1) = r.out
      /\ \A i \in 1..(run.day - run.first) : Append(run.results, r)[i] = run.results[i]
      /\ Append(run.results, r)[run.day - run.first + 1] = r
  <2>1. InOrder(run.results, run.v, run.first, run.day - 1)
    BY DEF Progress
  <2>2. run.first \in Nat /\ run.day \in Nat
    BY <1>n
  <2> QED
    <3>1. run.first <= run.day
      BY <1>n
    <3> DEFINE d == run.day
               first == run.first
               s == run.results
               v == run.v
    <3>2. /\ s \in Seq(Results) /\ v \in Versions /\ first \in Nat /\ d \in Nat
          /\ first <= d /\ InOrder(s, v, first, d - 1)
          /\ r = Result(v, d, CarryIn(s, d - first + 1))
      BY <1>2, <1>t, <2>1, <2>2, <3>1
    <3> HIDE DEF d, first, s, v
    <3>3. /\ Append(s, r) \in Seq(Results)
          /\ InOrder(Append(s, r), v, first, d)
          /\ CarryIn(Append(s, r), d + 1 - first + 1) = r.out
          /\ \A i \in 1..(d - first) : Append(s, r)[i] = s[i]
          /\ Append(s, r)[d - first + 1] = r
      BY <3>2, r \in Results, OneMoreDate, ZenonT(60)
    <3> QED
      BY <3>3 DEF d, first, s, v
<1>4. Progress'
  <2>1. run.day + 1 - 1 = run.day /\ run.first <= run.day + 1 /\ run.day + 1 <= run.last + 1
    BY <1>n
  <2>2. ~run'.cached /\ run'.first <= run'.last
    BY <1>1 DEF Progress
  <2>3. InOrder(run'.results, run'.v, run'.first, run'.day - 1)
    <3>1. run'.day - 1 = run.day
      BY <1>1, <1>n
    <3> QED
      BY <1>1, <1>3, <3>1, Zenon
  <2>4. run'.carry = CarryIn(run'.results, run'.day - run'.first + 1)
    <3>1. CarryIn(run'.results, run.day + 1 - run.first + 1) = run'.carry
      BY <1>1, <1>3
    <3>2. run'.day = run.day + 1 /\ run'.first = run.first
      BY <1>1
    <3>3. run.day \in Int /\ run.first \in Int
      BY <1>n
    <3>4. run'.day - run'.first + 1 = run.day + 1 - run.first + 1
      BY <3>2, <3>3, SMT
    <3> QED
      BY <3>1, <3>4, Zenon
  <2>5. run'.first <= run'.day /\ run'.day <= run'.last + 1
    BY <1>1, <2>1
  <2> QED
    BY <2>2, <2>3, <2>4, <2>5 DEF Progress
<1>5. run' \in Dating
  <2>1. run.day + 1 \in 1..(LastDate + 1)
    BY <1>n
  <2>2. r.out \in Positions
    BY DEF Results
  <2>3. run' = [run EXCEPT !.results = Append(run.results, r), !.carry = r.out, !.day = run.day + 1,
                           !.pc = "days"]
    BY DEF Takes
  <2>4. Append(run.results, r) \in Seq(Results)
    BY <1>3
  <2> QED
    BY <2>1, <2>2, <2>3, <2>4 DEF Dating, RunsWith
<1> QED
  BY <1>1, <1>3, <1>4, <1>5

(* The dates done stay in the store when one more is, and is there.         *)
LEMMA PublishedKeeps ==
    ASSUME TypeOK, Progress, Published, run \in Dating, Busy, run.day <= run.last, opened' = opened,
           NEW r \in Results, r = Result(run.v, run.day, run.carry), run' = Takes(r),
           Carries => opened /\ parts'[run.day].r = r,
           \A d \in Dates \ {run.day} : parts'[d] = parts[d]
    PROVE  Published'
<1>n. /\ LastDate \in Nat /\ run.first \in 1..LastDate /\ run.last \in 1..LastDate
      /\ run.day \in 1..LastDate /\ run.first <= run.day
  BY RunsAssumption DEF Dating, RunsWith, Dates, Progress
<1>1. /\ run'.v = run.v /\ run'.first = run.first /\ run'.day = run.day + 1
      /\ \A i \in 1..(run.day - run.first) : run'.results[i] = run.results[i]
      /\ run'.results[run.day - run.first + 1] = r
  BY TakesKeeps
<1> SUFFICES ASSUME Carries', NEW i \in 1..(run'.day - run'.first)
             PROVE  opened' /\ parts'[run'.first + i - 1].r = run'.results[i]
  BY DEF Published
<1>2. Carries
  BY <1>1 DEF Carries
<1>3. i \in 1..(run.day - run.first) \/ i = run.day - run.first + 1
  BY <1>1, <1>n
<1>4. CASE i \in 1..(run.day - run.first)
  <2>1. run.first + i - 1 \in Dates \ {run.day}
    BY <1>4, <1>n DEF Dates
  <2> QED
    BY <1>1, <1>2, <1>4, <2>1 DEF Published
<1>5. CASE i = run.day - run.first + 1
  <2>1. run.first + i - 1 = run.day
    BY <1>5, <1>n
  <2> QED
    BY <1>1, <1>2, <1>5, <2>1
<1> QED
  BY <1>3, <1>4, <1>5

(* Taking a result: what is left to show of the step.                       *)
LEMMA TakingKeeps ==
    ASSUME Inv, run \in Dating, Busy, run.day <= run.last, UNCHANGED <<opened, csv, manifest, report>>,
           NEW r \in Results, r = Result(run.v, run.day, run.carry), run' = Takes(r),
           Carries => opened /\ parts'[run.day].r = r,
           \A d \in Dates \ {run.day} : parts'[d] = parts[d],
           parts' \in [Dates -> Parts \cup {Absent}], Stored', Trusted'
    PROVE  Inv'
<1>p. TypeOK /\ Progress /\ Published /\ Opened /\ ResumedReportIsOwn
  BY DEF Inv
<1>1. run' \in Dating /\ run'.pc = "days" /\ Progress'
  BY <1>p, TakesKeeps
<1>2. Published'
  BY <1>p, PublishedKeeps
<1>3. TypeOK'
  BY <1>p, <1>1 DEF TypeOK
<1>4. Opened' /\ ResumedReportIsOwn'
  BY <1>p DEF Opened, ResumedReportIsOwn
<1> QED
  BY <1>1, <1>2, <1>3, <1>4 DEF Inv, Installing, Tabled

(* The run is at a date of its range.                                       *)
LEMMA DayIsDate ==
    ASSUME TypeOK, Progress, Busy, run.day <= run.last
    PROVE  /\ run \in Dating /\ run.day \in Dates /\ run.v \in Versions /\ run.carry \in Positions
           /\ run.first \in Dates /\ run.first <= run.day
<1>1. run \in Dating
  BY RunIsTyped DEF Busy
<1> QED
  BY <1>1, RunsAssumption DEF Dating, RunsWith, Dates, Progress

(* The dates to come are trusted as before when their partitions and the    *)
(* one before them are what they were.                                      *)
LEMMA TrustedKeeps ==
    ASSUME Trusted, Busy, run.day \in Int, run.prefix \subseteq Int,
           run'.prefix = run.prefix, run'.rebuild = run.rebuild, run'.v = run.v, run'.first = run.first,
           run'.day \in Int, run.day <= run'.day, UNCHANGED parts
    PROVE  Trusted'
<1> QED
  BY DEF Trusted

LEMMA ReuseKeeps ==
    ASSUME Inv, Reuse
    PROVE  Inv'
<1>p. TypeOK /\ Progress /\ Stored /\ Trusted
  BY DEF Inv
<1>b. Busy /\ run.day <= run.last /\ Carries /\ Reusable(run.day) /\ run' = Takes(parts[run.day].r)
  BY DEF Reuse, Busy, InDays
<1>u. UNCHANGED <<opened, parts, csv, manifest, report>>
  BY DEF Reuse
<1>d. run \in Dating /\ run.day \in Dates
  BY <1>p, <1>b, DayIsDate
<1>1. /\ parts[run.day] # Absent /\ parts[run.day] \in Parts
      /\ parts[run.day].r.v = run.v /\ parts[run.day].r.in = run.carry
  BY <1>b, <1>d, <1>p DEF Reusable, Valid, TypeOK
<1>2. /\ parts[run.day].r = Result(run.v, run.day, run.carry) /\ opened
      /\ parts[run.day].r \in Results
  BY <1>1, <1>d, <1>p DEF Stored, Parts
<1>3. Stored'
  BY <1>p, <1>u DEF Stored
<1>4. Trusted'
  <2>1. /\ run'.prefix = run.prefix /\ run'.rebuild = run.rebuild /\ run'.v = run.v
        /\ run'.first = run.first /\ run'.day = run.day + 1
    BY <1>p, <1>b, <1>d, <1>2, TakesKeeps
  <2>2. run.day \in Int /\ run.prefix \subseteq Int
    BY <1>d DEF Dating, RunsWith, Dates
  <2> QED
    BY <1>p, <1>b, <1>u, <2>1, <2>2, TrustedKeeps
<1>5. parts' \in [Dates -> Parts \cup {Absent}]
  BY <1>p, <1>u DEF TypeOK
<1> QED
  BY <1>b, <1>u, <1>d, <1>2, <1>3, <1>4, <1>5, TakingKeeps

LEMMA InstallKeeps ==
    ASSUME Inv, Install
    PROVE  Inv'
<1>p. TypeOK /\ Progress /\ Stored /\ Trusted /\ Installing
  BY DEF Inv
<1>b. /\ run.pc = "install" /\ Busy /\ run.day <= run.last /\ Carries /\ opened
      /\ run.fresh = Result(run.v, run.day, run.carry)
      /\ run.day \in run.prefix => run.rebuild
      /\ run' = Takes(run.fresh)
  BY <1>p DEF Install, Busy, Installing
<1>u. /\ UNCHANGED <<opened, csv, manifest, report>>
      /\ parts' = [parts EXCEPT ![run.day] = [r |-> run.fresh, ok |-> TRUE]]
  BY DEF Install
<1>d. /\ run \in Dating /\ run.day \in Dates /\ run.v \in Versions /\ run.carry \in Positions
      /\ run.first \in Dates /\ run.first <= run.day
  BY <1>p, <1>b, DayIsDate
<1>2. run.fresh \in Results /\ run.fresh.v = run.v
  BY <1>b, <1>d, ResultIsTyped
<1>3. /\ parts' \in [Dates -> Parts \cup {Absent}]
      /\ parts'[run.day] = [r |-> run.fresh, ok |-> TRUE]
      /\ \A d \in Dates \ {run.day} : parts'[d] = parts[d]
  BY <1>u, <1>d, <1>p, <1>2 DEF TypeOK, Parts
<1>4. Stored'
  <2> SUFFICES ASSUME NEW d \in Dates, parts'[d] # Absent
               PROVE  /\ opened' /\ Kind[parts'[d].r.v] # "independent"
                      /\ parts'[d].r = Result(parts'[d].r.v, d, parts'[d].r.in)
    BY DEF Stored
  <2>1. CASE d = run.day
    <3>1. run.fresh.in = run.carry
      BY <1>b, <1>d, ResultIsTyped
    <3> QED
      BY <2>1, <1>u, <1>b, <1>2, <1>3, <3>1 DEF Carries
  <2>2. CASE d # run.day
    BY <2>2, <1>u, <1>3, <1>p DEF Stored
  <2> QED
    BY <2>1, <2>2
<1>5. /\ run'.prefix = run.prefix /\ run'.rebuild = run.rebuild /\ run'.v = run.v
      /\ run'.first = run.first /\ run'.day = run.day + 1
  BY <1>p, <1>b, <1>d, <1>2, TakesKeeps
<1>6. Trusted'
  <2> SUFFICES ASSUME ~run.rebuild, NEW d \in run.prefix, run.day + 1 <= d
               PROVE  /\ parts'[d] # Absent /\ parts'[d].r.v = run.v
                      /\ d = run.first => parts'[d].r.in = <<>>
                      /\ d # run.first => /\ d - 1 \in run.prefix
                                          /\ parts'[d].r.in = parts'[d - 1].r.out
    BY <1>5 DEF Trusted
  <2>1. d \in Dates /\ run.prefix \subseteq Dates
    BY <1>d DEF Dating, RunsWith
  <2>2. run.day \in Int /\ d \in Int /\ run.first \in Int
    BY <1>d, <2>1 DEF Dates
  <2>3. run.day <= d /\ d # run.day /\ d # run.first /\ d - 1 \in Int
    BY <2>2, <1>d
  <2>4. /\ parts[d] # Absent /\ parts[d].r.v = run.v
        /\ d - 1 \in run.prefix /\ parts[d].r.in = parts[d - 1].r.out
    BY <1>p, <1>b, <2>3 DEF Trusted
  <2>5. d - 1 # run.day
    BY <1>b, <2>4
  <2> QED
    BY <1>3, <2>1, <2>3, <2>4, <2>5
<1>7. parts'[run.day].r = run.fresh
  BY <1>3
<1> QED
  BY <1>b, <1>u, <1>d, <1>2, <1>3, <1>4, <1>6, <1>7, TakingKeeps

LEMMA ExecuteKeeps ==
    ASSUME Inv, Execute
    PROVE  Inv'
<1>p. TypeOK /\ Progress /\ Published /\ Stored /\ Trusted /\ Opened /\ ResumedReportIsOwn
  BY DEF Inv
<1>b. run.pc = "days" /\ Busy /\ run.day <= run.last /\ (Carries => ~Reusable(run.day))
  BY DEF Execute, Busy, InDays
<1>u. UNCHANGED <<csv, manifest, report>>
  BY DEF Execute
<1>d. /\ run \in Dating /\ run.day \in Dates /\ run.v \in Versions /\ run.carry \in Positions
      /\ run.first \in Dates /\ run.first <= run.day
  BY <1>p, <1>b, DayIsDate
<1> DEFINE r == Result(run.v, run.day, run.carry)
<1>r. r \in Results
  BY <1>d, ResultIsTyped
<1>o. Opened' <=> (manifest # Absent /\ Kind[manifest.v] = "summary" => opened')
  BY <1>u DEF Opened
<1>1. CASE ~Carries /\ run' = Takes(r) /\ UNCHANGED <<opened, parts>>
  <2>1. Stored'
    BY <1>1, <1>p DEF Stored
  <2>2. Trusted'
    <3>1. /\ run'.prefix = run.prefix /\ run'.rebuild = run.rebuild /\ run'.v = run.v
          /\ run'.first = run.first /\ run'.day = run.day + 1
      BY <1>p, <1>b, <1>d, <1>r, <1>1, TakesKeeps
    <3>2. run.day \in Int /\ run.prefix \subseteq Int
      BY <1>d DEF Dating, RunsWith, Dates
    <3> QED
      BY <1>p, <1>b, <1>1, <3>1, <3>2, TrustedKeeps
  <2>3. parts' \in [Dates -> Parts \cup {Absent}]
    BY <1>p, <1>1 DEF TypeOK
  <2> HIDE DEF r
  <2>4. r = Result(run.v, run.day, run.carry)
    BY DEF r
  <2> QED
    BY <1>b, <1>d, <1>u, <1>r, <1>1, <2>1, <2>2, <2>3, <2>4, TakingKeeps
<1>2. CASE Carries /\ MayPublish(run.day) /\ Prepare(run.day, r)
  <2>1. /\ opened' = TRUE /\ parts' = [parts EXCEPT ![run.day] = Absent]
        /\ run' = [run EXCEPT !.pc = "install", !.fresh = r]
    BY <1>2 DEF Prepare
  <2>2. run' \in Dating
    BY <2>1, <1>d, <1>r DEF Dating, RunsWith
  <2>3. /\ run'.pc = "install" /\ run'.fresh = r /\ run'.v = run.v /\ run'.first = run.first
        /\ run'.last = run.last /\ run'.rebuild = run.rebuild /\ run'.day = run.day
        /\ run'.carry = run.carry /\ run'.results = run.results /\ run'.cached = run.cached
        /\ run'.prefix = run.prefix
    BY <2>1, <1>d DEF Dating, RunsWith
  <2>4. /\ parts' \in [Dates -> Parts \cup {Absent}] /\ parts'[run.day] = Absent
        /\ \A d \in Dates \ {run.day} : parts'[d] = parts[d]
    BY <2>1, <1>d, <1>p DEF TypeOK
  <2>5. TypeOK'
    BY <1>p, <1>u, <2>1, <2>2, <2>4 DEF TypeOK
  <2>6. Stored'
    BY <1>p, <2>1, <2>4 DEF Stored
  <2>7. Progress'
    BY <1>p, <1>b, <2>3 DEF Progress, Busy
  <2>8. Published'
    <3> SUFFICES ASSUME NEW i \in 1..(run.day - run.first)
                 PROVE  opened' /\ parts'[run.first + i - 1].r = run.results[i]
      BY <2>3 DEF Published
    <3>1. run.first + i - 1 \in Dates \ {run.day}
      BY <1>d, RunsAssumption DEF Dates
    <3> QED
      BY <1>2, <1>b, <1>p, <2>1, <2>4, <3>1 DEF Published
  <2>t. ~run.rebuild => parts[run.day] = Absent
    BY <1>2 DEF MayPublish
  <2>9. run.day \in run.prefix => run.rebuild
    <3>1. run.day <= run.day
      BY <1>d DEF Dates
    <3> QED
      BY <1>p, <1>b, <2>t, <3>1 DEF Trusted
  <2>10. Installing'
    <3>1. Carries'
      BY <1>2, <2>3 DEF Carries
    <3> QED
      BY <1>b, <2>1, <2>3, <2>9, <3>1 DEF Installing
  <2>11. Trusted'
    <3> SUFFICES ASSUME ~run.rebuild
                 PROVE  Trusted'
      BY <2>3 DEF Trusted
    <3>1. parts[run.day] = Absent
      BY <2>t
    <3>2. parts' = parts
      BY <3>1, <2>1, <1>p DEF TypeOK
    <3>3. run.day \in Int /\ run.prefix \subseteq Int /\ run.day <= run.day
      BY <1>d DEF Dating, RunsWith, Dates
    <3> QED
      BY <1>p, <1>b, <2>3, <3>2, <3>3, TrustedKeeps
  <2>12. Opened' /\ ResumedReportIsOwn'
    BY <1>o, <1>p, <1>u, <2>1 DEF ResumedReportIsOwn
  <2>13. Tabled'
    BY <2>3 DEF Tabled
  <2> QED
    BY <2>5, <2>6, <2>7, <2>8, <2>10, <2>11, <2>12, <2>13 DEF Inv
<1>3. CASE run' = [run EXCEPT !.pc = "stopped"] /\ UNCHANGED <<opened, parts>>
  <2>1. run' \in Dating /\ run'.pc = "stopped"
    BY <1>3, <1>d DEF Dating, RunsWith
  <2>2. TypeOK' /\ Stored' /\ Opened' /\ ResumedReportIsOwn'
    BY <1>p, <1>u, <1>3, <2>1 DEF TypeOK, Stored, Opened, ResumedReportIsOwn
  <2> QED
    BY <2>1, <2>2 DEF Inv, Busy, Progress, Published, Installing, Trusted, Tabled
<1> QED
  BY <1>1, <1>2, <1>3 DEF Execute

(* Every date is done: the tables are those of the results, taken from the  *)
(* store when they are streamed.                                            *)
LEMMA DatesDoneKeeps ==
    ASSUME Inv, DatesDone
    PROVE  Inv'
<1>p. TypeOK /\ Progress /\ Published /\ Stored /\ Opened /\ ResumedReportIsOwn
  BY DEF Inv
<1>b. run.pc = "days" /\ Busy /\ run.day > run.last
  BY DEF DatesDone, Busy
<1>u. UNCHANGED <<opened, parts, csv, manifest, report>>
  BY DEF DatesDone
<1>d. run \in Dating
  BY <1>p, <1>b, RunIsTyped
<1>n. /\ LastDate \in Nat /\ run.first \in 1..LastDate /\ run.last \in 1..LastDate
      /\ run.first <= run.last /\ run.day = run.last + 1
      /\ run.results \in Seq(Results)
  BY <1>p, <1>b, <1>d, RunsAssumption DEF Dating, RunsWith, Dates, Progress
<1>1. Stored' /\ Opened' /\ ResumedReportIsOwn'
  BY <1>p, <1>u DEF Stored, Opened, ResumedReportIsOwn
<1>2. CASE run' = [run EXCEPT !.pc = "stopped"]
  <2>1. run' \in Dating /\ run'.pc = "stopped"
    BY <1>2, <1>d DEF Dating, RunsWith
  <2>2. TypeOK'
    BY <1>p, <1>u, <2>1 DEF TypeOK
  <2> QED
    BY <1>1, <2>1, <2>2 DEF Inv, Busy, Progress, Published, Installing, Trusted, Tabled
<1> DEFINE stored == [i \in 1..Len(run.results) |-> parts[run.first + i - 1].r]
           tables == [t \in Tables |-> IF Streams THEN stored ELSE run.results]
<1>3. CASE /\ ~(Streams /\ \E d \in RunRange : ~Valid(d))
           /\ run' = [run EXCEPT !.pc = "csv", !.results = tables]
  <2>1. DOMAIN run.results = 1..(run.last - run.first + 1) /\ Len(run.results) = run.last - run.first + 1
    <3>1. DOMAIN run.results = 1..(run.last - run.first + 1)
      <4>1. run.day - 1 = run.last
        BY <1>n
      <4> QED
        BY <1>p, <1>b, <4>1 DEF Progress, InOrder
    <3>2. DOMAIN run.results = 1..Len(run.results) /\ Len(run.results) \in Nat
      BY <1>n
    <3> DEFINE k == run.last - run.first + 1
    <3>3. k \in Nat
      BY <1>n
    <3> HIDE DEF k
    <3>4. DOMAIN run.results = 1..k
      BY <3>1 DEF k
    <3>5. ASSUME Len(run.results) < k PROVE FALSE
      BY <3>2, <3>3, <3>4, <3>5, k \in 1..k
    <3>6. ASSUME k < Len(run.results) PROVE FALSE
      BY <3>2, <3>3, <3>4, <3>6, Len(run.results) \in 1..Len(run.results)
    <3>7. Len(run.results) = k
      BY <3>2, <3>3, <3>5, <3>6
    <3> QED
      BY <3>1, <3>7 DEF k
  <2>2. ASSUME Streams PROVE stored = run.results
    <3>1. Carries
      BY <2>2 DEF Streams, Carries
    <3>2. ASSUME NEW i \in 1..Len(run.results)
          PROVE  stored[i] = run.results[i]
      <4>1. i \in 1..(run.day - run.first)
        BY <1>n, <2>1
      <4> QED
        BY <1>b, <1>p, <3>1, <4>1 DEF Published
    <3>3. DOMAIN run.results = 1..Len(run.results) /\ run.results = [i \in DOMAIN run.results |-> run.results[i]]
      BY <1>n
    <3> QED
      BY <3>2, <3>3
  <2>3. tables = [t \in Tables |-> run.results]
    BY <2>2
  <2> HIDE DEF tables, stored
  <2>4. tables \in [Tables -> Contents]
    BY <2>3, <1>n DEF Contents
  <2>5. /\ run'.pc = "csv" /\ run'.v = run.v /\ run'.first = run.first /\ run'.last = run.last
        /\ run'.results = tables /\ run'.cached = run.cached
        /\ run' \in Writing
    BY <1>3, <1>d, <2>4 DEF Dating, Writing, RunsWith
  <2>6. TypeOK'
    BY <1>p, <1>u, <2>5 DEF TypeOK
  <2>7. Tabled'
    <3> SUFFICES ASSUME Kind[run.v] = "summary"
                 PROVE  /\ opened' /\ ~run'.cached
                        /\ \A t \in Tables : InOrder(run'.results[t], run'.v, run'.first, run'.last)
      BY <2>5 DEF Tabled
    <3>1. InOrder(run.results, run.v, run.first, run.last)
      <4>1. run.day - 1 = run.last
        BY <1>n
      <4> QED
        BY <1>p, <1>b, <4>1 DEF Progress
    <3>2. opened /\ ~run.cached
      <4>1. ~run.cached
        BY <1>p, <1>b DEF Progress
      <4>2. Valid(run.first)
        <5>1. Streams
          BY <4>1 DEF Streams
        <5>2. run.first \in RunRange
          BY <1>n DEF RunRange
        <5> QED
          BY <1>3, <5>1, <5>2
      <4> QED
        BY <1>p, <1>n, <4>1, <4>2 DEF Stored, Valid, Dates
    <3> QED
      BY <1>u, <2>3, <2>5, <3>1, <3>2
  <2> QED
    BY <1>1, <2>5, <2>6, <2>7 DEF Inv, Busy, Progress, Published, Installing, Trusted
<1> QED
  BY <1>2, <1>3 DEF DatesDone

(* A step that leaves the store and the report alone, of a run that writes  *)
(* and goes on writing the same results, or ends.                           *)
LEMMA WritingKeeps ==
    ASSUME Inv, run \in Writing, UNCHANGED <<opened, parts, manifest, report>>,
           csv' \in [Tables -> Contents],
           \/ run' = Idle
           \/ /\ run' \in Writing /\ run'.v = run.v /\ run'.first = run.first /\ run'.last = run.last
              /\ run'.results = run.results /\ run'.cached = run.cached
    PROVE  Inv'
<1>p. TypeOK /\ Stored /\ Opened /\ Tabled /\ ResumedReportIsOwn
  BY DEF Inv
<1>1. TypeOK'
  BY <1>p DEF TypeOK
<1>2. Stored' /\ Opened' /\ ResumedReportIsOwn'
  BY <1>p DEF Stored, Opened, ResumedReportIsOwn
<1>3. run.pc \in {"csv", "table"} /\ run'.pc \in {"csv", "table", "idle"}
  BY DEF Writing, RunsWith, Idle
<1>4. Tabled'
  <2>1. CASE run' = Idle
    BY <2>1 DEF Tabled, Idle
  <2>2. CASE run' # Idle
    BY <2>2, <1>p, <1>3 DEF Tabled
  <2> QED
    BY <2>1, <2>2
<1> QED
  BY <1>1, <1>2, <1>3, <1>4 DEF Inv, Busy, Progress, Published, Installing, Trusted

LEMMA OpenTableKeeps ==
    ASSUME Inv, OpenTable
    PROVE  Inv'
<1>p. TypeOK
  BY DEF Inv
<1>d. run \in Writing
  BY <1>p, RunIsTyped DEF OpenTable
<1>1. csv' \in [Tables -> Contents]
  <2>1. CASE NextTable \in Tables
    <3>1. (IF Streams THEN run.results[NextTable] ELSE Torn) \in Contents
      BY <1>d, <2>1 DEF Writing, RunsWith, Contents
    <3> QED
      BY <1>p, <3>1 DEF OpenTable, TypeOK
  <2>2. CASE NextTable \notin Tables
    BY <1>p, <2>2 DEF OpenTable, TypeOK
  <2> QED
    BY <2>1, <2>2
<1>2. /\ run' \in Writing /\ run'.v = run.v /\ run'.first = run.first /\ run'.last = run.last
      /\ run'.results = run.results /\ run'.cached = run.cached
  BY <1>d DEF OpenTable, Writing, RunsWith
<1>3. UNCHANGED <<opened, parts, manifest, report>>
  BY DEF OpenTable
<1> QED
  BY <1>d, <1>1, <1>2, <1>3, WritingKeeps

LEMMA CloseTableKeeps ==
    ASSUME Inv, CloseTable
    PROVE  Inv'
<1>p. TypeOK
  BY DEF Inv
<1>d. run \in Writing
  BY <1>p, RunIsTyped DEF CloseTable
<1>1. csv' \in [Tables -> Contents]
  <2>1. CASE NextTable \in Tables
    <3>1. run.results[NextTable] \in Contents
      BY <1>d, <2>1 DEF Writing, RunsWith
    <3> QED
      BY <1>p, <3>1 DEF CloseTable, TypeOK
  <2>2. CASE NextTable \notin Tables
    BY <1>p, <2>2 DEF CloseTable, TypeOK
  <2> QED
    BY <2>1, <2>2
<1>2. /\ run' \in Writing /\ run'.v = run.v /\ run'.first = run.first /\ run'.last = run.last
      /\ run'.results = run.results /\ run'.cached = run.cached
  BY <1>d DEF CloseTable, Writing, RunsWith
<1>3. UNCHANGED <<opened, parts, manifest, report>>
  BY DEF CloseTable
<1> QED
  BY <1>d, <1>1, <1>2, <1>3, WritingKeeps

(* The report is that of the tables the run wrote.                          *)
LEMMA FinishKeeps ==
    ASSUME Inv, Finish
    PROVE  Inv'
<1>p. TypeOK /\ Stored /\ Opened /\ Tabled
  BY DEF Inv
<1>d. run.pc = "csv" /\ run \in Writing
  BY <1>p, RunIsTyped DEF Finish
<1> DEFINE id == Identity(run.v, run.first, run.last)
<1>1. id \in Ids /\ id.v = run.v /\ id.first = run.first /\ id.last = run.last
  BY <1>d DEF Identity, Ids, Writing, RunsWith
<1>2. /\ run' = Idle /\ run'.pc = "idle" /\ UNCHANGED <<opened, parts, csv>>
      /\ manifest' \in {manifest, id}
      /\ manifest' = id => ~run.cached \/ manifest = id
      /\ report' = [id |-> id, tables |-> run.results]
  BY DEF Finish, Idle
<1> HIDE DEF id
<1>3. TypeOK'
  <2>1. report' \in [id : Ids, tables : [Tables -> Contents]]
    BY <1>1, <1>2, <1>d DEF Writing, RunsWith
  <2> QED
    BY <1>p, <1>1, <1>2, <2>1 DEF TypeOK
<1>4. Stored'
  BY <1>p, <1>2 DEF Stored
<1>5. Opened'
  <2>1. CASE manifest' = manifest
    BY <2>1, <1>p, <1>2 DEF Opened
  <2>2. CASE manifest' = id
    BY <2>2, <1>p, <1>1, <1>2, <1>d DEF Opened, Tabled
  <2> QED
    BY <2>1, <2>2, <1>2
<1>6. ResumedReportIsOwn'
  BY <1>p, <1>1, <1>2, <1>d DEF ResumedReportIsOwn, IsOwn, Tabled
<1> QED
  BY <1>2, <1>3, <1>4, <1>5, <1>6 DEF Inv, Busy, Progress, Published, Installing, Trusted, Tabled

LEMMA CrashKeeps ==
    ASSUME Inv, Crash
    PROVE  Inv'
<1>p. TypeOK /\ Stored /\ Opened /\ ResumedReportIsOwn
  BY DEF Inv
<1>1. run'.pc = "idle" /\ run' = Idle /\ UNCHANGED <<opened, parts, csv, manifest, report>>
  BY DEF Crash, Idle
<1>2. TypeOK' /\ Stored' /\ Opened' /\ ResumedReportIsOwn'
  BY <1>p, <1>1 DEF TypeOK, Stored, Opened, ResumedReportIsOwn
<1> QED
  BY <1>1, <1>2 DEF Inv, Busy, Progress, Published, Installing, Trusted, Tabled

(* Damage leaves the result that a partition was published with.            *)
LEMMA DamageKeeps ==
    ASSUME Inv, NEW d \in Dates, Damage(d)
    PROVE  Inv'
<1>p. TypeOK /\ Stored /\ Progress /\ Published /\ Installing /\ Trusted /\ Tabled /\ Opened
      /\ ResumedReportIsOwn
  BY DEF Inv
<1>u. UNCHANGED <<opened, csv, manifest, run, report>>
  BY DEF Damage
<1>1. /\ parts[d] \in Parts /\ parts[d] # Absent
      /\ parts' = [parts EXCEPT ![d] = [parts[d] EXCEPT !.ok = FALSE]]
  BY <1>p DEF Damage, Valid, TypeOK
<1>2. [parts[d] EXCEPT !.ok = FALSE] \in Parts /\ [parts[d] EXCEPT !.ok = FALSE].r = parts[d].r
  BY <1>1 DEF Parts
<1>3. /\ parts' \in [Dates -> Parts \cup {Absent}]
      /\ \A e \in Dates : parts'[e].r = parts[e].r /\ (e # d => parts'[e] = parts[e])
  BY <1>1, <1>2, <1>p DEF TypeOK
<1>4. TypeOK'
  BY <1>p, <1>u, <1>3 DEF TypeOK
<1>5. Stored'
  BY <1>p, <1>u, <1>1, <1>3 DEF Stored
<1>6. /\ run' = run /\ opened' = opened /\ Progress' /\ Installing' /\ Tabled' /\ Opened'
      /\ ResumedReportIsOwn'
  BY <1>p, <1>u DEF Progress, Busy, Installing, Carries, Tabled, Opened, ResumedReportIsOwn
<1>7. \A e \in Dates : parts'[e] = Absent <=> parts[e] = Absent
  BY <1>1, <1>2, <1>3, <1>u, <1>p, RunsAssumption DEF TypeOK
<1>8. ASSUME Busy
      PROVE  /\ run.first \in 1..LastDate /\ run.day \in Int /\ run.day <= LastDate + 1
             /\ run.prefix \subseteq Dates /\ LastDate \in Nat
  <2>1. run \in Dating
    BY <1>p, <1>8, RunIsTyped DEF Busy
  <2> QED
    BY <2>1, RunsAssumption DEF Dating, RunsWith, Dates
<1>9. Published'
  <2> SUFFICES ASSUME Busy, Carries, NEW i \in 1..(run.day - run.first)
               PROVE  opened /\ parts'[run.first + i - 1].r = run.results[i]
    BY <1>u DEF Published, Busy, Carries
  <2>1. run.first + i - 1 \in Dates
    BY <1>8 DEF Dates
  <2> QED
    BY <1>p, <1>3, <2>1 DEF Published
<1>10. Trusted'
  <2> SUFFICES ASSUME Busy, ~run.rebuild, NEW e \in run.prefix, run.day <= e
               PROVE  /\ parts'[e] # Absent /\ parts'[e].r.v = run.v
                      /\ e = run.first => parts'[e].r.in = <<>>
                      /\ e # run.first => /\ e - 1 \in run.prefix
                                          /\ parts'[e].r.in = parts'[e - 1].r.out
    BY <1>u DEF Trusted, Busy
  <2>1. e \in Dates
    BY <1>8
  <2>2. e # run.first => e - 1 \in Dates
    BY <1>p, <1>8 DEF Trusted
  <2> QED
    BY <1>p, <1>3, <1>7, <2>1, <2>2 DEF Trusted
<1> QED
  BY <1>4, <1>5, <1>6, <1>9, <1>10 DEF Inv

-----------------------------------------------------------------------------
\* The theorems.

(* The invariant holds of every step.                                       *)
LEMMA InvIsInductive == Inv /\ [Next]_vars => Inv'
<1> SUFFICES ASSUME Inv, [Next]_vars PROVE Inv'
  OBVIOUS
<1>1. ASSUME NEW v \in Versions, NEW first \in Dates, NEW last \in Dates, NEW rebuild \in BOOLEAN,
             Start(v, first, last, rebuild)
      PROVE  Inv'
  BY <1>1, StartKeeps
<1>2. CASE Reuse
  BY <1>2, ReuseKeeps
<1>3. CASE Execute
  BY <1>3, ExecuteKeeps
<1>4. CASE Install
  BY <1>4, InstallKeeps
<1>5. CASE DatesDone
  BY <1>5, DatesDoneKeeps
<1>6. CASE OpenTable
  BY <1>6, OpenTableKeeps
<1>7. CASE CloseTable
  BY <1>7, CloseTableKeeps
<1>8. CASE Finish
  BY <1>8, FinishKeeps
<1>9. CASE Crash
  BY <1>9, CrashKeeps
<1>10. ASSUME NEW d \in Dates, Damage(d) PROVE Inv'
  BY <1>10, DamageKeeps
<1>11. CASE UNCHANGED vars
  <2>1. UNCHANGED <<opened, parts, csv, manifest, run, report>>
    BY <1>11 DEF vars
  <2> QED
    BY <2>1 DEF Inv, TypeOK, Stored, Progress, Published, Installing, Trusted, Tabled, Opened,
                ResumedReportIsOwn, Busy, Carries
<1> QED
  BY <1>1, <1>2, <1>3, <1>4, <1>5, <1>6, <1>7, <1>8, <1>9, <1>10, <1>11 DEF Next

LEMMA Invariant == Spec => []Inv
<1>1. Init => Inv
  BY InitInv
<1>2. Inv /\ [Next]_vars => Inv'
  BY InvIsInductive
<1> QED
  BY <1>1, <1>2, PTL DEF Spec

(* The store, the tables, the manifest and the run are what the code takes  *)
(* them for: partitions are whole results or absent, a run that dates holds *)
(* a list of results, one that writes holds one content per table.          *)
THEOREM TypeCorrect == Spec => []TypeOK
<1>1. Inv => TypeOK
  BY DEF Inv
<1> QED
  BY <1>1, Invariant, PTL

(* A run that resumes by date reports what it would have reported in an     *)
(* empty directory: the dates of its range executed in order, each from     *)
(* the positions of the one before, whatever was run, killed, rebuilt or    *)
(* damaged in that directory before.                                        *)
THEOREM ReportIsOwn == Spec => []ResumedReportIsOwn
<1>1. Inv => ResumedReportIsOwn
  BY DEF Inv
<1> QED
  BY <1>1, Invariant, PTL

(* A date the store trusted when the run started is executed again only if  *)
(* it was damaged since or a rebuild was asked for.                         *)
LEMMA TrustedIsReusable ==
    ASSUME Inv, [Next]_vars,
           run.pc = "days", run.day <= run.last, run.day \in run.prefix,
           run'.pc \in {"install", "stopped"}
    PROVE  run.rebuild \/ ~Valid(run.day)
<1> SUFFICES ASSUME ~run.rebuild, Valid(run.day) PROVE FALSE
  OBVIOUS
<1>p. TypeOK /\ Progress /\ Published /\ Trusted
  BY DEF Inv
<1>b. Busy
  BY DEF Busy
<1>d. run \in Dating /\ run.day \in Dates /\ run.first \in Dates /\ run.first <= run.day
  BY <1>p, <1>b, DayIsDate
<1>1. Execute
  <2>1. run # Idle /\ run' # Idle /\ run' # run /\ run'.pc \notin {"days", "csv", "idle"}
    BY DEF Idle
  <2>2. ~Reuse /\ ~Install
    BY <1>d, <2>1 DEF Reuse, Install, Takes, Dating, RunsWith
  <2>3. ~DatesDone
    BY <1>d, RunsAssumption DEF DatesDone, Dating, RunsWith, Dates
  <2>4. ~OpenTable /\ ~CloseTable /\ ~Finish
    BY DEF OpenTable, CloseTable, Finish
  <2>5. ~Crash /\ \A d \in Dates : ~Damage(d)
    <3>1. ~Crash
      BY <2>1 DEF Crash
    <3>2. ASSUME NEW d \in Dates PROVE ~Damage(d)
      <4>1. Damage(d) => run' = run
        BY DEF Damage
      <4> QED
        BY <2>1, <4>1
    <3> QED
      BY <3>1, <3>2
  <2>6. \A v \in Versions, first, last \in Dates, rebuild \in BOOLEAN : ~Start(v, first, last, rebuild)
    BY <2>1 DEF Start
  <2>7. ~UNCHANGED vars
    BY <2>1 DEF vars
  <2> QED
    BY <2>2, <2>3, <2>4, <2>5, <2>6, <2>7 DEF Next
<1>2. Carries
  BY <1>1, <1>d DEF Execute, Takes, Dating, RunsWith
<1>3. parts[run.day].r.v = run.v /\ parts[run.day].r.in = run.carry
  <2>1. run.day <= run.day
    BY <1>d DEF Dates
  <2>2. CASE run.day = run.first
    <3>1. run.day - run.first + 1 = 1
      BY <2>2, <1>d DEF Dates
    <3>2. run.carry = <<>>
      BY <3>1, <1>p, <1>b DEF Progress, CarryIn
    <3> QED
      BY <2>1, <2>2, <3>2, <1>p, <1>b DEF Trusted
  <2>3. CASE run.day # run.first
    <3>1. /\ run.day - run.first \in 1..(run.day - run.first) /\ run.day - run.first + 1 # 1
          /\ (run.day - run.first + 1) - 1 = run.day - run.first
          /\ run.first + (run.day - run.first) - 1 = run.day - 1
      BY <2>3, <1>d DEF Dates
    <3>2. run.carry = run.results[run.day - run.first].out
      BY <3>1, <1>p, <1>b DEF Progress, CarryIn
    <3>3. parts[run.day - 1].r = run.results[run.day - run.first]
      BY <3>1, <1>2, <1>p, <1>b DEF Published
    <3> QED
      BY <2>1, <2>3, <3>2, <3>3, <1>p, <1>b DEF Trusted
  <2> QED
    BY <2>2, <2>3
<1> QED
  BY <1>1, <1>2, <1>3 DEF Execute, Reusable

(* The dates that the store's rule trusted when a run started are not       *)
(* executed again by it, unless damaged since or to be rebuilt.             *)
THEOREM PrefixIsReused == Spec => TrustedPrefixIsReused
<1>1. Inv /\ [Next]_vars =>
        [run.pc = "days" /\ run.day <= run.last /\ run.day \in run.prefix /\ run'.pc \in {"install", "stopped"}
          => run.rebuild \/ ~Valid(run.day)]_run
  BY TrustedIsReusable
<1> QED
  BY <1>1, Invariant, PTL DEF Spec, TrustedPrefixIsReused

-----------------------------------------------------------------------------
\* Positions carried: what a run ends with.

Orders == {"LONG", "SHORT", "EXIT"}

LEMMA AfterOneType ==
    ASSUME NEW p \in OpenPositions, NEW signal \in Orders
    PROVE  AfterOne(p, signal) \in OpenPositions
BY DEF AfterOne, OpenPositions, Flat, Orders

\* The positions of a run one pair order after the other, as After defines them.
Runs(f, p, s) == f = [i \in 0..Len(s) |-> IF i = 0 THEN p ELSE AfterOne(f[i - 1], s[i])]

LEMMA RunExists ==
    ASSUME NEW p, NEW s, Len(s) \in Nat
    PROVE  \E f : Runs(f, p, s)
<1> DEFINE Part(f, n) == f = [i \in 0..n |-> IF i = 0 THEN p ELSE AfterOne(f[i - 1], s[i])]
           S == {n \in Nat : \E f : Part(f, n)}
<1>1. 0 \in S
    <2>1. Part([i \in 0..0 |-> p], 0)
        OBVIOUS
    <2> QED  BY <2>1
<1>2. \A n \in Nat : n \in S => n + 1 \in S
    <2> SUFFICES ASSUME NEW n \in Nat, NEW f, Part(f, n) PROVE \E g : Part(g, n + 1)
        OBVIOUS
    <2> DEFINE g == [i \in 0..(n + 1) |-> IF i = n + 1 THEN AfterOne(f[n], s[n + 1]) ELSE f[i]]
    <2>1. \A i \in 0..(n + 1) : g[i] = IF i = 0 THEN p ELSE AfterOne(g[i - 1], s[i])
        <3> SUFFICES ASSUME NEW i \in 0..(n + 1)
                     PROVE  g[i] = IF i = 0 THEN p ELSE AfterOne(g[i - 1], s[i])
            OBVIOUS
        <3>1. CASE i = n + 1
            <4>1. i # 0 /\ i - 1 = n /\ n \in 0..(n + 1) /\ n # n + 1
                BY <3>1
            <4> QED  BY <3>1, <4>1
        <3>2. CASE i # n + 1 /\ i # 0
            <4>1. i \in 0..n /\ i - 1 \in 0..(n + 1) /\ i - 1 # n + 1
                BY <3>2
            <4>2. f[i] = AfterOne(f[i - 1], s[i])
                BY <3>2, <4>1
            <4> QED  BY <3>2, <4>1, <4>2
        <3>3. CASE i = 0
            <4>1. f[0] = p /\ 0 # n + 1 /\ 0 \in 0..(n + 1)
                OBVIOUS
            <4> QED  BY <3>3, <4>1
        <3> QED  BY <3>1, <3>2, <3>3
    <2>2. Part(g, n + 1)
        BY <2>1, Zenon
    <2> QED  BY <2>2
<1>3. Len(s) \in S
    <2> HIDE DEF S
    <2> QED  BY <1>1, <1>2, Induction
<1>4. \E f : Part(f, Len(s))
    <2> HIDE DEF Part
    <2> QED  BY <1>3
<1> QED  BY <1>4, Zenon DEF Runs

LEMMA AfterType ==
    ASSUME NEW p \in OpenPositions, NEW s \in Seq(Orders)
    PROVE  After(p, s) \in OpenPositions
<1> DEFINE f == CHOOSE f : f = [i \in 0..Len(s) |-> IF i = 0 THEN p ELSE AfterOne(f[i - 1], s[i])]
<1>0. Len(s) \in Nat
    OBVIOUS
<1>1. \E g : Runs(g, p, s)
    BY <1>0, RunExists
<1>12. Runs(f, p, s)
    BY <1>1, Zenon DEF Runs
<1>2. After(p, s) = f[Len(s)]
    BY Zenon DEF After
<1> HIDE DEF f
<1> DEFINE S == {n \in Nat : n <= Len(s) => f[n] \in OpenPositions}
<1>3. 0 \in S
    BY <1>12 DEF Runs
<1>4. \A n \in Nat : n \in S => n + 1 \in S
    <2> SUFFICES ASSUME NEW n \in Nat, n \in S, n + 1 <= Len(s) PROVE f[n + 1] \in OpenPositions
        OBVIOUS
    <2>1. n + 1 \in 0..Len(s) /\ n + 1 # 0 /\ (n + 1) - 1 = n /\ n <= Len(s) /\ n + 1 \in 1..Len(s)
        OBVIOUS
    <2>2. f[n + 1] = AfterOne(f[n], s[n + 1])
        BY <1>12, <2>1 DEF Runs
    <2>3. s[n + 1] \in Orders /\ f[n] \in OpenPositions
        BY <2>1
    <2> QED  BY <2>2, <2>3, AfterOneType
<1>5. Len(s) \in S
    <2> HIDE DEF S
    <2> QED  BY <1>3, <1>4, Induction
<1> QED  BY <1>2, <1>5

-----------------------------------------------------------------------------
\* What is carried overnight is what the last result rows left open.

Remembers ==
    \A k \in Keys : account[k] = IF carry[k] = None THEN None ELSE Held(carry[k])

CarryInv ==
    /\ day \in Nat
    /\ carry \in [Keys -> Snapshots \cup {None}]
    /\ Remembers

LEMMA InitCarries == CarryInit => CarryInv
BY DEF CarryInit, CarryInv, Remembers

LEMMA HeldIsPosition ==
    ASSUME CarryAssumption, NEW s \in Snapshots \cup {None}
    PROVE  Held(s) \in OpenPositions /\ Held(s) # None
<1>1. Held(s) \in OpenPositions
    BY DEF Held, Snapshots, OpenPositions, Flat
<1> QED  BY <1>1 DEF CarryAssumption

\* The rows of the date, and what comes of each pair.
Ended(k) == IF done'[k] = None THEN None ELSE After(records'[k], done'[k])
EndedRows == [k \in Keys |-> Ended(k)]
Date == TradeDates[day + 1]

LEMMA DateSteps ==
    ASSUME CarryAssumption, CarryInv, CarryNext, NEW k \in Keys
    PROVE  /\ day' = day + 1 /\ Date \in Days
           /\ records'[k] = None => done'[k] = None
           /\ records'[k] # None => /\ records'[k] = Held(carry[k])
                                    /\ <<Date, k>> \notin Excluded
           /\ records'[k] = None => <<Date, k>> \in Excluded \/ carry[k] = None
           /\ Ended(k) \in OpenPositions \cup {None}
           /\ carry'[k] = IF records'[k] # None /\ ~Expired(k, EndedRows, Date)
                          THEN Snapshot(k, EndedRows, Date) ELSE None
           /\ status'[k] = Status(k, records', EndedRows, Date)
           /\ account'[k] = IF <<Date, k>> \in Excluded \/ status'[k] = "expiry_position_remaining" THEN None
                            ELSE IF Ended(k) = None THEN account[k]
                            ELSE IF Ended(k).qty = 0 THEN None ELSE Ended(k)
<1>1. PICK universe \in SUBSET Keys : RunDate(universe)
    BY DEF CarryNext
<1>2. Date \in Days
    <2>1. day < Len(TradeDates) /\ day \in Nat /\ TradeDates \in Seq(Calendar)
        BY DEF CarryNext, CarryInv, CarryAssumption
    <2>2. TradeDates[day + 1] \in Calendar
        BY <2>1
    <2> QED  BY <2>2 DEF CarryAssumption, Date
<1>3. /\ day' = day + 1
      /\ records' = Augmented(universe, Date)
      /\ done' \in [Keys -> Outcomes \cup {None}]
      /\ \A l \in Keys : done'[l] \in Outcome(records', l)
      /\ Advance(records', EndedRows, Date)
      /\ account' = [l \in Keys |->
              IF <<Date, l>> \in Excluded \/ status'[l] = "expiry_position_remaining" THEN None
              ELSE IF EndedRows[l] = None THEN account[l]
              ELSE IF EndedRows[l].qty = 0 THEN None ELSE EndedRows[l]]
    BY <1>1 DEF RunDate, Date, EndedRows, Ended
<1>4. EndedRows[k] = Ended(k)
    BY DEF EndedRows
<1>5. /\ records'[k] # None => records'[k] = Held(carry[k]) /\ <<Date, k>> \notin Excluded
      /\ records'[k] = None => <<Date, k>> \in Excluded \/ carry[k] = None
    <2>1. carry[k] \in Snapshots \cup {None}
        BY DEF CarryInv
    <2>2. Held(carry[k]) # None
        BY <2>1, HeldIsPosition
    <2> QED  BY <1>3, <2>2 DEF Augmented
<1>6. records'[k] = None => done'[k] = None
    BY <1>3 DEF Outcome
<1>7. Ended(k) \in OpenPositions \cup {None}
    <2> SUFFICES ASSUME done'[k] # None PROVE After(records'[k], done'[k]) \in OpenPositions
        BY DEF Ended
    <2>1. done'[k] \in Seq(Orders)
        BY <1>3 DEF CarryAssumption, Orders
    <2>2. records'[k] \in OpenPositions
        <3>1. carry[k] \in Snapshots \cup {None}
            BY DEF CarryInv
        <3> QED  BY <1>5, <1>6, <3>1, HeldIsPosition
    <2> QED  BY <2>1, <2>2, AfterType
<1>8. /\ carry'[k] = IF records'[k] # None /\ ~Expired(k, EndedRows, Date)
                     THEN Snapshot(k, EndedRows, Date) ELSE None
      /\ status'[k] = Status(k, records', EndedRows, Date)
    BY <1>3 DEF Advance
<1>9. account'[k] = IF <<Date, k>> \in Excluded \/ status'[k] = "expiry_position_remaining" THEN None
                    ELSE IF Ended(k) = None THEN account[k]
                    ELSE IF Ended(k).qty = 0 THEN None ELSE Ended(k)
    BY <1>3, <1>4
<1> QED  BY <1>2, <1>3, <1>5, <1>6, <1>7, <1>8, <1>9

LEMMA DateKeeps == CarryAssumption /\ CarryInv /\ [CarryNext]_carryVars => CarryInv'
<1> SUFFICES ASSUME CarryAssumption, CarryInv, [CarryNext]_carryVars PROVE CarryInv'
    OBVIOUS
<1>1. CASE UNCHANGED carryVars
    BY <1>1 DEF CarryInv, Remembers, carryVars
<1>2. CASE CarryNext
    <2>0. day' \in Nat
        BY <1>2, DateSteps DEF CarryInv, CarryNext, RunDate
    <2>1. ASSUME NEW k \in Keys
          PROVE  /\ carry'[k] \in Snapshots \cup {None}
                 /\ account'[k] = IF carry'[k] = None THEN None ELSE Held(carry'[k])
        <3>1. PICK row : row = Ended(k) /\ EndedRows[k] = row
            BY DEF EndedRows
        <3>2. /\ row \in OpenPositions \cup {None} /\ Date \in Days
              /\ carry[k] \in Snapshots \cup {None}
              /\ None \notin OpenPositions /\ None \notin Snapshots
              /\ account[k] = IF carry[k] = None THEN None ELSE Held(carry[k])
            BY <1>2, <3>1, DateSteps DEF CarryInv, Remembers, CarryAssumption
        <3>3. PICK snap : snap = Snapshot(k, EndedRows, Date)
            OBVIOUS
        <3>4. /\ snap = IF row = None THEN carry[k]
                        ELSE IF row.qty = 0 THEN None
                        ELSE [qty |-> row.qty, side |-> row.side, from |-> Date]
              /\ snap \in Snapshots \cup {None}
              /\ row # None /\ row.qty # 0 => snap # None /\ Held(snap) = row
            BY <3>1, <3>2, <3>3 DEF Snapshot, Snapshots, OpenPositions, Held
        <3>5. carry'[k] = IF records'[k] # None /\ ~Expired(k, EndedRows, Date) THEN snap ELSE None
            BY <1>2, <3>3, DateSteps
        <3>6. account'[k] = IF <<Date, k>> \in Excluded \/ status'[k] = "expiry_position_remaining" THEN None
                            ELSE IF row = None THEN account[k]
                            ELSE IF row.qty = 0 THEN None ELSE row
            BY <1>2, <3>1, DateSteps
        <3>7. status'[k] = "expiry_position_remaining" <=> records'[k] # None /\ Expired(k, EndedRows, Date)
            BY <1>2, DateSteps DEF Status
        <3>8. Expired(k, EndedRows, Date) => snap # None
            BY <3>3 DEF Expired
        <3>9. CASE records'[k] = None
            <4>1. row = None /\ (<<Date, k>> \in Excluded \/ carry[k] = None)
                BY <1>2, <3>1, <3>9, DateSteps DEF Ended
            <4> QED  BY <3>2, <3>5, <3>6, <3>7, <3>9, <4>1
        <3>10. CASE records'[k] # None
            <4>1. <<Date, k>> \notin Excluded
                BY <1>2, <3>10, DateSteps
            <4> QED  BY <3>2, <3>4, <3>5, <3>6, <3>7, <3>8, <3>10, <4>1
        <3> QED  BY <3>9, <3>10
    <2>2. carry' = [k \in Keys |-> carry'[k]]
        BY <1>2 DEF CarryNext, RunDate, Advance
    <2>3. carry' \in [Keys -> Snapshots \cup {None}]
        BY <2>1, <2>2
    <2> QED  BY <2>0, <2>1, <2>3 DEF CarryInv, Remembers
<1> QED  BY <1>1, <1>2

\* What a pair's last result row left open is restored in the runs of every
\* date, whether or not it is selected and however many runs failed between.
THEOREM CarryIsHeld ==
    ASSUME CarryAssumption
    PROVE  CarrySpec => HeldUntilClosed
<1>1. CarryInv /\ [CarryNext]_carryVars =>
        [\A k \in Keys : <<TradeDates[day + 1], k>> \notin Excluded =>
            /\ account[k] # None => records'[k] = account[k]
            /\ account[k] = None => records'[k] \in {None, Flat}]_carryVars
    <2> SUFFICES ASSUME CarryInv, CarryNext, NEW k \in Keys, <<Date, k>> \notin Excluded
                 PROVE  /\ account[k] # None => records'[k] = account[k]
                        /\ account[k] = None => records'[k] \in {None, Flat}
        BY DEF Date
    <2>1. account[k] = IF carry[k] = None THEN None ELSE Held(carry[k])
        BY DEF CarryInv, Remembers
    <2>2. /\ records'[k] # None => records'[k] = Held(carry[k])
          /\ records'[k] = None => carry[k] = None
        BY DateSteps
    <2>3. carry[k] = None => Held(carry[k]) = Flat
        BY DEF Held
    <2>4. carry[k] # None => account[k] # None
        BY <2>1, HeldIsPosition DEF CarryInv
    <2> QED  BY <2>1, <2>2, <2>3, <2>4
<1> QED  BY <1>1, InitCarries, DateKeeps, PTL DEF CarrySpec, HeldUntilClosed
-----------------------------------------------------------------------------
\* The final trade date.

\* The contract's month as it is read on day d: at most a year ago, and less
\* than five years ahead.
Near(k, d) == Month(d) - 12 <= Delivery[k] /\ Delivery[k] < Month(d) + 60

LEMMA DivFacts ==
    ASSUME NEW d \in Nat, NEW m \in Nat \ {0}
    PROVE  d \div m \in Nat /\ (d \div m) * m <= d /\ d < (d \div m) * m + m
OBVIOUS

LEMMA DivIs ==
    ASSUME NEW q \in Nat, NEW m \in Nat \ {0}, NEW d \in Nat, q * m <= d, d < q * m + m
    PROVE  d \div m = q
OBVIOUS

LEMMA DivGrows ==
    ASSUME NEW d \in Nat, NEW e \in Nat, NEW m \in Nat \ {0}, d <= e
    PROVE  d \div m <= e \div m
OBVIOUS

LEMMA MonthIsRead ==
    ASSUME CarryAssumption, NEW k \in Keys, NEW d \in Days, Near(k, d)
    PROVE  Decoded(k, d) = Delivery[k]
<1> DEFINE D == Delivery[k]
           M == Month(d)
           Candidates == {12 * y + Letter(k) :
                            y \in {z \in (Year(d) - 1)..(Year(d) + 10) : z % 10 = Digit(k)}}
           Nearest(m) == \A n \in Candidates :
                            \/ Distance(m, M) < Distance(n, M)
                            \/ Distance(m, M) = Distance(n, M) /\ m <= n
<1>1. D \in Nat /\ M \in Nat /\ M - 12 <= D /\ D < M + 60
    <2>1. d \in Nat /\ MonthDays \in Nat \ {0} /\ D \in Nat
        BY DEF CarryAssumption, Days
    <2> QED  BY <2>1, DivFacts DEF Near, Month
<1>2. /\ Letter(k) = D % 12 /\ Digit(k) = (D \div 12) % 10
      /\ Year(d) = M \div 12
    BY DEF Letter, Digit, Year
<1>3. Decoded(k, d) = CHOOSE m \in Candidates : Nearest(m)
    BY DEF Decoded
<1> HIDE DEF D, M
<1>4. PICK z \in Nat : z = D \div 12 /\ D = 12 * z + (D % 12)
    BY <1>1
<1>5. PICK y \in Nat : y = M \div 12 /\ 12 * y <= M /\ M < 12 * y + 12
    BY <1>1
<1>6. D \in Candidates
    <2>1. z \in (y - 1)..(y + 10)
        BY <1>1, <1>4, <1>5
    <2> QED  BY <1>2, <1>4, <1>5, <2>1
<1>7. ASSUME NEW n \in Candidates, n # D
      PROVE  Distance(D, M) < Distance(n, M)
    <2>1. PICK x \in (y - 1)..(y + 10) : x % 10 = z % 10 /\ n = 12 * x + (D % 12)
        BY <1>2, <1>4, <1>5
    <2>2. x # z /\ x \in Int
        <3>1. x = z => n = D
            BY <1>4, <2>1, Zenon
        <3> QED  BY <1>5, <1>7, <2>1, <3>1
    <2>3. x >= z + 10 \/ x <= z - 10
        BY <2>1, <2>2
    <2>4. n >= D + 120 \/ n <= D - 120
        <3>1. PICK r \in Int : r = D % 12
            BY <1>1
        <3>2. D = 12 * z + r /\ n = 12 * x + r
            BY <1>4, <2>1, <3>1
        <3> QED  BY <2>2, <2>3, <3>1, <3>2
    <2>5. n \in Int
        BY <1>1, <2>1
    <2> QED  BY <1>1, <2>4, <2>5 DEF Distance
<1>8. Nearest(D)
    <2> SUFFICES ASSUME NEW n \in Candidates
                 PROVE  \/ Distance(D, M) < Distance(n, M)
                        \/ Distance(D, M) = Distance(n, M) /\ D <= n
        OBVIOUS
    <2>1. CASE n = D
        BY <1>1, <2>1
    <2>2. CASE n # D
        BY <1>7, <2>2
    <2> QED  BY <2>1, <2>2
<1>9. ASSUME NEW m \in Candidates, Nearest(m) PROVE m = D
    <2> SUFFICES ASSUME m # D PROVE FALSE
        OBVIOUS
    <2>1. Distance(D, M) < Distance(m, M)
        BY <1>7
    <2>2. \/ Distance(m, M) < Distance(D, M)
          \/ Distance(m, M) = Distance(D, M)
        BY <1>6, <1>9
    <2>3. Distance(D, M) \in Int /\ Distance(m, M) \in Int
        <3>1. PICK x \in (y - 1)..(y + 10) : m = 12 * x + (D % 12)
            BY <1>2, <1>5
        <3>2. m \in Int
            BY <1>1, <3>1
        <3> QED  BY <1>1, <3>2 DEF Distance
    <2> QED  BY <2>1, <2>2, <2>3
<1> QED
    <2> HIDE DEF Candidates, Nearest
    <2> QED  BY <1>3, <1>6, <1>8, <1>9 DEF D

\* Every contract is traded in its month of delivery, by the third Wednesday.
TradedInDelivery ==
    \A k \in Keys : \E c \in Calendar :
        Month(c) = Delivery[k] /\ c <= Delivery[k] * MonthDays + Wednesday

\* The last trading day is the last day on which the contract can be traded.
LEMMA ExpiryIsLastDay ==
    ASSUME CarryAssumption, TradedInDelivery, NEW k \in Keys, NEW d \in Days, Near(k, d)
    PROVE  /\ ExpiryDate(k, d) \in Nat
           /\ d < ExpiryDate(k, d) => Month(d) <= Delivery[k]
           /\ d < ExpiryDate(k, d) <=> CanTradeAfter(k, d)
<1> DEFINE nominal == Delivery[k] * MonthDays + Wednesday
           available == {c \in Calendar : Month(c) = Delivery[k] /\ c <= nominal}
           Latest(c) == \A e \in available : e <= c
<1>1. /\ d \in Nat /\ MonthDays \in Nat \ {0} /\ Delivery[k] \in Nat
      /\ Wednesday \in Nat /\ Wednesday < MonthDays /\ Calendar \subseteq Nat
    BY DEF CarryAssumption, Days
<1>2. nominal \in Nat /\ Delivery[k] * MonthDays <= nominal /\ nominal < Delivery[k] * MonthDays + MonthDays
    <2>1. Delivery[k] * MonthDays \in Nat
        BY <1>1
    <2> QED  BY <1>1, <2>1
<1>3. Month(nominal) = Delivery[k]
    <2> HIDE DEF nominal
    <2> QED  BY <1>1, <1>2, DivIs DEF Month
<1>4. available # {} /\ available \subseteq Nat
    BY <1>1 DEF TradedInDelivery
<1>5. ExpiryDate(k, d) = CHOOSE c \in available : Latest(c)
    <2>1. Decoded(k, d) = Delivery[k]
        BY MonthIsRead
    <2> QED  BY <2>1, <1>4 DEF ExpiryDate
<1> HIDE DEF nominal
<1>6. \E c \in available : Latest(c)
    <2> DEFINE S == {m \in Nat : \E c \in available : m = nominal - c}
    <2>1. S # {}
        <3>1. PICK c \in available : TRUE
            BY <1>4
        <3>2. nominal - c \in S
            BY <1>2, <1>4, <3>1
        <3> QED  BY <3>2
    <2>2. PICK m \in S : \A x \in S : m <= x
        BY <2>1, LeastNatural
    <2>3. PICK c \in available : m = nominal - c
        BY <2>2
    <2>4. ASSUME NEW e \in available PROVE e <= c
        <3>1. nominal - e \in S
            BY <1>2, <1>4
        <3>2. m <= nominal - e
            BY <2>2, <3>1
        <3>3. e \in Nat /\ c \in Nat /\ m = nominal - c
            BY <1>4, <2>3
        <3> HIDE DEF available, S
        <3> QED  BY <1>2, <3>2, <3>3
    <2> QED  BY <2>4
<1>7. PICK last \in available : last = ExpiryDate(k, d) /\ Latest(last)
    <2> HIDE DEF available, Latest
    <2> QED  BY <1>5, <1>6
<1>8. last \in Nat /\ last \in Calendar /\ Month(last) = Delivery[k] /\ last <= nominal
    BY <1>4
<1>9. d < last => Month(d) <= Delivery[k]
    <2>1. d < last => d \div MonthDays <= last \div MonthDays
        BY <1>1, <1>8, DivGrows
    <2> QED  BY <1>8, <2>1 DEF Month
<1>10. d < last => CanTradeAfter(k, d)
    BY <1>8 DEF CanTradeAfter, nominal
<1>11. ASSUME CanTradeAfter(k, d) PROVE d < last
    <2>1. PICK c \in Calendar : c > d /\ c <= nominal
        BY <1>11 DEF CanTradeAfter, nominal
    <2> SUFFICES ASSUME last <= d PROVE FALSE
        BY <1>1, <1>8
    <2>2. c \in Nat /\ last < c
        BY <1>1, <1>8, <2>1
    <2>3. last \div MonthDays <= c \div MonthDays /\ c \div MonthDays <= nominal \div MonthDays
        <3>1. last <= c /\ c <= nominal
            BY <1>8, <2>1, <2>2
        <3> HIDE DEF available, Latest
        <3>2. last \div MonthDays <= c \div MonthDays
            BY <1>1, <1>8, <2>2, <3>1, DivGrows
        <3>3. c \div MonthDays <= nominal \div MonthDays
            BY <1>1, <1>2, <2>2, <3>1, DivGrows
        <3> QED  BY <3>2, <3>3
    <2>4. last \div MonthDays \in Int /\ c \div MonthDays \in Int
        BY <1>1, <1>8, <2>2, DivFacts
    <2>5. Month(c) = Delivery[k]
        BY <1>3, <1>8, <2>3, <2>4 DEF Month
    <2>6. c \in available
        BY <2>1, <2>5
    <2> QED  BY <1>8, <2>2, <2>6, <1>7
<1> QED  BY <1>7, <1>8, <1>9, <1>10, <1>11

\* A run that is not carried is of a contract that is listed.
ListedOnly ==
    [][\A k \in Keys : records'[k] # None /\ carry[k] = None => Near(k, Date)]_carryVars

\* Within a year of any date of a run there is another one.
NoLongGap ==
    \A i \in 1..(Len(TradeDates) - 1) :
        Month(TradeDates[i + 1]) <= Month(TradeDates[i]) + 12

\* What is carried can be delivered yet.
CarriedIsNear ==
    \A k \in Keys : carry[k] # None =>
        day > 0 /\ Month(Today) <= Delivery[k] /\ Delivery[k] < Month(Today) + 60

ExpiryInv == CarryInv /\ day <= Len(TradeDates) /\ CarriedIsNear /\ ExpiryIsReported

LEMMA ExpiryStep ==
    ASSUME CarryAssumption, TradedInDelivery, NoLongGap, ExpiryInv, CarryNext,
           \A k \in Keys : records'[k] # None /\ carry[k] = None => Near(k, Date)
    PROVE  ExpiryInv'
<1>1. CarryInv /\ CarryInv'
    BY DateKeeps DEF ExpiryInv
<1>2. /\ day \in Nat /\ day < Len(TradeDates) /\ day' = day + 1 /\ day' <= Len(TradeDates) /\ day' > 0
      /\ Today' = Date
    BY <1>1 DEF CarryInv, CarryNext, RunDate, Today, Date, CarryAssumption
<1>3. Date \in Days /\ Date \in Nat /\ Month(Date) \in Nat
    <2>1. TradeDates \in Seq(Calendar) /\ Calendar \subseteq Days /\ MonthDays \in Nat \ {0}
        BY DEF CarryAssumption
    <2>2. Date \in Calendar
        BY <1>2, <2>1 DEF Date
    <2>3. Date \in Nat
        BY <2>1, <2>2 DEF Days
    <2> QED  BY <2>1, <2>2, <2>3, DivFacts DEF Month
<1>4. ASSUME NEW k \in Keys, carry[k] # None PROVE Near(k, Date)
    <2>1. /\ day \in 1..Len(TradeDates) /\ day \in 1..(Len(TradeDates) - 1) /\ day + 1 \in 1..Len(TradeDates)
          /\ Month(Today) <= Delivery[k] /\ Delivery[k] < Month(Today) + 60
        BY <1>2, <1>4 DEF ExpiryInv, CarriedIsNear, CarryAssumption
    <2>2. TradeDates \in Seq(Calendar) /\ Calendar \subseteq Days /\ MonthDays \in Nat \ {0}
        BY DEF CarryAssumption
    <2>3. Today \in Nat /\ Today <= Date
        <3>1. Today \in Calendar
            BY <2>1, <2>2 DEF Today
        <3>2. Today \in Nat
            BY <2>2, <3>1 DEF Days
        <3>3. TradeDates[day] < TradeDates[day + 1]
            BY <1>2, <2>1 DEF CarryAssumption
        <3> QED  BY <1>3, <3>2, <3>3 DEF Today, Date
    <2>4. Month(Today) \in Nat /\ Month(Today) <= Month(Date)
        <3>1. Today \div MonthDays <= Date \div MonthDays
            BY <1>3, <2>2, <2>3, DivGrows
        <3> QED  BY <2>2, <2>3, <3>1, DivFacts DEF Month
    <2>5. Month(Date) <= Month(Today) + 12
        BY <2>1 DEF NoLongGap, Today, Date
    <2>6. Delivery[k] \in Nat
        BY DEF CarryAssumption
    <2> QED  BY <1>3, <2>1, <2>4, <2>5, <2>6 DEF Near
<1>5. ASSUME NEW k \in Keys
      PROVE  /\ carry'[k] # None => /\ Month(Date) <= Delivery[k]
                                    /\ Delivery[k] < Month(Date) + 60
                                    /\ CanTradeAfter(k, Date)
             /\ status'[k] = "expiry_position_remaining" => ~CanTradeAfter(k, Date)
    <2>1. /\ carry'[k] = IF records'[k] # None /\ ~Expired(k, EndedRows, Date)
                         THEN Snapshot(k, EndedRows, Date) ELSE None
          /\ status'[k] = Status(k, records', EndedRows, Date)
        BY <1>1, DateSteps
    <2>2. CASE records'[k] = None
        BY <2>1, <2>2 DEF Status
    <2>3. CASE records'[k] # None
        <3>1. Near(k, Date)
            BY <1>4, <2>3
        <3>2. /\ ExpiryDate(k, Date) \in Nat
              /\ Date < ExpiryDate(k, Date) => Month(Date) <= Delivery[k]
              /\ Date < ExpiryDate(k, Date) <=> CanTradeAfter(k, Date)
            BY <1>3, <3>1, ExpiryIsLastDay
        <3>3. Expired(k, EndedRows, Date) <=>
                Snapshot(k, EndedRows, Date) # None /\ ~(Date < ExpiryDate(k, Date))
            BY <1>3, <3>2 DEF Expired
        <3>4. status'[k] = "expiry_position_remaining" => Expired(k, EndedRows, Date)
            BY <2>1 DEF Status
        <3>5. carry'[k] # None => Date < ExpiryDate(k, Date)
            BY <2>1, <3>3
        <3>6. Delivery[k] < Month(Date) + 60
            BY <3>1 DEF Near
        <3> QED  BY <3>2, <3>3, <3>4, <3>5, <3>6
    <2> QED  BY <2>2, <2>3
<1>6. CarriedIsNear'
    BY <1>2, <1>5 DEF CarriedIsNear
<1>7. ExpiryIsReported'
    BY <1>2, <1>5 DEF ExpiryIsReported, CanTradeAfter
<1> QED  BY <1>1, <1>2, <1>6, <1>7 DEF ExpiryInv

\* No position outlives its contract and none is given up before, whatever
\* decade the digit of the year is read in.
THEOREM ExpiryReported ==
    ASSUME CarryAssumption, TradedInDelivery, NoLongGap
    PROVE  CarrySpec /\ ListedOnly => []ExpiryIsReported
<1>1. CarryInit => ExpiryInv
    BY InitCarries DEF CarryInit, ExpiryInv, CarriedIsNear, ExpiryIsReported, CarryAssumption
<1>2. /\ ExpiryInv /\ [CarryNext]_carryVars
      /\ [\A k \in Keys : records'[k] # None /\ carry[k] = None => Near(k, Date)]_carryVars
      => ExpiryInv'
    <2>1. ASSUME ExpiryInv, UNCHANGED carryVars PROVE ExpiryInv'
        BY <2>1 DEF ExpiryInv, CarryInv, Remembers, CarriedIsNear, ExpiryIsReported,
                    CanTradeAfter, Today, carryVars
    <2> QED  BY <2>1, ExpiryStep
<1>3. ExpiryInv => ExpiryIsReported
    BY DEF ExpiryInv
<1> QED  BY <1>1, <1>2, <1>3, PTL DEF CarrySpec, ListedOnly

-----------------------------------------------------------------------------
\* The books of the replay.

Lots == [spot : Nat, future : Nat]
Fields == {"spot", "future"}
Books == [lots : [Keys -> Seq(Lots)], spot : Int, future : Int, peak : Int,
          accepted : Int, rejected : Int, exits : Int, unmatched : Int, discarded : Int]

\* The capital in use is that of the open lots.
Accounted(b) == b.spot = OpenIn(b, "spot") /\ b.future = OpenIn(b, "future")

\* No limit is exceeded.
Limited(b) ==
    /\ Within(b.spot, EffectiveSpot) /\ Within(b.future, EffectiveFuture)
    /\ b.spot + b.future <= TotalCapital * Scale /\ b.peak <= TotalCapital * Scale

BookOK(b) == b \in Books /\ Accounted(b) /\ Limited(b)
Peaking(b) == b.spot + b.future <= b.peak

LEMMA LotType ==
    ASSUME NEW k \in Keys
    PROVE  Lot(k) \in Lots
<1>1. Notional[k].spot \in Nat /\ Notional[k].future \in Nat /\ Notional[k].fee \in Nat
    BY CapitalAssumption
<1>2. EffectiveSpot \in Nat /\ EffectiveFuture \in Nat /\ Scale \in Nat
    BY CapitalAssumption DEF EffectiveSpot, EffectiveFuture
<1>3. \A x, y \in Nat : x * y \in Nat
    OBVIOUS
<1> QED  BY <1>1, <1>2, <1>3 DEF Lot, Lots

LEMMA SumOfType ==
    ASSUME NEW s \in Seq(Lots), NEW field \in Fields
    PROVE  SumOf(s, field) \in Nat
<1> DEFINE f == [i \in 1..Len(s) |-> s[i][field]]
<1>1. ASSUME NEW i \in 1..Len(s) PROVE f[i] \in Nat
    <2>1. s[i] \in Lots
        OBVIOUS
    <2> QED  BY <2>1 DEF Lots, Fields
<1>2. SumTo(f, Len(s)) \in Nat
    <2> HIDE DEF f
    <2> QED  BY <1>1, SumIsNatural
<1> QED  BY <1>2 DEF SumOf

LEMMA SumOfAppended ==
    ASSUME NEW s \in Seq(Lots), NEW field \in Fields, NEW l \in Lots
    PROVE  SumOf(Append(s, l), field) = SumOf(s, field) + l[field]
<1> DEFINE t == Append(s, l)
           f == [i \in 1..Len(s) |-> s[i][field]]
           g == [i \in 1..Len(t) |-> t[i][field]]
<1>1. Len(t) = Len(s) + 1 /\ Len(s) \in Nat /\ t[Len(s) + 1] = l /\ \A i \in 1..Len(s) : t[i] = s[i]
    OBVIOUS
<1> HIDE DEF t
<1>2. /\ \A i \in 1..Len(s) : f[i] = g[i]
      /\ g[Len(s) + 1] = l[field]
    BY <1>1
<1>3. SumOf(s, field) = SumTo(f, Len(s)) /\ SumOf(t, field) = SumTo(g, Len(s) + 1)
    BY <1>1 DEF SumOf
<1> HIDE DEF f, g
<1>4. SumTo(f, Len(s)) = SumTo(g, Len(s))
    BY <1>1, <1>2, SumsEqual
<1>5. SumTo(g, Len(s) + 1) = SumTo(g, Len(s)) + g[Len(s) + 1]
    BY <1>1, SumOneMore
<1> QED  BY <1>2, <1>3, <1>4, <1>5 DEF t

LEMMA SumOfTail ==
    ASSUME NEW s \in Seq(Lots), NEW field \in Fields, s # <<>>
    PROVE  SumOf(Tail(s), field) = SumOf(s, field) - Head(s)[field]
<1> DEFINE t == Tail(s)
           f == [i \in 1..Len(s) |-> s[i][field]]
           g == [i \in 1..Len(t) |-> t[i][field]]
<1>1. PICK n \in Nat : n = Len(t) /\ Len(s) = n + 1
    OBVIOUS
<1>2. \A i \in 1..n : t[i] = s[i + 1]
    BY <1>1
<1>3. Head(s) = s[1] /\ \A i \in 1..(n + 1) : s[i] \in Lots
    BY <1>1
<1> HIDE DEF t
<1>4. /\ \A i \in 1..(n + 1) : f[i] \in Int
      /\ f[1] = Head(s)[field]
      /\ \A i \in 1..n : g[i] = f[i + 1]
    BY <1>1, <1>2, <1>3 DEF Lots, Fields
<1>5. SumOf(s, field) = SumTo(f, n + 1) /\ SumOf(t, field) = SumTo(g, n)
    BY <1>1 DEF SumOf
<1> HIDE DEF f, g
<1>6. SumTo(g, n) = SumTo(f, n + 1) - f[1]
    BY <1>4, SumOfRest
<1> QED  BY <1>4, <1>5, <1>6 DEF t

LEMMA OpenIsNatural ==
    ASSUME NEW b \in Books, NEW field \in Fields
    PROVE  OpenIn(b, field) \in Nat
<1> DEFINE f == [k \in Keys |-> SumOf(b.lots[k], field)]
<1>1. \A k \in 1..Cardinality(Keys) : f[k] \in Nat
    BY CapitalAssumption, SumOfType DEF Books
<1>2. SumTo(f, Cardinality(Keys)) \in Nat
    <2> HIDE DEF f
    <2> QED  BY CapitalAssumption, <1>1, SumIsNatural
<1> QED  BY <1>2 DEF OpenIn

\* Lots of one key that change the sum by as much.
LEMMA OpenMoves ==
    ASSUME NEW b \in Books, NEW c \in Books, NEW k \in Keys, NEW field \in Fields,
           \A j \in Keys : j # k => c.lots[j] = b.lots[j]
    PROVE  OpenIn(c, field) = OpenIn(b, field) - SumOf(b.lots[k], field) + SumOf(c.lots[k], field)
<1>1. Cardinality(Keys) \in Nat /\ Keys = 1..Cardinality(Keys)
    BY CapitalAssumption
<1> DEFINE f == [j \in Keys |-> SumOf(b.lots[j], field)]
           g == [j \in Keys |-> SumOf(c.lots[j], field)]
<1>2. \A j \in Keys : f[j] \in Int /\ g[j] \in Int
    <2> SUFFICES ASSUME NEW j \in Keys PROVE f[j] \in Int /\ g[j] \in Int
        OBVIOUS
    <2>1. b.lots[j] \in Seq(Lots) /\ c.lots[j] \in Seq(Lots)
        BY DEF Books
    <2>2. SumOf(b.lots[j], field) \in Nat /\ SumOf(c.lots[j], field) \in Nat
        BY <2>1, SumOfType
    <2> QED  BY <2>2
<1>3. \A j \in Keys : j # k => g[j] = f[j]
    OBVIOUS
<1>4. /\ f[k] = SumOf(b.lots[k], field) /\ g[k] = SumOf(c.lots[k], field)
      /\ OpenIn(b, field) = SumTo(f, Cardinality(Keys)) /\ OpenIn(c, field) = SumTo(g, Cardinality(Keys))
    BY DEF OpenIn
<1> HIDE DEF f, g
<1>5. SumTo(g, Cardinality(Keys)) = SumTo(f, Cardinality(Keys)) - f[k] + g[k]
    BY <1>1, <1>2, <1>3, SumMovesAt
<1> QED  BY <1>4, <1>5

-----------------------------------------------------------------------------
\* What each event of a replay does to the books.

LEMMA WithinLess ==
    ASSUME NEW x \in Nat, NEW y \in Nat, x <= y, NEW rate \in Nat, Within(y, rate)
    PROVE  Within(x, rate)
<1>1. EffectiveSpot \in Nat /\ EffectiveFuture \in Nat
    BY CapitalAssumption DEF EffectiveSpot, EffectiveFuture
<1>2. PICK e \in Nat : e = EffectiveSpot + EffectiveFuture
    BY <1>1
<1>3. PICK m : m = TotalCapital * Scale * rate
    OBVIOUS
<1>4. m \in Int
    <2>1. \A p, q \in Nat : p * q \in Nat
        OBVIOUS
    <2> QED  BY <1>3, <2>1, CapitalAssumption
<1>5. y * e <= m
    BY <1>2, <1>3 DEF Within
<1>6. x * e <= y * e /\ x * e \in Int /\ y * e \in Int
    BY <1>2
<1> QED  BY <1>2, <1>3, <1>4, <1>5, <1>6 DEF Within

LEMMA RatesAreNatural == EffectiveSpot \in Nat /\ EffectiveFuture \in Nat /\ TotalCapital * Scale \in Nat
<1>1. \A p, q \in Nat : p * q \in Nat
    OBVIOUS
<1> QED  BY <1>1, CapitalAssumption DEF EffectiveSpot, EffectiveFuture

LEMMA EmptyIsOK == BookOK(Empty) /\ Peaking(Empty)
<1>1. Empty \in Books
    BY DEF Empty, Books
<1>2. ASSUME NEW field \in Fields PROVE OpenIn(Empty, field) = 0
    <2> DEFINE f == [k \in Keys |-> SumOf(Empty.lots[k], field)]
    <2>1. ASSUME NEW k \in Keys PROVE f[k] = 0
        <3>1. Empty.lots[k] = <<>> /\ Len(<<>>) = 0
            BY DEF Empty
        <3>2. SumOf(<<>>, field) = 0
            BY <3>1, SumNothing DEF SumOf
        <3> QED  BY <3>1, <3>2
    <2>2. \A k \in 1..Cardinality(Keys) : f[k] = 0
        BY <2>1, CapitalAssumption
    <2>3. SumTo(f, Cardinality(Keys)) = 0
        <3> HIDE DEF f
        <3> QED  BY <2>2, SumOfZeros, CapitalAssumption
    <2> QED  BY <2>3 DEF OpenIn
<1>3. Accounted(Empty)
    BY <1>2 DEF Accounted, Fields, Empty
<1>4. \A rate \in Nat : Within(0, rate)
    <2>1. \A p, q \in Nat : p * q \in Nat
        OBVIOUS
    <2> QED  BY <2>1, CapitalAssumption, RatesAreNatural DEF Within
<1> QED  BY <1>1, <1>3, <1>4, RatesAreNatural DEF BookOK, Limited, Peaking, Empty

LEMMA PopKeeps ==
    ASSUME NEW b, BookOK(b), NEW k \in Keys, b.lots[k] # <<>>
    PROVE  LET c == Pop(b, k) IN
           /\ BookOK(c) /\ c.peak = b.peak /\ c.spot + c.future <= b.spot + b.future
           /\ c.lots[k] = Tail(b.lots[k])
<1> DEFINE c == Pop(b, k)
           lot == Head(b.lots[k])
           drawn == [b EXCEPT !.lots[k] = Tail(@)]
<1>1. b \in Books /\ b.lots[k] \in Seq(Lots) /\ b.lots[k] # <<>>
    BY DEF BookOK, Books
<1>2. lot \in Lots /\ Tail(b.lots[k]) \in Seq(Lots)
    BY <1>1
<1>3. lot.spot \in Nat /\ lot.future \in Nat
    BY <1>2 DEF Lots
<1>4. drawn \in Books /\ drawn.lots[k] = Tail(b.lots[k]) /\ \A j \in Keys : j # k => drawn.lots[j] = b.lots[j]
    BY <1>1, <1>2 DEF Books
<1>5. ASSUME NEW field \in Fields
      PROVE  OpenIn(drawn, field) = OpenIn(b, field) - lot[field] /\ OpenIn(drawn, field) \in Nat
    <2> HIDE DEF drawn
    <2>1. OpenIn(drawn, field) = OpenIn(b, field) - SumOf(b.lots[k], field) + SumOf(drawn.lots[k], field)
        BY <1>1, <1>4, OpenMoves
    <2>2. SumOf(drawn.lots[k], field) = SumOf(b.lots[k], field) - lot[field]
        BY <1>1, <1>4, SumOfTail
    <2>3. SumOf(b.lots[k], field) \in Nat /\ OpenIn(b, field) \in Nat /\ OpenIn(drawn, field) \in Nat
        BY <1>1, <1>4, SumOfType, OpenIsNatural
    <2>4. lot[field] \in Nat
        BY <1>3 DEF Fields
    <2> HIDE DEF lot
    <2> QED  BY <2>1, <2>2, <2>3, <2>4
<1>6. /\ OpenIn(drawn, "spot") = b.spot - lot.spot /\ OpenIn(drawn, "spot") \in Nat
      /\ OpenIn(drawn, "future") = b.future - lot.future /\ OpenIn(drawn, "future") \in Nat
    BY <1>5 DEF Fields, BookOK, Accounted
<1>7. AtLeastZero(b.spot - lot.spot) = b.spot - lot.spot /\ AtLeastZero(b.future - lot.future) = b.future - lot.future
    BY <1>6 DEF AtLeastZero
<1>8. /\ c.lots = drawn.lots /\ c.spot = OpenIn(drawn, "spot") /\ c.future = OpenIn(drawn, "future")
      /\ c.peak = b.peak
    BY <1>1, <1>6, <1>7 DEF Pop, Books
<1>9. c \in Books
    <2>1. c = [drawn EXCEPT !.spot = b.spot - lot.spot, !.future = b.future - lot.future]
        BY <1>1, <1>7 DEF Pop, Books
    <2>2. b.spot - lot.spot \in Int /\ b.future - lot.future \in Int
        BY <1>6
    <2> HIDE DEF drawn, c, lot
    <2> QED  BY <1>4, <2>1, <2>2 DEF Books
<1>10. OpenIn(c, "spot") = OpenIn(drawn, "spot") /\ OpenIn(c, "future") = OpenIn(drawn, "future")
    BY <1>8 DEF OpenIn
<1>11. /\ b.spot \in Nat /\ b.future \in Nat /\ c.spot \in Nat /\ c.future \in Nat
       /\ c.spot <= b.spot /\ c.future <= b.future
    <2>1. b.spot \in Int /\ b.future \in Int
        BY <1>1 DEF Books
    <2> HIDE DEF c, lot, drawn
    <2> QED  BY <1>3, <1>6, <1>8, <2>1
<1>12. BookOK(c)
    <2> HIDE DEF c, lot, drawn
    <2>1. /\ Within(b.spot, EffectiveSpot) /\ Within(b.future, EffectiveFuture)
          /\ b.spot + b.future <= TotalCapital * Scale /\ b.peak <= TotalCapital * Scale
        BY DEF BookOK, Limited
    <2>2. Within(c.spot, EffectiveSpot) /\ Within(c.future, EffectiveFuture)
        BY <1>11, <2>1, WithinLess, RatesAreNatural
    <2>3. c.spot + c.future <= TotalCapital * Scale
        BY <1>11, <2>1, RatesAreNatural
    <2> QED  BY <1>8, <1>9, <1>10, <2>1, <2>2, <2>3 DEF BookOK, Accounted, Limited
<1> HIDE DEF c, lot, drawn
<1>13. c.spot + c.future <= b.spot + b.future
    BY <1>11
<1> QED  BY <1>4, <1>8, <1>12, <1>13 DEF c

\* What is not money in the books may change.
LEMMA SameMoney ==
    ASSUME NEW b, NEW c \in Books, BookOK(b),
           c.lots = b.lots, c.spot = b.spot, c.future = b.future, c.peak = b.peak
    PROVE  BookOK(c)
<1>1. OpenIn(c, "spot") = OpenIn(b, "spot") /\ OpenIn(c, "future") = OpenIn(b, "future")
    BY DEF OpenIn
<1> QED  BY <1>1 DEF BookOK, Accounted, Limited

\* A counter of the books.
LEMMA CountedType ==
    ASSUME NEW b \in Books
    PROVE  /\ [b EXCEPT !.accepted = @ + 1] \in Books /\ [b EXCEPT !.rejected = @ + 1] \in Books
           /\ [b EXCEPT !.exits = @ + 1] \in Books /\ [b EXCEPT !.unmatched = @ + 1] \in Books
           /\ [b EXCEPT !.discarded = @ + 1] \in Books
<1>1. /\ b.accepted + 1 \in Int /\ b.rejected + 1 \in Int /\ b.exits + 1 \in Int
      /\ b.unmatched + 1 \in Int /\ b.discarded + 1 \in Int
    BY DEF Books
<1> QED  BY <1>1 DEF Books

LEMMA EnterKeeps ==
    ASSUME NEW b, BookOK(b), NEW k \in Keys
    PROVE  BookOK(Enter(b, k))
<1> DEFINE lot == Lot(k)
           spot == b.spot + lot.spot
           future == b.future + lot.future
           c == [b EXCEPT !.lots[k] = Append(@, lot), !.spot = spot, !.future = future, !.accepted = @ + 1]
<1>1. b \in Books /\ b.lots[k] \in Seq(Lots)
    BY DEF BookOK, Books
<1>2. lot \in Lots /\ lot.spot \in Nat /\ lot.future \in Nat
    BY LotType DEF Lots
<1>3. CASE /\ Within(spot, EffectiveSpot) /\ Within(future, EffectiveFuture)
           /\ spot + future <= TotalCapital * Scale
    <2>1. Enter(b, k) = c
        BY <1>3 DEF Enter
    <2>2. Append(b.lots[k], lot) \in Seq(Lots)
        BY <1>1, <1>2
    <2>3. /\ c.lots[k] = Append(b.lots[k], lot) /\ \A j \in Keys : j # k => c.lots[j] = b.lots[j]
          /\ c.spot = spot /\ c.future = future /\ c.peak = b.peak
        BY <1>1 DEF Books
    <2>4. spot \in Int /\ future \in Int
        BY <1>1, <1>2 DEF Books
    <2>5. c \in Books
        <3> DEFINE e == [b EXCEPT !.lots[k] = Append(@, lot), !.spot = spot, !.future = future]
        <3> HIDE DEF lot, spot, future
        <3>1. e \in Books /\ c = [e EXCEPT !.accepted = @ + 1]
            BY <1>1, <2>2, <2>4 DEF Books
        <3> HIDE DEF c, e
        <3> QED  BY <3>1, CountedType
    <2>6. ASSUME NEW field \in Fields PROVE OpenIn(c, field) = OpenIn(b, field) + lot[field]
        <3>1. SumOf(c.lots[k], field) = SumOf(b.lots[k], field) + lot[field]
            BY <1>1, <1>2, <2>3, SumOfAppended
        <3>2. SumOf(b.lots[k], field) \in Nat /\ OpenIn(b, field) \in Nat /\ lot[field] \in Nat
            BY <1>1, <1>2, SumOfType, OpenIsNatural DEF Fields
        <3> HIDE DEF c, lot
        <3>3. OpenIn(c, field) = OpenIn(b, field) - SumOf(b.lots[k], field) + SumOf(c.lots[k], field)
            BY <1>1, <2>3, <2>5, OpenMoves
        <3> QED  BY <3>1, <3>2, <3>3
    <2>7. Accounted(c)
        <3>1. b.spot = OpenIn(b, "spot") /\ b.future = OpenIn(b, "future")
            BY DEF BookOK, Accounted
        <3>2. OpenIn(c, "spot") = OpenIn(b, "spot") + lot.spot /\ OpenIn(c, "future") = OpenIn(b, "future") + lot.future
            BY <2>6 DEF Fields
        <3> HIDE DEF c, lot
        <3> QED  BY <2>3, <3>1, <3>2 DEF Accounted, spot, future
    <2>8. Limited(c)
        <3> HIDE DEF c, lot, spot, future
        <3> QED  BY <1>3, <2>3 DEF BookOK, Limited
    <2> HIDE DEF c
    <2> QED  BY <2>1, <2>5, <2>7, <2>8 DEF BookOK
<1>4. CASE ~(/\ Within(spot, EffectiveSpot) /\ Within(future, EffectiveFuture)
             /\ spot + future <= TotalCapital * Scale)
    <2> DEFINE d == [b EXCEPT !.rejected = @ + 1]
    <2>1. Enter(b, k) = d
        BY <1>4 DEF Enter
    <2>2. d \in Books /\ d.lots = b.lots /\ d.spot = b.spot /\ d.future = b.future /\ d.peak = b.peak
        BY <1>1, CountedType DEF Books
    <2> HIDE DEF d
    <2> QED  BY <2>1, <2>2, SameMoney
<1> QED  BY <1>3, <1>4

LEMMA ExitKeeps ==
    ASSUME NEW b, BookOK(b), NEW k \in Keys
    PROVE  BookOK(Exit(b, k))
<1>1. CASE b.lots[k] = <<>>
    <2> DEFINE d == [b EXCEPT !.unmatched = @ + 1]
    <2>1. Exit(b, k) = d
        BY <1>1 DEF Exit
    <2>2. d \in Books /\ d.lots = b.lots /\ d.spot = b.spot /\ d.future = b.future /\ d.peak = b.peak
        BY DEF Books, BookOK
    <2> HIDE DEF d
    <2> QED  BY <2>1, <2>2, SameMoney
<1>2. CASE b.lots[k] # <<>>
    <2> DEFINE p == Pop(b, k)
               d == [p EXCEPT !.exits = @ + 1]
    <2>1. Exit(b, k) = d
        BY <1>2 DEF Exit
    <2>2. BookOK(p)
        BY <1>2, PopKeeps
    <2> HIDE DEF p
    <2>3. d \in Books /\ d.lots = p.lots /\ d.spot = p.spot /\ d.future = p.future /\ d.peak = p.peak
        BY <2>2, CountedType DEF Books, BookOK
    <2> HIDE DEF d
    <2> QED  BY <2>1, <2>2, <2>3, SameMoney
<1> QED  BY <1>1, <1>2

LEMMA PeakedKeeps ==
    ASSUME NEW b, BookOK(b)
    PROVE  BookOK(Peaked(b)) /\ Peaking(Peaked(b))
<1> DEFINE c == Peaked(b)
<1>1. b \in Books /\ b.spot \in Int /\ b.future \in Int /\ b.peak \in Int
    BY DEF BookOK, Books
<1>2. /\ c \in Books /\ c.lots = b.lots /\ c.spot = b.spot /\ c.future = b.future
      /\ c.peak = IF b.spot + b.future > b.peak THEN b.spot + b.future ELSE b.peak
    BY <1>1 DEF Books, Peaked
<1> HIDE DEF c
<1>3. OpenIn(c, "spot") = OpenIn(b, "spot") /\ OpenIn(c, "future") = OpenIn(b, "future")
    BY <1>2 DEF OpenIn
<1>4. c.peak <= TotalCapital * Scale /\ c.spot + c.future <= c.peak
    BY <1>1, <1>2 DEF BookOK, Limited
<1>5. BookOK(c) /\ Peaking(c)
    BY <1>2, <1>3, <1>4 DEF BookOK, Accounted, Limited, Peaking
<1> QED  BY <1>5 DEF c

LEMMA RowKeeps ==
    ASSUME NEW b, BookOK(b), NEW f, f.key \in Keys
    PROVE  BookOK(Row(b, f)) /\ Peaking(Row(b, f))
<1>1. PICK c : c = CASE f.signal = "LONG" -> Enter(b, f.key)
                     [] f.signal = "EXIT" -> Exit(b, f.key)
                     [] OTHER -> b
    OBVIOUS
<1>2. c \in {Enter(b, f.key), Exit(b, f.key), b}
    BY <1>1
<1>3. BookOK(c)
    BY <1>2, EnterKeeps, ExitKeeps
<1>4. Row(b, f) = Peaked(c)
    BY <1>1, Zenon DEF Row
<1> QED  BY <1>3, <1>4, PeakedKeeps

-----------------------------------------------------------------------------
\* The books through the recursions of the replay.

GoodBooks == {c \in Books : BookOK(c) /\ Peaking(c)}

LEMMA GivenUpIsGood ==
    ASSUME NEW b \in GoodBooks, NEW k \in Keys, b.lots[k] # <<>>
    PROVE  /\ [Pop(b, k) EXCEPT !.discarded = @ + 1] \in GoodBooks
           /\ [Pop(b, k) EXCEPT !.discarded = @ + 1].lots[k] = Tail(b.lots[k])
<1> DEFINE p == Pop(b, k)
           d == [p EXCEPT !.discarded = @ + 1]
<1>1. /\ BookOK(p) /\ p.peak = b.peak /\ p.spot + p.future <= b.spot + b.future
      /\ p.lots[k] = Tail(b.lots[k])
    BY PopKeeps DEF GoodBooks
<1>2. p \in Books /\ b \in Books /\ b.spot + b.future <= b.peak
    BY <1>1 DEF BookOK, GoodBooks, Peaking
<1> HIDE DEF p
<1>3. d \in Books
    BY <1>2, CountedType
<1>4. d.lots = p.lots /\ d.spot = p.spot /\ d.future = p.future /\ d.peak = p.peak
    BY <1>2 DEF Books
<1> HIDE DEF d
<1>5. BookOK(d)
    BY <1>1, <1>3, <1>4, SameMoney
<1>6. Peaking(d)
    <2>1. /\ b.spot \in Int /\ b.future \in Int /\ b.peak \in Int
          /\ p.spot \in Int /\ p.future \in Int
        BY <1>2 DEF Books
    <2> QED  BY <1>1, <1>2, <1>4, <2>1 DEF Peaking
<1>7. d \in GoodBooks /\ d.lots[k] = Tail(b.lots[k])
    BY <1>1, <1>3, <1>4, <1>5, <1>6 DEF GoodBooks
<1> QED  BY <1>7 DEF d, p

LEMMA GiveUpIsGood ==
    ASSUME NEW b \in GoodBooks, NEW k \in Keys
    PROVE  GiveUp(b, k) \in GoodBooks
<1>1. PICK n \in Nat : n = Len(b.lots[k])
    <2>1. b.lots[k] \in Seq(Lots)
        BY DEF GoodBooks, Books
    <2> QED  BY <2>1
<1> DEFINE Step(x) == [Pop(x, k) EXCEPT !.discarded = @ + 1]
           D == [i \in 0..n |-> {c \in GoodBooks : Len(c.lots[k]) = n - i}]
           F == [i \in 1..n |-> [x \in D[i - 1] |-> Step(x)]]
           g == CHOOSE g : g = [i \in 0..Len(b.lots[k]) |-> IF i = 0 THEN b ELSE Step(g[i - 1])]
<1>2. b \in D[0]
    BY <1>1
<1>3. ASSUME NEW i \in 1..n, NEW x \in D[i - 1] PROVE Step(x) \in D[i]
    <2>1. i - 1 \in 0..n /\ i \in 0..n
        OBVIOUS
    <2>2. x \in GoodBooks /\ Len(x.lots[k]) = n - (i - 1)
        BY <2>1
    <2>3. x.lots[k] \in Seq(Lots)
        BY <2>2 DEF GoodBooks, Books
    <2>4. x.lots[k] # <<>> /\ Len(Tail(x.lots[k])) = n - i
        BY <2>2, <2>3
    <2>5. Step(x) \in GoodBooks /\ Step(x).lots[k] = Tail(x.lots[k])
        BY <2>2, <2>4, GivenUpIsGood
    <2> HIDE DEF Step
    <2> QED  BY <2>1, <2>4, <2>5
<1>4. \A i \in 1..n : \A x \in D[i - 1] : F[i][x] = Step(x) /\ F[i][x] \in D[i]
    <2> HIDE DEF Step, D
    <2> QED  BY <1>3
<1>5. PICK f : Steps(f, n, b, F) /\ StaysIn(f, n, D)
    <2>1. Leads(F, n, D)
        BY <1>4 DEF Leads
    <2> HIDE DEF D, F
    <2> QED  BY <1>2, <2>1, StepsExist
<1>6. f = [i \in 0..n |-> IF i = 0 THEN b ELSE Step(f[i - 1])]
    <2> HIDE DEF Step, D, F
    <2>1. \A i \in 0..n : i # 0 => F[i][f[i - 1]] = Step(f[i - 1])
        <3> SUFFICES ASSUME NEW i \in 0..n, i # 0 PROVE F[i][f[i - 1]] = Step(f[i - 1])
            OBVIOUS
        <3>1. i \in 1..n /\ i - 1 \in 0..n
            OBVIOUS
        <3> QED  BY <1>4, <1>5, <3>1 DEF StaysIn
    <2>2. \A i \in 0..n : f[i] = IF i = 0 THEN b ELSE Step(f[i - 1])
        BY <1>5, <2>1 DEF Steps
    <2>3. f = [i \in 0..n |-> f[i]]
        BY <1>5 DEF Steps
    <2> QED  BY <2>2, <2>3
<1>7. g = [i \in 0..n |-> IF i = 0 THEN b ELSE Step(g[i - 1])]
    <2> HIDE DEF Step
    <2> QED  BY <1>1, <1>6, Zenon
<1>8. GiveUp(b, k) = g[n]
    BY <1>1, Zenon DEF GiveUp
<1> HIDE DEF g
<1>9. \A i \in 0..n : g[i] \in D[i]
    <2> HIDE DEF Step, D
    <2>1. g[0] = b /\ \A i \in 1..n : g[i] = Step(g[i - 1])
        BY <1>7
    <2>2. \A i \in 1..n : g[i - 1] \in D[i - 1] => g[i] \in D[i]
        BY <1>3, <2>1
    <2> QED  BY <1>2, <2>1, <2>2, StepsStay
<1> QED  BY <1>8, <1>9

LEMMA DiscardIsGood ==
    ASSUME NEW b \in GoodBooks, NEW gone
    PROVE  Discard(b, gone) \in GoodBooks
<1>1. PICK n \in Nat : n = Cardinality(Keys) /\ Keys = 1..n
    BY CapitalAssumption
<1> DEFINE Step(x, k) == IF k \in gone THEN GiveUp(x, k) ELSE x
           D == [k \in 0..n |-> GoodBooks]
           F == [k \in 1..n |-> [x \in GoodBooks |-> Step(x, k)]]
           g == CHOOSE g : g = [k \in 0..Cardinality(Keys) |->
                    IF k = 0 THEN b ELSE IF k \in gone THEN GiveUp(g[k - 1], k) ELSE g[k - 1]]
<1>2. b \in D[0]
    OBVIOUS
<1>3. ASSUME NEW k \in 1..n, NEW x \in GoodBooks PROVE Step(x, k) \in GoodBooks
    BY <1>1, GiveUpIsGood
<1>4. \A k \in 1..n : \A x \in GoodBooks : F[k][x] = Step(x, k) /\ F[k][x] \in GoodBooks
    <2> HIDE DEF Step
    <2> QED  BY <1>3
<1>5. PICK f : Steps(f, n, b, F) /\ StaysIn(f, n, D)
    <2>1. Leads(F, n, D)
        <3> HIDE DEF F
        <3> QED  BY <1>4 DEF Leads
    <2> HIDE DEF D, F
    <2> QED  BY <1>2, <2>1, StepsExist
<1>6. f = [k \in 0..n |-> IF k = 0 THEN b ELSE Step(f[k - 1], k)]
    <2> HIDE DEF Step, F
    <2>1. \A k \in 0..n : k # 0 => F[k][f[k - 1]] = Step(f[k - 1], k)
        <3> SUFFICES ASSUME NEW k \in 0..n, k # 0 PROVE F[k][f[k - 1]] = Step(f[k - 1], k)
            OBVIOUS
        <3>1. k \in 1..n /\ k - 1 \in 0..n
            OBVIOUS
        <3> QED  BY <1>4, <1>5, <3>1 DEF StaysIn
    <2>2. \A k \in 0..n : f[k] = IF k = 0 THEN b ELSE Step(f[k - 1], k)
        BY <1>5, <2>1 DEF Steps
    <2>3. f = [k \in 0..n |-> f[k]]
        BY <1>5 DEF Steps
    <2> QED  BY <2>2, <2>3
<1>7. g = [k \in 0..n |-> IF k = 0 THEN b ELSE IF k \in gone THEN GiveUp(g[k - 1], k) ELSE g[k - 1]]
    BY <1>1, <1>6, Zenon
<1>8. Discard(b, gone) = g[n]
    BY <1>1, Zenon DEF Discard
<1> HIDE DEF g
<1>9. \A k \in 0..n : g[k] \in D[k]
    <2>1. g[0] = b /\ \A k \in 1..n : g[k] = Step(g[k - 1], k)
        BY <1>7
    <2> HIDE DEF Step
    <2>2. \A k \in 1..n : g[k - 1] \in D[k - 1] => g[k] \in D[k]
        BY <1>3, <2>1
    <2> HIDE DEF D
    <2> QED  BY <1>2, <2>1, <2>2, StepsStay
<1> QED  BY <1>8, <1>9

-----------------------------------------------------------------------------
\* The rows of a date, in order.

FillRows == [date : Nat, at : Nat \cup {None}, key : Keys, signal : {"LONG", "SHORT", "EXIT"}, nth : Nat]

LEMMA ForemostExists ==
    ASSUME NEW s \in Seq(FillRows), NEW todo, todo \subseteq 1..Len(s), todo # {},
           NEW d, \A i \in todo : s[i].date = d
    PROVE  Foremost(s, todo) \in todo
<1>0. ASSUME NEW i \in todo
      PROVE  /\ s[i].at \in Nat \cup {None} /\ s[i].key \in Nat /\ s[i].date = d /\ i \in Nat
    <2>1. i \in 1..Len(s) /\ s[i].date = d
        OBVIOUS
    <2>2. s[i] \in FillRows
        BY <2>1
    <2>3. s[i].at \in Nat \cup {None} /\ s[i].key \in Keys
        BY <2>2 DEF FillRows
    <2>4. s[i].key \in Nat
        BY <2>3, CapitalAssumption
    <2>5. i \in Nat
        BY <2>1
    <2> QED  BY <2>1, <2>3, <2>4, <2>5
<1>1. \E T \in SUBSET todo : /\ T # {} /\ \A i, j \in T : s[i].at = s[j].at
                            /\ \A i \in T : \A j \in todo \ T : Earlier(s[i].at, s[j].at)
    <2> DEFINE A == {i \in todo : s[i].at # None}
    <2>1. CASE A = {}
        <3>1. \A i, j \in todo : s[i].at = s[j].at
            BY <2>1
        <3> QED  BY <3>1
    <2>2. CASE A # {}
        <3> DEFINE ats == {s[i].at : i \in A}
        <3>1. ats \subseteq Nat /\ ats # {}
            BY <1>0, <2>2
        <3>2. PICK t \in ats : \A u \in ats : t <= u
            <4> HIDE DEF ats
            <4> QED  BY <3>1, LeastNatural
        <3> DEFINE T == {i \in todo : s[i].at = t}
        <3>3. T # {} /\ T \subseteq todo /\ t # None /\ t \in Nat
            BY <3>1, <3>2
        <3>4. ASSUME NEW j \in todo \ T PROVE Earlier(t, s[j].at)
            <4>1. CASE s[j].at = None
                BY <3>3, <4>1 DEF Earlier
            <4>2. CASE s[j].at # None
                <5>1. s[j].at \in ats
                    BY <4>2
                <5>2. t <= s[j].at /\ t # s[j].at /\ s[j].at \in Nat
                    BY <3>1, <3>2, <5>1
                <5> QED  BY <3>3, <5>2 DEF Earlier
            <4> QED  BY <4>1, <4>2
        <3>5. \A i \in T : s[i].at = t
            OBVIOUS
        <3> HIDE DEF T, ats, A
        <3>6. \A i \in T : \A j \in todo \ T : Earlier(s[i].at, s[j].at)
            BY <3>4, <3>5
        <3>7. \A i, j \in T : s[i].at = s[j].at
            BY <3>5
        <3> QED  BY <3>3, <3>6, <3>7
    <2> QED  BY <2>1, <2>2
<1>2. PICK T \in SUBSET todo : /\ T # {} /\ \A i, j \in T : s[i].at = s[j].at
                              /\ \A i \in T : \A j \in todo \ T : Earlier(s[i].at, s[j].at)
    BY <1>1
<1> DEFINE keys == {s[i].key : i \in T}
<1>3. PICK k \in keys : \A l \in keys : k <= l
    <2>1. keys \subseteq Nat /\ keys # {}
        BY <1>0, <1>2
    <2> HIDE DEF keys
    <2> QED  BY <2>1, LeastNatural
<1> DEFINE U == {i \in T : s[i].key = k}
<1>4. PICK x \in U : \A y \in U : x <= y
    <2>1. U \subseteq Nat /\ U # {}
        BY <1>0, <1>2, <1>3
    <2> HIDE DEF U
    <2> QED  BY <2>1, LeastNatural
<1>5. x \in T /\ x \in todo /\ s[x].key = k /\ x \in Nat
    BY <1>0, <1>2, <1>4
<1>6. ASSUME NEW y \in todo, y # x PROVE Precedes(s, x, y)
    <2>1. s[x].date = s[y].date /\ s[x].key \in Nat /\ s[y].key \in Nat /\ y \in Nat
        BY <1>0, <1>5
    <2>2. CASE y \notin T
        BY <1>2, <1>5, <2>1, <2>2 DEF Precedes
    <2>3. CASE y \in T
        <3>1. s[x].at = s[y].at
            BY <1>2, <1>5, <2>3
        <3>2. s[y].key \in keys
            BY <2>3
        <3>3. k <= s[y].key
            BY <1>3, <3>2
        <3>4. s[y].key = k => x < y
            <4> SUFFICES ASSUME s[y].key = k PROVE x < y
                OBVIOUS
            <4>1. y \in U
                BY <2>3
            <4>2. x <= y
                BY <1>4, <4>1
            <4> QED  BY <1>5, <1>6, <2>1, <4>2
        <3> HIDE DEF keys, U
        <3> QED  BY <1>5, <2>1, <3>1, <3>3, <3>4 DEF Precedes
    <2> QED  BY <2>2, <2>3
<1>7. \E z \in todo : \A y \in todo \ {z} : Precedes(s, z, y)
    <2> HIDE DEF keys, U
    <2> QED  BY <1>5, <1>6
<1> QED  BY <1>7, Zenon DEF Foremost

LEMMA RowsAreGood ==
    ASSUME NEW b \in GoodBooks, NEW s \in Seq(FillRows), NEW todo, todo \subseteq 1..Len(s),
           NEW d, \A i \in todo : s[i].date = d
    PROVE  Rows(b, s, todo) \in GoodBooks
<1>1. PICK n \in Nat : n = Cardinality(todo)
    <2>1. IsFiniteSet(1..Len(s))
        BY FS_Interval
    <2>2. IsFiniteSet(todo)
        BY <2>1, FS_Subset
    <2> QED  BY <2>2, FS_CardinalityType
<1>2. IsFiniteSet(todo)
    <2>1. IsFiniteSet(1..Len(s))
        BY FS_Interval
    <2> QED  BY <2>1, FS_Subset
<1> DEFINE Left(m) == {left \in SUBSET todo : IsFiniteSet(left) /\ Cardinality(left) = n - m}
           Step(x) == LET i == Foremost(s, x.todo) IN [book |-> Row(x.book, s[i]), todo |-> x.todo \ {i}]
           D == [m \in 0..n |-> [book : GoodBooks, todo : Left(m)]]
           F == [m \in 1..n |-> [x \in D[m - 1] |-> Step(x)]]
           e == [book |-> b, todo |-> todo]
           g == CHOOSE g : g = [m \in 0..Cardinality(todo) |->
                    IF m = 0 THEN [book |-> b, todo |-> todo]
                    ELSE LET x == g[m - 1]
                             i == Foremost(s, x.todo)
                         IN  [book |-> Row(x.book, s[i]), todo |-> x.todo \ {i}]]
<1>3. e \in D[0]
    <2>1. todo \in Left(0)
        BY <1>1, <1>2
    <2> HIDE DEF Left
    <2> QED  BY <2>1
<1>4. ASSUME NEW m \in 1..n, NEW x \in D[m - 1] PROVE Step(x) \in D[m]
    <2>1. m - 1 \in 0..n /\ m \in 0..n
        OBVIOUS
    <2>2. x.book \in GoodBooks /\ x.todo \in Left(m - 1)
        <3> HIDE DEF Left
        <3> QED  BY <2>1
    <2>3. x.todo \subseteq todo /\ IsFiniteSet(x.todo) /\ Cardinality(x.todo) = n - (m - 1)
        BY <2>2
    <2>4. x.todo # {}
        <3>1. Cardinality({}) = 0 /\ n - (m - 1) # 0
            BY FS_EmptySet
        <3> QED  BY <2>3, <3>1, Zenon
    <2>5. PICK i \in x.todo : i = Foremost(s, x.todo)
        <3>1. x.todo \subseteq 1..Len(s) /\ \A j \in x.todo : s[j].date = d
            BY <2>3
        <3> QED  BY <2>4, <3>1, ForemostExists
    <2>6. s[i].key \in Keys
        <3>1. s[i] \in FillRows
            BY <2>3
        <3> QED  BY <3>1 DEF FillRows
    <2>7. Row(x.book, s[i]) \in GoodBooks
        BY <2>2, <2>6, RowKeeps DEF GoodBooks, BookOK
    <2>8. x.todo \ {i} \in Left(m)
        <3>1. IsFiniteSet(x.todo \ {i}) /\ Cardinality(x.todo \ {i}) = Cardinality(x.todo) - 1
            BY <2>3, FS_RemoveElement
        <3>2. (n - (m - 1)) - 1 = n - m /\ x.todo \ {i} \subseteq todo
            BY <2>3
        <3> QED  BY <2>3, <3>1, <3>2
    <2>9. Step(x) = [book |-> Row(x.book, s[i]), todo |-> x.todo \ {i}]
        BY <2>5
    <2> HIDE DEF Left, Step
    <2> QED  BY <2>1, <2>7, <2>8, <2>9
<1>5. \A m \in 1..n : \A x \in D[m - 1] : F[m][x] = Step(x) /\ F[m][x] \in D[m]
    <2> HIDE DEF Step, D
    <2> QED  BY <1>4
<1>6. PICK f : Steps(f, n, e, F) /\ StaysIn(f, n, D)
    <2>1. Leads(F, n, D)
        BY <1>5 DEF Leads
    <2> HIDE DEF D, F, e
    <2> QED  BY <1>3, <2>1, StepsExist
<1>7. f = [m \in 0..n |-> IF m = 0 THEN e ELSE Step(f[m - 1])]
    <2> HIDE DEF Step, D, F, e
    <2>1. \A m \in 0..n : m # 0 => F[m][f[m - 1]] = Step(f[m - 1])
        <3> SUFFICES ASSUME NEW m \in 0..n, m # 0 PROVE F[m][f[m - 1]] = Step(f[m - 1])
            OBVIOUS
        <3>1. m \in 1..n /\ m - 1 \in 0..n
            OBVIOUS
        <3> QED  BY <1>5, <1>6, <3>1 DEF StaysIn
    <2>2. \A m \in 0..n : f[m] = IF m = 0 THEN e ELSE Step(f[m - 1])
        BY <1>6, <2>1 DEF Steps
    <2>3. f = [m \in 0..n |-> f[m]]
        BY <1>6 DEF Steps
    <2> QED  BY <2>2, <2>3
<1>8. g = [m \in 0..n |-> IF m = 0 THEN e ELSE Step(g[m - 1])]
    BY <1>1, <1>7, Zenon
<1>9. Rows(b, s, todo) = g[n].book
    BY <1>1, Zenon DEF Rows
<1> HIDE DEF g
<1>10. \A m \in 0..n : g[m] \in D[m]
    <2> HIDE DEF Step, D, e
    <2>1. g[0] = e /\ \A m \in 1..n : g[m] = Step(g[m - 1])
        BY <1>8
    <2>2. \A m \in 1..n : g[m - 1] \in D[m - 1] => g[m] \in D[m]
        BY <1>4, <2>1
    <2> QED  BY <1>3, <2>1, <2>2, StepsStay
<1>11. g[n] \in [book : GoodBooks, todo : Left(n)]
    <2> HIDE DEF Left
    <2> QED  BY <1>10
<1> HIDE DEF Left
<1> QED  BY <1>9, <1>11

LEMMA OpeningIsGood ==
    ASSUME NEW b \in GoodBooks, NEW carried \in BOOLEAN
    PROVE  Opening(b, carried) \in GoodBooks
<1>1. Empty \in GoodBooks
    BY EmptyIsOK DEF GoodBooks, BookOK
<1>2. CASE ~carried
    BY <1>1, <1>2 DEF Opening
<1>3. CASE carried
    <2> DEFINE c == [Empty EXCEPT !.lots = b.lots, !.spot = b.spot, !.future = b.future, !.peak = b.spot + b.future]
    <2>1. b \in Books /\ BookOK(b) /\ Peaking(b) /\ Empty \in Books
        BY <1>1 DEF GoodBooks
    <2>2. b.spot \in Int /\ b.future \in Int /\ b.lots \in [Keys -> Seq(Lots)] /\ b.peak \in Int
        BY <2>1 DEF Books
    <2>3. c.lots = b.lots /\ c.spot = b.spot /\ c.future = b.future /\ c.peak = b.spot + b.future
        BY DEF Empty
    <2>4. c \in Books
        <3>1. b.spot + b.future \in Int
            BY <2>2
        <3> QED  BY <2>1, <2>2, <3>1 DEF Books
    <2> HIDE DEF c
    <2>5. OpenIn(c, "spot") = OpenIn(b, "spot") /\ OpenIn(c, "future") = OpenIn(b, "future")
        BY <2>3 DEF OpenIn
    <2>6. Accounted(c) /\ Limited(c)
        BY <2>1, <2>3, <2>5 DEF BookOK, Accounted, Limited
    <2>7. Peaking(c)
        BY <2>2, <2>3 DEF Peaking
    <2>8. c \in GoodBooks
        BY <2>4, <2>6, <2>7 DEF GoodBooks, BookOK
    <2> QED  BY <1>3, <2>8 DEF Opening, c
<1> QED  BY <1>2, <1>3

LEMMA DayIsGood ==
    ASSUME NEW b \in GoodBooks, NEW s \in Seq(FillRows), NEW d, NEW carried \in BOOLEAN
    PROVE  Day(b, s, d, carried) \in GoodBooks
<1> DEFINE gone == {k \in Keys : <<d, k>> \in Excluded}
           todo == {i \in 1..Len(s) : s[i].date = d}
           c == Discard(Opening(b, carried), gone)
<1>1. c \in GoodBooks
    BY OpeningIsGood, DiscardIsGood
<1>2. todo \subseteq 1..Len(s) /\ \A i \in todo : s[i].date = d
    OBVIOUS
<1>3. Day(b, s, d, carried) = Rows(c, s, todo)
    BY Zenon DEF Day
<1> HIDE DEF c, todo
<1> QED  BY <1>1, <1>2, <1>3, RowsAreGood

-----------------------------------------------------------------------------
\* The rows of the replay, one per date.

ReplayRows == [date : Nat, book : GoodBooks]

LEMMA NextRowIsGood ==
    ASSUME NEW s \in Seq(FillRows), NEW rows \in Seq(ReplayRows), NEW d \in Nat, NEW carried \in BOOLEAN
    PROVE  NextRow(rows, s, d, carried) \in ReplayRows
<1> DEFINE before == IF rows = <<>> THEN Empty ELSE rows[Len(rows)].book
<1>1. before \in GoodBooks
    <2>1. CASE rows = <<>>
        BY <2>1, EmptyIsOK DEF GoodBooks, BookOK
    <2>2. CASE rows # <<>>
        <3>1. rows[Len(rows)] \in ReplayRows
            BY <2>2
        <3> QED  BY <2>2, <3>1 DEF ReplayRows
    <2> QED  BY <2>1, <2>2
<1> HIDE DEF before
<1>2. Day(before, s, d, carried) \in GoodBooks
    BY <1>1, DayIsGood
<1>3. NextRow(rows, s, d, carried) = [date |-> d, book |-> Day(before, s, d, carried)]
    BY DEF NextRow, before
<1> QED  BY <1>2, <1>3 DEF ReplayRows

LEMMA ReplayDatesAreFinite ==
    ASSUME NEW s \in Seq(FillRows)
    PROVE  IsFiniteSet(ReplayDates(s)) /\ ReplayDates(s) \subseteq Nat
<1> DEFINE away == {e[1] : e \in Excluded}
           f == [e \in Excluded |-> e[1]]
           h == [i \in 1..Len(s) |-> s[i].date]
<1>1. Traded(s) \subseteq Nat
    <2> SUFFICES ASSUME NEW i \in 1..Len(s) PROVE s[i].date \in Nat
        BY DEF Traded
    <2>1. s[i] \in FillRows
        OBVIOUS
    <2> QED  BY <2>1 DEF FillRows
<1>2. away \subseteq Nat
    BY CapitalAssumption DEF Days
<1>3. IsFiniteSet(away)
    <2>1. f \in Surjection(Excluded, away)
        BY DEF Surjection
    <2> QED  BY <2>1, FS_Surjection, CapitalAssumption
<1>4. IsFiniteSet(Traded(s))
    <2>1. h \in Surjection(1..Len(s), Traded(s))
        BY DEF Surjection, Traded
    <2>2. IsFiniteSet(1..Len(s))
        BY FS_Interval
    <2> QED  BY <2>1, <2>2, FS_Surjection
<1> DEFINE some == {d \in away : \E x, y \in Traded(s) : x <= d /\ d <= y}
<1>5. ReplayDates(s) = Traded(s) \cup some
    BY DEF ReplayDates
<1>6. some \subseteq away
    OBVIOUS
<1> HIDE DEF some, away
<1>7. IsFiniteSet(some)
    BY <1>3, <1>6, FS_Subset
<1> QED  BY <1>1, <1>2, <1>4, <1>5, <1>6, <1>7, FS_Union

LEMMA FirstExists ==
    ASSUME NEW dates, dates \subseteq Nat, dates # {}
    PROVE  FirstOf(dates) \in dates
BY LeastNatural, Zenon DEF FirstOf

LEMMA ReplayIsGood ==
    ASSUME NEW s \in Seq(FillRows), NEW carried \in BOOLEAN
    PROVE  Replay(s, carried) \in Seq(ReplayRows)
<1> DEFINE dates == ReplayDates(s)
<1>1. IsFiniteSet(dates) /\ dates \subseteq Nat
    BY ReplayDatesAreFinite
<1> HIDE DEF dates
<1>2. PICK n \in Nat : n = Cardinality(dates)
    BY <1>1, FS_CardinalityType
<1> DEFINE Left(m) == {left \in SUBSET dates : IsFiniteSet(left) /\ Cardinality(left) = n - m}
           Step(x) == LET d == FirstOf(x.left)
                      IN  [rows |-> Append(x.rows, NextRow(x.rows, s, d, carried)), left |-> x.left \ {d}]
           D == [m \in 0..n |-> [rows : Seq(ReplayRows), left : Left(m)]]
           F == [m \in 1..n |-> [x \in D[m - 1] |-> Step(x)]]
           e == [rows |-> <<>>, left |-> dates]
           g == CHOOSE g : g = [m \in 0..Cardinality(dates) |->
                    IF m = 0 THEN [rows |-> <<>>, left |-> dates]
                    ELSE LET x == g[m - 1]
                             d == FirstOf(x.left)
                         IN  [rows |-> Append(x.rows, NextRow(x.rows, s, d, carried)), left |-> x.left \ {d}]]
<1>3. e \in D[0]
    <2>1. dates \in Left(0) /\ <<>> \in Seq(ReplayRows)
        BY <1>1, <1>2
    <2> HIDE DEF Left
    <2> QED  BY <2>1
<1>4. ASSUME NEW m \in 1..n, NEW x \in D[m - 1] PROVE Step(x) \in D[m]
    <2>1. m - 1 \in 0..n /\ m \in 0..n
        OBVIOUS
    <2>2. x.rows \in Seq(ReplayRows) /\ x.left \in Left(m - 1)
        <3> HIDE DEF Left
        <3> QED  BY <2>1
    <2>3. x.left \subseteq dates /\ IsFiniteSet(x.left) /\ Cardinality(x.left) = n - (m - 1)
        BY <2>2
    <2>4. x.left # {}
        <3>1. Cardinality({}) = 0 /\ n - (m - 1) # 0
            BY FS_EmptySet
        <3> QED  BY <2>3, <3>1, Zenon
    <2>5. PICK d \in x.left : d = FirstOf(x.left)
        <3>1. x.left \subseteq Nat
            BY <1>1, <2>3
        <3> QED  BY <2>4, <3>1, FirstExists
    <2>6. d \in Nat
        BY <1>1, <2>3
    <2>7. NextRow(x.rows, s, d, carried) \in ReplayRows
        BY <2>2, <2>6, NextRowIsGood
    <2>8. Append(x.rows, NextRow(x.rows, s, d, carried)) \in Seq(ReplayRows)
        BY <2>2, <2>7
    <2>9. x.left \ {d} \in Left(m)
        <3>1. IsFiniteSet(x.left \ {d}) /\ Cardinality(x.left \ {d}) = Cardinality(x.left) - 1
            BY <2>3, FS_RemoveElement
        <3>2. (n - (m - 1)) - 1 = n - m /\ x.left \ {d} \subseteq dates
            BY <2>3
        <3> QED  BY <2>3, <3>1, <3>2
    <2>10. Step(x) = [rows |-> Append(x.rows, NextRow(x.rows, s, d, carried)), left |-> x.left \ {d}]
        BY <2>5
    <2> HIDE DEF Left, Step
    <2> QED  BY <2>1, <2>8, <2>9, <2>10
<1>5. \A m \in 1..n : \A x \in D[m - 1] : F[m][x] = Step(x) /\ F[m][x] \in D[m]
    <2> HIDE DEF Step, D
    <2> QED  BY <1>4
<1>6. PICK f : Steps(f, n, e, F) /\ StaysIn(f, n, D)
    <2>1. Leads(F, n, D)
        BY <1>5 DEF Leads
    <2> HIDE DEF D, F, e
    <2> QED  BY <1>3, <2>1, StepsExist
<1>7. f = [m \in 0..n |-> IF m = 0 THEN e ELSE Step(f[m - 1])]
    <2> HIDE DEF Step, D, F, e
    <2>1. \A m \in 0..n : m # 0 => F[m][f[m - 1]] = Step(f[m - 1])
        <3> SUFFICES ASSUME NEW m \in 0..n, m # 0 PROVE F[m][f[m - 1]] = Step(f[m - 1])
            OBVIOUS
        <3>1. m \in 1..n /\ m - 1 \in 0..n
            OBVIOUS
        <3> QED  BY <1>5, <1>6, <3>1 DEF StaysIn
    <2>2. \A m \in 0..n : f[m] = IF m = 0 THEN e ELSE Step(f[m - 1])
        BY <1>6, <2>1 DEF Steps
    <2>3. f = [m \in 0..n |-> f[m]]
        BY <1>6 DEF Steps
    <2> QED  BY <2>2, <2>3
<1>8. g = [m \in 0..n |-> IF m = 0 THEN e ELSE Step(g[m - 1])]
    BY <1>2, <1>7, Zenon
<1>9. Replay(s, carried) = g[n].rows
    BY <1>2, Zenon DEF Replay, dates
<1> HIDE DEF g
<1>10. \A m \in 0..n : g[m] \in D[m]
    <2> HIDE DEF Step, D, e
    <2>1. g[0] = e /\ \A m \in 1..n : g[m] = Step(g[m - 1])
        BY <1>8
    <2>2. \A m \in 1..n : g[m - 1] \in D[m - 1] => g[m] \in D[m]
        BY <1>4, <2>1
    <2> QED  BY <1>3, <2>1, <2>2, StepsStay
<1>11. g[n] \in [rows : Seq(ReplayRows), left : Left(n)]
    <2> HIDE DEF Left
    <2> QED  BY <1>10
<1> HIDE DEF Left
<1> QED  BY <1>9, <1>11

-----------------------------------------------------------------------------
\* The fills of a run are rows of pairs.

LEMMA TradesAreRows ==
    ASSUME NEW k \in Keys, NEW ran \in Seq({"LONG", "SHORT", "EXIT"}), NEW start \in {None, 0}, NEW d \in Nat
    PROVE  Trades(k, ran, start, d) \in Seq(FillRows)
<1> DEFINE at(i) == IF start = None THEN None ELSE start + i
<1>1. ASSUME NEW i \in 1..Len(ran)
      PROVE  [date |-> d, at |-> at(i), key |-> k, signal |-> ran[i], nth |-> i] \in FillRows
    <2>1. at(i) \in Nat \cup {None} /\ ran[i] \in {"LONG", "SHORT", "EXIT"} /\ i \in Nat
        OBVIOUS
    <2> HIDE DEF at
    <2> QED  BY <2>1 DEF FillRows
<1>2. Len(ran) \in Nat
    OBVIOUS
<1>3. Trades(k, ran, start, d) =
        [i \in 1..Len(ran) |-> [date |-> d, at |-> at(i), key |-> k, signal |-> ran[i], nth |-> i]]
    BY Zenon DEF Trades
<1> HIDE DEF at
<1> QED  BY <1>1, <1>2, <1>3

\* The rows of all pairs of a date, one pair after the other.
Own(ran, start, d, k) == IF ran[k] = None THEN <<>> ELSE Trades(k, ran[k], start[k], d)

AllTradesGo(g, ran, start, d) ==
    /\ g[0] = <<>>
    /\ \A k \in Keys : g[k] = g[k - 1] \o Own(ran, start, d, k)
    /\ \A k \in 0..Cardinality(Keys) : g[k] \in Seq(FillRows)

LEMMA AllTradesStepped ==
    ASSUME NEW ran, \A k \in Keys : ran[k] = None \/ ran[k] \in Seq({"LONG", "SHORT", "EXIT"}),
           NEW start, \A k \in Keys : start[k] \in {None, 0}, NEW d \in Nat
    PROVE  \E g : AllTradesGo(g, ran, start, d) /\ AllTrades(ran, start, d) = g[Cardinality(Keys)]
<1>1. PICK n \in Nat : n = Cardinality(Keys) /\ Keys = 1..n
    BY CapitalAssumption
<1> DEFINE Of(k) == IF ran[k] = None THEN <<>> ELSE Trades(k, ran[k], start[k], d)
           D == [k \in 0..n |-> Seq(FillRows)]
           F == [k \in 1..n |-> [x \in Seq(FillRows) |-> x \o Of(k)]]
           g == CHOOSE g : g = [k \in 0..Cardinality(Keys) |->
                    IF k = 0 THEN <<>>
                    ELSE g[k - 1] \o (IF ran[k] = None THEN <<>> ELSE Trades(k, ran[k], start[k], d))]
<1>2. <<>> \in D[0]
    OBVIOUS
<1>3. ASSUME NEW k \in 1..n, NEW x \in Seq(FillRows) PROVE x \o Of(k) \in Seq(FillRows)
    <2>1. k \in Keys
        BY <1>1
    <2>2. CASE ran[k] = None
        BY <2>2
    <2>3. CASE ran[k] # None
        <3>1. Trades(k, ran[k], start[k], d) \in Seq(FillRows)
            BY <2>1, <2>3, TradesAreRows
        <3> QED  BY <2>3, <3>1
    <2> QED  BY <2>2, <2>3
<1>4. \A k \in 1..n : \A x \in Seq(FillRows) : F[k][x] = x \o Of(k) /\ F[k][x] \in Seq(FillRows)
    <2> HIDE DEF Of
    <2> QED  BY <1>3
<1>5. PICK f : Steps(f, n, <<>>, F) /\ StaysIn(f, n, D)
    <2>1. Leads(F, n, D)
        <3> HIDE DEF F
        <3> QED  BY <1>4 DEF Leads
    <2> HIDE DEF D, F
    <2> QED  BY <1>2, <2>1, StepsExist
<1>6. f = [k \in 0..n |-> IF k = 0 THEN <<>> ELSE f[k - 1] \o Of(k)]
    <2> HIDE DEF Of, F
    <2>1. \A k \in 0..n : k # 0 => F[k][f[k - 1]] = f[k - 1] \o Of(k)
        <3> SUFFICES ASSUME NEW k \in 0..n, k # 0 PROVE F[k][f[k - 1]] = f[k - 1] \o Of(k)
            OBVIOUS
        <3>1. k \in 1..n /\ k - 1 \in 0..n
            OBVIOUS
        <3> QED  BY <1>4, <1>5, <3>1 DEF StaysIn
    <2>2. \A k \in 0..n : f[k] = IF k = 0 THEN <<>> ELSE f[k - 1] \o Of(k)
        BY <1>5, <2>1 DEF Steps
    <2>3. f = [k \in 0..n |-> f[k]]
        BY <1>5 DEF Steps
    <2> QED  BY <2>2, <2>3
<1>7. g = [k \in 0..n |-> IF k = 0 THEN <<>> ELSE g[k - 1] \o Of(k)]
    BY <1>1, <1>6, Zenon
<1>8. AllTrades(ran, start, d) = g[n]
    BY <1>1, Zenon DEF AllTrades
<1> HIDE DEF g
<1>9. \A k \in 0..n : g[k] \in D[k]
    <2> HIDE DEF Of, F
    <2>1. g[0] = <<>> /\ \A k \in 1..n : g[k] = g[k - 1] \o Of(k)
        <3>1. 0 \in 0..n
            OBVIOUS
        <3>2. g[0] = <<>>
            BY <1>7, <3>1, Zenon
        <3>3. ASSUME NEW k \in 1..n PROVE g[k] = g[k - 1] \o Of(k)
            <4>1. k \in 0..n /\ k # 0
                OBVIOUS
            <4> QED  BY <1>7, <4>1, Zenon
        <3> QED  BY <3>2, <3>3
    <2>2. ASSUME NEW k \in 1..n, g[k - 1] \in D[k - 1] PROVE g[k] \in D[k]
        <3>1. k - 1 \in 0..n /\ k \in 0..n
            OBVIOUS
        <3>2. g[k - 1] \o Of(k) \in Seq(FillRows)
            BY <1>3, <2>2, <3>1
        <3> QED  BY <2>1, <3>1, <3>2
    <2> HIDE DEF D
    <2> QED  BY <1>2, <2>1, <2>2, StepsStay
<1>10. \A k \in Keys : g[k] = g[k - 1] \o Own(ran, start, d, k)
    <2> SUFFICES ASSUME NEW k \in Keys PROVE g[k] = g[k - 1] \o Of(k)
        BY DEF Own
    <2> HIDE DEF Of
    <2>0. k \in 1..n /\ n \in Nat
        BY <1>1, Zenon
    <2>1. k \in 0..n /\ k # 0
        BY <2>0
    <2> QED  BY <1>7, <2>1, Zenon
<1>11. g[0] = <<>>
    <2> HIDE DEF Of
    <2>1. 0 \in 0..n
        BY <1>1
    <2> QED  BY <1>7, <2>1, Zenon
<1>12. AllTradesGo(g, ran, start, d)
    BY <1>1, <1>9, <1>10, <1>11 DEF AllTradesGo
<1> QED  BY <1>1, <1>8, <1>12

LEMMA AllTradesAreRows ==
    ASSUME NEW ran, \A k \in Keys : ran[k] = None \/ ran[k] \in Seq({"LONG", "SHORT", "EXIT"}),
           NEW start, \A k \in Keys : start[k] \in {None, 0}, NEW d \in Nat
    PROVE  AllTrades(ran, start, d) \in Seq(FillRows)
<1>1. PICK g : AllTradesGo(g, ran, start, d) /\ AllTrades(ran, start, d) = g[Cardinality(Keys)]
    BY AllTradesStepped
<1>2. Cardinality(Keys) \in 0..Cardinality(Keys)
    BY CapitalAssumption
<1> QED  BY <1>1, <1>2 DEF AllTradesGo

-----------------------------------------------------------------------------
\* The fills of the dates so far are rows of pairs.
RowsSaved == day \in Nat /\ fills \in Seq(FillRows)

LEMMA DateSavesRows == RowsSaved /\ [PNext]_pvars => RowsSaved'
<1> SUFFICES ASSUME RowsSaved, [PNext]_pvars PROVE RowsSaved'
    OBVIOUS
<1>1. CASE UNCHANGED pvars
    BY <1>1 DEF RowsSaved, pvars, carryVars
<1>2. CASE PNext
    <2>1. day < Len(TradeDates) /\ \E universe \in SUBSET Keys : RunDate(universe)
        BY <1>2 DEF PNext, CarryNext
    <2>2. day' = day + 1 /\ done' \in [Keys -> Outcomes \cup {None}]
        BY <2>1 DEF RunDate
    <2>3. TradeDates[day + 1] \in Nat
        <3>1. TradeDates \in Seq(Calendar) /\ Calendar \subseteq Nat
            BY CarryAssumption DEF Days
        <3>2. day + 1 \in 1..Len(TradeDates)
            BY <2>1, <3>1 DEF RowsSaved
        <3>3. TradeDates[day + 1] \in Calendar
            BY <3>1, <3>2
        <3> QED  BY <3>1, <3>3
    <2>4. \A k \in Keys : done'[k] = None \/ done'[k] \in Seq({"LONG", "SHORT", "EXIT"})
        BY <2>2, CarryAssumption
    <2>5. PICK start \in [Keys -> {None, 0}] : fills' = fills \o AllTrades(done', start, TradeDates[day + 1])
        BY <1>2 DEF PNext
    <2>6. AllTrades(done', start, TradeDates[day + 1]) \in Seq(FillRows)
        <3>1. \A k \in Keys : start[k] \in {None, 0}
            OBVIOUS
        <3> QED  BY <2>3, <2>4, <3>1, AllTradesAreRows
    <2> QED  BY <2>2, <2>5, <2>6 DEF RowsSaved
<1> QED  BY <1>1, <1>2

\* In every row of the replay, whatever entries, exits, exclusions and dates came
\* before, the capital in use is that of the open lots and no limit is exceeded.
THEOREM CapitalIsAccounted == PSpec => []CapitalAccounts
<1>1. PInit => RowsSaved
    BY DEF PInit, CarryInit, RowsSaved
<1>2. RowsSaved => CapitalAccounts
    <2> SUFFICES ASSUME RowsSaved, NEW carried \in BOOLEAN, NEW i \in 1..Len(Replay(fills, carried))
                 PROVE  LET book == Replay(fills, carried)[i].book IN
                        /\ book.spot = OpenIn(book, "spot") /\ book.future = OpenIn(book, "future")
                        /\ book.spot + book.future <= book.peak /\ book.peak <= TotalCapital * Scale
                        /\ Within(book.spot, EffectiveSpot) /\ Within(book.future, EffectiveFuture)
        BY Zenon DEF CapitalAccounts
    <2>1. Replay(fills, carried) \in Seq(ReplayRows)
        BY ReplayIsGood DEF RowsSaved
    <2>2. Replay(fills, carried)[i] \in ReplayRows
        BY <2>1
    <2>3. PICK book : book = Replay(fills, carried)[i].book
        OBVIOUS
    <2>4. BookOK(book) /\ Peaking(book)
        BY <2>2, <2>3 DEF ReplayRows, GoodBooks
    <2> QED  BY <2>3, <2>4 DEF BookOK, Accounted, Limited, Peaking
<1> QED
    BY <1>1, <1>2, DateSavesRows, PTL DEF PSpec

-----------------------------------------------------------------------------
\* Open lots: what a run of pair orders does to its lots and to its position.

LotStep(lots, n, fs, r) ==
    IF n \in Signalled(fs, r, "LONG") THEN Append(lots, n)
    ELSE IF n \in Signalled(fs, r, "EXIT") /\ lots # <<>> THEN Tail(lots)
    ELSE lots

LotsGo(f, fs, r) ==
    /\ f[0] = <<>> /\ \A n \in 1..Len(fs) : f[n] = LotStep(f[n - 1], n, fs, r)
    /\ \A n \in 0..Len(fs) : f[n] \in Seq(Nat)

\* Lots are places of the file.
LEMMA StepOfLots ==
    ASSUME NEW n \in Nat, NEW lots \in Seq(Nat), NEW fs, NEW r
    PROVE  LotStep(lots, n, fs, r) \in Seq(Nat)
BY DEF LotStep

\* OpenEntryLots is where the steps lead.
LEMMA LotsAreStepped ==
    ASSUME NEW fs \in Seq(FillRows), NEW r
    PROVE  \E f : LotsGo(f, fs, r) /\ OpenEntryLots(fs, r) = f[Len(fs)]
<1> DEFINE n == Len(fs)
           D == [m \in 0..n |-> Seq(Nat)]
           F == [m \in 1..n |-> [x \in Seq(Nat) |-> LotStep(x, m, fs, r)]]
           g == CHOOSE g : g = [m \in 0..Len(fs) |->
                    IF m = 0 THEN <<>>
                    ELSE IF m \in Signalled(fs, r, "LONG") THEN Append(g[m - 1], m)
                    ELSE IF m \in Signalled(fs, r, "EXIT") /\ g[m - 1] # <<>> THEN Tail(g[m - 1])
                    ELSE g[m - 1]]
<1>1. n \in Nat /\ <<>> \in D[0]
    OBVIOUS
<1>2. \A m \in 1..n : \A x \in Seq(Nat) : F[m][x] = LotStep(x, m, fs, r) /\ F[m][x] \in Seq(Nat)
    BY <1>1, StepOfLots
<1>3. PICK f : Steps(f, n, <<>>, F) /\ StaysIn(f, n, D)
    <2>1. Leads(F, n, D)
        <3> HIDE DEF F
        <3> QED  BY <1>2 DEF Leads
    <2> HIDE DEF D, F, n
    <2> QED  BY <1>1, <2>1, StepsExist
<1>4. f = [m \in 0..n |-> IF m = 0 THEN <<>> ELSE LotStep(f[m - 1], m, fs, r)]
    <2> HIDE DEF F
    <2>1. \A m \in 0..n : m # 0 => F[m][f[m - 1]] = LotStep(f[m - 1], m, fs, r)
        <3> SUFFICES ASSUME NEW m \in 0..n, m # 0 PROVE F[m][f[m - 1]] = LotStep(f[m - 1], m, fs, r)
            OBVIOUS
        <3>1. m \in 1..n /\ m - 1 \in 0..n
            BY <1>1
        <3> QED  BY <1>2, <1>3, <3>1 DEF StaysIn
    <2>2. \A m \in 0..n : f[m] = IF m = 0 THEN <<>> ELSE LotStep(f[m - 1], m, fs, r)
        BY <1>3, <2>1 DEF Steps
    <2>3. f = [m \in 0..n |-> f[m]]
        BY <1>3 DEF Steps
    <2> HIDE DEF n
    <2> QED  BY <2>2, <2>3
<1>5. g = [m \in 0..n |-> IF m = 0 THEN <<>> ELSE LotStep(g[m - 1], m, fs, r)]
    <2>1. \E h : h = [m \in 0..Len(fs) |->
                    IF m = 0 THEN <<>>
                    ELSE IF m \in Signalled(fs, r, "LONG") THEN Append(h[m - 1], m)
                    ELSE IF m \in Signalled(fs, r, "EXIT") /\ h[m - 1] # <<>> THEN Tail(h[m - 1])
                    ELSE h[m - 1]]
        BY <1>4, Zenon DEF LotStep
    <2> QED  BY <2>1, Zenon DEF LotStep
<1>6. OpenEntryLots(fs, r) = g[Len(fs)]
    BY Zenon DEF OpenEntryLots
<1> HIDE DEF g
<1>7. /\ g[0] = <<>>
      /\ \A m \in 1..n : g[m] = LotStep(g[m - 1], m, fs, r)
    <2>1. 0 \in 0..n
        BY <1>1
    <2>2. g[0] = <<>>
        BY <1>5, <2>1, Zenon
    <2>3. ASSUME NEW m \in 1..n PROVE g[m] = LotStep(g[m - 1], m, fs, r)
        <3>1. m \in 0..n /\ m # 0
            BY <1>1
        <3> QED  BY <1>5, <3>1, Zenon
    <2> QED  BY <2>2, <2>3
<1>8. \A m \in 0..n : g[m] \in D[m]
    <2>1. ASSUME NEW m \in 1..n, g[m - 1] \in D[m - 1] PROVE g[m] \in D[m]
        <3>1. m - 1 \in 0..n /\ m \in 0..n /\ m \in Nat
            BY <1>1
        <3>2. LotStep(g[m - 1], m, fs, r) \in Seq(Nat)
            BY <2>1, <3>1, StepOfLots
        <3> QED  BY <1>7, <3>1, <3>2
    <2> HIDE DEF D, n
    <2> QED  BY <1>1, <1>7, <2>1, StepsStay
<1>9. LotsGo(g, fs, r)
    BY <1>7, <1>8 DEF LotsGo
<1> QED  BY <1>6, <1>9

\* Positions that are whole: open with a direction, or flat.
Whole == {p \in OpenPositions : p.qty \in Nat /\ (p.qty = 0 <=> p.side = "HOLD")}

\* What a position allows.
Allows(p, signal) == IF signal = "EXIT" THEN p.qty > 0 ELSE p.side \in {"HOLD", signal}

\* An order the strategy allows leaves a whole position.
LEMMA StepIsWhole ==
    ASSUME NEW p \in Whole, NEW signal \in Orders, Allows(p, signal)
    PROVE  AfterOne(p, signal) \in Whole
BY DEF Whole, OpenPositions, Allows, AfterOne, Flat, Orders

\* A sequence that begins another one leads to the same positions.
Begins(s, t) == Len(s) <= Len(t) /\ \A i \in 1..Len(s) : s[i] = t[i]

LEMMA RunsAgree ==
    ASSUME NEW p, NEW s \in Seq(Orders), NEW t \in Seq(Orders), NEW f, NEW g, Runs(f, p, s), Runs(g, p, t), Begins(s, t)
    PROVE  \A i \in 0..Len(s) : f[i] = g[i]
<1> DEFINE S == {n \in Nat : n <= Len(s) => f[n] = g[n]}
<1>0. Len(s) \in Nat /\ Len(t) \in Nat /\ Len(s) <= Len(t) /\ \A i \in 1..Len(s) : s[i] = t[i]
    BY DEF Begins
<1>1. 0 \in S
    <2>1. f[0] = p /\ g[0] = p
        BY <1>0 DEF Runs
    <2> QED  BY <2>1
<1>2. \A n \in Nat : n \in S => n + 1 \in S
    <2> SUFFICES ASSUME NEW n \in Nat, n \in S, n + 1 <= Len(s) PROVE f[n + 1] = g[n + 1]
        OBVIOUS
    <2>1. /\ n + 1 \in 0..Len(s) /\ n + 1 \in 0..Len(t) /\ n + 1 # 0 /\ (n + 1) - 1 = n
          /\ n + 1 \in 1..Len(s) /\ n <= Len(s)
        BY <1>0
    <2>2. f[n + 1] = AfterOne(f[n], s[n + 1]) /\ g[n + 1] = AfterOne(g[n], t[n + 1])
        BY <2>1 DEF Runs
    <2>3. f[n] = g[n] /\ s[n + 1] = t[n + 1]
        BY <1>0, <2>1
    <2> QED  BY <2>2, <2>3
<1>3. Nat \subseteq S
    <2> HIDE DEF S
    <2> QED  BY <1>1, <1>2, Induction
<1> QED  BY <1>0, <1>3

\* After is the last position of the run.
LEMMA AfterIsRun ==
    ASSUME NEW p, NEW s \in Seq(Orders)
    PROVE  \E f : Runs(f, p, s) /\ After(p, s) = f[Len(s)]
<1> DEFINE f == CHOOSE f : f = [i \in 0..Len(s) |-> IF i = 0 THEN p ELSE AfterOne(f[i - 1], s[i])]
<1>0. Len(s) \in Nat
    OBVIOUS
<1>1. \E g : Runs(g, p, s)
    BY <1>0, RunExists
<1>2. Runs(f, p, s)
    BY <1>1, Zenon DEF Runs
<1>3. After(p, s) = f[Len(s)]
    BY Zenon DEF After
<1> QED  BY <1>2, <1>3, Zenon

LEMMA AfterPrefix ==
    ASSUME NEW p, NEW s \in Seq(Orders), NEW g, Runs(g, p, s), NEW m \in 0..Len(s)
    PROVE  After(p, SubSeq(s, 1, m)) = g[m]
<1> DEFINE t == SubSeq(s, 1, m)
<1>1. t \in Seq(Orders) /\ Len(t) = m /\ m <= Len(s) /\ \A i \in 1..Len(t) : t[i] = s[i]
    OBVIOUS
<1> HIDE DEF t
<1>2. PICK f : Runs(f, p, t) /\ After(p, t) = f[Len(t)]
    BY <1>1, AfterIsRun
<1>3. \A i \in 0..Len(t) : f[i] = g[i]
    <2>1. Begins(t, s)
        BY <1>1 DEF Begins
    <2> QED  BY <1>1, <1>2, <2>1, RunsAgree
<1>4. After(p, t) = g[m]
    BY <1>1, <1>2, <1>3
<1> QED  BY <1>4 DEF t

\* The positions of a run the strategy lets a pair fill are whole.
Filled(g, p, s) ==
    /\ g[0] = p /\ After(p, s) = g[Len(s)]
    /\ \A i \in 1..Len(s) : g[i] = AfterOne(g[i - 1], s[i]) /\ Allows(g[i - 1], s[i])
    /\ \A i \in 0..Len(s) : g[i] \in Whole

LEMMA RunIsFilled ==
    ASSUME NEW p \in Whole, NEW s \in Seq(Orders), CanFill(p, s)
    PROVE  \E g : Filled(g, p, s)
<1>0. Len(s) \in Nat
    OBVIOUS
<1>1. PICK g : Runs(g, p, s) /\ After(p, s) = g[Len(s)]
    BY AfterIsRun
<1>2. /\ g[0] = p
      /\ \A i \in 1..Len(s) : g[i] = AfterOne(g[i - 1], s[i])
    <2>1. g[0] = p
        BY <1>0, <1>1 DEF Runs
    <2>2. ASSUME NEW i \in 1..Len(s) PROVE g[i] = AfterOne(g[i - 1], s[i])
        <3>1. i \in 0..Len(s) /\ i # 0
            BY <1>0
        <3> QED  BY <1>1, <3>1 DEF Runs
    <2> QED  BY <2>1, <2>2
<1>3. ASSUME NEW i \in 1..Len(s) PROVE Allows(g[i - 1], s[i])
    <2>1. i - 1 \in 0..Len(s)
        BY <1>0
    <2>2. After(p, SubSeq(s, 1, i - 1)) = g[i - 1]
        BY <1>1, <2>1, AfterPrefix
    <2>3. IF s[i] = "EXIT" THEN g[i - 1].qty > 0 ELSE g[i - 1].side \in {"HOLD", s[i]}
        BY <2>2, Zenon DEF CanFill
    <2> QED  BY <2>3 DEF Allows
<1>4. \A i \in 0..Len(s) : g[i] \in Whole
    <2> DEFINE S == {n \in Nat : n <= Len(s) => g[n] \in Whole}
    <2>1. 0 \in S
        BY <1>2
    <2>2. \A n \in Nat : n \in S => n + 1 \in S
        <3> SUFFICES ASSUME NEW n \in Nat, n \in S, n + 1 <= Len(s) PROVE g[n + 1] \in Whole
            OBVIOUS
        <3>1. n + 1 \in 1..Len(s) /\ (n + 1) - 1 = n /\ n <= Len(s)
            BY <1>0
        <3>2. g[n + 1] = AfterOne(g[n], s[n + 1]) /\ Allows(g[n], s[n + 1])
            BY <1>2, <1>3, <3>1
        <3>3. g[n] \in Whole /\ s[n + 1] \in Orders
            BY <3>1
        <3> QED  BY <3>2, <3>3, StepIsWhole
    <2>3. Nat \subseteq S
        <3> HIDE DEF S
        <3> QED  BY <2>1, <2>2, Induction
    <2> QED  BY <1>0, <2>3
<1>5. Filled(g, p, s)
    BY <1>1, <1>2, <1>3, <1>4 DEF Filled
<1> QED  BY <1>5

\* The orders of a run up to a place of the file.
Until(fs, r, signal, n) == {i \in Signalled(fs, r, signal) : i <= n}

\* One row adds itself to the orders of its signal.
LEMMA UntilMoves ==
    ASSUME NEW fs \in Seq(FillRows), NEW r, NEW signal, NEW n \in 1..Len(fs)
    PROVE  /\ Until(fs, r, signal, n) = Until(fs, r, signal, n - 1) \cup (IF n \in Signalled(fs, r, signal) THEN {n} ELSE {})
           /\ IsFiniteSet(Until(fs, r, signal, n - 1)) /\ n \notin Until(fs, r, signal, n - 1)
           /\ Cardinality(Until(fs, r, signal, n - 1)) \in Nat
           /\ Cardinality(Until(fs, r, signal, n)) = Cardinality(Until(fs, r, signal, n - 1))
                + IF n \in Signalled(fs, r, signal) THEN 1 ELSE 0
<1> DEFINE U == Until(fs, r, signal, n - 1)
<1>1. Signalled(fs, r, signal) \subseteq 1..Len(fs) /\ Len(fs) \in Nat
    BY DEF Signalled, OrdersOf
<1>2. /\ Until(fs, r, signal, n) = U \cup (IF n \in Signalled(fs, r, signal) THEN {n} ELSE {})
      /\ n \notin U /\ U \subseteq 1..Len(fs)
    BY <1>1 DEF Until
<1>3. IsFiniteSet(U)
    <2> HIDE DEF U
    <2>1. IsFiniteSet(1..Len(fs))
        BY <1>1, FS_Interval
    <2> QED  BY <1>2, <2>1, FS_Subset
<1>4. Cardinality(U) \in Nat
    BY <1>3, FS_CardinalityType
<1>5. Cardinality(U \cup {n}) = Cardinality(U) + 1
    BY <1>2, <1>3, FS_AddElement
<1> HIDE DEF U
<1>6. CASE n \in Signalled(fs, r, signal)
    BY <1>2, <1>3, <1>4, <1>5, <1>6 DEF U
<1>7. CASE n \notin Signalled(fs, r, signal)
    <2>1. Until(fs, r, signal, n) = U
        BY <1>2, <1>7
    <2> QED  BY <1>2, <1>3, <1>4, <1>7, <2>1 DEF U
<1> QED  BY <1>6, <1>7

\* How many lots are open, against the position.
Counted(a, q, p) ==
    /\ a <= Long(q) /\ Long(q) <= Long(p) + a
    /\ p = Flat => a = Long(q)

LotsAfter(a, signal) == IF signal = "LONG" THEN a + 1 ELSE IF signal = "EXIT" /\ a > 0 THEN a - 1 ELSE a

LEMMA LongIsNatural ==
    ASSUME NEW p \in Whole
    PROVE  Long(p) \in Nat
BY DEF Whole, Long

\* An entry opens a lot and adds to the position; an exit reduces both, but a
\* position carried in has no lot; an entry short the spot has none.
LEMMA CountMoves ==
    ASSUME NEW p \in Whole, NEW q \in Whole, NEW signal \in Orders, Allows(q, signal), NEW a \in Nat, Counted(a, q, p)
    PROVE  Counted(LotsAfter(a, signal), AfterOne(q, signal), p)
<1>1. Long(p) \in Nat
    BY LongIsNatural
<1>2. /\ q.qty \in Nat /\ q.side \in {"HOLD", "LONG", "SHORT"} /\ (q.qty = 0 <=> q.side = "HOLD")
      /\ q = [qty |-> q.qty, side |-> q.side]
    BY DEF Whole, OpenPositions
<1>3. CASE signal = "LONG"
    <2>1. Long(q) = q.qty /\ Long(AfterOne(q, signal)) = q.qty + 1 /\ LotsAfter(a, signal) = a + 1
        BY <1>2, <1>3 DEF Allows, AfterOne, Long, LotsAfter
    <2> QED  BY <1>1, <1>2, <2>1 DEF Counted
<1>4. CASE signal = "SHORT"
    <2>1. Long(q) = 0 /\ Long(AfterOne(q, signal)) = 0 /\ LotsAfter(a, signal) = a
        BY <1>2, <1>4 DEF Allows, AfterOne, Long, LotsAfter
    <2> QED  BY <1>1, <1>2, <2>1 DEF Counted
<1>5. CASE signal = "EXIT"
    <2>1. Long(AfterOne(q, signal)) = IF Long(q) > 0 THEN Long(q) - 1 ELSE 0
        BY <1>2, <1>5 DEF Allows, AfterOne, Long, Flat
    <2>2. LotsAfter(a, signal) = IF a > 0 THEN a - 1 ELSE a
        BY <1>5 DEF LotsAfter
    <2>3. Long(q) \in Nat
        BY LongIsNatural
    <2> QED  BY <1>1, <2>1, <2>2, <2>3 DEF Counted
<1> QED  BY <1>3, <1>4, <1>5 DEF Orders

\* Which lots are open: always the newest entries.
NewestTo(lots, entries, n) ==
    /\ lots \in Seq(Nat) /\ \A i \in 1..Len(lots) : lots[i] <= n
    /\ Newest(lots, entries)

LEMMA NewestNext ==
    ASSUME NEW n \in Nat, NEW lots, NEW entries, NewestTo(lots, entries, n)
    PROVE  NewestTo(lots, entries, n + 1)
BY DEF NewestTo

LEMMA NewestEntered ==
    ASSUME NEW n \in Nat, NEW lots, NEW entries, NewestTo(lots, entries, n), \A e \in entries : e \in Nat /\ e <= n
    PROVE  NewestTo(Append(lots, n + 1), entries \cup {n + 1}, n + 1)
<1> DEFINE more == Append(lots, n + 1)
           m == Len(lots)
<1>1. /\ lots \in Seq(Nat) /\ m \in Nat /\ more \in Seq(Nat) /\ Len(more) = m + 1 /\ DOMAIN more = 1..(m + 1)
      /\ DOMAIN lots = 1..m
      /\ more[m + 1] = n + 1 /\ \A i \in 1..m : more[i] = lots[i] /\ lots[i] <= n /\ lots[i] \in Nat
    BY DEF NewestTo
<1>2. /\ \A i, j \in 1..m : i < j => lots[i] < lots[j]
      /\ \A i \in 1..m : {e \in entries : e >= lots[i]} \subseteq {lots[j] : j \in 1..m}
    BY <1>1 DEF NewestTo, Newest
<1> HIDE DEF more, m
<1>3. \A i, j \in 1..(m + 1) : i < j => more[i] < more[j]
    <2> SUFFICES ASSUME NEW i \in 1..(m + 1), NEW j \in 1..(m + 1), i < j PROVE more[i] < more[j]
        OBVIOUS
    <2>1. i \in 1..m
        BY <1>1
    <2>2. CASE j = m + 1
        BY <1>1, <2>1, <2>2
    <2>3. CASE j \in 1..m
        BY <1>1, <1>2, <2>1, <2>3
    <2> QED  BY <1>1, <2>2, <2>3
<1>4. ASSUME NEW i \in 1..(m + 1), NEW e \in entries \cup {n + 1}, e >= more[i]
      PROVE  e \in {more[j] : j \in 1..(m + 1)}
    <2>1. CASE e = n + 1
        BY <1>1, <2>1
    <2>2. CASE e # n + 1
        <3>1. e \in entries /\ e <= n /\ e \in Nat
            BY <2>2
        <3>2. i \in 1..m
            BY <1>1, <1>4, <3>1
        <3>3. e >= lots[i]
            BY <1>1, <1>4, <3>2
        <3>4. PICK j \in 1..m : e = lots[j]
            BY <1>2, <3>1, <3>2, <3>3
        <3>5. j \in 1..(m + 1) /\ more[j] = e
            BY <1>1, <3>4
        <3> QED  BY <3>5
    <2> QED  BY <2>1, <2>2
<1>5. \A i \in 1..Len(more) : more[i] <= n + 1
    BY <1>1
<1> QED  BY <1>1, <1>3, <1>4, <1>5 DEF NewestTo, Newest, more

LEMMA NewestExited ==
    ASSUME NEW n \in Nat, NEW lots, NEW entries, NewestTo(lots, entries, n), lots # <<>>
    PROVE  NewestTo(Tail(lots), entries, n + 1)
<1> DEFINE less == Tail(lots)
           m == Len(lots)
<1>1. /\ lots \in Seq(Nat) /\ m \in Nat \ {0} /\ less \in Seq(Nat) /\ Len(less) = m - 1 /\ DOMAIN less = 1..(m - 1)
      /\ DOMAIN lots = 1..m
      /\ \A i \in 1..(m - 1) : less[i] = lots[i + 1]
      /\ \A i \in 1..m : lots[i] <= n /\ lots[i] \in Nat
    BY DEF NewestTo
<1>2. /\ \A i, j \in 1..m : i < j => lots[i] < lots[j]
      /\ \A i \in 1..m : {e \in entries : e >= lots[i]} \subseteq {lots[j] : j \in 1..m}
    BY <1>1 DEF NewestTo, Newest
<1> HIDE DEF less, m
<1>3. \A i, j \in 1..(m - 1) : i < j => less[i] < less[j]
    <2> SUFFICES ASSUME NEW i \in 1..(m - 1), NEW j \in 1..(m - 1), i < j PROVE less[i] < less[j]
        OBVIOUS
    <2>1. i + 1 \in 1..m /\ j + 1 \in 1..m /\ i + 1 < j + 1
        BY <1>1
    <2> QED  BY <1>1, <1>2, <2>1
<1>4. ASSUME NEW i \in 1..(m - 1), NEW e \in entries, e >= less[i]
      PROVE  e \in {less[j] : j \in 1..(m - 1)}
    <2>1. i + 1 \in 1..m /\ less[i] = lots[i + 1] /\ 1 \in 1..m
        BY <1>1
    <2>2. PICK j \in 1..m : e = lots[j]
        BY <1>2, <1>4, <2>1
    <2>3. j # 1
        <3> SUFFICES ASSUME j = 1 PROVE FALSE
            OBVIOUS
        <3>1. 1 < i + 1
            OBVIOUS
        <3>2. lots[1] < lots[i + 1] /\ lots[1] \in Nat /\ lots[i + 1] \in Nat
            BY <1>1, <1>2, <2>1, <3>1
        <3> QED  BY <1>4, <2>1, <2>2, <3>2
    <2>4. j - 1 \in 1..(m - 1) /\ less[j - 1] = e
        <3>1. j - 1 \in 1..(m - 1) /\ (j - 1) + 1 = j
            BY <1>1, <2>3
        <3> QED  BY <1>1, <2>2, <3>1
    <2> QED  BY <2>4
<1>5. \A i \in 1..Len(less) : less[i] <= n + 1
    <2> SUFFICES ASSUME NEW i \in 1..(m - 1) PROVE less[i] <= n + 1
        BY <1>1
    <2>1. i + 1 \in 1..m
        BY <1>1
    <2> QED  BY <1>1, <2>1
<1> QED  BY <1>1, <1>3, <1>4, <1>5 DEF NewestTo, Newest, less

\* The lots of a run that starts with position p, and its position q, at place n.
Balanced(lots, q, p, fs, r, n) ==
    p = Flat /\ Until(fs, r, "SHORT", n) = {} =>
        /\ q.side # "SHORT"
        /\ Cardinality(Until(fs, r, "LONG", n)) - Cardinality(Until(fs, r, "EXIT", n)) = Len(lots)

LotsOK(lots, q, p, fs, r, n) ==
    /\ NewestTo(lots, Until(fs, r, "LONG", n), n)
    /\ q \in Whole /\ Counted(Len(lots), q, p)
    /\ Balanced(lots, q, p, fs, r, n)

\* A run starts without a lot.
LEMMA LotsStart ==
    ASSUME NEW p \in Whole, NEW fs \in Seq(FillRows), NEW r
    PROVE  LotsOK(<<>>, p, p, fs, r, 0)
<1>1. \A signal : Until(fs, r, signal, 0) = {}
    BY DEF Until, Signalled, OrdersOf
<1>2. Cardinality({}) = 0
    BY FS_EmptySet
<1>3. NewestTo(<<>>, {}, 0)
    BY DEF NewestTo, Newest
<1>4. Counted(0, p, p)
    BY LongIsNatural DEF Counted, Flat, Long
<1>5. p = Flat => p.side # "SHORT"
    BY DEF Flat
<1>6. Balanced(<<>>, p, p, fs, r, 0)
    <2>1. Cardinality({}) - Cardinality({}) = Len(<<>>)
        BY <1>2
    <2> QED  BY <1>1, <1>5, <2>1 DEF Balanced
<1>7. Len(<<>>) = 0
    OBVIOUS
<1> QED  BY <1>1, <1>3, <1>4, <1>6, <1>7 DEF LotsOK

\* Every row of the file, of this run or another, keeps lots and position together.
LEMMA LotsKeep ==
    ASSUME NEW fs \in Seq(FillRows), NEW r, NEW n \in 1..Len(fs), NEW p \in Whole,
           NEW lots, NEW q, LotsOK(lots, q, p, fs, r, n - 1),
           NEW next, IF n \in OrdersOf(fs, r)
                     THEN next = AfterOne(q, fs[n].signal) /\ Allows(q, fs[n].signal)
                     ELSE next = q
    PROVE  LotsOK(LotStep(lots, n, fs, r), next, p, fs, r, n)
<1>1. /\ n \in Nat /\ n - 1 \in Nat /\ (n - 1) + 1 = n
      /\ lots \in Seq(Nat) /\ Len(lots) \in Nat /\ (lots = <<>> <=> Len(lots) = 0) /\ q \in Whole
      /\ NewestTo(lots, Until(fs, r, "LONG", n - 1), n - 1)
      /\ Counted(Len(lots), q, p) /\ Balanced(lots, q, p, fs, r, n - 1)
    BY DEF LotsOK, NewestTo
<1> DEFINE Before(signal) == Until(fs, r, signal, n - 1)
           Now(signal) == Until(fs, r, signal, n)
<1>2. \A e \in Before("LONG") : e \in Nat /\ e <= n - 1
    BY DEF Until, Signalled, OrdersOf
<1>3. CASE n \notin OrdersOf(fs, r)
    <2>1. \A signal : n \notin Signalled(fs, r, signal)
        BY <1>3 DEF Signalled
    <2>2. \A signal : Now(signal) = Before(signal)
        <3> TAKE signal
        <3>1. n \notin Signalled(fs, r, signal)
            BY <2>1
        <3> HIDE DEF Before, Now
        <3>2. Now(signal) = Before(signal) \cup {}
            <4>1. Until(fs, r, signal, n) = Until(fs, r, signal, n - 1) \cup (IF n \in Signalled(fs, r, signal) THEN {n} ELSE {})
                BY UntilMoves
            <4> QED  BY <3>1, <4>1, Zenon DEF Before, Now
        <3> QED  BY <3>2
    <2>3. LotStep(lots, n, fs, r) = lots
        BY <2>1 DEF LotStep
    <2>4. NewestTo(lots, Before("LONG"), n)
        BY <1>1, NewestNext
    <2>5. Balanced(lots, q, p, fs, r, n)
        BY <1>1, <2>2 DEF Balanced
    <2> QED  BY <1>1, <1>3, <2>2, <2>3, <2>4, <2>5 DEF LotsOK
<1>4. CASE n \in OrdersOf(fs, r)
    <2> DEFINE signal == fs[n].signal
               after == LotStep(lots, n, fs, r)
    <2>1. signal \in Orders /\ Allows(q, signal) /\ next = AfterOne(q, signal)
        <3>1. fs[n] \in FillRows
            OBVIOUS
        <3> QED  BY <1>4, <3>1 DEF FillRows, Orders
    <2>2. \A other : n \in Signalled(fs, r, other) <=> other = signal
        BY <1>4 DEF Signalled
    <2>3. \A other : /\ Now(other) = Before(other) \cup (IF other = signal THEN {n} ELSE {})
                     /\ Cardinality(Before(other)) \in Nat
                     /\ Cardinality(Now(other)) = Cardinality(Before(other)) + IF other = signal THEN 1 ELSE 0
        <3> TAKE other
        <3>1. n \in Signalled(fs, r, other) <=> other = signal
            BY <2>2
        <3> HIDE DEF signal
        <3> QED  BY <3>1, UntilMoves
    <2>4. after = IF signal = "LONG" THEN Append(lots, n)
                  ELSE IF signal = "EXIT" /\ lots # <<>> THEN Tail(lots) ELSE lots
        <3>1. /\ n \in Signalled(fs, r, "LONG") <=> "LONG" = signal
              /\ n \in Signalled(fs, r, "EXIT") <=> "EXIT" = signal
            BY <2>2
        <3> HIDE DEF signal
        <3> QED  BY <3>1, Zenon DEF LotStep
    <2> HIDE DEF signal, after
    <2>5. next \in Whole
        BY <1>1, <2>1, StepIsWhole
    <2>6. Len(after) = LotsAfter(Len(lots), signal)
        BY <1>1, <2>4 DEF LotsAfter
    <2>7. Counted(Len(after), next, p)
        BY <1>1, <2>1, <2>6, CountMoves
    <2>8. NewestTo(after, Now("LONG"), n)
        <3>1. CASE signal = "LONG"
            <4>1. Now("LONG") = Before("LONG") \cup {n} /\ after = Append(lots, n)
                BY <2>3, <2>4, <3>1
            <4> HIDE DEF Before, Now
            <4>2. NewestTo(Append(lots, (n - 1) + 1), Before("LONG") \cup {(n - 1) + 1}, (n - 1) + 1)
                BY <1>1, <1>2, NewestEntered DEF Before
            <4> QED  BY <1>1, <4>1, <4>2
        <3>2. CASE signal # "LONG"
            <4>1. Now("LONG") = Before("LONG")
                BY <2>3, <3>2
            <4>2. NewestTo(lots, Before("LONG"), n)
                BY <1>1, NewestNext
            <4>3. lots # <<>> => NewestTo(Tail(lots), Before("LONG"), n)
                BY <1>1, NewestExited
            <4> QED  BY <2>4, <3>2, <4>1, <4>2, <4>3
        <3> QED  BY <3>1, <3>2
    <2>9. Balanced(after, next, p, fs, r, n)
        <3> SUFFICES ASSUME p = Flat, Now("SHORT") = {}
                     PROVE  /\ next.side # "SHORT"
                            /\ Cardinality(Now("LONG")) - Cardinality(Now("EXIT")) = Len(after)
            BY DEF Balanced
        <3>1. signal # "SHORT" /\ Before("SHORT") = {}
            BY <2>3
        <3>2. q.side # "SHORT" /\ Cardinality(Before("LONG")) - Cardinality(Before("EXIT")) = Len(lots)
            BY <1>1, <3>1 DEF Balanced
        <3>3. CASE signal = "LONG"
            <4>1. next.side = "LONG"
                BY <2>1, <3>3 DEF AfterOne
            <4>2. /\ Cardinality(Now("LONG")) = Cardinality(Before("LONG")) + 1
                  /\ Cardinality(Now("EXIT")) = Cardinality(Before("EXIT"))
                  /\ Cardinality(Before("LONG")) \in Nat /\ Cardinality(Before("EXIT")) \in Nat
                BY <2>3, <3>3
            <4>3. Len(after) = Len(lots) + 1
                BY <2>6, <3>3 DEF LotsAfter
            <4> HIDE DEF Before, Now
            <4> QED  BY <1>1, <3>2, <4>1, <4>2, <4>3
        <3>4. CASE signal = "EXIT"
            <4>1. q.qty > 0 /\ q.qty \in Nat /\ q.side \in {"HOLD", "LONG", "SHORT"} /\ (q.qty = 0 <=> q.side = "HOLD")
                  /\ q = [qty |-> q.qty, side |-> q.side]
                BY <1>1, <2>1, <3>4 DEF Allows, Whole, OpenPositions
            <4>2. q.side = "LONG"
                BY <3>2, <4>1
            <4>3. next.side # "SHORT"
                BY <2>1, <3>4, <4>1, <4>2 DEF AfterOne, Flat
            <4>4. Len(lots) = Long(q) /\ Len(lots) > 0
                BY <1>1, <4>1, <4>2 DEF Counted, Long
            <4>5. Len(after) = Len(lots) - 1
                BY <2>6, <3>4, <4>4 DEF LotsAfter
            <4>6. /\ Cardinality(Now("LONG")) = Cardinality(Before("LONG"))
                  /\ Cardinality(Now("EXIT")) = Cardinality(Before("EXIT")) + 1
                  /\ Cardinality(Before("LONG")) \in Nat /\ Cardinality(Before("EXIT")) \in Nat
                BY <2>3, <3>4
            <4> HIDE DEF Before, Now
            <4> QED  BY <1>1, <3>2, <4>3, <4>5, <4>6
        <3> QED  BY <2>1, <3>1, <3>3, <3>4 DEF Orders
    <2> QED  BY <2>5, <2>7, <2>8, <2>9 DEF LotsOK, after
<1> QED  BY <1>3, <1>4

-----------------------------------------------------------------------------
\* The orders s of run r are the rows of the file after the first b.
RunAt(fs, r, b, s) ==
    /\ b \in Nat /\ b + Len(s) <= Len(fs)
    /\ \A i \in 1..Len(fs) : RunOf(fs[i]) = r <=> b < i /\ i <= b + Len(s)
    /\ \A i \in 1..Len(s) : fs[b + i].signal = s[i]

\* What the report may show of a run with these lots, from position p to q.
Bracketed(lots, fs, r, p, q) ==
    /\ Len(lots) \in Nat
    /\ Len(lots) <= Long(q) /\ Long(q) <= Long(p) + Len(lots)
    /\ p = Flat =>
        /\ Len(lots) = Long(q) /\ Newest(lots, Signalled(fs, r, "LONG"))
        /\ Signalled(fs, r, "SHORT") = {} => OpenPairs(fs, r) = Len(lots)

\* Followed to the end of the file, the lots bracket the position the run ends with.
LEMMA LotsAreBracketed ==
    ASSUME NEW fs \in Seq(FillRows), NEW r, NEW b, NEW s \in Seq(Orders), RunAt(fs, r, b, s),
           NEW p \in Whole, CanFill(p, s)
    PROVE  Bracketed(OpenEntryLots(fs, r), fs, r, p, After(p, s))
<1>1. PICK g : Filled(g, p, s)
    BY RunIsFilled
<1>2. PICK f : LotsGo(f, fs, r) /\ OpenEntryLots(fs, r) = f[Len(fs)]
    BY LotsAreStepped
<1> DEFINE At(n) == IF n <= b THEN g[0] ELSE IF n <= b + Len(s) THEN g[n - b] ELSE g[Len(s)]
           S == {n \in Nat : n <= Len(fs) => LotsOK(f[n], At(n), p, fs, r, n)}
<1>3. b \in Nat /\ Len(s) \in Nat /\ Len(fs) \in Nat /\ b + Len(s) <= Len(fs)
    BY DEF RunAt
<1>4. 0 \in S
    <2>1. f[0] = <<>> /\ At(0) = p
        BY <1>1, <1>2, <1>3 DEF LotsGo, Filled
    <2> HIDE DEF At
    <2> QED  BY <2>1, LotsStart
<1>5. \A n \in Nat : n \in S => n + 1 \in S
    <2> SUFFICES ASSUME NEW n \in Nat, n \in S, n + 1 <= Len(fs)
                 PROVE  LotsOK(f[n + 1], At(n + 1), p, fs, r, n + 1)
        <3> HIDE DEF At
        <3> QED  OBVIOUS
    <2>1. n + 1 \in 1..Len(fs) /\ (n + 1) - 1 = n /\ n <= Len(fs) /\ n + 1 \in Nat
        BY <1>3
    <2>2. LotsOK(f[n], At(n), p, fs, r, n)
        BY <2>1
    <2>3. f[n + 1] = LotStep(f[n], n + 1, fs, r)
        BY <1>2, <2>1 DEF LotsGo
    <2>4. n + 1 \in OrdersOf(fs, r) <=> b < n + 1 /\ n + 1 <= b + Len(s)
        BY <2>1 DEF RunAt, OrdersOf
    <2>5. IF n + 1 \in OrdersOf(fs, r)
          THEN At(n + 1) = AfterOne(At(n), fs[n + 1].signal) /\ Allows(At(n), fs[n + 1].signal)
          ELSE At(n + 1) = At(n)
        <3>1. CASE n + 1 <= b
            BY <1>3, <2>4, <3>1
        <3>2. CASE b < n + 1 /\ n + 1 <= b + Len(s)
            <4> DEFINE i == n + 1 - b
            <4>1. i \in 1..Len(s) /\ b + i = n + 1 /\ i - 1 = n - b /\ n \in Nat
                BY <1>3, <3>2
            <4>2. fs[n + 1].signal = s[i]
                BY <4>1 DEF RunAt
            <4>3. At(n + 1) = g[i]
                BY <1>3, <3>2
            <4>4. At(n) = g[i - 1]
                <5>1. CASE n = b
                    BY <5>1
                <5>2. CASE n # b
                    <6>1. ~(n <= b) /\ n <= b + Len(s)
                        BY <1>3, <3>2, <5>2
                    <6> QED  BY <4>1, <6>1
                <5> QED  BY <5>1, <5>2
            <4> HIDE DEF i, At
            <4>5. g[i] = AfterOne(g[i - 1], s[i]) /\ Allows(g[i - 1], s[i])
                BY <1>1, <4>1 DEF Filled
            <4> QED  BY <2>4, <3>2, <4>2, <4>3, <4>4, <4>5
        <3>3. CASE b + Len(s) < n + 1
            <4>1. At(n + 1) = g[Len(s)]
                BY <1>3, <3>3
            <4>2. At(n) = g[Len(s)]
                <5>1. CASE n = b + Len(s)
                    <6>1. CASE Len(s) = 0
                        BY <1>3, <5>1, <6>1
                    <6>2. CASE Len(s) # 0
                        <7>1. ~(n <= b) /\ n - b = Len(s) /\ n <= b + Len(s)
                            BY <1>3, <5>1, <6>2
                        <7> QED  BY <7>1
                    <6> QED  BY <6>1, <6>2
                <5>2. CASE n # b + Len(s)
                    <6>1. ~(n <= b) /\ ~(n <= b + Len(s))
                        BY <1>3, <3>3, <5>2
                    <6> QED  BY <6>1
                <5> QED  BY <5>1, <5>2
            <4>3. n + 1 \notin OrdersOf(fs, r)
                BY <1>3, <2>4, <3>3
            <4> HIDE DEF At
            <4> QED  BY <4>1, <4>2, <4>3
        <3> QED  BY <1>3, <3>1, <3>2, <3>3
    <2> HIDE DEF At
    <2>6. LotsOK(LotStep(f[n], n + 1, fs, r), At(n + 1), p, fs, r, n + 1)
        BY <2>1, <2>2, <2>5, LotsKeep
    <2> QED  BY <2>3, <2>6
<1>6. LotsOK(f[Len(fs)], At(Len(fs)), p, fs, r, Len(fs))
    <2> HIDE DEF S
    <2>1. Nat \subseteq S
        BY <1>4, <1>5, Induction
    <2> QED  BY <1>3, <2>1 DEF S
<1>7. At(Len(fs)) = After(p, s)
    <2>1. At(Len(fs)) = g[Len(s)]
        <3>1. CASE Len(fs) = b + Len(s)
            <4>1. CASE Len(s) = 0
                BY <1>3, <3>1, <4>1
            <4>2. CASE Len(s) # 0
                <5>1. ~(Len(fs) <= b) /\ Len(fs) - b = Len(s) /\ Len(fs) <= b + Len(s)
                    BY <1>3, <3>1, <4>2
                <5> QED  BY <5>1
            <4> QED  BY <4>1, <4>2
        <3>2. CASE Len(fs) # b + Len(s)
            <4>1. ~(Len(fs) <= b) /\ ~(Len(fs) <= b + Len(s))
                BY <1>3, <3>2
            <4> QED  BY <4>1
        <3> QED  BY <3>1, <3>2
    <2> QED  BY <1>1, <2>1 DEF Filled
<1>8. \A signal : Until(fs, r, signal, Len(fs)) = Signalled(fs, r, signal)
    BY <1>3 DEF Until, Signalled, OrdersOf
<1> HIDE DEF At, S
<1>9. Len(f[Len(fs)]) \in Nat
    BY <1>6 DEF LotsOK, NewestTo
<1> QED
    BY <1>2, <1>6, <1>7, <1>8, <1>9 DEF LotsOK, Balanced, NewestTo, Counted, Bracketed, OpenPairs

\* Files one after the other.
Without(fs, r) == \A i \in 1..Len(fs) : RunOf(fs[i]) # r

LEMMA RunStays ==
    ASSUME NEW x \in Seq(FillRows), NEW y \in Seq(FillRows), NEW r, NEW b, NEW s \in Seq(Orders),
           RunAt(x, r, b, s), Without(y, r)
    PROVE  RunAt(x \o y, r, b, s)
<1>1. /\ Len(x) \in Nat /\ Len(y) \in Nat /\ Len(s) \in Nat /\ b \in Nat /\ b + Len(s) <= Len(x)
      /\ Len(x \o y) = Len(x) + Len(y)
      /\ \A i \in 1..Len(x) : (x \o y)[i] = x[i]
      /\ \A i \in 1..Len(y) : (x \o y)[Len(x) + i] = y[i]
    BY DEF RunAt
<1>2. ASSUME NEW i \in 1..Len(x \o y)
      PROVE  RunOf((x \o y)[i]) = r <=> b < i /\ i <= b + Len(s)
    <2>1. CASE i \in 1..Len(x)
        BY <1>1, <2>1 DEF RunAt
    <2>2. CASE i \notin 1..Len(x)
        <3>1. i - Len(x) \in 1..Len(y) /\ Len(x) + (i - Len(x)) = i /\ ~(i <= b + Len(s))
            BY <1>1, <2>2
        <3>2. (x \o y)[i] = y[i - Len(x)]
            BY <1>1, <3>1
        <3> QED  BY <3>1, <3>2 DEF Without
    <2> QED  BY <2>1, <2>2
<1>3. ASSUME NEW i \in 1..Len(s) PROVE (x \o y)[b + i].signal = s[i]
    <2>1. b + i \in 1..Len(x)
        BY <1>1
    <2> QED  BY <1>1, <2>1 DEF RunAt
<1>4. b + Len(s) <= Len(x \o y)
    BY <1>1
<1> QED  BY <1>1, <1>2, <1>3, <1>4, Zenon DEF RunAt

LEMMA RunMoves ==
    ASSUME NEW x \in Seq(FillRows), NEW y \in Seq(FillRows), NEW r, NEW b, NEW s \in Seq(Orders),
           Without(x, r), RunAt(y, r, b, s)
    PROVE  RunAt(x \o y, r, Len(x) + b, s)
<1>1. /\ Len(x) \in Nat /\ Len(y) \in Nat /\ Len(s) \in Nat /\ b \in Nat /\ b + Len(s) <= Len(y)
      /\ Len(x \o y) = Len(x) + Len(y)
      /\ \A i \in 1..Len(x) : (x \o y)[i] = x[i]
      /\ \A i \in 1..Len(y) : (x \o y)[Len(x) + i] = y[i]
    BY DEF RunAt
<1>2. ASSUME NEW i \in 1..Len(x \o y)
      PROVE  RunOf((x \o y)[i]) = r <=> Len(x) + b < i /\ i <= (Len(x) + b) + Len(s)
    <2>1. CASE i \in 1..Len(x)
        <3>1. ~(Len(x) + b < i) /\ (x \o y)[i] = x[i]
            BY <1>1, <2>1
        <3> QED  BY <2>1, <3>1 DEF Without
    <2>2. CASE i \notin 1..Len(x)
        <3> DEFINE j == i - Len(x)
        <3>1. j \in 1..Len(y) /\ Len(x) + j = i /\ i \in Nat
            BY <1>1, <2>2
        <3>2. (x \o y)[i] = y[j]
            BY <1>1, <3>1
        <3>3. RunOf(y[j]) = r <=> b < j /\ j <= b + Len(s)
            BY <3>1 DEF RunAt
        <3>4. (b < j /\ j <= b + Len(s)) <=> (Len(x) + b < i /\ i <= (Len(x) + b) + Len(s))
            BY <1>1, <3>1
        <3> QED  BY <3>2, <3>3, <3>4
    <2> QED  BY <2>1, <2>2
<1>3. ASSUME NEW i \in 1..Len(s) PROVE (x \o y)[(Len(x) + b) + i].signal = s[i]
    <2>1. b + i \in 1..Len(y) /\ (Len(x) + b) + i = Len(x) + (b + i)
        BY <1>1
    <2> QED  BY <1>1, <2>1 DEF RunAt
<1>4. (Len(x) + b) + Len(s) <= Len(x \o y) /\ Len(x) + b \in Nat
    BY <1>1
<1> QED  BY <1>2, <1>3, <1>4, Zenon DEF RunAt

LEMMA StillWithout ==
    ASSUME NEW x \in Seq(FillRows), NEW y \in Seq(FillRows), NEW r, Without(x, r), Without(y, r)
    PROVE  Without(x \o y, r)
<1>1. /\ Len(x) \in Nat /\ Len(y) \in Nat
      /\ Len(x \o y) = Len(x) + Len(y)
      /\ \A i \in 1..Len(x) : (x \o y)[i] = x[i]
      /\ \A i \in 1..Len(y) : (x \o y)[Len(x) + i] = y[i]
    OBVIOUS
<1>2. ASSUME NEW i \in 1..Len(x \o y) PROVE RunOf((x \o y)[i]) # r
    <2>1. CASE i \in 1..Len(x)
        BY <1>1, <2>1 DEF Without
    <2>2. CASE i \notin 1..Len(x)
        <3>1. i - Len(x) \in 1..Len(y) /\ Len(x) + (i - Len(x)) = i
            BY <1>1, <2>2
        <3> QED  BY <1>1, <3>1 DEF Without
    <2> QED  BY <2>1, <2>2
<1> QED  BY <1>2 DEF Without

\* The rows of one date: of every pair that ran, its orders, and of no other.
DayRows(x, ran, d, n) ==
    /\ x \in Seq(FillRows) /\ \A i \in 1..Len(x) : x[i].date = d /\ x[i].key \in 1..n
    /\ \A k \in 1..n : IF ran[k] = None THEN Without(x, <<d, k>>) ELSE \E b : RunAt(x, <<d, k>>, b, ran[k])

Ran(ran) == \A k \in Keys : ran[k] = None \/ ran[k] \in Seq(Orders)
Starts(start) == \A k \in Keys : start[k] \in {None, 0}

\* The rows of one more pair leave those of the others together.
LEMMA PairAddsRows ==
    ASSUME NEW ran, Ran(ran), NEW start, Starts(start), NEW d \in Nat, NEW k \in Keys, Keys \subseteq Nat, k > 0,
           NEW x, DayRows(x, ran, d, k - 1)
    PROVE  DayRows(x \o Own(ran, start, d, k), ran, d, k)
<1> DEFINE y == Own(ran, start, d, k)
<1>0. k \in Nat /\ k - 1 \in Nat /\ x \in Seq(FillRows)
    BY DEF DayRows
<1>1. CASE ran[k] = None
    <2>1. x \o y = x
        BY <1>0, <1>1 DEF Own
    <2>2. Without(x, <<d, k>>)
        <3>1. ASSUME NEW i \in 1..Len(x) PROVE RunOf(x[i]) # <<d, k>>
            <4>1. x[i].key # k
                BY <1>0 DEF DayRows
            <4> QED  BY <4>1 DEF RunOf
        <3> QED  BY <3>1 DEF Without
    <2>3. \A i \in 1..Len(x) : x[i].date = d /\ x[i].key \in 1..k
        BY <1>0 DEF DayRows
    <2>4. ASSUME NEW l \in 1..k
          PROVE  IF ran[l] = None THEN Without(x, <<d, l>>) ELSE \E b : RunAt(x, <<d, l>>, b, ran[l])
        <3>1. CASE l = k
            BY <1>1, <2>2, <3>1
        <3>2. CASE l # k
            <4>1. l \in 1..(k - 1)
                BY <1>0, <3>2
            <4> QED  BY <4>1 DEF DayRows
        <3> QED  BY <3>1, <3>2
    <2>5. DayRows(x, ran, d, k)
        BY <1>0, <2>3, <2>4 DEF DayRows
    <2> QED  BY <2>1, <2>5
<1>2. CASE ran[k] # None
    <2>1. y = Trades(k, ran[k], start[k], d) /\ ran[k] \in Seq(Orders) /\ start[k] \in {None, 0}
        BY <1>2 DEF Own, Ran, Starts
    <2>2. y \in Seq(FillRows)
        BY <2>1, TradesAreRows DEF Orders
    <2>3. Len(y) = Len(ran[k]) /\ \A i \in 1..Len(ran[k]) : y[i].date = d /\ y[i].key = k /\ y[i].signal = ran[k][i]
        BY <2>1 DEF Trades
    <2> HIDE DEF y
    <2>4. /\ Len(x) \in Nat /\ Len(y) \in Nat /\ Len(x \o y) = Len(x) + Len(y) /\ x \o y \in Seq(FillRows)
          /\ \A i \in 1..Len(x) : (x \o y)[i] = x[i]
          /\ \A i \in 1..Len(y) : (x \o y)[Len(x) + i] = y[i]
        BY <1>0, <2>2
    <2>5. ASSUME NEW i \in 1..Len(x \o y) PROVE (x \o y)[i].date = d /\ (x \o y)[i].key \in 1..k
        <3>1. CASE i \in 1..Len(x)
            <4>1. x[i].date = d /\ x[i].key \in 1..(k - 1)
                BY <3>1 DEF DayRows
            <4> QED  BY <1>0, <2>4, <3>1, <4>1
        <3>2. CASE i \notin 1..Len(x)
            <4>1. i - Len(x) \in 1..Len(y) /\ Len(x) + (i - Len(x)) = i
                BY <2>4, <3>2
            <4>2. (x \o y)[i] = y[i - Len(x)]
                BY <2>4, <4>1
            <4> QED  BY <1>0, <2>3, <4>1, <4>2
        <3> QED  BY <3>1, <3>2
    <2>6. ASSUME NEW l \in 1..k
          PROVE  IF ran[l] = None THEN Without(x \o y, <<d, l>>) ELSE \E b : RunAt(x \o y, <<d, l>>, b, ran[l])
        <3>1. CASE l = k
            <4>1. Without(x, <<d, k>>)
                <5>1. ASSUME NEW i \in 1..Len(x) PROVE RunOf(x[i]) # <<d, k>>
                    <6>1. x[i].key # k
                        BY <1>0 DEF DayRows
                    <6> QED  BY <6>1 DEF RunOf
                <5> QED  BY <5>1 DEF Without
            <4>2. RunAt(y, <<d, k>>, 0, ran[k])
                <5>1. \A i \in 1..Len(y) : RunOf(y[i]) = <<d, k>> /\ (0 < i /\ i <= 0 + Len(ran[k]))
                    BY <2>3, <2>4 DEF RunOf
                <5>2. \A i \in 1..Len(ran[k]) : y[0 + i].signal = ran[k][i]
                    BY <2>3
                <5>3. 0 + Len(ran[k]) <= Len(y)
                    BY <2>3, <2>4
                <5> QED  BY <5>1, <5>2, <5>3 DEF RunAt
            <4>3. RunAt(x \o y, <<d, k>>, Len(x) + 0, ran[k])
                BY <1>0, <2>1, <2>2, <4>1, <4>2, RunMoves
            <4> QED  BY <1>2, <3>1, <4>3
        <3>2. CASE l # k
            <4>1. l \in 1..(k - 1) /\ l \in Keys
                BY <1>0, <3>2, CapitalAssumption
            <4>2. Without(y, <<d, l>>)
                BY <2>3, <3>2 DEF Without, RunOf
            <4>3. CASE ran[l] = None
                <5>1. Without(x, <<d, l>>)
                    BY <4>1, <4>3 DEF DayRows
                <5> QED  BY <1>0, <2>2, <4>2, <4>3, <5>1, StillWithout
            <4>4. CASE ran[l] # None
                <5>1. PICK b : RunAt(x, <<d, l>>, b, ran[l])
                    BY <4>1, <4>4 DEF DayRows
                <5>2. ran[l] \in Seq(Orders)
                    BY <4>1, <4>4 DEF Ran
                <5>3. RunAt(x \o y, <<d, l>>, b, ran[l])
                    BY <1>0, <2>2, <4>2, <5>1, <5>2, RunStays
                <5> QED  BY <4>4, <5>3
            <4> QED  BY <4>3, <4>4
        <3> QED  BY <3>1, <3>2
    <2>7. DayRows(x \o y, ran, d, k)
        BY <2>4, <2>5, <2>6 DEF DayRows
    <2> QED  BY <2>7 DEF y
<1> QED  BY <1>1, <1>2

\* The rows of a date tell of all its runs.
LEMMA DayIsSaved ==
    ASSUME NEW ran, Ran(ran), NEW start, Starts(start), NEW d \in Nat
    PROVE  DayRows(AllTrades(ran, start, d), ran, d, Cardinality(Keys))
<1> DEFINE n == Cardinality(Keys)
<1>1. n \in Nat /\ Keys = 1..n
    BY CapitalAssumption
<1>2. PICK g : AllTradesGo(g, ran, start, d) /\ AllTrades(ran, start, d) = g[n]
    BY AllTradesStepped DEF Ran, Starts, Orders
<1> DEFINE D == [k \in 0..n |-> {x \in Seq(FillRows) : DayRows(x, ran, d, k)}]
<1>3. g[0] \in D[0]
    <2>1. g[0] = <<>> /\ <<>> \in Seq(FillRows) /\ Len(<<>>) = 0
        BY <1>2 DEF AllTradesGo
    <2>2. DayRows(<<>>, ran, d, 0)
        BY <2>1 DEF DayRows
    <2> HIDE DEF n
    <2> QED  BY <1>1, <2>1, <2>2
<1>4. ASSUME NEW k \in 1..n, g[k - 1] \in D[k - 1] PROVE g[k] \in D[k]
    <2>1. k - 1 \in 0..n /\ k \in 0..n /\ k \in Keys /\ k > 0 /\ Keys \subseteq Nat
        BY <1>1
    <2>2. g[k] = g[k - 1] \o Own(ran, start, d, k)
        BY <1>2, <2>1 DEF AllTradesGo
    <2>3. DayRows(g[k - 1], ran, d, k - 1)
        BY <1>4, <2>1
    <2>4. DayRows(g[k], ran, d, k)
        BY <2>1, <2>2, <2>3, PairAddsRows
    <2>5. g[k] \in Seq(FillRows)
        BY <2>4 DEF DayRows
    <2> QED  BY <2>1, <2>4, <2>5
<1>5. \A k \in 0..n : g[k] \in D[k]
    <2> HIDE DEF D, n
    <2> QED  BY <1>1, <1>3, <1>4, StepsStay
<1>6. n \in 0..n
    BY <1>1
<1> HIDE DEF n
<1>7. DayRows(g[n], ran, d, n)
    BY <1>5, <1>6
<1> QED  BY <1>2, <1>7 DEF n

-----------------------------------------------------------------------------
\* What each date ran and left open, against the rows saved.

Closed == [date : Nat, began : [Keys -> OpenPositions], ended : [Keys -> OpenPositions],
           held : [Keys -> OpenPositions], ran : SUBSET Keys, lost : SUBSET Keys]

\* The rows of pair k on the date of c.
RunSaved(fs, c, k) ==
    IF k \in c.ran
    THEN \E b, s : /\ s \in Seq(Orders) /\ RunAt(fs, <<c.date, k>>, b, s)
                   /\ c.began[k] \in Whole /\ CanFill(c.began[k], s) /\ c.ended[k] = After(c.began[k], s)
    ELSE Without(fs, <<c.date, k>>)

HeldBefore(i, k) == IF i = 1 THEN 0 ELSE Long(closing[i - 1].held[k])

\* What pair k holds after the i-th date is what it held before or what its run left.
HeldFollows(i, k) ==
    /\ Long(closing[i].held[k]) \in Nat
    /\ IF k \in closing[i].ran
       THEN Long(closing[i].began[k]) <= HeldBefore(i, k) /\ Long(closing[i].held[k]) <= Long(closing[i].ended[k])
       ELSE Long(closing[i].held[k]) <= HeldBefore(i, k)

\* What is held now is what the last date left.
HeldNow(k) ==
    /\ Held(account[k]) \in Whole
    /\ Long(Held(account[k])) = HeldBefore(day + 1, k)

DatesPast ==
    /\ closing \in Seq(Closed) /\ Len(closing) = day
    /\ \A i \in 1..day : closing[i].date = TradeDates[i]
    /\ \A j \in 1..Len(fills) : \E i \in 1..day : fills[j].date = TradeDates[i]

ClosingInv ==
    /\ CarryInv /\ RowsSaved /\ DatesPast /\ day <= Len(TradeDates)
    /\ \A k \in Keys : HeldNow(k)
    /\ \A i \in 1..day, k \in Keys : RunSaved(fills, closing[i], k) /\ HeldFollows(i, k)

LEMMA ClosingStarts == PInit => ClosingInv
<1> SUFFICES ASSUME PInit PROVE ClosingInv
    OBVIOUS
<1>1. /\ day = 0 /\ fills = <<>> /\ closing = <<>> /\ \A k \in Keys : account[k] = None
      /\ CarryInv
    BY InitCarries DEF PInit, CarryInit
<1>2. RowsSaved /\ DatesPast
    BY <1>1 DEF RowsSaved, DatesPast
<1>3. Flat \in Whole /\ Long(Flat) = 0
    BY DEF Flat, Whole, OpenPositions, Long
<1>4. \A k \in Keys : HeldNow(k)
    BY <1>1, <1>3 DEF HeldNow, Held, HeldBefore
<1>5. 0 <= Len(TradeDates)
    BY CarryAssumption
<1> QED  BY <1>1, <1>2, <1>4, <1>5 DEF ClosingInv

\* A date as one pair sees it: its run starts with what is held, and what is
\* held afterwards is what the run left, or nothing.
LEMMA PairCloses ==
    ASSUME ClosingInv, CarryNext, NEW k \in Keys
    PROVE  /\ Held(account'[k]) \in Whole
           /\ done'[k] = None \/ done'[k] \in Seq(Orders)
           /\ IF done'[k] # None
              THEN /\ records'[k] = Held(account[k]) /\ CanFill(records'[k], done'[k])
                   /\ After(records'[k], done'[k]) \in Whole
                   /\ Long(Held(account'[k])) <= Long(After(records'[k], done'[k]))
              ELSE Long(Held(account'[k])) <= Long(Held(account[k]))
<1>1. /\ CarryInv /\ Held(account[k]) \in Whole
      /\ account[k] = IF carry[k] = None THEN None ELSE Held(carry[k])
      /\ carry[k] \in Snapshots \cup {None}
    BY DEF ClosingInv, HeldNow, CarryInv, Remembers
<1>2. PICK universe \in SUBSET Keys : RunDate(universe)
    BY DEF CarryNext
<1>3. done'[k] \in Outcomes \cup {None} /\ done'[k] \in Outcome(records', k)
    BY <1>2 DEF RunDate
<1>4. done'[k] = None \/ done'[k] \in Seq(Orders)
    BY <1>3, CarryAssumption DEF Orders
<1>5. Held(account[k]) = Held(carry[k])
    <2>1. Held(carry[k]) \in OpenPositions /\ Held(carry[k]) # None
        BY <1>1, HeldIsPosition, CarryAssumption
    <2>2. CASE carry[k] = None
        BY <1>1, <2>2
    <2>3. CASE carry[k] # None
        <3>1. PICK p : p = Held(carry[k])
            OBVIOUS
        <3>2. account[k] = p /\ p \in OpenPositions /\ p # None
            BY <1>1, <2>1, <2>3, <3>1
        <3>3. Held(p) = p
            BY <3>2 DEF Held, OpenPositions
        <3> QED  BY <3>1, <3>2, <3>3
    <2> QED  BY <2>2, <2>3
<1>6. ASSUME done'[k] # None
      PROVE  /\ records'[k] = Held(account[k]) /\ CanFill(records'[k], done'[k])
             /\ After(records'[k], done'[k]) \in Whole
    <2>1. records'[k] # None /\ records'[k] = Held(carry[k])
        BY <1>1, <1>6, DateSteps, CarryAssumption
    <2>2. CanFill(records'[k], done'[k])
        BY <1>3, <1>6, <2>1 DEF Outcome
    <2>3. records'[k] = Held(account[k]) /\ records'[k] \in Whole
        BY <1>1, <1>5, <2>1
    <2>4. After(records'[k], done'[k]) \in Whole
        <3>1. done'[k] \in Seq(Orders)
            BY <1>4, <1>6
        <3>2. PICK g : Filled(g, records'[k], done'[k])
            BY <2>2, <2>3, <3>1, RunIsFilled
        <3>3. Len(done'[k]) \in 0..Len(done'[k])
            BY <3>1
        <3> QED  BY <3>2, <3>3 DEF Filled
    <2> QED  BY <2>2, <2>3, <2>4
<1>7. account'[k] = IF <<Date, k>> \in Excluded \/ status'[k] = "expiry_position_remaining" THEN None
                    ELSE IF Ended(k) = None THEN account[k]
                    ELSE IF Ended(k).qty = 0 THEN None ELSE Ended(k)
    BY <1>1, DateSteps, CarryAssumption
<1>8. Flat \in Whole /\ Long(Flat) = 0 /\ Held(None) = Flat
    BY DEF Flat, Whole, OpenPositions, Long, Held
<1>9. Whole \subseteq OpenPositions /\ None \notin Whole
    BY CarryAssumption DEF Whole
<1>10. CASE done'[k] = None
    <2>1. Ended(k) = None
        BY <1>10 DEF Ended
    <2>2. account'[k] = None \/ account'[k] = account[k]
        BY <1>7, <2>1
    <2>3. Long(Held(account[k])) \in Nat
        BY <1>1, LongIsNatural
    <2>4. Held(account'[k]) = Flat \/ Held(account'[k]) = Held(account[k])
        BY <1>8, <2>2
    <2>5. Held(account'[k]) \in Whole /\ Long(Held(account'[k])) <= Long(Held(account[k]))
        BY <1>1, <1>8, <2>3, <2>4
    <2> QED  BY <1>10, <2>5
<1>11. CASE done'[k] # None
    <2>1. PICK p : p = After(records'[k], done'[k])
        OBVIOUS
    <2>2. p \in Whole /\ p # None /\ Ended(k) = p
        BY <1>6, <1>9, <1>11, <2>1 DEF Ended
    <2>3. account'[k] = None \/ account'[k] = p
        BY <1>7, <2>2
    <2>4. Held(p) = p /\ Long(p) \in Nat
        BY <2>2, LongIsNatural DEF Held, Whole, OpenPositions
    <2>5. Held(account'[k]) = Flat \/ Held(account'[k]) = p
        BY <1>8, <2>3, <2>4
    <2>6. Held(account'[k]) \in Whole /\ Long(Held(account'[k])) <= Long(p)
        BY <1>8, <2>2, <2>4, <2>5
    <2> QED  BY <1>4, <1>6, <1>11, <2>1, <2>6
<1> QED  BY <1>4, <1>10, <1>11

\* The rows of a date are of no date before.
LEMMA DatesDiffer ==
    ASSUME ClosingInv, CarryNext, NEW i \in 1..day
    PROVE  TradeDates[i] # Date /\ Date \in Nat /\ closing[i].date = TradeDates[i]
<1>1. day \in Nat /\ day < Len(TradeDates) /\ closing[i].date = TradeDates[i]
    BY DEF ClosingInv, CarryInv, CarryNext, DatesPast
<1>2. TradeDates \in Seq(Calendar) /\ Calendar \subseteq Nat
    BY CarryAssumption DEF Days
<1>3. i \in 1..Len(TradeDates) /\ day + 1 \in 1..Len(TradeDates) /\ i < day + 1
    BY <1>1, <1>2
<1>4. TradeDates[i] < TradeDates[day + 1]
    BY <1>3, CarryAssumption
<1>5. TradeDates[i] \in Nat /\ TradeDates[day + 1] \in Nat
    <2>1. TradeDates[i] \in Calendar /\ TradeDates[day + 1] \in Calendar
        BY <1>2, <1>3
    <2> QED  BY <1>2, <2>1
<1> QED  BY <1>1, <1>4, <1>5 DEF Date

\* The rows of a date leave the runs of the dates before as they were.
LEMMA EarlierStay ==
    ASSUME ClosingInv, CarryNext, NEW t \in Seq(FillRows), \A j \in 1..Len(t) : t[j].date = Date,
           NEW i \in 1..day, NEW k \in Keys
    PROVE  RunSaved(fills \o t, closing[i], k)
<1> DEFINE c == closing[i]
           r == <<c.date, k>>
<1>1. fills \in Seq(FillRows) /\ RunSaved(fills, c, k)
    BY DEF ClosingInv, RowsSaved
<1>2. Without(t, r)
    <2>1. c.date # Date
        BY DatesDiffer
    <2>2. ASSUME NEW j \in 1..Len(t) PROVE RunOf(t[j]) # r
        BY <2>1 DEF RunOf
    <2> QED  BY <2>2 DEF Without
<1> HIDE DEF c
<1>3. CASE k \in c.ran
    <2>1. PICK b, s : /\ s \in Seq(Orders) /\ RunAt(fills, r, b, s)
                      /\ c.began[k] \in Whole /\ CanFill(c.began[k], s) /\ c.ended[k] = After(c.began[k], s)
        BY <1>1, <1>3 DEF RunSaved
    <2>2. RunAt(fills \o t, r, b, s)
        BY <1>1, <1>2, <2>1, RunStays
    <2> QED  BY <1>3, <2>1, <2>2 DEF RunSaved, c
<1>4. CASE k \notin c.ran
    <2>1. Without(fills, r)
        BY <1>1, <1>4 DEF RunSaved
    <2>2. Without(fills \o t, r)
        BY <1>1, <1>2, <2>1, StillWithout
    <2> QED  BY <1>4, <2>2 DEF RunSaved, c
<1> QED  BY <1>3, <1>4

\* The rows of the latest date are those of its runs.
LEMMA LatestSaved ==
    ASSUME ClosingInv, CarryNext, NEW t, DayRows(t, done', Date, Cardinality(Keys)),
           NEW k \in Keys, NEW c, c.date = Date, k \in c.ran <=> done'[k] # None,
           done'[k] # None => /\ c.began[k] = records'[k]
                              /\ c.ended[k] = After(records'[k], done'[k])
    PROVE  RunSaved(fills \o t, c, k)
<1> DEFINE r == <<Date, k>>
<1>1. fills \in Seq(FillRows) /\ t \in Seq(FillRows) /\ k \in 1..Cardinality(Keys) /\ Held(account[k]) \in Whole
    BY CapitalAssumption DEF ClosingInv, RowsSaved, DayRows, HeldNow
<1>2. Without(fills, r)
    <2>1. ASSUME NEW j \in 1..Len(fills) PROVE RunOf(fills[j]) # r
        <3>1. PICK i \in 1..day : fills[j].date = TradeDates[i]
            BY DEF ClosingInv, DatesPast
        <3>2. TradeDates[i] # Date
            BY DatesDiffer
        <3> QED  BY <3>1, <3>2 DEF RunOf
    <2> QED  BY <2>1 DEF Without
<1>3. CASE done'[k] = None
    <2>1. Without(t, r)
        BY <1>1, <1>3 DEF DayRows
    <2>2. Without(fills \o t, r)
        BY <1>1, <1>2, <2>1, StillWithout
    <2> QED  BY <1>3, <2>2 DEF RunSaved
<1>4. CASE done'[k] # None
    <2>1. PICK b : RunAt(t, r, b, done'[k])
        BY <1>1, <1>4 DEF DayRows
    <2>2. done'[k] \in Seq(Orders) /\ records'[k] = Held(account[k]) /\ CanFill(records'[k], done'[k])
        BY <1>4, PairCloses
    <2>3. RunAt(fills \o t, r, Len(fills) + b, done'[k])
        BY <1>1, <1>2, <2>1, <2>2, RunMoves
    <2> QED  BY <1>1, <1>4, <2>2, <2>3 DEF RunSaved
<1> QED  BY <1>3, <1>4

\* One more row of closing.
LEMMA HeldGrows ==
    ASSUME ClosingInv, CarryNext, NEW k \in Keys, NEW c,
           NEW n \in Nat, n = day + 1, closing' = Append(closing, c), day' = day + 1,
           c.held[k] = Held(account'[k]), k \in c.ran <=> done'[k] # None,
           done'[k] # None => /\ c.began[k] = records'[k]
                              /\ c.ended[k] = After(records'[k], done'[k])
    PROVE  /\ HeldNow(k)'
           /\ \A i \in 1..n : HeldFollows(i, k)'
<1>1. /\ closing \in Seq(Closed) /\ Len(closing) = day /\ day \in Nat
      /\ \A i \in 1..day : HeldFollows(i, k)
      /\ Held(account[k]) \in Whole /\ Long(Held(account[k])) = HeldBefore(day + 1, k)
    BY DEF ClosingInv, DatesPast, CarryInv, HeldNow
<1>2. closing'[day + 1] = c /\ \A i \in 1..day : closing'[i] = closing[i]
    BY <1>1
<1>3. \A i \in 1..n : HeldBefore(i, k)' = HeldBefore(i, k)
    <2> SUFFICES ASSUME NEW i \in 1..n PROVE HeldBefore(i, k)' = HeldBefore(i, k)
        OBVIOUS
    <2>1. CASE i = 1
        BY <2>1 DEF HeldBefore
    <2>2. CASE i # 1
        <3>1. i - 1 \in 1..day
            BY <1>1, <2>2
        <3> QED  BY <1>2, <3>1 DEF HeldBefore
    <2> QED  BY <2>1, <2>2
<1>4. ASSUME NEW i \in 1..day PROVE HeldFollows(i, k)'
    <2>1. HeldFollows(i, k) /\ closing'[i] = closing[i] /\ HeldBefore(i, k)' = HeldBefore(i, k)
        BY <1>1, <1>2, <1>3
    <2> QED  BY <2>1 DEF HeldFollows
<1>5. /\ Held(account'[k]) \in Whole
      /\ IF done'[k] # None
         THEN /\ records'[k] = Held(account[k])
              /\ Long(Held(account'[k])) <= Long(After(records'[k], done'[k]))
         ELSE Long(Held(account'[k])) <= Long(Held(account[k]))
    BY PairCloses
<1>6. Long(Held(account'[k])) \in Nat /\ Long(Held(account[k])) \in Nat
    BY <1>1, <1>5, LongIsNatural
<1>7. HeldFollows(n, k)'
    <2>1. n \in 1..n /\ HeldBefore(n, k) = Long(Held(account[k])) /\ closing'[n] = c
        BY <1>1, <1>2
    <2>2. HeldBefore(n, k)' = Long(Held(account[k]))
        BY <1>3, <2>1
    <2> QED  BY <1>5, <1>6, <2>1, <2>2 DEF HeldFollows
<1>8. HeldNow(k)'
    <2>1. (day' + 1) - 1 = day + 1 /\ day' + 1 # 1
        BY <1>1
    <2>4. closing'[(day' + 1) - 1].held[k] = Held(account'[k])
        BY <1>2, <2>1
    <2> QED  BY <1>5, <2>1, <2>4 DEF HeldNow, HeldBefore
<1>9. \A i \in 1..n : i \in 1..day \/ i = n
    BY <1>1
<1> QED  BY <1>4, <1>7, <1>8, <1>9

\* Every date keeps the rows, the positions and what was held together.
LEMMA ClosingKeeps == ClosingInv /\ [PNext]_pvars => ClosingInv'
<1> SUFFICES ASSUME ClosingInv, [PNext]_pvars PROVE ClosingInv'
    OBVIOUS
<1>1. CASE UNCHANGED pvars
    BY <1>1 DEF pvars, carryVars, ClosingInv, CarryInv, Remembers, RowsSaved, DatesPast, HeldNow, HeldBefore, HeldFollows
<1>2. CASE PNext
    <2>1. CarryNext /\ day \in Nat /\ day < Len(TradeDates) /\ Len(TradeDates) \in Nat
        BY <1>2, CarryAssumption DEF PNext, CarryNext, ClosingInv, CarryInv
    <2>2. day' = day + 1
        BY <2>1 DEF CarryNext, RunDate
    <2>3. PICK n \in Nat : n = day + 1
        BY <2>1
    <2>4. /\ Ran(done')
          /\ \A k \in Keys : done'[k] # None => /\ records'[k] \in OpenPositions
                                                /\ After(records'[k], done'[k]) \in OpenPositions
          /\ \A k \in Keys : Held(account'[k]) \in OpenPositions
        <3>1. Whole \subseteq OpenPositions
            BY DEF Whole
        <3>2. \A k \in Keys : Held(account[k]) \in Whole
            BY DEF ClosingInv, HeldNow
        <3> QED  BY <2>1, <3>1, <3>2, PairCloses DEF Ran
    <2>5. PICK start \in [Keys -> {None, 0}] : fills' = fills \o AllTrades(done', start, Date)
        BY <1>2 DEF PNext, Date
    <2>6. PICK c : /\ closing' = Append(closing, c)
                   /\ c = [date |-> Date,
                           began |-> [k \in Keys |-> IF done'[k] = None THEN Flat ELSE records'[k]],
                           ended |-> [k \in Keys |-> IF done'[k] = None THEN Flat ELSE After(records'[k], done'[k])],
                           held |-> [k \in Keys |-> Held(account'[k])],
                           ran |-> {k \in Keys : done'[k] # None},
                           lost |-> {k \in Keys : status'[k] = "expiry_position_remaining"}]
        BY <1>2, Zenon DEF PNext, Date
    <2>7. Date \in Nat /\ Date = TradeDates[n]
        <3>1. day + 1 \in 1..Len(TradeDates) /\ TradeDates \in Seq(Calendar) /\ Calendar \subseteq Nat
            BY <2>1, CarryAssumption DEF Days
        <3>2. TradeDates[day + 1] \in Calendar
            BY <3>1
        <3> QED  BY <2>3, <3>1, <3>2 DEF Date
    <2>8. /\ c.date = Date
          /\ \A k \in Keys : /\ c.held[k] = Held(account'[k]) /\ (k \in c.ran <=> done'[k] # None)
                             /\ done'[k] # None => /\ c.began[k] = records'[k]
                                                   /\ c.ended[k] = After(records'[k], done'[k])
        BY <2>6
    <2>9. c \in Closed
        <3>1. Flat \in OpenPositions
            BY DEF Flat, OpenPositions
        <3>2. [k \in Keys |-> IF done'[k] = None THEN Flat ELSE records'[k]] \in [Keys -> OpenPositions]
            BY <2>4, <3>1
        <3>3. [k \in Keys |-> IF done'[k] = None THEN Flat ELSE After(records'[k], done'[k])] \in [Keys -> OpenPositions]
            BY <2>4, <3>1
        <3>4. [k \in Keys |-> Held(account'[k])] \in [Keys -> OpenPositions]
            BY <2>4
        <3> QED  BY <2>6, <2>7, <3>2, <3>3, <3>4 DEF Closed
    <2>10. PICK t : /\ t = AllTrades(done', start, Date)
                    /\ DayRows(t, done', Date, Cardinality(Keys))
        <3>1. Starts(start)
            BY DEF Starts
        <3> QED  BY <2>4, <2>7, <3>1, DayIsSaved
    <2>11. /\ fills' = fills \o t /\ t \in Seq(FillRows) /\ fills \in Seq(FillRows)
           /\ \A j \in 1..Len(t) : t[j].date = Date
        BY <2>5, <2>10 DEF DayRows, ClosingInv, RowsSaved
    <2>12. /\ closing' \in Seq(Closed) /\ Len(closing') = day' /\ closing'[n] = c
           /\ \A i \in 1..day : closing'[i] = closing[i] /\ closing[i].date = TradeDates[i]
        BY <2>2, <2>3, <2>6, <2>9 DEF ClosingInv, DatesPast
    <2>13. \A i \in 1..day' : i = n \/ i \in 1..day
        BY <2>1, <2>2, <2>3
    <2>14. DatesPast'
        <3>1. \A i \in 1..day' : closing'[i].date = TradeDates[i]
            BY <2>7, <2>8, <2>12, <2>13
        <3>2. ASSUME NEW j \in 1..Len(fills') PROVE \E i \in 1..day' : fills'[j].date = TradeDates[i]
            <4>1. CASE j \in 1..Len(fills)
                <5>1. fills'[j] = fills[j]
                    BY <2>11, <4>1
                <5>2. PICK i \in 1..day : fills[j].date = TradeDates[i]
                    BY <4>1 DEF ClosingInv, DatesPast
                <5>3. i \in 1..day'
                    BY <2>1, <2>2
                <5> QED  BY <5>1, <5>2, <5>3
            <4>2. CASE j \notin 1..Len(fills)
                <5>1. j - Len(fills) \in 1..Len(t) /\ fills'[j] = t[j - Len(fills)]
                    BY <2>11, <4>2
                <5>2. n \in 1..day'
                    BY <2>1, <2>2, <2>3
                <5> QED  BY <2>7, <2>11, <5>1, <5>2
            <4> QED  BY <4>1, <4>2
        <3> QED  BY <2>12, <3>1, <3>2 DEF DatesPast
    <2>15. CarryInv'
        BY <2>1, DateKeeps, CarryAssumption DEF ClosingInv
    <2>16. RowsSaved'
        BY <1>2, DateSavesRows DEF ClosingInv
    <2>17. day' <= Len(TradeDates)
        BY <2>1, <2>2
    <2>18. ASSUME NEW k \in Keys
           PROVE  HeldNow(k)' /\ \A i \in 1..n : HeldFollows(i, k)'
        BY <2>1, <2>2, <2>3, <2>6, <2>8, HeldGrows
    <2>19. ASSUME NEW i \in 1..day', NEW k \in Keys
           PROVE  RunSaved(fills', closing'[i], k) /\ HeldFollows(i, k)'
        <3>1. i \in 1..n
            BY <2>2, <2>3
        <3>2. HeldFollows(i, k)'
            BY <2>18, <3>1
        <3>3. CASE i \in 1..day
            <4>1. RunSaved(fills \o t, closing[i], k)
                BY <2>1, <2>11, <3>3, EarlierStay
            <4> QED  BY <2>11, <2>12, <3>2, <3>3, <4>1
        <3>4. CASE i = n
            <4>1. RunSaved(fills \o t, c, k)
                BY <2>1, <2>8, <2>10, LatestSaved
            <4> QED  BY <2>11, <2>12, <3>2, <3>4, <4>1
        <3> QED  BY <2>13, <3>3, <3>4
    <2> QED  BY <2>14, <2>15, <2>16, <2>17, <2>18, <2>19 DEF ClosingInv
<1> QED  BY <1>1, <1>2

LEMMA ClosingHolds == PSpec => []ClosingInv
BY ClosingStarts, ClosingKeeps, PTL DEF PSpec

-----------------------------------------------------------------------------
\* Lots and positions, date by date.

\* What a pair holds after a date is covered by what it held before and the lots
\* of the date.
LEMMA DateIsBracketed ==
    ASSUME ClosingInv, NEW i \in 1..day, NEW k \in Keys
    PROVE  /\ Len(RunLots(i, k)) \in Nat /\ Long(closing[i].held[k]) \in Nat
           /\ Long(closing[i].held[k]) <= HeldBefore(i, k) + Len(RunLots(i, k))
           /\ k \in closing[i].ran =>
                Bracketed(RunLots(i, k), fills, <<closing[i].date, k>>, closing[i].began[k], closing[i].ended[k])
<1> DEFINE c == closing[i]
           r == <<c.date, k>>
           lots == OpenEntryLots(fills, r)
<1>1. fills \in Seq(FillRows) /\ RunSaved(fills, c, k) /\ HeldFollows(i, k)
    BY DEF ClosingInv, RowsSaved
<1>2. RunLots(i, k) = lots
    BY DEF RunLots
<1>3. Len(lots) \in Nat
    <2>1. PICK f : LotsGo(f, fills, r) /\ lots = f[Len(fills)]
        BY <1>1, LotsAreStepped
    <2>2. Len(fills) \in 0..Len(fills)
        BY <1>1
    <2>3. f[Len(fills)] \in Seq(Nat)
        BY <2>1, <2>2 DEF LotsGo
    <2> QED  BY <2>1, <2>3
<1>4. HeldBefore(i, k) \in Nat
    <2>1. CASE i = 1
        BY <2>1 DEF HeldBefore
    <2>2. CASE i # 1
        <3>1. i - 1 \in 1..day
            BY <2>2 DEF ClosingInv, CarryInv
        <3> QED  BY <2>2, <3>1 DEF ClosingInv, HeldFollows, HeldBefore
    <2> QED  BY <2>1, <2>2
<1>5. Long(c.held[k]) \in Nat
    BY <1>1 DEF HeldFollows
<1>6. CASE k \in c.ran
    <2>1. PICK b, s : /\ s \in Seq(Orders) /\ RunAt(fills, r, b, s)
                      /\ c.began[k] \in Whole /\ CanFill(c.began[k], s) /\ c.ended[k] = After(c.began[k], s)
        BY <1>1, <1>6 DEF RunSaved
    <2> HIDE DEF lots, c
    <2>2. Bracketed(lots, fills, r, c.began[k], c.ended[k])
        BY <1>1, <2>1, LotsAreBracketed DEF lots
    <2>3. Long(c.began[k]) <= HeldBefore(i, k) /\ Long(c.held[k]) <= Long(c.ended[k])
        BY <1>1, <1>6 DEF HeldFollows, c
    <2>4. Long(c.ended[k]) <= Long(c.began[k]) + Len(lots)
        BY <2>2 DEF Bracketed
    <2>5. Long(c.began[k]) \in Nat /\ Long(c.ended[k]) \in Nat
        <3>1. PICK g : Filled(g, c.began[k], s)
            BY <2>1, RunIsFilled
        <3>2. Len(s) \in 0..Len(s)
            BY <2>1
        <3>3. c.ended[k] \in Whole
            BY <2>1, <3>1, <3>2 DEF Filled
        <3> QED  BY <2>1, <3>3, LongIsNatural
    <2>6. Long(c.held[k]) <= HeldBefore(i, k) + Len(lots)
        BY <1>3, <1>4, <1>5, <2>3, <2>4, <2>5
    <2> QED  BY <1>2, <1>3, <1>5, <2>2, <2>6 DEF c
<1>7. CASE k \notin c.ran
    <2>1. Long(c.held[k]) <= HeldBefore(i, k)
        BY <1>1, <1>7 DEF HeldFollows
    <2> HIDE DEF lots
    <2>2. Long(c.held[k]) <= HeldBefore(i, k) + Len(lots)
        BY <1>3, <1>4, <1>5, <2>1
    <2> QED  BY <1>2, <1>3, <1>5, <1>7, <2>2
<1> QED  BY <1>6, <1>7

\* Hence what is held is covered by the lots of all dates so far.
LEMMA LotsAddUp ==
    ASSUME ClosingInv, NEW k \in Keys, NEW i \in 1..day
    PROVE  Long(closing[i].held[k]) <= SumTo([j \in 1..i |-> Len(RunLots(j, k))], i)
<1> DEFINE lots == [j \in 1..day |-> Len(RunLots(j, k))]
           S == {m \in Nat : m \in 1..day => Long(closing[m].held[k]) <= SumTo(lots, m)}
<1>1. day \in Nat /\ i \in Nat
    BY DEF ClosingInv, CarryInv
<1>2. \A j \in 1..day : lots[j] \in Nat
    BY DateIsBracketed
<1>3. 0 \in S
    OBVIOUS
<1>4. \A m \in Nat : m \in S => m + 1 \in S
    <2> SUFFICES ASSUME NEW m \in Nat, m \in S, m + 1 \in 1..day
                 PROVE  Long(closing[m + 1].held[k]) <= SumTo(lots, m + 1)
        <3> HIDE DEF lots
        <3> QED  OBVIOUS
    <2>1. SumTo(lots, m + 1) = SumTo(lots, m) + lots[m + 1]
        <3> HIDE DEF lots
        <3> QED  BY SumOneMore
    <2>2. SumTo(lots, m) \in Int
        <3>1. \A j \in 1..m : lots[j] \in Int
            <4> HIDE DEF lots
            <4> QED  BY <1>1, <1>2
        <3> HIDE DEF lots
        <3> QED  BY <3>1, SumIsInt
    <2>3. /\ Long(closing[m + 1].held[k]) <= HeldBefore(m + 1, k) + Len(RunLots(m + 1, k))
          /\ Long(closing[m + 1].held[k]) \in Nat /\ Len(RunLots(m + 1, k)) \in Nat
        BY DateIsBracketed
    <2>4. lots[m + 1] = Len(RunLots(m + 1, k))
        OBVIOUS
    <2>5. HeldBefore(m + 1, k) <= SumTo(lots, m) /\ HeldBefore(m + 1, k) \in Nat
        <3>1. CASE m = 0
            <4>1. SumTo(lots, 0) = 0
                <5> HIDE DEF lots
                <5> QED  BY SumNothing
            <4> HIDE DEF lots
            <4> QED  BY <3>1, <4>1 DEF HeldBefore
        <3>2. CASE m # 0
            <4>1. m \in 1..day /\ m + 1 # 1 /\ (m + 1) - 1 = m
                BY <1>1, <3>2
            <4>2. Long(closing[m].held[k]) <= SumTo(lots, m)
                <5> HIDE DEF lots
                <5> QED  BY <4>1
            <4>3. Long(closing[m].held[k]) \in Nat
                BY <4>1, DateIsBracketed
            <4> HIDE DEF lots
            <4> QED  BY <4>1, <4>2, <4>3 DEF HeldBefore
        <3> QED  BY <3>1, <3>2
    <2> HIDE DEF lots
    <2> QED  BY <2>1, <2>2, <2>3, <2>4, <2>5
<1>5. i \in S
    <2> HIDE DEF S
    <2> QED  BY <1>1, <1>3, <1>4, Induction
<1>6. SumTo([j \in 1..i |-> Len(RunLots(j, k))], i) = SumTo(lots, i)
    <2> DEFINE few == [j \in 1..i |-> Len(RunLots(j, k))]
    <2>1. \A j \in 1..i : few[j] = lots[j]
        <3>1. \A j \in 1..i : j \in 1..day
            BY <1>1
        <3> QED  BY <3>1
    <2> HIDE DEF few, lots
    <2>2. SumTo(few, i) = SumTo(lots, i)
        BY <1>1, <2>1, SumsEqual
    <2> QED  BY <2>2 DEF few
<1> HIDE DEF lots
<1> QED  BY <1>5, <1>6, Zenon

\* A run that starts flat leaves open exactly its newest entries, as many as it
\* holds; one that starts from a carried position never shows more than it holds;
\* over all dates the report never shows less than is still held.
THEOREM OpenLotsAreBracketed == PSpec => []OpenLotsBracketHeld
<1>1. ClosingInv => OpenLotsBracketHeld
    <2> SUFFICES ASSUME ClosingInv, NEW i \in DOMAIN closing, NEW k \in Keys
                 PROVE  LET c == closing[i]
                            lots == RunLots(i, k)
                        IN  /\ k \in c.ran => Len(lots) <= Long(c.ended[k])
                            /\ k \in c.ran /\ c.began[k] = Flat =>
                                 /\ Len(lots) = Long(c.ended[k]) /\ Newest(lots, RunOrders(i, k, "LONG"))
                                 /\ RunOrders(i, k, "SHORT") = {} => OpenPairs(fills, <<c.date, k>>) = Len(lots)
                            /\ Long(c.held[k]) <= SumTo([j \in 1..i |-> Len(RunLots(j, k))], i)
        BY Zenon DEF OpenLotsBracketHeld
    <2>1. i \in 1..day
        BY DEF ClosingInv, DatesPast
    <2>2. Long(closing[i].held[k]) <= SumTo([j \in 1..i |-> Len(RunLots(j, k))], i)
        BY <2>1, LotsAddUp
    <2>3. k \in closing[i].ran =>
            Bracketed(RunLots(i, k), fills, <<closing[i].date, k>>, closing[i].began[k], closing[i].ended[k])
        BY <2>1, DateIsBracketed
    <2> QED  BY <2>2, <2>3, Zenon DEF Bracketed, RunOrders
<1> QED  BY <1>1, ClosingHolds, PTL
=============================================================================
