--------------------------- MODULE SeedBootProofs ---------------------------
(***************************************************************************)
(* Theorems about SeedBoot, for any number of processes and releases, any   *)
(* YAML and any sequence of crashes, edits and deletions.                   *)
(***************************************************************************)
EXTENDS SeedBoot, TLAPS

\* The row that a process writes next, as a function of what it has to do.
NextRow(S) == CHOOSE i \in S : \A j \in S : KindOf(i) <= KindOf(j)

\* The types, with the domain of proc.
BootTypes == TypeOK /\ proc \in [Procs -> Proc]

\* Without the scenario there is none of its rows, and a vehicle is never moved.
RowsNeedMain ==
  /\ ~db[Main].there => \A i \in Items : ~db[i].there
  /\ \A i \in Vehicles : db[i].there => db[i].home

\* How the fields of a process hang together.
ProcOK(s) ==
  /\ s.pc = "down" => ~s.quiet /\ ~s.settled /\ s.wrote = {}
  /\ s.pc # "down" => s.release \in Releases
  /\ s.pc \in {"list", "row", "link"} => s.kind \in 1..6
  /\ s.pc \in {"row", "link"} => s.todo # {} /\ s.todo \subseteq Embedded(s.release, Items)
  /\ s.pc = "link" => NextRow(s.todo) \in Services
  /\ "entry" \in s.wrote => s.pc = "serving"

\* Row i is as the release of the process has it.
Right(s, i) == db[i].there /\ db[i].home /\ db[i].body = Yaml[s.release][i].body

\* What is right among the rows while they are written one by one, the ones to
\* be written last being those of the kind that was listed last.
RowsSoFar(s) ==
  /\ \A i \in Embedded(s.release, Items) : KindOf(i) <= s.kind /\ i \notin s.todo => Right(s, i)
  /\ \A i \in s.todo \cap s.missing \cap Vehicles : ~db[i].there

\* What a boot that nobody disturbs has achieved at each of its steps ...
RowsDone(s) ==
  /\ s.pc \in {"row", "link"} /\ s.then = "compile" => RowsSoFar(s)
  /\ s.pc = "link" /\ s.then = "compile" => Right(s, NextRow(s.todo))
  /\ s.pc = "list" /\ s.then = "compile" =>
       \A i \in Embedded(s.release, Items) : KindOf(i) < s.kind => Right(s, i)
  /\ s.pc \in {"compile", "record", "prerender", "insert entry", "serving"} =>
       \A i \in Embedded(s.release, Items) : Right(s, i)

\* ... with the rows and with what is derived from them.
Derived(s) ==
  /\ s.pc = "record" => s.graph = Compiled
  /\ s.pc \in {"prerender", "insert entry", "serving"} => graph = Compiled
  /\ s.pc = "insert entry" => s.ids = Members
  /\ "entry" \in s.wrote => ~Outdated

OnCourse(s) == s.quiet /\ Main \notin taken => RowsDone(s) /\ Derived(s)

\* A boot that found the database settled still does, and is at no step that writes.
NothingToDo(s) == s.settled /\ s.quiet =>
  /\ s.wrote = {} /\ Settled(s.release)
  /\ s.pc \in {"reconcile", "list", "compile", "prerender", "serving"}

BootOK(s) == ProcOK(s) /\ OnCourse(s) /\ NothingToDo(s)

\* Every service has its link, has lost it to a crash, or is about to be linked.
Linking(v) == \E p \in Procs : proc[p].pc = "link" /\ NextRow(proc[p].todo) = v
ServicesLinked == \A v \in Services : db[v].there => v \in links \cup cut \/ Linking(v)

SeedInv ==
  /\ BootTypes /\ RowsNeedMain /\ ServicesLinked
  /\ \A p \in Procs : BootOK(proc[p])

----------------------------------------------------------------------------
(* Lemmas about the operators. *)

\* There are six kinds, and every row has one.
LEMMA KindsFacts ==
  /\ Len(Kinds) = 6
  /\ \A k \in 1..6 : Kinds[k] \subseteq Items
  /\ \A i \in Items : KindOf(i) \in 1..6 /\ i \in Kinds[KindOf(i)]
<1>1. Len(Kinds) = 6 /\ DOMAIN Kinds = 1..6
  BY DEF Kinds
<1>2. \A k \in 1..6 : Kinds[k] \subseteq Items
  BY DEF Kinds, Items
<1>3. ASSUME NEW i \in Items PROVE \E k \in 1..6 : i \in Kinds[k]
  BY DEF Kinds, Items
<1> QED
  BY <1>1, <1>2, <1>3 DEF KindOf

\* Something to do has a first row.
LEMMA NextRowFacts ==
  ASSUME NEW S \in SUBSET Items, S # {}
  PROVE  NextRow(S) \in S
<1>1. \A i \in S : KindOf(i) \in 1..6
  BY KindsFacts
<1>2. \E i \in S : \A j \in S : KindOf(i) <= KindOf(j)
  <2> SUFFICES ASSUME \A i \in S : \E j \in S : KindOf(j) < KindOf(i) PROVE FALSE
    BY <1>1
  <2>1. \A i \in S : KindOf(i) \in 2..6
    BY <1>1
  <2>2. \A i \in S : KindOf(i) \in 3..6
    BY <2>1
  <2>3. \A i \in S : KindOf(i) \in 4..6
    BY <2>2
  <2>4. \A i \in S : KindOf(i) \in 5..6
    BY <2>3
  <2>5. \A i \in S : KindOf(i) \in 6..6
    BY <2>4
  <2> QED
    BY <2>5
<1> QED
  BY <1>2 DEF NextRow

\* The fields of a process.
LEMMA ProcFields ==
  ASSUME NEW s \in Proc
  PROVE  /\ s.pc \in Steps /\ s.then \in {"reconcile", "compile"}
         /\ s.kind \in Nat /\ s.todo \in SUBSET Items /\ s.missing \in SUBSET Items
         /\ s.quiet \in BOOLEAN /\ s.settled \in BOOLEAN
         /\ s.wrote \in SUBSET {"row", "graph", "entry"}
         /\ s.graph \in Graph \cup {None} /\ s.ids \in SUBSET Services
BY DEF Proc

\* A row of the YAML has a content.
LEMMA YamlFacts ==
  ASSUME NEW v \in Releases, NEW i \in Embedded(v, Items)
  PROVE  /\ Yaml[v][i] \in Content /\ i \in Items
         /\ Yaml[v][i].body \in Nat /\ Yaml[v][i].provenance \in Nat
BY SeedBootAssumption DEF Embedded, Content

LEMMA CompiledType == ASSUME db \in [Items -> Row] PROVE Compiled \in Graph
<1>1. \A i \in Items : db[i].body + 1 \in Nat
  BY DEF Row
<1> QED
  BY <1>1 DEF Compiled, Graph

----------------------------------------------------------------------------
(* Processes. *)

\* A process that is down, and one that was disturbed, rely on nothing.
LEMMA DownOK == Down \in Proc /\ BootOK(Down)'
<1>1. Down \in Proc
  BY DEF Down, Proc, Steps
<1>2. /\ Down.pc = "down" /\ Down.quiet = FALSE /\ Down.settled = FALSE /\ Down.wrote = {}
  BY DEF Down
<1> QED
  BY <1>1, <1>2 DEF BootOK, ProcOK, OnCourse, NothingToDo

LEMMA DisturbedOK ==
  ASSUME NEW s \in Proc, ProcOK(s), NEW d, d = [s EXCEPT !.quiet = FALSE]
  PROVE  d \in Proc /\ BootOK(d)' /\ d.pc = s.pc /\ d.todo = s.todo
<1>1. d \in Proc
  BY DEF Proc
<1>2. /\ d.pc = s.pc /\ d.release = s.release /\ d.kind = s.kind /\ d.todo = s.todo
      /\ d.quiet = FALSE /\ d.settled = s.settled /\ d.wrote = s.wrote
  BY DEF Proc
<1> QED
  BY <1>1, <1>2 DEF BootOK, ProcOK, OnCourse, NothingToDo

\* While nobody writes, a process keeps what it has.
LEMMA UndisturbedOK ==
  ASSUME NEW s \in Proc, BootOK(s), UNCHANGED tables
  PROVE  BootOK(s)'
<1> USE DEF tables
<1>1. Compiled' = Compiled /\ Members' = Members /\ (Outdated' <=> Outdated)
  BY DEF Compiled, Listed, Members, Outdated
<1>2. \A i : Right(s, i)' <=> Right(s, i)
  BY DEF Right
<1>3. RowsDone(s) => RowsDone(s)'
  BY <1>2 DEF RowsDone, RowsSoFar
<1>4. Derived(s) => Derived(s)'
  BY <1>1 DEF Derived
<1>5. Settled(s.release) => Settled(s.release)'
  BY <1>1 DEF Settled
<1> QED
  BY <1>3, <1>4, <1>5 DEF BootOK, ProcOK, OnCourse, NothingToDo

\* One process goes on, and the others wait.
LEMMA ReadOK ==
  ASSUME SeedInv, NEW p \in Procs, NEW s \in Proc, Read(p, s), UNCHANGED tables, BootOK(s)'
  PROVE  /\ proc' \in [Procs -> Proc] /\ proc'[p] = s
         /\ \A q \in Procs \ {p} : proc'[q] = proc[q]
         /\ \A q \in Procs : BootOK(proc[q])'
<1>1. /\ proc' \in [Procs -> Proc] /\ proc'[p] = s
      /\ \A q \in Procs \ {p} : proc'[q] = proc[q]
  BY DEF SeedInv, BootTypes, Read
<1>2. ASSUME NEW q \in Procs PROVE BootOK(proc[q])'
  <2>1. PICK c \in Proc : c = proc'[q]
    BY <1>1
  <2>2. BootOK(c)'
    <3>1. CASE q = p
      BY <1>1, <2>1, <3>1
    <3>2. CASE q # p
      <4>1. c = proc[q]
        BY <1>1, <2>1, <3>2
      <4>2. BootOK(c)
        BY <4>1 DEF SeedInv
      <4> QED
        BY <4>2, UndisturbedOK
    <3> QED
      BY <3>1, <3>2
  <2> QED
    BY <2>1, <2>2, ZenonT(60)
    DEF BootOK, ProcOK, OnCourse, NothingToDo, RowsDone, RowsSoFar, Right, Derived
<1> QED
  BY <1>1, <1>2

\* One process writes, and the others are disturbed.
LEMMA WroteOK ==
  ASSUME SeedInv, NEW p \in Procs, NEW s \in Proc, BootOK(s)',
         proc' = [q \in Procs |-> IF q = p THEN s ELSE [proc[q] EXCEPT !.quiet = FALSE]]
  PROVE  /\ proc' \in [Procs -> Proc] /\ proc'[p] = s
         /\ \A q \in Procs \ {p} : proc'[q].pc = proc[q].pc /\ proc'[q].todo = proc[q].todo
         /\ \A q \in Procs : BootOK(proc[q])'
<1>1. ASSUME NEW q \in Procs, q # p
      PROVE  /\ proc'[q] = [proc[q] EXCEPT !.quiet = FALSE]
             /\ proc'[q] \in Proc /\ proc'[q].pc = proc[q].pc /\ proc'[q].todo = proc[q].todo
             /\ \E d \in Proc : d = proc'[q] /\ BootOK(d)'
  <2>1. PICK c \in Proc : c = proc[q] /\ ProcOK(c)
    BY DEF SeedInv, BootTypes, BootOK
  <2>2. PICK d : d = [c EXCEPT !.quiet = FALSE]
    OBVIOUS
  <2>3. d \in Proc /\ BootOK(d)' /\ d.pc = c.pc /\ d.todo = c.todo
    BY <2>1, <2>2, DisturbedOK
  <2>4. proc'[q] = d
    BY <1>1, <2>1, <2>2
  <2> QED
    BY <2>1, <2>2, <2>3, <2>4
<1>2. proc'[p] = s
  OBVIOUS
<1>3. proc' \in [Procs -> Proc]
  <2>1. \A q \in Procs : proc'[q] \in Proc
    BY <1>1, <1>2
  <2> QED
    BY <2>1
<1>4. ASSUME NEW q \in Procs PROVE BootOK(proc[q])'
  <2>1. PICK d \in Proc : d = proc'[q] /\ BootOK(d)'
    BY <1>1, <1>2
  <2> QED
    BY <2>1, ZenonT(60)
    DEF BootOK, ProcOK, OnCourse, NothingToDo, RowsDone, RowsSoFar, Right, Derived
<1> QED
  BY <1>1, <1>2, <1>3, <1>4

\* An administrator or a user writes, and all are disturbed.
LEMMA EditOK ==
  ASSUME SeedInv, Edit
  PROVE  /\ proc' \in [Procs -> Proc]
         /\ \A q \in Procs : proc'[q].pc = proc[q].pc /\ proc'[q].todo = proc[q].todo
         /\ \A q \in Procs : BootOK(proc[q])'
<1>1. ASSUME NEW q \in Procs
      PROVE  /\ proc'[q] \in Proc /\ proc'[q].pc = proc[q].pc /\ proc'[q].todo = proc[q].todo
             /\ \E d \in Proc : d = proc'[q] /\ BootOK(d)'
  <2>1. PICK c \in Proc : c = proc[q] /\ ProcOK(c)
    BY DEF SeedInv, BootTypes, BootOK
  <2>2. PICK d : d = [c EXCEPT !.quiet = FALSE]
    OBVIOUS
  <2>3. d \in Proc /\ BootOK(d)' /\ d.pc = c.pc /\ d.todo = c.todo
    BY <2>1, <2>2, DisturbedOK
  <2>4. proc'[q] = d
    BY <1>1, <2>1, <2>2 DEF Edit
  <2> QED
    BY <2>1, <2>2, <2>3, <2>4
<1>2. proc' \in [Procs -> Proc]
  BY <1>1 DEF Edit
<1>3. ASSUME NEW q \in Procs PROVE BootOK(proc[q])'
  <2>1. PICK d \in Proc : d = proc'[q] /\ BootOK(d)'
    BY <1>1
  <2> QED
    BY <2>1, ZenonT(60)
    DEF BootOK, ProcOK, OnCourse, NothingToDo, RowsDone, RowsSoFar, Right, Derived
<1> QED
  BY <1>1, <1>2, <1>3

\* A service keeps its link, or the promise of one.
LEMMA LinksKept ==
  ASSUME ServicesLinked,
         \A v \in Services : db'[v].there /\ v \in links \cup cut => v \in links' \cup cut',
         \A v \in Services : db'[v].there => db[v].there \/ Linking(v)',
         \A q \in Procs : proc[q].pc = "link" =>
           \/ proc'[q].pc = "link" /\ proc'[q].todo = proc[q].todo
           \/ NextRow(proc[q].todo) \in links' \cup cut'
           \/ ~db'[NextRow(proc[q].todo)].there
  PROVE  ServicesLinked'
<1> SUFFICES ASSUME NEW v \in Services, db'[v].there, ~Linking(v)', db[v].there,
                    v \notin links \cup cut
             PROVE  v \in links' \cup cut'
  BY DEF ServicesLinked
<1>1. PICK p \in Procs : proc[p].pc = "link" /\ NextRow(proc[p].todo) = v
  BY DEF ServicesLinked, Linking
<1>2. CASE proc'[p].pc = "link" /\ proc'[p].todo = proc[p].todo
  BY <1>1, <1>2 DEF Linking
<1> QED
  BY <1>1, <1>2

\* What a process has between two rows, before it lists a kind, and when it writes.
BetweenRows(s) ==
  /\ s.quiet /\ Main \notin taken /\ s.then = "compile" => RowsSoFar(s)
  /\ s.settled /\ s.quiet => s.wrote = {} /\ Settled(s.release) /\ s.todo = {}
BeforeKind(s, k) ==
  /\ s.quiet /\ Main \notin taken /\ s.then = "compile" =>
       \A i \in Embedded(s.release, Items) : KindOf(i) < k => Right(s, i)
  /\ s.settled /\ s.quiet => s.wrote = {} /\ Settled(s.release)
Unsettled(s) == ~(s.settled /\ s.quiet)

\* A process that goes on after its rows has what the next step relies on.
LEMMA AdvanceOK ==
  ASSUME NEW s \in Proc, s.release \in Releases, s.kind \in 1..6,
         s.todo \subseteq Embedded(s.release, Items), "entry" \notin s.wrote,
         BetweenRows(s)', NEW n, n = Advance(s)
  PROVE  /\ n \in Proc /\ BootOK(n)' /\ n.pc \notin {"link", "down"}
         /\ n.settled = s.settled /\ n.quiet = s.quiet
<1>0. s.then \in {"reconcile", "compile"} /\ s.then \in Steps
  BY DEF Proc, Steps
<1>1. CASE s.todo # {}
  <2>1. n = [s EXCEPT !.pc = "row"]
    BY <1>1 DEF Advance
  <2>2. /\ n \in Proc /\ n.pc = "row" /\ n.release = s.release /\ n.kind = s.kind
        /\ n.todo = s.todo /\ n.missing = s.missing /\ n.then = s.then /\ n.quiet = s.quiet
        /\ n.settled = s.settled /\ n.wrote = s.wrote
    BY <2>1 DEF Proc, Steps
  <2>3. ProcOK(n)
    BY <1>1, <2>2 DEF ProcOK
  <2>4. OnCourse(n)'
    BY <2>2 DEF BetweenRows, OnCourse, RowsDone, RowsSoFar, Right, Derived
  <2>5. ~(n.settled /\ n.quiet)
    BY <1>1, <2>2 DEF BetweenRows
  <2> QED
    BY <2>2, <2>3, <2>4, <2>5 DEF BootOK, ProcOK, NothingToDo
<1>2. CASE s.todo = {} /\ s.kind < 6
  <2>1. n = [s EXCEPT !.pc = "list", !.kind = @ + 1]
    BY <1>2, KindsFacts DEF Advance
  <2>2. /\ n \in Proc /\ n.pc = "list" /\ n.release = s.release /\ n.kind = s.kind + 1
        /\ n.todo = s.todo /\ n.missing = s.missing /\ n.then = s.then /\ n.quiet = s.quiet
        /\ n.settled = s.settled /\ n.wrote = s.wrote
    <3>1. PICK k \in Nat : k = s.kind + 1
      OBVIOUS
    <3>2. n = [s EXCEPT !.pc = "list", !.kind = k]
      BY <2>1, <3>1
    <3> QED
      BY <3>1, <3>2 DEF Proc, Steps
  <2>3. ProcOK(n)
    BY <1>2, <2>2 DEF ProcOK
  <2>4. OnCourse(n)'
    <3> SUFFICES ASSUME n.quiet, Main \notin taken' PROVE RowsDone(n)' /\ Derived(n)'
      BY DEF OnCourse
    <3>1. s.then = "compile" =>
            \A i \in Embedded(n.release, Items) : KindOf(i) < n.kind => Right(n, i)'
      <4> SUFFICES ASSUME s.then = "compile", NEW i \in Embedded(n.release, Items),
                          KindOf(i) < n.kind
                   PROVE  Right(n, i)'
        OBVIOUS
      <4>1. KindOf(i) <= s.kind
        BY <2>2, KindsFacts DEF Embedded
      <4> QED
        BY <1>2, <2>2, <4>1 DEF BetweenRows, RowsSoFar, Right
    <3> QED
      BY <2>2, <3>1 DEF RowsDone, Derived
  <2>5. NothingToDo(n)'
    BY <2>2 DEF BetweenRows, NothingToDo, Settled
  <2> QED
    BY <2>2, <2>3, <2>4, <2>5 DEF BootOK, ProcOK
<1>3. CASE s.todo = {} /\ s.kind = 6
  <2>1. n = [s EXCEPT !.pc = s.then, !.kind = 0, !.missing = {}]
    BY <1>3, KindsFacts DEF Advance
  <2>2. /\ n \in Proc /\ n.pc = s.then /\ n.release = s.release
        /\ n.todo = s.todo /\ n.then = s.then /\ n.quiet = s.quiet
        /\ n.settled = s.settled /\ n.wrote = s.wrote
    <3>1. PICK l \in Steps : l = s.then
      BY <1>0
    <3>2. PICK k \in Nat : k = 0
      OBVIOUS
    <3>3. n = [s EXCEPT !.pc = l, !.kind = k, !.missing = {}]
      BY <2>1, <3>1, <3>2
    <3> QED
      BY <3>1, <3>3 DEF Proc
  <2>3. ProcOK(n)
    BY <1>0, <1>3, <2>2 DEF ProcOK
  <2>4. OnCourse(n)'
    <3> SUFFICES ASSUME n.quiet, Main \notin taken' PROVE RowsDone(n)' /\ Derived(n)'
      BY DEF OnCourse
    <3>1. s.then = "compile" => \A i \in Embedded(n.release, Items) : Right(n, i)'
      <4> SUFFICES ASSUME s.then = "compile", NEW i \in Embedded(n.release, Items)
                   PROVE  Right(n, i)'
        OBVIOUS
      <4>1. KindOf(i) <= s.kind
        BY <1>3, <2>2, KindsFacts DEF Embedded
      <4> QED
        BY <1>3, <2>2, <4>1 DEF BetweenRows, RowsSoFar, Right
    <3> QED
      BY <1>0, <2>2, <3>1 DEF RowsDone, Derived
  <2>5. NothingToDo(n)'
    BY <1>0, <1>3, <2>2 DEF BetweenRows, NothingToDo, Settled
  <2> QED
    BY <1>0, <2>2, <2>3, <2>4, <2>5 DEF BootOK, ProcOK
<1> QED
  BY <1>0, <1>1, <1>2, <1>3

\* Rows that are not to be written after a listing are right.
LEMMA ListingOK ==
  ASSUME BootTypes, RowsNeedMain, UNCHANGED tables,
         NEW s \in Proc, s.release \in Releases, "entry" \notin s.wrote, NEW k \in 1..6,
         BeforeKind(s, k), NEW n, n = Listing(s, k)
  PROVE  n \in Proc /\ BootOK(n)' /\ n.pc \notin {"link", "down"}
<1> DEFINE rows == Embedded(s.release, Kinds[k])
           gone == {i \in rows : ~Listed(i).there}
           todo == gone \cup {i \in rows \ gone : ~Same(db[i], Yaml[s.release][i])}
<1>1. PICK m : m = [s EXCEPT !.kind = k, !.missing = gone, !.todo = todo]
  OBVIOUS
<1>2. n = Advance(m)
  BY <1>1 DEF Listing
<1>3. rows \subseteq Embedded(s.release, Items)
  BY KindsFacts DEF Embedded
<1>4. gone \subseteq Items /\ todo \subseteq Items /\ todo \subseteq Embedded(s.release, Items)
  BY <1>3 DEF Embedded
<1>5. /\ m \in Proc /\ m.pc = s.pc /\ m.release = s.release /\ m.kind = k
      /\ m.todo = todo /\ m.missing = gone /\ m.then = s.then /\ m.quiet = s.quiet
      /\ m.settled = s.settled /\ m.wrote = s.wrote
  <2>1. k \in Nat
    OBVIOUS
  <2> HIDE DEF rows, gone, todo
  <2> QED
    BY <1>1, <1>4, <2>1 DEF Proc
<1>6. ASSUME m.quiet, Main \notin taken', m.then = "compile" PROVE RowsSoFar(m)'
  <2>1. Main \notin taken
    BY <1>6 DEF tables
  <2>2. ASSUME NEW i \in Embedded(s.release, Items), KindOf(i) <= k, i \notin todo
        PROVE  Right(m, i)'
    <3>1. CASE KindOf(i) < k
      BY <1>5, <1>6, <2>1, <2>2, <3>1 DEF BeforeKind, Right, tables
    <3>2. CASE KindOf(i) = k
      <4>1. i \in rows
        BY <3>2, KindsFacts DEF Embedded
      <4>2. Listed(i).there /\ Same(db[i], Yaml[s.release][i])
        BY <2>2, <4>1
      <4>3. db[i].home /\ db[i].there
        BY <4>2 DEF Listed, Absent
      <4> QED
        BY <1>5, <4>2, <4>3 DEF Same, Right, tables
    <3>3. KindOf(i) < k \/ KindOf(i) = k
      BY <2>2, KindsFacts DEF Embedded
    <3> QED
      BY <3>1, <3>2, <3>3
  <2>3. \A i \in gone \cap Vehicles : ~db'[i].there
    BY DEF Listed, Absent, RowsNeedMain, tables
  <2> QED
    BY <1>5, <2>2, <2>3 DEF RowsSoFar
<1>7. ASSUME m.settled, m.quiet PROVE m.wrote = {} /\ Settled(m.release)' /\ m.todo = {}
  <2>1. Settled(s.release) /\ m.wrote = {}
    BY <1>5, <1>7 DEF BeforeKind
  <2>2. Settled(m.release)'
    BY <1>5, <2>1 DEF Settled, tables, Compiled, Listed
  <2>3. ASSUME NEW i \in rows PROVE Listed(i).there /\ Same(db[i], Yaml[s.release][i])
    <3>1. db[i] = [there |-> TRUE, home |-> TRUE, body |-> Yaml[s.release][i].body,
                   provenance |-> Yaml[s.release][i].provenance]
      BY <1>3, <2>1 DEF Settled, Embedded
    <3> QED
      BY <3>1 DEF Listed, Same
  <2> QED
    BY <1>5, <2>1, <2>2, <2>3
<1>8. BetweenRows(m)'
  BY <1>6, <1>7 DEF BetweenRows
<1> HIDE DEF rows, gone, todo
<1> QED
  BY <1>2, <1>4, <1>5, <1>8, AdvanceOK

\* A scenario that is not there is written as a whole.
LEMMA WriteAllOK ==
  ASSUME BootTypes, RowsNeedMain, UNCHANGED tables, ~db[Main].there,
         NEW s \in Proc, s.release \in Releases, "entry" \notin s.wrote, NothingToDo(s),
         NEW then \in {"reconcile", "compile"}, NEW n, n = WriteAll(s, then)
  PROVE  n \in Proc /\ BootOK(n)' /\ n.pc \notin {"link", "down"}
<1>1. PICK E : E = Embedded(s.release, Items)
  OBVIOUS
<1>2. E \subseteq Items /\ Main \in E
  BY <1>1, SeedBootAssumption DEF Embedded, Items
<1>3. n = [s EXCEPT !.pc = "row", !.kind = 6, !.then = then, !.todo = E, !.missing = E]
  BY <1>1, KindsFacts DEF WriteAll
<1>4. /\ n \in Proc /\ n.pc = "row" /\ n.release = s.release /\ n.kind = 6
      /\ n.todo = E /\ n.missing = E /\ n.quiet = s.quiet
      /\ n.settled = s.settled /\ n.wrote = s.wrote
  <2>1. PICK l \in Steps : l = "row"
    BY DEF Steps
  <2>2. PICK k \in Nat : k = 6
    OBVIOUS
  <2>3. n = [s EXCEPT !.pc = l, !.kind = k, !.then = then, !.todo = E, !.missing = E]
    BY <1>3, <2>1, <2>2
  <2>4. /\ n \in Proc /\ n.pc = l /\ n.release = s.release /\ n.kind = k
        /\ n.todo = E /\ n.missing = E /\ n.quiet = s.quiet
        /\ n.settled = s.settled /\ n.wrote = s.wrote
    BY <1>2, <2>3, ZenonT(60) DEF Proc
  <2> QED
    BY <2>1, <2>2, <2>4
<1>5. ProcOK(n)
  BY <1>1, <1>2, <1>4 DEF ProcOK
<1>6. OnCourse(n)'
  <2>1. RowsSoFar(n)'
    BY <1>1, <1>2, <1>4 DEF RowsSoFar, RowsNeedMain, tables
  <2> QED
    BY <1>4, <2>1 DEF OnCourse, RowsDone, Derived
<1>7. ~(n.settled /\ n.quiet)
  <2>1. ~Settled(s.release)
    <3>1. Main \in Items /\ Yaml[s.release][Main] # None
      BY <1>1, <1>2 DEF Embedded
    <3>2. Settled(s.release) =>
            db[Main] = [there |-> TRUE, home |-> TRUE, body |-> Yaml[s.release][Main].body,
                        provenance |-> Yaml[s.release][Main].provenance]
      BY <3>1 DEF Settled
    <3> QED
      BY <3>2
  <2> QED
    BY <1>4, <2>1 DEF NothingToDo
<1> QED
  BY <1>4, <1>5, <1>6, <1>7 DEF BootOK, ProcOK, NothingToDo

\* The history of a write.
LEMMA AlsoWroteOK ==
  ASSUME NEW n \in Proc, BootOK(n)', n.pc # "down", Unsettled(n),
         NEW w \in {"row", "graph"}, NEW m, m = [n EXCEPT !.wrote = @ \cup {w}]
  PROVE  m \in Proc /\ BootOK(m)' /\ m.pc = n.pc /\ m.todo = n.todo
<1>1. /\ m \in Proc /\ m.pc = n.pc /\ m.release = n.release /\ m.then = n.then
      /\ m.kind = n.kind /\ m.todo = n.todo /\ m.missing = n.missing
      /\ m.graph = n.graph /\ m.ids = n.ids /\ m.quiet = n.quiet
      /\ m.settled = n.settled /\ m.wrote = n.wrote \cup {w}
  BY DEF Proc
<1>2. "entry" \in m.wrote <=> "entry" \in n.wrote
  BY <1>1
<1>3. ProcOK(m)
  BY <1>1, <1>2 DEF BootOK, ProcOK
<1>4. OnCourse(m)'
  <2>1. \A i : Right(n, i)' <=> Right(m, i)'
    BY <1>1 DEF Right
  <2>2. RowsSoFar(n)' => RowsSoFar(m)'
    BY <1>1, <2>1 DEF RowsSoFar
  <2>3. RowsDone(n)' => RowsDone(m)'
    BY <1>1, <2>1, <2>2 DEF RowsDone
  <2>4. Derived(n)' => Derived(m)'
    BY <1>1, <1>2 DEF Derived
  <2> QED
    BY <1>1, <2>3, <2>4 DEF BootOK, OnCourse
<1> QED
  BY <1>1, <1>3, <1>4 DEF Unsettled, BootOK, ProcOK, NothingToDo

----------------------------------------------------------------------------
(* The steps that write nothing. *)

\* A process reads, or ends: what it was about to link is linked or cut.
LEMMA ReadInv ==
  ASSUME SeedInv, NEW p \in Procs, NEW s \in Proc, Read(p, s), UNCHANGED tables, BootOK(s)',
         events' \in 0..MaxEvents, cut \subseteq cut', cut' \subseteq Services,
         proc[p].pc = "link" => \/ NextRow(proc[p].todo) \in links \cup cut'
                                \/ ~db[NextRow(proc[p].todo)].there
  PROVE  SeedInv'
<1>1. /\ proc' \in [Procs -> Proc] /\ proc'[p] = s
      /\ \A q \in Procs \ {p} : proc'[q] = proc[q]
      /\ \A q \in Procs : BootOK(proc[q])'
  BY ReadOK
<1>2. BootTypes'
  BY <1>1 DEF SeedInv, BootTypes, TypeOK, tables
<1>3. RowsNeedMain'
  BY DEF SeedInv, RowsNeedMain, tables
<1>4. ServicesLinked'
  <2>1. db' = db /\ links' = links /\ ServicesLinked
    BY DEF SeedInv, tables
  <2>2. \A q \in Procs : proc[q].pc = "link" =>
           \/ proc'[q].pc = "link" /\ proc'[q].todo = proc[q].todo
           \/ NextRow(proc[q].todo) \in links' \cup cut'
           \/ ~db'[NextRow(proc[q].todo)].there
    BY <1>1, <2>1
  <2> QED
    BY <2>1, <2>2, LinksKept
<1> QED
  BY <1>1, <1>2, <1>3, <1>4 DEF SeedInv

\* The same for a process that is not about to link anything.
LEMMA ReadOnInv ==
  ASSUME SeedInv, NEW p \in Procs, proc[p].pc # "link", NEW s \in Proc, Read(p, s), BootOK(s)',
         UNCHANGED <<tables, cut>>, events' \in 0..MaxEvents
  PROVE  SeedInv'
<1>1. cut' = cut /\ cut \subseteq Services /\ UNCHANGED tables
  BY DEF SeedInv, BootTypes, TypeOK
<1> QED
  BY <1>1, ReadInv

\* The state of one process.
LEMMA OneProc ==
  ASSUME SeedInv, NEW p \in Procs
  PROVE  /\ BootTypes /\ RowsNeedMain /\ events \in 0..MaxEvents /\ cut \subseteq Services
         /\ \E s \in Proc : s = proc[p] /\ BootOK(s)
BY DEF SeedInv, BootTypes, TypeOK

LEMMA NoMainUnsettled ==
  ASSUME NEW v \in Releases, ~db[Main].there
  PROVE  ~Settled(v)
<1>1. Main \in Items /\ Yaml[v][Main] # None
  BY SeedBootAssumption DEF Items
<1>2. Settled(v) => db[Main] = [there |-> TRUE, home |-> TRUE, body |-> Yaml[v][Main].body,
                                provenance |-> Yaml[v][Main].provenance]
  BY <1>1 DEF Settled
<1> QED
  BY <1>2

\* A process is started.
LEMMA StartInv ==
  ASSUME SeedInv, NEW p \in Procs, Start(p)
  PROVE  SeedInv'
<1>1. PICK v \in Releases :
        LET s == [Down EXCEPT !.release = v, !.quiet = TRUE, !.settled = Settled(v)] IN
        /\ proc[p].pc = "down"
        /\ IF \E q \in Procs : proc[q].pc \notin {"down", "serving"} THEN Event ELSE UNCHANGED events
        /\ Read(p, IF HasCurated THEN [s EXCEPT !.pc = "reconcile"] ELSE WriteAll(s, "reconcile"))
        /\ UNCHANGED <<tables, cut>>
  BY DEF Start
<1>2. PICK b \in BOOLEAN : b = Settled(v)
  BY DEF Settled
<1>3. PICK s : s = [Down EXCEPT !.release = v, !.quiet = TRUE, !.settled = b]
  OBVIOUS
<1>4. /\ s \in Proc /\ s.pc = "down" /\ s.release = v /\ s.wrote = {} /\ s.quiet = TRUE
      /\ s.settled = b
  <2>1. Down \in Proc /\ Down.pc = "down" /\ Down.wrote = {}
    BY DownOK DEF Down
  <2> QED
    BY <1>3, <2>1 DEF Proc
<1>5. Read(p, IF HasCurated THEN [s EXCEPT !.pc = "reconcile"] ELSE WriteAll(s, "reconcile"))
  BY <1>1, <1>2, <1>3
<1>6. events' \in 0..MaxEvents
  BY <1>1, SeedBootAssumption DEF Event, SeedInv, BootTypes, TypeOK
<1>7. BootTypes /\ RowsNeedMain /\ UNCHANGED tables
  BY <1>1 DEF SeedInv
<1>8. CASE HasCurated
  <2>1. PICK n : n = [s EXCEPT !.pc = "reconcile"]
    OBVIOUS
  <2>2. /\ n \in Proc /\ n.pc = "reconcile" /\ n.release = v /\ n.wrote = {} /\ n.quiet = TRUE
        /\ n.settled = b
    BY <1>4, <2>1 DEF Proc, Steps
  <2>3. ProcOK(n)
    BY <2>2 DEF ProcOK
  <2>4. OnCourse(n)'
    BY <2>2 DEF OnCourse, RowsDone, Derived
  <2>5. NothingToDo(n)'
    BY <1>2, <1>7, <2>2 DEF NothingToDo, Settled, tables, Compiled, Listed
  <2> QED
    BY <1>1, <1>5, <1>6, <1>8, <2>1, <2>2, <2>3, <2>4, <2>5, ReadOnInv DEF BootOK, ProcOK
<1>9. CASE ~HasCurated
  <2>1. ~db[Main].there
    BY <1>9 DEF HasCurated
  <2>2. NothingToDo(s)
    BY <1>2, <1>4, <2>1, NoMainUnsettled DEF NothingToDo
  <2>3. PICK n : n = WriteAll(s, "reconcile")
    OBVIOUS
  <2>4. n \in Proc /\ BootOK(n)'
    BY <1>4, <1>7, <2>1, <2>2, <2>3, WriteAllOK
  <2> QED
    BY <1>1, <1>5, <1>6, <1>9, <2>3, <2>4, ReadOnInv
<1> QED
  BY <1>8, <1>9

\* The reconciliation begins.
LEMMA ReconcileInv ==
  ASSUME SeedInv, NEW p \in Procs, Reconcile(p)
  PROVE  SeedInv'
<1>1. PICK s \in Proc : s = proc[p] /\ BootOK(s)
  BY OneProc
<1>2. /\ s.pc = "reconcile" /\ UNCHANGED <<tables, cut, events>>
      /\ Read(p, IF Main \in taken THEN [s EXCEPT !.pc = "compile"]
                 ELSE IF ~db[Main].there THEN WriteAll(s, "compile")
                 ELSE Listing([s EXCEPT !.then = "compile"], 1))
  BY <1>1 DEF Reconcile
<1>3. s.release \in Releases /\ "entry" \notin s.wrote /\ NothingToDo(s)
  BY <1>1, <1>2 DEF BootOK, ProcOK
<1>4. BootTypes /\ RowsNeedMain /\ UNCHANGED tables /\ events' \in 0..MaxEvents
  BY <1>2, OneProc
<1>5. ASSUME NEW n, n \in Proc, BootOK(n)', Read(p, n) PROVE SeedInv'
  BY <1>1, <1>2, <1>4, <1>5, ReadOnInv
<1>6. CASE Main \in taken
  <2>1. PICK n : n = [s EXCEPT !.pc = "compile"]
    OBVIOUS
  <2>2. /\ n \in Proc /\ n.pc = "compile" /\ n.release = s.release /\ n.wrote = s.wrote
        /\ n.quiet = s.quiet /\ n.settled = s.settled
    BY <2>1 DEF Proc, Steps
  <2>3. ProcOK(n)
    BY <1>3, <2>2 DEF ProcOK
  <2>4. OnCourse(n)'
    BY <1>4, <1>6 DEF OnCourse, tables
  <2>5. NothingToDo(n)'
    BY <1>3, <1>4, <2>2 DEF NothingToDo, Settled, tables, Compiled, Listed
  <2> QED
    BY <1>2, <1>5, <1>6, <2>1, <2>2, <2>3, <2>4, <2>5 DEF BootOK, ProcOK
<1>7. CASE Main \notin taken /\ ~db[Main].there
  <2>1. PICK n : n = WriteAll(s, "compile")
    OBVIOUS
  <2>2. n \in Proc /\ BootOK(n)'
    BY <1>3, <1>4, <1>7, <2>1, WriteAllOK
  <2> QED
    BY <1>2, <1>5, <1>7, <2>1, <2>2
<1>8. CASE Main \notin taken /\ db[Main].there
  <2>1. PICK m : m = [s EXCEPT !.then = "compile"]
    OBVIOUS
  <2>2. /\ m \in Proc /\ m.release = s.release /\ m.wrote = s.wrote
        /\ m.quiet = s.quiet /\ m.settled = s.settled
    BY <2>1 DEF Proc
  <2>3. PICK n : n = Listing(m, 1)
    OBVIOUS
  <2>4. \A i \in Items : ~(KindOf(i) < 1)
    BY KindsFacts
  <2>5. BeforeKind(m, 1)
    BY <1>3, <2>2, <2>4 DEF BeforeKind, Embedded, NothingToDo
  <2>6. n \in Proc /\ BootOK(n)'
    BY <1>3, <1>4, <2>2, <2>3, <2>5, ListingOK
  <2> QED
    BY <1>2, <1>5, <1>8, <2>1, <2>3, <2>6
<1> QED
  BY <1>6, <1>7, <1>8

\* The rows of a kind are listed.
LEMMA ListInv ==
  ASSUME SeedInv, NEW p \in Procs, List(p)
  PROVE  SeedInv'
<1>1. PICK s \in Proc : s = proc[p] /\ BootOK(s)
  BY OneProc
<1>2. s.pc = "list" /\ UNCHANGED <<tables, cut, events>> /\ Read(p, Listing(s, s.kind))
  BY <1>1 DEF List
<1>3. s.release \in Releases /\ "entry" \notin s.wrote /\ s.kind \in 1..6
  BY <1>1, <1>2 DEF BootOK, ProcOK
<1>4. BootTypes /\ RowsNeedMain /\ UNCHANGED tables /\ events' \in 0..MaxEvents
  BY <1>2, OneProc
<1>5. PICK k \in 1..6 : k = s.kind
  BY <1>3
<1>6. BeforeKind(s, k)
  BY <1>1, <1>2, <1>5 DEF BeforeKind, BootOK, OnCourse, RowsDone, NothingToDo
<1>7. PICK n : n = Listing(s, k)
  OBVIOUS
<1>8. n \in Proc /\ BootOK(n)'
  BY <1>3, <1>4, <1>6, <1>7, ListingOK
<1> QED
  BY <1>1, <1>2, <1>4, <1>5, <1>7, <1>8, ReadOnInv

\* The graph is compared with the rows, and compiled.
LEMMA CompileSeededInv ==
  ASSUME SeedInv, NEW p \in Procs, CompileSeeded(p)
  PROVE  SeedInv'
<1>1. PICK s \in Proc : s = proc[p] /\ BootOK(s)
  BY OneProc
<1>2. /\ s.pc = "compile" /\ UNCHANGED <<tables, cut, events>>
      /\ Main \in taken => Read(p, [s EXCEPT !.pc = "serving"])
      /\ Main \notin taken /\ NeedsCompile =>
           Read(p, [s EXCEPT !.pc = "record", !.graph = Compiled])
      /\ Main \notin taken /\ ~NeedsCompile => Read(p, [s EXCEPT !.pc = "prerender"])
  BY <1>1 DEF CompileSeeded
<1>3. s.release \in Releases /\ "entry" \notin s.wrote /\ NothingToDo(s) /\ OnCourse(s)
  BY <1>1, <1>2 DEF BootOK, ProcOK
<1>4. BootTypes /\ UNCHANGED tables /\ events' \in 0..MaxEvents
  BY <1>2, OneProc
<1>5. ASSUME NEW n, n \in Proc, BootOK(n)', Read(p, n) PROVE SeedInv'
  BY <1>1, <1>2, <1>4, <1>5, ReadOnInv
<1>6. Compiled' = Compiled /\ Compiled \in Graph
  BY <1>4, CompiledType DEF tables, Compiled, Listed, BootTypes, TypeOK
<1>7. \A i : Right(s, i)' <=> Right(s, i)
  BY <1>4 DEF Right, tables
<1>8. CASE Main \in taken
  <2>1. PICK n : n = [s EXCEPT !.pc = "serving"]
    OBVIOUS
  <2>2. /\ n \in Proc /\ n.pc = "serving" /\ n.release = s.release /\ n.wrote = s.wrote
        /\ n.quiet = s.quiet /\ n.settled = s.settled
    BY <2>1 DEF Proc, Steps
  <2>3. ProcOK(n)
    BY <1>3, <2>2 DEF ProcOK
  <2>4. OnCourse(n)'
    BY <1>4, <1>8 DEF OnCourse, tables
  <2>5. NothingToDo(n)'
    BY <1>3, <1>4, <2>2 DEF NothingToDo, Settled, tables, Compiled, Listed
  <2> QED
    BY <1>2, <1>5, <1>8, <2>1, <2>2, <2>3, <2>4, <2>5 DEF BootOK, ProcOK
<1>9. CASE Main \notin taken /\ NeedsCompile
  <2>1. PICK g \in Graph : g = Compiled
    BY <1>6
  <2>2. PICK n : n = [s EXCEPT !.pc = "record", !.graph = g]
    OBVIOUS
  <2>3. /\ n \in Proc /\ n.pc = "record" /\ n.release = s.release /\ n.wrote = s.wrote
        /\ n.quiet = s.quiet /\ n.settled = s.settled /\ n.graph = g
    BY <2>2 DEF Proc, Steps
  <2>4. ProcOK(n)
    BY <1>3, <2>3 DEF ProcOK
  <2>5. \A i : Right(n, i)' <=> Right(s, i)
    BY <1>4, <2>3 DEF Right, tables
  <2>6. Derived(n)'
    BY <1>3, <1>6, <2>1, <2>3 DEF Derived
  <2>7. OnCourse(n)'
    BY <1>2, <1>3, <1>9, <2>3, <2>5, <2>6 DEF OnCourse, RowsDone
  <2>8. NothingToDo(n)'
    BY <1>3, <1>9, <2>3 DEF NothingToDo, Settled, NeedsCompile
  <2> QED
    BY <1>2, <1>5, <1>9, <2>1, <2>2, <2>3, <2>4, <2>7, <2>8 DEF BootOK, ProcOK
<1>10. CASE Main \notin taken /\ ~NeedsCompile
  <2>1. PICK n : n = [s EXCEPT !.pc = "prerender"]
    OBVIOUS
  <2>2. /\ n \in Proc /\ n.pc = "prerender" /\ n.release = s.release /\ n.wrote = s.wrote
        /\ n.quiet = s.quiet /\ n.settled = s.settled
    BY <2>1 DEF Proc, Steps
  <2>3. ProcOK(n)
    BY <1>3, <2>2 DEF ProcOK
  <2>4. \A i : Right(n, i)' <=> Right(s, i)
    BY <1>4, <2>2 DEF Right, tables
  <2>5. Derived(n)'
    BY <1>3, <1>4, <1>6, <1>10, <2>2 DEF Derived, NeedsCompile, tables
  <2>6. OnCourse(n)'
    BY <1>2, <1>3, <1>10, <2>2, <2>4, <2>5 DEF OnCourse, RowsDone
  <2>7. NothingToDo(n)'
    BY <1>3, <1>4, <2>2 DEF NothingToDo, Settled, tables, Compiled, Listed
  <2> QED
    BY <1>2, <1>5, <1>10, <2>1, <2>2, <2>3, <2>6, <2>7 DEF BootOK, ProcOK
<1> QED
  BY <1>8, <1>9, <1>10

\* The prerendered isochrone is there, or the membership is read for it.
LEMMA SeedPrerenderedInv ==
  ASSUME SeedInv, NEW p \in Procs, SeedPrerendered(p)
  PROVE  SeedInv'
<1>1. PICK s \in Proc : s = proc[p] /\ BootOK(s)
  BY OneProc
<1>2. /\ s.pc = "prerender" /\ UNCHANGED <<tables, cut, events>>
      /\ entry # None => Read(p, [s EXCEPT !.pc = "serving"])
      /\ entry = None => Read(p, [s EXCEPT !.pc = "insert entry", !.ids = Members])
  BY <1>1 DEF SeedPrerendered, Snapshot
<1>3. s.release \in Releases /\ "entry" \notin s.wrote /\ NothingToDo(s) /\ OnCourse(s)
  BY <1>1, <1>2 DEF BootOK, ProcOK
<1>4. BootTypes /\ UNCHANGED tables /\ events' \in 0..MaxEvents
  BY <1>2, OneProc
<1>5. ASSUME NEW n, n \in Proc, BootOK(n)', Read(p, n) PROVE SeedInv'
  BY <1>1, <1>2, <1>4, <1>5, ReadOnInv
<1>6. Compiled' = Compiled /\ Members' = Members /\ graph' = graph /\ taken' = taken
  BY <1>4 DEF tables, Compiled, Listed, Members
<1>7. ASSUME NEW n \in Proc, n.release = s.release, n.wrote = s.wrote, n.quiet = s.quiet,
             n.pc \in {"serving", "insert entry"}, n.pc = "insert entry" => n.ids = Members
      PROVE  ProcOK(n) /\ OnCourse(n)'
  <2>1. ProcOK(n)
    BY <1>3, <1>7 DEF ProcOK
  <2>2. \A i : Right(n, i)' <=> Right(s, i)
    BY <1>4, <1>7 DEF Right, tables
  <2>3. n.quiet /\ Main \notin taken => Derived(n)'
    BY <1>2, <1>3, <1>6, <1>7 DEF Derived, OnCourse
  <2>4. n.quiet /\ Main \notin taken => RowsDone(n)'
    BY <1>2, <1>3, <1>7, <2>2 DEF RowsDone, OnCourse
  <2> QED
    BY <1>6, <2>1, <2>3, <2>4 DEF OnCourse
<1>8. CASE entry # None
  <2>1. PICK n : n = [s EXCEPT !.pc = "serving"]
    OBVIOUS
  <2>2. /\ n \in Proc /\ n.pc = "serving" /\ n.release = s.release /\ n.wrote = s.wrote
        /\ n.quiet = s.quiet /\ n.settled = s.settled
    BY <2>1 DEF Proc, Steps
  <2>3. NothingToDo(n)'
    BY <1>3, <1>4, <2>2 DEF NothingToDo, Settled, tables, Compiled, Listed
  <2>4. ProcOK(n) /\ OnCourse(n)'
    BY <1>7, <2>2
  <2> QED
    BY <1>2, <1>5, <1>8, <2>1, <2>2, <2>3, <2>4 DEF BootOK, ProcOK
<1>9. CASE entry = None
  <2>1. PICK S \in SUBSET Services : S = Members
    BY DEF Members
  <2>2. PICK n : n = [s EXCEPT !.pc = "insert entry", !.ids = S]
    OBVIOUS
  <2>3. /\ n \in Proc /\ n.pc = "insert entry" /\ n.release = s.release /\ n.wrote = s.wrote
        /\ n.quiet = s.quiet /\ n.settled = s.settled /\ n.ids = S
    BY <2>2 DEF Proc, Steps
  <2>4. NothingToDo(n)'
    BY <1>3, <1>9, <2>3 DEF NothingToDo, Settled
  <2>5. ProcOK(n) /\ OnCourse(n)'
    BY <1>7, <2>1, <2>3
  <2> QED
    BY <1>2, <1>5, <1>9, <2>1, <2>2, <2>3, <2>4, <2>5 DEF BootOK, ProcOK
<1> QED
  BY <1>8, <1>9

\* A store call fails, and the process ends.
LEMMA FailInv ==
  ASSUME SeedInv, NEW p \in Procs, Fail(p), UNCHANGED cut,
         proc[p].pc = "link" => ~db[NextRow(proc[p].todo)].there
  PROVE  SeedInv'
<1>1. Read(p, Down) /\ UNCHANGED tables /\ Down \in Proc /\ BootOK(Down)'
  BY DownOK DEF Fail
<1>2. events' \in 0..MaxEvents /\ cut' = cut /\ cut \subseteq Services
  BY OneProc DEF Fail
<1> QED
  BY <1>1, <1>2, ReadInv

LEMMA FailuresInv ==
  ASSUME SeedInv, NEW p \in Procs,
         RowFails(p) \/ LinkFails(p) \/ CompileFails(p) \/ InsertEntryFails(p)
  PROVE  SeedInv'
<1>1. CASE RowFails(p)
  BY <1>1, FailInv DEF RowFails
<1>2. CASE LinkFails(p)
  BY <1>2, FailInv DEF LinkFails, Current, NextRow
<1>3. CASE CompileFails(p)
  BY <1>3, FailInv DEF CompileFails
<1>4. CASE InsertEntryFails(p)
  BY <1>4, FailInv DEF InsertEntryFails
<1> QED
  BY <1>1, <1>2, <1>3, <1>4

\* A process stops anywhere.
LEMMA StopInv ==
  ASSUME SeedInv, NEW p \in Procs, Stop(p)
  PROVE  SeedInv'
<1>1. Read(p, Down) /\ UNCHANGED tables /\ Down \in Proc /\ BootOK(Down)'
  BY DownOK DEF Stop
<1>2. events' \in 0..MaxEvents
  BY OneProc, SeedBootAssumption DEF Stop, Event
<1>3. PICK s \in Proc : s = proc[p] /\ BootOK(s)
  BY OneProc
<1>4. cut' = IF s.pc = "link" /\ NextRow(s.todo) \notin links
             THEN cut \cup {NextRow(s.todo)} ELSE cut
  BY <1>3 DEF Stop, Current, NextRow
<1>5. s.pc = "link" => NextRow(s.todo) \in Services
  BY <1>3 DEF BootOK, ProcOK
<1>6. cut \subseteq cut' /\ cut' \subseteq Services
  BY <1>4, <1>5, OneProc
<1>7. proc[p].pc = "link" => NextRow(proc[p].todo) \in links \cup cut'
  BY <1>3, <1>4
<1> QED
  BY <1>1, <1>2, <1>6, <1>7, ReadInv

----------------------------------------------------------------------------
(* The steps of a boot that write. *)

\* A process writes: what is left to show of the tables.
LEMMA WroteInv ==
  ASSUME SeedInv, NEW p \in Procs, NEW s \in Proc, BootOK(s)',
         proc' = [q \in Procs |-> IF q = p THEN s ELSE [proc[q] EXCEPT !.quiet = FALSE]],
         UNCHANGED <<others, stray, events>>,
         db' \in [Items -> Row], links' \subseteq Services, cut' \subseteq Services,
         taken' \subseteq {i \in Items : ~db'[i].there},
         graph' \in Graph \cup {None}, entry' \in Entry \cup {None},
         RowsNeedMain', ServicesLinked'
  PROVE  SeedInv'
<1>1. proc' \in [Procs -> Proc] /\ \A q \in Procs : BootOK(proc[q])'
  BY WroteOK
<1>2. BootTypes'
  BY <1>1 DEF SeedInv, BootTypes, TypeOK
<1> QED
  BY <1>1, <1>2 DEF SeedInv

\* The type of the entry after a row was written.
LEMMA TouchType ==
  ASSUME BootTypes, NEW i \in Items, Touch(i)
  PROVE  entry' \in Entry \cup {None}
<1>1. CASE i \in Services /\ entry # None
  <2>1. entry \in Entry
    BY <1>1 DEF BootTypes, TypeOK
  <2>2. [entry EXCEPT !.late = @ \cup {i}] \in Entry
    BY <1>1, <2>1 DEF Entry
  <2> QED
    BY <1>1, <2>2 DEF Touch
<1>2. CASE ~(i \in Services /\ entry # None)
  BY <1>2 DEF Touch, BootTypes, TypeOK
<1> QED
  BY <1>1, <1>2

\* A process that has something to write was not started on a settled database.
LEMMA WriterUnsettled ==
  ASSUME NEW s \in Proc, NothingToDo(s), s.pc \in {"row", "link", "record", "insert entry"}
  PROVE  Unsettled(s)
BY DEF NothingToDo, Unsettled

\* The row that a process writes fits its release, if nobody has disturbed it.
Fits(s, i, r) == s.quiet /\ Main \notin taken /\ s.then = "compile" =>
                   r.home /\ r.body = Yaml[s.release][i].body

\* The write of row i, as the rows see it.
RowWrite(s, i, r) ==
  /\ s.pc = "row" /\ i \in s.todo /\ i = NextRow(s.todo)
  /\ r \in Row /\ r.there = TRUE /\ Fits(s, i, r)
  /\ db' = [db EXCEPT ![i] = r] /\ taken' = taken

\* Where a process goes on after row i, as a function of its state.
AfterRow(s, i) == IF i \in Services THEN [s EXCEPT !.pc = "link"]
                  ELSE Advance([s EXCEPT !.todo = @ \ {i}])

\* What a process has after it has written the row: the other rows are untouched.
LEMMA RowFitsOK ==
  ASSUME BootTypes, NEW s \in Proc, BootOK(s), NEW i, NEW r, RowWrite(s, i, r),
         NEW n, n = AfterRow(s, i)
  PROVE  /\ n \in Proc /\ BootOK(n)' /\ Unsettled(n) /\ n.pc # "down"
         /\ i \in Services => n.pc = "link" /\ n.todo = s.todo
<1>0. /\ s.pc = "row" /\ i \in s.todo /\ i = NextRow(s.todo)
      /\ r \in Row /\ r.there = TRUE /\ Fits(s, i, r)
      /\ db' = [db EXCEPT ![i] = r] /\ taken' = taken
  BY DEF RowWrite
<1>1. /\ s.release \in Releases /\ s.kind \in 1..6 /\ "entry" \notin s.wrote
      /\ s.todo \subseteq Embedded(s.release, Items) /\ s.todo # {} /\ i \in Items
  BY <1>0 DEF BootOK, ProcOK, Embedded
<1>2. Unsettled(s)
  BY <1>0, WriterUnsettled DEF BootOK
<1>3. db'[i] = r /\ \A j \in Items \ {i} : db'[j] = db[j]
  BY <1>0, <1>1 DEF BootTypes, TypeOK
<1>4. ASSUME s.quiet, Main \notin taken, s.then = "compile" PROVE Right(s, i)'
  BY <1>0, <1>3, <1>4 DEF Fits, Right
<1>5. ASSUME s.quiet, Main \notin taken, s.then = "compile"
      PROVE  /\ \A j \in Embedded(s.release, Items) :
                  KindOf(j) <= s.kind /\ j \notin s.todo => Right(s, j)'
             /\ \A j \in (s.todo \cap s.missing \cap Vehicles) \ {i} : ~db'[j].there
  <2>1. RowsSoFar(s)
    BY <1>0, <1>5 DEF BootOK, OnCourse, RowsDone
  <2> QED
    BY <1>0, <1>1, <1>3, <2>1 DEF RowsSoFar, Right, Embedded
<1>6. CASE i \in Services
  <2>1. n = [s EXCEPT !.pc = "link"]
    BY <1>6 DEF AfterRow
  <2>2. /\ n \in Proc /\ n.pc = "link" /\ n.release = s.release /\ n.kind = s.kind
        /\ n.todo = s.todo /\ n.missing = s.missing /\ n.then = s.then /\ n.quiet = s.quiet
        /\ n.settled = s.settled /\ n.wrote = s.wrote
    BY <2>1 DEF Proc, Steps
  <2>3. ProcOK(n)
    BY <1>0, <1>1, <1>6, <2>2 DEF ProcOK
  <2>4. \A j : Right(n, j)' <=> Right(s, j)'
    BY <2>2 DEF Right
  <2>5. ASSUME n.quiet, Main \notin taken', n.then = "compile" PROVE RowsSoFar(n)' /\ Right(n, i)'
    <3>1. i \notin Vehicles
      BY <1>6, SeedBootAssumption
    <3> QED
      BY <1>0, <1>4, <1>5, <2>2, <2>4, <2>5, <3>1 DEF RowsSoFar
  <2>6. OnCourse(n)'
    BY <1>0, <1>1, <2>2, <2>5 DEF OnCourse, RowsDone, Derived
  <2>7. Unsettled(n)
    BY <1>2, <2>2 DEF Unsettled
  <2> QED
    BY <2>2, <2>3, <2>6, <2>7 DEF BootOK, ProcOK, NothingToDo, Unsettled
<1>7. CASE i \notin Services
  <2>1. PICK T \in SUBSET Items : T = s.todo \ {i}
    BY ProcFields
  <2>2. PICK m : m = [s EXCEPT !.todo = T]
    OBVIOUS
  <2>3. n = Advance(m)
    BY <1>7, <2>1, <2>2 DEF AfterRow
  <2>4. /\ m \in Proc /\ m.release = s.release /\ m.kind = s.kind
        /\ m.todo = T /\ m.missing = s.missing /\ m.then = s.then /\ m.quiet = s.quiet
        /\ m.settled = s.settled /\ m.wrote = s.wrote
    BY <2>2 DEF Proc
  <2>5. \A j : Right(m, j)' <=> Right(s, j)'
    BY <2>4 DEF Right
  <2>6. ASSUME m.quiet, Main \notin taken', m.then = "compile" PROVE RowsSoFar(m)'
    BY <1>0, <1>4, <1>5, <2>1, <2>4, <2>5, <2>6 DEF RowsSoFar
  <2>7. Unsettled(m)
    BY <1>2, <2>4 DEF Unsettled
  <2>8. BetweenRows(m)'
    BY <2>6, <2>7 DEF BetweenRows, Unsettled
  <2>9. T \subseteq Embedded(s.release, Items)
    BY <1>1, <2>1
  <2>10. /\ n \in Proc /\ BootOK(n)' /\ n.pc \notin {"link", "down"}
         /\ n.settled = m.settled /\ n.quiet = m.quiet
    BY <1>1, <2>3, <2>4, <2>8, <2>9, AdvanceOK
  <2> QED
    BY <1>7, <2>7, <2>10 DEF Unsettled
<1> QED
  BY <1>6, <1>7

\* A row is written.
LEMMA RowWrittenInv ==
  ASSUME SeedInv, NEW p \in Procs, NEW s \in Proc, s = proc[p], BootOK(s),
         NEW i, NEW r, RowWrite(s, i, r),
         i \in Vehicles => r.home = TRUE, HasParts(i), i \notin taken,
         Touch(i), Wrote(p, AfterWrite(p), "row"),
         UNCHANGED <<others, links, stray, graph, cut, events>>
  PROVE  SeedInv'
<1>0. /\ s.pc = "row" /\ i \in s.todo /\ i = NextRow(s.todo)
      /\ r \in Row /\ r.there = TRUE
      /\ db' = [db EXCEPT ![i] = r] /\ taken' = taken
  BY DEF RowWrite
<1>1. BootTypes /\ RowsNeedMain /\ ServicesLinked /\ i \in Items
  BY <1>0, ProcFields DEF SeedInv
<1>2. db' \in [Items -> Row] /\ db'[i] = r /\ \A j \in Items \ {i} : db'[j] = db[j]
  BY <1>0, <1>1 DEF BootTypes, TypeOK
<1>3. PICK n : n = AfterRow(s, i)
  OBVIOUS
<1>4. n = AfterWrite(p)
  BY <1>0, <1>3 DEF AfterWrite, AfterRow, Current, NextRow
<1>5. /\ n \in Proc /\ BootOK(n)' /\ Unsettled(n) /\ n.pc # "down"
      /\ i \in Services => n.pc = "link" /\ n.todo = s.todo
  BY <1>1, <1>3, RowFitsOK
<1>6. PICK m : m = [n EXCEPT !.wrote = @ \cup {"row"}]
  OBVIOUS
<1>7. m \in Proc /\ BootOK(m)' /\ m.pc = n.pc /\ m.todo = n.todo
  BY <1>5, <1>6, AlsoWroteOK
<1>8. proc' = [q \in Procs |-> IF q = p THEN m ELSE [proc[q] EXCEPT !.quiet = FALSE]]
  BY <1>4, <1>6 DEF Wrote
<1>9. /\ proc'[p] = m
      /\ \A q \in Procs \ {p} : proc'[q].pc = proc[q].pc /\ proc'[q].todo = proc[q].todo
  BY <1>7, <1>8, WroteOK
<1>10. RowsNeedMain'
  <2>1. Main \in Items /\ Vehicles \subseteq Items
    BY DEF Items
  <2> QED
    BY <1>0, <1>1, <1>2, <2>1 DEF RowsNeedMain, HasParts
<1>11. ServicesLinked'
  <2>1. Services \subseteq Items
    BY DEF Items
  <2>2. i \in Services => Linking(i)'
    BY <1>0, <1>5, <1>7, <1>9 DEF Linking
  <2>3. \A v \in Services : db'[v].there => db[v].there \/ Linking(v)'
    BY <1>2, <2>1, <2>2
  <2>4. \A q \in Procs : proc[q].pc = "link" =>
           proc'[q].pc = "link" /\ proc'[q].todo = proc[q].todo
    BY <1>0, <1>9
  <2> QED
    BY <1>1, <2>3, <2>4, LinksKept
<1>12. taken' \subseteq {j \in Items : ~db'[j].there}
  BY <1>0, <1>1, <1>2 DEF BootTypes, TypeOK
<1>13. entry' \in Entry \cup {None}
  BY <1>1, TouchType
<1>14. links' \subseteq Services /\ cut' \subseteq Services /\ graph' \in Graph \cup {None}
  BY <1>1 DEF BootTypes, TypeOK
<1> QED
  BY <1>2, <1>7, <1>8, <1>10, <1>11, <1>12, <1>13, <1>14, WroteInv

\* The row that is next, and its content in the YAML.
LEMMA NextOfRow ==
  ASSUME NEW p \in Procs, NEW s \in Proc, s = proc[p], BootOK(s), s.pc \in {"row", "link"}
  PROVE  /\ Current(p) = NextRow(s.todo) /\ Current(p) \in s.todo /\ Current(p) \in Items
         /\ Seed(p, Current(p)) = Yaml[s.release][Current(p)]
         /\ Yaml[s.release][Current(p)] \in Content
<1>1. Current(p) = NextRow(s.todo)
  BY DEF Current, NextRow
<1>2. s.todo # {} /\ s.todo \subseteq Embedded(s.release, Items) /\ s.release \in Releases
  BY DEF BootOK, ProcOK
<1>3. s.todo \in SUBSET Items
  BY ProcFields
<1>4. NextRow(s.todo) \in s.todo
  BY <1>2, <1>3, NextRowFacts
<1> QED
  BY <1>1, <1>2, <1>3, <1>4, YamlFacts DEF Seed

LEMMA InsertRowInv ==
  ASSUME SeedInv, NEW p \in Procs, InsertRow(p)
  PROVE  SeedInv'
<1>1. PICK s \in Proc : s = proc[p] /\ BootOK(s)
  BY OneProc
<1>2. s.pc = "row"
  BY <1>1 DEF InsertRow
<1>3. PICK i \in s.todo : i = Current(p) /\ i = NextRow(s.todo) /\ i \in Items
  BY <1>1, <1>2, NextOfRow
<1>4. PICK c \in Content : c = Seed(p, i) /\ c = Yaml[s.release][i]
  BY <1>1, <1>2, <1>3, NextOfRow
<1>5. PICK r : r = InsertedRow(i, c)
  OBVIOUS
<1>6. /\ i \in s.missing /\ Insertable(i) /\ db' = [db EXCEPT ![i] = r] /\ Touch(i)
      /\ Wrote(p, AfterWrite(p), "row")
      /\ UNCHANGED <<others, taken, links, stray, graph, cut, events>>
  BY <1>1, <1>3, <1>4, <1>5 DEF InsertRow
<1>7. db[i] \in Row /\ RowsNeedMain
  BY <1>3 DEF SeedInv, BootTypes, TypeOK
<1>8. CASE i \in Vehicles /\ db[i].there
  <2>1. r = db[i] /\ r.home = TRUE /\ r.there = TRUE
    BY <1>5, <1>7, <1>8 DEF InsertedRow, RowsNeedMain, Row
  <2>2. Fits(s, i, r)
    BY <1>1, <1>2, <1>6, <1>8 DEF Fits, BootOK, OnCourse, RowsDone, RowsSoFar
  <2> QED
    <3>1. RowWrite(s, i, r)
      BY <1>2, <1>3, <1>6, <1>7, <2>1, <2>2 DEF RowWrite
    <3> QED
      BY <1>1, <1>6, <2>1, <3>1, RowWrittenInv DEF Insertable
<1>9. CASE ~(i \in Vehicles /\ db[i].there)
  <2>1. r = [there |-> TRUE, home |-> TRUE, body |-> c.body, provenance |-> c.provenance]
    BY <1>5, <1>9 DEF InsertedRow
  <2>2. r \in Row /\ r.there = TRUE /\ r.home = TRUE /\ r.body = c.body
    BY <2>1 DEF Row, Content
  <2>3. Fits(s, i, r)
    BY <1>4, <2>2 DEF Fits
  <2> QED
    <3>1. RowWrite(s, i, r)
      BY <1>2, <1>3, <1>6, <2>2, <2>3 DEF RowWrite
    <3> QED
      BY <1>1, <1>6, <2>2, <3>1, RowWrittenInv DEF Insertable
<1> QED
  BY <1>8, <1>9

LEMMA UpdateRowInv ==
  ASSUME SeedInv, NEW p \in Procs, UpdateRow(p)
  PROVE  SeedInv'
<1>1. PICK s \in Proc : s = proc[p] /\ BootOK(s)
  BY OneProc
<1>2. s.pc = "row"
  BY <1>1 DEF UpdateRow
<1>3. PICK i \in s.todo : i = Current(p) /\ i = NextRow(s.todo) /\ i \in Items
  BY <1>1, <1>2, NextOfRow
<1>4. PICK c \in Content : c = Seed(p, i) /\ c = Yaml[s.release][i]
  BY <1>1, <1>2, <1>3, NextOfRow
<1>5. PICK r : r = Updated(db[i], c)
  OBVIOUS
<1>6. db[i] \in Row /\ db \in [Items -> Row] /\ taken \subseteq {j \in Items : ~db[j].there}
  BY <1>3 DEF SeedInv, BootTypes, TypeOK
<1>7. /\ db[i].there /\ HasParts(i) /\ db' = [db EXCEPT ![i] = r] /\ Touch(i)
      /\ Wrote(p, AfterWrite(p), "row")
      /\ UNCHANGED <<others, taken, links, stray, graph, cut, events>>
  BY <1>1, <1>3, <1>4, <1>5, <1>6 DEF UpdateRow
<1>8. r \in Row /\ r.there = TRUE /\ r.home = TRUE /\ r.body = c.body
  BY <1>5, <1>6, <1>7 DEF Updated, Row, Content
<1>9. Fits(s, i, r)
  BY <1>4, <1>8 DEF Fits
<1>10. i \notin taken
  BY <1>6, <1>7
<1>11. RowWrite(s, i, r)
  BY <1>2, <1>3, <1>7, <1>8, <1>9 DEF RowWrite
<1> QED
  BY <1>1, <1>7, <1>8, <1>10, <1>11, RowWrittenInv

\* A service is linked.
LEMMA LinkServiceInv ==
  ASSUME SeedInv, NEW p \in Procs, LinkService(p)
  PROVE  SeedInv'
<1>1. PICK s \in Proc : s = proc[p] /\ BootOK(s)
  BY OneProc
<1>2. s.pc = "link"
  BY <1>1 DEF LinkService
<1>3. PICK v \in s.todo : v = Current(p) /\ v = NextRow(s.todo) /\ v \in Items
  BY <1>1, <1>2, NextOfRow
<1>4. PICK T \in SUBSET Items : T = s.todo \ {v}
  BY ProcFields
<1>5. PICK m : m = [s EXCEPT !.todo = T]
  OBVIOUS
<1>6. PICK n : n = Advance(m)
  OBVIOUS
<1>7. /\ links' = links \cup {v} /\ cut' = cut \ {v} /\ Wrote(p, n, "row")
      /\ UNCHANGED <<others, db, taken, stray, graph, entry, events>>
  BY <1>1, <1>3, <1>4, <1>5, <1>6 DEF LinkService, Linked
<1>8. /\ m \in Proc /\ m.release = s.release /\ m.kind = s.kind
      /\ m.todo = T /\ m.missing = s.missing /\ m.then = s.then /\ m.quiet = s.quiet
      /\ m.settled = s.settled /\ m.wrote = s.wrote
  BY <1>5 DEF Proc
<1>9. /\ s.release \in Releases /\ s.kind \in 1..6 /\ "entry" \notin s.wrote
      /\ s.todo \subseteq Embedded(s.release, Items) /\ v \in Services
  BY <1>1, <1>2, <1>3 DEF BootOK, ProcOK
<1>10. Unsettled(s) /\ Unsettled(m)
  <2>1. Unsettled(s)
    BY <1>1, <1>2, WriterUnsettled DEF BootOK
  <2> QED
    BY <1>8, <2>1 DEF Unsettled
<1>11. BetweenRows(m)'
  <2>1. \A j : Right(m, j)' <=> Right(s, j)
    BY <1>7, <1>8 DEF Right
  <2>2. ASSUME m.quiet, Main \notin taken', m.then = "compile" PROVE RowsSoFar(m)'
    <3>1. RowsSoFar(s) /\ Right(s, v)
      BY <1>1, <1>2, <1>3, <1>7, <1>8, <2>2 DEF BootOK, OnCourse, RowsDone
    <3> QED
      BY <1>4, <1>7, <1>8, <2>1, <3>1 DEF RowsSoFar
  <2> QED
    BY <1>10, <2>2 DEF BetweenRows, Unsettled
<1>12. T \subseteq Embedded(m.release, Items)
  BY <1>4, <1>8, <1>9
<1>13. /\ n \in Proc /\ BootOK(n)' /\ n.pc \notin {"link", "down"}
       /\ n.settled = m.settled /\ n.quiet = m.quiet
  BY <1>6, <1>8, <1>9, <1>11, <1>12, AdvanceOK
<1>14. PICK w : w = [n EXCEPT !.wrote = @ \cup {"row"}]
  OBVIOUS
<1>15. w \in Proc /\ BootOK(w)'
  <2>1. Unsettled(n)
    BY <1>10, <1>13 DEF Unsettled
  <2> QED
    BY <1>13, <1>14, <2>1, AlsoWroteOK
<1>16. proc' = [q \in Procs |-> IF q = p THEN w ELSE [proc[q] EXCEPT !.quiet = FALSE]]
  BY <1>7, <1>14 DEF Wrote
<1>17. \A q \in Procs \ {p} : proc'[q].pc = proc[q].pc /\ proc'[q].todo = proc[q].todo
  BY <1>15, <1>16, WroteOK
<1>18. ServicesLinked'
  <2>1. \A q \in Procs : proc[q].pc = "link" =>
           \/ proc'[q].pc = "link" /\ proc'[q].todo = proc[q].todo
           \/ NextRow(proc[q].todo) \in links' \cup cut'
    BY <1>1, <1>3, <1>7, <1>17
  <2>2. \A u \in Services : u \in links \cup cut => u \in links' \cup cut'
    BY <1>7
  <2>3. ServicesLinked /\ db' = db
    BY <1>7 DEF SeedInv
  <2> QED
    BY <2>1, <2>2, <2>3, LinksKept
<1>19. /\ db' \in [Items -> Row] /\ links' \subseteq Services /\ cut' \subseteq Services
       /\ taken' \subseteq {i \in Items : ~db'[i].there}
       /\ graph' \in Graph \cup {None} /\ entry' \in Entry \cup {None}
  BY <1>7, <1>9 DEF SeedInv, BootTypes, TypeOK
<1>20. RowsNeedMain'
  BY <1>7 DEF SeedInv, RowsNeedMain
<1> QED
  BY <1>7, <1>15, <1>16, <1>18, <1>19, <1>20, WroteInv

\* A step that writes no row keeps the rows and the links.
LEMMA DerivedWriteInv ==
  ASSUME SeedInv, NEW p \in Procs, proc[p].pc # "link", NEW s \in Proc, BootOK(s)',
         proc' = [q \in Procs |-> IF q = p THEN s ELSE [proc[q] EXCEPT !.quiet = FALSE]],
         UNCHANGED <<others, db, taken, links, stray, cut, events>>,
         graph' \in Graph \cup {None}, entry' \in Entry \cup {None}
  PROVE  SeedInv'
<1>1. \A q \in Procs \ {p} : proc'[q].pc = proc[q].pc /\ proc'[q].todo = proc[q].todo
  BY WroteOK
<1>2. ServicesLinked'
  <2>1. ServicesLinked
    BY DEF SeedInv
  <2> QED
    BY <1>1, <2>1, LinksKept
<1>3. /\ db' \in [Items -> Row] /\ links' \subseteq Services /\ cut' \subseteq Services
      /\ taken' \subseteq {i \in Items : ~db'[i].there}
  BY DEF SeedInv, BootTypes, TypeOK
<1>4. RowsNeedMain'
  BY DEF SeedInv, RowsNeedMain
<1> QED
  BY <1>2, <1>3, <1>4, WroteInv

\* The compiled graph is recorded.
LEMMA RecordCompiledInv ==
  ASSUME SeedInv, NEW p \in Procs, RecordCompiled(p)
  PROVE  SeedInv'
<1>1. PICK s \in Proc : s = proc[p] /\ BootOK(s)
  BY OneProc
<1>2. PICK n : n = [s EXCEPT !.pc = "prerender", !.graph = None]
  OBVIOUS
<1>3. /\ s.pc = "record" /\ graph' = s.graph /\ Wrote(p, n, "graph")
      /\ UNCHANGED <<others, db, taken, links, stray, entry, cut, events>>
  BY <1>1, <1>2 DEF RecordCompiled
<1>4. /\ n \in Proc /\ n.pc = "prerender" /\ n.release = s.release /\ n.quiet = s.quiet
      /\ n.settled = s.settled /\ n.wrote = s.wrote
  BY <1>2 DEF Proc, Steps
<1>5. s.release \in Releases /\ "entry" \notin s.wrote /\ s.graph \in Graph \cup {None}
  BY <1>1, <1>3, ProcFields DEF BootOK, ProcOK
<1>6. Unsettled(n)
  <2>1. Unsettled(s)
    BY <1>1, <1>3, WriterUnsettled DEF BootOK
  <2> QED
    BY <1>4, <2>1 DEF Unsettled
<1>7. ASSUME n.quiet, Main \notin taken' PROVE RowsDone(n)' /\ Derived(n)'
  <2>1. RowsDone(s) /\ Derived(s)
    BY <1>1, <1>3, <1>4, <1>7 DEF BootOK, OnCourse
  <2>2. \A i : Right(n, i)' <=> Right(s, i)
    BY <1>3, <1>4 DEF Right
  <2>3. Compiled' = Compiled
    BY <1>3 DEF Compiled, Listed
  <2>4. RowsDone(n)'
    BY <1>3, <1>4, <2>1, <2>2 DEF RowsDone
  <2>5. Derived(n)'
    BY <1>3, <1>4, <1>5, <2>1, <2>3 DEF Derived
  <2> QED
    BY <2>4, <2>5
<1>8. ProcOK(n)
  BY <1>4, <1>5 DEF ProcOK
<1>9. BootOK(n)'
  BY <1>6, <1>7, <1>8 DEF BootOK, ProcOK, OnCourse, NothingToDo, Unsettled
<1>10. PICK w : w = [n EXCEPT !.wrote = @ \cup {"graph"}]
  OBVIOUS
<1>11. w \in Proc /\ BootOK(w)'
  BY <1>4, <1>6, <1>9, <1>10, AlsoWroteOK
<1>12. proc' = [q \in Procs |-> IF q = p THEN w ELSE [proc[q] EXCEPT !.quiet = FALSE]]
  BY <1>3, <1>10 DEF Wrote
<1>13. graph' \in Graph \cup {None} /\ entry' \in Entry \cup {None}
  BY <1>3, <1>5 DEF SeedInv, BootTypes, TypeOK
<1> QED
  BY <1>1, <1>3, <1>11, <1>12, <1>13, DerivedWriteInv

\* The prerendered isochrone is inserted.
LEMMA InsertEntryInv ==
  ASSUME SeedInv, NEW p \in Procs, InsertEntry(p)
  PROVE  SeedInv'
<1>1. PICK s \in Proc : s = proc[p] /\ BootOK(s)
  BY OneProc
<1>2. PICK n : n = [s EXCEPT !.pc = "serving", !.ids = {}]
  OBVIOUS
<1>3. PICK w : w = [n EXCEPT !.wrote = @ \cup {"entry"}]
  OBVIOUS
<1>4. /\ s.pc = "insert entry" /\ entry' = [ids |-> s.ids, late |-> {}] /\ Wrote(p, n, "entry")
      /\ UNCHANGED <<others, db, taken, links, stray, graph, cut, events>>
  BY <1>1, <1>2 DEF InsertEntry
<1>5. /\ w \in Proc /\ w.pc = "serving" /\ w.release = s.release /\ w.quiet = s.quiet
      /\ w.settled = s.settled
  <2>1. /\ n \in Proc /\ n.pc = "serving" /\ n.release = s.release /\ n.quiet = s.quiet
        /\ n.settled = s.settled
    BY <1>2 DEF Proc, Steps
  <2> QED
    BY <1>3, <2>1 DEF Proc
<1>6. s.release \in Releases /\ s.ids \in SUBSET Services
  BY <1>1, <1>4, ProcFields DEF BootOK, ProcOK
<1>7. Unsettled(w)
  <2>1. Unsettled(s)
    BY <1>1, <1>4, WriterUnsettled DEF BootOK
  <2> QED
    BY <1>5, <2>1 DEF Unsettled
<1>8. ASSUME w.quiet, Main \notin taken' PROVE RowsDone(w)' /\ Derived(w)'
  <2>1. RowsDone(s) /\ Derived(s)
    BY <1>1, <1>4, <1>5, <1>8 DEF BootOK, OnCourse
  <2>2. \A i : Right(w, i)' <=> Right(s, i)
    BY <1>4, <1>5 DEF Right
  <2>3. Compiled' = Compiled /\ Members' = Members
    BY <1>4 DEF Compiled, Listed, Members
  <2>4. RowsDone(w)'
    BY <1>4, <1>5, <2>1, <2>2 DEF RowsDone
  <2>5. ~Outdated'
    <3>1. s.ids = Members
      BY <1>4, <2>1 DEF Derived
    <3> QED
      BY <1>4, <2>3, <3>1 DEF Outdated
  <2>6. Derived(w)'
    BY <1>4, <1>5, <2>1, <2>3, <2>5 DEF Derived
  <2> QED
    BY <2>4, <2>6
<1>9. ProcOK(w)
  BY <1>5, <1>6 DEF ProcOK
<1>10. BootOK(w)'
  BY <1>7, <1>8, <1>9 DEF BootOK, ProcOK, OnCourse, NothingToDo, Unsettled
<1>11. proc' = [q \in Procs |-> IF q = p THEN w ELSE [proc[q] EXCEPT !.quiet = FALSE]]
  BY <1>3, <1>4 DEF Wrote
<1>12. graph' \in Graph \cup {None} /\ entry' \in Entry \cup {None}
  <2>1. entry' \in Entry
    BY <1>4, <1>6 DEF Entry
  <2> QED
    BY <1>4, <2>1 DEF SeedInv, BootTypes, TypeOK
<1> QED
  BY <1>1, <1>4, <1>5, <1>10, <1>11, <1>12, DerivedWriteInv

----------------------------------------------------------------------------
(* Administrators and users. *)

\* Somebody else writes: what is left to show of the tables.
LEMMA EditInv ==
  ASSUME SeedInv, Edit,
         db' \in [Items -> Row], links' \subseteq Services, cut' \subseteq Services,
         taken' \subseteq {i \in Items : ~db'[i].there}, stray' \in BOOLEAN,
         entry' \in Entry \cup {None}, RowsNeedMain',
         \A v \in Services : db'[v].there =>
           db[v].there /\ (v \in links \cup cut => v \in links' \cup cut')
  PROVE  SeedInv'
<1>1. /\ proc' \in [Procs -> Proc]
      /\ \A q \in Procs : proc'[q].pc = proc[q].pc /\ proc'[q].todo = proc[q].todo
      /\ \A q \in Procs : BootOK(proc[q])'
  BY EditOK
<1>2. others' = others /\ graph' = graph /\ events' \in 0..MaxEvents
  BY OneProc, SeedBootAssumption DEF Edit, Event, SeedInv, BootTypes, TypeOK
<1>3. BootTypes'
  BY <1>1, <1>2 DEF SeedInv, BootTypes, TypeOK
<1>4. ServicesLinked'
  <2>1. ServicesLinked
    BY DEF SeedInv
  <2> QED
    BY <1>1, <2>1, LinksKept
<1> QED
  BY <1>1, <1>3, <1>4 DEF SeedInv

LEMMA EditRowInv ==
  ASSUME SeedInv, NEW i \in Items, NEW home \in BOOLEAN, EditRow(i, home)
  PROVE  SeedInv'
<1>1. BootTypes /\ RowsNeedMain /\ db[i] \in Row /\ db \in [Items -> Row]
  BY DEF SeedInv, BootTypes, TypeOK
<1>2. PICK r : r = [db[i] EXCEPT !.body = 0, !.home = home]
  OBVIOUS
<1>3. r \in Row /\ r.there = db[i].there
  BY <1>1, <1>2 DEF Row
<1>4. /\ db[i].there /\ i \notin Vehicles /\ Edit /\ db' = [db EXCEPT ![i] = r] /\ Touch(i)
      /\ UNCHANGED <<taken, links, stray, cut>>
  BY <1>1, <1>2 DEF EditRow
<1>5. /\ db' \in [Items -> Row] /\ \A j \in Items : db'[j].there = db[j].there
      /\ \A j \in Items \ {i} : db'[j] = db[j]
  BY <1>1, <1>3, <1>4
<1>6. entry' \in Entry \cup {None}
  BY <1>1, <1>4, TouchType
<1>7. /\ links' \subseteq Services /\ cut' \subseteq Services /\ stray' \in BOOLEAN
      /\ taken' \subseteq {j \in Items : ~db'[j].there}
  BY <1>1, <1>4, <1>5 DEF BootTypes, TypeOK
<1>8. Main \in Items /\ Vehicles \subseteq Items /\ Services \subseteq Items
  BY DEF Items
<1>9. RowsNeedMain'
  BY <1>1, <1>4, <1>5, <1>8 DEF RowsNeedMain
<1> QED
  BY <1>4, <1>5, <1>6, <1>7, <1>8, <1>9, EditInv

LEMMA AbsentRow == Absent \in Row /\ Absent.there = FALSE
BY DEF Absent, Row

LEMMA DeleteRowInv ==
  ASSUME SeedInv, NEW i \in Items, DeleteRow(i)
  PROVE  SeedInv'
<1>1. BootTypes /\ RowsNeedMain /\ db \in [Items -> Row]
  BY DEF SeedInv, BootTypes, TypeOK
<1>2. PICK r \in Row : r = Absent /\ r.there = FALSE
  BY AbsentRow
<1>3. /\ i \in Services \cup Stations \cup Routes /\ Edit /\ db' = [db EXCEPT ![i] = r]
      /\ links' = links \ {i} /\ cut' = cut \ {i} /\ UNCHANGED <<taken, stray, entry>>
  BY <1>2 DEF DeleteRow
<1>4. db' \in [Items -> Row] /\ db'[i] = r /\ \A j \in Items \ {i} : db'[j] = db[j]
  BY <1>1, <1>2, <1>3
<1>5. /\ links' \subseteq Services /\ cut' \subseteq Services /\ stray' \in BOOLEAN
      /\ taken' \subseteq {j \in Items : ~db'[j].there} /\ entry' \in Entry \cup {None}
  BY <1>1, <1>2, <1>3, <1>4 DEF BootTypes, TypeOK
<1>6. /\ Main \in Items /\ Vehicles \subseteq Items /\ Services \subseteq Items /\ Main # i
  BY <1>3, SeedBootAssumption DEF Items
<1>7. RowsNeedMain'
  BY <1>1, <1>2, <1>4, <1>6 DEF RowsNeedMain
<1>8. \A v \in Services : db'[v].there =>
        db[v].there /\ (v \in links \cup cut => v \in links' \cup cut')
  BY <1>2, <1>3, <1>4, <1>6
<1> QED
  BY <1>3, <1>4, <1>5, <1>7, <1>8, EditInv

LEMMA AddStrayInv ==
  ASSUME SeedInv, AddStray
  PROVE  SeedInv'
<1>1. Edit /\ stray' = TRUE /\ UNCHANGED <<db, taken, links, entry, cut>>
  BY DEF AddStray
<1>2. /\ db' \in [Items -> Row] /\ links' \subseteq Services /\ cut' \subseteq Services
      /\ taken' \subseteq {i \in Items : ~db'[i].there} /\ stray' \in BOOLEAN
      /\ entry' \in Entry \cup {None}
  BY <1>1 DEF SeedInv, BootTypes, TypeOK
<1>3. RowsNeedMain'
  BY <1>1 DEF SeedInv, RowsNeedMain
<1> QED
  BY <1>1, <1>2, <1>3, EditInv

LEMMA TakeSlugInv ==
  ASSUME SeedInv, NEW i \in Items, TakeSlug(i)
  PROVE  SeedInv'
<1>1. /\ ~db[i].there /\ Edit /\ taken' = taken \cup {i}
      /\ UNCHANGED <<db, links, stray, entry, cut>>
  BY DEF TakeSlug
<1>2. /\ db' \in [Items -> Row] /\ links' \subseteq Services /\ cut' \subseteq Services
      /\ taken' \subseteq {j \in Items : ~db'[j].there} /\ stray' \in BOOLEAN
      /\ entry' \in Entry \cup {None}
  BY <1>1 DEF SeedInv, BootTypes, TypeOK
<1>3. RowsNeedMain'
  BY <1>1 DEF SeedInv, RowsNeedMain
<1> QED
  BY <1>1, <1>2, <1>3, EditInv

----------------------------------------------------------------------------
(* The invariant is inductive. *)

LEMMA InitInv == Init => SeedInv
<1> SUFFICES ASSUME Init PROVE SeedInv
  OBVIOUS
<1>1. Down \in Proc
  BY DownOK
<1>2. proc \in [Procs -> Proc] /\ \A p \in Procs : proc[p] = Down
  BY <1>1 DEF Init
<1>3. db \in [Items -> Row] /\ \A i \in Items : db[i].there = FALSE
  BY AbsentRow DEF Init
<1>4. events \in 0..MaxEvents
  BY SeedBootAssumption DEF Init
<1>5. BootTypes
  <2>1. /\ others \in BOOLEAN /\ stray = FALSE /\ links = {} /\ cut = {} /\ taken \subseteq {Main}
        /\ graph = None /\ entry = None
    BY DEF Init
  <2>2. Main \in Items
    BY DEF Items
  <2> QED
    BY <1>2, <1>3, <1>4, <2>1, <2>2 DEF BootTypes, TypeOK
<1>6. RowsNeedMain
  BY <1>3 DEF RowsNeedMain, Items
<1>7. ServicesLinked
  BY <1>3 DEF ServicesLinked, Items
<1>8. BootOK(Down)
  <2>1. /\ Down.pc = "down" /\ Down.quiet = FALSE /\ Down.settled = FALSE /\ Down.wrote = {}
    BY DEF Down
  <2> QED
    BY <2>1 DEF BootOK, ProcOK, OnCourse, NothingToDo
<1> QED
  BY <1>2, <1>5, <1>6, <1>7, <1>8 DEF SeedInv

LEMMA StutterInv ==
  ASSUME SeedInv, UNCHANGED vars
  PROVE  SeedInv'
<1>1. UNCHANGED <<tables, cut, events, proc>>
  BY DEF vars
<1>2. UNCHANGED tables /\ proc' = proc /\ cut' = cut /\ events' = events
  BY <1>1
<1>3. \A q \in Procs : BootOK(proc[q])'
  <2> TAKE q \in Procs
  <2>1. PICK c \in Proc : c = proc[q] /\ BootOK(c)
    BY OneProc
  <2>2. BootOK(c)'
    BY <1>2, <2>1, UndisturbedOK
  <2>3. c = proc'[q]
    BY <1>2, <2>1
  <2> QED
    BY <2>2, <2>3, ZenonT(60)
    DEF BootOK, ProcOK, OnCourse, NothingToDo, RowsDone, RowsSoFar, Right, Derived
<1>4. BootTypes' /\ RowsNeedMain'
  BY <1>2 DEF SeedInv, BootTypes, TypeOK, RowsNeedMain, tables
<1>5. ServicesLinked'
  BY <1>2 DEF SeedInv, ServicesLinked, Linking, tables
<1> QED
  BY <1>3, <1>4, <1>5 DEF SeedInv

LEMMA StepInv == SeedInv /\ [Next]_vars => SeedInv'
<1> SUFFICES ASSUME SeedInv, [Next]_vars PROVE SeedInv'
  OBVIOUS
<1>1. ASSUME NEW p \in Procs, Boot(p) PROVE SeedInv'
  <2>1. CASE Start(p) \/ Reconcile(p) \/ List(p)
    BY <2>1, StartInv, ReconcileInv, ListInv
  <2>2. CASE InsertRow(p) \/ UpdateRow(p) \/ LinkService(p)
    BY <2>2, InsertRowInv, UpdateRowInv, LinkServiceInv
  <2>3. CASE RowFails(p) \/ LinkFails(p) \/ CompileFails(p) \/ InsertEntryFails(p)
    BY <2>3, FailuresInv
  <2>4. CASE CompileSeeded(p) \/ RecordCompiled(p)
    BY <2>4, CompileSeededInv, RecordCompiledInv
  <2>5. CASE SeedPrerendered(p) \/ InsertEntry(p)
    BY <2>5, SeedPrerenderedInv, InsertEntryInv
  <2> QED
    BY <1>1, <2>1, <2>2, <2>3, <2>4, <2>5 DEF Boot
<1>2. ASSUME NEW p \in Procs, Stop(p) PROVE SeedInv'
  BY <1>2, StopInv
<1>3. CASE Change
  <2>1. CASE AddStray
    BY <2>1, AddStrayInv
  <2>2. ASSUME NEW i \in Items, DeleteRow(i) \/ TakeSlug(i) \/ \E home \in BOOLEAN : EditRow(i, home)
        PROVE  SeedInv'
    BY <2>2, DeleteRowInv, TakeSlugInv, EditRowInv
  <2> QED
    BY <1>3, <2>1, <2>2 DEF Change
<1>4. CASE UNCHANGED vars
  BY <1>4, StutterInv
<1> QED
  BY <1>1, <1>2, <1>3, <1>4 DEF Next

LEMMA SeedInvariant == Spec => []SeedInv
BY InitInv, StepInv, PTL DEF Spec

----------------------------------------------------------------------------
(* The theorems. *)

\* ServesItsRelease holds of every behaviour: whatever releases, crashes, edits
\* and deletions came before, a process that booted while nobody else wrote
\* serves the rows of its YAML (ReconcileSeed), the graph of these rows
\* (CompileSeededIfNeeded) and, if it inserted the prerendered isochrone, one of
\* the present members (SeedPrerenderedIsochrones).
THEOREM BootServesItsRelease == Spec => []ServesItsRelease
<1>1. SeedInv => ServesItsRelease
  <2> SUFFICES ASSUME SeedInv, NEW p \in Procs, Served(p)
               PROVE  /\ \A i \in Items : Seed(p, i) # None =>
                           db[i].there /\ db[i].home /\ db[i].body = Seed(p, i).body
                      /\ graph = Compiled
                      /\ "entry" \in proc[p].wrote => ~Outdated
    BY DEF ServesItsRelease
  <2>1. PICK s \in Proc : s = proc[p] /\ BootOK(s)
    BY OneProc
  <2>2. s.pc = "serving" /\ RowsDone(s) /\ Derived(s)
    BY <2>1 DEF Served, BootOK, OnCourse
  <2>3. \A i \in Embedded(s.release, Items) : Right(s, i)
    BY <2>2 DEF RowsDone
  <2>4. graph = Compiled /\ ("entry" \in s.wrote => ~Outdated)
    BY <2>2 DEF Derived
  <2> QED
    BY <2>1, <2>3, <2>4 DEF Seed, Right, Embedded
<1> QED
  BY <1>1, SeedInvariant, PTL

\* SettledIsLeftAlone holds of every behaviour: a boot that finds every field
\* of its YAML in the database goes through all its steps without a write
\* (sameSeedContent, sameCompiledGraph, the ids of the seed files).
THEOREM SettledBootWritesNothing == Spec => []SettledIsLeftAlone
<1>1. SeedInv => SettledIsLeftAlone
  <2> SUFFICES ASSUME SeedInv, NEW p \in Procs, proc[p].settled, proc[p].quiet
               PROVE  proc[p].wrote = {}
    BY DEF SettledIsLeftAlone
  <2>1. NothingToDo(proc[p])
    BY DEF SeedInv, BootOK
  <2> QED
    BY <2>1 DEF NothingToDo
<1> QED
  BY <1>1, SeedInvariant, PTL

\* UnlinkedWasCut holds of every behaviour: a seeded service is linked to its
\* scenario, is about to be, or its insertion was cut short by a crash
\* (AddServiceToScenario follows CreateService and UpdateService).  With the
\* types of the module.
THEOREM OnlyCrashesCutLinks == Spec => []UnlinkedWasCut
<1>1. SeedInv => UnlinkedWasCut
  <2> SUFFICES ASSUME SeedInv PROVE UnlinkedWasCut
    OBVIOUS
  <2>1. \A p \in Procs : Current(p) = NextRow(proc[p].todo)
    BY DEF Current, NextRow
  <2> QED
    BY <2>1 DEF SeedInv, BootTypes, ServicesLinked, Linking, UnlinkedWasCut
<1> QED
  BY <1>1, SeedInvariant, PTL

=============================================================================
