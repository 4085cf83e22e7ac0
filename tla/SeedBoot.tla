------------------------------ MODULE SeedBoot ------------------------------
(***************************************************************************)
(* What a process does to the database before it listens: it writes the     *)
(* curated scenario that is embedded in its binary, or brings the stored    *)
(* rows in line with it, compiles the graph and inserts the prerendered     *)
(* isochrones.  Any error ends the process, and somebody starts it again.   *)
(*                                                                         *)
(* Every statement that writes is a step, and so is every read that a write *)
(* depends on (the reads of one compile are one step), so that a process     *)
(* may stop between two of them and two processes, perhaps of different      *)
(* releases, may boot at the same time.  While some process listens,         *)
(* administrators edit the curated rows and users take slugs.               *)
(*                                                                         *)
(* One embedded scenario is followed; others says whether the database has  *)
(* another curated one.  The content of a row is a number, 0 being what an  *)
(* administrator wrote.  Of the fields that two releases may disagree on    *)
(* the provenance of a service is kept apart: an update does not write it.  *)
(*                                                                         *)
(* quiet, settled, wrote and cut are history, for the properties.           *)
(***************************************************************************)
EXTENDS Naturals, Sequences

CONSTANTS
  Procs,                 \* processes
  Releases,              \* versions of the embedded YAML
  Main,                  \* the row of the scenario
  Vehicles, Routes, Stations, Services,
  Times,                 \* the travel times, which are written as a whole
  Yaml,                  \* Yaml[v][i] is the content of row i, None if it has none
  Uses,                  \* Uses[i]: rows that a foreign key of i names
  None,
  MaxEvents              \* bound: crashes and shutdowns, what administrators and
                         \* users do, and starts while another process boots

Items == {Main, Times} \cup Vehicles \cup Routes \cup Stations \cup Services

Content == [body : Nat, provenance : Nat]

ASSUME SeedBootAssumption ==
  /\ Yaml \in [Releases -> [Items -> Content \cup {None}]]
  /\ \A v \in Releases : Yaml[v][Main] # None /\ Yaml[v][Times] # None
  /\ Uses \in [Items -> SUBSET (Items \ {Times})]
  /\ Main \notin Routes \cup Stations \cup Services /\ Vehicles \cap Services = {}
  /\ MaxEvents \in Nat

VARIABLES
  others,   \* whether there is another curated scenario
  db,       \* the rows
  taken,    \* slugs of the YAML that authored rows have
  links,    \* scenario_service
  stray,    \* whether the scenario has a service that is on no segment path
  graph,    \* the latest succeeded compile
  entry,    \* the prerendered isochrone
  proc,     \* the processes
  cut,      \* services whose insertion was not followed by the link
  events    \* how many of the bounded events there were

tables == <<others, db, taken, links, stray, graph, entry>>
vars   == <<tables, proc, cut, events>>

Row   == [there : BOOLEAN, home : BOOLEAN, body : Nat, provenance : Nat]
Graph == [Items \ {Main} -> Nat]
Entry == [ids : SUBSET Services, late : SUBSET Services]
Steps == {"down", "reconcile", "list", "row", "link", "compile", "record",
          "prerender", "insert entry", "serving"}
Proc  == [pc : Steps, release : Releases \cup {None},
          then : {"reconcile", "compile"}, \* what comes after the rows
          kind : Nat,                      \* the kind of rows that was listed last
          todo : SUBSET Items,             \* rows of it to be written,
          missing : SUBSET Items,          \* and those of them that were not listed
          graph : Graph \cup {None}, ids : SUBSET Services,
          quiet : BOOLEAN,                 \* nobody else has written since the start
          settled : BOOLEAN,               \* there was nothing to do at the start
          wrote : SUBSET {"row", "graph", "entry"}]

Absent == [there |-> FALSE, home |-> FALSE, body |-> 0, provenance |-> 0]
Down   == [pc |-> "down", release |-> None, then |-> "compile", kind |-> 0,
           todo |-> {}, missing |-> {}, graph |-> None, ids |-> {},
           quiet |-> FALSE, settled |-> FALSE, wrote |-> {}]

\* An empty database, or one with another curated scenario; an earlier release
\* that had only the other one may have let a user take the scenario's slug.
Init ==
  /\ others \in BOOLEAN
  /\ db = [i \in Items |-> Absent]
  /\ taken \in {{}, {Main}} /\ (taken # {} => others)
  /\ links = {} /\ stray = FALSE
  /\ graph = None /\ entry = None
  /\ proc = [p \in Procs |-> Down]
  /\ cut = {} /\ events = 0

----------------------------------------------------------------------------
\* loadEmbeddedScenarios: what the release of p has for row i.
Seed(p, i) == Yaml[proc[p].release][i]

\* The order in which rows are written.
Kinds == <<{Main}, Vehicles, Routes, Stations, Services, {Times}>>
KindOf(i) == CHOOSE k \in DOMAIN Kinds : i \in Kinds[k]

\* List*ByScenario: a route that was moved out of the scenario is not listed.
Listed(i) == IF db[i].home THEN db[i] ELSE Absent

\* ListServiceMembershipByScenario
Members == {v \in Services : db[v].there /\ v \in links}

\* PrerenderedOutdated: the membership is another, or a member is newer.
Outdated == entry.ids # Members \/ entry.late \cap Members # {}

\* What Compile makes of the rows of the scenario, the scenario itself and the
\* provenance of services not being among its arguments.
Compiled == [i \in Items \ {Main} |-> IF Listed(i).there THEN db[i].body + 1 ELSE 0]

\* CompileSeededScenario fails without travel times, for a service whose
\* stations or vehicle are missing, and for one that is on no segment path.
Compilable ==
  /\ db[Times].there /\ ~stray
  /\ \A v \in Services : db[v].there => \A i \in Uses[v] \ Routes : db[i].there

\* Whether the database has what the YAML of release v says, down to the
\* provenance, and a graph and an entry.
Settled(v) ==
  /\ Main \notin taken
  /\ \A i \in Items : Yaml[v][i] # None =>
       db[i] = [there |-> TRUE, home |-> TRUE, body |-> Yaml[v][i].body,
                provenance |-> Yaml[v][i].provenance]
  /\ graph = Compiled /\ entry # None

\* p goes on with new, and everybody else has been disturbed.
Wrote(p, new, what) ==
  proc' = [q \in Procs |-> IF q = p THEN [new EXCEPT !.wrote = @ \cup {what}]
                           ELSE [proc[q] EXCEPT !.quiet = FALSE]]
Read(p, new) == proc' = [proc EXCEPT ![p] = new]

Event == events < MaxEvents /\ events' = events + 1

\* A store call fails: loadStore returns the error and main exits.
Fail(p) == Read(p, Down) /\ UNCHANGED <<tables, events>>

\* A service that is written is newer than the entry.
Touch(i) == entry' = IF i \in Services /\ entry # None
                     THEN [entry EXCEPT !.late = @ \cup {i}] ELSE entry

----------------------------------------------------------------------------
\* The rows that the YAML of release v has of a kind.
Embedded(v, kind) == {i \in kind : Yaml[v][i] # None}

\* sameSeedContent of a stored row and an embedded one.
Same(row, c) == row.body = c.body /\ row.provenance = c.provenance

\* Mutant of HasCurated: the seed is looked for by the last of its parts.
HasTimes == others \/ db[Times].there

\* SeedIfEmpty writes only if ListCuratedScenarios is empty.
HasCurated == others \/ db[Main].there

\* The state of a process that is to write all rows, and then go on.
WriteAll(s, then) == [s EXCEPT !.pc = "row", !.kind = Len(Kinds), !.then = then,
                        !.todo = Embedded(s.release, Items), !.missing = Embedded(s.release, Items)]

\* A process is started, and SeedIfEmpty looks for curated scenarios.
Start(p) == \E v \in Releases :
  LET s == [Down EXCEPT !.release = v, !.quiet = TRUE, !.settled = Settled(v)] IN
  /\ proc[p].pc = "down"
  /\ IF \E q \in Procs : proc[q].pc \notin {"down", "serving"} THEN Event ELSE UNCHANGED events
  /\ Read(p, IF HasCurated THEN [s EXCEPT !.pc = "reconcile"] ELSE WriteAll(s, "reconcile"))
  /\ UNCHANGED <<tables, cut>>

\* When the rows of one kind are done the next kind is listed.
Advance(s) == IF s.todo # {} THEN [s EXCEPT !.pc = "row"]
              ELSE IF s.kind < Len(Kinds) THEN [s EXCEPT !.pc = "list", !.kind = @ + 1]
              ELSE [s EXCEPT !.pc = s.then, !.kind = 0, !.missing = {}]

\* The list of one kind: rows that are missing or differ are to be written.
Listing(s, kind) ==
  LET rows == Embedded(s.release, Kinds[kind])
      gone == {i \in rows : ~Listed(i).there}
  IN  Advance([s EXCEPT !.kind = kind, !.missing = gone,
                 !.todo = gone \cup {i \in rows \ gone : ~Same(db[i], Yaml[s.release][i])}])

\* reconcileEmbeddedScenario: an authored scenario is left alone, a missing one
\* is written as a whole.
Reconcile(p) ==
  /\ proc[p].pc = "reconcile"
  /\ Read(p, IF Main \in taken THEN [proc[p] EXCEPT !.pc = "compile"]
             ELSE IF ~db[Main].there THEN WriteAll(proc[p], "compile")
             ELSE Listing([proc[p] EXCEPT !.then = "compile"], 1))
  /\ UNCHANGED <<tables, cut, events>>

\* reconcileVehicleTypes to reconcileServices, and the travel times
List(p) ==
  /\ proc[p].pc = "list"
  /\ Read(p, Listing(proc[p], proc[p].kind))
  /\ UNCHANGED <<tables, cut, events>>

\* The row that is next; the order within a kind is some fixed one.
Current(p) == CHOOSE i \in proc[p].todo : \A j \in proc[p].todo : KindOf(i) <= KindOf(j)

\* A row was written; a service is then linked to its scenario.
AfterWrite(p) == IF Current(p) \in Services THEN [proc[p] EXCEPT !.pc = "link"]
                 ELSE Advance([proc[p] EXCEPT !.todo = @ \ {Current(p)}])

\* The rows that a foreign key of i names are there.
HasParts(i) == i # Main => db[Main].there /\ \A j \in Uses[i] : db[j].there

\* CreateRoute and the like insert and fail on an id or a slug that is taken;
\* CreateVehicleType does nothing then, and UpsertTravelTimes replaces.
Insertable(i) == HasParts(i) /\ i \notin taken /\ (i \in Vehicles \cup {Times} \/ ~db[i].there)

InsertedRow(i, c) == IF i \in Vehicles /\ db[i].there THEN db[i]
                     ELSE [there |-> TRUE, home |-> TRUE, body |-> c.body, provenance |-> c.provenance]

InsertRow(p) ==
  LET i == Current(p) IN
  /\ proc[p].pc = "row" /\ i \in proc[p].missing /\ Insertable(i)
  /\ db' = [db EXCEPT ![i] = InsertedRow(i, Seed(p, i))]
  /\ Touch(i)
  /\ Wrote(p, AfterWrite(p), "row")
  /\ UNCHANGED <<others, taken, links, stray, graph, cut, events>>

\* UpdateService and the like: all but the provenance.
Updated(row, c) == [row EXCEPT !.body = c.body, !.home = TRUE]

UpdateRow(p) ==
  LET i == Current(p) IN
  /\ proc[p].pc = "row" /\ i \notin proc[p].missing /\ db[i].there /\ HasParts(i)
  /\ db' = [db EXCEPT ![i] = Updated(@, Seed(p, i))]
  /\ Touch(i)
  /\ Wrote(p, AfterWrite(p), "row")
  /\ UNCHANGED <<others, taken, links, stray, graph, cut, events>>

RowFails(p) ==
  LET i == Current(p) IN
  /\ proc[p].pc = "row"
  /\ IF i \in proc[p].missing THEN ~Insertable(i) ELSE ~(db[i].there /\ HasParts(i))
  /\ Fail(p) /\ UNCHANGED cut

\* Mutant of Linked: a service that was rewritten is taken to be linked already.
LinkedIfInserted(p, v) == IF v \in proc[p].missing THEN links \cup {v} ELSE links

Linked(p, v) == links \cup {v}

\* AddServiceToScenario does nothing if the link is there.
LinkService(p) ==
  LET v == Current(p) IN
  /\ proc[p].pc = "link" /\ db[v].there
  /\ links' = Linked(p, v)
  /\ cut' = cut \ {v}
  /\ Wrote(p, Advance([proc[p] EXCEPT !.todo = @ \ {v}]), "row")
  /\ UNCHANGED <<others, db, taken, stray, graph, entry, events>>

LinkFails(p) ==
  /\ proc[p].pc = "link" /\ ~db[Current(p)].there
  /\ Fail(p) /\ UNCHANGED cut

----------------------------------------------------------------------------
\* Mutant of NeedsCompile: any compiled graph will do.
NeedsFirstCompile == graph = None

\* Mutant of NeedsCompile: every boot compiles.
NeedsCompileAgain == TRUE

\* CompileSeededIfNeeded: the stored graph is not what the rows compile to now.
NeedsCompile == graph # Compiled

\* The curated scenarios are looked up again: an authored one is not among them.
CompileSeeded(p) ==
  /\ proc[p].pc = "compile" /\ (Main \notin taken => Compilable)
  /\ Read(p, CASE Main \in taken -> [proc[p] EXCEPT !.pc = "serving"]
               [] Main \notin taken /\ NeedsCompile ->
                    [proc[p] EXCEPT !.pc = "record", !.graph = Compiled]
               [] Main \notin taken /\ ~NeedsCompile -> [proc[p] EXCEPT !.pc = "prerender"])
  /\ UNCHANGED <<tables, cut, events>>

CompileFails(p) ==
  /\ proc[p].pc = "compile" /\ Main \notin taken /\ ~Compilable
  /\ Fail(p) /\ UNCHANGED cut

\* recordCompiled; the gap between the job and its result is in CompileJobs.
RecordCompiled(p) ==
  /\ proc[p].pc = "record"
  /\ graph' = proc[p].graph
  /\ Wrote(p, [proc[p] EXCEPT !.pc = "prerender", !.graph = None], "graph")
  /\ UNCHANGED <<others, db, taken, links, stray, entry, cut, events>>

\* MembershipIDs of the members, read when a seed file is found to be new.
Snapshot == Members

\* seedScenarioPrerendered; without a new seed file LoadStore is next.
SeedPrerendered(p) ==
  /\ proc[p].pc = "prerender"
  /\ Read(p, IF entry # None THEN [proc[p] EXCEPT !.pc = "serving"]
             ELSE [proc[p] EXCEPT !.pc = "insert entry", !.ids = Snapshot])
  /\ UNCHANGED <<tables, cut, events>>

\* CreatePrerenderedIsochrone, and LoadStore.
InsertEntry(p) ==
  /\ proc[p].pc = "insert entry" /\ entry = None
  /\ entry' = [ids |-> proc[p].ids, late |-> {}]
  /\ Wrote(p, [proc[p] EXCEPT !.pc = "serving", !.ids = {}], "entry")
  /\ UNCHANGED <<others, db, taken, links, stray, graph, cut, events>>

InsertEntryFails(p) ==
  /\ proc[p].pc = "insert entry" /\ entry # None
  /\ Fail(p) /\ UNCHANGED cut

\* A process is stopped or crashes, at any point.
Stop(p) ==
  /\ proc[p].pc # "down" /\ Event
  /\ Read(p, Down)
  /\ cut' = IF proc[p].pc = "link" /\ Current(p) \notin links
            THEN cut \cup {Current(p)} ELSE cut
  /\ UNCHANGED tables

----------------------------------------------------------------------------
(* Administrators, who may change curated rows, and users *)

Edit == (\E p \in Procs : proc[p].pc = "serving") /\ Event
        /\ proc' = [p \in Procs |-> [proc[p] EXCEPT !.quiet = FALSE]]
        /\ UNCHANGED <<others, graph>>

\* UpdateOwnedScenario, UpdateOwnedStation, UpdateOwnedService,
\* ReplaceOwnedTravelTimes; UpdateOwnedRoute may also take the route out of the
\* scenario or put it back.
EditRow(i, home) ==
  /\ db[i].there /\ i \notin Vehicles /\ (home \/ i \in Routes)
  /\ Edit
  /\ db' = [db EXCEPT ![i] = [@ EXCEPT !.body = 0, !.home = home]]
  /\ Touch(i)
  /\ UNCHANGED <<taken, links, stray, cut>>

\* DeleteOwnedService, DeleteOwnedStation, DeleteOwnedRoute: nothing depends on
\* the row.  Edited travel times may be without the route.
DeleteRow(i) ==
  /\ db[i].there /\ i \in Services \cup Stations \cup Routes
  /\ \A v \in Services : db[v].there => i \notin Uses[v]
  /\ i \in Routes /\ db[Times].there => db[Times].body = 0
  /\ Edit
  /\ db' = [db EXCEPT ![i] = Absent]
  /\ links' = links \ {i} /\ cut' = cut \ {i}
  /\ UNCHANGED <<taken, stray, entry>>

\* CreateOwnedService in the curated scenario, at a station that no segment
\* of the travel times reaches.
AddStray ==
  /\ db[Main].there /\ ~stray /\ Edit
  /\ stray' = TRUE
  /\ UNCHANGED <<db, taken, links, entry, cut>>

\* CreateOwnedScenario, CreateOwnedRoute and, for a station of the curated
\* scenario, CreateOwnedStation mint a slug that is free.
TakeSlug(i) ==
  /\ i \in {Main} \cup Routes \cup Stations /\ (i \in Stations => db[Main].there)
  /\ ~db[i].there /\ i \notin taken
  /\ Edit
  /\ taken' = taken \cup {i}
  /\ UNCHANGED <<db, links, stray, entry, cut>>

----------------------------------------------------------------------------
Boot(p) ==
  \/ Start(p) \/ Reconcile(p) \/ List(p)
  \/ InsertRow(p) \/ UpdateRow(p) \/ RowFails(p)
  \/ LinkService(p) \/ LinkFails(p)
  \/ CompileSeeded(p) \/ CompileFails(p) \/ RecordCompiled(p)
  \/ SeedPrerendered(p) \/ InsertEntry(p) \/ InsertEntryFails(p)

Change == \/ \E i \in Items : DeleteRow(i) \/ TakeSlug(i) \/ \E home \in BOOLEAN : EditRow(i, home)
          \/ AddStray

Next == Change \/ \E p \in Procs : Boot(p) \/ Stop(p)

Spec == Init /\ [][Next]_vars

\* A process that is down is started again, and its boot is not suspended.
FairSpec == Spec /\ \A p \in Procs : WF_vars(Boot(p))

----------------------------------------------------------------------------
\* Rows, processes and counters have their types, and authored rows do not
\* share a slug with stored rows of the YAML (CreateRoute, CreateScenario).
TypeOK ==
  /\ others \in BOOLEAN /\ stray \in BOOLEAN
  /\ db \in [Items -> Row] /\ links \subseteq Services /\ cut \subseteq Services
  /\ taken \subseteq {i \in Items : ~db[i].there}
  /\ graph \in Graph \cup {None} /\ entry \in Entry \cup {None}
  /\ \A p \in Procs : proc[p] \in Proc
  /\ events \in 0..MaxEvents

Served(p) == proc[p].pc = "serving" /\ proc[p].quiet /\ Main \notin taken

\* A process that booted while nobody else wrote serves its release, whatever
\* release, crash or edit came before: every row of its YAML is in the scenario
\* with the YAML's content (ReconcileSeed; the provenance of a service is not
\* among it), the graph is the one of these rows (CompileSeededIfNeeded comes
\* after it and compares contents), and a prerendered isochrone that the boot
\* inserted is not outdated from its first read (SeedPrerenderedIsochrones comes
\* last and snapshots the membership).
ServesItsRelease == \A p \in Procs : Served(p) =>
  /\ \A i \in Items : Seed(p, i) # None =>
       db[i].there /\ db[i].home /\ db[i].body = Seed(p, i).body
  /\ graph = Compiled
  /\ "entry" \in proc[p].wrote => ~Outdated

\* A boot against a database that matches its YAML in every field, the
\* provenance of services included, writes nothing (sameSeedContent,
\* sameCompiledGraph, the ids of the seed files).
SettledIsLeftAlone == \A p \in Procs : proc[p].settled /\ proc[p].quiet => proc[p].wrote = {}

\* A seeded service that is not linked to its scenario is about to be, or its
\* insertion was cut short: no other order of boots, edits and deletions loses a
\* link (AddServiceToScenario follows CreateService and UpdateService).
\* (With the types.)
UnlinkedWasCut == TypeOK /\ \A v \in Services : db[v].there =>
  \/ v \in links \cup cut
  \/ \E p \in Procs : proc[p].pc = "link" /\ Current(p) = v

\* A YAML row that cannot be inserted: its slug is taken, or it is there but no
\* longer in the scenario.  Or the scenario does not compile.
Blocked ==
  \/ stray
  \/ \E v \in Releases, i \in Routes \cup Stations :
       Yaml[v][i] # None /\ (i \in taken \/ (db[i].there /\ ~db[i].home))

\* However boots are cut short or collide, every process serves in the end,
\* unless an authored row is in the way (loadStore makes every error fatal).
EveryBootServes == \A p \in Procs : proc[p].pc # "serving" ~> proc[p].pc = "serving" \/ Blocked

\* A YAML edit reaches a deployed database on the next boot
\* (docs/adr/0002-seed-reconciliation.md), every field of it.
YamlReaches == \A p \in Procs : Served(p) =>
  \A i \in Items : Seed(p, i) # None => Same(db[i], Seed(p, i))
=============================================================================
