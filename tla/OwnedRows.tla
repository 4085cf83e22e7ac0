----------------------------- MODULE OwnedRows -----------------------------
(***************************************************************************)
(* Scenarios, routes, stations, services and travel times that people own,  *)
(* beside the curated ones that nobody owns: who may put what where, and    *)
(* what a deletion takes with it.                                          *)
(*                                                                         *)
(* A handler reads (loads the row, authorises the caller, resolves slugs,   *)
(* counts dependents) and then writes in one statement or transaction; the  *)
(* reads of a handler are one step.  Rows are addressed by id, and ids are  *)
(* not used twice, but a scenario is found by its slug, which is free again *)
(* once the scenario is deleted: a slug with a generation is an id.  (The   *)
(* slugs of the other rows are in one piece with their ids.)  The           *)
(* foreign keys decide what a deletion cascades to and what it fails on;    *)
(* a write that fails on one answers 500 and changes nothing.  Names and    *)
(* geometry are left out, and with them the handlers that edit only those.  *)
(*                                                                         *)
(* byAdmin, placedBy, seen and of are history: who placed a row, the routes *)
(* that a deletion of a scenario counted, and the owner of the draft that a  *)
(* handler read.                                                           *)
(***************************************************************************)
EXTENDS Naturals, FiniteSets

CONSTANTS
  Users, Admins,       \* accounts, and those with is_admin
  Curated, Authored,   \* slugs of scenarios: of the platform, of users
  Routes, Stations, Services, Drafts,  \* ids; drafts are user_services
  Seeded, Planted,     \* ids of rows that are there at the start
  Requests,            \* requests running at the same time
  None,                \* nobody, nothing
  MinStops,            \* a service needs at least this many stops
  MaxRequests          \* bound: requests that are served

ASSUME OwnedRowsAssumption ==
  /\ Admins \subseteq Users /\ None \notin Users \cup Routes \cup Authored \cup {Curated}
  /\ Curated \notin Authored
  /\ Seeded \subseteq Routes \cup Stations /\ Planted \subseteq Routes \cup Stations \cup Services
  /\ Planted \cap Services # {} =>      \* a service runs on a route
       Seeded \cap Routes # {} /\ (Planted \cap Routes) \ Seeded # {}
  /\ MinStops \in Nat \ {0} /\ MaxRequests \in Nat

VARIABLES
  scenarios,  \* by slug
  routes, stations, services, drafts,
  segments,   \* travel times of each scenario
  req,        \* the requests
  served      \* how many requests there have been

rows == <<scenarios, routes, stations, services, drafts, segments>>
vars == <<rows, req, served>>

Slugs    == Authored \cup {Curated}
Owner    == Users \cup {None}
Row      == {"none", "there", "gone"}
Scenario == [there : BOOLEAN, owner : Owner, gen : Nat]
Route    == [row : Row, owner : Owner, scenario : Slugs \cup {None}, byAdmin : BOOLEAN]
Station  == [row : Row, scenario : Slugs \cup {None}]
Service  == [row : Row, owner : Owner, scenario : Slugs \cup {None}, route : Routes \cup {None},
             stops : SUBSET Stations, byAdmin : BOOLEAN]
Draft    == [row : Row, owner : Owner, route : Routes \cup {None}, placedBy : Owner]
Segment  == [route : Routes, at : Stations]
Steps    == {"idle", "create scenario", "delete scenario",
             "create route", "curate route", "update route", "delete route",
             "create station", "delete station", "create service", "update service",
             "delete service", "replace times", "create draft", "update draft", "delete draft"}
Request  == [pc : Steps, user : Owner, slug : Slugs \cup {None}, gen : Nat,
             id : Routes \cup Stations \cup Services \cup Drafts \cup {None},
             route : Routes \cup {None}, stops : SUBSET Stations,
             segments : SUBSET Segment, seen : SUBSET Routes, of : Owner]

Idle == [pc |-> "idle", user |-> None, slug |-> None, gen |-> 0, id |-> None,
         route |-> None, stops |-> {}, segments |-> {}, seen |-> {}, of |-> None]

\* A seeded database, to which somebody (unless owner is None) has added a
\* scenario with a route and a station; the service is there too, curated or in
\* the scenario.
Init == \E owner \in Owner, c \in Authored, home \in Slugs :
  LET placed == IF owner = None THEN {} ELSE Planted
      where(id) == IF id \in Seeded THEN Curated ELSE IF id \in placed THEN c ELSE None
      ownerOf(k) == IF k = Curated THEN None ELSE owner
  IN
  /\ home \in {Curated, c}
  /\ scenarios = [k \in Slugs |-> [there |-> k = Curated \/ (k = c /\ owner # None),
                                  owner |-> IF k = c THEN owner ELSE None, gen |-> 0]]
  /\ routes = [t \in Routes |->
       [row |-> IF where(t) = None THEN "none" ELSE "there", scenario |-> where(t),
        owner |-> ownerOf(where(t)), byAdmin |-> FALSE]]
  /\ stations = [n \in Stations |->
       [row |-> IF where(n) = None THEN "none" ELSE "there", scenario |-> where(n)]]
  /\ services = [v \in Services |->
       IF v \notin placed
       THEN [row |-> "none", owner |-> None, scenario |-> None, route |-> None,
             stops |-> {}, byAdmin |-> FALSE]
       ELSE [row |-> "there", owner |-> ownerOf(home), scenario |-> home,
             route |-> CHOOSE t \in Routes : where(t) = home,
             stops |-> {n \in Stations : where(n) = home}, byAdmin |-> FALSE]]
  /\ drafts = [w \in Drafts |->
       [row |-> "none", owner |-> None, route |-> None, placedBy |-> None]]
  /\ segments = [k \in Slugs |-> {}]
  /\ req = [r \in Requests |-> Idle]
  /\ served = 0

----------------------------------------------------------------------------
\* auth.CanAccess: the owner and every administrator.
CanAccess(u, owner) == u \in Admins \/ u = owner

\* Mutant of CanReference: a route may be used by whoever knows its slug.
CanReferenceAll(u, owner) == TRUE

\* auth.CanReference: curated rows are building blocks for everyone.
CanReference(u, owner) == owner = None \/ CanAccess(u, owner)

\* Mutant of OwnScenario: a curated scenario may be named by everyone.
OwnScenarioOrCurated(u, c) == scenarios[c].there /\ CanReference(u, scenarios[c].owner)

\* loadOwnedScenario: found by its slug and the caller may change it.
OwnScenario(u, c) == scenarios[c].there /\ CanAccess(u, scenarios[c].owner)

\* resolveOwnScenarioOrFail: no scenario, or one that the caller may change.
OwnOrNoScenario(u, c) == c \in {None} \cup {k \in Slugs : OwnScenario(u, k)}

\* loadOwnedRoute and loadOwnedService.
OwnRoute(u, t)   == routes[t].row = "there" /\ CanAccess(u, routes[t].owner)
OwnService(u, v) == services[v].row = "there" /\ CanAccess(u, services[v].owner)

\* loadOwnedStation: through the scenario that it belongs to.
OwnStation(u, n) == stations[n].row = "there" /\ OwnScenario(u, stations[n].scenario)

\* What belongs to a scenario: ListRoutesByScenario and the like.
RoutesIn(c)   == {t \in Routes : routes[t].row = "there" /\ routes[t].scenario = c}
ServicesIn(c) == {v \in Services : services[v].row = "there" /\ services[v].scenario = c}
StationsIn(c) == {n \in Stations : stations[n].row = "there" /\ stations[n].scenario = c}

\* resolveServiceStops: distinct stations of the scenario, enough of them.
StopsOf(c) == {s \in SUBSET StationsIn(c) : Cardinality(s) >= MinStops}

\* resolveSegments: tracks of the scenario's routes between its stations.
SegmentsOf(c) == [route : RoutesIn(c), at : StationsIn(c)]

\* The foreign key to the scenario that was resolved.
ScenarioStays(r) ==
  req[r].slug \in {None} \cup {c \in Slugs : scenarios[c].there /\ scenarios[c].gen = req[r].gen}
GenOf(c) == IF c = None THEN 0 ELSE scenarios[c].gen

\* The tables without the routes ts: user_services and segments cascade.
RoutesWithout(ts)   == [t \in Routes |-> IF t \in ts THEN [routes[t] EXCEPT !.row = "gone"] ELSE routes[t]]
DraftsWithout(ts)   == [w \in Drafts |-> IF drafts[w].row = "there" /\ drafts[w].route \in ts
                                         THEN [drafts[w] EXCEPT !.row = "gone"] ELSE drafts[w]]
SegmentsWithout(ts) == [c \in Slugs |-> {g \in segments[c] : g.route \notin ts}]

Begin(r, fields) ==
  /\ req[r].pc = "idle" /\ served < MaxRequests
  /\ req' = [req EXCEPT ![r] = fields]
  /\ served' = served + 1
  /\ UNCHANGED rows

\* A request ends with its write, or with a 500 and no change.
Answer(r) == req' = [req EXCEPT ![r] = Idle] /\ UNCHANGED served
Fail(r)   == Answer(r) /\ UNCHANGED rows

----------------------------------------------------------------------------
(* Scenarios *)

\* mintOwnedScenarioSlug: a slug that no scenario has.
MintScenarioSlug(c) == c \in Authored /\ ~scenarios[c].there

CreateScenarioBegin(r, u, c) ==
  /\ MintScenarioSlug(c)
  /\ Begin(r, [Idle EXCEPT !.pc = "create scenario", !.user = u, !.slug = c])

CreateScenario(r) ==
  LET c == req[r].slug IN
  /\ req[r].pc = "create scenario"
  /\ ~scenarios[c].there
  /\ scenarios' = [scenarios EXCEPT ![c] =
       [there |-> TRUE, owner |-> req[r].user, gen |-> @.gen + 1]]
  /\ Answer(r)
  /\ UNCHANGED <<routes, stations, services, drafts, segments>>

\* CountUnownedScenarioChildren.  A station has the owner of its scenario.
CuratedChildren(c) ==
  {t \in RoutesIn(c) : routes[t].owner = None}
    \cup {n \in StationsIn(c) : scenarios[c].owner = None}
    \cup {v \in ServicesIn(c) : services[v].owner = None}

DeleteScenarioBegin(r, u, c) ==
  /\ OwnScenario(u, c) /\ CuratedChildren(c) = {}
  /\ Begin(r, [Idle EXCEPT !.pc = "delete scenario", !.user = u, !.slug = c,
                           !.gen = scenarios[c].gen, !.seen = RoutesIn(c)])

\* A service of another scenario that runs on a route or stops at a station of
\* this one keeps its rows, and the deletion fails.
HeldFromOutside(c) == \E v \in Services :
  /\ services[v].row = "there" /\ services[v].scenario # c
  /\ services[v].route \in RoutesIn(c) \/ services[v].stops \cap StationsIn(c) # {}

\* Everything in the scenario goes with it, and what is built on its routes.
DeleteScenario(r) ==
  LET c == req[r].slug IN
  /\ req[r].pc = "delete scenario"
  /\ ScenarioStays(r) /\ ~HeldFromOutside(c)
  /\ scenarios' = [scenarios EXCEPT ![c] = [@ EXCEPT !.there = FALSE, !.owner = None]]
  /\ routes' = RoutesWithout(RoutesIn(c))
  /\ stations' = [n \in Stations |-> IF n \in StationsIn(c)
                    THEN [stations[n] EXCEPT !.row = "gone"] ELSE stations[n]]
  /\ services' = [v \in Services |-> IF v \in ServicesIn(c)
                    THEN [services[v] EXCEPT !.row = "gone"] ELSE services[v]]
  /\ drafts' = DraftsWithout(RoutesIn(c))
  /\ segments' = [SegmentsWithout(RoutesIn(c)) EXCEPT ![c] = {}]
  /\ Answer(r)

----------------------------------------------------------------------------
(* Routes *)

\* mintRouteSlug, or the slug that the administrator gives: not in use.
MintRouteSlug(t) == routes[t].row = "none"

CreateRouteBegin(r, u, t, c) ==
  /\ OwnOrNoScenario(u, c) /\ MintRouteSlug(t)
  /\ Begin(r, [Idle EXCEPT !.pc = "create route", !.user = u, !.id = t,
                           !.slug = c, !.gen = GenOf(c)])

\* The administrators' CreateRoute: nobody owns the route, and the scenario
\* that it names must be a curated one.
CurateRouteBegin(r, u, t, c) ==
  /\ u \in Admins /\ MintRouteSlug(t)
  /\ c # None => scenarios[c].there /\ scenarios[c].owner = None
  /\ Begin(r, [Idle EXCEPT !.pc = "curate route", !.user = u, !.id = t,
                           !.slug = c, !.gen = GenOf(c)])

CreateRoute(r) ==
  LET t == req[r].id IN
  /\ req[r].pc \in {"create route", "curate route"}
  /\ ScenarioStays(r) /\ routes[t].row = "none"
  /\ routes' = [routes EXCEPT ![t] =
       [row |-> "there", scenario |-> req[r].slug, byAdmin |-> req[r].user \in Admins,
        owner |-> IF req[r].pc = "create route" THEN req[r].user ELSE None]]
  /\ Answer(r)
  /\ UNCHANGED <<scenarios, stations, services, drafts, segments>>

UpdateRouteBegin(r, u, t, c) ==
  /\ OwnRoute(u, t) /\ OwnOrNoScenario(u, c)
  /\ Begin(r, [Idle EXCEPT !.pc = "update route", !.user = u, !.id = t,
                           !.slug = c, !.gen = GenOf(c)])

\* The owner stays; what is built on the route is not asked.
UpdateRoute(r) ==
  LET t == req[r].id IN
  /\ req[r].pc = "update route"
  /\ ScenarioStays(r) /\ routes[t].row = "there"
  /\ routes' = [routes EXCEPT ![t] =
       [@ EXCEPT !.scenario = req[r].slug, !.byAdmin = req[r].user \in Admins]]
  /\ Answer(r)
  /\ UNCHANGED <<scenarios, stations, services, drafts, segments>>

\* CountRouteDependents, by kind.
Dependents(t) ==
  {v \in Services : services[v].row = "there" /\ services[v].route = t}
    \cup {w \in Drafts : drafts[w].row = "there" /\ drafts[w].route = t}
    \cup {c \in Slugs : \E g \in segments[c] : g.route = t}

DeleteRouteBegin(r, u, t) ==
  /\ OwnRoute(u, t) /\ Dependents(t) = {}
  /\ Begin(r, [Idle EXCEPT !.pc = "delete route", !.user = u, !.id = t])

\* A service that appeared since keeps the route; a draft or a segment goes.
DeleteRoute(r) ==
  LET t == req[r].id IN
  /\ req[r].pc = "delete route"
  /\ routes[t].row = "there"
  /\ ~\E v \in Services : services[v].row = "there" /\ services[v].route = t
  /\ routes' = RoutesWithout({t})
  /\ drafts' = DraftsWithout({t})
  /\ segments' = SegmentsWithout({t})
  /\ Answer(r)
  /\ UNCHANGED <<scenarios, stations, services>>

----------------------------------------------------------------------------
(* Stations *)

\* mintStationSlug
MintStationSlug(n) == stations[n].row = "none"

CreateStationBegin(r, u, n, c) ==
  /\ OwnScenario(u, c) /\ MintStationSlug(n)
  /\ Begin(r, [Idle EXCEPT !.pc = "create station", !.user = u, !.id = n,
                           !.slug = c, !.gen = scenarios[c].gen])

\* Mutant of CreateStation: no foreign key ties the station to its scenario.
CreateStationUntied(r) ==
  LET n == req[r].id IN
  /\ req[r].pc = "create station" /\ stations[n].row = "none"
  /\ stations' = [stations EXCEPT ![n] = [row |-> "there", scenario |-> req[r].slug]]
  /\ Answer(r)
  /\ UNCHANGED <<scenarios, routes, services, drafts, segments>>

\* The station takes the scenario's owner.
CreateStation(r) ==
  LET n == req[r].id IN
  /\ req[r].pc = "create station"
  /\ ScenarioStays(r) /\ stations[n].row = "none"
  /\ stations' = [stations EXCEPT ![n] = [row |-> "there", scenario |-> req[r].slug]]
  /\ Answer(r)
  /\ UNCHANGED <<scenarios, routes, services, drafts, segments>>

\* CountStationDependents
ServedBy(n) == {v \in Services : services[v].row = "there" /\ n \in services[v].stops}

DeleteStationBegin(r, u, n) ==
  /\ OwnStation(u, n) /\ ServedBy(n) = {}
  /\ Begin(r, [Idle EXCEPT !.pc = "delete station", !.user = u, !.id = n])

\* Travel times name stations by slug and stay.
DeleteStation(r) ==
  LET n == req[r].id IN
  /\ req[r].pc = "delete station"
  /\ stations[n].row = "there" /\ ServedBy(n) = {}
  /\ stations' = [stations EXCEPT ![n] = [@ EXCEPT !.row = "gone"]]
  /\ Answer(r)
  /\ UNCHANGED <<scenarios, routes, services, drafts, segments>>

----------------------------------------------------------------------------
(* Services *)

\* resolveOwnedService: the scenario the caller may change, a route the caller
\* may use, stations of that scenario.
ResolvedService(u, c, t, stops) ==
  /\ OwnScenario(u, c)
  /\ routes[t].row = "there" /\ CanReference(u, routes[t].owner)
  /\ stops \in StopsOf(c)

CreateServiceBegin(r, u, v, c, t, stops) ==
  /\ services[v].row = "none" /\ ResolvedService(u, c, t, stops)
  /\ Begin(r, [Idle EXCEPT !.pc = "create service", !.user = u, !.id = v, !.slug = c,
                           !.gen = scenarios[c].gen, !.route = t, !.stops = stops])

\* The route and the stations are foreign keys.
PartsStay(r) == routes[req[r].route].row = "there"
                /\ \A n \in req[r].stops : stations[n].row = "there"

CreateService(r) ==
  LET v == req[r].id IN
  /\ req[r].pc = "create service"
  /\ ScenarioStays(r) /\ PartsStay(r) /\ services[v].row = "none"
  /\ services' = [services EXCEPT ![v] =
       [row |-> "there", owner |-> req[r].user, scenario |-> req[r].slug,
        route |-> req[r].route, stops |-> req[r].stops, byAdmin |-> req[r].user \in Admins]]
  /\ Answer(r)
  /\ UNCHANGED <<scenarios, routes, stations, drafts, segments>>

UpdateServiceBegin(r, u, v, c, t, stops) ==
  /\ OwnService(u, v) /\ ResolvedService(u, c, t, stops)
  /\ Begin(r, [Idle EXCEPT !.pc = "update service", !.user = u, !.id = v, !.slug = c,
                           !.gen = scenarios[c].gen, !.route = t, !.stops = stops])

\* The statement writes neither the owner nor the scenario, so a service keeps
\* its scenario when the request named another one, whose stations it takes.
UpdateService(r) ==
  LET v == req[r].id IN
  /\ req[r].pc = "update service"
  /\ PartsStay(r) /\ services[v].row = "there"
  /\ services' = [services EXCEPT ![v] =
       [@ EXCEPT !.route = req[r].route, !.stops = req[r].stops]]
  /\ Answer(r)
  /\ UNCHANGED <<scenarios, routes, stations, drafts, segments>>

DeleteServiceBegin(r, u, v) ==
  /\ OwnService(u, v)
  /\ Begin(r, [Idle EXCEPT !.pc = "delete service", !.user = u, !.id = v])

DeleteService(r) ==
  LET v == req[r].id IN
  /\ req[r].pc = "delete service" /\ services[v].row = "there"
  /\ services' = [services EXCEPT ![v] = [@ EXCEPT !.row = "gone"]]
  /\ Answer(r)
  /\ UNCHANGED <<scenarios, routes, stations, drafts, segments>>

----------------------------------------------------------------------------
(* Travel times *)

ReplaceTimesBegin(r, u, c, g) ==
  /\ OwnScenario(u, c) /\ g \in SUBSET SegmentsOf(c) /\ Cardinality(g) <= 1
  /\ Begin(r, [Idle EXCEPT !.pc = "replace times", !.user = u, !.slug = c,
                           !.gen = scenarios[c].gen, !.segments = g])

\* UpsertTravelTimes finds the scenario by its slug again and replaces all of
\* its segments; their routes are foreign keys.
UpsertTravelTimes(r) ==
  LET c == req[r].slug IN
  /\ req[r].pc = "replace times"
  /\ scenarios[c].there
  /\ \A g \in req[r].segments : routes[g.route].row = "there"
  /\ segments' = [segments EXCEPT ![c] = req[r].segments]
  /\ Answer(r)
  /\ UNCHANGED <<scenarios, routes, stations, services, drafts>>

----------------------------------------------------------------------------
(* Drafts: user_services, as far as routes are concerned *)

\* validateAndSnapService: a route that the caller may use.
UsableRoute(u, t) == routes[t].row = "there" /\ CanReference(u, routes[t].owner)

\* loadService and authorizeService.
OwnDraft(u, w) == drafts[w].row = "there" /\ CanAccess(u, drafts[w].owner)

CreateDraftBegin(r, u, w, t) ==
  /\ drafts[w].row = "none" /\ UsableRoute(u, t)
  /\ Begin(r, [Idle EXCEPT !.pc = "create draft", !.user = u, !.id = w, !.route = t])

CreateDraft(r) ==
  LET w == req[r].id IN
  /\ req[r].pc = "create draft"
  /\ routes[req[r].route].row = "there" /\ drafts[w].row = "none"
  /\ drafts' = [drafts EXCEPT ![w] = [row |-> "there", owner |-> req[r].user,
                                      route |-> req[r].route, placedBy |-> req[r].user]]
  /\ Answer(r)
  /\ UNCHANGED <<scenarios, routes, stations, services, segments>>

\* It is the caller, an administrator perhaps, and not the owner of the draft
\* who must be able to use the route.
UpdateDraftBegin(r, u, w, t) ==
  /\ OwnDraft(u, w) /\ UsableRoute(u, t)
  /\ Begin(r, [Idle EXCEPT !.pc = "update draft", !.user = u, !.id = w, !.route = t,
                           !.of = drafts[w].owner])

\* The owner stays, whoever that is by now.
UpdateDraft(r) ==
  LET w == req[r].id IN
  /\ req[r].pc = "update draft"
  /\ routes[req[r].route].row = "there" /\ drafts[w].row = "there"
  /\ drafts' = [drafts EXCEPT ![w] =
       [@ EXCEPT !.route = req[r].route, !.placedBy = req[r].user]]
  /\ Answer(r)
  /\ UNCHANGED <<scenarios, routes, stations, services, segments>>

DeleteDraftBegin(r, u, w) ==
  /\ OwnDraft(u, w)
  /\ Begin(r, [Idle EXCEPT !.pc = "delete draft", !.user = u, !.id = w,
                           !.of = drafts[w].owner])

DeleteDraft(r) ==
  LET w == req[r].id IN
  /\ req[r].pc = "delete draft" /\ drafts[w].row = "there"
  /\ drafts' = [drafts EXCEPT ![w] = [@ EXCEPT !.row = "gone"]]
  /\ Answer(r)
  /\ UNCHANGED <<scenarios, routes, stations, services, segments>>

\* moveLockedUserService, when an offer is accepted or an administrator forces
\* the move (Handovers has when): the draft of w goes to u, with a copy of its
\* route unless u owns the route or nobody does.
MoveDraft(w, u) ==
  LET t == drafts[w].route
      moved(k) == [drafts EXCEPT ![w] = [@ EXCEPT !.owner = u, !.route = k, !.placedBy = u]]
  IN
  /\ drafts[w].row = "there" /\ drafts[w].owner # u
  /\ \/ /\ routes[t].owner \in {None, u}
        /\ drafts' = moved(t) /\ UNCHANGED routes
     \/ /\ routes[t].owner \notin {None, u}
        /\ \E k \in Routes :
             /\ MintRouteSlug(k)
             /\ routes' = [routes EXCEPT ![k] =
                  [row |-> "there", owner |-> u, scenario |-> None, byAdmin |-> FALSE]]
             /\ drafts' = moved(k)
  /\ UNCHANGED <<scenarios, stations, services, segments, req, served>>

----------------------------------------------------------------------------
\* A write that finds its row gone, its slug taken or a foreign key violated.
WriteFails(r) ==
  /\ \/ req[r].pc = "create scenario" /\ scenarios[req[r].slug].there
     \/ /\ req[r].pc \in {"create route", "curate route", "create station", "create service"}
        /\ ~ScenarioStays(r)
     \/ req[r].pc = "update route" /\ (routes[req[r].id].row # "there" \/ ~ScenarioStays(r))
     \/ /\ req[r].pc = "delete scenario"
        /\ ~ScenarioStays(r) \/ HeldFromOutside(req[r].slug)
     \/ /\ req[r].pc = "delete route"
        /\ \/ routes[req[r].id].row # "there"
           \/ \E v \in Services : services[v].row = "there" /\ services[v].route = req[r].id
     \/ /\ req[r].pc = "delete station"
        /\ stations[req[r].id].row # "there" \/ ServedBy(req[r].id) # {}
     \/ req[r].pc \in {"create service", "update service"} /\ ~PartsStay(r)
     \/ req[r].pc \in {"update service", "delete service"} /\ services[req[r].id].row # "there"
     \/ /\ req[r].pc = "replace times"
        /\ \/ ~scenarios[req[r].slug].there
           \/ \E g \in req[r].segments : routes[g.route].row # "there"
     \/ req[r].pc \in {"create draft", "update draft"} /\ routes[req[r].route].row # "there"
     \/ req[r].pc = "create draft" /\ drafts[req[r].id].row # "none"
     \/ req[r].pc \in {"update draft", "delete draft"} /\ drafts[req[r].id].row # "there"
     \/ req[r].pc \in {"create route", "curate route"} /\ routes[req[r].id].row # "none"
     \/ req[r].pc = "create station" /\ stations[req[r].id].row # "none"
  /\ Fail(r)

\* The id of a service is a new one.
Fresh(id) == \A r \in Requests : req[r].id # id

Arrive(r, u) ==
  \/ \E c \in Slugs :
       \/ CreateScenarioBegin(r, u, c) \/ DeleteScenarioBegin(r, u, c)
       \/ \E n \in Stations : CreateStationBegin(r, u, n, c)
       \/ \E g \in SUBSET SegmentsOf(c) : ReplaceTimesBegin(r, u, c, g)
       \/ \E v \in Services, t \in Routes, stops \in StopsOf(c) :
            \/ Fresh(v) /\ CreateServiceBegin(r, u, v, c, t, stops)
            \/ UpdateServiceBegin(r, u, v, c, t, stops)
  \/ \E t \in Routes :
       \/ DeleteRouteBegin(r, u, t)
       \/ \E c \in Slugs \cup {None} :
            \/ CreateRouteBegin(r, u, t, c)
            \/ CurateRouteBegin(r, u, t, c)
            \/ UpdateRouteBegin(r, u, t, c)
       \/ \E w \in Drafts : CreateDraftBegin(r, u, w, t) \/ UpdateDraftBegin(r, u, w, t)
  \/ \E n \in Stations : DeleteStationBegin(r, u, n)
  \/ \E v \in Services : DeleteServiceBegin(r, u, v)
  \/ \E w \in Drafts : DeleteDraftBegin(r, u, w)

Step(r) ==
  \/ CreateScenario(r) \/ DeleteScenario(r)
  \/ CreateRoute(r) \/ UpdateRoute(r) \/ DeleteRoute(r)
  \/ CreateStation(r) \/ DeleteStation(r)
  \/ CreateService(r) \/ UpdateService(r) \/ DeleteService(r)
  \/ UpsertTravelTimes(r)
  \/ CreateDraft(r) \/ UpdateDraft(r) \/ DeleteDraft(r)
  \/ WriteFails(r)

Next ==
  \/ \E r \in Requests : Step(r) \/ \E u \in Users : Arrive(r, u)
  \/ \E w \in Drafts, u \in Users : MoveDraft(w, u)

Spec == Init /\ [][Next]_vars

----------------------------------------------------------------------------
\* Every table and every request has its type, and what a row refers to is
\* there: its scenario, its route, its stations.
TypeOK ==
  /\ scenarios \in [Slugs -> Scenario]
  /\ routes \in [Routes -> Route] /\ stations \in [Stations -> Station]
  /\ \A v \in Services : services[v] \in Service
  /\ drafts \in [Drafts -> Draft]
  /\ \A c \in Slugs : segments[c] \subseteq Segment
  /\ \A r \in Requests : req[r] \in Request
  /\ served \in 0..MaxRequests
  /\ \A t \in Routes : routes[t].row = "there" =>
       routes[t].scenario \in {None} \cup {c \in Slugs : scenarios[c].there}
  /\ \A n \in Stations : stations[n].row = "there" => scenarios[stations[n].scenario].there
  /\ \A v \in Services : services[v].row = "there" =>
       /\ scenarios[services[v].scenario].there /\ routes[services[v].route].row = "there"
       /\ \A n \in services[v].stops : stations[n].row = "there"
  /\ \A w \in Drafts : drafts[w].row = "there" => routes[drafts[w].route].row = "there"
  /\ \A c \in Slugs : \A g \in segments[c] : routes[g.route].row = "there"

\* A scenario and its routes and services have one owner, unless an
\* administrator put the row there: nobody else's work gets into the curated
\* graph or into another person's scenario, although the scenario is checked
\* before the row is written and its slug may name another one by then
\* (migration 00022: "A scenario and all of its children share one owner").
OwnersAgree ==
  /\ \A t \in Routes : routes[t].row = "there" /\ routes[t].scenario # None =>
       routes[t].byAdmin \/ routes[t].owner = scenarios[routes[t].scenario].owner
  /\ \A v \in Services : services[v].row = "there" =>
       services[v].byAdmin \/ services[v].owner = scenarios[services[v].scenario].owner

\* The request r ends.
Ends(r) == req[r].pc # "idle" /\ req'[r].pc = "idle"

Lost(table, table2) == {x \in DOMAIN table : table[x].row = "there" /\ table2[x].row = "gone"}

\* What a request of u may take away.
MayLose(u, owner, placed) == CanAccess(u, owner) \/ owner \in Admins \/ placed

\* The draft of w is on a route that somebody else than its owner put it on (an
\* administrator, or a former owner whose edit came after the move), or an
\* administrator put that route where it is.
PlacedForIts(w) ==
  drafts[w].placedBy # drafts[w].owner \/ routes[drafts[w].route].byAdmin

\* A route, service or draft disappears only at the hand of its owner or of an
\* administrator, through whatever cascade: the deletion of a scenario or of a
\* route takes what others built on it only where they or an administrator put
\* it there for them (see PlacedForIts), and what an administrator built on the
\* rows of others.  A draft that changed hands is deleted by its former owner
\* only through a request that was authorised before.  And the deletion of a
\* scenario takes no curated route with it that the handler counted
\* (ownedscenario.go: "deleting it would remove content you do not own"; see
\* CuratedRowsStay for the others).
LossesAreOwn ==
  [][\A r \in Requests : Ends(r) =>
       /\ \A t \in Lost(routes, routes') :
            /\ MayLose(req[r].user, routes[t].owner, routes[t].byAdmin)
            /\ req[r].pc = "delete scenario" /\ routes[t].owner = None => t \notin req[r].seen
       /\ \A v \in Lost(services, services') :
            MayLose(req[r].user, services[v].owner, services[v].byAdmin)
       /\ \A w \in Lost(drafts, drafts') :
            IF req[r].pc = "delete draft"
            THEN CanAccess(req[r].user, drafts[w].owner) \/ drafts[w].owner # req[r].of
            ELSE MayLose(req[r].user, drafts[w].owner, PlacedForIts(w))]_vars

\* The travel times of a scenario are written by somebody who may change that
\* scenario (README: "other users reach only rows they own").  The code breaks
\* it: UpsertTravelTimes looks the slug up again, and by then it may be the slug
\* of somebody else's scenario.
TimesWrittenByOwner ==
  [][\A r \in Requests : Ends(r) /\ req[r].pc = "replace times" =>
       segments' = segments \/ CanAccess(req[r].user, scenarios[req[r].slug].owner)]_vars

\* A user's deletion of a scenario takes no curated route or service with it
\* (CONTEXT.md: it is refused while the scenario "still holds curated (unowned)
\* child rows").  The code breaks it: an administrator's row that arrives after
\* the handler has counted goes with the cascade.
CuratedRowsStay ==
  [][\A r \in Requests : Ends(r) /\ req[r].user \notin Admins =>
       /\ \A t \in Lost(routes, routes') : routes[t].owner # None
       /\ \A v \in Lost(services, services') : services[v].owner # None]_vars

=============================================================================
