-------------------------- MODULE OwnedRowsProofs --------------------------
(***************************************************************************)
(* Theorems about OwnedRows, for any sets of users, rows and requests: what *)
(* a row refers to is there, owners agree and nobody loses a row to a       *)
(* stranger.                                                               *)
(*                                                                         *)
(* A handler authorises its caller by what it read and writes later, when   *)
(* the rows may be gone and the slug of a scenario may name another one.    *)
(* What carries an authorisation over to the write is that a route or a     *)
(* service that was there never gets another owner and that a slug gets one *)
(* only with a new generation (Aging); the foreign keys do the rest.  A      *)
(* draft does get another owner, and with it a route that its new owner may  *)
(* use.                                                                    *)
(***************************************************************************)
EXTENDS OwnedRows, TLAPS

\* The types, in the form that the steps preserve.
Types ==
  /\ scenarios \in [Slugs -> Scenario]
  /\ routes \in [Routes -> Route] /\ stations \in [Stations -> Station]
  /\ services \in [Services -> Service] /\ drafts \in [Drafts -> Draft]
  /\ segments \in [Slugs -> SUBSET Segment]
  /\ req \in [Requests -> Request]
  /\ served \in 0..MaxRequests

\* Row by row: what it refers to is there, and who may have put it there.
RouteOK(t) ==
  routes[t].row = "there" /\ routes[t].scenario # None =>
    /\ scenarios[routes[t].scenario].there
    /\ routes[t].byAdmin \/ routes[t].owner = scenarios[routes[t].scenario].owner
StationOK(n) ==
  stations[n].row = "there" =>
    stations[n].scenario \in Slugs /\ scenarios[stations[n].scenario].there
ServiceOK(v) ==
  services[v].row = "there" =>
    /\ services[v].scenario \in Slugs /\ scenarios[services[v].scenario].there
    /\ services[v].byAdmin \/ services[v].owner = scenarios[services[v].scenario].owner
    /\ services[v].route \in Routes /\ routes[services[v].route].row = "there"
    /\ \A n \in services[v].stops : stations[n].row = "there"
DraftOK(w) ==
  drafts[w].row = "there" =>
    /\ drafts[w].route \in Routes /\ routes[drafts[w].route].row = "there"
    /\ CanReference(drafts[w].placedBy, routes[drafts[w].route].owner)
SegmentsOK(c) == \A g \in segments[c] : routes[g.route].row = "there"

Tables ==
  /\ \A t \in Routes : RouteOK(t)
  /\ \A n \in Stations : StationOK(n)
  /\ \A v \in Services : ServiceOK(v)
  /\ \A w \in Drafts : DraftOK(w)
  /\ \A c \in Slugs : SegmentsOK(c)

\* What a request carries is of the kind that its write needs.
OfRoute   == {"create route", "curate route", "update route", "delete route"}
OfStation == {"create station", "delete station"}
OfService == {"create service", "update service", "delete service"}
OfDraft == {"create draft", "update draft", "delete draft"}
InScenario == {"create scenario", "delete scenario", "create station", "create service",
               "replace times"}
Carries(q) ==
  /\ q.pc # "idle" => q.user \in Users
  /\ q.pc \in OfRoute => q.id \in Routes
  /\ q.pc \in OfStation => q.id \in Stations
  /\ q.pc \in OfService => q.id \in Services
  /\ q.pc \in OfDraft => q.id \in Drafts
  /\ q.pc \in {"create service", "update service", "create draft", "update draft"} =>
       q.route \in Routes
  /\ q.pc \in InScenario => q.slug \in Slugs
  /\ q.pc = "curate route" => q.user \in Admins

\* As long as the scenario that was resolved is there, and it is the same one,
\* the caller may change it.
Authorised(q) ==
  q.pc \notin {"idle", "create scenario"} /\ q.slug \in Slugs =>
    /\ q.gen <= scenarios[q.slug].gen
    /\ scenarios[q.slug].there /\ scenarios[q.slug].gen = q.gen =>
         CanAccess(q.user, scenarios[q.slug].owner)

\* The caller may change, or use, the rows that were looked up, whether they
\* are still there or not; the routes that a deletion counted have owners.
Looked(q) ==
  /\ q.pc \in {"update route", "delete route"} =>
       routes[q.id].row # "none" /\ CanAccess(q.user, routes[q.id].owner)
  /\ q.pc \in {"update service", "delete service"} =>
       services[q.id].row # "none" /\ CanAccess(q.user, services[q.id].owner)
  /\ q.pc \in {"create draft", "update draft"} =>
       routes[q.route].row # "none" /\ CanReference(q.user, routes[q.route].owner)
  /\ q.pc \in {"update draft", "delete draft"} => CanAccess(q.user, q.of)
  /\ \A t \in q.seen : routes[t].row # "none" /\ routes[t].owner # None

RequestOK(q) == Carries(q) /\ Authorised(q) /\ Looked(q)

Inv == Types /\ Tables /\ \A r \in Requests : RequestOK(req[r])

----------------------------------------------------------------------------
(* What every step does to the rows. *)

\* Owners of rows do not change, nor do those of scenarios in one generation.
ScenariosAge ==
  \A c \in Slugs :
    /\ scenarios[c].gen <= scenarios'[c].gen
    /\ scenarios'[c].there /\ scenarios'[c].gen = scenarios[c].gen =>
         scenarios[c].there /\ scenarios'[c].owner = scenarios[c].owner
RoutesAge ==
  \A t \in Routes : routes[t].row # "none" =>
    routes'[t].row # "none" /\ routes'[t].owner = routes[t].owner
ServicesAge ==
  \A v \in Services : services[v].row # "none" =>
    services'[v].row # "none" /\ services'[v].owner = services[v].owner

Aging == ScenariosAge /\ RoutesAge /\ ServicesAge

\* What an authorisation says outlives every step.
LEMMA RequestAges ==
  ASSUME Types, Types', Aging, NEW q \in Request, RequestOK(q)
  PROVE  RequestOK(q)'
<1>1. Carries(q)'
  BY DEF RequestOK, Carries
<1>2. Authorised(q)'
  <2>1. SUFFICES ASSUME q.pc \notin {"idle", "create scenario"}, q.slug \in Slugs
                 PROVE  /\ q.gen <= scenarios'[q.slug].gen
                        /\ scenarios'[q.slug].there /\ scenarios'[q.slug].gen = q.gen =>
                             CanAccess(q.user, scenarios'[q.slug].owner)
    BY DEF Authorised
  <2>2. /\ q.gen <= scenarios[q.slug].gen
        /\ scenarios[q.slug].there /\ scenarios[q.slug].gen = q.gen =>
             CanAccess(q.user, scenarios[q.slug].owner)
    BY <2>1 DEF RequestOK, Authorised
  <2>3. /\ scenarios[q.slug].gen <= scenarios'[q.slug].gen
        /\ scenarios'[q.slug].there /\ scenarios'[q.slug].gen = scenarios[q.slug].gen =>
             scenarios[q.slug].there /\ scenarios'[q.slug].owner = scenarios[q.slug].owner
    BY <2>1 DEF Aging, ScenariosAge
  <2>4. q.gen \in Nat /\ scenarios[q.slug].gen \in Nat /\ scenarios'[q.slug].gen \in Nat
    BY <2>1 DEF Types, Scenario, Request
  <2>5. QED
    BY <2>2, <2>3, <2>4
<1>3. Looked(q)'
  <2>1. Carries(q) /\ Looked(q)
    BY DEF RequestOK
  <2>2. q.pc \in {"update route", "delete route"} =>
          routes'[q.id].row # "none" /\ CanAccess(q.user, routes'[q.id].owner)
    BY <2>1 DEF Carries, Looked, OfRoute, Aging, RoutesAge
  <2>3. q.pc \in {"update service", "delete service"} =>
          services'[q.id].row # "none" /\ CanAccess(q.user, services'[q.id].owner)
    BY <2>1 DEF Carries, Looked, OfService, Aging, ServicesAge
  <2>4. q.pc \in {"create draft", "update draft"} =>
          routes'[q.route].row # "none" /\ CanReference(q.user, routes'[q.route].owner)
    BY <2>1 DEF Carries, Looked, Aging, RoutesAge
  <2>5. \A t \in q.seen : routes'[t].row # "none" /\ routes'[t].owner # None
    <3>1. q.seen \subseteq Routes
      BY DEF Request
    <3>2. QED
      BY <2>1, <3>1 DEF Looked, Aging, RoutesAge
  <2>6. QED
    BY <2>1, <2>2, <2>3, <2>4, <2>5 DEF Looked
<1>4. QED
  BY <1>1, <1>2, <1>3 DEF RequestOK

\* A request that is not running carries nothing.
LEMMA IdleOK == Idle \in Request /\ Idle.pc = "idle" /\ RequestOK(Idle) /\ RequestOK(Idle)'
<1>1. Idle \in Request /\ Idle.pc = "idle" /\ Idle.seen = {}
  BY DEF Idle, Request, Steps, Owner
<1>2. QED
  BY <1>1 DEF RequestOK, Carries, Authorised, Looked, OfRoute, OfStation, OfService, OfDraft, InScenario

\* One request moves, the others wait.
LEMMA OthersWait ==
  ASSUME Inv, Types', Aging, NEW r \in Requests, NEW q \in Request,
         req' = [req EXCEPT ![r] = q], RequestOK(q)'
  PROVE  \A s \in Requests : RequestOK(req[s])'
<1> SUFFICES ASSUME NEW s \in Requests PROVE RequestOK(req[s])'
  OBVIOUS
<1>1. \A c \in Request : RequestOK(c) => RequestOK(c)'
  BY RequestAges DEF Inv
<1>2. req[s] \in Request /\ RequestOK(req[s])
  BY DEF Inv, Types
<1>3. CASE s = r
  <2>1. req'[s] = q
    BY <1>3 DEF Inv, Types
  <2>2. Carries(req[s])' /\ Looked(req[s])'
    BY ZenonT(60), <2>1 DEF RequestOK, Carries, Looked
  <2>3. Authorised(req[s])'
    BY <2>1 DEF RequestOK, Authorised, CanAccess
  <2>4. QED
    BY <2>2, <2>3 DEF RequestOK
<1>4. CASE s # r
  <2>1. PICK c \in Request : c = req[s]
    BY <1>2
  <2>2. RequestOK(c)
    BY <1>2, <2>1
  <2>3. RequestOK(c)' /\ req'[s] = c
    BY <1>1, <1>4, <2>1, <2>2 DEF Inv, Types
  <2>4. Carries(req[s])' /\ Looked(req[s])'
    BY ZenonT(60), <2>3 DEF RequestOK, Carries, Looked
  <2>5. Authorised(req[s])'
    BY <2>3 DEF RequestOK, Authorised, CanAccess
  <2>6. QED
    BY <2>4, <2>5 DEF RequestOK
<1>5. QED
  BY <1>3, <1>4

\* No request moves.
LEMMA EveryoneWaits ==
  ASSUME Inv, Types', Aging, UNCHANGED req
  PROVE  \A s \in Requests : RequestOK(req[s])'
<1> SUFFICES ASSUME NEW s \in Requests PROVE RequestOK(req[s])'
  OBVIOUS
<1>1. PICK c \in Request : c = req[s]
  BY DEF Inv, Types
<1>2. RequestOK(c)
  BY <1>1 DEF Inv
<1>3. RequestOK(c)' /\ req'[s] = c
  BY <1>1, <1>2, RequestAges DEF Inv
<1>4. Carries(req[s])' /\ Looked(req[s])'
  BY ZenonT(60), <1>3 DEF RequestOK, Carries, Looked
<1>5. Authorised(req[s])'
  BY <1>3 DEF RequestOK, Authorised, CanAccess
<1>6. QED
  BY <1>4, <1>5 DEF RequestOK

\* Rows that stay as they are.
LEMMA RowsUntouched ==
  ASSUME Types, Tables, UNCHANGED rows
  PROVE  Tables' /\ Aging
<1>1. UNCHANGED <<scenarios, routes, stations, services, drafts, segments>>
  BY DEF rows
<1>2. Tables'
  BY <1>1 DEF Tables, RouteOK, StationOK, ServiceOK, DraftOK, SegmentsOK
<1>3. \A c \in Slugs : scenarios[c].gen \in Nat
  BY DEF Types, Scenario
<1>4. Aging
  BY <1>1, <1>3 DEF Aging, ScenariosAge, RoutesAge, ServicesAge
<1>5. QED
  BY <1>2, <1>4

\* A request begins with what it read.
LEMMA BeginInv ==
  ASSUME Inv, NEW r \in Requests, NEW q \in Request, Begin(r, q), RequestOK(q)
  PROVE  Inv'
<1>1. UNCHANGED <<scenarios, routes, stations, services, drafts, segments>>
      /\ req' = [req EXCEPT ![r] = q] /\ served' = served + 1 /\ served < MaxRequests
  BY DEF Begin, rows
<1>2. served' \in 0..MaxRequests
  BY <1>1, OwnedRowsAssumption DEF Inv, Types
<1>3. Types'
  BY <1>1, <1>2 DEF Inv, Types
<1>4. Tables' /\ Aging
  BY RowsUntouched DEF Inv, Begin
<1>5. RequestOK(q)'
  BY <1>3, <1>4, RequestAges DEF Inv
<1>6. QED
  BY <1>1, <1>3, <1>4, <1>5, OthersWait DEF Inv

\* A request ends with a write that leaves the tables well-formed.
LEMMA AnswerInv ==
  ASSUME Inv, NEW r \in Requests, Answer(r), Tables', Aging,
         scenarios' \in [Slugs -> Scenario], routes' \in [Routes -> Route],
         stations' \in [Stations -> Station], services' \in [Services -> Service],
         drafts' \in [Drafts -> Draft], segments' \in [Slugs -> SUBSET Segment]
  PROVE  Inv'
<1>1. Types'
  BY IdleOK DEF Inv, Types, Answer
<1>2. \A s \in Requests : RequestOK(req[s])'
  BY <1>1, IdleOK, OthersWait DEF Answer
<1>3. QED
  BY <1>1, <1>2 DEF Inv

----------------------------------------------------------------------------
(* Requests that begin. *)

\* A handler that names a scenario is authorised for it.
LEMMA NamedScenario ==
  ASSUME Types, NEW q \in Request, NEW c \in Slugs, q.slug = c, q.gen = scenarios[c].gen,
         CanAccess(q.user, scenarios[c].owner)
  PROVE  Authorised(q)
<1>1. scenarios[c].gen \in Nat
  BY DEF Types, Scenario
<1>2. q.gen <= scenarios[q.slug].gen
  BY <1>1
<1>3. CanAccess(q.user, scenarios[q.slug].owner)
  OBVIOUS
<1>4. QED
  BY <1>2, <1>3 DEF Authorised

LEMMA ScenarioBegins ==
  ASSUME Inv, NEW r \in Requests, NEW u \in Users, NEW c \in Slugs,
         CreateScenarioBegin(r, u, c) \/ DeleteScenarioBegin(r, u, c)
  PROVE  Inv'
<1> USE DEF RequestOK
<1>0. Types /\ Tables /\ scenarios[c].gen \in Nat /\ u \in Owner
  BY DEF Inv, Types, Scenario, Owner
<1>1. CASE CreateScenarioBegin(r, u, c)
  <2>1. PICK q : q = [Idle EXCEPT !.pc = "create scenario", !.user = u, !.slug = c]
    OBVIOUS
  <2>2. /\ q.pc = "create scenario" /\ q.user = u /\ q.slug = c /\ q.seen = {}
        /\ q \in Request
    BY <1>0, <2>1 DEF Idle, Request, Steps, Owner
  <2>3. Carries(q) /\ Authorised(q) /\ Looked(q)
    BY <2>2 DEF Carries, Authorised, Looked, OfRoute, OfStation, OfService, OfDraft
  <2>4. QED
    BY <1>1, <2>1, <2>2, <2>3, BeginInv DEF CreateScenarioBegin
<1>2. CASE DeleteScenarioBegin(r, u, c)
  <2>1. PICK q : q = [Idle EXCEPT !.pc = "delete scenario", !.user = u, !.slug = c,
                                  !.gen = scenarios[c].gen, !.seen = RoutesIn(c)]
    OBVIOUS
  <2>2. /\ q.pc = "delete scenario" /\ q.user = u /\ q.slug = c
        /\ q.gen = scenarios[c].gen /\ q.seen = RoutesIn(c)
        /\ q \in Request
    BY <1>0, <2>1 DEF Idle, Request, Steps, Owner, RoutesIn
  <2>3. Carries(q)
    BY <2>2 DEF Carries, OfRoute, OfStation, OfService, OfDraft
  <2>4. Authorised(q)
    BY <1>0, <1>2, <2>2, NamedScenario DEF DeleteScenarioBegin, OwnScenario
  <2>5. \A t \in RoutesIn(c) : routes[t].row # "none" /\ routes[t].owner # None
    BY <1>2 DEF DeleteScenarioBegin, CuratedChildren, RoutesIn
  <2>6. Looked(q)
    BY <2>2, <2>5 DEF Looked
  <2>7. QED
    BY <1>2, <2>1, <2>2, <2>3, <2>4, <2>6, BeginInv DEF DeleteScenarioBegin
<1>3. QED
  BY <1>1, <1>2

LEMMA RouteBegins ==
  ASSUME Inv, NEW r \in Requests, NEW u \in Users, NEW t \in Routes, NEW c \in Slugs \cup {None},
         \/ CreateRouteBegin(r, u, t, c) \/ CurateRouteBegin(r, u, t, c)
         \/ UpdateRouteBegin(r, u, t, c)
  PROVE  Inv'
<1> USE DEF RequestOK
<1>0. Types /\ Tables /\ u \in Owner /\ GenOf(c) \in Nat
  BY DEF Inv, Types, Scenario, Owner, GenOf
<1>a. PICK pc \in {"create route", "curate route", "update route"} :
        /\ Begin(r, [Idle EXCEPT !.pc = pc, !.user = u, !.id = t, !.slug = c, !.gen = GenOf(c)])
        /\ pc = "curate route" => u \in Admins
        /\ pc = "update route" => OwnRoute(u, t)
        /\ OwnOrNoScenario(u, c) \/ u \in Admins
  BY DEF CreateRouteBegin, CurateRouteBegin, UpdateRouteBegin
<1>b. PICK q : q = [Idle EXCEPT !.pc = pc, !.user = u, !.id = t, !.slug = c, !.gen = GenOf(c)]
  OBVIOUS
<1>1. /\ pc \in {"create route", "curate route", "update route"} /\ Begin(r, q)
      /\ q = [Idle EXCEPT !.pc = pc, !.user = u, !.id = t, !.slug = c, !.gen = GenOf(c)]
      /\ pc = "curate route" => u \in Admins
      /\ pc = "update route" => OwnRoute(u, t)
      /\ OwnOrNoScenario(u, c) \/ u \in Admins
  BY <1>a, <1>b
<1>2. /\ q.pc = pc /\ q.user = u /\ q.slug = c /\ q.id = t /\ q.gen = GenOf(c) /\ q.seen = {}
      /\ q \in Request
  BY <1>0, <1>1 DEF Idle, Request, Steps, Owner
<1>3. Carries(q)
  BY <1>1, <1>2 DEF Carries, OfStation, OfService, OfDraft, InScenario
<1>4. Authorised(q)
  <2>1. CASE c = None
    BY <1>2, <2>1, OwnedRowsAssumption DEF Authorised, Slugs
  <2>2. CASE c # None
    <3>1. GenOf(c) = scenarios[c].gen /\ c \in Slugs /\ CanAccess(u, scenarios[c].owner)
      BY <1>1, <2>2 DEF GenOf, OwnOrNoScenario, OwnScenario, CanAccess
    <3>2. QED
      BY <1>0, <1>2, <3>1, NamedScenario
  <2>3. QED
    BY <2>1, <2>2
<1>5. Looked(q)
  BY <1>1, <1>2 DEF Looked, OwnRoute
<1>6. QED
  BY <1>1, <1>2, <1>3, <1>4, <1>5, BeginInv

LEMMA StationBegins ==
  ASSUME Inv, NEW r \in Requests, NEW u \in Users, NEW n \in Stations, NEW c \in Slugs,
         CreateStationBegin(r, u, n, c)
  PROVE  Inv'
<1> USE DEF RequestOK
<1>0. Types /\ Tables /\ scenarios[c].gen \in Nat /\ u \in Owner
  BY DEF Inv, Types, Scenario, Owner
<1>1. PICK q : q = [Idle EXCEPT !.pc = "create station", !.user = u, !.id = n,
                                !.slug = c, !.gen = scenarios[c].gen]
  OBVIOUS
<1>2. /\ q.pc = "create station" /\ q.user = u /\ q.slug = c /\ q.id = n
      /\ q.gen = scenarios[c].gen /\ q.seen = {} /\ q \in Request
  BY <1>0, <1>1 DEF Idle, Request, Steps, Owner
<1>3. Carries(q) /\ Looked(q)
  BY <1>2 DEF Carries, OfRoute, OfService, OfDraft, Looked
<1>4. Authorised(q)
  BY <1>0, <1>2, NamedScenario DEF CreateStationBegin, OwnScenario
<1>5. QED
  BY <1>1, <1>2, <1>3, <1>4, BeginInv DEF CreateStationBegin

LEMMA ServiceBegins ==
  ASSUME Inv, NEW r \in Requests, NEW u \in Users, NEW v \in Services, NEW c \in Slugs,
         NEW t \in Routes, NEW stops \in StopsOf(c),
         \/ CreateServiceBegin(r, u, v, c, t, stops)
         \/ UpdateServiceBegin(r, u, v, c, t, stops)
  PROVE  Inv'
<1> USE DEF RequestOK
<1>0. Types /\ Tables /\ scenarios[c].gen \in Nat /\ u \in Owner /\ stops \subseteq Stations
  BY DEF Inv, Types, Scenario, Owner, StopsOf, StationsIn
<1>a. PICK pc \in {"create service", "update service"} :
        /\ Begin(r, [Idle EXCEPT !.pc = pc, !.user = u, !.id = v, !.slug = c,
                            !.gen = scenarios[c].gen, !.route = t, !.stops = stops])
        /\ pc = "update service" => OwnService(u, v)
        /\ ResolvedService(u, c, t, stops)
  BY DEF CreateServiceBegin, UpdateServiceBegin
<1>b. PICK q : q = [Idle EXCEPT !.pc = pc, !.user = u, !.id = v, !.slug = c,
                            !.gen = scenarios[c].gen, !.route = t, !.stops = stops]
  OBVIOUS
<1>1. /\ pc \in {"create service", "update service"} /\ Begin(r, q)
      /\ q = [Idle EXCEPT !.pc = pc, !.user = u, !.id = v, !.slug = c,
                            !.gen = scenarios[c].gen, !.route = t, !.stops = stops]
      /\ pc = "update service" => OwnService(u, v)
      /\ ResolvedService(u, c, t, stops)
  BY <1>a, <1>b
<1>2. /\ q.pc = pc /\ q.user = u /\ q.slug = c /\ q.id = v /\ q.route = t
      /\ q.gen = scenarios[c].gen /\ q.seen = {} /\ q \in Request
  BY <1>0, <1>1 DEF Idle, Request, Steps, Owner
<1>3. Carries(q)
  BY <1>1, <1>2 DEF Carries, OfRoute, OfStation, OfDraft
<1>4. Authorised(q)
  BY <1>0, <1>1, <1>2, NamedScenario DEF ResolvedService, OwnScenario
<1>5. Looked(q)
  BY <1>1, <1>2 DEF Looked, OwnService
<1>6. QED
  BY <1>1, <1>2, <1>3, <1>4, <1>5, BeginInv

LEMMA TimesBegin ==
  ASSUME Inv, NEW r \in Requests, NEW u \in Users, NEW c \in Slugs, NEW g,
         ReplaceTimesBegin(r, u, c, g)
  PROVE  Inv'
<1> USE DEF RequestOK
<1>0. Types /\ Tables /\ scenarios[c].gen \in Nat /\ u \in Owner /\ g \subseteq Segment
  BY DEF Inv, Types, Scenario, Owner, ReplaceTimesBegin, SegmentsOf, RoutesIn, StationsIn,
         Segment
<1>1. PICK q : q = [Idle EXCEPT !.pc = "replace times", !.user = u, !.slug = c,
                                !.gen = scenarios[c].gen, !.segments = g]
  OBVIOUS
<1>2. /\ q.pc = "replace times" /\ q.user = u /\ q.slug = c
      /\ q.gen = scenarios[c].gen /\ q.seen = {} /\ q \in Request
  BY <1>0, <1>1 DEF Idle, Request, Steps, Owner
<1>3. Carries(q) /\ Looked(q)
  BY <1>2 DEF Carries, OfRoute, OfStation, OfService, OfDraft, Looked
<1>4. Authorised(q)
  BY <1>0, <1>2, NamedScenario DEF ReplaceTimesBegin, OwnScenario
<1>5. QED
  BY <1>1, <1>2, <1>3, <1>4, BeginInv DEF ReplaceTimesBegin

LEMMA DraftBegins ==
  ASSUME Inv, NEW r \in Requests, NEW u \in Users, NEW w \in Drafts, NEW t \in Routes,
         CreateDraftBegin(r, u, w, t) \/ UpdateDraftBegin(r, u, w, t)
  PROVE  Inv'
<1> USE DEF RequestOK
<1>0. u \in Owner /\ drafts[w].owner \in Owner
  BY DEF Inv, Types, Draft, Owner
<1>1. PICK q \in Request :
        /\ Begin(r, q) /\ q.pc \in {"create draft", "update draft"}
        /\ q.user = u /\ q.id = w /\ q.route = t /\ q.slug = None /\ q.seen = {}
        /\ q.pc = "update draft" => q.of = drafts[w].owner /\ CanAccess(u, drafts[w].owner)
  <2>1. CASE CreateDraftBegin(r, u, w, t)
    <3>1. PICK q : q = [Idle EXCEPT !.pc = "create draft", !.user = u, !.id = w, !.route = t]
      OBVIOUS
    <3>2. /\ q.pc = "create draft" /\ q.user = u /\ q.id = w /\ q.route = t /\ q.slug = None
          /\ q.seen = {} /\ q \in Request
      BY <1>0, <3>1 DEF Idle, Request, Steps, Owner
    <3>3. QED
      BY <2>1, <3>1, <3>2 DEF CreateDraftBegin
  <2>2. CASE UpdateDraftBegin(r, u, w, t)
    <3>1. PICK q : q = [Idle EXCEPT !.pc = "update draft", !.user = u, !.id = w, !.route = t,
                                    !.of = drafts[w].owner]
      OBVIOUS
    <3>2. /\ q.pc = "update draft" /\ q.user = u /\ q.id = w /\ q.route = t /\ q.slug = None
          /\ q.of = drafts[w].owner /\ q.seen = {} /\ q \in Request
      BY <1>0, <3>1 DEF Idle, Request, Steps, Owner
    <3>3. QED
      BY <2>2, <3>1, <3>2 DEF UpdateDraftBegin, OwnDraft
  <2>3. QED
    BY <2>1, <2>2
<1>2. UsableRoute(u, t)
  BY DEF CreateDraftBegin, UpdateDraftBegin
<1>3. Carries(q)
  BY <1>1 DEF Carries, OfRoute, OfStation, OfService, OfDraft, InScenario
<1>4. Authorised(q)
  BY <1>1, OwnedRowsAssumption DEF Authorised, Slugs
<1>5. Looked(q)
  BY <1>1, <1>2 DEF Looked, UsableRoute
<1>6. QED
  BY <1>1, <1>3, <1>4, <1>5, BeginInv

LEMMA DraftDeletionBegins ==
  ASSUME Inv, NEW r \in Requests, NEW u \in Users, NEW w \in Drafts, DeleteDraftBegin(r, u, w)
  PROVE  Inv'
<1> USE DEF RequestOK
<1>0. u \in Owner /\ drafts[w].owner \in Owner
  BY DEF Inv, Types, Draft, Owner
<1>1. PICK q : q = [Idle EXCEPT !.pc = "delete draft", !.user = u, !.id = w, !.of = drafts[w].owner]
  OBVIOUS
<1>2. /\ q.pc = "delete draft" /\ q.user = u /\ q.id = w /\ q.slug = None
      /\ q.of = drafts[w].owner /\ q.seen = {} /\ q \in Request
  BY <1>0, <1>1 DEF Idle, Request, Steps
<1>3. Carries(q)
  BY <1>2 DEF Carries, OfRoute, OfStation, OfService, OfDraft, InScenario
<1>4. Authorised(q)
  BY <1>2, OwnedRowsAssumption DEF Authorised, Slugs
<1>5. Looked(q)
  BY <1>2 DEF Looked, DeleteDraftBegin, OwnDraft
<1>6. QED
  BY <1>1, <1>2, <1>3, <1>4, <1>5, BeginInv DEF DeleteDraftBegin

LEMMA DeletionBegins ==
  ASSUME Inv, NEW r \in Requests, NEW u \in Users,
         \/ \E t \in Routes : DeleteRouteBegin(r, u, t)
         \/ \E n \in Stations : DeleteStationBegin(r, u, n)
         \/ \E v \in Services : DeleteServiceBegin(r, u, v)
  PROVE  Inv'
<1> USE DEF RequestOK
<1>a. PICK pc \in {"delete route", "delete station", "delete service"},
           id \in Routes \cup Stations \cup Services :
        /\ Begin(r, [Idle EXCEPT !.pc = pc, !.user = u, !.id = id])
        /\ pc = "delete route" => id \in Routes /\ OwnRoute(u, id)
        /\ pc = "delete station" => id \in Stations
        /\ pc = "delete service" => id \in Services /\ OwnService(u, id)
  BY DEF DeleteRouteBegin, DeleteStationBegin, DeleteServiceBegin
<1>b. PICK q : q = [Idle EXCEPT !.pc = pc, !.user = u, !.id = id]
  OBVIOUS
<1>1. /\ pc \in {"delete route", "delete station", "delete service"} /\ Begin(r, q)
      /\ q = [Idle EXCEPT !.pc = pc, !.user = u, !.id = id]
      /\ pc = "delete route" => id \in Routes /\ OwnRoute(u, id)
      /\ pc = "delete station" => id \in Stations
      /\ pc = "delete service" => id \in Services /\ OwnService(u, id)
  BY <1>a, <1>b
<1>2. /\ q.pc = pc /\ q.user = u /\ q.id = id /\ q.slug = None
      /\ q.seen = {} /\ q \in Request
  BY <1>1 DEF Idle, Request, Steps, Owner
<1>3. Carries(q)
  BY <1>1, <1>2 DEF Carries, OfRoute, OfStation, OfService, OfDraft, InScenario
<1>4. Authorised(q)
  BY <1>2, OwnedRowsAssumption DEF Authorised, Slugs
<1>5. Looked(q)
  BY <1>1, <1>2 DEF Looked, OwnRoute, OwnService
<1>6. QED
  BY <1>1, <1>2, <1>3, <1>4, <1>5, BeginInv

LEMMA ArriveInv ==
  ASSUME Inv, NEW r \in Requests, NEW u \in Users, Arrive(r, u)
  PROVE  Inv'
  BY ScenarioBegins, RouteBegins, StationBegins, ServiceBegins, TimesBegin, DraftBegins,
     DraftDeletionBegins, DeletionBegins DEF Arrive

----------------------------------------------------------------------------
(* Rows that a step leaves alone. *)

KeepsScenario(c) ==
  scenarios[c].there => scenarios'[c].there /\ scenarios'[c].owner = scenarios[c].owner
KeepsRoute(t) ==
  routes[t].row = "there" => routes'[t].row = "there" /\ routes'[t].owner = routes[t].owner
KeepsStation(n) == stations[n].row = "there" => stations'[n].row = "there"

\* A row stays well-formed as long as what it refers to stays.
LEMMA RouteKept ==
  ASSUME NEW t \in Routes, RouteOK(t), routes'[t] = routes[t],
         routes[t].row = "there" /\ routes[t].scenario # None =>
           KeepsScenario(routes[t].scenario)
  PROVE  RouteOK(t)'
  BY DEF RouteOK, KeepsScenario

LEMMA StationKept ==
  ASSUME NEW n \in Stations, StationOK(n), stations'[n] = stations[n],
         stations[n].row = "there" => KeepsScenario(stations[n].scenario)
  PROVE  StationOK(n)'
  BY DEF StationOK, KeepsScenario

LEMMA ServiceKept ==
  ASSUME NEW v \in Services, ServiceOK(v), services'[v] = services[v],
         services[v].row = "there" =>
           /\ KeepsScenario(services[v].scenario)
           /\ KeepsRoute(services[v].route)
           /\ \A n \in services[v].stops : KeepsStation(n)
  PROVE  ServiceOK(v)'
  BY DEF ServiceOK, KeepsScenario, KeepsRoute, KeepsStation

LEMMA DraftKept ==
  ASSUME NEW w \in Drafts, DraftOK(w), drafts'[w] = drafts[w],
         drafts[w].row = "there" => KeepsRoute(drafts[w].route)
  PROVE  DraftOK(w)'
  BY DEF DraftOK, KeepsRoute

LEMMA SegmentsKept ==
  ASSUME NEW c \in Slugs, SegmentsOK(c), segments'[c] \subseteq segments[c],
         \A g \in segments'[c] : KeepsRoute(g.route)
  PROVE  SegmentsOK(c)'
  BY DEF SegmentsOK, KeepsRoute

\* A step that takes nothing away.
Additive ==
  /\ \A c \in Slugs : KeepsScenario(c)
  /\ \A t \in Routes : KeepsRoute(t)
  /\ \A n \in Stations : KeepsStation(n)

LEMMA AdditiveKeeps ==
  ASSUME Types, Tables, Additive
  PROVE  /\ \A t \in Routes : routes'[t] = routes[t] => RouteOK(t)'
         /\ \A n \in Stations : stations'[n] = stations[n] => StationOK(n)'
         /\ \A v \in Services : services'[v] = services[v] => ServiceOK(v)'
         /\ \A w \in Drafts : drafts'[w] = drafts[w] => DraftOK(w)'
         /\ \A c \in Slugs : segments'[c] \subseteq segments[c] => SegmentsOK(c)'
<1>1. ASSUME NEW t \in Routes, routes'[t] = routes[t] PROVE RouteOK(t)'
  <2>1. routes[t].scenario \in Slugs \cup {None}
    BY DEF Types, Route
  <2>2. QED
    BY <1>1, <2>1, RouteKept DEF Tables, Additive
<1>2. ASSUME NEW n \in Stations, stations'[n] = stations[n] PROVE StationOK(n)'
  <2>1. stations[n].row = "there" => stations[n].scenario \in Slugs
    BY DEF Tables, StationOK
  <2>2. QED
    BY <1>2, <2>1, StationKept DEF Tables, Additive
<1>3. ASSUME NEW v \in Services, services'[v] = services[v] PROVE ServiceOK(v)'
  <2>1. services[v].row = "there" =>
          services[v].scenario \in Slugs /\ services[v].route \in Routes
    BY DEF Tables, ServiceOK
  <2>2. services[v].stops \subseteq Stations
    BY DEF Types, Service
  <2>3. QED
    BY <1>3, <2>1, <2>2, ServiceKept DEF Tables, Additive
<1>4. ASSUME NEW w \in Drafts, drafts'[w] = drafts[w] PROVE DraftOK(w)'
  <2>1. drafts[w].row = "there" => drafts[w].route \in Routes
    BY DEF Tables, DraftOK
  <2>2. QED
    BY <1>4, <2>1, DraftKept DEF Tables, Additive
<1>5. ASSUME NEW c \in Slugs, segments'[c] \subseteq segments[c] PROVE SegmentsOK(c)'
  <2>1. \A g \in segments'[c] : g.route \in Routes
    BY <1>5 DEF Types, Segment
  <2>2. QED
    BY <1>5, <2>1, SegmentsKept DEF Tables, Additive
<1>6. QED
  BY <1>1, <1>2, <1>3, <1>4, <1>5

\* Tables that a step leaves alone.
LEMMA SameRows ==
  ASSUME Types
  PROVE  /\ scenarios' = scenarios =>
              ScenariosAge /\ \A c \in Slugs : KeepsScenario(c)
         /\ routes' = routes => RoutesAge /\ \A t \in Routes : KeepsRoute(t)
         /\ stations' = stations => \A n \in Stations : KeepsStation(n)
         /\ services' = services => ServicesAge
<1>1. \A c \in Slugs : scenarios[c].gen \in Nat
  BY DEF Types, Scenario
<1>2. scenarios' = scenarios => ScenariosAge
  BY <1>1 DEF ScenariosAge
<1>3. scenarios' = scenarios => \A c \in Slugs : KeepsScenario(c)
  BY DEF KeepsScenario
<1>4. routes' = routes => RoutesAge /\ \A t \in Routes : KeepsRoute(t)
  BY DEF RoutesAge, KeepsRoute
<1>5. stations' = stations => \A n \in Stations : KeepsStation(n)
  BY DEF KeepsStation
<1>6. services' = services => ServicesAge
  BY DEF ServicesAge
<1>7. QED
  BY <1>2, <1>3, <1>4, <1>5, <1>6

----------------------------------------------------------------------------
(* Requests that write. *)

LEMMA TruthValue ==
  ASSUME NEW x, NEW S
  PROVE  \E b \in BOOLEAN : b = (x \in S)
<1>1. CASE x \in S
  <2>1. TRUE \in BOOLEAN /\ TRUE = (x \in S)
    BY <1>1
  <2>2. QED
    BY <2>1
<1>2. CASE x \notin S
  <2>1. FALSE \in BOOLEAN /\ FALSE = (x \in S)
    BY <1>2
  <2>2. QED
    BY <2>1
<1>3. QED
  BY <1>1, <1>2

\* A running request, in the form its write uses.
LEMMA RequestAt ==
  ASSUME Inv, NEW r \in Requests
  PROVE  /\ Types /\ Tables
         /\ req[r] \in Request /\ Carries(req[r]) /\ Authorised(req[r]) /\ Looked(req[r])
  BY DEF Inv, Types, RequestOK

LEMMA CreateScenarioInv ==
  ASSUME Inv, NEW r \in Requests, CreateScenario(r)
  PROVE  Inv'
<1>0. /\ Types /\ Tables /\ req[r] \in Request /\ Carries(req[r])
  BY RequestAt
<1>1. PICK c \in Slugs : c = req[r].slug
  BY <1>0 DEF CreateScenario, Carries, InScenario
<1>2. PICK s : s = [there |-> TRUE, owner |-> req[r].user, gen |-> scenarios[c].gen + 1]
  OBVIOUS
<1>3. /\ ~scenarios[c].there /\ scenarios' = [scenarios EXCEPT ![c] = s]
      /\ Answer(r) /\ UNCHANGED <<routes, stations, services, drafts, segments>>
  BY <1>1, <1>2 DEF CreateScenario
<1>4. scenarios[c].gen \in Nat /\ req[r].user \in Owner
  BY <1>0 DEF Types, Scenario, Request
<1>5. s \in Scenario /\ s.there /\ s.gen = scenarios[c].gen + 1
  BY <1>2, <1>4 DEF Scenario
<1>6. /\ scenarios' \in [Slugs -> Scenario] /\ scenarios'[c] = s
      /\ \A d \in Slugs \ {c} : scenarios'[d] = scenarios[d]
  BY <1>0, <1>3, <1>5 DEF Types
<1>7. ScenariosAge
  <2>1. \A d \in Slugs : scenarios[d].gen \in Nat
    BY <1>0 DEF Types, Scenario
  <2>2. ASSUME NEW d \in Slugs
        PROVE  /\ scenarios[d].gen <= scenarios'[d].gen
               /\ scenarios'[d].there /\ scenarios'[d].gen = scenarios[d].gen =>
                    scenarios[d].there /\ scenarios'[d].owner = scenarios[d].owner
    <3>1. CASE d = c
      <4>1. scenarios[d].gen <= scenarios'[d].gen /\ scenarios'[d].gen # scenarios[d].gen
        BY <1>4, <1>5, <1>6, <3>1
      <4>2. QED
        BY <4>1
    <3>2. CASE d # c
      BY <1>6, <2>1, <3>2
    <3>3. QED
      BY <3>1, <3>2
  <2>3. QED
    BY <2>2 DEF ScenariosAge
<1>8. \A d \in Slugs : KeepsScenario(d)
  BY <1>3, <1>6 DEF KeepsScenario
<1>9. Tables' /\ Aging
  BY <1>0, <1>3, <1>7, <1>8, SameRows, AdditiveKeeps DEF Tables, Additive, Aging
<1>10. QED
  BY <1>0, <1>3, <1>6, <1>9, AnswerInv DEF Types

LEMMA CreateRouteInv ==
  ASSUME Inv, NEW r \in Requests, CreateRoute(r) \/ UpdateRoute(r)
  PROVE  Inv'
<1>0. /\ Types /\ Tables
      /\ req[r] \in Request /\ Carries(req[r]) /\ Authorised(req[r]) /\ Looked(req[r])
  BY RequestAt
<1>1. PICK t \in Routes : t = req[r].id
  BY <1>0 DEF CreateRoute, UpdateRoute, Carries, OfRoute
<1>2. PICK x :
        /\ x.row = "there" /\ x.scenario = req[r].slug /\ x.byAdmin = (req[r].user \in Admins)
        /\ x \in Route
        /\ routes' = [routes EXCEPT ![t] = x]
        /\ routes[t].row # "none" => x.owner = routes[t].owner
        /\ x.byAdmin \/ x.owner = req[r].user
  <2>1. req[r].user \in Owner /\ req[r].slug \in Slugs \cup {None} /\ routes[t] \in Route
    BY <1>0 DEF Request, Types
  <2>b. PICK b \in BOOLEAN : b = (req[r].user \in Admins)
    BY TruthValue
  <2>2. CASE CreateRoute(r)
    <3>1. PICK x : x = [row |-> "there", scenario |-> req[r].slug, byAdmin |-> b,
                        owner |-> IF req[r].pc = "create route" THEN req[r].user ELSE None]
      OBVIOUS
    <3>2. x \in Route
      BY <2>1, <3>1 DEF Route, Row, Owner
    <3>3. x.byAdmin \/ x.owner = req[r].user
      BY <1>0, <2>2, <2>b, <3>1 DEF CreateRoute, Carries
    <3>4. QED
      BY <1>1, <2>2, <2>b, <3>1, <3>2, <3>3 DEF CreateRoute
  <2>3. CASE UpdateRoute(r)
    <3>1. PICK x : x = [routes[t] EXCEPT !.scenario = req[r].slug, !.byAdmin = b]
      OBVIOUS
    <3>2. /\ x \in Route /\ x.row = routes[t].row /\ x.owner = routes[t].owner
          /\ x.scenario = req[r].slug /\ x.byAdmin = b
      BY <2>1, <3>1 DEF Route
    <3>3. routes[t].row = "there" /\ routes' = [routes EXCEPT ![t] = x]
      BY <1>1, <2>3, <2>b, <3>1 DEF UpdateRoute
    <3>4. x.byAdmin \/ x.owner = req[r].user
      BY <1>0, <1>1, <2>3, <2>b, <3>2 DEF UpdateRoute, Looked, CanAccess
    <3>5. QED
      BY <2>b, <3>2, <3>3, <3>4
  <2>4. QED
    BY <2>2, <2>3
<1>3. /\ ScenarioStays(r) /\ Answer(r)
      /\ UNCHANGED <<scenarios, stations, services, drafts, segments>>
      /\ req[r].pc \notin {"idle", "create scenario"}
  BY DEF CreateRoute, UpdateRoute
<1>4. /\ routes' \in [Routes -> Route] /\ routes'[t] = x
      /\ \A k \in Routes \ {t} : routes'[k] = routes[k]
  BY <1>0, <1>2 DEF Types
<1>5. RoutesAge /\ \A k \in Routes : KeepsRoute(k)
  BY <1>2, <1>4 DEF RoutesAge, KeepsRoute
<1>6. RouteOK(t)'
  <2>1. SUFFICES ASSUME req[r].slug # None
                 PROVE  /\ scenarios[req[r].slug].there
                        /\ x.byAdmin \/ x.owner = scenarios[req[r].slug].owner
    BY <1>2, <1>3, <1>4 DEF RouteOK
  <2>2. /\ req[r].slug \in Slugs
        /\ scenarios[req[r].slug].there /\ scenarios[req[r].slug].gen = req[r].gen
    BY <1>3, <2>1 DEF ScenarioStays
  <2>3. req[r].user \in Admins \/ req[r].user = scenarios[req[r].slug].owner
    BY <1>0, <1>3, <2>2 DEF Authorised, CanAccess
  <2>4. QED
    BY <1>2, <2>2, <2>3
<1>7. Tables' /\ Aging
  <2>1. Additive /\ Aging
    BY <1>0, <1>3, <1>5, SameRows DEF Additive, Aging
  <2>2. \A k \in Routes : RouteOK(k)'
    BY <1>0, <1>4, <1>6, <2>1, AdditiveKeeps
  <2>3. QED
    BY <1>0, <1>3, <2>1, <2>2, AdditiveKeeps DEF Tables
<1>8. QED
  BY <1>0, <1>3, <1>4, <1>7, AnswerInv DEF Types

LEMMA CreateStationInv ==
  ASSUME Inv, NEW r \in Requests, CreateStation(r)
  PROVE  Inv'
<1>0. /\ Types /\ Tables /\ req[r] \in Request /\ Carries(req[r])
  BY RequestAt
<1>1. PICK n \in Stations : n = req[r].id
  BY <1>0 DEF CreateStation, Carries, OfStation
<1>2. PICK x : x = [row |-> "there", scenario |-> req[r].slug]
  OBVIOUS
<1>3. /\ stations' = [stations EXCEPT ![n] = x] /\ stations[n].row = "none"
      /\ ScenarioStays(r) /\ Answer(r) /\ req[r].slug \in Slugs
      /\ UNCHANGED <<scenarios, routes, services, drafts, segments>>
  BY <1>0, <1>1, <1>2 DEF CreateStation, Carries, InScenario
<1>4. x \in Station /\ x.row = "there" /\ x.scenario = req[r].slug
  BY <1>2, <1>3 DEF Station, Row
<1>5. /\ stations' \in [Stations -> Station] /\ stations'[n] = x
      /\ \A k \in Stations \ {n} : stations'[k] = stations[k]
  BY <1>0, <1>3, <1>4 DEF Types
<1>6. \A k \in Stations : KeepsStation(k)
  BY <1>4, <1>5 DEF KeepsStation
<1>7. StationOK(n)'
  <2>1. scenarios[req[r].slug].there
    BY <1>3, OwnedRowsAssumption DEF ScenarioStays, Slugs
  <2>2. QED
    BY <1>3, <1>4, <1>5, <2>1 DEF StationOK
<1>8. Tables' /\ Aging
  <2>1. Additive /\ Aging
    BY <1>0, <1>3, <1>6, SameRows DEF Additive, Aging
  <2>2. \A k \in Stations : StationOK(k)'
    BY <1>0, <1>5, <1>7, <2>1, AdditiveKeeps
  <2>3. QED
    BY <1>0, <1>3, <2>1, <2>2, AdditiveKeeps DEF Tables
<1>9. QED
  BY <1>0, <1>3, <1>5, <1>8, AnswerInv DEF Types

LEMMA DeleteStationInv ==
  ASSUME Inv, NEW r \in Requests, DeleteStation(r)
  PROVE  Inv'
<1>0. /\ Types /\ Tables /\ req[r] \in Request /\ Carries(req[r])
  BY RequestAt
<1>1. PICK n \in Stations : n = req[r].id
  BY <1>0 DEF DeleteStation, Carries, OfStation
<1>2. PICK x : x = [stations[n] EXCEPT !.row = "gone"]
  OBVIOUS
<1>3. /\ stations' = [stations EXCEPT ![n] = x] /\ ServedBy(n) = {} /\ Answer(r)
      /\ UNCHANGED <<scenarios, routes, services, drafts, segments>>
  BY <1>1, <1>2 DEF DeleteStation
<1>4. x \in Station /\ x.row = "gone"
  BY <1>0, <1>2 DEF Types, Station, Row
<1>5. /\ stations' \in [Stations -> Station] /\ stations'[n] = x
      /\ \A k \in Stations \ {n} : stations'[k] = stations[k] /\ KeepsStation(k)
  BY <1>0, <1>3, <1>4 DEF Types, KeepsStation
<1>6. Aging
  BY <1>0, <1>3, SameRows DEF Aging
<1>7. Tables'
  <2>0. /\ \A c \in Slugs : KeepsScenario(c)
        /\ \A t \in Routes : KeepsRoute(t)
    BY <1>0, <1>3, SameRows
  <2>1. \A t \in Routes : RouteOK(t)'
    BY <1>0, <1>3 DEF Tables, RouteOK
  <2>2. ASSUME NEW k \in Stations PROVE StationOK(k)'
    <3>1. CASE k = n
      BY <1>4, <1>5, <3>1 DEF StationOK
    <3>2. CASE k # n
      BY <1>0, <1>3, <1>5, <3>2 DEF Tables, StationOK
    <3>3. QED
      BY <3>1, <3>2
  <2>3. ASSUME NEW v \in Services PROVE ServiceOK(v)'
    <3>1. services[v].row = "there" =>
            services[v].scenario \in Slugs /\ services[v].route \in Routes
      BY <1>0 DEF Tables, ServiceOK
    <3>2. services[v].row = "there" => n \notin services[v].stops
      BY <1>3 DEF ServedBy
    <3>3. services[v].stops \subseteq Stations
      BY <1>0 DEF Types, Service
    <3>4. services[v].row = "there" => \A k \in services[v].stops : KeepsStation(k)
      BY <1>5, <3>2, <3>3
    <3>5. QED
      BY <1>0, <1>3, <2>0, <3>1, <3>4, ServiceKept DEF Tables
  <2>4. \A w \in Drafts : DraftOK(w)'
    BY <1>0, <1>3 DEF Tables, DraftOK
  <2>5. \A c \in Slugs : SegmentsOK(c)'
    BY <1>0, <1>3 DEF Tables, SegmentsOK
  <2>6. QED
    BY <2>1, <2>2, <2>3, <2>4, <2>5 DEF Tables
<1>8. QED
  BY <1>0, <1>3, <1>5, <1>6, <1>7, AnswerInv DEF Types

LEMMA WriteServiceInv ==
  ASSUME Inv, NEW r \in Requests, CreateService(r) \/ UpdateService(r) \/ DeleteService(r)
  PROVE  Inv'
<1>0. /\ Types /\ Tables
      /\ req[r] \in Request /\ Carries(req[r]) /\ Authorised(req[r])
  BY RequestAt
<1>1. PICK v \in Services : v = req[r].id
  BY <1>0 DEF CreateService, UpdateService, DeleteService, Carries, OfService
<1>2. services[v] \in Service /\ req[r].user \in Owner /\ req[r].slug \in Slugs \cup {None}
      /\ req[r].route \in Routes \cup {None} /\ req[r].stops \subseteq Stations
  BY <1>0 DEF Types, Request
<1>3. /\ Answer(r) /\ UNCHANGED <<scenarios, routes, stations, drafts, segments>>
      /\ ServiceOK(v)
  BY <1>0 DEF CreateService, UpdateService, DeleteService, Tables
<1>4. PICK x :
        /\ x \in Service /\ services' = [services EXCEPT ![v] = x]
        /\ x.row # "none" /\ (services[v].row # "none" => x.owner = services[v].owner)
        /\ x.row = "there" =>
             /\ x.scenario \in Slugs /\ scenarios[x.scenario].there
             /\ x.byAdmin \/ x.owner = scenarios[x.scenario].owner
             /\ x.route \in Routes /\ routes[x.route].row = "there"
             /\ \A n \in x.stops : stations[n].row = "there"
  <2>1. CASE CreateService(r)
    <3>b. PICK b \in BOOLEAN : b = (req[r].user \in Admins)
      BY TruthValue
    <3>1. PICK x : x = [row |-> "there", owner |-> req[r].user, scenario |-> req[r].slug,
                        route |-> req[r].route, stops |-> req[r].stops, byAdmin |-> b]
      OBVIOUS
    <3>2. /\ x \in Service /\ x.row = "there" /\ x.owner = req[r].user /\ x.byAdmin = b
          /\ x.scenario = req[r].slug /\ x.route = req[r].route /\ x.stops = req[r].stops
      BY <1>2, <3>1 DEF Service, Row
    <3>3. services' = [services EXCEPT ![v] = x] /\ services[v].row = "none"
      BY <1>1, <2>1, <3>1, <3>b DEF CreateService
    <3>4. req[r].slug \in Slugs /\ req[r].route \in Routes
      BY <1>0, <2>1 DEF CreateService, Carries, InScenario
    <3>5. scenarios[req[r].slug].there /\ scenarios[req[r].slug].gen = req[r].gen
      BY <2>1, <3>4, OwnedRowsAssumption DEF CreateService, ScenarioStays, Slugs
    <3>6. b \/ req[r].user = scenarios[req[r].slug].owner
      BY <1>0, <2>1, <3>4, <3>5, <3>b DEF CreateService, Authorised, CanAccess
    <3>7. routes[req[r].route].row = "there" /\ \A n \in req[r].stops : stations[n].row = "there"
      BY <2>1 DEF CreateService, PartsStay
    <3>8. QED
      BY ZenonT(60), <3>2, <3>3, <3>4, <3>5, <3>6, <3>7
  <2>2. CASE UpdateService(r)
    <3>1. PICK x : x = [services[v] EXCEPT !.route = req[r].route, !.stops = req[r].stops]
      OBVIOUS
    <3>2. /\ x \in Service /\ x.row = services[v].row /\ x.owner = services[v].owner
          /\ x.scenario = services[v].scenario /\ x.byAdmin = services[v].byAdmin
          /\ x.route = req[r].route /\ x.stops = req[r].stops
      BY <1>2, <3>1 DEF Service
    <3>3. /\ services' = [services EXCEPT ![v] = x] /\ services[v].row = "there"
          /\ routes[req[r].route].row = "there" /\ \A n \in req[r].stops : stations[n].row = "there"
      BY <1>1, <2>2, <3>1 DEF UpdateService, PartsStay
    <3>4. req[r].route \in Routes
      BY <1>0, <2>2 DEF UpdateService, Carries
    <3>5. QED
      BY ZenonT(60), <1>3, <3>2, <3>3, <3>4 DEF ServiceOK
  <2>3. CASE DeleteService(r)
    <3>1. PICK x : x = [services[v] EXCEPT !.row = "gone"]
      OBVIOUS
    <3>2. x \in Service /\ x.row = "gone" /\ x.owner = services[v].owner
      BY <1>2, <3>1 DEF Service, Row
    <3>3. services' = [services EXCEPT ![v] = x]
      BY <1>1, <2>3, <3>1 DEF DeleteService
    <3>4. QED
      BY <3>2, <3>3
  <2>4. QED
    BY <2>1, <2>2, <2>3
<1>5. /\ services' \in [Services -> Service] /\ services'[v] = x
      /\ \A k \in Services \ {v} : services'[k] = services[k]
  BY <1>0, <1>4 DEF Types
<1>6. ServicesAge
  BY <1>4, <1>5 DEF ServicesAge
<1>7. ServiceOK(v)'
  BY <1>3, <1>4, <1>5 DEF ServiceOK
<1>8. Tables' /\ Aging
  <2>1. Additive /\ Aging
    BY <1>0, <1>3, <1>6, SameRows DEF Additive, Aging
  <2>2. \A k \in Services : ServiceOK(k)'
    BY <1>0, <1>5, <1>7, <2>1, AdditiveKeeps
  <2>3. QED
    BY <1>0, <1>3, <2>1, <2>2, AdditiveKeeps DEF Tables
<1>9. QED
  BY <1>0, <1>3, <1>5, <1>8, AnswerInv DEF Types

LEMMA UpsertTravelTimesInv ==
  ASSUME Inv, NEW r \in Requests, UpsertTravelTimes(r)
  PROVE  Inv'
<1>0. /\ Types /\ Tables /\ req[r] \in Request /\ Carries(req[r])
  BY RequestAt
<1>1. PICK c \in Slugs : c = req[r].slug
  BY <1>0 DEF UpsertTravelTimes, Carries, InScenario
<1>2. /\ segments' = [segments EXCEPT ![c] = req[r].segments] /\ Answer(r)
      /\ \A g \in req[r].segments : routes[g.route].row = "there"
      /\ UNCHANGED <<scenarios, routes, stations, services, drafts>>
  BY <1>1 DEF UpsertTravelTimes
<1>3. req[r].segments \subseteq Segment
  BY <1>0 DEF Request
<1>4. /\ segments' \in [Slugs -> SUBSET Segment] /\ segments'[c] = req[r].segments
      /\ \A d \in Slugs \ {c} : segments'[d] = segments[d]
  BY <1>0, <1>2, <1>3 DEF Types
<1>5. SegmentsOK(c)'
  BY <1>2, <1>4 DEF SegmentsOK
<1>6. Tables' /\ Aging
  <2>1. Additive /\ Aging
    BY <1>0, <1>2, SameRows DEF Additive, Aging
  <2>2. \A d \in Slugs : SegmentsOK(d)'
    BY <1>0, <1>4, <1>5, <2>1, AdditiveKeeps
  <2>3. QED
    BY <1>0, <1>2, <2>1, <2>2, AdditiveKeeps DEF Tables
<1>7. QED
  BY <1>0, <1>2, <1>4, <1>6, AnswerInv DEF Types

\* A draft is written, on a route that whoever placed it may use, and no route
\* goes.
LEMMA DraftWritten ==
  ASSUME Types, Tables, NEW w \in Drafts, NEW x \in Draft, drafts' = [drafts EXCEPT ![w] = x],
         x.row = "there" => /\ x.route \in Routes /\ routes'[x.route].row = "there"
                            /\ CanReference(x.placedBy, routes'[x.route].owner),
         UNCHANGED <<scenarios, stations, services, segments>>,
         RoutesAge, \A t \in Routes : KeepsRoute(t) /\ RouteOK(t)'
  PROVE  drafts' \in [Drafts -> Draft] /\ Tables' /\ Aging
<1>1. /\ drafts' \in [Drafts -> Draft] /\ drafts'[w] = x
      /\ \A k \in Drafts \ {w} : drafts'[k] = drafts[k]
  BY DEF Types
<1>2. DraftOK(w)'
  BY <1>1 DEF DraftOK
<1>3. Additive /\ Aging
  BY SameRows DEF Additive, Aging
<1>4. \A k \in Drafts : DraftOK(k)'
  BY <1>1, <1>2, <1>3, AdditiveKeeps
<1>5. Tables'
  BY <1>3, <1>4, AdditiveKeeps DEF Tables
<1>6. QED
  BY <1>1, <1>3, <1>5

LEMMA WriteDraftInv ==
  ASSUME Inv, NEW r \in Requests, CreateDraft(r) \/ UpdateDraft(r) \/ DeleteDraft(r)
  PROVE  Inv'
<1>0. /\ Types /\ Tables /\ req[r] \in Request /\ Carries(req[r]) /\ Looked(req[r])
  BY RequestAt
<1>1. PICK w \in Drafts : w = req[r].id
  BY <1>0 DEF CreateDraft, UpdateDraft, DeleteDraft, Carries, OfDraft
<1>2. /\ Answer(r) /\ UNCHANGED <<scenarios, routes, stations, services, segments>>
      /\ drafts[w] \in Draft /\ req[r].user \in Owner /\ req[r].route \in Routes \cup {None}
  BY <1>0 DEF CreateDraft, UpdateDraft, DeleteDraft, Types, Request
<1>3. PICK x \in Draft :
        /\ drafts' = [drafts EXCEPT ![w] = x]
        /\ x.row = "there" => /\ x.route = req[r].route /\ x.placedBy = req[r].user
                              /\ req[r].pc \in {"create draft", "update draft"}
                              /\ routes[req[r].route].row = "there"
  <2>1. CASE CreateDraft(r)
    <3>1. PICK x : x = [row |-> "there", owner |-> req[r].user,
                        route |-> req[r].route, placedBy |-> req[r].user]
      OBVIOUS
    <3>2. x \in Draft /\ x.route = req[r].route /\ x.placedBy = req[r].user
      BY <1>2, <3>1 DEF Draft, Row
    <3>3. QED
      BY <1>1, <2>1, <3>1, <3>2 DEF CreateDraft
  <2>2. CASE UpdateDraft(r)
    <3>1. PICK x : x = [drafts[w] EXCEPT !.route = req[r].route, !.placedBy = req[r].user]
      OBVIOUS
    <3>2. x \in Draft /\ x.route = req[r].route /\ x.placedBy = req[r].user
      BY <1>2, <3>1 DEF Draft
    <3>3. QED
      BY <1>1, <2>2, <3>1, <3>2 DEF UpdateDraft
  <2>3. CASE DeleteDraft(r)
    <3>1. PICK x : x = [drafts[w] EXCEPT !.row = "gone"]
      OBVIOUS
    <3>2. x \in Draft /\ x.row = "gone"
      BY <1>2, <3>1 DEF Draft, Row
    <3>3. QED
      BY <1>1, <2>3, <3>1, <3>2 DEF DeleteDraft
  <2>4. QED
    BY <2>1, <2>2, <2>3
<1>4. x.row = "there" => /\ x.route \in Routes /\ routes'[x.route].row = "there"
                         /\ CanReference(x.placedBy, routes'[x.route].owner)
  BY <1>0, <1>2, <1>3 DEF Carries, Looked
<1>5. RoutesAge /\ \A t \in Routes : KeepsRoute(t)
  BY <1>0, <1>2, SameRows
<1>6. \A t \in Routes : RouteOK(t)'
  BY <1>0, <1>2 DEF Tables, RouteOK
<1>7. drafts' \in [Drafts -> Draft] /\ Tables' /\ Aging
  BY <1>0, <1>2, <1>3, <1>4, <1>5, <1>6, DraftWritten
<1>8. QED
  BY <1>0, <1>2, <1>7, AnswerInv DEF Types

\* A draft goes to another user, with a route that this user may use.
LEMMA MoveDraftInv ==
  ASSUME Inv, NEW w \in Drafts, NEW u \in Users, MoveDraft(w, u)
  PROVE  Inv'
<1>0. /\ Types /\ Tables /\ drafts[w] \in Draft /\ u \in Owner
      /\ drafts[w].row = "there" /\ drafts[w].route \in Routes
      /\ routes[drafts[w].route].row = "there"
  BY DEF MoveDraft, Inv, Types, Tables, DraftOK, Owner
<1>1. UNCHANGED <<scenarios, stations, services, segments, req, served>>
  BY DEF MoveDraft
<1>2. PICK k \in Routes :
        /\ drafts' = [drafts EXCEPT ![w] = [@ EXCEPT !.owner = u, !.route = k, !.placedBy = u]]
        /\ \/ /\ routes' = routes /\ k = drafts[w].route /\ routes[k].owner \in {None, u}
           \/ /\ routes[k].row = "none"
              /\ routes' = [routes EXCEPT ![k] =
                   [row |-> "there", owner |-> u, scenario |-> None, byAdmin |-> FALSE]]
  BY <1>0 DEF MoveDraft, MintRouteSlug
<1>3. PICK x : x = [drafts[w] EXCEPT !.owner = u, !.route = k, !.placedBy = u]
  OBVIOUS
<1>4. x \in Draft /\ x.route = k /\ x.placedBy = u /\ drafts' = [drafts EXCEPT ![w] = x]
  BY <1>0, <1>2, <1>3 DEF Draft
<1>5. /\ routes' \in [Routes -> Route] /\ RoutesAge
      /\ routes'[k].row = "there" /\ routes'[k].owner \in {None, u}
      /\ \A t \in Routes : KeepsRoute(t) /\ RouteOK(t)'
  <2>1. CASE routes' = routes /\ k = drafts[w].route /\ routes[k].owner \in {None, u}
    <3>1. RoutesAge /\ \A t \in Routes : KeepsRoute(t)
      BY <1>0, <2>1, SameRows
    <3>2. \A t \in Routes : RouteOK(t)'
      BY <1>0, <1>1, <2>1 DEF Tables, RouteOK
    <3>3. QED
      BY <1>0, <2>1, <3>1, <3>2 DEF Types
  <2>2. CASE /\ routes[k].row = "none"
             /\ routes' = [routes EXCEPT ![k] =
                  [row |-> "there", owner |-> u, scenario |-> None, byAdmin |-> FALSE]]
    <3>1. PICK y : y = [row |-> "there", owner |-> u, scenario |-> None, byAdmin |-> FALSE]
      OBVIOUS
    <3>2. y \in Route /\ y.row = "there" /\ y.owner = u /\ y.scenario = None
      BY <1>0, <3>1 DEF Route, Row
    <3>3. /\ routes' \in [Routes -> Route] /\ routes'[k] = y
          /\ \A t \in Routes \ {k} : routes'[t] = routes[t]
      BY <1>0, <2>2, <3>1, <3>2 DEF Types
    <3>4. RoutesAge /\ \A t \in Routes : KeepsRoute(t)
      BY <2>2, <3>3 DEF RoutesAge, KeepsRoute
    <3>5. RouteOK(k)'
      BY <3>2, <3>3 DEF RouteOK
    <3>6. Additive
      BY <1>0, <1>1, <3>4, SameRows DEF Additive
    <3>7. \A t \in Routes : RouteOK(t)'
      BY <1>0, <3>3, <3>5, <3>6, AdditiveKeeps
    <3>8. QED
      BY <3>2, <3>3, <3>4, <3>7
  <2>3. QED
    BY <1>2, <2>1, <2>2
<1>6. CanReference(u, routes'[k].owner)
  BY <1>5 DEF CanReference, CanAccess
<1>7. drafts' \in [Drafts -> Draft] /\ Tables' /\ Aging
  BY <1>0, <1>1, <1>4, <1>5, <1>6, DraftWritten
<1>8. Types'
  BY <1>0, <1>1, <1>5, <1>7 DEF Types
<1>9. QED
  BY <1>1, <1>7, <1>8, EveryoneWaits DEF Inv

\* What the routes ts take with them.
LEMMA WithoutRoutes ==
  ASSUME Types, Tables, NEW ts \in SUBSET Routes
  PROVE  /\ RoutesWithout(ts) \in [Routes -> Route]
         /\ \A t \in Routes : /\ RoutesWithout(ts)[t].owner = routes[t].owner
                              /\ t \in ts => RoutesWithout(ts)[t].row = "gone"
                              /\ t \notin ts => RoutesWithout(ts)[t] = routes[t]
         /\ DraftsWithout(ts) \in [Drafts -> Draft]
         /\ \A w \in Drafts : \/ DraftsWithout(ts)[w].row = "gone"
                              \/ /\ DraftsWithout(ts)[w] = drafts[w]
                                 /\ drafts[w].row = "there" => drafts[w].route \notin ts
         /\ SegmentsWithout(ts) \in [Slugs -> SUBSET Segment]
         /\ \A c \in Slugs : /\ SegmentsWithout(ts)[c] \subseteq segments[c]
                             /\ \A g \in SegmentsWithout(ts)[c] : g.route \notin ts
<1>1. ASSUME NEW t \in Routes
      PROVE  /\ [routes[t] EXCEPT !.row = "gone"] \in Route
             /\ [routes[t] EXCEPT !.row = "gone"].row = "gone"
             /\ [routes[t] EXCEPT !.row = "gone"].owner = routes[t].owner
             /\ routes[t] \in Route
  BY DEF Types, Route, Row
<1>2. ASSUME NEW w \in Drafts
      PROVE  /\ [drafts[w] EXCEPT !.row = "gone"] \in Draft
             /\ [drafts[w] EXCEPT !.row = "gone"].row = "gone"
             /\ drafts[w] \in Draft
  BY DEF Types, Draft, Row
<1>3. /\ RoutesWithout(ts) \in [Routes -> Route]
      /\ \A t \in Routes : /\ RoutesWithout(ts)[t].owner = routes[t].owner
                           /\ t \in ts => RoutesWithout(ts)[t].row = "gone"
                           /\ t \notin ts => RoutesWithout(ts)[t] = routes[t]
  BY <1>1 DEF RoutesWithout
<1>4. /\ DraftsWithout(ts) \in [Drafts -> Draft]
      /\ \A w \in Drafts : \/ DraftsWithout(ts)[w].row = "gone"
                           \/ /\ DraftsWithout(ts)[w] = drafts[w]
                              /\ drafts[w].row = "there" => drafts[w].route \notin ts
  BY <1>2 DEF DraftsWithout
<1>5. /\ SegmentsWithout(ts) \in [Slugs -> SUBSET Segment]
      /\ \A c \in Slugs : /\ SegmentsWithout(ts)[c] \subseteq segments[c]
                          /\ \A g \in SegmentsWithout(ts)[c] : g.route \notin ts
  BY DEF SegmentsWithout, Types
<1>6. QED
  BY <1>3, <1>4, <1>5

\* Without the routes ts, and with everything that is built on them gone or
\* elsewhere, drafts and travel times are well-formed.
LEMMA CascadeKeeps ==
  ASSUME Types, Tables, NEW ts \in SUBSET Routes, routes' = RoutesWithout(ts)
  PROVE  /\ RoutesAge
         /\ \A t \in Routes \ ts : routes'[t] = routes[t] /\ KeepsRoute(t)
         /\ \A w \in Drafts : drafts' = DraftsWithout(ts) => DraftOK(w)'
         /\ \A c \in Slugs : segments'[c] \subseteq SegmentsWithout(ts)[c] => SegmentsOK(c)'
<1>1. RoutesAge
  BY WithoutRoutes DEF RoutesAge
<1>2. \A t \in Routes \ ts : routes'[t] = routes[t] /\ KeepsRoute(t)
  BY WithoutRoutes DEF KeepsRoute
<1>3. ASSUME NEW w \in Drafts, drafts' = DraftsWithout(ts) PROVE DraftOK(w)'
  <2>1. CASE drafts'[w].row = "gone"
    BY <2>1 DEF DraftOK
  <2>2. CASE drafts'[w] = drafts[w] /\ (drafts[w].row = "there" => drafts[w].route \notin ts)
    <3>1. drafts[w].row = "there" => drafts[w].route \in Routes
      BY DEF Tables, DraftOK
    <3>2. QED
      BY <1>2, <2>2, <3>1, DraftKept DEF Tables
  <2>3. QED
    BY <1>3, <2>1, <2>2, WithoutRoutes
<1>4. ASSUME NEW c \in Slugs, segments'[c] \subseteq SegmentsWithout(ts)[c] PROVE SegmentsOK(c)'
  <2>1. segments'[c] \subseteq segments[c] /\ \A g \in segments'[c] : g.route \notin ts
    BY <1>4, WithoutRoutes
  <2>2. \A g \in segments'[c] : g.route \in Routes
    BY <2>1 DEF Types, Segment
  <2>3. QED
    BY <1>2, <2>1, <2>2, SegmentsKept DEF Tables
<1>5. QED
  BY <1>1, <1>2, <1>3, <1>4

LEMMA DeleteRouteInv ==
  ASSUME Inv, NEW r \in Requests, DeleteRoute(r)
  PROVE  Inv'
<1>0. /\ Types /\ Tables /\ req[r] \in Request /\ Carries(req[r])
  BY RequestAt
<1>1. PICK t \in Routes : t = req[r].id
  BY <1>0 DEF DeleteRoute, Carries, OfRoute
<1>2. /\ routes' = RoutesWithout({t}) /\ drafts' = DraftsWithout({t})
      /\ segments' = SegmentsWithout({t})
      /\ \A v \in Services : services[v].row = "there" => services[v].route # t
      /\ Answer(r) /\ UNCHANGED <<scenarios, stations, services>>
  BY <1>1 DEF DeleteRoute
<1>3. {t} \in SUBSET Routes
  OBVIOUS
<1>4. /\ routes' \in [Routes -> Route] /\ drafts' \in [Drafts -> Draft]
      /\ segments' \in [Slugs -> SUBSET Segment]
      /\ routes'[t].row = "gone"
  BY <1>0, <1>2, <1>3, WithoutRoutes
<1>5. /\ RoutesAge
      /\ \A k \in Routes \ {t} : routes'[k] = routes[k] /\ KeepsRoute(k)
      /\ \A w \in Drafts : DraftOK(w)'
      /\ \A c \in Slugs : SegmentsOK(c)'
  BY <1>0, <1>2, <1>3, CascadeKeeps
<1>6. /\ ScenariosAge /\ ServicesAge
      /\ \A c \in Slugs : KeepsScenario(c)
      /\ \A n \in Stations : KeepsStation(n)
  BY <1>0, <1>2, SameRows
<1>7. ASSUME NEW k \in Routes PROVE RouteOK(k)'
  <2>1. CASE k = t
    BY <1>4, <2>1 DEF RouteOK
  <2>2. CASE k # t
    <3>1. routes[k].scenario \in Slugs \cup {None}
      BY <1>0 DEF Types, Route
    <3>2. QED
      BY <1>0, <1>5, <1>6, <2>2, <3>1, RouteKept DEF Tables
  <2>3. QED
    BY <2>1, <2>2
<1>8. \A n \in Stations : StationOK(n)'
  BY <1>0, <1>2 DEF Tables, StationOK
<1>9. ASSUME NEW v \in Services PROVE ServiceOK(v)'
  <2>1. services[v].row = "there" =>
          services[v].scenario \in Slugs /\ services[v].route \in Routes \ {t}
    BY <1>0, <1>2 DEF Tables, ServiceOK
  <2>2. services[v].stops \subseteq Stations
    BY <1>0 DEF Types, Service
  <2>3. QED
    BY <1>0, <1>2, <1>5, <1>6, <2>1, <2>2, ServiceKept DEF Tables
<1>10. Tables' /\ Aging
  BY <1>5, <1>6, <1>7, <1>8, <1>9 DEF Tables, Aging
<1>11. QED
  BY <1>0, <1>2, <1>4, <1>10, AnswerInv DEF Types

LEMMA DeleteScenarioInv ==
  ASSUME Inv, NEW r \in Requests, DeleteScenario(r)
  PROVE  Inv'
<1>0. /\ Types /\ Tables /\ req[r] \in Request /\ Carries(req[r])
  BY RequestAt
<1>1. PICK c \in Slugs : c = req[r].slug
  BY <1>0 DEF DeleteScenario, Carries, InScenario
<1>2. PICK ts \in SUBSET Routes : ts = RoutesIn(c)
  BY DEF RoutesIn
<1>3. PICK x : x = [scenarios[c] EXCEPT !.there = FALSE, !.owner = None]
  OBVIOUS
<1>4. /\ scenarios' = [scenarios EXCEPT ![c] = x]
      /\ routes' = RoutesWithout(ts) /\ drafts' = DraftsWithout(ts)
      /\ stations' = [n \in Stations |-> IF n \in StationsIn(c)
                        THEN [stations[n] EXCEPT !.row = "gone"] ELSE stations[n]]
      /\ services' = [v \in Services |-> IF v \in ServicesIn(c)
                        THEN [services[v] EXCEPT !.row = "gone"] ELSE services[v]]
      /\ segments' = [SegmentsWithout(ts) EXCEPT ![c] = {}]
      /\ ~HeldFromOutside(c) /\ Answer(r)
  BY <1>1, <1>2, <1>3 DEF DeleteScenario
<1>5. x \in Scenario /\ ~x.there /\ x.gen = scenarios[c].gen
  BY <1>0, <1>3 DEF Types, Scenario, Owner
<1>6. /\ scenarios' \in [Slugs -> Scenario] /\ scenarios'[c] = x
      /\ \A d \in Slugs \ {c} : scenarios'[d] = scenarios[d]
  BY <1>0, <1>4, <1>5 DEF Types
<1>7. ScenariosAge /\ \A d \in Slugs \ {c} : KeepsScenario(d)
  <2>1. \A d \in Slugs : scenarios[d].gen \in Nat
    BY <1>0 DEF Types, Scenario
  <2>2. \A d \in Slugs : scenarios'[d].gen = scenarios[d].gen
    BY <1>5, <1>6
  <2>3. \A d \in Slugs : scenarios'[d].there =>
          scenarios[d].there /\ scenarios'[d].owner = scenarios[d].owner
    BY <1>5, <1>6
  <2>4. QED
    BY <1>6, <2>1, <2>2, <2>3 DEF ScenariosAge, KeepsScenario
<1>8. /\ stations' \in [Stations -> Station]
      /\ \A n \in StationsIn(c) : stations'[n].row = "gone"
      /\ \A n \in Stations \ StationsIn(c) : stations'[n] = stations[n]
  <2>1. \A n \in Stations : /\ [stations[n] EXCEPT !.row = "gone"] \in Station
                            /\ [stations[n] EXCEPT !.row = "gone"].row = "gone"
                            /\ stations[n] \in Station
    BY <1>0 DEF Types, Station, Row
  <2>2. StationsIn(c) \subseteq Stations
    BY DEF StationsIn
  <2>3. QED
    BY <1>4, <2>1, <2>2
<1>9. /\ services' \in [Services -> Service] /\ ServicesAge
      /\ \A v \in ServicesIn(c) : services'[v].row = "gone"
      /\ \A v \in Services \ ServicesIn(c) : services'[v] = services[v]
  <2>1. \A v \in Services : /\ [services[v] EXCEPT !.row = "gone"] \in Service
                            /\ [services[v] EXCEPT !.row = "gone"].row = "gone"
                            /\ [services[v] EXCEPT !.row = "gone"].owner = services[v].owner
                            /\ services[v] \in Service
    BY <1>0 DEF Types, Service, Row
  <2>2. ServicesIn(c) \subseteq Services
    BY DEF ServicesIn
  <2>3. QED
    BY <1>4, <2>1, <2>2 DEF ServicesAge
<1>10. /\ routes' \in [Routes -> Route] /\ drafts' \in [Drafts -> Draft]
       /\ SegmentsWithout(ts) \in [Slugs -> SUBSET Segment]
       /\ \A t \in ts : routes'[t].row = "gone"
  BY <1>0, <1>4, WithoutRoutes
<1>11. /\ segments' \in [Slugs -> SUBSET Segment]
       /\ \A d \in Slugs : segments'[d] \subseteq SegmentsWithout(ts)[d]
  BY <1>4, <1>10
<1>12. /\ RoutesAge
       /\ \A t \in Routes \ ts : routes'[t] = routes[t] /\ KeepsRoute(t)
       /\ \A w \in Drafts : DraftOK(w)'
       /\ \A d \in Slugs : SegmentsOK(d)'
  BY <1>0, <1>4, <1>11, CascadeKeeps
<1>13. ASSUME NEW t \in Routes PROVE RouteOK(t)'
  <2>1. CASE t \in ts
    BY <1>10, <2>1 DEF RouteOK
  <2>2. CASE t \notin ts
    <3>1. routes[t].row = "there" /\ routes[t].scenario # None =>
            routes[t].scenario \in Slugs \ {c}
      BY <1>0, <1>2, <2>2 DEF Types, Route, RoutesIn
    <3>2. QED
      BY <1>0, <1>7, <1>12, <2>2, <3>1, RouteKept DEF Tables
  <2>3. QED
    BY <2>1, <2>2
<1>14. ASSUME NEW n \in Stations PROVE StationOK(n)'
  <2>1. CASE n \in StationsIn(c)
    BY <1>8, <2>1 DEF StationOK
  <2>2. CASE n \notin StationsIn(c)
    <3>1. stations[n].row = "there" => stations[n].scenario \in Slugs \ {c}
      BY <1>0, <2>2 DEF Tables, StationOK, StationsIn
    <3>2. QED
      BY <1>0, <1>7, <1>8, <2>2, <3>1, StationKept DEF Tables
  <2>3. QED
    BY <2>1, <2>2
<1>15. ASSUME NEW v \in Services PROVE ServiceOK(v)'
  <2>1. CASE v \in ServicesIn(c)
    BY <1>9, <2>1 DEF ServiceOK
  <2>2. CASE v \notin ServicesIn(c)
    <3>1. services[v].row = "there" =>
            services[v].scenario \in Slugs \ {c} /\ services[v].route \in Routes
      BY <1>0, <2>2 DEF Tables, ServiceOK, ServicesIn
    <3>2. services[v].row = "there" =>
            services[v].route \notin ts /\ services[v].stops \cap StationsIn(c) = {}
      BY <1>2, <1>4, <3>1 DEF HeldFromOutside
    <3>3. services[v].stops \subseteq Stations
      BY <1>0 DEF Types, Service
    <3>4. services[v].row = "there" => \A n \in services[v].stops : KeepsStation(n)
      BY <1>8, <3>2, <3>3 DEF KeepsStation
    <3>5. QED
      BY <1>0, <1>7, <1>9, <1>12, <2>2, <3>1, <3>2, <3>4, ServiceKept DEF Tables
  <2>3. QED
    BY <2>1, <2>2
<1>16. Tables' /\ Aging
  BY <1>7, <1>9, <1>12, <1>13, <1>14, <1>15 DEF Tables, Aging
<1>17. QED
  BY <1>4, <1>6, <1>8, <1>9, <1>10, <1>11, <1>16, AnswerInv

LEMMA WriteFailsInv ==
  ASSUME Inv, NEW r \in Requests, WriteFails(r)
  PROVE  Inv'
<1>1. Answer(r) /\ UNCHANGED rows
  BY DEF WriteFails, Fail
<1>2. Tables' /\ Aging
  BY <1>1, RowsUntouched DEF Inv
<1>3. QED
  BY <1>1, <1>2, AnswerInv DEF Inv, Types, rows

----------------------------------------------------------------------------
(* The invariant. *)

\* A seeded database is well-formed.
LEMMA InitInv == Init => Inv
<1> SUFFICES ASSUME Init PROVE Inv
  OBVIOUS
<1>1. PICK owner \in Owner, c \in Authored, home \in Slugs :
        LET placed == IF owner = None THEN {} ELSE Planted
            where(id) == IF id \in Seeded THEN Curated ELSE IF id \in placed THEN c ELSE None
            ownerOf(k) == IF k = Curated THEN None ELSE owner
        IN
        /\ home \in {Curated, c}
        /\ scenarios = [k \in Slugs |-> [there |-> k = Curated \/ (k = c /\ owner # None),
                                        owner |-> IF k = c THEN owner ELSE None, gen |-> 0]]
        /\ routes = [t \in Routes |->
             [row |-> IF where(t) = None THEN "none" ELSE "there", scenario |-> where(t),
              owner |-> ownerOf(where(t)), byAdmin |-> FALSE]]
        /\ stations = [n \in Stations |->
             [row |-> IF where(n) = None THEN "none" ELSE "there", scenario |-> where(n)]]
        /\ services = [v \in Services |->
             IF v \notin placed
             THEN [row |-> "none", owner |-> None, scenario |-> None, route |-> None,
                   stops |-> {}, byAdmin |-> FALSE]
             ELSE [row |-> "there", owner |-> ownerOf(home), scenario |-> home,
                   route |-> CHOOSE t \in Routes : where(t) = home,
                   stops |-> {n \in Stations : where(n) = home}, byAdmin |-> FALSE]]
        /\ drafts = [w \in Drafts |->
             [row |-> "none", owner |-> None, route |-> None, placedBy |-> None]]
        /\ segments = [k \in Slugs |-> {}]
        /\ req = [r \in Requests |-> Idle]
        /\ served = 0
  BY DEF Init
<1> DEFINE placed == IF owner = None THEN {} ELSE Planted
           where(id) == IF id \in Seeded THEN Curated ELSE IF id \in placed THEN c ELSE None
           ownerOf(k) == IF k = Curated THEN None ELSE owner
           there(k) == k = Curated \/ (k = c /\ owner # None)
           line == CHOOSE t \in Routes : where(t) = home
<1>2. /\ home \in {Curated, c}
      /\ scenarios = [k \in Slugs |-> [there |-> there(k),
                                      owner |-> IF k = c THEN owner ELSE None, gen |-> 0]]
      /\ routes = [t \in Routes |->
           [row |-> IF where(t) = None THEN "none" ELSE "there", scenario |-> where(t),
            owner |-> ownerOf(where(t)), byAdmin |-> FALSE]]
      /\ stations = [n \in Stations |->
           [row |-> IF where(n) = None THEN "none" ELSE "there", scenario |-> where(n)]]
      /\ services = [v \in Services |->
           IF v \notin placed
           THEN [row |-> "none", owner |-> None, scenario |-> None, route |-> None,
                 stops |-> {}, byAdmin |-> FALSE]
           ELSE [row |-> "there", owner |-> ownerOf(home), scenario |-> home,
                 route |-> line,
                 stops |-> {n \in Stations : where(n) = home}, byAdmin |-> FALSE]]
  BY <1>1
<1>3. /\ drafts = [w \in Drafts |->
             [row |-> "none", owner |-> None, route |-> None, placedBy |-> None]]
      /\ segments = [k \in Slugs |-> {}]
      /\ req = [r \in Requests |-> Idle] /\ served = 0
  BY <1>1
<1>4. /\ None \notin Slugs /\ Curated \in Slugs /\ c \in Slugs /\ Curated # c
      /\ None \in Owner
  BY OwnedRowsAssumption DEF Slugs, Owner
<1>5. \A id : /\ where(id) \in Slugs \cup {None}
              /\ where(id) \in {Curated, c, None}
              /\ where(id) = c => owner # None
              /\ ownerOf(where(id)) \in Owner
  BY <1>4
<1>6. \A k : there(k) \in BOOLEAN
  OBVIOUS
<1>7. ASSUME NEW v \in Services, v \in placed
      PROVE  line \in Routes /\ where(line) = home
  <2>1. Planted \cap Services # {} /\ placed = Planted
    BY <1>7
  <2>2. PICK t1 \in Routes : t1 \in Seeded
    BY <2>1, OwnedRowsAssumption
  <2>3. PICK t2 \in Routes : t2 \in Planted /\ t2 \notin Seeded
    BY <2>1, OwnedRowsAssumption
  <2>4. where(t1) = Curated /\ where(t2) = c
    BY <2>1, <2>2, <2>3
  <2>5. \E t \in Routes : where(t) = home
    BY <1>2, <2>2, <2>3, <2>4
  <2> HIDE DEF where
  <2>6. QED
    BY <2>5
<1>8. \A v \in Services : v \in placed => owner # None
  BY <1>4
<1> HIDE DEF where, there, line, placed
<1>9. /\ \A k \in Slugs : /\ scenarios[k].there = there(k) /\ scenarios[k] \in Scenario
                          /\ scenarios[k].owner = IF k = c THEN owner ELSE None
  BY <1>2, <1>4, <1>6 DEF Scenario
<1>10. \A t \in Routes : /\ routes[t] \in Route /\ routes[t].scenario = where(t)
                         /\ routes[t].row = "there" <=> where(t) # None
                         /\ routes[t].owner = ownerOf(where(t))
  BY <1>2, <1>5 DEF Route, Row
<1>11. \A n \in Stations : /\ stations[n] \in Station /\ stations[n].scenario = where(n)
                           /\ stations[n].row = "there" <=> where(n) # None
  BY <1>2, <1>5 DEF Station, Row
<1>12. ASSUME NEW v \in Services
       PROVE  /\ services[v] \in Service
              /\ services[v].row = "there" =>
                   /\ v \in placed /\ services[v].scenario = home
                   /\ services[v].owner = ownerOf(home) /\ services[v].route = line
                   /\ services[v].stops = {n \in Stations : where(n) = home}
  <2>1. CASE v \in placed
    <3>1. ownerOf(home) \in Owner /\ line \in Routes
      BY <1>4, <1>7, <2>1
    <3>2. QED
      BY <1>2, <2>1, <3>1 DEF Service, Row
  <2>2. CASE v \notin placed
    BY <1>2, <1>4, <2>2 DEF Service, Row
  <2>3. QED
    BY <2>1, <2>2
<1>13. Types
  <2>1. drafts \in [Drafts -> Draft]
    BY <1>3, <1>4 DEF Draft, Row
  <2>2. req \in [Requests -> Request] /\ served \in 0..MaxRequests
    BY <1>3, IdleOK, OwnedRowsAssumption
  <2>3. QED
    BY <1>2, <1>3, <1>9, <1>10, <1>11, <1>12, <2>1, <2>2 DEF Types
<1>14. there(Curated) /\ (owner # None => there(c))
  BY DEF there
<1>15. \A t \in Routes : RouteOK(t)
  BY <1>4, <1>5, <1>9, <1>10, <1>14 DEF RouteOK
<1>16. \A n \in Stations : StationOK(n)
  BY <1>4, <1>5, <1>9, <1>11, <1>14 DEF StationOK
<1>17. \A v \in Services : ServiceOK(v)
  <2>1. SUFFICES ASSUME NEW v \in Services, services[v].row = "there" PROVE ServiceOK(v)
    BY DEF ServiceOK
  <2>2. /\ v \in placed /\ services[v].scenario = home
        /\ services[v].owner = ownerOf(home) /\ services[v].route = line
        /\ services[v].stops = {n \in Stations : where(n) = home}
        /\ line \in Routes /\ where(line) = home /\ owner # None
    BY <1>7, <1>8, <1>12, <2>1
  <2>3. scenarios[home].there /\ scenarios[home].owner = ownerOf(home) /\ home # None
    BY <1>2, <1>4, <1>9, <1>14, <2>2
  <2>4. routes[line].row = "there" /\ \A n \in services[v].stops : stations[n].row = "there"
    BY <1>10, <1>11, <2>2, <2>3
  <2>5. QED
    BY <2>2, <2>3, <2>4 DEF ServiceOK
<1>18. (\A w \in Drafts : DraftOK(w)) /\ \A k \in Slugs : SegmentsOK(k)
  BY <1>3 DEF DraftOK, SegmentsOK
<1>19. \A r \in Requests : RequestOK(req[r])
  BY <1>3, IdleOK
<1>20. QED
  BY <1>13, <1>15, <1>16, <1>17, <1>18, <1>19 DEF Inv, Tables

\* Every step keeps it.
LEMMA StepInv == Inv /\ [Next]_vars => Inv'
<1> SUFFICES ASSUME Inv, [Next]_vars PROVE Inv'
  OBVIOUS
<1>1. ASSUME NEW r \in Requests, Step(r) PROVE Inv'
  BY <1>1, CreateScenarioInv, DeleteScenarioInv, CreateRouteInv, DeleteRouteInv,
     CreateStationInv, DeleteStationInv, WriteServiceInv, UpsertTravelTimesInv,
     WriteDraftInv, WriteFailsInv DEF Step
<1>2. CASE UNCHANGED vars
  <2>1. UNCHANGED <<scenarios, routes, stations, services, drafts, segments, req, served>>
        /\ UNCHANGED rows
    BY <1>2 DEF vars, rows
  <2>2. Types'
    BY <2>1 DEF Inv, Types
  <2>3. Tables' /\ Aging
    BY <2>1, RowsUntouched DEF Inv
  <2>4. \A s \in Requests : RequestOK(req[s])'
    BY <2>1, <2>2, <2>3, EveryoneWaits
  <2>5. QED
    BY <2>2, <2>3, <2>4 DEF Inv
<1>3. QED
  BY <1>1, <1>2, ArriveInv, MoveDraftInv DEF Next

----------------------------------------------------------------------------
(* Theorems. *)

\* Every table and every request keeps its type, and what a row refers to is
\* there, whatever is deleted between the reads of a handler and its write:
\* the foreign keys of the migrations are enough.
THEOREM RowsReferToRows == Spec => []TypeOK
<1>1. Inv => TypeOK
  <2> SUFFICES ASSUME Inv PROVE TypeOK
    OBVIOUS
  <2>1. /\ \A t \in Routes : routes[t] \in Route
        /\ \A v \in Services : services[v] \in Service
        /\ \A c \in Slugs : segments[c] \subseteq Segment
        /\ \A r \in Requests : req[r] \in Request
    BY DEF Inv, Types
  <2>2. \A t \in Routes : routes[t].row = "there" =>
          routes[t].scenario \in {None} \cup {c \in Slugs : scenarios[c].there}
    BY <2>1 DEF Inv, Tables, RouteOK, Route
  <2>3. \A n \in Stations : stations[n].row = "there" => scenarios[stations[n].scenario].there
    BY DEF Inv, Tables, StationOK
  <2>4. \A v \in Services : services[v].row = "there" =>
          /\ scenarios[services[v].scenario].there /\ routes[services[v].route].row = "there"
          /\ \A n \in services[v].stops : stations[n].row = "there"
    BY DEF Inv, Tables, ServiceOK
  <2>5. /\ \A w \in Drafts : drafts[w].row = "there" => routes[drafts[w].route].row = "there"
        /\ \A c \in Slugs : \A g \in segments[c] : routes[g.route].row = "there"
    BY DEF Inv, Tables, DraftOK, SegmentsOK
  <2>6. QED
    BY <2>1, <2>2, <2>3, <2>4, <2>5 DEF Inv, Types, TypeOK
<1>2. QED
  BY <1>1, InitInv, StepInv, PTL DEF Spec

\* A scenario and its routes and services have one owner unless an
\* administrator placed the row: the check of the scenario's owner happens
\* before the write, and the foreign key to its id makes it last until then.
THEOREM OneOwner == Spec => []OwnersAgree
<1>1. Inv => OwnersAgree
  BY DEF Inv, Tables, RouteOK, ServiceOK, OwnersAgree
<1>2. QED
  BY <1>1, InitInv, StepInv, PTL DEF Spec

\* A request ends by a step of its own.
LEMMA EndsByItsStep ==
  ASSUME Inv, [Next]_vars, NEW r \in Requests, Ends(r)
  PROVE  Step(r)
<1>1. \A s \in Requests : Step(s) => req' = [req EXCEPT ![s] = Idle]
  <2>1. \A s \in Requests :
          \/ CreateScenario(s) \/ DeleteScenario(s) \/ CreateRoute(s) \/ UpdateRoute(s)
          \/ DeleteRoute(s) \/ CreateStation(s) \/ DeleteStation(s)
          => Answer(s)
    BY DEF CreateScenario, DeleteScenario, CreateRoute, UpdateRoute, DeleteRoute,
       CreateStation, DeleteStation
  <2>2. \A s \in Requests :
          \/ CreateService(s) \/ UpdateService(s) \/ DeleteService(s) \/ UpsertTravelTimes(s)
          \/ CreateDraft(s) \/ UpdateDraft(s) \/ DeleteDraft(s) \/ WriteFails(s)
          => Answer(s)
    BY DEF CreateService, UpdateService, DeleteService, UpsertTravelTimes, CreateDraft,
       UpdateDraft, DeleteDraft, WriteFails, Fail
  <2>3. QED
    BY <2>1, <2>2 DEF Step, Answer
<1>2. \A s \in Requests, u \in Users : Arrive(s, u) =>
        req[s].pc = "idle" /\ \A x \in Requests \ {s} : req'[x] = req[x]
  <2>1. req \in [Requests -> Request]
    BY DEF Inv, Types
  <2>2. \A s \in Requests : \A q : Begin(s, q) =>
          req[s].pc = "idle" /\ \A x \in Requests \ {s} : req'[x] = req[x]
    BY <2>1 DEF Begin
  <2>3. ASSUME NEW s \in Requests, NEW u \in Users, Arrive(s, u)
        PROVE  \E q : Begin(s, q)
    <3>1. \A c : CreateScenarioBegin(s, u, c) \/ DeleteScenarioBegin(s, u, c) => \E q : Begin(s, q)
      BY DEF CreateScenarioBegin, DeleteScenarioBegin
    <3>2. \A n, c : CreateStationBegin(s, u, n, c) => \E q : Begin(s, q)
      BY DEF CreateStationBegin
    <3>3. \A c, g : ReplaceTimesBegin(s, u, c, g) => \E q : Begin(s, q)
      BY DEF ReplaceTimesBegin
    <3>4. \A v, c, t, stops :
            \/ CreateServiceBegin(s, u, v, c, t, stops) \/ UpdateServiceBegin(s, u, v, c, t, stops)
            => \E q : Begin(s, q)
      BY DEF CreateServiceBegin, UpdateServiceBegin
    <3>5. \A t, c :
            \/ CreateRouteBegin(s, u, t, c) \/ CurateRouteBegin(s, u, t, c)
            \/ UpdateRouteBegin(s, u, t, c)
            => \E q : Begin(s, q)
      BY DEF CreateRouteBegin, CurateRouteBegin, UpdateRouteBegin
    <3>6. \A w, t : CreateDraftBegin(s, u, w, t) \/ UpdateDraftBegin(s, u, w, t)
            => \E q : Begin(s, q)
      BY DEF CreateDraftBegin, UpdateDraftBegin
    <3>7. \A x : \/ DeleteRouteBegin(s, u, x) \/ DeleteStationBegin(s, u, x)
                 \/ DeleteServiceBegin(s, u, x) \/ DeleteDraftBegin(s, u, x)
            => \E q : Begin(s, q)
      BY DEF DeleteRouteBegin, DeleteStationBegin, DeleteServiceBegin, DeleteDraftBegin
    <3>8. QED
      BY <2>3, <3>1, <3>2, <3>3, <3>4, <3>5, <3>6, <3>7 DEF Arrive
  <2>4. QED
    BY <2>2, <2>3
<1>3. req'[r] # req[r] /\ req[r].pc # "idle"
  BY DEF Ends
<1>4. Next
  BY <1>3 DEF vars
<1>5. PICK s \in Requests : Step(s) \/ \E u \in Users : Arrive(s, u)
  BY <1>3, <1>4 DEF Next, MoveDraft
<1>6. s = r
  BY <1>1, <1>2, <1>3, <1>5 DEF Inv, Types
<1>7. QED
  BY <1>2, <1>3, <1>5, <1>6

\* What a table does not touch is not lost.
LEMMA NothingLost == ASSUME NEW table PROVE Lost(table, table) = {}
BY DEF Lost

\* The three kinds of steps that lose rows.
LEMMA LostByDeleteRoute ==
  ASSUME Inv, NEW r \in Requests, DeleteRoute(r)
  PROVE  /\ \A t \in Lost(routes, routes') : CanAccess(req[r].user, routes[t].owner)
         /\ Lost(services, services') = {}
         /\ \A w \in Lost(drafts, drafts') :
              MayLose(req[r].user, drafts[w].owner, PlacedForIts(w))
<1>1. PICK t0 : t0 = req[r].id
  OBVIOUS
<1>2. /\ req[r].pc = "delete route" /\ routes' = RoutesWithout({t0})
      /\ drafts' = DraftsWithout({t0}) /\ services' = services
  BY <1>1 DEF DeleteRoute
<1>3. t0 \in Routes /\ req[r].user \in Users /\ CanAccess(req[r].user, routes[t0].owner)
  BY <1>1, <1>2 DEF Inv, RequestOK, Carries, Looked, OfRoute
<1>4. \A t \in Lost(routes, routes') : t = t0
  BY <1>2 DEF Lost, RoutesWithout, Inv, Types
<1>5. \A w \in Lost(drafts, drafts') : w \in Drafts /\ drafts[w].row = "there" /\ drafts[w].route = t0
  BY <1>2 DEF Lost, DraftsWithout, Inv, Types
<1>6. ASSUME NEW w \in Lost(drafts, drafts')
      PROVE  MayLose(req[r].user, drafts[w].owner, PlacedForIts(w))
  <2>1. CanReference(drafts[w].placedBy, routes[t0].owner)
    BY <1>5, <1>6 DEF Inv, Tables, DraftOK
  <2>2. routes[t0].owner = None => req[r].user \in Admins
    BY <1>3, OwnedRowsAssumption DEF CanAccess
  <2>3. QED
    BY <1>3, <2>1, <2>2 DEF CanAccess, CanReference, MayLose, PlacedForIts
<1>7. QED
  BY <1>2, <1>3, <1>4, <1>6, NothingLost

LEMMA LostByDeleteScenario ==
  ASSUME Inv, NEW r \in Requests, DeleteScenario(r)
  PROVE  /\ \A t \in Lost(routes, routes') :
              /\ routes[t].byAdmin \/ CanAccess(req[r].user, routes[t].owner)
              /\ t \in req[r].seen => routes[t].owner # None
         /\ \A v \in Lost(services, services') :
              services[v].byAdmin \/ CanAccess(req[r].user, services[v].owner)
         /\ \A w \in Lost(drafts, drafts') :
              MayLose(req[r].user, drafts[w].owner, PlacedForIts(w))
<1>1. PICK c : c = req[r].slug
  OBVIOUS
<1>2. /\ req[r].pc = "delete scenario" /\ ScenarioStays(r)
      /\ routes' = RoutesWithout(RoutesIn(c)) /\ drafts' = DraftsWithout(RoutesIn(c))
      /\ services' = [v \in Services |-> IF v \in ServicesIn(c)
                        THEN [services[v] EXCEPT !.row = "gone"] ELSE services[v]]
  BY <1>1 DEF DeleteScenario
<1>3. /\ req[r].user \in Users /\ c \in Slugs /\ c # None
      /\ \A t \in req[r].seen : routes[t].owner # None
  BY <1>1, <1>2, OwnedRowsAssumption DEF Inv, RequestOK, Carries, Looked, InScenario, Slugs
<1>4. scenarios[c].there /\ scenarios[c].gen = req[r].gen
  BY <1>1, <1>2, <1>3 DEF ScenarioStays
<1>5. CanAccess(req[r].user, scenarios[c].owner)
  BY <1>1, <1>2, <1>3, <1>4 DEF Inv, RequestOK, Authorised
<1>6. \A t \in RoutesIn(c) : routes[t].byAdmin \/ CanAccess(req[r].user, routes[t].owner)
  BY <1>3, <1>5 DEF Inv, Tables, RouteOK, RoutesIn
<1>7. Lost(routes, routes') \subseteq RoutesIn(c)
  BY <1>2 DEF Lost, RoutesWithout, Inv, Types
<1>8. \A v \in Lost(services, services') : v \in ServicesIn(c)
  BY <1>2 DEF Lost, Inv, Types
<1>9. \A v \in ServicesIn(c) : services[v].byAdmin \/ CanAccess(req[r].user, services[v].owner)
  BY <1>5 DEF Inv, Tables, ServiceOK, ServicesIn
<1>10. \A w \in Lost(drafts, drafts') :
         w \in Drafts /\ drafts[w].row = "there" /\ drafts[w].route \in RoutesIn(c)
  BY <1>2 DEF Lost, DraftsWithout, Inv, Types
<1>11. ASSUME NEW w \in Lost(drafts, drafts')
       PROVE  MayLose(req[r].user, drafts[w].owner, PlacedForIts(w))
  <2>1. PICK t : t = drafts[w].route
    OBVIOUS
  <2>2. t \in RoutesIn(c) /\ CanReference(drafts[w].placedBy, routes[t].owner)
    BY <1>10, <1>11, <2>1 DEF Inv, Tables, DraftOK
  <2>3. routes[t].byAdmin \/ CanAccess(req[r].user, routes[t].owner)
    BY <1>6, <2>2
  <2>4. routes[t].owner = None /\ CanAccess(req[r].user, routes[t].owner) => req[r].user \in Admins
    BY <1>3, OwnedRowsAssumption DEF CanAccess
  <2>5. QED
    BY <2>1, <2>2, <2>3, <2>4 DEF CanAccess, CanReference, MayLose, PlacedForIts
<1>12. QED
  BY <1>3, <1>6, <1>7, <1>8, <1>9, <1>11

LEMMA LostByDeleteService ==
  ASSUME Inv, NEW r \in Requests, DeleteService(r)
  PROVE  /\ Lost(routes, routes') = {} /\ Lost(drafts, drafts') = {}
         /\ \A v \in Lost(services, services') : CanAccess(req[r].user, services[v].owner)
<1>1. PICK v0 : v0 = req[r].id
  OBVIOUS
<1>2. /\ req[r].pc = "delete service" /\ routes' = routes /\ drafts' = drafts
      /\ services' = [services EXCEPT ![v0] = [@ EXCEPT !.row = "gone"]]
  BY <1>1 DEF DeleteService
<1>3. v0 \in Services /\ CanAccess(req[r].user, services[v0].owner)
  BY <1>1, <1>2 DEF Inv, RequestOK, Carries, Looked, OfService
<1>4. \A v \in Lost(services, services') : v = v0
  BY <1>2 DEF Lost, Inv, Types
<1>5. QED
  BY <1>2, <1>3, <1>4, NothingLost

LEMMA LostByDeleteDraft ==
  ASSUME Inv, NEW r \in Requests, DeleteDraft(r)
  PROVE  /\ Lost(routes, routes') = {} /\ Lost(services, services') = {}
         /\ CanAccess(req[r].user, req[r].of)
<1>1. req[r].pc = "delete draft" /\ routes' = routes /\ services' = services
  BY DEF DeleteDraft
<1>2. CanAccess(req[r].user, req[r].of)
  BY <1>1 DEF Inv, RequestOK, Looked
<1>3. QED
  BY <1>1, <1>2, NothingLost

\* Every other write adds a row, changes one or fails.
LEMMA OtherStepsLoseNothing ==
  ASSUME Inv, NEW r \in Requests, Step(r),
         ~DeleteRoute(r), ~DeleteScenario(r), ~DeleteService(r), ~DeleteDraft(r)
  PROVE  Lost(routes, routes') = {} /\ Lost(services, services') = {} /\ Lost(drafts, drafts') = {}
<1>0. /\ routes \in [Routes -> Route] /\ services \in [Services -> Service]
      /\ drafts \in [Drafts -> Draft]
  BY DEF Inv, Types
<1>1. CASE CreateRoute(r) \/ UpdateRoute(r)
  <2>1. services' = services /\ drafts' = drafts
    BY <1>1 DEF CreateRoute, UpdateRoute
  <2>2. \A x \in Routes : routes'[x].row = routes[x].row \/ routes'[x].row = "there"
    <3>1. PICK b \in BOOLEAN : b = (req[r].user \in Admins)
      BY TruthValue
    <3>2. CASE CreateRoute(r)
      BY <1>0, <3>1, <3>2 DEF CreateRoute
    <3>3. CASE UpdateRoute(r)
      <4>1. \A x \in Routes : x # req[r].id => routes'[x] = routes[x]
        BY <1>0, <3>3 DEF UpdateRoute
      <4>2. routes'[req[r].id].row = routes[req[r].id].row \/ req[r].id \notin Routes
        BY <1>0, <3>1, <3>3 DEF UpdateRoute, Route
      <4>3. QED
        BY <4>1, <4>2
    <3>4. QED
      BY <1>1, <3>2, <3>3
  <2>3. QED
    BY <1>0, <2>1, <2>2, NothingLost DEF Lost
<1>2. CASE CreateService(r) \/ UpdateService(r)
  <2>1. routes' = routes /\ drafts' = drafts
    BY <1>2 DEF CreateService, UpdateService
  <2>2. \A x \in Services : services'[x].row = services[x].row \/ services'[x].row = "there"
    <3>1. PICK b \in BOOLEAN : b = (req[r].user \in Admins)
      BY TruthValue
    <3>2. CASE CreateService(r)
      BY <1>0, <3>1, <3>2 DEF CreateService
    <3>3. CASE UpdateService(r)
      <4>1. \A x \in Services : x # req[r].id => services'[x] = services[x]
        BY <1>0, <3>3 DEF UpdateService
      <4>2. services'[req[r].id].row = services[req[r].id].row \/ req[r].id \notin Services
        BY <1>0, <3>1, <3>3 DEF UpdateService, Service
      <4>3. QED
        BY <4>1, <4>2
    <3>4. QED
      BY <1>2, <3>2, <3>3
  <2>3. QED
    BY <1>0, <2>1, <2>2, NothingLost DEF Lost
<1>3. CASE CreateDraft(r) \/ UpdateDraft(r)
  <2>1. routes' = routes /\ services' = services
    BY <1>3 DEF CreateDraft, UpdateDraft
  <2>2. \A x \in Drafts : drafts'[x].row = drafts[x].row \/ drafts'[x].row = "there"
    <3>1. CASE CreateDraft(r)
      BY <1>0, <3>1 DEF CreateDraft
    <3>2. CASE UpdateDraft(r)
      <4>1. \A x \in Drafts : x # req[r].id => drafts'[x] = drafts[x]
        BY <1>0, <3>2 DEF UpdateDraft
      <4>2. drafts'[req[r].id].row = drafts[req[r].id].row \/ req[r].id \notin Drafts
        BY <1>0, <3>2 DEF UpdateDraft, Draft
      <4>3. QED
        BY <4>1, <4>2
    <3>3. QED
      BY <1>3, <3>1, <3>2
  <2>3. QED
    BY <1>0, <2>1, <2>2, NothingLost DEF Lost
<1>4. CASE \/ CreateScenario(r) \/ CreateStation(r) \/ DeleteStation(r)
           \/ UpsertTravelTimes(r) \/ WriteFails(r)
  <2>1. routes' = routes /\ services' = services /\ drafts' = drafts
    BY <1>4 DEF CreateScenario, CreateStation, DeleteStation, UpsertTravelTimes, WriteFails,
       Fail, rows
  <2>2. QED
    BY <2>1, NothingLost
<1>5. QED
  BY <1>1, <1>2, <1>3, <1>4 DEF Step

\* A user's route, service or draft disappears only at the hand of that user or
\* of an administrator, through whatever cascade, unless somebody else placed it
\* (or, for a draft, put it on the route it is on, or the route where it is), or
\* the draft changed hands after its deletion was authorised; and the deletion
\* of a scenario takes no curated route that the handler could have counted:
\* however the check of one handler and the writes of others interleave.
THEOREM NobodyLosesToAStranger == Spec => LossesAreOwn
<1> DEFINE Own(r) ==
      /\ \A t \in Lost(routes, routes') :
           /\ MayLose(req[r].user, routes[t].owner, routes[t].byAdmin)
           /\ req[r].pc = "delete scenario" /\ routes[t].owner = None => t \notin req[r].seen
      /\ \A v \in Lost(services, services') :
           MayLose(req[r].user, services[v].owner, services[v].byAdmin)
      /\ \A w \in Lost(drafts, drafts') :
           IF req[r].pc = "delete draft"
           THEN CanAccess(req[r].user, drafts[w].owner) \/ drafts[w].owner # req[r].of
           ELSE MayLose(req[r].user, drafts[w].owner, PlacedForIts(w))
<1>1. ASSUME Inv, [Next]_vars, NEW r \in Requests, Ends(r) PROVE Own(r)
  <2>1. Step(r)
    BY <1>1, EndsByItsStep
  <2>2. CASE DeleteRoute(r)
    <3>1. req[r].pc = "delete route"
      BY <2>2 DEF DeleteRoute
    <3>2. QED
      BY <1>1, <2>2, <3>1, LostByDeleteRoute DEF MayLose
  <2>3. CASE DeleteScenario(r)
    <3>1. req[r].pc = "delete scenario"
      BY <2>3 DEF DeleteScenario
    <3>2. QED
      BY <1>1, <2>3, <3>1, LostByDeleteScenario DEF MayLose
  <2>4. CASE DeleteService(r)
    BY <1>1, <2>4, LostByDeleteService DEF MayLose
  <2>5. CASE DeleteDraft(r)
    <3>1. req[r].pc = "delete draft"
      BY <2>5 DEF DeleteDraft
    <3>2. QED
      BY <1>1, <2>5, <3>1, LostByDeleteDraft
  <2>6. CASE ~DeleteRoute(r) /\ ~DeleteScenario(r) /\ ~DeleteService(r) /\ ~DeleteDraft(r)
    BY <1>1, <2>1, <2>6, OtherStepsLoseNothing
  <2>7. QED
    BY <2>2, <2>3, <2>4, <2>5, <2>6
<1>2. Inv /\ [Next]_vars => [\A r \in Requests : Ends(r) => Own(r)]_vars
  BY <1>1
<1>3. QED
  BY <1>2, InitInv, StepInv, PTL DEF Spec, LossesAreOwn

============================================================================
