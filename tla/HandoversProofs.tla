-------------------------- MODULE HandoversProofs --------------------------
(* What the row locks of a move exclude, and what follows for every run. *)
EXTENDS Handovers, TLAPS

Holding   == {"accept locked", "accept judged", "transfer locked", "transfer judged"}
Accepting == {"accept", "accept locked", "accept judged"}

\* Rows that are there name users; an offer is between two of them.
RowsNameUsers ==
  /\ \A s \in Services : There(s) => svc[s].owner \in Users
  /\ \A h \in Offers : offers[h].status \notin {"none", "gone"} =>
       /\ offers[h].svc \in Services
       /\ offers[h].from \in Users /\ offers[h].to \in Users
       /\ offers[h].from # offers[h].to

\* What a request knows for good once it has begun.
NamesRows(q) ==
  /\ q.pc \notin {"idle", "create scenario", "update scenario"} => q.svc \in Services
  /\ q.pc = "offer" => q.from \in Users /\ q.to \in Users /\ q.from # q.to
  /\ q.pc \in {"transfer", "transfer locked", "transfer judged"} => q.to \in Users
  /\ q.pc \in {"create scenario", "update scenario"} =>
       q.scenario \in Scenarios /\ q.from \in Users \cup {None}
  /\ q.pc \in Accepting =>
       /\ q.offer \in Offers /\ q.to \in Users
       /\ offers[q.offer].status # "none"
       /\ offers[q.offer].status # "gone"
            => offers[q.offer].svc = q.svc /\ offers[q.offer].to = q.to
RequestsNameRows == \A r \in Requests : NamesRows(req[r])

\* A held service is there, and nobody else holds it.
LocksExclude ==
  /\ \A r \in Requests : req[r].pc \in Holding => There(req[r].svc)
  /\ \A r, q \in Requests :
       req[r].pc \in Holding /\ req[q].pc \in Holding /\ req[r].svc = req[q].svc => r = q

\* What was judged under the lock is still so.
JudgedStillHolds ==
  \A r \in Requests :
    /\ req[r].pc \in {"accept judged", "transfer judged"} => ~InScenario(req[r].svc)
    /\ req[r].pc = "accept judged" =>
         /\ offers[req[r].offer].status = "pending"
         /\ offers[req[r].offer].from = svc[req[r].svc].owner
    /\ req[r].pc = "transfer judged" => svc[req[r].svc].owner # req[r].to

Inv == TypeOK /\ RowsNameUsers /\ RequestsNameRows /\ LocksExclude /\ JudgedStillHolds

----------------------------------------------------------------------------
(* Types. *)

\* What the requests of services, scenarios and offers write has its type.
LEMMA UserStepTypeOK ==
  ASSUME TypeOK, NEW u \in Users, UserStep(u)
  PROVE  TypeOK'
<1> USE HandoversAssumption DEF TypeOK
<1>1. CASE \E s \in Services, route \in RouteOwners : CreateService(u, s, route)
  <2>1. PICK s \in Services, route \in RouteOwners : CreateService(u, s, route)
    BY <1>1
  <2>2. svc' \in [Services -> Service]
    BY <2>1 DEF CreateService, Service, Row
  <2>3. QED
    BY <2>1, <2>2 DEF CreateService
<1>2. CASE \E c \in Scenarios : DeleteUserScenario(u, c)
  <2>1. PICK c \in Scenarios : DeleteUserScenario(u, c)
    BY <1>2
  <2>2. scenarios' \in [Scenarios -> Scenario]
    BY <2>1 DEF DeleteUserScenario, Scenario, Row
  <2>3. QED
    BY <2>1, <2>2 DEF DeleteUserScenario
<1>3. CASE \E v \in Users : SetUserDisabled(u, v)
  BY <1>3 DEF SetUserDisabled
<1>4. CASE \E r \in Requests, s \in Services, route \in RouteOwners :
             EditBegin(r, u, s, route)
  <2>1. PICK r \in Requests, s \in Services, route \in RouteOwners :
               EditBegin(r, u, s, route)
    BY <1>4
  <2>2. [Idle EXCEPT !.pc = "edit", !.svc = s, !.route = route, !.from = svc[s].owner]
          \in Request
    BY DEF Idle, Request, Steps, Service
  <2>3. QED
    BY <2>1, <2>2 DEF EditBegin, Begin
<1>5. CASE \E r \in Requests, s \in Services : DeleteBegin(r, u, s)
  <2>1. PICK r \in Requests, s \in Services : DeleteBegin(r, u, s)
    BY <1>5
  <2>2. [Idle EXCEPT !.pc = "delete", !.svc = s] \in Request
    BY DEF Idle, Request, Steps
  <2>3. QED
    BY <2>1, <2>2 DEF DeleteBegin, Begin
<1>6. CASE \E r \in Requests, s \in Services, to \in Users : OfferCheck(r, u, s, to)
  <2>1. PICK r \in Requests, s \in Services, to \in Users : OfferCheck(r, u, s, to)
    BY <1>6
  <2>2. [Idle EXCEPT !.pc = "offer", !.svc = s, !.to = to, !.from = svc[s].owner,
                     !.stamp = now] \in Request
    BY DEF Idle, Request, Steps, Service
  <2>3. QED
    BY <2>1, <2>2 DEF OfferCheck, Begin
<1>7. CASE \E r \in Requests, s \in Services, to \in Users : TransferBegin(r, u, s, to)
  <2>1. PICK r \in Requests, s \in Services, to \in Users : TransferBegin(r, u, s, to)
    BY <1>7
  <2>2. [Idle EXCEPT !.pc = "transfer", !.svc = s, !.to = to, !.stamp = now] \in Request
    BY DEF Idle, Request, Steps
  <2>3. QED
    BY <2>1, <2>2 DEF TransferBegin, Begin
<1>8. CASE \E r \in Requests, c \in Scenarios, members \in SUBSET Services :
             CreateScenarioBegin(r, u, c, members)
  <2>1. PICK r \in Requests, c \in Scenarios, members \in SUBSET Services :
               CreateScenarioBegin(r, u, c, members)
    BY <1>8
  <2>2. [Idle EXCEPT !.pc = "create scenario", !.from = u, !.scenario = c,
                     !.members = members] \in Request
    BY DEF Idle, Request, Steps
  <2>3. QED
    BY <2>1, <2>2 DEF CreateScenarioBegin, Begin
<1>9. CASE \E r \in Requests, c \in Scenarios, members \in SUBSET Services :
             UpdateScenarioBegin(r, u, c, members)
  <2>1. PICK r \in Requests, c \in Scenarios, members \in SUBSET Services :
               UpdateScenarioBegin(r, u, c, members)
    BY <1>9
  <2>2. [Idle EXCEPT !.pc = "update scenario", !.from = scenarios[c].owner,
                     !.scenario = c, !.members = members] \in Request
    BY DEF Idle, Request, Steps, Scenario
  <2>3. QED
    BY <2>1, <2>2 DEF UpdateScenarioBegin, Begin
<1>10. QED
  BY <1>1, <1>2, <1>3, <1>4, <1>5, <1>6, <1>7, <1>8, <1>9 DEF UserStep

\* A request that goes on keeps its type.
LEMMA RequestMoves ==
  ASSUME NEW q \in Request, NEW pc \in Steps, NEW t \in Nat
  PROVE  /\ [q EXCEPT !.pc = pc] \in Request
         /\ [q EXCEPT !.pc = pc, !.stamp = t] \in Request
BY DEF Request

\* An offer that is answered keeps its type.
LEMMA OfferMoves ==
  ASSUME NEW o \in Offer, NEW status \in {"pending", "accepted", "declined",
                                         "cancelled", "expired"}
  PROVE  [o EXCEPT !.status = status] \in Offer
BY DEF Offer

\* expireStalePending keeps the types.
LEMMA SweptTypes ==
  ASSUME TypeOK, NEW s, NEW t
  PROVE  ExpireStalePending(s, t) \in [Offers -> Offer]
BY DEF TypeOK, ExpireStalePending, Offer

\* moveLockedUserService keeps the types.
LEMMA MovedTypes ==
  ASSUME TypeOK, NEW s \in Services, NEW to \in Users
  PROVE  Moved(s, to) \in [Services -> Service]
BY DEF TypeOK, Moved, Service

\* A request's next step keeps the types.
LEMMA RequestStepTypeOK ==
  ASSUME TypeOK, RequestsNameRows, NEW r \in Requests, RequestStep(r)
  PROVE  TypeOK'
<1> USE HandoversAssumption DEF TypeOK
<1>0. Idle \in Request
  BY DEF Idle, Request, Steps
<1>1. CASE UpdateUserService(r)
  <2>1. req[r].svc \in Services /\ req[r].route \in Users \cup {None}
    BY <1>1 DEF UpdateUserService, RequestsNameRows, NamesRows, Request
  <2>2. Edited(r, req[r].svc) \in [Services -> Service]
    BY <2>1 DEF Edited, Service
  <2>3. QED
    BY <1>0, <1>1, <2>2 DEF UpdateUserService, Answer
<1>2. CASE DeleteUserService(r)
  <2>1. req[r].svc \in Services
    BY <1>2 DEF DeleteUserService, RequestsNameRows, NamesRows
  <2>2. svc' \in [Services -> Service]
    BY <1>2, <2>1 DEF DeleteUserService, NoService, Service, Row
  <2>3. offers' \in [Offers -> Offer]
    BY <1>2 DEF DeleteUserService, Offer
  <2>4. scenarios' \in [Scenarios -> Scenario]
    BY <1>2 DEF DeleteUserService, Scenario
  <2>5. QED
    BY <1>0, <1>2, <2>2, <2>3, <2>4 DEF DeleteUserService, Answer
<1>3. CASE WriteScenario(r)
  <2>1. scenarios' \in [Scenarios -> Scenario]
    BY <1>3 DEF WriteScenario, Scenario, Row, Request, RequestsNameRows, NamesRows
  <2>2. QED
    BY <1>0, <1>3, <2>1 DEF WriteScenario, Answer
<1>4. CASE LockService(r)
  <2>1. PICK t \in req[r].stamp .. now :
          \/ req' = [req EXCEPT ![r] = [@ EXCEPT !.pc = "accept locked", !.stamp = t]]
          \/ req' = [req EXCEPT ![r] = [@ EXCEPT !.pc = "transfer locked", !.stamp = t]]
    BY <1>4 DEF LockService
  <2>2. t \in Nat
    BY <2>1 DEF Request
  <2>3. [req[r] EXCEPT !.pc = "accept locked", !.stamp = t] \in Request
    BY <2>2, RequestMoves DEF Steps
  <2>4. [req[r] EXCEPT !.pc = "transfer locked", !.stamp = t] \in Request
    BY <2>2, RequestMoves DEF Steps
  <2>5. QED
    BY <1>4, <2>1, <2>3, <2>4 DEF LockService
<1>5. CASE AcceptJudge(r)
  <2>1. [req[r] EXCEPT !.pc = "accept judged"] \in Request
    BY RequestMoves DEF Steps
  <2>2. QED
    BY <1>5, <2>1 DEF AcceptJudge, Goto
<1>6. CASE TransferJudge(r)
  <2>1. [req[r] EXCEPT !.pc = "transfer judged"] \in Request
    BY RequestMoves DEF Steps
  <2>2. QED
    BY <1>6, <2>1 DEF TransferJudge, Goto
<1>7. CASE AcceptCommit(r)
  <2>1. Moved(req[r].svc, req[r].to) \in [Services -> Service]
    BY <1>7, MovedTypes DEF AcceptCommit, RequestsNameRows, NamesRows, Accepting
  <2>2. offers' \in [Offers -> Offer]
    BY <1>7, OfferMoves DEF AcceptCommit, RequestsNameRows, NamesRows, Accepting
  <2>3. QED
    BY <1>0, <1>7, <2>1, <2>2 DEF AcceptCommit, Answer
<1>8. CASE \E h \in Offers : OfferInsert(r, h)
  <2>1. PICK h \in Offers : OfferInsert(r, h)
    BY <1>8
  <2>2. PICK t \in req[r].stamp .. now :
          offers' = [ExpireStalePending(req[r].svc, t) EXCEPT ![h] =
                       [status |-> "pending", svc |-> req[r].svc, from |-> req[r].from,
                        to |-> req[r].to, expires |-> t + TTL]]
    BY <2>1 DEF OfferInsert
  <2>3. t + TTL \in Nat
    BY <2>2 DEF Request
  <2>4. [status |-> "pending", svc |-> req[r].svc, from |-> req[r].from,
         to |-> req[r].to, expires |-> t + TTL] \in Offer
    BY <2>3 DEF Request, Offer
  <2>5. offers' \in [Offers -> Offer]
    BY <2>2, <2>4, SweptTypes
  <2>6. QED
    BY <1>0, <2>1, <2>5 DEF OfferInsert, Answer
<1>9. CASE \E h \in Offers : AcceptBegin(r, h)
  <2>1. PICK h \in Offers : AcceptBegin(r, h)
    BY <1>9
  <2>2. [Idle EXCEPT !.pc = "accept", !.offer = h, !.svc = offers[h].svc,
                     !.to = offers[h].to, !.stamp = now] \in Request
    BY DEF Idle, Request, Steps, Offer
  <2>3. QED
    BY <2>1, <2>2 DEF AcceptBegin, Begin
<1>10. CASE \E h \in Offers : TransferCommit(r, h)
  <2>1. PICK h \in Offers : TransferCommit(r, h)
    BY <1>10
  <2>2. req[r].svc \in Services /\ req[r].to \in Users /\ req[r].stamp \in Nat
    BY <2>1 DEF TransferCommit, RequestsNameRows, NamesRows, Request
  <2>3. Moved(req[r].svc, req[r].to) \in [Services -> Service]
    BY <2>2, MovedTypes
  <2>4. ExpireStalePending(req[r].svc, req[r].stamp) \in [Offers -> Offer]
    BY SweptTypes
  <2>5. [status |-> "accepted", svc |-> req[r].svc, from |-> svc[req[r].svc].owner,
         to |-> req[r].to, expires |-> req[r].stamp] \in Offer
    BY <2>2 DEF Offer, Service
  <2>6. \A k \in Offers :
          [ExpireStalePending(req[r].svc, req[r].stamp)[k] EXCEPT !.status = "cancelled"]
            \in Offer
    BY <2>4, OfferMoves
  <2>7. offers' \in [Offers -> Offer]
    BY <2>1, <2>4, <2>5, <2>6 DEF TransferCommit
  <2>8. QED
    BY <1>0, <2>1, <2>3, <2>7 DEF TransferCommit, Answer
<1>11. CASE Abort(r)
  BY <1>0, <1>11 DEF Abort, Answer
<1>12. QED
  BY <1>1, <1>2, <1>3, <1>4, <1>5, <1>6, <1>7, <1>8, <1>9, <1>10, <1>11 DEF RequestStep

----------------------------------------------------------------------------
(* The rest of the invariant. *)

Rest == RowsNameUsers /\ RequestsNameRows /\ LocksExclude /\ JudgedStillHolds

\* A request that begins holds nothing yet.
LEMMA BeginKeepsRest ==
  ASSUME TypeOK, Rest, NEW r \in Requests, NEW q \in Request,
         req' = [req EXCEPT ![r] = q], NamesRows(q), q.pc \notin Holding,
         UNCHANGED <<svc, offers, scenarios>>
  PROVE  Rest'
<1> USE DEF TypeOK, Rest
<1>1. RowsNameUsers'
  BY DEF RowsNameUsers, There
<1>2. RequestsNameRows'
  BY DEF RequestsNameRows, NamesRows
<1>3. LocksExclude'
  BY DEF LocksExclude, There
<1>4. JudgedStillHolds'
  BY DEF JudgedStillHolds, InScenario, Holding
<1>5. QED
  BY <1>1, <1>2, <1>3, <1>4

\* No step of a user touches what a request has judged.
LEMMA UserStepRest ==
  ASSUME TypeOK, Rest, NEW u \in Users, UserStep(u)
  PROVE  Rest'
<1> USE HandoversAssumption DEF TypeOK
<1>1. CASE \E s \in Services, route \in RouteOwners : CreateService(u, s, route)
  <2>1. PICK s \in Services, route \in RouteOwners : CreateService(u, s, route)
    BY <1>1
  <2>2. /\ svc[s].row = "none" /\ svc'[s].owner = u
        /\ \A x \in Services : x # s => svc'[x] = svc[x]
        /\ \A x \in Services : There(x) => svc'[x] = svc[x]
        /\ UNCHANGED <<offers, scenarios, req>>
    BY <2>1 DEF CreateService, There
  <2>3. RowsNameUsers'
    BY <2>2 DEF Rest, RowsNameUsers, There
  <2>4. RequestsNameRows'
    BY <2>2 DEF Rest, RequestsNameRows, NamesRows
  <2>5. \A r \in Requests : req[r].pc \in Holding => req[r].svc \in Services
    BY DEF Rest, RequestsNameRows, NamesRows, Holding
  <2>6. LocksExclude'
    BY <2>2, <2>5 DEF Rest, LocksExclude, There
  <2>7. JudgedStillHolds'
    BY <2>2, <2>5 DEF Rest, LocksExclude, JudgedStillHolds, InScenario, Holding
  <2>8. QED
    BY <2>3, <2>4, <2>6, <2>7 DEF Rest
<1>2. CASE \E c \in Scenarios : DeleteUserScenario(u, c)
  <2>1. PICK c \in Scenarios : DeleteUserScenario(u, c)
    BY <1>2
  <2>2. UNCHANGED <<svc, offers, req>>
    BY <2>1 DEF DeleteUserScenario
  <2>3. \A s : InScenario(s)' => InScenario(s)
    BY <2>1 DEF DeleteUserScenario, InScenario
  <2>4. QED
    BY <2>2, <2>3 DEF Rest, RowsNameUsers, RequestsNameRows, NamesRows, LocksExclude,
                      JudgedStillHolds, There
<1>3. CASE \E v \in Users : SetUserDisabled(u, v)
  BY ZenonT(60), <1>3 DEF SetUserDisabled, Rest, RowsNameUsers, RequestsNameRows, NamesRows,
              LocksExclude, JudgedStillHolds, There, InScenario
<1>4. CASE \E r \in Requests, s \in Services, route \in RouteOwners :
             EditBegin(r, u, s, route)
  <2>1. PICK r \in Requests, s \in Services, route \in RouteOwners :
               EditBegin(r, u, s, route)
    BY <1>4
  <2> DEFINE q == [Idle EXCEPT !.pc = "edit", !.svc = s, !.route = route,
                               !.from = svc[s].owner]
  <2>2. q \in Request /\ q.pc = "edit" /\ q.svc = s
    BY DEF Idle, Request, Steps, Service
  <2>3. NamesRows(q) /\ q.pc \notin Holding
    BY <2>2 DEF NamesRows, Holding, Accepting
  <2>4. req' = [req EXCEPT ![r] = q] /\ UNCHANGED <<svc, offers, scenarios>>
    BY <2>1 DEF EditBegin, Begin
  <2> HIDE DEF q
  <2>5. QED
    BY <2>2, <2>3, <2>4, BeginKeepsRest
<1>5. CASE \E r \in Requests, s \in Services : DeleteBegin(r, u, s)
  <2>1. PICK r \in Requests, s \in Services : DeleteBegin(r, u, s)
    BY <1>5
  <2> DEFINE q == [Idle EXCEPT !.pc = "delete", !.svc = s]
  <2>2. q \in Request /\ q.pc = "delete" /\ q.svc = s
    BY DEF Idle, Request, Steps
  <2>3. NamesRows(q) /\ q.pc \notin Holding
    BY <2>2 DEF NamesRows, Holding, Accepting
  <2>4. req' = [req EXCEPT ![r] = q] /\ UNCHANGED <<svc, offers, scenarios>>
    BY <2>1 DEF DeleteBegin, Begin
  <2> HIDE DEF q
  <2>5. QED
    BY <2>2, <2>3, <2>4, BeginKeepsRest
<1>6. CASE \E r \in Requests, s \in Services, to \in Users : OfferCheck(r, u, s, to)
  <2>1. PICK r \in Requests, s \in Services, to \in Users : OfferCheck(r, u, s, to)
    BY <1>6
  <2> DEFINE q == [Idle EXCEPT !.pc = "offer", !.svc = s, !.to = to,
                               !.from = svc[s].owner, !.stamp = now]
  <2>2. q \in Request /\ q.pc = "offer" /\ q.svc = s /\ q.to = to /\ q.from = svc[s].owner
    BY DEF Idle, Request, Steps, Service
  <2>3. svc[s].owner \in Users /\ to # svc[s].owner
    BY <2>1 DEF OfferCheck, Rest, RowsNameUsers
  <2>4. NamesRows(q) /\ q.pc \notin Holding
    BY <2>2, <2>3 DEF NamesRows, Holding, Accepting
  <2>5. req' = [req EXCEPT ![r] = q] /\ UNCHANGED <<svc, offers, scenarios>>
    BY <2>1 DEF OfferCheck, Begin
  <2> HIDE DEF q
  <2>6. QED
    BY <2>2, <2>4, <2>5, BeginKeepsRest
<1>7. CASE \E r \in Requests, s \in Services, to \in Users : TransferBegin(r, u, s, to)
  <2>1. PICK r \in Requests, s \in Services, to \in Users : TransferBegin(r, u, s, to)
    BY <1>7
  <2> DEFINE q == [Idle EXCEPT !.pc = "transfer", !.svc = s, !.to = to, !.stamp = now]
  <2>2. q \in Request /\ q.pc = "transfer" /\ q.svc = s /\ q.to = to
    BY DEF Idle, Request, Steps
  <2>3. NamesRows(q) /\ q.pc \notin Holding
    BY <2>2 DEF NamesRows, Holding, Accepting
  <2>4. req' = [req EXCEPT ![r] = q] /\ UNCHANGED <<svc, offers, scenarios>>
    BY <2>1 DEF TransferBegin, Begin
  <2> HIDE DEF q
  <2>5. QED
    BY <2>2, <2>3, <2>4, BeginKeepsRest
<1>8. CASE \E r \in Requests, c \in Scenarios, members \in SUBSET Services :
             CreateScenarioBegin(r, u, c, members)
  <2>1. PICK r \in Requests, c \in Scenarios, members \in SUBSET Services :
               CreateScenarioBegin(r, u, c, members)
    BY <1>8
  <2> DEFINE q == [Idle EXCEPT !.pc = "create scenario", !.from = u, !.scenario = c,
                               !.members = members]
  <2>2. q \in Request /\ q.pc = "create scenario" /\ q.scenario = c /\ q.from = u
    BY DEF Idle, Request, Steps
  <2>3. NamesRows(q) /\ q.pc \notin Holding
    BY <2>2 DEF NamesRows, Holding, Accepting
  <2>4. req' = [req EXCEPT ![r] = q] /\ UNCHANGED <<svc, offers, scenarios>>
    BY <2>1 DEF CreateScenarioBegin, Begin
  <2> HIDE DEF q
  <2>5. QED
    BY <2>2, <2>3, <2>4, BeginKeepsRest
<1>9. CASE \E r \in Requests, c \in Scenarios, members \in SUBSET Services :
             UpdateScenarioBegin(r, u, c, members)
  <2>1. PICK r \in Requests, c \in Scenarios, members \in SUBSET Services :
               UpdateScenarioBegin(r, u, c, members)
    BY <1>9
  <2> DEFINE q == [Idle EXCEPT !.pc = "update scenario", !.from = scenarios[c].owner,
                               !.scenario = c, !.members = members]
  <2>2. /\ q \in Request /\ q.pc = "update scenario" /\ q.scenario = c
        /\ q.from \in Users \cup {None}
    BY DEF Idle, Request, Steps, Scenario
  <2>3. NamesRows(q) /\ q.pc \notin Holding
    BY <2>2 DEF NamesRows, Holding, Accepting
  <2>4. req' = [req EXCEPT ![r] = q] /\ UNCHANGED <<svc, offers, scenarios>>
    BY <2>1 DEF UpdateScenarioBegin, Begin
  <2> HIDE DEF q
  <2>5. QED
    BY <2>2, <2>3, <2>4, BeginKeepsRest
<1>10. QED
  BY <1>1, <1>2, <1>3, <1>4, <1>5, <1>6, <1>7, <1>8, <1>9 DEF UserStep

\* The service that a request holds is locked.
LEMMA HoldingLocks ==
  ASSUME NEW r \in Requests, req[r].pc \in Holding
  PROVE  Locked(req[r].svc)
BY DEF Locked, Holding

\* An edit leaves every row where it is and with its owner.
LEMMA EditRest ==
  ASSUME TypeOK, Rest, NEW r \in Requests, UpdateUserService(r)
  PROVE  Rest'
<1> USE DEF TypeOK
<1>1. req[r].svc \in Services
  BY DEF UpdateUserService, Rest, RequestsNameRows, NamesRows
<1>2. /\ \A s \in Services : svc'[s].row = svc[s].row /\ svc'[s].owner = svc[s].owner
      /\ UNCHANGED <<offers, scenarios>> /\ req' = [req EXCEPT ![r] = Idle]
  BY <1>1 DEF UpdateUserService, Edited, Answer, Service
<1>3. Idle.pc = "idle"
  BY DEF Idle
<1>4. \A q \in Requests : req[q].pc \in Holding => req[q].svc \in Services
  BY DEF Rest, RequestsNameRows, NamesRows, Holding
<1>5. RowsNameUsers'
  BY <1>2 DEF Rest, RowsNameUsers, There
<1>6. RequestsNameRows'
  BY <1>2, <1>3 DEF Rest, RequestsNameRows, NamesRows, Accepting
<1>7. LocksExclude'
  BY <1>2, <1>3, <1>4 DEF Rest, LocksExclude, There, Holding
<1>8. JudgedStillHolds'
  BY <1>2, <1>3, <1>4 DEF Rest, JudgedStillHolds, InScenario, Holding
<1>9. QED
  BY <1>5, <1>6, <1>7, <1>8 DEF Rest

\* A deletion takes a service that nobody holds, with its offers.
LEMMA DeleteRest ==
  ASSUME TypeOK, Rest, NEW r \in Requests, DeleteUserService(r)
  PROVE  Rest'
<1> USE HandoversAssumption DEF TypeOK
<1> DEFINE s == req[r].svc
<1>1. s \in Services
  BY DEF DeleteUserService, Rest, RequestsNameRows, NamesRows
<1>2. /\ svc'[s].row = "gone"
      /\ \A x \in Services : x # s => svc'[x] = svc[x]
      /\ \A h \in Offers : offers[h].svc = s => offers'[h].status = "gone"
      /\ \A h \in Offers : offers[h].svc # s => offers'[h] = offers[h]
  BY <1>1 DEF DeleteUserService, NoService
<1>3. req'[r].pc = "idle" /\ \A q \in Requests : q # r => req'[q] = req[q]
  BY DEF DeleteUserService, Answer, Idle
<1>4. \A x : InScenario(x)' => InScenario(x)
  <2>1. \A c \in Scenarios : /\ scenarios'[c].row = scenarios[c].row
                             /\ scenarios'[c].members = scenarios[c].members \ {s}
    BY DEF DeleteUserService, Scenario
  <2>2. QED
    BY <2>1 DEF InScenario
<1>5. \A q \in Requests : req[q].pc \in Holding => req[q].svc \in Services /\ req[q].svc # s
  BY HoldingLocks DEF Rest, RequestsNameRows, NamesRows, Holding, DeleteUserService
<1> HIDE DEF s
<1>6. RowsNameUsers'
  BY <1>2 DEF Rest, RowsNameUsers, There
<1>7. RequestsNameRows'
  <2>1. SUFFICES ASSUME NEW q \in Requests PROVE NamesRows(req[q])'
    BY DEF RequestsNameRows
  <2>2. CASE q = r
    BY <1>3, <2>2 DEF NamesRows, Accepting
  <2>3. CASE q # r
    <3>1. req'[q] = req[q] /\ NamesRows(req[q])
      BY <1>3, <2>3 DEF Rest, RequestsNameRows
    <3>2. QED
      BY ZenonT(60), <1>2, <3>1 DEF NamesRows
  <2>4. QED
    BY <2>2, <2>3
<1>8. /\ \A q \in Requests : req'[q].pc \in Holding
           => req'[q] = req[q] /\ svc'[req[q].svc] = svc[req[q].svc]
      /\ \A q \in Requests : req'[q].pc \in {"accept judged", "transfer judged"}
           => req'[q].pc \in Holding
  BY <1>2, <1>3, <1>5 DEF Holding
<1>9. LocksExclude'
  BY ZenonT(60), <1>8 DEF Rest, LocksExclude, There
<1>10. JudgedStillHolds'
  <2>1. \A q \in Requests : req[q].pc = "accept judged" =>
          /\ req[q].offer \in Offers /\ offers[req[q].offer].svc = req[q].svc
    BY DEF Rest, JudgedStillHolds, RequestsNameRows, NamesRows, Accepting
  <2>2. SUFFICES ASSUME NEW q \in Requests,
                        req'[q].pc \in {"accept judged", "transfer judged"}
                 PROVE  /\ ~InScenario(req[q].svc)'
                        /\ req'[q].pc = "accept judged" =>
                             /\ offers'[req'[q].offer].status = "pending"
                             /\ offers'[req'[q].offer].from = svc'[req'[q].svc].owner
                        /\ req'[q].pc = "transfer judged" =>
                             svc'[req'[q].svc].owner # req'[q].to
    BY DEF JudgedStillHolds
  <2>3. req'[q] = req[q] /\ svc'[req[q].svc] = svc[req[q].svc] /\ req[q].svc # s
    BY <1>5, <1>8, <2>2
  <2>4. ~InScenario(req[q].svc)'
    BY <1>4, <2>2, <2>3 DEF Rest, JudgedStillHolds, InScenario
  <2>5. CASE req'[q].pc = "accept judged"
    <3>1. offers'[req[q].offer] = offers[req[q].offer]
      BY <1>2, <2>1, <2>3, <2>5
    <3>2. QED
      BY <2>3, <2>4, <2>5, <3>1 DEF Rest, JudgedStillHolds
  <2>6. CASE req'[q].pc = "transfer judged"
    BY <2>3, <2>4, <2>6 DEF Rest, JudgedStillHolds
  <2>7. QED
    BY <2>2, <2>5, <2>6
<1>11. QED
  BY <1>6, <1>7, <1>9, <1>10 DEF Rest

\* A membership is written only for services that nobody holds.
LEMMA WriteScenarioRest ==
  ASSUME TypeOK, Rest, NEW r \in Requests, WriteScenario(r)
  PROVE  Rest'
<1> USE DEF TypeOK
<1>1. UNCHANGED <<svc, offers>> /\ req' = [req EXCEPT ![r] = Idle]
  BY DEF WriteScenario, Answer
<1>2. Idle.pc = "idle"
  BY DEF Idle
<1>3. req[r].scenario \in Scenarios
  BY DEF WriteScenario, Rest, RequestsNameRows, NamesRows
<1>4. \A x : InScenario(x)' => InScenario(x) \/ x \in req[r].members
  BY <1>3 DEF WriteScenario, InScenario
<1>5. \A q \in Requests : req[q].pc \in Holding => req[q].svc \notin req[r].members
  BY HoldingLocks DEF WriteScenario
<1>6. RowsNameUsers'
  BY <1>1 DEF Rest, RowsNameUsers, There
<1>7. RequestsNameRows'
  BY <1>1, <1>2 DEF Rest, RequestsNameRows, NamesRows, Accepting
<1>8. LocksExclude'
  BY <1>1, <1>2 DEF Rest, LocksExclude, There, Holding
<1>9. JudgedStillHolds'
  BY <1>1, <1>2, <1>4, <1>5 DEF Rest, JudgedStillHolds, Holding
<1>10. QED
  BY <1>6, <1>7, <1>8, <1>9 DEF Rest

\* A lock is taken on a service that is there and that nobody holds.
LEMMA LockRest ==
  ASSUME TypeOK, Rest, NEW r \in Requests, LockService(r)
  PROVE  Rest'
<1> USE DEF TypeOK
<1>1. /\ UNCHANGED <<svc, offers, scenarios>>
      /\ There(req[r].svc) /\ ~Locked(req[r].svc)
      /\ \/ req[r].pc = "accept" /\ req'[r].pc = "accept locked"
         \/ req[r].pc = "transfer" /\ req'[r].pc = "transfer locked"
      /\ req'[r].svc = req[r].svc /\ req'[r].to = req[r].to
      /\ req'[r].offer = req[r].offer
      /\ \A q \in Requests : q # r => req'[q] = req[q]
  <2>1. PICK t \in req[r].stamp .. now :
          \/ /\ req[r].pc = "accept"
             /\ req' = [req EXCEPT ![r] = [@ EXCEPT !.pc = "accept locked", !.stamp = t]]
          \/ /\ req[r].pc = "transfer"
             /\ req' = [req EXCEPT ![r] = [@ EXCEPT !.pc = "transfer locked", !.stamp = t]]
    BY DEF LockService
  <2>2. \A q \in Requests : q # r => req'[q] = req[q]
    BY <2>1
  <2>3. \A pc : LET q == [req[r] EXCEPT !.pc = pc, !.stamp = t]
                IN  q.pc = pc /\ q.svc = req[r].svc /\ q.to = req[r].to /\ q.offer = req[r].offer
    BY DEF Request
  <2>4. /\ \/ req[r].pc = "accept" /\ req'[r].pc = "accept locked"
           \/ req[r].pc = "transfer" /\ req'[r].pc = "transfer locked"
        /\ req'[r].svc = req[r].svc /\ req'[r].to = req[r].to
        /\ req'[r].offer = req[r].offer
    <3>1. CASE req' = [req EXCEPT ![r] = [@ EXCEPT !.pc = "accept locked", !.stamp = t]]
      <4>1. req'[r] = [req[r] EXCEPT !.pc = "accept locked", !.stamp = t]
        BY <3>1
      <4>2. req'[r].pc = "accept locked"
        BY <4>1, <2>3
      <4>3. QED
        BY ZenonT(60), <2>1, <2>3, <4>1, <4>2
    <3>2. CASE req' = [req EXCEPT ![r] = [@ EXCEPT !.pc = "transfer locked", !.stamp = t]]
      <4>1. req'[r] = [req[r] EXCEPT !.pc = "transfer locked", !.stamp = t]
        BY <3>2
      <4>2. req'[r].pc = "transfer locked"
        BY <4>1, <2>3
      <4>3. QED
        BY ZenonT(60), <2>1, <2>3, <4>1, <4>2
    <3>3. QED
      BY <2>1, <3>1, <3>2
  <2>5. QED
    BY <2>2, <2>4 DEF LockService
<1>2. \A q \in Requests : req[q].pc \in Holding => req[q].svc # req[r].svc
  BY <1>1, HoldingLocks
<1>3. RowsNameUsers'
  BY <1>1 DEF Rest, RowsNameUsers, There
<1>4. RequestsNameRows'
  <2>1. SUFFICES ASSUME NEW q \in Requests PROVE NamesRows(req[q])'
    BY DEF RequestsNameRows
  <2>2. NamesRows(req[q])
    BY DEF Rest, RequestsNameRows
  <2>3. CASE q = r
    BY <1>1, <2>2, <2>3 DEF NamesRows, Accepting
  <2>4. CASE q # r
    BY <1>1, <2>2, <2>4 DEF NamesRows
  <2>5. QED
    BY <2>3, <2>4
<1>5. LocksExclude'
  <2>1. \A q \in Requests : req'[q].svc = req[q].svc
    BY <1>1
  <2>2. \A q \in Requests : q # r => req'[q].pc = req[q].pc
    BY <1>1
  <2>3. UNCHANGED svc
    BY <1>1
  <2>4. \A q \in Requests : req'[q].pc \in Holding => svc'[req'[q].svc].row = "there"
    BY <1>1, <2>1, <2>2, <2>3 DEF Rest, LocksExclude, There
  <2>5. QED
    BY <1>2, <2>1, <2>2, <2>4 DEF Rest, LocksExclude, There
<1>6. JudgedStillHolds'
  BY <1>1 DEF Rest, JudgedStillHolds, InScenario
<1>7. QED
  BY <1>3, <1>4, <1>5, <1>6 DEF Rest

\* The checks under the lock.
LEMMA JudgeRest ==
  ASSUME TypeOK, Rest, NEW r \in Requests, AcceptJudge(r) \/ TransferJudge(r)
  PROVE  Rest'
<1> USE DEF TypeOK
<1>1. /\ UNCHANGED <<svc, offers, scenarios>>
      /\ ~InScenario(req[r].svc)
      /\ \/ /\ req[r].pc = "accept locked" /\ req'[r].pc = "accept judged"
            /\ offers[req[r].offer].status = "pending"
            /\ svc[req[r].svc].owner = offers[req[r].offer].from
         \/ /\ req[r].pc = "transfer locked" /\ req'[r].pc = "transfer judged"
            /\ svc[req[r].svc].owner # req[r].to
      /\ req'[r].svc = req[r].svc /\ req'[r].to = req[r].to
      /\ req'[r].offer = req[r].offer
      /\ \A q \in Requests : q # r => req'[q] = req[q]
  BY ZenonT(60) DEF AcceptJudge, TransferJudge, Goto, Request, LivePending, SenderOwns
<1>2. RowsNameUsers'
  BY <1>1 DEF Rest, RowsNameUsers, There
<1>3. RequestsNameRows'
  <2>1. SUFFICES ASSUME NEW q \in Requests PROVE NamesRows(req[q])'
    BY DEF RequestsNameRows
  <2>2. NamesRows(req[q])
    BY DEF Rest, RequestsNameRows
  <2>3. CASE q = r
    BY <1>1, <2>2, <2>3 DEF NamesRows, Accepting
  <2>4. CASE q # r
    BY <1>1, <2>2, <2>4 DEF NamesRows
  <2>5. QED
    BY <2>3, <2>4
<1>4. LocksExclude'
  <2>1. \A q \in Requests : req'[q].svc = req[q].svc
    BY <1>1
  <2>2. \A q \in Requests : req'[q].pc \in Holding <=> req[q].pc \in Holding
    BY <1>1 DEF Holding
  <2>3. UNCHANGED svc
    BY <1>1
  <2>4. QED
    BY <2>1, <2>2, <2>3 DEF Rest, LocksExclude, There
<1>5. JudgedStillHolds'
  BY <1>1 DEF Rest, JudgedStillHolds, InScenario
<1>6. QED
  BY <1>2, <1>3, <1>4, <1>5 DEF Rest

\* What an insert into service_handovers for service s does to the other rows.
Inserts(s, h) ==
  /\ offers[h].status = "none"
  /\ offers'[h].status \in {"pending", "accepted"} /\ offers'[h].svc = s
  /\ offers'[h].from \in Users /\ offers'[h].to \in Users
  /\ offers'[h].from # offers'[h].to
  /\ \A k \in Offers : k # h =>
       /\ offers'[k].svc = offers[k].svc
       /\ offers'[k].from = offers[k].from /\ offers'[k].to = offers[k].to
       /\ \/ offers'[k].status = offers[k].status
          \/ /\ offers[k].svc = s /\ offers[k].status = "pending"
             /\ offers'[k].status \in {"expired", "cancelled"}

\* A request ends; service s, held by nobody else, may get another owner.
Ends(r, s) ==
  /\ req'[r].pc = "idle"
  /\ \A q \in Requests : q # r => req'[q] = req[q]
  /\ \A q \in Requests : q # r /\ req[q].pc \in Holding => req[q].svc # s
  /\ \A x \in Services : x # s => svc'[x] = svc[x]
  /\ svc'[s].row = svc[s].row /\ svc'[s].owner \in Users
  /\ UNCHANGED scenarios

\* Whoever holds a lock after a request has ended held it before.
LEMMA EndsKeepsLocks ==
  ASSUME TypeOK, Rest, NEW r \in Requests, NEW s \in Services, Ends(r, s)
  PROVE  /\ LocksExclude'
         /\ \A q \in Requests : req'[q].pc \in Holding =>
              /\ q # r /\ req'[q] = req[q] /\ req[q].svc \in Services /\ req[q].svc # s
              /\ svc'[req[q].svc] = svc[req[q].svc]
<1>1. \A q \in Requests : req'[q].pc \in Holding => q # r
  BY DEF Ends, Holding
<1>2. \A q \in Requests : req[q].pc \in Holding => req[q].svc \in Services
  BY DEF Rest, RequestsNameRows, NamesRows, Holding
<1>3. \A q \in Requests : req'[q].pc \in Holding =>
        /\ q # r /\ req'[q] = req[q] /\ req[q].svc \in Services /\ req[q].svc # s
        /\ svc'[req[q].svc] = svc[req[q].svc]
  BY <1>1, <1>2 DEF Ends
<1>4. LocksExclude'
  BY <1>3 DEF Rest, LocksExclude, There
<1>5. QED
  BY <1>3, <1>4

\* What was judged under a lock survives the end of another request.
LEMMA EndsKeepsJudged ==
  ASSUME TypeOK, Rest, NEW r \in Requests, NEW s \in Services, Ends(r, s),
         \A k \in Offers : offers[k].svc # s /\ offers[k].status # "none"
                             => offers'[k].status = offers[k].status
                                /\ offers'[k].from = offers[k].from
  PROVE  JudgedStillHolds'
<1>1. SUFFICES ASSUME NEW q \in Requests,
                      req'[q].pc \in {"accept judged", "transfer judged"}
               PROVE  /\ ~InScenario(req[q].svc)'
                      /\ req'[q].pc = "accept judged" =>
                           /\ offers'[req'[q].offer].status = "pending"
                           /\ offers'[req'[q].offer].from = svc'[req'[q].svc].owner
                      /\ req'[q].pc = "transfer judged" =>
                           svc'[req'[q].svc].owner # req'[q].to
  BY DEF JudgedStillHolds
<1>2. req'[q].pc \in Holding
  BY <1>1 DEF Holding
<1>3. req'[q] = req[q] /\ svc'[req[q].svc] = svc[req[q].svc] /\ req[q].svc # s
  BY <1>2, EndsKeepsLocks
<1>4. ~InScenario(req[q].svc)'
  BY <1>1, <1>3 DEF Rest, JudgedStillHolds, InScenario, Ends
<1>5. CASE req'[q].pc = "accept judged"
  <2>1. /\ req[q].offer \in Offers /\ offers[req[q].offer].svc = req[q].svc
        /\ offers[req[q].offer].status = "pending"
        /\ offers[req[q].offer].from = svc[req[q].svc].owner
    BY <1>3, <1>5 DEF Rest, JudgedStillHolds, RequestsNameRows, NamesRows, Accepting
  <2>2. /\ offers'[req[q].offer].status = offers[req[q].offer].status
        /\ offers'[req[q].offer].from = offers[req[q].offer].from
    BY <1>3, <2>1
  <2>3. QED
    BY <1>3, <1>4, <1>5, <2>1, <2>2
<1>6. CASE req'[q].pc = "transfer judged"
  BY <1>3, <1>4, <1>6 DEF Rest, JudgedStillHolds
<1>7. QED
  BY <1>1, <1>5, <1>6

\* An insert into service_handovers disturbs nobody who holds another service.
LEMMA InsertRest ==
  ASSUME TypeOK, Rest, NEW r \in Requests, NEW s \in Services, NEW h \in Offers,
         Inserts(s, h), Ends(r, s)
  PROVE  Rest'
<1>1. RowsNameUsers'
  <2>1. \A x \in Services : svc'[x].row = "there" => svc'[x].owner \in Users
    BY DEF Rest, RowsNameUsers, Ends, There
  <2>2. ASSUME NEW k \in Offers, offers'[k].status \notin {"none", "gone"}
        PROVE  /\ offers'[k].svc \in Services
               /\ offers'[k].from \in Users /\ offers'[k].to \in Users
               /\ offers'[k].from # offers'[k].to
    <3>1. CASE k = h
      BY <3>1 DEF Inserts
    <3>2. CASE k # h
      BY <2>2, <3>2 DEF Inserts, Rest, RowsNameUsers
    <3>3. QED
      BY <3>1, <3>2
  <2>3. QED
    BY <2>1, <2>2 DEF RowsNameUsers, There
<1>2. RequestsNameRows'
  <2>1. SUFFICES ASSUME NEW q \in Requests PROVE NamesRows(req[q])'
    BY DEF RequestsNameRows
  <2>2. CASE q = r
    BY <2>2 DEF Ends, NamesRows, Accepting
  <2>3. CASE q # r
    <3>1. req'[q] = req[q] /\ NamesRows(req[q])
      BY <2>3 DEF Ends, Rest, RequestsNameRows
    <3>2. req[q].pc \in Accepting => req[q].offer \in Offers /\ req[q].offer # h
      BY <3>1 DEF NamesRows, Inserts
    <3>3. ASSUME NEW k \in Offers, k # h
          PROVE  /\ offers'[k].svc = offers[k].svc /\ offers'[k].to = offers[k].to
                 /\ offers[k].status # "none" => offers'[k].status # "none"
                 /\ offers'[k].status # "gone" => offers[k].status # "gone"
      BY <3>3 DEF Inserts
    <3>4. req'[q] = req[q] /\ NamesRows(req[q]) => NamesRows(req[q])'
      BY <3>2, <3>3 DEF NamesRows
    <3>5. QED
      BY <3>1, <3>4
  <2>4. QED
    BY <2>2, <2>3
<1>3. LocksExclude'
  BY EndsKeepsLocks
<1>4. \A k \in Offers : offers[k].svc # s /\ offers[k].status # "none"
        => offers'[k].status = offers[k].status /\ offers'[k].from = offers[k].from
  BY DEF Inserts
<1>5. JudgedStillHolds'
  BY <1>4, EndsKeepsJudged
<1>6. QED
  BY <1>1, <1>2, <1>3, <1>5 DEF Rest

\* expireStalePending touches only the status of pending offers of its service.
LEMMA Swept ==
  ASSUME TypeOK, NEW s, NEW t, NEW k \in Offers
  PROVE  LET o == ExpireStalePending(s, t)[k]
         IN  /\ o.svc = offers[k].svc /\ o.from = offers[k].from /\ o.to = offers[k].to
             /\ \/ o = offers[k]
                \/ offers[k].svc = s /\ offers[k].status = "pending" /\ o.status = "expired"
BY DEF TypeOK, ExpireStalePending, ExpiredPending, Offer

\* OfferServiceHandover inserts an offer for a service that nobody holds.
LEMMA OfferInserts ==
  ASSUME TypeOK, Rest, NEW r \in Requests, NEW h \in Offers, OfferInsert(r, h)
  PROVE  /\ req[r].svc \in Services
         /\ Inserts(req[r].svc, h) /\ Ends(r, req[r].svc)
         /\ offers'[h].status = "pending" /\ UNCHANGED svc
<1> USE DEF TypeOK
<1>1. PICK t \in req[r].stamp .. now :
        offers' = [ExpireStalePending(req[r].svc, t) EXCEPT ![h] =
                     [status |-> "pending", svc |-> req[r].svc, from |-> req[r].from,
                      to |-> req[r].to, expires |-> t + TTL]]
  BY DEF OfferInsert
<1>2. /\ req[r].pc = "offer" /\ offers[h].status = "none"
      /\ There(req[r].svc) /\ ~Locked(req[r].svc)
      /\ req' = [req EXCEPT ![r] = Idle] /\ UNCHANGED <<svc, scenarios>>
  BY DEF OfferInsert, Answer
<1>3. /\ req[r].svc \in Services /\ req[r].from \in Users /\ req[r].to \in Users
      /\ req[r].from # req[r].to
  BY <1>2 DEF Rest, RequestsNameRows, NamesRows
<1>4. /\ offers'[h].status = "pending" /\ offers'[h].svc = req[r].svc
      /\ offers'[h].from = req[r].from /\ offers'[h].to = req[r].to
      /\ \A k \in Offers : k # h => offers'[k] = ExpireStalePending(req[r].svc, t)[k]
  BY <1>1, SweptTypes
<1>5. Inserts(req[r].svc, h)
  BY <1>2, <1>3, <1>4, Swept DEF Inserts
<1>6. svc[req[r].svc].owner \in Users
  BY <1>2, <1>3 DEF Rest, RowsNameUsers
<1>7. Ends(r, req[r].svc)
  BY <1>2, <1>6, HoldingLocks DEF Ends, Idle
<1>8. QED
  BY <1>2, <1>3, <1>4, <1>5, <1>7

\* A judged request alone holds its service.
LEMMA MoveEnds ==
  ASSUME TypeOK, Rest, NEW r \in Requests, req[r].pc \in Holding, req[r].to \in Users,
         svc' = Moved(req[r].svc, req[r].to), Answer(r), UNCHANGED scenarios
  PROVE  /\ req[r].svc \in Services /\ There(req[r].svc)
         /\ svc'[req[r].svc].owner = req[r].to
         /\ Ends(r, req[r].svc)
<1>1. req[r].svc \in Services /\ There(req[r].svc)
  BY DEF Rest, RequestsNameRows, NamesRows, LocksExclude, Holding
<1>2. /\ svc'[req[r].svc].owner = req[r].to
      /\ svc'[req[r].svc].row = svc[req[r].svc].row
      /\ \A x \in Services : x # req[r].svc => svc'[x] = svc[x]
  BY <1>1 DEF Moved, TypeOK
<1>3. \A q \in Requests : q # r /\ req[q].pc \in Holding => req[q].svc # req[r].svc
  BY DEF Rest, LocksExclude
<1>4. req'[r].pc = "idle" /\ \A q \in Requests : q # r => req'[q] = req[q]
  BY DEF Answer, Idle, TypeOK
<1>5. Ends(r, req[r].svc)
  BY <1>2, <1>3, <1>4 DEF Ends
<1>6. QED
  BY <1>1, <1>2, <1>5

\* TransferUserService moves a service it alone holds and records the move.
LEMMA TransferInserts ==
  ASSUME TypeOK, Rest, NEW r \in Requests, NEW h \in Offers, TransferCommit(r, h)
  PROVE  /\ req[r].svc \in Services /\ There(req[r].svc) /\ ~InScenario(req[r].svc)
         /\ Inserts(req[r].svc, h) /\ Ends(r, req[r].svc)
         /\ svc'[req[r].svc].owner = req[r].to
         /\ svc[req[r].svc].owner # req[r].to
         /\ offers'[h].status = "accepted"
         /\ offers'[h].from = svc[req[r].svc].owner /\ offers'[h].to = req[r].to
<1> DEFINE swept == ExpireStalePending(req[r].svc, req[r].stamp)
<1>1. /\ req[r].pc = "transfer judged" /\ req[r].pc \in Holding
      /\ req[r].to \in Users /\ svc[req[r].svc].owner # req[r].to
      /\ ~InScenario(req[r].svc)
  BY DEF TransferCommit, Holding, Rest, RequestsNameRows, NamesRows, JudgedStillHolds
<1>2. svc' = Moved(req[r].svc, req[r].to) /\ Answer(r) /\ UNCHANGED scenarios
  BY DEF TransferCommit
<1>3. /\ req[r].svc \in Services /\ There(req[r].svc)
      /\ svc'[req[r].svc].owner = req[r].to
      /\ Ends(r, req[r].svc)
  BY <1>1, <1>2, MoveEnds
<1>4. svc[req[r].svc].owner \in Users
  BY <1>3 DEF Rest, RowsNameUsers
<1>5. offers' = [k \in Offers |->
        CASE k = h -> [status |-> "accepted", svc |-> req[r].svc,
                       from |-> svc[req[r].svc].owner, to |-> req[r].to,
                       expires |-> req[r].stamp]
          [] k # h /\ swept[k].svc = req[r].svc /\ swept[k].status = "pending"
                   -> [swept[k] EXCEPT !.status = "cancelled"]
          [] OTHER -> swept[k]]
  BY DEF TransferCommit
<1>6. offers[h].status = "none"
  BY DEF TransferCommit
<1>7. /\ swept \in [Offers -> Offer]
      /\ \A k \in Offers :
           /\ swept[k].svc = offers[k].svc /\ swept[k].from = offers[k].from
           /\ swept[k].to = offers[k].to
           /\ \/ swept[k] = offers[k]
              \/ /\ offers[k].svc = req[r].svc /\ offers[k].status = "pending"
                 /\ swept[k].status = "expired"
  BY Swept, SweptTypes
<1> HIDE DEF swept
<1>8. /\ offers'[h].status = "accepted" /\ offers'[h].svc = req[r].svc
      /\ offers'[h].from = svc[req[r].svc].owner /\ offers'[h].to = req[r].to
  BY <1>5
<1>9. ASSUME NEW k \in Offers, k # h
      PROVE  /\ offers'[k].svc = offers[k].svc
             /\ offers'[k].from = offers[k].from /\ offers'[k].to = offers[k].to
             /\ \/ offers'[k].status = offers[k].status
                \/ /\ offers[k].svc = req[r].svc /\ offers[k].status = "pending"
                   /\ offers'[k].status \in {"expired", "cancelled"}
  <2>1. CASE swept[k].svc = req[r].svc /\ swept[k].status = "pending"
    <3>1. offers'[k] = [swept[k] EXCEPT !.status = "cancelled"]
      BY <1>5, <1>9, <2>1
    <3>2. /\ offers'[k].status = "cancelled" /\ offers'[k].svc = swept[k].svc
          /\ offers'[k].from = swept[k].from /\ offers'[k].to = swept[k].to
      BY <1>7, <3>1 DEF Offer
    <3>3. QED
      BY <1>7, <2>1, <3>2
  <2>2. CASE ~(swept[k].svc = req[r].svc /\ swept[k].status = "pending")
    <3>1. offers'[k] = swept[k]
      BY <1>5, <1>9, <2>2
    <3>2. QED
      BY <1>7, <3>1
  <2>3. QED
    BY <2>1, <2>2
<1>10. Inserts(req[r].svc, h)
  BY <1>1, <1>4, <1>6, <1>8, <1>9 DEF Inserts
<1>11. QED
  BY <1>1, <1>3, <1>8, <1>10

\* AcceptServiceHandover moves a service it alone holds from the offer's sender.
LEMMA AcceptMoves ==
  ASSUME TypeOK, Rest, NEW r \in Requests, AcceptCommit(r)
  PROVE  /\ req[r].svc \in Services /\ There(req[r].svc) /\ ~InScenario(req[r].svc)
         /\ Ends(r, req[r].svc) /\ svc'[req[r].svc].owner = req[r].to
         /\ req[r].offer \in Offers
         /\ offers[req[r].offer].status = "pending"
         /\ offers[req[r].offer].svc = req[r].svc
         /\ offers[req[r].offer].to = req[r].to
         /\ offers[req[r].offer].from = svc[req[r].svc].owner
         /\ offers[req[r].offer].from # req[r].to
         /\ offers'[req[r].offer] = [offers[req[r].offer] EXCEPT !.status = "accepted"]
         /\ \A k \in Offers : k # req[r].offer => offers'[k] = offers[k]
<1>1. /\ req[r].pc = "accept judged" /\ req[r].pc \in Holding /\ req[r].pc \in Accepting
  BY DEF AcceptCommit, Holding, Accepting
<1>2. /\ req[r].offer \in Offers /\ req[r].to \in Users
      /\ ~InScenario(req[r].svc)
      /\ offers[req[r].offer].status = "pending"
      /\ offers[req[r].offer].svc = req[r].svc /\ offers[req[r].offer].to = req[r].to
      /\ offers[req[r].offer].from = svc[req[r].svc].owner
  BY <1>1 DEF Rest, RequestsNameRows, NamesRows, JudgedStillHolds
<1>3. svc' = Moved(req[r].svc, req[r].to) /\ Answer(r) /\ UNCHANGED scenarios
  BY DEF AcceptCommit
<1>4. /\ req[r].svc \in Services /\ There(req[r].svc)
      /\ svc'[req[r].svc].owner = req[r].to
      /\ Ends(r, req[r].svc)
  BY <1>1, <1>2, <1>3, MoveEnds
<1>5. /\ offers'[req[r].offer] = [offers[req[r].offer] EXCEPT !.status = "accepted"]
      /\ \A k \in Offers : k # req[r].offer => offers'[k] = offers[k]
  BY <1>2 DEF AcceptCommit, TypeOK
<1>6. offers[req[r].offer].from # req[r].to
  BY <1>2 DEF Rest, RowsNameUsers
<1>7. QED
  BY <1>1, <1>2, <1>4, <1>5, <1>6

\* An offer's answer changes its status and nothing else.
LEMMA AnswerKeepsNames ==
  ASSUME TypeOK, Rest, NEW h \in Offers, offers[h].status = "pending",
         NEW status \in {"accepted", "declined", "cancelled"},
         offers'[h] = [offers[h] EXCEPT !.status = status],
         \A k \in Offers : k # h => offers'[k] = offers[k]
  PROVE  /\ \A k \in Offers : /\ offers'[k].svc = offers[k].svc
                               /\ offers'[k].from = offers[k].from
                               /\ offers'[k].to = offers[k].to
         /\ \A k \in Offers : offers'[k].status \in {"none", "gone"}
                               <=> offers[k].status \in {"none", "gone"}
         /\ \A k \in Offers : offers'[k].status = "none" <=> offers[k].status = "none"
         /\ offers'[h].status = status
<1>1. /\ offers'[h].svc = offers[h].svc /\ offers'[h].from = offers[h].from
      /\ offers'[h].to = offers[h].to /\ offers'[h].status = status
  BY DEF TypeOK, Offer
<1>2. QED
  BY <1>1

\* An accept disturbs nobody who holds another service.
LEMMA AcceptRest ==
  ASSUME TypeOK, Rest, NEW r \in Requests, AcceptCommit(r)
  PROVE  Rest'
<1>1. PICK s \in Services, h \in Offers :
        /\ s = req[r].svc /\ h = req[r].offer /\ Ends(r, s)
        /\ offers[h].status = "pending" /\ offers[h].svc = s
        /\ offers'[h] = [offers[h] EXCEPT !.status = "accepted"]
        /\ \A k \in Offers : k # h => offers'[k] = offers[k]
  BY ZenonT(60), AcceptMoves
<1>2. /\ \A k \in Offers : /\ offers'[k].svc = offers[k].svc
                            /\ offers'[k].from = offers[k].from
                            /\ offers'[k].to = offers[k].to
      /\ \A k \in Offers : offers'[k].status \in {"none", "gone"}
                            <=> offers[k].status \in {"none", "gone"}
      /\ \A k \in Offers : offers'[k].status = "none" <=> offers[k].status = "none"
  BY <1>1, AnswerKeepsNames
<1>3. RowsNameUsers'
  BY <1>1, <1>2 DEF Rest, RowsNameUsers, Ends, There
<1>4. RequestsNameRows'
  <2>1. SUFFICES ASSUME NEW q \in Requests PROVE NamesRows(req[q])'
    BY DEF RequestsNameRows
  <2>2. CASE q = r
    BY <1>1, <2>2 DEF Ends, NamesRows, Accepting
  <2>3. CASE q # r
    <3>1. req'[q] = req[q] /\ NamesRows(req[q])
      BY <1>1, <2>3 DEF Ends, Rest, RequestsNameRows
    <3>2. QED
      BY ZenonT(60), <1>2, <3>1 DEF NamesRows
  <2>4. QED
    BY <2>2, <2>3
<1>5. LocksExclude'
  BY <1>1, EndsKeepsLocks
<1>6. JudgedStillHolds'
  <2>1. \A k \in Offers : offers[k].svc # s /\ offers[k].status # "none"
          => offers'[k].status = offers[k].status /\ offers'[k].from = offers[k].from
    BY <1>1
  <2>2. QED
    BY <1>1, <2>1, EndsKeepsJudged
<1>7. QED
  BY <1>3, <1>4, <1>5, <1>6 DEF Rest

\* Cancel and decline: not an offer that an accept has judged.
LEMMA DecideRest ==
  ASSUME TypeOK, Rest, NEW h \in Offers, Cancel(h) \/ Decline(h)
  PROVE  /\ Rest' /\ TypeOK'
         /\ offers[h].status = "pending" /\ offers'[h].status \in {"cancelled", "declined"}
         /\ \A k \in Offers : k # h => offers'[k] = offers[k]
         /\ UNCHANGED <<svc, scenarios, req, disabled, now>>
<1>1. PICK status \in {"declined", "cancelled"} :
        offers' = [offers EXCEPT ![h] = [@ EXCEPT !.status = status]]
  BY DEF Cancel, Decline
<1>2. /\ offers[h].status = "pending" /\ ~OfferLocked(h)
      /\ UNCHANGED <<svc, scenarios, req, disabled, now>>
  BY DEF Cancel, Decline, LivePending
<1>3. /\ offers'[h] = [offers[h] EXCEPT !.status = status]
      /\ \A k \in Offers : k # h => offers'[k] = offers[k]
  BY <1>1 DEF TypeOK
<1>4. /\ \A k \in Offers : /\ offers'[k].svc = offers[k].svc
                            /\ offers'[k].from = offers[k].from
                            /\ offers'[k].to = offers[k].to
      /\ \A k \in Offers : offers'[k].status \in {"none", "gone"}
                            <=> offers[k].status \in {"none", "gone"}
      /\ \A k \in Offers : offers'[k].status = "none" <=> offers[k].status = "none"
      /\ offers'[h].status = status
  BY ZenonT(60), <1>2, <1>3, AnswerKeepsNames
<1>5. TypeOK'
  BY <1>1, <1>2, OfferMoves DEF TypeOK
<1>6. RowsNameUsers'
  BY <1>2, <1>4 DEF Rest, RowsNameUsers, There
<1>7. RequestsNameRows'
  <2>1. SUFFICES ASSUME NEW q \in Requests PROVE NamesRows(req[q])'
    BY DEF RequestsNameRows
  <2>2. req'[q] = req[q] /\ NamesRows(req[q])
    BY <1>2 DEF Rest, RequestsNameRows
  <2>3. QED
    BY ZenonT(60), <1>4, <2>2 DEF NamesRows
<1>8. LocksExclude'
  BY <1>2 DEF Rest, LocksExclude, There
<1>9. JudgedStillHolds'
  <2>1. \A q \in Requests : req[q].pc = "accept judged" => req[q].offer # h
    BY <1>2 DEF OfferLocked
  <2>2. \A q \in Requests : req[q].pc = "accept judged" => req[q].offer \in Offers
    BY DEF Rest, RequestsNameRows, NamesRows, Accepting
  <2>3. QED
    BY <1>2, <1>3, <2>1, <2>2 DEF Rest, JudgedStillHolds, InScenario
<1>10. QED
  BY <1>2, <1>3, <1>4, <1>5, <1>6, <1>7, <1>8, <1>9 DEF Rest

\* One step per kind of request.
LEMMA RequestStepRest ==
  ASSUME TypeOK, Rest, NEW r \in Requests, RequestStep(r)
  PROVE  Rest'
<1>1. CASE UpdateUserService(r)
  BY <1>1, EditRest
<1>2. CASE DeleteUserService(r)
  BY <1>2, DeleteRest
<1>3. CASE WriteScenario(r)
  BY <1>3, WriteScenarioRest
<1>4. CASE LockService(r)
  BY <1>4, LockRest
<1>5. CASE AcceptJudge(r) \/ TransferJudge(r)
  BY <1>5, JudgeRest
<1>6. CASE AcceptCommit(r)
  BY <1>6, AcceptRest
<1>7. CASE \E h \in Offers : OfferInsert(r, h)
  BY <1>7, OfferInserts, InsertRest
<1>8. CASE \E h \in Offers : TransferCommit(r, h)
  BY <1>8, TransferInserts, InsertRest
<1>9. CASE \E h \in Offers : AcceptBegin(r, h)
  <2>1. PICK h \in Offers : AcceptBegin(r, h)
    BY <1>9
  <2> DEFINE q == [Idle EXCEPT !.pc = "accept", !.offer = h, !.svc = offers[h].svc,
                               !.to = offers[h].to, !.stamp = now]
  <2>2. /\ q \in Request /\ q.pc = "accept" /\ q.offer = h
        /\ q.svc = offers[h].svc /\ q.to = offers[h].to
    BY HandoversAssumption DEF Idle, Request, Steps, Offer, TypeOK
  <2>3. /\ offers[h].status \notin {"none", "gone"}
        /\ offers[h].svc \in Services /\ offers[h].to \in Users
    BY <2>1 DEF AcceptBegin, Rest, RowsNameUsers
  <2>4. NamesRows(q) /\ q.pc \notin Holding
    BY <2>2, <2>3 DEF NamesRows, Holding, Accepting
  <2>5. req' = [req EXCEPT ![r] = q] /\ UNCHANGED <<svc, offers, scenarios>>
    BY <2>1 DEF AcceptBegin, Begin
  <2> HIDE DEF q
  <2>6. QED
    BY <2>2, <2>4, <2>5, BeginKeepsRest
<1>10. CASE Abort(r)
  <2>1. Idle \in Request /\ Idle.pc = "idle"
    BY DEF Idle, Request, Steps
  <2>2. NamesRows(Idle) /\ Idle.pc \notin Holding
    BY <2>1 DEF NamesRows, Holding, Accepting
  <2>3. req' = [req EXCEPT ![r] = Idle] /\ UNCHANGED <<svc, offers, scenarios>>
    BY <1>10 DEF Abort, Answer
  <2>4. QED
    BY <2>1, <2>2, <2>3, BeginKeepsRest
<1>11. QED
  BY <1>1, <1>2, <1>3, <1>4, <1>5, <1>6, <1>7, <1>8, <1>9, <1>10 DEF RequestStep

----------------------------------------------------------------------------
(* The theorems. *)

\* The invariant holds of the empty tables ...
LEMMA InitInv == Init => Inv
<1> SUFFICES ASSUME Init PROVE Inv
  OBVIOUS
<1> USE HandoversAssumption DEF Init
<1>1. TypeOK
  BY DEF TypeOK, Service, NoService, Row, Offer, Scenario, Idle, Request, Steps
<1>2. /\ \A s \in Services : svc[s].row = "none"
      /\ \A h \in Offers : offers[h].status = "none"
      /\ \A r \in Requests : req[r].pc = "idle"
  BY DEF NoService, Idle
<1>3. QED
  BY <1>1, <1>2 DEF Inv, RowsNameUsers, RequestsNameRows, NamesRows, LocksExclude,
                    JudgedStillHolds, There, Holding, Accepting

\* ... and every step keeps it.
LEMMA NextInv == Inv /\ [Next]_vars => Inv'
<1> SUFFICES ASSUME Inv, [Next]_vars PROVE Inv'
  OBVIOUS
<1>0. TypeOK /\ Rest /\ RequestsNameRows
  BY DEF Inv, Rest
<1>1. CASE \E u \in Users : UserStep(u)
  BY <1>0, <1>1, UserStepTypeOK, UserStepRest DEF Inv, Rest
<1>2. CASE \E r \in Requests : RequestStep(r)
  BY <1>0, <1>2, RequestStepTypeOK, RequestStepRest DEF Inv, Rest
<1>3. CASE \E h \in Offers : Cancel(h) \/ Decline(h)
  BY <1>0, <1>3, DecideRest DEF Inv, Rest
<1>4. CASE Tick \/ UNCHANGED vars
  <2>1. UNCHANGED <<svc, offers, scenarios, disabled, req>> /\ now' \in Nat
    BY <1>0, <1>4 DEF Tick, vars, TypeOK
  <2>2. QED
    BY <2>1 DEF Inv, TypeOK, RowsNameUsers, RequestsNameRows, NamesRows, LocksExclude,
                JudgedStillHolds, There, InScenario
<1>5. QED
  BY <1>1, <1>2, <1>3, <1>4 DEF Next

\* Type correctness, and what the row locks keep true.
THEOREM HandoversInvariant == Spec => []Inv
<1>1. QED
  BY InitInv, NextInv, PTL DEF Spec

\* A step that moves no service accepts no offer ...
Quiet ==
  /\ \A s \in Services : There(s) /\ svc'[s].row = "there" => svc'[s].owner = svc[s].owner
  /\ \A h \in Offers : offers'[h].status = "accepted" => offers[h].status = "accepted"
  /\ \A h \in Offers : StaysAnswered(h)

\* ... and any other moves service s and records it as handover h.
Moves(s, h) ==
  /\ There(s) /\ ~InScenario(s)
  /\ svc'[s].owner # svc[s].owner
  /\ \A x \in Services : x # s => svc'[x] = svc[x]
  /\ offers[h].status \notin Closed /\ offers'[h].status = "accepted"
  /\ offers'[h].svc = s
  /\ offers'[h].from = svc[s].owner /\ offers'[h].to = svc'[s].owner
  /\ \A k \in Offers : k # h /\ offers'[k].status = "accepted"
                          => offers[k].status = "accepted"
  /\ \A k \in Offers : k # h => StaysAnswered(k)

\* Offers that do not change stay answered.
LEMMA SameOffersStay ==
  ASSUME UNCHANGED offers
  PROVE  /\ \A h \in Offers : offers'[h].status = "accepted" => offers[h].status = "accepted"
         /\ \A h \in Offers : StaysAnswered(h)
BY DEF StaysAnswered

\* What a user begins moves nothing.
LEMMA UserStepQuiet ==
  ASSUME Inv, NEW u \in Users, UserStep(u)
  PROVE  Quiet
<1>1. UNCHANGED offers
  BY DEF UserStep, CreateService, EditBegin, DeleteBegin, DeleteUserScenario, SetUserDisabled,
         OfferCheck, TransferBegin, CreateScenarioBegin, UpdateScenarioBegin
<1>2. CASE UNCHANGED svc
  BY <1>1, <1>2, SameOffersStay DEF Quiet
<1>3. CASE \E s \in Services, route \in RouteOwners : CreateService(u, s, route)
  <2>1. \A s \in Services : There(s) => svc'[s] = svc[s]
    BY <1>3 DEF CreateService, There, Inv, TypeOK
  <2>2. QED
    BY <1>1, <2>1, SameOffersStay DEF Quiet
<1>4. QED
  BY <1>2, <1>3 DEF UserStep, EditBegin, DeleteBegin, DeleteUserScenario, SetUserDisabled,
         OfferCheck, TransferBegin, CreateScenarioBegin, UpdateScenarioBegin

\* A request's step moves nothing, or moves and records.
LEMMA RequestStepMoves ==
  ASSUME Inv, NEW r \in Requests, RequestStep(r)
  PROVE  Quiet \/ \E s \in Services, h \in Offers : Moves(s, h)
<1>0. TypeOK /\ Rest
  BY DEF Inv, Rest
<1>1. CASE UNCHANGED <<svc, offers>>
  BY <1>1, SameOffersStay DEF Quiet
<1>2. CASE UpdateUserService(r)
  <2>1. req[r].svc \in Services
    BY <1>0, <1>2 DEF UpdateUserService, Rest, RequestsNameRows, NamesRows
  <2>2. /\ \A s \in Services : svc'[s].owner = svc[s].owner
        /\ UNCHANGED offers
    BY <1>0, <1>2, <2>1 DEF UpdateUserService, Edited, Service, TypeOK
  <2>3. QED
    BY <2>2, SameOffersStay DEF Quiet
<1>3. CASE DeleteUserService(r)
  <2>1. req[r].svc \in Services
    BY <1>0, <1>3 DEF DeleteUserService, Rest, RequestsNameRows, NamesRows
  <2>2. /\ svc'[req[r].svc].row = "gone"
        /\ \A s \in Services : s # req[r].svc => svc'[s] = svc[s]
    BY <1>0, <1>3, <2>1 DEF DeleteUserService, NoService, TypeOK
  <2>3. \A h \in Offers : offers'[h].status = "gone" \/ offers'[h] = offers[h]
    BY <1>3 DEF DeleteUserService
  <2>4. QED
    BY <2>2, <2>3 DEF Quiet, StaysAnswered
<1>4. CASE AcceptCommit(r)
  <2>1. PICK s \in Services, h \in Offers :
          /\ s = req[r].svc /\ h = req[r].offer
          /\ There(s) /\ ~InScenario(s) /\ Ends(r, s) /\ svc'[s].owner = req[r].to
          /\ offers[h].status = "pending" /\ offers[h].svc = s
          /\ offers[h].to = req[r].to /\ offers[h].from = svc[s].owner
          /\ offers[h].from # req[r].to
          /\ offers'[h] = [offers[h] EXCEPT !.status = "accepted"]
          /\ \A k \in Offers : k # h => offers'[k] = offers[k]
    BY ZenonT(60), <1>0, <1>4, AcceptMoves
  <2>2. /\ offers'[h].svc = s /\ offers'[h].from = svc[s].owner
        /\ offers'[h].to = svc'[s].owner /\ offers'[h].status = "accepted"
    BY <1>0, <2>1, AnswerKeepsNames
  <2>3. Moves(s, h)
    BY <2>1, <2>2 DEF Moves, Ends, Closed, StaysAnswered
  <2>4. QED
    BY <2>3
<1>5. CASE \E h \in Offers : OfferInsert(r, h)
  <2>1. PICK h \in Offers : OfferInsert(r, h)
    BY <1>5
  <2>2. Inserts(req[r].svc, h) /\ offers'[h].status = "pending" /\ UNCHANGED svc
    BY <1>0, <2>1, OfferInserts
  <2>3. QED
    BY <2>2 DEF Quiet, Inserts, StaysAnswered, Closed
<1>6. CASE \E h \in Offers : TransferCommit(r, h)
  <2>1. PICK h \in Offers : TransferCommit(r, h)
    BY <1>6
  <2>2. PICK s \in Services :
          /\ s = req[r].svc /\ There(s) /\ ~InScenario(s)
          /\ Inserts(s, h) /\ Ends(r, s)
          /\ svc'[s].owner = req[r].to /\ svc[s].owner # req[r].to
          /\ offers'[h].status = "accepted"
          /\ offers'[h].from = svc[s].owner /\ offers'[h].to = req[r].to
    BY <1>0, <2>1, TransferInserts
  <2>3. Moves(s, h)
    BY <2>2 DEF Moves, Inserts, Ends, Closed, StaysAnswered
  <2>4. QED
    BY <2>3
<1>7. QED
  BY <1>1, <1>2, <1>3, <1>4, <1>5, <1>6
     DEF RequestStep, WriteScenario, LockService, AcceptJudge, TransferJudge, AcceptBegin, Abort

\* The same of every step.
LEMMA StepMoves ==
  ASSUME Inv, [Next]_vars
  PROVE  Quiet \/ \E s \in Services, h \in Offers : Moves(s, h)
<1>1. CASE \E u \in Users : UserStep(u)
  BY <1>1, UserStepQuiet
<1>2. CASE \E r \in Requests : RequestStep(r)
  BY <1>2, RequestStepMoves
<1>3. CASE \E h \in Offers : Cancel(h) \/ Decline(h)
  <2>1. PICK h \in Offers : Cancel(h) \/ Decline(h)
    BY <1>3
  <2>2. /\ offers[h].status = "pending" /\ offers'[h].status \in {"cancelled", "declined"}
        /\ \A k \in Offers : k # h => offers'[k] = offers[k]
        /\ UNCHANGED svc
    BY <2>1, DecideRest DEF Inv, Rest
  <2>3. QED
    BY <2>2 DEF Quiet, StaysAnswered, Closed
<1>4. CASE Tick \/ UNCHANGED vars
  <2>1. UNCHANGED <<svc, offers>>
    BY <1>4 DEF Tick, vars
  <2>2. QED
    BY <2>1, SameOffersStay DEF Quiet
<1>5. QED
  BY <1>1, <1>2, <1>3, <1>4 DEF Next

\* Every change of owner is recorded by exactly one handover that becomes
\* accepted, and none becomes accepted otherwise, for any number of users,
\* services, offers and concurrent requests.
THEOREM MovesRecorded == Spec => MovesAreRecorded
<1>1. Inv /\ [Next]_vars => [\A s \in Services : MoveIsRecorded(s)]_vars
  <2>1. SUFFICES ASSUME Inv, [Next]_vars, NEW s \in Services PROVE MoveIsRecorded(s)
    OBVIOUS
  <2>2. CASE Quiet
    BY <2>2 DEF Quiet, MoveIsRecorded, NewlyAccepted
  <2>3. CASE \E x \in Services, h \in Offers : Moves(x, h)
    <3>1. PICK x \in Services, h \in Offers : Moves(x, h)
      BY <2>3
    <3>2. CASE x = s
      <4>1. NewlyAccepted(s) = {h}
        BY <3>1, <3>2 DEF Moves, NewlyAccepted, Closed
      <4>2. QED
        BY <3>1, <3>2, <4>1 DEF Moves, MoveIsRecorded
    <3>3. CASE x # s
      <4>1. NewlyAccepted(s) = {}
        BY <3>1, <3>3 DEF Moves, NewlyAccepted
      <4>2. QED
        BY <3>1, <3>3, <4>1 DEF Moves, MoveIsRecorded
    <3>4. QED
      BY <3>2, <3>3
  <2>4. QED
    BY <2>1, <2>2, <2>3, StepMoves
<1>2. QED
  BY <1>1, HandoversInvariant, PTL DEF Spec, MovesAreRecorded

\* A closed offer stays closed the way it was closed.
THEOREM OffersAnsweredOnce == Spec => AnsweredOnce
<1>1. Inv /\ [Next]_vars => [\A h \in Offers : StaysAnswered(h)]_vars
  BY StepMoves DEF Quiet, Moves, StaysAnswered
<1>2. QED
  BY <1>1, HandoversInvariant, PTL DEF Spec, AnsweredOnce

\* No service changes hands while a scenario has it.
THEOREM MovesLeaveScenarios == Spec => MovesOutsideScenarios
<1>1. Inv /\ [Next]_vars => [\A s \in Services : MovesOutsideScenario(s)]_vars
  BY StepMoves DEF Quiet, Moves, MovesOutsideScenario
<1>2. QED
  BY <1>1, HandoversInvariant, PTL DEF Spec, MovesOutsideScenarios

============================================================================
