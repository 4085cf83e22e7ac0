----------------------------- MODULE Handovers -----------------------------
(***************************************************************************)
(* Who owns an authored service: offers that a recipient accepts, moves an  *)
(* administrator forces, and the requests of owners that were authorised    *)
(* before a move and write after it.                                        *)
(*                                                                         *)
(* A move holds the service's row (SELECT ... FOR UPDATE) from its lock to  *)
(* its end, an accept the offer's row too.  An update or a deletion of the  *)
(* service waits for that lock, and so does every insert that references    *)
(* the service, such as an offer or a membership.  now() is the start of a  *)
(* transaction; expiry is judged by it.  A route stands for its owner.  The *)
(* compile jobs, whose owner_id a move rewrites, are left out: no property  *)
(* is about who may poll them.                                             *)
(***************************************************************************)
EXTENDS Naturals, FiniteSets

CONSTANTS
  Users, Admins,   \* accounts, and those with is_admin
  Services,        \* ids of authored services
  RouteOwners,     \* owners of the routes there are, None for curated ones
  Scenarios,       \* ids of user scenarios
  Offers,          \* ids of service_handovers rows
  Requests,        \* requests running at the same time
  None,            \* nobody, nothing
  TTL,             \* HandoverTTL
  MaxTime          \* bound: the database's clock

ASSUME HandoversAssumption ==
  /\ Admins \subseteq Users /\ RouteOwners \subseteq Users \cup {None}
  /\ None \notin Users \cup Services \cup Scenarios \cup Offers
  /\ TTL \in Nat \ {0} /\ MaxTime \in Nat

VARIABLES
  svc,        \* user_services
  offers,     \* service_handovers
  scenarios,  \* user_scenarios and user_scenario_services
  disabled,   \* accounts with disabled_at
  req,        \* the requests
  now         \* the database's clock

vars == <<svc, offers, scenarios, disabled, req, now>>

Row     == {"none", "there", "gone"}
Service == [row : Row, owner : Users \cup {None},
            route : Users \cup {None}]  \* its route's owner, None if curated
Offer   == [status : {"none", "pending", "accepted", "declined", "cancelled",
                      "expired", "gone"},
            svc : Services \cup {None}, from : Users \cup {None},
            to : Users \cup {None}, expires : Nat]
Scenario == [row : Row, owner : Users \cup {None}, members : SUBSET Services]
Steps   == {"idle", "edit", "delete", "offer",
            "create scenario", "update scenario",
            "accept", "accept locked", "accept judged",
            "transfer", "transfer locked", "transfer judged"}
Request == [pc : Steps, svc : Services \cup {None},
            from : Users \cup {None},       \* the owner it has read
            to : Users \cup {None}, route : Users \cup {None}, offer : Offers \cup {None},
            scenario : Scenarios \cup {None}, members : SUBSET Services,
            stamp : Nat]                    \* not before its transaction

Idle == [pc |-> "idle", svc |-> None, from |-> None, to |-> None,
         route |-> None, offer |-> None, scenario |-> None, members |-> {}, stamp |-> 0]

NoService(row) == [row |-> row, owner |-> None, route |-> None]

Init ==
  /\ svc = [s \in Services |-> NoService("none")]
  /\ offers = [h \in Offers |-> [status |-> "none", svc |-> None, from |-> None,
                                 to |-> None, expires |-> 0]]
  /\ scenarios = [c \in Scenarios |-> [row |-> "none", owner |-> None, members |-> {}]]
  /\ disabled = {}
  /\ req = [r \in Requests |-> Idle]
  /\ now = 0

----------------------------------------------------------------------------
There(s) == svc[s].row = "there"
Active(u) == u \in Users \ disabled

\* auth.CanAccess: the owner and every administrator.
CanAccess(u, owner) == Active(u) /\ (u \in Admins \/ u = owner)

\* auth.CanReference: curated routes are for everyone.
CanReference(u, owner) == owner = None \/ CanAccess(u, owner)

\* Mutant of Locked: lockUserService reads without FOR UPDATE.
LockedByNobody(s) == FALSE

\* lockUserService: the row locks of the moves under way.
Locked(s) == \E r \in Requests :
  /\ req[r].svc = s
  /\ req[r].pc \in {"accept locked", "accept judged", "transfer locked",
                    "transfer judged"}

\* Mutant of OfferLocked: the accept reads its offer without FOR UPDATE.
OfferLockedByNobody(h) == FALSE

OfferLocked(h) == \E r \in Requests : req[r].pc = "accept judged" /\ req[r].offer = h

LivePending(h, t)    == offers[h].status = "pending" /\ offers[h].expires > t
ExpiredPending(h, t) == offers[h].status = "pending" /\ offers[h].expires <= t

InScenario(s) == \E c \in Scenarios : scenarios[c].row = "there" /\ s \in scenarios[c].members

Begin(r, fields) == req[r].pc = "idle" /\ req' = [req EXCEPT ![r] = fields]
Goto(r, pc)      == req' = [req EXCEPT ![r] = [@ EXCEPT !.pc = pc]]
Answer(r)        == req' = [req EXCEPT ![r] = Idle]

----------------------------------------------------------------------------
(* Services: authorised first, written later. *)

CreateService(u, s, route) ==
  /\ Active(u) /\ CanReference(u, route)
  /\ svc[s].row = "none"
  /\ svc' = [svc EXCEPT ![s] = [row |-> "there", owner |-> u, route |-> route]]
  /\ UNCHANGED <<offers, scenarios, disabled, req, now>>

\* UpdateService loads the service, authorises the caller and checks the route
\* that the caller names ...
EditBegin(r, u, s, route) ==
  /\ There(s) /\ CanAccess(u, svc[s].owner) /\ CanReference(u, route)
  /\ Begin(r, [Idle EXCEPT !.pc = "edit", !.svc = s, !.route = route,
                           !.from = svc[s].owner])
  /\ UNCHANGED <<svc, offers, scenarios, disabled, now>>

\* Mutant of Edited: UpdateUserService writes the owner that was loaded, too.
EditedWithOwner(r, s) == [svc EXCEPT ![s] = [@ EXCEPT !.route = req[r].route,
                                                      !.owner = req[r].from]]

Edited(r, s) == [svc EXCEPT ![s] = [@ EXCEPT !.route = req[r].route]]

\* ... and writes the client's fields, whoever owns the service by then.
UpdateUserService(r) ==
  LET s == req[r].svc IN
  /\ req[r].pc = "edit"
  /\ There(s) /\ ~Locked(s)
  /\ svc' = Edited(r, s)
  /\ Answer(r)
  /\ UNCHANGED <<offers, scenarios, disabled, now>>

\* DeleteService loads the service and authorises the caller ...
DeleteBegin(r, u, s) ==
  /\ There(s) /\ CanAccess(u, svc[s].owner)
  /\ Begin(r, [Idle EXCEPT !.pc = "delete", !.svc = s])
  /\ UNCHANGED <<svc, offers, scenarios, disabled, now>>

\* ... and deletes the row, whoever owns it by then, with its offers and
\* memberships (ON DELETE CASCADE).
DeleteUserService(r) ==
  LET s == req[r].svc IN
  /\ req[r].pc = "delete"
  /\ There(s) /\ ~Locked(s)
  /\ svc' = [svc EXCEPT ![s] = NoService("gone")]
  /\ offers' = [h \in Offers |-> IF offers[h].svc = s
                                 THEN [status |-> "gone", svc |-> None, from |-> None,
                                       to |-> None, expires |-> 0]
                                 ELSE offers[h]]
  /\ scenarios' = [c \in Scenarios |-> [scenarios[c] EXCEPT !.members = @ \ {s}]]
  /\ Answer(r)
  /\ UNCHANGED <<disabled, now>>

----------------------------------------------------------------------------
(* Scenarios. *)

\* validateScenario: the scenario's owner owns every member.
ValidMembers(owner, members) == \A s \in members : There(s) /\ svc[s].owner = owner

\* CreateUserScenario and UpdateUserScenario up to their write.
CreateScenarioBegin(r, u, c, members) ==
  /\ scenarios[c].row = "none" /\ Active(u)
  /\ ValidMembers(u, members)
  /\ Begin(r, [Idle EXCEPT !.pc = "create scenario", !.from = u, !.scenario = c,
                           !.members = members])
  /\ UNCHANGED <<svc, offers, scenarios, disabled, now>>

UpdateScenarioBegin(r, u, c, members) ==
  LET owner == scenarios[c].owner IN
  /\ scenarios[c].row = "there" /\ CanAccess(u, owner)
  /\ ValidMembers(owner, members)
  /\ Begin(r, [Idle EXCEPT !.pc = "update scenario", !.from = owner, !.scenario = c,
                           !.members = members])
  /\ UNCHANGED <<svc, offers, scenarios, disabled, now>>

\* The scenario's row and its membership, whose foreign keys need the services.
WriteScenario(r) ==
  LET c == req[r].scenario IN
  /\ \/ req[r].pc = "create scenario" /\ scenarios[c].row = "none"
     \/ req[r].pc = "update scenario" /\ scenarios[c].row = "there"
  /\ \A s \in req[r].members : There(s) /\ ~Locked(s)
  /\ scenarios' = [scenarios EXCEPT ![c] = [row |-> "there", owner |-> req[r].from,
                                            members |-> req[r].members]]
  /\ Answer(r)
  /\ UNCHANGED <<svc, offers, disabled, now>>

DeleteUserScenario(u, c) ==
  /\ scenarios[c].row = "there" /\ CanAccess(u, scenarios[c].owner)
  /\ scenarios' = [scenarios EXCEPT ![c] = [row |-> "gone", owner |-> None,
                                            members |-> {}]]
  /\ UNCHANGED <<svc, offers, disabled, req, now>>

----------------------------------------------------------------------------
(* Offers. *)

\* OfferHandover up to its insert: no live offer, and a recipient who is active
\* and not the owner.
OfferCheck(r, u, s, to) ==
  /\ There(s) /\ CanAccess(u, svc[s].owner)
  /\ \A h \in Offers : offers[h].svc = s => ~LivePending(h, now)
  /\ Active(to) /\ to # svc[s].owner
  /\ Begin(r, [Idle EXCEPT !.pc = "offer", !.svc = s, !.to = to,
                           !.from = svc[s].owner, !.stamp = now])
  /\ UNCHANGED <<svc, offers, scenarios, disabled, now>>

\* expireStalePending.
ExpireStalePending(s, t) ==
  [h \in Offers |-> IF offers[h].svc = s /\ ExpiredPending(h, t)
                    THEN [offers[h] EXCEPT !.status = "expired"] ELSE offers[h]]

\* OfferServiceHandover: expired offers are closed, and the unique index admits
\* one pending row of the service.  The transaction began at t.
OfferInsert(r, h) == \E t \in req[r].stamp .. now :
  LET s == req[r].svc
      swept == ExpireStalePending(s, t) IN
  /\ req[r].pc = "offer"
  /\ offers[h].status = "none"
  /\ There(s) /\ ~Locked(s)
  /\ \A k \in Offers : swept[k].svc = s => swept[k].status # "pending"
  /\ offers' = [swept EXCEPT ![h] = [status |-> "pending", svc |-> s,
                  from |-> req[r].from, to |-> req[r].to, expires |-> t + TTL]]
  /\ Answer(r)
  /\ UNCHANGED <<svc, scenarios, disabled, now>>

\* decideHandover: the sender cancels, the recipient declines.
Cancel(h) ==
  /\ LivePending(h, now) /\ ~OfferLocked(h)
  /\ Active(offers[h].from)
  /\ offers' = [offers EXCEPT ![h] = [@ EXCEPT !.status = "cancelled"]]
  /\ UNCHANGED <<svc, scenarios, disabled, req, now>>

Decline(h) ==
  /\ LivePending(h, now) /\ ~OfferLocked(h)
  /\ Active(offers[h].to)
  /\ offers' = [offers EXCEPT ![h] = [@ EXCEPT !.status = "declined"]]
  /\ UNCHANGED <<svc, scenarios, disabled, req, now>>

----------------------------------------------------------------------------
(* Moves. *)

\* The recipient accepts: an unlocked read finds the service ...
AcceptBegin(r, h) ==
  /\ offers[h].status \notin {"none", "gone"} /\ Active(offers[h].to)
  /\ Begin(r, [Idle EXCEPT !.pc = "accept", !.offer = h,
                           !.svc = offers[h].svc, !.to = offers[h].to, !.stamp = now])
  /\ UNCHANGED <<svc, offers, scenarios, disabled, now>>

\* ... an administrator moves: the handler's checks ...
TransferBegin(r, u, s, to) ==
  /\ u \in Admins /\ Active(u)
  /\ There(s) /\ Active(to) /\ to # svc[s].owner
  /\ Begin(r, [Idle EXCEPT !.pc = "transfer", !.svc = s, !.to = to,
                           !.stamp = now])
  /\ UNCHANGED <<svc, offers, scenarios, disabled, now>>

\* ... then both lock the service, in a transaction that began at t ...
LockService(r) == \E t \in req[r].stamp .. now :
  LET s == req[r].svc
      Lock(next) == req' = [req EXCEPT ![r] = [@ EXCEPT !.pc = next, !.stamp = t]] IN
  /\ \/ req[r].pc = "accept" /\ Lock("accept locked")
     \/ req[r].pc = "transfer" /\ Lock("transfer locked")
  /\ There(s) /\ ~Locked(s)
  /\ UNCHANGED <<svc, offers, scenarios, disabled, now>>

\* Mutant of SenderOwns: the accept trusts the offer.
SenderOwned(r) == TRUE

\* ... and check under it, the accept after it has locked its offer as well.
SenderOwns(r) == svc[req[r].svc].owner = offers[req[r].offer].from

AcceptJudge(r) ==
  /\ req[r].pc = "accept locked"
  /\ LivePending(req[r].offer, req[r].stamp)
  /\ SenderOwns(r)
  /\ Active(req[r].to)
  /\ ~InScenario(req[r].svc)
  /\ Goto(r, "accept judged")
  /\ UNCHANGED <<svc, offers, scenarios, disabled, now>>

TransferJudge(r) ==
  /\ req[r].pc = "transfer locked"
  /\ svc[req[r].svc].owner # req[r].to
  /\ Active(req[r].to)
  /\ ~InScenario(req[r].svc)
  /\ Goto(r, "transfer judged")
  /\ UNCHANGED <<svc, offers, scenarios, disabled, now>>

\* moveLockedUserService: the new owner gets a copy of a route that somebody
\* else owns.
Moved(s, to) ==
  [svc EXCEPT ![s] = [row |-> @.row, owner |-> to,
                      route |-> IF @.route = None THEN None ELSE to]]

AcceptCommit(r) ==
  /\ req[r].pc = "accept judged"
  /\ svc' = Moved(req[r].svc, req[r].to)
  /\ offers' = [offers EXCEPT ![req[r].offer] = [@ EXCEPT !.status = "accepted"]]
  /\ Answer(r)
  /\ UNCHANGED <<scenarios, disabled, now>>

\* TransferUserService closes the service's pending offer, as expired or as
\* cancelled, and records the move as an accepted handover h.
TransferCommit(r, h) ==
  LET s == req[r].svc
      swept == ExpireStalePending(s, req[r].stamp) IN
  /\ req[r].pc = "transfer judged"
  /\ offers[h].status = "none"
  /\ svc' = Moved(s, req[r].to)
  /\ offers' = [k \in Offers |->
       CASE k = h -> [status |-> "accepted", svc |-> s, from |-> svc[s].owner,
                      to |-> req[r].to, expires |-> req[r].stamp]
         [] k # h /\ swept[k].svc = s /\ swept[k].status = "pending"
                  -> [swept[k] EXCEPT !.status = "cancelled"]
         [] OTHER -> swept[k]]
  /\ Answer(r)
  /\ UNCHANGED <<scenarios, disabled, now>>

\* A refusal, an error, a deadlock the database breaks, or a caller or process
\* that goes away.
Abort(r) ==
  /\ req[r].pc # "idle"
  /\ Answer(r)
  /\ UNCHANGED <<svc, offers, scenarios, disabled, now>>

\* An administrator disables or enables an account, not the own one (PatchUser).
SetUserDisabled(by, u) ==
  /\ by \in Admins /\ Active(by) /\ by # u
  /\ disabled' = IF u \in disabled THEN disabled \ {u} ELSE disabled \cup {u}
  /\ UNCHANGED <<svc, offers, scenarios, req, now>>

Tick ==
  /\ now < MaxTime
  /\ now' = now + 1
  /\ UNCHANGED <<svc, offers, scenarios, disabled, req>>

----------------------------------------------------------------------------
UserStep(u) ==
  \/ \E s \in Services, route \in RouteOwners :
       CreateService(u, s, route) \/ \E r \in Requests : EditBegin(r, u, s, route)
  \/ \E c \in Scenarios : DeleteUserScenario(u, c)
  \/ \E v \in Users : SetUserDisabled(u, v)
  \/ \E r \in Requests, s \in Services :
       \/ DeleteBegin(r, u, s)
       \/ \E to \in Users : OfferCheck(r, u, s, to) \/ TransferBegin(r, u, s, to)
  \/ \E r \in Requests, c \in Scenarios, members \in SUBSET Services :
       CreateScenarioBegin(r, u, c, members) \/ UpdateScenarioBegin(r, u, c, members)

RequestStep(r) ==
  \/ UpdateUserService(r) \/ DeleteUserService(r)
  \/ WriteScenario(r)
  \/ LockService(r) \/ AcceptJudge(r) \/ TransferJudge(r) \/ AcceptCommit(r)
  \/ \E h \in Offers : OfferInsert(r, h) \/ AcceptBegin(r, h) \/ TransferCommit(r, h)
  \/ Abort(r)

Next ==
  \/ \E u \in Users : UserStep(u)
  \/ \E r \in Requests : RequestStep(r)
  \/ \E h \in Offers : Cancel(h) \/ Decline(h)
  \/ Tick

Spec == Init /\ [][Next]_vars

----------------------------------------------------------------------------
(* Properties. *)

Closed == {"accepted", "declined", "cancelled", "expired"}

\* Every variable has its type.
TypeOK ==
  /\ svc \in [Services -> Service]
  /\ offers \in [Offers -> Offer]
  /\ scenarios \in [Scenarios -> Scenario]
  /\ disabled \subseteq Users
  /\ req \in [Requests -> Request]
  /\ now \in Nat

\* Every change of an owner is recorded by one handover that becomes accepted
\* in the same step, from the old owner to the new one, and no handover becomes
\* accepted without such a change, however offers, accepts and forced moves of
\* one service race (AcceptServiceHandover, TransferUserService).
NewlyAccepted(s) ==
  {h \in Offers : /\ offers'[h].status = "accepted" /\ offers[h].status # "accepted"
                  /\ offers'[h].svc = s}
MoveIsRecorded(s) ==
  There(s) /\ svc'[s].row = "there" =>
    IF svc'[s].owner = svc[s].owner THEN NewlyAccepted(s) = {}
    ELSE \E h \in Offers : /\ NewlyAccepted(s) = {h}
                           /\ offers'[h].from = svc[s].owner
                           /\ offers'[h].to = svc'[s].owner
MovesAreRecorded == [][\A s \in Services : MoveIsRecorded(s)]_vars

\* An offer is answered once: when it is closed it stays as it is, unless its
\* service is deleted, however cancel, decline, accept, expiry and a forced move
\* race (the locks of AcceptServiceHandover, livePending).
StaysAnswered(h) == offers[h].status \in Closed
                      => offers'[h].status \in {offers[h].status, "gone"}
AnsweredOnce == [][\A h \in Offers : StaysAnswered(h)]_vars

\* A service changes hands only while it is in no scenario, although the check
\* and the move are two statements (moveLockedUserService).
MovesOutsideScenario(s) ==
  There(s) /\ svc'[s].row = "there" /\ svc'[s].owner # svc[s].owner => ~InScenario(s)
MovesOutsideScenarios == [][\A s \in Services : MovesOutsideScenario(s)]_vars

----------------------------------------------------------------------------
(* What the comments say that the code does not keep. *)

\* moveLockedUserService: "Every member of a scenario must belong to the
\* scenario's owner".
MembersBelongToOwner ==
  \A c \in Scenarios : scenarios[c].row = "there" =>
    \A s \in scenarios[c].members : svc[s].owner = scenarios[c].owner

============================================================================
