----------------------------- MODULE Accounts -----------------------------
(***************************************************************************)
(* Accounts, their sessions and the links (invites and password resets)    *)
(* that set a password: who can sign in, which sessions a change of the     *)
(* account ends, and which links still work.                               *)
(*                                                                         *)
(* An email stands for its account, a token for its row.  A password is     *)
(* hashed with a fresh salt, so a hash is a version number; 0 is the empty  *)
(* hash of an invited account, which no password verifies against.  Each    *)
(* statement of a handler that another request can come between is a step:  *)
(* the session lookup, the credential lookup, the transaction.  A           *)
(* transaction that locks the users row first is one step.  The two that    *)
(* lock links are a step per lock: a redeem claims its link, locks the      *)
(* account and deletes the other links one by one, a reset deletes the      *)
(* links that it saw one by one, and what they did shows when they commit.  *)
(* Whoever needs a row that another transaction holds waits for its end;    *)
(* the database fails one of the requests that wait for each other.         *)
(*                                                                         *)
(* era, born, seen, dead and overtaken are history: they count the changes  *)
(* of an account that end its sessions and remember what a request began    *)
(* from.                                                                   *)
(***************************************************************************)
EXTENDS Naturals, Sequences, FiniteSets

CONSTANTS
  Users,         \* email addresses
  Bootstrap,     \* cfg.BootstrapAdminEmail
  Requests,      \* requests running at the same time
  Patches,       \* bodies of PatchUser
  MaxRequests    \* bound: requests that are served

Change == {"promote", "demote", "enable", "disable"}

\* is_admin and disabled are set independently, each to one value.
ASSUME AccountsAssumption ==
  /\ Bootstrap \in Users /\ MaxRequests \in Nat
  /\ \A p \in Patches : /\ p # {} /\ p \subseteq Change
                        /\ ~({"promote", "demote"} \subseteq p)
                        /\ ~({"enable", "disable"} \subseteq p)

VARIABLES
  users,      \* the users table
  sessions,   \* the sessions table, in the order of creation
  links,      \* the account_tokens table, in the order of creation
  req,        \* the requests
  served,     \* how many requests there have been
  dead,       \* history: links that must not work any more
  overtaken   \* history: a patch landed whose caller was no admin any more

vars == <<users, sessions, links, req, served, dead, overtaken>>

User    == [there : BOOLEAN, admin : BOOLEAN, disabled : BOOLEAN,
            hash : Nat, era : Nat]
Session == [user : Users, row : {"live", "expired", "gone"}, born : Nat]
Link    == [user : Users, purpose : {"invite", "reset"},
            row : {"live", "expired", "used", "gone"}]
Steps   == {"idle", "login", "revoke", "change", "verified", "create", "invite",
            "patch", "reset", "invalidating", "redeem", "claimed", "clearing"}
\* A DELETE of links has the rows that it has still to visit, and those that it
\* has deleted and its transaction holds.
Request == [pc : Steps, user : Users, sess : Nat, link : Nat, hash : Nat,
            era : Nat, seen : Nat, doomed : SUBSET Nat, held : SUBSET Nat,
            patch : SUBSET Change]

NoUser == [there |-> FALSE, admin |-> FALSE, disabled |-> FALSE, hash |-> 0, era |-> 0]
Idle   == [pc |-> "idle", user |-> Bootstrap, sess |-> 0, link |-> 0, hash |-> 0,
           era |-> 0, seen |-> 0, doomed |-> {}, held |-> {}, patch |-> {}]

Init ==
  /\ users = [u \in Users |-> NoUser]
  /\ sessions = <<>> /\ links = <<>>
  /\ req = [r \in Requests |-> Idle]
  /\ served = 0
  /\ dead = {} /\ overtaken = FALSE

----------------------------------------------------------------------------
\* The row, its expiry and the account's flag, in one query.
GetSessionUser(s) == sessions[s].row = "live" /\ ~users[sessions[s].user].disabled

\* The bearer token names a session; the user is read once per request.
RequireAuth(s) == s \in DOMAIN sessions /\ GetSessionUser(s)

RequireAdmin(s) == RequireAuth(s) /\ users[sessions[s].user].admin

\* VerifyPassword, given the right password: the empty hash matches none.
VerifyPassword(u) == users[u].hash # 0

\* GetUserCredentialsByEmail finds the account and the password matches.
CanVerify(u) == users[u].there /\ ~users[u].disabled /\ VerifyPassword(u)

\* liveAccountToken
LinkWorks(l) == links[l].row = "live" /\ ~users[links[l].user].disabled

Unused(l) == links[l].row \in {"live", "expired"}

Busy(r) == req[r].pc # "idle"

Deleting(r) == req[r].pc \in {"invalidating", "clearing"}

\* The row locks that a transaction keeps to its end: of a link that it has
\* claimed or deleted ...
LockedBy(r, l) ==
  \/ req[r].pc \in {"claimed", "clearing"} /\ req[r].link = l
  \/ Deleting(r) /\ l \in req[r].held

\* Mutant of AccountLockedBy: a reset locks the account before it deletes links.
AccountLockedByReset(r, u) == Deleting(r) /\ req[r].user = u

\* ... and of the account whose password it has set.
AccountLockedBy(r, u) == req[r].pc = "clearing" /\ req[r].user = u

\* The row that a DELETE of links comes to next.
IsNext(r, l) == Deleting(r) /\ \A k \in req[r].doomed : l <= k

\* r needs a row that q has locked.
Waits(r, q) ==
  /\ q # r
  /\ \/ req[r].pc = "redeem" /\ LockedBy(q, req[r].link)
     \/ req[r].pc \in {"claimed", "verified", "patch"} /\ AccountLockedBy(q, req[r].user)
     \/ \E l \in req[r].doomed : IsNext(r, l) /\ LockedBy(q, l)

Waiting(r) == \E q \in Requests : Waits(r, q)

\* r is one of some requests that wait for each other.
Deadlocked(r) ==
  \E S \in SUBSET Requests :
    r \in S /\ \A q \in S : (\E p \in S : Waits(q, p)) /\ (\E p \in S : Waits(p, q))

\* An account with a hash; every way to get one mints a new one.
Created(u, admin, hash) == [users EXCEPT ![u] =
  [there |-> TRUE, admin |-> admin, disabled |-> FALSE, hash |-> hash, era |-> 0]]

\* The sessions once those of u are deleted, all but the one that is kept.
Revoked(u, keep) == [s \in DOMAIN sessions |->
  IF sessions[s].user # u THEN sessions[s]
  ELSE IF s = keep THEN [sessions[s] EXCEPT !.born = users[u].era + 1]
  ELSE [sessions[s] EXCEPT !.row = "gone"]]

NewSession(u, era) == [user |-> u, row |-> "live", born |-> era]
NewLink(u, p)      == [user |-> u, purpose |-> p, row |-> "live"]

Begin(r, fields) ==
  /\ ~Busy(r) /\ served < MaxRequests
  /\ req' = [req EXCEPT ![r] = fields]
  /\ served' = served + 1
Goto(r, fields) == req' = [req EXCEPT ![r] = fields] /\ UNCHANGED served
Answer(r)       == req' = [req EXCEPT ![r] = Idle] /\ UNCHANGED served

----------------------------------------------------------------------------
(* Boot *)

\* main: bootstrapAdmin provisions the first administrator, and
\* DeleteExpiredSessions runs.  A restart ends the requests of the process
\* before it, and their transactions.
Boot ==
  /\ users' = IF users[Bootstrap].there THEN users ELSE Created(Bootstrap, TRUE, 1)
  /\ sessions' = [s \in DOMAIN sessions |->
       IF sessions[s].row = "expired" THEN [sessions[s] EXCEPT !.row = "gone"] ELSE sessions[s]]
  /\ req' = [r \in Requests |-> Idle]
  /\ UNCHANGED <<links, served, dead, overtaken>>

ExpireSession(s) ==
  /\ sessions[s].row = "live"
  /\ sessions' = [sessions EXCEPT ![s] = [@ EXCEPT !.row = "expired"]]
  /\ UNCHANGED <<users, links, req, served, dead, overtaken>>

ExpireLink(l) ==
  /\ links[l].row = "live"
  /\ links' = [links EXCEPT ![l] = [@ EXCEPT !.row = "expired"]]
  /\ UNCHANGED <<users, sessions, req, served, dead, overtaken>>

----------------------------------------------------------------------------
(* Signing in and out *)

\* Login reads the credentials and compares the password ...
LoginBegin(r, u) ==
  /\ CanVerify(u)
  /\ Begin(r, [Idle EXCEPT !.pc = "login", !.user = u])
  /\ UNCHANGED <<users, sessions, links, dead, overtaken>>

\* ... and inserts the session, whatever has become of the account.
CreateSession(r) ==
  LET u == req[r].user IN
  /\ req[r].pc = "login"
  /\ sessions' = Append(sessions, NewSession(u, users[u].era))
  /\ Answer(r)
  /\ UNCHANGED <<users, links, dead, overtaken>>

Logout(s) ==
  /\ RequireAuth(s)
  /\ sessions' = [sessions EXCEPT ![s] = [@ EXCEPT !.row = "gone"]]
  /\ UNCHANGED <<users, links, req, served, dead, overtaken>>

RevokeAllBegin(r, s) ==
  /\ RequireAuth(s)
  /\ Begin(r, [Idle EXCEPT !.pc = "revoke", !.user = sessions[s].user, !.sess = s])
  /\ UNCHANGED <<users, sessions, links, dead, overtaken>>

DeleteUserSessions(r) ==
  LET u == req[r].user IN
  /\ req[r].pc = "revoke"
  /\ sessions' = Revoked(u, 0)
  /\ users' = [users EXCEPT ![u].era = @ + 1]
  /\ Answer(r)
  /\ UNCHANGED <<links, dead, overtaken>>

----------------------------------------------------------------------------
(* Changing the password *)

\* RequireAuth looks the session up ...
ChangeBegin(r, s) ==
  /\ RequireAuth(s)
  /\ Begin(r, [Idle EXCEPT !.pc = "change", !.user = sessions[s].user, !.sess = s])
  /\ UNCHANGED <<users, sessions, links, dead, overtaken>>

\* ... the handler reads the stored hash and compares the current password ...
ChangeVerify(r) ==
  LET u == req[r].user IN
  /\ req[r].pc = "change"
  /\ IF CanVerify(u) THEN Goto(r, [req[r] EXCEPT !.pc = "verified", !.hash = users[u].hash,
                                                !.era = users[u].era])
     ELSE Answer(r)
  /\ UNCHANGED <<users, sessions, links, dead, overtaken>>

\* Mutant of StillEntitled: without the EXISTS (SELECT 1 FROM sessions ...).
StillEntitledWithoutSession(r) ==
  LET u == req[r].user IN users[u].hash = req[r].hash /\ ~users[u].disabled

\* The WHERE of Repo.ChangePassword.
StillEntitled(r) ==
  LET u == req[r].user IN
  /\ users[u].hash = req[r].hash /\ ~users[u].disabled
  /\ sessions[req[r].sess].row = "live"

\* ... and Repo.ChangePassword writes the new hash and deletes the other
\* sessions, or changes nothing.
ChangePassword(r) ==
  LET u == req[r].user IN
  /\ req[r].pc = "verified" /\ ~Waiting(r)
  /\ \/ /\ StillEntitled(r)
        /\ users' = [users EXCEPT ![u].hash = @ + 1, ![u].era = @ + 1]
        /\ sessions' = Revoked(u, req[r].sess)
     \/ /\ ~StillEntitled(r)
        /\ UNCHANGED <<users, sessions>>
  /\ Answer(r)
  /\ UNCHANGED <<links, dead, overtaken>>

----------------------------------------------------------------------------
(* Administration.  The role is checked by RequireAdmin, before the handler. *)

CreateUserBegin(r, s, u, role) ==
  /\ RequireAdmin(s) /\ ~users[u].there
  /\ Begin(r, [Idle EXCEPT !.pc = "create", !.user = u, !.sess = s, !.patch = role])
  /\ UNCHANGED <<users, sessions, links, dead, overtaken>>

InviteBegin(r, s, u, role) ==
  /\ RequireAdmin(s) /\ ~users[u].there
  /\ Begin(r, [Idle EXCEPT !.pc = "invite", !.user = u, !.sess = s, !.patch = role])
  /\ UNCHANGED <<users, sessions, links, dead, overtaken>>

\* The unique email decides between two that passed the check.
CreateUser(r) ==
  LET u == req[r].user IN
  /\ req[r].pc = "create"
  /\ users' = IF users[u].there THEN users ELSE Created(u, "promote" \in req[r].patch, 1)
  /\ Answer(r)
  /\ UNCHANGED <<sessions, links, dead, overtaken>>

CreateInvite(r) ==
  LET u == req[r].user IN
  /\ req[r].pc = "invite"
  /\ IF users[u].there THEN UNCHANGED <<users, links>>
     ELSE /\ users' = Created(u, "promote" \in req[r].patch, 0)
          /\ links' = Append(links, NewLink(u, "invite"))
  /\ Answer(r)
  /\ UNCHANGED <<sessions, dead, overtaken>>

\* Mutant of SelfLockout: an administrator may demote themselves.
SelfLockoutByDisabling(caller, u, p) == caller = u /\ "disable" \in p

\* The 409 of PatchUser.
SelfLockout(caller, u, p) == caller = u /\ p \cap {"demote", "disable"} # {}

PatchBegin(r, s, u, p) ==
  /\ RequireAdmin(s) /\ ~SelfLockout(sessions[s].user, u, p)
  /\ users[u].there
  /\ Begin(r, [Idle EXCEPT !.pc = "patch", !.user = u, !.sess = s, !.patch = p])
  /\ UNCHANGED <<users, sessions, links, dead, overtaken>>

\* Repo.PatchUser and setUserDisabled, under the row lock of the account.
PatchUser(r) ==
  LET u == req[r].user
      p == req[r].patch
      caller == users[sessions[req[r].sess].user]
      off == "disable" \in p
  IN
  /\ req[r].pc = "patch" /\ ~Waiting(r)
  /\ users' = [users EXCEPT
       ![u].admin    = (@ \/ "promote" \in p) /\ "demote" \notin p,
       ![u].disabled = (@ \/ off) /\ "enable" \notin p,
       ![u].era      = IF off THEN @ + 1 ELSE @]
  /\ sessions' = IF off THEN Revoked(u, 0) ELSE sessions
  /\ overtaken' = (overtaken \/ ~caller.admin \/ caller.disabled)
  /\ Answer(r)
  /\ UNCHANGED <<links, dead>>

----------------------------------------------------------------------------
(* Reset links.  Two of them may be issued at the same time. *)

ResetBegin(r, s, u) ==
  /\ RequireAdmin(s) /\ users[u].there
  /\ Begin(r, [Idle EXCEPT !.pc = "reset", !.user = u, !.sess = s, !.seen = Len(links)])
  /\ UNCHANGED <<users, sessions, links, dead, overtaken>>

\* The rows that the DELETE of CreateResetToken matches when it starts.
DoomedBy(u) == {l \in DOMAIN links : /\ links[l].user = u /\ Unused(l)
                                     /\ links[l].purpose = "reset"}

Invalidate(r) ==
  /\ req[r].pc = "reset"
  /\ Goto(r, [req[r] EXCEPT !.pc = "invalidating", !.doomed = DoomedBy(req[r].user)])
  /\ UNCHANGED <<users, sessions, links, dead, overtaken>>

\* A DELETE, of a reset or of a redeem, waits for the row that it comes to and
\* then checks it again.
DeleteLink(r) ==
  /\ ~Waiting(r)
  /\ \E l \in req[r].doomed :
       /\ IsNext(r, l)
       /\ Goto(r, [req[r] EXCEPT !.doomed = @ \ {l},
                                 !.held = IF Unused(l) THEN @ \cup {l} ELSE @])
  /\ UNCHANGED <<users, sessions, links, dead, overtaken>>

\* The links once the transaction of r has committed: its own is used, those
\* that it deleted are gone.
Committed(r) == [l \in DOMAIN links |->
  IF l \in req[r].held THEN [links[l] EXCEPT !.row = "gone"]
  ELSE IF LockedBy(r, l) THEN [links[l] EXCEPT !.row = "used"]
  ELSE links[l]]

\* The new link is inserted; links that were inserted since the DELETE started
\* stay.
CreateResetToken(r) ==
  LET u == req[r].user IN
  /\ req[r].pc = "invalidating" /\ req[r].doomed = {}
  /\ links' = Append(Committed(r), NewLink(u, "reset"))
  /\ dead' = dead \cup {l \in 1..req[r].seen : links[l].user = u /\ links[l].purpose = "reset"}
  /\ Answer(r)
  /\ UNCHANGED <<users, sessions, overtaken>>

----------------------------------------------------------------------------
(* Redeeming a link *)

\* GetAccountToken finds the link, for its email only ...
RedeemBegin(r, l) ==
  /\ LinkWorks(l)
  /\ Begin(r, [Idle EXCEPT !.pc = "redeem", !.link = l, !.user = links[l].user])
  /\ UNCHANGED <<users, sessions, links, dead, overtaken>>

\* ... the transaction checks it again as it locks it, after waiting for
\* another that has it, or answers 404 ...
ClaimLink(r) ==
  /\ req[r].pc = "redeem" /\ ~Waiting(r)
  /\ IF LinkWorks(req[r].link) THEN Goto(r, [req[r] EXCEPT !.pc = "claimed"])
     ELSE Answer(r)
  /\ UNCHANGED <<users, sessions, links, dead, overtaken>>

\* Mutant of Outstanding: the other links of the account stay.
OutstandingNone(u, l) == {}

\* The rows that the DELETE of a redeem matches when it starts.
Outstanding(u, l) == {k \in DOMAIN links \ {l} : links[k].user = u /\ Unused(k)}

\* ... sets the password, even of an account disabled since the claim, under
\* the lock of the account, deletes its sessions and starts to delete its other
\* links ...
SetPassword(r) ==
  /\ req[r].pc = "claimed" /\ ~Waiting(r)
  /\ Goto(r, [req[r] EXCEPT !.pc = "clearing", !.seen = Len(links),
                            !.doomed = Outstanding(req[r].user, req[r].link)])
  /\ UNCHANGED <<users, sessions, links, dead, overtaken>>

\* Mutant of RedeemedSessions: the sessions of the account stay.
RedeemedSessionsKept(u) == Append(sessions, NewSession(u, users[u].era + 1))

RedeemedSessions(u) == Append(Revoked(u, 0), NewSession(u, users[u].era + 1))

\* ... and signs the caller in as it commits.
RedeemAccountToken(r) ==
  LET u == req[r].user IN
  /\ req[r].pc = "clearing" /\ req[r].doomed = {}
  /\ users' = [users EXCEPT ![u].hash = @ + 1, ![u].era = @ + 1]
  /\ sessions' = RedeemedSessions(u)
  /\ links' = Committed(r)
  /\ dead' = dead \cup {k \in 1..req[r].seen : links[k].user = u}
  /\ Answer(r)
  /\ UNCHANGED overtaken

\* The database ends a deadlock by failing one of its requests: a redeem or a
\* reset answers 500 and has changed nothing.
Abort(r) ==
  /\ Deadlocked(r)
  /\ Answer(r)
  /\ UNCHANGED <<users, sessions, links, dead, overtaken>>

----------------------------------------------------------------------------
\* What a request does once it has begun.
Step(r) ==
  \/ CreateSession(r) \/ DeleteUserSessions(r)
  \/ ChangeVerify(r) \/ ChangePassword(r)
  \/ CreateUser(r) \/ CreateInvite(r) \/ PatchUser(r)
  \/ Invalidate(r) \/ DeleteLink(r) \/ CreateResetToken(r)
  \/ ClaimLink(r) \/ SetPassword(r) \/ RedeemAccountToken(r) \/ Abort(r)

Arrive(r) ==
  \/ \E u \in Users : LoginBegin(r, u)
  \/ \E l \in DOMAIN links : RedeemBegin(r, l)
  \/ \E s \in DOMAIN sessions :
       \/ RevokeAllBegin(r, s) \/ ChangeBegin(r, s)
       \/ \E u \in Users :
            \/ ResetBegin(r, s, u)
            \/ \E p \in Patches : PatchBegin(r, s, u, p)
            \/ \E role \in {{}, {"promote"}} :
                 CreateUserBegin(r, s, u, role) \/ InviteBegin(r, s, u, role)

Next ==
  \/ Boot
  \/ \E r \in Requests : Arrive(r) \/ Step(r)
  \/ \E s \in DOMAIN sessions : Logout(s) \/ ExpireSession(s)
  \/ \E l \in DOMAIN links : ExpireLink(l)

Spec == Init /\ [][Next]_vars

----------------------------------------------------------------------------
\* The rows and the requests have their types; sessions and links are never
\* more than the requests that made them.
TypeOK ==
  /\ users \in [Users -> User]
  /\ \A s \in DOMAIN sessions : sessions[s] \in Session
  /\ \A l \in DOMAIN links : links[l] \in Link
  /\ \A r \in Requests : req[r] \in Request
  /\ DOMAIN req = Requests
  /\ served \in 0..MaxRequests /\ Len(sessions) <= served /\ Len(links) <= served
  /\ dead \subseteq DOMAIN links /\ overtaken \in BOOLEAN

\* A link is worthless once it has been redeemed, once another link of the
\* account has been redeemed by a request that came to delete links after it was
\* issued, and (a reset link) once a request that began after it was issued has
\* issued another: whatever redeems and resets of the account wait for each
\* other's rows, and whichever of them the database aborts
\* (accounttoken.go: "Only the newest reset link works", "The claim is the
\* single-use guarantee").
DeadLinksStayDead == \A l \in dead : links[l].row # "live"

\* No session outlives a change of its account that ends sessions: a session
\* that was there when the password was changed from another session or by a
\* link, when the account was disabled or when its owner revoked all sessions
\* never authenticates again, not even after the account is enabled again
\* (postgres.go: "a stolen session cannot outlive the password change").
\* (With the types.)
NoSessionOutlivesRevocation ==
  /\ TypeOK
  /\ \A s \in DOMAIN sessions :
       RequireAuth(s) => sessions[s].born = users[sessions[s].user].era

\* A step of ChangePassword that changes the password.
ChangesPassword(r) ==
  /\ req[r].pc = "verified" /\ req'[r].pc = "idle"
  /\ users'[req[r].user].hash # users[req[r].user].hash

\* A password change lands only if nothing has ended the presenting session
\* since it was looked up, nor the account's sessions since the password was
\* compared: not another password change, not a redeemed link, not a disabling
\* (enabled again or not) and not a revocation of all sessions, although each
\* of them leaves a different trace.
NoChangeAcrossRevocation ==
  [][\A r \in Requests : ChangesPassword(r) =>
       LET era == users[req[r].user].era IN
       req[r].era = era /\ sessions[req[r].sess].born = era]_vars

EnabledAdmin(u) ==
  users[u].there /\ users[u].admin /\ ~users[u].disabled /\ users[u].hash # 0

\* Once the first account exists an administrator who can sign in remains,
\* unless a patch landed whose caller had lost the role or was disabled between
\* RequireAdmin and the write: two administrators who demote each other at the
\* same time leave none (admin.go says of the refusal to demote oneself that it
\* "is what keeps the last admin from locking everyone out").
AdminRemains ==
  (\E u \in Users : users[u].there) => overtaken \/ \E u \in Users : EnabledAdmin(u)

\* A redeem or a reset fails for a deadlock only where two links of the account
\* are unused at that time (an invite beside a reset link, or two reset links
\* issued at the same time): a redeem locks its link before the account and the
\* other links, a reset locks links and never the account, so one link is not
\* enough for a circle, whoever redeems it, reissues it, patches the account or
\* changes its password meanwhile.
DeadlockNeedsTwoLinks ==
  \A r \in Requests : Deadlocked(r) =>
    \E k, l \in DOMAIN links :
      /\ k # l /\ Unused(k) /\ Unused(l)
      /\ links[k].user = req[r].user /\ links[l].user = req[r].user

=============================================================================
